------------------------ MODULE CollectionRunProofs ------------------------
(***************************************************************************)
(* Theorems about CollectionRun, for every set of platforms, processes and *)
(* worker ids and every cap on the claims.  Most hold whatever the clock   *)
(* and the heartbeats do; those about one execution at a time need the     *)
(* heartbeats to come in time and not to fail, and CompletedPlatformsStay  *)
(* no live scan.                                                           *)
(***************************************************************************)
EXTENDS CollectionRun, FiniteSetTheorems, TLAPS

\* The smallest fact about executions every step needs: an execution that
\* changes keeps the shape of an execution.
LEMMA ExecTyped ==
    ASSUME NEW x \in Execution, NEW mem \in Checkpoint
    PROVE  /\ Over(x) \in Execution
           /\ [x EXCEPT !.mem = mem] \in Execution
BY DEF Over, Unborn, Execution, Fresh, Idle, Checkpoint, Scan, TaskStates,
       ExecStates, PlatformStatuses

LEMMA UnbornTyped == Unborn \in Execution /\ Fresh \in Checkpoint
BY DEF Unborn, Execution, Fresh, Idle, Checkpoint, Scan, TaskStates, ExecStates,
       PlatformStatuses

\* Starting a pass over some platforms leaves an execution.
LEMMA StartPassTyped ==
    ASSUME NEW x \in Execution, NEW todo \in SUBSET Platforms
    PROVE  StartPass(x, todo) \in Execution
BY DEF StartPass, Execution, TaskStates, ExecStates

LEMMA InitType == Init => TypeOK
<1> SUFFICES ASSUME Init PROVE TypeOK
  OBVIOUS
<1>1. ex \in [Execs -> Execution] /\ progress \in Checkpoint
  BY UnbornTyped DEF Init
<1>2. attempts \in 0 .. MaxClaims
  BY CollectionAssumption DEF Init
<1> QED BY <1>1, <1>2 DEF Init, TypeOK, Statuses

LEMMA TerminalStatusTyped ==
    ASSUME NEW x PROVE TerminalStatus(x) \in Terminal
BY DEF TerminalStatus, Terminal

\* Every step keeps the variables in their types.
LEMMA NextType == TypeOK /\ [Next]_vars => TypeOK'
<1> SUFFICES ASSUME TypeOK, [Next]_vars PROVE TypeOK'
  OBVIOUS
<1> USE CollectionAssumption
<1>1. CASE RecoverExpired \/ FailExhausted \/ LeaseExpires
  BY <1>1 DEF TypeOK, RecoverExpired, FailExhausted, LeaseExpires, CloseRow, Statuses, Terminal
<1>2. CASE CancelRead \/ CancelWrite
  BY <1>2 DEF TypeOK, CancelRead, CancelWrite, row, Statuses, Terminal
<1>3. ASSUME NEW w \in Procs, Claim(w) PROVE TypeOK'
  <2>1. [Unborn EXCEPT !.pc = "start", !.proc = w] \in Execution
    BY UnbornTyped DEF Execution, ExecStates
  <2>2. attempts + 1 \in Execs /\ attempts' \in 0 .. MaxClaims
    BY <1>3 DEF TypeOK, Claim, Claimable, Execs
  <2> QED BY <1>3, <2>1, <2>2 DEF TypeOK, Claim, Statuses
<1>4. ASSUME NEW w \in Procs, ProcessEnds(w) PROVE TypeOK'
  <2>1. ex' \in [Execs -> Execution]
    BY <1>4, ExecTyped DEF ProcessEnds, TypeOK
  <2> QED BY <1>4, <2>1 DEF TypeOK, ProcessEnds, row
<1>5. ASSUME NEW e \in Execs, NEW mem \in Checkpoint, Flush(e, mem)
      PROVE  /\ progress' \in Checkpoint
             /\ UNCHANGED <<status, leaseOwner, lease, cancelRequested, attempts>>
  BY <1>5 DEF Flush, TypeOK
<1>6. ASSUME NEW e \in Execs, NEW p \in Platforms, NEW st \in PlatformStatuses,
             NEW n \in Nat, NEW x \in Execution, Mark(e, p, st, n, x)
      PROVE  /\ ex' \in [Execs -> Execution] /\ progress' \in Checkpoint
             /\ UNCHANGED <<status, leaseOwner, lease, cancelRequested, attempts>>
  <2> DEFINE mem == [ex[e].mem EXCEPT ![p] = [status |-> st, attempts |-> n]]
  <2>1. mem \in Checkpoint
    BY DEF TypeOK, Execution, Checkpoint
  <2>2. Flush(e, mem) /\ ex' = [ex EXCEPT ![e] = [x EXCEPT !.mem = mem]]
    BY <1>6 DEF Mark
  <2> HIDE DEF mem
  <2>3. progress' \in Checkpoint
        /\ UNCHANGED <<status, leaseOwner, lease, cancelRequested, attempts>>
    BY <2>1, <2>2, <1>5
  <2> QED BY <2>1, <2>2, <2>3, ExecTyped DEF TypeOK
<1>7. ASSUME NEW e \in Execs, Work(e) PROVE TypeOK'
  <2> ex[e] \in Execution
    BY DEF TypeOK
  <2>1. CASE BeginExecute(e)
    <3> DEFINE x == [ex[e] EXCEPT !.mem = NormalizeProgress, !.beating = TRUE]
    <3>1. x \in Execution
      BY DEF TypeOK, Execution, NormalizeProgress
    <3>2. [x EXCEPT !.pc = "terminal"] \in Execution /\ StartPass(x, RecoverTodo(x.mem)) \in Execution
      BY <3>1, StartPassTyped DEF Execution, ExecStates, RecoverTodo
    <3> QED BY <2>1, <3>2 DEF BeginExecute, TypeOK, row
  <2>2. CASE EndPass(e)
    <3>1. StartPass(ex[e], RetryTodo(ex[e].mem)) \in Execution
      BY StartPassTyped DEF RetryTodo
    <3>2. [StartPass(ex[e], RetryTodo(ex[e].mem)) EXCEPT !.retrying = TRUE] \in Execution
      BY <3>1 DEF Execution
    <3>3. [ex[e] EXCEPT !.pc = "terminal"] \in Execution
      BY DEF Execution, ExecStates
    <3> QED BY <2>2, <3>2, <3>3 DEF EndPass, TypeOK, row
  <2>3. CASE MarkTerminal(e)
    <3>1. [ex[e] EXCEPT !.pc = "enqueue"] \in Execution /\ Over(ex[e]) \in Execution
      BY ExecTyped, UnbornTyped DEF Execution, ExecStates
    <3>2. TerminalStatus(ex[e]) \in Statuses
      BY TerminalStatusTyped DEF Statuses
    <3> QED BY <2>3, <3>1, <3>2 DEF MarkTerminal, TypeOK, CloseRow
  <2>4. CASE EnqueueAnalysis(e)
    BY <2>4, ExecTyped, UnbornTyped DEF EnqueueAnalysis, TypeOK, row
  <2>5. ASSUME NEW p \in Platforms, AcquireSlot(e, p) \/ CrawlEnds(e, p) PROVE TypeOK'
    <3>1. PICK t \in TaskStates : ex' = [ex EXCEPT ![e].task[p] = t]
      BY <2>5 DEF AcquireSlot, CrawlEnds, TaskStates
    <3>2. [ex[e].task EXCEPT ![p] = t] \in [Platforms -> TaskStates]
      BY DEF Execution
    <3>3. [ex[e] EXCEPT !.task = [ex[e].task EXCEPT ![p] = t]] \in Execution
      BY <3>2 DEF Execution
    <3>4. ex' \in [Execs -> Execution]
      BY <3>1, <3>3 DEF TypeOK
    <3> QED BY <2>5, <3>4 DEF AcquireSlot, CrawlEnds, TypeOK, row
  <2>6. ASSUME NEW p \in Platforms, HandleStarted(e, p) PROVE TypeOK'
    <3>1. /\ ex[e].mem[p].attempts + 1 \in Nat
          /\ [ex[e] EXCEPT !.announced = @ \ {p}] \in Execution
      BY DEF Execution, Checkpoint
    <3> QED BY <2>6, <3>1, <1>6 DEF HandleStarted, TypeOK, PlatformStatuses
  <2>7. ASSUME NEW p \in Platforms, IngestPlatform(e, p) PROVE TypeOK'
    BY <2>7 DEF IngestPlatform, TypeOK, row, Execution, ExecStates
  <2>8. ASSUME NEW p \in Platforms, CheckpointPlatform(e, p) PROVE TypeOK'
    <3>1. /\ ex[e].mem[p].attempts \in Nat
          /\ [ex[e] EXCEPT !.pc = "pass", !.task[p] = "idle", !.ingesting = {}] \in Execution
      BY DEF Execution, Checkpoint, ExecStates, TaskStates
    <3> QED BY <2>8, <3>1, <1>6 DEF CheckpointPlatform, TypeOK, PlatformStatuses
  <2>9. ASSUME NEW p \in Platforms, HandleFailure(e, p) PROVE TypeOK'
    <3>1. /\ ex[e].mem[p].attempts \in Nat
          /\ [ex[e] EXCEPT !.task[p] = "idle"] \in Execution
      BY DEF Execution, Checkpoint, TaskStates
    <3>2. (IF ex[e].task[p] = "error" THEN "failed" ELSE "cancelled") \in PlatformStatuses
      BY DEF PlatformStatuses
    <3> QED BY <2>9, <3>1, <3>2, <1>6 DEF HandleFailure, TypeOK
  <2> QED BY <1>7, <2>1, <2>2, <2>3, <2>4, <2>5, <2>6, <2>7, <2>8, <2>9 DEF Work
<1>8. ASSUME NEW e \in Execs, Heartbeat(e) \/ HeartbeatDies(e) PROVE TypeOK'
  <2>1. ASSUME NEW c \in BOOLEAN, NEW b \in BOOLEAN
        PROVE  [ex[e] EXCEPT !.cancelEvent = c, !.beating = b] \in Execution
    BY DEF TypeOK, Execution
  <2>2. PICK c \in BOOLEAN, b \in BOOLEAN :
           ex' = [ex EXCEPT ![e] = [ex[e] EXCEPT !.cancelEvent = c, !.beating = b]]
    <3>1. CASE Heartbeat(e) /\ Fenced(e)
      <4>1. (ex[e].cancelEvent \/ cancelRequested) \in BOOLEAN /\ ex[e].beating \in BOOLEAN
        BY DEF TypeOK, Execution
      <4>2. ex' = [ex EXCEPT ![e] = [ex[e] EXCEPT !.cancelEvent = ex[e].cancelEvent \/ cancelRequested,
                                                  !.beating = ex[e].beating]]
        BY <3>1 DEF Heartbeat, TypeOK, Execution
      <4> QED BY <4>1, <4>2
    <3>2. CASE Heartbeat(e) /\ ~Fenced(e)
      BY <3>2 DEF Heartbeat, TypeOK
    <3>3. CASE HeartbeatDies(e)
      <4>1. ex[e].cancelEvent \in BOOLEAN
        BY DEF TypeOK, Execution
      <4>2. ex' = [ex EXCEPT ![e] = [ex[e] EXCEPT !.cancelEvent = ex[e].cancelEvent,
                                                  !.beating = FALSE]]
        BY <3>3 DEF HeartbeatDies, TypeOK, Execution
      <4> QED BY <4>1, <4>2
    <3> QED BY <1>8, <3>1, <3>2, <3>3
  <2>3. ex' \in [Execs -> Execution]
    BY <2>1, <2>2 DEF TypeOK
  <2> QED BY <1>8, <2>3 DEF Heartbeat, HeartbeatDies, TypeOK, row
<1>9. ASSUME NEW e \in Execs, ExecuteRaises(e) PROVE TypeOK'
  BY <1>9, ExecTyped, UnbornTyped DEF ExecuteRaises, TypeOK, row
<1>10. ASSUME NEW e \in Execs, NEW p \in Platforms, ScanSend(e, p) PROVE TypeOK'
  <2>1. [by |-> p, mem |-> ex[e].mem] \in Scan
    BY DEF TypeOK, Execution, Scan
  <2>2. [ex[e] EXCEPT !.scan = {[by |-> p, mem |-> ex[e].mem]}] \in Execution
    BY <2>1 DEF TypeOK, Execution
  <2>3. ex' \in [Execs -> Execution]
    BY <1>10, <2>2 DEF ScanSend, TypeOK
  <2> QED BY <1>10, <2>3 DEF ScanSend, TypeOK, row
<1>11. ASSUME NEW e \in Execs, ScanCommit(e) PROVE TypeOK'
  <2>1. PICK sent \in ex[e].scan : Flush(e, sent.mem)
    BY <1>11 DEF ScanCommit
  <2>2. sent.mem \in Checkpoint
    BY <2>1 DEF TypeOK, Execution, Scan
  <2>3. progress' \in Checkpoint
        /\ UNCHANGED <<status, leaseOwner, lease, cancelRequested, attempts>>
    BY <2>1, <2>2, <1>5
  <2> QED BY <1>11, <2>3, ZenonT(40) DEF ScanCommit, TypeOK, Execution
<1>12. ASSUME NEW e \in Execs, ScanDrop(e) PROVE TypeOK'
  BY <1>12, ZenonT(40) DEF ScanDrop, TypeOK, row, Execution
<1>13. CASE UNCHANGED vars
  BY <1>13 DEF TypeOK, vars, row
<1> QED BY <1>1, <1>2, <1>3, <1>4, <1>7, <1>8, <1>9, <1>10, <1>11, <1>12, <1>13 DEF Next

\* Type correctness: every reachable state of the row and of every execution
\* has the shape the code gives it.
THEOREM TypeCorrect == Spec => []TypeOK
<1> QED BY InitType, NextType, PTL DEF Spec

-----------------------------------------------------------------------------
(* Completed platforms have their data.  The checkpoint in the row is only  *)
(* ever a copy of one in memory, now or when a scan was sent, so all of     *)
(* them have to be backed for the one in the row to stay so.                *)

ExecBacked(x, stored) ==
    /\ Done(x.mem) \subseteq stored
    /\ x.ingesting \subseteq stored
    /\ \A sent \in x.scan : Done(sent.mem) \subseteq stored

Backed ==
    /\ CheckpointBacked
    /\ CompletedHasAllData
    /\ \A e \in Execs : ExecBacked(ex[e], persisted)

LEMMA NothingDone == Done(Fresh) = {}
BY DEF Done, Fresh

LEMMA OverBacked ==
    ASSUME NEW x, NEW stored PROVE ExecBacked(Over(x), stored) /\ ExecBacked(Unborn, stored)
BY NothingDone DEF ExecBacked, Over, Unborn

LEMMA InitBacked == Init => Backed
BY OverBacked, NothingDone
   DEF Init, Backed, CheckpointBacked, CompletedHasAllData, DonePlatforms

\* A flush of a backed checkpoint leaves a backed checkpoint in the row.
LEMMA FlushBacked ==
    ASSUME NEW e \in Execs, NEW c, Flush(e, c), Done(c) \subseteq persisted,
           DonePlatforms \subseteq persisted
    PROVE  DonePlatforms' \subseteq persisted
BY DEF Flush, DonePlatforms, Done

\* Marking a platform completed needs its data, any other mark needs nothing.
LEMMA MarkBacked ==
    ASSUME TypeOK, Backed, NEW e \in Execs, NEW p \in Platforms, NEW st, NEW n,
           NEW x \in Execution, x.mem = ex[e].mem, ExecBacked(x, persisted),
           st = "completed" => p \in persisted,
           Mark(e, p, st, n, x), UNCHANGED persisted
    PROVE  Backed'
<1> DEFINE mem == [ex[e].mem EXCEPT ![p] = [status |-> st, attempts |-> n]]
<1>1. Flush(e, mem) /\ ex' = [ex EXCEPT ![e] = [x EXCEPT !.mem = mem]]
  BY DEF Mark
<1>2. Done(mem) \subseteq persisted
  BY DEF Done, TypeOK, Execution, Checkpoint, Backed, ExecBacked
<1> HIDE DEF mem
<1>3. CheckpointBacked'
  BY <1>1, <1>2, FlushBacked DEF Backed, CheckpointBacked
<1>4. CompletedHasAllData'
  BY <1>1 DEF Flush, Backed, CompletedHasAllData
<1>5. ExecBacked([x EXCEPT !.mem = mem], persisted)
  BY <1>2 DEF ExecBacked, Execution
<1>6. \A d \in Execs : ExecBacked(ex'[d], persisted)
  BY <1>1, <1>5 DEF TypeOK, Backed
<1> QED BY <1>3, <1>4, <1>6 DEF Backed

\* A step that leaves the row and the store alone and changes one execution
\* into a backed one.
LEMMA LocalBacked ==
    ASSUME TypeOK, Backed, NEW e \in Execs, NEW x,
           ex' = [ex EXCEPT ![e] = x], ExecBacked(x, persisted),
           UNCHANGED <<progress, persisted>>,
           status' = "completed" => persisted = Platforms
    PROVE  Backed'
<1>1. \A d \in Execs : ExecBacked(ex'[d], persisted)
  BY DEF TypeOK, Backed
<1> QED BY <1>1 DEF Backed, CheckpointBacked, CompletedHasAllData, DonePlatforms

LEMMA NextBacked == TypeOK /\ Backed /\ [Next]_vars => Backed'
<1> SUFFICES ASSUME TypeOK, Backed, [Next]_vars PROVE Backed'
  OBVIOUS
<1>1. CASE RecoverExpired \/ FailExhausted \/ LeaseExpires \/ CancelRead \/ CancelWrite
  <2>1. UNCHANGED <<progress, persisted, ex>> /\ (status' = "completed" => status = "completed")
    BY <1>1 DEF RecoverExpired, FailExhausted, LeaseExpires, CancelRead, CancelWrite,
                CloseRow, row
  <2> QED BY <2>1 DEF Backed, CheckpointBacked, CompletedHasAllData, DonePlatforms
<1>2. ASSUME NEW w \in Procs, Claim(w) PROVE Backed'
  <2>1. attempts + 1 \in Execs
    BY <1>2, CollectionAssumption DEF Claim, Claimable, TypeOK, Execs
  <2>2. ExecBacked([Unborn EXCEPT !.pc = "start", !.proc = w], persisted)
    BY NothingDone DEF ExecBacked, Unborn
  <2> QED BY <1>2, <2>1, <2>2, LocalBacked DEF Claim
<1>3. ASSUME NEW w \in Procs, ProcessEnds(w) PROVE Backed'
  <2>1. \A e \in Execs : ExecBacked(ex'[e], persisted)
    BY <1>3, OverBacked DEF ProcessEnds, Backed
  <2> QED BY <1>3, <2>1
          DEF ProcessEnds, row, Backed, CheckpointBacked, CompletedHasAllData, DonePlatforms
<1>4. ASSUME NEW e \in Execs, Work(e) PROVE Backed'
  <2> DEFINE x == ex[e]
  <2>0. x \in Execution /\ ExecBacked(x, persisted) /\ Done(progress) \subseteq persisted
        /\ (status = "completed" => persisted = Platforms)
    BY DEF TypeOK, Backed, CheckpointBacked, CompletedHasAllData, DonePlatforms
  <2>1. CASE BeginExecute(e)
    <3> DEFINE y == [x EXCEPT !.mem = NormalizeProgress, !.beating = TRUE]
    <3>1. y \in Execution /\ ExecBacked(y, persisted)
      BY <2>0 DEF ExecBacked, Execution, NormalizeProgress, TypeOK
    <3>2. ExecBacked([y EXCEPT !.pc = "terminal"], persisted)
          /\ ExecBacked(StartPass(y, RecoverTodo(y.mem)), persisted)
      BY <3>1 DEF ExecBacked, Execution, StartPass
    <3>3. PICK z : ex' = [ex EXCEPT ![e] = z] /\ ExecBacked(z, persisted)
      BY <2>1, <3>2 DEF BeginExecute
    <3> QED BY <2>0, <2>1, <3>3, LocalBacked DEF BeginExecute, row
  <2>2. CASE EndPass(e)
    <3>1. ExecBacked([x EXCEPT !.pc = "terminal"], persisted)
          /\ ExecBacked([StartPass(x, RetryTodo(x.mem)) EXCEPT !.retrying = TRUE], persisted)
      BY <2>0 DEF ExecBacked, Execution, StartPass
    <3>2. PICK z : ex' = [ex EXCEPT ![e] = z] /\ ExecBacked(z, persisted)
      BY <2>2, <3>1 DEF EndPass
    <3> QED BY <2>0, <2>2, <3>2, LocalBacked DEF EndPass, row
  <2>3. CASE MarkTerminal(e)
    <3>1. TerminalStatus(x) = "completed" => persisted = Platforms
      <4>1. TerminalStatus(x) = "completed" => Done(x.mem) = Platforms
        BY DEF TerminalStatus, Having, Done
      <4> QED BY <2>0, <4>1 DEF ExecBacked, TypeOK
    <3>2. ExecBacked([x EXCEPT !.pc = "enqueue"], persisted) /\ ExecBacked(Over(x), persisted)
      BY <2>0, OverBacked DEF ExecBacked, Execution
    <3>3. PICK z : ex' = [ex EXCEPT ![e] = z] /\ ExecBacked(z, persisted)
      BY <2>3, <3>2 DEF MarkTerminal
    <3>4. status' = "completed" => persisted = Platforms
      BY <2>0, <2>3, <3>1 DEF MarkTerminal, CloseRow
    <3> QED BY <2>3, <3>3, <3>4, LocalBacked DEF MarkTerminal
  <2>4. CASE EnqueueAnalysis(e)
    BY <2>0, <2>4, OverBacked, LocalBacked DEF EnqueueAnalysis, row
  <2>5. ASSUME NEW p \in Platforms, AcquireSlot(e, p) \/ CrawlEnds(e, p) PROVE Backed'
    <3>1. PICK t : ex' = [ex EXCEPT ![e] = [x EXCEPT !.task = [x.task EXCEPT ![p] = t]]]
      BY <2>0, <2>5 DEF AcquireSlot, CrawlEnds, TypeOK, Execution
    <3>2. ExecBacked([x EXCEPT !.task = [x.task EXCEPT ![p] = t]], persisted)
      BY <2>0 DEF ExecBacked, Execution
    <3> QED BY <2>0, <2>5, <3>1, <3>2, LocalBacked DEF AcquireSlot, CrawlEnds, row
  <2>6. ASSUME NEW p \in Platforms, HandleStarted(e, p) PROVE Backed'
    <3> DEFINE y == [x EXCEPT !.announced = @ \ {p}]
    <3>1. y \in Execution /\ y.mem = x.mem /\ ExecBacked(y, persisted)
      BY <2>0 DEF ExecBacked, Execution
    <3>2. Mark(e, p, "running", x.mem[p].attempts + 1, y) /\ UNCHANGED persisted
      BY <2>6 DEF HandleStarted
    <3> HIDE DEF y
    <3> QED BY <3>1, <3>2, MarkBacked
  <2>7. ASSUME NEW p \in Platforms, IngestPlatform(e, p) PROVE Backed'
    <3> DEFINE y == [x EXCEPT !.pc = "ingest", !.ingesting = {p}]
    <3>1. persisted' = persisted \cup {p} /\ ex' = [ex EXCEPT ![e] = y]
          /\ UNCHANGED <<status, progress>>
      BY <2>0, <2>7 DEF IngestPlatform, row, TypeOK, Execution
    <3>2. ExecBacked(y, persisted')
      BY <2>0, <3>1 DEF ExecBacked, Execution
    <3>3. \A d \in Execs : ExecBacked(ex[d], persisted')
      BY <3>1 DEF Backed, ExecBacked
    <3>4. \A d \in Execs : ExecBacked(ex'[d], persisted')
      BY <3>1, <3>2, <3>3 DEF TypeOK
    <3>5. CheckpointBacked' /\ CompletedHasAllData'
      BY <2>0, <3>1 DEF CheckpointBacked, CompletedHasAllData, DonePlatforms
    <3> QED BY <3>4, <3>5 DEF Backed
  <2>8. ASSUME NEW p \in Platforms, CheckpointPlatform(e, p) PROVE Backed'
    <3>1. LET y == [x EXCEPT !.pc = "pass", !.task[p] = "idle", !.ingesting = {}]
          IN  y \in Execution /\ y.mem = x.mem /\ ExecBacked(y, persisted)
      BY <2>0 DEF ExecBacked, Execution, ExecStates, TaskStates
    <3>2. p \in persisted
      BY <2>0, <2>8 DEF CheckpointPlatform, ExecBacked
    <3> QED BY <2>8, <3>1, <3>2, MarkBacked DEF CheckpointPlatform
  <2>9. ASSUME NEW p \in Platforms, HandleFailure(e, p) PROVE Backed'
    <3> DEFINE y  == [x EXCEPT !.task[p] = "idle"]
               st == IF x.task[p] = "error" THEN "failed" ELSE "cancelled"
    <3>1. y \in Execution /\ y.mem = x.mem /\ ExecBacked(y, persisted)
      BY <2>0 DEF ExecBacked, Execution, TaskStates
    <3>2. Mark(e, p, st, x.mem[p].attempts, y) /\ UNCHANGED persisted
      BY <2>9 DEF HandleFailure
    <3>3. st # "completed"
      OBVIOUS
    <3> HIDE DEF y, st
    <3> QED BY <3>1, <3>2, <3>3, MarkBacked
  <2> QED BY <1>4, <2>1, <2>2, <2>3, <2>4, <2>5, <2>6, <2>7, <2>8, <2>9 DEF Work
<1>5. ASSUME NEW e \in Execs,
             \/ Heartbeat(e) \/ HeartbeatDies(e) \/ ExecuteRaises(e) \/ ScanDrop(e)
             \/ \E p \in Platforms : ScanSend(e, p)
      PROVE  Backed'
  <2> DEFINE x == ex[e]
  <2>0. x \in Execution /\ ExecBacked(x, persisted) /\ (status = "completed" => persisted = Platforms)
    BY DEF TypeOK, Backed, CompletedHasAllData
  <2>1. UNCHANGED <<status, progress, persisted>>
    BY <1>5 DEF Heartbeat, HeartbeatDies, ExecuteRaises, ScanDrop, ScanSend, row
  <2>2. \E z : ex' = [ex EXCEPT ![e] = z] /\ ExecBacked(z, persisted)
    <3>1. CASE Heartbeat(e) /\ Fenced(e)
      <4>1. ExecBacked([x EXCEPT !.cancelEvent = @ \/ cancelRequested], persisted)
        BY <2>0 DEF ExecBacked, Execution
      <4> QED BY <3>1, <4>1 DEF Heartbeat
    <3>2. CASE Heartbeat(e) /\ ~Fenced(e)
      <4>1. ExecBacked([x EXCEPT !.cancelEvent = TRUE, !.beating = FALSE], persisted)
        BY <2>0 DEF ExecBacked, Execution
      <4> QED BY <3>2, <4>1 DEF Heartbeat
    <3>3. CASE HeartbeatDies(e)
      <4>1. ExecBacked([x EXCEPT !.beating = FALSE], persisted)
        BY <2>0 DEF ExecBacked, Execution
      <4> QED BY <3>3, <4>1 DEF HeartbeatDies
    <3>4. CASE ExecuteRaises(e)
      BY <3>4, OverBacked DEF ExecuteRaises
    <3>5. CASE ScanDrop(e)
      <4>1. ExecBacked([x EXCEPT !.scan = {}], persisted)
        BY <2>0 DEF ExecBacked, Execution
      <4> QED BY <3>5, <4>1 DEF ScanDrop
    <3>6. ASSUME NEW p \in Platforms, ScanSend(e, p)
          PROVE  \E z : ex' = [ex EXCEPT ![e] = z] /\ ExecBacked(z, persisted)
      <4>1. ExecBacked([x EXCEPT !.scan = {[by |-> p, mem |-> x.mem]}], persisted)
        BY <2>0 DEF ExecBacked, Execution
      <4> QED BY <3>6, <4>1 DEF ScanSend
    <3> QED BY <1>5, <3>1, <3>2, <3>3, <3>4, <3>5, <3>6
  <2> QED BY <2>0, <2>1, <2>2, LocalBacked
<1>6. ASSUME NEW e \in Execs, ScanCommit(e) PROVE Backed'
  <2>1. PICK sent \in ex[e].scan : Flush(e, sent.mem)
    BY <1>6 DEF ScanCommit
  <2>2. ExecBacked(ex[e], persisted) /\ ex[e] \in Execution
    BY DEF Backed, TypeOK
  <2>3. CheckpointBacked' /\ CompletedHasAllData'
    <3>1. Done(sent.mem) \subseteq persisted
      BY <2>1, <2>2 DEF ExecBacked
    <3>2. DonePlatforms' \subseteq persisted
      BY <2>1, <3>1, FlushBacked DEF Backed, CheckpointBacked
    <3>3. UNCHANGED <<status, persisted>>
      BY <1>6, <2>1 DEF ScanCommit, Flush
    <3> QED BY <3>2, <3>3 DEF Backed, CheckpointBacked, CompletedHasAllData
  <2>4. ExecBacked([ex[e] EXCEPT !.scan = {}], persisted)
    BY <2>2 DEF ExecBacked, Execution
  <2>5. \A d \in Execs : ExecBacked(ex'[d], persisted')
    BY <1>6, <2>4 DEF ScanCommit, Backed, TypeOK
  <2> QED BY <2>3, <2>5 DEF Backed
<1>7. CASE UNCHANGED vars
  BY <1>7 DEF vars, row, Backed, CheckpointBacked, CompletedHasAllData, DonePlatforms
<1> QED BY <1>1, <1>2, <1>3, <1>4, <1>5, <1>6, <1>7 DEF Next

\* INV-4, the data: a platform the checkpoint calls completed is in the
\* social store, so recovery never skips data that was lost.
THEOREM CompletedPlatformsAreStored == Spec => []CheckpointBacked
<1>1. Backed => CheckpointBacked
  BY DEF Backed
<1> QED BY <1>1, InitType, NextType, InitBacked, NextBacked, PTL DEF Spec

\* A run reported completed has the data of all its platforms, whatever was
\* claimed twice, stalled, killed or scanned on the way.
THEOREM CompletedRunsAreWhole == Spec => []CompletedHasAllData
<1>1. Backed => CompletedHasAllData
  BY DEF Backed
<1> QED BY <1>1, InitType, NextType, InitBacked, NextBacked, PTL DEF Spec
-----------------------------------------------------------------------------
(* Statuses and the fence.                                                  *)

\* A terminal status is final but for one stale cancellation: every other
\* write of the status needs a queued or a running row.
THEOREM TerminalsAreFinal == Spec => TerminalIsFinal
<1>1. ASSUME [Next]_vars, status \in Terminal, status' # status
      PROVE  canceller = "sawQueued" /\ status' = "cancelled"
  <2>1. CASE CancelWrite
    BY <1>1, <2>1 DEF CancelWrite
  <2>2. CASE RecoverExpired \/ FailExhausted \/ LeaseExpires \/ CancelRead \/ UNCHANGED vars
    BY <1>1, <2>2 DEF RecoverExpired, FailExhausted, LeaseExpires, CancelRead, vars, row, Abandoned, Terminal
  <2>3. ASSUME NEW w \in Procs, Claim(w) \/ ProcessEnds(w) PROVE FALSE
    BY <1>1, <2>3 DEF Claim, Claimable, Abandoned, ProcessEnds, row, Terminal
  <2>4. ASSUME NEW e \in Execs, Work(e) PROVE FALSE
    BY <1>1, <2>4 DEF Work, BeginExecute, EndPass, MarkTerminal, Fenced, EnqueueAnalysis, AcquireSlot, CrawlEnds,
       HandleStarted, IngestPlatform, CheckpointPlatform, HandleFailure, Mark, Flush, row, Terminal
  <2>5. ASSUME NEW e \in Execs,
               \/ Heartbeat(e) \/ HeartbeatDies(e) \/ ExecuteRaises(e) \/ ScanCommit(e) \/ ScanDrop(e)
               \/ \E p \in Platforms : ScanSend(e, p)
        PROVE  FALSE
    BY <1>1, <2>5 DEF Heartbeat, HeartbeatDies, ExecuteRaises, ScanCommit, ScanDrop, ScanSend, Flush, row
  <2> QED BY <1>1, <2>1, <2>2, <2>3, <2>4, <2>5 DEF Next
<1> QED BY <1>1, PTL DEF Spec, TerminalIsFinal

\* A running row is owned by the process of its latest claim.
OwnerIsClaimant ==
    status = "running" => attempts \in Execs /\ leaseOwner = WorkerId[ex[attempts].proc]

\* What a step of execution e does to the row: it writes only through the
\* fence, makes no row running or owned, and touches no other execution.
FencedStep(e) ==
    /\ attempts' = attempts
    /\ \A d \in Execs : ex'[d].proc = ex[d].proc /\ (d # e => ex'[d] = ex[d])
    /\ Fenced(e) \/ UNCHANGED <<status, leaseOwner, progress>>
    /\ status' = "running" => status = "running" /\ leaseOwner' = leaseOwner

LEMMA LocalFenced ==
    ASSUME TypeOK, NEW e \in Execs, NEW x, ex' = [ex EXCEPT ![e] = x], x.proc = ex[e].proc,
           attempts' = attempts,
           Fenced(e) \/ UNCHANGED <<status, leaseOwner, progress>>,
           status' = "running" => status = "running" /\ leaseOwner' = leaseOwner
    PROVE  FencedStep(e)
BY DEF TypeOK, FencedStep

LEMMA MarkFenced ==
    ASSUME TypeOK, NEW e \in Execs, NEW p \in Platforms, NEW st, NEW n,
           NEW x \in Execution, x.proc = ex[e].proc, Mark(e, p, st, n, x)
    PROVE  FencedStep(e)
<1> DEFINE mem == [ex[e].mem EXCEPT ![p] = [status |-> st, attempts |-> n]]
           y   == [x EXCEPT !.mem = mem]
<1>1. Flush(e, mem) /\ ex' = [ex EXCEPT ![e] = y]
  BY DEF Mark
<1>2. y.proc = ex[e].proc
  BY DEF Execution
<1> HIDE DEF mem, y
<1> QED BY <1>1, <1>2, LocalFenced DEF Flush

LEMMA WorkIsFenced == ASSUME TypeOK, NEW e \in Execs, Work(e) PROVE FencedStep(e)
<1> DEFINE x == ex[e]
<1>0. x \in Execution
  BY DEF TypeOK
<1>1. CASE BeginExecute(e)
  <2> DEFINE y == [x EXCEPT !.mem = NormalizeProgress, !.beating = TRUE]
  <2>1. [y EXCEPT !.pc = "terminal"].proc = x.proc /\ StartPass(y, RecoverTodo(y.mem)).proc = x.proc
    BY <1>0 DEF Execution, StartPass
  <2>2. PICK z : ex' = [ex EXCEPT ![e] = z] /\ z.proc = x.proc
    BY <1>1, <2>1 DEF BeginExecute
  <2> QED BY <1>1, <2>2, LocalFenced DEF BeginExecute, row
<1>2. CASE EndPass(e)
  <2>1. /\ [x EXCEPT !.pc = "terminal"].proc = x.proc
        /\ [StartPass(x, RetryTodo(x.mem)) EXCEPT !.retrying = TRUE].proc = x.proc
    BY <1>0 DEF Execution, StartPass
  <2>2. PICK z : ex' = [ex EXCEPT ![e] = z] /\ z.proc = x.proc
    BY <1>2, <2>1 DEF EndPass
  <2> QED BY <1>2, <2>2, LocalFenced DEF EndPass, row
<1>3. CASE MarkTerminal(e) \/ EnqueueAnalysis(e)
  <2>1. [x EXCEPT !.pc = "enqueue"].proc = x.proc /\ Over(x).proc = x.proc
    BY <1>0 DEF Execution, Over, Unborn
  <2>2. PICK z : ex' = [ex EXCEPT ![e] = z] /\ z.proc = x.proc
    BY <1>3, <2>1 DEF MarkTerminal, EnqueueAnalysis
  <2>3. status' = "running" => status = "running" /\ leaseOwner' = leaseOwner
    BY <1>3, TerminalStatusTyped DEF MarkTerminal, EnqueueAnalysis, CloseRow, row, Terminal
  <2> QED BY <1>3, <2>2, <2>3, LocalFenced DEF MarkTerminal, EnqueueAnalysis, row
<1>4. ASSUME NEW p \in Platforms, AcquireSlot(e, p) \/ CrawlEnds(e, p) PROVE FencedStep(e)
  <2>1. PICK t : ex' = [ex EXCEPT ![e] = [x EXCEPT !.task = [x.task EXCEPT ![p] = t]]]
    BY <1>0, <1>4 DEF AcquireSlot, CrawlEnds, TypeOK, Execution
  <2>2. [x EXCEPT !.task = [x.task EXCEPT ![p] = t]].proc = x.proc
    BY <1>0 DEF Execution
  <2> QED BY <1>4, <2>1, <2>2, LocalFenced DEF AcquireSlot, CrawlEnds, row
<1>5. ASSUME NEW p \in Platforms, HandleStarted(e, p) PROVE FencedStep(e)
  <2> DEFINE y == [x EXCEPT !.announced = @ \ {p}]
  <2>1. y \in Execution /\ y.proc = x.proc
    BY <1>0 DEF Execution
  <2>2. Mark(e, p, "running", x.mem[p].attempts + 1, y)
    BY <1>5 DEF HandleStarted
  <2> HIDE DEF y
  <2> QED BY <2>1, <2>2, MarkFenced
<1>6. ASSUME NEW p \in Platforms, IngestPlatform(e, p) PROVE FencedStep(e)
  <2> DEFINE y == [x EXCEPT !.pc = "ingest", !.ingesting = {p}]
  <2>1. y.proc = x.proc
    BY <1>0 DEF Execution
  <2>2. ex' = [ex EXCEPT ![e] = y]
    BY <1>6 DEF IngestPlatform
  <2> HIDE DEF y
  <2> QED BY <1>6, <2>1, <2>2, LocalFenced DEF IngestPlatform, row
<1>7. ASSUME NEW p \in Platforms, CheckpointPlatform(e, p) PROVE FencedStep(e)
  <2> DEFINE y == [x EXCEPT !.pc = "pass", !.task[p] = "idle", !.ingesting = {}]
  <2>1. y \in Execution /\ y.proc = x.proc
    BY <1>0 DEF Execution, ExecStates, TaskStates
  <2>2. Mark(e, p, "completed", x.mem[p].attempts, y)
    BY <1>7 DEF CheckpointPlatform
  <2> HIDE DEF y
  <2> QED BY <2>1, <2>2, MarkFenced
<1>8. ASSUME NEW p \in Platforms, HandleFailure(e, p) PROVE FencedStep(e)
  <2> DEFINE y == [x EXCEPT !.task[p] = "idle"]
  <2>1. y \in Execution /\ y.proc = x.proc
    BY <1>0 DEF Execution, TaskStates
  <2>2. Mark(e, p, IF x.task[p] = "error" THEN "failed" ELSE "cancelled", x.mem[p].attempts, y)
    BY <1>8 DEF HandleFailure
  <2> HIDE DEF y
  <2> QED BY <2>1, <2>2, MarkFenced
<1> QED BY <1>1, <1>2, <1>3, <1>4, <1>5, <1>6, <1>7, <1>8 DEF Work

LEMMA OthersAreFenced ==
    ASSUME TypeOK, NEW e \in Execs,
           \/ Heartbeat(e) \/ HeartbeatDies(e) \/ ExecuteRaises(e) \/ ScanCommit(e) \/ ScanDrop(e)
           \/ \E p \in Platforms : ScanSend(e, p)
    PROVE  FencedStep(e)
<1> DEFINE x == ex[e]
<1>1. x \in Execution
  BY DEF TypeOK
<1>2. PICK z : ex' = [ex EXCEPT ![e] = z] /\ z.proc = x.proc
  <2>1. CASE Heartbeat(e) \/ HeartbeatDies(e)
    <3>1. /\ [x EXCEPT !.cancelEvent = @ \/ cancelRequested].proc = x.proc
          /\ [x EXCEPT !.cancelEvent = TRUE, !.beating = FALSE].proc = x.proc
          /\ [x EXCEPT !.beating = FALSE].proc = x.proc
      BY <1>1 DEF Execution
    <3> QED BY <2>1, <3>1 DEF Heartbeat, HeartbeatDies
  <2>2. CASE ExecuteRaises(e)
    <3>1. Over(x).proc = x.proc
      BY <1>1 DEF Over, Unborn, Execution
    <3> QED BY <2>2, <3>1 DEF ExecuteRaises
  <2>3. CASE ScanCommit(e) \/ ScanDrop(e)
    <3>1. [x EXCEPT !.scan = {}].proc = x.proc
      BY <1>1 DEF Execution
    <3> QED BY <2>3, <3>1 DEF ScanCommit, ScanDrop
  <2>4. ASSUME NEW p \in Platforms, ScanSend(e, p)
        PROVE  \E z : ex' = [ex EXCEPT ![e] = z] /\ z.proc = x.proc
    <3>1. [x EXCEPT !.scan = {[by |-> p, mem |-> x.mem]}].proc = x.proc
      BY <1>1 DEF Execution
    <3> QED BY <2>4, <3>1 DEF ScanSend
  <2> QED BY <2>1, <2>2, <2>3, <2>4
<1>3. /\ attempts' = attempts /\ UNCHANGED <<status, leaseOwner>>
      /\ Fenced(e) \/ UNCHANGED progress
  BY DEF Heartbeat, HeartbeatDies, ExecuteRaises, ScanCommit, ScanDrop, ScanSend, Flush, row
<1> QED BY <1>2, <1>3, LocalFenced

LEMMA EndingsKeepProcs ==
    ASSUME TypeOK, NEW w \in Procs, ProcessEnds(w) PROVE \A d \in Execs : ex'[d].proc = ex[d].proc
<1>1. \A d \in Execs : ex'[d] = ex[d] \/ ex'[d] = Over(ex[d])
  BY DEF ProcessEnds
<1>2. \A d \in Execs : Over(ex[d]).proc = ex[d].proc
  BY DEF Over, Unborn
<1> HIDE DEF Over
<1> QED BY <1>1, <1>2

LEMMA NextOwner == TypeOK /\ OwnerIsClaimant /\ [Next]_vars => OwnerIsClaimant'
<1> SUFFICES ASSUME TypeOK, OwnerIsClaimant, [Next]_vars PROVE OwnerIsClaimant'
  OBVIOUS
<1>1. CASE RecoverExpired \/ FailExhausted \/ LeaseExpires \/ CancelRead \/ CancelWrite \/ UNCHANGED vars
  BY <1>1 DEF RecoverExpired, FailExhausted, LeaseExpires, CancelRead, CancelWrite, CloseRow, vars, row,
     OwnerIsClaimant
<1>2. ASSUME NEW w \in Procs, Claim(w) PROVE OwnerIsClaimant'
  <2>1. attempts + 1 \in Execs /\ attempts' = attempts + 1 /\ leaseOwner' = WorkerId[w]
    BY <1>2, CollectionAssumption DEF Claim, Claimable, TypeOK, Execs
  <2>2. ex'[attempts + 1].proc = w
    BY <1>2, <2>1 DEF Claim, TypeOK, Unborn
  <2> QED BY <2>1, <2>2 DEF OwnerIsClaimant
<1>3. ASSUME NEW w \in Procs, ProcessEnds(w) PROVE OwnerIsClaimant'
  BY <1>3, EndingsKeepProcs DEF ProcessEnds, row, OwnerIsClaimant
<1>4. ASSUME NEW e \in Execs, FencedStep(e) PROVE OwnerIsClaimant'
  BY <1>4 DEF FencedStep, OwnerIsClaimant
<1> QED BY <1>1, <1>2, <1>3, <1>4, WorkIsFenced, OthersAreFenced DEF Next

\* What the fence keeps out: writes of an execution superseded by one of a
\* process with another worker id.
KeptOut ==
    \A e \in Execs :
        ex[e] # ex'[e] /\ Live(e) /\ e # attempts /\ attempts' = attempts
          /\ WorkerId[ex[e].proc] # WorkerId[ex[attempts].proc]
        => UNCHANGED <<status, leaseOwner, progress>>

\* An execution superseded by one of a process with another worker id never
\* writes the row, whatever stalled or died: every write of an execution goes
\* through the fence, and the owner is always the latest claimant.
THEOREM SupersededAreFenced == Spec => OtherProcessIsFenced
<1>1. ASSUME TypeOK, OwnerIsClaimant, [Next]_vars, NEW e \in Execs,
             ex[e] # ex'[e], e # attempts, attempts' = attempts,
             WorkerId[ex[e].proc] # WorkerId[ex[attempts].proc]
      PROVE  UNCHANGED <<status, leaseOwner, progress>>
  <2>1. CASE RecoverExpired \/ FailExhausted \/ LeaseExpires \/ CancelRead \/ CancelWrite \/ UNCHANGED vars
    BY <1>1, <2>1 DEF RecoverExpired, FailExhausted, LeaseExpires, CancelRead, CancelWrite, vars
  <2>2. ASSUME NEW w \in Procs, Claim(w) PROVE FALSE
    BY <1>1, <2>2, CollectionAssumption DEF Claim, TypeOK
  <2>3. ASSUME NEW w \in Procs, ProcessEnds(w) PROVE UNCHANGED <<status, leaseOwner, progress>>
    BY <2>3 DEF ProcessEnds, row
  <2>4. ASSUME NEW d \in Execs, FencedStep(d) PROVE UNCHANGED <<status, leaseOwner, progress>>
    <3>1. d = e
      BY <1>1, <2>4 DEF FencedStep
    <3>2. ~Fenced(e)
      BY <1>1 DEF OwnerIsClaimant, Fenced
    <3> QED BY <2>4, <3>1, <3>2 DEF FencedStep
  <2> QED BY <1>1, <2>1, <2>2, <2>3, <2>4, WorkIsFenced, OthersAreFenced DEF Next
<1>2. Init => OwnerIsClaimant
  BY DEF Init, OwnerIsClaimant
<1>3. TypeOK /\ OwnerIsClaimant /\ [Next]_vars => [KeptOut]_vars
  BY <1>1 DEF KeptOut
<1> QED BY <1>2, <1>3, InitType, NextType, NextOwner, PTL DEF Spec, OtherProcessIsFenced, KeptOut

-----------------------------------------------------------------------------
(* When heartbeats come in time and do not fail, one execution lives at a   *)
(* time: the lease of a running row does not run out under a live           *)
(* execution, which either has not begun or beats.  Only an execution that  *)
(* lost the row to a cancellation stops beating, and such a row is not      *)
(* claimed again.                                                           *)

Timely == ~Stalls /\ ~HeartbeatFaults

Alone ==
    /\ \A e \in Execs : Live(e) => e = attempts
    /\ \A e \in Execs : ex[e].beating => Live(e)
    /\ \A e \in Execs : Live(e) /\ status = "running" =>
          lease = "live" /\ (ex[e].pc = "start" \/ ex[e].beating)
    /\ status = "queued" => attempts = 0

\* A step of execution e towards its end: it keeps beating, or is over, or
\* has lost the row.
OnwardStep(e) ==
    /\ Live(e) /\ ex'[e].pc \notin {"unborn", "start"}
    /\ ex'[e].pc = "over" => ~ex'[e].beating
    /\ \/ ex'[e].pc = "over" \/ ex'[e].beating \/ status' # "running"
       \/ ex'[e].beating = ex[e].beating /\ ex[e].pc # "start"
    /\ lease' = lease \/ lease' = "live" \/ status' # "running"

\* What is left to show of a step of one execution.
LEMMA LocalOnward ==
    ASSUME TypeOK, NEW e \in Execs, Live(e), NEW y, ex' = [ex EXCEPT ![e] = y],
           lease' = lease \/ lease' = "live" \/ status' # "running",
           \/ y.pc = "over" /\ ~y.beating
           \/ /\ y.pc \in ExecStates \ {"unborn", "start", "over"}
              /\ \/ y.beating \/ status' # "running"
                 \/ y.beating = ex[e].beating /\ ex[e].pc # "start"
    PROVE  OnwardStep(e)
<1>1. ex'[e] = y
  BY DEF TypeOK
<1> QED BY <1>1 DEF OnwardStep

LEMMA MarkOnward ==
    ASSUME TypeOK, NEW e \in Execs, NEW p \in Platforms, NEW st, NEW n, NEW x \in Execution,
           x.pc \in {"pass", "ingest"}, InPass(e), x.beating = ex[e].beating, Mark(e, p, st, n, x)
    PROVE  OnwardStep(e)
<1>1. PICK mem : mem = [ex[e].mem EXCEPT ![p] = [status |-> st, attempts |-> n]]
  OBVIOUS
<1>2. PICK y : y = [x EXCEPT !.mem = mem]
  OBVIOUS
<1>3. ex' = [ex EXCEPT ![e] = y] /\ lease' = lease
  BY <1>1, <1>2 DEF Mark, Flush
<1>4. y.pc = x.pc /\ y.beating = x.beating
  BY <1>2 DEF Execution
<1>5. Live(e) /\ ex[e].pc # "start"
  BY DEF Live, InPass
<1> QED BY <1>3, <1>4, <1>5, LocalOnward DEF ExecStates

LEMMA WorkOnward ==
    ASSUME TypeOK, OwnerIsClaimant, Alone, NEW e \in Execs, Work(e) PROVE OnwardStep(e)
<1>0. ex[e] \in Execution /\ ex \in [Execs -> Execution]
  BY DEF TypeOK
<1>a. Over(ex[e]).pc = "over" /\ ~Over(ex[e]).beating
  BY DEF Over, Unborn
<1>1. CASE BeginExecute(e)
  <2>1. PICK y : y = [ex[e] EXCEPT !.mem = NormalizeProgress, !.beating = TRUE]
    OBVIOUS
  <2>2. y \in Execution
    BY <1>0, <2>1 DEF Execution, NormalizeProgress, TypeOK
  <2>3. /\ [y EXCEPT !.pc = "terminal"].pc = "terminal" /\ [y EXCEPT !.pc = "terminal"].beating
        /\ \A todo : StartPass(y, todo).pc = "pass" /\ StartPass(y, todo).beating
    BY <1>0, <2>1, <2>2 DEF Execution, StartPass
  <2>4. PICK z : ex' = [ex EXCEPT ![e] = z] /\ z.pc \in {"terminal", "pass"} /\ z.beating
    BY <1>1, <2>1, <2>3 DEF BeginExecute
  <2>5. Live(e) /\ lease' = lease
    BY <1>1 DEF BeginExecute, Live, row
  <2> QED BY <2>4, <2>5, LocalOnward DEF ExecStates
<1>2. CASE EndPass(e)
  <2>1. /\ [ex[e] EXCEPT !.pc = "terminal"].pc = "terminal"
        /\ [ex[e] EXCEPT !.pc = "terminal"].beating = ex[e].beating
        /\ \A todo : /\ [StartPass(ex[e], todo) EXCEPT !.retrying = TRUE].pc = "pass"
                     /\ [StartPass(ex[e], todo) EXCEPT !.retrying = TRUE].beating = ex[e].beating
    BY <1>0 DEF Execution, StartPass
  <2>2. PICK z : ex' = [ex EXCEPT ![e] = z] /\ z.pc \in {"terminal", "pass"} /\ z.beating = ex[e].beating
    BY <1>2, <2>1 DEF EndPass
  <2>3. Live(e) /\ lease' = lease /\ ex[e].pc # "start"
    BY <1>2 DEF EndPass, Live, row
  <2> QED BY <2>2, <2>3, LocalOnward DEF ExecStates
<1>3. CASE MarkTerminal(e)
  <2>1. Live(e) /\ ex[e].pc = "terminal"
    BY <1>3 DEF MarkTerminal, Live
  <2>2. status' # "running"
    <3>1. CASE Fenced(e)
      BY <1>3, <3>1, TerminalStatusTyped DEF MarkTerminal, CloseRow, Terminal
    <3>2. CASE ~Fenced(e)
      <4>1. e = attempts
        BY <2>1 DEF Alone
      <4>2. status # "running"
        BY <3>2, <4>1 DEF Fenced, OwnerIsClaimant
      <4> QED BY <1>3, <3>2, <4>2 DEF MarkTerminal
    <3> QED BY <3>1, <3>2
  <2>3. [ex[e] EXCEPT !.pc = "enqueue"].pc = "enqueue"
    BY <1>0 DEF Execution
  <2>4. PICK z : ex' = [ex EXCEPT ![e] = z] /\ (z.pc = "enqueue" \/ (z.pc = "over" /\ ~z.beating))
    BY <1>3, <1>a, <2>3 DEF MarkTerminal
  <2> QED BY <2>1, <2>2, <2>4, LocalOnward DEF ExecStates
<1>4. CASE EnqueueAnalysis(e)
  <2>1. Live(e) /\ lease' = lease /\ ex' = [ex EXCEPT ![e] = Over(ex[e])]
    BY <1>4 DEF EnqueueAnalysis, Live, row
  <2> QED BY <1>a, <2>1, LocalOnward
<1>5. ASSUME NEW p \in Platforms, AcquireSlot(e, p) \/ CrawlEnds(e, p) PROVE OnwardStep(e)
  <2>1. PICK t : ex' = [ex EXCEPT ![e] = [ex[e] EXCEPT !.task = [ex[e].task EXCEPT ![p] = t]]]
    BY <1>0, <1>5 DEF AcquireSlot, CrawlEnds, TypeOK, Execution
  <2>2. PICK y : y = [ex[e] EXCEPT !.task = [ex[e].task EXCEPT ![p] = t]]
    OBVIOUS
  <2>3. y.pc = ex[e].pc /\ y.beating = ex[e].beating
    BY <1>0, <2>2 DEF Execution
  <2>4. Live(e) /\ lease' = lease /\ ex[e].pc \in {"pass", "ingest"}
    BY <1>5 DEF AcquireSlot, CrawlEnds, InPass, Live, row
  <2> QED BY <2>1, <2>2, <2>3, <2>4, LocalOnward DEF ExecStates
<1>6. ASSUME NEW p \in Platforms, HandleStarted(e, p) PROVE OnwardStep(e)
  <2>1. PICK y : y = [ex[e] EXCEPT !.announced = @ \ {p}]
    OBVIOUS
  <2>2. y \in Execution /\ y.pc = ex[e].pc /\ y.beating = ex[e].beating
    BY <1>0, <2>1 DEF Execution
  <2>3. Mark(e, p, "running", ex[e].mem[p].attempts + 1, y) /\ ex[e].pc = "pass"
    BY <1>6, <2>1 DEF HandleStarted
  <2> QED BY <2>2, <2>3, MarkOnward DEF InPass
<1>7. ASSUME NEW p \in Platforms, IngestPlatform(e, p) PROVE OnwardStep(e)
  <2>1. PICK y : y = [ex[e] EXCEPT !.pc = "ingest", !.ingesting = {p}]
    OBVIOUS
  <2>2. y.pc = "ingest" /\ y.beating = ex[e].beating
    BY <1>0, <2>1 DEF Execution
  <2>3. ex' = [ex EXCEPT ![e] = y] /\ lease' = lease /\ ex[e].pc = "pass"
    BY <1>7, <2>1 DEF IngestPlatform, row
  <2>4. Live(e)
    BY <2>3 DEF Live
  <2> QED BY <2>2, <2>3, <2>4, LocalOnward DEF ExecStates
<1>8. ASSUME NEW p \in Platforms, CheckpointPlatform(e, p) PROVE OnwardStep(e)
  <2>1. PICK y : y = [ex[e] EXCEPT !.pc = "pass", !.task[p] = "idle", !.ingesting = {}]
    OBVIOUS
  <2>2. y \in Execution /\ y.pc = "pass" /\ y.beating = ex[e].beating
    BY <1>0, <2>1 DEF Execution, ExecStates, TaskStates
  <2>3. Mark(e, p, "completed", ex[e].mem[p].attempts, y) /\ ex[e].pc = "ingest"
    BY <1>8, <2>1 DEF CheckpointPlatform
  <2> QED BY <2>2, <2>3, MarkOnward DEF InPass
<1>9. ASSUME NEW p \in Platforms, HandleFailure(e, p) PROVE OnwardStep(e)
  <2>1. PICK y : y = [ex[e] EXCEPT !.task[p] = "idle"]
    OBVIOUS
  <2>2. y \in Execution /\ y.pc = ex[e].pc /\ y.beating = ex[e].beating
    BY <1>0, <2>1 DEF Execution, TaskStates
  <2>3. /\ Mark(e, p, IF ex[e].task[p] = "error" THEN "failed" ELSE "cancelled", ex[e].mem[p].attempts, y)
        /\ ex[e].pc = "pass"
    BY <1>9, <2>1 DEF HandleFailure
  <2> QED BY <2>2, <2>3, MarkOnward DEF InPass
<1> QED BY <1>1, <1>2, <1>3, <1>4, <1>5, <1>6, <1>7, <1>8, <1>9 DEF Work

LEMMA OthersOnward ==
    ASSUME TypeOK, OwnerIsClaimant, Alone, Timely, NEW e \in Execs,
           \/ HeartbeatDies(e) \/ ExecuteRaises(e) \/ ScanCommit(e) \/ ScanDrop(e)
           \/ \E p \in Platforms : ScanSend(e, p)
    PROVE  OnwardStep(e)
<1>0. ex[e] \in Execution /\ ex \in [Execs -> Execution]
  BY DEF TypeOK
<1>1. CASE HeartbeatDies(e)
  BY <1>1 DEF HeartbeatDies, Timely
<1>2. CASE ExecuteRaises(e)
  <2>1. Over(ex[e]).pc = "over" /\ ~Over(ex[e]).beating
    BY DEF Over, Unborn
  <2>2. Live(e) /\ lease' = lease /\ ex' = [ex EXCEPT ![e] = Over(ex[e])]
    BY <1>2 DEF ExecuteRaises, row
  <2> QED BY <2>1, <2>2, LocalOnward
<1>3. ASSUME NEW s, ex' = [ex EXCEPT ![e].scan = s], InPass(e), lease' = lease PROVE OnwardStep(e)
  <2>1. PICK y : y = [ex[e] EXCEPT !.scan = s]
    OBVIOUS
  <2>2. y.pc = ex[e].pc /\ y.beating = ex[e].beating /\ ex' = [ex EXCEPT ![e] = y]
    BY <1>0, <1>3, <2>1 DEF Execution
  <2>3. Live(e) /\ ex[e].pc \in {"pass", "ingest"}
    BY <1>3 DEF InPass, Live
  <2> QED BY <1>3, <2>2, <2>3, LocalOnward DEF ExecStates
<1>4. CASE ScanCommit(e) \/ ScanDrop(e)
  BY <1>3, <1>4 DEF ScanCommit, ScanDrop, Flush, row
<1>5. ASSUME NEW p \in Platforms, ScanSend(e, p) PROVE OnwardStep(e)
  BY <1>3, <1>5 DEF ScanSend, row
<1> QED BY <1>1, <1>2, <1>4, <1>5

LEMMA OnwardAlone ==
    ASSUME TypeOK, Alone, NEW e \in Execs, FencedStep(e), OnwardStep(e), status' = "queued" => status = "queued"
    PROVE  Alone'
<1>1. \A d \in Execs : d # e => ex'[d] = ex[d] /\ ~Live(d) /\ ~Live(d)' /\ ~ex'[d].beating
  BY DEF FencedStep, OnwardStep, Alone, Live
<1>2. Live(e)' /\ status' = "running" => lease' = "live" /\ ex'[e].beating
  BY DEF FencedStep, OnwardStep, Alone, Live
<1>3. ex'[e].beating => Live(e)'
  BY DEF OnwardStep, Live
<1>4. e = attempts
  BY DEF OnwardStep, Alone
<1> QED BY <1>1, <1>2, <1>3, <1>4 DEF Alone, FencedStep

LEMMA NextAlone ==
    Timely => (TypeOK /\ OwnerIsClaimant /\ Alone /\ [Next]_vars => Alone')
<1> SUFFICES ASSUME Timely, TypeOK, OwnerIsClaimant, Alone, [Next]_vars PROVE Alone'
  OBVIOUS
<1>0. ex \in [Execs -> Execution] /\ attempts \in 0 .. MaxClaims /\ MaxClaims \in Nat
  BY CollectionAssumption DEF TypeOK
<1>1. CASE RecoverExpired \/ FailExhausted \/ CancelRead \/ CancelWrite \/ UNCHANGED vars
  <2>1. /\ ex' = ex /\ attempts' = attempts
        /\ status' = "running" => status = "running" /\ lease' = lease
        /\ status' = "queued" => status = "queued"
    BY <1>1 DEF RecoverExpired, FailExhausted, CancelRead, CancelWrite, CloseRow, vars, row
  <2> QED BY <2>1 DEF Alone, Live
<1>2. CASE LeaseExpires
  <2>1. ex' = ex /\ attempts' = attempts /\ status' = status /\ \A e \in Execs : Live(e) => ~KeepsLease(e)
    BY <1>2 DEF LeaseExpires, Timely
  <2>2. status = "running" => \A e \in Execs : ~Live(e)
    BY <2>1 DEF Alone, KeepsLease, Fenced, OwnerIsClaimant
  <2> QED BY <2>1, <2>2 DEF Alone, Live
<1>3. ASSUME NEW w \in Procs, Claim(w) PROVE Alone'
  <2>1. attempts + 1 \in Execs /\ attempts' = attempts + 1
    <3>1. attempts < MaxClaims
      BY <1>3 DEF Claim, Claimable
    <3> QED BY <1>0, <1>3, <3>1 DEF Claim, Execs
  <2>2. \A e \in Execs : ~Live(e)
    <3>1. CASE status = "queued"
      BY <1>0, <3>1 DEF Alone, Execs
    <3>2. CASE Abandoned
      BY <3>2 DEF Alone, Abandoned
    <3> QED BY <1>3, <3>1, <3>2 DEF Claim, Claimable
  <2>3. PICK y : y = [Unborn EXCEPT !.pc = "start", !.proc = w]
    OBVIOUS
  <2>4. y.pc = "start" /\ ~y.beating /\ ex' = [ex EXCEPT ![attempts + 1] = y]
    BY <1>3, <2>3 DEF Claim, Unborn
  <2>5. \A e \in Execs : ex'[e] = IF e = attempts + 1 THEN y ELSE ex[e]
    BY <1>0, <2>1, <2>4
  <2>6. status' = "running" /\ lease' = "live"
    BY <1>3 DEF Claim
  <2>7. \A e \in Execs : ~ex'[e].beating /\ (Live(e)' => e = attempts + 1 /\ ex'[e].pc = "start")
    BY <2>2, <2>4, <2>5 DEF Alone, Live
  <2> QED BY <2>1, <2>6, <2>7 DEF Alone
<1>4. ASSUME NEW w \in Procs, ProcessEnds(w) PROVE Alone'
  <2>1. \A e \in Execs : ex'[e] = ex[e] \/ ex'[e] = Over(ex[e])
    BY <1>4 DEF ProcessEnds
  <2>2. \A e \in Execs : Over(ex[e]).pc = "over" /\ ~Over(ex[e]).beating
    BY DEF Over, Unborn
  <2>3. \A e \in Execs : ex'[e] = ex[e] \/ (ex'[e].pc = "over" /\ ~ex'[e].beating)
    BY <2>1, <2>2
  <2>4. UNCHANGED <<status, lease, attempts>>
    BY <1>4 DEF ProcessEnds, row
  <2> QED BY <2>3, <2>4 DEF Alone, Live
<1>5. ASSUME NEW e \in Execs, Work(e) PROVE Alone'
  <2>1. FencedStep(e) /\ OnwardStep(e)
    BY <1>5, WorkIsFenced, WorkOnward
  <2>2. status' = "queued" => status = "queued"
    <3>1. status' = status \/ status' \in Terminal
      BY <1>5, TerminalStatusTyped
         DEF Work, BeginExecute, EndPass, MarkTerminal, CloseRow, EnqueueAnalysis, AcquireSlot, CrawlEnds,
             HandleStarted, IngestPlatform, CheckpointPlatform, HandleFailure, Mark, Flush, row
    <3> QED BY <3>1 DEF Terminal
  <2> QED BY <2>1, <2>2, OnwardAlone
<1>6. ASSUME NEW e \in Execs,
             \/ HeartbeatDies(e) \/ ExecuteRaises(e) \/ ScanCommit(e) \/ ScanDrop(e)
             \/ \E p \in Platforms : ScanSend(e, p)
      PROVE  Alone'
  <2>1. FencedStep(e) /\ OnwardStep(e)
    BY <1>6, OthersAreFenced, OthersOnward
  <2>2. status' = status
    BY <1>6 DEF HeartbeatDies, ExecuteRaises, ScanCommit, ScanDrop, ScanSend, Flush, row
  <2> QED BY <2>1, <2>2, OnwardAlone
<1>7. ASSUME NEW e \in Execs, Heartbeat(e) PROVE Alone'
  <2>1. Live(e) /\ e = attempts /\ status' = status /\ attempts' = attempts
    BY <1>7 DEF Heartbeat, Alone
  <2>2. PICK y : ex' = [ex EXCEPT ![e] = y] /\ y.pc = ex[e].pc
                 /\ (y.beating = ex[e].beating \/ ~Fenced(e)) /\ (~Fenced(e) \/ lease' = "live")
                 /\ (y.beating => ex[e].beating)
    <3>1. PICK y, z : /\ y = [ex[e] EXCEPT !.cancelEvent = @ \/ cancelRequested]
                      /\ z = [ex[e] EXCEPT !.cancelEvent = TRUE, !.beating = FALSE]
      OBVIOUS
    <3>2. y.pc = ex[e].pc /\ y.beating = ex[e].beating /\ z.pc = ex[e].pc /\ ~z.beating
      BY <1>0, <3>1 DEF Execution
    <3>3. CASE Fenced(e)
      BY <1>7, <3>1, <3>2, <3>3 DEF Heartbeat
    <3>4. CASE ~Fenced(e)
      BY <1>7, <3>1, <3>2, <3>4 DEF Heartbeat
    <3> QED BY <3>3, <3>4
  <2>3. \A d \in Execs : ex'[d] = IF d = e THEN y ELSE ex[d]
    BY <1>0, <2>2
  <2>4. status = "running" => Fenced(e)
    BY <2>1 DEF Fenced, OwnerIsClaimant
  <2>5. /\ \A d \in Execs : Live(d)' <=> Live(d)
        /\ \A d \in Execs : ex'[d].beating => ex[d].beating
    BY <2>2, <2>3 DEF Live
  <2>6. ASSUME NEW d \in Execs, Live(d)', status' = "running"
        PROVE  lease' = "live" /\ (ex'[d].pc = "start" \/ ex'[d].beating)
    <3>1. d = e /\ Fenced(e)
      BY <2>1, <2>4, <2>5, <2>6 DEF Alone
    <3> QED BY <2>1, <2>2, <2>3, <2>6, <3>1 DEF Alone
  <2> QED BY <2>1, <2>5, <2>6 DEF Alone
<1> QED BY <1>1, <1>2, <1>3, <1>4, <1>5, <1>6, <1>7 DEF Next

LEMMA InitAlone == Init => Alone
BY DEF Init, Alone, Unborn, Live

\* One execution of the run exists at a time.
SoleExecution == \A d, e \in Execs : Live(d) /\ Live(e) => d = e

\* When heartbeats come in time and do not fail, at most one execution of a run
\* is under way over all the processes, whichever of them claim it, also under
\* one worker id, crash or are cancelled: an expired lease means that the last
\* one is gone.  The claim itself compares only the status and the lease.
\* CollectionRunWorker.tick and _heartbeat_loop, recover_expired and claim_next.
THEOREM OneCollectorAtATime == ASSUME ~Stalls, ~HeartbeatFaults PROVE Spec => []SoleExecution
<1>1. TypeOK /\ OwnerIsClaimant /\ Alone /\ [Next]_vars => Alone'
  BY NextAlone DEF Timely
<1>2. Init => OwnerIsClaimant
  BY DEF Init, OwnerIsClaimant
<1>3. Alone => SoleExecution
  BY DEF Alone, SoleExecution
<1> QED BY <1>1, <1>2, <1>3, InitType, NextType, InitAlone, NextOwner, PTL DEF Spec

\* What a superseded execution may not do.
Silent ==
    \A e \in Execs :
        ex[e] # ex'[e] /\ e # attempts /\ attempts' = attempts
          => UNCHANGED <<status, progress, persisted>>

\* When heartbeats come in time and do not fail, an execution whose claim was
\* superseded writes neither the row nor the social store, live scans
\* included: it is no longer there.  The store has no fence of its own.
\* CollectionRunWorker._heartbeat_loop, recover_expired and claim_next.
THEOREM SupersededAreSilent == ASSUME ~Stalls, ~HeartbeatFaults PROVE Spec => SupersededIsSilent
<1>1. Timely
  BY DEF Timely
<1>2. ASSUME TypeOK, OwnerIsClaimant, Alone, [Next]_vars, NEW e \in Execs,
             ex[e] # ex'[e], e # attempts, attempts' = attempts
      PROVE  UNCHANGED <<status, progress, persisted>>
  <2>0. ~Live(e)
    BY <1>2 DEF Alone
  <2>1. CASE RecoverExpired \/ FailExhausted \/ LeaseExpires \/ CancelRead \/ CancelWrite \/ UNCHANGED vars
    BY <1>2, <2>1 DEF RecoverExpired, FailExhausted, LeaseExpires, CancelRead, CancelWrite, vars
  <2>2. ASSUME NEW w \in Procs, Claim(w) PROVE FALSE
    BY <1>2, <2>2, CollectionAssumption DEF Claim, TypeOK
  <2>3. ASSUME NEW w \in Procs, ProcessEnds(w) PROVE FALSE
    BY <1>2, <2>0, <2>3 DEF ProcessEnds, TypeOK
  <2>4. ASSUME NEW d \in Execs, FencedStep(d), Live(d) PROVE FALSE
    BY <1>2, <2>0, <2>4 DEF FencedStep
  <2>5. ASSUME NEW d \in Execs, Work(d) PROVE FALSE
    BY <1>2, <2>4, <2>5, WorkIsFenced, WorkOnward DEF OnwardStep
  <2>6. ASSUME NEW d \in Execs,
               \/ HeartbeatDies(d) \/ ExecuteRaises(d) \/ ScanCommit(d) \/ ScanDrop(d)
               \/ \E p \in Platforms : ScanSend(d, p)
        PROVE  FALSE
    BY <1>1, <1>2, <2>4, <2>6, OthersAreFenced, OthersOnward DEF OnwardStep
  <2>7. ASSUME NEW d \in Execs, Heartbeat(d) PROVE FALSE
    <3>1. Live(d)
      BY <1>2, <2>7 DEF Heartbeat, Alone
    <3> QED BY <1>2, <2>4, <2>7, <3>1, OthersAreFenced
  <2> QED BY <1>2, <2>1, <2>2, <2>3, <2>5, <2>6, <2>7 DEF Next
<1>3. TypeOK /\ OwnerIsClaimant /\ Alone /\ [Next]_vars => [Silent]_vars
  BY <1>2 DEF Silent
<1>4. Init => OwnerIsClaimant
  BY DEF Init, OwnerIsClaimant
<1>5. TypeOK /\ OwnerIsClaimant /\ Alone /\ [Next]_vars => Alone'
  BY <1>1, NextAlone
<1> QED BY <1>3, <1>4, <1>5, InitType, NextType, InitAlone, NextOwner, PTL DEF Spec, SupersededIsSilent, Silent

-----------------------------------------------------------------------------
(* Without live scans the row follows the one checkpoint in memory: every   *)
(* write of it is one mark of the coordinator, and a platform that is       *)
(* announced or has a task is not completed.                                *)

Follows(x, s, checkpoint) ==
    /\ x.scan = {}
    /\ x.ingesting # {} => x.pc = "ingest"
    /\ x.ingesting \cap x.announced = {}
    /\ x.pc \in {"pass", "ingest"} =>
          /\ s = "running" => x.mem = checkpoint
          /\ \A p \in Platforms : p \in x.announced \/ x.task[p] # "idle" => x.mem[p].status # "completed"

Followed == \A e \in Execs : Follows(ex[e], status, progress)

LEMMA RestFollows ==
    ASSUME NEW s, NEW checkpoint
    PROVE  /\ Follows(Unborn, s, checkpoint) /\ \A x : Follows(Over(x), s, checkpoint)
           /\ \A w : Follows([Unborn EXCEPT !.pc = "start", !.proc = w], s, checkpoint)
BY DEF Follows, Unborn, Over

\* A step of the latest execution: the others are not in a pass.
LEMMA LocalFollows ==
    ASSUME TypeOK, Alone, Followed, NEW e \in Execs, e = attempts, NEW y, ex' = [ex EXCEPT ![e] = y],
           status' = "running" => status = "running", Follows(y, status', progress')
    PROVE  Followed'
<1>1. ASSUME NEW d \in Execs, d # e PROVE Follows(ex'[d], status', progress')
  <2>1. ex'[d] = ex[d] /\ ~Live(d) /\ Follows(ex[d], status, progress)
    BY <1>1 DEF TypeOK, Alone, Followed
  <2>2. ex[d].pc \notin {"pass", "ingest"}
    BY <2>1 DEF Live
  <2> QED BY <2>1, <2>2 DEF Follows
<1>2. ex'[e] = y
  BY DEF TypeOK
<1> QED BY <1>1, <1>2 DEF Followed

\* A mark: the row follows, and only what it marks changes.
LEMMA MarkFollows ==
    ASSUME TypeOK, OwnerIsClaimant, Alone, Followed, NEW e \in Execs, InPass(e),
           NEW p \in Platforms, NEW st, NEW n, NEW x \in Execution, Mark(e, p, st, n, x),
           x.pc = "pass", x.scan = {}, x.ingesting = {}, x.announced \subseteq ex[e].announced,
           \A q \in Platforms : x.task[q] # "idle" => ex[e].task[q] # "idle",
           st = "completed" => p \notin x.announced /\ x.task[p] = "idle",
           st = "completed" \/ ex[e].mem[p].status # "completed"
    PROVE  Followed' /\ DonePlatforms \subseteq DonePlatforms'
<1>0. /\ ex[e].mem \in Checkpoint /\ Live(e) /\ e = attempts /\ Follows(ex[e], status, progress)
      /\ ex[e].pc \in {"pass", "ingest"}
  BY DEF TypeOK, Execution, Alone, Followed, InPass, Live
<1>1. PICK mem : mem = [ex[e].mem EXCEPT ![p] = [status |-> st, attempts |-> n]]
  OBVIOUS
<1>2. /\ mem[p].status = st /\ \A q \in Platforms : q # p => mem[q] = ex[e].mem[q]
  BY <1>0, <1>1 DEF Checkpoint
<1>3. PICK y : y = [x EXCEPT !.mem = mem]
  OBVIOUS
<1>4. /\ y.mem = mem /\ y.pc = "pass" /\ y.scan = {} /\ y.ingesting = {}
      /\ y.announced = x.announced /\ y.task = x.task
  BY <1>3 DEF Execution
<1>5. /\ ex' = [ex EXCEPT ![e] = y] /\ status' = status
      /\ progress' = IF Fenced(e) THEN mem ELSE progress
  BY <1>1, <1>3 DEF Mark, Flush
<1>6. status = "running" => Fenced(e)
  BY <1>0 DEF Fenced, OwnerIsClaimant
<1>7. Follows(y, status', progress')
  <2>1. \A q \in Platforms : q \in y.announced \/ y.task[q] # "idle" => y.mem[q].status # "completed"
    BY <1>0, <1>2, <1>4 DEF Follows
  <2> QED BY <1>4, <1>5, <1>6, <2>1 DEF Follows
<1>8. Followed'
  BY <1>0, <1>5, <1>7, LocalFollows
<1>9. DonePlatforms \subseteq DonePlatforms'
  <2>1. CASE Fenced(e)
    <3>1. ex[e].mem = progress /\ progress' = mem
      BY <1>0, <1>5, <2>1 DEF Follows, Fenced
    <3> QED BY <1>2, <3>1 DEF DonePlatforms, Done
  <2>2. CASE ~Fenced(e)
    BY <1>5, <2>2 DEF DonePlatforms
  <2> QED BY <2>1, <2>2
<1> QED BY <1>8, <1>9

LEMMA WorkFollows ==
    ASSUME TypeOK, OwnerIsClaimant, Alone, Followed, NEW e \in Execs, Work(e)
    PROVE  Followed' /\ DonePlatforms \subseteq DonePlatforms'
<1>0. /\ ex[e] \in Execution /\ ex \in [Execs -> Execution] /\ Follows(ex[e], status, progress)
      /\ e = attempts /\ ex[e].mem \in Checkpoint /\ ex[e].task \in [Platforms -> TaskStates]
  <2>1. Live(e)
    BY WorkOnward DEF OnwardStep
  <2> QED BY <2>1 DEF TypeOK, Alone, Followed, Execution
<1>a. ASSUME NEW y, ex' = [ex EXCEPT ![e] = y], Follows(y, status', progress), progress' = progress,
             status' = "running" => status = "running"
      PROVE  Followed' /\ DonePlatforms \subseteq DonePlatforms'
  BY <1>0, <1>a, LocalFollows DEF DonePlatforms
<1>1. CASE BeginExecute(e)
  <2>1. PICK y : y = [ex[e] EXCEPT !.mem = NormalizeProgress, !.beating = TRUE]
    OBVIOUS
  <2>2. /\ y.mem = progress /\ y.scan = {} /\ y.ingesting = {}
    BY <1>0, <1>1, <2>1 DEF Execution, NormalizeProgress, Follows, BeginExecute
  <2>3. y \in Execution
    BY <1>0, <2>1 DEF Execution, NormalizeProgress, TypeOK
  <2>4. Follows(StartPass(y, RecoverTodo(y.mem)), status, progress)
    <3>1. PICK z : z = StartPass(y, RecoverTodo(y.mem))
      OBVIOUS
    <3>2. /\ z.pc = "pass" /\ z.announced = RecoverTodo(y.mem) /\ z.mem = y.mem /\ z.scan = {} /\ z.ingesting = {}
          /\ z.task = [p \in Platforms |-> IF p \in RecoverTodo(y.mem) THEN "waiting" ELSE "idle"]
      BY <2>2, <2>3, <3>1 DEF StartPass, Execution
    <3>3. \A p \in Platforms : p \in RecoverTodo(y.mem) => y.mem[p].status # "completed"
      BY DEF RecoverTodo
    <3>4. Follows(z, status, progress)
      BY <2>2, <3>2, <3>3 DEF Follows
    <3> QED BY <3>1, <3>4
  <2>5. Follows([y EXCEPT !.pc = "terminal"], status, progress)
    <3>1. PICK z : z = [y EXCEPT !.pc = "terminal"]
      OBVIOUS
    <3>2. z.pc = "terminal" /\ z.scan = {} /\ z.ingesting = {}
      BY <2>2, <2>3, <3>1 DEF Execution
    <3>3. Follows(z, status, progress)
      BY <3>2 DEF Follows
    <3> QED BY <3>1, <3>3
  <2>6. PICK z : ex' = [ex EXCEPT ![e] = z] /\ Follows(z, status, progress)
    BY <1>1, <2>1, <2>4, <2>5 DEF BeginExecute
  <2>7. progress' = progress /\ status' = status
    BY <1>1 DEF BeginExecute, row
  <2> QED BY <1>a, <2>6, <2>7
<1>2. CASE EndPass(e)
  <2>1. ex[e].pc = "pass" /\ ex[e].scan = {} /\ ex[e].ingesting = {} /\ progress' = progress /\ status' = status
    BY <1>0, <1>2 DEF EndPass, Follows, row
  <2>2. Follows([StartPass(ex[e], RetryTodo(ex[e].mem)) EXCEPT !.retrying = TRUE], status, progress)
    <3>1. PICK z : z = StartPass(ex[e], RetryTodo(ex[e].mem))
      OBVIOUS
    <3>2. /\ z.pc = "pass" /\ z.announced = RetryTodo(ex[e].mem) /\ z.mem = ex[e].mem
          /\ z.scan = {} /\ z.ingesting = {} /\ z \in Execution
          /\ z.task = [p \in Platforms |-> IF p \in RetryTodo(ex[e].mem) THEN "waiting" ELSE "idle"]
      <4>1. RetryTodo(ex[e].mem) \in SUBSET Platforms
        BY DEF RetryTodo
      <4>2. z \in Execution
        BY <1>0, <3>1, <4>1, StartPassTyped
      <4> QED BY <1>0, <2>1, <3>1, <4>2 DEF StartPass, Execution
    <3>3. PICK v : v = [z EXCEPT !.retrying = TRUE]
      OBVIOUS
    <3>4. /\ v.pc = "pass" /\ v.announced = RetryTodo(ex[e].mem) /\ v.mem = ex[e].mem
          /\ v.scan = {} /\ v.ingesting = {}
          /\ v.task = [p \in Platforms |-> IF p \in RetryTodo(ex[e].mem) THEN "waiting" ELSE "idle"]
      BY <3>2, <3>3 DEF Execution
    <3>5. \A p \in Platforms : p \in RetryTodo(ex[e].mem) => ex[e].mem[p].status # "completed"
      BY DEF RetryTodo
    <3>6. Follows(v, status, progress)
      BY <1>0, <2>1, <3>4, <3>5 DEF Follows
    <3> QED BY <3>1, <3>3, <3>6
  <2>3. Follows([ex[e] EXCEPT !.pc = "terminal"], status, progress)
    <3>1. PICK z : z = [ex[e] EXCEPT !.pc = "terminal"]
      OBVIOUS
    <3>2. z.pc = "terminal" /\ z.scan = {} /\ z.ingesting = {}
      BY <1>0, <2>1, <3>1 DEF Execution
    <3>3. Follows(z, status, progress)
      BY <3>2 DEF Follows
    <3> QED BY <3>1, <3>3
  <2>4. PICK z : ex' = [ex EXCEPT ![e] = z] /\ Follows(z, status, progress)
    BY <1>2, <2>2, <2>3 DEF EndPass
  <2> QED BY <1>a, <2>1, <2>4
<1>3. CASE MarkTerminal(e) \/ EnqueueAnalysis(e)
  <2>1. progress' = progress /\ (status' = "running" => status = "running")
    BY <1>3, WorkIsFenced DEF MarkTerminal, EnqueueAnalysis, FencedStep, row
  <2>2. Follows([ex[e] EXCEPT !.pc = "enqueue"], status', progress)
    <3>1. PICK z : z = [ex[e] EXCEPT !.pc = "enqueue"]
      OBVIOUS
    <3>2. ex[e].pc # "ingest"
      BY <1>3 DEF MarkTerminal, EnqueueAnalysis
    <3>3. z.pc = "enqueue" /\ z.scan = {} /\ z.ingesting = {}
      BY <1>0, <3>1, <3>2 DEF Execution, Follows
    <3>4. Follows(z, status', progress)
      BY <3>3 DEF Follows
    <3> QED BY <3>1, <3>4
  <2>3. PICK z : ex' = [ex EXCEPT ![e] = z] /\ Follows(z, status', progress)
    BY <1>3, <2>2, RestFollows DEF MarkTerminal, EnqueueAnalysis
  <2> QED BY <1>a, <2>1, <2>3
<1>4. ASSUME NEW p \in Platforms, AcquireSlot(e, p) \/ CrawlEnds(e, p)
      PROVE  Followed' /\ DonePlatforms \subseteq DonePlatforms'
  <2>1. PICK t : ex' = [ex EXCEPT ![e] = [ex[e] EXCEPT !.task = [ex[e].task EXCEPT ![p] = t]]]
    BY <1>0, <1>4 DEF AcquireSlot, CrawlEnds, TypeOK, Execution
  <2>2. PICK y : y = [ex[e] EXCEPT !.task = [ex[e].task EXCEPT ![p] = t]]
    OBVIOUS
  <2>3. /\ y.pc = ex[e].pc /\ y.mem = ex[e].mem /\ y.scan = ex[e].scan /\ y.ingesting = ex[e].ingesting
        /\ y.announced = ex[e].announced /\ \A q \in Platforms : q # p => y.task[q] = ex[e].task[q]
    BY <1>0, <2>2 DEF Execution
  <2>4. ex[e].task[p] # "idle" /\ progress' = progress /\ status' = status
    BY <1>4 DEF AcquireSlot, CrawlEnds, row
  <2>5. Follows(y, status', progress)
    BY <1>0, <2>3, <2>4 DEF Follows
  <2> QED BY <1>a, <2>1, <2>2, <2>4, <2>5
<1>5. ASSUME NEW p \in Platforms, HandleStarted(e, p)
      PROVE  Followed' /\ DonePlatforms \subseteq DonePlatforms'
  <2>1. PICK y : y = [ex[e] EXCEPT !.announced = @ \ {p}]
    OBVIOUS
  <2>2. /\ y \in Execution /\ y.pc = ex[e].pc /\ y.scan = ex[e].scan /\ y.ingesting = ex[e].ingesting
        /\ y.announced = ex[e].announced \ {p} /\ y.task = ex[e].task
    BY <1>0, <2>1 DEF Execution
  <2>3. Mark(e, p, "running", ex[e].mem[p].attempts + 1, y) /\ ex[e].pc = "pass" /\ p \in ex[e].announced
    BY <1>5, <2>1 DEF HandleStarted
  <2>4. ex[e].mem[p].status # "completed" /\ y.scan = {} /\ y.ingesting = {} /\ InPass(e) /\ y.pc = "pass"
    BY <1>0, <2>2, <2>3 DEF Follows, InPass
  <2> QED BY <2>2, <2>3, <2>4, MarkFollows
<1>6. ASSUME NEW p \in Platforms, IngestPlatform(e, p)
      PROVE  Followed' /\ DonePlatforms \subseteq DonePlatforms'
  <2>1. PICK y : y = [ex[e] EXCEPT !.pc = "ingest", !.ingesting = {p}]
    OBVIOUS
  <2>2. /\ y.pc = "ingest" /\ y.mem = ex[e].mem /\ y.scan = ex[e].scan /\ y.ingesting = {p}
        /\ y.announced = ex[e].announced /\ y.task = ex[e].task
    BY <1>0, <2>1 DEF Execution
  <2>3. /\ ex' = [ex EXCEPT ![e] = y] /\ ex[e].pc = "pass" /\ p \notin ex[e].announced
        /\ progress' = progress /\ status' = status
    BY <1>6, <2>1 DEF IngestPlatform, row
  <2>4. Follows(y, status', progress)
    BY <1>0, <2>2, <2>3 DEF Follows
  <2> QED BY <1>a, <2>3, <2>4
<1>7. ASSUME NEW p \in Platforms, CheckpointPlatform(e, p)
      PROVE  Followed' /\ DonePlatforms \subseteq DonePlatforms'
  <2>1. PICK y : y = [ex[e] EXCEPT !.pc = "pass", !.task[p] = "idle", !.ingesting = {}]
    OBVIOUS
  <2>2. /\ y \in Execution /\ y.pc = "pass" /\ y.scan = ex[e].scan /\ y.ingesting = {}
        /\ y.announced = ex[e].announced /\ y.task[p] = "idle"
        /\ \A q \in Platforms : q # p => y.task[q] = ex[e].task[q]
    BY <1>0, <2>1 DEF Execution, ExecStates, TaskStates
  <2>3. /\ Mark(e, p, "completed", ex[e].mem[p].attempts, y) /\ ex[e].pc = "ingest" /\ p \in ex[e].ingesting
    BY <1>7, <2>1 DEF CheckpointPlatform
  <2>4. p \notin y.announced /\ y.scan = {} /\ InPass(e)
    BY <1>0, <2>2, <2>3 DEF Follows, InPass
  <2>5. y.announced \subseteq ex[e].announced /\ \A q \in Platforms : y.task[q] # "idle" => ex[e].task[q] # "idle"
    BY <2>2
  <2> QED BY <2>2, <2>3, <2>4, <2>5, MarkFollows
<1>8. ASSUME NEW p \in Platforms, HandleFailure(e, p)
      PROVE  Followed' /\ DonePlatforms \subseteq DonePlatforms'
  <2>1. PICK y : y = [ex[e] EXCEPT !.task[p] = "idle"]
    OBVIOUS
  <2>2. /\ y \in Execution /\ y.pc = ex[e].pc /\ y.scan = ex[e].scan /\ y.ingesting = ex[e].ingesting
        /\ y.announced = ex[e].announced /\ \A q \in Platforms : y.task[q] # "idle" => ex[e].task[q] # "idle"
    BY <1>0, <2>1 DEF Execution, TaskStates
  <2>3. PICK st : st = IF ex[e].task[p] = "error" THEN "failed" ELSE "cancelled"
    OBVIOUS
  <2>4. Mark(e, p, st, ex[e].mem[p].attempts, y) /\ ex[e].pc = "pass" /\ ex[e].task[p] # "idle" /\ st # "completed"
    BY <1>8, <2>1, <2>3 DEF HandleFailure
  <2>5. ex[e].mem[p].status # "completed" /\ y.scan = {} /\ y.ingesting = {} /\ InPass(e) /\ y.pc = "pass"
    BY <1>0, <2>2, <2>4 DEF Follows, InPass
  <2> QED BY <2>2, <2>4, <2>5, MarkFollows
<1> QED BY <1>1, <1>2, <1>3, <1>4, <1>5, <1>6, <1>7, <1>8 DEF Work

LEMMA NextFollows ==
    ~LiveScan => (TypeOK /\ OwnerIsClaimant /\ Alone /\ Followed /\ [Next]_vars
                    => Followed' /\ DonePlatforms \subseteq DonePlatforms')
<1> SUFFICES ASSUME ~LiveScan, TypeOK, OwnerIsClaimant, Alone, Followed, [Next]_vars
             PROVE  Followed' /\ DonePlatforms \subseteq DonePlatforms'
  OBVIOUS
<1>0. ex \in [Execs -> Execution] /\ attempts \in 0 .. MaxClaims /\ MaxClaims \in Nat
  BY CollectionAssumption DEF TypeOK
\* A step that leaves the checkpoint alone and every execution as it was or
\* out of its passes.
<1>a. ASSUME progress' = progress,
             \A e \in Execs : \/ ex'[e] = ex[e] /\ (status' = "running" => status = "running" \/ ~Live(e))
                              \/ Follows(ex'[e], status', progress)
      PROVE  Followed' /\ DonePlatforms \subseteq DonePlatforms'
  <2>1. \A e \in Execs : Follows(ex'[e], status', progress')
    BY <1>a DEF Followed, Follows, Live
  <2> QED BY <1>a, <2>1 DEF Followed, DonePlatforms
<1>1. CASE RecoverExpired \/ FailExhausted \/ LeaseExpires \/ CancelRead \/ CancelWrite \/ UNCHANGED vars
  <2>1. ex' = ex /\ progress' = progress /\ (status' = "running" => status = "running")
    BY <1>1 DEF RecoverExpired, FailExhausted, LeaseExpires, CancelRead, CancelWrite, CloseRow, vars, row
  <2> QED BY <1>a, <2>1
<1>2. ASSUME NEW w \in Procs, Claim(w) PROVE Followed' /\ DonePlatforms \subseteq DonePlatforms'
  <2>1. attempts < MaxClaims /\ progress' = progress
    BY <1>2 DEF Claim, Claimable
  <2>2. attempts + 1 \in Execs
    BY <1>0, <2>1 DEF Execs
  <2>3. \A e \in Execs : ~Live(e)
    <3>1. CASE status = "queued"
      BY <1>0, <3>1 DEF Alone, Execs
    <3>2. CASE Abandoned
      BY <3>2 DEF Alone, Abandoned
    <3> QED BY <1>2, <3>1, <3>2 DEF Claim, Claimable
  <2>4. PICK y : y = [Unborn EXCEPT !.pc = "start", !.proc = w]
    OBVIOUS
  <2>5. ex' = [ex EXCEPT ![attempts + 1] = y] /\ Follows(y, status', progress)
    BY <1>2, <2>4, RestFollows DEF Claim
  <2>6. \A e \in Execs : ex'[e] = IF e = attempts + 1 THEN y ELSE ex[e]
    BY <1>0, <2>2, <2>5
  <2> QED BY <1>a, <2>1, <2>3, <2>5, <2>6
<1>3. ASSUME NEW w \in Procs, ProcessEnds(w) PROVE Followed' /\ DonePlatforms \subseteq DonePlatforms'
  <2>1. /\ progress' = progress /\ status' = status
        /\ \A e \in Execs : ex'[e] = ex[e] \/ ex'[e] = Over(ex[e])
    BY <1>3 DEF ProcessEnds, row
  <2> QED BY <1>a, <2>1, RestFollows, ZenonT(40)
<1>4. ASSUME NEW e \in Execs, ExecuteRaises(e) PROVE Followed' /\ DonePlatforms \subseteq DonePlatforms'
  <2>1. progress' = progress /\ status' = status /\ ex' = [ex EXCEPT ![e] = Over(ex[e])]
    BY <1>4 DEF ExecuteRaises, row
  <2>2. \A d \in Execs : ex'[d] = ex[d] \/ ex'[d] = Over(ex[d])
    BY <1>0, <2>1
  <2>3. \A x : Follows(Over(x), status', progress)
    BY RestFollows
  <2>4. \A d \in Execs : \/ ex'[d] = ex[d] /\ (status' = "running" => status = "running" \/ ~Live(d))
                         \/ Follows(ex'[d], status', progress)
    BY <2>1, <2>2, <2>3
  <2> QED BY <1>a, <2>1, <2>4
<1>5. ASSUME NEW e \in Execs, Heartbeat(e) \/ HeartbeatDies(e) PROVE Followed' /\ DonePlatforms \subseteq DonePlatforms'
  <2>1. progress' = progress /\ status' = status
    BY <1>5 DEF Heartbeat, HeartbeatDies, row
  <2>2. PICK x, y, z : /\ x = [ex[e] EXCEPT !.cancelEvent = @ \/ cancelRequested]
                       /\ y = [ex[e] EXCEPT !.cancelEvent = TRUE, !.beating = FALSE]
                       /\ z = [ex[e] EXCEPT !.beating = FALSE]
    OBVIOUS
  <2>3. \A v \in {x, y, z} : /\ v.pc = ex[e].pc /\ v.mem = ex[e].mem /\ v.scan = ex[e].scan
                             /\ v.ingesting = ex[e].ingesting /\ v.announced = ex[e].announced
                             /\ v.task = ex[e].task
    BY <1>0, <2>2, ZenonT(40) DEF Execution
  <2>4. \A v \in {x, y, z} : Follows(v, status, progress)
    BY <2>3 DEF Followed, Follows
  <2>5. PICK v \in {x, y, z} : ex' = [ex EXCEPT ![e] = v]
    BY <1>5, <2>2 DEF Heartbeat, HeartbeatDies
  <2>6. \A d \in Execs : ex'[d] = IF d = e THEN v ELSE ex[d]
    BY <1>0, <2>5
  <2> QED BY <1>a, <2>1, <2>4, <2>6
<1>6. ASSUME NEW e \in Execs, ScanCommit(e) \/ ScanDrop(e) \/ \E p \in Platforms : ScanSend(e, p) PROVE FALSE
  BY <1>6 DEF ScanCommit, ScanDrop, ScanSend, Followed, Follows
<1> QED BY <1>1, <1>2, <1>3, <1>4, <1>5, <1>6, WorkFollows DEF Next

\* Once the checkpoint calls a platform completed no crash, retry,
\* cancellation or new claim takes it back, when heartbeats come in time and
\* do not fail and no live scan writes an older copy of the checkpoint.
\* CollectionRunWorker._mark_platform_* and update_progress_if_owner.
THEOREM CompletedPlatformsStay ==
    ASSUME ~Stalls, ~HeartbeatFaults, ~LiveScan PROVE Spec => CheckpointMonotone
<1>1. Timely
  BY DEF Timely
<1>2. Init => OwnerIsClaimant /\ Followed
  BY RestFollows DEF Init, OwnerIsClaimant, Followed
<1>3. TypeOK /\ OwnerIsClaimant /\ Alone /\ [Next]_vars => Alone'
  BY <1>1, NextAlone
<1>4. TypeOK /\ OwnerIsClaimant /\ Alone /\ Followed /\ [Next]_vars
        => Followed' /\ DonePlatforms \subseteq DonePlatforms'
  BY NextFollows
<1>5. TypeOK /\ OwnerIsClaimant /\ Alone /\ Followed /\ [Next]_vars
        => [DonePlatforms \subseteq DonePlatforms']_vars
  BY <1>4
<1> QED BY <1>2, <1>3, <1>4, <1>5, InitType, NextType, InitAlone, NextOwner, PTL DEF Spec, CheckpointMonotone
-----------------------------------------------------------------------------
(* Never stuck: what the queue and the executions leave behind always has   *)
(* someone to go on with it.  The guards are written out, no ENABLED.       *)

\* recover_expired may close the row; the lease of the row may run out.
CanClose == Abandoned /\ (cancelRequested \/ attempts >= MaxClaims)
CanLapse == lease = "live" /\ (Stalls \/ \A e \in Execs : Live(e) => ~KeepsLease(e))

\* A platform of execution x that the coordinator or its own task may move on.
CanMovePlatform(x, p) ==
    \/ x.pc = "pass" /\ (p \in x.announced \/ x.task[p] \in {"result", "error", "cancelled"})
    \/ x.task[p] = "crawling"
    \/ x.task[p] = "waiting" /\ Cardinality({q \in Platforms : x.task[q] = "crawling"}) < Concurrency

\* Execution x has a step of its own to take.
CanGoOn(x) ==
    \/ x.pc \in {"start", "terminal", "enqueue"}
    \/ x.pc = "ingest" /\ x.ingesting # {}
    \/ x.pc = "pass" /\ \/ x.scan # {}
                        \/ x.task = Idle /\ x.announced = {}
                        \/ \E p \in Platforms : CanMovePlatform(x, p)

\* A run that has not ended may be claimed, may be closed, loses its lease in
\* time, or is kept by a live execution that can go on.
RunIsCarried ==
    status \notin Terminal =>
        \/ Claimable \/ CanClose \/ CanLapse
        \/ \E e \in Execs : Live(e) /\ KeepsLease(e) /\ CanGoOn(ex[e])

\* The columns of the row: a queued run has not been claimed nor cancelled,
\* and a running one has a lease, live or expired.
RowInv ==
    /\ status = "queued" => attempts = 0 /\ ~cancelRequested /\ canceller # "sawActive"
    /\ status = "running" => lease # "none"

Attended(x) == x.pc = "ingest" => x.ingesting # {}
AllAttended == \A e \in Execs : Attended(ex[e])

\* What a step of an execution does to the columns of the row.
RowStep ==
    /\ UNCHANGED <<cancelRequested, attempts, canceller>>
    /\ \/ UNCHANGED <<status, lease>>
       \/ status' \in Terminal
       \/ status' = status /\ lease' = "live"

LEMMA WorkRow == ASSUME TypeOK, NEW e \in Execs, Work(e) PROVE RowStep
<1>1. CASE BeginExecute(e) \/ EndPass(e) \/ EnqueueAnalysis(e)
  BY <1>1 DEF BeginExecute, EndPass, EnqueueAnalysis, row, RowStep
<1>2. CASE MarkTerminal(e)
  BY <1>2, TerminalStatusTyped DEF MarkTerminal, CloseRow, RowStep
<1>3. ASSUME NEW p \in Platforms,
             \/ AcquireSlot(e, p) \/ CrawlEnds(e, p) \/ HandleStarted(e, p)
             \/ IngestPlatform(e, p) \/ CheckpointPlatform(e, p) \/ HandleFailure(e, p)
      PROVE  RowStep
  BY <1>3 DEF AcquireSlot, CrawlEnds, HandleStarted, IngestPlatform, CheckpointPlatform,
     HandleFailure, Mark, Flush, row, RowStep
<1> QED BY <1>1, <1>2, <1>3 DEF Work

LEMMA NextRow == TypeOK /\ RowInv /\ [Next]_vars => RowInv'
<1> SUFFICES ASSUME TypeOK, RowInv, [Next]_vars PROVE RowInv'
  OBVIOUS
<1>1. CASE RecoverExpired \/ FailExhausted \/ LeaseExpires \/ UNCHANGED vars
  BY <1>1 DEF RecoverExpired, FailExhausted, LeaseExpires, Abandoned, CloseRow, vars, row, RowInv
<1>2. CASE CancelRead \/ CancelWrite
  BY <1>2 DEF CancelRead, CancelWrite, row, RowInv, TypeOK
<1>3. ASSUME NEW w \in Procs, Claim(w) \/ ProcessEnds(w) PROVE RowInv'
  BY <1>3 DEF Claim, ProcessEnds, row, RowInv
<1>4. ASSUME RowStep PROVE RowInv'
  BY <1>4 DEF RowStep, RowInv, Terminal
<1>5. ASSUME NEW e \in Execs,
             \/ Heartbeat(e) \/ HeartbeatDies(e) \/ ExecuteRaises(e) \/ ScanCommit(e) \/ ScanDrop(e)
             \/ \E p \in Platforms : ScanSend(e, p)
      PROVE  RowStep
  BY <1>5 DEF Heartbeat, HeartbeatDies, ExecuteRaises, ScanCommit, ScanDrop, ScanSend, Flush, row, RowStep
<1> QED BY <1>1, <1>2, <1>3, <1>4, <1>5, WorkRow DEF Next

\* A step of one execution into an attended one.
LEMMA LocalAttended ==
    ASSUME TypeOK, AllAttended, NEW e \in Execs, NEW y, ex' = [ex EXCEPT ![e] = y], Attended(y)
    PROVE  AllAttended'
BY DEF TypeOK, AllAttended

LEMMA MarkAttended ==
    ASSUME TypeOK, AllAttended, NEW e \in Execs, NEW p \in Platforms, NEW st, NEW n,
           NEW x \in Execution, x.pc = "pass", Mark(e, p, st, n, x)
    PROVE  AllAttended'
<1>1. PICK mem : mem = [ex[e].mem EXCEPT ![p] = [status |-> st, attempts |-> n]]
  OBVIOUS
<1>2. PICK y : y = [x EXCEPT !.mem = mem]
  OBVIOUS
<1>3. ex' = [ex EXCEPT ![e] = y] /\ y.pc = "pass"
  BY <1>1, <1>2 DEF Mark, Execution
<1> QED BY <1>3, LocalAttended DEF Attended

LEMMA RestAttended == ASSUME NEW x PROVE Attended(Unborn) /\ Attended(Over(x))
BY DEF Attended, Unborn, Over

LEMMA WorkAttended == ASSUME TypeOK, AllAttended, NEW e \in Execs, Work(e) PROVE AllAttended'
<1>0. ex[e] \in Execution /\ Attended(ex[e])
  BY DEF TypeOK, AllAttended
<1>1. CASE BeginExecute(e)
  <2>1. PICK y : y = [ex[e] EXCEPT !.mem = NormalizeProgress, !.beating = TRUE]
    OBVIOUS
  <2>2. y \in Execution
    BY <1>0, <2>1 DEF Execution, NormalizeProgress, TypeOK
  <2>3. [y EXCEPT !.pc = "terminal"].pc = "terminal" /\ \A todo : StartPass(y, todo).pc = "pass"
    BY <2>2 DEF Execution, StartPass
  <2>4. PICK z : ex' = [ex EXCEPT ![e] = z] /\ z.pc \in {"terminal", "pass"}
    BY <1>1, <2>1, <2>3 DEF BeginExecute
  <2> QED BY <2>4, LocalAttended DEF Attended
<1>2. CASE EndPass(e)
  <2>1. /\ [ex[e] EXCEPT !.pc = "terminal"].pc = "terminal"
        /\ \A todo : [StartPass(ex[e], todo) EXCEPT !.retrying = TRUE].pc = "pass"
    BY <1>0 DEF Execution, StartPass
  <2>2. PICK z : ex' = [ex EXCEPT ![e] = z] /\ z.pc \in {"terminal", "pass"}
    BY <1>2, <2>1 DEF EndPass
  <2> QED BY <2>2, LocalAttended DEF Attended
<1>3. CASE MarkTerminal(e) \/ EnqueueAnalysis(e)
  <2>1. Attended([ex[e] EXCEPT !.pc = "enqueue"]) /\ Attended(Over(ex[e]))
    BY <1>0, RestAttended DEF Attended, Execution
  <2>2. PICK z : ex' = [ex EXCEPT ![e] = z] /\ Attended(z)
    <3>1. CASE MarkTerminal(e)
      BY <2>1, <3>1 DEF MarkTerminal
    <3>2. CASE EnqueueAnalysis(e)
      BY <2>1, <3>2 DEF EnqueueAnalysis
    <3> QED BY <1>3, <3>1, <3>2
  <2> QED BY <2>2, LocalAttended
<1>4. ASSUME NEW p \in Platforms, AcquireSlot(e, p) \/ CrawlEnds(e, p) PROVE AllAttended'
  <2>1. PICK t : ex' = [ex EXCEPT ![e] = [ex[e] EXCEPT !.task = [ex[e].task EXCEPT ![p] = t]]]
    BY <1>0, <1>4 DEF AcquireSlot, CrawlEnds, TypeOK, Execution
  <2>2. Attended([ex[e] EXCEPT !.task = [ex[e].task EXCEPT ![p] = t]])
    BY <1>0 DEF Attended, Execution
  <2> QED BY <2>1, <2>2, LocalAttended
<1>5. ASSUME NEW p \in Platforms, HandleStarted(e, p) PROVE AllAttended'
  <2>1. PICK x : x = [ex[e] EXCEPT !.announced = @ \ {p}]
    OBVIOUS
  <2>2. x \in Execution /\ x.pc = "pass"
    BY <1>0, <1>5, <2>1 DEF HandleStarted, Execution
  <2>3. Mark(e, p, "running", ex[e].mem[p].attempts + 1, x)
    BY <1>5, <2>1 DEF HandleStarted
  <2> QED BY <2>2, <2>3, MarkAttended
<1>6. ASSUME NEW p \in Platforms, IngestPlatform(e, p) PROVE AllAttended'
  <2>1. PICK y : y = [ex[e] EXCEPT !.pc = "ingest", !.ingesting = {p}]
    OBVIOUS
  <2>2. ex' = [ex EXCEPT ![e] = y]
    BY <1>0, <1>6, <2>1 DEF IngestPlatform, TypeOK, Execution
  <2>3. y.ingesting = {p}
    BY <1>0, <2>1 DEF Execution
  <2> QED BY <2>2, <2>3, LocalAttended DEF Attended
<1>7. ASSUME NEW p \in Platforms, CheckpointPlatform(e, p) PROVE AllAttended'
  <2>1. PICK x : x = [ex[e] EXCEPT !.pc = "pass", !.task[p] = "idle", !.ingesting = {}]
    OBVIOUS
  <2>2. x \in Execution /\ x.pc = "pass"
    BY <1>0, <2>1 DEF Execution, ExecStates, TaskStates
  <2>3. Mark(e, p, "completed", ex[e].mem[p].attempts, x)
    BY <1>7, <2>1 DEF CheckpointPlatform
  <2> QED BY <2>2, <2>3, MarkAttended
<1>8. ASSUME NEW p \in Platforms, HandleFailure(e, p) PROVE AllAttended'
  <2>1. PICK x : x = [ex[e] EXCEPT !.task[p] = "idle"]
    OBVIOUS
  <2>2. x \in Execution /\ x.pc = "pass"
    BY <1>0, <1>8, <2>1 DEF HandleFailure, Execution, TaskStates
  <2>3. PICK st : Mark(e, p, st, ex[e].mem[p].attempts, x)
    BY <1>8, <2>1 DEF HandleFailure
  <2> QED BY <2>2, <2>3, MarkAttended
<1> QED BY <1>1, <1>2, <1>3, <1>4, <1>5, <1>6, <1>7, <1>8 DEF Work

LEMMA NextAttended == TypeOK /\ AllAttended /\ [Next]_vars => AllAttended'
<1> SUFFICES ASSUME TypeOK, AllAttended, [Next]_vars PROVE AllAttended'
  OBVIOUS
<1>1. CASE RecoverExpired \/ FailExhausted \/ LeaseExpires \/ CancelRead \/ CancelWrite \/ UNCHANGED vars
  BY <1>1 DEF RecoverExpired, FailExhausted, LeaseExpires, CancelRead, CancelWrite, vars, AllAttended
<1>2. ASSUME NEW w \in Procs, Claim(w) PROVE AllAttended'
  <2>1. attempts + 1 \in Execs
    BY <1>2, CollectionAssumption DEF Claim, Claimable, TypeOK, Execs
  <2>2. Attended([Unborn EXCEPT !.pc = "start", !.proc = w])
    BY DEF Attended, Unborn
  <2> QED BY <1>2, <2>1, <2>2, LocalAttended DEF Claim
<1>3. ASSUME NEW w \in Procs, ProcessEnds(w) PROVE AllAttended'
  BY <1>3, RestAttended DEF ProcessEnds, AllAttended
<1>4. ASSUME NEW e \in Execs,
             \/ Heartbeat(e) \/ HeartbeatDies(e) \/ ExecuteRaises(e) \/ ScanCommit(e) \/ ScanDrop(e)
             \/ \E p \in Platforms : ScanSend(e, p)
      PROVE  AllAttended'
  <2>0. ex[e] \in Execution /\ Attended(ex[e])
    BY DEF TypeOK, AllAttended
  <2>1. PICK z : ex' = [ex EXCEPT ![e] = z] /\ Attended(z)
    <3>1. CASE Heartbeat(e)
      <4>1. \A v : Attended([ex[e] EXCEPT !.cancelEvent = v])
        BY <2>0 DEF Attended, Execution
      <4>2. Attended([ex[e] EXCEPT !.cancelEvent = TRUE, !.beating = FALSE])
        BY <2>0 DEF Attended, Execution
      <4>3. PICK z : ex' = [ex EXCEPT ![e] = z] /\ Attended(z)
        BY <3>1, <4>1, <4>2 DEF Heartbeat
      <4> QED BY <4>3
    <3>2. CASE HeartbeatDies(e)
      <4>1. Attended([ex[e] EXCEPT !.beating = FALSE])
        BY <2>0 DEF Attended, Execution
      <4> QED BY <3>2, <4>1 DEF HeartbeatDies
    <3>3. CASE ExecuteRaises(e)
      BY <3>3, RestAttended DEF ExecuteRaises
    <3>4. CASE ScanCommit(e) \/ ScanDrop(e)
      <4>1. Attended([ex[e] EXCEPT !.scan = {}])
        BY <2>0 DEF Attended, Execution
      <4> QED BY <3>4, <4>1 DEF ScanCommit, ScanDrop
    <3>5. ASSUME NEW p \in Platforms, ScanSend(e, p)
          PROVE  \E z : ex' = [ex EXCEPT ![e] = z] /\ Attended(z)
      <4>1. Attended([ex[e] EXCEPT !.scan = {[by |-> p, mem |-> ex[e].mem]}])
        BY <2>0 DEF Attended, Execution
      <4> QED BY <3>5, <4>1 DEF ScanSend
    <3> QED BY <1>4, <3>1, <3>2, <3>3, <3>4, <3>5
  <2> QED BY <2>1, LocalAttended
<1> QED BY <1>1, <1>2, <1>3, <1>4, WorkAttended DEF Next

\* A live execution whose coordinator is not lost has a step to take: the
\* tasks of a pass never wait for one another for ever, as the first of them
\* finds the semaphore free.
LEMMA LiveGoesOn ==
    ASSUME NEW x \in Execution, x.pc \notin {"unborn", "over"}, Attended(x) PROVE CanGoOn(x)
<1>1. CASE x.pc # "pass"
  BY <1>1 DEF CanGoOn, Attended, Execution, ExecStates
<1>2. CASE x.pc = "pass"
  <2>1. CASE x.task = Idle
    BY <1>2, <2>1 DEF CanGoOn, CanMovePlatform, Execution
  <2>2. CASE x.task # Idle
    <3>1. PICK p \in Platforms : x.task[p] # "idle"
      BY <2>2 DEF Idle, Execution
    <3>2. x.task[p] \in TaskStates
      BY DEF Execution
    <3>3. CASE x.task[p] # "waiting"
      BY <1>2, <3>1, <3>2, <3>3 DEF CanGoOn, CanMovePlatform, TaskStates
    <3>4. CASE x.task[p] = "waiting"
      <4>1. CASE \E q \in Platforms : x.task[q] = "crawling"
        BY <1>2, <4>1 DEF CanGoOn, CanMovePlatform
      <4>2. CASE ~\E q \in Platforms : x.task[q] = "crawling"
        <5>1. {q \in Platforms : x.task[q] = "crawling"} = {}
          BY <4>2
        <5>2. Cardinality({q \in Platforms : x.task[q] = "crawling"}) < Concurrency
          BY <5>1, FS_EmptySet, CollectionAssumption
        <5> QED BY <1>2, <3>4, <5>2 DEF CanGoOn, CanMovePlatform
      <4> QED BY <4>1, <4>2
    <3> QED BY <3>3, <3>4
  <2> QED BY <2>1, <2>2
<1> QED BY <1>1, <1>2

\* A run that has not ended is never left alone, whatever stalls, dies or is
\* cancelled: some worker may claim it or close it, its lease runs out, or a
\* live execution that keeps the lease can go on.  The safety core of "every
\* run ends"; recover_expired, claim_next and CollectionRunWorker._execute.
THEOREM CollectionsAreNeverStuck == Spec => []RunIsCarried
<1>1. Init => RowInv /\ AllAttended
  BY RestAttended DEF Init, RowInv, AllAttended
<1>2. ASSUME TypeOK, RowInv, AllAttended PROVE RunIsCarried
  <2>1. CASE status = "queued"
    BY <1>2, <2>1, CollectionAssumption DEF RowInv, RunIsCarried, Claimable
  <2>2. CASE status = "running" /\ lease = "expired"
    BY <1>2, <2>2, CollectionAssumption DEF TypeOK, RunIsCarried, Claimable, CanClose, Abandoned
  <2>3. CASE status = "running" /\ lease = "live" /\ ~CanLapse
    <3>1. PICK e \in Execs : Live(e) /\ KeepsLease(e)
      BY <2>3 DEF CanLapse
    <3>2. ex[e] \in Execution /\ Attended(ex[e])
      BY <1>2 DEF TypeOK, AllAttended
    <3>3. CanGoOn(ex[e])
      BY <3>1, <3>2, LiveGoesOn DEF Live
    <3> QED BY <3>1, <3>3 DEF RunIsCarried
  <2> QED BY <1>2, <2>1, <2>2, <2>3 DEF TypeOK, RowInv, RunIsCarried, Statuses
<1> QED BY <1>1, <1>2, InitType, NextType, NextRow, NextAttended, PTL DEF Spec
=============================================================================
