---------------------------- MODULE RunTreeProofs ----------------------------
(***************************************************************************)
(* Theorems of RunTree for any plans, limit, faults and bounds: types, no  *)
(* instruction enters a conversation twice, results precede statuses,      *)
(* every invocation of a tree that does not collect was paid for, a call   *)
(* has one expert as long as no run has two executions at once, and nobody *)
(* waits for what nobody does.                                             *)
(***************************************************************************)
EXTENDS RunTree, FiniteSetTheorems, WellFoundedInduction, TLAPS

\* A checkpoint before a tool batch is at a node of its run's plan.
NodeFits(r, c) ==
    /\ c \in Checkpoint /\ c.node > 0
    /\ c.stage = "tools" => c.node <= Len(PlanOf(r))

\* So is an execution of one; a pending patch has copied a counter that was
\* within the limit.
ExecFits(r, x) ==
    /\ x \in Execution /\ x.at.node > 0
    /\ x.pc \in {"tools", "calls"} => x.at.node <= Len(PlanOf(r))
    /\ \A p \in DOMAIN x.calls : x.calls[p].copy <= Limit

TypeInv ==
    /\ TypeOK
    /\ \A r \in Runs : NodeFits(r, cp[r])
    /\ \A e \in Execs : ExecFits(e[1], ex[e])

LEMMA ExecIndex == \A e \in Execs : e[1] \in Runs /\ e[2] \in Nat
BY RunTreeAssumption DEF Execs, Runs

LEMMA PlansTyped ==
    ASSUME TypeOK, NEW r \in Runs PROVE PlanOf(r) \in Seq(Seq(Tools))
<1>1. plan \in Seq(Seq(Tools))
  BY RunTreeAssumption DEF TypeOK, Batches
<1>2. ExpertPlan \in Seq(Seq(Tools))
  <2>1. \A s \in Seq({"read"}) : s \in Seq(Tools)
    BY DEF Tools
  <2> QED BY <2>1, RunTreeAssumption
<1> QED BY <1>1, <1>2 DEF PlanOf

LEMMA FirstFits == ASSUME NEW r \in Runs PROVE NodeFits(r, First) /\ ExecFits(r, Over)
<1>1. First \in Checkpoint /\ First.node = 1 /\ First.stage = "steer"
  BY DEF First, Checkpoint
<1>2. Over \in Execution /\ Over.at = First /\ Over.pc = "over" /\ Over.calls = <<>>
  <2>1. <<>> \in Seq(CallState) /\ {} \in SUBSET Steers
    OBVIOUS
  <2> QED BY <2>1, <1>1 DEF Over, Execution
<1> QED BY <1>1, <1>2 DEF NodeFits, ExecFits

\* An execution that has been claimed, or cancelled.
LEMMA WaitingFits == ASSUME NEW r \in Runs PROVE ExecFits(r, Claimed) /\ ExecFits(r, Ending)
<1>1. Over \in Execution /\ Over.at.node = 1 /\ Over.calls = <<>>
  BY FirstFits DEF ExecFits, Over, First
<1>2. /\ Claimed \in Execution /\ Claimed.at = Over.at /\ Claimed.pc = "claimed" /\ Claimed.calls = <<>>
      /\ Ending \in Execution /\ Ending.at = Over.at /\ Ending.pc = "ending" /\ Ending.calls = <<>>
  BY <1>1 DEF Claimed, Ending, Execution
<1> QED BY <1>1, <1>2 DEF ExecFits

\* The execution that goes on from a checkpoint.
LEMMA StartFits ==
    ASSUME NEW r \in Runs, NEW c, NodeFits(r, c) PROVE ExecFits(r, Start(c))
<1>1. c \in Checkpoint /\ c.stage \in {"steer", "model", "tools", "finish"}
  BY DEF NodeFits, Checkpoint
<1>2. Over \in Execution /\ Over.calls = <<>>
  BY FirstFits DEF ExecFits, Over
<1>3. Start(c).pc = c.stage /\ Start(c).at = c /\ Start(c).calls = <<>>
  BY <1>2 DEF Start, Execution
<1>4. Start(c) \in Execution
  BY <1>1, <1>2 DEF Start, Execution
<1> QED BY <1>1, <1>3, <1>4 DEF ExecFits, NodeFits

LEMMA InitTypeInv == Init => TypeInv
<1> SUFFICES ASSUME Init PROVE TypeInv
  OBVIOUS
<1>1. \A r \in Runs : NodeFits(r, cp[r])
  BY FirstFits DEF Init
<1>2. \A e \in Execs : ExecFits(e[1], ex[e])
  BY FirstFits, ExecIndex DEF Init
<1>3. runs \in [Runs -> Row]
  BY DEF Init, Row, NoKey, Key
<1>4. cp \in [Runs -> Checkpoint] /\ ex \in [Execs -> Execution]
  BY FirstFits, ExecIndex DEF Init, NodeFits, ExecFits, Runs, Root
<1>5. log \in History
  <2>1. 0 \in 0 .. MaxFailures
    BY RunTreeAssumption
  <2> QED BY <2>1 DEF Init, History
<1> QED BY <1>1, <1>2, <1>3, <1>4, <1>5, RunTreeAssumption DEF Init, TypeInv, TypeOK

-----------------------------------------------------------------------------
(* The steps of one execution. *)

\* One execution and its run's checkpoint change, and remain fitting.
LEMMA StepType ==
    ASSUME TypeInv, NEW e \in Execs, NEW x, ExecFits(e[1], x),
           ex' = [ex EXCEPT ![e] = x],
           cp' = cp \/ (\E c : NodeFits(e[1], c) /\ cp' = [cp EXCEPT ![e[1]] = c]),
           plan' = plan, readOnly' = readOnly, runs' \in [Runs -> Row], used' \in 0 .. Limit,
           steers' \in Seq(BOOLEAN), Len(steers') <= MaxSteers, log' \in History
    PROVE  TypeInv'
<1>1. \A r \in Runs : NodeFits(r, cp[r])' /\ cp' \in [Runs -> Checkpoint]
  <2>1. CASE cp' = cp
    BY <2>1 DEF TypeInv, TypeOK, NodeFits, PlanOf
  <2>2. ASSUME NEW c, NodeFits(e[1], c), cp' = [cp EXCEPT ![e[1]] = c]
        PROVE  \A r \in Runs : NodeFits(r, cp[r])' /\ cp' \in [Runs -> Checkpoint]
    BY <2>2 DEF TypeInv, TypeOK, NodeFits, PlanOf
  <2> QED BY <2>1, <2>2
<1>2. \A d \in Execs : ExecFits(d[1], ex[d])' /\ ex' \in [Execs -> Execution]
  BY DEF TypeInv, TypeOK, ExecFits, PlanOf
<1>3. cp' \in [Runs -> Checkpoint]
  BY <1>1, RunTreeAssumption DEF Runs
<1>4. ex' \in [Execs -> Execution]
  BY DEF TypeInv, TypeOK, ExecFits
<1> QED BY <1>1, <1>2, <1>3, <1>4 DEF TypeInv, TypeOK

\* A step of which only the execution knows.
LEMMA LocalType ==
    ASSUME TypeInv, NEW e \in Execs, NEW x, ExecFits(e[1], x), ex' = [ex EXCEPT ![e] = x],
           UNCHANGED <<plan, readOnly, runs, used, cp, steers>>, log' \in History
    PROVE  TypeInv'
<1>1. runs' \in [Runs -> Row] /\ used' \in 0 .. Limit /\ steers' \in Seq(BOOLEAN) /\ Len(steers') <= MaxSteers
  BY DEF TypeInv, TypeOK
<1> QED BY <1>1, StepType

LEMMA SaveType ==
    ASSUME TypeInv, NEW e \in Execs, NEW c, NodeFits(e[1], c), Save(e, c),
           UNCHANGED <<plan, readOnly, runs, used, steers, log>>
    PROVE  TypeInv'
<1>1. ExecFits(e[1], Start(c))
  BY StartFits, ExecIndex
<1>2. runs' \in [Runs -> Row] /\ used' \in 0 .. Limit /\ steers' \in Seq(BOOLEAN)
        /\ Len(steers') <= MaxSteers /\ log' \in History
  BY DEF TypeInv, TypeOK
<1>3. ex' = [ex EXCEPT ![e] = Start(c)] /\ cp' = [cp EXCEPT ![e[1]] = c]
  BY DEF Save
<1> QED BY <1>1, <1>2, <1>3, StepType

\* What an execution is.
LEMMA ExecTyped ==
    ASSUME TypeInv, NEW e \in Execs
    PROVE  /\ ExecFits(e[1], ex[e]) /\ ex[e] \in Execution /\ ex[e].at \in Checkpoint
           /\ ex[e].calls \in Seq(CallState) /\ e[1] \in Runs /\ e[2] \in Nat
BY ExecIndex DEF TypeInv, ExecFits, Execution

\* Moving on with the same batch and the same checkpoint.
LEMMA MoveFits ==
    ASSUME TypeInv, NEW e \in Execs,
           NEW pc \in {"over", "mark", "fold", "complete", "steer", "model", "finish"},
           NEW s \in SUBSET Steers
    PROVE  /\ ExecFits(e[1], [ex[e] EXCEPT !.pc = pc])
           /\ ExecFits(e[1], [ex[e] EXCEPT !.pc = pc, !.loaded = s])
<1> DEFINE x == [ex[e] EXCEPT !.pc = pc]
           y == [ex[e] EXCEPT !.pc = pc, !.loaded = s]
<1>1. x \in Execution /\ x.pc = pc /\ x.at = ex[e].at /\ x.calls = ex[e].calls
  BY ExecTyped DEF Execution
<1>2. y \in Execution /\ y.pc = pc /\ y.at = ex[e].at /\ y.calls = ex[e].calls
  BY ExecTyped DEF Execution
<1> HIDE DEF x, y
<1>3. ExecFits(e[1], x) /\ ExecFits(e[1], y)
  BY <1>1, <1>2, ExecTyped DEF ExecFits
<1> QED BY <1>3 DEF x, y

\* One call changes.
LEMMA CallFits ==
    ASSUME TypeInv, NEW e \in Execs, NEW p \in DOMAIN ex[e].calls,
           NEW c \in CallState, c.copy <= Limit
    PROVE  ExecFits(e[1], [ex[e] EXCEPT !.calls[p] = c])
<1> DEFINE calls == [ex[e].calls EXCEPT ![p] = c]
           x == [ex[e] EXCEPT !.calls = calls]
<1>1. calls \in Seq(CallState) /\ DOMAIN calls = DOMAIN ex[e].calls
  BY ExecTyped
<1>2. \A q \in DOMAIN calls : calls[q].copy <= Limit
  BY ExecTyped DEF ExecFits
<1> HIDE DEF calls
<1>3. x \in Execution /\ x.pc = ex[e].pc /\ x.at = ex[e].at /\ x.calls = calls
  BY <1>1, ExecTyped DEF Execution
<1> HIDE DEF x
<1>4. ExecFits(e[1], x)
  BY <1>1, <1>2, <1>3, ExecTyped DEF ExecFits
<1> QED BY <1>4 DEF x, calls

\* Other fields of a record are kept.
LEMMA CheckpointChanges ==
    ASSUME NEW c \in Checkpoint, NEW g \in {"steer", "model", "finish"}
    PROVE  /\ [c EXCEPT !.stage = g] \in Checkpoint
           /\ [c EXCEPT !.stage = g].stage = g
           /\ [c EXCEPT !.stage = g].node = c.node
           /\ [c EXCEPT !.node = @ + 1, !.stage = g] \in Checkpoint
           /\ [c EXCEPT !.node = @ + 1, !.stage = g].stage = g
           /\ [c EXCEPT !.node = @ + 1, !.stage = g].node = c.node + 1
<1>1. \A b \in Checkpoint : /\ [b EXCEPT !.stage = g] \in Checkpoint
                             /\ [b EXCEPT !.stage = g].stage = g
                             /\ [b EXCEPT !.stage = g].node = b.node
  BY DEF Checkpoint
<1> DEFINE d == [c EXCEPT !.node = @ + 1]
<1>2. d \in Checkpoint /\ d.node = c.node + 1
  BY DEF Checkpoint
<1>3. [c EXCEPT !.node = @ + 1, !.stage = g] = [d EXCEPT !.stage = g]
  OBVIOUS
<1> HIDE DEF d
<1> QED BY <1>1, <1>2, <1>3

LEMMA CallChanges ==
    ASSUME NEW c \in CallState, NEW st \in {"todo", "create", "wait", "patch", "write", "done", "blocked"},
           NEW r \in 0 .. MaxRuns, NEW n \in Nat
    PROVE  /\ [c EXCEPT !.st = st] \in CallState /\ [c EXCEPT !.st = st].copy = c.copy
           /\ [c EXCEPT !.st = st, !.child = r] \in CallState
           /\ [c EXCEPT !.st = st, !.child = r].copy = c.copy
           /\ [c EXCEPT !.st = st, !.copy = n] \in CallState
           /\ [c EXCEPT !.st = st, !.copy = n].copy = n
<1>1. [c EXCEPT !.st = st] \in CallState /\ [c EXCEPT !.st = st].copy = c.copy
  BY DEF CallState
<1>2. [c EXCEPT !.st = st, !.child = r] \in CallState
  BY DEF CallState
<1>3. [c EXCEPT !.st = st, !.child = r].copy = c.copy
  BY DEF CallState
<1>4. [c EXCEPT !.st = st, !.copy = n] \in CallState
  BY DEF CallState
<1>5. [c EXCEPT !.st = st, !.copy = n].copy = n
  BY DEF CallState
<1> QED BY <1>1, <1>2, <1>3, <1>4, <1>5

LEMMA AtFits == ASSUME TypeInv, NEW e \in Execs PROVE NodeFits(e[1], [ex[e].at EXCEPT !.stage = "model"])
BY ExecTyped DEF ExecFits, NodeFits, Checkpoint

LEMMA SteeringType ==
    ASSUME TypeInv, NEW e \in Execs, ListSteerings(e) \/ MarkSteerings(e) \/ FoldSteerings(e)
    PROVE  TypeInv'
<1> DEFINE at == ex[e].at
<1>1. at \in Checkpoint /\ at.node > 0 /\ e[1] \in Runs
  BY ExecTyped DEF ExecFits
<1>2. CASE ListSteerings(e)
  <2>1. CASE Save(e, [at EXCEPT !.stage = "model"])
    BY <1>2, <2>1, AtFits, SaveType DEF ListSteerings
  <2>2. CASE ex' = [ex EXCEPT ![e].pc = "mark", ![e].loaded = Unconsumed] /\ cp' = cp
    <3>1. Unconsumed \in SUBSET Steers
      BY RunTreeAssumption DEF Unconsumed, TypeInv, TypeOK, Steers
    <3>2. ExecFits(e[1], [ex[e] EXCEPT !.pc = "mark", !.loaded = Unconsumed])
      BY <3>1, MoveFits
    <3>3. ex' = [ex EXCEPT ![e] = [ex[e] EXCEPT !.pc = "mark", !.loaded = Unconsumed]]
      BY <2>2
    <3>4. UNCHANGED <<plan, readOnly, runs, used, cp, steers>> /\ log' \in History
      BY <1>2, <2>2 DEF ListSteerings, TypeInv, TypeOK
    <3> QED BY <3>2, <3>3, <3>4, LocalType
  <2> QED BY <1>2, <2>1, <2>2 DEF ListSteerings
<1>3. CASE MarkSteerings(e)
  <2>1. ExecFits(e[1], [ex[e] EXCEPT !.pc = "fold"])
    BY MoveFits, {} \in SUBSET Steers
  <2>2. ex' = [ex EXCEPT ![e] = [ex[e] EXCEPT !.pc = "fold"]]
    BY <1>3 DEF MarkSteerings
  <2>3. steers' \in Seq(BOOLEAN) /\ Len(steers') <= MaxSteers
    <3>1. steers' = [s \in 1 .. Len(steers) |-> TRUE] /\ Len(steers) \in Nat
      BY <1>3 DEF MarkSteerings, TypeInv, TypeOK
    <3> QED BY <3>1 DEF TypeInv, TypeOK
  <2>4. UNCHANGED <<plan, readOnly, runs, used, cp, log>>
    BY <1>3 DEF MarkSteerings
  <2>5. runs' \in [Runs -> Row] /\ used' \in 0 .. Limit /\ log' \in History
    BY <2>4 DEF TypeInv, TypeOK
  <2> QED BY <2>1, <2>2, <2>3, <2>4, <2>5, StepType
<1>4. CASE FoldSteerings(e)
  <2> DEFINE told == [s \in Steers |-> IF s \in ex[e].loaded THEN at.told[s] + 1 ELSE at.told[s]]
             c == [at EXCEPT !.stage = "model", !.told = told]
  <2>1. told \in [Steers -> Nat]
    BY <1>1 DEF Checkpoint
  <2> HIDE DEF told
  <2>2. NodeFits(e[1], c)
    BY <1>1, <2>1 DEF NodeFits, Checkpoint
  <2>3. Save(e, c)
    BY <1>4 DEF FoldSteerings, told
  <2> QED BY <1>4, <2>2, <2>3, SaveType DEF FoldSteerings
<1> QED BY <1>2, <1>3, <1>4

LEMMA ModelStepType == ASSUME TypeInv, NEW e \in Execs, ModelStep(e) PROVE TypeInv'
<1> DEFINE more == used < Limit /\ ex[e].at.node <= Len(PlanOf(e[1]))
           c == [ex[e].at EXCEPT !.stage = IF more THEN "tools" ELSE "finish", !.by = e[2]]
<1>1. NodeFits(e[1], c)
  BY ExecTyped DEF ExecFits, NodeFits, Checkpoint
<1>2. Save(e, c)
  BY DEF ModelStep
<1> QED BY <1>1, <1>2, SaveType DEF ModelStep

\* Granting never exceeds what is left.
LEMMA GrantedFits ==
    ASSUME TypeInv, NEW n \in Nat PROVE Granted(n) \in Nat /\ used + Granted(n) \in 0 .. Limit
BY RunTreeAssumption DEF Granted, Remaining, TypeInv, TypeOK

LEMMA BatchTyped ==
    ASSUME TypeInv, NEW e \in Execs, ex[e].pc \in {"tools", "calls"} PROVE Batch(e) \in Seq(Tools)
<1>1. ex[e].at.node \in 1 .. Len(PlanOf(e[1]))
  BY ExecTyped DEF ExecFits, Checkpoint
<1>2. PlanOf(e[1]) \in Seq(Seq(Tools))
  BY ExecTyped, PlansTyped DEF TypeInv
<1> QED BY <1>1, <1>2 DEF Batch

LEMMA ReserveCallsType == ASSUME TypeInv, NEW e \in Execs, ReserveCalls(e) PROVE TypeInv'
<1> DEFINE n == Granted(Cardinality(Runnable(e)))
           accepted == {p \in Runnable(e) : Cardinality({q \in Runnable(e) : q <= p}) <= n}
           calls == [p \in DOMAIN Batch(e) |->
                        [st |-> IF p \in accepted THEN "todo" ELSE "blocked", child |-> 0, copy |-> 0]]
           x == [ex[e] EXCEPT !.pc = "calls", !.calls = calls]
<1>1. ex[e].pc = "tools"
  BY DEF ReserveCalls
<1>2. Batch(e) \in Seq(Tools)
  BY <1>1, BatchTyped
<1>3. Cardinality(Runnable(e)) \in Nat
  <2>1. DOMAIN Batch(e) = 1 .. Len(Batch(e)) /\ Len(Batch(e)) \in Nat
    BY <1>2
  <2>2. IsFiniteSet(DOMAIN Batch(e))
    BY <2>1, FS_Interval
  <2>3. IsFiniteSet(Runnable(e))
    BY <2>2, FS_Subset DEF Runnable
  <2> QED BY <2>3, FS_CardinalityType
<1>4. used' \in 0 .. Limit
  BY <1>3, GrantedFits DEF ReserveCalls
<1>5. /\ calls \in Seq(CallState) /\ DOMAIN calls = DOMAIN Batch(e)
      /\ \A p \in DOMAIN calls : calls[p].copy <= Limit
  <2>1. DOMAIN Batch(e) = 1 .. Len(Batch(e)) /\ Len(Batch(e)) \in Nat
    BY <1>2
  <2>2. \A p \in DOMAIN Batch(e) : calls[p] \in CallState /\ calls[p].copy <= Limit
    BY RunTreeAssumption DEF CallState
  <2> HIDE DEF calls
  <2>3. DOMAIN calls = DOMAIN Batch(e) /\ calls = [p \in 1 .. Len(Batch(e)) |-> calls[p]]
    BY <2>1 DEF calls
  <2> QED BY <2>1, <2>2, <2>3
<1>6. ex' = [ex EXCEPT ![e] = x]
  BY DEF ReserveCalls
<1> HIDE DEF calls
<1>7. x \in Execution /\ x.pc = "calls" /\ x.at = ex[e].at /\ x.calls = calls
  BY <1>5, ExecTyped DEF Execution
<1> HIDE DEF x
<1>8. ExecFits(e[1], x)
  BY <1>1, <1>5, <1>7, ExecTyped DEF ExecFits
<1>9. UNCHANGED <<plan, readOnly, runs, cp, steers, log>>
  BY DEF ReserveCalls
<1>10. runs' \in [Runs -> Row] /\ steers' \in Seq(BOOLEAN) /\ Len(steers') <= MaxSteers /\ log' \in History
  BY <1>9 DEF TypeInv, TypeOK
<1> QED BY <1>4, <1>6, <1>8, <1>9, <1>10, StepType

-----------------------------------------------------------------------------
(* The calls of a batch. *)

\* A call becomes another one, and nothing but the counter with it.
LEMMA CallType ==
    ASSUME TypeInv, NEW e \in Execs, NEW p \in DOMAIN ex[e].calls, NEW c \in CallState,
           c.copy <= Limit, ex' = [ex EXCEPT ![e].calls[p] = c],
           UNCHANGED <<plan, readOnly, cp, steers>>, runs' \in [Runs -> Row],
           used' \in 0 .. Limit, log' \in History
    PROVE  TypeInv'
<1>1. ExecFits(e[1], [ex[e] EXCEPT !.calls[p] = c])
  BY CallFits
<1>2. ex' = [ex EXCEPT ![e] = [ex[e] EXCEPT !.calls[p] = c]]
  OBVIOUS
<1>3. steers' \in Seq(BOOLEAN) /\ Len(steers') <= MaxSteers
  BY DEF TypeInv, TypeOK
<1> QED BY <1>1, <1>2, <1>3, StepType

LEMMA LogTyped ==
    ASSUME TypeInv
    PROVE  /\ [log EXCEPT !.invoked = @ + 1] \in History
           /\ [log EXCEPT !.timeout = TRUE] \in History
           /\ \A r \in Runs : [log EXCEPT !.delivered = @ \cup {r}] \in History
           /\ \A o \in BOOLEAN : [log EXCEPT !.overlap = o] \in History
<1>1. log \in History
  BY DEF TypeInv, TypeOK
<1>2. [log EXCEPT !.invoked = @ + 1] \in History
  BY <1>1 DEF History
<1>3. [log EXCEPT !.timeout = TRUE] \in History
  BY <1>1 DEF History
<1>4. \A r \in Runs : [log EXCEPT !.delivered = @ \cup {r}] \in History
  BY <1>1 DEF History
<1>5. \A o \in BOOLEAN : [log EXCEPT !.overlap = o] \in History
  BY <1>1 DEF History
<1> QED BY <1>2, <1>4, <1>5, <1>3

\* A failure or a cancellation is counted within its bound.
LEMMA FailureTyped ==
    ASSUME TypeInv, MayFail
    PROVE  /\ [log EXCEPT !.failures = @ + 1] \in History
           /\ \A m \in BOOLEAN : [log EXCEPT !.failures = @ + 1, !.missed = @ \/ m] \in History
<1>1. log \in History /\ log.failures + 1 \in 0 .. MaxFailures
  BY RunTreeAssumption DEF TypeInv, TypeOK, MayFail, History
<1>2. [log EXCEPT !.failures = @ + 1] \in History
  BY <1>1 DEF History
<1>3. ASSUME NEW m \in BOOLEAN PROVE [log EXCEPT !.failures = @ + 1, !.missed = @ \/ m] \in History
  <2>1. log.missed \/ m \in BOOLEAN
    OBVIOUS
  <2>2. \A b \in BOOLEAN : [log EXCEPT !.failures = @ + 1, !.missed = b] \in History
    BY <1>1 DEF History
  <2> QED BY <2>1, <2>2
<1> QED BY <1>2, <1>3

LEMMA ThisCall ==
    ASSUME TypeInv, NEW e \in Execs, NEW p \in DOMAIN ex[e].calls
    PROVE  ex[e].calls[p] \in CallState /\ ex[e].calls[p].copy <= Limit /\ p \in Nat
BY ExecTyped DEF ExecFits

\* Becoming.
LEMMA BecomeType ==
    ASSUME TypeInv, NEW e \in Execs, NEW p \in DOMAIN ex[e].calls,
           NEW st \in {"todo", "create", "wait", "patch", "write", "done", "blocked"}, Become(e, p, st),
           UNCHANGED <<plan, readOnly, runs, cp, steers>>, used' \in 0 .. Limit, log' \in History
    PROVE  TypeInv'
<1> DEFINE c == [ex[e].calls[p] EXCEPT !.st = st]
<1>1. c \in CallState /\ c.copy <= Limit
  <2> DEFINE b == ex[e].calls[p]
  <2>1. b \in CallState /\ b.copy <= Limit
    BY ThisCall
  <2> HIDE DEF b
  <2>2. 0 \in 0 .. MaxRuns /\ 0 \in Nat
    BY RunTreeAssumption
  <2>3. [b EXCEPT !.st = st] \in CallState /\ [b EXCEPT !.st = st].copy <= Limit
    BY <2>1, <2>2, CallChanges, ZenonT(40)
  <2> QED BY <2>3 DEF b
<1>2. ex' = [ex EXCEPT ![e].calls[p] = c]
  BY DEF Become
<1>3. runs' \in [Runs -> Row]
  BY DEF TypeInv, TypeOK
<1> HIDE DEF c
<1> QED BY <1>1, <1>2, <1>3, CallType

LEMMA SimpleCallsType ==
    ASSUME TypeInv, NEW e \in Execs, NEW p \in DOMAIN ex[e].calls,
           Read(e, p) \/ Collect(e, p) \/ PatchWrite(e, p) \/ ExpertEnded(e, p) \/ WindowOver(e, p)
    PROVE  TypeInv'
<1>1. used \in 0 .. Limit /\ log \in History
  BY DEF TypeInv, TypeOK
<1>2. CASE Read(e, p)
  BY <1>1, <1>2, BecomeType, LogTyped DEF Read, Invoked
<1>3. CASE Collect(e, p)
  BY <1>1, <1>3, BecomeType, LogTyped DEF Collect, Invoked
<1>4. CASE PatchWrite(e, p)
  <2>1. used' \in 0 .. Limit
    BY <1>4, ThisCall DEF PatchWrite, CallState
  <2> QED BY <1>1, <1>4, <2>1, BecomeType DEF PatchWrite
<1>5. CASE ExpertEnded(e, p)
  BY <1>1, <1>5, BecomeType DEF ExpertEnded
<1>6. CASE WindowOver(e, p)
  BY <1>1, <1>6, BecomeType, LogTyped DEF WindowOver
<1> QED BY <1>2, <1>3, <1>4, <1>5, <1>6

LEMMA PatchReadType ==
    ASSUME TypeInv, NEW e \in Execs, NEW p \in DOMAIN ex[e].calls, PatchRead(e, p) PROVE TypeInv'
<1> DEFINE c == [ex[e].calls[p] EXCEPT !.st = "write", !.copy = used]
<1>1. c \in CallState /\ c.copy <= Limit
  <2> DEFINE b == ex[e].calls[p]
  <2>1. b \in CallState
    BY ThisCall
  <2> HIDE DEF b
  <2>2. 0 \in 0 .. MaxRuns /\ used \in Nat /\ used <= Limit
    BY RunTreeAssumption DEF TypeInv, TypeOK
  <2>3. /\ [b EXCEPT !.st = "write", !.copy = used] \in CallState
        /\ [b EXCEPT !.st = "write", !.copy = used].copy <= Limit
    BY <2>1, <2>2 DEF CallState
  <2> QED BY <2>3 DEF b
<1>2. ex' = [ex EXCEPT ![e].calls[p] = c]
  BY DEF PatchRead
<1>3. runs' \in [Runs -> Row] /\ used' \in 0 .. Limit /\ log' \in History
  BY DEF PatchRead, TypeInv, TypeOK
<1> HIDE DEF c
<1> QED BY <1>1, <1>2, <1>3, CallType DEF PatchRead

\* A call that waits for an expert.
LEMMA WaitTyped ==
    ASSUME TypeInv, NEW e \in Execs, NEW p \in DOMAIN ex[e].calls, NEW r \in Runs
    PROVE  LET c == [ex[e].calls[p] EXCEPT !.st = "wait", !.child = r]
           IN  c \in CallState /\ c.copy <= Limit
<1> DEFINE b == ex[e].calls[p]
<1>1. b \in CallState /\ b.copy <= Limit
  BY ThisCall
<1> HIDE DEF b
<1>2. r \in 0 .. MaxRuns /\ 0 \in Nat
  BY RunTreeAssumption DEF Runs
<1>3. /\ [b EXCEPT !.st = "wait", !.child = r] \in CallState
      /\ [b EXCEPT !.st = "wait", !.child = r].copy <= Limit
  BY <1>1, <1>2, CallChanges
<1> QED BY <1>3 DEF b

LEMMA FindExpertType ==
    ASSUME TypeInv, NEW e \in Execs, NEW p \in DOMAIN ex[e].calls, FindExpert(e, p) PROVE TypeInv'
<1>1. log' \in History /\ used' \in 0 .. Limit /\ runs' \in [Runs -> Row]
  BY LogTyped DEF FindExpert, Invoked, TypeInv, TypeOK
<1>2. CASE Become(e, p, "create")
  BY <1>1, <1>2, BecomeType DEF FindExpert
<1>3. ASSUME NEW r \in ChildrenOf(e, p),
             ex' = [ex EXCEPT ![e].calls[p].st = "wait", ![e].calls[p].child = r]
      PROVE  TypeInv'
  <2> DEFINE c == [ex[e].calls[p] EXCEPT !.st = "wait", !.child = r]
  <2>1. c \in CallState /\ c.copy <= Limit
    BY WaitTyped DEF ChildrenOf
  <2>2. ex' = [ex EXCEPT ![e].calls[p] = c]
    BY <1>3
  <2> HIDE DEF c
  <2> QED BY <1>1, <2>1, <2>2, CallType DEF FindExpert
<1> QED BY <1>2, <1>3 DEF FindExpert

LEMMA CreateExpertType ==
    ASSUME TypeInv, NEW e \in Execs, NEW p \in DOMAIN ex[e].calls, CreateExpert(e, p) PROVE TypeInv'
<1>1. PICK r \in Runs :
          /\ runs' = [runs EXCEPT ![r].key = KeyOf(e, p), ![r].status = "pending"]
          /\ ex' = [ex EXCEPT ![e].calls[p].st = "wait", ![e].calls[p].child = r]
  BY DEF CreateExpert
<1> DEFINE c == [ex[e].calls[p] EXCEPT !.st = "wait", !.child = r]
<1>2. c \in CallState /\ c.copy <= Limit
  BY WaitTyped
<1>3. ex' = [ex EXCEPT ![e].calls[p] = c]
  BY <1>1
<1>4. KeyOf(e, p) \in Key
  BY ExecTyped, ThisCall DEF KeyOf, Key, Checkpoint
<1>5. runs' \in [Runs -> Row]
  BY <1>1, <1>4 DEF TypeInv, TypeOK, Row
<1>6. used' \in 0 .. Limit /\ log' \in History
  BY DEF CreateExpert, TypeInv, TypeOK
<1> HIDE DEF c
<1> QED BY <1>2, <1>3, <1>5, <1>6, CallType DEF CreateExpert

LEMMA EndBatchType == ASSUME TypeInv, NEW e \in Execs, EndBatch(e) PROVE TypeInv'
<1> DEFINE c == [ex[e].at EXCEPT !.stage = "finish"]
           d == [ex[e].at EXCEPT !.node = @ + 1, !.stage = "steer"]
<1>1. NodeFits(e[1], c) /\ NodeFits(e[1], d)
  <2> DEFINE b == ex[e].at
  <2>1. b \in Checkpoint /\ b.node > 0 /\ b.node \in Nat
    BY ExecTyped DEF ExecFits, Checkpoint
  <2> HIDE DEF b
  <2>2. NodeFits(e[1], [b EXCEPT !.stage = "finish"])
    BY <2>1, CheckpointChanges DEF NodeFits
  <2>3. NodeFits(e[1], [b EXCEPT !.node = @ + 1, !.stage = "steer"])
    <3> DEFINE n == [b EXCEPT !.node = @ + 1, !.stage = "steer"]
    <3>1. n \in Checkpoint /\ n.stage = "steer" /\ n.node = b.node + 1
      BY <2>1, CheckpointChanges, Zenon
    <3> HIDE DEF n
    <3>2. NodeFits(e[1], n)
      BY <2>1, <3>1 DEF NodeFits
    <3> QED BY <3>2 DEF n
  <2> QED BY <2>2, <2>3 DEF b
<1>2. Save(e, c) \/ Save(e, d)
  BY DEF EndBatch
<1> HIDE DEF c, d
<1> QED BY <1>1, <1>2, SaveType DEF EndBatch

-----------------------------------------------------------------------------
(* The other steps. *)

\* Executions end and rows change, checkpoints stay.
LEMMA EndsType ==
    ASSUME TypeInv, \A e \in Execs : ex'[e] \in {ex[e], Over, Ending},
           ex' = [e \in Execs |-> ex'[e]],
           UNCHANGED <<plan, readOnly, used, cp, steers>>, runs' \in [Runs -> Row], log' \in History
    PROVE  TypeInv'
<1>1. \A e \in Execs : ExecFits(e[1], ex[e])'
  <2>1. \A e \in Execs : ExecFits(e[1], ex'[e])
    BY FirstFits, WaitingFits, ExecIndex DEF TypeInv
  <2> QED BY <2>1 DEF ExecFits, PlanOf
<1>2. \A r \in Runs : NodeFits(r, cp[r])'
  BY DEF TypeInv, NodeFits, PlanOf
<1>3. ex' \in [Execs -> Execution]
  BY <1>1 DEF ExecFits
<1> QED BY <1>1, <1>2, <1>3 DEF TypeInv, TypeOK

LEMMA RowTyped ==
    ASSUME TypeInv, NEW r \in Runs
    PROVE  /\ \A st \in Terminal : [runs EXCEPT ![r].status = st] \in [Runs -> Row]
           /\ [runs EXCEPT ![r].lease = "expired"] \in [Runs -> Row]
           /\ [runs EXCEPT ![r].status = "running"] \in [Runs -> Row]
BY DEF TypeInv, TypeOK, Row, Terminal

LEMMA EndAsType ==
    ASSUME TypeInv, NEW e \in Execs, NEW st \in Terminal, EndAs(e, st), log' \in History
    PROVE  TypeInv'
<1>1. runs' \in [Runs -> Row]
  BY RowTyped, ExecIndex DEF EndAs
<1>2. (\A d \in Execs : ex'[d] \in {ex[d], Over, Ending}) /\ ex' = [d \in Execs |-> ex'[d]]
  BY DEF EndAs, TypeInv, TypeOK
<1> QED BY <1>1, <1>2, EndsType DEF EndAs

LEMMA EndingType ==
    ASSUME TypeInv, NEW e \in Execs,
           Deliver(e) \/ Complete(e) \/ Raise(e) \/ Crash(e) \/ CancelledEnds(e)
    PROVE  TypeInv'
<1>1. CASE Deliver(e)
  <2>1. CASE runs[e[1]].status = "cancelled"
    <3>1. (\A d \in Execs : ex'[d] \in {ex[d], Over, Ending}) /\ ex' = [d \in Execs |-> ex'[d]]
      BY <1>1, <2>1 DEF Deliver, TypeInv, TypeOK
    <3>2. UNCHANGED <<plan, readOnly, used, cp, steers>> /\ runs' \in [Runs -> Row] /\ log' \in History
      BY <1>1, <2>1 DEF Deliver, TypeInv, TypeOK
    <3> QED BY <3>1, <3>2, EndsType
  <2>2. CASE runs[e[1]].status # "cancelled"
    <3>1. ExecFits(e[1], [ex[e] EXCEPT !.pc = "complete"])
      BY MoveFits, {} \in SUBSET Steers
    <3>2. ex' = [ex EXCEPT ![e] = [ex[e] EXCEPT !.pc = "complete"]]
      BY <1>1, <2>2 DEF Deliver
    <3>3. log' \in History
      BY <1>1, <2>2, LogTyped, ExecIndex DEF Deliver
    <3>4. UNCHANGED <<plan, readOnly, runs, used, cp, steers>>
      BY <1>1 DEF Deliver
    <3> QED BY <3>1, <3>2, <3>3, <3>4, LocalType
  <2> QED BY <2>1, <2>2
<1>2. CASE Complete(e)
  BY <1>2, EndAsType DEF Complete, Terminal, TypeInv, TypeOK
<1>5. CASE CancelledEnds(e)
  BY <1>5, EndAsType DEF CancelledEnds, Terminal, TypeInv, TypeOK
<1>3. CASE Raise(e)
  BY <1>3, FailureTyped, EndAsType DEF Raise, Terminal
<1>4. CASE Crash(e)
  <2>1. (\A d \in Execs : ex'[d] \in {ex[d], Over, Ending}) /\ ex' = [d \in Execs |-> ex'[d]]
    BY <1>4 DEF Crash, TypeInv, TypeOK
  <2>2. runs' \in [Runs -> Row] /\ log' \in History
    BY <1>4 DEF Crash, TypeInv, TypeOK
  <2> QED BY <1>4, <2>1, <2>2, EndsType DEF Crash
<1> QED BY <1>1, <1>2, <1>3, <1>4, <1>5

LEMMA NextExec ==
    ASSUME TypeInv, NEW r \in Runs, Retriable(r) PROVE <<r, runs[r].claims + 1>> \in Execs
<1>1. runs[r].claims \in Nat /\ MaxClaims[r] \in Nat /\ runs[r].claims < MaxClaims[r]
  BY RunTreeAssumption DEF Retriable, TypeInv, TypeOK, Row, Runs
<1> QED BY <1>1 DEF Execs

LEMMA ClaimType == ASSUME TypeInv, NEW r \in Runs, Claim(r) PROVE TypeInv'
<1> DEFINE e == <<r, runs[r].claims + 1>>
<1>1. e \in Execs /\ e[1] = r
  BY NextExec DEF Claim
<1>2. ExecFits(e[1], Claimed)
  BY <1>1, WaitingFits
<1>3. ex' = [ex EXCEPT ![e] = Claimed]
  BY DEF Claim
<1> HIDE DEF e
<1>4. runs' \in [Runs -> Row]
  BY DEF Claim, TypeInv, TypeOK, Row
<1>5. log' \in History
  <2>1. (log.overlap \/ Busy(r)) \in BOOLEAN
    BY DEF TypeInv, TypeOK, History
  <2> QED BY <2>1, LogTyped DEF Claim
<1>6. used' \in 0 .. Limit /\ steers' \in Seq(BOOLEAN) /\ Len(steers') <= MaxSteers
  BY DEF Claim, TypeInv, TypeOK
<1>7. UNCHANGED <<plan, readOnly, cp>>
  BY DEF Claim
<1> QED BY <1>1, <1>2, <1>3, <1>4, <1>5, <1>6, <1>7, StepType

LEMMA StartRunType == ASSUME TypeInv, NEW e \in Execs, StartRun(e) PROVE TypeInv'
<1>1. ExecFits(e[1], Start(cp[e[1]]))
  BY ExecIndex, StartFits DEF TypeInv
<1>2. runs' \in [Runs -> Row]
  BY RowTyped, ExecIndex DEF StartRun
<1>3. used' \in 0 .. Limit /\ steers' \in Seq(BOOLEAN) /\ Len(steers') <= MaxSteers /\ log' \in History
  BY DEF StartRun, TypeInv, TypeOK
<1> QED BY <1>1, <1>2, <1>3, StepType DEF StartRun

\* What a cancellation does: it ends no execution, or begins to end one.
LEMMA CancelEffect ==
    ASSUME NEW r \in Runs, Cancel(r)
    PROVE  /\ MayFail
           /\ runs[r].status # "unborn" /\ runs' = [runs EXCEPT ![r].status = "cancelled"]
           /\ UNCHANGED <<plan, readOnly, used, cp, steers>>
           /\ \/ ex' = ex
              \/ \E e \in Execs : e[1] = r /\ Spends(e) /\ ex' = [ex EXCEPT ![e] = Ending]
           /\ \E m \in BOOLEAN :
                /\ log' = [log EXCEPT !.failures = @ + 1, !.missed = @ \/ m]
                /\ m \/ \A e \in Execs : e[1] = r => ~Spends(e) \/ ex' = [ex EXCEPT ![e] = Ending]
<1> DEFINE mine == {e \in Execs : e[1] = r /\ Spends(e)}
<1>1. /\ MayFail /\ runs[r].status # "unborn" /\ runs' = [runs EXCEPT ![r].status = "cancelled"]
      /\ UNCHANGED <<plan, readOnly, used, cp, steers>>
  BY DEF Cancel
<1>2. CASE ex' = ex /\ log' = [log EXCEPT !.failures = @ + 1, !.missed = @ \/ mine # {}]
  BY <1>1, <1>2
<1>3. ASSUME NEW e \in mine, ex' = [ex EXCEPT ![e] = Ending],
             log' = [log EXCEPT !.failures = @ + 1, !.missed = @ \/ mine # {e}]
      PROVE  /\ \E d \in Execs : d[1] = r /\ Spends(d) /\ ex' = [ex EXCEPT ![d] = Ending]
             /\ \E m \in BOOLEAN :
                /\ log' = [log EXCEPT !.failures = @ + 1, !.missed = @ \/ m]
                /\ m \/ \A d \in Execs : d[1] = r => ~Spends(d) \/ ex' = [ex EXCEPT ![d] = Ending]
  <2>1. (mine # {e}) \in BOOLEAN
    OBVIOUS
  <2>2. mine # {e} \/ \A d \in Execs : d[1] = r => ~Spends(d) \/ ex' = [ex EXCEPT ![d] = Ending]
    BY <1>3
  <2>3. e \in Execs /\ e[1] = r /\ Spends(e)
    OBVIOUS
  <2> HIDE DEF mine
  <2> QED BY <1>3, <2>1, <2>2, <2>3
<1> QED BY <1>1, <1>2, <1>3 DEF Cancel

LEMMA RunStepsType ==
    ASSUME TypeInv, NEW r \in Runs, LeaseExpires(r) \/ Cancel(r) PROVE TypeInv'
<1>1. runs' \in [Runs -> Row]
  <2>1. CASE LeaseExpires(r)
    BY <2>1, RowTyped DEF LeaseExpires
  <2>2. CASE Cancel(r)
    BY <2>2, RowTyped DEF Cancel, Terminal
  <2> QED BY <2>1, <2>2
<1>2. (\A e \in Execs : ex'[e] \in {ex[e], Over, Ending}) /\ ex' = [e \in Execs |-> ex'[e]]
  BY CancelEffect DEF LeaseExpires, TypeInv, TypeOK
<1>3. UNCHANGED <<plan, readOnly, used, cp, steers>>
  BY DEF LeaseExpires, Cancel
<1>4. log' \in History
  <2>1. CASE LeaseExpires(r)
    BY <2>1 DEF LeaseExpires, TypeInv, TypeOK
  <2>2. CASE Cancel(r)
    BY <2>2, CancelEffect, FailureTyped
  <2> QED BY <2>1, <2>2
<1> QED BY <1>1, <1>2, <1>3, <1>4, EndsType

LEMMA SteerType == TypeInv /\ Steer => TypeInv'
<1> SUFFICES ASSUME TypeInv, Steer PROVE TypeInv'
  OBVIOUS
<1>1. steers' \in Seq(BOOLEAN) /\ Len(steers') <= MaxSteers
  BY RunTreeAssumption DEF Steer, TypeInv, TypeOK
<1>2. /\ \A r \in Runs : NodeFits(r, cp[r])'
      /\ \A e \in Execs : ExecFits(e[1], ex[e])'
  BY DEF Steer, TypeInv, NodeFits, ExecFits, PlanOf
<1> QED BY <1>1, <1>2 DEF Steer, TypeInv, TypeOK

LEMMA WorkType == ASSUME TypeInv, NEW e \in Execs, Work(e) PROVE TypeInv'
<1>1. ASSUME NEW p \in DOMAIN ex[e].calls, CallStep(e, p) PROVE TypeInv'
  BY <1>1, SimpleCallsType, PatchReadType, FindExpertType, CreateExpertType DEF CallStep
<1> QED BY <1>1, StartRunType, SteeringType, ModelStepType, ReserveCallsType, EndBatchType, EndingType DEF Work

LEMMA NextTypeInv == TypeInv /\ [Next]_vars => TypeInv'
<1> SUFFICES ASSUME TypeInv, [Next]_vars PROVE TypeInv'
  OBVIOUS
<1>1. CASE UNCHANGED vars
  BY <1>1 DEF vars, TypeInv, TypeOK, NodeFits, ExecFits, PlanOf
<1>2. ASSUME NEW e \in Execs, NEW p \in DOMAIN ex[e].calls, WindowOver(e, p) PROVE TypeInv'
  BY <1>2, SimpleCallsType
<1>3. CASE Next
  BY <1>2, <1>3, SteerType, ClaimType, RunStepsType, WorkType, EndingType DEF Next
<1> QED BY <1>1, <1>3

LEMMA TypeInvariance == Spec => []TypeInv
BY InitTypeInv, NextTypeInv, PTL DEF Spec

\* The rows, the counter, the checkpoints and the executions of a tree are
\* well formed; above all the counter of tool calls never passes the limit,
\* also when a patch of the metadata writes an old one back.
THEOREM TypeCorrect == Spec => []TypeOK
<1>1. TypeInv => TypeOK
  BY DEF TypeInv
<1> QED BY <1>1, TypeInvariance, PTL

-----------------------------------------------------------------------------
(* Instructions enter a conversation once.  What a conversation holds is     *)
(* consumed, and stays so; what an execution is about to add was not         *)
(* consumed when it was listed, so its conversation does not hold it, and    *)
(* is consumed before it is added.                                           *)

Heard(told) ==
    \A s \in Steers : told[s] <= 1 /\ (told[s] > 0 => s \in DOMAIN steers /\ steers[s])

ExecHeard(x) ==
    /\ Heard(x.at.told)
    /\ x.pc \in {"mark", "fold"} => \A s \in x.loaded : s \in DOMAIN steers /\ x.at.told[s] = 0
    /\ x.pc = "fold" => \A s \in x.loaded : steers[s]

HeardInv ==
    /\ \A r \in Runs : Heard(cp[r].told)
    /\ \A e \in Execs : ExecHeard(ex[e])

LEMMA FirstHeard == Heard(First.told)
BY DEF Heard, First

LEMMA InitHeardInv == Init => HeardInv
<1> SUFFICES ASSUME Init PROVE HeardInv
  OBVIOUS
<1>1. Over.at = First /\ Over.pc = "over"
  BY DEF Over
<1>2. ExecHeard(Over)
  BY <1>1, FirstHeard DEF ExecHeard
<1> QED BY <1>2, FirstHeard DEF Init, HeardInv

\* Consumed instructions stay consumed ...
SteersKept ==
    \A s \in DOMAIN steers : s \in DOMAIN steers' /\ (steers[s] => steers'[s])

\* ... and every conversation is one there was.
Old(told) == \/ told = First.told
             \/ \E r \in Runs : told = cp[r].told
             \/ \E e \in Execs : told = ex[e].at.told
NothingNew ==
    /\ \A r \in Runs : Old(cp'[r].told)
    /\ \A e \in Execs : ex'[e] = ex[e] \/ (ex'[e].pc \notin {"mark", "fold"} /\ Old(ex'[e].at.told))

LEMMA OldHeard ==
    ASSUME HeardInv, NEW told, Old(told) PROVE Heard(told)
BY FirstHeard DEF Old, HeardInv, ExecHeard

LEMMA QuietHeard ==
    ASSUME HeardInv, SteersKept, NothingNew PROVE HeardInv'
<1>1. \A told : Old(told) =>
          \A s \in Steers : told[s] <= 1 /\ (told[s] > 0 => s \in DOMAIN steers' /\ steers'[s])
  BY OldHeard DEF Heard, SteersKept
<1>2. \A r \in Runs : Heard(cp[r].told)'
  BY <1>1 DEF NothingNew, Heard
<1>3. ASSUME NEW e \in Execs PROVE ExecHeard(ex[e])'
  <2>1. CASE ex'[e] = ex[e]
    <3>1. ExecHeard(ex[e])
      BY DEF HeardInv
    <3> QED BY <2>1, <3>1 DEF ExecHeard, Heard, SteersKept
  <2>2. CASE ex'[e].pc \notin {"mark", "fold"} /\ Old(ex'[e].at.told)
    BY <1>1, <2>2 DEF ExecHeard, Heard
  <2> QED BY <2>1, <2>2 DEF NothingNew
<1> QED BY <1>2, <1>3 DEF HeardInv

LEMMA SaveIsQuiet ==
    ASSUME TypeInv, NEW e \in Execs, NEW c \in Checkpoint, c.told = ex[e].at.told, Save(e, c)
    PROVE  NothingNew
<1>1. cp' = [cp EXCEPT ![e[1]] = c] /\ ex' = [ex EXCEPT ![e] = Start(c)]
  BY DEF Save
<1>2. Start(c).pc = c.stage /\ Start(c).at = c
  BY DEF Start, Over
<1>3. c.stage \notin {"mark", "fold"}
  BY DEF Checkpoint
<1>4. \A r \in Runs : cp'[r] = cp[r] \/ cp'[r] = c
  BY <1>1 DEF TypeInv, TypeOK
<1>5. \A d \in Execs : ex'[d] = ex[d] \/ ex'[d] = Start(c)
  BY <1>1 DEF TypeInv, TypeOK
<1> QED BY <1>2, <1>3, <1>4, <1>5 DEF NothingNew, Old

\* The checkpoints stay, and every execution at its own.
LEMMA LocalIsQuiet ==
    ASSUME cp' = cp, \A e \in Execs : \/ ex'[e] \in {ex[e], Over, Claimed, Ending}
                                      \/ ex'[e].pc \notin {"mark", "fold"} /\ ex'[e].at = ex[e].at
    PROVE  NothingNew
<1>1. /\ Over.pc = "over" /\ Over.at = First
      /\ Claimed.pc = "claimed" /\ Claimed.at = First
      /\ Ending.pc = "ending" /\ Ending.at = First
  BY DEF Over, Claimed, Ending
<1> QED BY <1>1 DEF NothingNew, Old

LEMMA SameSteers == steers' = steers => SteersKept
BY DEF SteersKept

LEMMA CallsAreQuiet ==
    ASSUME TypeInv, NEW e \in Execs, NEW p \in DOMAIN ex[e].calls, CallStep(e, p) \/ WindowOver(e, p)
    PROVE  NothingNew /\ SteersKept
<1>1. cp' = cp /\ steers' = steers
  BY DEF CallStep, WindowOver, Read, Collect, PatchRead, PatchWrite, FindExpert, CreateExpert, ExpertEnded
<1>2. ex[e].pc = "calls"
  BY DEF CallStep, WindowOver, Read, Collect, PatchRead, PatchWrite, FindExpert, CreateExpert,
         ExpertEnded, Turn
<1>3. \/ \E st : ex' = [ex EXCEPT ![e].calls[p].st = st]
      \/ \E r : ex' = [ex EXCEPT ![e].calls[p].st = "wait", ![e].calls[p].child = r]
      \/ ex' = [ex EXCEPT ![e].calls[p].st = "write", ![e].calls[p].copy = used]
  BY DEF CallStep, WindowOver, Read, Collect, PatchRead, PatchWrite, FindExpert, CreateExpert,
         ExpertEnded, Become
<1>4. \A d \in Execs : ex'[d] = ex[d] \/ (d = e /\ ex'[d].at = ex[d].at /\ ex'[d].pc = ex[d].pc)
  <2>1. ex \in [Execs -> Execution] /\ ex[e] \in Execution
    BY DEF TypeInv, TypeOK
  <2>2. CASE \E st : ex' = [ex EXCEPT ![e].calls[p].st = st]
    BY <2>1, <2>2 DEF Execution
  <2>3. CASE \E r : ex' = [ex EXCEPT ![e].calls[p].st = "wait", ![e].calls[p].child = r]
    BY <2>1, <2>3 DEF Execution
  <2>4. CASE ex' = [ex EXCEPT ![e].calls[p].st = "write", ![e].calls[p].copy = used]
    BY <2>1, <2>4 DEF Execution
  <2> QED BY <1>3, <2>2, <2>3, <2>4
<1> QED BY <1>1, <1>2, <1>4, LocalIsQuiet, SameSteers

LEMMA AtTyped ==
    ASSUME TypeInv, NEW e \in Execs, NEW g \in {"steer", "model", "tools", "finish"}, NEW n \in Nat
    PROVE  /\ [ex[e].at EXCEPT !.stage = g] \in Checkpoint
           /\ [ex[e].at EXCEPT !.stage = g].told = ex[e].at.told
           /\ [ex[e].at EXCEPT !.stage = g, !.by = n] \in Checkpoint
           /\ [ex[e].at EXCEPT !.stage = g, !.by = n].told = ex[e].at.told
           /\ [ex[e].at EXCEPT !.node = @ + 1, !.stage = g] \in Checkpoint
           /\ [ex[e].at EXCEPT !.node = @ + 1, !.stage = g].told = ex[e].at.told
<1> DEFINE c == ex[e].at
           d == [c EXCEPT !.node = @ + 1]
<1>1. c \in Checkpoint
  BY ExecTyped
<1> HIDE DEF c
<1>2. d \in Checkpoint /\ d.told = c.told
  BY <1>1 DEF Checkpoint
<1>3. [c EXCEPT !.node = @ + 1, !.stage = g] = [d EXCEPT !.stage = g]
  OBVIOUS
<1> HIDE DEF d
<1>4. \A b \in Checkpoint : [b EXCEPT !.stage = g] \in Checkpoint /\ [b EXCEPT !.stage = g].told = b.told
  BY DEF Checkpoint
<1>5. [c EXCEPT !.stage = g, !.by = n] \in Checkpoint
  BY <1>1 DEF Checkpoint
<1>6. [c EXCEPT !.stage = g, !.by = n].told = c.told
  BY <1>1 DEF Checkpoint
<1>7. /\ [c EXCEPT !.stage = g] \in Checkpoint /\ [c EXCEPT !.stage = g].told = c.told
      /\ [c EXCEPT !.node = @ + 1, !.stage = g] \in Checkpoint
      /\ [c EXCEPT !.node = @ + 1, !.stage = g].told = c.told
  BY <1>1, <1>2, <1>3, <1>4
<1> QED BY <1>5, <1>6, <1>7 DEF c

LEMMA WorkIsQuiet ==
    ASSUME TypeInv, NEW e \in Execs,
           \/ ModelStep(e) \/ ReserveCalls(e) \/ EndBatch(e) \/ StartRun(e)
           \/ Deliver(e) \/ Complete(e) \/ Raise(e) \/ Crash(e) \/ CancelledEnds(e)
    PROVE  NothingNew /\ SteersKept
<1>1. SteersKept
  BY SameSteers DEF ModelStep, ReserveCalls, EndBatch, Deliver, Complete, Raise, Crash, EndAs,
                    StartRun, CancelledEnds
<1>2. CASE ModelStep(e)
  <2> DEFINE g == IF used < Limit /\ ex[e].at.node <= Len(PlanOf(e[1])) THEN "tools" ELSE "finish"
  <2>1. g \in {"steer", "model", "tools", "finish"} /\ e[2] \in Nat
    BY ExecIndex
  <2>2. Save(e, [ex[e].at EXCEPT !.stage = g, !.by = e[2]])
    BY <1>2 DEF ModelStep
  <2> HIDE DEF g
  <2> QED BY <1>1, <2>1, <2>2, AtTyped, SaveIsQuiet
<1>3. CASE ReserveCalls(e)
  <2>1. ex[e] \in Execution /\ ex \in [Execs -> Execution]
    BY DEF TypeInv, TypeOK
  <2>2. \E calls : ex' = [ex EXCEPT ![e].pc = "calls", ![e].calls = calls]
    BY <1>3 DEF ReserveCalls
  <2>3. \A d \in Execs : ex'[d] = ex[d] \/ (ex'[d].pc = "calls" /\ ex'[d].at = ex[d].at)
    BY <2>1, <2>2 DEF Execution
  <2>4. cp' = cp
    BY <1>3 DEF ReserveCalls
  <2> QED BY <1>1, <2>3, <2>4, LocalIsQuiet
<1>4. CASE EndBatch(e)
  <2>1. 0 \in Nat
    OBVIOUS
  <2>2. CASE Save(e, [ex[e].at EXCEPT !.stage = "finish"])
    BY <1>1, <2>1, <2>2, AtTyped, SaveIsQuiet
  <2>3. CASE Save(e, [ex[e].at EXCEPT !.node = @ + 1, !.stage = "steer"])
    BY <1>1, <2>1, <2>3, AtTyped, SaveIsQuiet
  <2> QED BY <1>4, <2>2, <2>3 DEF EndBatch
<1>6. CASE StartRun(e)
  <2>1. cp' = cp /\ ex' = [ex EXCEPT ![e] = Start(cp[e[1]])]
    BY <1>6 DEF StartRun
  <2>2. Start(cp[e[1]]).at = cp[e[1]] /\ Start(cp[e[1]]).pc = cp[e[1]].stage
    BY DEF Start, Over
  <2>3. e[1] \in Runs /\ cp[e[1]].stage \notin {"mark", "fold"}
    BY ExecIndex DEF TypeInv, TypeOK, Checkpoint
  <2>4. \A d \in Execs : ex'[d] = ex[d] \/ ex'[d] = Start(cp[e[1]])
    BY <2>1 DEF TypeInv, TypeOK
  <2> QED BY <1>1, <2>1, <2>2, <2>3, <2>4 DEF NothingNew, Old
<1>5. CASE Deliver(e) \/ Complete(e) \/ Raise(e) \/ Crash(e) \/ CancelledEnds(e)
  <2>1. cp' = cp
    BY <1>5 DEF Deliver, Complete, Raise, Crash, CancelledEnds, EndAs
  <2>2. ex' = [ex EXCEPT ![e] = Over] \/ ex' = [ex EXCEPT ![e].pc = "complete"]
    BY <1>5 DEF Deliver, Complete, Raise, Crash, CancelledEnds, EndAs
  <2>3. ex[e] \in Execution /\ ex \in [Execs -> Execution]
    BY DEF TypeInv, TypeOK
  <2>4. \A d \in Execs : ex'[d] = ex[d] \/ ex'[d] = Over \/ (ex'[d].pc = "complete" /\ ex'[d].at = ex[d].at)
    BY <2>2, <2>3 DEF Execution
  <2> QED BY <1>1, <2>1, <2>4, LocalIsQuiet
<1> QED BY <1>2, <1>3, <1>4, <1>5, <1>6

LEMMA OthersAreQuiet ==
    ASSUME TypeInv, \/ Steer
                    \/ \E r \in Runs : Claim(r) \/ LeaseExpires(r) \/ Cancel(r)
    PROVE  NothingNew /\ SteersKept
<1>1. CASE Steer
  <2>1. SteersKept
    BY <1>1 DEF Steer, SteersKept, TypeInv, TypeOK
  <2> QED BY <1>1, <2>1, LocalIsQuiet DEF Steer
<1>2. ASSUME NEW r \in Runs, Claim(r) PROVE NothingNew /\ SteersKept
  <2>1. cp' = cp /\ steers' = steers /\ ex' = [ex EXCEPT ![<<r, runs[r].claims + 1>>] = Claimed]
    BY <1>2 DEF Claim
  <2>2. \A d \in Execs : ex'[d] \in {ex[d], Claimed}
    BY <2>1 DEF TypeInv, TypeOK
  <2> QED BY <2>1, <2>2, SameSteers, LocalIsQuiet
<1>3. ASSUME NEW r \in Runs, LeaseExpires(r) \/ Cancel(r) PROVE NothingNew /\ SteersKept
  <2>1. cp' = cp /\ steers' = steers /\ \A d \in Execs : ex'[d] \in {ex[d], Ending}
    BY <1>3, CancelEffect DEF LeaseExpires, TypeInv, TypeOK
  <2> QED BY <2>1, LocalIsQuiet, SameSteers
<1> QED BY <1>1, <1>2, <1>3

-----------------------------------------------------------------------------
(* The three steps of the steering loader. *)

LEMMA ListHeard == ASSUME TypeInv, HeardInv, NEW e \in Execs, ListSteerings(e) PROVE HeardInv'
<1>1. SteersKept
  BY SameSteers DEF ListSteerings
<1>2. CASE Save(e, [ex[e].at EXCEPT !.stage = "model"])
  <2>1. 0 \in Nat
    OBVIOUS
  <2> QED BY <1>1, <1>2, <2>1, AtTyped, SaveIsQuiet, QuietHeard
<1>3. CASE ex' = [ex EXCEPT ![e].pc = "mark", ![e].loaded = Unconsumed] /\ cp' = cp
  <2>1. ex[e] \in Execution /\ ex \in [Execs -> Execution] /\ ex[e].at.told \in [Steers -> Nat]
    BY ExecTyped DEF TypeInv, TypeOK, Checkpoint
  <2>2. ex'[e].pc = "mark" /\ ex'[e].at = ex[e].at /\ ex'[e].loaded = Unconsumed
    BY <1>3, <2>1 DEF Execution
  <2>3. \A d \in Execs : d # e => ex'[d] = ex[d]
    BY <1>3, <2>1
  <2>4. Unconsumed \subseteq Steers
    BY RunTreeAssumption DEF Unconsumed, TypeInv, TypeOK, Steers
  <2>5. \A s \in Unconsumed : s \in DOMAIN steers /\ ex[e].at.told[s] = 0
    BY <2>1, <2>4 DEF HeardInv, ExecHeard, Heard, Unconsumed
  <2>6. steers' = steers
    BY DEF ListSteerings
  <2>7. \A d \in Execs : ExecHeard(ex[d])'
    BY <2>2, <2>3, <2>5, <2>6 DEF HeardInv, ExecHeard, Heard
  <2> QED BY <1>3, <2>6, <2>7 DEF HeardInv, Heard
<1> QED BY <1>2, <1>3 DEF ListSteerings

LEMMA MarkHeard == ASSUME TypeInv, HeardInv, NEW e \in Execs, MarkSteerings(e) PROVE HeardInv'
<1>1. ex[e] \in Execution /\ ex \in [Execs -> Execution]
  BY DEF TypeInv, TypeOK
<1>2. ex'[e].pc = "fold" /\ ex'[e].at = ex[e].at /\ ex'[e].loaded = ex[e].loaded /\ ex[e].pc = "mark"
  BY <1>1 DEF MarkSteerings, Execution
<1>3. \A d \in Execs : d # e => ex'[d] = ex[d]
  BY <1>1 DEF MarkSteerings
<1>4. DOMAIN steers' = DOMAIN steers /\ \A s \in DOMAIN steers : steers'[s]
  BY DEF MarkSteerings
<1>5. cp' = cp
  BY DEF MarkSteerings
<1>6. ASSUME NEW d \in Execs PROVE ExecHeard(ex[d])'
  <2>1. ExecHeard(ex[d]) /\ ExecHeard(ex[e])
    BY DEF HeardInv
  <2>2. CASE d = e
    BY <1>2, <1>4, <2>1, <2>2 DEF ExecHeard, Heard
  <2>3. CASE d # e
    BY <1>3, <1>4, <2>1, <2>3 DEF ExecHeard, Heard
  <2> QED BY <2>2, <2>3
<1>7. \A r \in Runs : Heard(cp[r].told)'
  BY <1>4, <1>5 DEF HeardInv, Heard
<1> QED BY <1>6, <1>7 DEF HeardInv

LEMMA FoldHeard == ASSUME TypeInv, HeardInv, NEW e \in Execs, FoldSteerings(e) PROVE HeardInv'
<1> DEFINE at == ex[e].at
           told == [s \in Steers |-> IF s \in ex[e].loaded THEN at.told[s] + 1 ELSE at.told[s]]
           c == [at EXCEPT !.stage = "model", !.told = told]
<1>1. at \in Checkpoint /\ ex[e].pc = "fold" /\ ExecHeard(ex[e])
  BY ExecTyped DEF FoldSteerings, HeardInv
<1>2. Heard(told)
  BY <1>1 DEF ExecHeard, Heard, Checkpoint
<1>3. cp' = [cp EXCEPT ![e[1]] = c] /\ ex' = [ex EXCEPT ![e] = Start(c)] /\ steers' = steers
  BY DEF FoldSteerings, Save
<1>4. told \in [Steers -> Nat]
  BY <1>1 DEF Checkpoint
<1> HIDE DEF told, at
<1>5. c.told = told /\ c.stage = "model"
  BY <1>1, <1>4 DEF Checkpoint
<1> HIDE DEF c
<1>6. Start(c).at = c /\ Start(c).pc = "model"
  BY <1>5 DEF Start, Over
<1>7. \A r \in Runs : cp'[r] = cp[r] \/ cp'[r] = c
  BY <1>3 DEF TypeInv, TypeOK
<1>8. \A d \in Execs : ex'[d] = ex[d] \/ ex'[d] = Start(c)
  BY <1>3 DEF TypeInv, TypeOK
<1>9. \A r \in Runs : Heard(cp[r].told)'
  BY <1>2, <1>3, <1>5, <1>7 DEF HeardInv, Heard
<1>10. ASSUME NEW d \in Execs PROVE ExecHeard(ex[d])'
  <2>1. CASE ex'[d] = ex[d]
    BY <1>3, <2>1 DEF HeardInv, ExecHeard, Heard
  <2>2. CASE ex'[d] = Start(c)
    BY <1>2, <1>3, <1>5, <1>6, <2>2 DEF ExecHeard, Heard
  <2> QED BY <1>8, <2>1, <2>2
<1> QED BY <1>9, <1>10 DEF HeardInv

LEMMA NextHeardInv == TypeInv /\ HeardInv /\ [Next]_vars => HeardInv'
<1> SUFFICES ASSUME TypeInv, HeardInv, [Next]_vars PROVE HeardInv'
  OBVIOUS
<1>1. CASE UNCHANGED vars
  BY <1>1, LocalIsQuiet, SameSteers, QuietHeard DEF vars
<1>2. CASE NothingNew /\ SteersKept
  BY <1>2, QuietHeard
<1>3. ASSUME NEW e \in Execs, Work(e) PROVE HeardInv'
  BY <1>3, ListHeard, MarkHeard, FoldHeard, CallsAreQuiet, WorkIsQuiet, QuietHeard DEF Work
<1>4. CASE Next
  BY <1>3, <1>4, WorkIsQuiet, OthersAreQuiet, CallsAreQuiet, QuietHeard DEF Next
<1> QED BY <1>1, <1>4

\* No instruction is folded into a conversation twice, for any number of
\* claims, kills and overlapping executions (steering_loader).
THEOREM InstructionsEnterOnce == Spec => []FoldedOnce
<1>1. HeardInv => FoldedOnce
  BY DEF HeardInv, ExecHeard, Heard, FoldedOnce
<1> QED BY <1>1, InitTypeInv, NextTypeInv, InitHeardInv, NextHeardInv, PTL DEF Spec

-----------------------------------------------------------------------------
(* Results precede statuses: only an execution that has delivered writes     *)
(* completed.                                                                *)

ResultInv ==
    /\ ResultBeforeStatus
    /\ \A e \in Execs : ex[e].pc = "complete" => e[1] \in log.delivered

\* A step that takes nothing back, completes no run and brings no execution
\* to its completion.
CompletesNothing ==
    /\ log.delivered \subseteq log'.delivered
    /\ \A r \in Runs : runs'[r].status = "completed" => runs[r].status = "completed"
    /\ \A e \in Execs : ex'[e].pc = "complete" => ex[e].pc = "complete"

LEMMA NothingCompleted == ASSUME ResultInv, CompletesNothing PROVE ResultInv'
BY DEF ResultInv, ResultBeforeStatus, CompletesNothing

LEMMA SaveCompletesNothing ==
    ASSUME TypeInv, NEW e \in Execs, NEW c \in Checkpoint, Save(e, c), UNCHANGED <<runs, log>>
    PROVE  CompletesNothing
<1>1. Start(c).pc = c.stage /\ c.stage # "complete"
  BY DEF Start, Over, Checkpoint
<1>2. \A d \in Execs : ex'[d] = ex[d] \/ ex'[d] = Start(c)
  BY DEF Save, TypeInv, TypeOK
<1> QED BY <1>1, <1>2 DEF CompletesNothing

LEMMA NodesCompleteNothing ==
    ASSUME TypeInv, NEW e \in Execs,
           \/ ListSteerings(e) \/ MarkSteerings(e) \/ FoldSteerings(e)
           \/ ModelStep(e) \/ ReserveCalls(e) \/ EndBatch(e)
    PROVE  CompletesNothing
<1>1. ex[e] \in Execution /\ ex \in [Execs -> Execution]
  BY DEF TypeInv, TypeOK
<1>2. runs' = runs /\ log' = log
  BY DEF ListSteerings, MarkSteerings, FoldSteerings, ModelStep, ReserveCalls, EndBatch
<1>3. ASSUME NEW c \in Checkpoint, Save(e, c) PROVE CompletesNothing
  BY <1>2, <1>3, SaveCompletesNothing
<1>4. CASE ListSteerings(e)
  <2>1. [ex[e].at EXCEPT !.stage = "model"] \in Checkpoint
    BY AtTyped, 0 \in Nat
  <2>2. CASE ex' = [ex EXCEPT ![e].pc = "mark", ![e].loaded = Unconsumed]
    <3>1. \A d \in Execs : ex'[d] = ex[d] \/ ex'[d].pc = "mark"
      BY <1>1, <2>2 DEF Execution
    <3> QED BY <1>2, <3>1 DEF CompletesNothing
  <2> QED BY <1>3, <1>4, <2>1, <2>2 DEF ListSteerings
<1>5. CASE MarkSteerings(e)
  <2>1. \A d \in Execs : ex'[d] = ex[d] \/ ex'[d].pc = "fold"
    BY <1>1, <1>5 DEF Execution, MarkSteerings
  <2> QED BY <1>2, <2>1 DEF CompletesNothing
<1>6. CASE FoldSteerings(e)
  <2> DEFINE told == [s \in Steers |-> IF s \in ex[e].loaded THEN ex[e].at.told[s] + 1 ELSE ex[e].at.told[s]]
  <2>1. told \in [Steers -> Nat] /\ ex[e].at \in Checkpoint
    BY ExecTyped DEF Checkpoint
  <2>2. Save(e, [ex[e].at EXCEPT !.stage = "model", !.told = told])
    BY <1>6 DEF FoldSteerings
  <2> HIDE DEF told
  <2>3. [ex[e].at EXCEPT !.stage = "model", !.told = told] \in Checkpoint
    BY <2>1 DEF Checkpoint
  <2> QED BY <1>3, <2>2, <2>3
<1>7. CASE ModelStep(e)
  <2> DEFINE g == IF used < Limit /\ ex[e].at.node <= Len(PlanOf(e[1])) THEN "tools" ELSE "finish"
  <2>1. Save(e, [ex[e].at EXCEPT !.stage = g, !.by = e[2]])
    BY <1>7 DEF ModelStep
  <2>2. g \in {"steer", "model", "tools", "finish"} /\ e[2] \in Nat
    BY ExecIndex
  <2> HIDE DEF g
  <2> QED BY <1>3, <2>1, <2>2, AtTyped
<1>8. CASE ReserveCalls(e)
  <2>1. \E calls : ex' = [ex EXCEPT ![e].pc = "calls", ![e].calls = calls]
    BY <1>8 DEF ReserveCalls
  <2>2. \A d \in Execs : ex'[d] = ex[d] \/ ex'[d].pc = "calls"
    BY <1>1, <2>1 DEF Execution
  <2> QED BY <1>2, <2>2 DEF CompletesNothing
<1>9. CASE EndBatch(e)
  <2>1. /\ [ex[e].at EXCEPT !.stage = "finish"] \in Checkpoint
        /\ [ex[e].at EXCEPT !.node = @ + 1, !.stage = "steer"] \in Checkpoint
    BY AtTyped, 0 \in Nat
  <2> QED BY <1>3, <1>9, <2>1 DEF EndBatch
<1> QED BY <1>4, <1>5, <1>6, <1>7, <1>8, <1>9

LEMMA CallsCompleteNothing ==
    ASSUME TypeInv, NEW e \in Execs, NEW p \in DOMAIN ex[e].calls, CallStep(e, p) \/ WindowOver(e, p)
    PROVE  CompletesNothing
<1>1. log'.delivered = log.delivered
  BY DEF CallStep, WindowOver, Read, Collect, PatchRead, PatchWrite, FindExpert, CreateExpert,
         ExpertEnded, Invoked, TypeInv, TypeOK, History
<1>2. \A r \in Runs : runs'[r].status = "completed" => runs[r].status = "completed"
  <2>1. CASE CreateExpert(e, p)
    <3>1. PICK r \in Runs : runs' = [runs EXCEPT ![r].key = KeyOf(e, p), ![r].status = "pending"]
      BY <2>1 DEF CreateExpert
    <3>2. runs \in [Runs -> Row]
      BY DEF TypeInv, TypeOK
    <3>3. \A q \in Runs : runs'[q] = runs[q] \/ runs'[q].status = "pending"
      BY <3>1, <3>2 DEF Row
    <3> QED BY <3>3
  <2>2. CASE runs' = runs
    BY <2>2
  <2> QED BY <2>1, <2>2 DEF CallStep, WindowOver, Read, Collect, PatchRead, PatchWrite, FindExpert,
                            ExpertEnded
<1>3. \A d \in Execs : ex'[d].pc = ex[d].pc
  <2>1. ex[e] \in Execution /\ ex \in [Execs -> Execution]
    BY DEF TypeInv, TypeOK
  <2>2. \/ \E st : ex' = [ex EXCEPT ![e].calls[p].st = st]
        \/ \E r : ex' = [ex EXCEPT ![e].calls[p].st = "wait", ![e].calls[p].child = r]
        \/ ex' = [ex EXCEPT ![e].calls[p].st = "write", ![e].calls[p].copy = used]
    BY DEF CallStep, WindowOver, Read, Collect, PatchRead, PatchWrite, FindExpert, CreateExpert,
           ExpertEnded, Become
  <2>3. CASE \E st : ex' = [ex EXCEPT ![e].calls[p].st = st]
    BY <2>1, <2>3 DEF Execution
  <2>4. CASE \E r : ex' = [ex EXCEPT ![e].calls[p].st = "wait", ![e].calls[p].child = r]
    BY <2>1, <2>4 DEF Execution
  <2>5. CASE ex' = [ex EXCEPT ![e].calls[p].st = "write", ![e].calls[p].copy = used]
    BY <2>1, <2>5 DEF Execution
  <2> QED BY <2>2, <2>3, <2>4, <2>5
<1> QED BY <1>1, <1>2, <1>3 DEF CompletesNothing

LEMMA EndsDeliver ==
    ASSUME TypeInv, ResultInv, NEW e \in Execs, Deliver(e) \/ Complete(e) PROVE ResultInv'
<1>1. /\ ex[e] \in Execution /\ ex \in [Execs -> Execution] /\ runs \in [Runs -> Row]
      /\ log \in History /\ e[1] \in Runs
  BY ExecIndex DEF TypeInv, TypeOK
<1>2. Over.pc = "over"
  BY DEF Over
<1>3. CASE Deliver(e)
  <2>1. \/ log' = log /\ ex' = [ex EXCEPT ![e] = Over]
        \/ log'.delivered = log.delivered \cup {e[1]} /\ ex' = [ex EXCEPT ![e].pc = "complete"]
    BY <1>1, <1>3 DEF Deliver, History
  <2>2. runs' = runs
    BY <1>3 DEF Deliver
  <2>3. \A d \in Execs : ex'[d].pc = "complete" => d[1] \in log'.delivered
    BY <1>1, <1>2, <2>1 DEF Execution, ResultInv
  <2> QED BY <2>1, <2>2, <2>3 DEF ResultInv, ResultBeforeStatus
<1>4. CASE Complete(e)
  <2>1. ex[e].pc = "complete" /\ log' = log /\ ex' = [ex EXCEPT ![e] = Over]
        /\ runs' = [runs EXCEPT ![e[1]].status = "completed"]
    BY <1>4 DEF Complete, EndAs
  <2>2. e[1] \in log.delivered
    BY <2>1 DEF ResultInv
  <2>3. \A r \in Runs : r # e[1] => runs'[r] = runs[r]
    BY <1>1, <2>1
  <2>4. \A d \in Execs : ex'[d].pc = "complete" => ex[d].pc = "complete"
    BY <1>1, <1>2, <2>1
  <2> QED BY <2>1, <2>2, <2>3, <2>4 DEF ResultInv, ResultBeforeStatus
<1> QED BY <1>3, <1>4

LEMMA OthersCompleteNothing ==
    ASSUME TypeInv, \/ Steer
                    \/ \E r \in Runs : Claim(r) \/ LeaseExpires(r) \/ Cancel(r)
                    \/ \E e \in Execs : Raise(e) \/ Crash(e) \/ StartRun(e) \/ CancelledEnds(e)
    PROVE  CompletesNothing
<1>1. ex \in [Execs -> Execution] /\ runs \in [Runs -> Row] /\ log \in History
  BY DEF TypeInv, TypeOK
<1>2. Over.pc = "over" /\ Claimed.pc = "claimed" /\ Ending.pc = "ending"
  BY DEF Over, Claimed, Ending
<1>3. CASE Steer
  BY <1>3 DEF Steer, CompletesNothing
<1>4. ASSUME NEW r \in Runs, Claim(r) PROVE CompletesNothing
  <2>1. ex' = [ex EXCEPT ![<<r, runs[r].claims + 1>>] = Claimed]
    BY <1>4 DEF Claim
  <2>3. \A d \in Execs : ex'[d] = ex[d] \/ ex'[d] = Claimed
    BY <1>1, <2>1
  <2>4. log'.delivered = log.delivered
    BY <1>1, <1>4 DEF Claim, History
  <2>5. \A q \in Runs : runs'[q].status = "completed" => runs[q].status = "completed"
    BY <1>1, <1>4 DEF Claim, Row
  <2> QED BY <1>2, <2>3, <2>4, <2>5 DEF CompletesNothing
<1>5. ASSUME NEW r \in Runs, LeaseExpires(r) \/ Cancel(r) PROVE CompletesNothing
  <2>1. \A q \in Runs : runs'[q].status = "completed" => runs[q].status = "completed"
    <3>1. CASE LeaseExpires(r)
      BY <1>1, <3>1 DEF LeaseExpires, Row
    <3>2. CASE Cancel(r)
      <4>1. runs' = [runs EXCEPT ![r].status = "cancelled"]
        BY <3>2 DEF Cancel
      <4> QED BY <1>1, <4>1 DEF Row
    <3> QED BY <1>5, <3>1, <3>2
  <2>2. log'.delivered = log.delivered
    BY <1>1, <1>5, CancelEffect DEF LeaseExpires, History
  <2>3. \A d \in Execs : ex'[d] = ex[d] \/ ex'[d] = Ending
    BY <1>1, <1>5, CancelEffect DEF LeaseExpires
  <2> QED BY <1>2, <2>1, <2>2, <2>3 DEF CompletesNothing
<1>6. ASSUME NEW e \in Execs, StartRun(e) PROVE CompletesNothing
  <2>1. runs' = [runs EXCEPT ![e[1]].status = "running"] /\ ex' = [ex EXCEPT ![e] = Start(cp[e[1]])]
    BY <1>6 DEF StartRun
  <2>2. e[1] \in Runs /\ Start(cp[e[1]]).pc # "complete"
    BY ExecIndex DEF Start, Over, TypeInv, TypeOK, Checkpoint
  <2>3. \A d \in Execs : ex'[d] = ex[d] \/ ex'[d] = Start(cp[e[1]])
    BY <1>1, <2>1
  <2>4. \A q \in Runs : runs'[q].status = "completed" => runs[q].status = "completed"
    BY <1>1, <2>1 DEF Row
  <2>5. log' = log
    BY <1>6 DEF StartRun
  <2> QED BY <2>2, <2>3, <2>4, <2>5 DEF CompletesNothing
<1>7. ASSUME NEW e \in Execs, Raise(e) \/ Crash(e) \/ CancelledEnds(e) PROVE CompletesNothing
  <2>1. \A q \in Runs : runs'[q].status = "completed" => runs[q].status = "completed"
    <3>1. CASE Raise(e)
      <4>1. runs' = [runs EXCEPT ![e[1]].status = "failed"] /\ e[1] \in Runs
        BY <3>1, ExecIndex DEF Raise, EndAs
      <4>2. \A q \in Runs : runs'[q] = runs[q] \/ runs'[q].status = "failed"
        BY <1>1, <4>1 DEF Row
      <4> QED BY <4>2
    <3>2. CASE Crash(e)
      BY <3>2 DEF Crash
    <3>3. CASE CancelledEnds(e)
      <4>1. runs' = [runs EXCEPT ![e[1]].status = "cancelled"] /\ e[1] \in Runs
        BY <3>3, ExecIndex DEF CancelledEnds, EndAs
      <4>2. \A q \in Runs : runs'[q] = runs[q] \/ runs'[q].status = "cancelled"
        BY <1>1, <4>1 DEF Row
      <4> QED BY <4>2
    <3> QED BY <1>7, <3>1, <3>2, <3>3
  <2>2. log'.delivered = log.delivered /\ \A d \in Execs : ex'[d] = ex[d] \/ ex'[d] = Over
    BY <1>1, <1>7 DEF Raise, Crash, CancelledEnds, EndAs, History
  <2> QED BY <1>2, <2>1, <2>2 DEF CompletesNothing
<1> QED BY <1>3, <1>4, <1>5, <1>6, <1>7

LEMMA InitResultInv == Init => ResultInv
<1>1. Over.pc = "over"
  BY DEF Over
<1> QED BY <1>1 DEF Init, ResultInv, ResultBeforeStatus

LEMMA NextResultInv == TypeInv /\ ResultInv /\ [Next]_vars => ResultInv'
<1> SUFFICES ASSUME TypeInv, ResultInv, [Next]_vars PROVE ResultInv'
  OBVIOUS
<1>1. CASE UNCHANGED vars
  BY <1>1 DEF vars, ResultInv, ResultBeforeStatus
<1>2. ASSUME NEW e \in Execs, Work(e) PROVE ResultInv'
  BY <1>2, NodesCompleteNothing, CallsCompleteNothing, EndsDeliver, OthersCompleteNothing,
     NothingCompleted DEF Work
<1>3. CASE Next
  BY <1>2, <1>3, CallsCompleteNothing, OthersCompleteNothing, NothingCompleted DEF Next
<1> QED BY <1>1, <1>3

\* Whoever sees a run completed finds what it has delivered, whatever dies
\* or is executed twice (_finalize_expert_run before the status).
THEOREM ResultsPrecedeStatuses == Spec => []ResultBeforeStatus
<1>1. ResultInv => ResultBeforeStatus
  BY DEF ResultInv
<1> QED BY <1>1, InitTypeInv, NextTypeInv, InitResultInv, NextResultInv, PTL DEF Spec

-----------------------------------------------------------------------------
(* Every invocation was paid for.  The calls that still may invoke a tool    *)
(* and the invocations there were are together no more than the slots taken  *)
(* from the counter.  That is lost as soon as a patch may write an old       *)
(* counter back, which only a collection does: a read-only tree runs none,   *)
(* and neither does one whose coordinator asks for none.                     *)

NoPatch == readOnly \/ \A n \in DOMAIN plan : \A p \in DOMAIN plan[n] : plan[n][p] # "collect"

Todo == {u \in Execs \X Nat : u[2] \in DOMAIN ex[u[1]].calls /\ ex[u[1]].calls[u[2]].st = "todo"}

\* No call of the execution collects.
NoCollection(e) ==
    \A p \in DOMAIN ex[e].calls :
        /\ ex[e].calls[p].st \notin {"patch", "write"}
        /\ ex[e].pc = "calls" /\ ex[e].calls[p].st = "todo" => Batch(e)[p] # "collect"

PaidInv ==
    NoPatch => /\ IsFiniteSet(Todo)
               /\ log.invoked + Cardinality(Todo) <= used
               /\ \A e \in Execs : NoCollection(e)

LEMMA InitPaidInv == Init => PaidInv
<1> SUFFICES ASSUME Init PROVE PaidInv
  OBVIOUS
<1>1. \A e \in Execs : ex[e].calls = <<>>
  BY DEF Init, Over
<1>2. Todo = {}
  BY <1>1 DEF Todo
<1>3. IsFiniteSet(Todo) /\ Cardinality(Todo) = 0
  BY <1>2, FS_EmptySet
<1>4. log.invoked = 0 /\ used = 0
  BY DEF Init
<1> QED BY <1>1, <1>3, <1>4 DEF PaidInv, NoCollection

\* The calls of an execution are gone, or some are further on.
Dropped(e) == ex'[e].calls = <<>>
Advanced(e) ==
    /\ ex'[e].at = ex[e].at /\ (ex'[e].pc = "calls" => ex[e].pc = "calls")
    /\ DOMAIN ex'[e].calls = DOMAIN ex[e].calls
    /\ \A p \in DOMAIN ex[e].calls :
           ex'[e].calls[p].st \in {ex[e].calls[p].st, "create", "wait", "done"}

LEMMA AdvancedTodo ==
    ASSUME \A e \in Execs : Dropped(e) \/ Advanced(e) PROVE Todo' \subseteq Todo
BY DEF Todo, Dropped, Advanced

LEMMA AdvancedPaid ==
    ASSUME TypeInv, PaidInv, NoPatch, \A e \in Execs : Dropped(e) \/ Advanced(e), plan' = plan,
           readOnly' = readOnly
    PROVE  \A e \in Execs : NoCollection(e)'
<1> SUFFICES ASSUME NEW e \in Execs PROVE NoCollection(e)'
  OBVIOUS
<1>1. CASE Dropped(e)
  BY <1>1 DEF Dropped, NoCollection
<1>2. CASE Advanced(e)
  <2>1. NoCollection(e)
    BY DEF PaidInv
  <2>2. Batch(e)' = Batch(e)
    BY <1>2 DEF Batch, PlanOf, Advanced
  <2> QED BY <1>2, <2>1, <2>2 DEF NoCollection, Advanced
<1> QED BY <1>1, <1>2

\* Nothing is paid and nothing is invoked.
LEMMA IdlePaid ==
    ASSUME TypeInv, PaidInv, \A e \in Execs : Dropped(e) \/ Advanced(e), plan' = plan,
           readOnly' = readOnly, used' = used, log'.invoked = log.invoked
    PROVE  PaidInv'
<1> SUFFICES ASSUME NoPatch PROVE PaidInv'
  BY DEF PaidInv, NoPatch
<1>1. IsFiniteSet(Todo) /\ log.invoked + Cardinality(Todo) <= used
  BY DEF PaidInv
<1>2. IsFiniteSet(Todo') /\ Cardinality(Todo') <= Cardinality(Todo)
  BY <1>1, AdvancedTodo, FS_Subset
<1>3. Cardinality(Todo) \in Nat /\ Cardinality(Todo') \in Nat
  BY <1>1, <1>2, FS_CardinalityType
<1>4. log.invoked \in Nat /\ used \in Nat
  BY RunTreeAssumption DEF TypeInv, TypeOK, History
<1>5. log'.invoked + Cardinality(Todo') <= used'
  BY <1>1, <1>2, <1>3, <1>4
<1> QED BY <1>2, <1>5, AdvancedPaid DEF PaidInv

\* A call that was paid for is made.
LEMMA InvokedPaid ==
    ASSUME TypeInv, PaidInv, NEW e \in Execs, NEW p \in DOMAIN ex[e].calls,
           ex[e].calls[p].st = "todo", ex'[e].calls[p].st \in {"create", "wait", "done"},
           \A d \in Execs : Advanced(d), plan' = plan, readOnly' = readOnly, used' = used,
           log'.invoked = log.invoked + 1
    PROVE  PaidInv'
<1> SUFFICES ASSUME NoPatch PROVE PaidInv'
  BY DEF PaidInv, NoPatch
<1>1. IsFiniteSet(Todo) /\ log.invoked + Cardinality(Todo) <= used
  BY DEF PaidInv
<1>2. <<e, p>> \in Todo
  <2>1. p \in Nat
    BY ThisCall
  <2> QED BY <2>1 DEF Todo
<1>3. Todo' \subseteq Todo \ {<<e, p>>}
  <2>1. Todo' \subseteq Todo
    BY AdvancedTodo
  <2>2. <<e, p>> \notin Todo'
    BY DEF Todo
  <2> QED BY <2>1, <2>2
<1>4. IsFiniteSet(Todo \ {<<e, p>>}) /\ Cardinality(Todo \ {<<e, p>>}) = Cardinality(Todo) - 1
  BY <1>1, <1>2, FS_RemoveElement
<1>5. IsFiniteSet(Todo') /\ Cardinality(Todo') <= Cardinality(Todo \ {<<e, p>>})
  BY <1>3, <1>4, FS_Subset
<1>6. Cardinality(Todo) \in Nat /\ Cardinality(Todo') \in Nat
  BY <1>1, <1>5, FS_CardinalityType
<1>7. log.invoked \in Nat /\ used \in Nat
  BY RunTreeAssumption DEF TypeInv, TypeOK, History
<1>8. log'.invoked + Cardinality(Todo') <= used'
  BY <1>1, <1>4, <1>5, <1>6, <1>7
<1> QED BY <1>5, <1>8, AdvancedPaid DEF PaidInv

\* The first n members of a finite set of numbers are no more than n: their
\* places are n different ones.
LEMMA FirstFew ==
    ASSUME NEW S, IsFiniteSet(S), S \subseteq Nat, NEW n \in Nat
    PROVE  LET few == {p \in S : Cardinality({q \in S : q <= p}) <= n}
           IN  IsFiniteSet(few) /\ Cardinality(few) <= n
<1> DEFINE upTo(p) == {q \in S : q <= p}
           few == {p \in S : Cardinality(upTo(p)) <= n}
           place == [p \in few |-> Cardinality(upTo(p))]
<1>1. \A p \in S : IsFiniteSet(upTo(p)) /\ Cardinality(upTo(p)) \in Nat
  <2> TAKE p \in S
  <2>1. IsFiniteSet(upTo(p))
    BY FS_Subset
  <2> QED BY <2>1, FS_CardinalityType
<1>2. \A p \in S : Cardinality(upTo(p)) > 0
  <2> TAKE p \in S
  <2>1. p \in upTo(p)
    OBVIOUS
  <2>2. Cardinality(upTo(p)) # 0
    BY <1>1, <2>1, FS_EmptySet
  <2> QED BY <1>1, <2>2
<1>3. \A p, q \in S : p < q => Cardinality(upTo(p)) # Cardinality(upTo(q))
  <2> SUFFICES ASSUME NEW p \in S, NEW q \in S, p < q, Cardinality(upTo(p)) = Cardinality(upTo(q))
               PROVE  FALSE
    OBVIOUS
  <2>1. upTo(p) \subseteq upTo(q)
    <3>1. \A x \in S : x \in Nat /\ (x <= p => x <= q)
      OBVIOUS
    <3> QED BY <3>1
  <2>2. upTo(p) = upTo(q)
    BY <1>1, <2>1, FS_Subset
  <2>3. q \in upTo(q) /\ q \notin upTo(p)
    OBVIOUS
  <2> QED BY <2>2, <2>3
<1> HIDE DEF upTo
<1>4. place \in [few -> 1 .. n]
  <2>1. \A p \in few : Cardinality(upTo(p)) \in 1 .. n
    BY <1>1, <1>2
  <2> QED BY <2>1
<1>5. place \in Injection(few, 1 .. n)
  <2>1. \A p, q \in few : place[p] = place[q] => p = q
    BY <1>3
  <2> HIDE DEF place
  <2> QED BY <1>4, <2>1 DEF Injection, IsInjective
<1>6. IsFiniteSet(1 .. n) /\ Cardinality(1 .. n) = n
  BY FS_Interval
<1> HIDE DEF place
<1>7. IsFiniteSet(few) /\ Cardinality(few) <= n
  BY <1>5, <1>6, FS_Injection
<1> QED BY <1>7 DEF upTo

\* A call that may run does not collect.
LEMMA NothingCollects ==
    ASSUME TypeInv, NoPatch, NEW e \in Execs, ex[e].pc = "tools", NEW p \in Runnable(e)
    PROVE  Batch(e)[p] # "collect"
<1>1. p \in DOMAIN Batch(e) /\ ~Denied(Batch(e)[p])
  BY DEF Runnable
<1>2. CASE readOnly
  BY <1>1, <1>2 DEF Denied
<1>3. CASE ~readOnly
  <2>1. ex[e].at.node \in 1 .. Len(PlanOf(e[1])) /\ PlanOf(e[1]) \in Seq(Seq(Tools))
    BY ExecTyped, PlansTyped DEF ExecFits, Checkpoint, TypeInv
  <2>2. CASE e[1] = Root
    <3>1. Batch(e) = plan[ex[e].at.node] /\ ex[e].at.node \in DOMAIN plan
      BY <2>1, <2>2 DEF Batch, PlanOf
    <3> QED BY <1>1, <1>3, <3>1 DEF NoPatch
  <2>3. CASE e[1] # Root
    <3>1. PlanOf(e[1]) = ExpertPlan /\ ExpertPlan \in Seq(Seq({"read"}))
      BY <2>3, RunTreeAssumption DEF PlanOf
    <3>2. Batch(e) \in Seq({"read"})
      BY <2>1, <3>1 DEF Batch
    <3>3. Batch(e)[p] \in {"read"}
      BY <1>1, <3>2
    <3> QED BY <3>3
  <2> QED BY <2>2, <2>3
<1> QED BY <1>2, <1>3

LEMMA ReservePaid == ASSUME TypeInv, PaidInv, NEW e \in Execs, ReserveCalls(e) PROVE PaidInv'
<1> SUFFICES ASSUME NoPatch PROVE PaidInv'
  BY DEF PaidInv, NoPatch, ReserveCalls
<1>1. PICK n : n = Granted(Cardinality(Runnable(e)))
  OBVIOUS
<1>2. PICK accepted : accepted = {p \in Runnable(e) : Cardinality({q \in Runnable(e) : q <= p}) <= n}
  OBVIOUS
<1>3. ex[e].pc = "tools" /\ Batch(e) \in Seq(Tools)
  BY BatchTyped DEF ReserveCalls
<1>4. IsFiniteSet(Runnable(e)) /\ Runnable(e) \subseteq Nat
  <2>1. DOMAIN Batch(e) = 1 .. Len(Batch(e)) /\ Len(Batch(e)) \in Nat
    BY <1>3
  <2>2. IsFiniteSet(DOMAIN Batch(e)) /\ DOMAIN Batch(e) \subseteq Nat
    BY <2>1, FS_Interval
  <2> QED BY <2>2, FS_Subset DEF Runnable
<1>5. n \in Nat
  <2>1. Cardinality(Runnable(e)) \in Nat
    BY <1>4, FS_CardinalityType
  <2> QED BY <1>1, <2>1, GrantedFits
<1>6. IsFiniteSet(accepted) /\ Cardinality(accepted) <= n /\ accepted \subseteq Runnable(e)
  BY <1>2, <1>4, <1>5, FirstFew
<1>7. used' = used + n
  BY <1>1 DEF ReserveCalls
<1>8. /\ ex'[e].pc = "calls" /\ ex'[e].at = ex[e].at
      /\ ex'[e].calls = [p \in DOMAIN Batch(e) |->
                            [st |-> IF p \in accepted THEN "todo" ELSE "blocked",
                             child |-> 0, copy |-> 0]]
  BY <1>1, <1>2, ExecTyped DEF ReserveCalls, Execution, TypeInv, TypeOK
<1>9. \A d \in Execs : d # e => ex'[d] = ex[d]
  BY DEF ReserveCalls, TypeInv, TypeOK
<1>10. Todo' \subseteq Todo \cup ({e} \X accepted)
  <2> SUFFICES ASSUME NEW u \in Todo' PROVE u \in Todo \cup ({e} \X accepted)
    OBVIOUS
  <2>1. u \in Execs \X Nat /\ u[2] \in DOMAIN ex'[u[1]].calls /\ ex'[u[1]].calls[u[2]].st = "todo"
    BY DEF Todo
  <2>2. CASE u[1] = e
    BY <1>8, <2>1, <2>2
  <2>3. CASE u[1] # e
    BY <1>9, <2>1, <2>3 DEF Todo
  <2> QED BY <2>2, <2>3
<1>11. IsFiniteSet({e} \X accepted) /\ Cardinality({e} \X accepted) = Cardinality(accepted)
  <2>1. IsFiniteSet({e}) /\ Cardinality({e}) = 1 /\ Cardinality(accepted) \in Nat
    BY <1>6, FS_Singleton, FS_CardinalityType
  <2> QED BY <1>6, <2>1, FS_Product
<1>12. IsFiniteSet(Todo) /\ log.invoked + Cardinality(Todo) <= used
  BY DEF PaidInv
<1>13. PICK both : both = Todo \cup ({e} \X accepted)
  OBVIOUS
<1>14. IsFiniteSet(both) /\ Cardinality(both) <= Cardinality(Todo) + Cardinality(accepted)
  <2> DEFINE common == Todo \cap ({e} \X accepted)
  <2>1. IsFiniteSet(common) /\ Cardinality(common) \in Nat
    <3>1. IsFiniteSet(common)
      BY <1>12, FS_Intersection
    <3> QED BY <3>1, FS_CardinalityType
  <2>2. IsFiniteSet(both)
        /\ Cardinality(both) = Cardinality(Todo) + Cardinality({e} \X accepted) - Cardinality(common)
    BY <1>11, <1>12, <1>13, FS_Union
  <2>3. Cardinality(Todo) \in Nat /\ Cardinality(accepted) \in Nat
    BY <1>6, <1>12, FS_CardinalityType
  <2> QED BY <1>11, <2>1, <2>2, <2>3
<1>15. IsFiniteSet(Todo') /\ Cardinality(Todo') <= Cardinality(both)
  BY <1>10, <1>13, <1>14, FS_Subset
<1>16. log'.invoked + Cardinality(Todo') <= used'
  <2>1. /\ Cardinality(Todo) \in Nat /\ Cardinality(accepted) \in Nat
        /\ Cardinality(both) \in Nat /\ Cardinality(Todo') \in Nat
    BY <1>6, <1>12, <1>14, <1>15, FS_CardinalityType
  <2>2. log'.invoked = log.invoked /\ log.invoked \in Nat /\ used \in Nat
    BY RunTreeAssumption DEF ReserveCalls, TypeInv, TypeOK, History
  <2> QED BY <1>5, <1>6, <1>7, <1>12, <1>14, <1>15, <2>1, <2>2
<1>17. ASSUME NEW d \in Execs PROVE NoCollection(d)'
  <2>1. plan' = plan /\ readOnly' = readOnly
    BY DEF ReserveCalls
  <2>2. CASE d = e
    <3>1. Batch(e)' = Batch(e)
      BY <1>8, <2>1 DEF Batch, PlanOf
    <3>2. \A p \in accepted : Batch(e)[p] # "collect"
      BY <1>3, <1>6, NothingCollects
    <3>3. \A p \in DOMAIN ex'[e].calls :
              ex'[e].calls[p].st = IF p \in accepted THEN "todo" ELSE "blocked"
      BY <1>8
    <3> QED BY <2>2, <3>1, <3>2, <3>3 DEF NoCollection
  <2>3. CASE d # e
    <3>1. Batch(d)' = Batch(d) /\ NoCollection(d)
      BY <1>9, <2>1, <2>3 DEF Batch, PlanOf, PaidInv
    <3> QED BY <1>9, <2>3, <3>1 DEF NoCollection
  <2> QED BY <2>2, <2>3
<1> QED BY <1>15, <1>16, <1>17 DEF PaidInv

\* What one call does to its execution.
LEMMA CallAdvances ==
    ASSUME TypeInv, NEW e \in Execs, NEW p \in DOMAIN ex[e].calls,
           NEW st \in {"create", "wait", "done"},
           \/ Become(e, p, st)
           \/ \E r : ex' = [ex EXCEPT ![e].calls[p].st = st, ![e].calls[p].child = r]
    PROVE  (\A d \in Execs : Advanced(d)) /\ ex'[e].calls[p].st = st
<1>1. ex[e] \in Execution /\ ex \in [Execs -> Execution] /\ ex[e].calls \in Seq(CallState)
  BY ExecTyped DEF TypeInv, TypeOK
<1>2. \A d \in Execs : d # e => ex'[d] = ex[d]
  BY <1>1 DEF Become
<1>3. /\ ex'[e].at = ex[e].at /\ ex'[e].pc = ex[e].pc
      /\ DOMAIN ex'[e].calls = DOMAIN ex[e].calls
      /\ \A q \in DOMAIN ex[e].calls : q # p => ex'[e].calls[q] = ex[e].calls[q]
      /\ ex'[e].calls[p].st = st
  <2>1. CASE Become(e, p, st)
    <3>1. ex'[e] = [ex[e] EXCEPT !.calls = [ex[e].calls EXCEPT ![p] = [ex[e].calls[p] EXCEPT !.st = st]]]
      BY <1>1, <2>1 DEF Become
    <3> QED BY <1>1, <3>1 DEF Execution, CallState
  <2>2. ASSUME NEW r, ex' = [ex EXCEPT ![e].calls[p].st = st, ![e].calls[p].child = r]
        PROVE  /\ ex'[e].at = ex[e].at /\ ex'[e].pc = ex[e].pc
               /\ DOMAIN ex'[e].calls = DOMAIN ex[e].calls
               /\ \A q \in DOMAIN ex[e].calls : q # p => ex'[e].calls[q] = ex[e].calls[q]
               /\ ex'[e].calls[p].st = st
    <3>1. ex'[e] = [ex[e] EXCEPT !.calls = [ex[e].calls EXCEPT ![p] =
                                               [ex[e].calls[p] EXCEPT !.st = st, !.child = r]]]
      BY <1>1, <2>2, ZenonT(40)
    <3> QED BY <1>1, <3>1 DEF Execution, CallState
  <2> QED BY <2>1, <2>2
<1> QED BY <1>2, <1>3 DEF Advanced

LEMMA CallsPaid ==
    ASSUME TypeInv, PaidInv, NoPatch, NEW e \in Execs, NEW p \in DOMAIN ex[e].calls,
           CallStep(e, p) \/ WindowOver(e, p)
    PROVE  PaidInv'
<1>1. NoCollection(e) /\ log \in History
  BY DEF PaidInv, TypeInv, TypeOK
<1>2. CASE Read(e, p)
  <2>1. Become(e, p, "done") /\ ex[e].calls[p].st = "todo" /\ UNCHANGED <<plan, readOnly, used>>
    BY <1>2 DEF Read, Turn
  <2>2. log'.invoked = log.invoked + 1
    BY <1>1, <1>2 DEF Read, Invoked, History
  <2> QED BY <2>1, <2>2, CallAdvances, InvokedPaid
<1>3. CASE FindExpert(e, p)
  <2>1. ex[e].calls[p].st = "todo" /\ UNCHANGED <<plan, readOnly, used>>
    BY <1>3 DEF FindExpert, Turn
  <2>2. log'.invoked = log.invoked + 1
    BY <1>1, <1>3 DEF FindExpert, Invoked, History
  <2>3. CASE Become(e, p, "create")
    <3>1. (\A d \in Execs : Advanced(d)) /\ ex'[e].calls[p].st = "create"
      BY <2>3, CallAdvances
    <3> QED BY <2>1, <2>2, <3>1, InvokedPaid
  <2>4. CASE \E r : ex' = [ex EXCEPT ![e].calls[p].st = "wait", ![e].calls[p].child = r]
    <3>1. (\A d \in Execs : Advanced(d)) /\ ex'[e].calls[p].st = "wait"
      BY <2>4, CallAdvances
    <3> QED BY <2>1, <2>2, <3>1, InvokedPaid
  <2> QED BY <1>3, <2>3, <2>4 DEF FindExpert
<1>4. CASE CreateExpert(e, p) \/ ExpertEnded(e, p) \/ WindowOver(e, p)
  <2>1. UNCHANGED <<plan, readOnly, used>> /\ log'.invoked = log.invoked
    BY <1>1, <1>4 DEF CreateExpert, ExpertEnded, WindowOver, History
  <2>2. CASE Become(e, p, "done")
    <3>1. \A d \in Execs : Advanced(d)
      BY <2>2, CallAdvances
    <3> QED BY <2>1, <3>1, IdlePaid
  <2>3. CASE \E r : ex' = [ex EXCEPT ![e].calls[p].st = "wait", ![e].calls[p].child = r]
    <3>1. \A d \in Execs : Advanced(d)
      BY <2>3, CallAdvances
    <3> QED BY <2>1, <3>1, IdlePaid
  <2> QED BY <1>4, <2>2, <2>3 DEF CreateExpert, ExpertEnded, WindowOver
<1>5. CASE Collect(e, p) \/ PatchRead(e, p) \/ PatchWrite(e, p)
  BY <1>1, <1>5 DEF Collect, PatchRead, PatchWrite, Turn, NoCollection
<1> QED BY <1>2, <1>3, <1>4, <1>5 DEF CallStep

\* Every other step drops calls or leaves them alone.
LEMMA KeptAdvances ==
    ASSUME NEW e, ex'[e].at = ex[e].at, ex'[e].calls = ex[e].calls, ex'[e].pc = "calls" => ex[e].pc = "calls"
    PROVE  Advanced(e)
BY DEF Advanced

LEMMA StartDrops ==
    /\ \A c : Start(c).calls = <<>>
    /\ \A x \in {Over, Claimed, Ending} : x.calls = <<>>
BY DEF Start, Over, Claimed, Ending

LEMMA OthersPaid ==
    ASSUME TypeInv, PaidInv,
           \/ Steer
           \/ \E r \in Runs : Claim(r) \/ LeaseExpires(r) \/ Cancel(r)
           \/ \E e \in Execs :
                  \/ ListSteerings(e) \/ MarkSteerings(e) \/ FoldSteerings(e) \/ ModelStep(e)
                  \/ EndBatch(e) \/ Deliver(e) \/ Complete(e) \/ Raise(e) \/ Crash(e)
                  \/ StartRun(e) \/ CancelledEnds(e)
    PROVE  PaidInv'
<1>1. ex \in [Execs -> Execution] /\ log \in History
  BY DEF TypeInv, TypeOK
<1>2. UNCHANGED <<plan, readOnly, used>>
  BY DEF Steer, Claim, LeaseExpires, Cancel, ListSteerings, MarkSteerings, FoldSteerings, ModelStep,
         EndBatch, Deliver, Complete, Raise, Crash, StartRun, CancelledEnds, EndAs
<1>3. log'.invoked = log.invoked
  <2>1. ASSUME NEW r \in Runs, Cancel(r) PROVE log'.invoked = log.invoked
    BY <1>1, <2>1, CancelEffect DEF History
  <2> QED BY <1>1, <2>1
          DEF Steer, Claim, LeaseExpires, ListSteerings, MarkSteerings, FoldSteerings, ModelStep,
              EndBatch, Deliver, Complete, Raise, Crash, StartRun, CancelledEnds, EndAs, History
<1>4. \/ UNCHANGED ex
      \/ \E e, c : ex' = [ex EXCEPT ![e] = Start(c)]
      \/ \E e : \E x \in {Over, Claimed, Ending} : ex' = [ex EXCEPT ![e] = x]
      \/ \E e, s : ex' = [ex EXCEPT ![e].pc = "mark", ![e].loaded = s]
      \/ \E e : ex' = [ex EXCEPT ![e].pc = "fold"]
      \/ \E e : ex' = [ex EXCEPT ![e].pc = "complete"]
  <2>1. CASE Steer \/ \E r \in Runs : Claim(r) \/ LeaseExpires(r) \/ Cancel(r)
    <3>1. CASE Steer
      BY <3>1 DEF Steer
    <3>2. ASSUME NEW r \in Runs, Claim(r) PROVE \E d : ex' = [ex EXCEPT ![d] = Claimed]
      BY <3>2, Zenon DEF Claim
    <3>3. ASSUME NEW r \in Runs, LeaseExpires(r) PROVE UNCHANGED ex
      BY <3>3 DEF LeaseExpires
    <3>4. ASSUME NEW r \in Runs, Cancel(r) PROVE UNCHANGED ex \/ \E d : ex' = [ex EXCEPT ![d] = Ending]
      BY <3>4, CancelEffect, Zenon
    <3> QED BY <2>1, <3>1, <3>2, <3>3, <3>4
  <2>2. ASSUME NEW e \in Execs, FoldSteerings(e) \/ ModelStep(e) \/ EndBatch(e)
        PROVE  \E d, c : ex' = [ex EXCEPT ![d] = Start(c)]
    <3>1. \E c : Save(e, c)
      BY <2>2, Zenon DEF FoldSteerings, ModelStep, EndBatch
    <3> QED BY <3>1, Zenon DEF Save
  <2>5. ASSUME NEW e \in Execs, StartRun(e) PROVE \E d, c : ex' = [ex EXCEPT ![d] = Start(c)]
    BY <2>5, Zenon DEF StartRun
  <2>3. CASE \E e \in Execs : ListSteerings(e) \/ MarkSteerings(e)
    BY <2>3 DEF ListSteerings, MarkSteerings, Save
  <2>4. CASE \E e \in Execs : Deliver(e) \/ Complete(e) \/ Raise(e) \/ Crash(e) \/ CancelledEnds(e)
    BY <2>4 DEF Deliver, Complete, Raise, Crash, CancelledEnds, EndAs
  <2> QED BY <2>1, <2>2, <2>3, <2>4, <2>5
<1>5. \A d \in Execs : Dropped(d) \/ Advanced(d)
  <2>1. CASE UNCHANGED ex
    BY <2>1, KeptAdvances
  <2>2. ASSUME NEW e, NEW x, x.calls = <<>>, ex' = [ex EXCEPT ![e] = x]
        PROVE  \A d \in Execs : Dropped(d) \/ Advanced(d)
    <3>1. \A d \in Execs : ex'[d] = ex[d] \/ ex'[d] = x
      BY <1>1, <2>2
    <3> QED BY <2>2, <3>1, KeptAdvances DEF Dropped
  <2>4. CASE \E e, s : ex' = [ex EXCEPT ![e].pc = "mark", ![e].loaded = s]
    <3>1. \A d \in Execs : ex'[d].at = ex[d].at /\ ex'[d].calls = ex[d].calls
                           /\ (ex'[d].pc = ex[d].pc \/ ex'[d].pc = "mark")
      BY <1>1, <2>4 DEF Execution
    <3> QED BY <3>1, KeptAdvances
  <2>5. CASE \E e : ex' = [ex EXCEPT ![e].pc = "fold"]
    <3>1. \A d \in Execs : ex'[d].at = ex[d].at /\ ex'[d].calls = ex[d].calls
                           /\ (ex'[d].pc = ex[d].pc \/ ex'[d].pc = "fold")
      BY <1>1, <2>5 DEF Execution
    <3> QED BY <3>1, KeptAdvances
  <2>6. CASE \E e : ex' = [ex EXCEPT ![e].pc = "complete"]
    <3>1. \A d \in Execs : ex'[d].at = ex[d].at /\ ex'[d].calls = ex[d].calls
                           /\ (ex'[d].pc = ex[d].pc \/ ex'[d].pc = "complete")
      BY <1>1, <2>6 DEF Execution
    <3> QED BY <3>1, KeptAdvances
  <2> QED BY <1>4, <2>1, <2>2, <2>4, <2>5, <2>6, StartDrops
<1> QED BY <1>2, <1>3, <1>5, IdlePaid

LEMMA PolicyStays == [Next]_vars => UNCHANGED <<plan, readOnly>>
<1>1. ASSUME NEW e \in Execs, Work(e) PROVE UNCHANGED <<plan, readOnly>>
  BY <1>1 DEF Work, CallStep, ListSteerings, MarkSteerings, FoldSteerings, ModelStep, ReserveCalls,
              EndBatch, Read, Collect, PatchRead, PatchWrite, FindExpert, CreateExpert, ExpertEnded,
              Deliver, Complete, StartRun, CancelledEnds, EndAs
<1>2. ASSUME NEW e \in Execs, Raise(e) \/ Crash(e) \/ (\E p \in DOMAIN ex[e].calls : WindowOver(e, p))
      PROVE  UNCHANGED <<plan, readOnly>>
  BY <1>2 DEF Raise, Crash, WindowOver, EndAs
<1>3. CASE Steer \/ \E r \in Runs : Claim(r) \/ LeaseExpires(r) \/ Cancel(r)
  BY <1>3 DEF Steer, Claim, LeaseExpires, Cancel
<1> QED BY <1>1, <1>2, <1>3 DEF Next, vars

LEMMA NextPaidInv == TypeInv /\ PaidInv /\ [Next]_vars => PaidInv'
<1> SUFFICES ASSUME TypeInv, PaidInv, [Next]_vars PROVE PaidInv'
  OBVIOUS
<1>1. CASE UNCHANGED vars
  <2>1. UNCHANGED <<plan, readOnly, used, log, ex>>
    BY <1>1 DEF vars
  <2> QED BY <2>1, IdlePaid, KeptAdvances
<1>2. CASE ~NoPatch
  BY <1>2, PolicyStays DEF PaidInv, NoPatch
<1>3. CASE NoPatch /\ Next
  BY <1>3, CallsPaid, OthersPaid, ReservePaid DEF Next, Work
<1> QED BY <1>1, <1>2, <1>3

\* A tree that does not collect makes no more tool calls than its limit, whatever
\* dies or is executed twice: what is invoked was taken from the counter first,
\* by this execution, and the counter is never set back
\* (reserve_run_tree_tool_calls, and no patch_run_metadata without a
\* collection).
THEOREM BudgetHoldsWithoutCollections == Spec => [](NoPatch => log.invoked <= used /\ used <= Limit)
<1>1. TypeInv /\ PaidInv => (NoPatch => log.invoked <= used /\ used <= Limit)
  <2> SUFFICES ASSUME TypeInv, PaidInv, NoPatch PROVE log.invoked <= used /\ used <= Limit
    OBVIOUS
  <2>1. used \in Nat /\ used <= Limit /\ log.invoked \in Nat
    BY RunTreeAssumption DEF TypeInv, TypeOK, History
  <2>2. Cardinality(Todo) \in Nat /\ log.invoked + Cardinality(Todo) <= used
    BY FS_CardinalityType DEF PaidInv
  <2> QED BY <2>1, <2>2
<1> QED BY <1>1, InitPaidInv, NextPaidInv, InitTypeInv, NextTypeInv, PTL DEF Spec

\* A read-only tree is one of them, whatever its coordinator asks for.
THEOREM InvocationsArePaid == Spec => []ReadOnlyWithinLimit
<1>1. (NoPatch => log.invoked <= used /\ used <= Limit) => ReadOnlyWithinLimit
  BY DEF ReadOnlyWithinLimit, NoPatch
<1> QED BY <1>1, BudgetHoldsWithoutCollections, PTL

-----------------------------------------------------------------------------
(* One expert per call.  While a run never has two executions at once, its   *)
(* execution goes on from its checkpoint, so a dispatch is found again by    *)
(* the key it was made with, and a batch that ends leaves no expert running. *)

\* A call is where calls of its tool can be.
Tooled(e) ==
    ex[e].pc = "calls" =>
        /\ DOMAIN ex[e].calls = DOMAIN Batch(e)
        /\ \A p \in DOMAIN ex[e].calls :
               /\ ex[e].calls[p].st \in {"create", "wait"} => Batch(e)[p] = "expert"
               /\ ex[e].calls[p].st \in {"patch", "write"} => Batch(e)[p] = "collect"

ToolInv == \A e \in Execs : Tooled(e)

\* The steps that make no call.
Plain ==
    \/ Steer
    \/ \E r \in Runs : Claim(r) \/ LeaseExpires(r) \/ Cancel(r)
    \/ \E e \in Execs :
           \/ ListSteerings(e) \/ MarkSteerings(e) \/ FoldSteerings(e) \/ ModelStep(e)
           \/ EndBatch(e) \/ Deliver(e) \/ Complete(e) \/ Raise(e) \/ Crash(e)
           \/ StartRun(e) \/ CancelledEnds(e)

LEMMA NextCases ==
    Next => \/ Plain
            \/ \E e \in Execs : ReserveCalls(e)
            \/ \E e \in Execs : \E p \in DOMAIN ex[e].calls : CallStep(e, p) \/ WindowOver(e, p)
BY DEF Next, Work, Plain

\* What they do to an execution and to the checkpoint of its run.
Moved(e, x) ==
    /\ cp' = cp /\ ex' = [ex EXCEPT ![e] = x]
    /\ x.at = ex[e].at /\ x.calls = ex[e].calls
    /\ <<ex[e].pc, x.pc>> \in {<<"steer", "mark">>, <<"mark", "fold">>, <<"finish", "complete">>}

\* Executions end, or begin to.
Stopped == \A d \in Execs : ex'[d] \in {ex[d], Over} \/ (ex'[d] = Ending /\ Live(d))

LEMMA PlainShapes ==
    ASSUME TypeInv, Plain
    PROVE  \/ cp' = cp /\ Stopped
           \/ \E r \in Runs : Claim(r)
           \/ \E e \in Execs : \E c : Save(e, c) /\ Live(e)
           \/ \E e \in Execs : \E x : Moved(e, x)
<1>1. ex \in [Execs -> Execution]
  BY DEF TypeInv, TypeOK
<1>2. ASSUME Steer \/ \E r \in Runs : LeaseExpires(r) \/ Cancel(r) PROVE cp' = cp /\ Stopped
  <2>1. ASSUME NEW r \in Runs, Cancel(r) PROVE cp' = cp /\ Stopped
    BY <1>1, <2>1, CancelEffect DEF Stopped, Spends, Live
  <2> QED BY <1>2, <2>1 DEF Steer, LeaseExpires, Stopped
<1>8. ASSUME NEW e \in Execs, StartRun(e) PROVE \E c : Save(e, c) /\ Live(e)
  <2>1. cp' = [cp EXCEPT ![e[1]] = cp[e[1]]]
    BY <1>8 DEF StartRun, TypeInv, TypeOK
  <2>2. Save(e, cp[e[1]])
    BY <1>8, <2>1 DEF StartRun, Save
  <2> QED BY <1>8, <2>2 DEF StartRun, Live
<1>3. ASSUME NEW e \in Execs, Complete(e) \/ Raise(e) \/ Crash(e) \/ CancelledEnds(e)
      PROVE  cp' = cp /\ Stopped
  BY <1>1, <1>3 DEF Complete, Raise, Crash, CancelledEnds, EndAs, Stopped
<1>4. ASSUME NEW e \in Execs, FoldSteerings(e) \/ ModelStep(e) \/ EndBatch(e)
      PROVE  (\E c : Save(e, c)) /\ Live(e)
  BY <1>4, Zenon DEF FoldSteerings, ModelStep, EndBatch, Live
<1>5. ASSUME NEW e \in Execs, MarkSteerings(e) PROVE \E x : Moved(e, x)
  <2>1. PICK x : x = [ex[e] EXCEPT !.pc = "fold"]
    OBVIOUS
  <2>2. cp' = cp /\ ex' = [ex EXCEPT ![e] = x] /\ ex[e].pc = "mark"
    BY <1>5, <2>1 DEF MarkSteerings
  <2>3. x.at = ex[e].at /\ x.calls = ex[e].calls /\ x.pc = "fold"
    BY <1>1, <2>1 DEF Execution
  <2> QED BY <2>2, <2>3 DEF Moved
<1>6. ASSUME NEW e \in Execs, ListSteerings(e)
      PROVE  (\E c : Save(e, c) /\ Live(e)) \/ (\E x : Moved(e, x))
  <2>1. CASE Save(e, [ex[e].at EXCEPT !.stage = "model"])
    BY <1>6, <2>1, Zenon DEF ListSteerings, Live
  <2>2. CASE ex' = [ex EXCEPT ![e].pc = "mark", ![e].loaded = Unconsumed] /\ cp' = cp
    <3>1. PICK x : x = [ex[e] EXCEPT !.pc = "mark", !.loaded = Unconsumed]
      OBVIOUS
    <3>2. ex' = [ex EXCEPT ![e] = x] /\ ex[e].pc = "steer"
      BY <1>6, <2>2, <3>1 DEF ListSteerings
    <3>3. x.at = ex[e].at /\ x.calls = ex[e].calls /\ x.pc = "mark"
      BY <1>1, <3>1 DEF Execution
    <3> QED BY <2>2, <3>2, <3>3 DEF Moved
  <2> QED BY <1>6, <2>1, <2>2 DEF ListSteerings
<1>7. ASSUME NEW e \in Execs, Deliver(e)
      PROVE  \/ cp' = cp /\ Stopped
             \/ \E x : Moved(e, x)
  <2>1. CASE ex' = [ex EXCEPT ![e] = Over]
    BY <1>1, <1>7, <2>1 DEF Deliver, Stopped
  <2>2. CASE ex' = [ex EXCEPT ![e].pc = "complete"]
    <3>1. PICK x : x = [ex[e] EXCEPT !.pc = "complete"]
      OBVIOUS
    <3>2. cp' = cp /\ ex' = [ex EXCEPT ![e] = x] /\ ex[e].pc = "finish"
      BY <1>7, <2>2, <3>1 DEF Deliver
    <3>3. x.at = ex[e].at /\ x.calls = ex[e].calls /\ x.pc = "complete"
      BY <1>1, <3>1 DEF Execution
    <3> QED BY <3>2, <3>3 DEF Moved
  <2> QED BY <1>7, <2>1, <2>2 DEF Deliver
<1> QED BY <1>2, <1>3, <1>4, <1>5, <1>6, <1>7, <1>8 DEF Plain

\* An execution that goes on from a checkpoint.
LEMMA Saved ==
    ASSUME TypeInv, TypeInv', NEW e \in Execs, NEW c, Save(e, c)
    PROVE  /\ c \in Checkpoint /\ cp'[e[1]] = c /\ (\A r \in Runs : r # e[1] => cp'[r] = cp[r])
           /\ ex'[e].at = c /\ ex'[e].pc = c.stage /\ (\A d \in Execs : d # e => ex'[d] = ex[d])
<1>1. cp \in [Runs -> Checkpoint] /\ cp' \in [Runs -> Checkpoint] /\ ex \in [Execs -> Execution]
  BY DEF TypeInv, TypeOK
<1>2. cp' = [cp EXCEPT ![e[1]] = c] /\ ex' = [ex EXCEPT ![e] = Start(c)] /\ e[1] \in Runs
  BY ExecIndex DEF Save
<1>3. Start(c).at = c /\ Start(c).pc = c.stage
  BY DEF Start, Over
<1> QED BY <1>1, <1>2, <1>3

LEMMA ClaimEffect ==
    ASSUME TypeInv, NEW r \in Runs, Claim(r)
    PROVE  \E e \in Execs : /\ e[1] = r /\ ex'[e].pc = "claimed"
                            /\ (\A d \in Execs : d # e => ex'[d] = ex[d])
<1>1. PICK e \in Execs : e = <<r, runs[r].claims + 1>>
  BY NextExec DEF Claim
<1>2. ex \in [Execs -> Execution] /\ ex' = [ex EXCEPT ![e] = Claimed] /\ e[1] = r
  BY <1>1 DEF Claim, TypeInv, TypeOK
<1>3. Claimed.pc = "claimed"
  BY DEF Claimed, Over
<1> QED BY <1>2, <1>3

LEMMA PlainMakesNoCalls ==
    ASSUME TypeInv, TypeInv', Plain
    PROVE  \A d \in Execs : ex'[d].pc = "calls" => ex'[d] = ex[d]
<1>1. Over.pc = "over" /\ Ending.pc = "ending" /\ \A c \in Checkpoint : c.stage # "calls"
  BY DEF Over, Ending, Checkpoint
<1>2. ASSUME NEW r \in Runs, Claim(r) PROVE \A d \in Execs : ex'[d].pc = "calls" => ex'[d] = ex[d]
  BY <1>2, ClaimEffect
<1>3. ASSUME NEW e \in Execs, NEW c, Save(e, c)
      PROVE  \A d \in Execs : ex'[d].pc = "calls" => ex'[d] = ex[d]
  BY <1>1, <1>3, Saved
<1>4. ASSUME NEW e \in Execs, NEW x, Moved(e, x)
      PROVE  \A d \in Execs : ex'[d].pc = "calls" => ex'[d] = ex[d]
  BY <1>4 DEF Moved, TypeInv, TypeOK
<1> QED BY <1>1, <1>2, <1>3, <1>4, PlainShapes DEF Stopped

LEMMA PlanStays == [Next]_vars => plan' = plan
<1>1. ASSUME NEW e \in Execs, Work(e) PROVE plan' = plan
  BY <1>1 DEF Work, CallStep, ListSteerings, MarkSteerings, FoldSteerings, ModelStep, ReserveCalls,
              EndBatch, Read, Collect, PatchRead, PatchWrite, FindExpert, CreateExpert, ExpertEnded,
              Deliver, Complete, StartRun, CancelledEnds, EndAs
<1>2. ASSUME NEW e \in Execs, Raise(e) \/ Crash(e) \/ (\E p \in DOMAIN ex[e].calls : WindowOver(e, p))
      PROVE  plan' = plan
  BY <1>2 DEF Raise, Crash, WindowOver, EndAs
<1>3. CASE Steer \/ \E r \in Runs : Claim(r) \/ LeaseExpires(r) \/ Cancel(r)
  BY <1>3 DEF Steer, Claim, LeaseExpires, Cancel
<1> QED BY <1>1, <1>2, <1>3 DEF Next, vars

\* What a call step does to its call and to nothing else of the executions.
Called(e, p, st) ==
    /\ ex[e].pc = "calls" /\ ex'[e].pc = "calls" /\ ex'[e].at = ex[e].at
    /\ DOMAIN ex'[e].calls = DOMAIN ex[e].calls
    /\ ex'[e].calls[p].st = st
    /\ \A q \in DOMAIN ex[e].calls : q # p => ex'[e].calls[q] = ex[e].calls[q]
    /\ \A d \in Execs : d # e => ex'[d] = ex[d]

LEMMA CallBecomes ==
    ASSUME TypeInv, NEW e \in Execs, NEW p \in DOMAIN ex[e].calls, ex[e].pc = "calls",
           NEW st, Become(e, p, st)
    PROVE  Called(e, p, st)
<1>1. ex[e] \in Execution /\ ex \in [Execs -> Execution] /\ ex[e].calls \in Seq(CallState)
  BY ExecTyped DEF TypeInv, TypeOK
<1>2. ex'[e] = [ex[e] EXCEPT !.calls = [ex[e].calls EXCEPT ![p] = [ex[e].calls[p] EXCEPT !.st = st]]]
  BY <1>1 DEF Become
<1>3. \A d \in Execs : d # e => ex'[d] = ex[d]
  BY <1>1 DEF Become
<1> QED BY <1>1, <1>2, <1>3 DEF Called, Execution, CallState

LEMMA CallWaits ==
    ASSUME TypeInv, NEW e \in Execs, NEW p \in DOMAIN ex[e].calls, ex[e].pc = "calls", NEW r,
           ex' = [ex EXCEPT ![e].calls[p].st = "wait", ![e].calls[p].child = r]
    PROVE  Called(e, p, "wait") /\ ex'[e].calls[p].child = r
<1>1. ex[e] \in Execution /\ ex \in [Execs -> Execution] /\ ex[e].calls \in Seq(CallState)
  BY ExecTyped DEF TypeInv, TypeOK
<1>2. ex'[e] = [ex[e] EXCEPT !.calls = [ex[e].calls EXCEPT ![p] =
                                           [ex[e].calls[p] EXCEPT !.st = "wait", !.child = r]]]
  BY <1>1
<1>3. \A d \in Execs : d # e => ex'[d] = ex[d]
  BY <1>1
<1>4. ex'[e].calls[p].st = "wait" /\ ex'[e].calls[p].child = r
  BY <1>1, <1>2 DEF Execution, CallState
<1> QED BY <1>1, <1>2, <1>3, <1>4 DEF Called, Execution

LEMMA CallCopies ==
    ASSUME TypeInv, NEW e \in Execs, NEW p \in DOMAIN ex[e].calls, PatchRead(e, p)
    PROVE  Called(e, p, "write")
<1>1. ex[e] \in Execution /\ ex \in [Execs -> Execution] /\ ex[e].calls \in Seq(CallState)
  BY ExecTyped DEF TypeInv, TypeOK
<1>2. ex'[e] = [ex[e] EXCEPT !.calls = [ex[e].calls EXCEPT ![p] =
                                           [ex[e].calls[p] EXCEPT !.st = "write", !.copy = used]]]
  BY <1>1 DEF PatchRead
<1>3. \A d \in Execs : d # e => ex'[d] = ex[d]
  BY <1>1 DEF PatchRead
<1>4. ex'[e].calls[p].st = "write"
  BY <1>1, <1>2 DEF Execution, CallState
<1> QED BY <1>1, <1>2, <1>3, <1>4 DEF Called, Execution, PatchRead, Turn

LEMMA CallToolInv ==
    ASSUME ToolInv, plan' = plan, NEW e \in Execs, NEW p \in DOMAIN ex[e].calls, NEW st, Called(e, p, st),
           st \in {"create", "wait"} => Batch(e)[p] = "expert",
           st \in {"patch", "write"} => Batch(e)[p] = "collect"
    PROVE  ToolInv'
<1> SUFFICES ASSUME NEW d \in Execs PROVE Tooled(d)'
  BY DEF ToolInv
<1>1. Tooled(d) /\ Tooled(e)
  BY DEF ToolInv
<1>2. Batch(d)' = Batch(d)
  BY DEF Batch, PlanOf, Called
<1>3. CASE d = e
  BY <1>1, <1>2, <1>3 DEF Tooled, Called
<1>4. CASE d # e
  BY <1>1, <1>2, <1>4 DEF Tooled, Called
<1> QED BY <1>3, <1>4

LEMMA CallsToolInv ==
    ASSUME TypeInv, ToolInv, plan' = plan, NEW e \in Execs, NEW p \in DOMAIN ex[e].calls,
           CallStep(e, p) \/ WindowOver(e, p)
    PROVE  ToolInv'
<1>1. ex[e].pc = "calls"
  BY DEF CallStep, WindowOver, Read, Collect, PatchRead, PatchWrite, FindExpert, CreateExpert,
         ExpertEnded, Turn
<1>2. Tooled(e)
  BY DEF ToolInv
<1>3. CASE Become(e, p, "done")
  BY <1>1, <1>3, CallBecomes, CallToolInv
<1>4. CASE Collect(e, p)
  BY <1>1, <1>4, CallBecomes, CallToolInv DEF Collect
<1>5. CASE PatchRead(e, p)
  <2>1. Batch(e)[p] = "collect"
    BY <1>1, <1>2, <1>5 DEF PatchRead, Turn, Tooled
  <2> QED BY <1>5, <2>1, CallCopies, CallToolInv
<1>6. CASE FindExpert(e, p) \/ CreateExpert(e, p)
  <2>1. Batch(e)[p] = "expert"
    BY <1>1, <1>2, <1>6 DEF FindExpert, CreateExpert, Turn, Tooled
  <2>2. CASE Become(e, p, "create")
    BY <1>1, <2>1, <2>2, CallBecomes, CallToolInv
  <2>3. ASSUME NEW r, ex' = [ex EXCEPT ![e].calls[p].st = "wait", ![e].calls[p].child = r]
        PROVE  ToolInv'
    BY <1>1, <2>1, <2>3, CallWaits, CallToolInv
  <2> QED BY <1>6, <2>2, <2>3 DEF FindExpert, CreateExpert
<1> QED BY <1>3, <1>4, <1>5, <1>6 DEF CallStep, WindowOver, Read, PatchWrite, ExpertEnded

\* The calls of a batch whose slots have just been reserved.
LEMMA Reserved ==
    ASSUME TypeInv, NEW e \in Execs, ReserveCalls(e)
    PROVE  /\ ex[e].pc = "tools" /\ ex'[e].pc = "calls" /\ ex'[e].at = ex[e].at
           /\ DOMAIN ex'[e].calls = DOMAIN Batch(e)
           /\ \A p \in DOMAIN Batch(e) : ex'[e].calls[p].st \in {"todo", "blocked"}
           /\ \A d \in Execs : d # e => ex'[d] = ex[d]
<1>1. ex \in [Execs -> Execution]
  BY DEF TypeInv, TypeOK
<1>2. PICK accepted : ex' = [ex EXCEPT ![e].pc = "calls", ![e].calls =
                                [p \in DOMAIN Batch(e) |->
                                    [st |-> IF p \in accepted THEN "todo" ELSE "blocked",
                                     child |-> 0, copy |-> 0]]]
  BY DEF ReserveCalls
<1> QED BY <1>1, <1>2 DEF ReserveCalls, Execution

LEMMA ReserveToolInv ==
    ASSUME TypeInv, ToolInv, plan' = plan, NEW e \in Execs, ReserveCalls(e) PROVE ToolInv'
<1> SUFFICES ASSUME NEW d \in Execs PROVE Tooled(d)'
  BY DEF ToolInv
<1>1. CASE d = e
  <2>1. Batch(e)' = Batch(e)
    BY Reserved DEF Batch, PlanOf
  <2> QED BY <1>1, <2>1, Reserved DEF Tooled
<1>2. CASE d # e
  <2>1. ex'[d] = ex[d] /\ Tooled(d)
    BY <1>2, Reserved DEF ToolInv
  <2> QED BY <2>1 DEF Tooled, Batch, PlanOf
<1> QED BY <1>1, <1>2

LEMMA NextToolInv == TypeInv /\ TypeInv' /\ ToolInv /\ [Next]_vars => ToolInv'
<1> SUFFICES ASSUME TypeInv, TypeInv', ToolInv, [Next]_vars PROVE ToolInv'
  OBVIOUS
<1>1. plan' = plan
  BY PlanStays
<1>2. CASE \A d \in Execs : ex'[d].pc = "calls" => ex'[d] = ex[d]
  <2> SUFFICES ASSUME NEW d \in Execs, ex'[d].pc = "calls" PROVE Tooled(d)'
    BY DEF ToolInv, Tooled
  <2>1. ex'[d] = ex[d] /\ Tooled(d)
    BY <1>2 DEF ToolInv
  <2> QED BY <1>1, <2>1 DEF Tooled, Batch, PlanOf
<1>3. CASE UNCHANGED vars
  BY <1>2, <1>3 DEF vars
<1> QED BY <1>1, <1>2, <1>3, NextCases, PlainMakesNoCalls, ReserveToolInv, CallsToolInv

Staged(x) ==
    /\ x.pc \in {"tools", "calls"} => x.at.stage = "tools"
    /\ x.pc \in {"steer", "mark", "fold"} => x.at.stage = "steer"
    /\ x.pc = "model" => x.at.stage = "model"
    /\ x.pc \in {"finish", "complete"} => x.at.stage = "finish"

Sole == \A d, e \in Execs : Live(d) /\ Live(e) /\ d[1] = e[1] => d = e

Started(e) == ex[e].pc \notin {"over", "claimed", "ending"}

\* The one execution of a run is at its checkpoint once it has started.
SoleInv == ~log.overlap => /\ Sole
                           /\ \A e \in Execs : Started(e) => ex[e].at = cp[e[1]] /\ Staged(ex[e])

LEMMA InitSoleInv == Init => ToolInv /\ SoleInv
<1> SUFFICES ASSUME Init PROVE ToolInv /\ SoleInv
  OBVIOUS
<1>1. \A e \in Execs : ex[e].pc = "over"
  BY DEF Init, Over
<1> QED BY <1>1 DEF ToolInv, Tooled, SoleInv, Sole, Live, Started

\* Two executions at once are remembered.
LEMMA OverlapStays == TypeInv /\ [Next]_vars => (log.overlap => log'.overlap)
<1> SUFFICES ASSUME TypeInv, [Next]_vars PROVE log.overlap => log'.overlap
  OBVIOUS
<1>1. log \in History
  BY DEF TypeInv, TypeOK
<1>2. ASSUME NEW e \in Execs, NEW p \in DOMAIN ex[e].calls, CallStep(e, p) \/ WindowOver(e, p)
      PROVE  log'.overlap = log.overlap
  BY <1>1, <1>2 DEF CallStep, WindowOver, Read, Collect, PatchRead, PatchWrite, FindExpert, CreateExpert,
              ExpertEnded, Invoked, History
<1>3. ASSUME NEW e \in Execs, ReserveCalls(e) PROVE log'.overlap = log.overlap
  BY <1>3 DEF ReserveCalls
<1>4. CASE Plain
  <2>1. ASSUME NEW r \in Runs, Cancel(r) PROVE log'.overlap = log.overlap
    BY <1>1, <2>1, CancelEffect DEF History
  <2> QED BY <1>1, <1>4, <2>1
          DEF Plain, Steer, Claim, LeaseExpires, ListSteerings, MarkSteerings, FoldSteerings, ModelStep,
              EndBatch, Deliver, Complete, Raise, Crash, StartRun, CancelledEnds, EndAs, History
<1> QED BY <1>2, <1>3, <1>4, NextCases DEF vars

\* No execution is born, and none leaves its checkpoint.
LEMMA SoleKept ==
    ASSUME SoleInv, log.overlap => log'.overlap, cp' = cp,
           \A d \in Execs : /\ Live(d)' => Live(d)
                            /\ Started(d)' => Started(d) /\ ex'[d].at = ex[d].at
                                              /\ (Staged(ex[d]) => Staged(ex'[d]))
    PROVE  SoleInv'
<1> SUFFICES ASSUME ~log'.overlap PROVE SoleInv'
  BY DEF SoleInv
<1>1. Sole /\ \A e \in Execs : Started(e) => ex[e].at = cp[e[1]] /\ Staged(ex[e])
  BY DEF SoleInv
<1>3. Sole'
  BY <1>1 DEF Sole
<1>4. \A e \in Execs : Started(e)' => ex'[e].at = cp'[e[1]] /\ Staged(ex[e])'
  BY <1>1 DEF Staged
<1> QED BY <1>3, <1>4 DEF SoleInv

\* The execution that goes on from a checkpoint is the one there is.
LEMMA SoleSaved ==
    ASSUME TypeInv, TypeInv', SoleInv, log.overlap => log'.overlap, NEW e \in Execs, NEW c,
           Save(e, c), Live(e)
    PROVE  SoleInv'
<1> SUFFICES ASSUME ~log'.overlap PROVE SoleInv'
  BY DEF SoleInv
<1>1. Sole /\ \A d \in Execs : Started(d) => ex[d].at = cp[d[1]] /\ Staged(ex[d])
  BY DEF SoleInv
<1>2. /\ cp'[e[1]] = c /\ c \in Checkpoint /\ (\A r \in Runs : r # e[1] => cp'[r] = cp[r])
      /\ ex'[e].at = c /\ ex'[e].pc = c.stage /\ (\A d \in Execs : d # e => ex'[d] = ex[d])
  BY Saved
<1>3. Sole'
  BY <1>1, <1>2 DEF Sole, Live
<1>4. Staged(ex[e])'
  BY <1>2 DEF Staged, Checkpoint
<1>5. \A d \in Execs : d # e /\ Live(d) => d[1] # e[1] /\ d[1] \in Runs
  BY <1>1, ExecIndex DEF Sole
<1>6. ASSUME NEW d \in Execs, Started(d)' PROVE ex'[d].at = cp'[d[1]] /\ Staged(ex[d])'
  <2>1. CASE d = e
    BY <1>2, <1>4, <2>1
  <2>2. CASE d # e
    <3>1. ex'[d] = ex[d] /\ Started(d) /\ Live(d)
      BY <1>2, <1>6, <2>2 DEF Live, Started
    <3>2. ex[d].at = cp[d[1]] /\ cp'[d[1]] = cp[d[1]] /\ Staged(ex[d])
      BY <1>1, <1>2, <1>5, <2>2, <3>1
    <3> QED BY <3>1, <3>2 DEF Staged
  <2> QED BY <2>1, <2>2
<1> QED BY <1>3, <1>6 DEF SoleInv

\* A claim beside a live execution is an overlap.
LEMMA SoleClaimed ==
    ASSUME TypeInv, SoleInv, log.overlap => log'.overlap, NEW r \in Runs, Claim(r)
    PROVE  SoleInv'
<1> SUFFICES ASSUME ~log'.overlap PROVE SoleInv'
  BY DEF SoleInv
<1>1. Sole /\ \A d \in Execs : Started(d) => ex[d].at = cp[d[1]] /\ Staged(ex[d])
  BY DEF SoleInv
<1>2. cp' = cp /\ ~Busy(r)
  BY DEF Claim, TypeInv, TypeOK, History
<1>3. PICK e \in Execs : /\ e[1] = r /\ ex'[e].pc = "claimed"
                         /\ (\A d \in Execs : d # e => ex'[d] = ex[d])
  BY ClaimEffect
<1>4. \A d \in Execs : d[1] = r => ~Live(d)
  BY <1>2 DEF Busy
<1>5. Sole'
  BY <1>1, <1>3, <1>4 DEF Sole, Live
<1>7. ASSUME NEW d \in Execs, Started(d)' PROVE ex'[d].at = cp'[d[1]] /\ Staged(ex[d])'
  <2>1. d # e
    BY <1>3, <1>7 DEF Started
  <2>2. ex'[d] = ex[d] /\ Started(d)
    BY <1>3, <1>7, <2>1 DEF Started
  <2>3. ex[d].at = cp[d[1]] /\ Staged(ex[d])
    BY <1>1, <2>2
  <2> QED BY <1>2, <2>2, <2>3 DEF Staged
<1> QED BY <1>5, <1>7 DEF SoleInv

LEMMA PlainSoleInv ==
    ASSUME TypeInv, TypeInv', SoleInv, log.overlap => log'.overlap, Plain PROVE SoleInv'
<1>1. CASE cp' = cp /\ Stopped
  <2>1. Over.pc = "over" /\ Ending.pc = "ending"
    BY DEF Over, Ending
  <2>2. \A d \in Execs : (Live(d)' => Live(d)) /\ (Started(d)' => ex'[d] = ex[d])
    BY <1>1, <2>1 DEF Stopped, Live, Started
  <2> QED BY <1>1, <2>2, SoleKept DEF Started
<1>2. ASSUME NEW e \in Execs, NEW x, Moved(e, x) PROVE SoleInv'
  <2>1. ex'[e] = x /\ \A d \in Execs : d # e => ex'[d] = ex[d]
    BY <1>2 DEF Moved, TypeInv, TypeOK
  <2>2. cp' = cp /\ x.at = ex[e].at /\ Live(e) /\ Started(e) /\ (Staged(ex[e]) => Staged(x))
    BY <1>2 DEF Moved, Live, Started, Staged
  <2> QED BY <2>1, <2>2, SoleKept DEF Live, Started
<1> QED BY <1>1, <1>2, PlainShapes, SoleSaved, SoleClaimed

LEMMA CallsOnly ==
    ASSUME TypeInv, NEW e \in Execs, NEW p \in DOMAIN ex[e].calls, CallStep(e, p) \/ WindowOver(e, p)
    PROVE  cp' = cp /\ \E st : Called(e, p, st)
<1>1. cp' = cp /\ ex[e].pc = "calls"
  BY DEF CallStep, WindowOver, Read, Collect, PatchRead, PatchWrite, FindExpert, CreateExpert,
         ExpertEnded, Turn
<1>2. ASSUME NEW st, Become(e, p, st) PROVE \E s : Called(e, p, s)
  BY <1>1, <1>2, CallBecomes
<1>3. ASSUME NEW r, ex' = [ex EXCEPT ![e].calls[p].st = "wait", ![e].calls[p].child = r]
      PROVE  \E s : Called(e, p, s)
  BY <1>1, <1>3, CallWaits
<1>4. CASE FindExpert(e, p) \/ CreateExpert(e, p)
  BY <1>2, <1>3, <1>4 DEF FindExpert, CreateExpert
<1> QED BY <1>1, <1>2, <1>4, CallCopies
        DEF CallStep, WindowOver, Read, Collect, PatchWrite, ExpertEnded

LEMMA NextSoleInv == TypeInv /\ TypeInv' /\ SoleInv /\ [Next]_vars => SoleInv'
<1> SUFFICES ASSUME TypeInv, TypeInv', SoleInv, [Next]_vars PROVE SoleInv'
  OBVIOUS
<1>1. log.overlap => log'.overlap
  BY OverlapStays
<1>2. ASSUME NEW e \in Execs, NEW p \in DOMAIN ex[e].calls, CallStep(e, p) \/ WindowOver(e, p)
      PROVE  SoleInv'
  <2>1. PICK st : Called(e, p, st)
    BY <1>2, CallsOnly
  <2>2. cp' = cp
    BY <1>2, CallsOnly
  <2>3. \A d \in Execs : ex'[d].pc = ex[d].pc /\ ex'[d].at = ex[d].at
    BY <2>1 DEF Called
  <2> QED BY <1>1, <2>2, <2>3, SoleKept DEF Live, Started, Staged
<1>3. ASSUME NEW e \in Execs, ReserveCalls(e) PROVE SoleInv'
  <2>1. cp' = cp
    BY <1>3 DEF ReserveCalls
  <2>2. \A d \in Execs : /\ ex'[d].at = ex[d].at
                         /\ \/ ex'[d].pc = ex[d].pc
                            \/ ex[d].pc = "tools" /\ ex'[d].pc = "calls"
    BY <1>3, Reserved
  <2> QED BY <1>1, <2>1, <2>2, SoleKept DEF Live, Started, Staged
<1>4. CASE UNCHANGED vars
  BY <1>1, <1>4, SoleKept DEF vars, Live, Started
<1> QED BY <1>1, <1>2, <1>3, <1>4, NextCases, PlainSoleInv

-----------------------------------------------------------------------------
Experts == {r \in Runs \ {Root} : runs[r].status # "unborn"}

\* An expert was dispatched by a call of the plan, at the node where the
\* coordinator is or before it; there it is found again by its key, and
\* before it nobody runs any more.
Dispatched(r) ==
    LET key == runs[r].key
    IN  /\ key.by > 0 /\ key.node \in DOMAIN plan /\ key.pos \in DOMAIN plan[key.node]
        /\ plan[key.node][key.pos] = "expert"
        /\ key.node <= cp[Root].node
        /\ key.node = cp[Root].node => cp[Root].stage \in {"tools", "finish"} /\ key.by = cp[Root].by
        /\ key.node < cp[Root].node /\ ~log.timeout /\ ~log.missed => runs[r].status \in Terminal

\* What the calls of a batch know of their experts.
Answered(e) ==
    ex[e].pc = "calls" => \A p \in DOMAIN ex[e].calls :
        /\ ex[e].calls[p].st = "create" => ChildrenOf(e, p) = {}
        /\ ex[e].calls[p].st = "wait" => ex[e].calls[p].child \in ChildrenOf(e, p)
        /\ ex[e].calls[p].st = "done" /\ ~log.timeout /\ ~log.missed =>
               \A r \in ChildrenOf(e, p) : runs[r].status \in Terminal

ExpertInv ==
    /\ runs[Root].status # "unborn"
    /\ \A r \in Runs \ {Root} : runs[r].status = "unborn" => runs[r].key = NoKey
    /\ cp[Root].stage = "tools" => cp[Root].by > 0
    /\ ~log.overlap =>
           /\ \A q, r \in Experts : runs[q].key = runs[r].key => q = r
           /\ \A r \in Experts : Dispatched(r)
           /\ \A e \in Execs : e[1] = Root => Answered(e)

LEMMA RootIsRun == Root \in Runs
BY RunTreeAssumption DEF Root, Runs

LEMMA InitExpertInv == Init => ExpertInv
<1> SUFFICES ASSUME Init PROVE ExpertInv
  OBVIOUS
<1>1. runs[Root].status = "pending" /\ cp[Root].stage = "steer"
  BY RootIsRun DEF Init, First
<1>2. \A r \in Runs \ {Root} : runs[r].status = "unborn" /\ runs[r].key = NoKey
  BY DEF Init
<1>3. \A e \in Execs : ex[e].pc = "over"
  BY DEF Init, Over
<1>4. Experts = {}
  BY <1>2 DEF Experts
<1> QED BY <1>1, <1>2, <1>3, <1>4 DEF ExpertInv, Answered

\* Rows keep their keys, nobody is born or unborn, what has ended has ended
\* unless a cancellation left an execution going on.
RowsKept ==
    \A r \in Runs : /\ runs'[r].key = runs[r].key
                    /\ runs'[r].status = "unborn" <=> runs[r].status = "unborn"
                    /\ ~log'.overlap /\ ~log'.missed =>
                           (runs[r].status \in Terminal => runs'[r].status \in Terminal)

LogKept == /\ (log.overlap => log'.overlap) /\ (log.timeout => log'.timeout)
           /\ (log.missed => log'.missed)

LEMMA RowsKeepChildren ==
    ASSUME RowsKept, NEW e, NEW p, ex'[e].at = ex[e].at PROVE ChildrenOf(e, p)' = ChildrenOf(e, p)
BY DEF RowsKept, ChildrenOf, KeyOf

LEMMA KeptAnswers ==
    ASSUME RowsKept, LogKept, ~log'.overlap, NEW e, Answered(e), ex'[e].pc = "calls" => ex'[e] = ex[e]
    PROVE  Answered(e)'
<1> SUFFICES ASSUME ex'[e] = ex[e], ex[e].pc = "calls" PROVE Answered(e)'
  BY DEF Answered
<1>1. \A p : ChildrenOf(e, p)' = ChildrenOf(e, p)
  BY RowsKeepChildren
<1>2. \A p : \A r \in ChildrenOf(e, p) : r \in Runs
  BY DEF ChildrenOf
<1> QED BY <1>1, <1>2 DEF Answered, RowsKept, LogKept

\* The coordinator stays where it is.
LEMMA ExpertsKept ==
    ASSUME ExpertInv, RowsKept, LogKept, plan' = plan, cp'[Root] = cp[Root],
           ~log'.overlap => \A e \in Execs : e[1] = Root => Answered(e)'
    PROVE  ExpertInv'
<1>1. /\ runs'[Root].status # "unborn"
      /\ \A r \in Runs \ {Root} : runs'[r].status = "unborn" => runs'[r].key = NoKey
      /\ cp'[Root].stage = "tools" => cp'[Root].by > 0
  BY RootIsRun DEF ExpertInv, RowsKept
<1>2. Experts' = Experts
  BY DEF Experts, RowsKept
<1>3. ASSUME ~log'.overlap
      PROVE  /\ \A q, r \in Experts : runs'[q].key = runs'[r].key => q = r
             /\ \A r \in Experts : Dispatched(r)'
             /\ \A e \in Execs : e[1] = Root => Answered(e)'
  <2>1. ~log.overlap
    BY <1>3 DEF LogKept
  <2>2. \A r \in Experts : r \in Runs
    BY DEF Experts
  <2>3. \A q, r \in Experts : runs'[q].key = runs'[r].key => q = r
    BY <2>1, <2>2 DEF ExpertInv, RowsKept
  <2>4. \A r \in Experts : Dispatched(r)'
    BY <1>3, <2>1, <2>2 DEF ExpertInv, RowsKept, LogKept, Dispatched
  <2>5. \A e \in Execs : e[1] = Root => Answered(e)'
    BY <1>3
  <2> QED BY <2>3, <2>4, <2>5
<1> QED BY <1>1, <1>2, <1>3 DEF ExpertInv

\* The coordinator goes on from a checkpoint, and no other execution of it
\* is there.
LEMMA ExpertsSaved ==
    ASSUME TypeInv, TypeInv', SoleInv, ExpertInv, NEW e \in Execs, NEW c, Save(e, c), Live(e), e[1] = Root,
           UNCHANGED <<plan, runs, log>>, c.stage = "tools" => c.by > 0,
           ~log.overlap => \A r \in Experts : Dispatched(r)'
    PROVE  ExpertInv'
<1>1. /\ cp'[Root] = c /\ ex'[e].pc = c.stage /\ c \in Checkpoint
      /\ \A d \in Execs : d # e => ex'[d] = ex[d]
  BY Saved
<1>2. Experts' = Experts
  BY DEF Experts
<1>3. ASSUME ~log.overlap, NEW d \in Execs, d[1] = Root PROVE Answered(d)'
  <2>1. ex'[d].pc # "calls"
    <3>1. CASE d = e
      BY <1>1, <3>1 DEF Checkpoint
    <3>2. CASE d # e
      BY <1>1, <1>3, <3>2 DEF SoleInv, Sole, Live
    <3> QED BY <3>1, <3>2
  <2> QED BY <2>1 DEF Answered
<1> QED BY <1>1, <1>2, <1>3 DEF ExpertInv

\* Between a batch and the next one no expert has the key of a node ahead.
LEMMA ModelAhead ==
    ASSUME TypeInv, ExpertInv, ~log.overlap, cp[Root].stage \in {"steer", "model"},
           cp'[Root].node = cp[Root].node, UNCHANGED <<plan, runs, log>>
    PROVE  \A r \in Experts : Dispatched(r)'
<1>1. \A r \in Experts : Dispatched(r)
  BY DEF ExpertInv
<1>2. \A r \in Experts : runs[r].key.node \in Nat
  BY DEF TypeInv, TypeOK, Row, Key, Experts
<1>3. cp[Root].node \in Nat
  BY RootIsRun DEF TypeInv, TypeOK, Checkpoint
<1> QED BY <1>1, <1>2, <1>3 DEF Dispatched

LEMMA NodesExpertInv ==
    ASSUME TypeInv, TypeInv', SoleInv, ExpertInv, NEW e \in Execs, e[1] = Root,
           FoldSteerings(e) \/ ModelStep(e) \/ (ListSteerings(e) /\ cp' # cp)
    PROVE  ExpertInv'
<1>1. Live(e) /\ ex[e].pc \in {"steer", "fold", "model"} /\ UNCHANGED <<plan, runs, log>>
  BY DEF FoldSteerings, ModelStep, ListSteerings, Live
<1>2. ex[e].at \in Checkpoint /\ e[2] \in Nat /\ e[2] > 0
  BY ExecTyped DEF Execs
<1>3. \E c : Save(e, c) /\ c.node = ex[e].at.node /\ (c.stage = "tools" => c.by > 0)
  <2>1. CASE FoldSteerings(e)
    <3>1. PICK c : Save(e, c) /\ \E told : c = [ex[e].at EXCEPT !.stage = "model", !.told = told]
      BY <2>1, Zenon DEF FoldSteerings
    <3>2. c.node = ex[e].at.node /\ c.stage = "model"
      BY <1>2, <3>1 DEF Checkpoint
    <3> QED BY <3>1, <3>2
  <2>2. CASE ModelStep(e)
    <3>1. PICK c : Save(e, c) /\ \E g : c = [ex[e].at EXCEPT !.stage = g, !.by = e[2]]
      BY <2>2, Zenon DEF ModelStep
    <3>2. c.node = ex[e].at.node /\ c.by = e[2]
      BY <1>2, <3>1 DEF Checkpoint
    <3> QED BY <1>2, <3>1, <3>2
  <2>3. CASE ListSteerings(e) /\ cp' # cp
    <3>1. PICK c : Save(e, c) /\ c = [ex[e].at EXCEPT !.stage = "model"]
      BY <2>3, Zenon DEF ListSteerings
    <3>2. c.node = ex[e].at.node /\ c.stage = "model"
      BY <1>2, <3>1 DEF Checkpoint
    <3> QED BY <3>1, <3>2
  <2> QED BY <2>1, <2>2, <2>3
<1>4. PICK c : Save(e, c) /\ c.node = ex[e].at.node /\ (c.stage = "tools" => c.by > 0)
  BY <1>3
<1>5. ASSUME ~log.overlap PROVE \A r \in Experts : Dispatched(r)'
  <2>1. ex[e].at = cp[Root] /\ cp[Root].stage \in {"steer", "model"}
    BY <1>1, <1>5 DEF SoleInv, Staged, Started
  <2>2. cp'[Root].node = cp[Root].node
    BY <1>4, <2>1, Saved
  <2> QED BY <1>1, <1>5, <2>1, <2>2, ModelAhead
<1> QED BY <1>1, <1>4, <1>5, ExpertsSaved

\* The end of a batch: every call has been answered, so unless one gave up
\* waiting every expert of the batch has ended.
LEMMA EndBatchExpertInv ==
    ASSUME TypeInv, TypeInv', ToolInv, SoleInv, ExpertInv, NEW e \in Execs, e[1] = Root, EndBatch(e)
    PROVE  ExpertInv'
<1>1. Live(e) /\ ex[e].pc = "calls" /\ UNCHANGED <<plan, runs, log>>
  BY DEF EndBatch, Live
<1>2. ex[e].at \in Checkpoint /\ ex[e].at.node \in Nat
  BY ExecTyped DEF Checkpoint
<1>3. \A r \in Experts : runs[r].key \in Key /\ r \in Runs /\ r # Root
  BY DEF TypeInv, TypeOK, Row, Experts
<1>4. CASE Save(e, [ex[e].at EXCEPT !.stage = "finish"])
  <2>1. PICK c : c = [ex[e].at EXCEPT !.stage = "finish"]
    OBVIOUS
  <2>2. c.stage = "finish" /\ c.node = ex[e].at.node /\ c.by = ex[e].at.by
    BY <1>2, <2>1 DEF Checkpoint
  <2>3. ASSUME ~log.overlap PROVE \A r \in Experts : Dispatched(r)'
    <3>1. ex[e].at = cp[Root] /\ \A r \in Experts : Dispatched(r)
      BY <1>1, <2>3 DEF SoleInv, ExpertInv, Started
    <3>2. cp'[Root] = c
      BY <1>4, <2>1, Saved
    <3> QED BY <1>1, <2>2, <3>1, <3>2 DEF Dispatched
  <2> QED BY <1>1, <1>4, <2>1, <2>2, <2>3, ExpertsSaved
<1>5. CASE /\ ~\E p \in DOMAIN ex[e].calls : ex[e].calls[p].st = "blocked"
           /\ Save(e, [ex[e].at EXCEPT !.node = @ + 1, !.stage = "steer"])
  <2>1. PICK c : c = [ex[e].at EXCEPT !.node = @ + 1, !.stage = "steer"]
    OBVIOUS
  <2>2. c.stage = "steer" /\ c.node = ex[e].at.node + 1
    BY <1>2, <2>1 DEF Checkpoint
  <2>3. \A p \in DOMAIN ex[e].calls : ex[e].calls[p].st = "done"
    BY <1>5 DEF EndBatch, Settled
  <2>4. ASSUME ~log.overlap, NEW r \in Experts PROVE Dispatched(r)'
    <3>1. ex[e].at = cp[Root] /\ Dispatched(r) /\ Answered(e) /\ ex[e].at.stage = "tools"
      BY <1>1, <2>4 DEF SoleInv, ExpertInv, Staged, Started
    <3>2. cp'[Root] = c
      BY <1>5, <2>1, Saved
    <3>3. runs[r].key.node \in Nat
      BY <1>3 DEF Key
    <3>4. CASE runs[r].key.node < ex[e].at.node
      BY <1>1, <1>2, <2>2, <3>1, <3>2, <3>3, <3>4 DEF Dispatched
    <3>5. CASE runs[r].key.node = ex[e].at.node
      <4>1. PICK p : p = runs[r].key.pos
        OBVIOUS
      <4>2. p \in DOMAIN ex[e].calls
        <5>1. Batch(e) = plan[runs[r].key.node] /\ DOMAIN ex[e].calls = DOMAIN Batch(e)
          BY <1>1, <3>5 DEF Batch, PlanOf, ToolInv, Tooled
        <5> QED BY <3>1, <4>1, <5>1 DEF Dispatched
      <4>3. runs[r].key = KeyOf(e, p)
        BY <1>3, <3>1, <3>5, <4>1 DEF Dispatched, KeyOf, Key
      <4>4. r \in ChildrenOf(e, p)
        BY <1>3, <4>3 DEF ChildrenOf, Experts
      <4>5. ~log.timeout /\ ~log.missed => runs[r].status \in Terminal
        BY <1>1, <2>3, <3>1, <4>2, <4>4 DEF Answered
      <4> QED BY <1>1, <1>2, <2>2, <3>1, <3>2, <3>3, <3>5, <4>5 DEF Dispatched
    <3> QED BY <1>2, <3>1, <3>3, <3>4, <3>5 DEF Dispatched
  <2> QED BY <1>1, <1>5, <2>1, <2>2, <2>4, ExpertsSaved
<1> QED BY <1>4, <1>5 DEF EndBatch

\* The answers of a batch when one call has changed.
LEMMA CalledAnswers ==
    ASSUME ExpertInv, ~log.overlap, runs' = runs, LogKept, NEW e \in Execs, e[1] = Root,
           NEW p \in DOMAIN ex[e].calls, NEW st, Called(e, p, st),
           st = "create" => ChildrenOf(e, p) = {},
           st = "wait" => ex'[e].calls[p].child \in ChildrenOf(e, p),
           st = "done" /\ ~log'.timeout /\ ~log'.missed => \A r \in ChildrenOf(e, p) : runs[r].status \in Terminal,
           NEW d \in Execs, d[1] = Root
    PROVE  Answered(d)'
<1>1. Answered(d) /\ RowsKept
  BY DEF ExpertInv, RowsKept
<1>2. CASE d # e
  <2>1. ex'[d] = ex[d]
    BY <1>2 DEF Called
  <2>2. \A q : ChildrenOf(d, q)' = ChildrenOf(d, q)
    BY <1>1, <2>1, RowsKeepChildren
  <2> QED BY <1>1, <2>1, <2>2 DEF Answered, LogKept
<1>3. CASE d = e
  <2>1. \A q : ChildrenOf(e, q)' = ChildrenOf(e, q)
    BY <1>1, RowsKeepChildren DEF Called
  <2> QED BY <1>1, <1>3, <2>1 DEF Answered, Called, LogKept
<1> QED BY <1>2, <1>3

\* Only a dispatching call has experts.
LEMMA NoExpertsOfOthers ==
    ASSUME TypeInv, ExpertInv, ~log.overlap, NEW e \in Execs, e[1] = Root, NEW p, Batch(e)[p] # "expert"
    PROVE  ChildrenOf(e, p) = {}
<1> SUFFICES ASSUME NEW r \in ChildrenOf(e, p) PROVE FALSE
  OBVIOUS
<1>1. r \in Experts /\ runs[r].key = KeyOf(e, p)
  BY DEF ChildrenOf, Experts
<1>2. plan[ex[e].at.node][p] = "expert"
  BY <1>1 DEF ExpertInv, Dispatched, KeyOf
<1> QED BY <1>2 DEF Batch, PlanOf

LEMMA CallsExpertInv ==
    ASSUME TypeInv, ToolInv, SoleInv, ExpertInv, plan' = plan, NEW e \in Execs,
           NEW p \in DOMAIN ex[e].calls, CallStep(e, p) \/ WindowOver(e, p), ~CreateExpert(e, p)
    PROVE  ExpertInv'
<1>1. UNCHANGED <<runs, cp>> /\ ex[e].pc = "calls"
  BY DEF CallStep, WindowOver, Read, Collect, PatchRead, PatchWrite, FindExpert, ExpertEnded, Turn
<1>2. LogKept
  <2>1. log \in History
    BY DEF TypeInv, TypeOK
  <2> QED BY <2>1 DEF CallStep, WindowOver, Read, Collect, PatchRead, PatchWrite, FindExpert, ExpertEnded,
                  Invoked, LogKept, History
<1>3. RowsKept
  BY <1>1 DEF RowsKept
<1>4. ASSUME ~log'.overlap, NEW d \in Execs, d[1] = Root PROVE Answered(d)'
  <2>1. ~log.overlap
    BY <1>2, <1>4 DEF LogKept
  <2>2. Answered(d) /\ Tooled(e)
    BY <1>4, <2>1 DEF ExpertInv, ToolInv
  <2>3. CASE e[1] # Root
    <3>1. ex'[d] = ex[d]
      BY <1>4, <2>3, CallsOnly DEF Called
    <3> QED BY <1>2, <1>3, <1>4, <2>2, <3>1, KeptAnswers
  <2>4. CASE e[1] = Root
    <3>1. CASE Read(e, p) \/ PatchWrite(e, p)
      <4>1. Batch(e)[p] # "expert"
        BY <1>1, <2>2, <3>1 DEF Read, PatchWrite, Turn, Tooled
      <4>2. ChildrenOf(e, p) = {}
        BY <2>1, <2>4, <4>1, NoExpertsOfOthers
      <4>3. Called(e, p, "done")
        BY <1>1, <3>1, CallBecomes DEF Read, PatchWrite
      <4> QED BY <1>1, <1>2, <1>4, <2>1, <2>4, <4>2, <4>3, CalledAnswers
    <3>2. CASE Collect(e, p)
      <4>1. Called(e, p, "patch")
        BY <1>1, <3>2, CallBecomes DEF Collect
      <4> QED BY <1>1, <1>2, <1>4, <2>1, <2>4, <4>1, CalledAnswers
    <3>3. CASE PatchRead(e, p)
      BY <1>1, <1>2, <1>4, <2>1, <2>4, <3>3, CallCopies, CalledAnswers
    <3>4. CASE FindExpert(e, p)
      <4>1. CASE ChildrenOf(e, p) = {} /\ Become(e, p, "create")
        <5>1. Called(e, p, "create")
          BY <1>1, <4>1, CallBecomes
        <5> QED BY <1>1, <1>2, <1>4, <2>1, <2>4, <4>1, <5>1, CalledAnswers
      <4>2. ASSUME NEW r \in ChildrenOf(e, p),
                   ex' = [ex EXCEPT ![e].calls[p].st = "wait", ![e].calls[p].child = r]
            PROVE  Answered(d)'
        <5>1. Called(e, p, "wait") /\ ex'[e].calls[p].child = r
          BY <1>1, <4>2, CallWaits
        <5> QED BY <1>1, <1>2, <1>4, <2>1, <2>4, <5>1, CalledAnswers
      <4> QED BY <3>4, <4>1, <4>2 DEF FindExpert
    <3>5. CASE ExpertEnded(e, p)
      <4>1. Called(e, p, "done")
        BY <1>1, <3>5, CallBecomes DEF ExpertEnded
      <4>2. PICK c : c = ex[e].calls[p].child
        OBVIOUS
      <4>3. c \in ChildrenOf(e, p) /\ runs[c].status \in Terminal
        BY <1>1, <2>1, <2>4, <3>5, <4>2 DEF ExpertEnded, Turn, ExpertInv, Answered
      <4>4. \A r \in ChildrenOf(e, p) : r \in Experts /\ runs[r].key = KeyOf(e, p)
        BY DEF ChildrenOf, Experts
      <4>5. \A r \in ChildrenOf(e, p) : r = c
        BY <2>1, <4>3, <4>4 DEF ExpertInv
      <4> QED BY <1>1, <1>2, <1>4, <2>1, <2>4, <4>1, <4>3, <4>5, CalledAnswers
    <3>6. CASE WindowOver(e, p)
      <4>1. Called(e, p, "done")
        BY <1>1, <3>6, CallBecomes DEF WindowOver
      <4>2. log'.timeout
        BY <3>6 DEF WindowOver, TypeInv, TypeOK, History
      <4> QED BY <1>1, <1>2, <1>4, <2>1, <2>4, <4>1, <4>2, CalledAnswers
    <3> QED BY <3>1, <3>2, <3>3, <3>4, <3>5, <3>6 DEF CallStep
  <2> QED BY <2>3, <2>4
<1> QED BY <1>1, <1>2, <1>3, <1>4, ExpertsKept

LEMMA CreateExpertInv ==
    ASSUME TypeInv, ToolInv, SoleInv, ExpertInv, NEW e \in Execs,
           NEW p \in DOMAIN ex[e].calls, CreateExpert(e, p)
    PROVE  ExpertInv'
<1>1. PICK r \in Runs :
          /\ runs[r].status = "unborn"
          /\ runs' = [runs EXCEPT ![r].key = KeyOf(e, p), ![r].status = "pending"]
          /\ ex' = [ex EXCEPT ![e].calls[p].st = "wait", ![e].calls[p].child = r]
  BY DEF CreateExpert
<1>2. /\ ex[e].pc = "calls" /\ ex[e].calls[p].st = "create"
      /\ UNCHANGED <<plan, cp, log>>
  BY DEF CreateExpert, Turn
<1>3. DOMAIN ex[e].calls = DOMAIN Batch(e) /\ Batch(e)[p] = "expert"
  BY <1>2 DEF ToolInv, Tooled
<1>4. /\ ex[e].at \in Checkpoint /\ ex[e].at.node \in 1 .. Len(PlanOf(e[1])) /\ p \in Nat
      /\ ex[e].at.node \in Nat
  BY <1>2, ExecTyped, ThisCall DEF ExecFits, Checkpoint
<1>5. e[1] = Root
  <2> SUFFICES ASSUME e[1] # Root PROVE FALSE
    OBVIOUS
  <2>1. Batch(e) = ExpertPlan[ex[e].at.node] /\ ex[e].at.node \in 1 .. Len(ExpertPlan)
    BY <1>4 DEF Batch, PlanOf
  <2>2. Batch(e) \in Seq({"read"})
    BY <2>1, RunTreeAssumption
  <2> QED BY <1>3, <2>2
<1>6. Called(e, p, "wait") /\ ex'[e].calls[p].child = r
  BY <1>1, <1>2, CallWaits
<1>7. r # Root /\ runs \in [Runs -> Row]
  BY <1>1 DEF ExpertInv, TypeInv, TypeOK
<1>8. /\ runs'[r].key = KeyOf(e, p) /\ runs'[r].status = "pending"
      /\ \A q \in Runs : q # r => runs'[q] = runs[q]
  BY <1>1, <1>7 DEF Row
<1>9. Experts' = Experts \cup {r} /\ r \notin Experts
  BY <1>1, <1>7, <1>8 DEF Experts
<1>10. /\ runs'[Root].status # "unborn"
       /\ \A q \in Runs \ {Root} : runs'[q].status = "unborn" => runs'[q].key = NoKey
       /\ cp'[Root].stage = "tools" => cp'[Root].by > 0
  BY <1>2, <1>7, <1>8, RootIsRun DEF ExpertInv
<1>11. ASSUME ~log.overlap
       PROVE  /\ \A q, s \in Experts' : runs'[q].key = runs'[s].key => q = s
              /\ \A q \in Experts' : Dispatched(q)'
              /\ \A d \in Execs : d[1] = Root => Answered(d)'
  <2>1. /\ \A q, s \in Experts : runs[q].key = runs[s].key => q = s
        /\ \A q \in Experts : Dispatched(q)
        /\ Answered(e)
    BY <1>5, <1>11 DEF ExpertInv
  <2>2. ex[e].at = cp[Root] /\ ex[e].at.stage = "tools" /\ ex[e].at.by > 0
    BY <1>2, <1>5, <1>11 DEF SoleInv, Staged, Started, ExpertInv
  <2>3. ChildrenOf(e, p) = {}
    BY <1>2, <2>1 DEF Answered
  <2>4. \A q \in Experts : q \in Runs /\ q # r /\ runs'[q] = runs[q] /\ runs[q].key # KeyOf(e, p)
    BY <1>8, <1>9, <2>3 DEF Experts, ChildrenOf
  <2>5. \A q, s \in Experts' : runs'[q].key = runs'[s].key => q = s
    BY <1>8, <1>9, <2>1, <2>4
  <2>6. \A q \in Experts : Dispatched(q)'
    BY <1>2, <2>1, <2>4 DEF Dispatched
  <2>7. Dispatched(r)'
    <3>1. plan \in Seq(Seq(Tools)) /\ Len(plan) \in Nat
      BY RunTreeAssumption DEF TypeInv, TypeOK, Batches
    <3>2. Batch(e) = plan[ex[e].at.node] /\ ex[e].at.node \in DOMAIN plan
      BY <1>4, <1>5, <3>1 DEF Batch, PlanOf
    <3>3. runs'[r].key.by = ex[e].at.by /\ runs'[r].key.node = ex[e].at.node /\ runs'[r].key.pos = p
      BY <1>8 DEF KeyOf
    <3>4. ~(ex[e].at.node < ex[e].at.node) /\ ex[e].at.node <= ex[e].at.node
      BY <1>4
    <3> QED BY <1>2, <1>3, <2>2, <3>2, <3>3, <3>4 DEF Dispatched
  <2>8. ASSUME NEW d \in Execs, d[1] = Root PROVE Answered(d)'
    <3>1. CASE d # e
      <4>1. ex[d].pc = "over" /\ ex'[d] = ex[d]
        BY <1>2, <1>5, <1>6, <1>11, <2>8, <3>1 DEF SoleInv, Sole, Live, Called
      <4> QED BY <4>1 DEF Answered
    <3>2. CASE d = e
      <4>1. \A q \in Nat : q # p => ChildrenOf(e, q)' = ChildrenOf(e, q)
        <5> TAKE q \in Nat
        <5> HAVE q # p
        <5>1. KeyOf(e, q)' = KeyOf(e, q) /\ KeyOf(e, q) # KeyOf(e, p)
          BY <1>6 DEF KeyOf, Called
        <5> QED BY <1>1, <1>8, <5>1 DEF ChildrenOf
      <4>2. r \in ChildrenOf(e, p)'
        <5>1. KeyOf(e, p)' = KeyOf(e, p)
          BY <1>6 DEF KeyOf, Called
        <5> QED BY <1>7, <1>8, <5>1 DEF ChildrenOf
      <4>3. \A q \in DOMAIN ex[e].calls : q # p =>
                /\ q \in Nat /\ ex'[e].calls[q] = ex[e].calls[q]
                /\ ChildrenOf(e, q)' = ChildrenOf(e, q)
                /\ \A s \in ChildrenOf(e, q) : runs'[s] = runs[s]
        <5>1. \A q \in DOMAIN ex[e].calls : q \in Nat
          BY ExecTyped
        <5>2. \A q : r \notin ChildrenOf(e, q) /\ \A s \in ChildrenOf(e, q) : s \in Runs
          BY <1>1 DEF ChildrenOf
        <5> QED BY <1>6, <1>8, <4>1, <5>1, <5>2 DEF Called
      <4>4. ASSUME NEW q \in DOMAIN ex[e].calls
            PROVE  /\ ex'[e].calls[q].st = "create" => ChildrenOf(e, q)' = {}
                   /\ ex'[e].calls[q].st = "wait" => ex'[e].calls[q].child \in ChildrenOf(e, q)'
                   /\ ex'[e].calls[q].st = "done" /\ ~log'.timeout /\ ~log'.missed =>
                          \A s \in ChildrenOf(e, q)' : runs'[s].status \in Terminal
        <5>1. CASE q = p
          BY <1>6, <4>2, <5>1 DEF Called
        <5>2. CASE q # p
          BY <1>2, <2>1, <4>3, <5>2 DEF Answered
        <5> QED BY <5>1, <5>2
      <4>5. DOMAIN ex'[e].calls = DOMAIN ex[e].calls
        BY <1>6 DEF Called
      <4> QED BY <3>2, <4>4, <4>5 DEF Answered
    <3> QED BY <3>1, <3>2
  <2> QED BY <1>9, <2>5, <2>6, <2>7, <2>8
<1> QED BY <1>2, <1>10, <1>11 DEF ExpertInv

-----------------------------------------------------------------------------

\* An execution is one of a run there is.
BornInv == \A e \in Execs : Live(e) => runs[e[1]].status # "unborn"

LEMMA NextBornInv == TypeInv /\ TypeInv' /\ BornInv /\ [Next]_vars => BornInv'
<1> SUFFICES ASSUME TypeInv, TypeInv', BornInv, [Next]_vars PROVE BornInv'
  OBVIOUS
<1>1. runs \in [Runs -> Row] /\ ex \in [Execs -> Execution]
  BY DEF TypeInv, TypeOK
<1>2. ASSUME NEW r \in Runs PROVE runs[r].status # "unborn" => runs'[r].status # "unborn"
  <2>1. ASSUME NEW e \in Execs, NEW p \in DOMAIN ex[e].calls, CallStep(e, p) \/ WindowOver(e, p)
        PROVE  runs[r].status # "unborn" => runs'[r].status # "unborn"
    <3>1. CASE CreateExpert(e, p)
      <4>1. PICK q \in Runs : runs' = [runs EXCEPT ![q].key = KeyOf(e, p), ![q].status = "pending"]
        BY <3>1 DEF CreateExpert
      <4> QED BY <1>1, <4>1 DEF Row
    <3>2. CASE runs' = runs
      BY <3>2
    <3> QED BY <2>1, <3>1, <3>2 DEF CallStep, WindowOver, Read, Collect, PatchRead, PatchWrite,
                                    FindExpert, ExpertEnded
  <2>2. ASSUME NEW e \in Execs, ReserveCalls(e) PROVE runs' = runs
    BY <2>2 DEF ReserveCalls
  <2>3. CASE Plain
    <3>1. ASSUME NEW q \in Runs, Claim(q) \/ LeaseExpires(q) \/ Cancel(q)
          PROVE  runs[r].status # "unborn" => runs'[r].status # "unborn"
      <4>1. CASE Claim(q)
        BY <1>1, <4>1 DEF Claim, Row
      <4>2. CASE LeaseExpires(q)
        BY <1>1, <4>2 DEF LeaseExpires, Row
      <4>3. CASE Cancel(q)
        BY <1>1, <4>3 DEF Cancel, Row
      <4> QED BY <3>1, <4>1, <4>2, <4>3
    <3>2. ASSUME NEW e \in Execs, Complete(e) \/ Raise(e) \/ CancelledEnds(e) \/ StartRun(e)
          PROVE  runs[r].status # "unborn" => runs'[r].status # "unborn"
      BY <1>1, <3>2 DEF Complete, Raise, CancelledEnds, StartRun, EndAs, Row
    <3> QED BY <2>3, <3>1, <3>2 DEF Plain, Steer, ListSteerings, MarkSteerings, FoldSteerings,
                                    ModelStep, EndBatch, Deliver, Crash
  <2> QED BY <2>1, <2>2, <2>3, NextCases DEF vars
<1>3. CASE \A d \in Execs : ex'[d].pc # "over" => Live(d)
  BY <1>2, <1>3, ExecIndex DEF BornInv, Live
<1>4. ASSUME NEW r \in Runs, Claim(r) PROVE BornInv'
  <2>1. runs[r].status # "unborn"
    BY <1>4 DEF Claim
  <2>2. \A d \in Execs : d[1] # r => ex'[d] = ex[d]
    BY <1>4, ClaimEffect
  <2> QED BY <1>2, <2>1, <2>2, ExecIndex DEF BornInv, Live
<1>5. ASSUME NEW e \in Execs, NEW p \in DOMAIN ex[e].calls, CallStep(e, p) \/ WindowOver(e, p)
      PROVE  \A d \in Execs : ex'[d].pc # "over" => Live(d)
  BY <1>5, CallsOnly DEF Called, Live
<1>6. ASSUME NEW e \in Execs, ReserveCalls(e) PROVE \A d \in Execs : ex'[d].pc # "over" => Live(d)
  BY <1>6, Reserved DEF Live
<1>7. ASSUME NEW e \in Execs, NEW c, Save(e, c), Live(e)
      PROVE  \A d \in Execs : ex'[d].pc # "over" => Live(d)
  BY <1>7, Saved DEF Live
<1>8. ASSUME NEW e \in Execs, NEW x, Moved(e, x) PROVE \A d \in Execs : ex'[d].pc # "over" => Live(d)
  BY <1>1, <1>8 DEF Moved, Live
<1>9. CASE Plain
  <2>1. CASE Stopped
    BY <1>3, <2>1 DEF Stopped, Over, Live
  <2> QED BY <1>3, <1>4, <1>7, <1>8, <1>9, <2>1, PlainShapes
<1>10. CASE UNCHANGED vars
  BY <1>3, <1>10 DEF vars, Live
<1> QED BY <1>3, <1>5, <1>6, <1>9, <1>10, NextCases

\* While every cancellation reaches the execution there is, no execution of a
\* run that has ended spends.
QuitInv == ~log.overlap /\ ~log.missed =>
               \A e \in Execs : Spends(e) => runs[e[1]].status \notin Terminal

\* The steps that make no call.
LEMMA PlainLog == ASSUME TypeInv, Plain PROVE LogKept
<1>1. log \in History
  BY DEF TypeInv, TypeOK
<1>2. ASSUME NEW r \in Runs, Claim(r) PROVE LogKept
  BY <1>1, <1>2 DEF Claim, LogKept, History
<1>3. ASSUME NEW e \in Execs, Deliver(e) PROVE LogKept
  BY <1>1, <1>3 DEF Deliver, LogKept, History
<1>4. CASE log' = log
  BY <1>4 DEF LogKept
<1>5. ASSUME NEW r \in Runs, Cancel(r) PROVE LogKept
  <2>1. PICK m \in BOOLEAN : log' = [log EXCEPT !.failures = @ + 1, !.missed = @ \/ m]
    BY <1>5, CancelEffect
  <2> QED BY <1>1, <2>1 DEF LogKept, History
<1>6. ASSUME NEW e \in Execs, Raise(e) PROVE LogKept
  BY <1>1, <1>6 DEF Raise, LogKept, History
<1>7. CASE Steer \/ \E r \in Runs : LeaseExpires(r)
  BY <1>4, <1>7 DEF Steer, LeaseExpires
<1>8. ASSUME NEW e \in Execs,
             \/ ListSteerings(e) \/ MarkSteerings(e) \/ FoldSteerings(e) \/ ModelStep(e)
             \/ EndBatch(e) \/ Complete(e) \/ Crash(e) \/ StartRun(e) \/ CancelledEnds(e)
      PROVE  LogKept
  BY <1>4, <1>8 DEF ListSteerings, MarkSteerings, FoldSteerings, ModelStep, EndBatch, Complete, Crash,
                    StartRun, CancelledEnds
<1> QED BY <1>2, <1>3, <1>5, <1>6, <1>7, <1>8 DEF Plain

LEMMA PlainRows == ASSUME TypeInv, BornInv, QuitInv, Plain PROVE RowsKept /\ LogKept
<1>1. runs \in [Runs -> Row]
  BY DEF TypeInv, TypeOK
<1>2. LogKept
  BY PlainLog
<1>3. ASSUME runs' = runs PROVE RowsKept
  BY <1>3 DEF RowsKept
<1>4. ASSUME NEW r \in Runs, Claim(r) PROVE RowsKept
  <2>1. \A q \in Runs : runs'[q].key = runs[q].key /\ runs'[q].status = runs[q].status
    BY <1>1, <1>4 DEF Claim, Row
  <2> QED BY <2>1 DEF RowsKept
<1>5. ASSUME NEW r \in Runs, LeaseExpires(r) PROVE RowsKept
  <2>1. \A q \in Runs : runs'[q].key = runs[q].key /\ runs'[q].status = runs[q].status
    BY <1>1, <1>5 DEF LeaseExpires, Row
  <2> QED BY <2>1 DEF RowsKept
<1>6. ASSUME NEW r \in Runs, Cancel(r) PROVE RowsKept
  <2>1. runs' = [runs EXCEPT ![r].status = "cancelled"] /\ runs[r].status # "unborn"
    BY <1>6 DEF Cancel
  <2> QED BY <1>1, <2>1 DEF RowsKept, Row, Terminal
<1>7. ASSUME NEW e \in Execs, Complete(e) \/ Raise(e) \/ CancelledEnds(e) PROVE RowsKept
  <2>1. e[1] \in Runs /\ runs[e[1]].status # "unborn"
    BY <1>7, ExecIndex DEF Complete, Raise, CancelledEnds, Spends, Live, BornInv
  <2>2. PICK st \in Terminal : runs' = [runs EXCEPT ![e[1]].status = st]
    BY <1>7 DEF Complete, Raise, CancelledEnds, EndAs, Terminal
  <2>3. runs'[e[1]].status = st /\ runs'[e[1]].key = runs[e[1]].key
        /\ \A q \in Runs : q # e[1] => runs'[q] = runs[q]
    BY <1>1, <2>1, <2>2 DEF Row
  <2>4. st # "unborn"
    BY DEF Terminal
  <2> QED BY <2>1, <2>3, <2>4 DEF RowsKept
<1>8. ASSUME NEW e \in Execs, StartRun(e) PROVE RowsKept
  <2>1. e[1] \in Runs /\ runs[e[1]].status # "unborn" /\ Spends(e) /\ log' = log
    BY <1>8, ExecIndex DEF StartRun, Spends, Live, BornInv
  <2>2. runs' = [runs EXCEPT ![e[1]].status = "running"]
    BY <1>8 DEF StartRun
  <2>3. runs'[e[1]].status = "running" /\ runs'[e[1]].key = runs[e[1]].key
        /\ \A q \in Runs : q # e[1] => runs'[q] = runs[q]
    BY <1>1, <2>1, <2>2 DEF Row
  <2>4. ~log'.overlap /\ ~log'.missed => runs[e[1]].status \notin Terminal
    BY <2>1 DEF QuitInv
  <2> QED BY <2>1, <2>3, <2>4 DEF RowsKept
<1> QED BY <1>2, <1>3, <1>4, <1>5, <1>6, <1>7, <1>8
        DEF Plain, Steer, ListSteerings, MarkSteerings, FoldSteerings, ModelStep, EndBatch, Deliver, Crash

LEMMA PlainExpertInv ==
    ASSUME TypeInv, TypeInv', ToolInv, SoleInv, BornInv, QuitInv, ExpertInv, plan' = plan, Plain
    PROVE  ExpertInv'
<1>1. CASE cp'[Root] = cp[Root]
  <2>1. RowsKept /\ LogKept
    BY PlainRows
  <2>2. ~log'.overlap => \A e \in Execs : e[1] = Root => Answered(e)'
    BY <2>1, PlainMakesNoCalls, KeptAnswers DEF ExpertInv, LogKept
  <2> QED BY <1>1, <2>1, <2>2, ExpertsKept
<1>2. ASSUME NEW e \in Execs, FoldSteerings(e) \/ ModelStep(e) \/ ListSteerings(e) \/ EndBatch(e)
      PROVE  cp'[Root] = cp[Root] \/ ExpertInv'
  <2>1. CASE e[1] = Root
    BY <1>2, <2>1, NodesExpertInv, EndBatchExpertInv
  <2>2. CASE e[1] # Root
    <3>1. cp' = cp \/ \E c : Save(e, c)
      BY <1>2, Zenon DEF FoldSteerings, ModelStep, ListSteerings, EndBatch
    <3> QED BY <2>2, <3>1, Saved, RootIsRun
  <2> QED BY <2>1, <2>2
<1>3. CASE cp' = cp
  BY <1>1, <1>3
<1> QED BY <1>1, <1>2, <1>3
        DEF Plain, Steer, Claim, LeaseExpires, Cancel, MarkSteerings, Deliver, Complete, Raise, Crash,
            StartRun, CancelledEnds, EndAs

LEMMA NextExpertInv ==
    TypeInv /\ TypeInv' /\ ToolInv /\ SoleInv /\ BornInv /\ QuitInv /\ ExpertInv /\ [Next]_vars
        => ExpertInv'
<1> SUFFICES ASSUME TypeInv, TypeInv', ToolInv, SoleInv, BornInv, QuitInv, ExpertInv, [Next]_vars
             PROVE  ExpertInv'
  OBVIOUS
<1>1. plan' = plan
  BY PlanStays
<1>2. ASSUME NEW e \in Execs, ReserveCalls(e) PROVE ExpertInv'
  <2>1. RowsKept /\ LogKept /\ cp' = cp
    BY <1>2 DEF ReserveCalls, RowsKept, LogKept
  <2>2. ASSUME ~log'.overlap, NEW d \in Execs, d[1] = Root PROVE Answered(d)'
    <3>1. Answered(d)
      BY <2>1, <2>2 DEF ExpertInv, LogKept
    <3>2. CASE d = e
      BY <1>2, <3>2, Reserved DEF Answered
    <3>3. CASE d # e
      BY <1>2, <2>1, <2>2, <3>1, <3>3, Reserved, KeptAnswers
    <3> QED BY <3>2, <3>3
  <2> QED BY <1>1, <2>1, <2>2, ExpertsKept
<1>3. CASE UNCHANGED vars
  <2>1. RowsKept /\ LogKept /\ cp' = cp /\ ex' = ex
    BY <1>3 DEF RowsKept, LogKept, vars
  <2>2. ~log'.overlap => \A e \in Execs : e[1] = Root => Answered(e)'
    BY <2>1, KeptAnswers DEF ExpertInv, LogKept
  <2> QED BY <1>1, <2>1, <2>2, ExpertsKept
<1> QED BY <1>1, <1>2, <1>3, NextCases, PlainExpertInv, CallsExpertInv, CreateExpertInv

\* The executions that spend after a step.
Quits == \A d \in Execs : Spends(d)' => Spends(d) \/ runs'[d[1]].status \notin Terminal

LEMMA QuitKept ==
    ASSUME QuitInv, LogKept, Quits,
           \A r \in Runs : runs'[r].status \in Terminal => runs[r].status \in Terminal
    PROVE  QuitInv'
BY ExecIndex DEF QuitInv, LogKept, Quits

\* A run ends with the one execution there is.
LEMMA QuitEnded ==
    ASSUME QuitInv, LogKept, NEW r \in Runs,
           ~log'.overlap /\ ~log'.missed => \A d \in Execs : d[1] = r => ~Spends(d)',
           \A d \in Execs : Spends(d)' => Spends(d),
           \A q \in Runs : q # r => runs'[q] = runs[q]
    PROVE  QuitInv'
BY ExecIndex DEF QuitInv, LogKept

LEMMA NextQuitInv ==
    TypeInv /\ TypeInv' /\ SoleInv /\ QuitInv /\ [Next]_vars => QuitInv'
<1> SUFFICES ASSUME TypeInv, TypeInv', SoleInv, QuitInv, [Next]_vars PROVE QuitInv'
  OBVIOUS
<1>1. runs \in [Runs -> Row] /\ ex \in [Execs -> Execution] /\ log \in History
  BY DEF TypeInv, TypeOK
<1>2. Over.pc = "over" /\ Claimed.pc = "claimed" /\ Ending.pc = "ending"
  BY DEF Over, Claimed, Ending
<1>3. ASSUME NEW r \in Runs, Claim(r) PROVE QuitInv'
  <2>1. PICK e \in Execs : /\ e[1] = r /\ ex'[e].pc = "claimed"
                           /\ (\A d \in Execs : d # e => ex'[d] = ex[d])
    BY <1>3, ClaimEffect
  <2>2. \A q \in Runs : runs'[q].status = runs[q].status
    BY <1>1, <1>3 DEF Claim, Row
  <2>3. runs[r].status \notin Terminal
    BY <1>3 DEF Claim, Terminal
  <2>4. Quits
    BY <2>1, <2>2, <2>3 DEF Quits, Spends
  <2> QED BY <1>3, <2>2, <2>4, PlainLog, QuitKept DEF Plain
<1>4. ASSUME NEW r \in Runs, Cancel(r) PROVE QuitInv'
  <2>1. PICK m \in BOOLEAN :
            /\ log' = [log EXCEPT !.failures = @ + 1, !.missed = @ \/ m]
            /\ m \/ \A e \in Execs : e[1] = r => ~Spends(e) \/ ex' = [ex EXCEPT ![e] = Ending]
    BY <1>4, CancelEffect
  <2>2. \A d \in Execs : Spends(d)' => Spends(d) /\ ex'[d] = ex[d]
    BY <1>1, <1>2, <1>4, CancelEffect DEF Spends
  <2>3. ~log'.missed => ~m
    BY <1>1, <2>1 DEF History
  <2>4. ~log'.missed => \A d \in Execs : d[1] = r => ~Spends(d)'
    BY <1>1, <1>2, <2>1, <2>2, <2>3 DEF Spends
  <2>5. \A q \in Runs : q # r => runs'[q] = runs[q]
    BY <1>1, <1>4 DEF Cancel
  <2> QED BY <1>4, <2>2, <2>4, <2>5, PlainLog, QuitEnded DEF Plain
<1>5. ASSUME NEW e \in Execs, Complete(e) \/ Raise(e) \/ CancelledEnds(e) PROVE QuitInv'
  <2>1. ex' = [ex EXCEPT ![e] = Over] /\ Live(e) /\ e[1] \in Runs
        /\ \A q \in Runs : q # e[1] => runs'[q] = runs[q]
    BY <1>1, <1>5, ExecIndex DEF Complete, Raise, CancelledEnds, EndAs, Live, Spends
  <2>2. LogKept
    BY <1>5, PlainLog DEF Plain
  <2>3. \A d \in Execs : Spends(d)' => Spends(d) /\ d # e
    BY <1>1, <1>2, <2>1 DEF Spends
  <2>4. ~log'.overlap => \A d \in Execs : d[1] = e[1] => ~Spends(d)'
    BY <2>1, <2>2, <2>3 DEF SoleInv, Sole, LogKept, Live, Spends
  <2> QED BY <2>1, <2>2, <2>3, <2>4, QuitEnded
<1>6. ASSUME NEW e \in Execs, StartRun(e) PROVE QuitInv'
  <2>1. \A d \in Execs : Spends(d)' => Spends(d)
    BY <1>1, <1>6 DEF StartRun, Spends
  <2>2. \A q \in Runs : runs'[q].status \in Terminal => runs[q].status \in Terminal
    <3>1. e[1] \in Runs /\ \A q \in Runs : runs'[q] = runs[q] \/ runs'[q].status = "running"
      BY <1>1, <1>6, ExecIndex DEF StartRun, Row
    <3> QED BY <3>1 DEF Terminal
  <2>3. Quits
    BY <2>1 DEF Quits
  <2> QED BY <1>6, <2>2, <2>3, PlainLog, QuitKept DEF Plain
<1>7. ASSUME NEW e \in Execs, NEW p \in DOMAIN ex[e].calls, CallStep(e, p) \/ WindowOver(e, p)
      PROVE  QuitInv'
  <2>1. PICK st : Called(e, p, st)
    BY <1>7, CallsOnly
  <2>2. Quits
    BY <2>1 DEF Quits, Called, Spends
  <2>3. LogKept
    BY <1>1, <1>7 DEF CallStep, WindowOver, Read, Collect, PatchRead, PatchWrite, FindExpert, CreateExpert,
                      ExpertEnded, Invoked, LogKept, History
  <2>4. \A r \in Runs : runs'[r].status \in Terminal => runs[r].status \in Terminal
    <3>1. CASE CreateExpert(e, p)
      <4>1. PICK q \in Runs : runs' = [runs EXCEPT ![q].key = KeyOf(e, p), ![q].status = "pending"]
        BY <3>1 DEF CreateExpert
      <4>2. \A r \in Runs : runs'[r] = runs[r] \/ runs'[r].status = "pending"
        BY <1>1, <4>1 DEF Row
      <4> QED BY <4>2 DEF Terminal
    <3>2. CASE runs' = runs
      BY <3>2
    <3> QED BY <1>7, <3>1, <3>2 DEF CallStep, WindowOver, Read, Collect, PatchRead, PatchWrite,
                                    FindExpert, ExpertEnded
  <2> QED BY <2>2, <2>3, <2>4, QuitKept
<1>8. ASSUME NEW e \in Execs, ReserveCalls(e) PROVE QuitInv'
  <2>1. runs' = runs /\ log' = log
    BY <1>8 DEF ReserveCalls
  <2>2. Quits
    BY <1>8, Reserved DEF Quits, Spends
  <2> QED BY <2>1, <2>2, QuitKept DEF LogKept
<1>9. ASSUME \A r \in Runs : runs'[r].status = runs[r].status, \A d \in Execs : Spends(d)' => Spends(d),
             LogKept
      PROVE  QuitInv'
  BY <1>9, QuitKept DEF Quits
<1>10. CASE UNCHANGED vars
  BY <1>9, <1>10 DEF vars, Spends, LogKept
<1>11. CASE Steer \/ \E r \in Runs : LeaseExpires(r)
  <2>1. \A r \in Runs : runs'[r].status = runs[r].status
    <3>1. ASSUME NEW q \in Runs, LeaseExpires(q) PROVE \A r \in Runs : runs'[r].status = runs[r].status
      BY <1>1, <3>1 DEF LeaseExpires, Row
    <3> QED BY <1>11, <3>1 DEF Steer
  <2>2. ex' = ex
    BY <1>11 DEF Steer, LeaseExpires
  <2> QED BY <1>9, <1>11, <2>1, <2>2, PlainLog DEF Plain, Spends
<1>12. ASSUME NEW e \in Execs,
              \/ ListSteerings(e) \/ MarkSteerings(e) \/ FoldSteerings(e) \/ ModelStep(e)
              \/ EndBatch(e) \/ Deliver(e) \/ Crash(e)
       PROVE  QuitInv'
  <2>1. runs' = runs /\ Plain
    BY <1>12 DEF ListSteerings, MarkSteerings, FoldSteerings, ModelStep, EndBatch, Deliver, Crash, Plain
  <2>2. ex[e].pc \notin {"over", "ending"} \/ Crash(e)
    BY <1>12 DEF ListSteerings, MarkSteerings, FoldSteerings, ModelStep, EndBatch, Deliver
  <2>3. Crash(e) => ex' = [ex EXCEPT ![e] = Over]
    BY DEF Crash
  <2>4. \A d \in Execs : d # e => ex'[d] = ex[d]
    BY <1>1, <1>12 DEF ListSteerings, MarkSteerings, FoldSteerings, ModelStep, EndBatch, Deliver, Crash, Save
  <2>5. \A d \in Execs : Spends(d)' => Spends(d)
    BY <1>1, <1>2, <2>2, <2>3, <2>4 DEF Spends
  <2> QED BY <1>9, <2>1, <2>5, PlainLog
<1> QED BY <1>3, <1>4, <1>5, <1>6, <1>7, <1>8, <1>10, <1>11, <1>12, NextCases DEF Plain

LEMMA ExpertsAnswered == TypeInv /\ ExpertInv /\ BornInv /\ QuitInv => OneExpertPerCall
<1> SUFFICES ASSUME TypeInv, ExpertInv, BornInv, QuitInv, ~log.overlap PROVE OneExpertPerCall
  BY DEF OneExpertPerCall
<1>1. /\ \A q, r \in Experts : runs[q].key = runs[r].key => q = r
      /\ \A r \in Experts : Dispatched(r)
      /\ \A r \in Runs \ {Root} : runs[r].status = "unborn" => runs[r].key = NoKey
  BY DEF ExpertInv
<1>2. ASSUME NEW q \in Runs \ {Root}, NEW r \in Runs \ {Root},
             runs[q].status # "unborn", runs[q].key = runs[r].key
      PROVE  q = r
  <2>1. q \in Experts /\ runs[q].key # NoKey
    BY <1>1, <1>2 DEF Experts, Dispatched, NoKey
  <2>2. r \in Experts
    BY <1>1, <1>2, <2>1 DEF Experts
  <2> QED BY <1>1, <1>2, <2>1, <2>2
<1>3. ASSUME runs[Root].status = "completed", cp[Root].node > Len(plan), ~log.timeout, ~log.missed,
             NEW r \in Runs
      PROVE  runs[r].status \in Terminal \cup {"unborn"}
  <2>1. CASE r = Root
    BY <1>3, <2>1 DEF Terminal
  <2>2. CASE r \in Experts
    <3>1. plan \in Seq(Seq(Tools)) /\ cp[Root].node \in Nat
      BY RunTreeAssumption, RootIsRun DEF TypeInv, TypeOK, Batches, Checkpoint
    <3>2. runs[r].key.node < cp[Root].node
      BY <1>1, <1>3, <2>2, <3>1 DEF Dispatched
    <3> QED BY <1>1, <1>3, <2>2, <3>2 DEF Dispatched
  <2> QED BY <2>1, <2>2 DEF Experts
<1>4. ASSUME ~log.missed, \A r \in Runs : runs[r].status \in Terminal \cup {"unborn"}, NEW e \in Execs
      PROVE  ~Spends(e)
  BY <1>4, ExecIndex DEF QuitInv, BornInv, Spends, Live
<1> QED BY <1>2, <1>3, <1>4 DEF OneExpertPerCall

LEMMA InitQuitInv == Init => QuitInv
BY DEF Init, QuitInv, Spends, Over

LEMMA InitBornInv == Init => BornInv
BY DEF Init, BornInv, Live, Over

\* While no run has two executions at once, a dispatch has one expert, and a
\* coordinator that got through its plan without giving up waiting leaves
\* none that spends or will be claimed, for any plan, any kills, failures and
\* cancellations, as long as a cancellation reaches the execution there is
\* (get_child_run_by_dispatch_key, _wait_for_child, cancel_run).
THEOREM ExpertsAreFoundAgain == Spec => []OneExpertPerCall
BY InitTypeInv, NextTypeInv, InitSoleInv, NextToolInv, NextSoleInv, InitBornInv, NextBornInv,
   InitQuitInv, NextQuitInv, InitExpertInv, NextExpertInv, ExpertsAnswered, PTL DEF Spec
-----------------------------------------------------------------------------
(* Nobody waits for what nobody does.  A run that has not ended can be       *)
(* claimed, or its lease can run out, or an execution of it is there; a      *)
(* coordinator that can do nothing waits for an expert, and an expert waits  *)
(* for nobody.                                                               *)

\* The guards of Claim and LeaseExpires.
CanClaim(r) == runs[r].status \in {"pending", "running"} /\ runs[r].lease # "live" /\ Retriable(r)
CanLapse(r) == runs[r].lease = "live" /\ Retriable(r) /\ ("overrun" \in Faults \/ ~Busy(r))

\* The guards of CallStep and of Work: a row can always be inserted for a new
\* expert (MaxRuns is a bound of the model).
CallCanGo(e, p) ==
    \/ \E st \in {"todo", "create", "patch", "write"} : Turn(e, p, st)
    \/ Turn(e, p, "wait") /\ runs[ex[e].calls[p].child].status \in Terminal

CanWork(e) ==
    \/ ex[e].pc \in {"claimed", "ending", "steer", "mark", "fold", "model", "tools", "finish", "complete"}
    \/ /\ ex[e].pc = "calls"
       /\ \/ \A p \in DOMAIN ex[e].calls : Settled(ex[e].calls[p])
          \/ \E p \in DOMAIN ex[e].calls : CallCanGo(e, p)

\* QuietMeansEnded with the guards written out.
QuietTree ==
    (/\ \A r \in Runs : ~CanClaim(r) /\ ~CanLapse(r)
     /\ \A e \in Execs : ~CanWork(e))
        => \A r \in Runs : runs[r].status \in Terminal \cup {"unborn"}

\* Who is waited for is an expert that was created.
WaitedInv ==
    \A e \in Execs : ex[e].pc = "calls" => \A p \in DOMAIN ex[e].calls :
        ex[e].calls[p].st = "wait" =>
            /\ ex[e].calls[p].child \in Runs \ {Root}
            /\ runs[ex[e].calls[p].child].status # "unborn"

\* The last claim of a run that has not ended is at work.
StaffedInv ==
    \A r \in Runs : /\ runs[r].status = "unborn" => runs[r].claims = 0
                    /\ runs[r].status \in {"pending", "running"} /\ ~Retriable(r) => Busy(r)

LEMMA InitWaits ==
    ASSUME \A r \in Runs : MaxClaims[r] > 0 PROVE Init => WaitedInv /\ StaffedInv
<1> SUFFICES ASSUME Init PROVE WaitedInv /\ StaffedInv
  OBVIOUS
<1>1. \A e \in Execs : ex[e].pc = "over"
  BY DEF Init, Over
<1>2. \A r \in Runs : runs[r].claims = 0
  BY DEF Init
<1>3. \A r \in Runs : MaxClaims[r] \in Nat
  BY RunTreeAssumption DEF Runs
<1> QED BY <1>1, <1>2, <1>3 DEF WaitedInv, StaffedInv, Retriable

LEMMA WaitedKept ==
    ASSUME WaitedInv, \A r \in Runs : runs[r].status # "unborn" => runs'[r].status # "unborn",
           \A d \in Execs : ex'[d].pc = "calls" => ex'[d] = ex[d]
    PROVE  WaitedInv'
BY DEF WaitedInv

LEMMA CalledWaited ==
    ASSUME WaitedInv, \A r \in Runs : runs[r].status # "unborn" => runs'[r].status # "unborn",
           NEW e \in Execs, NEW p \in DOMAIN ex[e].calls, NEW st, Called(e, p, st),
           st = "wait" => /\ ex'[e].calls[p].child \in Runs \ {Root}
                          /\ runs'[ex'[e].calls[p].child].status # "unborn"
    PROVE  WaitedInv'
<1> SUFFICES ASSUME NEW d \in Execs, ex'[d].pc = "calls", NEW q \in DOMAIN ex'[d].calls,
                    ex'[d].calls[q].st = "wait"
             PROVE  /\ ex'[d].calls[q].child \in Runs \ {Root}
                    /\ runs'[ex'[d].calls[q].child].status # "unborn"
  BY DEF WaitedInv
<1>1. CASE d # e
  BY <1>1 DEF Called, WaitedInv
<1>2. CASE d = e /\ q # p
  BY <1>2 DEF Called, WaitedInv
<1>3. CASE d = e /\ q = p
  BY <1>3 DEF Called
<1> QED BY <1>1, <1>2, <1>3

LEMMA NextWaited ==
    TypeInv /\ TypeInv' /\ BornInv /\ QuitInv /\ ExpertInv /\ WaitedInv /\ [Next]_vars => WaitedInv'
<1> SUFFICES ASSUME TypeInv, TypeInv', BornInv, QuitInv, ExpertInv, WaitedInv, [Next]_vars PROVE WaitedInv'
  OBVIOUS
<1>1. runs \in [Runs -> Row]
  BY DEF TypeInv, TypeOK
<1>2. CASE Plain
  BY <1>2, PlainRows, PlainMakesNoCalls, WaitedKept DEF RowsKept
<1>3. CASE UNCHANGED vars
  BY <1>3, WaitedKept DEF vars
<1>4. ASSUME NEW e \in Execs, ReserveCalls(e) PROVE WaitedInv'
  <2>1. runs' = runs
    BY <1>4 DEF ReserveCalls
  <2>2. \A p \in DOMAIN ex'[e].calls : ex'[e].calls[p].st # "wait"
    BY <1>4, Reserved
  <2>3. \A d \in Execs : d # e => ex'[d] = ex[d]
    BY <1>4, Reserved
  <2> QED BY <2>1, <2>2, <2>3 DEF WaitedInv
<1>5. ASSUME NEW e \in Execs, NEW p \in DOMAIN ex[e].calls, CallStep(e, p) \/ WindowOver(e, p)
      PROVE  WaitedInv'
  <2>1. ex[e].pc = "calls"
    BY <1>5 DEF CallStep, WindowOver, Read, Collect, PatchRead, PatchWrite, FindExpert, CreateExpert,
                ExpertEnded, Turn
  <2>2. ASSUME NEW st \in {"done", "patch", "create"}, Become(e, p, st), runs' = runs PROVE WaitedInv'
    BY <2>1, <2>2, CallBecomes, CalledWaited
  <2>3. CASE PatchRead(e, p)
    <3>1. runs' = runs
      BY <2>3 DEF PatchRead
    <3> QED BY <2>3, <3>1, CallCopies, CalledWaited
  <2>4. CASE FindExpert(e, p)
    <3>1. runs' = runs
      BY <2>4 DEF FindExpert
    <3>2. ASSUME NEW r \in ChildrenOf(e, p),
                 ex' = [ex EXCEPT ![e].calls[p].st = "wait", ![e].calls[p].child = r]
          PROVE  WaitedInv'
      <4>1. r \in Runs \ {Root} /\ runs[r].status # "unborn"
        BY DEF ChildrenOf
      <4>2. Called(e, p, "wait") /\ ex'[e].calls[p].child = r
        BY <2>1, <3>2, CallWaits
      <4> QED BY <3>1, <4>1, <4>2, CalledWaited
    <3> QED BY <2>2, <2>4, <3>1, <3>2 DEF FindExpert
  <2>5. CASE CreateExpert(e, p)
    <3>1. PICK r \in Runs :
              /\ runs[r].status = "unborn"
              /\ runs' = [runs EXCEPT ![r].key = KeyOf(e, p), ![r].status = "pending"]
              /\ ex' = [ex EXCEPT ![e].calls[p].st = "wait", ![e].calls[p].child = r]
      BY <2>5 DEF CreateExpert
    <3>2. r # Root
      BY <3>1 DEF ExpertInv
    <3>3. runs'[r].status = "pending" /\ \A q \in Runs : q # r => runs'[q] = runs[q]
      BY <1>1, <3>1 DEF Row
    <3>4. Called(e, p, "wait") /\ ex'[e].calls[p].child = r
      <4>1. ex' = [ex EXCEPT ![e].calls[p].st = "wait", ![e].calls[p].child = r]
        BY <3>1
      <4> QED BY <2>1, <4>1, CallWaits
    <3>5. /\ ex'[e].calls[p].child \in Runs \ {Root}
          /\ runs'[ex'[e].calls[p].child].status # "unborn"
      BY <3>2, <3>3, <3>4
    <3>6. \A q \in Runs : runs[q].status # "unborn" => runs'[q].status # "unborn"
      BY <3>3
    <3> QED BY <3>4, <3>5, <3>6, CalledWaited
  <2> QED BY <1>5, <2>2, <2>3, <2>4, <2>5
          DEF CallStep, WindowOver, Read, Collect, PatchWrite, ExpertEnded
<1> QED BY <1>2, <1>3, <1>4, <1>5, NextCases
\* No row changes its status or is claimed, and no execution ends.
LEMMA WorkStaffed ==
    ASSUME StaffedInv, \A d \in Execs : Live(d) => Live(d)',
           \A r \in Runs : runs'[r].status = runs[r].status /\ runs'[r].claims = runs[r].claims
    PROVE  StaffedInv'
BY DEF StaffedInv, Retriable, Busy

\* What happens to one run leaves the others and their executions alone.
LEMMA StaffedKept ==
    ASSUME StaffedInv, NEW r \in Runs, runs'[r].status # "unborn",
           runs'[r].status \in {"pending", "running"} => Retriable(r)' \/ Busy(r)',
           \A q \in Runs : q # r => runs'[q].status = runs[q].status /\ runs'[q].claims = runs[q].claims,
           \A d \in Execs : d[1] # r /\ Live(d) => Live(d)'
    PROVE  StaffedInv'
BY DEF StaffedInv, Retriable, Busy

LEMMA NextStaffed ==
    ASSUME \A r \in Runs : MaxClaims[r] > 0
    PROVE  TypeInv /\ TypeInv' /\ StaffedInv /\ [Next]_vars => StaffedInv'
<1> SUFFICES ASSUME TypeInv, TypeInv', StaffedInv, [Next]_vars PROVE StaffedInv'
  OBVIOUS
<1>1. runs \in [Runs -> Row] /\ ex \in [Execs -> Execution]
  BY DEF TypeInv, TypeOK
<1>2. ASSUME NEW r \in Runs, Claim(r) PROVE StaffedInv'
  <2>1. PICK e \in Execs : /\ e[1] = r /\ ex'[e].pc = "claimed"
                           /\ (\A d \in Execs : d # e => ex'[d] = ex[d])
    BY <1>2, ClaimEffect
  <2>3. Busy(r)' /\ \A d \in Execs : Live(d) => Live(d)'
    BY <2>1 DEF Busy, Live
  <2>4. runs'[r].status # "unborn" /\ \A q \in Runs : q # r => runs'[q] = runs[q]
    BY <1>1, <1>2 DEF Claim, Row
  <2> QED BY <2>3, <2>4, StaffedKept
<1>16. ASSUME NEW e \in Execs, StartRun(e) PROVE StaffedInv'
  <2>1. /\ e[1] \in Runs /\ runs'[e[1]].status = "running"
        /\ \A q \in Runs : q # e[1] => runs'[q] = runs[q]
    BY <1>1, <1>16, ExecIndex DEF StartRun, Row
  <2>2. Start(cp[e[1]]).pc # "over"
    BY <2>1 DEF Start, Over, TypeInv, TypeOK, Checkpoint
  <2>3. Live(e)' /\ \A d \in Execs : d # e => ex'[d] = ex[d]
    BY <1>1, <1>16, <2>2 DEF StartRun, Live
  <2>4. Busy(e[1])' /\ \A d \in Execs : Live(d) => Live(d)'
    BY <2>3 DEF Busy, Live
  <2> QED BY <2>1, <2>4, StaffedKept
<1>3. ASSUME NEW r \in Runs, LeaseExpires(r) PROVE StaffedInv'
  <2>1. \A q \in Runs : runs'[q].status = runs[q].status /\ runs'[q].claims = runs[q].claims
    BY <1>1, <1>3 DEF LeaseExpires, Row
  <2>2. ex' = ex
    BY <1>3 DEF LeaseExpires
  <2> QED BY <2>1, <2>2, WorkStaffed DEF Live
<1>4. ASSUME NEW r \in Runs, Cancel(r) PROVE StaffedInv'
  <2>4. runs' = [runs EXCEPT ![r].status = "cancelled"]
    BY <1>4, CancelEffect
  <2>1. runs'[r].status = "cancelled" /\ \A q \in Runs : q # r => runs'[q] = runs[q]
    BY <1>1, <2>4 DEF Row
  <2>2. ex' = ex \/ \E e \in Execs : e[1] = r /\ ex' = [ex EXCEPT ![e] = Ending]
    BY <1>4, CancelEffect
  <2>3. \A d \in Execs : d[1] # r => ex'[d] = ex[d]
    BY <1>1, <2>2
  <2> QED BY <2>1, <2>3, StaffedKept DEF Live
<1>5. ASSUME NEW e \in Execs, NEW s \in Terminal, EndAs(e, s) PROVE StaffedInv'
  <2>1. runs'[e[1]].status = s /\ \A q \in Runs : q # e[1] => runs'[q] = runs[q]
    BY <1>1, <1>5, ExecIndex DEF EndAs, Row
  <2>2. \A d \in Execs : d[1] # e[1] => ex'[d] = ex[d]
    BY <1>1, <1>5 DEF EndAs
  <2> QED BY <2>1, <2>2, ExecIndex, StaffedKept DEF Live, Terminal
<1>6. ASSUME NEW e \in Execs, ex' = [ex EXCEPT ![e] = Over], runs' = runs,
             Retriable(e[1]) \/ runs[e[1]].status \in Terminal
      PROVE  StaffedInv'
  <2>1. \A d \in Execs : d[1] # e[1] => ex'[d] = ex[d]
    BY <1>1, <1>6
  <2>2. \A d \in Execs : d[1] # e[1] /\ Live(d) => Live(d)'
    BY <2>1 DEF Live
  <2>3. CASE runs[e[1]].status = "unborn"
    BY <1>6, <2>2, <2>3 DEF StaffedInv, Retriable, Busy, Terminal
  <2>4. CASE runs[e[1]].status # "unborn"
    <3>1. Retriable(e[1])' \/ runs'[e[1]].status \in Terminal
      BY <1>6 DEF Retriable
    <3> QED BY <1>6, <2>2, <2>4, <3>1, ExecIndex, StaffedKept DEF Terminal
  <2> QED BY <2>3, <2>4
<1>7. ASSUME NEW e \in Execs, NEW c, Save(e, c), runs' = runs PROVE StaffedInv'
  BY <1>7, Saved, WorkStaffed DEF Live, Checkpoint
<1>8. ASSUME NEW e \in Execs, NEW x, ex' = [ex EXCEPT ![e] = x], x.pc # "over", runs' = runs
      PROVE  StaffedInv'
  BY <1>1, <1>8, WorkStaffed DEF Live
<1>9. ASSUME NEW e \in Execs, NEW p \in DOMAIN ex[e].calls, CallStep(e, p) \/ WindowOver(e, p)
      PROVE  StaffedInv'
  <2>1. \A d \in Execs : Live(d) => Live(d)'
    BY <1>9, CallsOnly DEF Called, Live
  <2>2. CASE CreateExpert(e, p)
    <3>1. PICK r \in Runs : /\ runs[r].status = "unborn"
                            /\ runs' = [runs EXCEPT ![r].key = KeyOf(e, p), ![r].status = "pending"]
      BY <2>2 DEF CreateExpert
    <3>2. /\ runs'[r].status = "pending" /\ runs'[r].claims = 0
          /\ \A q \in Runs : q # r => runs'[q] = runs[q]
      BY <1>1, <3>1 DEF Row, StaffedInv
    <3>3. Retriable(r)'
      BY <3>2, RunTreeAssumption DEF Retriable, Runs
    <3> QED BY <2>1, <3>2, <3>3, StaffedKept
  <2>3. CASE runs' = runs
    BY <2>1, <2>3, WorkStaffed
  <2> QED BY <1>9, <2>2, <2>3 DEF CallStep, WindowOver, Read, Collect, PatchRead, PatchWrite,
                                  FindExpert, ExpertEnded
<1>10. ASSUME NEW e \in Execs, ReserveCalls(e) PROVE StaffedInv'
  <2>1. runs' = runs
    BY <1>10 DEF ReserveCalls
  <2> QED BY <1>10, <2>1, Reserved, WorkStaffed DEF Live
<1>11. CASE Steer \/ UNCHANGED vars
  BY <1>11, WorkStaffed DEF Steer, vars, Live
<1>12. ASSUME NEW e \in Execs, FoldSteerings(e) \/ ModelStep(e) \/ EndBatch(e) PROVE StaffedInv'
  <2>1. (\E c : Save(e, c)) /\ runs' = runs
    BY <1>12, Zenon DEF FoldSteerings, ModelStep, EndBatch
  <2> QED BY <1>7, <2>1
<1>13. ASSUME NEW e \in Execs, ListSteerings(e) \/ MarkSteerings(e) PROVE StaffedInv'
  <2>1. runs' = runs
    BY <1>13 DEF ListSteerings, MarkSteerings
  <2>2. PICK x, y : /\ x = [ex[e] EXCEPT !.pc = "mark", !.loaded = Unconsumed]
                    /\ y = [ex[e] EXCEPT !.pc = "fold"]
    OBVIOUS
  <2>3. x.pc = "mark" /\ y.pc = "fold"
    BY <1>1, <2>2 DEF Execution
  <2>4. \/ \E c : Save(e, c)
        \/ ex' = [ex EXCEPT ![e] = x]
        \/ ex' = [ex EXCEPT ![e] = y]
    BY <1>13, <2>2 DEF ListSteerings, MarkSteerings
  <2> QED BY <1>7, <1>8, <2>1, <2>3, <2>4
<1>14. ASSUME NEW e \in Execs, Deliver(e) PROVE StaffedInv'
  <2>1. runs' = runs
    BY <1>14 DEF Deliver
  <2>2. PICK x : x = [ex[e] EXCEPT !.pc = "complete"]
    OBVIOUS
  <2>3. x.pc = "complete"
    BY <1>1, <2>2 DEF Execution
  <2>4. \/ ex' = [ex EXCEPT ![e] = Over] /\ runs[e[1]].status = "cancelled"
        \/ ex' = [ex EXCEPT ![e] = x]
    BY <1>14, <2>2 DEF Deliver
  <2> QED BY <1>6, <1>8, <2>1, <2>3, <2>4 DEF Terminal
<1>15. ASSUME NEW e \in Execs, Complete(e) \/ Raise(e) \/ Crash(e) \/ CancelledEnds(e) PROVE StaffedInv'
  BY <1>5, <1>6, <1>15 DEF Complete, Raise, Crash, CancelledEnds, Terminal
<1> QED BY <1>2, <1>3, <1>4, <1>9, <1>10, <1>11, <1>12, <1>13, <1>14, <1>15, <1>16, NextCases DEF Plain

LEMMA LeastOf == ASSUME NEW K \in SUBSET Nat, K # {} PROVE \E n \in K : \A m \in K : n <= m
<1>1. PICK R : R = OpToRel(<, Nat)
  OBVIOUS
<1>2. IsWellFoundedOn(R, Nat)
  BY <1>1, NatLessThanWellFounded
<1>3. PICK n \in K : \A m \in K : <<m, n>> \notin R
  BY <1>2, WFMin
<1>4. \A m \in K : ~(m < n)
  BY <1>1, <1>3 DEF OpToRel
<1> QED BY <1>4

\* A batch that can do nothing waits for an expert that has not ended.
LEMMA StuckWaits ==
    ASSUME TypeInv, NEW e \in Execs, Live(e), ~CanWork(e)
    PROVE  /\ ex[e].pc = "calls"
           /\ \E p \in DOMAIN ex[e].calls : /\ ex[e].calls[p].st = "wait"
                                            /\ runs[ex[e].calls[p].child].status \notin Terminal
<1>1. ex[e] \in Execution /\ ex[e].calls \in Seq(CallState)
  BY ExecTyped
<1>2. ex[e].pc = "calls"
  BY <1>1 DEF Live, CanWork, Execution
<1>3. PICK K : K = {p \in DOMAIN ex[e].calls : ~Settled(ex[e].calls[p])}
  OBVIOUS
<1>4. K \in SUBSET Nat /\ K # {}
  BY <1>1, <1>2, <1>3 DEF CanWork
<1>5. PICK p \in K : \A q \in K : p <= q
  BY <1>4, LeastOf
<1>6. p \in DOMAIN ex[e].calls /\ ~Settled(ex[e].calls[p])
  BY <1>3
<1>7. ASSUME NEW q \in 1 .. p - 1 PROVE Settled(ex[e].calls[q])
  <2>1. q \in DOMAIN ex[e].calls /\ ~(p <= q)
    BY <1>1, <1>6
  <2> QED BY <1>3, <1>5, <2>1
<1>8. Turn(e, p, ex[e].calls[p].st)
  BY <1>2, <1>7 DEF Turn
<1>9. ex[e].calls[p].st \in {"todo", "create", "wait", "patch", "write"}
  <2>1. ex[e].calls[p] \in CallState
    BY <1>1, <1>6
  <2> QED BY <1>6, <2>1 DEF CallState, Settled
<1>10. ~CallCanGo(e, p)
  BY <1>2, <1>6 DEF CanWork
<1> QED BY <1>2, <1>6, <1>8, <1>9, <1>10 DEF CallCanGo

\* As long as a run of the tree has not ended, some worker can claim it or
\* another one, some lease can run out, or some execution can take a step:
\* coordinator and experts never wait for each other, whatever the plans, and
\* whoever dies, is cancelled, gives up waiting or is executed twice.  That is
\* what QuietMeansEnded says, with the guards in the place of ENABLED.
\* claim_agent_run, dispatch_expert and _wait_for_child.
THEOREM NobodyWaitsInVain ==
    ASSUME \A r \in Runs : MaxClaims[r] > 0
    PROVE  Spec => []QuietTree
<1>1. ASSUME TypeInv, ToolInv, WaitedInv, StaffedInv, NEW r \in Runs,
             \A q \in Runs : ~CanClaim(q) /\ ~CanLapse(q), \A e \in Execs : ~CanWork(e),
             runs[r].status \notin Terminal \cup {"unborn"}
      PROVE  FALSE
  <2>1. ASSUME NEW q \in Runs, runs[q].status \notin Terminal \cup {"unborn"}
        PROVE  \E e \in Execs : e[1] = q /\ Live(e)
    <3>1. runs[q] \in Row
      BY <1>1 DEF TypeInv, TypeOK
    <3>2. runs[q].status \in {"pending", "running"}
      BY <2>1, <3>1 DEF Row
    <3>3. Busy(q)
      BY <1>1, <3>2 DEF StaffedInv, CanClaim, CanLapse
    <3> QED BY <3>3 DEF Busy
  <2>2. PICK e \in Execs : e[1] = r /\ Live(e)
    BY <1>1, <2>1
  <2>3. PICK p \in DOMAIN ex[e].calls : /\ ex[e].pc = "calls" /\ ex[e].calls[p].st = "wait"
                                        /\ runs[ex[e].calls[p].child].status \notin Terminal
    BY <1>1, <2>2, StuckWaits
  <2>4. PICK c : c = ex[e].calls[p].child
    OBVIOUS
  <2>5. c \in Runs \ {Root} /\ runs[c].status \notin Terminal \cup {"unborn"}
    BY <1>1, <2>3, <2>4 DEF WaitedInv
  <2>6. PICK d \in Execs : d[1] = c /\ Live(d)
    BY <2>1, <2>5
  <2>7. PICK q \in DOMAIN ex[d].calls : ex[d].pc = "calls" /\ ex[d].calls[q].st = "wait"
    BY <1>1, <2>6, StuckWaits
  <2>8. q \in DOMAIN Batch(d) /\ Batch(d)[q] = "expert"
    BY <1>1, <2>7 DEF ToolInv, Tooled
  <2>9. Batch(d) \in Seq({"read"})
    <3>1. ExecFits(d[1], ex[d]) /\ ex[d].at.node \in Nat
      BY <1>1, ExecTyped DEF Checkpoint
    <3>2. ex[d].at.node \in 1 .. Len(ExpertPlan)
      BY <2>5, <2>6, <2>7, <3>1 DEF ExecFits, PlanOf
    <3> QED BY <2>5, <2>6, <3>2, RunTreeAssumption DEF Batch, PlanOf
  <2> QED BY <2>8, <2>9
<1>2. TypeInv /\ ToolInv /\ WaitedInv /\ StaffedInv => QuietTree
  BY <1>1 DEF QuietTree
<1> QED BY <1>2, InitTypeInv, NextTypeInv, InitSoleInv, NextToolInv, NextSoleInv, InitBornInv,
           NextBornInv, InitQuitInv, NextQuitInv, InitExpertInv, NextExpertInv, InitWaits, NextWaited, NextStaffed, PTL DEF Spec

=============================================================================
