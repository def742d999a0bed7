--------------------------- MODULE CollectionRun ---------------------------
(***************************************************************************)
(* One durable background collection run: the collection_runs row written  *)
(* by CollectionRunRepository, the worker processes that claim and execute *)
(* it (CollectionRunWorker), and the user who cancels it.                  *)
(*                                                                         *)
(* The n-th successful claim of the row creates execution n, an asyncio    *)
(* task with its own heartbeat task, its own in-memory copy of the         *)
(* platform checkpoint and its own platform tasks.  Executions outlive the *)
(* lease they were started under: what stops an old one is only the fence  *)
(* "lease_owner = :worker_id" and its own heartbeat.                       *)
(*                                                                         *)
(* Time is abstracted to the state of the lease.  Posts are abstracted to  *)
(* the set of platforms whose batch reached the social store.              *)
(***************************************************************************)
EXTENDS Integers, FiniteSets

CONSTANTS
    Platforms,        \* platforms of the frozen snapshot
    Procs,            \* worker processes
    WorkerIds,        \* values of settings.collection_worker_id
    WorkerId,         \* the worker id each process is configured with
    NoOwner,          \* lease_owner is NULL
    NoProc,           \* the process of an execution that does not exist yet
    MaxClaims,        \* max_attempts of the row
    Concurrency,      \* platform concurrency of the phase
    LiveScan,         \* output_root is configured: live progress scanning is on
    Stalls,           \* a heartbeat may be late by more than the lease
    HeartbeatFaults   \* a heartbeat may raise and end its task

ASSUME CollectionAssumption ==
    /\ IsFiniteSet(Platforms) /\ Platforms # {}
    /\ WorkerId \in [Procs -> WorkerIds]
    /\ NoOwner \notin WorkerIds /\ NoProc \notin Procs
    /\ MaxClaims \in Nat \ {0}
    /\ Concurrency \in Nat \ {0}
    /\ LiveScan \in BOOLEAN /\ Stalls \in BOOLEAN /\ HeartbeatFaults \in BOOLEAN

PlatformMaxAttempts == 2

PlatformStatuses == {"queued", "running", "completed", "failed", "cancelled"}
Terminal   == {"completed", "completed_with_errors", "failed", "cancelled"}
Statuses   == {"queued", "running"} \cup Terminal
Checkpoint == [Platforms -> [status : PlatformStatuses, attempts : Nat]]
Execs      == 1 .. MaxClaims

VARIABLES
    status,           \* collection_runs.status
    leaseOwner,       \* lease_owner
    lease,            \* lease_expires_at: "none", "live" or "expired"
    cancelRequested,  \* cancel_requested_at is set
    attempts,         \* claims made so far
    progress,         \* progress_json, the platform checkpoint
    persisted,        \* platforms whose batch SocialRepository has stored
    analysis,         \* the alignment and integrity jobs exist
    canceller,        \* what a request_cancel in flight has read
    ex                \* the executions

row  == <<status, leaseOwner, lease, cancelRequested, attempts, progress>>
vars == <<row, persisted, analysis, canceller, ex>>

TaskStates == {"idle", "waiting", "crawling", "result", "error", "cancelled"}
ExecStates == {"unborn", "start", "pass", "ingest", "terminal", "enqueue", "over"}

Scan == [by : Platforms, mem : Checkpoint]   \* an UPDATE sent by a scan task

Execution ==
    [pc : ExecStates, proc : Procs \cup {NoProc}, mem : Checkpoint,
     cancelEvent : BOOLEAN, beating : BOOLEAN, retrying : BOOLEAN,
     announced : SUBSET Platforms, task : [Platforms -> TaskStates],
     ingesting : SUBSET Platforms, scan : SUBSET Scan]

Fresh == [p \in Platforms |-> [status |-> "queued", attempts |-> 0]]
Idle  == [p \in Platforms |-> "idle"]

Unborn ==
    [pc |-> "unborn", proc |-> NoProc, mem |-> Fresh,
     cancelEvent |-> FALSE, beating |-> FALSE, retrying |-> FALSE,
     announced |-> {}, task |-> Idle,
     ingesting |-> {}, scan |-> {}]

\* The locals of an execution die with its task.
Over(x) == [Unborn EXCEPT !.pc = "over", !.proc = x.proc]

Init ==
    /\ status = "queued" /\ leaseOwner = NoOwner /\ lease = "none"
    /\ cancelRequested = FALSE /\ attempts = 0 /\ progress = Fresh
    /\ persisted = {} /\ analysis = FALSE /\ canceller = "none"
    /\ ex = [e \in Execs |-> Unborn]

Live(e)     == ex[e].pc \notin {"unborn", "over"}
InPass(e)   == ex[e].pc \in {"pass", "ingest"}

\* Mutant: the fence compares the owner and forgets the status.
FencedByOwner(e) == leaseOwner = WorkerId[ex[e].proc]
\* Mutant: the fence looks at the status and forgets the owner.
FencedByStatus(e) == status = "running"

\* WHERE lease_owner = :worker_id AND status = 'running'.
Fenced(e)   == leaseOwner = WorkerId[ex[e].proc] /\ status = "running"

\* Mutant: any running row counts as abandoned.
AnyRunning == status = "running"

\* The lease of a running row has run out.
Abandoned   == status = "running" /\ lease = "expired"

-----------------------------------------------------------------------------
(* The tick of a worker process: recover_expired, then claim_next.  They    *)
(* are two transactions, so each is an action of its own.                   *)

CloseRow(s) ==
    /\ status' = s
    /\ leaseOwner' = NoOwner /\ lease' = "none"

\* Mutant: only exhausted rows are closed, not the cancelled ones.
RecoverExhaustedOnly ==
    /\ Abandoned
    /\ attempts >= MaxClaims
    /\ CloseRow(IF cancelRequested THEN "cancelled" ELSE "failed")
    /\ UNCHANGED <<cancelRequested, attempts, progress, persisted, analysis, canceller, ex>>

RecoverExpired ==
    /\ Abandoned
    /\ cancelRequested \/ attempts >= MaxClaims
    /\ CloseRow(IF cancelRequested THEN "cancelled" ELSE "failed")
    /\ UNCHANGED <<cancelRequested, attempts, progress, persisted, analysis, canceller, ex>>

FailExhausted ==
    /\ Abandoned
    /\ attempts >= MaxClaims
    /\ CloseRow("failed")
    /\ UNCHANGED <<cancelRequested, attempts, progress, persisted, analysis, canceller, ex>>

\* Mutant: the claims of a row are not capped.
ClaimableForEver == ~cancelRequested /\ (status = "queued" \/ Abandoned)

Claimable ==
    /\ ~cancelRequested
    /\ attempts < MaxClaims
    /\ status = "queued" \/ Abandoned

Claim(w) ==
    /\ Claimable
    /\ status' = "running"
    /\ attempts' = attempts + 1
    /\ leaseOwner' = WorkerId[w] /\ lease' = "live"
    /\ ex' = [ex EXCEPT ![attempts + 1] =
                [Unborn EXCEPT !.pc = "start", !.proc = w]]
    /\ UNCHANGED <<cancelRequested, progress, persisted, analysis, canceller>>

-----------------------------------------------------------------------------
(* One execution: load the checkpoint, run the passes, mark the terminal    *)
(* status, enqueue the analysis jobs.                                       *)

RecoverTodo(mem) ==
    {p \in Platforms : /\ mem[p].status # "completed"
                       /\ ~(mem[p].status = "failed"
                              /\ mem[p].attempts >= PlatformMaxAttempts)}

RetryTodo(mem) ==
    {p \in Platforms : mem[p].status = "failed" /\ mem[p].attempts < PlatformMaxAttempts}

\* The platform tasks of a pass all start at once: each announces itself to
\* the coordinator and then waits for the semaphore.
StartPass(x, todo) ==
    [x EXCEPT !.pc = "pass", !.announced = todo,
              !.task = [p \in Platforms |-> IF p \in todo THEN "waiting" ELSE "idle"]]

\* Mutant: a restarted worker starts over.
NoCheckpoint == Fresh

\* _normalize_progress: the checkpoint of the row (every platform of the
\* snapshot has an entry since create).
NormalizeProgress == progress

BeginExecute(e) ==
    /\ ex[e].pc = "start"
    /\ LET x == [ex[e] EXCEPT !.mem = NormalizeProgress, !.beating = TRUE]
           todo == RecoverTodo(x.mem)
       IN  ex' = [ex EXCEPT ![e] = IF todo = {} THEN [x EXCEPT !.pc = "terminal"]
                                               ELSE StartPass(x, todo)]
    /\ UNCHANGED <<row, persisted, analysis, canceller>>

AcquireSlot(e, p) ==
    /\ InPass(e)
    /\ ex[e].task[p] = "waiting"
    /\ Cardinality({q \in Platforms : ex[e].task[q] = "crawling"}) < Concurrency
    /\ ex' = [ex EXCEPT ![e].task[p] =
                IF ex[e].cancelEvent THEN "cancelled" ELSE "crawling"]
    /\ UNCHANGED <<row, persisted, analysis, canceller>>

\* run_platform returns posts, raises, or is cancelled while it waits for
\* the global capacity (only once the cancel event is set).
CrawlEnds(e, p) ==
    /\ InPass(e)
    /\ ex[e].task[p] = "crawling"
    /\ \E outcome \in {"result", "error"}
                        \cup (IF ex[e].cancelEvent THEN {"cancelled"} ELSE {}) :
            ex' = [ex EXCEPT ![e].task[p] = outcome]
    /\ UNCHANGED <<row, persisted, analysis, canceller>>

\* update_progress_if_owner: a fenced write of a whole checkpoint.
Flush(e, checkpoint) ==
    /\ progress' = IF Fenced(e) THEN checkpoint ELSE progress
    /\ UNCHANGED <<status, leaseOwner, lease, cancelRequested, attempts>>

\* The coordinator marks a platform in its own checkpoint and flushes it.
Mark(e, p, st, n, x) ==
    LET mem == [ex[e].mem EXCEPT ![p] = [status |-> st, attempts |-> n]]
    IN  /\ ex' = [ex EXCEPT ![e] = [x EXCEPT !.mem = mem]]
        /\ Flush(e, mem)

HandleStarted(e, p) ==
    /\ ex[e].pc = "pass"
    /\ p \in ex[e].announced
    /\ Mark(e, p, "running", ex[e].mem[p].attempts + 1,
            [ex[e] EXCEPT !.announced = @ \ {p}])
    /\ UNCHANGED <<persisted, analysis, canceller>>

\* Mutant: a failed persist_batch is swallowed.
IngestNothing(e, p) ==
    /\ ex[e].pc = "pass"
    /\ p \notin ex[e].announced
    /\ ex[e].task[p] = "result"
    /\ ex' = [ex EXCEPT ![e].pc = "ingest", ![e].ingesting = {p}]
    /\ UNCHANGED <<row, persisted, analysis, canceller>>

\* "result": the batch is persisted first, and this write is not fenced.
IngestPlatform(e, p) ==
    /\ ex[e].pc = "pass"
    /\ p \notin ex[e].announced
    /\ ex[e].task[p] = "result"
    /\ persisted' = persisted \cup {p}
    /\ ex' = [ex EXCEPT ![e].pc = "ingest", ![e].ingesting = {p}]
    /\ UNCHANGED <<row, analysis, canceller>>

CheckpointPlatform(e, p) ==
    /\ ex[e].pc = "ingest"
    /\ p \in ex[e].ingesting
    /\ Mark(e, p, "completed", ex[e].mem[p].attempts,
            [ex[e] EXCEPT !.pc = "pass", !.task[p] = "idle", !.ingesting = {}])
    /\ UNCHANGED <<persisted, analysis, canceller>>

\* "error" and "cancelled": the platform is failed or cancelled in place.
HandleFailure(e, p) ==
    /\ ex[e].pc = "pass"
    /\ p \notin ex[e].announced
    /\ ex[e].task[p] \in {"error", "cancelled"}
    /\ Mark(e, p, IF ex[e].task[p] = "error" THEN "failed" ELSE "cancelled",
            ex[e].mem[p].attempts, [ex[e] EXCEPT !.task[p] = "idle"])
    /\ UNCHANGED <<persisted, analysis, canceller>>

\* _scan_live_progress writes the same checkpoint from the platform tasks:
\* the value is taken when the UPDATE is sent and committed later, or lost
\* when the platform task ends and cancels its scan.
Scanning(e, p) == ex[e].task[p] \in {"waiting", "crawling"}

ScanSend(e, p) ==
    /\ LiveScan
    /\ InPass(e)
    /\ Scanning(e, p) /\ ex[e].mem[p].status = "running"
    /\ ex[e].scan = {}
    /\ ex' = [ex EXCEPT ![e].scan = {[by |-> p, mem |-> ex[e].mem]}]
    /\ UNCHANGED <<row, persisted, analysis, canceller>>

ScanCommit(e) ==
    /\ InPass(e)
    /\ \E sent \in ex[e].scan : Scanning(e, sent.by) /\ Flush(e, sent.mem)
    /\ ex' = [ex EXCEPT ![e].scan = {}]
    /\ UNCHANGED <<persisted, analysis, canceller>>

ScanDrop(e) ==
    /\ InPass(e)
    /\ ex[e].scan # {}
    /\ ex' = [ex EXCEPT ![e].scan = {}]
    /\ UNCHANGED <<row, persisted, analysis, canceller>>

\* The pass ends when every platform task has been accounted for; failed
\* platforms get one deferred retry pass unless the run is being cancelled.
EndPass(e) ==
    /\ ex[e].pc = "pass"
    /\ ex[e].task = Idle /\ ex[e].announced = {} /\ ex[e].scan = {}
    /\ LET retry == RetryTodo(ex[e].mem)
       IN  ex' = [ex EXCEPT ![e] =
                    IF ~ex[e].retrying /\ ~ex[e].cancelEvent /\ retry # {}
                    THEN [StartPass(@, retry) EXCEPT !.retrying = TRUE]
                    ELSE [@ EXCEPT !.pc = "terminal"]]
    /\ UNCHANGED <<row, persisted, analysis, canceller>>

Having(x, st) == {p \in Platforms : x.mem[p].status = st}

\* Mutant: one completed platform makes the run completed.
TerminalIfAnyCompleted(x) ==
    IF x.cancelEvent \/ Having(x, "cancelled") # {} THEN "cancelled"
    ELSE IF Having(x, "completed") # {}             THEN "completed"
    ELSE "failed"

TerminalStatus(x) ==
    IF x.cancelEvent \/ Having(x, "cancelled") # {} THEN "cancelled"
    ELSE IF Having(x, "completed") = Platforms      THEN "completed"
    ELSE IF Having(x, "failed") = Platforms         THEN "failed"
    ELSE "completed_with_errors"

Succeeded == {"completed", "completed_with_errors"}

\* The fenced terminal write; its outcome is not looked at before the
\* analysis jobs are enqueued.
MarkTerminal(e) ==
    /\ ex[e].pc = "terminal"
    /\ LET t == TerminalStatus(ex[e])
       IN  /\ IF Fenced(e) THEN CloseRow(t)
                           ELSE UNCHANGED <<status, leaseOwner, lease>>
           /\ ex' = [ex EXCEPT ![e] = IF t \in Succeeded THEN [@ EXCEPT !.pc = "enqueue"]
                                                          ELSE Over(@)]
    /\ UNCHANGED <<cancelRequested, attempts, progress, persisted, analysis, canceller>>

EnqueueAnalysis(e) ==
    /\ ex[e].pc = "enqueue"
    /\ analysis' = TRUE
    /\ ex' = [ex EXCEPT ![e] = Over(@)]
    /\ UNCHANGED <<row, persisted, canceller>>

-----------------------------------------------------------------------------
(* The heartbeat task of an execution, and the passing of time.             *)

Heartbeat(e) ==
    /\ ex[e].beating
    /\ IF Fenced(e)
       THEN /\ lease' = "live"
            /\ ex' = [ex EXCEPT ![e].cancelEvent = @ \/ cancelRequested]
       ELSE /\ lease' = lease
            /\ ex' = [ex EXCEPT ![e].cancelEvent = TRUE, ![e].beating = FALSE]
    /\ UNCHANGED <<status, leaseOwner, cancelRequested, attempts, progress,
                   persisted, analysis, canceller>>

\* Only CancelledError is caught in _heartbeat_loop: a database error ends it.
HeartbeatDies(e) ==
    /\ HeartbeatFaults
    /\ ex[e].beating
    /\ ex' = [ex EXCEPT ![e].beating = FALSE]
    /\ UNCHANGED <<row, persisted, analysis, canceller>>

\* An execution that has been claimed and not begun beats within the lease.
KeepsLease(e) == Fenced(e) /\ (ex[e].pc = "start" \/ ex[e].beating)

LeaseExpires ==
    /\ lease = "live"
    /\ Stalls \/ \A e \in Execs : Live(e) => ~KeepsLease(e)
    /\ lease' = "expired"
    /\ UNCHANGED <<status, leaseOwner, cancelRequested, attempts, progress,
                   persisted, analysis, canceller, ex>>

-----------------------------------------------------------------------------
(* Failures: an exception that leaves _execute, and the end of a process    *)
(* (a kill, or stop(), which cancels the tasks and writes nothing).         *)

ExecuteRaises(e) ==
    /\ Live(e)
    /\ ex' = [ex EXCEPT ![e] = Over(@)]
    /\ UNCHANGED <<row, persisted, analysis, canceller>>

ProcessEnds(w) ==
    /\ \E e \in Execs : Live(e) /\ ex[e].proc = w
    /\ ex' = [e \in Execs |-> IF Live(e) /\ ex[e].proc = w THEN Over(ex[e]) ELSE ex[e]]
    /\ UNCHANGED <<row, persisted, analysis, canceller>>

-----------------------------------------------------------------------------
(* The user's cancellation: request_cancel reads the row and then writes    *)
(* the columns it changed, without a version check.                         *)

CancelRead ==
    /\ canceller = "none"
    /\ ~cancelRequested
    /\ status \in {"queued", "running", "completed_with_errors"}
    /\ canceller' = IF status = "queued" THEN "sawQueued" ELSE "sawActive"
    /\ UNCHANGED <<row, persisted, analysis, ex>>

CancelWrite ==
    /\ canceller # "none"
    /\ status' = IF canceller = "sawQueued" THEN "cancelled" ELSE status
    /\ cancelRequested' = TRUE
    /\ canceller' = "none"
    /\ UNCHANGED <<leaseOwner, lease, attempts, progress, persisted, analysis, ex>>

-----------------------------------------------------------------------------

\* What an execution does by itself, without a failure.
Work(e) ==
    \/ BeginExecute(e) \/ EndPass(e) \/ MarkTerminal(e) \/ EnqueueAnalysis(e)
    \/ \E p \in Platforms : \/ AcquireSlot(e, p) \/ CrawlEnds(e, p) \/ HandleStarted(e, p)
                            \/ IngestPlatform(e, p) \/ CheckpointPlatform(e, p)
                            \/ HandleFailure(e, p)

Next ==
    \/ RecoverExpired \/ FailExhausted \/ LeaseExpires
    \/ CancelRead \/ CancelWrite
    \/ \E w \in Procs : Claim(w) \/ ProcessEnds(w)
    \/ \E e \in Execs : \/ Work(e) \/ Heartbeat(e) \/ HeartbeatDies(e) \/ ExecuteRaises(e)
                        \/ ScanCommit(e) \/ ScanDrop(e)
                        \/ \E p \in Platforms : ScanSend(e, p)

Spec == Init /\ [][Next]_vars

\* Processes tick for ever, executions run, scans resolve, a request_cancel
\* in flight is answered and an unattended lease runs out.  Nothing forces a
\* failure.
Fairness ==
    /\ WF_vars(RecoverExpired) /\ WF_vars(\E w \in Procs : Claim(w))
    /\ WF_vars(LeaseExpires) /\ WF_vars(CancelWrite)
    /\ \A e \in Execs : /\ WF_vars(Work(e)) /\ WF_vars(Heartbeat(e))
                        /\ WF_vars(ScanCommit(e) \/ ScanDrop(e))

FairSpec == Spec /\ Fairness

-----------------------------------------------------------------------------

TypeOK ==
    /\ status \in Statuses
    /\ leaseOwner \in WorkerIds \cup {NoOwner}
    /\ lease \in {"none", "live", "expired"}
    /\ cancelRequested \in BOOLEAN
    /\ attempts \in 0 .. MaxClaims
    /\ progress \in Checkpoint
    /\ persisted \subseteq Platforms
    /\ analysis \in BOOLEAN
    /\ canceller \in {"none", "sawQueued", "sawActive"}
    /\ ex \in [Execs -> Execution]

Done(checkpoint) == {p \in Platforms : checkpoint[p].status = "completed"}
DonePlatforms    == Done(progress)

\* A platform the checkpoint calls completed has its batch in the social
\* store: recovery, which skips completed platforms, never skips lost data.
\* (_ingest_platform before _mark_platform_completed, whoever flushes.)
CheckpointBacked == DonePlatforms \subseteq persisted

\* A run reported completed has the data of every platform of its snapshot,
\* through any number of crashes, lost leases and overlapping executions.
CompletedHasAllData == status = "completed" => persisted = Platforms

\* INV-4: once a platform is checkpointed completed, no crash, retry,
\* cancellation, lost lease or failure of another platform takes it back.
CheckpointMonotone == [][DonePlatforms \subseteq DonePlatforms']_vars

\* INV-2: an execution whose claim has been superseded writes neither the
\* row nor the social store.
SupersededIsSilent ==
    [][\A e \in Execs :
          ex[e] # ex'[e] /\ e # attempts /\ attempts' = attempts
            => UNCHANGED <<status, progress, persisted>>]_vars

\* The fence across processes: whatever stalls, an execution superseded by
\* one of a process with another worker id does not write the row.
OtherProcessIsFenced ==
    [][\A e \in Execs :
          ex[e] # ex'[e] /\ Live(e) /\ e # attempts /\ attempts' = attempts
            /\ WorkerId[ex[e].proc] # WorkerId[ex[attempts].proc]
          => UNCHANGED <<status, leaseOwner, progress>>]_vars

\* A terminal status is final but for one stale cancellation: a
\* request_cancel that read the row while it was queued.
TerminalIsFinal ==
    [][(status \in Terminal /\ status' # status)
          => (canceller = "sawQueued" /\ status' = "cancelled")]_vars

\* Every run ends, whatever fails: claims are capped, and what the last
\* claim leaves behind is closed by recover_expired.
EventuallyTerminal == <>(status \in Terminal)
=============================================================================
