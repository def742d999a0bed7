------------------------------ MODULE RunTree ------------------------------
(***************************************************************************)
(* What the executions of an agent run and of the experts it dispatches    *)
(* share: the tool-call budget counted in the coordinator's row, the child *)
(* runs found again by their dispatch key, and the steering instructions   *)
(* of the user.  AgentRun models one run by itself; here an execution marks *)
(* its run running and reads its checkpoint in one step, and approvals     *)
(* have been given.                                                        *)
(***************************************************************************)
EXTENDS Integers, Sequences, FiniteSets

CONSTANTS
    Plans,          \* tool batches the coordinator's model may ask for
    ExpertPlan,     \* tool batches of an expert
    Limit,          \* execution_policy.max_tool_calls
    ReadOnlyModes,  \* values of execution_policy.read_only
    Faults,         \* "crash", "overrun", "timeout", "raise", "cancel"
    MaxRuns,        \* bound: runs of the tree
    MaxClaims,      \* bounds: claims of each run
    MaxSteers,      \* bound: steering instructions
    MaxFailures     \* bound: failures and cancellations

Tools   == {"read", "collect", "expert"}
Batches == Seq(Tools)

ASSUME RunTreeAssumption ==
    /\ Plans \subseteq Seq(Batches) /\ ExpertPlan \in Seq(Seq({"read"}))
    /\ Limit \in Nat \ {0}
    /\ ReadOnlyModes \subseteq BOOLEAN
    /\ Faults \subseteq {"crash", "overrun", "timeout", "raise", "cancel"}
    /\ MaxRuns \in Nat \ {0} /\ MaxClaims \in [1 .. MaxRuns -> Nat] /\ MaxSteers \in Nat
    /\ MaxFailures \in Nat

VARIABLES
    plan,      \* what the coordinator's model will ask for
    readOnly,  \* the policy of the tree
    runs,      \* the agent_runs rows: dispatch key, status, lease
    used,      \* execution_policy.tool_calls_used in the root's metadata
    cp,        \* the checkpoint of each run
    ex,        \* the executions of each run, one per claim
    steers,    \* the run_steerings rows, in order: TRUE once consumed
    log        \* history

vars == <<plan, readOnly, runs, used, cp, ex, steers, log>>

Root     == 1
Runs     == 1 .. MaxRuns
Execs    == UNION {{r} \X (1 .. MaxClaims[r]) : r \in Runs}
Steers   == 1 .. MaxSteers
Terminal == {"completed", "failed", "cancelled"}

\* f"{run_id}:{call.id}": call ids come from one model step of one execution.
Key   == [by : Nat, node : Nat, pos : Nat]
NoKey == [by |-> 0, node |-> 0, pos |-> 0]

Row == [key : Key, status : {"unborn", "pending", "running"} \cup Terminal,
        lease : {"none", "live", "expired"}, claims : Nat]

\* The next graph node, who made its tool calls, how often the conversation
\* holds each instruction.
Checkpoint == [node : Nat, stage : {"steer", "model", "tools", "finish"},
               by : Nat, told : [Steers -> Nat]]
First == [node |-> 1, stage |-> "steer", by |-> 0, told |-> [s \in Steers |-> 0]]

CallState == [st : {"todo", "create", "wait", "patch", "write", "done", "blocked"},
              child : 0 .. MaxRuns, copy : Nat]

Execution == [pc : {"over", "claimed", "ending", "mark", "fold", "calls", "complete", "steer", "model", "tools", "finish"},
              at : Checkpoint, loaded : SUBSET Steers, calls : Seq(CallState)]
Over == [pc |-> "over", at |-> First, loaded |-> {}, calls |-> <<>>]

\* Claimed, but not yet marked running; and cancelled, but not yet written so.
Claimed == [Over EXCEPT !.pc = "claimed"]
Ending  == [Over EXCEPT !.pc = "ending"]

\* Handlers invoked, results delivered, and what has gone wrong on the way:
\* failures and cancellations, two executions of a run at once, a coordinator
\* that gave up waiting, a cancelled run of which an execution went on.
History == [invoked : Nat, delivered : SUBSET Runs, failures : 0 .. MaxFailures,
            overlap : BOOLEAN, timeout : BOOLEAN, missed : BOOLEAN]

Init ==
    /\ plan \in Plans /\ readOnly \in ReadOnlyModes
    /\ runs = [r \in Runs |-> [key |-> NoKey, status |-> IF r = Root THEN "pending" ELSE "unborn",
                               lease |-> "none", claims |-> 0]]
    /\ used = 0
    /\ cp = [r \in Runs |-> First]
    /\ ex = [e \in Execs |-> Over]
    /\ steers = <<>>
    /\ log = [invoked |-> 0, delivered |-> {}, failures |-> 0, overlap |-> FALSE, timeout |-> FALSE, missed |-> FALSE]

PlanOf(r) == IF r = Root THEN plan ELSE ExpertPlan
Live(e)   == ex[e].pc # "over"
Spends(e) == ex[e].pc \notin {"over", "ending"}
Busy(r)   == \E e \in Execs : e[1] = r /\ Live(e)
Retriable(r) == runs[r].claims < MaxClaims[r]

\* A node is done: its result is the checkpoint the execution goes on from.
Start(c) == [Over EXCEPT !.pc = c.stage, !.at = c]
Save(e, c) == cp' = [cp EXCEPT ![e[1]] = c] /\ ex' = [ex EXCEPT ![e] = Start(c)]

-----------------------------------------------------------------------------
(* Claiming.                                                                *)

\* Mutant: a run somebody has started is not claimed again.
ClaimPending(r) ==
    /\ runs[r].status = "pending" /\ runs[r].lease # "live"
    /\ Retriable(r)
    /\ runs' = [runs EXCEPT ![r].lease = "live", ![r].claims = @ + 1]
    /\ ex' = [ex EXCEPT ![<<r, runs[r].claims + 1>>] = Claimed]
    /\ log' = [log EXCEPT !.overlap = @ \/ Busy(r)]
    /\ UNCHANGED <<plan, readOnly, used, cp, steers>>

Claim(r) ==
    /\ runs[r].status \in {"pending", "running"} /\ runs[r].lease # "live"
    /\ Retriable(r)
    /\ runs' = [runs EXCEPT ![r].lease = "live", ![r].claims = @ + 1]
    /\ ex' = [ex EXCEPT ![<<r, runs[r].claims + 1>>] = Claimed]
    /\ log' = [log EXCEPT !.overlap = @ \/ Busy(r)]
    /\ UNCHANGED <<plan, readOnly, used, cp, steers>>

\* The execution marks its run running, whatever has become of it meanwhile,
\* and goes on from the checkpoint.
StartRun(e) ==
    /\ ex[e].pc = "claimed"
    /\ runs' = [runs EXCEPT ![e[1]].status = "running"]
    /\ ex' = [ex EXCEPT ![e] = Start(cp[e[1]])]
    /\ UNCHANGED <<plan, readOnly, used, cp, steers, log>>

\* Nothing refreshes the lease: a coordinator that waits for an expert for
\* longer than the lease (300 s of up to 600 s) is claimed a second time.
LeaseExpires(r) ==
    /\ runs[r].lease = "live" /\ Retriable(r)
    /\ "overrun" \in Faults \/ ~Busy(r)
    /\ runs' = [runs EXCEPT ![r].lease = "expired"]
    /\ UNCHANGED <<plan, readOnly, used, cp, ex, steers, log>>

-----------------------------------------------------------------------------
(* Steering, before every model step of the coordinator.                    *)

Steer ==
    /\ Len(steers) < MaxSteers
    /\ runs[Root].status \notin Terminal
    /\ steers' = Append(steers, FALSE)
    /\ UNCHANGED <<plan, readOnly, runs, used, cp, ex, log>>

Unconsumed == {s \in DOMAIN steers : ~steers[s]}

\* list_unconsumed_steerings
ListSteerings(e) ==
    /\ ex[e].pc = "steer"
    /\ IF e[1] # Root \/ Unconsumed = {}
       THEN Save(e, [ex[e].at EXCEPT !.stage = "model"])
       ELSE ex' = [ex EXCEPT ![e].pc = "mark", ![e].loaded = Unconsumed] /\ UNCHANGED cp
    /\ UNCHANGED <<plan, readOnly, runs, used, steers, log>>

\* Mutant: the mark is forgotten.
MarkNothing(e) ==
    /\ ex[e].pc = "mark"
    /\ ex' = [ex EXCEPT ![e].pc = "fold"]
    /\ UNCHANGED <<plan, readOnly, runs, used, cp, steers, log>>

\* mark_steerings_consumed: every instruction there is by now.
MarkSteerings(e) ==
    /\ ex[e].pc = "mark"
    /\ steers' = [s \in DOMAIN steers |-> TRUE]
    /\ ex' = [ex EXCEPT ![e].pc = "fold"]
    /\ UNCHANGED <<plan, readOnly, runs, used, cp, log>>

\* The instructions that were listed enter the conversation.
FoldSteerings(e) ==
    /\ ex[e].pc = "fold"
    /\ Save(e, [ex[e].at EXCEPT !.stage = "model",
                   !.told = [s \in Steers |-> IF s \in ex[e].loaded THEN @[s] + 1 ELSE @[s]]])
    /\ UNCHANGED <<plan, readOnly, runs, used, steers, log>>

-----------------------------------------------------------------------------
(* The model step and the tool batch.                                       *)

\* A used-up budget ends the loop; so does an answer without tool calls.
ModelStep(e) ==
    /\ ex[e].pc = "model"
    /\ LET more == used < Limit /\ ex[e].at.node <= Len(PlanOf(e[1]))
       IN  Save(e, [ex[e].at EXCEPT !.stage = IF more THEN "tools" ELSE "finish", !.by = e[2]])
    /\ UNCHANGED <<plan, readOnly, runs, used, steers, log>>

Batch(e)     == PlanOf(e[1])[ex[e].at.node]
Denied(tool) == readOnly /\ tool = "collect"
Runnable(e)  == {p \in DOMAIN Batch(e) : ~Denied(Batch(e)[p])}
Remaining    == IF used < Limit THEN Limit - used ELSE 0

\* Mutant: a batch is granted as long as the budget is not used up.
GrantedWhole(n) == IF used < Limit THEN n ELSE 0

\* reserve_run_tree_tool_calls, one transaction on the root's row.
Granted(n) == IF n <= Remaining THEN n ELSE Remaining

\* A batch, or the replay of one, reserves slots for its runnable calls; the
\* first of them run, the others are answered without an invocation.
ReserveCalls(e) ==
    /\ ex[e].pc = "tools"
    /\ LET n == Granted(Cardinality(Runnable(e)))
           accepted == {p \in Runnable(e) : Cardinality({q \in Runnable(e) : q <= p}) <= n}
       IN  /\ used' = used + n
           /\ ex' = [ex EXCEPT ![e].pc = "calls", ![e].calls =
                        [p \in DOMAIN Batch(e) |->
                            [st |-> IF p \in accepted THEN "todo" ELSE "blocked",
                             child |-> 0, copy |-> 0]]]
    /\ UNCHANGED <<plan, readOnly, runs, cp, steers, log>>

Settled(c) == c.st \in {"done", "blocked"}

\* Calls run in parallel unless one of them is sequential.
Turn(e, p, st) ==
    /\ ex[e].pc = "calls" /\ ex[e].calls[p].st = st
    /\ (\E q \in DOMAIN Batch(e) : Batch(e)[q] = "collect" /\ ex[e].calls[q].st # "blocked")
        => \A q \in 1 .. p - 1 : Settled(ex[e].calls[q])

Become(e, p, st) == ex' = [ex EXCEPT ![e].calls[p].st = st]
Invoked == log' = [log EXCEPT !.invoked = @ + 1]

Read(e, p) ==
    /\ Turn(e, p, "todo") /\ Batch(e)[p] = "read"
    /\ Become(e, p, "done") /\ Invoked
    /\ UNCHANGED <<plan, readOnly, runs, used, cp, steers>>

\* A completed collection stores its scope: patch_run_metadata reads the
\* metadata, the counter included, and writes all of it back.
Collect(e, p) ==
    /\ Turn(e, p, "todo") /\ Batch(e)[p] = "collect"
    /\ Become(e, p, "patch") /\ Invoked
    /\ UNCHANGED <<plan, readOnly, runs, used, cp, steers>>

PatchRead(e, p) ==
    /\ Turn(e, p, "patch")
    /\ ex' = [ex EXCEPT ![e].calls[p].st = "write", ![e].calls[p].copy = used]
    /\ UNCHANGED <<plan, readOnly, runs, used, cp, steers, log>>

PatchWrite(e, p) ==
    /\ Turn(e, p, "write")
    /\ used' = ex[e].calls[p].copy
    /\ Become(e, p, "done")
    /\ UNCHANGED <<plan, readOnly, runs, cp, steers, log>>

KeyOf(e, p) == [by |-> ex[e].at.by, node |-> ex[e].at.node, pos |-> p]

\* Mutant: children are told apart by the execution that dispatches them.
ChildrenOfExecution(e, p) ==
    {r \in Runs : runs[r].status # "unborn" /\ r # Root
                  /\ runs[r].key = [KeyOf(e, p) EXCEPT !.by = e[2]]}

\* get_child_run_by_dispatch_key
ChildrenOf(e, p) ==
    {r \in Runs : runs[r].status # "unborn" /\ r # Root /\ runs[r].key = KeyOf(e, p)}

FindExpert(e, p) ==
    /\ Turn(e, p, "todo") /\ Batch(e)[p] = "expert"
    /\ \/ ChildrenOf(e, p) = {} /\ Become(e, p, "create")
       \/ \E r \in ChildrenOf(e, p) :
             ex' = [ex EXCEPT ![e].calls[p].st = "wait", ![e].calls[p].child = r]
    /\ Invoked
    /\ UNCHANGED <<plan, readOnly, runs, used, cp, steers>>

CreateExpert(e, p) ==
    /\ Turn(e, p, "create")
    /\ \E r \in Runs :
          /\ runs[r].status = "unborn" /\ \A q \in 1 .. r - 1 : runs[q].status # "unborn"
          /\ runs' = [runs EXCEPT ![r].key = KeyOf(e, p), ![r].status = "pending"]
          /\ ex' = [ex EXCEPT ![e].calls[p].st = "wait", ![e].calls[p].child = r]
    /\ UNCHANGED <<plan, readOnly, used, cp, steers, log>>

\* _wait_for_child: a poll finds the expert ended, or the window is over.
ExpertEnded(e, p) ==
    /\ Turn(e, p, "wait")
    /\ runs[ex[e].calls[p].child].status \in Terminal
    /\ Become(e, p, "done")
    /\ UNCHANGED <<plan, readOnly, runs, used, cp, steers, log>>

WindowOver(e, p) ==
    /\ "timeout" \in Faults
    /\ Turn(e, p, "wait")
    /\ Become(e, p, "done")
    /\ log' = [log EXCEPT !.timeout = TRUE]
    /\ UNCHANGED <<plan, readOnly, runs, used, cp, steers>>

\* Mutant: the batch does not wait for its experts.
EndBatchEarly(e) ==
    /\ ex[e].pc = "calls"
    /\ \A p \in DOMAIN ex[e].calls : Settled(ex[e].calls[p]) \/ ex[e].calls[p].st = "wait"
    /\ Save(e, [ex[e].at EXCEPT !.node = @ + 1, !.stage = "steer"])
    /\ UNCHANGED <<plan, readOnly, runs, used, steers, log>>

\* A batch with a call that was denied, by the policy or by the budget, is
\* the last one.
EndBatch(e) ==
    /\ ex[e].pc = "calls"
    /\ \A p \in DOMAIN ex[e].calls : Settled(ex[e].calls[p])
    /\ IF \E p \in DOMAIN ex[e].calls : ex[e].calls[p].st = "blocked"
       THEN Save(e, [ex[e].at EXCEPT !.stage = "finish"])
       ELSE Save(e, [ex[e].at EXCEPT !.node = @ + 1, !.stage = "steer"])
    /\ UNCHANGED <<plan, readOnly, runs, used, steers, log>>

-----------------------------------------------------------------------------
(* The end of a run.                                                        *)

\* _finalize_expert_run: artifact, message to the parent, events; then the
\* answer turn.
Deliver(e) ==
    /\ ex[e].pc = "finish"
    /\ IF runs[e[1]].status = "cancelled"
       THEN ex' = [ex EXCEPT ![e] = Over] /\ UNCHANGED log
       ELSE /\ ex' = [ex EXCEPT ![e].pc = "complete"]
            /\ log' = [log EXCEPT !.delivered = @ \cup {e[1]}]
    /\ UNCHANGED <<plan, readOnly, runs, used, cp, steers>>

EndAs(e, s) ==
    /\ runs' = [runs EXCEPT ![e[1]].status = s]
    /\ ex' = [ex EXCEPT ![e] = Over]
    /\ UNCHANGED <<plan, readOnly, used, cp, steers>>

Complete(e) == ex[e].pc = "complete" /\ EndAs(e, "completed") /\ UNCHANGED log

MayFail == log.failures < MaxFailures

Raise(e) ==
    /\ "raise" \in Faults /\ MayFail
    /\ Spends(e)
    /\ EndAs(e, "failed")
    /\ log' = [log EXCEPT !.failures = @ + 1]

\* A kill; the executions of a tree may be spread over processes.
Crash(e) ==
    /\ "crash" \in Faults
    /\ Live(e) /\ Retriable(e[1])
    /\ ex' = [ex EXCEPT ![e] = Over]
    /\ UNCHANGED <<plan, readOnly, runs, used, cp, steers, log>>

\* Cancelling a run leaves its experts alone.  Of its executions it cancels
\* the one the answering process has registered, or none: those of another
\* process go on until they look at the status themselves.
Cancel(r) ==
    /\ "cancel" \in Faults /\ MayFail
    /\ runs[r].status # "unborn"
    /\ runs' = [runs EXCEPT ![r].status = "cancelled"]
    /\ LET mine == {e \in Execs : e[1] = r /\ Spends(e)}
       IN  \/ /\ ex' = ex
             /\ log' = [log EXCEPT !.failures = @ + 1, !.missed = @ \/ mine # {}]
          \/ \E e \in mine :
               /\ ex' = [ex EXCEPT ![e] = Ending]
               /\ log' = [log EXCEPT !.failures = @ + 1, !.missed = @ \/ mine # {e}]
    /\ UNCHANGED <<plan, readOnly, used, cp, steers>>

\* A cancelled task writes the status once more.
CancelledEnds(e) == ex[e].pc = "ending" /\ EndAs(e, "cancelled") /\ UNCHANGED log

-----------------------------------------------------------------------------

CallStep(e, p) ==
    \/ Read(e, p) \/ Collect(e, p) \/ PatchRead(e, p) \/ PatchWrite(e, p)
    \/ FindExpert(e, p) \/ CreateExpert(e, p) \/ ExpertEnded(e, p)

Work(e) ==
    \/ StartRun(e) \/ CancelledEnds(e)
    \/ ListSteerings(e) \/ MarkSteerings(e) \/ FoldSteerings(e)
    \/ ModelStep(e) \/ ReserveCalls(e) \/ EndBatch(e)
    \/ \E p \in DOMAIN ex[e].calls : CallStep(e, p)
    \/ Deliver(e) \/ Complete(e)

Next ==
    \/ Steer
    \/ \E r \in Runs : Claim(r) \/ LeaseExpires(r) \/ Cancel(r)
    \/ \E e \in Execs : \/ Work(e) \/ Raise(e) \/ Crash(e)
                        \/ \E p \in DOMAIN ex[e].calls : WindowOver(e, p)

Spec == Init /\ [][Next]_vars

-----------------------------------------------------------------------------

TypeOK ==
    /\ plan \in Plans /\ readOnly \in ReadOnlyModes
    /\ runs \in [Runs -> Row]
    /\ used \in 0 .. Limit
    /\ cp \in [Runs -> Checkpoint]
    /\ ex \in [Execs -> Execution]
    /\ steers \in Seq(BOOLEAN) /\ Len(steers) <= MaxSteers
    /\ log \in History

\* A read-only tree never invokes more tools than its limit, however its runs
\* share the counter, die and replay their batches: every invocation was
\* paid for.
ReadOnlyWithinLimit == readOnly => log.invoked <= used /\ used <= Limit

\* No instruction enters a conversation twice: what the comment on the
\* steering loader promises for a crash between load and apply.
FoldedOnce ==
    \A s \in Steers : /\ \A r \in Runs : cp[r].told[s] <= 1
                      /\ \A e \in Execs : ex[e].at.told[s] <= 1

\* A dispatch creates one expert, through crashes and replays, and a
\* coordinator that got through its plan leaves none behind that still spends
\* its budget, or that will be claimed and spend it, unless it gave up
\* waiting.  Two executions of the coordinator at once can create two; and an
\* expert cancelled in one process that is executed in another goes on after
\* the coordinator has seen it ended.
OneExpertPerCall ==
    ~log.overlap =>
        /\ \A q, r \in Runs \ {Root} :
               runs[q].status # "unborn" /\ runs[q].key = runs[r].key => q = r
        /\ /\ runs[Root].status = "completed" /\ cp[Root].node > Len(plan)
           /\ ~log.timeout /\ ~log.missed
           => /\ \A r \in Runs : runs[r].status \in Terminal \cup {"unborn"}
              /\ \A e \in Execs : ~Spends(e)

\* A parent that sees its expert completed finds the result.
ResultBeforeStatus ==
    \A r \in Runs : runs[r].status = "completed" => r \in log.delivered

\* Nobody waits for what nobody does: when no worker can claim, no lease can
\* run out and no execution can take a step, every run of the tree has ended.
QuietMeansEnded ==
    (/\ \A r \in Runs : ~ENABLED Claim(r) /\ ~ENABLED LeaseExpires(r)
     /\ \A e \in Execs : ~ENABLED Work(e))
        => \A r \in Runs : runs[r].status \in Terminal \cup {"unborn"}

\* An accepted instruction reaches the model: it is consumed only when it
\* is in the conversation or about to enter it.
ConsumedIsHeard ==
    \A s \in DOMAIN steers : steers[s] /\ runs[Root].status \notin Terminal =>
        \/ cp[Root].told[s] > 0
        \/ \E e \in Execs : Live(e) /\ s \in ex[e].loaded
=============================================================================
