------------------------------ MODULE AgentRun ------------------------------
(***************************************************************************)
(* One durable agent run: the agent_runs row and its lease, the graph      *)
(* worker that claims it and drives the checkpointed agent loop, the       *)
(* approvals that interrupt the loop, the one-time authorizations, and the *)
(* operators who decide, resume and cancel.                                *)
(*                                                                         *)
(* What the language model does is data: a plan is the sequence of graph   *)
(* nodes it leads to, model steps and tool batches, and a node is the unit *)
(* of checkpointing.  The n-th claim of the row creates execution n.  The  *)
(* lease is never refreshed, so a long execution outlives it.              *)
(***************************************************************************)
EXTENDS Integers, Sequences, FiniteSets

CONSTANTS
    Procs,         \* processes; each runs a worker and answers requests
    WorkerIds,     \* values of settings.worker_id
    WorkerId,      \* the worker id each process is configured with
    NoOwner,       \* lease_owner is NULL
    NoProc,        \* the process of an execution that does not exist yet
    Clients,       \* requests in flight at one time
    Plans,         \* the node sequences the model may lead to
    Preapproved,   \* metadata.approve_crawl
    DefaultScope,  \* rank of a scope with the default limits and no time window
    NullsFirst,    \* ORDER BY decided_at DESC puts NULL first (PostgreSQL)
    Patient,       \* operators decide only once the row says waiting_approval
    Decisions,     \* decisions the operators may take
    Requests,      \* further requests: "cancel", "resume", "repeat" a decision
    Faults,        \* "crash", "stop", "raise", "overrun", "abandon"
    MaxClaims,     \* bound: claims of the row
    FaultyClaims,  \* bound: only executions up to this one are killed
    MaxApprovals,  \* bound: approvals created
    MaxRequests    \* bound: requests made

Gated   == {"collect", "start"}          \* ToolSpec.requires_approval
Actions == Gated \cup {"budget"}
\* The scope of a call (platforms, limits, time window) is its rank: a call
\* expands a scope of lower rank; 0 stands for none.
Calls   == [tool : Gated \cup {"free"}, scope : Nat]

Nodes == [kind : {"model"}, over : BOOLEAN] \cup [kind : {"tools"}, calls : Seq(Calls)]

ASSUME AgentAssumption ==
    /\ WorkerId \in [Procs -> WorkerIds] /\ NoOwner \notin WorkerIds /\ NoProc \notin Procs
    /\ Plans \subseteq Seq(Nodes)
    /\ DefaultScope \in Nat \ {0}
    /\ Preapproved \in BOOLEAN /\ NullsFirst \in BOOLEAN /\ Patient \in BOOLEAN
    /\ Decisions \subseteq {"approve", "edit", "reject", "cancel"}
    /\ Requests \subseteq {"cancel", "resume", "repeat"}
    /\ Faults \subseteq {"crash", "stop", "raise", "overrun", "abandon"}
    /\ MaxClaims \in Nat /\ FaultyClaims \in Nat /\ MaxApprovals \in Nat /\ MaxRequests \in Nat

VARIABLES
    plan,        \* what the model will do
    status,      \* agent_runs.status
    leaseOwner,  \* lease_owner
    lease,       \* lease_expires_at: "none", "live" or "expired"
    claims,      \* claims made so far
    meta,        \* metadata_json: budget approved, approved crawl scope
    approvals,   \* the approvals rows, each with its authorization
    decided,     \* clock of decided_at
    cp,          \* the LangGraph checkpoint of the thread
    ex,          \* the executions
    handle,      \* per process, the execution _run_tasks holds (0: none)
    client,      \* the requests in flight
    made,        \* requests made so far
    log          \* history: calls invoked and refused

row  == <<status, leaseOwner, lease, claims>>
vars == <<plan, row, meta, approvals, decided, cp, ex, handle, client, made, log>>

Terminal  == {"completed", "failed", "cancelled"}
Statuses  == {"pending", "running", "waiting_approval"} \cup Terminal
Granted   == {"approved", "approved_with_edits"}
DecidedStatuses == Granted \cup {"rejected", "cancelled"}
Execs     == 1 .. MaxClaims
ApprovalIds == 1 .. MaxApprovals

\* An interrupt of the graph: the action it asks for, and where.
Request == [action : Actions, node : Nat, pos : Nat, scope : Nat]

\* The decision an execution resumes with: the approval it comes from.
Answer == [approval : ApprovalIds, granted : BOOLEAN]

Checkpoint == [node : Nat, by : 0 .. MaxClaims, interrupts : Seq(Request), answers : Seq(Answer)]

Approval == [ask : Request, status : {"pending"} \cup DecidedStatuses,
             at : Nat, auth : {"none", "issued", "consumed"}, bound : BOOLEAN]

ExecPCs == {"unborn", "load", "mark", "look", "node", "consume", "invoke",
            "ask", "park", "check", "complete", "emit", "fail", "abort", "release", "over"}

Execution ==
    [pc : ExecPCs, proc : Procs \cup {NoProc}, node : Nat, base : 0 .. MaxClaims,
     pos : Nat, asked : Nat,
     answers : Seq(Answer), approval : 0 .. MaxApprovals,
     tools : SUBSET Actions, scope : Nat, request : Seq(Request)]

Unborn == [pc |-> "unborn", proc |-> NoProc, node |-> 0, base |-> 0,
           pos |-> 1, asked |-> 0, answers |-> <<>>, approval |-> 0,
           tools |-> {}, scope |-> 0, request |-> <<>>]
Over(x) == [Unborn EXCEPT !.pc = "over", !.proc = x.proc]

Client == [pc : {"idle", "patch", "authorize", "update", "resume", "repend", "mark"},
           decision : {"none"} \cup Decisions, approval : 0 .. MaxApprovals]

NoClient == [pc |-> "idle", decision |-> "none", approval |-> 0]

\* A call that was made: of the plan, by an execution, under an approval.
Invocation == [node : Nat, pos : Nat, by : Execs, approval : 0 .. MaxApprovals]
History == [calls : SUBSET Invocation, refused : SUBSET [node : Nat, pos : Nat]]

Init ==
    /\ plan \in Plans
    /\ status = "pending" /\ leaseOwner = NoOwner /\ lease = "none" /\ claims = 0
    /\ meta = [budget |-> FALSE, scope |-> 0]
    /\ approvals = <<>> /\ decided = 0
    /\ cp = [node |-> 1, by |-> 0, interrupts |-> <<>>, answers |-> <<>>]
    /\ ex = [e \in Execs |-> Unborn]
    /\ handle = [w \in Procs |-> 0]
    /\ client = [c \in Clients |-> NoClient] /\ made = 0
    /\ log = [calls |-> {}, refused |-> {}]

Live(e) == ex[e].pc \notin {"unborn", "over"}
Node(e) == plan[ex[e].node]
Call(e) == Node(e).calls[ex[e].pos]

Goto(e, pc) == ex' = [ex EXCEPT ![e].pc = pc]

-----------------------------------------------------------------------------
(* Claim and lease.                                                         *)

Claimable == status \in {"pending", "running"} /\ lease \in {"none", "expired"}

Claim(w) ==
    /\ Claimable
    /\ claims < MaxClaims
    /\ claims' = claims + 1
    /\ leaseOwner' = WorkerId[w] /\ lease' = "live"
    /\ ex' = [ex EXCEPT ![claims + 1] = [Unborn EXCEPT !.pc = "load", !.proc = w]]
    /\ handle' = [handle EXCEPT ![w] = claims + 1]
    /\ UNCHANGED <<plan, status, meta, approvals, decided, cp, client, made, log>>

LeaseExpires ==
    /\ lease = "live"
    /\ "overrun" \in Faults \/ \A e \in Execs : ~Live(e)
    /\ lease' = "expired"
    /\ UNCHANGED <<plan, status, leaseOwner, claims, meta, approvals, decided, cp,
                   ex, handle, client, made, log>>

\* release_agent_run, then the done callback of the task, which forgets
\* whatever task of the run the process holds.
Release(e) ==
    /\ ex[e].pc = "release"
    /\ IF leaseOwner = WorkerId[ex[e].proc]
       THEN leaseOwner' = NoOwner /\ lease' = "none"
       ELSE UNCHANGED <<leaseOwner, lease>>
    /\ ex' = [ex EXCEPT ![e] = Over(@)]
    /\ handle' = [handle EXCEPT ![ex[e].proc] = 0]
    /\ UNCHANGED <<plan, status, claims, meta, approvals, decided, cp, client, made, log>>

-----------------------------------------------------------------------------
(* _execute up to the graph: the context is built from the metadata, the    *)
(* row is marked running whatever its status, the checkpoint is loaded.     *)

LoadContext(e) ==
    /\ ex[e].pc = "load"
    /\ ex' = [ex EXCEPT ![e].pc = "mark", ![e].scope = meta.scope,
                 ![e].tools = (IF Preapproved THEN Gated ELSE {})
                                \cup (IF meta.budget THEN {"budget"} ELSE {})]
    /\ UNCHANGED <<plan, row, meta, approvals, decided, cp, handle, client, made, log>>

MarkRunning(e) ==
    /\ ex[e].pc = "mark"
    /\ status' = "running"
    /\ Goto(e, "look")
    /\ UNCHANGED <<plan, leaseOwner, lease, claims, meta, approvals, decided, cp,
                   handle, client, made, log>>

\* Mutant: the decided approvals are sorted the wrong way round.
OldestDecided ==
    LET done == {a \in DOMAIN approvals : approvals[a].status \in DecidedStatuses}
    IN  {a \in done : \A b \in done : approvals[a].at <= approvals[b].at}

\* get_latest_decided_approval: ORDER BY decided_at DESC LIMIT 1, over every
\* decided approval of the run; a cancelled one has no decided_at.
LatestDecided ==
    LET done  == {a \in DOMAIN approvals : approvals[a].status \in DecidedStatuses}
        nulls == {a \in done : approvals[a].at = 0}
        dated == {a \in done : \A b \in done : approvals[b].at <= approvals[a].at} \ nulls
    IN  IF (NullsFirst /\ nulls # {}) \/ dated = {} THEN nulls ELSE dated

\* Mutant: a resumed graph starts after the interrupted node.
StartGraphAfter(x, approval, answers) ==
    LET node == IF answers = <<>> THEN cp.node ELSE cp.node + 1
    IN  [x EXCEPT !.pc = IF node > Len(plan) THEN "check" ELSE "node",
                  !.node = node, !.base = cp.by, !.approval = approval]

\* The graph starts at the node of the checkpoint, which re-runs from its
\* beginning; answers are the decisions its interrupts will return in order,
\* none for a node that has not been interrupted.
StartGraph(x, approval, answers) ==
    [x EXCEPT !.pc = IF cp.node > Len(plan) THEN "check" ELSE "node",
              !.node = cp.node, !.base = cp.by, !.approval = approval, !.answers = answers]

LookAtCheckpoint(e) ==
    /\ ex[e].pc = "look"
    /\ \/ /\ cp.interrupts = <<>>
          /\ ex' = [ex EXCEPT ![e] = StartGraph(@, 0, <<>>)]
       \/ /\ cp.interrupts # <<>> /\ LatestDecided = {}
          /\ ex' = [ex EXCEPT ![e].pc = "ask", ![e].request = cp.interrupts]
       \/ /\ cp.interrupts # <<>>
          /\ \E a \in LatestDecided :
                ex' = [ex EXCEPT ![e] = StartGraph(@, a,
                         Append(cp.answers, [approval |-> a,
                                             granted |-> approvals[a].status \in Granted]))]
    /\ UNCHANGED <<plan, row, meta, approvals, decided, cp, handle, client, made, log>>

-----------------------------------------------------------------------------
(* The nodes.                                                               *)

\* interrupt(): the k-th one of a node returns its k-th answer ...
Answered(e) == ex[e].asked < Len(ex[e].answers)
NextAnswer(e) == ex[e].answers[ex[e].asked + 1]
\* ... and an answer once used is written to the checkpoint the execution
\* runs from.  An overlapping execution may have written a later one: a
\* checkpoint is known by its node and the execution that wrote it.
OnCheckpoint(e) == cp.node = ex[e].node /\ cp.by = ex[e].base
UseAnswer(e) ==
    cp' = IF OnCheckpoint(e)
          THEN [cp EXCEPT !.answers = SubSeq(ex[e].answers, 1, ex[e].asked + 1)] ELSE cp

Interrupt(e, request) ==
    /\ cp' = IF OnCheckpoint(e)
             THEN [cp EXCEPT !.interrupts = <<request>>,
                             !.answers = SubSeq(ex[e].answers, 1, ex[e].asked)]
             ELSE cp
    /\ ex' = [ex EXCEPT ![e].pc = "ask", ![e].request = <<request>>]

\* The node is done: the checkpoint moves to the next one.
CompleteNode(e) ==
    /\ cp' = [node |-> ex[e].node + 1, by |-> e, interrupts |-> <<>>, answers |-> <<>>]
    /\ ex' = [ex EXCEPT ![e].node = @ + 1, ![e].base = e, ![e].pos = 1, ![e].asked = 0, ![e].answers = <<>>,
                        ![e].pc = IF ex[e].node = Len(plan) THEN "check" ELSE "node"]

AtModel(e) == ex[e].pc = "node" /\ Node(e).kind = "model"
NeedsBudget(e) == Node(e).over /\ "budget" \notin ex[e].tools

AskBudget(e) ==
    /\ AtModel(e) /\ NeedsBudget(e) /\ ~Answered(e)
    /\ Interrupt(e, [action |-> "budget", node |-> ex[e].node, pos |-> 0, scope |-> 0])
    /\ UNCHANGED <<plan, row, meta, approvals, decided, handle, client, made, log>>

BudgetAnswer(e) ==
    /\ AtModel(e) /\ NeedsBudget(e) /\ Answered(e)
    /\ UseAnswer(e)
    /\ ex' = [ex EXCEPT ![e].asked = @ + 1,
                 ![e].tools = IF NextAnswer(e).granted THEN @ \cup {"budget"} ELSE @,
                 ![e].pc    = IF NextAnswer(e).granted THEN @ ELSE "fail"]
    /\ UNCHANGED <<plan, row, meta, approvals, decided, handle, client, made, log>>

ModelStep(e) ==
    /\ AtModel(e) /\ ~NeedsBudget(e)
    /\ CompleteNode(e)
    /\ UNCHANGED <<plan, row, meta, approvals, decided, handle, client, made, log>>

\* A batch with a gated call is sequential (both gated tools are).
AtCall(e) == /\ ex[e].pc = "node" /\ Node(e).kind = "tools"
             /\ ex[e].pos <= Len(Node(e).calls)

\* Mutant: only a wider scope needs an approval.
NeedsWiderScope(e) ==
    /\ Call(e).tool \in Gated
    /\ ex[e].scope > 0 /\ Call(e).scope > ex[e].scope

NeedsApproval(e) ==
    /\ Call(e).tool \in Gated
    /\ \/ Call(e).tool \notin ex[e].tools
       \/ ex[e].scope > 0 /\ Call(e).scope > ex[e].scope

\* A gated tool needs the one-time authorization of the approval the
\* execution was resumed with, if it was resumed with one.
AfterApproval(e) == IF Call(e).tool \in Gated /\ ex[e].approval # 0 THEN "consume" ELSE "invoke"
KnownScope(e) == IF Call(e).tool \in Gated THEN Call(e).scope ELSE ex[e].scope

AskTool(e) ==
    /\ AtCall(e) /\ NeedsApproval(e) /\ ~Answered(e)
    /\ Interrupt(e, [action |-> Call(e).tool, node |-> ex[e].node,
                     pos |-> ex[e].pos, scope |-> Call(e).scope])
    /\ UNCHANGED <<plan, row, meta, approvals, decided, handle, client, made, log>>

ToolRejected(e) ==
    /\ AtCall(e) /\ NeedsApproval(e) /\ Answered(e)
    /\ ~NextAnswer(e).granted
    /\ UseAnswer(e)
    /\ ex' = [ex EXCEPT ![e].asked = @ + 1, ![e].pos = @ + 1]
    /\ log' = [log EXCEPT !.refused = @ \cup {[node |-> ex[e].node, pos |-> ex[e].pos]}]
    /\ UNCHANGED <<plan, row, meta, approvals, decided, handle, client, made>>

ToolGranted(e) ==
    /\ AtCall(e) /\ NeedsApproval(e) /\ Answered(e)
    /\ NextAnswer(e).granted
    /\ UseAnswer(e)
    /\ ex' = [ex EXCEPT ![e].asked = @ + 1, ![e].scope = KnownScope(e),
                 ![e].tools = @ \cup {Call(e).tool}, ![e].pc = AfterApproval(e)]
    /\ UNCHANGED <<plan, row, meta, approvals, decided, handle, client, made, log>>

ToolAllowed(e) ==
    /\ AtCall(e) /\ ~NeedsApproval(e)
    /\ ex' = [ex EXCEPT ![e].scope = KnownScope(e), ![e].pc = AfterApproval(e)]
    /\ UNCHANGED <<plan, row, meta, approvals, decided, cp, handle, client, made, log>>

\* Mutant: a consumed authorization still authorizes.
AuthorizesAgain(a, call) ==
    /\ approvals[a].auth # "none"
    /\ approvals[a].ask.action = call.tool
    /\ call.tool = "collect" => approvals[a].bound /\ approvals[a].ask.scope = call.scope

\* consume_for_tool: approval, tool and (for collect) normalised scope must
\* match.  The hash of edited arguments is taken over the raw arguments and
\* never equals that of a scope: bound is FALSE.
Authorizes(a, call) ==
    /\ approvals[a].auth = "issued"
    /\ approvals[a].ask.action = call.tool
    /\ call.tool = "collect" => approvals[a].bound /\ approvals[a].ask.scope = call.scope

Consume(e) ==
    /\ ex[e].pc = "consume"
    /\ LET a == ex[e].approval
       IN  IF Authorizes(a, Call(e))
           THEN approvals' = [approvals EXCEPT ![a].auth = "consumed"] /\ Goto(e, "invoke")
           ELSE UNCHANGED approvals /\ Goto(e, "fail")
    /\ UNCHANGED <<plan, row, meta, decided, cp, handle, client, made, log>>

\* The tool runs; a collect that completes records its scope.
Invoke(e) ==
    /\ ex[e].pc = "invoke"
    /\ log' = [log EXCEPT !.calls = @ \cup {[node |-> ex[e].node, pos |-> ex[e].pos,
                                            by |-> e, approval |-> ex[e].approval]}]
    /\ \/ UNCHANGED meta
       \/ Call(e).tool = "collect" /\ meta' = [meta EXCEPT !.scope = Call(e).scope]
    /\ ex' = [ex EXCEPT ![e].pc = "node", ![e].pos = @ + 1]
    /\ UNCHANGED <<plan, row, approvals, decided, cp, handle, client, made>>

EndBatch(e) ==
    /\ ex[e].pc = "node" /\ Node(e).kind = "tools"
    /\ ex[e].pos > Len(Node(e).calls)
    /\ CompleteNode(e)
    /\ UNCHANGED <<plan, row, meta, approvals, decided, handle, client, made, log>>

-----------------------------------------------------------------------------
(* The end of an execution.                                                 *)

\* _persist_approval: one pending row per action.
PersistApproval(e) ==
    /\ ex[e].pc = "ask"
    /\ IF \E a \in DOMAIN approvals : /\ approvals[a].status = "pending"
                                      /\ approvals[a].ask.action = ex[e].request[1].action
       THEN UNCHANGED approvals
       ELSE /\ Len(approvals) < MaxApprovals
            /\ approvals' = Append(approvals, [ask |-> ex[e].request[1], status |-> "pending",
                                               at |-> 0, auth |-> "none", bound |-> TRUE])
    /\ Goto(e, "park")
    /\ UNCHANGED <<plan, row, meta, decided, cp, handle, client, made, log>>

Park(e) ==
    /\ ex[e].pc = "park"
    /\ status' = "waiting_approval"
    /\ Goto(e, "release")
    /\ UNCHANGED <<plan, leaseOwner, lease, claims, meta, approvals, decided, cp,
                   handle, client, made, log>>

\* The run is completed unless its row says cancelled by now; the answer
\* turn, the summary and the extraction lie between the check and the write.
CheckCancelled(e) ==
    /\ ex[e].pc = "check"
    /\ Goto(e, IF status = "cancelled" THEN "release" ELSE "complete")
    /\ UNCHANGED <<plan, row, meta, approvals, decided, cp, handle, client, made, log>>

EndAs(e, pc, s, next) ==
    /\ ex[e].pc = pc
    /\ status' = s
    /\ Goto(e, next)
    /\ UNCHANGED <<plan, leaseOwner, lease, claims, meta, approvals, decided, cp,
                   handle, client, made, log>>

Complete(e)      == EndAs(e, "complete", "completed", "emit")
FailRun(e)       == EndAs(e, "fail", "failed", "release")
MarkCancelled(e) == EndAs(e, "abort", "cancelled", "release")

\* The cost summary and the end event follow the status; if they raise or
\* are cancelled, the completed run is failed or cancelled.
EmitEnd(e) ==
    /\ ex[e].pc = "emit"
    /\ Goto(e, "release")
    /\ UNCHANGED <<plan, row, meta, approvals, decided, cp, handle, client, made, log>>

\* Anything that raises inside _execute: the model, a tool, the database.
ExecuteRaises(e) ==
    /\ "raise" \in Faults
    /\ ex[e].pc \notin {"unborn", "fail", "abort", "release", "over"}
    /\ Goto(e, "fail")
    /\ UNCHANGED <<plan, row, meta, approvals, decided, cp, handle, client, made, log>>

\* task.cancel(): the handlers of _execute_with_cleanup are cancellable too.
CancelTask(x) ==
    CASE x.pc = "release"          -> Over(x)
      [] x.pc \in {"fail", "abort"} -> [x EXCEPT !.pc = "release"]
      [] OTHER                     -> [x EXCEPT !.pc = "abort"]

\* A kill ends the tasks and the requests of a process without a trace ...
Crash(w) ==
    /\ "crash" \in Faults
    /\ \E e \in Execs : Live(e) /\ ex[e].proc = w
    /\ \A e \in Execs : Live(e) /\ ex[e].proc = w => e <= FaultyClaims
    /\ ex' = [e \in Execs |-> IF Live(e) /\ ex[e].proc = w THEN Over(ex[e]) ELSE ex[e]]
    /\ handle' = [handle EXCEPT ![w] = 0]
    /\ UNCHANGED <<plan, row, meta, approvals, decided, cp, client, made, log>>

\* ... a graceful stop() cancels every task it knows, waits for them and
\* leaves the place to a new process.
Stop(w) ==
    /\ "stop" \in Faults
    /\ handle[w] # 0 /\ Live(handle[w])
    /\ ex' = [ex EXCEPT ![handle[w]] = CancelTask(@)]
    /\ handle' = [handle EXCEPT ![w] = 0]
    /\ UNCHANGED <<plan, row, meta, approvals, decided, cp, client, made, log>>

-----------------------------------------------------------------------------
(* Requests.  Each is a sequence of transactions; the approval it decides   *)
(* was read when it began.                                                  *)

Idle(c) == client[c].pc = "idle" /\ made < MaxRequests
Step(c, pc) == client' = [client EXCEPT ![c].pc = pc]
Done(c) == client' = [client EXCEPT ![c] = NoClient]

\* Mutant: the decision is stored instead of the status it stands for.
DecisionAsStatus(d) == d

TargetStatus(d) == CASE d = "approve" -> "approved"
                     [] d = "edit"    -> "approved_with_edits"
                     [] d = "reject"  -> "rejected"
                     [] d = "cancel"  -> "cancelled"

\* approve(): a decision equal to the one taken goes straight to resume.
Decide(c, a, d) ==
    /\ Idle(c)
    /\ Patient => status = "waiting_approval"
    /\ \/ approvals[a].status = "pending"
       \/ "repeat" \in Requests /\ approvals[a].status = TargetStatus(d)
    /\ client' = [client EXCEPT ![c] =
            [pc |-> IF approvals[a].status # "pending" THEN "resume"
                    ELSE IF d \in {"approve", "edit"} THEN "patch" ELSE "update",
             decision |-> d, approval |-> a]]
    /\ made' = made + 1
    /\ UNCHANGED <<plan, row, meta, approvals, decided, cp, ex, handle, log>>

\* The scope in the request of a collect is normalised already; normalising
\* it again loses its limits and its window to the defaults.
GrantedScope(ask, d) ==
    IF ask.action = "collect" /\ d # "edit" THEN DefaultScope ELSE ask.scope

\* The metadata is patched before anything says the approval is granted.
PatchMetadata(c) ==
    /\ client[c].pc = "patch"
    /\ LET ask == approvals[client[c].approval].ask
       IN  meta' = IF ask.action = "budget" THEN [meta EXCEPT !.budget = TRUE]
                   ELSE [meta EXCEPT !.scope = GrantedScope(ask, client[c].decision)]
    /\ Step(c, "authorize")
    /\ UNCHANGED <<plan, row, approvals, decided, cp, ex, handle, made, log>>

\* create_execution_authorization: approval_id is unique.
CreateAuthorization(c) ==
    /\ client[c].pc = "authorize"
    /\ LET a == client[c].approval
       IN  IF approvals[a].auth = "none"
           THEN /\ approvals' = [approvals EXCEPT ![a].auth = "issued",
                                     ![a].bound = client[c].decision # "edit"]
                /\ Step(c, "update")
           ELSE UNCHANGED approvals /\ Done(c)
    /\ UNCHANGED <<plan, row, meta, decided, cp, ex, handle, made, log>>

\* Mutant: the last decision wins.
OverwriteApproval(c) ==
    /\ client[c].pc = "update"
    /\ decided' = decided + 1
    /\ approvals' = [approvals EXCEPT ![client[c].approval].status = TargetStatus(client[c].decision),
                                      ![client[c].approval].at = decided + 1]
    /\ Step(c, "resume")
    /\ UNCHANGED <<plan, row, meta, cp, ex, handle, made, log>>

\* update_approval_full refuses to change a decision; decided_at is set for
\* approvals and rejections only.
UpdateApproval(c) ==
    /\ client[c].pc = "update"
    /\ LET a == client[c].approval
           s == TargetStatus(client[c].decision)
       IN  IF approvals[a].status \in {"pending", s}
           THEN /\ decided' = IF s = "cancelled" THEN decided ELSE decided + 1
                /\ approvals' = [approvals EXCEPT ![a].status = s,
                                    ![a].at = IF s = "cancelled" THEN @ ELSE decided + 1]
                /\ Step(c, "resume")
           ELSE UNCHANGED <<approvals, decided>> /\ Done(c)
    /\ UNCHANGED <<plan, row, meta, cp, ex, handle, made, log>>

BareResume(c) ==
    /\ "resume" \in Requests
    /\ Idle(c)
    /\ client' = [client EXCEPT ![c] = [NoClient EXCEPT !.pc = "resume"]]
    /\ made' = made + 1
    /\ UNCHANGED <<plan, row, meta, approvals, decided, cp, ex, handle, log>>

\* Mutant: a waiting run is not made pending again.
ResumeIfActive(c) ==
    /\ client[c].pc = "resume"
    /\ IF status \in Terminal \cup {"waiting_approval"} THEN Done(c) ELSE Step(c, "repend")
    /\ UNCHANGED <<plan, row, meta, approvals, decided, cp, ex, handle, made, log>>

\* resume(): reads the status, then writes "pending".
ResumeRead(c) ==
    /\ client[c].pc = "resume"
    /\ IF status \in Terminal THEN Done(c) ELSE Step(c, "repend")
    /\ UNCHANGED <<plan, row, meta, approvals, decided, cp, ex, handle, made, log>>

ResumeWrite(c) ==
    /\ client[c].pc = "repend"
    /\ status' = "pending"
    /\ Done(c)
    /\ UNCHANGED <<plan, leaseOwner, lease, claims, meta, approvals, decided, cp,
                   ex, handle, made, log>>

\* cancel(): the task, if the process that answers holds one, then the row.
CancelRun(c, w) ==
    /\ "cancel" \in Requests
    /\ Idle(c)
    /\ ex' = IF handle[w] # 0 /\ Live(handle[w])
             THEN [ex EXCEPT ![handle[w]] = CancelTask(@)] ELSE ex
    /\ client' = [client EXCEPT ![c] = [NoClient EXCEPT !.pc = "mark"]]
    /\ made' = made + 1
    /\ UNCHANGED <<plan, row, meta, approvals, decided, cp, handle, log>>

CancelWrite(c) ==
    /\ client[c].pc = "mark"
    /\ status' = "cancelled"
    /\ Done(c)
    /\ UNCHANGED <<plan, leaseOwner, lease, claims, meta, approvals, decided, cp,
                   ex, handle, made, log>>

\* The process that answers the request dies.
Abandon(c) ==
    /\ "abandon" \in Faults
    /\ client[c].pc # "idle"
    /\ Done(c)
    /\ UNCHANGED <<plan, row, meta, approvals, decided, cp, ex, handle, made, log>>

-----------------------------------------------------------------------------

Work(e) ==
    \/ LoadContext(e) \/ MarkRunning(e) \/ LookAtCheckpoint(e)
    \/ AskBudget(e) \/ BudgetAnswer(e) \/ ModelStep(e)
    \/ AskTool(e) \/ ToolRejected(e) \/ ToolGranted(e) \/ ToolAllowed(e)
    \/ Consume(e) \/ Invoke(e) \/ EndBatch(e)
    \/ PersistApproval(e) \/ Park(e) \/ CheckCancelled(e)
    \/ Complete(e) \/ EmitEnd(e) \/ FailRun(e) \/ MarkCancelled(e) \/ Release(e)

Serve(c) ==
    \/ PatchMetadata(c) \/ CreateAuthorization(c) \/ UpdateApproval(c)
    \/ ResumeRead(c) \/ ResumeWrite(c) \/ CancelWrite(c)

Operate(c) ==
    \E a \in DOMAIN approvals, d \in Decisions : Decide(c, a, d)

Next ==
    \/ LeaseExpires
    \/ \E w \in Procs : Claim(w) \/ Crash(w) \/ Stop(w)
    \/ \E e \in Execs : Work(e) \/ ExecuteRaises(e)
    \/ \E c \in Clients : \/ Operate(c) \/ Serve(c) \/ BareResume(c) \/ Abandon(c)
                          \/ \E w \in Procs : CancelRun(c, w)

Spec == Init /\ [][Next]_vars

\* Workers poll, executions run, requests are answered, an abandoned lease
\* runs out, and somebody takes a decision when one is awaited.
Fairness ==
    /\ WF_vars(\E w \in Procs : Claim(w)) /\ WF_vars(LeaseExpires)
    /\ \A e \in Execs : WF_vars(Work(e))
    /\ \A c \in Clients : WF_vars(Serve(c)) /\ WF_vars(Operate(c))

FairSpec == Spec /\ Fairness

-----------------------------------------------------------------------------

TypeOK ==
    /\ plan \in Plans
    /\ status \in Statuses
    /\ leaseOwner \in WorkerIds \cup {NoOwner}
    /\ lease \in {"none", "live", "expired"}
    /\ claims \in 0 .. MaxClaims
    /\ meta \in [budget : BOOLEAN, scope : Nat]
    /\ approvals \in Seq(Approval) /\ Len(approvals) <= MaxApprovals
    /\ decided \in Nat
    /\ cp \in Checkpoint
    /\ ex \in [Execs -> Execution]
    /\ handle \in [Procs -> 0 .. MaxClaims]
    /\ client \in [Clients -> Client] /\ made \in 0 .. MaxRequests
    /\ log \in History

Tool(l) == plan[l.node].calls[l.pos].tool
GatedCalls == {l \in log.calls : Tool(l) \in Gated}

\* No gated tool runs without an authorization: whoever claimed the run and
\* however often, the call consumed the authorization which an operator's
\* approval of that tool issued, for a collection with exactly its scope.
GatedCallsAreAuthorized ==
    \A l \in GatedCalls :
        IF l.approval = 0 THEN Preapproved
        ELSE /\ approvals[l.approval].auth = "consumed"
             /\ approvals[l.approval].ask.action = Tool(l)
             /\ Tool(l) = "collect"
                    => approvals[l.approval].ask.scope = plan[l.node].calls[l.pos].scope

\* An authorization pays for one invocation, whatever is replayed, resumed
\* twice or executed by two workers at once.
OneCallPerApproval ==
    \A k, l \in GatedCalls : k.approval # 0 /\ k.approval = l.approval => k = l

\* A completed run has taken every call of its plan to an end: invoked at
\* least once or refused, through crashes and resumptions.
CompletedRanEverything ==
    status = "completed" =>
        \A i \in 1 .. Len(plan) : plan[i].kind = "tools" =>
            \A p \in 1 .. Len(plan[i].calls) :
                \/ [node |-> i, pos |-> p] \in log.refused
                \/ \E l \in log.calls : l.node = i /\ l.pos = p

\* A run waits only for something: an undecided approval, or a request that
\* will make it pending again.
NoLostDecision ==
    status = "waiting_approval" =>
        \/ \E a \in DOMAIN approvals : approvals[a].status = "pending"
        \/ \E c \in Clients : client[c].pc # "idle"

\* The decision an interrupt returns is the decision on that interrupt.
AnswersOwnInterrupt ==
    [][\A e \in Execs :
          (ex'[e].asked = ex[e].asked + 1)
            => (LET ask == approvals[NextAnswer(e).approval].ask
                IN  ask.node = ex[e].node /\ ask.pos \in {0, ex[e].pos})]_vars

\* A decision is final.
DecisionIsFinal ==
    [][\A a \in DOMAIN approvals :
          approvals[a].status # "pending" => approvals'[a].status = approvals[a].status]_vars

\* Every run ends.
EventuallyTerminal == <>(status \in Terminal)
=============================================================================
