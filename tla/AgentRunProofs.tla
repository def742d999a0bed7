--------------------------- MODULE AgentRunProofs ---------------------------
(***************************************************************************)
(* Theorems about AgentRun.  The first hold for every set of processes,    *)
(* plans, operators and faults, executions that overlap included; those    *)
(* with an ASSUME, from NoDecisionIsLost on, name the hypotheses under     *)
(* which the code keeps its promise, because it breaks it without them.    *)
(***************************************************************************)
EXTENDS AgentRun, TLAPS

-----------------------------------------------------------------------------
(* Where an execution can be, given the plan p and the number n of          *)
(* approvals.                                                               *)

CallOf(x, p) == p[x.node].calls[x.pos]

InCall(x, p) ==
    /\ x.node \in 1 .. Len(p) /\ p[x.node].kind = "tools"
    /\ x.pos \in 1 .. Len(p[x.node].calls)
    /\ CallOf(x, p).tool \in Gated => CallOf(x, p).tool \in x.tools

Placed(x, p, n) ==
    /\ x.pos >= 1 /\ x.asked <= Len(x.answers) /\ x.approval <= n
    /\ x.pc = "node" => x.node \in 1 .. Len(p)
    /\ x.pc \in {"consume", "invoke"} => InCall(x, p)
    /\ x.pc = "consume" => x.approval # 0
    /\ x.pc = "ask" => x.request # <<>>
    /\ x.pc \in {"load", "mark", "look"} => x.approval = 0 /\ x.asked = 0
    \* Nothing is granted to an execution no approval resumed.
    /\ x.approval = 0 => x.answers = <<>> /\ (Preapproved \/ x.tools \cap Gated = {})

Deciding == {"patch", "authorize", "update"}

\* The inductive strengthening of the type invariant.
TypeInv ==
    /\ TypeOK
    /\ cp.node >= 1
    /\ \A e \in Execs : Placed(ex[e], plan, Len(approvals))
    /\ \A c \in Clients : client[c].pc \in Deciding =>
            client[c].approval \in 1 .. Len(approvals) /\ client[c].decision \in Decisions

LEMMA UnbornPlaced ==
    ASSUME NEW p, NEW n \in Nat
    PROVE  Unborn \in Execution /\ Placed(Unborn, p, n)
BY AgentAssumption DEF Unborn, Execution, ExecPCs, Placed, InCall

LEMMA OverPlaced ==
    ASSUME NEW x \in Execution, NEW p, NEW n \in Nat
    PROVE  Over(x) \in Execution /\ Placed(Over(x), p, n)
<1>1. Unborn \in Execution /\ Placed(Unborn, p, n) /\ x.proc \in Procs \cup {NoProc}
  BY UnbornPlaced DEF Execution
<1>2. Over(x) \in Execution
  BY <1>1 DEF Over, Execution, ExecPCs
<1>3. Placed(Over(x), p, n)
  BY <1>1 DEF Over, Unborn, Placed, InCall
<1> QED BY <1>2, <1>3

LEMMA PlanNodes ==
    ASSUME plan \in Plans
    PROVE  /\ plan \in Seq(Nodes) /\ Len(plan) \in Nat
           /\ \A i \in 1 .. Len(plan) :
                 plan[i].kind = "tools" => /\ plan[i].calls \in Seq(Calls)
                                           /\ Len(plan[i].calls) \in Nat
<1>1. plan \in Seq(Nodes)
  BY AgentAssumption
<1>2. \A i \in 1 .. Len(plan) : plan[i] \in Nodes
  BY <1>1
<1> QED BY <1>1, <1>2 DEF Nodes

\* A step of one execution that leaves it placed, and takes no approval away.
LEMMA OneMoves ==
    ASSUME TypeInv, NEW e \in Execs, NEW y \in Execution,
           ex' = [ex EXCEPT ![e] = y], plan' = plan,
           Len(approvals) <= Len(approvals'), Len(approvals') \in Nat,
           Placed(y, plan, Len(approvals'))
    PROVE  /\ ex' \in [Execs -> Execution]
           /\ \A d \in Execs : Placed(ex'[d], plan', Len(approvals'))
<1>1. ASSUME NEW d \in Execs, d # e
      PROVE  Placed(ex[d], plan, Len(approvals'))
  <2>1. ex[d] \in Execution /\ Placed(ex[d], plan, Len(approvals))
    BY DEF TypeInv, TypeOK
  <2>2. ex[d].approval \in Nat /\ Len(approvals) \in Nat
    BY <2>1 DEF Execution, TypeInv, TypeOK
  <2> QED BY <2>1, <2>2 DEF Placed
<1> QED BY <1>1 DEF TypeInv, TypeOK

LEMMA InitTypeInv == Init => TypeInv
<1> SUFFICES ASSUME Init PROVE TypeInv
  OBVIOUS
<1> USE AgentAssumption
<1>1. ex \in [Execs -> Execution] /\ \A e \in Execs : Placed(ex[e], plan, Len(approvals))
  BY UnbornPlaced DEF Init
<1>2. client \in [Clients -> Client]
  BY DEF Init, Client, NoClient
<1>3. cp \in Checkpoint
  BY DEF Init, Checkpoint
<1>4. log \in History
  BY DEF Init, History
<1>5. handle \in [Procs -> 0 .. MaxClaims] /\ approvals \in Seq(Approval) /\ Len(approvals) <= MaxApprovals
  BY DEF Init
<1> QED BY <1>1, <1>2, <1>3, <1>4, <1>5 DEF Init, TypeInv, TypeOK, Statuses, NoClient, Deciding

\* A step of one execution: what is left to show when only the execution, the
\* status, the metadata, the checkpoint and the history may have changed.
LEMMA LocalStep ==
    ASSUME TypeInv, NEW e \in Execs, NEW y \in Execution,
           ex' = [ex EXCEPT ![e] = y], Placed(y, plan, Len(approvals)),
           UNCHANGED <<plan, leaseOwner, lease, claims, approvals, decided, handle, client, made>>,
           status' \in Statuses, meta' \in [budget : BOOLEAN, scope : Nat],
           cp' \in Checkpoint, cp'.node >= 1, log' \in History
    PROVE  TypeInv'
<1>1. Len(approvals) \in Nat
  BY DEF TypeInv, TypeOK
<1>2. /\ Len(approvals') \in Nat /\ Len(approvals) <= Len(approvals') /\ plan' = plan
      /\ Placed(y, plan, Len(approvals'))
  BY <1>1
<1>2a. ex' \in [Execs -> Execution] /\ \A d \in Execs : Placed(ex'[d], plan', Len(approvals'))
  BY <1>2, OneMoves
<1>3. TypeOK'
  BY <1>2a DEF TypeInv, TypeOK
<1> QED BY <1>2, <1>2a, <1>3 DEF TypeInv

\* The types of what a step of execution e reads.
LEMMA Reads ==
    ASSUME TypeInv, NEW e \in Execs
    PROVE  /\ ex[e] \in Execution /\ Placed(ex[e], plan, Len(approvals))
           /\ plan \in Plans /\ Len(plan) \in Nat
           /\ approvals \in Seq(Approval) /\ Len(approvals) \in 0 .. MaxApprovals
           /\ cp \in Checkpoint /\ cp.node >= 1 /\ log \in History
           /\ meta \in [budget : BOOLEAN, scope : Nat] /\ status \in Statuses
BY PlanNodes DEF TypeInv, TypeOK

LEMMA LoadContextType == ASSUME TypeInv, NEW e \in Execs, LoadContext(e) PROVE TypeInv'
<1> DEFINE tools == (IF Preapproved THEN Gated ELSE {}) \cup (IF meta.budget THEN {"budget"} ELSE {})
           y == [ex[e] EXCEPT !.pc = "mark", !.scope = meta.scope, !.tools = tools]
<1>1. ex' = [ex EXCEPT ![e] = y]
  BY DEF LoadContext
<1>2. y \in Execution /\ Placed(y, plan, Len(approvals))
  <2>1. tools \in SUBSET Actions /\ (Preapproved \/ tools \cap Gated = {})
    BY DEF Actions, Gated
  <2> HIDE DEF tools
  <2>2. y \in Execution
    BY <2>1, Reads, ZenonT(40) DEF Execution, ExecPCs
  <2>3. y.pc = "mark" /\ y.tools = tools /\ y.pos = ex[e].pos /\ y.asked = ex[e].asked
        /\ y.answers = ex[e].answers /\ y.approval = ex[e].approval
    BY Reads DEF Execution
  <2>4. ex[e].pc = "load"
    BY DEF LoadContext
  <2> HIDE DEF y
  <2> QED BY <2>1, <2>2, <2>3, <2>4, Reads DEF Placed
<1> HIDE DEF y
<1> QED BY <1>1, <1>2, LocalStep, Reads DEF LoadContext, row

\* The steps that move the program counter only.
Onward == {"park", "check", "complete", "emit", "fail", "abort", "release"}

LEMMA GotoPlaced ==
    ASSUME TypeInv, NEW e \in Execs, NEW pc \in Onward
    PROVE  LET y == [ex[e] EXCEPT !.pc = pc]
           IN  y \in Execution /\ Placed(y, plan, Len(approvals))
BY Reads, ZenonT(40) DEF Onward, Execution, ExecPCs, Placed

LEMMA GotoType ==
    ASSUME TypeInv, NEW e \in Execs, NEW pc \in Onward, Goto(e, pc), status' \in Statuses,
           UNCHANGED <<plan, leaseOwner, lease, claims, meta, approvals, decided, cp, handle,
                       client, made, log>>
    PROVE  TypeInv'
<1> DEFINE y == [ex[e] EXCEPT !.pc = pc]
<1>1. ex' = [ex EXCEPT ![e] = y]
  BY DEF Goto
<1>2. y \in Execution /\ Placed(y, plan, Len(approvals))
  BY GotoPlaced
<1> HIDE DEF y
<1> QED BY <1>1, <1>2, LocalStep, Reads

LEMMA SimpleStepsType ==
    ASSUME TypeInv, NEW e \in Execs,
           \/ MarkRunning(e) \/ Park(e) \/ CheckCancelled(e) \/ Complete(e) \/ EmitEnd(e)
           \/ FailRun(e) \/ MarkCancelled(e) \/ ExecuteRaises(e)
    PROVE  TypeInv'
<1> USE DEF Onward, Statuses, Terminal
<1>1. CASE MarkRunning(e)
  <2>1. [ex[e] EXCEPT !.pc = "look"] \in Execution
        /\ Placed([ex[e] EXCEPT !.pc = "look"], plan, Len(approvals))
    BY <1>1, Reads, ZenonT(40) DEF MarkRunning, Execution, ExecPCs, Placed
  <2>2. ex' = [ex EXCEPT ![e] = [ex[e] EXCEPT !.pc = "look"]]
    BY <1>1 DEF MarkRunning, Goto
  <2> QED BY <1>1, <2>1, <2>2, LocalStep, Reads DEF MarkRunning
<1>2. CASE Park(e)
  BY <1>2, GotoType DEF Park
<1>3. CASE CheckCancelled(e)
  BY <1>3, GotoType, Reads DEF CheckCancelled, row
<1>4. CASE Complete(e)
  BY <1>4, GotoType DEF Complete, EndAs
<1>5. CASE FailRun(e)
  BY <1>5, GotoType DEF FailRun, EndAs
<1>6. CASE MarkCancelled(e)
  BY <1>6, GotoType DEF MarkCancelled, EndAs
<1>7. CASE EmitEnd(e)
  BY <1>7, GotoType, Reads DEF EmitEnd, row
<1>8. CASE ExecuteRaises(e)
  BY <1>8, GotoType, Reads DEF ExecuteRaises, row
<1> QED BY <1>1, <1>2, <1>3, <1>4, <1>5, <1>6, <1>7, <1>8

\* The graph started at the checkpoint is at a node of the plan.
LEMMA StartGraphPlaced ==
    ASSUME TypeInv, NEW e \in Execs, NEW a \in 0 .. Len(approvals), NEW answers \in Seq(Answer),
           a = 0 => answers = <<>>, ex[e].pc = "look"
    PROVE  StartGraph(ex[e], a, answers) \in Execution
           /\ Placed(StartGraph(ex[e], a, answers), plan, Len(approvals))
<1> DEFINE y == StartGraph(ex[e], a, answers)
<1>a. /\ ex[e] \in Execution /\ cp.node \in Nat /\ cp.by \in 0 .. MaxClaims
      /\ a \in 0 .. MaxApprovals
  BY Reads, AgentAssumption DEF Checkpoint
<1>1. y \in Execution
  BY <1>a DEF StartGraph, Execution, ExecPCs
<1>2. /\ y.pc = IF cp.node > Len(plan) THEN "check" ELSE "node"
      /\ y.node = cp.node /\ y.approval = a /\ y.answers = answers /\ y.pos = ex[e].pos
      /\ y.asked = ex[e].asked /\ y.tools = ex[e].tools
  BY Reads DEF StartGraph, Execution
<1>3. cp.node \in Nat /\ Len(answers) \in Nat /\ ex[e].asked \in Nat
  BY Reads DEF Checkpoint, Execution
<1> HIDE DEF y
<1>4. Placed(y, plan, Len(approvals))
  BY <1>2, <1>3, Reads DEF Placed
<1> QED BY <1>1, <1>4 DEF y

LEMMA LookAtCheckpointType ==
    ASSUME TypeInv, NEW e \in Execs, LookAtCheckpoint(e) PROVE TypeInv'
<1>1. /\ ex[e].pc = "look" /\ ex[e] \in Execution /\ Placed(ex[e], plan, Len(approvals))
      /\ ex[e].asked = 0 /\ ex[e].approval = 0
      /\ UNCHANGED <<plan, row, meta, approvals, decided, cp, handle, client, made, log>>
  BY Reads DEF LookAtCheckpoint, Placed
<1>2. ASSUME NEW y \in Execution, ex' = [ex EXCEPT ![e] = y], Placed(y, plan, Len(approvals))
      PROVE  TypeInv'
  BY <1>1, <1>2, LocalStep, Reads DEF row
<1>3. CASE cp.interrupts = <<>> /\ ex' = [ex EXCEPT ![e] = StartGraph(@, 0, <<>>)]
  <2>1. 0 \in 0 .. Len(approvals) /\ <<>> \in Seq(Answer) /\ Len(<<>>) = 0
    BY Reads
  <2>2. StartGraph(ex[e], 0, <<>>) \in Execution
        /\ Placed(StartGraph(ex[e], 0, <<>>), plan, Len(approvals))
    BY <1>1, <2>1, StartGraphPlaced
  <2> QED BY <1>2, <1>3, <2>2
<1>4. CASE /\ cp.interrupts # <<>>
           /\ ex' = [ex EXCEPT ![e].pc = "ask", ![e].request = cp.interrupts]
  <2> DEFINE y == [ex[e] EXCEPT !.pc = "ask", !.request = cp.interrupts]
  <2>1. cp.interrupts \in Seq(Request)
    BY Reads DEF Checkpoint
  <2>2. y \in Execution
    BY <1>1, <2>1 DEF Execution, ExecPCs
  <2>3. Placed(y, plan, Len(approvals))
    BY <1>1, <1>4 DEF Placed, Execution
  <2>4. ex' = [ex EXCEPT ![e] = y]
    BY <1>4
  <2> HIDE DEF y
  <2> QED BY <1>2, <2>2, <2>3, <2>4
<1>5. ASSUME NEW a \in LatestDecided,
             ex' = [ex EXCEPT ![e] = StartGraph(@, a,
                      Append(cp.answers, [approval |-> a,
                                          granted |-> approvals[a].status \in Granted]))]
      PROVE  TypeInv'
  <2> DEFINE answer  == [approval |-> a, granted |-> approvals[a].status \in Granted]
             answers == Append(cp.answers, answer)
  <2>1. a \in 1 .. Len(approvals) /\ a \in ApprovalIds
    <3>1. a \in DOMAIN approvals
      BY DEF LatestDecided
    <3> QED BY <3>1, Reads, AgentAssumption DEF ApprovalIds
  <2>2. answer \in Answer
    BY <2>1 DEF Answer
  <2>3. answers \in Seq(Answer) /\ Len(answers) \in Nat
    BY <2>2, Reads DEF Checkpoint
  <2> HIDE DEF answers
  <2>4. StartGraph(ex[e], a, answers) \in Execution
        /\ Placed(StartGraph(ex[e], a, answers), plan, Len(approvals))
    BY <1>1, <2>1, <2>3, StartGraphPlaced
  <2>5. ex' = [ex EXCEPT ![e] = StartGraph(ex[e], a, answers)]
    BY <1>5 DEF answers
  <2> QED BY <1>2, <2>4, <2>5
<1> QED BY <1>3, <1>4, <1>5 DEF LookAtCheckpoint

\* What an execution has recorded of its answers fits the checkpoint.
LEMMA AnswersTyped ==
    ASSUME TypeInv, NEW e \in Execs, NEW k \in Nat, k <= Len(ex[e].answers)
    PROVE  SubSeq(ex[e].answers, 1, k) \in Seq(Answer)
<1>1. ex[e].answers \in Seq(Answer)
  BY Reads DEF Execution
<1> QED BY <1>1

LEMMA InterruptType ==
    ASSUME TypeInv, NEW e \in Execs, NEW request \in Request, Interrupt(e, request),
           UNCHANGED <<plan, row, meta, approvals, decided, handle, client, made, log>>
    PROVE  TypeInv'
<1> DEFINE y == [ex[e] EXCEPT !.pc = "ask", !.request = <<request>>]
<1>1. ex' = [ex EXCEPT ![e] = y]
  BY DEF Interrupt
<1>2. y \in Execution /\ Placed(y, plan, Len(approvals))
  <2>1. ex[e] \in Execution /\ Placed(ex[e], plan, Len(approvals)) /\ <<request>> \in Seq(Request)
    BY Reads
  <2>2. y \in Execution
    BY <2>1 DEF Execution, ExecPCs
  <2> QED BY <2>1, <2>2 DEF Placed, Execution
<1>3. cp' \in Checkpoint /\ cp'.node >= 1
  <2>1. ex[e].asked \in Nat /\ ex[e].asked <= Len(ex[e].answers)
    BY Reads DEF Placed, Execution
  <2>2. SubSeq(ex[e].answers, 1, ex[e].asked) \in Seq(Answer) /\ <<request>> \in Seq(Request)
    BY <2>1, AnswersTyped
  <2> QED BY <2>2, Reads DEF Interrupt, Checkpoint
<1> HIDE DEF y
<1> QED BY <1>1, <1>2, <1>3, LocalStep, Reads DEF row

LEMMA CompleteNodeType ==
    ASSUME TypeInv, NEW e \in Execs, ex[e].pc = "node", CompleteNode(e), log' \in History,
           UNCHANGED <<plan, row, meta, approvals, decided, handle, client, made>>
    PROVE  TypeInv'
<1> DEFINE y == [ex[e] EXCEPT !.node = @ + 1, !.base = e, !.pos = 1, !.asked = 0, !.answers = <<>>,
                              !.pc = IF ex[e].node = Len(plan) THEN "check" ELSE "node"]
<1>1. ex' = [ex EXCEPT ![e] = y]
  BY DEF CompleteNode
<1>2. /\ ex[e] \in Execution /\ Placed(ex[e], plan, Len(approvals))
      /\ ex[e].node \in 1 .. Len(plan) /\ Len(plan) \in Nat /\ e \in 0 .. MaxClaims
  BY Reads DEF Placed, Execs
<1>3. y \in Execution
  <2> DEFINE pc == IF ex[e].node = Len(plan) THEN "check" ELSE "node"
  <2>1. pc \in ExecPCs /\ <<>> \in Seq(Answer) /\ ex[e].node + 1 \in Nat
    BY <1>2 DEF ExecPCs
  <2>2. y = [ex[e] EXCEPT !.node = @ + 1, !.base = e, !.pos = 1, !.asked = 0,
                          !.answers = <<>>, !.pc = pc]
    OBVIOUS
  <2> HIDE DEF pc, y
  <2> QED BY <1>2, <2>1, <2>2 DEF Execution
<1>4. Placed(y, plan, Len(approvals))
  BY <1>2, SMTT(30) DEF Placed, Execution
<1>5. cp' \in Checkpoint /\ cp'.node >= 1
  BY <1>2, SMTT(30) DEF CompleteNode, Checkpoint, Execution
<1> HIDE DEF y
<1> QED BY <1>1, <1>3, <1>4, <1>5, LocalStep, Reads DEF row

\* An answer is used: only an execution which an approval resumed has one.
LEMMA AnswerTyped ==
    ASSUME TypeInv, NEW e \in Execs, Answered(e), UseAnswer(e)
    PROVE  /\ cp' \in Checkpoint /\ cp'.node >= 1 /\ NextAnswer(e) \in Answer
           /\ ex[e].asked + 1 <= Len(ex[e].answers) /\ ex[e].approval # 0
<1>1. /\ ex[e] \in Execution /\ Placed(ex[e], plan, Len(approvals))
      /\ ex[e].asked \in Nat /\ ex[e].answers \in Seq(Answer) /\ Len(ex[e].answers) \in Nat
  BY Reads DEF Execution
<1>2. ex[e].asked + 1 \in 1 .. Len(ex[e].answers)
  BY <1>1 DEF Answered
<1>3. NextAnswer(e) \in Answer
  BY <1>1, <1>2 DEF NextAnswer
<1>4. ex[e].approval # 0
  BY <1>1, <1>2 DEF Placed
<1>5. SubSeq(ex[e].answers, 1, ex[e].asked + 1) \in Seq(Answer)
  BY <1>1, <1>2, AnswersTyped
<1>6. [cp EXCEPT !.answers = SubSeq(ex[e].answers, 1, ex[e].asked + 1)] \in Checkpoint
  BY <1>5, Reads DEF Checkpoint
<1>7. cp' \in Checkpoint /\ cp'.node >= 1
  BY <1>6, Reads DEF UseAnswer, Checkpoint
<1> QED BY <1>2, <1>3, <1>4, <1>7

LEMMA ModelStepsType ==
    ASSUME TypeInv, NEW e \in Execs, AskBudget(e) \/ BudgetAnswer(e) \/ ModelStep(e)
    PROVE  TypeInv'
<1>1. CASE AskBudget(e)
  <2>1. [action |-> "budget", node |-> ex[e].node, pos |-> 0, scope |-> 0] \in Request
    BY Reads DEF Request, Actions, Execution
  <2> QED BY <1>1, <2>1, InterruptType DEF AskBudget
<1>2. CASE BudgetAnswer(e)
  <2> DEFINE y == [ex[e] EXCEPT !.asked = @ + 1,
                     !.tools = IF NextAnswer(e).granted THEN @ \cup {"budget"} ELSE @,
                     !.pc    = IF NextAnswer(e).granted THEN @ ELSE "fail"]
  <2>1. ex' = [ex EXCEPT ![e] = y]
    BY <1>2 DEF BudgetAnswer
  <2>2. /\ cp' \in Checkpoint /\ cp'.node >= 1 /\ NextAnswer(e).granted \in BOOLEAN
        /\ ex[e].asked + 1 <= Len(ex[e].answers) /\ ex[e].approval # 0
    BY <1>2, AnswerTyped DEF BudgetAnswer, Answer
  <2>3. ex[e] \in Execution /\ Placed(ex[e], plan, Len(approvals)) /\ ex[e].pc = "node"
    BY <1>2, Reads DEF BudgetAnswer, AtModel
  <2>4. y \in Execution
    <3> DEFINE tools == IF NextAnswer(e).granted THEN ex[e].tools \cup {"budget"} ELSE ex[e].tools
               pc == IF NextAnswer(e).granted THEN ex[e].pc ELSE "fail"
    <3>1. tools \in SUBSET Actions /\ pc \in ExecPCs /\ ex[e].asked + 1 \in Nat
      BY <2>3 DEF Execution, ExecPCs, Actions
    <3>2. y = [ex[e] EXCEPT !.asked = @ + 1, !.tools = tools, !.pc = pc]
      BY <2>3 DEF Execution
    <3> HIDE DEF tools, pc, y
    <3> QED BY <2>3, <3>1, <3>2 DEF Execution
  <2>5. Placed(y, plan, Len(approvals))
    BY <2>2, <2>3 DEF Placed, Execution
  <2> HIDE DEF y
  <2> QED BY <1>2, <2>1, <2>2, <2>4, <2>5, LocalStep, Reads DEF BudgetAnswer, row
<1>3. CASE ModelStep(e)
  <2>1. ex[e].pc = "node" /\ Node(e).kind = "model" /\ Node(e) \in Nodes
    BY <1>3, Reads, PlanNodes DEF ModelStep, AtModel, Placed, Node
  <2>2. log' \in History
    BY <1>3, <2>1, Reads DEF ModelStep, History, Nodes
  <2> QED BY <1>3, <2>1, <2>2, CompleteNodeType DEF ModelStep
<1> QED BY <1>1, <1>2, <1>3

\* The call an execution is at is a call of the plan.
LEMMA CallTyped ==
    ASSUME TypeInv, NEW e \in Execs, AtCall(e) \/ ex[e].pc \in {"consume", "invoke"}
    PROVE  /\ ex[e].node \in 1 .. Len(plan) /\ plan[ex[e].node].kind = "tools"
           /\ ex[e].pos \in 1 .. Len(plan[ex[e].node].calls)
           /\ Call(e) \in Calls /\ Call(e) = CallOf(ex[e], plan)
           /\ Call(e).tool \in Gated => Call(e).tool \in Actions
<1>1. /\ ex[e].node \in 1 .. Len(plan) /\ plan[ex[e].node].kind = "tools"
      /\ ex[e].pos \in 1 .. Len(plan[ex[e].node].calls)
  <2>1. CASE AtCall(e)
    BY <2>1, Reads DEF AtCall, Node, Placed, Execution
  <2>2. CASE ex[e].pc \in {"consume", "invoke"}
    BY <2>2, Reads DEF Placed, InCall
  <2> QED BY <2>1, <2>2
<1>2. plan[ex[e].node].calls \in Seq(Calls)
  BY <1>1, Reads, PlanNodes
<1> QED BY <1>1, <1>2 DEF Call, Node, CallOf, Actions

LEMMA AskToolType == ASSUME TypeInv, NEW e \in Execs, AskTool(e) PROVE TypeInv'
<1>1. Call(e) \in Calls /\ Call(e).tool \in Gated
  BY CallTyped DEF AskTool, NeedsApproval
<1>2. [action |-> Call(e).tool, node |-> ex[e].node, pos |-> ex[e].pos, scope |-> Call(e).scope]
          \in Request
  BY <1>1, Reads DEF Request, Actions, Execution, Calls
<1> QED BY <1>2, InterruptType DEF AskTool

LEMMA ToolRejectedType == ASSUME TypeInv, NEW e \in Execs, ToolRejected(e) PROVE TypeInv'
<1> DEFINE y == [ex[e] EXCEPT !.asked = @ + 1, !.pos = @ + 1]
<1>1. ex' = [ex EXCEPT ![e] = y]
  BY DEF ToolRejected
<1>2. /\ cp' \in Checkpoint /\ cp'.node >= 1
      /\ ex[e].asked + 1 <= Len(ex[e].answers) /\ ex[e].approval # 0
  BY AnswerTyped DEF ToolRejected
<1>3. ex[e] \in Execution /\ Placed(ex[e], plan, Len(approvals)) /\ ex[e].pc = "node"
  BY Reads DEF ToolRejected, AtCall
<1>4. y \in Execution
  <2>1. ex[e].asked + 1 \in Nat /\ ex[e].pos + 1 \in Nat
    BY <1>3 DEF Execution
  <2>2. y = [ex[e] EXCEPT !.asked = ex[e].asked + 1, !.pos = ex[e].pos + 1]
    BY <1>3 DEF Execution
  <2> HIDE DEF y
  <2> QED BY <1>3, <2>1, <2>2 DEF Execution
<1>5. Placed(y, plan, Len(approvals))
  BY <1>2, <1>3 DEF Placed, Execution
<1>6. log' \in History
  <2>1. [node |-> ex[e].node, pos |-> ex[e].pos] \in [node : Nat, pos : Nat]
    BY <1>3 DEF Execution
  <2> QED BY <2>1, Reads DEF ToolRejected, History
<1> HIDE DEF y
<1> QED BY <1>1, <1>2, <1>4, <1>5, <1>6, LocalStep, Reads DEF ToolRejected, row

\* A call that may go on: to the consumption of its authorization, or at once.
LEMMA CallAllowed ==
    ASSUME TypeInv, NEW e \in Execs, AtCall(e), NEW asked \in Nat, NEW tools \in SUBSET Actions,
           asked <= Len(ex[e].answers), Call(e).tool \in Gated => Call(e).tool \in tools,
           ex[e].approval = 0 => tools = ex[e].tools
    PROVE  LET y == [ex[e] EXCEPT !.asked = asked, !.scope = KnownScope(e), !.tools = tools,
                                  !.pc = AfterApproval(e)]
           IN  y \in Execution /\ Placed(y, plan, Len(approvals))
<1> DEFINE scope == KnownScope(e)
           pc == AfterApproval(e)
           y == [ex[e] EXCEPT !.asked = asked, !.scope = scope, !.tools = tools, !.pc = pc]
<1>1. /\ ex[e] \in Execution /\ Placed(ex[e], plan, Len(approvals))
      /\ ex[e].node \in 1 .. Len(plan) /\ plan[ex[e].node].kind = "tools"
      /\ ex[e].pos \in 1 .. Len(plan[ex[e].node].calls)
      /\ Call(e) \in Calls /\ Call(e) = CallOf(ex[e], plan)
  BY Reads, CallTyped
<1>2. scope \in Nat /\ pc \in {"consume", "invoke"} /\ (pc = "consume" => ex[e].approval # 0)
  BY <1>1 DEF KnownScope, AfterApproval, Calls, Execution
<1> HIDE DEF scope, pc
<1>3. y \in Execution
  BY <1>1, <1>2 DEF Execution, ExecPCs
<1>4. /\ y.pc = pc /\ y.tools = tools /\ y.pos = ex[e].pos /\ y.asked = asked /\ y.node = ex[e].node
      /\ y.answers = ex[e].answers /\ y.approval = ex[e].approval
  BY <1>1 DEF Execution
<1>5. CallOf(y, plan) = Call(e)
  BY <1>1, <1>4 DEF CallOf
<1> HIDE DEF y
<1>6. InCall(y, plan)
  BY <1>1, <1>4, <1>5 DEF InCall
<1>7. Placed(y, plan, Len(approvals))
  BY <1>1, <1>2, <1>4, <1>6 DEF Placed
<1> QED BY <1>3, <1>7 DEF y, scope, pc

LEMMA ToolGrantedType == ASSUME TypeInv, NEW e \in Execs, ToolGranted(e) PROVE TypeInv'
<1> DEFINE y == [ex[e] EXCEPT !.asked = ex[e].asked + 1, !.scope = KnownScope(e),
                              !.tools = ex[e].tools \cup {Call(e).tool}, !.pc = AfterApproval(e)]
<1>1. AtCall(e) /\ Answered(e) /\ UseAnswer(e) /\ NeedsApproval(e)
  BY DEF ToolGranted
<1>2. /\ cp' \in Checkpoint /\ cp'.node >= 1
      /\ ex[e].asked + 1 <= Len(ex[e].answers) /\ ex[e].approval # 0
  BY <1>1, AnswerTyped
<1>3. ex[e] \in Execution /\ Call(e).tool \in Actions
  BY <1>1, Reads, CallTyped DEF NeedsApproval
<1>4. ex[e].asked + 1 \in Nat /\ ex[e].tools \cup {Call(e).tool} \in SUBSET Actions
  BY <1>3 DEF Execution
<1>5. y \in Execution /\ Placed(y, plan, Len(approvals))
  BY <1>1, <1>2, <1>4, CallAllowed
<1>6. ex' = [ex EXCEPT ![e] = y]
  BY DEF ToolGranted
<1> HIDE DEF y
<1> QED BY <1>2, <1>5, <1>6, LocalStep, Reads DEF ToolGranted, row

LEMMA ToolAllowedType == ASSUME TypeInv, NEW e \in Execs, ToolAllowed(e) PROVE TypeInv'
<1> DEFINE y == [ex[e] EXCEPT !.asked = ex[e].asked, !.scope = KnownScope(e), !.tools = ex[e].tools,
                              !.pc = AfterApproval(e)]
<1>1. AtCall(e) /\ ~NeedsApproval(e)
  BY DEF ToolAllowed
<1>2. /\ ex[e].asked \in Nat /\ ex[e].asked <= Len(ex[e].answers) /\ ex[e].tools \in SUBSET Actions
      /\ ex[e] \in Execution
  BY Reads DEF Placed, Execution
<1>3. Call(e).tool \in Gated => Call(e).tool \in ex[e].tools
  BY <1>1 DEF NeedsApproval
<1>4. y \in Execution /\ Placed(y, plan, Len(approvals))
  BY <1>1, <1>2, <1>3, CallAllowed
<1>5. ex' = [ex EXCEPT ![e] = y]
  BY <1>2 DEF ToolAllowed, Execution
<1> HIDE DEF y
<1> QED BY <1>4, <1>5, LocalStep, Reads DEF ToolAllowed, row

LEMMA EndBatchType == ASSUME TypeInv, NEW e \in Execs, EndBatch(e) PROVE TypeInv'
BY CompleteNodeType, Reads DEF EndBatch

\* A step that changes approvals in place.
LEMMA ApprovalsChange ==
    ASSUME TypeInv, NEW a \in 1 .. Len(approvals), NEW r \in Approval,
           approvals' = [approvals EXCEPT ![a] = r]
    PROVE  approvals' \in Seq(Approval) /\ Len(approvals') = Len(approvals)
BY Reads DEF TypeInv, TypeOK

LEMMA ConsumeType == ASSUME TypeInv, NEW e \in Execs, Consume(e) PROVE TypeInv'
<1> DEFINE a == ex[e].approval
<1>1. /\ ex[e] \in Execution /\ Placed(ex[e], plan, Len(approvals)) /\ ex[e].pc = "consume"
      /\ Len(approvals) \in Nat /\ approvals \in Seq(Approval)
  BY Reads DEF Consume
<1>2. a \in 1 .. Len(approvals)
  BY <1>1 DEF Placed, Execution
<1>3. CASE Authorizes(a, Call(e))
  <2> DEFINE y == [ex[e] EXCEPT !.pc = "invoke"]
             r == [approvals[a] EXCEPT !.auth = "consumed"]
  <2>1. ex' = [ex EXCEPT ![e] = y]
    BY <1>3 DEF Consume, Goto
  <2>2. y \in Execution /\ Placed(y, plan, Len(approvals))
    BY <1>1 DEF Execution, ExecPCs, Placed, InCall, CallOf
  <2>3. r \in Approval
    <3>1. approvals[a] \in Approval
      BY <1>1, <1>2
    <3> QED BY <3>1 DEF Approval
  <2>4. approvals' = [approvals EXCEPT ![a] = r]
    BY <1>3 DEF Consume
  <2> HIDE DEF y, r, a
  <2>5. approvals' \in Seq(Approval) /\ Len(approvals') = Len(approvals)
    BY <1>2, <2>3, <2>4, ApprovalsChange
  <2>6. plan' = plan /\ UNCHANGED <<row, meta, decided, cp, handle, client, made, log>>
    BY DEF Consume
  <2>7. /\ Placed(y, plan, Len(approvals')) /\ Len(approvals') \in Nat
        /\ Len(approvals) <= Len(approvals')
    BY <1>1, <2>2, <2>5
  <2>8. ex' \in [Execs -> Execution] /\ \A d \in Execs : Placed(ex'[d], plan', Len(approvals'))
    BY <2>1, <2>2, <2>6, <2>7, OneMoves
  <2> QED BY <1>1, <2>5, <2>6, <2>8 DEF TypeInv, TypeOK, row
<1>4. CASE ~Authorizes(a, Call(e))
  <2>1. Goto(e, "fail") /\ UNCHANGED <<plan, row, meta, approvals, decided, cp, handle, client, made, log>>
    BY <1>4 DEF Consume
  <2> QED BY <2>1, GotoType, Reads DEF Onward, row
<1> QED BY <1>3, <1>4

LEMMA InvokeType == ASSUME TypeInv, NEW e \in Execs, Invoke(e) PROVE TypeInv'
<1> DEFINE y == [ex[e] EXCEPT !.pc = "node", !.pos = @ + 1]
           l == [node |-> ex[e].node, pos |-> ex[e].pos, by |-> e, approval |-> ex[e].approval]
<1>1. ex[e] \in Execution /\ Placed(ex[e], plan, Len(approvals)) /\ ex[e].pc = "invoke"
  BY Reads DEF Invoke
<1>2. ex' = [ex EXCEPT ![e] = y]
  BY DEF Invoke
<1>3. y \in Execution /\ Placed(y, plan, Len(approvals))
  <2>1. ex[e].pos + 1 \in Nat /\ ex[e].pos + 1 >= 1 /\ InCall(ex[e], plan)
    BY <1>1 DEF Execution, Placed
  <2>2. y = [ex[e] EXCEPT !.pc = "node", !.pos = ex[e].pos + 1]
    BY <1>1 DEF Execution
  <2> HIDE DEF y
  <2>3. y \in Execution
    BY <1>1, <2>1, <2>2 DEF Execution, ExecPCs
  <2>4. /\ y.pc = "node" /\ y.pos = ex[e].pos + 1 /\ y.node = ex[e].node /\ y.asked = ex[e].asked
        /\ y.answers = ex[e].answers /\ y.approval = ex[e].approval /\ y.tools = ex[e].tools
    BY <1>1, <2>2 DEF Execution
  <2> QED BY <1>1, <2>1, <2>3, <2>4 DEF Placed, InCall
<1>4. log' \in History
  <2>1. l \in Invocation
    BY <1>1 DEF Invocation, Execution
  <2> QED BY <2>1, Reads DEF Invoke, History
<1>5. meta' \in [budget : BOOLEAN, scope : Nat]
  <2>1. Call(e).scope \in Nat
    BY <1>1, CallTyped DEF Calls
  <2> QED BY <2>1, Reads DEF Invoke
<1> HIDE DEF y
<1> QED BY <1>2, <1>3, <1>4, <1>5, LocalStep, Reads DEF Invoke, row

LEMMA PersistApprovalType == ASSUME TypeInv, NEW e \in Execs, PersistApproval(e) PROVE TypeInv'
<1> DEFINE y == [ex[e] EXCEPT !.pc = "park"]
<1>1. /\ ex[e] \in Execution /\ Placed(ex[e], plan, Len(approvals)) /\ ex[e].pc = "ask"
      /\ Len(approvals) \in Nat /\ approvals \in Seq(Approval)
  BY Reads DEF PersistApproval
<1>2. ex' = [ex EXCEPT ![e] = y]
  BY DEF PersistApproval, Goto
<1>3. y \in Execution /\ Placed(y, plan, Len(approvals) + 1) /\ Placed(y, plan, Len(approvals))
  <2>1. y \in Execution
    BY <1>1 DEF Execution, ExecPCs
  <2>1a. ex[e].approval \in Nat
    BY <1>1, AgentAssumption DEF Execution
  <2>2. /\ y.pc = "park" /\ y.pos = ex[e].pos /\ y.node = ex[e].node /\ y.asked = ex[e].asked
        /\ y.answers = ex[e].answers /\ y.approval = ex[e].approval /\ y.tools = ex[e].tools
    BY <1>1 DEF Execution
  <2> HIDE DEF y
  <2>3. Placed(y, plan, Len(approvals))
    BY <1>1, <2>2 DEF Placed
  <2>4. y.approval <= Len(approvals) + 1
    BY <1>1, <2>1a, <2>2 DEF Placed
  <2> QED BY <2>1, <2>3, <2>4 DEF Placed
<1> HIDE DEF y
<1>4. CASE UNCHANGED approvals
  BY <1>2, <1>3, <1>4, LocalStep, Reads DEF PersistApproval, row
<1>5. CASE /\ Len(approvals) < MaxApprovals
           /\ approvals' = Append(approvals, [ask |-> ex[e].request[1], status |-> "pending",
                                              at |-> 0, auth |-> "none", bound |-> TRUE])
  <2>1. ex[e].request[1] \in Request
    BY <1>1 DEF Placed, Execution
  <2>2. [ask |-> ex[e].request[1], status |-> "pending", at |-> 0, auth |-> "none", bound |-> TRUE]
            \in Approval
    BY <2>1 DEF Approval
  <2>3. approvals' \in Seq(Approval) /\ Len(approvals') = Len(approvals) + 1
    BY <1>1, <1>5, <2>2
  <2>4. plan' = plan /\ UNCHANGED <<row, meta, decided, cp, handle, client, made, log>>
    BY DEF PersistApproval
  <2>4a. /\ Placed(y, plan, Len(approvals')) /\ Len(approvals') \in Nat
         /\ Len(approvals) <= Len(approvals')
    BY <1>1, <1>3, <2>3
  <2>5. ex' \in [Execs -> Execution] /\ \A d \in Execs : Placed(ex'[d], plan', Len(approvals'))
    BY <1>2, <1>3, <2>4, <2>4a, OneMoves
  <2>6. Len(approvals') <= MaxApprovals
    BY <1>1, <1>5, <2>3, AgentAssumption
  <2> QED BY <1>1, <2>3, <2>4, <2>5, <2>6 DEF TypeInv, TypeOK, row
<1> QED BY <1>4, <1>5 DEF PersistApproval

LEMMA ReleaseType == ASSUME TypeInv, NEW e \in Execs, Release(e) PROVE TypeInv'
<1>1. ex[e] \in Execution /\ Len(approvals) \in Nat
  BY Reads
<1>2. Over(ex[e]) \in Execution /\ Placed(Over(ex[e]), plan, Len(approvals))
  BY <1>1, OverPlaced
<1>3. plan' = plan /\ UNCHANGED <<status, claims, meta, approvals, decided, cp, client, made, log>>
      /\ ex' = [ex EXCEPT ![e] = Over(ex[e])]
  BY DEF Release
<1>4. ex' \in [Execs -> Execution] /\ \A d \in Execs : Placed(ex'[d], plan', Len(approvals'))
  <2>1. /\ Placed(Over(ex[e]), plan, Len(approvals')) /\ Len(approvals') \in Nat
        /\ Len(approvals) <= Len(approvals')
    BY <1>1, <1>2, <1>3
  <2> QED BY <1>2, <1>3, <2>1, OneMoves
<1>5. leaseOwner' \in WorkerIds \cup {NoOwner} /\ lease' \in {"none", "live", "expired"}
  BY DEF Release, TypeInv, TypeOK
<1>6. handle' \in [Procs -> 0 .. MaxClaims]
  <2>1. handle \in [Procs -> 0 .. MaxClaims] /\ 0 \in 0 .. MaxClaims
    BY AgentAssumption DEF TypeInv, TypeOK
  <2>2. handle' = [handle EXCEPT ![ex[e].proc] = 0]
    BY DEF Release
  <2> QED BY <2>1, <2>2
<1> QED BY <1>3, <1>4, <1>5, <1>6 DEF TypeInv, TypeOK

LEMMA WorkType == ASSUME TypeInv, NEW e \in Execs, Work(e) \/ ExecuteRaises(e) PROVE TypeInv'
BY LoadContextType, SimpleStepsType, LookAtCheckpointType, ModelStepsType, AskToolType,
   ToolRejectedType, ToolGrantedType, ToolAllowedType, ConsumeType, InvokeType, EndBatchType,
   PersistApprovalType, ReleaseType DEF Work

\* A step that replaces executions by placed ones and touches little else.
LEMMA ExecsChange ==
    ASSUME TypeInv, ex' \in [Execs -> Execution], plan' = plan,
           \A d \in Execs : Placed(ex'[d], plan, Len(approvals)),
           leaseOwner' \in WorkerIds \cup {NoOwner}, lease' \in {"none", "live", "expired"},
           claims' \in 0 .. MaxClaims, handle' \in [Procs -> 0 .. MaxClaims], log' \in History,
           client' \in [Clients -> Client], made' \in 0 .. MaxRequests,
           \A c \in Clients : client'[c].pc \in Deciding =>
               client'[c].approval \in 1 .. Len(approvals) /\ client'[c].decision \in Decisions,
           UNCHANGED <<status, meta, approvals, decided, cp>>
    PROVE  TypeInv'
BY DEF TypeInv, TypeOK

LEMMA ClaimType == ASSUME TypeInv, NEW w \in Procs, Claim(w) PROVE TypeInv'
<1> DEFINE y == [Unborn EXCEPT !.pc = "load", !.proc = w]
<1> USE AgentAssumption
<1>1. Len(approvals) \in Nat /\ claims \in 0 .. MaxClaims /\ claims < MaxClaims /\ claims + 1 \in Execs
  BY DEF Claim, TypeInv, TypeOK, Execs
<1>2. y \in Execution
  BY UnbornPlaced DEF Execution, ExecPCs
<1>3. Placed(y, plan, Len(approvals))
  BY <1>1 DEF Unborn, Placed
<1> HIDE DEF y
<1>4. ex' = [ex EXCEPT ![claims + 1] = y]
  BY DEF Claim, y
<1>5. ex' \in [Execs -> Execution] /\ \A d \in Execs : Placed(ex'[d], plan, Len(approvals))
  BY <1>1, <1>2, <1>3, <1>4 DEF TypeInv, TypeOK
<1>6. claims' \in 0 .. MaxClaims /\ handle' \in [Procs -> 0 .. MaxClaims]
  BY <1>1 DEF Claim, TypeInv, TypeOK
<1>7. leaseOwner' \in WorkerIds \cup {NoOwner} /\ lease' \in {"none", "live", "expired"}
  BY DEF Claim
<1> QED BY <1>5, <1>6, <1>7, ExecsChange DEF Claim, TypeInv, TypeOK

LEMMA CancelTaskPlaced ==
    ASSUME TypeInv, NEW e \in Execs
    PROVE  CancelTask(ex[e]) \in Execution /\ Placed(CancelTask(ex[e]), plan, Len(approvals))
<1>1. ex[e] \in Execution /\ Len(approvals) \in Nat
  BY Reads
<1>2. CASE ex[e].pc = "release"
  BY <1>1, <1>2, OverPlaced DEF CancelTask
<1>3. CASE ex[e].pc \in {"fail", "abort"}
  BY <1>3, GotoPlaced DEF CancelTask, Onward
<1>4. CASE ex[e].pc \notin {"release", "fail", "abort"}
  BY <1>4, GotoPlaced DEF CancelTask, Onward
<1> QED BY <1>2, <1>3, <1>4

LEMMA KillType == ASSUME TypeInv, NEW w \in Procs, Crash(w) \/ Stop(w) PROVE TypeInv'
<1>1. handle' = [handle EXCEPT ![w] = 0] /\ handle \in [Procs -> 0 .. MaxClaims] /\ 0 \in 0 .. MaxClaims
  BY AgentAssumption DEF Crash, Stop, TypeInv, TypeOK
<1>2. UNCHANGED <<plan, row, meta, approvals, decided, cp, client, made, log>>
  BY DEF Crash, Stop
<1>3. Len(approvals) \in Nat /\ ex \in [Execs -> Execution]
  BY DEF TypeInv, TypeOK
<1>4. ex' \in [Execs -> Execution] /\ \A d \in Execs : Placed(ex'[d], plan, Len(approvals))
  <2>1. CASE Crash(w)
    <3>1. \A d \in Execs : Over(ex[d]) \in Execution /\ Placed(Over(ex[d]), plan, Len(approvals))
      BY <1>3, OverPlaced
    <3>2. ex' = [e \in Execs |-> IF Live(e) /\ ex[e].proc = w THEN Over(ex[e]) ELSE ex[e]]
      BY <2>1 DEF Crash
    <3> QED BY <1>3, <3>1, <3>2 DEF TypeInv
  <2>2. CASE Stop(w)
    <3>1. handle[w] \in Execs
      BY <2>2, <1>1 DEF Stop, Execs
    <3>2. ex' = [ex EXCEPT ![handle[w]] = CancelTask(ex[handle[w]])]
      BY <2>2, <1>3, <3>1 DEF Stop
    <3> QED BY <1>3, <3>1, <3>2, CancelTaskPlaced DEF TypeInv
  <2> QED BY <2>1, <2>2
<1>5. handle' \in [Procs -> 0 .. MaxClaims]
  BY <1>1
<1> QED BY <1>2, <1>4, <1>5, ExecsChange DEF row, TypeInv, TypeOK

LEMMA LeaseExpiresType == TypeInv /\ LeaseExpires => TypeInv'
BY DEF LeaseExpires, TypeInv, TypeOK

\* A request that moves on: nothing of the executions changes.
LEMMA ClientStep ==
    ASSUME TypeInv, NEW c \in Clients, NEW y \in Client, client' = [client EXCEPT ![c] = y],
           approvals' \in Seq(Approval), Len(approvals') = Len(approvals),
           y.pc \in Deciding => y.approval \in 1 .. Len(approvals) /\ y.decision \in Decisions,
           status' \in Statuses, meta' \in [budget : BOOLEAN, scope : Nat], decided' \in Nat,
           made' \in 0 .. MaxRequests, log' \in History,
           UNCHANGED <<plan, leaseOwner, lease, claims, cp, ex, handle>>
    PROVE  TypeInv'
<1>1. TypeOK' /\ cp'.node >= 1
  BY DEF TypeInv, TypeOK
<1>2. \A e \in Execs : Placed(ex'[e], plan', Len(approvals'))
  BY DEF TypeInv
<1>3. \A d \in Clients : client'[d].pc \in Deciding =>
          client'[d].approval \in 1 .. Len(approvals') /\ client'[d].decision \in Decisions
  BY DEF TypeInv, TypeOK
<1> QED BY <1>1, <1>2, <1>3 DEF TypeInv

LEMMA ClientReads ==
    ASSUME TypeInv, NEW c \in Clients
    PROVE  /\ client \in [Clients -> Client] /\ client[c] \in Client
           /\ client[c].pc \in Deciding =>
                 /\ client[c].approval \in 1 .. Len(approvals) /\ client[c].decision \in Decisions
                 /\ approvals[client[c].approval] \in Approval
           /\ approvals \in Seq(Approval) /\ Len(approvals) \in 0 .. MaxApprovals
           /\ meta \in [budget : BOOLEAN, scope : Nat] /\ status \in Statuses
           /\ decided \in Nat /\ made \in 0 .. MaxRequests /\ log \in History
           /\ NoClient \in Client
BY AgentAssumption DEF TypeInv, TypeOK, Client, NoClient

\* Moving a request on keeps its approval and decision.
LEMMA StepTyped ==
    ASSUME TypeInv, NEW c \in Clients, NEW pc \in {"authorize", "update", "resume", "repend"}
    PROVE  [client[c] EXCEPT !.pc = pc] \in Client
BY ClientReads DEF Client

LEMMA TargetStatusTyped ==
    ASSUME NEW d \in Decisions PROVE TargetStatus(d) \in DecidedStatuses
<1>1. d \in {"approve", "edit", "reject", "cancel"}
  BY AgentAssumption
<1> QED BY <1>1 DEF TargetStatus, DecidedStatuses, Granted

\* The steps of a request that only move it on, or end it.
LEMMA ClientMoves ==
    ASSUME TypeInv, NEW c \in Clients,
           \/ \E pc \in {"resume", "repend"} : Step(c, pc)
           \/ Done(c),
           status' \in Statuses, UNCHANGED <<plan, leaseOwner, lease, claims, meta, approvals, decided,
                                            cp, ex, handle, made, log>>
    PROVE  TypeInv'
<1>1. CASE Done(c)
  BY <1>1, ClientStep, ClientReads DEF Done, NoClient, Deciding
<1>2. ASSUME NEW pc \in {"resume", "repend"}, Step(c, pc) PROVE TypeInv'
  <2> DEFINE y == [client[c] EXCEPT !.pc = pc]
  <2>1. y \in Client /\ client' = [client EXCEPT ![c] = y]
    BY <1>2, StepTyped DEF Step
  <2>2. y.pc \notin Deciding
    BY ClientReads DEF Client, Deciding
  <2> HIDE DEF y
  <2> QED BY <2>1, <2>2, ClientStep, ClientReads
<1> QED BY <1>1, <1>2

LEMMA ResumeStepsType ==
    ASSUME TypeInv, NEW c \in Clients,
           ResumeRead(c) \/ ResumeWrite(c) \/ CancelWrite(c) \/ Abandon(c)
    PROVE  TypeInv'
<1> USE DEF Statuses, Terminal
<1>1. CASE ResumeRead(c)
  BY <1>1, ClientMoves, ClientReads DEF ResumeRead, row
<1>2. CASE ResumeWrite(c)
  BY <1>2, ClientMoves DEF ResumeWrite
<1>3. CASE CancelWrite(c)
  BY <1>3, ClientMoves DEF CancelWrite
<1>4. CASE Abandon(c)
  BY <1>4, ClientMoves, ClientReads DEF Abandon, row
<1> QED BY <1>1, <1>2, <1>3, <1>4

LEMMA PatchMetadataType == ASSUME TypeInv, NEW c \in Clients, PatchMetadata(c) PROVE TypeInv'
<1> DEFINE y == [client[c] EXCEPT !.pc = "authorize"]
           ask == approvals[client[c].approval].ask
<1>1. /\ client[c].pc \in Deciding /\ client[c] \in Client
      /\ client[c].approval \in 1 .. Len(approvals) /\ client[c].decision \in Decisions
      /\ approvals[client[c].approval] \in Approval
  BY ClientReads DEF PatchMetadata, Deciding
<1>2. y \in Client /\ client' = [client EXCEPT ![c] = y] /\ y.approval = client[c].approval
      /\ y.decision = client[c].decision
  BY <1>1, StepTyped DEF PatchMetadata, Step, Client
<1>3. GrantedScope(ask, client[c].decision) \in Nat
  BY <1>1, AgentAssumption DEF GrantedScope, Approval, Request
<1>4. meta' \in [budget : BOOLEAN, scope : Nat]
  BY <1>3, ClientReads DEF PatchMetadata
<1> HIDE DEF y
<1> QED BY <1>1, <1>2, <1>4, ClientStep, ClientReads DEF PatchMetadata, row

LEMMA CreateAuthorizationType ==
    ASSUME TypeInv, NEW c \in Clients, CreateAuthorization(c) PROVE TypeInv'
<1> DEFINE y == [client[c] EXCEPT !.pc = "update"]
           a == client[c].approval
           r == [approvals[a] EXCEPT !.auth = "issued", !.bound = client[c].decision # "edit"]
<1>1. /\ client[c].pc \in Deciding /\ client[c] \in Client
      /\ a \in 1 .. Len(approvals) /\ client[c].decision \in Decisions /\ approvals[a] \in Approval
  BY ClientReads DEF CreateAuthorization, Deciding
<1>2. CASE approvals[a].auth = "none"
  <2>1. y \in Client /\ client' = [client EXCEPT ![c] = y] /\ y.approval = a
        /\ y.decision = client[c].decision
    BY <1>1, <1>2, StepTyped DEF CreateAuthorization, Step, Client
  <2>2. r \in Approval
    BY <1>1 DEF Approval
  <2>3. approvals' = [approvals EXCEPT ![a] = r]
    BY <1>2 DEF CreateAuthorization
  <2> HIDE DEF r, y, a
  <2>4. approvals' \in Seq(Approval) /\ Len(approvals') = Len(approvals)
    BY <1>1, <2>2, <2>3, ApprovalsChange
  <2> QED BY <1>1, <2>1, <2>4, ClientStep, ClientReads DEF CreateAuthorization, row
<1>3. CASE approvals[a].auth # "none"
  BY <1>3, ClientMoves, ClientReads DEF CreateAuthorization, row
<1> QED BY <1>2, <1>3

LEMMA UpdateApprovalType == ASSUME TypeInv, NEW c \in Clients, UpdateApproval(c) PROVE TypeInv'
<1> DEFINE y == [client[c] EXCEPT !.pc = "resume"]
           a == client[c].approval
           s == TargetStatus(client[c].decision)
           at == IF s = "cancelled" THEN approvals[a].at ELSE decided + 1
           r == [approvals[a] EXCEPT !.status = s, !.at = at]
<1>1. /\ client[c].pc \in Deciding /\ client[c] \in Client
      /\ a \in 1 .. Len(approvals) /\ client[c].decision \in Decisions /\ approvals[a] \in Approval
      /\ decided \in Nat
  BY ClientReads DEF UpdateApproval, Deciding
<1>2. CASE approvals[a].status \in {"pending", s}
  <2>1. y \in Client /\ client' = [client EXCEPT ![c] = y] /\ y.pc \notin Deciding
    BY <1>1, <1>2, StepTyped DEF UpdateApproval, Step, Client, Deciding
  <2>2. s \in DecidedStatuses /\ at \in Nat
    BY <1>1, TargetStatusTyped DEF Approval
  <2>3. decided' \in Nat
    BY <1>1, <1>2 DEF UpdateApproval
  <2>3a. approvals' = [approvals EXCEPT ![a].status = s, ![a].at = at]
    BY <1>2 DEF UpdateApproval
  <2>3b. approvals' = [approvals EXCEPT ![a] = r]
    <3> HIDE DEF s, at
    <3> QED BY <2>3a
  <2> HIDE DEF s, at
  <2>4. r \in Approval
    BY <1>1, <2>2 DEF Approval
  <2> HIDE DEF r, y, a
  <2>5. approvals' \in Seq(Approval) /\ Len(approvals') = Len(approvals)
    BY <1>1, <2>3b, <2>4, ApprovalsChange
  <2> QED BY <1>1, <2>1, <2>3, <2>5, ClientStep, ClientReads DEF UpdateApproval, row
<1>3. CASE approvals[a].status \notin {"pending", s}
  BY <1>3, ClientMoves, ClientReads DEF UpdateApproval, row
<1> QED BY <1>2, <1>3

LEMMA BeginType ==
    ASSUME TypeInv, NEW c \in Clients, BareResume(c) \/ Operate(c) PROVE TypeInv'
<1>1. CASE BareResume(c)
  <2> DEFINE y == [NoClient EXCEPT !.pc = "resume"]
  <2>1. y \in Client /\ y.pc \notin Deciding
    BY ClientReads DEF NoClient, Client, Deciding
  <2>2. client' = [client EXCEPT ![c] = y] /\ made' \in 0 .. MaxRequests
    BY <1>1, ClientReads, AgentAssumption DEF BareResume, Idle
  <2> HIDE DEF y
  <2> QED BY <1>1, <2>1, <2>2, ClientStep, ClientReads DEF BareResume, row
<1>2. ASSUME NEW a \in DOMAIN approvals, NEW d \in Decisions, Decide(c, a, d) PROVE TypeInv'
  <2> DEFINE pc == IF approvals[a].status # "pending" THEN "resume"
                   ELSE IF d \in {"approve", "edit"} THEN "patch" ELSE "update"
             y == [pc |-> pc, decision |-> d, approval |-> a]
  <2>1. a \in 1 .. Len(approvals) /\ a \in 0 .. MaxApprovals
    BY ClientReads, AgentAssumption
  <2>2. y \in Client /\ y.approval = a /\ y.decision = d
    BY <2>1 DEF Client
  <2>3. client' = [client EXCEPT ![c] = y] /\ made' \in 0 .. MaxRequests
    BY <1>2, ClientReads, AgentAssumption DEF Decide, Idle
  <2> HIDE DEF y
  <2> QED BY <1>2, <2>1, <2>2, <2>3, ClientStep, ClientReads DEF Decide, row
<1> QED BY <1>1, <1>2 DEF Operate

LEMMA CancelRunType ==
    ASSUME TypeInv, NEW c \in Clients, NEW w \in Procs, CancelRun(c, w) PROVE TypeInv'
<1> DEFINE y == [NoClient EXCEPT !.pc = "mark"]
<1>1. y \in Client /\ y.pc \notin Deciding
  BY ClientReads DEF NoClient, Client, Deciding
<1>2. client' = [client EXCEPT ![c] = y] /\ made' \in 0 .. MaxRequests
  BY ClientReads, AgentAssumption DEF CancelRun, Idle
<1>3. handle \in [Procs -> 0 .. MaxClaims] /\ ex \in [Execs -> Execution]
  BY DEF TypeInv, TypeOK
<1>4. ex' \in [Execs -> Execution] /\ \A d \in Execs : Placed(ex'[d], plan, Len(approvals))
  <2>1. CASE handle[w] # 0 /\ Live(handle[w])
    <3>1. handle[w] \in Execs
      BY <2>1, <1>3 DEF Execs
    <3>2. ex' = [ex EXCEPT ![handle[w]] = CancelTask(ex[handle[w]])]
      BY <2>1, <1>3, <3>1 DEF CancelRun
    <3> QED BY <1>3, <3>1, <3>2, CancelTaskPlaced DEF TypeInv
  <2>2. CASE ~(handle[w] # 0 /\ Live(handle[w]))
    BY <2>2, <1>3 DEF CancelRun, TypeInv
  <2> QED BY <2>1, <2>2
<1>5. log' \in History
  BY ClientReads DEF CancelRun, History
<1>6. client' \in [Clients -> Client] /\ \A d \in Clients : client'[d].pc \in Deciding =>
          client'[d].approval \in 1 .. Len(approvals) /\ client'[d].decision \in Decisions
  <2> HIDE DEF y
  <2> QED BY <1>1, <1>2, ClientReads DEF TypeInv
<1>7. UNCHANGED <<plan, row, meta, approvals, decided, cp, handle>>
  BY DEF CancelRun
<1> QED BY <1>2, <1>3, <1>4, <1>5, <1>6, <1>7, ExecsChange DEF row, TypeInv, TypeOK

LEMMA NextTypeInv == TypeInv /\ [Next]_vars => TypeInv'
<1> SUFFICES ASSUME TypeInv, [Next]_vars PROVE TypeInv'
  OBVIOUS
<1>1. CASE Next
  BY <1>1, LeaseExpiresType, ClaimType, KillType, WorkType, BeginType, ResumeStepsType,
     PatchMetadataType, CreateAuthorizationType, UpdateApprovalType, CancelRunType DEF Next, Serve
<1>2. CASE UNCHANGED vars
  BY <1>2 DEF vars, row, TypeInv, TypeOK
<1> QED BY <1>1, <1>2

LEMMA TypeInvariance == Spec => []TypeInv
BY InitTypeInv, NextTypeInv, PTL DEF Spec

\* The row, the approvals, the checkpoint, every execution and every request
\* are well formed in every reachable state.
THEOREM TypeCorrect == Spec => []TypeOK
<1>1. TypeInv => TypeOK
  BY DEF TypeInv
<1> QED BY <1>1, TypeInvariance, PTL

-----------------------------------------------------------------------------
(* One-time authorizations.  An execution about to invoke a gated tool       *)
(* under an approval holds the authorization it consumed; while it does,     *)
(* nobody else holds it and no call has been paid with it.                   *)

Holder(e) == ex[e].pc = "invoke" /\ Call(e).tool \in Gated /\ ex[e].approval # 0

HolderCharged ==
    \A e \in Execs : Holder(e) =>
        /\ approvals[ex[e].approval].auth = "consumed"
        /\ approvals[ex[e].approval].ask.action = Call(e).tool
        /\ Call(e).tool = "collect" => approvals[ex[e].approval].ask.scope = Call(e).scope

HolderUnpaid ==
    \A e \in Execs : Holder(e) => \A l \in GatedCalls : l.approval # ex[e].approval

OneHolder ==
    \A d, e \in Execs :
        Holder(d) /\ Holder(e) /\ ex[d].approval = ex[e].approval => d = e

CallsPlaced == \A l \in log.calls : l.approval \in 0 .. Len(approvals)

\* The inductive strengthening of GatedCallsAreAuthorized and OneCallPerApproval.
ChargeInv ==
    /\ HolderCharged /\ HolderUnpaid /\ OneHolder /\ CallsPlaced
    /\ GatedCallsAreAuthorized /\ OneCallPerApproval

LEMMA InitChargeInv == Init => ChargeInv
BY DEF Init, ChargeInv, HolderCharged, HolderUnpaid, OneHolder, CallsPlaced, Holder, Unborn,
       GatedCalls, GatedCallsAreAuthorized, OneCallPerApproval

\* A step that keeps what was asked for and what was consumed ...
ApprovalsKept ==
    /\ Len(approvals') \in Nat /\ Len(approvals) <= Len(approvals')
    /\ \A a \in 1 .. Len(approvals) :
          /\ approvals'[a].ask = approvals[a].ask
          /\ approvals[a].auth = "consumed" => approvals'[a].auth = "consumed"

\* ... and after which no execution holds what it did not hold before.
NoNewHolder == \A d \in Execs : ex'[d] = ex[d] \/ ~Holder(d)'

Quiet == plan' = plan /\ log'.calls = log.calls /\ ApprovalsKept /\ NoNewHolder

LEMMA QuietKeeps == ASSUME TypeInv, ChargeInv, Quiet PROVE ChargeInv'
<1>1. \A d \in Execs : Holder(d)' => /\ Holder(d) /\ ex'[d] = ex[d] /\ Call(d)' = Call(d)
                                     /\ ex[d].approval \in 1 .. Len(approvals)
  <2> SUFFICES ASSUME NEW d \in Execs, Holder(d)'
               PROVE  Holder(d) /\ ex'[d] = ex[d] /\ Call(d)' = Call(d)
                      /\ ex[d].approval \in 1 .. Len(approvals)
    OBVIOUS
  <2>1. ex'[d] = ex[d] /\ plan' = plan
    BY DEF Quiet, NoNewHolder
  <2>2. Holder(d) /\ Call(d)' = Call(d)
    BY <2>1 DEF Holder, Call, Node
  <2>3. ex[d].approval \in Nat /\ ex[d].approval <= Len(approvals)
    BY Reads, AgentAssumption DEF Execution, Placed
  <2>4. ex[d].approval \in 1 .. Len(approvals)
    BY <2>2, <2>3, Reads DEF Holder
  <2> QED BY <2>1, <2>2, <2>4
<1>2. GatedCalls' = GatedCalls /\ \A l \in GatedCalls : Tool(l)' = Tool(l)
  BY DEF Quiet, GatedCalls, Tool
<1>3. \A l \in GatedCalls : l.approval # 0 => l.approval \in 1 .. Len(approvals)
  BY DEF ChargeInv, CallsPlaced, GatedCalls
<1>4. HolderCharged'
  BY <1>1 DEF HolderCharged, ChargeInv, Quiet, ApprovalsKept
<1>5. HolderUnpaid'
  BY <1>1, <1>2 DEF HolderUnpaid, ChargeInv
<1>6. OneHolder'
  BY <1>1 DEF OneHolder, ChargeInv
<1>7. CallsPlaced'
  BY Reads DEF CallsPlaced, ChargeInv, Quiet, ApprovalsKept, TypeInv, TypeOK
<1>8. GatedCallsAreAuthorized'
  BY <1>2, <1>3 DEF GatedCallsAreAuthorized, ChargeInv, Quiet, ApprovalsKept
<1>9. OneCallPerApproval'
  BY <1>2 DEF OneCallPerApproval, ChargeInv
<1> QED BY <1>4, <1>5, <1>6, <1>7, <1>8, <1>9 DEF ChargeInv

\* The consumption: from issued to consumed, for the call the execution is at.
LEMMA ConsumeKeeps == ASSUME TypeInv, ChargeInv, NEW e \in Execs, Consume(e) PROVE ChargeInv'
<1> DEFINE a == ex[e].approval
<1>1. /\ ex[e] \in Execution /\ ex[e].pc = "consume" /\ Placed(ex[e], plan, Len(approvals))
      /\ ex \in [Execs -> Execution] /\ approvals \in Seq(Approval) /\ Len(approvals) \in Nat
      /\ plan' = plan /\ log' = log
  BY Reads DEF Consume, TypeInv, TypeOK
<1>2. a \in 1 .. Len(approvals)
  BY <1>1 DEF Placed, Execution
<1>3. CASE Authorizes(a, Call(e))
  <2>1. /\ approvals' = [approvals EXCEPT ![a].auth = "consumed"]
        /\ ex' = [ex EXCEPT ![e].pc = "invoke"]
    BY <1>3 DEF Consume, Goto
  <2>2. /\ approvals[a].auth = "issued" /\ approvals[a].ask.action = Call(e).tool
        /\ Call(e).tool = "collect" => approvals[a].ask.scope = Call(e).scope
    BY <1>3 DEF Authorizes
  <2>3. /\ Len(approvals') = Len(approvals) /\ approvals'[a].auth = "consumed"
        /\ \A b \in 1 .. Len(approvals) : approvals'[b].ask = approvals[b].ask
        /\ \A b \in 1 .. Len(approvals) : b # a => approvals'[b] = approvals[b]
    BY <1>1, <1>2, <2>1
  <2>4. /\ \A d \in Execs : d # e => ex'[d] = ex[d]
        /\ ex'[e].approval = a /\ Call(e)' = Call(e)
    BY <1>1, <2>1 DEF Call, Node, Execution
  <2>5. GatedCalls' = GatedCalls /\ \A l \in GatedCalls : Tool(l)' = Tool(l)
    BY <1>1 DEF GatedCalls, Tool
  <2>6. \A l \in GatedCalls : l.approval # a /\ (l.approval # 0 => l.approval \in 1 .. Len(approvals))
    BY <1>2, <2>2 DEF ChargeInv, GatedCallsAreAuthorized, CallsPlaced, GatedCalls
  <2>7. \A d \in Execs : d # e /\ Holder(d)' =>
            /\ Holder(d) /\ Call(d)' = Call(d) /\ ex'[d] = ex[d] /\ ex[d].approval # a
            /\ ex[d].approval \in 1 .. Len(approvals)
    <3> SUFFICES ASSUME NEW d \in Execs, d # e, Holder(d)'
                 PROVE  /\ Holder(d) /\ Call(d)' = Call(d) /\ ex'[d] = ex[d] /\ ex[d].approval # a
                        /\ ex[d].approval \in 1 .. Len(approvals)
      OBVIOUS
    <3>1. ex'[d] = ex[d] /\ Holder(d) /\ Call(d)' = Call(d)
      BY <1>1, <2>4 DEF Holder, Call, Node
    <3>2. ex[d].approval # a
      BY <2>2, <3>1 DEF ChargeInv, HolderCharged
    <3>3. ex[d].approval \in Nat /\ ex[d].approval <= Len(approvals)
      BY Reads, AgentAssumption DEF Execution, Placed
    <3> QED BY <1>1, <3>1, <3>2, <3>3 DEF Holder
  <2> HIDE DEF a
  <2>8. HolderCharged'
    BY <2>2, <2>3, <2>4, <2>7, <1>2 DEF HolderCharged, ChargeInv
  <2>9. HolderUnpaid'
    BY <2>4, <2>5, <2>6, <2>7 DEF HolderUnpaid, ChargeInv
  <2>10. OneHolder'
    BY <2>4, <2>7 DEF OneHolder, ChargeInv
  <2>11. CallsPlaced'
    BY <1>1, <2>3 DEF CallsPlaced, ChargeInv
  <2>12. GatedCallsAreAuthorized'
    BY <2>3, <2>5, <2>6, <1>1 DEF GatedCallsAreAuthorized, ChargeInv
  <2>13. OneCallPerApproval'
    BY <2>5 DEF OneCallPerApproval, ChargeInv
  <2> QED BY <2>8, <2>9, <2>10, <2>11, <2>12, <2>13 DEF ChargeInv
<1>4. CASE ~Authorizes(a, Call(e))
  <2>1. approvals' = approvals /\ ex' = [ex EXCEPT ![e].pc = "fail"]
    BY <1>4 DEF Consume, Goto
  <2>2. NoNewHolder
    BY <1>1, <2>1 DEF NoNewHolder, Holder, Execution
  <2>3. Quiet
    BY <1>1, <2>1, <2>2 DEF Quiet, ApprovalsKept
  <2> QED BY <2>3, QuietKeeps
<1> QED BY <1>3, <1>4

\* The invocation: the holder pays, and holds nothing any more.
LEMMA InvokeKeeps == ASSUME TypeInv, ChargeInv, NEW e \in Execs, Invoke(e) PROVE ChargeInv'
<1> DEFINE l0 == [node |-> ex[e].node, pos |-> ex[e].pos, by |-> e, approval |-> ex[e].approval]
<1>1. /\ ex[e] \in Execution /\ ex[e].pc = "invoke" /\ Placed(ex[e], plan, Len(approvals))
      /\ ex \in [Execs -> Execution] /\ Len(approvals) \in Nat
      /\ plan' = plan /\ approvals' = approvals /\ log \in History
      /\ ex' = [ex EXCEPT ![e].pc = "node", ![e].pos = @ + 1]
  BY Reads DEF Invoke, TypeInv, TypeOK
<1>2. log'.calls = log.calls \cup {l0}
  BY <1>1 DEF Invoke, History
<1>3. l0.approval = ex[e].approval /\ Tool(l0) = Call(e).tool
      /\ plan[l0.node].calls[l0.pos].scope = Call(e).scope /\ l0.approval \in 0 .. Len(approvals)
  BY <1>1, AgentAssumption DEF Tool, Call, Node, Execution, Placed
<1>4. \A d \in Execs : Holder(d)' => /\ d # e /\ Holder(d) /\ ex'[d] = ex[d] /\ Call(d)' = Call(d)
  BY <1>1 DEF Holder, Call, Node, Execution
<1> HIDE DEF l0
<1>5. \A l \in log.calls \cup {l0} : Tool(l)' = Tool(l)
  BY <1>1 DEF Tool
<1>6. GatedCalls' = IF Call(e).tool \in Gated THEN GatedCalls \cup {l0} ELSE GatedCalls
  BY <1>2, <1>3, <1>5 DEF GatedCalls
<1>7. Call(e).tool \in Gated => Holder(e) \/ (l0.approval = 0 /\ Preapproved)
  BY <1>1, <1>3, CallTyped DEF Holder, Placed, InCall
<1>8. HolderCharged'
  BY <1>1, <1>4 DEF HolderCharged, ChargeInv
<1>9. HolderUnpaid'
  <2> SUFFICES ASSUME NEW d \in Execs, Holder(d)', NEW l \in GatedCalls'
               PROVE  l.approval # ex'[d].approval
    BY DEF HolderUnpaid
  <2>1. d # e /\ Holder(d) /\ ex'[d] = ex[d]
    BY <1>4
  <2>2. CASE l \in GatedCalls
    BY <2>1, <2>2 DEF HolderUnpaid, ChargeInv
  <2>3. CASE l = l0 /\ Call(e).tool \in Gated
    BY <2>1, <2>3, <1>3, <1>7 DEF OneHolder, ChargeInv, Holder
  <2> QED BY <2>2, <2>3, <1>6
<1>10. OneHolder'
  BY <1>4 DEF OneHolder, ChargeInv
<1>11. CallsPlaced'
  BY <1>1, <1>2, <1>3 DEF CallsPlaced, ChargeInv
<1>12. GatedCallsAreAuthorized'
  <2> SUFFICES ASSUME NEW l \in GatedCalls'
               PROVE  (IF l.approval = 0 THEN Preapproved
                       ELSE /\ approvals[l.approval].auth = "consumed"
                            /\ approvals[l.approval].ask.action = Tool(l)
                            /\ Tool(l) = "collect"
                                 => approvals[l.approval].ask.scope = plan[l.node].calls[l.pos].scope)'
    BY DEF GatedCallsAreAuthorized
  <2>1. CASE l \in GatedCalls
    BY <2>1, <1>1, <1>5 DEF GatedCallsAreAuthorized, ChargeInv, GatedCalls
  <2>2. CASE l = l0 /\ Call(e).tool \in Gated
    <3>1. Tool(l)' = Call(e).tool /\ l.approval = ex[e].approval /\ approvals' = approvals
          /\ (plan[l.node].calls[l.pos].scope)' = Call(e).scope
      BY <2>2, <1>1, <1>3, <1>5
    <3>2. CASE Holder(e)
      BY <3>1, <3>2 DEF HolderCharged, ChargeInv, Holder
    <3>3. CASE ~Holder(e)
      BY <3>1, <3>3, <2>2, <1>3, <1>7
    <3> QED BY <3>2, <3>3
  <2> QED BY <2>1, <2>2, <1>6
<1>13. OneCallPerApproval'
  <2> SUFFICES ASSUME NEW k \in GatedCalls', NEW l \in GatedCalls', k.approval # 0,
                      k.approval = l.approval
               PROVE  k = l
    BY DEF OneCallPerApproval
  <2>1. CASE k \in GatedCalls /\ l \in GatedCalls
    BY <2>1 DEF OneCallPerApproval, ChargeInv
  <2>2. CASE Call(e).tool \in Gated /\ (k = l0 \/ l = l0)
    <3>1. Holder(e)
      BY <2>2, <1>7
    <3>2. \A m \in GatedCalls : m.approval # l0.approval
      BY <3>1, <1>3 DEF HolderUnpaid, ChargeInv
    <3> QED BY <2>2, <3>2, <1>6
  <2> QED BY <2>1, <2>2, <1>6
<1> QED BY <1>8, <1>9, <1>10, <1>11, <1>12, <1>13 DEF ChargeInv

\* A call allowed to go on holds nothing yet.
LEMMA AllowedIsQuiet ==
    ASSUME TypeInv, NEW e \in Execs, ToolGranted(e) \/ ToolAllowed(e) PROVE Quiet
<1>1. /\ ex[e] \in Execution /\ ex \in [Execs -> Execution] /\ Len(approvals) \in Nat
      /\ plan' = plan /\ approvals' = approvals /\ log' = log
  BY Reads DEF ToolGranted, ToolAllowed, TypeInv, TypeOK
<1>2. /\ \A d \in Execs : d # e => ex'[d] = ex[d]
      /\ ex'[e].pc = AfterApproval(e) /\ ex'[e].approval = ex[e].approval
      /\ ex'[e].node = ex[e].node /\ ex'[e].pos = ex[e].pos
  BY <1>1 DEF ToolGranted, ToolAllowed, Execution
<1>3. Call(e)' = Call(e)
  BY <1>1, <1>2 DEF Call, Node
<1>4. ~Holder(e)'
  BY <1>2, <1>3 DEF Holder, AfterApproval
<1>5. NoNewHolder
  BY <1>2, <1>4 DEF NoNewHolder
<1> QED BY <1>1, <1>5 DEF Quiet, ApprovalsKept

\* Every other step of an execution leaves it away from an invocation.
LEMMA WorkIsQuiet ==
    ASSUME TypeInv, NEW e \in Execs,
           Work(e) \/ ExecuteRaises(e), ~Consume(e), ~Invoke(e), ~ToolGranted(e), ~ToolAllowed(e)
    PROVE  Quiet
<1>1. /\ ex[e] \in Execution /\ ex \in [Execs -> Execution] /\ Len(approvals) \in Nat
      /\ approvals \in Seq(Approval) /\ log \in History
  BY Reads DEF TypeInv, TypeOK
<1>2. plan' = plan
  BY DEF Work, ExecuteRaises, LoadContext, MarkRunning, LookAtCheckpoint, AskBudget, BudgetAnswer,
         ModelStep, AskTool, ToolRejected, EndBatch, PersistApproval, Park, CheckCancelled,
         Complete, EmitEnd, FailRun, MarkCancelled, EndAs, Release
<1>3. log'.calls = log.calls
  BY <1>1 DEF Work, ExecuteRaises, LoadContext, MarkRunning, LookAtCheckpoint, AskBudget,
         BudgetAnswer, ModelStep, AskTool, ToolRejected, EndBatch, PersistApproval, Park,
         CheckCancelled, Complete, EmitEnd, FailRun, MarkCancelled, EndAs, Release, History
<1>4. ApprovalsKept
  <2>1. CASE PersistApproval(e)
    BY <2>1, <1>1 DEF PersistApproval, ApprovalsKept
  <2>2. CASE ~PersistApproval(e)
    <3>1. approvals' = approvals
      BY <2>2 DEF Work, ExecuteRaises, LoadContext, MarkRunning, LookAtCheckpoint, AskBudget,
         BudgetAnswer, ModelStep, AskTool, ToolRejected, EndBatch, Park,
         CheckCancelled, Complete, EmitEnd, FailRun, MarkCancelled, EndAs, Release
    <3> QED BY <3>1, <1>1 DEF ApprovalsKept
  <2> QED BY <2>1, <2>2
<1>5. \A d \in Execs : d # e => ex'[d] = ex[d]
  BY <1>1 DEF Work, ExecuteRaises, LoadContext, MarkRunning, LookAtCheckpoint, AskBudget, BudgetAnswer,
         ModelStep, AskTool, ToolRejected, EndBatch, PersistApproval, Park, CheckCancelled,
         Complete, EmitEnd, FailRun, MarkCancelled, EndAs, Release, Goto, Interrupt, CompleteNode
<1>6. ex'[e].pc # "invoke"
  <2>1. CASE LoadContext(e) \/ MarkRunning(e) \/ LookAtCheckpoint(e)
    <3>1. CASE LoadContext(e) \/ MarkRunning(e)
      BY <3>1, <1>1 DEF LoadContext, MarkRunning, Goto, Execution
    <3>2. \A approval, answers : StartGraph(ex[e], approval, answers).pc \in {"check", "node"}
      BY <1>1 DEF StartGraph, Execution
    <3>3. CASE LookAtCheckpoint(e)
      <4>1. \/ ex' = [ex EXCEPT ![e].pc = "ask", ![e].request = cp.interrupts]
            \/ \E approval, answers : ex' = [ex EXCEPT ![e] = StartGraph(@, approval, answers)]
        BY <3>3 DEF LookAtCheckpoint
      <4>2. CASE ex' = [ex EXCEPT ![e].pc = "ask", ![e].request = cp.interrupts]
        BY <4>2, <1>1 DEF Execution
      <4>3. ASSUME NEW approval, NEW answers, ex' = [ex EXCEPT ![e] = StartGraph(@, approval, answers)]
            PROVE  ex'[e].pc # "invoke"
        <5>1. ex'[e] = StartGraph(ex[e], approval, answers)
          BY <4>3, <1>1
        <5> QED BY <5>1, <3>2
      <4> QED BY <4>1, <4>2, <4>3
    <3> QED BY <2>1, <3>1, <3>3
  <2>2. CASE AskBudget(e) \/ AskTool(e)
    BY <2>2, <1>1 DEF AskBudget, AskTool, Interrupt, Execution
  <2>3. CASE BudgetAnswer(e)
    <3>1. ex[e].pc = "node"
      BY <2>3 DEF BudgetAnswer, AtModel
    <3>2. ex'[e].pc = IF NextAnswer(e).granted THEN ex[e].pc ELSE "fail"
      BY <2>3, <1>1 DEF BudgetAnswer, Execution
    <3> QED BY <3>1, <3>2
  <2>4. CASE ModelStep(e) \/ EndBatch(e)
    BY <2>4, <1>1 DEF ModelStep, EndBatch, CompleteNode, Execution
  <2>5. CASE ToolRejected(e)
    BY <2>5, <1>1 DEF ToolRejected, AtCall, Execution
  <2>6. CASE PersistApproval(e) \/ Park(e) \/ CheckCancelled(e) \/ Complete(e) \/ EmitEnd(e)
             \/ FailRun(e) \/ MarkCancelled(e) \/ Release(e) \/ ExecuteRaises(e)
    BY <2>6, <1>1, ZenonT(40) DEF PersistApproval, Park, CheckCancelled, Complete, EmitEnd, FailRun, MarkCancelled,
       EndAs, Release, ExecuteRaises, Goto, Over, Unborn, Execution
  <2> QED BY <2>1, <2>2, <2>3, <2>4, <2>5, <2>6 DEF Work
<1>7. NoNewHolder
  BY <1>5, <1>6 DEF NoNewHolder, Holder
<1> QED BY <1>2, <1>3, <1>4, <1>7 DEF Quiet

\* An approval is changed in place: its authorization is issued, or it is decided.
LEMMA RowKept ==
    ASSUME TypeInv, NEW a \in 1 .. Len(approvals), NEW r \in Approval,
           approvals' = [approvals EXCEPT ![a] = r], r.ask = approvals[a].ask,
           approvals[a].auth = "consumed" => r.auth = "consumed"
    PROVE  ApprovalsKept
<1>1. Len(approvals') = Len(approvals) /\ Len(approvals) \in Nat
  BY ApprovalsChange, Reads
<1>2. \A b \in 1 .. Len(approvals) : approvals'[b] = IF b = a THEN r ELSE approvals[b]
  BY Reads DEF TypeInv, TypeOK
<1> QED BY <1>1, <1>2 DEF ApprovalsKept

LEMMA OthersAreQuiet ==
    ASSUME TypeInv,
           \/ LeaseExpires \/ UNCHANGED vars
           \/ \E w \in Procs : Claim(w) \/ Crash(w) \/ Stop(w)
           \/ \E c \in Clients : \/ Operate(c) \/ Serve(c) \/ BareResume(c) \/ Abandon(c)
                                 \/ \E w \in Procs : CancelRun(c, w)
    PROVE  Quiet
<1>1. /\ ex \in [Execs -> Execution] /\ Len(approvals) \in Nat /\ approvals \in Seq(Approval)
      /\ log \in History
  BY DEF TypeInv, TypeOK
<1>2. plan' = plan
  BY DEF LeaseExpires, vars, Claim, Crash, Stop, Operate, Decide, Serve, PatchMetadata,
         CreateAuthorization, UpdateApproval, ResumeRead, ResumeWrite, CancelWrite, BareResume,
         Abandon, CancelRun
<1>3. log'.calls = log.calls
  BY <1>1 DEF LeaseExpires, vars, Claim, Crash, Stop, Operate, Decide, Serve, PatchMetadata,
         CreateAuthorization, UpdateApproval, ResumeRead, ResumeWrite, CancelWrite, BareResume,
         Abandon, CancelRun, History
<1>4. ApprovalsKept
  <2>1. ASSUME NEW c \in Clients, CreateAuthorization(c) PROVE ApprovalsKept
    <3> DEFINE a == client[c].approval
               r == [approvals[a] EXCEPT !.auth = "issued", !.bound = client[c].decision # "edit"]
    <3>1. a \in 1 .. Len(approvals) /\ approvals[a] \in Approval
      BY <2>1, ClientReads DEF CreateAuthorization, Deciding
    <3>2. CASE approvals[a].auth = "none"
      <4>1. r \in Approval /\ r.ask = approvals[a].ask
        BY <3>1 DEF Approval
      <4>2. approvals' = [approvals EXCEPT ![a] = r]
        BY <2>1, <3>2 DEF CreateAuthorization
      <4> HIDE DEF r, a
      <4> QED BY <3>1, <3>2, <4>1, <4>2, RowKept
    <3>3. CASE approvals[a].auth # "none"
      BY <2>1, <3>3, <1>1 DEF CreateAuthorization, ApprovalsKept
    <3> QED BY <3>2, <3>3
  <2>2. ASSUME NEW c \in Clients, UpdateApproval(c) PROVE ApprovalsKept
    <3> DEFINE a == client[c].approval
               s == TargetStatus(client[c].decision)
               at == IF s = "cancelled" THEN approvals[a].at ELSE decided + 1
               r == [approvals[a] EXCEPT !.status = s, !.at = at]
    <3>1. /\ a \in 1 .. Len(approvals) /\ approvals[a] \in Approval /\ decided \in Nat
          /\ s \in DecidedStatuses
      BY <2>2, ClientReads, TargetStatusTyped DEF UpdateApproval, Deciding
    <3>2. CASE approvals[a].status \in {"pending", s}
      <4>1. at \in Nat
        BY <3>1 DEF Approval
      <4>2. approvals' = [approvals EXCEPT ![a] = r]
        BY <2>2, <3>2 DEF UpdateApproval
      <4> HIDE DEF s, at
      <4>3. r \in Approval /\ r.ask = approvals[a].ask /\ r.auth = approvals[a].auth
        BY <3>1, <4>1 DEF Approval
      <4> HIDE DEF r, a
      <4> QED BY <3>1, <4>2, <4>3, RowKept
    <3>3. CASE approvals[a].status \notin {"pending", s}
      BY <2>2, <3>3, <1>1 DEF UpdateApproval, ApprovalsKept
    <3> QED BY <3>2, <3>3
  <2>3. CASE approvals' = approvals
    BY <2>3, <1>1 DEF ApprovalsKept
  <2> QED BY <2>1, <2>2, <2>3 DEF LeaseExpires, vars, Claim, Crash, Stop, Operate, Decide, Serve,
         PatchMetadata, ResumeRead, ResumeWrite, CancelWrite, BareResume, Abandon, CancelRun
<1>5. NoNewHolder
  <2>1. CASE ex' = ex
    BY <2>1 DEF NoNewHolder
  <2>2. ASSUME NEW w \in Procs, Claim(w) PROVE NoNewHolder
    <3>1. \A d \in Execs : ex'[d] = ex[d] \/ ex'[d].pc = "load"
      BY <2>2, <1>1 DEF Claim, Unborn
    <3> QED BY <3>1 DEF NoNewHolder, Holder
  <2>3. ASSUME NEW w \in Procs, Crash(w) PROVE NoNewHolder
    <3>1. \A d \in Execs : ex'[d] = ex[d] \/ ex'[d].pc = "over"
      BY <2>3, <1>1 DEF Crash, Over, Unborn
    <3> QED BY <3>1 DEF NoNewHolder, Holder
  <2>4. \A d \in Execs : CancelTask(ex[d]).pc # "invoke"
    BY <1>1 DEF CancelTask, Over, Unborn, Execution
  <2>5. ASSUME NEW w \in Procs, Stop(w) PROVE NoNewHolder
    <3>1. \A d \in Execs : ex'[d] = ex[d] \/ ex'[d] = CancelTask(ex[d])
      BY <2>5, <1>1 DEF Stop
    <3> QED BY <2>4, <3>1 DEF NoNewHolder, Holder
  <2>6. ASSUME NEW c \in Clients, NEW w \in Procs, CancelRun(c, w) PROVE NoNewHolder
    <3>1. \A d \in Execs : ex'[d] = ex[d] \/ ex'[d] = CancelTask(ex[d])
      BY <2>6, <1>1 DEF CancelRun
    <3> QED BY <2>4, <3>1 DEF NoNewHolder, Holder
  <2> QED BY <2>1, <2>2, <2>3, <2>5, <2>6 DEF LeaseExpires, vars, Operate, Decide, Serve,
         PatchMetadata, CreateAuthorization, UpdateApproval, ResumeRead, ResumeWrite, CancelWrite,
         BareResume, Abandon
<1> QED BY <1>2, <1>3, <1>4, <1>5 DEF Quiet

LEMMA NextChargeInv == TypeInv /\ ChargeInv /\ [Next]_vars => ChargeInv'
<1> SUFFICES ASSUME TypeInv, ChargeInv, [Next]_vars PROVE ChargeInv'
  OBVIOUS
<1>1. ASSUME NEW e \in Execs, Work(e) \/ ExecuteRaises(e) PROVE ChargeInv'
  BY <1>1, ConsumeKeeps, InvokeKeeps, AllowedIsQuiet, WorkIsQuiet, QuietKeeps
<1>2. CASE \/ LeaseExpires \/ UNCHANGED vars
           \/ \E w \in Procs : Claim(w) \/ Crash(w) \/ Stop(w)
           \/ \E c \in Clients : \/ Operate(c) \/ Serve(c) \/ BareResume(c) \/ Abandon(c)
                                 \/ \E w \in Procs : CancelRun(c, w)
  BY <1>2, OthersAreQuiet, QuietKeeps
<1> QED BY <1>1, <1>2 DEF Next

LEMMA ChargeInvariance == Spec => [](TypeInv /\ ChargeInv)
<1>1. Init => TypeInv /\ ChargeInv
  BY InitTypeInv, InitChargeInv
<1>2. TypeInv /\ ChargeInv /\ [Next]_vars => (TypeInv /\ ChargeInv)'
  BY NextTypeInv, NextChargeInv
<1> QED BY <1>1, <1>2, PTL DEF Spec

\* Whoever executes the run, however often it is claimed, resumed, replayed
\* or killed, and whatever the operators do: a gated tool runs only with the
\* consumed authorization of an approval of that tool (and scope), unless the
\* run was started with approve_crawl.  AuthorizationService.consume.
THEOREM GatedCallsNeedAuthorization == Spec => []GatedCallsAreAuthorized
<1>1. ChargeInv => GatedCallsAreAuthorized
  BY DEF ChargeInv
<1> QED BY <1>1, ChargeInvariance, PTL

\* An authorization is one-time: it never pays for two invocations.
THEOREM AuthorizationsAreOneTime == Spec => []OneCallPerApproval
<1>1. ChargeInv => OneCallPerApproval
  BY DEF ChargeInv
<1> QED BY <1>1, ChargeInvariance, PTL
-----------------------------------------------------------------------------
(* Decisions.                                                               *)

\* What no step undoes: a decided approval keeps its status.
DecisionsKept ==
    \A a \in DOMAIN approvals :
        approvals[a].status # "pending" => approvals'[a].status = approvals[a].status

LEMMA RowDecided ==
    ASSUME TypeInv, NEW a \in 1 .. Len(approvals), NEW r \in Approval,
           approvals' = [approvals EXCEPT ![a] = r],
           approvals[a].status # "pending" => r.status = approvals[a].status
    PROVE  DecisionsKept
<1>1. \A b \in DOMAIN approvals : approvals'[b] = IF b = a THEN r ELSE approvals[b]
  BY Reads DEF TypeInv, TypeOK
<1> QED BY <1>1 DEF DecisionsKept

LEMMA WorkKeepsDecisions ==
    ASSUME TypeInv, NEW e \in Execs, Work(e) \/ ExecuteRaises(e) PROVE DecisionsKept
<1>1. approvals \in Seq(Approval)
  BY DEF TypeInv, TypeOK
<1>2. CASE Consume(e)
  <2> DEFINE a == ex[e].approval
             r == [approvals[a] EXCEPT !.auth = "consumed"]
  <2>1. CASE approvals' = approvals
    BY <2>1 DEF DecisionsKept
  <2>2. CASE approvals' = [approvals EXCEPT ![a].auth = "consumed"]
    <3>1. CASE a \in DOMAIN approvals
      <4>1. a \in 1 .. Len(approvals) /\ approvals[a] \in Approval
        BY <1>1, <3>1
      <4>2. r \in Approval /\ r.status = approvals[a].status
        BY <4>1 DEF Approval
      <4>3. approvals' = [approvals EXCEPT ![a] = r]
        BY <2>2
      <4> HIDE DEF r, a
      <4> QED BY <4>1, <4>2, <4>3, RowDecided
    <3>2. CASE a \notin DOMAIN approvals
      <4>1. approvals' = approvals
        BY <1>1, <2>2, <3>2
      <4> QED BY <4>1 DEF DecisionsKept
    <3> QED BY <3>1, <3>2
  <2> QED BY <1>2, <2>1, <2>2 DEF Consume
<1>3. CASE PersistApproval(e)
  <2>1. \A a \in DOMAIN approvals : approvals'[a] = approvals[a]
    BY <1>1, <1>3 DEF PersistApproval
  <2> QED BY <2>1 DEF DecisionsKept
<1>4. CASE approvals' = approvals
  BY <1>4 DEF DecisionsKept
<1>5. Work(e) \/ ExecuteRaises(e) => Consume(e) \/ PersistApproval(e) \/ approvals' = approvals
  BY DEF Work, LoadContext, MarkRunning, LookAtCheckpoint, AskBudget, BudgetAnswer, ModelStep, AskTool,
     ToolRejected, ToolGranted, ToolAllowed, Invoke, EndBatch, Park, CheckCancelled, Complete, EmitEnd,
     FailRun, MarkCancelled, EndAs, Release, ExecuteRaises
<1> QED BY <1>2, <1>3, <1>4, <1>5

LEMMA RequestsKeepDecisions ==
    ASSUME TypeInv, NEW c \in Clients, Serve(c) PROVE DecisionsKept
<1>1. CASE CreateAuthorization(c)
  <2> DEFINE a == client[c].approval
             r == [approvals[a] EXCEPT !.auth = "issued", !.bound = client[c].decision # "edit"]
  <2>1. a \in 1 .. Len(approvals) /\ approvals[a] \in Approval
    BY <1>1, ClientReads DEF CreateAuthorization, Deciding
  <2>2. CASE approvals[a].auth = "none"
    <3>1. r \in Approval /\ r.status = approvals[a].status
      BY <2>1 DEF Approval
    <3>2. approvals' = [approvals EXCEPT ![a] = r]
      BY <1>1, <2>2 DEF CreateAuthorization
    <3> HIDE DEF r, a
    <3> QED BY <2>1, <3>1, <3>2, RowDecided
  <2>3. CASE approvals[a].auth # "none"
    BY <1>1, <2>3 DEF CreateAuthorization, DecisionsKept
  <2> QED BY <2>2, <2>3
<1>2. CASE UpdateApproval(c)
  <2> DEFINE a == client[c].approval
             s == TargetStatus(client[c].decision)
             at == IF s = "cancelled" THEN approvals[a].at ELSE decided + 1
             r == [approvals[a] EXCEPT !.status = s, !.at = at]
  <2>1. /\ a \in 1 .. Len(approvals) /\ approvals[a] \in Approval /\ decided \in Nat
        /\ s \in DecidedStatuses
    BY <1>2, ClientReads, TargetStatusTyped DEF UpdateApproval, Deciding
  <2>2. CASE approvals[a].status \in {"pending", s}
    <3>1. at \in Nat
      BY <2>1 DEF Approval
    <3>2. approvals' = [approvals EXCEPT ![a] = r]
      BY <1>2, <2>2 DEF UpdateApproval
    <3> HIDE DEF s, at
    <3>3. r \in Approval /\ (approvals[a].status # "pending" => r.status = approvals[a].status)
      BY <2>1, <2>2, <3>1 DEF Approval
    <3> HIDE DEF r, a
    <3> QED BY <2>1, <3>2, <3>3, RowDecided
  <2>3. CASE approvals[a].status \notin {"pending", s}
    BY <1>2, <2>3 DEF UpdateApproval, DecisionsKept
  <2> QED BY <2>2, <2>3
<1>3. CASE approvals' = approvals
  BY <1>3 DEF DecisionsKept
<1> QED BY <1>1, <1>2, <1>3 DEF Serve, PatchMetadata, ResumeRead, ResumeWrite, CancelWrite

LEMMA NextKeepsDecisions == TypeInv /\ [Next]_vars => DecisionsKept
<1> SUFFICES ASSUME TypeInv, [Next]_vars PROVE DecisionsKept
  OBVIOUS
<1>1. CASE approvals' = approvals
  BY <1>1 DEF DecisionsKept
<1>2. ASSUME NEW e \in Execs, Work(e) \/ ExecuteRaises(e) PROVE DecisionsKept
  BY <1>2, WorkKeepsDecisions
<1>3. ASSUME NEW c \in Clients, Serve(c) PROVE DecisionsKept
  BY <1>3, RequestsKeepDecisions
<1>4. \/ approvals' = approvals
      \/ \E e \in Execs : Work(e) \/ ExecuteRaises(e)
      \/ \E c \in Clients : Serve(c)
  BY DEF Next, LeaseExpires, vars, Claim, Crash, Stop, Operate, Decide, BareResume, Abandon, CancelRun
<1> QED BY <1>1, <1>2, <1>3, <1>4

\* A decision is final: of two operators who decide one approval at once, the
\* first to write wins and no later request, claim or replay changes it.
\* ApplicationRepository.update_approval_full.
THEOREM DecisionsAreFinal == Spec => DecisionIsFinal
<1>1. TypeInv /\ [Next]_vars => [DecisionsKept]_vars
  BY NextKeepsDecisions
<1> QED BY <1>1, TypeInvariance, PTL DEF Spec, DecisionIsFinal, DecisionsKept

-----------------------------------------------------------------------------
(* Everything before the checkpoint was taken: the calls of the nodes an    *)
(* execution has left, and of its own node those before its position, are   *)
(* in the history, whichever execution put them there.                      *)

Taken(g, i, q) == \/ [node |-> i, pos |-> q] \in g.refused
                  \/ \E l \in g.calls : l.node = i /\ l.pos = q

\* The calls of node i before position q.
TakenTo(g, p, i, q) ==
    p[i].kind = "tools" => \A k \in 1 .. Len(p[i].calls) : k < q => Taken(g, i, k)

\* The nodes before n.
DoneTo(g, p, n) ==
    \A i \in 1 .. Len(p) : i < n /\ p[i].kind = "tools" =>
        \A k \in 1 .. Len(p[i].calls) : Taken(g, i, k)

Reached(x, g, p) ==
    /\ x.pc \in {"load", "mark", "look"} => x.pos = 1
    /\ x.pc \in {"node", "consume", "invoke"} => DoneTo(g, p, x.node) /\ TakenTo(g, p, x.node, x.pos)
    /\ x.pc \in {"check", "complete"} => DoneTo(g, p, Len(p) + 1)

DoneInv ==
    /\ DoneTo(log, plan, cp.node)
    /\ \A e \in Execs : Reached(ex[e], log, plan)
    /\ status = "completed" => DoneTo(log, plan, Len(plan) + 1)

Grows == log.calls \subseteq log'.calls /\ log.refused \subseteq log'.refused

LEMMA StaysTaken ==
    ASSUME Grows
    PROVE  /\ \A i, q : Taken(log, i, q) => Taken(log', i, q)
           /\ \A n : DoneTo(log, plan, n) => DoneTo(log', plan, n)
           /\ \A x : Reached(x, log, plan) => Reached(x, log', plan)
<1>1. \A i, q : Taken(log, i, q) => Taken(log', i, q)
  BY DEF Grows, Taken
<1>2. \A n : DoneTo(log, plan, n) => DoneTo(log', plan, n)
  BY <1>1 DEF DoneTo
<1>3. \A i, q : TakenTo(log, plan, i, q) => TakenTo(log', plan, i, q)
  BY <1>1 DEF TakenTo
<1> QED BY <1>1, <1>2, <1>3 DEF Reached

LEMMA InitDoneInv == Init => DoneInv
<1> SUFFICES ASSUME Init PROVE DoneInv
  OBVIOUS
<1>1. DoneTo(log, plan, cp.node)
  BY DEF Init, DoneTo
<1>2. \A e \in Execs : Reached(ex[e], log, plan)
  BY DEF Init, Unborn, Reached
<1>3. status # "completed"
  BY DEF Init
<1> QED BY <1>1, <1>2, <1>3 DEF DoneInv

\* A step of one execution.
LEMMA DoneStep ==
    ASSUME TypeInv, DoneInv, NEW e \in Execs, NEW y, ex' = [ex EXCEPT ![e] = y], plan' = plan,
           Grows, Reached(y, log', plan),
           cp'.node = cp.node \/ DoneTo(log', plan, cp'.node),
           status' = "completed" => status = "completed" \/ DoneTo(log', plan, Len(plan) + 1)
    PROVE  DoneInv'
<1>1. DoneTo(log', plan', cp'.node)
  BY StaysTaken DEF DoneInv
<1>2. \A d \in Execs : Reached(ex'[d], log', plan')
  <2>1. ex \in [Execs -> Execution]
    BY DEF TypeInv, TypeOK
  <2>2. \A d \in Execs : ex'[d] = IF d = e THEN y ELSE ex[d]
    BY <2>1
  <2> QED BY <2>2, StaysTaken DEF DoneInv
<1>3. status' = "completed" => DoneTo(log', plan', Len(plan') + 1)
  BY StaysTaken DEF DoneInv
<1> QED BY <1>1, <1>2, <1>3 DEF DoneInv

\* Where an execution claims nothing about the history.
Elsewhere == {"unborn", "ask", "park", "emit", "fail", "abort", "release", "over"}

LEMMA ElsewhereReached ==
    ASSUME NEW x, x.pc \in Elsewhere, NEW g, NEW p PROVE Reached(x, g, p)
BY DEF Elsewhere, Reached

LEMMA SettledSteps ==
    ASSUME TypeInv, DoneInv, NEW e \in Execs,
           \/ LoadContext(e) \/ MarkRunning(e) \/ LookAtCheckpoint(e) \/ PersistApproval(e) \/ Park(e)
           \/ CheckCancelled(e) \/ Complete(e) \/ EmitEnd(e) \/ FailRun(e) \/ MarkCancelled(e)
           \/ Release(e) \/ ExecuteRaises(e)
    PROVE  DoneInv'
<1>0. /\ ex[e] \in Execution /\ Reached(ex[e], log, plan) /\ DoneTo(log, plan, cp.node)
      /\ Len(plan) \in Nat /\ cp.node \in Nat
  BY Reads DEF DoneInv, Checkpoint
<1>1. ASSUME NEW y, ex' = [ex EXCEPT ![e] = y], y.pc \in Elsewhere, status' # "completed" \/ status = "completed",
             UNCHANGED <<plan, cp, log>>
      PROVE  DoneInv'
  <2>1. Grows /\ Reached(y, log', plan)
    BY <1>1, ElsewhereReached DEF Grows
  <2> QED BY <1>1, <2>1, DoneStep
<1>2. ASSUME NEW pc \in Elsewhere, Goto(e, pc), status' # "completed" \/ status = "completed", UNCHANGED <<plan, cp, log>>
      PROVE  DoneInv'
  <2>1. PICK y : y = [ex[e] EXCEPT !.pc = pc]
    OBVIOUS
  <2>2. y.pc = pc /\ ex' = [ex EXCEPT ![e] = y]
    BY <1>0, <1>2, <2>1 DEF Goto, Execution
  <2> QED BY <1>1, <1>2, <2>2
<1>3. CASE LoadContext(e)
  <2>1. PICK y : y = [ex[e] EXCEPT !.pc = "mark", !.scope = meta.scope,
                 !.tools = (IF Preapproved THEN Gated ELSE {})
                                \cup (IF meta.budget THEN {"budget"} ELSE {})]
    OBVIOUS
  <2>2. ex' = [ex EXCEPT ![e] = y] /\ UNCHANGED <<plan, cp, log, status>> /\ ex[e].pc = "load"
    BY <1>3, <2>1 DEF LoadContext, row
  <2>3. y.pc = "mark" /\ y.pos = ex[e].pos
    BY <1>0, <2>1 DEF Execution
  <2>4. Grows /\ Reached(y, log', plan)
    BY <1>0, <2>2, <2>3 DEF Grows, Reached
  <2> QED BY <2>2, <2>4, DoneStep
<1>4. CASE MarkRunning(e)
  <2>1. PICK y : y = [ex[e] EXCEPT !.pc = "look"]
    OBVIOUS
  <2>2. /\ ex' = [ex EXCEPT ![e] = y] /\ UNCHANGED <<plan, cp, log>> /\ ex[e].pc = "mark"
        /\ status' = "running"
    BY <1>4, <2>1 DEF MarkRunning, Goto
  <2>3. y.pc = "look" /\ y.pos = ex[e].pos
    BY <1>0, <2>1 DEF Execution
  <2>4. Grows /\ Reached(y, log', plan)
    BY <1>0, <2>2, <2>3 DEF Grows, Reached
  <2> QED BY <2>2, <2>4, DoneStep
<1>5. CASE LookAtCheckpoint(e)
  <2>0. ex[e].pc = "look" /\ UNCHANGED <<plan, cp, log, status>> /\ ex[e].pos = 1
    BY <1>0, <1>5 DEF LookAtCheckpoint, row, Reached
  <2>1. ASSUME NEW a, NEW s, ex' = [ex EXCEPT ![e] = StartGraph(@, a, s)]
        PROVE  DoneInv'
    <3>1. PICK y : y = StartGraph(ex[e], a, s)
      OBVIOUS
    <3>2. ex' = [ex EXCEPT ![e] = y]
      BY <2>1, <3>1
    <3>3. /\ y.pc = IF cp.node > Len(plan) THEN "check" ELSE "node"
          /\ y.node = cp.node /\ y.pos = 1
      BY <1>0, <2>0, <3>1 DEF StartGraph, Execution
    <3>4. cp.node > Len(plan) => DoneTo(log, plan, Len(plan) + 1)
      BY <1>0 DEF DoneTo
    <3>5. TakenTo(log, plan, cp.node, 1)
      BY DEF TakenTo
    <3>6. Grows /\ Reached(y, log', plan)
      BY <1>0, <2>0, <3>3, <3>4, <3>5 DEF Grows, Reached
    <3> QED BY <2>0, <3>2, <3>6, DoneStep
  <2>2. CASE ex' = [ex EXCEPT ![e].pc = "ask", ![e].request = cp.interrupts]
    <3>1. PICK y : y = [ex[e] EXCEPT !.pc = "ask", !.request = cp.interrupts]
      OBVIOUS
    <3>2. y.pc = "ask" /\ ex' = [ex EXCEPT ![e] = y]
      BY <1>0, <2>2, <3>1 DEF Execution
    <3>3. y.pc \in Elsewhere
      BY <3>2 DEF Elsewhere
    <3> QED BY <1>1, <2>0, <3>2, <3>3
  <2> QED BY <1>5, <2>1, <2>2 DEF LookAtCheckpoint
<1>6. CASE PersistApproval(e) \/ Park(e) \/ EmitEnd(e) \/ FailRun(e) \/ MarkCancelled(e) \/ ExecuteRaises(e)
  <2>1. \E pc \in Elsewhere : Goto(e, pc)
    BY <1>6 DEF PersistApproval, Park, EmitEnd, FailRun, MarkCancelled, ExecuteRaises, EndAs, Elsewhere
  <2>2. UNCHANGED <<plan, cp, log>> /\ (status' # "completed" \/ status = "completed")
    BY <1>6 DEF PersistApproval, Park, EmitEnd, FailRun, MarkCancelled, ExecuteRaises, EndAs, row
  <2> QED BY <1>2, <2>1, <2>2
<1>7. CASE CheckCancelled(e)
  <2>1. UNCHANGED <<plan, cp, log, status>> /\ ex[e].pc = "check"
    BY <1>7 DEF CheckCancelled, row
  <2>2. CASE Goto(e, "release")
    BY <1>2, <2>1, <2>2 DEF Elsewhere
  <2>3. CASE Goto(e, "complete")
    <3>1. PICK y : y = [ex[e] EXCEPT !.pc = "complete"]
      OBVIOUS
    <3>2. y.pc = "complete" /\ ex' = [ex EXCEPT ![e] = y]
      BY <1>0, <2>3, <3>1 DEF Goto, Execution
    <3>3. Grows /\ Reached(y, log', plan)
      BY <1>0, <2>1, <3>2 DEF Grows, Reached
    <3> QED BY <2>1, <3>2, <3>3, DoneStep
  <2> QED BY <1>7, <2>2, <2>3 DEF CheckCancelled
<1>8. CASE Complete(e)
  <2>1. PICK y : y = [ex[e] EXCEPT !.pc = "emit"]
    OBVIOUS
  <2>2. /\ y.pc = "emit" /\ ex' = [ex EXCEPT ![e] = y] /\ UNCHANGED <<plan, cp, log>>
        /\ ex[e].pc = "complete"
    BY <1>0, <1>8, <2>1 DEF Complete, EndAs, Goto, Execution
  <2>3. DoneTo(log', plan, Len(plan) + 1) /\ Grows /\ Reached(y, log', plan)
    BY <1>0, <2>2 DEF Grows, Reached
  <2> QED BY <2>2, <2>3, DoneStep
<1>9. CASE Release(e)
  <2>1. PICK y : y = Over(ex[e])
    OBVIOUS
  <2>2. y.pc = "over"
    BY <2>1 DEF Over, Unborn
  <2>3. y.pc \in Elsewhere /\ ex' = [ex EXCEPT ![e] = y] /\ UNCHANGED <<plan, cp, log, status>>
    BY <1>9, <2>1, <2>2 DEF Release, Elsewhere
  <2> QED BY <1>1, <2>3
<1> QED BY <1>3, <1>4, <1>5, <1>6, <1>7, <1>8, <1>9

LEMMA NodeSteps ==
    ASSUME TypeInv, DoneInv, NEW e \in Execs,
           \/ AskBudget(e) \/ BudgetAnswer(e) \/ ModelStep(e) \/ AskTool(e) \/ ToolRejected(e)
           \/ ToolGranted(e) \/ ToolAllowed(e) \/ Consume(e) \/ Invoke(e) \/ EndBatch(e)
    PROVE  DoneInv'
<1>0. /\ ex[e] \in Execution /\ Reached(ex[e], log, plan) /\ DoneTo(log, plan, cp.node)
      /\ Len(plan) \in Nat /\ cp \in Checkpoint /\ log \in History /\ Placed(ex[e], plan, Len(approvals))
      /\ plan' = plan /\ status' = status /\ ex[e].node \in Nat /\ ex[e].pos \in Nat
  <2>1. plan' = plan /\ status' = status
    BY DEF AskBudget, BudgetAnswer, ModelStep, AskTool, ToolRejected, ToolGranted, ToolAllowed,
           Consume, Invoke, EndBatch, row
  <2> QED BY <2>1, Reads DEF DoneInv, Execution
<1>a. ASSUME NEW y, ex' = [ex EXCEPT ![e] = y], UNCHANGED log, cp'.node = cp.node,
             \/ y.pc \in Elsewhere
             \/ /\ ex[e].pc \in {"node", "consume", "invoke"}
                /\ y.pc \in {"node", "consume", "invoke"} /\ y.node = ex[e].node /\ y.pos = ex[e].pos
      PROVE  DoneInv'
  <2>1. Grows
    BY <1>a DEF Grows
  <2>2. CASE y.pc \in Elsewhere
    <3>1. Reached(y, log', plan)
      BY <2>2, ElsewhereReached
    <3> QED BY <1>0, <1>a, <2>1, <3>1, DoneStep
  <2>3. CASE y.pc \notin Elsewhere
    <3>1. Reached(y, log', plan)
      BY <1>0, <1>a, <2>3 DEF Reached
    <3> QED BY <1>0, <1>a, <2>1, <3>1, DoneStep
  <2> QED BY <2>2, <2>3
<1>b. ASSUME UseAnswer(e) PROVE cp'.node = cp.node
  BY <1>0, <1>b DEF UseAnswer, Checkpoint
<1>c. ASSUME NEW r, Interrupt(e, r), UNCHANGED log PROVE DoneInv'
  <2>1. PICK y : y = [ex[e] EXCEPT !.pc = "ask", !.request = <<r>>]
    OBVIOUS
  <2>2. ex' = [ex EXCEPT ![e] = y] /\ y.pc = "ask"
    BY <1>0, <1>c, <2>1 DEF Interrupt, Execution
  <2>3. cp'.node = cp.node
    BY <1>0, <1>c DEF Interrupt, Checkpoint
  <2>4. y.pc \in Elsewhere
    BY <2>2 DEF Elsewhere
  <2> QED BY <1>a, <1>c, <2>2, <2>3, <2>4
<1>d. ASSUME CompleteNode(e), UNCHANGED log, ex[e].pc = "node",
             plan[ex[e].node].kind = "tools" => ex[e].pos > Len(plan[ex[e].node].calls)
      PROVE  DoneInv'
  <2>1. ex[e].node \in 1 .. Len(plan)
    BY <1>0, <1>d DEF Placed
  <2>2. DoneTo(log, plan, ex[e].node + 1)
    <3>1. DoneTo(log, plan, ex[e].node) /\ TakenTo(log, plan, ex[e].node, ex[e].pos)
      BY <1>0, <1>d DEF Reached
    <3>2. SUFFICES ASSUME NEW i \in 1 .. Len(plan), i < ex[e].node + 1, plan[i].kind = "tools",
                          NEW k \in 1 .. Len(plan[i].calls)
                   PROVE  Taken(log, i, k)
      BY DEF DoneTo
    <3>3. CASE i < ex[e].node
      BY <3>1, <3>2, <3>3 DEF DoneTo
    <3>4. CASE i = ex[e].node
      <4>1. Len(plan[i].calls) \in Nat
        BY <3>2, PlanNodes DEF TypeInv, TypeOK
      <4>2. k < ex[e].pos
        BY <1>0, <1>d, <3>2, <3>4, <4>1
      <4> QED BY <3>1, <3>2, <3>4, <4>2 DEF TakenTo
    <3> QED BY <1>0, <3>2, <3>3, <3>4
  <2>3. PICK y : y = [ex[e] EXCEPT !.node = @ + 1, !.base = e, !.pos = 1, !.asked = 0, !.answers = <<>>,
                          !.pc = IF ex[e].node = Len(plan) THEN "check" ELSE "node"]
    OBVIOUS
  <2>4. ex' = [ex EXCEPT ![e] = y] /\ cp'.node = ex[e].node + 1
    BY <1>d, <2>3 DEF CompleteNode
  <2>5. /\ y.node = ex[e].node + 1 /\ y.pos = 1
        /\ y.pc = IF ex[e].node = Len(plan) THEN "check" ELSE "node"
    BY <1>0, <2>3 DEF Execution
  <2>6. TakenTo(log, plan, y.node, 1)
    BY DEF TakenTo
  <2>7. Reached(y, log', plan)
    BY <1>d, <2>2, <2>5, <2>6 DEF Reached
  <2>8. Grows /\ DoneTo(log', plan, cp'.node)
    BY <1>d, <2>2, <2>4 DEF Grows
  <2> QED BY <1>0, <2>4, <2>7, <2>8, DoneStep
<1>1. CASE AskBudget(e)
  BY <1>1, <1>c DEF AskBudget
<1>2. CASE AskTool(e)
  BY <1>2, <1>c DEF AskTool
<1>3. CASE BudgetAnswer(e)
  <2>1. PICK y : y = [ex[e] EXCEPT !.asked = @ + 1,
                        !.tools = IF NextAnswer(e).granted THEN @ \cup {"budget"} ELSE @,
                        !.pc    = IF NextAnswer(e).granted THEN @ ELSE "fail"]
    OBVIOUS
  <2>2. /\ ex' = [ex EXCEPT ![e] = y] /\ UNCHANGED log /\ cp'.node = cp.node /\ ex[e].pc = "node"
    BY <1>3, <1>b, <2>1 DEF BudgetAnswer, AtModel
  <2>3. y.pc \in {ex[e].pc, "fail"} /\ y.node = ex[e].node /\ y.pos = ex[e].pos
    BY <1>0, <2>1 DEF Execution
  <2>4. y.pc \in Elsewhere \/ y.pc = "node"
    BY <2>2, <2>3 DEF Elsewhere
  <2> QED BY <1>a, <2>2, <2>3, <2>4
<1>4. CASE ModelStep(e)
  <2>1. ex[e].pc = "node" /\ plan[ex[e].node].kind = "model" /\ CompleteNode(e) /\ UNCHANGED log
    BY <1>4 DEF ModelStep, AtModel, Node
  <2> QED BY <1>d, <2>1
<1>5. CASE EndBatch(e)
  <2>1. /\ ex[e].pc = "node" /\ ex[e].pos > Len(plan[ex[e].node].calls) /\ CompleteNode(e)
        /\ UNCHANGED log
    BY <1>5 DEF EndBatch, Node
  <2> QED BY <1>d, <2>1
<1>6. CASE ToolGranted(e)
  <2>1. PICK y : y = [ex[e] EXCEPT !.asked = @ + 1, !.scope = KnownScope(e),
                 !.tools = @ \cup {Call(e).tool}, !.pc = AfterApproval(e)]
    OBVIOUS
  <2>2. /\ ex' = [ex EXCEPT ![e] = y] /\ UNCHANGED log /\ cp'.node = cp.node /\ ex[e].pc = "node"
    BY <1>6, <1>b, <2>1 DEF ToolGranted, AtCall
  <2>3. y.pc \in {"consume", "invoke"} /\ y.node = ex[e].node /\ y.pos = ex[e].pos
    BY <1>0, <2>1 DEF Execution, AfterApproval
  <2> QED BY <1>a, <2>2, <2>3
<1>7. CASE ToolAllowed(e)
  <2>1. PICK y : y = [ex[e] EXCEPT !.scope = KnownScope(e), !.pc = AfterApproval(e)]
    OBVIOUS
  <2>2. /\ ex' = [ex EXCEPT ![e] = y] /\ UNCHANGED log /\ cp' = cp /\ ex[e].pc = "node"
    BY <1>7, <2>1 DEF ToolAllowed, AtCall
  <2>3. y.pc \in {"consume", "invoke"} /\ y.node = ex[e].node /\ y.pos = ex[e].pos
    BY <1>0, <2>1 DEF Execution, AfterApproval
  <2> QED BY <1>a, <2>2, <2>3
<1>8. CASE Consume(e)
  <2>1. PICK pc \in {"invoke", "fail"} : Goto(e, pc)
    BY <1>8 DEF Consume
  <2>2. PICK y : y = [ex[e] EXCEPT !.pc = pc]
    OBVIOUS
  <2>3. /\ ex' = [ex EXCEPT ![e] = y] /\ UNCHANGED log /\ cp' = cp /\ ex[e].pc = "consume"
    BY <1>8, <2>1, <2>2 DEF Consume, Goto
  <2>4. y.pc = pc /\ y.node = ex[e].node /\ y.pos = ex[e].pos
    BY <1>0, <2>2 DEF Execution
  <2>5. y.pc \in Elsewhere \/ y.pc = "invoke"
    BY <2>1, <2>4 DEF Elsewhere
  <2> QED BY <1>a, <2>3, <2>4, <2>5
\* The call the execution was at is taken, and the position moves past it.
<1>e. ASSUME NEW y, ex' = [ex EXCEPT ![e] = y], ex[e].pc \in {"node", "invoke"}, y.pc = "node",
             y.node = ex[e].node, y.pos = ex[e].pos + 1, cp'.node = cp.node, Grows,
             Taken(log', ex[e].node, ex[e].pos)
      PROVE  DoneInv'
  <2>1. DoneTo(log, plan, ex[e].node) /\ TakenTo(log, plan, ex[e].node, ex[e].pos)
    BY <1>0, <1>e DEF Reached
  <2>2. DoneTo(log', plan, y.node)
    BY <1>e, <2>1, StaysTaken
  <2>3. TakenTo(log', plan, y.node, y.pos)
    <3>1. SUFFICES ASSUME plan[ex[e].node].kind = "tools", NEW k \in 1 .. Len(plan[ex[e].node].calls),
                          k < ex[e].pos + 1
                   PROVE  Taken(log', ex[e].node, k)
      BY <1>e DEF TakenTo
    <3>2. CASE k < ex[e].pos
      BY <1>e, <2>1, <3>1, <3>2, StaysTaken DEF TakenTo
    <3>3. CASE k = ex[e].pos
      BY <1>e, <3>3
    <3> QED BY <1>0, <3>1, <3>2, <3>3
  <2>4. Reached(y, log', plan)
    BY <1>e, <2>2, <2>3 DEF Reached
  <2> QED BY <1>0, <1>e, <2>4, DoneStep
<1>9. CASE ToolRejected(e)
  <2>1. PICK y : y = [ex[e] EXCEPT !.asked = @ + 1, !.pos = @ + 1]
    OBVIOUS
  <2>2. /\ ex' = [ex EXCEPT ![e] = y] /\ cp'.node = cp.node /\ ex[e].pc = "node"
        /\ log' = [log EXCEPT !.refused = @ \cup {[node |-> ex[e].node, pos |-> ex[e].pos]}]
    BY <1>9, <1>b, <2>1 DEF ToolRejected, AtCall
  <2>3. y.pc = "node" /\ y.node = ex[e].node /\ y.pos = ex[e].pos + 1
    BY <1>0, <2>1, <2>2 DEF Execution
  <2>4. /\ log'.refused = log.refused \cup {[node |-> ex[e].node, pos |-> ex[e].pos]}
        /\ log'.calls = log.calls
    BY <1>0, <2>2 DEF History
  <2>5. Grows /\ Taken(log', ex[e].node, ex[e].pos)
    BY <2>4 DEF Grows, Taken
  <2> QED BY <1>e, <2>2, <2>3, <2>5
<1>10. CASE Invoke(e)
  <2>0. PICK l : l = [node |-> ex[e].node, pos |-> ex[e].pos, by |-> e, approval |-> ex[e].approval]
    OBVIOUS
  <2>1. PICK y : y = [ex[e] EXCEPT !.pc = "node", !.pos = @ + 1]
    OBVIOUS
  <2>2. /\ ex' = [ex EXCEPT ![e] = y] /\ cp' = cp /\ ex[e].pc = "invoke"
        /\ log' = [log EXCEPT !.calls = @ \cup {l}]
    BY <1>10, <2>0, <2>1 DEF Invoke
  <2>3. y.pc = "node" /\ y.node = ex[e].node /\ y.pos = ex[e].pos + 1
    BY <1>0, <2>1, <2>2 DEF Execution
  <2>4. log'.calls = log.calls \cup {l} /\ log'.refused = log.refused
    BY <1>0, <2>2 DEF History
  <2>5. Grows /\ Taken(log', ex[e].node, ex[e].pos)
    <3>1. l \in log'.calls /\ l.node = ex[e].node /\ l.pos = ex[e].pos
      BY <2>0, <2>4
    <3> QED BY <2>4, <3>1 DEF Grows, Taken
  <2> QED BY <1>e, <2>2, <2>3, <2>5
<1> QED BY <1>1, <1>2, <1>3, <1>4, <1>5, <1>6, <1>7, <1>8, <1>9, <1>10

\* What is not a step of an execution leaves the history and the checkpoint
\* alone, and kills executions at most.
LEMMA OtherSteps ==
    ASSUME TypeInv, DoneInv, [Next]_vars, \A e \in Execs : ~Work(e) /\ ~ExecuteRaises(e)
    PROVE  DoneInv'
<1>0. ex \in [Execs -> Execution] /\ claims \in 0 .. MaxClaims /\ handle \in [Procs -> 0 .. MaxClaims]
      /\ MaxClaims \in Nat
  BY AgentAssumption DEF TypeInv, TypeOK
<1>1. ASSUME UNCHANGED <<plan, cp, log>>, status' # "completed" \/ status = "completed",
             \A e \in Execs : ex'[e] = ex[e] \/ ex'[e].pc \in Elsewhere
      PROVE  DoneInv'
  BY <1>1, ElsewhereReached DEF DoneInv
<1>2. \A e \in Execs : Over(ex[e]).pc \in Elsewhere /\ CancelTask(ex[e]).pc \in Elsewhere
  <2>1. ASSUME NEW e \in Execs PROVE Over(ex[e]).pc = "over"
    BY DEF Over, Unborn
  <2>2. ASSUME NEW e \in Execs PROVE CancelTask(ex[e]).pc \in {"over", "release", "abort"}
    BY <1>0, <2>1 DEF CancelTask, Execution
  <2> QED BY <2>1, <2>2 DEF Elsewhere
<1>3. ASSUME NEW w \in Procs, Claim(w) PROVE DoneInv'
  <2>1. PICK y : y = [Unborn EXCEPT !.pc = "load", !.proc = w]
    OBVIOUS
  <2>2. y.pc = "load" /\ y.pos = 1
    BY <2>1 DEF Unborn
  <2>3. ex' = [ex EXCEPT ![claims + 1] = y] /\ claims + 1 \in Execs /\ UNCHANGED <<plan, cp, log, status>>
    BY <1>0, <1>3, <2>1 DEF Claim, Execs
  <2>4. Grows /\ Reached(y, log', plan)
    BY <2>2, <2>3 DEF Grows, Reached
  <2> QED BY <2>3, <2>4, DoneStep
<1>4. ASSUME NEW w \in Procs, Crash(w) PROVE DoneInv'
  <2>1. /\ UNCHANGED <<plan, cp, log, status>>
        /\ ex' = [e \in Execs |-> IF Live(e) /\ ex[e].proc = w THEN Over(ex[e]) ELSE ex[e]]
    BY <1>4 DEF Crash, row
  <2> QED BY <1>1, <1>2, <2>1
<1>5. ASSUME NEW d \in Execs, ex' = [ex EXCEPT ![d] = CancelTask(@)], UNCHANGED <<plan, cp, log, status>>
      PROVE  DoneInv'
  <2>1. ex' = [ex EXCEPT ![d] = CancelTask(ex[d])]
    BY <1>5
  <2> QED BY <1>0, <1>1, <1>2, <1>5, <2>1
<1>6. ASSUME NEW w \in Procs, Stop(w) PROVE DoneInv'
  <2>1. handle[w] \in Execs
    BY <1>0, <1>6 DEF Stop, Execs
  <2>2. ex' = [ex EXCEPT ![handle[w]] = CancelTask(@)] /\ UNCHANGED <<plan, cp, log, status>>
    BY <1>6 DEF Stop, row
  <2> QED BY <1>5, <2>1, <2>2
<1>7. ASSUME NEW c \in Clients, NEW w \in Procs, CancelRun(c, w) PROVE DoneInv'
  <2>0. UNCHANGED <<plan, cp, log, status>>
    BY <1>7 DEF CancelRun, row
  <2>1. CASE handle[w] # 0 /\ Live(handle[w])
    <3>1. handle[w] \in Execs
      BY <1>0, <2>1 DEF Execs
    <3>2. ex' = [ex EXCEPT ![handle[w]] = CancelTask(@)]
      BY <1>7, <2>1 DEF CancelRun
    <3> QED BY <1>5, <2>0, <3>1, <3>2
  <2>2. CASE ~(handle[w] # 0 /\ Live(handle[w]))
    BY <1>1, <1>7, <2>0, <2>2 DEF CancelRun
  <2> QED BY <2>1, <2>2
<1>8. ASSUME NEW c \in Clients, Operate(c) \/ Serve(c) \/ BareResume(c) \/ Abandon(c) PROVE DoneInv'
  <2>1. UNCHANGED <<plan, cp, log, ex>> /\ (status' # "completed" \/ status = "completed")
    BY <1>8 DEF Operate, Decide, Serve, BareResume, Abandon, PatchMetadata, CreateAuthorization,
               UpdateApproval, ResumeRead, ResumeWrite, CancelWrite, row
  <2> QED BY <1>1, <2>1
<1>9. CASE LeaseExpires \/ UNCHANGED vars
  <2>1. UNCHANGED <<plan, cp, log, ex, status>>
    BY <1>9 DEF LeaseExpires, vars, row
  <2> QED BY <1>1, <2>1
<1> QED BY <1>3, <1>4, <1>6, <1>7, <1>8, <1>9 DEF Next

LEMMA NextDoneInv == TypeInv /\ DoneInv /\ [Next]_vars => DoneInv'
<1> SUFFICES ASSUME TypeInv, DoneInv, [Next]_vars PROVE DoneInv'
  OBVIOUS
<1>1. ASSUME NEW e \in Execs, Work(e) \/ ExecuteRaises(e) PROVE DoneInv'
  BY <1>1, SettledSteps, NodeSteps DEF Work
<1> QED BY <1>1, OtherSteps

\* A completed run has taken every call of its plan to an end, whatever was
\* killed, replayed, cancelled or executed twice in between: the checkpoint
\* never moves past a call that was neither invoked nor refused.
\* AgentRuntime._execute and the LangGraph checkpoints of its thread.
THEOREM CompletedTookEveryCall == Spec => []CompletedRanEverything
<1>1. DoneInv => CompletedRanEverything
  <2>1. SUFFICES ASSUME DoneInv, status = "completed", NEW i \in 1 .. Len(plan), plan[i].kind = "tools",
                        NEW q \in 1 .. Len(plan[i].calls)
                 PROVE  Taken(log, i, q)
    BY DEF CompletedRanEverything, Taken
  <2> QED BY <2>1 DEF DoneInv, DoneTo
<1>2. TypeInv /\ DoneInv /\ [Next]_vars => DoneInv'
  BY NextDoneInv
<1> QED BY <1>1, <1>2, InitDoneInv, TypeInvariance, PTL DEF Spec

-----------------------------------------------------------------------------
(* A run that waits, waits for something: as long as no execution outlives  *)
(* the lease, operators decide only what waits, one at a time, and their    *)
(* requests are not cut short; one that is may leave nothing behind.        *)

\* One execution at a time, and the run is its own until it parked it.
SoleInv ==
    /\ \A d, e \in Execs : Live(d) /\ Live(e) => d = e
    /\ \A e \in Execs : Live(e) => lease = "live"
    /\ \A e \in Execs : Live(e) /\ status = "waiting_approval" => ex[e].pc = "release"

Awaited == "abandon" \in Faults \/ NoLostDecision

PendingExists == \E a \in DOMAIN approvals : approvals[a].status = "pending"

\* A parking execution finds an undecided approval, and a decision that is
\* not yet written is about one: the run waits for it all the while.
WaitInv ==
    /\ SoleInv
    /\ Awaited
    /\ \A e \in Execs : ex[e].pc = "park" => PendingExists
    /\ \A c \in Clients : client[c].pc \in Deciding =>
          status = "waiting_approval" /\ approvals[client[c].approval].status = "pending"

Calm == /\ Patient /\ "overrun" \notin Faults
        /\ \A c, d \in Clients : c = d

LEMMA InitWaitInv == Init => WaitInv
<1> SUFFICES ASSUME Init PROVE WaitInv
  OBVIOUS
<1>1. \A e \in Execs : ex[e].pc = "unborn"
  BY DEF Init, Unborn
<1>2. \A c \in Clients : client[c].pc = "idle"
  BY DEF Init, NoClient
<1>3. status = "pending"
  BY DEF Init
<1> QED BY <1>1, <1>2, <1>3 DEF WaitInv, SoleInv, Awaited, NoLostDecision, Live, Deciding

\* What a step of an execution that does not end it says of the rest.
LEMMA WorkMoves ==
    ASSUME TypeInv, NEW e \in Execs, Work(e) \/ ExecuteRaises(e), ~Release(e)
    PROVE  /\ Live(e) /\ ex[e].pc # "release" /\ client' = client /\ lease' = lease
           /\ \A d \in Execs : d # e => ex'[d] = ex[d]
           /\ \/ Park(e)
              \/ PersistApproval(e) /\ status' = status
              \/ ex'[e].pc # "park" /\ (status' = status \/ status' # "waiting_approval")
<1>0. ex \in [Execs -> Execution] /\ ex[e] \in Execution
  BY DEF TypeInv, TypeOK
<1>1. ASSUME NEW y, ex' = [ex EXCEPT ![e] = y]
      PROVE  ex'[e] = y /\ \A d \in Execs : d # e => ex'[d] = ex[d]
  BY <1>0, <1>1
<1>2. ASSUME NEW pc, Goto(e, pc)
      PROVE  ex'[e].pc = pc /\ \A d \in Execs : d # e => ex'[d] = ex[d]
  BY <1>0, <1>2 DEF Goto, Execution
<1>3. CASE \/ MarkRunning(e) \/ CheckCancelled(e) \/ Complete(e) \/ EmitEnd(e)
           \/ FailRun(e) \/ MarkCancelled(e) \/ ExecuteRaises(e)
  <2>1. \E pc \in {"look", "complete", "emit", "fail", "release"} : Goto(e, pc)
    BY <1>3 DEF MarkRunning, CheckCancelled, Complete, EmitEnd, FailRun, MarkCancelled, ExecuteRaises, EndAs
  <2>2. /\ ex[e].pc \notin {"unborn", "release", "over"} /\ client' = client /\ lease' = lease
        /\ status' = status \/ status' # "waiting_approval"
    BY <1>3 DEF MarkRunning, CheckCancelled, Complete, EmitEnd, FailRun, MarkCancelled, ExecuteRaises, EndAs, row
  <2>3. ex'[e].pc # "park" /\ \A d \in Execs : d # e => ex'[d] = ex[d]
    BY <1>2, <2>1
  <2> QED BY <2>2, <2>3 DEF Live
<1>4. CASE Park(e) \/ PersistApproval(e)
  <2>1. \E pc : Goto(e, pc)
    BY <1>4 DEF Park, PersistApproval
  <2>2. /\ ex[e].pc \in {"park", "ask"} /\ client' = client /\ lease' = lease
        /\ Park(e) \/ (PersistApproval(e) /\ status' = status)
    BY <1>4 DEF Park, PersistApproval, row
  <2> QED BY <1>2, <2>1, <2>2 DEF Live
\* The other steps replace the execution and leave the row alone.
<1>5. ASSUME NEW y, ex' = [ex EXCEPT ![e] = y], y.pc # "park",
             ex[e].pc \in {"load", "look", "node", "consume", "invoke"}, UNCHANGED <<row, client>>
      PROVE  /\ Live(e) /\ ex[e].pc # "release" /\ client' = client /\ lease' = lease
             /\ \A d \in Execs : d # e => ex'[d] = ex[d]
             /\ ex'[e].pc # "park" /\ status' = status
  BY <1>1, <1>5 DEF Live, row
<1>6. CASE LoadContext(e)
  <2>1. PICK y : y = [ex[e] EXCEPT !.pc = "mark", !.scope = meta.scope,
                 !.tools = (IF Preapproved THEN Gated ELSE {})
                                \cup (IF meta.budget THEN {"budget"} ELSE {})]
    OBVIOUS
  <2>2. ex' = [ex EXCEPT ![e] = y] /\ UNCHANGED <<row, client>> /\ ex[e].pc = "load"
    BY <1>6, <2>1 DEF LoadContext
  <2>3. y.pc = "mark"
    BY <1>0, <2>1 DEF Execution
  <2> QED BY <1>5, <2>2, <2>3
<1>7. CASE LookAtCheckpoint(e)
  <2>0. ex[e].pc = "look" /\ UNCHANGED <<row, client>>
    BY <1>7 DEF LookAtCheckpoint
  <2>1. ASSUME NEW a, NEW s, ex' = [ex EXCEPT ![e] = StartGraph(@, a, s)]
        PROVE  \E y : ex' = [ex EXCEPT ![e] = y] /\ y.pc # "park"
    <3>1. PICK y : y = StartGraph(ex[e], a, s)
      OBVIOUS
    <3>2. y.pc \in {"check", "node"}
      BY <1>0, <3>1 DEF StartGraph, Execution
    <3> QED BY <2>1, <3>1, <3>2
  <2>2. CASE ex' = [ex EXCEPT ![e].pc = "ask", ![e].request = cp.interrupts]
    <3>1. PICK y : y = [ex[e] EXCEPT !.pc = "ask", !.request = cp.interrupts]
      OBVIOUS
    <3>2. y.pc = "ask" /\ ex' = [ex EXCEPT ![e] = y]
      BY <1>0, <2>2, <3>1 DEF Execution
    <3> QED BY <1>5, <2>0, <3>2
  <2>3. (\E y : ex' = [ex EXCEPT ![e] = y] /\ y.pc # "park")
        \/ ex' = [ex EXCEPT ![e].pc = "ask", ![e].request = cp.interrupts]
    BY <1>7, <2>1, ZenonT(40) DEF LookAtCheckpoint
  <2> QED BY <1>5, <2>0, <2>2, <2>3
<1>8. CASE AskBudget(e) \/ AskTool(e)
  <2>1. PICK r : Interrupt(e, r)
    BY <1>8 DEF AskBudget, AskTool
  <2>2. PICK y : y = [ex[e] EXCEPT !.pc = "ask", !.request = <<r>>]
    OBVIOUS
  <2>3. y.pc = "ask" /\ ex' = [ex EXCEPT ![e] = y]
    BY <1>0, <2>1, <2>2 DEF Execution, Interrupt
  <2>4. ex[e].pc = "node" /\ UNCHANGED <<row, client>>
    BY <1>8 DEF AskBudget, AskTool, AtModel, AtCall
  <2> QED BY <1>5, <2>3, <2>4
<1>9. CASE BudgetAnswer(e)
  <2>1. PICK y : y = [ex[e] EXCEPT !.asked = @ + 1,
                        !.tools = IF NextAnswer(e).granted THEN @ \cup {"budget"} ELSE @,
                        !.pc    = IF NextAnswer(e).granted THEN @ ELSE "fail"]
    OBVIOUS
  <2>2. ex' = [ex EXCEPT ![e] = y] /\ UNCHANGED <<row, client>> /\ ex[e].pc = "node"
    BY <1>9, <2>1 DEF BudgetAnswer, AtModel
  <2>3. y.pc \in {"node", "fail"}
    BY <1>0, <2>1, <2>2 DEF Execution
  <2> QED BY <1>5, <2>2, <2>3
<1>10. CASE ModelStep(e) \/ EndBatch(e)
  <2>1. PICK y : y = [ex[e] EXCEPT !.node = @ + 1, !.base = e, !.pos = 1, !.asked = 0, !.answers = <<>>,
                          !.pc = IF ex[e].node = Len(plan) THEN "check" ELSE "node"]
    OBVIOUS
  <2>2. ex' = [ex EXCEPT ![e] = y] /\ UNCHANGED <<row, client>> /\ ex[e].pc = "node"
    BY <1>10, <2>1 DEF ModelStep, EndBatch, CompleteNode, AtModel
  <2>3. y.pc \in {"node", "check"}
    BY <1>0, <2>1 DEF Execution
  <2> QED BY <1>5, <2>2, <2>3
<1>11. CASE ToolRejected(e)
  <2>1. PICK y : y = [ex[e] EXCEPT !.asked = @ + 1, !.pos = @ + 1]
    OBVIOUS
  <2>2. ex' = [ex EXCEPT ![e] = y] /\ UNCHANGED <<row, client>> /\ ex[e].pc = "node"
    BY <1>11, <2>1 DEF ToolRejected, AtCall
  <2>3. y.pc = "node"
    BY <1>0, <2>1, <2>2 DEF Execution
  <2> QED BY <1>5, <2>2, <2>3
<1>12. CASE ToolGranted(e)
  <2>1. PICK y : y = [ex[e] EXCEPT !.asked = @ + 1, !.scope = KnownScope(e),
                 !.tools = @ \cup {Call(e).tool}, !.pc = AfterApproval(e)]
    OBVIOUS
  <2>2. ex' = [ex EXCEPT ![e] = y] /\ UNCHANGED <<row, client>> /\ ex[e].pc = "node"
    BY <1>12, <2>1 DEF ToolGranted, AtCall
  <2>3. y.pc \in {"consume", "invoke"}
    BY <1>0, <2>1 DEF Execution, AfterApproval
  <2> QED BY <1>5, <2>2, <2>3
<1>13. CASE ToolAllowed(e)
  <2>1. PICK y : y = [ex[e] EXCEPT !.scope = KnownScope(e), !.pc = AfterApproval(e)]
    OBVIOUS
  <2>2. ex' = [ex EXCEPT ![e] = y] /\ UNCHANGED <<row, client>> /\ ex[e].pc = "node"
    BY <1>13, <2>1 DEF ToolAllowed, AtCall
  <2>3. y.pc \in {"consume", "invoke"}
    BY <1>0, <2>1 DEF Execution, AfterApproval
  <2> QED BY <1>5, <2>2, <2>3
<1>14. CASE Consume(e)
  <2>1. PICK pc \in {"invoke", "fail"} : Goto(e, pc)
    BY <1>14 DEF Consume
  <2>2. PICK y : y = [ex[e] EXCEPT !.pc = pc]
    OBVIOUS
  <2>3. ex' = [ex EXCEPT ![e] = y] /\ UNCHANGED <<row, client>> /\ ex[e].pc = "consume"
    BY <1>14, <2>1, <2>2 DEF Consume, Goto
  <2>4. y.pc = pc
    BY <1>0, <2>2 DEF Execution
  <2> QED BY <1>5, <2>1, <2>3, <2>4
<1>15. CASE Invoke(e)
  <2>1. PICK y : y = [ex[e] EXCEPT !.pc = "node", !.pos = @ + 1]
    OBVIOUS
  <2>2. ex' = [ex EXCEPT ![e] = y] /\ UNCHANGED <<row, client>> /\ ex[e].pc = "invoke"
    BY <1>15, <2>1 DEF Invoke
  <2>3. y.pc = "node"
    BY <1>0, <2>1 DEF Execution
  <2> QED BY <1>5, <2>2, <2>3
<1> QED BY <1>3, <1>4, <1>6, <1>7, <1>8, <1>9, <1>10, <1>11, <1>12, <1>13, <1>14, <1>15 DEF Work

LEMMA PersistLeavesPending ==
    ASSUME TypeInv, NEW e \in Execs, PersistApproval(e) PROVE PendingExists'
<1>1. approvals \in Seq(Approval) /\ Len(approvals) \in Nat
  BY DEF TypeInv, TypeOK
<1>2. CASE UNCHANGED approvals /\ \E a \in DOMAIN approvals : approvals[a].status = "pending"
  BY <1>2 DEF PendingExists
<1>3. CASE \E r : r.status = "pending" /\ approvals' = Append(approvals, r)
  <2>1. PICK r : r.status = "pending" /\ approvals' = Append(approvals, r)
    BY <1>3
  <2>2. Len(approvals) + 1 \in DOMAIN approvals' /\ approvals'[Len(approvals) + 1] = r
    BY <1>1, <2>1
  <2> QED BY <2>1, <2>2 DEF PendingExists
<1>4. \/ UNCHANGED approvals /\ \E a \in DOMAIN approvals : approvals[a].status = "pending"
      \/ \E r : r.status = "pending" /\ approvals' = Append(approvals, r)
  <2>1. CASE \E a \in DOMAIN approvals : /\ approvals[a].status = "pending"
                                         /\ approvals[a].ask.action = ex[e].request[1].action
    BY <2>1 DEF PersistApproval
  <2>2. CASE ~\E a \in DOMAIN approvals : /\ approvals[a].status = "pending"
                                          /\ approvals[a].ask.action = ex[e].request[1].action
    <3>1. PICK r : r = [ask |-> ex[e].request[1], status |-> "pending", at |-> 0, auth |-> "none",
                        bound |-> TRUE]
      OBVIOUS
    <3>2. approvals' = Append(approvals, r) /\ r.status = "pending"
      BY <2>2, <3>1 DEF PersistApproval
    <3> QED BY <3>2
  <2> QED BY <2>1, <2>2
<1> QED BY <1>2, <1>3, <1>4

LEMMA WorkWaits ==
    ASSUME TypeInv, WaitInv, NEW e \in Execs, Work(e) \/ ExecuteRaises(e)
    PROVE  WaitInv'
<1>0. ex \in [Execs -> Execution] /\ ex' \in [Execs -> Execution]
  BY WorkType DEF TypeInv, TypeOK
<1>1. CASE Release(e)
  <2>1. PICK y : y = Over(ex[e])
    OBVIOUS
  <2>2. y.pc = "over" /\ ex' = [ex EXCEPT ![e] = y] /\ UNCHANGED <<status, approvals, client>> /\ Live(e)
    BY <1>1, <2>1 DEF Release, Over, Unborn, Live
  <2>3. \A d \in Execs : ex'[d].pc \in {"unborn", "over"}
    BY <1>0, <2>2 DEF WaitInv, SoleInv, Live
  <2> QED BY <2>2, <2>3 DEF WaitInv, SoleInv, Awaited, NoLostDecision, PendingExists, Live
<1>2. CASE ~Release(e)
  <2>1. /\ Live(e) /\ ex[e].pc # "release" /\ client' = client /\ lease' = lease
        /\ \A d \in Execs : d # e => ex'[d] = ex[d]
        /\ \/ Park(e)
           \/ PersistApproval(e) /\ status' = status
           \/ ex'[e].pc # "park" /\ (status' = status \/ status' # "waiting_approval")
    BY <1>2, WorkMoves
  <2>2. /\ status # "waiting_approval" /\ \A c \in Clients : client[c].pc \notin Deciding
        /\ \A d \in Execs : d # e => ex'[d].pc \in {"unborn", "over"}
    BY <2>1 DEF WaitInv, SoleInv, Live
  <2>3. Live(e)' => lease' = "live"
    BY <2>1 DEF WaitInv, SoleInv
  <2>4. CASE Park(e)
    <3>1. /\ ex'[e].pc = "release" /\ approvals' = approvals /\ PendingExists
      BY <1>0, <2>4 DEF Park, Goto, Execution, WaitInv
    <3> QED BY <2>1, <2>2, <2>3, <3>1 DEF WaitInv, SoleInv, Awaited, NoLostDecision, PendingExists, Live
  <2>5. CASE PersistApproval(e) /\ status' = status
    <3>1. PendingExists'
      BY <2>5, PersistLeavesPending
    <3> QED BY <2>1, <2>2, <2>3, <2>5, <3>1 DEF WaitInv, SoleInv, Awaited, NoLostDecision, PendingExists, Live
  <2>6. CASE ex'[e].pc # "park" /\ (status' = status \/ status' # "waiting_approval")
    BY <2>1, <2>2, <2>3, <2>6 DEF WaitInv, SoleInv, Awaited, NoLostDecision, PendingExists, Live
  <2> QED BY <2>1, <2>4, <2>5, <2>6
<1> QED BY <1>1, <1>2

\* The decisions of the only client.
LEMMA ServeWaits ==
    ASSUME TypeInv, WaitInv, Calm, NEW c \in Clients, Serve(c) \/ Operate(c) \/ BareResume(c)
    PROVE  WaitInv'
<1>0. /\ client \in [Clients -> Client] /\ client[c] \in Client /\ approvals \in Seq(Approval)
      /\ \A d \in Clients : d = c
      /\ UNCHANGED <<ex, lease>>
      /\ SoleInv /\ Awaited
  <2>1. UNCHANGED <<ex, lease>>
    BY DEF Serve, Operate, BareResume, Decide, PatchMetadata, CreateAuthorization, UpdateApproval,
           ResumeRead, ResumeWrite, CancelWrite, row
  <2> QED BY <2>1 DEF TypeInv, TypeOK, Calm, WaitInv
<1>1. ASSUME NEW pc, Step(c, pc) PROVE client'[c].pc = pc /\ client'[c].approval = client[c].approval
  BY <1>0, <1>1 DEF Step, Client
<1>2. ASSUME Done(c) PROVE client'[c].pc = "idle"
  BY <1>0, <1>2 DEF Done, NoClient
\* The run waits on while a client is busy, or stops to wait.
<1>3. ASSUME status' # "waiting_approval", approvals' = approvals, client'[c].pc \notin Deciding
      PROVE  WaitInv'
  BY <1>0, <1>3 DEF WaitInv, SoleInv, Awaited, NoLostDecision, PendingExists, Live
<1>4. ASSUME status' = status, client'[c].pc # "idle", PendingExists' \/ \A e \in Execs : ex[e].pc # "park",
             client'[c].pc \in Deciding => status = "waiting_approval"
                                           /\ approvals'[client'[c].approval].status = "pending"
      PROVE  WaitInv'
  BY <1>0, <1>4 DEF WaitInv, SoleInv, Awaited, NoLostDecision, PendingExists, Live
<1>5. status = "waiting_approval" => \A e \in Execs : ex[e].pc # "park"
  BY <1>0 DEF SoleInv, Live
<1>6. CASE PatchMetadata(c)
  <2>1. /\ client[c].pc = "patch" /\ Step(c, "authorize") /\ status' = status /\ approvals' = approvals
    BY <1>6 DEF PatchMetadata, row
  <2> QED BY <1>1, <1>4, <1>5, <2>1 DEF WaitInv, Deciding
<1>7. CASE CreateAuthorization(c)
  <2> DEFINE a == client[c].approval
  <2>1. /\ client[c].pc = "authorize" /\ status' = status /\ status = "waiting_approval"
        /\ approvals[a].status = "pending" /\ a \in 1 .. Len(approvals)
    BY <1>7 DEF CreateAuthorization, row, WaitInv, Deciding, TypeInv
  <2>2. CASE approvals[a].auth = "none"
    <3>1. /\ Step(c, "update")
          /\ approvals' = [approvals EXCEPT ![a].auth = "issued", ![a].bound = client[c].decision # "edit"]
      BY <1>7, <2>2 DEF CreateAuthorization
    <3>2. approvals'[a].status = "pending"
      BY <1>0, <2>1, <3>1 DEF Approval
    <3> QED BY <1>1, <1>4, <1>5, <2>1, <3>1, <3>2
  <2>3. CASE approvals[a].auth # "none"
    <3>1. approvals' = approvals /\ Done(c)
      BY <1>7, <2>3 DEF CreateAuthorization
    <3>2. PendingExists' /\ client'[c].pc = "idle"
      BY <1>0, <1>2, <2>1, <3>1 DEF PendingExists
    <3> QED BY <1>0, <2>1, <3>2 DEF WaitInv, SoleInv, Awaited, NoLostDecision, PendingExists, Live, Deciding
  <2> QED BY <2>2, <2>3
<1>8. CASE UpdateApproval(c)
  <2>1. /\ client[c].pc = "update" /\ status' = status /\ status = "waiting_approval"
        /\ approvals[client[c].approval].status = "pending"
    BY <1>8 DEF UpdateApproval, row, WaitInv, Deciding
  <2>2. Step(c, "resume")
    BY <1>8, <2>1 DEF UpdateApproval
  <2> QED BY <1>1, <1>4, <1>5, <2>1, <2>2 DEF Deciding
<1>9. CASE ResumeRead(c)
  <2>1. client[c].pc = "resume" /\ status' = status /\ approvals' = approvals
    BY <1>9 DEF ResumeRead, row
  <2>2. CASE status \in Terminal
    <3>1. Done(c) /\ status # "waiting_approval"
      BY <1>9, <2>2 DEF ResumeRead, Terminal
    <3> QED BY <1>2, <1>3, <2>1, <3>1 DEF Deciding
  <2>3. CASE status \notin Terminal
    <3>1. Step(c, "repend")
      BY <1>9, <2>3 DEF ResumeRead
    <3>2. client'[c].pc = "repend"
      BY <1>1, <3>1
    <3>3. PendingExists' \/ \A e \in Execs : ex[e].pc # "park"
      BY <2>1 DEF WaitInv, PendingExists
    <3> QED BY <1>4, <2>1, <3>2, <3>3 DEF Deciding
  <2> QED BY <2>2, <2>3
<1>10. CASE ResumeWrite(c) \/ CancelWrite(c)
  <2>1. Done(c) /\ status' # "waiting_approval" /\ approvals' = approvals
    BY <1>10 DEF ResumeWrite, CancelWrite
  <2> QED BY <1>2, <1>3, <2>1 DEF Deciding
<1>11. CASE BareResume(c)
  <2>1. /\ client' = [client EXCEPT ![c] = [NoClient EXCEPT !.pc = "resume"]]
        /\ status' = status /\ approvals' = approvals
    BY <1>11 DEF BareResume, row
  <2>2. client'[c].pc = "resume"
    BY <1>0, <2>1 DEF NoClient
  <2>3. PendingExists' \/ \A e \in Execs : ex[e].pc # "park"
    BY <2>1 DEF WaitInv, PendingExists
  <2> QED BY <1>4, <2>1, <2>2, <2>3 DEF Deciding
<1>12. CASE Operate(c)
  <2>1. PICK a \in DOMAIN approvals, d \in Decisions : Decide(c, a, d)
    BY <1>12 DEF Operate
  <2>2. PICK pc : pc = IF approvals[a].status # "pending" THEN "resume"
                       ELSE IF d \in {"approve", "edit"} THEN "patch" ELSE "update"
    OBVIOUS
  <2>3. /\ client' = [client EXCEPT ![c] = [pc |-> pc, decision |-> d, approval |-> a]]
        /\ status' = status /\ approvals' = approvals /\ status = "waiting_approval"
    BY <2>1, <2>2 DEF Decide, row, Calm
  <2>4. client'[c].pc = pc /\ client'[c].approval = a
    BY <1>0, <2>3
  <2>5. pc # "idle" /\ (pc \in Deciding => approvals[a].status = "pending")
    BY <2>2 DEF Deciding
  <2> QED BY <1>4, <1>5, <2>3, <2>4, <2>5
<1> QED BY <1>6, <1>7, <1>8, <1>9, <1>10, <1>11, <1>12 DEF Serve

\* An execution is killed or told to stop; a run is claimed; a lease runs out.
LEMMA RestWaits ==
    ASSUME TypeInv, WaitInv, Calm,
           \/ LeaseExpires \/ \E w \in Procs : Claim(w) \/ Crash(w) \/ Stop(w)
           \/ \E c \in Clients : Abandon(c) \/ \E w \in Procs : CancelRun(c, w)
           \/ UNCHANGED vars
    PROVE  WaitInv'
<1>0. /\ ex \in [Execs -> Execution] /\ handle \in [Procs -> 0 .. MaxClaims] /\ MaxClaims \in Nat
      /\ client \in [Clients -> Client] /\ claims \in 0 .. MaxClaims
  BY AgentAssumption DEF TypeInv, TypeOK
\* A step that only takes executions towards their end.
<1>1. ASSUME UNCHANGED <<status, lease, approvals>>,
             \A c \in Clients : client'[c] = client[c] \/ client'[c].pc = "mark",
             \A e \in Execs : \/ ex'[e] = ex[e] \/ ex'[e].pc \in {"over"}
                              \/ Live(e) /\ ex[e].pc # "release" /\ ex'[e].pc \in {"release", "abort"}
      PROVE  WaitInv'
  <2>1. \A e \in Execs : Live(e)' => Live(e)
    BY <1>1 DEF Live
  <2>2. SoleInv'
    <3>1. \A e \in Execs : Live(e)' /\ status' = "waiting_approval" => ex'[e].pc = "release"
      BY <1>1, <2>1 DEF WaitInv, SoleInv, Live
    <3> QED BY <1>1, <2>1, <3>1 DEF WaitInv, SoleInv
  <2>3. Awaited'
    BY <1>1 DEF WaitInv, Awaited, NoLostDecision
  <2>4. \A e \in Execs : ex'[e].pc = "park" => PendingExists'
    BY <1>1 DEF WaitInv, PendingExists
  <2>5. \A c \in Clients : client'[c].pc \in Deciding =>
            status' = "waiting_approval" /\ approvals'[client'[c].approval].status = "pending"
    BY <1>1 DEF WaitInv, Deciding
  <2> QED BY <2>2, <2>3, <2>4, <2>5 DEF WaitInv
<1>2. \A e \in Execs : Over(ex[e]).pc = "over"
  BY DEF Over, Unborn
<1>3. ASSUME NEW e \in Execs, Live(e)
      PROVE  \/ CancelTask(ex[e]).pc = "over"
             \/ ex[e].pc # "release" /\ CancelTask(ex[e]).pc \in {"release", "abort"}
  BY <1>0, <1>2 DEF CancelTask, Execution
<1>4. CASE LeaseExpires
  <2>1. /\ UNCHANGED <<status, approvals, ex, client>> /\ \A e \in Execs : ~Live(e)
    BY <1>4 DEF LeaseExpires, Calm
  <2> QED BY <2>1 DEF WaitInv, SoleInv, Awaited, NoLostDecision, PendingExists, Live
<1>5. ASSUME NEW w \in Procs, Claim(w) PROVE WaitInv'
  <2>1. PICK y : y = [Unborn EXCEPT !.pc = "load", !.proc = w]
    OBVIOUS
  <2>2. y.pc = "load"
    BY <2>1 DEF Unborn
  <2>3. /\ ex' = [ex EXCEPT ![claims + 1] = y] /\ claims + 1 \in Execs
        /\ UNCHANGED <<status, approvals, client>> /\ lease' = "live"
        /\ lease # "live" /\ status # "waiting_approval"
    <3>1. claims + 1 \in Execs
      <4>1. claims < MaxClaims
        BY <1>5 DEF Claim
      <4> QED BY <1>0, <4>1 DEF Execs
    <3>2. lease # "live" /\ status # "waiting_approval"
      BY <1>5 DEF Claim, Claimable
    <3>3. ex' = [ex EXCEPT ![claims + 1] = y] /\ UNCHANGED <<status, approvals, client>> /\ lease' = "live"
      BY <1>5, <2>1 DEF Claim
    <3> QED BY <3>1, <3>2, <3>3
  <2>4. \A e \in Execs : ex'[e].pc \in {"unborn", "over"} \/ (e = claims + 1 /\ ex'[e].pc = "load")
    <3>1. \A e \in Execs : ex[e].pc \in {"unborn", "over"}
      BY <2>3 DEF WaitInv, SoleInv, Live
    <3>2. \A e \in Execs : ex'[e] = IF e = claims + 1 THEN y ELSE ex[e]
      BY <1>0, <2>3
    <3> QED BY <2>2, <3>1, <3>2
  <2>5. SoleInv'
    BY <2>3, <2>4 DEF SoleInv, Live
  <2>6. NoLostDecision' /\ \A e \in Execs : ex'[e].pc # "park"
    BY <2>3, <2>4 DEF NoLostDecision
  <2>7. \A c \in Clients : client'[c].pc \notin Deciding
    BY <2>3 DEF WaitInv
  <2> QED BY <2>5, <2>6, <2>7 DEF WaitInv, Awaited
<1>6. ASSUME NEW w \in Procs, Crash(w) PROVE WaitInv'
  <2>1. /\ UNCHANGED <<status, lease, approvals, client>>
        /\ ex' = [e \in Execs |-> IF Live(e) /\ ex[e].proc = w THEN Over(ex[e]) ELSE ex[e]]
    BY <1>6 DEF Crash, row
  <2> QED BY <1>1, <1>2, <2>1
<1>7. ASSUME NEW w \in Procs, Stop(w) PROVE WaitInv'
  <2>1. handle[w] \in Execs /\ Live(handle[w])
    BY <1>0, <1>7 DEF Stop, Execs
  <2>2. ex' = [ex EXCEPT ![handle[w]] = CancelTask(ex[handle[w]])] /\ UNCHANGED <<status, lease, approvals, client>>
    BY <1>7 DEF Stop, row
  <2> QED BY <1>0, <1>1, <1>3, <2>1, <2>2
<1>8. ASSUME NEW c \in Clients, NEW w \in Procs, CancelRun(c, w) PROVE WaitInv'
  <2>1. /\ UNCHANGED <<status, lease, approvals>>
        /\ client' = [client EXCEPT ![c] = [NoClient EXCEPT !.pc = "mark"]]
    BY <1>8 DEF CancelRun, row
  <2>2. \A d \in Clients : client'[d] = client[d] \/ client'[d].pc = "mark"
    BY <1>0, <2>1 DEF NoClient
  <2>3. CASE handle[w] # 0 /\ Live(handle[w])
    <3>1. handle[w] \in Execs
      BY <1>0, <2>3 DEF Execs
    <3>2. ex' = [ex EXCEPT ![handle[w]] = CancelTask(ex[handle[w]])]
      BY <1>8, <2>3 DEF CancelRun
    <3> QED BY <1>0, <1>1, <1>3, <2>1, <2>2, <2>3, <3>1, <3>2
  <2>4. CASE ~(handle[w] # 0 /\ Live(handle[w]))
    BY <1>1, <1>8, <2>1, <2>2, <2>4 DEF CancelRun
  <2> QED BY <2>3, <2>4
<1>9. ASSUME NEW c \in Clients, Abandon(c) PROVE WaitInv'
  <2>1. UNCHANGED <<status, lease, approvals, ex>> /\ "abandon" \in Faults /\ Done(c)
    BY <1>9 DEF Abandon, row
  <2>2. \A d \in Clients : client'[d] = client[d] \/ client'[d].pc = "idle"
    BY <1>0, <2>1 DEF Done, NoClient
  <2> QED BY <2>1, <2>2 DEF WaitInv, SoleInv, Awaited, PendingExists, Live, Deciding
<1>10. CASE UNCHANGED vars
  BY <1>10, <1>1 DEF vars, row
<1> QED BY <1>4, <1>5, <1>6, <1>7, <1>8, <1>9, <1>10

LEMMA NextWaitInv == Calm => (TypeInv /\ WaitInv /\ [Next]_vars => WaitInv')
<1> SUFFICES ASSUME Calm, TypeInv, WaitInv, [Next]_vars PROVE WaitInv'
  OBVIOUS
<1>1. \/ \E e \in Execs : Work(e) \/ ExecuteRaises(e)
      \/ \E c \in Clients : Serve(c) \/ Operate(c) \/ BareResume(c)
      \/ LeaseExpires \/ \E w \in Procs : Claim(w) \/ Crash(w) \/ Stop(w)
      \/ \E c \in Clients : Abandon(c) \/ \E w \in Procs : CancelRun(c, w)
      \/ UNCHANGED vars
  BY DEF Next
<1>2. ASSUME NEW e \in Execs, Work(e) \/ ExecuteRaises(e) PROVE WaitInv'
  BY <1>2, WorkWaits
<1>3. ASSUME NEW c \in Clients, Serve(c) \/ Operate(c) \/ BareResume(c) PROVE WaitInv'
  BY <1>3, ServeWaits
<1> QED BY <1>1, <1>2, <1>3, RestWaits

\* No decision is lost when executions do not outlive the lease, requests are
\* not cut short, and one operator at a time decides what the row already
\* shows as waiting: whoever claims, crashes, cancels or resumes, a run that
\* waits has an undecided approval or a request that will resume it.  Without
\* the operator's patience a decision is lost (run agent_lost).
\* GraphWorker._execute and _persist_approval, AgentService.approve and resume.
THEOREM NoDecisionIsLost ==
    ASSUME Patient, Faults \cap {"overrun", "abandon"} = {}, \A c, d \in Clients : c = d
    PROVE  Spec => []NoLostDecision
<1>1. Calm
  BY DEF Calm
<1>2. TypeInv /\ WaitInv /\ [Next]_vars => WaitInv'
  BY <1>1, NextWaitInv
<1>3. WaitInv => NoLostDecision
  BY DEF WaitInv, Awaited
<1> QED BY <1>2, <1>3, InitWaitInv, TypeInvariance, PTL DEF Spec

-----------------------------------------------------------------------------
(* Interrupts are answered by position: the k-th interrupt of a node that   *)
(* re-runs gets the k-th answer, and nothing in an answer says what it is   *)
(* about.  It is about the right interrupt when the run goes through one    *)
(* hand: no scope is approved beforehand, one patient operator decides once *)
(* and never cancels, the lease is not outlived, and only the execution     *)
(* that no approval resumed is killed.  Then the gated calls of a batch     *)
(* need an answer each, in their order, however often the batch re-runs:    *)
(* a call that a grant of the same execution would let through has no       *)
(* authorization left and fails.                                            *)

\* Of the plan p: a call that can interrupt node i.
GatedAt(p, i, q) == q \in 1 .. Len(p[i].calls) /\ p[i].calls[q].tool \in Gated

\* Of the approvals A: what an answer is about, and whether node i asked it.
Spot(A, x) == A[x.approval].ask.pos
Asked(p, A, i, x) ==
    /\ x.approval \in 1 .. Len(A) /\ A[x.approval].status # "pending"
    /\ A[x.approval].ask.node = i
    /\ p[i].kind = "model" => Spot(A, x) = 0
    /\ p[i].kind = "tools" => GatedAt(p, i, Spot(A, x))

\* Answers of node i, in the order of its gated calls and without a gap.
InOrder(p, A, i, s) ==
    /\ \A k \in 1 .. Len(s) : Asked(p, A, i, s[k])
    /\ p[i].kind = "tools" => \A k \in 1 .. Len(s) :
          /\ \A j \in 1 .. Len(s) : j < k => Spot(A, s[j]) < Spot(A, s[k])
          /\ \A q \in 1 .. Len(p[i].calls) : GatedAt(p, i, q) /\ q < Spot(A, s[k]) =>
                \E j \in 1 .. Len(s) : j < k /\ Spot(A, s[j]) = q

\* The gated calls before position q took the first m answers.
Passed(p, A, i, s, m, q) ==
    /\ \A k \in 1 .. Len(s) : (k <= m) <=> (Spot(A, s[k]) < q)
    /\ \A t \in 1 .. Len(p[i].calls) : GatedAt(p, i, t) /\ t < q =>
          \E k \in 1 .. Len(s) : k <= m /\ Spot(A, s[k]) = t

\* The asks of A hold for B: approvals are added and decided, not changed.
Kept(A, B) == \A a \in 1 .. Len(A) :
    /\ a \in 1 .. Len(B) /\ B[a].ask = A[a].ask
    /\ A[a].status # "pending" => B[a].status # "pending"

LEMMA OrderKept ==
    ASSUME NEW p, NEW A, NEW B, Kept(A, B), NEW i, NEW s, InOrder(p, A, i, s)
    PROVE  /\ InOrder(p, B, i, s)
           /\ \A m, q : Passed(p, A, i, s, m, q) => Passed(p, B, i, s, m, q)
<1>1. \A k \in 1 .. Len(s) : Spot(B, s[k]) = Spot(A, s[k])
  BY DEF Kept, InOrder, Asked, Spot
<1>2. \A k \in 1 .. Len(s) : Asked(p, B, i, s[k])
  BY <1>1 DEF Kept, InOrder, Asked
<1>3. InOrder(p, B, i, s)
  BY <1>1, <1>2 DEF InOrder
<1>4. \A m, q : Passed(p, A, i, s, m, q) => Passed(p, B, i, s, m, q)
  BY <1>1 DEF Passed
<1> QED BY <1>3, <1>4

\* Spots are positions.
LEMMA SpotTyped ==
    ASSUME NEW A \in Seq(Approval), NEW p, NEW i, NEW s \in Seq(Answer), InOrder(p, A, i, s)
    PROVE  Len(s) \in Nat /\ \A k \in 1 .. Len(s) : Spot(A, s[k]) \in Nat
<1>1. \A k \in 1 .. Len(s) : s[k].approval \in 1 .. Len(A)
  BY DEF InOrder, Asked
<1>2. ASSUME NEW a \in 1 .. Len(A) PROVE A[a].ask.pos \in Nat
  <2>1. A[a] \in Approval
    OBVIOUS
  <2>2. A[a].ask \in Request
    BY <2>1 DEF Approval
  <2> QED BY <2>2 DEF Request
<1> QED BY <1>1, <1>2 DEF Spot

LEMMA NoAnswers ==
    ASSUME NEW p, NEW A, NEW i
    PROVE  InOrder(p, A, i, <<>>) /\ Passed(p, A, i, <<>>, 0, 1)
<1>1. Len(<<>>) = 0
  OBVIOUS
<1> QED BY <1>1 DEF InOrder, Passed, GatedAt

LEMMA StartFits ==
    ASSUME NEW A \in Seq(Approval), NEW p, NEW i, NEW s \in Seq(Answer), InOrder(p, A, i, s),
           p[i].kind = "tools"
    PROVE  Passed(p, A, i, s, 0, 1)
<1>1. ASSUME NEW k \in 1 .. Len(s) PROVE Spot(A, s[k]) \in Nat /\ Spot(A, s[k]) >= 1
  <2>1. Spot(A, s[k]) \in Nat
    BY SpotTyped
  <2>2. Spot(A, s[k]) \in 1 .. Len(p[i].calls)
    BY DEF InOrder, Asked, GatedAt
  <2> QED BY <2>1, <2>2
<1> QED BY <1>1, SpotTyped DEF Passed, GatedAt

\* The next answer is for the gated call the node is at.
LEMMA AnswerFits ==
    ASSUME NEW A \in Seq(Approval), NEW p, NEW i, NEW s \in Seq(Answer), InOrder(p, A, i, s),
           p[i].kind = "tools", NEW m \in Nat, m < Len(s), NEW q \in Nat,
           Passed(p, A, i, s, m, q), GatedAt(p, i, q)
    PROVE  Spot(A, s[m + 1]) = q /\ Passed(p, A, i, s, m + 1, q + 1)
<1>1. Len(s) \in Nat /\ m + 1 \in 1 .. Len(s) /\ \A k \in 1 .. Len(s) : Spot(A, s[k]) \in Nat
  BY SpotTyped
<1>2. ~(Spot(A, s[m + 1]) < q)
  BY <1>1 DEF Passed
<1>3. ~(q < Spot(A, s[m + 1]))
  <2>1. SUFFICES ASSUME q < Spot(A, s[m + 1]) PROVE FALSE
    OBVIOUS
  <2>2. PICK j \in 1 .. Len(s) : j < m + 1 /\ Spot(A, s[j]) = q
    BY <1>1, <2>1 DEF InOrder, GatedAt
  <2>3. Spot(A, s[j]) < q
    BY <1>1, <2>2 DEF Passed
  <2> QED BY <1>1, <2>2, <2>3
<1>4. Spot(A, s[m + 1]) = q
  BY <1>1, <1>2, <1>3
<1>5. ASSUME NEW k \in 1 .. Len(s) PROVE (k <= m + 1) <=> (Spot(A, s[k]) < q + 1)
  <2>1. CASE k <= m
    BY <1>1, <2>1 DEF Passed
  <2>2. CASE k = m + 1
    BY <1>1, <1>4, <2>2
  <2>3. CASE m + 1 < k
    <3>1. Spot(A, s[m + 1]) < Spot(A, s[k])
      BY <1>1, <2>3 DEF InOrder
    <3> QED BY <1>1, <1>4, <2>3, <3>1
  <2> QED BY <1>1, <2>1, <2>2, <2>3
<1>6. ASSUME NEW t \in 1 .. Len(p[i].calls), GatedAt(p, i, t), t < q + 1
      PROVE  \E k \in 1 .. Len(s) : k <= m + 1 /\ Spot(A, s[k]) = t
  <2>1. CASE t < q
    <3>1. PICK k \in 1 .. Len(s) : k <= m /\ Spot(A, s[k]) = t
      BY <1>6, <2>1 DEF Passed
    <3> QED BY <1>1, <3>1
  <2>2. CASE t = q
    BY <1>1, <1>4, <2>2
  <2> QED BY <1>6, <2>1, <2>2
<1> QED BY <1>4, <1>5, <1>6 DEF Passed

\* A call that does not interrupt takes none.
LEMMA FreeFits ==
    ASSUME NEW A \in Seq(Approval), NEW p, NEW i, NEW s \in Seq(Answer), InOrder(p, A, i, s),
           p[i].kind = "tools", NEW m \in Nat, NEW q \in Nat,
           Passed(p, A, i, s, m, q), ~GatedAt(p, i, q)
    PROVE  Passed(p, A, i, s, m, q + 1)
<1>1. \A k \in 1 .. Len(s) : Spot(A, s[k]) \in Nat /\ Spot(A, s[k]) # q
  BY SpotTyped DEF InOrder, Asked
<1>2. \A k \in 1 .. Len(s) : (Spot(A, s[k]) < q) <=> (Spot(A, s[k]) < q + 1)
  BY <1>1
<1>3. \A t \in 1 .. Len(p[i].calls) : GatedAt(p, i, t) /\ t < q + 1 => t < q
  <2>1. SUFFICES ASSUME NEW t \in 1 .. Len(p[i].calls), GatedAt(p, i, t), t < q + 1 PROVE t < q
    OBVIOUS
  <2>2. t # q /\ t \in Int
    BY <2>1
  <2> QED BY <2>1, <2>2
<1> QED BY <1>2, <1>3 DEF Passed

\* The interrupt r is the next one of its node after the answers s.
AsksNext(p, A, i, s, r) ==
    /\ r.node = i
    /\ p[i].kind = "model" => r.pos = 0
    /\ p[i].kind = "tools" => GatedAt(p, i, r.pos) /\ Passed(p, A, i, s, Len(s), r.pos)

\* Its answer follows them.
LEMMA AppendFits ==
    ASSUME NEW A \in Seq(Approval), NEW p, NEW i, NEW s \in Seq(Answer), InOrder(p, A, i, s),
           NEW r, AsksNext(p, A, i, s, r), NEW x \in Answer, x.approval \in 1 .. Len(A),
           A[x.approval].ask = r, A[x.approval].status # "pending"
    PROVE  InOrder(p, A, i, Append(s, x))
<1> DEFINE z == Append(s, x)
<1>1. /\ Len(s) \in Nat /\ Len(z) = Len(s) + 1 /\ z[Len(s) + 1] = x
      /\ \A k \in 1 .. Len(s) : z[k] = s[k]
  OBVIOUS
<1> HIDE DEF z
<1>2. Spot(A, x) = r.pos /\ Asked(p, A, i, x)
  BY DEF Spot, Asked, AsksNext
<1>3. \A k \in 1 .. Len(z) : k \in 1 .. Len(s) \/ k = Len(s) + 1
  BY <1>1
<1>4. \A k \in 1 .. Len(z) : Asked(p, A, i, z[k])
  BY <1>1, <1>2, <1>3 DEF InOrder
<1>5. ASSUME p[i].kind = "tools", NEW k \in 1 .. Len(z), NEW j \in 1 .. Len(z), j < k
      PROVE  Spot(A, z[j]) < Spot(A, z[k])
  <2>1. j \in 1 .. Len(s)
    BY <1>1, <1>5
  <2>2. CASE k \in 1 .. Len(s)
    BY <1>1, <1>5, <2>1, <2>2 DEF InOrder
  <2>3. CASE k = Len(s) + 1
    <3>1. Spot(A, s[j]) < r.pos
      BY <1>5, <2>1 DEF AsksNext, Passed
    <3> QED BY <1>1, <1>2, <2>1, <2>3, <3>1
  <2> QED BY <1>3, <2>2, <2>3
<1>6. ASSUME p[i].kind = "tools", NEW k \in 1 .. Len(z), NEW q \in 1 .. Len(p[i].calls),
             GatedAt(p, i, q), q < Spot(A, z[k])
      PROVE  \E j \in 1 .. Len(z) : j < k /\ Spot(A, z[j]) = q
  <2>1. CASE k \in 1 .. Len(s)
    <3>1. PICK j \in 1 .. Len(s) : j < k /\ Spot(A, s[j]) = q
      BY <1>1, <1>6, <2>1 DEF InOrder
    <3> QED BY <1>1, <3>1
  <2>2. CASE k = Len(s) + 1
    <3>1. q < r.pos
      BY <1>1, <1>2, <1>6, <2>2
    <3>2. PICK j \in 1 .. Len(s) : Spot(A, s[j]) = q
      BY <1>6, <3>1 DEF AsksNext, Passed
    <3> QED BY <1>1, <2>2, <3>2
  <2> QED BY <1>3, <2>1, <2>2
<1>7. InOrder(p, A, i, z)
  BY <1>4, <1>5, <1>6 DEF InOrder
<1> QED BY <1>7 DEF z

AllDecided(A) == \A a \in 1 .. Len(A) : A[a].status # "pending"
Undecided(A)  == \A a \in 1 .. Len(A) : A[a].status = "pending"
LastAsks(A, r) == Len(A) >= 1 /\ A[Len(A)].ask = r

\* The checkpoint c is interrupted by r, after the answers it recorded.
Due(p, A, c, r) == /\ c.interrupts = <<r>>
                   /\ InOrder(p, A, c.node, c.answers) /\ AsksNext(p, A, c.node, c.answers, r)

\* What the next execution finds: nothing asked; something asked that nobody
\* has decided yet, nor anything before it; or the decision on what was asked.
LookReady(p, A, c) ==
    \/ c.interrupts = <<>> /\ c.answers = <<>> /\ AllDecided(A)
    \/ \E r \in Request : Due(p, A, c, r) /\ Undecided(A) /\ (Len(A) = 0 \/ (Len(A) = 1 /\ LastAsks(A, r)))
    \/ \E r \in Request : Due(p, A, c, r) /\ AllDecided(A) /\ LastAsks(A, r)

\* Before and after the approval of the interrupt is stored.
AskReady(p, A, c, x) ==
    \E r \in Request : /\ x.request = <<r>> /\ Due(p, A, c, r)
                       /\ AllDecided(A) \/ (Undecided(A) /\ Len(A) = 1 /\ LastAsks(A, r))
ParkReady(p, A, c) ==
    \E r \in Request : /\ Due(p, A, c, r) /\ LastAsks(A, r)
                       /\ \A a \in 1 .. Len(A) : a < Len(A) => A[a].status # "pending"

\* Execution x at its node.
AtNode(p, A, c, x) ==
    /\ c.node = x.node /\ c.by = x.base
    /\ InOrder(p, A, x.node, x.answers)
    /\ p[x.node].kind = "tools" =>
          /\ x.pc = "node" => Passed(p, A, x.node, x.answers, x.asked, x.pos)
          /\ x.pc = "invoke" => Passed(p, A, x.node, x.answers, x.asked, x.pos + 1)
          /\ x.pc = "consume" => \/ Passed(p, A, x.node, x.answers, x.asked, x.pos + 1)
                                 \/ A[x.approval].auth # "issued"
    /\ x.pc # "consume" /\ x.approval # 0 /\ x.tools \cap Gated # {} => A[x.approval].auth # "issued"

AtWork == {"node", "consume", "invoke"}

Phase(p, A, c, s, x) ==
    /\ x.pc # "abort"
    /\ s \in Terminal => x.pc \in {"unborn", "over", "emit", "fail", "release"}
    /\ x.pc = "emit" => s \in Terminal
    /\ x.pc \in {"load", "mark", "look"} => LookReady(p, A, c)
    /\ x.pc = "ask" => AskReady(p, A, c, x)
    /\ x.pc = "park" => ParkReady(p, A, c)
    /\ x.pc \in AtWork \cup {"check", "complete", "emit"} => AllDecided(A)
    /\ x.pc \in AtWork => AtNode(p, A, c, x)

\* Decisions are dated in the order of the approvals.
Dated(A, n) ==
    /\ \A a \in 1 .. Len(A) : A[a].status # "pending" => A[a].at >= 1 /\ A[a].at <= n
    /\ \A a, b \in 1 .. Len(A) :
          a < b /\ A[a].status # "pending" /\ A[b].status # "pending" => A[a].at < A[b].at

BornInv ==
    /\ \A e \in Execs : (ex[e].pc = "unborn") <=> (e > claims)
    /\ approvals # <<>> => claims >= 1
    /\ ~Undecided(approvals) => ex[1].pc \in {"release", "over"}

ClientInv == \A c \in Clients :
    /\ client[c].pc # "mark"
    /\ client[c].pc # "idle" => status = "waiting_approval"
    /\ client[c].pc \in {"resume", "repend"} => AllDecided(approvals)

RowReady ==
    /\ status = "waiting_approval" => ParkReady(plan, approvals, cp)
    /\ status \in {"pending", "running"} /\ (\A e \in Execs : Live(e) => ex[e].pc = "release")
          => LookReady(plan, approvals, cp)
    /\ Undecided(approvals) => LookReady(plan, approvals, cp)

OrderInv ==
    /\ \A e \in Execs : Phase(plan, approvals, cp, status, ex[e])
    /\ RowReady /\ BornInv /\ ClientInv /\ Dated(approvals, decided)

Orderly == /\ Calm /\ ~Preapproved /\ Requests = {} /\ "cancel" \notin Decisions
           /\ Faults \subseteq {"crash", "raise", "abandon"} /\ FaultyClaims <= 1

LEMMA InitOrderInv == Init => OrderInv
<1> SUFFICES ASSUME Init PROVE OrderInv
  OBVIOUS
<1>1. \A e \in Execs : ex[e].pc = "unborn"
  BY DEF Init, Unborn
<1>2. approvals = <<>> /\ Len(approvals) = 0 /\ cp.interrupts = <<>> /\ cp.answers = <<>> /\ claims = 0
      /\ status = "pending"
  BY DEF Init
<1>3. \A e \in Execs : Phase(plan, approvals, cp, status, ex[e])
  BY <1>1, <1>2 DEF Phase, AtWork, Terminal
<1>4. RowReady
  BY <1>2 DEF RowReady, LookReady, AllDecided
<1>5. BornInv
  BY <1>1, <1>2, AgentAssumption DEF BornInv, Undecided, Execs
<1>6. ClientInv
  BY DEF Init, ClientInv, NoClient
<1>7. Dated(approvals, decided)
  BY <1>2 DEF Dated
<1> QED BY <1>3, <1>4, <1>5, <1>6, <1>7 DEF OrderInv

\* What stays true of the checkpoint when approvals are added or decided.
LEMMA DueKept ==
    ASSUME NEW p, NEW A, NEW B, Kept(A, B), NEW c, NEW r, Due(p, A, c, r)
    PROVE  Due(p, B, c, r)
BY OrderKept DEF Due, AsksNext

\* A step of an execution that goes on: the others are not there.
LEMMA WorkStep ==
    ASSUME TypeInv, WaitInv, OrderInv, NEW e \in Execs, Work(e) \/ ExecuteRaises(e), ~Release(e),
           NEW y, y = ex'[e], y.pc # "unborn", Phase(plan, approvals', cp', status', y),
           plan' = plan, claims' = claims,
           status' = "waiting_approval" => ParkReady(plan, approvals', cp'),
           y.pc \in {"release", "over"} /\ status' \in {"pending", "running"}
               => LookReady(plan, approvals', cp'),
           Undecided(approvals') => LookReady(plan, approvals', cp'),
           Undecided(approvals) => Undecided(approvals'),
           Dated(approvals', decided')
    PROVE  OrderInv'
<1>1. /\ Live(e) /\ ex[e].pc # "release" /\ client' = client
      /\ \A d \in Execs : d # e => ex'[d] = ex[d]
  BY WorkMoves
<1>2. \A d \in Execs : d # e => ex'[d].pc \in {"unborn", "over"}
  BY <1>1 DEF WaitInv, SoleInv, Live
<1>3. status # "waiting_approval" /\ \A c \in Clients : client[c].pc = "idle"
  BY <1>1 DEF WaitInv, SoleInv, OrderInv, ClientInv
<1>4. \A d \in Execs : Phase(plan', approvals', cp', status', ex'[d])
  <2>1. \A d \in Execs : d # e => Phase(plan, approvals', cp', status', ex'[d])
    BY <1>2 DEF Phase, AtWork
  <2> QED BY <2>1
<1>5. RowReady'
  <2>1. ASSUME status' \in {"pending", "running"}, \A d \in Execs : Live(d)' => ex'[d].pc = "release"
        PROVE  LookReady(plan, approvals', cp')
    <3>1. y.pc \in {"release", "over"}
      BY <2>1 DEF Live
    <3> QED BY <2>1, <3>1
  <2> QED BY <2>1 DEF RowReady
<1>6. BornInv'
  <2>1. e <= claims
    BY <1>1, AgentAssumption DEF OrderInv, BornInv, Live, Execs, TypeInv, TypeOK
  <2>2. \A d \in Execs : (ex'[d].pc = "unborn") <=> (d > claims')
    <3>1. ASSUME NEW d \in Execs, d # e PROVE (ex'[d].pc = "unborn") <=> (d > claims')
      BY <1>1, <3>1 DEF OrderInv, BornInv
    <3>2. (ex'[e].pc = "unborn") <=> (e > claims')
      BY <2>1, AgentAssumption DEF Execs, TypeInv, TypeOK
    <3> QED BY <3>1, <3>2
  <2>3. claims' >= 1
    BY <2>1, AgentAssumption DEF Execs, TypeInv, TypeOK
  <2>4. ASSUME ~Undecided(approvals') PROVE ex'[1].pc \in {"release", "over"}
    <3>1. ex[1].pc \in {"release", "over"}
      BY <2>4 DEF OrderInv, BornInv
    <3>2. 1 # e /\ 1 \in Execs
      BY <1>1, <2>1, <3>1, AgentAssumption DEF Live, Execs, TypeInv, TypeOK
    <3> QED BY <1>1, <3>1, <3>2
  <2> QED BY <2>2, <2>3, <2>4 DEF BornInv
<1>7. ClientInv'
  BY <1>1, <1>3 DEF ClientInv
<1> QED BY <1>4, <1>5, <1>6, <1>7 DEF OrderInv

\* The same when the approvals do not change.
LEMMA QuietWorkStep ==
    ASSUME TypeInv, WaitInv, OrderInv, NEW e \in Execs, Work(e) \/ ExecuteRaises(e), ~Release(e),
           NEW y, y = ex'[e], y.pc # "unborn", Phase(plan, approvals, cp', status', y),
           UNCHANGED <<plan, claims, approvals, decided>>,
           status' = "waiting_approval" => ParkReady(plan, approvals, cp'),
           y.pc \in {"release", "over"} => status' \in Terminal \cup {"waiting_approval"},
           Undecided(approvals) => LookReady(plan, approvals, cp')
    PROVE  OrderInv'
<1>1. Dated(approvals', decided')
  BY DEF OrderInv
<1>2. y.pc \in {"release", "over"} => status' \notin {"pending", "running"}
  BY DEF Terminal
<1> QED BY <1>1, <1>2, WorkStep

\* Steps that keep the answers and the checkpoint.
LEMMA PlainOrder ==
    ASSUME TypeInv, WaitInv, OrderInv, NEW e \in Execs,
           \/ LoadContext(e) \/ MarkRunning(e) \/ CheckCancelled(e) \/ Complete(e) \/ EmitEnd(e)
           \/ FailRun(e) \/ MarkCancelled(e) \/ ExecuteRaises(e) \/ Park(e)
    PROVE  OrderInv'
<1>0. /\ ex \in [Execs -> Execution] /\ ex[e] \in Execution
      /\ Phase(plan, approvals, cp, status, ex[e]) /\ RowReady
  BY DEF TypeInv, TypeOK, OrderInv
<1>1. /\ Work(e) \/ ExecuteRaises(e)
      /\ UNCHANGED <<plan, claims, approvals, decided, cp>>
  BY DEF Work, LoadContext, MarkRunning, CheckCancelled, Complete, EmitEnd, FailRun, MarkCancelled,
         ExecuteRaises, Park, EndAs, row
<1>2. ~Release(e)
  BY <1>0 DEF Release, LoadContext, MarkRunning, CheckCancelled, Complete, EmitEnd, FailRun,
              MarkCancelled, ExecuteRaises, Park, EndAs
<1>3. ASSUME NEW y, y = ex'[e], y.pc # "unborn", Phase(plan, approvals, cp, status', y),
             y.pc \in {"release", "over"} => status' \in Terminal \cup {"waiting_approval"},
             status' = "waiting_approval" => ParkReady(plan, approvals, cp)
      PROVE  OrderInv'
  BY <1>0, <1>1, <1>2, <1>3, QuietWorkStep DEF RowReady
<1>4. CASE LoadContext(e)
  <2>1. PICK y : y = ex'[e]
    OBVIOUS
  <2>2. y.pc = "mark" /\ ex[e].pc = "load" /\ status' = status
    BY <1>0, <1>4, <2>1 DEF LoadContext, Execution, row
  <2>3. Phase(plan, approvals, cp, status', y)
    BY <1>0, <2>2 DEF Phase, AtWork
  <2> QED BY <1>0, <1>3, <2>1, <2>2, <2>3 DEF RowReady
<1>5. CASE MarkRunning(e)
  <2>1. PICK y : y = ex'[e]
    OBVIOUS
  <2>2. y.pc = "look" /\ ex[e].pc = "mark" /\ status' = "running"
    BY <1>0, <1>5, <2>1 DEF MarkRunning, Goto, Execution
  <2>3. Phase(plan, approvals, cp, status', y)
    BY <1>0, <2>2 DEF Phase, AtWork, Terminal
  <2> QED BY <1>3, <2>1, <2>2, <2>3
<1>6. CASE CheckCancelled(e)
  <2>1. PICK y : y = ex'[e]
    OBVIOUS
  <2>2. ex[e].pc = "check" /\ status' = status /\ status \notin Terminal
    BY <1>0, <1>6 DEF CheckCancelled, Phase, row
  <2>3. y.pc = "complete"
    BY <1>0, <1>6, <2>1, <2>2 DEF CheckCancelled, Goto, Execution, Terminal
  <2>4. Phase(plan, approvals, cp, status', y)
    BY <1>0, <2>2, <2>3 DEF Phase, AtWork
  <2> QED BY <1>0, <1>3, <2>1, <2>2, <2>3, <2>4 DEF RowReady
<1>7. CASE Complete(e)
  <2>1. PICK y : y = ex'[e]
    OBVIOUS
  <2>2. y.pc = "emit" /\ ex[e].pc = "complete" /\ status' = "completed"
    BY <1>0, <1>7, <2>1 DEF Complete, EndAs, Goto, Execution
  <2>3. Phase(plan, approvals, cp, status', y)
    BY <1>0, <2>2 DEF Phase, AtWork, Terminal
  <2> QED BY <1>3, <2>1, <2>2, <2>3
<1>8. CASE EmitEnd(e)
  <2>1. PICK y : y = ex'[e]
    OBVIOUS
  <2>2. y.pc = "release" /\ ex[e].pc = "emit" /\ status' = status
    BY <1>0, <1>8, <2>1 DEF EmitEnd, Goto, Execution, row
  <2>3. Phase(plan, approvals, cp, status', y) /\ status' \in Terminal
    BY <1>0, <2>2 DEF Phase, AtWork
  <2> QED BY <1>0, <1>3, <2>1, <2>2, <2>3 DEF RowReady
<1>9. CASE FailRun(e)
  <2>1. PICK y : y = ex'[e]
    OBVIOUS
  <2>2. y.pc = "release" /\ status' = "failed"
    BY <1>0, <1>9, <2>1 DEF FailRun, EndAs, Goto, Execution
  <2>3. Phase(plan, approvals, cp, status', y) /\ status' \in Terminal
    BY <2>2 DEF Phase, AtWork, Terminal
  <2> QED BY <1>3, <2>1, <2>2, <2>3
<1>10. CASE MarkCancelled(e)
  BY <1>0, <1>10 DEF MarkCancelled, EndAs, Phase
<1>11. CASE ExecuteRaises(e)
  <2>1. PICK y : y = ex'[e]
    OBVIOUS
  <2>2. y.pc = "fail" /\ status' = status
    BY <1>0, <1>11, <2>1 DEF ExecuteRaises, Goto, Execution, row
  <2>3. Phase(plan, approvals, cp, status', y)
    BY <2>2 DEF Phase, AtWork
  <2> QED BY <1>0, <1>3, <2>1, <2>2, <2>3 DEF RowReady
<1>12. CASE Park(e)
  <2>1. PICK y : y = ex'[e]
    OBVIOUS
  <2>2. y.pc = "release" /\ ex[e].pc = "park" /\ status' = "waiting_approval"
    BY <1>0, <1>12, <2>1 DEF Park, Goto, Execution
  <2>3. Phase(plan, approvals, cp, status', y) /\ ParkReady(plan, approvals, cp)
    BY <1>0, <2>2 DEF Phase, AtWork, Terminal
  <2> QED BY <1>3, <2>1, <2>2, <2>3
<1> QED BY <1>4, <1>5, <1>6, <1>7, <1>8, <1>9, <1>10, <1>11, <1>12

\* The decision an execution resumes with is the last one.
LEMMA LatestIsLast ==
    ASSUME TypeInv, OrderInv, AllDecided(approvals)
    PROVE  LatestDecided = (IF approvals = <<>> THEN {} ELSE {Len(approvals)})
<1>1. /\ approvals \in Seq(Approval) /\ Len(approvals) \in Nat /\ decided \in Nat
      /\ DOMAIN approvals = 1 .. Len(approvals) /\ Dated(approvals, decided)
  BY DEF TypeInv, TypeOK, OrderInv
<1>2. ASSUME NEW a \in DOMAIN approvals
      PROVE  approvals[a].status \in DecidedStatuses /\ approvals[a].at \in Nat
  <2>1. approvals[a] \in Approval /\ approvals[a].status # "pending"
    BY <1>1 DEF AllDecided
  <2> QED BY <2>1 DEF Approval
<1>3. /\ \A a \in DOMAIN approvals : approvals[a].at # 0
      /\ \A a, b \in DOMAIN approvals : a < b => approvals[a].at < approvals[b].at
  BY <1>1 DEF AllDecided, Dated
<1>4. LatestDecided = {a \in DOMAIN approvals : \A b \in DOMAIN approvals : approvals[b].at <= approvals[a].at}
  <2>1. {a \in DOMAIN approvals : approvals[a].status \in DecidedStatuses} = DOMAIN approvals
    BY <1>2
  <2>2. {a \in DOMAIN approvals : approvals[a].at = 0} = {}
    BY <1>3
  <2> QED BY <2>1, <2>2 DEF LatestDecided
<1>5. CASE approvals = <<>>
  BY <1>1, <1>4, <1>5
<1>6. CASE approvals # <<>>
  <2>1. Len(approvals) \in DOMAIN approvals
    BY <1>1, <1>6
  <2>2. \A b \in DOMAIN approvals : approvals[b].at <= approvals[Len(approvals)].at
    <3>1. SUFFICES ASSUME NEW b \in DOMAIN approvals PROVE approvals[b].at <= approvals[Len(approvals)].at
      OBVIOUS
    <3>2. b = Len(approvals) \/ b < Len(approvals)
      BY <1>1
    <3>3. approvals[b].at \in Nat /\ approvals[Len(approvals)].at \in Nat
      BY <1>2, <2>1
    <3> QED BY <1>3, <2>1, <3>2, <3>3
  <2>3. ASSUME NEW a \in DOMAIN approvals, \A b \in DOMAIN approvals : approvals[b].at <= approvals[a].at
        PROVE  a = Len(approvals)
    <3>1. approvals[Len(approvals)].at <= approvals[a].at
      BY <2>1, <2>3
    <3>2. a < Len(approvals) => approvals[a].at < approvals[Len(approvals)].at
      BY <1>3, <2>1
    <3>3. approvals[a].at \in Nat /\ approvals[Len(approvals)].at \in Nat
      BY <1>2, <2>1
    <3> QED BY <1>1, <3>1, <3>2, <3>3
  <2> QED BY <1>4, <1>6, <2>1, <2>2, <2>3
<1> QED BY <1>5, <1>6

\* The graph starts with answers that are in order, of an approval that may
\* still be consumed.
LEMMA StartOrder ==
    ASSUME TypeInv, WaitInv, DoneInv, OrderInv, ~Preapproved, NEW e \in Execs, LookAtCheckpoint(e),
           AllDecided(approvals), Undecided(approvals) => LookReady(plan, approvals, cp),
           NEW a, NEW s \in Seq(Answer), InOrder(plan, approvals, cp.node, s),
           ex' = [ex EXCEPT ![e] = StartGraph(@, a, s)]
    PROVE  OrderInv'
<1>0. /\ ex \in [Execs -> Execution] /\ ex[e] \in Execution /\ ex[e].pc = "look"
      /\ Phase(plan, approvals, cp, status, ex[e]) /\ RowReady /\ approvals \in Seq(Approval)
      /\ UNCHANGED <<plan, status, claims, approvals, decided, cp>> /\ Placed(ex[e], plan, Len(approvals))
      /\ ex[e].pos = 1 /\ ex[e].asked = 0 /\ ex[e].tools \cap Gated = {} /\ cp \in Checkpoint
  <2>1. ex[e].pc = "look" /\ UNCHANGED <<plan, status, claims, approvals, decided, cp>>
    BY DEF LookAtCheckpoint, row
  <2>2. ex[e].pos = 1
    BY <2>1 DEF DoneInv, Reached
  <2>3. Placed(ex[e], plan, Len(approvals)) /\ ex[e].asked = 0 /\ ex[e].tools \cap Gated = {}
    BY <2>1, Reads DEF Placed
  <2> QED BY <2>1, <2>2, <2>3, Reads DEF TypeInv, TypeOK, OrderInv
<1>1. PICK y : y = StartGraph(ex[e], a, s)
  OBVIOUS
<1>2. /\ y.pc \in {"check", "node"}
      /\ y.node = cp.node /\ y.base = cp.by /\ y.answers = s /\ y.approval = a
      /\ y.pos = 1 /\ y.asked = 0 /\ y.tools \cap Gated = {} /\ y = ex'[e]
  BY <1>0, <1>1 DEF StartGraph, Execution
<1>3. AtNode(plan, approvals, cp, y)
  <2>1. plan[cp.node].kind = "tools" => Passed(plan, approvals, cp.node, s, 0, 1)
    BY <1>0, StartFits
  <2>2. y.pc # "invoke" /\ y.pc # "consume"
    BY <1>2
  <2> QED BY <1>2, <2>1, <2>2 DEF AtNode
<1>4. Phase(plan, approvals, cp, status', y)
  <2>1. status' \notin Terminal
    BY <1>0 DEF Phase
  <2> QED BY <1>2, <1>3, <2>1 DEF Phase
<1>5. Work(e) /\ ~Release(e)
  BY <1>0 DEF Work, Release
<1>6. status' = "waiting_approval" => ParkReady(plan, approvals, cp')
  BY <1>0 DEF RowReady
<1>7. y.pc # "unborn" /\ y.pc \notin {"release", "over"}
  BY <1>2
<1> QED BY <1>0, <1>2, <1>4, <1>5, <1>6, <1>7, QuietWorkStep

LEMMA LookOrder ==
    ASSUME TypeInv, WaitInv, DoneInv, OrderInv, ~Preapproved, NEW e \in Execs, LookAtCheckpoint(e)
    PROVE  OrderInv'
<1>0. /\ ex \in [Execs -> Execution] /\ ex[e] \in Execution /\ ex[e].pc = "look"
      /\ Phase(plan, approvals, cp, status, ex[e]) /\ RowReady /\ approvals \in Seq(Approval)
      /\ UNCHANGED <<plan, status, claims, approvals, decided, cp>>
      /\ cp \in Checkpoint /\ cp.answers \in Seq(Answer) /\ cp.interrupts \in Seq(Request)
      /\ Len(approvals) \in Nat /\ Work(e) /\ ~Release(e)
  <2>1. ex[e].pc = "look" /\ UNCHANGED <<plan, status, claims, approvals, decided, cp>>
    BY DEF LookAtCheckpoint, row
  <2>2. cp \in Checkpoint /\ ex \in [Execs -> Execution] /\ Phase(plan, approvals, cp, status, ex[e]) /\ RowReady
    BY DEF TypeInv, TypeOK, OrderInv
  <2>3. cp.answers \in Seq(Answer) /\ cp.interrupts \in Seq(Request)
    BY <2>2 DEF Checkpoint
  <2>4. Work(e) /\ ~Release(e)
    BY <2>1 DEF Work, Release
  <2> QED BY <2>1, <2>2, <2>3, <2>4, Reads
<1>1. LookReady(plan, approvals, cp)
  BY <1>0 DEF Phase
<1>2. CASE cp.interrupts = <<>> /\ ex' = [ex EXCEPT ![e] = StartGraph(@, 0, <<>>)]
  <2>1. AllDecided(approvals)
    BY <1>1, <1>2 DEF LookReady, Due
  <2>2. InOrder(plan, approvals, cp.node, <<>>) /\ <<>> \in Seq(Answer)
    BY NoAnswers
  <2> QED BY <1>1, <1>2, <2>1, <2>2, StartOrder
<1>3. CASE /\ cp.interrupts # <<>> /\ LatestDecided = {}
           /\ ex' = [ex EXCEPT ![e].pc = "ask", ![e].request = cp.interrupts]
  <2>1. PICK y : y = ex'[e]
    OBVIOUS
  <2>2. y.pc = "ask" /\ y.request = cp.interrupts
    BY <1>0, <1>3, <2>1 DEF Execution
  <2>3. PICK r \in Request : /\ Due(plan, approvals, cp, r) /\ Undecided(approvals)
                             /\ Len(approvals) = 0 \/ (Len(approvals) = 1 /\ LastAsks(approvals, r))
    <3>1. ~(AllDecided(approvals) /\ \E r \in Request : LastAsks(approvals, r))
      <4>1. SUFFICES ASSUME AllDecided(approvals), Len(approvals) >= 1 PROVE FALSE
        BY DEF LastAsks
      <4>2. approvals # <<>>
        BY <4>1
      <4> QED BY <1>3, <4>1, <4>2, LatestIsLast
    <3> QED BY <1>1, <1>3, <3>1 DEF LookReady
  <2>4. AskReady(plan, approvals, cp, y)
    <3>1. Len(approvals) = 0 => AllDecided(approvals)
      BY DEF AllDecided
    <3> QED BY <2>2, <2>3, <3>1 DEF AskReady, Due
  <2>5. Phase(plan, approvals, cp, status', y)
    <3>1. status' \notin Terminal
      BY <1>0 DEF Phase
    <3> QED BY <2>2, <2>4, <3>1 DEF Phase, AtWork
  <2>6. status' = "waiting_approval" => ParkReady(plan, approvals, cp')
    BY <1>0 DEF RowReady
  <2>7. y.pc # "unborn" /\ y.pc \notin {"release", "over"}
    BY <2>2
  <2> QED BY <1>0, <1>1, <2>1, <2>5, <2>6, <2>7, QuietWorkStep
<1>4. ASSUME cp.interrupts # <<>>, NEW a \in LatestDecided,
             ex' = [ex EXCEPT ![e] = StartGraph(@, a,
                      Append(cp.answers, [approval |-> a,
                                          granted |-> approvals[a].status \in Granted]))]
      PROVE  OrderInv'
  <2>1. a \in 1 .. Len(approvals) /\ approvals[a].status # "pending"
    BY <1>0, <1>4 DEF LatestDecided, DecidedStatuses, Granted
  <2>2. PICK r \in Request : Due(plan, approvals, cp, r) /\ AllDecided(approvals) /\ LastAsks(approvals, r)
    BY <1>1, <1>4, <2>1 DEF LookReady, Undecided
  <2>3. a = Len(approvals)
    <3>1. LatestDecided = (IF approvals = <<>> THEN {} ELSE {Len(approvals)})
      BY <2>2, LatestIsLast
    <3> QED BY <1>4, <3>1
  <2>4. PICK x : x = [approval |-> a, granted |-> approvals[a].status \in Granted]
    OBVIOUS
  <2>5. x \in Answer /\ x.approval = a
    <3>1. a \in ApprovalIds
      BY <2>1, Reads, AgentAssumption DEF ApprovalIds
    <3> QED BY <2>4, <3>1 DEF Answer
  <2>6. InOrder(plan, approvals, cp.node, Append(cp.answers, x))
    <3>1. approvals[x.approval].ask = r
      BY <2>2, <2>3, <2>5 DEF LastAsks
    <3>2. InOrder(plan, approvals, cp.node, cp.answers) /\ AsksNext(plan, approvals, cp.node, cp.answers, r)
      BY <2>2 DEF Due
    <3> QED BY <1>0, <2>1, <2>5, <3>1, <3>2, AppendFits
  <2>7. Append(cp.answers, x) \in Seq(Answer)
    BY <1>0, <2>5
  <2>8. ex' = [ex EXCEPT ![e] = StartGraph(@, a, Append(cp.answers, x))]
    BY <1>4, <2>4
  <2> QED BY <1>1, <2>2, <2>6, <2>7, <2>8, StartOrder
<1> QED BY <1>2, <1>3, <1>4 DEF LookAtCheckpoint

LEMMA PersistOrder ==
    ASSUME TypeInv, WaitInv, OrderInv, NEW e \in Execs, PersistApproval(e)
    PROVE  OrderInv'
<1>0. /\ ex \in [Execs -> Execution] /\ ex[e] \in Execution /\ ex[e].pc = "ask"
      /\ Phase(plan, approvals, cp, status, ex[e]) /\ RowReady /\ approvals \in Seq(Approval)
      /\ UNCHANGED <<plan, status, claims, decided, cp>>
      /\ Len(approvals) \in Nat /\ Work(e) /\ ~Release(e) /\ Dated(approvals, decided)
  BY Reads DEF TypeInv, TypeOK, OrderInv, PersistApproval, row, Work, Release
<1>1. PICK y : y = ex'[e]
  OBVIOUS
<1>2. y.pc = "park"
  BY <1>0, <1>1 DEF PersistApproval, Goto, Execution
<1>3. status' \notin Terminal
  BY <1>0 DEF Phase
<1>4. status # "waiting_approval"
  BY <1>0 DEF WaitInv, SoleInv, Live
<1>5. PICK r \in Request : /\ ex[e].request = <<r>> /\ Due(plan, approvals, cp, r)
                           /\ \/ AllDecided(approvals)
                              \/ Undecided(approvals) /\ Len(approvals) = 1 /\ LastAsks(approvals, r)
  BY <1>0 DEF Phase, AskReady
<1>6. ex[e].request[1] = r
  BY <1>5
<1>7. CASE \E a \in DOMAIN approvals : approvals[a].status = "pending" /\ approvals[a].ask.action = r.action
  <2>1. approvals' = approvals
    BY <1>6, <1>7 DEF PersistApproval
  <2>2. Undecided(approvals) /\ Len(approvals) = 1 /\ LastAsks(approvals, r)
    BY <1>0, <1>5, <1>7 DEF AllDecided
  <2>3. ParkReady(plan, approvals, cp)
    BY <1>5, <2>2 DEF ParkReady
  <2>4. Phase(plan, approvals, cp, status', y)
    BY <1>2, <1>3, <2>3 DEF Phase, AtWork
  <2>5. y.pc # "unborn" /\ y.pc \notin {"release", "over"} /\ UNCHANGED <<plan, claims, approvals, decided>>
    BY <1>0, <1>2, <2>1
  <2> QED BY <1>0, <1>1, <1>4, <2>4, <2>5, QuietWorkStep DEF RowReady
<1>8. CASE ~\E a \in DOMAIN approvals : approvals[a].status = "pending" /\ approvals[a].ask.action = r.action
  <2>1. PICK b : b = [ask |-> r, status |-> "pending", at |-> 0, auth |-> "none", bound |-> TRUE]
    OBVIOUS
  <2>2. approvals' = Append(approvals, b) /\ b.ask = r /\ b.status = "pending"
    BY <1>6, <1>8, <2>1 DEF PersistApproval
  <2>3. /\ Len(approvals') = Len(approvals) + 1 /\ approvals'[Len(approvals) + 1] = b
        /\ \A a \in 1 .. Len(approvals) : approvals'[a] = approvals[a]
    BY <1>0, <2>2
  <2>4. AllDecided(approvals)
    BY <1>0, <1>5, <1>8 DEF LastAsks, Undecided
  <2>5. Kept(approvals, approvals') /\ \A a \in 1 .. Len(approvals') : a \in 1 .. Len(approvals) \/ a = Len(approvals')
    BY <1>0, <2>3 DEF Kept
  <2>6. Due(plan, approvals', cp, r) /\ LastAsks(approvals', r)
    BY <1>0, <1>5, <2>2, <2>3, <2>5, DueKept DEF LastAsks
  <2>7. ParkReady(plan, approvals', cp)
    <3>1. \A a \in 1 .. Len(approvals') : a < Len(approvals') => approvals'[a].status # "pending"
      BY <1>0, <2>3, <2>4, <2>5 DEF AllDecided
    <3> QED BY <2>6, <3>1 DEF ParkReady
  <2>8. Phase(plan, approvals', cp, status', y)
    BY <1>2, <1>3, <2>7 DEF Phase, AtWork
  <2>9. Undecided(approvals') => LookReady(plan, approvals', cp')
    <3>1. SUFFICES ASSUME Undecided(approvals') PROVE LookReady(plan, approvals', cp)
      BY <1>0
    <3>2. Len(approvals) = 0
      <4>1. \A a \in 1 .. Len(approvals) : a \in 1 .. Len(approvals') /\ approvals[a].status = "pending"
        BY <1>0, <2>3, <3>1 DEF Undecided
      <4>2. \A a \in 1 .. Len(approvals) : FALSE
        BY <2>4, <4>1 DEF AllDecided
      <4>3. ~(1 \in 1 .. Len(approvals))
        BY <4>2
      <4> QED BY <1>0, <4>3
    <3> QED BY <2>3, <2>6, <3>1, <3>2 DEF LookReady
  <2>10. Undecided(approvals) => Undecided(approvals')
    BY <2>2, <2>3, <2>5 DEF Undecided
  <2>11. Dated(approvals', decided')
    <3>1. approvals'[Len(approvals')].status = "pending"
      BY <2>2, <2>3
    <3>2. \A a \in 1 .. Len(approvals') : approvals'[a].status # "pending" =>
             a \in 1 .. Len(approvals) /\ approvals'[a] = approvals[a]
      BY <2>3, <2>5, <3>1
    <3> QED BY <1>0, <3>2 DEF Dated
  <2>12. y.pc # "unborn" /\ y.pc \notin {"release", "over"}
    BY <1>2
  <2> QED BY <1>0, <1>1, <1>4, <2>8, <2>9, <2>10, <2>11, <2>12, WorkStep
<1> QED BY <1>7, <1>8

\* What an execution at its node reads.
LEMMA NodeReads ==
    ASSUME TypeInv, WaitInv, OrderInv, NEW e \in Execs, ex[e].pc \in AtWork
    PROVE  /\ ex \in [Execs -> Execution] /\ ex[e] \in Execution
           /\ Placed(ex[e], plan, Len(approvals)) /\ approvals \in Seq(Approval)
           /\ ex[e].answers \in Seq(Answer) /\ Len(ex[e].answers) \in Nat
           /\ ex[e].asked \in Nat /\ ex[e].pos \in Nat /\ ex[e].node \in Nat
           /\ cp \in Checkpoint /\ AllDecided(approvals) /\ AtNode(plan, approvals, cp, ex[e])
           /\ InOrder(plan, approvals, ex[e].node, ex[e].answers)
           /\ RowReady /\ status \notin Terminal /\ status # "waiting_approval" /\ OnCheckpoint(e)
           /\ Dated(approvals, decided)
<1>1. /\ ex \in [Execs -> Execution] /\ ex[e] \in Execution
      /\ Placed(ex[e], plan, Len(approvals)) /\ approvals \in Seq(Approval)
      /\ ex[e].answers \in Seq(Answer) /\ Len(ex[e].answers) \in Nat
      /\ ex[e].asked \in Nat /\ ex[e].pos \in Nat /\ ex[e].node \in Nat /\ cp \in Checkpoint
  BY Reads DEF TypeInv, TypeOK, Execution
<1>2. AllDecided(approvals) /\ AtNode(plan, approvals, cp, ex[e]) /\ status \notin Terminal
  BY DEF OrderInv, Phase, AtWork
<1>3. status # "waiting_approval"
  BY DEF WaitInv, SoleInv, Live, AtWork
<1>4. OnCheckpoint(e) /\ InOrder(plan, approvals, ex[e].node, ex[e].answers)
  BY <1>2 DEF AtNode, OnCheckpoint
<1> QED BY <1>1, <1>2, <1>3, <1>4 DEF OrderInv

\* A step at the node: what is left to show.
LEMMA NodeStep ==
    ASSUME TypeInv, WaitInv, OrderInv, NEW e \in Execs, ex[e].pc \in AtWork, Work(e),
           NEW y, y = ex'[e], y.pc \in AtWork \cup {"check", "fail", "ask"},
           y.pc \in AtWork => AtNode(plan, approvals, cp', y),
           y.pc = "ask" => AskReady(plan, approvals, cp', y),
           UNCHANGED <<plan, status, claims, approvals, decided>>,
           approvals = <<>> => LookReady(plan, approvals, cp')
    PROVE  OrderInv'
<1>1. AllDecided(approvals) /\ status \notin Terminal /\ status # "waiting_approval"
      /\ approvals \in Seq(Approval)
  BY NodeReads
<1>2. ~Release(e) /\ y.pc # "unborn" /\ y.pc \notin {"release", "over"}
  BY DEF Release, AtWork
<1>3. Phase(plan, approvals, cp', status', y)
  BY <1>1 DEF Phase, AtWork
<1>4. Undecided(approvals) => approvals = <<>>
  <2>1. SUFFICES ASSUME Undecided(approvals), approvals # <<>> PROVE FALSE
    OBVIOUS
  <2>2. 1 \in 1 .. Len(approvals)
    BY <1>1, <2>1
  <2> QED BY <1>1, <2>1, <2>2 DEF AllDecided, Undecided
<1>5. Undecided(approvals) => LookReady(plan, approvals, cp')
  BY <1>4
<1> QED BY <1>1, <1>2, <1>3, <1>5, QuietWorkStep

\* Nothing was answered to an execution before the first decision.
LEMMA AnsweredDecided ==
    ASSUME TypeInv, WaitInv, OrderInv, NEW e \in Execs, ex[e].pc \in AtWork, Answered(e)
    PROVE  approvals # <<>>
<1>1. ex[e].asked + 1 \in 1 .. Len(ex[e].answers)
  BY NodeReads DEF Answered
<1>2. NextAnswer(e).approval \in 1 .. Len(approvals)
  BY <1>1, NodeReads DEF InOrder, Asked, NextAnswer
<1> QED BY <1>2

LEMMA InterruptOrder ==
    ASSUME TypeInv, WaitInv, OrderInv, NEW e \in Execs, ex[e].pc = "node", ~Answered(e), Work(e),
           NEW r \in Request, Interrupt(e, r),
           AsksNext(plan, approvals, ex[e].node, ex[e].answers, r),
           UNCHANGED <<plan, status, claims, approvals, decided>>
    PROVE  OrderInv'
<1>0. ex[e].pc \in AtWork
  BY DEF AtWork
<1>1. PICK y : y = ex'[e]
  OBVIOUS
<1>2. y.pc = "ask" /\ y.request = <<r>>
  BY <1>0, <1>1, NodeReads DEF Interrupt, Execution
<1>3. SubSeq(ex[e].answers, 1, ex[e].asked) = ex[e].answers
  <2>1. ex[e].asked = Len(ex[e].answers)
    BY <1>0, NodeReads DEF Answered, Placed
  <2> QED BY <1>0, <2>1, NodeReads
<1>4. cp'.interrupts = <<r>> /\ cp'.answers = ex[e].answers /\ cp'.node = ex[e].node
  <2>1. cp' = [cp EXCEPT !.interrupts = <<r>>, !.answers = ex[e].answers] /\ cp.node = ex[e].node
    BY <1>0, <1>3, NodeReads DEF Interrupt, OnCheckpoint
  <2> QED BY <1>0, <2>1, NodeReads DEF Checkpoint
<1>5. Due(plan, approvals, cp', r)
  BY <1>0, <1>4, NodeReads DEF Due
<1>6. AskReady(plan, approvals, cp', y)
  BY <1>0, <1>2, <1>5, NodeReads DEF AskReady
<1>7. approvals = <<>> => LookReady(plan, approvals, cp')
  <2>1. Len(<<>>) = 0
    OBVIOUS
  <2> QED BY <1>5, <2>1 DEF LookReady, Undecided
<1> QED BY <1>0, <1>1, <1>2, <1>6, <1>7, NodeStep DEF AtWork

\* The node is done: the checkpoint is clean.
LEMMA CompleteOrder ==
    ASSUME TypeInv, WaitInv, OrderInv, NEW e \in Execs, ex[e].pc = "node", Work(e), CompleteNode(e),
           UNCHANGED <<plan, status, claims, approvals, decided>>
    PROVE  OrderInv'
<1>0. ex[e].pc \in AtWork
  BY DEF AtWork
<1>1. PICK y : y = ex'[e]
  OBVIOUS
<1>2. /\ y.pc \in {"check", "node"} /\ y.node = ex[e].node + 1 /\ y.base = e /\ y.pos = 1 /\ y.asked = 0
      /\ y.answers = <<>> /\ y.approval = ex[e].approval /\ y.tools = ex[e].tools
  BY <1>0, <1>1, NodeReads DEF CompleteNode, Execution
<1>3. cp'.node = ex[e].node + 1 /\ cp'.by = e /\ cp'.interrupts = <<>> /\ cp'.answers = <<>>
  BY DEF CompleteNode
<1>4. AtNode(plan, approvals, cp', y)
  <2>1. /\ InOrder(plan, approvals, y.node, y.answers)
        /\ Passed(plan, approvals, y.node, y.answers, y.asked, y.pos)
    BY <1>2, NoAnswers
  <2>2. y.approval # 0 /\ y.tools \cap Gated # {} => approvals[y.approval].auth # "issued"
    BY <1>0, <1>2, NodeReads DEF AtNode
  <2> QED BY <1>2, <1>3, <2>1, <2>2 DEF AtNode
<1>5. LookReady(plan, approvals, cp')
  BY <1>0, <1>3, NodeReads DEF LookReady
<1> QED BY <1>0, <1>1, <1>2, <1>4, <1>5, NodeStep DEF AtWork

LEMMA ModelOrder ==
    ASSUME TypeInv, WaitInv, OrderInv, NEW e \in Execs, AskBudget(e) \/ BudgetAnswer(e) \/ ModelStep(e)
    PROVE  OrderInv'
<1>0. /\ ex[e].pc = "node" /\ ex[e].pc \in AtWork /\ plan[ex[e].node].kind = "model" /\ Work(e)
      /\ UNCHANGED <<plan, status, claims, approvals, decided>>
  BY DEF AskBudget, BudgetAnswer, ModelStep, AtModel, Node, AtWork, Work, row
<1>1. CASE AskBudget(e)
  <2>1. PICK r : r = [action |-> "budget", node |-> ex[e].node, pos |-> 0, scope |-> 0]
    OBVIOUS
  <2>2. r \in Request
    BY <1>0, <2>1, NodeReads DEF Request, Actions
  <2>3. AsksNext(plan, approvals, ex[e].node, ex[e].answers, r)
    BY <1>0, <2>1 DEF AsksNext
  <2> QED BY <1>0, <1>1, <2>1, <2>2, <2>3, InterruptOrder DEF AskBudget
<1>2. CASE ModelStep(e)
  BY <1>0, <1>2, CompleteOrder DEF ModelStep
<1>3. CASE BudgetAnswer(e)
  <2>1. PICK y : y = ex'[e]
    OBVIOUS
  <2>2. PICK z : z = [ex[e] EXCEPT !.asked = @ + 1,
                        !.tools = IF NextAnswer(e).granted THEN @ \cup {"budget"} ELSE @,
                        !.pc    = IF NextAnswer(e).granted THEN @ ELSE "fail"]
    OBVIOUS
  <2>3. ex' = [ex EXCEPT ![e] = z]
    BY <1>3, <2>2 DEF BudgetAnswer
  <2>4. y = z
    BY <1>0, <2>1, <2>3, NodeReads
  <2>5. /\ y.pc \in {"node", "fail"} /\ y.node = ex[e].node /\ y.base = ex[e].base
        /\ y.answers = ex[e].answers /\ y.approval = ex[e].approval
        /\ y.tools \subseteq ex[e].tools \cup {"budget"}
    BY <1>0, <2>2, <2>4, NodeReads DEF Execution
  <2>6. cp'.node = cp.node /\ cp'.by = cp.by
    BY <1>0, <1>3, NodeReads DEF BudgetAnswer, UseAnswer, Checkpoint
  <2>7. AtNode(plan, approvals, cp', y)
    <3>1. y.tools \cap Gated # {} => ex[e].tools \cap Gated # {}
      BY <2>5 DEF Gated
    <3>2. /\ ex[e].approval # 0 /\ ex[e].tools \cap Gated # {} => approvals[ex[e].approval].auth # "issued"
          /\ cp.node = ex[e].node /\ cp.by = ex[e].base
      BY <1>0, NodeReads DEF AtNode
    <3> QED BY <1>0, <2>5, <2>6, <3>1, <3>2, NodeReads DEF AtNode
  <2>8. approvals # <<>>
    BY <1>0, <1>3, AnsweredDecided DEF BudgetAnswer
  <2> QED BY <1>0, <2>1, <2>5, <2>7, <2>8, NodeStep DEF AtWork
<1> QED BY <1>1, <1>2, <1>3

\* A step at the node that takes the execution from one position to a later
\* one, or to the call itself.
LEMMA CallStep ==
    ASSUME TypeInv, WaitInv, OrderInv, NEW e \in Execs, ex[e].pc \in AtWork, Work(e),
           plan[ex[e].node].kind = "tools", NEW y, ex' = [ex EXCEPT ![e] = y],
           y.pc \in AtWork, y.node = ex[e].node, y.base = ex[e].base,
           y.answers = ex[e].answers, y.approval = ex[e].approval,
           y.pc = "node" => Passed(plan, approvals, y.node, y.answers, y.asked, y.pos),
           y.pc = "invoke" => Passed(plan, approvals, y.node, y.answers, y.asked, y.pos + 1),
           y.pc = "consume" => \/ Passed(plan, approvals, y.node, y.answers, y.asked, y.pos + 1)
                               \/ approvals[y.approval].auth # "issued",
           y.pc # "consume" => ex[e].pc # "consume" /\ y.tools = ex[e].tools,
           UNCHANGED <<plan, status, claims, approvals, decided>>,
           cp' = cp \/ (UseAnswer(e) /\ Answered(e))
    PROVE  OrderInv'
<1>1. y = ex'[e]
  BY NodeReads
<1>2. cp'.node = cp.node /\ cp'.by = cp.by
  BY NodeReads DEF UseAnswer, Checkpoint
<1>3. /\ ex[e].pc # "consume" /\ ex[e].approval # 0 /\ ex[e].tools \cap Gated # {}
            => approvals[ex[e].approval].auth # "issued"
      /\ cp.node = ex[e].node /\ cp.by = ex[e].base
  BY NodeReads DEF AtNode
<1>4. AtNode(plan, approvals, cp', y)
  BY <1>2, <1>3, NodeReads DEF AtNode
<1>5. approvals = <<>> => LookReady(plan, approvals, cp')
  <2>1. SUFFICES ASSUME approvals = <<>> PROVE LookReady(plan, approvals, cp')
    OBVIOUS
  <2>2. cp' = cp
    BY <2>1, AnsweredDecided
  <2>3. Undecided(approvals)
    BY <2>1 DEF Undecided
  <2> QED BY <2>2, <2>3, NodeReads DEF RowReady
<1> QED BY <1>1, <1>4, <1>5, NodeStep DEF AtWork

LEMMA CallReads ==
    ASSUME TypeInv, WaitInv, OrderInv, NEW e \in Execs, AtCall(e)
    PROVE  /\ ex[e].pc = "node" /\ ex[e].pc \in AtWork /\ plan[ex[e].node].kind = "tools"
           /\ Call(e) \in Calls /\ Call(e) = plan[ex[e].node].calls[ex[e].pos]
           /\ GatedAt(plan, ex[e].node, ex[e].pos) <=> Call(e).tool \in Gated
           /\ Passed(plan, approvals, ex[e].node, ex[e].answers, ex[e].asked, ex[e].pos)
<1>1. ex[e].pc = "node" /\ ex[e].pc \in AtWork /\ plan[ex[e].node].kind = "tools"
  BY DEF AtCall, Node, AtWork
<1>2. Call(e) = plan[ex[e].node].calls[ex[e].pos]
  BY DEF Call, Node
<1>3. ex[e].node \in 1 .. Len(plan) /\ ex[e].pos >= 1 /\ ex[e].pos \in Nat
  BY <1>1, NodeReads DEF Placed
<1>4. plan[ex[e].node].calls \in Seq(Calls) /\ Len(plan[ex[e].node].calls) \in Nat
  BY <1>1, <1>3, PlanNodes DEF TypeInv, TypeOK
<1>5. ex[e].pos \in 1 .. Len(plan[ex[e].node].calls)
  BY <1>3, <1>4 DEF AtCall, Node
<1>6. Call(e) \in Calls
  BY <1>2, <1>4, <1>5
<1>7. GatedAt(plan, ex[e].node, ex[e].pos) <=> Call(e).tool \in Gated
  BY <1>2, <1>5 DEF GatedAt
<1>8. Passed(plan, approvals, ex[e].node, ex[e].answers, ex[e].asked, ex[e].pos)
  BY <1>1, NodeReads DEF AtNode
<1> QED BY <1>1, <1>2, <1>6, <1>7, <1>8

\* The answer a call takes is its own.
LEMMA AnswersCall ==
    ASSUME TypeInv, WaitInv, OrderInv, NEW e \in Execs, AtCall(e), NeedsApproval(e), Answered(e)
    PROVE  /\ Spot(approvals, NextAnswer(e)) = ex[e].pos
           /\ Passed(plan, approvals, ex[e].node, ex[e].answers, ex[e].asked + 1, ex[e].pos + 1)
<1>1. GatedAt(plan, ex[e].node, ex[e].pos)
  BY CallReads DEF NeedsApproval
<1>2. ex[e].asked < Len(ex[e].answers)
  BY DEF Answered
<1> QED BY <1>1, <1>2, CallReads, NodeReads, AnswerFits DEF NextAnswer

LEMMA CallOrder ==
    ASSUME TypeInv, WaitInv, OrderInv, ~Preapproved, NEW e \in Execs,
           AskTool(e) \/ ToolRejected(e) \/ ToolGranted(e) \/ ToolAllowed(e)
    PROVE  OrderInv'
<1>0. /\ AtCall(e) /\ Work(e) /\ UNCHANGED <<plan, status, claims, approvals, decided>>
  BY DEF AskTool, ToolRejected, ToolGranted, ToolAllowed, Work, row
<1>1. CASE AskTool(e)
  <2>1. PICK r : r = [action |-> Call(e).tool, node |-> ex[e].node, pos |-> ex[e].pos, scope |-> Call(e).scope]
    OBVIOUS
  <2>2. Call(e).tool \in Gated /\ Call(e) \in Calls
    BY <1>0, <1>1, CallReads DEF AskTool, NeedsApproval
  <2>3. r \in Request
    BY <1>0, <2>1, <2>2, CallReads, NodeReads DEF Request, Actions, Calls
  <2>4. ex[e].asked = Len(ex[e].answers)
    BY <1>0, <1>1, CallReads, NodeReads DEF AskTool, Answered, Placed
  <2>5. AsksNext(plan, approvals, ex[e].node, ex[e].answers, r)
    BY <1>0, <2>1, <2>2, <2>4, CallReads DEF AsksNext
  <2>6. Interrupt(e, r) /\ ~Answered(e)
    BY <1>1, <2>1 DEF AskTool
  <2> QED BY <1>0, <2>3, <2>5, <2>6, CallReads, InterruptOrder
<1>2. CASE ToolRejected(e)
  <2>1. PICK y : y = [ex[e] EXCEPT !.asked = @ + 1, !.pos = @ + 1]
    OBVIOUS
  <2>2. ex' = [ex EXCEPT ![e] = y] /\ UseAnswer(e) /\ NeedsApproval(e) /\ Answered(e)
    BY <1>2, <2>1 DEF ToolRejected
  <2>3. /\ y.pc = "node" /\ y.node = ex[e].node /\ y.base = ex[e].base /\ y.answers = ex[e].answers
        /\ y.approval = ex[e].approval /\ y.tools = ex[e].tools
        /\ y.asked = ex[e].asked + 1 /\ y.pos = ex[e].pos + 1
    BY <1>0, <2>1, CallReads, NodeReads DEF Execution
  <2>4. Passed(plan, approvals, y.node, y.answers, y.asked, y.pos)
    BY <1>0, <2>2, <2>3, AnswersCall
  <2>5. y.pc \in AtWork /\ y.pc # "invoke" /\ y.pc # "consume"
    BY <2>3 DEF AtWork
  <2> QED BY <1>0, <2>2, <2>3, <2>4, <2>5, CallReads, CallStep
<1>3. CASE ToolGranted(e)
  <2>1. PICK y : y = [ex[e] EXCEPT !.asked = @ + 1, !.scope = KnownScope(e),
                 !.tools = @ \cup {Call(e).tool}, !.pc = AfterApproval(e)]
    OBVIOUS
  <2>2. ex' = [ex EXCEPT ![e] = y] /\ UseAnswer(e) /\ NeedsApproval(e) /\ Answered(e)
    BY <1>3, <2>1 DEF ToolGranted
  <2>3. AfterApproval(e) = "consume"
    <3>1. ex[e].answers # <<>>
      BY <1>0, <2>2, CallReads, NodeReads DEF Answered
    <3>2. ex[e].approval # 0
      BY <1>0, <3>1, CallReads, NodeReads DEF Placed
    <3> QED BY <2>2, <3>2 DEF AfterApproval, NeedsApproval
  <2>4. /\ y.pc = "consume" /\ y.node = ex[e].node /\ y.base = ex[e].base /\ y.answers = ex[e].answers
        /\ y.approval = ex[e].approval
        /\ y.asked = ex[e].asked + 1 /\ y.pos = ex[e].pos
    BY <1>0, <2>1, <2>3, CallReads, NodeReads DEF Execution
  <2>5. Passed(plan, approvals, y.node, y.answers, y.asked, y.pos + 1)
    BY <1>0, <2>2, <2>4, AnswersCall
  <2>6. y.pc \in AtWork /\ y.pc # "invoke" /\ y.pc # "node"
    BY <2>4 DEF AtWork
  <2> QED BY <1>0, <2>2, <2>4, <2>5, <2>6, CallReads, CallStep
<1>4. CASE ToolAllowed(e)
  <2>1. PICK y : y = [ex[e] EXCEPT !.scope = KnownScope(e), !.pc = AfterApproval(e)]
    OBVIOUS
  <2>2. ex' = [ex EXCEPT ![e] = y] /\ cp' = cp /\ ~NeedsApproval(e)
    BY <1>4, <2>1 DEF ToolAllowed
  <2>3. /\ y.pc = AfterApproval(e) /\ y.node = ex[e].node /\ y.base = ex[e].base /\ y.answers = ex[e].answers
        /\ y.approval = ex[e].approval /\ y.tools = ex[e].tools
        /\ y.asked = ex[e].asked /\ y.pos = ex[e].pos
    BY <1>0, <2>1, CallReads, NodeReads DEF Execution
  <2>4. CASE Call(e).tool \in Gated
    <3>1. Call(e).tool \in ex[e].tools
      BY <2>2, <2>4 DEF NeedsApproval
    <3>2. ex[e].tools \cap Gated # {}
      BY <2>4, <3>1
    <3>3. ex[e].approval # 0
      BY <1>0, <3>2, CallReads, NodeReads DEF Placed
    <3>4. approvals[ex[e].approval].auth # "issued" /\ y.pc = "consume"
      BY <1>0, <2>3, <2>4, <3>2, <3>3, CallReads, NodeReads DEF AtNode, AfterApproval
    <3>5. y.pc \in AtWork /\ y.pc # "invoke" /\ y.pc # "node"
      BY <3>4 DEF AtWork
    <3> QED BY <1>0, <2>2, <2>3, <3>4, <3>5, CallReads, CallStep
  <2>5. CASE Call(e).tool \notin Gated
    <3>1. y.pc = "invoke"
      BY <2>3, <2>5 DEF AfterApproval
    <3>2. Passed(plan, approvals, ex[e].node, ex[e].answers, ex[e].asked, ex[e].pos + 1)
      BY <1>0, <2>5, CallReads, NodeReads, FreeFits
    <3>3. y.pc \in AtWork /\ y.pc # "consume" /\ y.pc # "node" /\ ex[e].pc # "consume"
      BY <1>0, <3>1, CallReads DEF AtWork
    <3> QED BY <1>0, <2>2, <2>3, <3>1, <3>2, <3>3, CallReads, CallStep
  <2> QED BY <2>4, <2>5
<1> QED BY <1>1, <1>2, <1>3, <1>4

LEMMA InvokeOrder ==
    ASSUME TypeInv, WaitInv, OrderInv, NEW e \in Execs, Invoke(e) \/ EndBatch(e)
    PROVE  OrderInv'
<1>0. Work(e) /\ UNCHANGED <<plan, status, claims, approvals, decided>>
  BY DEF Invoke, EndBatch, Work, row
<1>1. CASE Invoke(e)
  <2>1. PICK y : y = [ex[e] EXCEPT !.pc = "node", !.pos = @ + 1]
    OBVIOUS
  <2>2. ex' = [ex EXCEPT ![e] = y] /\ cp' = cp /\ ex[e].pc = "invoke"
    BY <1>1, <2>1 DEF Invoke
  <2>3. ex[e].pc \in AtWork
    BY <2>2 DEF AtWork
  <2>4. /\ y.pc = "node" /\ y.node = ex[e].node /\ y.base = ex[e].base /\ y.answers = ex[e].answers
        /\ y.approval = ex[e].approval /\ y.tools = ex[e].tools
        /\ y.asked = ex[e].asked /\ y.pos = ex[e].pos + 1
    BY <2>1, <2>3, NodeReads DEF Execution
  <2>5. plan[ex[e].node].kind = "tools"
    BY <2>2, <2>3, NodeReads DEF Placed, InCall
  <2>6. Passed(plan, approvals, y.node, y.answers, y.asked, y.pos)
    BY <2>2, <2>3, <2>4, <2>5, NodeReads DEF AtNode
  <2>7. y.pc \in AtWork /\ y.pc # "invoke" /\ y.pc # "consume" /\ ex[e].pc # "consume"
    BY <2>2, <2>4 DEF AtWork
  <2> QED BY <1>0, <2>2, <2>3, <2>4, <2>5, <2>6, <2>7, CallStep
<1>2. CASE EndBatch(e)
  BY <1>0, <1>2, CompleteOrder DEF EndBatch
<1> QED BY <1>1, <1>2

LEMMA ConsumeOrder ==
    ASSUME TypeInv, WaitInv, OrderInv, NEW e \in Execs, Consume(e)
    PROVE  OrderInv'
<1>0. /\ ex[e].pc = "consume" /\ ex[e].pc \in AtWork /\ Work(e) /\ ~Release(e)
      /\ UNCHANGED <<plan, status, claims, decided, cp>>
  <2>1. ex[e].pc = "consume" /\ UNCHANGED <<plan, status, claims, decided, cp>>
    BY DEF Consume, row
  <2> QED BY <2>1 DEF Work, Release, AtWork
<1>1. PICK a : a = ex[e].approval
  OBVIOUS
<1>2. PICK y : y = ex'[e]
  OBVIOUS
<1>3. CASE ~Authorizes(a, Call(e))
  <2>1. Goto(e, "fail") /\ approvals' = approvals
    BY <1>1, <1>3 DEF Consume
  <2>2. y.pc = "fail"
    BY <1>0, <1>2, <2>1, NodeReads DEF Goto, Execution
  <2>3. approvals = <<>> => LookReady(plan, approvals, cp')
    <3>1. approvals = <<>> => Undecided(approvals)
      BY DEF Undecided
    <3> QED BY <1>0, <3>1, NodeReads DEF RowReady
  <2> QED BY <1>0, <1>2, <2>1, <2>2, <2>3, NodeStep DEF AtWork
<1>4. CASE Authorizes(a, Call(e))
  <2>1. Goto(e, "invoke") /\ approvals' = [approvals EXCEPT ![a].auth = "consumed"]
    BY <1>1, <1>4 DEF Consume
  <2>2. /\ y.pc = "invoke" /\ y.node = ex[e].node /\ y.base = ex[e].base /\ y.answers = ex[e].answers
        /\ y.approval = a /\ y.asked = ex[e].asked /\ y.pos = ex[e].pos
    BY <1>0, <1>1, <1>2, <2>1, NodeReads DEF Goto, Execution
  <2>3. a \in 1 .. Len(approvals)
    <3>1. ex[e].approval \in Nat /\ ex[e].approval # 0 /\ ex[e].approval <= Len(approvals)
      BY <1>0, NodeReads DEF Placed, Execution
    <3> QED BY <1>0, <1>1, <3>1, NodeReads
  <2>4. /\ Len(approvals') = Len(approvals) /\ approvals'[a].auth = "consumed"
        /\ \A b \in 1 .. Len(approvals) : /\ approvals'[b].status = approvals[b].status
                                          /\ approvals'[b].ask = approvals[b].ask
                                          /\ approvals'[b].at = approvals[b].at
    <3>1. \A b \in 1 .. Len(approvals) : approvals[b] \in Approval
      BY <1>0, NodeReads
    <3> QED BY <1>0, <2>1, <2>3, <3>1, NodeReads DEF Approval
  <2>5. AllDecided(approvals') /\ Kept(approvals, approvals') /\ Dated(approvals', decided')
    BY <1>0, <2>4, NodeReads DEF AllDecided, Kept, Dated
  <2>6. /\ ~Undecided(approvals) /\ ~Undecided(approvals')
    BY <1>0, <2>3, <2>4, <2>5, NodeReads DEF AllDecided, Undecided
  <2>7. plan[ex[e].node].kind = "tools" /\ approvals[a].auth = "issued"
    BY <1>0, <1>4, NodeReads DEF Placed, InCall, Authorizes
  <2>8. Passed(plan, approvals, ex[e].node, ex[e].answers, ex[e].asked, ex[e].pos + 1)
    BY <1>0, <1>1, <2>7, NodeReads DEF AtNode
  <2>9. /\ InOrder(plan, approvals', ex[e].node, ex[e].answers)
        /\ Passed(plan, approvals', ex[e].node, ex[e].answers, ex[e].asked, ex[e].pos + 1)
    BY <1>0, <2>5, <2>8, NodeReads, OrderKept
  <2>10. AtNode(plan, approvals', cp', y)
    <3>1. cp.node = ex[e].node /\ cp.by = ex[e].base
      BY <1>0, NodeReads DEF AtNode
    <3> QED BY <1>0, <2>2, <2>4, <2>9, <3>1 DEF AtNode
  <2>11. Phase(plan, approvals', cp', status', y)
    BY <1>0, <2>2, <2>5, <2>10, NodeReads DEF Phase, AtWork
  <2>12. /\ y.pc # "unborn" /\ y.pc \notin {"release", "over"} /\ status' # "waiting_approval"
    BY <1>0, <2>2, NodeReads
  <2> QED BY <1>0, <1>2, <2>5, <2>6, <2>11, <2>12, WorkStep
<1> QED BY <1>3, <1>4

Resting == {"unborn", "over", "release"}

\* An execution that is not at work is in order.
LEMMA RestingPhase ==
    ASSUME NEW x, x.pc \in Resting, NEW p, NEW A, NEW c, NEW s
    PROVE  Phase(p, A, c, s, x)
BY DEF Resting, Phase, AtWork, Terminal

\* Who was born stays born, and what was decided was asked by the first.
LEMMA BornReads ==
    ASSUME TypeInv, OrderInv, approvals # <<>>
    PROVE  1 \in Execs /\ ex[1].pc # "unborn" /\ Len(approvals) \in 1 .. MaxApprovals
<1>1. claims \in 0 .. MaxClaims /\ claims >= 1 /\ MaxClaims \in Nat
  BY AgentAssumption DEF TypeInv, TypeOK, OrderInv, BornInv
<1>2. 1 \in Execs
  BY <1>1 DEF Execs
<1>3. ex[1].pc # "unborn"
  BY <1>1, <1>2 DEF OrderInv, BornInv
<1>4. approvals \in Seq(Approval) /\ Len(approvals) <= MaxApprovals
  BY DEF TypeInv, TypeOK
<1> QED BY <1>2, <1>3, <1>4

\* The execution lets the run go.
LEMMA ReleaseOrder ==
    ASSUME TypeInv, WaitInv, OrderInv, NEW e \in Execs, Release(e)
    PROVE  OrderInv'
<1>1. PICK y : y = Over(ex[e])
  OBVIOUS
<1>2. y.pc = "over"
  BY <1>1 DEF Over, Unborn
<1>3. /\ ex' = [ex EXCEPT ![e] = y] /\ ex[e].pc = "release" /\ ex \in [Execs -> Execution]
      /\ UNCHANGED <<plan, status, claims, approvals, decided, cp, client>>
  <2>1. ex \in [Execs -> Execution]
    BY DEF TypeInv, TypeOK
  <2> QED BY <1>1, <2>1 DEF Release
<1>4. \A d \in Execs : ex'[d] = IF d = e THEN y ELSE ex[d]
  BY <1>3
<1>5. \A d \in Execs : Live(d) => d = e
  BY <1>3 DEF WaitInv, SoleInv, Live
<1>6. \A d \in Execs : Phase(plan', approvals', cp', status', ex'[d])
  <2>1. \A d \in Execs : ex'[d].pc \in Resting
    BY <1>2, <1>4, <1>5 DEF Live, Resting
  <2> QED BY <2>1, RestingPhase
<1>7. RowReady'
  <2>1. \A d \in Execs : Live(d) => ex[d].pc = "release"
    BY <1>3, <1>5
  <2> QED BY <1>3, <2>1 DEF OrderInv, RowReady
<1>8. BornInv'
  <2>1. \A d \in Execs : (ex'[d].pc = "unborn") <=> (ex[d].pc = "unborn")
    BY <1>2, <1>3, <1>4
  <2>2. ~Undecided(approvals) => ex'[1].pc \in {"release", "over"}
    <3>1. SUFFICES ASSUME ~Undecided(approvals) PROVE ex'[1].pc \in {"release", "over"}
      OBVIOUS
    <3>2. approvals # <<>>
      BY <3>1 DEF Undecided
    <3> QED BY <1>2, <1>4, <3>1, <3>2, BornReads DEF OrderInv, BornInv
  <2> QED BY <1>3, <2>1, <2>2 DEF OrderInv, BornInv
<1> QED BY <1>3, <1>6, <1>7, <1>8 DEF OrderInv, ClientInv

\* The run is claimed: what the new execution finds is in order.
LEMMA ClaimOrder ==
    ASSUME TypeInv, WaitInv, OrderInv, NEW w \in Procs, Claim(w)
    PROVE  OrderInv'
<1>0. /\ claims \in 0 .. MaxClaims /\ MaxClaims \in Nat /\ ex \in [Execs -> Execution]
      /\ UNCHANGED <<plan, status, approvals, decided, cp, client>> /\ claims' = claims + 1
      /\ status \in {"pending", "running"} /\ lease # "live" /\ claims < MaxClaims
  <2>1. claims \in 0 .. MaxClaims /\ MaxClaims \in Nat /\ ex \in [Execs -> Execution]
    BY AgentAssumption DEF TypeInv, TypeOK
  <2>2. status \in {"pending", "running"} /\ lease # "live"
    BY DEF Claim, Claimable
  <2> QED BY <2>1, <2>2 DEF Claim
<1>1. claims + 1 \in Execs
  BY <1>0 DEF Execs
<1>2. PICK y : y = [Unborn EXCEPT !.pc = "load", !.proc = w]
  OBVIOUS
<1>3. y.pc = "load" /\ ex' = [ex EXCEPT ![claims + 1] = y]
  BY <1>2 DEF Claim, Unborn
<1>4. \A d \in Execs : ex'[d] = IF d = claims + 1 THEN y ELSE ex[d]
  BY <1>0, <1>3
<1>5. \A d \in Execs : ~Live(d)
  BY <1>0 DEF WaitInv, SoleInv
<1>6. LookReady(plan, approvals, cp)
  BY <1>0, <1>5 DEF OrderInv, RowReady
<1>7. \A d \in Execs : Phase(plan', approvals', cp', status', ex'[d])
  <2>1. ASSUME NEW d \in Execs, d # claims + 1 PROVE Phase(plan', approvals', cp', status', ex'[d])
    <3>1. ex'[d].pc \in Resting
      BY <1>4, <1>5, <2>1 DEF Live, Resting
    <3> QED BY <3>1, RestingPhase
  <2>2. Phase(plan, approvals, cp, status, y)
    BY <1>0, <1>3, <1>6 DEF Phase, AtWork, Terminal
  <2> QED BY <1>0, <1>4, <2>1, <2>2
<1>8. RowReady'
  BY <1>0, <1>6 DEF RowReady
<1>9. BornInv'
  <2>1. \A d \in Execs : (ex'[d].pc = "unborn") <=> (d > claims + 1)
    <3>1. ASSUME NEW d \in Execs PROVE d \in Int /\ ((ex[d].pc = "unborn") <=> (d > claims))
      BY DEF Execs, OrderInv, BornInv
    <3> QED BY <1>0, <1>3, <1>4, <3>1
  <2>2. ~Undecided(approvals) => ex'[1].pc \in {"release", "over"}
    <3>1. SUFFICES ASSUME ~Undecided(approvals) PROVE ex'[1].pc \in {"release", "over"}
      OBVIOUS
    <3>2. approvals # <<>>
      BY <3>1 DEF Undecided
    <3>3. claims >= 1
      BY <3>2 DEF OrderInv, BornInv
    <3>4. 1 # claims + 1
      BY <1>0, <3>3
    <3> QED BY <1>4, <3>1, <3>2, <3>4, BornReads DEF OrderInv, BornInv
  <2> QED BY <1>0, <2>1, <2>2 DEF BornInv
<1> QED BY <1>0, <1>7, <1>8, <1>9 DEF OrderInv, ClientInv

\* Only the execution that no approval resumed is killed: nothing it was
\* asked is decided, or it had already parked.
LEMMA CrashOrder ==
    ASSUME TypeInv, WaitInv, OrderInv, FaultyClaims <= 1, NEW w \in Procs, Crash(w)
    PROVE  OrderInv'
<1>0. /\ UNCHANGED <<plan, status, claims, approvals, decided, cp, client>>
      /\ ex' = [e \in Execs |-> IF Live(e) /\ ex[e].proc = w THEN Over(ex[e]) ELSE ex[e]]
  BY DEF Crash, row
<1>1. PICK e \in Execs : Live(e) /\ ex[e].proc = w /\ e <= FaultyClaims
  BY DEF Crash
<1>2. e = 1
  <2>1. e \in 1 .. MaxClaims /\ MaxClaims \in Nat /\ FaultyClaims \in Nat
    BY AgentAssumption DEF Execs
  <2> QED BY <1>1, <2>1
<1>3. \A d \in Execs : Live(d) => d = e
  BY <1>1 DEF WaitInv, SoleInv
<1>4. Over(ex[e]).pc = "over" /\ ex'[e].pc = "over" /\ \A d \in Execs : d # e => ex'[d] = ex[d]
  BY <1>0, <1>1, <1>3 DEF Over, Unborn
<1>5. \A d \in Execs : Phase(plan', approvals', cp', status', ex'[d])
  <2>1. \A d \in Execs : ex'[d].pc \in Resting
    BY <1>3, <1>4 DEF Live, Resting
  <2> QED BY <2>1, RestingPhase
<1>6. RowReady'
  <2>1. status \in {"pending", "running"} => LookReady(plan, approvals, cp)
    <3>1. CASE ex[e].pc = "release"
      BY <1>3, <3>1 DEF OrderInv, RowReady
    <3>2. CASE ex[e].pc # "release"
      <4>1. Undecided(approvals)
        BY <1>1, <1>2, <3>2 DEF OrderInv, BornInv, Live
      <4> QED BY <4>1 DEF OrderInv, RowReady
    <3> QED BY <3>1, <3>2
  <2> QED BY <1>0, <2>1 DEF OrderInv, RowReady
<1>7. BornInv'
  <2>1. \A d \in Execs : (ex'[d].pc = "unborn") <=> (ex[d].pc = "unborn")
    BY <1>1, <1>4 DEF Live
  <2> QED BY <1>0, <1>2, <1>4, <2>1 DEF OrderInv, BornInv
<1> QED BY <1>0, <1>5, <1>6, <1>7 DEF OrderInv, ClientInv

\* Approvals that are asked, decided and dated alike are in order alike.
LEMMA SameOrder ==
    ASSUME NEW A, NEW B, Len(A) = Len(B),
           \A a \in 1 .. Len(A) : A[a].ask = B[a].ask /\ A[a].status = B[a].status /\ A[a].at = B[a].at
    PROVE  /\ \A p, c : ParkReady(p, A, c) => ParkReady(p, B, c)
           /\ \A p, c : LookReady(p, A, c) => LookReady(p, B, c)
           /\ AllDecided(A) <=> AllDecided(B)
           /\ Undecided(A) <=> Undecided(B)
           /\ \A n : Dated(A, n) => Dated(B, n)
<1>1. Kept(A, B)
  BY DEF Kept
<1>2. /\ AllDecided(A) <=> AllDecided(B)
      /\ Undecided(A) <=> Undecided(B)
      /\ \A n : Dated(A, n) => Dated(B, n)
  BY DEF AllDecided, Undecided, Dated
<1>3. ASSUME NEW r, LastAsks(A, r), Len(A) \in Nat PROVE LastAsks(B, r)
  BY <1>3 DEF LastAsks
<1> QED BY <1>1, <1>2, DueKept DEF ParkReady, LookReady, LastAsks

\* The operator's requests.  While one is under way the run waits, and no
\* execution is at work.
LEMMA ServeReads ==
    ASSUME TypeInv, WaitInv, OrderInv, Orderly, NEW c \in Clients, client[c].pc # "idle"
    PROVE  /\ status = "waiting_approval" /\ ParkReady(plan, approvals, cp)
           /\ client \in [Clients -> Client] /\ client[c] \in Client
           /\ approvals \in Seq(Approval) /\ Len(approvals) \in Nat /\ decided \in Nat
           /\ Dated(approvals, decided) /\ \A d \in Clients : d = c
           /\ \A e \in Execs : ex[e].pc \in Resting
<1>1. status = "waiting_approval" /\ ParkReady(plan, approvals, cp) /\ Dated(approvals, decided)
  BY DEF OrderInv, ClientInv, RowReady
<1>2. \A e \in Execs : ex[e].pc \in Resting
  BY <1>1 DEF WaitInv, SoleInv, Live, Resting
<1> QED BY <1>1, <1>2 DEF TypeInv, TypeOK, Orderly, Calm

\* What is left to show of a step of the operator.
LEMMA ServeStep ==
    ASSUME TypeInv, TypeInv', WaitInv, OrderInv, Orderly, NEW c \in Clients,
           status = "waiting_approval", \A e \in Execs : ex[e].pc \in Resting, \A d \in Clients : d = c,
           UNCHANGED <<plan, claims, cp, ex>>, Len(approvals') = Len(approvals),
           client'[c].pc # "mark", client'[c].pc # "idle" => status' = status,
           client'[c].pc \in {"resume", "repend"} => AllDecided(approvals'),
           Dated(approvals', decided'),
           status' = "waiting_approval" => ParkReady(plan, approvals', cp),
           status' \in {"pending", "running"} => LookReady(plan, approvals', cp),
           Undecided(approvals') => LookReady(plan, approvals', cp)
    PROVE  OrderInv'
<1>1. \A e \in Execs : Phase(plan', approvals', cp', status', ex'[e])
  BY RestingPhase
<1>2. RowReady' /\ ClientInv'
  BY DEF RowReady, ClientInv
<1>3. BornInv'
  <2>1. approvals \in Seq(Approval) /\ approvals' \in Seq(Approval)
    BY DEF TypeInv, TypeOK
  <2>2. ASSUME approvals' # <<>> \/ ~Undecided(approvals') PROVE approvals # <<>>
    <3>1. SUFFICES ASSUME approvals = <<>> PROVE FALSE
      OBVIOUS
    <3>2. Len(approvals') = 0 /\ approvals' = <<>>
      BY <2>1, <3>1
    <3> QED BY <2>2, <3>2 DEF Undecided
  <2>3. approvals # <<>> => ex[1].pc \in {"release", "over"}
    BY BornReads DEF Resting
  <2> QED BY <2>2, <2>3 DEF OrderInv, BornInv
<1> QED BY <1>1, <1>2, <1>3 DEF OrderInv

LEMMA ServeOrder ==
    ASSUME TypeInv, TypeInv', WaitInv, OrderInv, Orderly, NEW c \in Clients, Serve(c)
    PROVE  OrderInv'
<1>0. client[c].pc # "idle" /\ client[c].pc # "mark" /\ UNCHANGED <<plan, claims, cp, ex>>
  <2>1. UNCHANGED <<plan, claims, cp, ex>>
    BY DEF Serve, PatchMetadata, CreateAuthorization, UpdateApproval, ResumeRead, ResumeWrite,
           CancelWrite, row
  <2> QED BY <2>1 DEF Serve, PatchMetadata, CreateAuthorization, UpdateApproval, ResumeRead,
                      ResumeWrite, CancelWrite, OrderInv, ClientInv
<1>1. /\ status = "waiting_approval" /\ ParkReady(plan, approvals, cp) /\ RowReady
      /\ client \in [Clients -> Client] /\ client[c] \in Client
      /\ approvals \in Seq(Approval) /\ Len(approvals) \in Nat /\ decided \in Nat
      /\ Dated(approvals, decided) /\ \A d \in Clients : d = c
      /\ \A e \in Execs : ex[e].pc \in Resting
  BY <1>0, ServeReads DEF OrderInv
<1>2. ASSUME NEW pc, Step(c, pc) PROVE client'[c].pc = pc /\ client'[c].approval = client[c].approval
  BY <1>1, <1>2 DEF Step, Client
<1>3. ASSUME Done(c) PROVE client'[c].pc = "idle"
  BY <1>1, <1>3 DEF Done, NoClient
<1>4. Undecided(approvals) => LookReady(plan, approvals, cp)
  BY <1>1 DEF RowReady
\* A step that leaves what was asked and decided as it was.
<1>5. ASSUME status' = status, decided' = decided, Len(approvals') = Len(approvals),
             \A a \in 1 .. Len(approvals) : /\ approvals[a].ask = approvals'[a].ask
                                            /\ approvals[a].status = approvals'[a].status
                                            /\ approvals[a].at = approvals'[a].at,
             client'[c].pc # "mark",
             client'[c].pc \in {"resume", "repend"} => AllDecided(approvals)
      PROVE  OrderInv'
  <2>1. /\ ParkReady(plan, approvals', cp)
        /\ AllDecided(approvals) => AllDecided(approvals')
        /\ Undecided(approvals') => LookReady(plan, approvals', cp)
        /\ Dated(approvals', decided)
    BY <1>1, <1>4, <1>5, SameOrder
  <2> QED BY <1>0, <1>1, <1>5, <2>1, ServeStep
<1>6. CASE PatchMetadata(c)
  <2>1. Step(c, "authorize") /\ status' = status /\ approvals' = approvals /\ decided' = decided
    BY <1>6 DEF PatchMetadata, row
  <2> QED BY <1>2, <1>5, <2>1
<1>7. CASE CreateAuthorization(c)
  <2>1. status' = status /\ decided' = decided /\ client[c].pc = "authorize"
    BY <1>7 DEF CreateAuthorization, row
  <2>2. PICK a : a = client[c].approval
    OBVIOUS
  <2>3. CASE approvals[a].auth = "none"
    <3>1. /\ Step(c, "update")
          /\ approvals' = [approvals EXCEPT ![a].auth = "issued", ![a].bound = client[c].decision # "edit"]
      BY <1>7, <2>2, <2>3 DEF CreateAuthorization
    <3>2. PICK b : b = [approvals[a] EXCEPT !.auth = "issued", !.bound = client[c].decision # "edit"]
      OBVIOUS
    <3>3. a \in 1 .. Len(approvals) /\ approvals[a] \in Approval
      BY <1>1, <2>1, <2>2 DEF TypeInv, Deciding
    <3>4. b.ask = approvals[a].ask /\ b.status = approvals[a].status /\ b.at = approvals[a].at
      BY <3>2, <3>3 DEF Approval
    <3>5. approvals' = [approvals EXCEPT ![a] = b]
      BY <1>1, <3>1, <3>2, <3>3
    <3>6. /\ Len(approvals') = Len(approvals)
          /\ \A d \in 1 .. Len(approvals) : /\ approvals[d].ask = approvals'[d].ask
                                            /\ approvals[d].status = approvals'[d].status
                                            /\ approvals[d].at = approvals'[d].at
      BY <1>1, <3>3, <3>4, <3>5
    <3> QED BY <1>2, <1>5, <2>1, <3>1, <3>6
  <2>4. CASE approvals[a].auth # "none"
    <3>1. approvals' = approvals /\ Done(c)
      BY <1>7, <2>2, <2>4 DEF CreateAuthorization
    <3> QED BY <1>3, <1>5, <2>1, <3>1
  <2> QED BY <2>3, <2>4
<1>8. CASE UpdateApproval(c)
  <2>1. PICK a, s : a = client[c].approval /\ s = TargetStatus(client[c].decision)
    OBVIOUS
  <2>2. /\ client[c].pc = "update" /\ status' = status
        /\ a \in 1 .. Len(approvals) /\ approvals[a].status = "pending" /\ client[c].decision \in Decisions
    BY <1>8, <2>1 DEF UpdateApproval, row, TypeInv, WaitInv, Deciding
  <2>3. s # "cancelled" /\ s # "pending"
    <3>1. client[c].decision \in {"approve", "edit", "reject"}
      BY <2>2, AgentAssumption DEF Orderly
    <3> QED BY <2>1, <3>1 DEF TargetStatus
  <2>4. /\ decided' = decided + 1 /\ Step(c, "resume")
        /\ approvals' = [approvals EXCEPT ![a].status = s, ![a].at = decided + 1]
    BY <1>8, <2>1, <2>2, <2>3 DEF UpdateApproval
  <2>5. PICK b : b = [approvals[a] EXCEPT !.status = s, !.at = decided + 1]
    OBVIOUS
  <2>6. b.ask = approvals[a].ask /\ b.status = s /\ b.at = decided + 1
    <3>1. approvals[a] \in Approval
      BY <1>1, <2>2
    <3> QED BY <2>5, <3>1 DEF Approval
  <2>7. approvals' = [approvals EXCEPT ![a] = b]
    BY <1>1, <2>2, <2>4, <2>5
  <2>8. Len(approvals') = Len(approvals) /\ \A d \in 1 .. Len(approvals) : approvals'[d] = IF d = a THEN b ELSE approvals[d]
    BY <1>1, <2>2, <2>7
  <2>9. PICK r \in Request : /\ Due(plan, approvals, cp, r) /\ LastAsks(approvals, r)
                             /\ \A d \in 1 .. Len(approvals) : d < Len(approvals) => approvals[d].status # "pending"
    BY <1>1 DEF ParkReady
  <2>10. a = Len(approvals)
    BY <1>1, <2>2, <2>9
  <2>11. AllDecided(approvals')
    BY <1>1, <2>3, <2>6, <2>8, <2>9, <2>10 DEF AllDecided
  <2>12. Kept(approvals, approvals') /\ LastAsks(approvals', r)
    BY <1>1, <2>2, <2>3, <2>6, <2>8, <2>9, <2>10 DEF Kept, LastAsks
  <2>13. ParkReady(plan, approvals', cp)
    <3>1. Due(plan, approvals', cp, r)
      BY <2>9, <2>12, DueKept
    <3> QED BY <2>11, <2>12, <3>1 DEF ParkReady, AllDecided
  <2>14. Dated(approvals', decided')
    <3>1. \A d \in 1 .. Len(approvals) : d # a => /\ approvals'[d] = approvals[d] /\ d < a
                                                  /\ approvals[d].at >= 1 /\ approvals[d].at <= decided
      BY <1>1, <2>8, <2>9, <2>10 DEF Dated
    <3>2. \A d \in 1 .. Len(approvals) : approvals[d].at \in Nat
      <4>1. \A d \in 1 .. Len(approvals) : approvals[d] \in Approval
        BY <1>1
      <4> QED BY <4>1 DEF Approval
    <3>3. \A d \in 1 .. Len(approvals') : approvals'[d].at >= 1 /\ approvals'[d].at <= decided'
      BY <1>1, <2>4, <2>6, <2>8, <3>1, <3>2
    <3>4. ASSUME NEW d \in 1 .. Len(approvals'), NEW f \in 1 .. Len(approvals'), d < f
          PROVE  approvals'[d].at < approvals'[f].at
      <4>1. d # a /\ approvals'[d] = approvals[d] /\ approvals[d].at <= decided /\ approvals[d].at \in Nat
        BY <1>1, <2>8, <2>10, <3>1, <3>2, <3>4
      <4>2. CASE f = a
        BY <1>1, <2>2, <2>6, <2>8, <4>1, <4>2
      <4>3. CASE f # a
        BY <1>1, <2>8, <2>9, <2>10, <3>1, <3>4, <4>1, <4>3 DEF Dated
      <4> QED BY <4>2, <4>3
    <3> QED BY <3>3, <3>4 DEF Dated
  <2>15. ~Undecided(approvals')
    BY <2>2, <2>8, <2>11 DEF AllDecided, Undecided
  <2>16. client'[c].pc = "resume"
    BY <1>2, <2>4
  <2> QED BY <1>0, <1>1, <2>2, <2>8, <2>11, <2>13, <2>14, <2>15, <2>16, ServeStep
<1>9. CASE ResumeRead(c)
  <2>1. client[c].pc = "resume" /\ status' = status /\ approvals' = approvals /\ decided' = decided
    BY <1>9 DEF ResumeRead, row
  <2>2. Step(c, "repend")
    BY <1>1, <1>9 DEF ResumeRead, Terminal
  <2>3. AllDecided(approvals)
    BY <2>1 DEF OrderInv, ClientInv
  <2> QED BY <1>2, <1>5, <2>1, <2>2, <2>3
<1>10. CASE ResumeWrite(c)
  <2>1. client[c].pc = "repend" /\ status' = "pending" /\ approvals' = approvals /\ decided' = decided /\ Done(c)
    BY <1>10 DEF ResumeWrite
  <2>2. LookReady(plan, approvals, cp)
    <3>1. AllDecided(approvals)
      BY <2>1 DEF OrderInv, ClientInv
    <3> QED BY <1>1, <3>1 DEF ParkReady, LookReady
  <2>3. client'[c].pc = "idle"
    BY <1>3, <2>1
  <2> QED BY <1>0, <1>1, <2>1, <2>2, <2>3, ServeStep
<1>11. CASE CancelWrite(c)
  BY <1>0, <1>11 DEF CancelWrite
<1> QED BY <1>6, <1>7, <1>8, <1>9, <1>10, <1>11 DEF Serve

\* The operator begins to decide.
LEMMA OperateOrder ==
    ASSUME TypeInv, TypeInv', WaitInv, OrderInv, Orderly, NEW c \in Clients, Operate(c)
    PROVE  OrderInv'
<1>1. PICK a \in DOMAIN approvals, d \in Decisions : Decide(c, a, d)
  BY DEF Operate
<1>2. PICK pc : pc = IF approvals[a].status # "pending" THEN "resume"
                     ELSE IF d \in {"approve", "edit"} THEN "patch" ELSE "update"
  OBVIOUS
<1>3. /\ client' = [client EXCEPT ![c] = [pc |-> pc, decision |-> d, approval |-> a]]
      /\ UNCHANGED <<plan, status, claims, approvals, decided, cp, ex>> /\ status = "waiting_approval"
      /\ approvals[a].status = "pending"
  <2>1. Patient /\ "repeat" \notin Requests
    BY DEF Orderly, Calm
  <2>2. status = "waiting_approval" /\ approvals[a].status = "pending"
    BY <1>1, <2>1 DEF Decide
  <2> QED BY <1>1, <1>2, <2>2 DEF Decide, row
<1>4. client'[c].pc \in {"patch", "update"}
  <2>1. client \in [Clients -> Client]
    BY DEF TypeInv, TypeOK
  <2> QED BY <1>2, <1>3, <2>1
<1>5. /\ ParkReady(plan, approvals, cp) /\ Dated(approvals, decided)
      /\ Undecided(approvals) => LookReady(plan, approvals, cp)
  BY <1>3 DEF OrderInv, RowReady
<1>6. (\A e \in Execs : ex[e].pc \in Resting) /\ \A b \in Clients : b = c
  BY <1>3 DEF WaitInv, SoleInv, Live, Resting, Orderly, Calm
<1> QED BY <1>3, <1>4, <1>5, <1>6, ServeStep

\* The steps this operator and these faults do not take, and those that
\* change nothing here.
LEMMA RestOrder ==
    ASSUME TypeInv, WaitInv, OrderInv, Orderly,
           \/ LeaseExpires \/ \E w \in Procs : Claim(w) \/ Crash(w) \/ Stop(w)
           \/ \E c \in Clients : \/ BareResume(c) \/ Abandon(c) \/ \E w \in Procs : CancelRun(c, w)
           \/ UNCHANGED vars
    PROVE  OrderInv'
<1>1. CASE LeaseExpires \/ UNCHANGED vars
  <2>1. UNCHANGED <<plan, status, claims, approvals, decided, cp, ex, client>>
    BY <1>1 DEF LeaseExpires, vars, row
  <2> QED BY <2>1 DEF OrderInv, RowReady, BornInv, ClientInv, Live
<1>2. ASSUME NEW w \in Procs, Claim(w) PROVE OrderInv'
  BY <1>2, ClaimOrder
<1>3. ASSUME NEW w \in Procs, Crash(w) PROVE OrderInv'
  BY <1>3, CrashOrder DEF Orderly
<1>4. ASSUME NEW w \in Procs, Stop(w) PROVE OrderInv'
  BY <1>4 DEF Stop, Orderly
<1>5. ASSUME NEW c \in Clients, BareResume(c) \/ \E w \in Procs : CancelRun(c, w)
      PROVE  OrderInv'
  BY <1>5 DEF BareResume, CancelRun, Orderly
<1>6. ASSUME NEW c \in Clients, Abandon(c) PROVE OrderInv'
  <2>1. UNCHANGED <<plan, status, claims, approvals, decided, cp, ex>> /\ Done(c)
    BY <1>6 DEF Abandon, row
  <2>2. \A d \in Clients : client'[d] = client[d] \/ client'[d].pc = "idle"
    <3>1. client \in [Clients -> Client]
      BY DEF TypeInv, TypeOK
    <3> QED BY <2>1, <3>1 DEF Done, NoClient
  <2> QED BY <2>1, <2>2 DEF OrderInv, RowReady, BornInv, ClientInv, Live
<1> QED BY <1>1, <1>2, <1>3, <1>4, <1>5, <1>6

LEMMA NextOrderInv ==
    Orderly => (TypeInv /\ WaitInv /\ DoneInv /\ OrderInv /\ [Next]_vars => OrderInv')
<1> SUFFICES ASSUME Orderly, TypeInv, WaitInv, DoneInv, OrderInv, [Next]_vars PROVE OrderInv'
  OBVIOUS
<1>1. ASSUME NEW e \in Execs, Work(e) \/ ExecuteRaises(e) PROVE OrderInv'
  <2>1. CASE \/ LoadContext(e) \/ MarkRunning(e) \/ CheckCancelled(e) \/ Complete(e) \/ EmitEnd(e)
             \/ FailRun(e) \/ MarkCancelled(e) \/ ExecuteRaises(e) \/ Park(e)
    BY <2>1, PlainOrder
  <2>2. CASE LookAtCheckpoint(e)
    BY <2>2, LookOrder DEF Orderly
  <2>3. CASE AskBudget(e) \/ BudgetAnswer(e) \/ ModelStep(e)
    BY <2>3, ModelOrder
  <2>4. CASE AskTool(e) \/ ToolRejected(e) \/ ToolGranted(e) \/ ToolAllowed(e)
    BY <2>4, CallOrder DEF Orderly
  <2>5. CASE Consume(e)
    BY <2>5, ConsumeOrder
  <2>6. CASE Invoke(e) \/ EndBatch(e)
    BY <2>6, InvokeOrder
  <2>7. CASE PersistApproval(e)
    BY <2>7, PersistOrder
  <2>8. CASE Release(e)
    BY <2>8, ReleaseOrder
  <2> QED BY <1>1, <2>1, <2>2, <2>3, <2>4, <2>5, <2>6, <2>7, <2>8 DEF Work
<1>2. TypeInv'
  BY NextTypeInv
<1>3. ASSUME NEW c \in Clients, Serve(c) \/ Operate(c) PROVE OrderInv'
  BY <1>2, <1>3, ServeOrder, OperateOrder
<1>4. \/ \E e \in Execs : Work(e) \/ ExecuteRaises(e)
      \/ \E c \in Clients : Serve(c) \/ Operate(c)
      \/ LeaseExpires \/ \E w \in Procs : Claim(w) \/ Crash(w) \/ Stop(w)
      \/ \E c \in Clients : \/ BareResume(c) \/ Abandon(c) \/ \E w \in Procs : CancelRun(c, w)
      \/ UNCHANGED vars
  BY DEF Next
<1> QED BY <1>1, <1>3, <1>4, RestOrder

\* Only an interrupt that returns moves the count of answers taken.
LEMMA AskedMoves ==
    ASSUME TypeInv, Orderly, [Next]_vars, NEW e \in Execs, ex'[e].asked = ex[e].asked + 1
    PROVE  BudgetAnswer(e) \/ ToolRejected(e) \/ ToolGranted(e)
<1> SUFFICES ASSUME ~(BudgetAnswer(e) \/ ToolRejected(e) \/ ToolGranted(e)) PROVE FALSE
  OBVIOUS
<1>0. ex \in [Execs -> Execution] /\ ex[e] \in Execution /\ ex[e].asked \in Nat
  <2>1. ex \in [Execs -> Execution] /\ ex[e] \in Execution
    BY DEF TypeInv, TypeOK
  <2> QED BY <2>1 DEF Execution
<1>1. ex'[e].asked # ex[e].asked /\ ex'[e].asked # 0
  BY <1>0
<1>2. Unborn.asked = 0 /\ \A x : Over(x).asked = 0
  BY DEF Over, Unborn
<1>3. ASSUME NEW y, ex' = [ex EXCEPT ![e] = y] PROVE y.asked # ex[e].asked /\ y.asked # 0
  BY <1>0, <1>1, <1>3
<1>4. ASSUME NEW pc, Goto(e, pc) PROVE FALSE
  BY <1>0, <1>1, <1>4 DEF Goto, Execution
<1>5. ASSUME CompleteNode(e) PROVE FALSE
  BY <1>0, <1>1, <1>5 DEF CompleteNode, Execution
<1>6. ASSUME NEW r, Interrupt(e, r) PROVE FALSE
  BY <1>0, <1>1, <1>6 DEF Interrupt, Execution
<1>7. CASE Work(e) \/ ExecuteRaises(e)
  <2>1. CASE LoadContext(e)
    <3>1. PICK y : y = [ex[e] EXCEPT !.pc = "mark", !.scope = meta.scope,
                 !.tools = (IF Preapproved THEN Gated ELSE {})
                                \cup (IF meta.budget THEN {"budget"} ELSE {})]
      OBVIOUS
    <3>2. y.asked = ex[e].asked /\ ex' = [ex EXCEPT ![e] = y]
      BY <1>0, <2>1, <3>1 DEF LoadContext, Execution
    <3> QED BY <1>3, <3>2
  <2>2. CASE LookAtCheckpoint(e)
    <3>1. ASSUME NEW a, NEW s, ex' = [ex EXCEPT ![e] = StartGraph(@, a, s)] PROVE FALSE
      <4>1. StartGraph(ex[e], a, s).asked = ex[e].asked
        BY <1>0 DEF StartGraph, Execution
      <4> QED BY <1>3, <3>1, <4>1
    <3>2. ASSUME ex' = [ex EXCEPT ![e].pc = "ask", ![e].request = cp.interrupts] PROVE FALSE
      BY <1>0, <1>1, <3>2 DEF Execution
    <3> QED BY <2>2, <3>1, <3>2 DEF LookAtCheckpoint
  <2>3. CASE AskBudget(e) \/ AskTool(e)
    BY <1>6, <2>3 DEF AskBudget, AskTool
  <2>4. CASE ModelStep(e) \/ EndBatch(e)
    BY <1>5, <2>4 DEF ModelStep, EndBatch
  <2>5. CASE ToolAllowed(e)
    <3>1. PICK y : y = [ex[e] EXCEPT !.scope = KnownScope(e), !.pc = AfterApproval(e)]
      OBVIOUS
    <3>2. y.asked = ex[e].asked /\ ex' = [ex EXCEPT ![e] = y]
      BY <1>0, <2>5, <3>1 DEF ToolAllowed, Execution
    <3> QED BY <1>3, <3>2
  <2>6. CASE Invoke(e)
    <3>1. PICK y : y = [ex[e] EXCEPT !.pc = "node", !.pos = @ + 1]
      OBVIOUS
    <3>2. y.asked = ex[e].asked /\ ex' = [ex EXCEPT ![e] = y]
      BY <1>0, <2>6, <3>1 DEF Invoke, Execution
    <3> QED BY <1>3, <3>2
  <2>7. CASE MarkRunning(e) \/ Consume(e) \/ PersistApproval(e) \/ Park(e) \/ CheckCancelled(e)
    BY <1>4, <2>7 DEF MarkRunning, Consume, PersistApproval, Park, CheckCancelled
  <2>8. CASE Complete(e) \/ EmitEnd(e) \/ FailRun(e) \/ MarkCancelled(e) \/ ExecuteRaises(e)
    BY <1>4, <2>8 DEF Complete, EmitEnd, FailRun, MarkCancelled, ExecuteRaises, EndAs
  <2>9. CASE Release(e)
    <3>1. ex' = [ex EXCEPT ![e] = Over(ex[e])]
      BY <2>9 DEF Release
    <3> QED BY <1>2, <1>3, <3>1
  <2> QED BY <1>7, <2>1, <2>2, <2>3, <2>4, <2>5, <2>6, <2>7, <2>8, <2>9 DEF Work
<1>8. ASSUME NEW d \in Execs, Work(d) \/ ExecuteRaises(d), d # e PROVE FALSE
  <2>1. ex'[e] = ex[e]
    <3>1. CASE Release(d)
      BY <1>0, <1>8, <3>1 DEF Release
    <3>2. CASE ~Release(d)
      BY <1>8, <3>2, WorkMoves
    <3> QED BY <3>1, <3>2
  <2> QED BY <1>1, <2>1
<1>9. ASSUME NEW w \in Procs, Claim(w) PROVE FALSE
  <2>1. PICK y : y = [Unborn EXCEPT !.pc = "load", !.proc = w]
    OBVIOUS
  <2>2. y.asked = 0 /\ ex' = [ex EXCEPT ![claims + 1] = y]
    BY <1>9, <2>1 DEF Claim, Unborn
  <2>3. ex'[e] = ex[e] \/ ex'[e] = y
    BY <1>0, <2>2
  <2> QED BY <1>1, <2>2, <2>3
<1>10. ASSUME NEW w \in Procs, Crash(w) PROVE FALSE
  <2>1. ex'[e] = ex[e] \/ ex'[e] = Over(ex[e])
    BY <1>10 DEF Crash
  <2> QED BY <1>1, <1>2, <2>1
<1>11. ASSUME NEW w \in Procs, Stop(w) PROVE FALSE
  BY <1>11 DEF Stop, Orderly
<1>12. CASE LeaseExpires \/ UNCHANGED vars
  BY <1>1, <1>12 DEF LeaseExpires, vars
<1>13. ASSUME NEW c \in Clients, Serve(c) \/ Operate(c) \/ BareResume(c) \/ Abandon(c) PROVE FALSE
  <2>1. ex' = ex
    BY <1>13 DEF Serve, Operate, BareResume, Abandon, Decide, PatchMetadata, CreateAuthorization,
                 UpdateApproval, ResumeRead, ResumeWrite, CancelWrite
  <2> QED BY <1>1, <2>1
<1>14. ASSUME NEW c \in Clients, NEW w \in Procs, CancelRun(c, w) PROVE FALSE
  BY <1>14 DEF CancelRun, Orderly
<1> QED BY <1>7, <1>8, <1>9, <1>10, <1>11, <1>12, <1>13, <1>14 DEF Next

LEMMA OwnInterrupt ==
    ASSUME TypeInv, WaitInv, OrderInv, Orderly, [Next]_vars,
           NEW e \in Execs, ex'[e].asked = ex[e].asked + 1
    PROVE  /\ approvals[NextAnswer(e).approval].ask.node = ex[e].node
           /\ approvals[NextAnswer(e).approval].ask.pos \in {0, ex[e].pos}
<1>0. BudgetAnswer(e) \/ ToolRejected(e) \/ ToolGranted(e)
  BY AskedMoves
<1>1. ex[e].pc \in AtWork /\ Answered(e)
  BY <1>0 DEF BudgetAnswer, ToolRejected, ToolGranted, AtModel, AtCall, AtWork
<1>2. Asked(plan, approvals, ex[e].node, NextAnswer(e))
  <2>1. ex[e].asked + 1 \in 1 .. Len(ex[e].answers)
    BY <1>1, NodeReads DEF Answered
  <2> QED BY <1>1, <2>1, NodeReads DEF InOrder, NextAnswer
<1>3. CASE BudgetAnswer(e)
  <2>1. plan[ex[e].node].kind = "model"
    BY <1>3 DEF BudgetAnswer, AtModel, Node
  <2> QED BY <1>2, <2>1 DEF Asked, Spot
<1>4. CASE ToolRejected(e) \/ ToolGranted(e)
  <2>1. Spot(approvals, NextAnswer(e)) = ex[e].pos
    BY <1>4, AnswersCall DEF ToolRejected, ToolGranted
  <2> QED BY <1>2, <2>1 DEF Asked, Spot
<1> QED BY <1>0, <1>3, <1>4

\* The decision an interrupt returns is the decision on that interrupt, for
\* every plan and however often a batch re-runs, when a run goes through one
\* hand (Orderly).  Answers are matched by position only: a second operator,
\* an impatient one, a cancellation or a graceful stop beside the faults, a
\* bare or repeated resume, an outlived lease, a kill of an execution that was
\* resumed, or a scope approved beforehand each break it, and nothing in the
\* code keeps them away; requests that die half-way do not.
\* interrupt() in agent_nodes and Command(resume=...) in GraphWorker._execute.
THEOREM DecisionsAnswerTheirInterrupt ==
    ASSUME Patient, \A c, d \in Clients : c = d, ~Preapproved, Requests = {},
           Decisions \subseteq {"approve", "edit", "reject"},
           Faults \subseteq {"crash", "raise", "abandon"}, FaultyClaims <= 1
    PROVE  Spec => AnswersOwnInterrupt
<1>1. Orderly
  BY DEF Orderly, Calm
<1>2. Calm
  BY <1>1 DEF Orderly
<1>3. TypeInv /\ WaitInv /\ [Next]_vars => WaitInv'
  BY <1>2, NextWaitInv
<1>4. TypeInv /\ WaitInv /\ DoneInv /\ OrderInv /\ [Next]_vars => OrderInv'
  BY <1>1, NextOrderInv
<1>5. TypeInv /\ WaitInv /\ OrderInv /\ [Next]_vars =>
        [\A e \in Execs :
          (ex'[e].asked = ex[e].asked + 1)
            => (LET ask == approvals[NextAnswer(e).approval].ask
                IN  ask.node = ex[e].node /\ ask.pos \in {0, ex[e].pos})]_vars
  BY <1>1, OwnInterrupt
<1> QED BY <1>3, <1>4, <1>5, InitTypeInv, NextTypeInv, InitWaitInv, InitDoneInv, NextDoneInv,
           InitOrderInv, PTL DEF Spec, AnswersOwnInterrupt

-----------------------------------------------------------------------------
(* One execution at a time, and what follows from it: the checkpoint goes   *)
(* forward node by node, and a run that is over stays over.                 *)

\* A place in the checkpoint, and that of an execution.
OnPlace(c, x) == c.node = x.node /\ c.by = x.base

\* Before the end of the run is written.
Early == {"load", "mark", "look", "node", "consume", "invoke", "ask", "park", "check", "complete"}

\* What a step of an execution that stands on the checkpoint does to both.
OnwardStep(e) ==
    /\ ex'[e].pc \in AtWork => OnPlace(cp', ex'[e])
    /\ cp'.node \in {cp.node, cp.node + 1}
    /\ \A l \in log'.calls \ log.calls : l.node = cp.node
    /\ ex'[e].pc \in Early => ex[e].pc \in Early /\ (status' = status \/ status' \notin Terminal)
    /\ status' = status \/ status' \in Terminal \/ ex[e].pc \in Early

LEMMA WorkGoesOn ==
    ASSUME TypeInv, NEW e \in Execs, Work(e) \/ ExecuteRaises(e), ~Release(e),
           ex[e].pc \in AtWork => OnPlace(cp, ex[e])
    PROVE  OnwardStep(e)
<1>0. /\ ex \in [Execs -> Execution] /\ ex[e] \in Execution /\ cp \in Checkpoint
      /\ cp.node \in Nat /\ ex[e].node \in Nat
  BY DEF TypeInv, TypeOK, Execution, Checkpoint
\* The checkpoint and the history stay: the execution leaves the node, or stays on it.
<1>1. ASSUME NEW y, ex' = [ex EXCEPT ![e] = y], UNCHANGED <<cp, log>>,
             y.pc \in AtWork => OnPlace(cp, y),
             y.pc \in Early => ex[e].pc \in Early /\ (status' = status \/ status' \notin Terminal),
             status' = status \/ status' \in Terminal \/ ex[e].pc \in Early
      PROVE  OnwardStep(e)
  BY <1>0, <1>1 DEF OnwardStep
<1>2. CASE \/ MarkRunning(e) \/ CheckCancelled(e) \/ Complete(e) \/ EmitEnd(e) \/ Park(e)
           \/ FailRun(e) \/ MarkCancelled(e) \/ ExecuteRaises(e) \/ PersistApproval(e)
  <2>1. PICK pc : /\ Goto(e, pc) /\ pc \notin AtWork /\ UNCHANGED <<cp, log>>
                  /\ pc \in Early => ex[e].pc \in Early /\ (status' = status \/ status' \notin Terminal)
                  /\ status' = status \/ status' \in Terminal \/ ex[e].pc \in Early
    <3>1. CASE MarkRunning(e) \/ CheckCancelled(e) \/ PersistApproval(e) \/ Park(e)
      BY <1>2, <3>1 DEF MarkRunning, CheckCancelled, PersistApproval, Park, AtWork, Early, Terminal, row
    <3>2. CASE Complete(e) \/ EmitEnd(e) \/ FailRun(e) \/ MarkCancelled(e) \/ ExecuteRaises(e)
      BY <1>2, <3>2 DEF Complete, EmitEnd, FailRun, MarkCancelled, ExecuteRaises, EndAs, AtWork, Early,
                        Terminal, row
    <3> QED BY <1>2, <3>1, <3>2
  <2>2. PICK y : y = [ex[e] EXCEPT !.pc = pc]
    OBVIOUS
  <2>3. y.pc = pc /\ ex' = [ex EXCEPT ![e] = y]
    BY <1>0, <2>1, <2>2 DEF Goto, Execution
  <2> QED BY <1>1, <2>1, <2>3
<1>3. CASE LoadContext(e)
  <2>1. PICK y : y = [ex[e] EXCEPT !.pc = "mark", !.scope = meta.scope,
                 !.tools = (IF Preapproved THEN Gated ELSE {})
                                \cup (IF meta.budget THEN {"budget"} ELSE {})]
    OBVIOUS
  <2>2. ex' = [ex EXCEPT ![e] = y] /\ UNCHANGED <<row, cp, log>> /\ ex[e].pc = "load"
    BY <1>3, <2>1 DEF LoadContext
  <2>3. y.pc = "mark"
    BY <1>0, <2>1 DEF Execution
  <2> QED BY <1>1, <2>2, <2>3 DEF AtWork, Early, row
<1>4. CASE LookAtCheckpoint(e)
  <2>0. ex[e].pc = "look" /\ UNCHANGED <<row, cp, log>>
    BY <1>4 DEF LookAtCheckpoint
  <2>1. ASSUME NEW a, NEW s, ex' = [ex EXCEPT ![e] = StartGraph(@, a, s)]
        PROVE  OnwardStep(e)
    <3>1. PICK y : y = StartGraph(ex[e], a, s)
      OBVIOUS
    <3>2. y.node = cp.node /\ y.base = cp.by /\ ex' = [ex EXCEPT ![e] = y]
      BY <1>0, <2>1, <3>1 DEF StartGraph, Execution
    <3> QED BY <1>1, <2>0, <3>2 DEF OnPlace, Early, row
  <2>2. CASE ex' = [ex EXCEPT ![e].pc = "ask", ![e].request = cp.interrupts]
    <3>1. PICK y : y = [ex[e] EXCEPT !.pc = "ask", !.request = cp.interrupts]
      OBVIOUS
    <3>2. y.pc = "ask" /\ ex' = [ex EXCEPT ![e] = y]
      BY <1>0, <2>2, <3>1 DEF Execution
    <3> QED BY <1>1, <2>0, <3>2 DEF AtWork, Early, row
  <2>3. \/ \E a, s : ex' = [ex EXCEPT ![e] = StartGraph(@, a, s)]
        \/ ex' = [ex EXCEPT ![e].pc = "ask", ![e].request = cp.interrupts]
    BY <1>4, ZenonT(40) DEF LookAtCheckpoint
  <2> QED BY <2>1, <2>2, <2>3
\* An answer is used, or an interrupt raised: the checkpoint keeps its place.
<1>5. ASSUME NEW y, ex' = [ex EXCEPT ![e] = y], UNCHANGED <<status, log>>, ex[e].pc = "node",
             y.pc \in AtWork => y.node = ex[e].node /\ y.base = ex[e].base,
             cp'.node = cp.node /\ cp'.by = cp.by
      PROVE  OnwardStep(e)
  BY <1>0, <1>5 DEF OnwardStep, OnPlace, AtWork, Early
<1>6. CASE AskBudget(e) \/ AskTool(e)
  <2>1. PICK r : Interrupt(e, r)
    BY <1>6 DEF AskBudget, AskTool
  <2>2. PICK y : y = [ex[e] EXCEPT !.pc = "ask", !.request = <<r>>]
    OBVIOUS
  <2>3. y.pc = "ask" /\ ex' = [ex EXCEPT ![e] = y]
    BY <1>0, <2>1, <2>2 DEF Execution, Interrupt
  <2>4. ex[e].pc = "node" /\ UNCHANGED <<status, log>>
    BY <1>6 DEF AskBudget, AskTool, AtModel, AtCall, row
  <2>5. cp'.node = cp.node /\ cp'.by = cp.by
    BY <1>0, <2>1 DEF Interrupt, Checkpoint
  <2> QED BY <1>5, <2>3, <2>4, <2>5 DEF AtWork
<1>7. ASSUME UseAnswer(e) PROVE cp'.node = cp.node /\ cp'.by = cp.by
  BY <1>0, <1>7 DEF UseAnswer, Checkpoint
<1>8. CASE BudgetAnswer(e)
  <2>1. PICK y : y = [ex[e] EXCEPT !.asked = @ + 1,
                        !.tools = IF NextAnswer(e).granted THEN @ \cup {"budget"} ELSE @,
                        !.pc    = IF NextAnswer(e).granted THEN @ ELSE "fail"]
    OBVIOUS
  <2>2. /\ ex' = [ex EXCEPT ![e] = y] /\ UNCHANGED <<status, log>> /\ ex[e].pc = "node" /\ UseAnswer(e)
    BY <1>8, <2>1 DEF BudgetAnswer, AtModel, row
  <2>3. y.node = ex[e].node /\ y.base = ex[e].base
    BY <1>0, <2>1 DEF Execution
  <2> QED BY <1>5, <1>7, <2>2, <2>3
<1>9. CASE ToolRejected(e)
  <2>1. PICK y : y = [ex[e] EXCEPT !.asked = @ + 1, !.pos = @ + 1]
    OBVIOUS
  <2>2. /\ ex' = [ex EXCEPT ![e] = y] /\ status' = status /\ ex[e].pc = "node" /\ UseAnswer(e)
        /\ log' = [log EXCEPT !.refused = @ \cup {[node |-> ex[e].node, pos |-> ex[e].pos]}]
    BY <1>9, <2>1 DEF ToolRejected, AtCall, row
  <2>3. y.node = ex[e].node /\ y.base = ex[e].base /\ y.pc = "node"
    BY <1>0, <2>1, <2>2 DEF Execution
  <2>4. log'.calls = log.calls
    BY <2>2 DEF TypeInv, TypeOK, History
  <2>5. OnPlace(cp', y) /\ cp'.node = cp.node /\ ex'[e] = y
    BY <1>0, <1>7, <2>2, <2>3 DEF OnPlace, AtWork
  <2> QED BY <2>2, <2>4, <2>5 DEF OnwardStep, Early
<1>10. CASE ToolGranted(e)
  <2>1. PICK y : y = [ex[e] EXCEPT !.asked = @ + 1, !.scope = KnownScope(e),
                 !.tools = @ \cup {Call(e).tool}, !.pc = AfterApproval(e)]
    OBVIOUS
  <2>2. /\ ex' = [ex EXCEPT ![e] = y] /\ UNCHANGED <<status, log>> /\ ex[e].pc = "node" /\ UseAnswer(e)
    BY <1>10, <2>1 DEF ToolGranted, AtCall, row
  <2>3. y.node = ex[e].node /\ y.base = ex[e].base
    BY <1>0, <2>1 DEF Execution
  <2> QED BY <1>5, <1>7, <2>2, <2>3
<1>11. CASE ToolAllowed(e)
  <2>1. PICK y : y = [ex[e] EXCEPT !.scope = KnownScope(e), !.pc = AfterApproval(e)]
    OBVIOUS
  <2>2. /\ ex' = [ex EXCEPT ![e] = y] /\ UNCHANGED <<status, log>> /\ ex[e].pc = "node" /\ cp' = cp
    BY <1>11, <2>1 DEF ToolAllowed, AtCall, row
  <2>3. y.node = ex[e].node /\ y.base = ex[e].base
    BY <1>0, <2>1 DEF Execution
  <2> QED BY <1>5, <2>2, <2>3
<1>12. CASE ModelStep(e) \/ EndBatch(e)
  <2>1. PICK y : y = [ex[e] EXCEPT !.node = @ + 1, !.base = e, !.pos = 1, !.asked = 0, !.answers = <<>>,
                          !.pc = IF ex[e].node = Len(plan) THEN "check" ELSE "node"]
    OBVIOUS
  <2>2. /\ ex' = [ex EXCEPT ![e] = y] /\ UNCHANGED <<status, log>> /\ ex[e].pc = "node"
        /\ cp' = [node |-> ex[e].node + 1, by |-> e, interrupts |-> <<>>, answers |-> <<>>]
    BY <1>12, <2>1 DEF ModelStep, EndBatch, CompleteNode, AtModel, row
  <2>3. y.node = ex[e].node + 1 /\ y.base = e
    BY <1>0, <2>1 DEF Execution
  <2>4. cp'.node = ex[e].node + 1 /\ cp'.by = e /\ cp.node = ex[e].node
    BY <2>2 DEF OnPlace, AtWork
  <2> QED BY <1>0, <2>2, <2>3, <2>4 DEF OnwardStep, OnPlace, Early
<1>13. CASE Consume(e)
  <2>1. PICK pc \in {"invoke", "fail"} : Goto(e, pc)
    BY <1>13 DEF Consume
  <2>2. PICK y : y = [ex[e] EXCEPT !.pc = pc]
    OBVIOUS
  <2>3. ex' = [ex EXCEPT ![e] = y] /\ UNCHANGED <<status, cp, log>> /\ ex[e].pc = "consume"
    BY <1>13, <2>1, <2>2 DEF Consume, Goto, row
  <2>4. y.node = ex[e].node /\ y.base = ex[e].base
    BY <1>0, <2>2 DEF Execution
  <2> QED BY <1>1, <2>3, <2>4 DEF OnPlace, AtWork, Early
<1>14. CASE Invoke(e)
  <2>1. PICK y : y = [ex[e] EXCEPT !.pc = "node", !.pos = @ + 1]
    OBVIOUS
  <2>2. /\ ex' = [ex EXCEPT ![e] = y] /\ UNCHANGED <<status, cp>> /\ ex[e].pc = "invoke"
        /\ log' = [log EXCEPT !.calls = @ \cup {[node |-> ex[e].node, pos |-> ex[e].pos,
                                            by |-> e, approval |-> ex[e].approval]}]
    BY <1>14, <2>1 DEF Invoke, row
  <2>3. y.node = ex[e].node /\ y.base = ex[e].base
    BY <1>0, <2>1 DEF Execution
  <2>4. \A l \in log'.calls \ log.calls : l.node = ex[e].node
    BY <2>2 DEF TypeInv, TypeOK, History
  <2>5. OnPlace(cp, ex[e]) /\ ex'[e] = y
    BY <1>0, <2>2 DEF AtWork
  <2> QED BY <2>2, <2>3, <2>4, <2>5 DEF OnwardStep, OnPlace, Early
<1> QED BY <1>2, <1>3, <1>4, <1>6, <1>8, <1>9, <1>10, <1>11, <1>12, <1>13, <1>14 DEF Work

-----------------------------------------------------------------------------
(* One execution at a time. *)

OneExecution == \A d, e \in Execs : Live(d) /\ Live(e) => d = e

\* An execution that does not outlive its lease is alone, and its lease tells
\* the workers so; the node it is at is the one the checkpoint names.
AloneInv ==
    /\ OneExecution
    /\ \A e \in Execs : Live(e) => lease = "live"
    /\ \A e \in Execs : ex[e].pc \in AtWork => OnPlace(cp, ex[e])

\* The nodes of the plan are done one after the other, and a call is made only
\* from the node that is next.
NodeByNode == /\ cp'.node \in {cp.node, cp.node + 1}
              /\ \A l \in log'.calls \ log.calls : l.node = cp.node

\* The run is over when it has been, and no execution that may still go on is
\* at work on a run that is over.
EndedKept == (status \in Terminal) => (status' \in Terminal)
EarlyInv  == \A e \in Execs : ex[e].pc \in Early => status \notin Terminal

LEMMA InitAlone == Init => AloneInv /\ EarlyInv
<1> SUFFICES ASSUME Init PROVE AloneInv /\ EarlyInv
  OBVIOUS
<1>1. \A e \in Execs : ex[e].pc = "unborn"
  BY DEF Init, Unborn
<1> QED BY <1>1 DEF AloneInv, OneExecution, EarlyInv, Early, Live, AtWork

LEMMA WorkAlone ==
    ASSUME TypeInv, AloneInv, NEW e \in Execs, Work(e) \/ ExecuteRaises(e)
    PROVE  AloneInv' /\ NodeByNode /\ (EarlyInv => EarlyInv' /\ EndedKept)
<1>0. ex \in [Execs -> Execution] /\ cp.node \in Nat
  BY DEF TypeInv, TypeOK, Checkpoint
<1>1. CASE Release(e)
  <2>1. PICK y : y = Over(ex[e])
    OBVIOUS
  <2>2. /\ y.pc = "over" /\ ex' = [ex EXCEPT ![e] = y] /\ UNCHANGED <<status, cp, log>> /\ Live(e)
    BY <1>1, <2>1 DEF Release, Over, Unborn, Live
  <2>3. \A d \in Execs : ex'[d].pc \in {"unborn", "over"}
    BY <1>0, <2>2 DEF AloneInv, OneExecution, Live
  <2> QED BY <1>0, <2>2, <2>3 DEF AloneInv, OneExecution, Live, AtWork, Early, EarlyInv, NodeByNode, EndedKept
<1>2. CASE ~Release(e)
  <2>1. /\ Live(e) /\ lease' = lease /\ \A d \in Execs : d # e => ex'[d] = ex[d]
    BY <1>2, WorkMoves
  <2>2. OnwardStep(e)
    BY <1>2, WorkGoesOn DEF AloneInv
  <2>3. \A d \in Execs : d # e => ex'[d].pc \in {"unborn", "over"}
    BY <2>1 DEF AloneInv, OneExecution, Live
  <2>4. AloneInv'
    BY <2>1, <2>2, <2>3 DEF AloneInv, OneExecution, Live, AtWork, OnwardStep
  <2>5. ASSUME EarlyInv PROVE EarlyInv' /\ EndedKept
    <3>1. \A d \in Execs : d # e => ex'[d].pc \notin Early
      BY <2>3 DEF Early
    <3>2. ex'[e].pc \in Early => status' \notin Terminal
      BY <2>2, <2>5 DEF OnwardStep, EarlyInv
    <3> QED BY <2>2, <2>5, <3>1, <3>2 DEF OnwardStep, EarlyInv, EndedKept
  <2> QED BY <2>2, <2>4, <2>5 DEF OnwardStep, NodeByNode
<1> QED BY <1>1, <1>2

\* Executions are created, killed or told to stop; leases lapse, requests come.
LEMMA RestAlone ==
    ASSUME TypeInv, AloneInv, "overrun" \notin Faults,
           \/ LeaseExpires \/ \E w \in Procs : Claim(w) \/ Crash(w) \/ Stop(w)
           \/ \E c \in Clients : \/ Serve(c) \/ Operate(c) \/ BareResume(c) \/ Abandon(c)
                                 \/ \E w \in Procs : CancelRun(c, w)
           \/ UNCHANGED vars
    PROVE  /\ AloneInv' /\ NodeByNode
           /\ EarlyInv => \/ EarlyInv' /\ EndedKept
                          \/ \E c \in Clients : ResumeWrite(c) \/ CancelWrite(c)
<1>0. /\ ex \in [Execs -> Execution] /\ handle \in [Procs -> 0 .. MaxClaims] /\ MaxClaims \in Nat
      /\ claims \in 0 .. MaxClaims /\ cp.node \in Nat
  BY AgentAssumption DEF TypeInv, TypeOK, Checkpoint
\* A step that only takes executions towards their end.
<1>1. ASSUME UNCHANGED <<lease, cp, log>>,
             \A e \in Execs : ex'[e] = ex[e] \/ (ex'[e].pc \in {"over", "release", "abort"} /\ Live(e))
      PROVE  AloneInv' /\ NodeByNode /\ (EarlyInv /\ status' = status => EarlyInv' /\ EndedKept)
  <2>1. \A e \in Execs : Live(e)' => Live(e)
    BY <1>1 DEF Live
  <2>2. AloneInv'
    BY <1>1, <2>1 DEF AloneInv, OneExecution, AtWork, OnPlace
  <2>3. EarlyInv /\ status' = status => EarlyInv' /\ EndedKept
    BY <1>1 DEF EarlyInv, Early, EndedKept
  <2> QED BY <1>0, <1>1, <2>2, <2>3 DEF NodeByNode
<1>2. \A e \in Execs : Over(ex[e]).pc = "over"
  BY DEF Over, Unborn
<1>3. ASSUME NEW e \in Execs PROVE CancelTask(ex[e]).pc \in {"over", "release", "abort"}
  BY <1>0, <1>2 DEF CancelTask, Execution
<1>4. CASE LeaseExpires
  <2>1. UNCHANGED <<status, cp, log, ex>> /\ \A e \in Execs : ~Live(e)
    BY <1>4 DEF LeaseExpires
  <2> QED BY <1>0, <2>1 DEF AloneInv, OneExecution, Live, AtWork, OnPlace, NodeByNode, EarlyInv, EndedKept
<1>5. ASSUME NEW w \in Procs, Claim(w)
      PROVE  AloneInv' /\ NodeByNode /\ (EarlyInv => EarlyInv' /\ EndedKept)
  <2>1. PICK y : y = [Unborn EXCEPT !.pc = "load", !.proc = w]
    OBVIOUS
  <2>2. y.pc = "load"
    BY <2>1 DEF Unborn
  <2>3. ex' = [ex EXCEPT ![claims + 1] = y] /\ UNCHANGED <<status, cp, log>> /\ lease' = "live"
    <3>1. ex' = [ex EXCEPT ![claims + 1] = [Unborn EXCEPT !.pc = "load", !.proc = w]]
      BY <1>5, ZenonT(40) DEF Claim
    <3>2. UNCHANGED <<status, cp, log>> /\ lease' = "live"
      BY <1>5, ZenonT(40) DEF Claim
    <3> QED BY <2>1, <3>1, <3>2
  <2>4. lease # "live" /\ status \notin Terminal /\ claims + 1 \in Execs
    <3>1. claims < MaxClaims /\ Claimable
      BY <1>5, ZenonT(40) DEF Claim
    <3> QED BY <1>0, <3>1 DEF Claimable, Terminal, Execs
  <2>5. \A e \in Execs : ex[e].pc \in {"unborn", "over"}
    BY <2>4 DEF AloneInv, Live
  <2>6. \A e \in Execs : ex'[e] = IF e = claims + 1 THEN y ELSE ex[e]
    BY <1>0, <2>3
  <2>7. AloneInv'
    BY <2>2, <2>3, <2>5, <2>6 DEF AloneInv, OneExecution, Live, AtWork
  <2> QED BY <1>0, <2>3, <2>4, <2>7 DEF NodeByNode, EarlyInv, EndedKept
<1>6. ASSUME NEW w \in Procs, Crash(w)
      PROVE  AloneInv' /\ NodeByNode /\ (EarlyInv => EarlyInv' /\ EndedKept)
  <2>1. /\ UNCHANGED <<status, lease, cp, log>>
        /\ ex' = [e \in Execs |-> IF Live(e) /\ ex[e].proc = w THEN Over(ex[e]) ELSE ex[e]]
    BY <1>6 DEF Crash, row
  <2> QED BY <1>1, <1>2, <2>1
<1>7. ASSUME NEW w \in Procs, Stop(w)
      PROVE  AloneInv' /\ NodeByNode /\ (EarlyInv => EarlyInv' /\ EndedKept)
  <2>1. handle[w] \in Execs /\ Live(handle[w])
    BY <1>0, <1>7 DEF Stop, Execs
  <2>2. /\ ex' = [ex EXCEPT ![handle[w]] = CancelTask(ex[handle[w]])]
        /\ UNCHANGED <<status, lease, cp, log>>
    BY <1>7 DEF Stop, row
  <2> QED BY <1>0, <1>1, <1>3, <2>1, <2>2
<1>8. ASSUME NEW c \in Clients, NEW w \in Procs, CancelRun(c, w)
      PROVE  AloneInv' /\ NodeByNode /\ (EarlyInv => EarlyInv' /\ EndedKept)
  <2>1. UNCHANGED <<status, lease, cp, log>>
    BY <1>8 DEF CancelRun, row
  <2>2. CASE handle[w] # 0 /\ Live(handle[w])
    <3>1. handle[w] \in Execs
      BY <1>0, <2>2 DEF Execs
    <3>2. ex' = [ex EXCEPT ![handle[w]] = CancelTask(ex[handle[w]])]
      BY <1>8, <2>2 DEF CancelRun
    <3> QED BY <1>0, <1>1, <1>3, <2>1, <2>2, <3>1, <3>2
  <2>3. CASE ~(handle[w] # 0 /\ Live(handle[w]))
    BY <1>1, <1>8, <2>1, <2>3 DEF CancelRun
  <2> QED BY <2>2, <2>3
<1>9. ASSUME NEW c \in Clients, Serve(c) \/ Operate(c) \/ BareResume(c) \/ Abandon(c)
      PROVE  /\ AloneInv' /\ NodeByNode
             /\ EarlyInv => (EarlyInv' /\ EndedKept) \/ ResumeWrite(c) \/ CancelWrite(c)
  <2> DEFINE ByRequest == /\ UNCHANGED <<lease, cp, log, ex>>
                          /\ (status' = status \/ ResumeWrite(c) \/ CancelWrite(c))
  <2>1. ASSUME ResumeWrite(c) \/ CancelWrite(c) PROVE ByRequest
    BY <2>1 DEF ResumeWrite, CancelWrite
  <2>2. ASSUME PatchMetadata(c) \/ CreateAuthorization(c) PROVE ByRequest
    BY <2>2 DEF PatchMetadata, CreateAuthorization, row
  <2>3. ASSUME UpdateApproval(c) \/ ResumeRead(c) PROVE ByRequest
    BY <2>3 DEF UpdateApproval, ResumeRead, row
  <2>4. ASSUME BareResume(c) \/ Abandon(c) PROVE ByRequest
    BY <2>4 DEF BareResume, Abandon, row
  <2>5. ASSUME Operate(c) PROVE ByRequest
    BY <2>5 DEF Operate, Decide, row
  <2>6. ByRequest
    BY <1>9, <2>1, <2>2, <2>3, <2>4, <2>5 DEF Serve
  <2> QED BY <1>1, <2>6
<1>10. CASE UNCHANGED vars
  BY <1>1, <1>10 DEF vars, row
<1> QED BY <1>4, <1>5, <1>6, <1>7, <1>8, <1>9, <1>10

LEMMA NextAlone ==
    ASSUME "overrun" \notin Faults
    PROVE  TypeInv /\ AloneInv /\ [Next]_vars => AloneInv' /\ NodeByNode
<1> SUFFICES ASSUME TypeInv, AloneInv, [Next]_vars PROVE AloneInv' /\ NodeByNode
  OBVIOUS
<1>1. ASSUME NEW e \in Execs, Work(e) \/ ExecuteRaises(e) PROVE AloneInv' /\ NodeByNode
  BY <1>1, WorkAlone
<1> QED BY <1>1, RestAlone DEF Next

\* As long as no execution outlives its lease, which nothing renews, the run
\* has one execution at a time, whichever processes claim it, also under one
\* worker id, crash or are stopped, and whatever the operators ask, of several
\* requests at once.  GraphWorker._tick, claim_agent_run, release_agent_run.
THEOREM OneExecutionAtATime ==
    ASSUME "overrun" \notin Faults
    PROVE  Spec => []OneExecution
<1>1. AloneInv => OneExecution
  BY DEF AloneInv
<1> QED BY <1>1, NextAlone, InitAlone, TypeInvariance, PTL DEF Spec

\* Under the same condition the checkpoint only goes forward, node by node, and
\* a tool is called only from the node it has come to: what crashes, resumptions
\* and cancellations make run again is the node that was not finished, never one
\* that was.  _execute resumes the graph from the checkpoint.
THEOREM FinishedNodesStayFinished ==
    ASSUME "overrun" \notin Faults
    PROVE  Spec => [][NodeByNode]_vars
<1>1. ASSUME TypeInv, AloneInv, UNCHANGED vars PROVE NodeByNode
  BY <1>1, NextAlone
<1> QED BY <1>1, NextAlone, InitAlone, TypeInvariance, PTL DEF Spec

-----------------------------------------------------------------------------
(* The end of a run. *)

\* A request that will make the run pending again found it waiting, and it waits.
WaitsForRequest == \A c \in Clients :
    client[c].pc # "mark" /\ (client[c].pc # "idle" => status = "waiting_approval")

LEMMA RequestsMeetTheWait ==
    ASSUME TypeInv, WaitInv, Calm, Requests \subseteq {"repeat"}, WaitsForRequest, [Next]_vars
    PROVE  WaitsForRequest'
<1>0. client \in [Clients -> Client] /\ \A c, d \in Clients : c = d
  BY DEF TypeInv, TypeOK, Calm
<1>1. ASSUME NEW e \in Execs, Work(e) \/ ExecuteRaises(e) PROVE WaitsForRequest'
  <2>1. client' = client
    BY <1>1, WorkMoves DEF Release
  <2>2. status = "waiting_approval" => status' = status
    <3>1. CASE Release(e)
      BY <3>1 DEF Release
    <3>2. CASE ~Release(e)
      BY <1>1, <3>2, WorkMoves DEF WaitInv, SoleInv
    <3> QED BY <3>1, <3>2
  <2> QED BY <2>1, <2>2 DEF WaitsForRequest
<1>2. ASSUME NEW c \in Clients, client'[c].pc # "mark",
             client'[c].pc # "idle" => status' = "waiting_approval"
      PROVE  WaitsForRequest'
  BY <1>0, <1>2 DEF WaitsForRequest
<1>3. ASSUME NEW c \in Clients, Done(c) PROVE client'[c].pc = "idle"
  BY <1>0, <1>3 DEF Done, NoClient
<1>4. ASSUME NEW c \in Clients, NEW pc, Step(c, pc) PROVE client'[c].pc = pc
  BY <1>0, <1>4 DEF Step, Client
<1>5. ASSUME NEW c \in Clients, Serve(c) PROVE WaitsForRequest'
  <2>1. CASE PatchMetadata(c) \/ CreateAuthorization(c) \/ UpdateApproval(c) \/ ResumeRead(c)
    <3>1. client[c].pc # "idle" /\ status' = status
      BY <2>1 DEF PatchMetadata, CreateAuthorization, UpdateApproval, ResumeRead, row
    <3>2. Done(c) \/ \E pc \in {"authorize", "update", "resume", "repend"} : Step(c, pc)
      BY <2>1 DEF PatchMetadata, CreateAuthorization, UpdateApproval, ResumeRead
    <3> QED BY <1>2, <1>3, <1>4, <3>1, <3>2 DEF WaitsForRequest
  <2>2. CASE ResumeWrite(c) \/ CancelWrite(c)
    BY <1>2, <1>3, <2>2 DEF ResumeWrite, CancelWrite
  <2> QED BY <1>5, <2>1, <2>2 DEF Serve
<1>6. ASSUME NEW c \in Clients, Operate(c) PROVE WaitsForRequest'
  <2>1. PICK a \in DOMAIN approvals, d \in Decisions : Decide(c, a, d)
    BY <1>6 DEF Operate
  <2>2. PICK pc : /\ pc = IF approvals[a].status # "pending" THEN "resume"
                          ELSE IF d \in {"approve", "edit"} THEN "patch" ELSE "update"
                  /\ client' = [client EXCEPT ![c] = [pc |-> pc, decision |-> d, approval |-> a]]
    BY <2>1 DEF Decide
  <2>3. client'[c].pc = pc /\ pc # "mark"
    BY <1>0, <2>2
  <2>4. status' = "waiting_approval"
    BY <2>1 DEF Decide, Calm, row
  <2> QED BY <1>2, <2>3, <2>4
<1>7. ASSUME NEW c \in Clients, Abandon(c) PROVE WaitsForRequest'
  BY <1>2, <1>3, <1>7 DEF Abandon
<1>8. ASSUME NEW c \in Clients, BareResume(c) \/ \E w \in Procs : CancelRun(c, w) PROVE FALSE
  BY <1>8 DEF BareResume, CancelRun
<1>9. CASE LeaseExpires \/ (\E w \in Procs : Claim(w) \/ Crash(w) \/ Stop(w)) \/ UNCHANGED vars
  <2>1. ASSUME LeaseExpires \/ UNCHANGED vars PROVE UNCHANGED <<status, client>>
    BY <2>1 DEF LeaseExpires, vars, row
  <2>2. ASSUME NEW w \in Procs, Claim(w) PROVE UNCHANGED <<status, client>>
    BY <2>2, ZenonT(40) DEF Claim
  <2>3. ASSUME NEW w \in Procs, Crash(w) \/ Stop(w) PROVE UNCHANGED <<status, client>>
    BY <2>3 DEF Crash, Stop, row
  <2> QED BY <1>9, <2>1, <2>2, <2>3 DEF WaitsForRequest
<1> QED BY <1>1, <1>5, <1>6, <1>7, <1>8, <1>9 DEF Next

LEMMA EndStep ==
    ASSUME Calm, Requests \subseteq {"repeat"}
    PROVE  TypeInv /\ WaitInv /\ AloneInv /\ EarlyInv /\ WaitsForRequest /\ [Next]_vars
               => EarlyInv' /\ WaitsForRequest' /\ EndedKept
<1> SUFFICES ASSUME TypeInv, WaitInv, AloneInv, EarlyInv, WaitsForRequest, [Next]_vars
             PROVE  EarlyInv' /\ WaitsForRequest' /\ EndedKept
  OBVIOUS
<1>1. WaitsForRequest'
  BY RequestsMeetTheWait
<1>2. ASSUME NEW e \in Execs, Work(e) \/ ExecuteRaises(e) PROVE EarlyInv' /\ EndedKept
  BY <1>2, WorkAlone
<1>3. ASSUME NEW c \in Clients, ResumeWrite(c) \/ CancelWrite(c) PROVE EarlyInv' /\ EndedKept
  <2>1. ResumeWrite(c) /\ status = "waiting_approval"
    BY <1>3 DEF ResumeWrite, CancelWrite, WaitsForRequest
  <2> QED BY <2>1 DEF ResumeWrite, EarlyInv, EndedKept, Terminal
<1>4. CASE \/ LeaseExpires \/ \E w \in Procs : Claim(w) \/ Crash(w) \/ Stop(w)
           \/ \E c \in Clients : \/ Serve(c) \/ Operate(c) \/ BareResume(c) \/ Abandon(c)
                                 \/ \E w \in Procs : CancelRun(c, w)
           \/ UNCHANGED vars
  BY <1>1, <1>3, <1>4, RestAlone DEF Calm
<1> QED BY <1>1, <1>2, <1>4 DEF Next

\* A run that is over stays over when it goes through one hand: executions do
\* not outlive the lease, and one operator, who decides what waits, may repeat a
\* decision but sends no cancel or resume of its own.  A kill, an exception or a
\* stop after the end still changes how it ended, never that it did.  Operators
\* who do not wait for the row revive a completed run: resume() reads before the
\* run ends and writes "pending" after.
THEOREM EndedRunsStayEnded ==
    ASSUME Patient, "overrun" \notin Faults, Requests \subseteq {"repeat"}, \A c, d \in Clients : c = d
    PROVE  Spec => [][EndedKept]_vars
<1>1. Calm /\ "overrun" \notin Faults
  BY DEF Calm
<1>2. TypeInv /\ WaitInv /\ [Next]_vars => WaitInv'
  BY <1>1, NextWaitInv
<1>3. TypeInv /\ AloneInv /\ [Next]_vars => AloneInv'
  BY NextAlone
<1>4. Init => WaitsForRequest
  BY DEF Init, NoClient, WaitsForRequest
<1>5. TypeInv /\ WaitInv /\ AloneInv /\ EarlyInv /\ WaitsForRequest /\ [Next]_vars
         => EarlyInv' /\ WaitsForRequest' /\ EndedKept
  BY <1>1, EndStep
<1> QED BY <1>2, <1>3, <1>4, <1>5, InitWaitInv, InitAlone, TypeInvariance, PTL DEF Spec
=============================================================================
