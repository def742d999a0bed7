------------------------------ MODULE PlanSteps ------------------------------
(***************************************************************************)
(* The plan of a goal (application/goal_service.py, services/planning.py): *)
(* its graph is validated, stored step by step and edge by edge, and then  *)
(* worked off by requests that declare what has become of a step.  Such a  *)
(* request reads a step, decides and writes in separate transactions, and  *)
(* writes by key.                                                          *)
(*                                                                         *)
(* One plan of one active goal.  Tasks, budgets and capabilities, which    *)
(* only refuse a plan before it exists, are left out, as are the goal's    *)
(* own status and its assessment, and attach_run, which also writes        *)
(* "running" and which nothing calls.                                      *)
(***************************************************************************)
EXTENDS Naturals, FiniteSets

CONSTANTS
    StepKeys,
    PlanBodies,     \* what a client may send: edges, and the depends_on of the steps, as pairs
    StepActions,    \* what a client may declare
    Declarers       \* requests served at the same time

\* What declaring it makes of a step.
Declared == [start |-> "running", wait |-> "waiting_review", succeed |-> "succeeded",
             fail |-> "failed", skip |-> "skipped", cancel |-> "cancelled"]

Pairs == StepKeys \X StepKeys
ASSUME PlanAssumption ==
    /\ IsFiniteSet(StepKeys) /\ StepKeys # {}
    /\ StepActions \subseteq DOMAIN Declared
    /\ PlanBodies \subseteq [edges : SUBSET Pairs, depends : SUBSET Pairs]

VARIABLES
    plan,       \* its version's status, the edges stored and those still to be stored
    steps,      \* of each step: its status
    declares    \* what each request is doing, and the step and action it is about

planVars == <<plan, steps, declares>>

StepStatuses == {"pending", "ready"} \cup {Declared[a] : a \in DOMAIN Declared}

\* _STEP_FROM: where a step may go.  Nothing declares a failed step pending again.
StepFrom(s) == CASE s = "pending" -> {"ready", "skipped", "cancelled"}
                 [] s = "ready" -> {"running", "succeeded", "failed", "skipped", "cancelled"}
                 [] s = "running" -> {"succeeded", "failed", "waiting_review", "cancelled"}
                 [] s = "waiting_review" -> {"succeeded", "failed", "running", "cancelled"}
                 [] s = "failed" -> {"pending"}
                 [] OTHER -> {}

NoPlan == [status |-> "none", edges |-> {}, todo |-> {}]
DeclareIdle == [at |-> "idle", step |-> CHOOSE s \in StepKeys : TRUE, action |-> "start"]

PlanInit ==
    /\ plan = NoPlan
    /\ steps = [s \in StepKeys |-> "absent"]
    /\ declares = [d \in Declarers |-> DeclareIdle]

(***************************** The graph **********************************)

DependsOn(pairs, s) == {p[1] : p \in {q \in pairs : q[2] = s}}

\* visit of validate_dag: depth first, and a step already on the path closes a cycle.  `seen` only
\* saves it from walking twice through what was found to be clear.
Visits(pairs) ==
    LET visit[v \in (SUBSET StepKeys) \X StepKeys] ==
            /\ v[2] \notin v[1]
            /\ \A d \in DependsOn(pairs, v[2]) : visit[<<v[1] \cup {v[2]}, d>>]
    IN  visit

\* Mutant: only steps that depend on themselves are refused.
NoSelfDependency(pairs) == \A p \in pairs : p[1] # p[2]

ValidDag(pairs) ==
    /\ \A p \in pairs : p[1] # p[2]
    /\ \A s \in StepKeys : Visits(pairs)[<<{}, s>>]

DoneStatuses == {"succeeded", "skipped"}

\* ready_set, over the edges that are stored.
Ready(s) == steps[s] = "pending" /\ \A d \in DependsOn(plan.edges, s) : steps[d] \in DoneStatuses

(***************************** create_plan ********************************)

\* The graph of edges and depends_on is validated; the version is inserted as a draft.
CreatePlan(body) ==
    /\ plan.status = "none"
    /\ ValidDag(body.edges \cup body.depends)
    /\ plan' = [status |-> "draft", edges |-> {}, todo |-> body.edges]
    /\ UNCHANGED <<steps, declares>>

\* One transaction for all steps ...
StoreSteps ==
    /\ plan.status = "draft"
    /\ \A s \in StepKeys : steps[s] = "absent"
    /\ steps' = [s \in StepKeys |-> "pending"]
    /\ UNCHANGED <<plan, declares>>

StepsStored == \A s \in StepKeys : steps[s] # "absent"

\* ... one for each edge ...
StoreEdge(p) ==
    /\ plan.status = "draft" /\ StepsStored
    /\ p \in plan.todo
    /\ plan' = [plan EXCEPT !.edges = @ \cup {p}, !.todo = @ \ {p}]
    /\ UNCHANGED <<steps, declares>>

\* ... and one that makes the plan active.
ActivatePlan ==
    /\ plan.status = "draft" /\ StepsStored
    /\ plan.todo = {}
    /\ plan' = [plan EXCEPT !.status = "active"]
    /\ UNCHANGED <<steps, declares>>

\* The request that creates the plan dies: a draft it stays.
CreatorDies ==
    /\ plan.status = "draft"
    /\ plan' = [plan EXCEPT !.status = "dead", !.todo = {}]
    /\ UNCHANGED <<steps, declares>>

(***************************** declare_step *******************************)

DeclareGoes(d, rec) == declares' = [declares EXCEPT ![d] = rec]

\* What the step's status permits is written next, anything else refused.
Permit(d, rec, status) ==
    DeclareGoes(d, IF Declared[rec.action] \in StepFrom(status) THEN [rec EXCEPT !.at = "write"] ELSE DeclareIdle)

\* The step is read; the status of its plan is not.
ReadStep(d, s, a) ==
    LET rec == [at |-> "check", step |-> s, action |-> a] IN
    /\ declares[d].at = "idle"
    /\ StepsStored
    /\ IF steps[s] = "pending" THEN DeclareGoes(d, rec) ELSE Permit(d, rec, steps[s])
    /\ UNCHANGED <<plan, steps>>

\* A pending step has to be ready.
CheckReady(d) ==
    /\ declares[d].at = "check"
    /\ DeclareGoes(d, IF Ready(declares[d].step) THEN [declares[d] EXCEPT !.at = "promote"] ELSE DeclareIdle)
    /\ UNCHANGED <<plan, steps>>

\* It becomes so, and stays so when what is declared is not permitted then.
Promote(d) ==
    /\ declares[d].at = "promote"
    /\ steps' = [steps EXCEPT ![declares[d].step] = "ready"]
    /\ Permit(d, declares[d], "ready")
    /\ UNCHANGED plan

WriteStep(d) ==
    /\ declares[d].at = "write"
    /\ steps' = [steps EXCEPT ![declares[d].step] = Declared[declares[d].action]]
    /\ DeclareGoes(d, DeclareIdle)
    /\ UNCHANGED plan

PlanNext ==
    \/ \E body \in PlanBodies : CreatePlan(body)
    \/ StoreSteps
    \/ \E p \in Pairs : StoreEdge(p)
    \/ ActivatePlan
    \/ CreatorDies
    \/ \E d \in Declarers :
           \/ \E s \in StepKeys, a \in StepActions : ReadStep(d, s, a)
           \/ CheckReady(d) \/ Promote(d) \/ WriteStep(d)

PlanSpec == PlanInit /\ [][PlanNext]_planVars

(***************************** Properties *********************************)

PlanTypeOK ==
    /\ plan \in [status : {"none", "draft", "dead", "active"}, edges : SUBSET Pairs, todo : SUBSET Pairs]
    /\ steps \in [StepKeys -> {"absent"} \cup StepStatuses]
    /\ declares \in [Declarers -> [at : {"idle", "check", "promote", "write"},
                                   step : StepKeys, action : DOMAIN Declared]]

\* No plan that was accepted waits for itself: while steps are pending, one of them is ready, or the
\* rest waits for a step that is under way or has failed or been cancelled, whatever stale requests
\* have written over each other and wherever the plan's creation broke off.
PlanIsNotStuck ==
    (\E s \in StepKeys : steps[s] = "pending") =>
        \E s \in StepKeys : Ready(s) \/ steps[s] \notin {"pending"} \cup DoneStatuses
=============================================================================
