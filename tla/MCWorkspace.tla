---------------------------- MODULE MCWorkspace ----------------------------
(***************************************************************************)
(* What agents, workers and users write into the workspace of a case: the  *)
(* crawls of a monitor, its alerts and notifications, the entities, the    *)
(* steps of a plan, the runs started from the collection definition, the   *)
(* calls of a tool, the logins.  The parts share no table: as in           *)
(* MCServices, one of them works in each behaviour of the instance.        *)
(***************************************************************************)
EXTENDS MonitorExecution, AlertOccurrence, NotificationQueue, WorkspaceEntities,
        PlanSteps, CollectionStart, ToolCall, PlatformLogin, TLC

CONSTANTS scheduler,
          Actors, Things,
          k1, k2, k3      \* steps of a plan

VARIABLE active   \* the part that works in this behaviour

MCProcessOf == [s \in Slots |-> scheduler]

\* A chain and a cycle, as edges and as the depends_on of the steps.
MCPlanBodies == [edges : {{<<k1, k2>>, <<k2, k3>>}, {<<k1, k2>>, <<k2, k1>>}}, depends : {{}, {<<k3, k1>>}}]

\* The same two actors are the slots, workers, requests, calls and sessions of whatever part works,
\* and the same two things what they work on: either two are interchangeable.
Interchangeable == Permutations(Actors) \cup Permutations(Things)

WorkspaceInit ==
    /\ MonitorInit /\ AlertInit /\ NotifyInit /\ EntityInit /\ PlanInit /\ StartInit /\ ToolInit /\ LoginInit
    /\ active \in {"monitor", "alert", "notification", "entities", "plan", "start", "tool", "login"}
    /\ monitorOn = (active = "monitor")
    /\ triggers > 0 <=> active = "alert"
    /\ active # "entities" => \A c \in Cases : authors[c] = {}
    /\ active # "login" => credential = "missing"

WorkspaceNext ==
    /\ UNCHANGED active
    /\ \/ active = "monitor" /\ MonitorNext
       \/ active = "alert" /\ AlertNext
       \/ active = "notification" /\ NotifyNext
       \/ active = "entities" /\ EntityNext
       \/ active = "plan" /\ PlanNext
       \/ active = "start" /\ StartNext
       \/ active = "tool" /\ ToolNext
       \/ active = "login" /\ LoginNext
    /\ active # "monitor" => UNCHANGED monitorVars
    /\ active # "alert" => UNCHANGED alertVars
    /\ active # "notification" => UNCHANGED notifyVars
    /\ active # "entities" => UNCHANGED entityVars
    /\ active # "plan" => UNCHANGED planVars
    /\ active # "start" => UNCHANGED startVars
    /\ active # "tool" => UNCHANGED toolVars
    /\ active # "login" => UNCHANGED loginVars

WorkspaceSpec ==
    WorkspaceInit /\ [][WorkspaceNext]_<<monitorVars, alertVars, notifyVars, entityVars, planVars,
                                         startVars, toolVars, loginVars, active>>

\* Every row, call and session is of the kinds its table has.
WorkspaceTypeOK ==
    /\ MonitorTypeOK /\ AlertTypeOK /\ NotifyTypeOK /\ EntityTypeOK
    /\ PlanTypeOK /\ StartTypeOK /\ ToolTypeOK /\ LoginTypeOK
=============================================================================
