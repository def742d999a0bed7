-------------------------- MODULE AlertOccurrence --------------------------
(***************************************************************************)
(* One alert occurrence: the row that the executions of a monitor which    *)
(* find the same rule broken in the same cooldown bucket share, and that   *)
(* operators acknowledge, resolve and suppress in the meantime.            *)
(*                                                                         *)
(* Every action is one statement or one transaction; no row is locked.     *)
(* Abstracted: what the rule compares, the explanation and the snapshot    *)
(* of the metrics, and trigger_count, which an UPDATE counts atomically.   *)
(***************************************************************************)
EXTENDS Naturals

CONSTANTS
    Raisers,        \* executions that evaluate the rule
    AlertOperators, \* requests for a change of the status
    MaxTriggers     \* how often the rule has a hit (bound)

ASSUME AlertAssumption == MaxTriggers \in Nat

VARIABLES
    alertStatus,    \* status of the row
    handled,        \* an operator has written the row since its last trigger
    raiser,         \* where each execution is in upsert_alert_occurrence
    move,           \* the status each operator's validated request is to write
    triggers,       \* hits still to come
    cut             \* an execution died between counting its trigger and reopening

alertVars == <<alertStatus, handled, raiser, move, triggers, cut>>

AllowedFrom == [acknowledged |-> {"open"},
                resolved     |-> {"open", "acknowledged"},
                suppressed   |-> {"open", "acknowledged", "resolved"}]
Targets == DOMAIN AllowedFrom
PutAside == {"resolved", "suppressed"}

AlertInit ==
    /\ alertStatus = "absent"
    /\ handled = FALSE
    /\ raiser = [r \in Raisers |-> "idle"]
    /\ move = [o \in AlertOperators |-> "none"]
    /\ triggers \in {0, MaxTriggers}
    /\ cut = FALSE

RaiserGoes(r, place) == raiser' = [raiser EXCEPT ![r] = place]

RuleHit(r) ==
    /\ raiser[r] = "idle"
    /\ triggers > 0
    /\ triggers' = triggers - 1
    /\ RaiserGoes(r, "inserting")
    /\ UNCHANGED <<alertStatus, handled, move, cut>>

\* upsert_alert_occurrence inserts the row; if the unique key refuses ...
InsertAlert(r) ==
    /\ raiser[r] = "inserting"
    /\ IF alertStatus = "absent"
       THEN /\ alertStatus' = "open"
            /\ handled' = FALSE
            /\ RaiserGoes(r, "idle")
       ELSE /\ RaiserGoes(r, "counting")
            /\ UNCHANGED <<alertStatus, handled>>
    /\ UNCHANGED <<move, triggers, cut>>

\* ... it counts the trigger and commits ...
CountTrigger(r) ==
    /\ raiser[r] = "counting"
    /\ handled' = FALSE
    /\ RaiserGoes(r, "counted")
    /\ UNCHANGED <<alertStatus, move, triggers, cut>>

\* Mutant: a suppressed alert stays suppressed.
ReopenResolved(r) ==
    /\ raiser[r] = "counted"
    /\ RaiserGoes(r, IF alertStatus = "resolved" THEN "reopening" ELSE "idle")
    /\ UNCHANGED <<alertStatus, handled, move, triggers, cut>>

\* ... reads the row again ...
ReopenRead(r) ==
    /\ raiser[r] = "counted"
    /\ RaiserGoes(r, IF alertStatus \in PutAside THEN "reopening" ELSE "idle")
    /\ UNCHANGED <<alertStatus, handled, move, triggers, cut>>

\* ... and opens it, whatever it has become since.
ReopenAlert(r) ==
    /\ raiser[r] = "reopening"
    /\ alertStatus' = "open"
    /\ RaiserGoes(r, "idle")
    /\ UNCHANGED <<handled, move, triggers, cut>>

\* The process of the execution is killed; a later execution evaluates anew.
KillRaiser(r) ==
    /\ raiser[r] # "idle"
    /\ cut' = (cut \/ raiser[r] \in {"counted", "reopening"})
    /\ RaiserGoes(r, "idle")
    /\ UNCHANGED <<alertStatus, handled, move, triggers>>

\* set_alert_status validates the transition from the status it reads ...
MoveRead(o, target) ==
    /\ move[o] = "none"
    /\ alertStatus \in AllowedFrom[target]
    /\ move' = [move EXCEPT ![o] = target]
    /\ UNCHANGED <<alertStatus, handled, raiser, triggers, cut>>

\* ... and writes by primary key.
MoveWrite(o) ==
    /\ move[o] # "none"
    /\ alertStatus' = move[o]
    /\ handled' = TRUE
    /\ move' = [move EXCEPT ![o] = "none"]
    /\ UNCHANGED <<raiser, triggers, cut>>

AlertNext ==
    \/ \E r \in Raisers :
         \/ RuleHit(r) \/ InsertAlert(r) \/ CountTrigger(r)
         \/ ReopenRead(r) \/ ReopenAlert(r) \/ KillRaiser(r)
    \/ \E o \in AlertOperators : MoveWrite(o) \/ \E target \in Targets : MoveRead(o, target)

AlertSpec == AlertInit /\ [][AlertNext]_alertVars

---------------------------------------------------------------------------
(* Properties *)

AlertTypeOK ==
    /\ alertStatus \in {"absent", "open"} \cup Targets
    /\ handled \in BOOLEAN
    /\ raiser \in [Raisers -> {"idle", "inserting", "counting", "counted", "reopening"}]
    /\ move \in [AlertOperators -> {"none"} \cup Targets]
    /\ triggers \in 0..MaxTriggers
    /\ cut \in BOOLEAN

\* An alert that is put aside was put aside after its last trigger: whoever
\* resolves or suppresses it while executions raise it again finds it open,
\* unless one of them is killed between counting its trigger and reopening.
TriggerIsSeen ==
    alertStatus \in PutAside /\ ~handled =>
        cut \/ \E r \in Raisers : raiser[r] \in {"counted", "reopening"}
=============================================================================
