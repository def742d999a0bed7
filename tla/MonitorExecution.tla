-------------------------- MODULE MonitorExecution --------------------------
(***************************************************************************)
(* Continuous monitoring: the schedule of one interval monitor, its        *)
(* executions, which crawl platform after platform from the cursor of each *)
(* to the present.                                                         *)
(*                                                                         *)
(* A row of monitor_executions is claimed under a lease; the scheduler of  *)
(* a process runs up to max_concurrent_executions of them, here one in     *)
(* each of its slots.  Every action is one transaction, one crawl, or the  *)
(* passing of a deadline; a process may be killed between any two.         *)
(*                                                                         *)
(* Abstracted: the posts (an instant stands for what was published then),  *)
(* the alerts (AlertOccurrence), the analysis run a finished execution may *)
(* start, edits of the monitor, and failures of the database outside the   *)
(* loop over the platforms.                                                *)
(***************************************************************************)
EXTENDS Integers, FiniteSets

CONSTANTS
    Platforms,       \* the platforms of the monitor
    Slots,           \* places for executions, of all scheduler processes
    ProcessOf,       \* slot -> its process, whose name is its worker_id
    Interval,        \* interval_seconds
    Lookback,        \* lookback_seconds
    MaxInstant,      \* where the clock stops (bound)
    MaxExecutions,   \* executions of a behaviour (bound)
    MaxMonitorCuts   \* kills of a process in a behaviour (bound)

\* A monitor is accepted with a positive interval and a lookback that is not negative.
ASSUME MonitorAssumption == /\ Interval \in Nat \ {0} /\ Lookback \in Nat
                            /\ MaxInstant \in Nat /\ MaxExecutions \in Nat /\ MaxMonitorCuts \in Nat

Instants == 0..MaxInstant
NoCursor == -1

VARIABLES
    clock,
    monitorOn,       \* whether the (enabled) monitor exists
    executions,      \* scheduled_at -> row of monitor_executions
    cursors,         \* platform -> last_window_end
    stored,          \* platform -> the instants whose posts are in the social store
    slots,           \* what each slot is doing
    monitorCuts

monitorVars == <<clock, monitorOn, executions, cursors, stored, slots, monitorCuts>>

Processes == {ProcessOf[s] : s \in Slots}
ExecutionEnded == {"succeeded", "partial", "failed"}
ExecutionRows == [status : {"absent", "scheduled", "running"} \cup ExecutionEnded,
                  owner : Processes \cup {"nobody"}, ripe : BOOLEAN]
NoExecution == [status |-> "absent", owner |-> "nobody", ripe |-> FALSE]

\* Where a slot stands in _execute.
SlotPlaces == {"idle", "claimed", "looping", "crawling", "crawled", "persisted", "broken",
               "finishing", "failing"}

\* now, from: the window; todo, failed: platforms; lost: lease_lost is set.
SlotIdle == [at |-> "idle", exec |-> 0, now |-> 0, from |-> 0, todo |-> {}, failed |-> {},
             lost |-> FALSE]

MonitorInit ==
    /\ clock = 0
    /\ monitorOn \in BOOLEAN
    /\ executions = [t \in Instants |-> NoExecution]
    /\ cursors = [p \in Platforms |-> NoCursor]
    /\ stored = [p \in Platforms |-> {}]
    /\ slots = [s \in Slots |-> SlotIdle]
    /\ monitorCuts = 0

SlotAt(s, place) == slots[s].at = place
SlotGoes(s, place) == slots' = [slots EXCEPT ![s].at = place]
SlotRests(s) == slots' = [slots EXCEPT ![s] = SlotIdle]
SlotFails(s) == slots' = [slots EXCEPT ![s] = [SlotIdle EXCEPT !.at = "failing", !.exec = slots[s].exec]]
MaxOf(a, b) == IF a >= b THEN a ELSE b

---------------------------------------------------------------------------
(* The schedule *)

Scheduled == {t \in Instants : executions[t].status # "absent"}
Create(t) == executions' = [executions EXCEPT ![t].status = "scheduled"]
RoomToCreate == Cardinality(Scheduled) < MaxExecutions

\* compute_next_scheduled_at: a time of the grid that has passed is skipped.
NextAt ==
    IF Scheduled = {} THEN clock
    ELSE LET last  == CHOOSE t \in Scheduled : \A u \in Scheduled : u <= t
             steps == MaxOf(1, (clock - last + Interval - 1) \div Interval)
         IN  last + steps * Interval

ScheduleDue ==
    /\ monitorOn
    /\ NextAt <= clock
    /\ RoomToCreate
    /\ Create(NextAt)
    /\ UNCHANGED <<clock, monitorOn, cursors, stored, slots, monitorCuts>>

\* run_now; the unique key makes a second one at the same time a no-op.
RunNow ==
    /\ monitorOn
    /\ executions[clock].status = "absent"
    /\ RoomToCreate
    /\ Create(clock)
    /\ UNCHANGED <<clock, monitorOn, cursors, stored, slots, monitorCuts>>

---------------------------------------------------------------------------
(* Claim and lease *)

\* Mutant: an execution whose worker died is not handed out again.
ClaimableOnce(t) == executions[t].status = "scheduled"

ExecutionClaimable(t) ==
    \/ executions[t].status = "scheduled"
    \/ executions[t].status = "running" /\ executions[t].ripe

\* The earliest claimable execution, however often it was claimed before.
ClaimExecution(s) ==
    /\ SlotAt(s, "idle")
    /\ \E t \in Instants :
         /\ ExecutionClaimable(t)
         /\ \A u \in Instants : ExecutionClaimable(u) => t <= u
         /\ executions' = [executions EXCEPT ![t] =
                [status |-> "running", owner |-> ProcessOf[s], ripe |-> FALSE]]
         /\ slots' = [slots EXCEPT ![s] = [SlotIdle EXCEPT !.at = "claimed", !.exec = t]]
    /\ UNCHANGED <<clock, monitorOn, cursors, stored, monitorCuts>>

Row(s) == executions[slots[s].exec]
IsMine(s) == Row(s).owner = ProcessOf[s]

\* update_execution_if_owner
Fenced(s) == Row(s).status = "running" /\ IsMine(s)

\* The window of the execution is stored, if the execution is still ours.
StartExecution(s) ==
    /\ SlotAt(s, "claimed")
    /\ IF Fenced(s)
       THEN slots' = [slots EXCEPT ![s] = [@ EXCEPT !.at = "looping", !.now = clock,
                                                    !.todo = Platforms]]
       ELSE SlotRests(s)
    /\ UNCHANGED <<clock, monitorOn, executions, cursors, stored, monitorCuts>>

\* _heartbeat_loop.  It may be late, and dies silently if the database raises:
\* nothing makes it happen.  refresh_execution_lease compares the owner only.
Heartbeat(s) ==
    /\ slots[s].at \notin {"idle", "claimed"}
    /\ \/ /\ IsMine(s)
          /\ Row(s).ripe
          /\ executions' = [executions EXCEPT ![slots[s].exec].ripe = FALSE]
          /\ UNCHANGED slots
       \/ /\ ~IsMine(s)
          /\ ~SlotAt(s, "finishing") /\ ~SlotAt(s, "failing")
          /\ slots' = [slots EXCEPT ![s].lost = TRUE]
          /\ UNCHANGED executions
    /\ UNCHANGED <<clock, monitorOn, cursors, stored, monitorCuts>>

---------------------------------------------------------------------------
(* The loop over the platforms *)

\* Every phase begins by looking at lease_lost.
GivesUp(s, place) ==
    /\ SlotAt(s, place)
    /\ slots[s].lost
    /\ SlotFails(s)
    /\ UNCHANGED <<clock, monitorOn, executions, cursors, stored, monitorCuts>>

LeaseIsLost(s) == \E place \in {"looping", "crawled", "persisted"} : GivesUp(s, place)

\* The platform under way; get_cursor and compute_window.
Current(s) == CHOOSE p \in slots[s].todo : TRUE
WindowStart(s) == IF cursors[Current(s)] = NoCursor THEN MaxOf(0, slots[s].now - Lookback)
                                                   ELSE cursors[Current(s)]

OpenWindow(s) ==
    /\ SlotAt(s, "looping")
    /\ ~slots[s].lost
    /\ slots[s].todo # {}
    /\ slots' = [slots EXCEPT ![s] = [@ EXCEPT !.at = "crawling", !.from = WindowStart(s)]]
    /\ UNCHANGED <<clock, monitorOn, executions, cursors, stored, monitorCuts>>

SlotBreaks(s) == slots' = [slots EXCEPT ![s] = [@ EXCEPT !.at = "broken", !.from = 0]]

Crawl(s) ==
    /\ SlotAt(s, "crawling")
    /\ SlotGoes(s, "crawled") \/ SlotBreaks(s)
    /\ UNCHANGED <<clock, monitorOn, executions, cursors, stored, monitorCuts>>

PersistBatch(s) ==
    /\ SlotAt(s, "crawled")
    /\ ~slots[s].lost
    /\ \/ SlotBreaks(s) /\ UNCHANGED stored
       \/ /\ stored' = [stored EXCEPT ![Current(s)] = @ \cup (slots[s].from)..(slots[s].now - 1)]
          /\ slots' = [slots EXCEPT ![s] = [@ EXCEPT !.at = "persisted", !.from = 0]]
    /\ UNCHANGED <<clock, monitorOn, executions, cursors, monitorCuts>>

PlatformDone(s, failed) ==
    slots' = [slots EXCEPT ![s] = [slots[s] EXCEPT
                  !.at = "looping", !.from = 0,
                  !.todo = slots[s].todo \ {Current(s)}, !.failed = slots[s].failed \cup failed]]

\* upsert_cursor is not fenced, and may take the cursor back; it fails when
\* another execution inserts the first row of the cursor at the same time.
UpsertCursor(s) ==
    /\ SlotAt(s, "persisted")
    /\ ~slots[s].lost
    /\ \/ SlotBreaks(s) /\ UNCHANGED cursors
       \/ /\ cursors' = [cursors EXCEPT ![Current(s)] = slots[s].now]
          /\ PlatformDone(s, {})
    /\ UNCHANGED <<clock, monitorOn, executions, stored, monitorCuts>>

\* Mutant: a platform that failed is not asked for the same window again.
RecordFailureAdvancing(s) ==
    /\ SlotAt(s, "broken")
    /\ cursors' = [cursors EXCEPT ![Current(s)] = slots[s].now]
    /\ PlatformDone(s, {Current(s)})
    /\ UNCHANGED <<clock, monitorOn, executions, stored, monitorCuts>>

\* record_cursor_failure counts the failure in the row of the cursor; without
\* a row it adds one to the counter of a record that has none yet, raises a
\* TypeError and so ends the whole execution.
RecordFailure(s) ==
    /\ SlotAt(s, "broken")
    /\ IF cursors[Current(s)] = NoCursor THEN SlotFails(s)
                                         ELSE PlatformDone(s, {Current(s)})
    /\ UNCHANGED <<clock, monitorOn, executions, cursors, stored, monitorCuts>>

---------------------------------------------------------------------------
(* The end of an execution *)

\* With every platform done the rules are evaluated: see AlertOccurrence.
EvaluateAlerts(s) ==
    /\ SlotAt(s, "looping")
    /\ ~slots[s].lost
    /\ slots[s].todo = {}
    /\ slots' = [slots EXCEPT ![s] = [@ EXCEPT !.at = "finishing", !.now = 0]]
    /\ UNCHANGED <<clock, monitorOn, executions, cursors, stored, monitorCuts>>

Outcome(s) == IF slots[s].failed = {} THEN "succeeded"
              ELSE IF slots[s].failed = Platforms THEN "failed" ELSE "partial"

EndExecution(s, outcome) == executions' = [executions EXCEPT ![slots[s].exec] =
    [status |-> outcome, owner |-> "nobody", ripe |-> FALSE]]

FinishExecution(s) ==
    /\ SlotAt(s, "finishing")
    /\ IF Fenced(s) THEN EndExecution(s, Outcome(s)) /\ SlotRests(s)
                    ELSE UNCHANGED executions /\ SlotFails(s)
    /\ UNCHANGED <<clock, monitorOn, cursors, stored, monitorCuts>>

FailExecution(s) ==
    /\ SlotAt(s, "failing")
    /\ IF Fenced(s) THEN EndExecution(s, "failed") ELSE UNCHANGED executions
    /\ SlotRests(s)
    /\ UNCHANGED <<clock, monitorOn, cursors, stored, monitorCuts>>

---------------------------------------------------------------------------
(* The process and the clock *)

\* A kill, or stop(), which cancels the executions and writes nothing.
KillScheduler(process) ==
    /\ monitorCuts < MaxMonitorCuts
    /\ \E s \in Slots : ProcessOf[s] = process /\ ~SlotAt(s, "idle")
    /\ slots' = [s \in Slots |-> IF ProcessOf[s] = process THEN SlotIdle ELSE slots[s]]
    /\ monitorCuts' = monitorCuts + 1
    /\ UNCHANGED <<clock, monitorOn, executions, cursors, stored>>

ExecutionRipens(t) ==
    /\ executions[t].status = "running"
    /\ ~executions[t].ripe
    /\ executions' = [executions EXCEPT ![t].ripe = TRUE]
    /\ UNCHANGED <<clock, monitorOn, cursors, stored, slots, monitorCuts>>

\* (Without a monitor nobody looks at the clock.)
ClockTicks ==
    /\ monitorOn
    /\ clock < MaxInstant
    /\ clock' = clock + 1
    /\ UNCHANGED <<monitorOn, executions, cursors, stored, slots, monitorCuts>>

---------------------------------------------------------------------------
SlotStep(s) ==
    \/ ClaimExecution(s) \/ StartExecution(s) \/ LeaseIsLost(s) \/ OpenWindow(s) \/ Crawl(s)
    \/ PersistBatch(s) \/ UpsertCursor(s) \/ RecordFailure(s) \/ EvaluateAlerts(s)
    \/ FinishExecution(s) \/ FailExecution(s)

MonitorNext ==
    \/ ScheduleDue \/ RunNow \/ ClockTicks
    \/ \E s \in Slots : SlotStep(s) \/ Heartbeat(s)
    \/ \E t \in Instants : ExecutionRipens(t)
    \/ \E process \in Processes : KillScheduler(process)

\* The loop polls, the executions go on, time passes.
MonitorFairness ==
    /\ WF_monitorVars(ScheduleDue)
    /\ WF_monitorVars(ClockTicks)
    /\ \A s \in Slots : WF_monitorVars(SlotStep(s))
    /\ \A t \in Instants : WF_monitorVars(ExecutionRipens(t))

MonitorSpec == MonitorInit /\ [][MonitorNext]_monitorVars /\ MonitorFairness

---------------------------------------------------------------------------
(* Properties *)

MonitorTypeOK ==
    /\ clock \in Instants
    /\ executions \in [Instants -> ExecutionRows]
    /\ cursors \in [Platforms -> Instants \cup {NoCursor}]
    /\ \A p \in Platforms : stored[p] \subseteq Instants
    /\ \A s \in Slots : slots[s].at \in SlotPlaces /\ slots[s].exec \in Instants
    /\ monitorCuts \in 0..MaxMonitorCuts

\* What a cursor says has been collected is in the social store: executions
\* that overlap, lose their lease, die, or fail on a platform, and cursors
\* that are written late and backwards, leave no gap.
NothingIsMissed ==
    \A p \in Platforms : \A t \in Instants : t < cursors[p] => t \in stored[p]

\* Every execution that is created comes to an end, whatever dies on the way.
ExecutionsEnd ==
    \A t \in Instants : []<>(executions[t].status \in ExecutionEnded \cup {"absent"})

\* Monitoring is continuous: once the interval since an execution is over,
\* there is a later one.
IntervalGoesOn == \A t \in Instants :
    executions[t].status # "absent" /\ t + Interval <= clock
        ~> \E u \in Scheduled : u > t
=============================================================================
