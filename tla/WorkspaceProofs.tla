-------------------------- MODULE WorkspaceProofs --------------------------
(***************************************************************************)
(* Theorems about the small components that MCServices and MCWorkspace     *)
(* check: an alert that is raised while operators handle it, the outbox of *)
(* notifications, the start of collections, the calls of a tool, the       *)
(* logins of a platform, the executions of a monitor and the steps of a    *)
(* plan.  At the end, the types of all of them.                            *)
(***************************************************************************)
EXTENDS AlertOccurrence, NotificationQueue, CollectionStart, ToolCall,
        PlatformLogin, MonitorExecution, PlanSteps, FiniteSetTheorems,
        WellFoundedInduction, TLAPS

(***************************** An alert ***********************************)

\* A trigger that is counted makes its execution look at the status again; only MoveWrite puts an
\* alert aside, and marks it handled.
AlertInv ==
    /\ raiser \in [Raisers -> {"idle", "inserting", "counting", "counted", "reopening"}]
    /\ TriggerIsSeen

LEMMA AlertStep == ASSUME AlertInv, [AlertNext]_alertVars PROVE AlertInv'
<1> USE DEF AlertInv, TriggerIsSeen, PutAside, RaiserGoes
<1>1. CASE UNCHANGED alertVars
    BY <1>1 DEF alertVars
<1>2. ASSUME NEW r \in Raisers, RuleHit(r) PROVE AlertInv'
    BY <1>2 DEF RuleHit
<1>3. ASSUME NEW r \in Raisers, InsertAlert(r) PROVE AlertInv'
    BY <1>3 DEF InsertAlert
<1>4. ASSUME NEW r \in Raisers, CountTrigger(r) PROVE AlertInv'
    BY <1>4 DEF CountTrigger
<1>5. ASSUME NEW r \in Raisers, ReopenRead(r) PROVE AlertInv'
    BY <1>5 DEF ReopenRead
<1>6. ASSUME NEW r \in Raisers, ReopenAlert(r) PROVE AlertInv'
    BY <1>6 DEF ReopenAlert
<1>7. ASSUME NEW r \in Raisers, KillRaiser(r) PROVE AlertInv'
    BY <1>7 DEF KillRaiser
<1>8. ASSUME NEW o \in AlertOperators, MoveWrite(o) PROVE AlertInv'
    BY <1>8 DEF MoveWrite
<1>9. ASSUME NEW o \in AlertOperators, NEW target \in Targets, MoveRead(o, target)
      PROVE  AlertInv'
    BY <1>9 DEF MoveRead
<1> QED BY <1>1, <1>2, <1>3, <1>4, <1>5, <1>6, <1>7, <1>8, <1>9 DEF AlertNext

\* An alert that is put aside was put aside after its last trigger, unless an execution was killed
\* in between: for any number of executions, operators and triggers.
THEOREM TriggerIsSeenTheorem == AlertSpec => []TriggerIsSeen
<1>1. AlertInit => AlertInv
    BY DEF AlertInit, AlertInv, TriggerIsSeen, PutAside
<1>2. AlertInv /\ [AlertNext]_alertVars => AlertInv'
    BY AlertStep
<1>3. AlertInv => TriggerIsSeen
    BY DEF AlertInv
<1> QED BY <1>1, <1>2, <1>3, PTL DEF AlertSpec

(***************************** The outbox of notifications ****************)

Told(d) == d \in received \cup givenUp

DispatcherRows == [at : {"idle", "batch", "event", "posting", "answered"},
                   batch : SUBSET Events, event : SUBSET Events, todo : SUBSET Subscriptions,
                   settled : BOOLEAN, done : SUBSET Events, to : Deliveries \cup {<<>>},
                   seen : 0..MaxAttempts, answer : {"none", "sent", "dead", "later"}]

\* What a row says has happened: the endpoint has got the event, or it was given up.
RowsTell ==
    \A d \in Deliveries : deliveries[d].status \in {"sent", "dead"} => Told(d)

\* The delivery under way is one of the event under way, and its attempt and its answer are real.
Underway(row) ==
    /\ \A e, f \in row.event : e = f
    /\ row.at \in {"posting", "answered"} =>
           \E e \in row.event, s \in Subscriptions : row.to = <<e, s>>
    /\ row.at \in {"posting", "answered"} => row.seen \in 1..MaxAttempts
    /\ row.at = "answered" => row.answer # "none" /\ (row.answer = "sent" => row.to \in received)

\* all_terminal: every subscription served so far, but the one under way, has been told.
Settled(row) ==
    row.settled /\ row.at \in {"event", "posting", "answered"} =>
        \A e \in row.event : \A s \in Subscriptions \ row.todo :
            Told(<<e, s>>) \/ (row.at # "event" /\ row.to = <<e, s>>)

\* The events to mark have been told to everybody.
DoneTold(row) == \A e \in row.done : \A s \in Subscriptions : Told(<<e, s>>)

RowOK(row) == row \in DispatcherRows /\ Underway(row) /\ Settled(row) /\ DoneTold(row)

NotifyInv ==
    /\ events \in [Events -> {"absent", "waiting", "delivered"}]
    /\ deliveries \in [Deliveries -> DeliveryRows]
    /\ dispatcher \in [Dispatchers -> DispatcherRows]
    /\ received \cup givenUp \subseteq Deliveries
    /\ RowsTell
    /\ \A w \in Dispatchers : RowOK(dispatcher[w])
    /\ DeliveredIsTold

\* What a dispatcher row says stays true, as no delivery that is told is ever forgotten.
NothingForgotten == received \subseteq received' /\ givenUp \subseteq givenUp'

LEMMA RowOKKept ==
    ASSUME NEW row, RowOK(row), NothingForgotten
    PROVE  RowOK(row)'
BY DEF RowOK, Underway, Settled, DoneTold, Told, NothingForgotten

\* A step of one dispatcher has to be looked at for its own row only.
LEMMA DispatcherStep ==
    ASSUME NotifyInv, NothingForgotten, NEW w \in Dispatchers, NEW row,
           DispatcherIs(w, row), RowOK(row)'
    PROVE  /\ dispatcher' \in [Dispatchers -> DispatcherRows]
           /\ \A v \in Dispatchers : RowOK(dispatcher[v])'
<1>1. row \in DispatcherRows
    BY DEF RowOK, DispatcherRows
<1>2. dispatcher' \in [Dispatchers -> DispatcherRows]
    BY <1>1 DEF DispatcherIs, NotifyInv
<1>3. ASSUME NEW v \in Dispatchers PROVE RowOK(dispatcher[v])'
  <2>1. CASE v = w
    <3>1. dispatcher'[v] = row
        BY <2>1 DEF DispatcherIs, NotifyInv
    <3> QED BY <3>1 DEF RowOK, Underway, Settled, DoneTold, Told
  <2>2. CASE v # w
    <3>1. dispatcher'[v] = dispatcher[v]
        BY <2>2 DEF DispatcherIs, NotifyInv
    <3>2. RowOK(dispatcher[v])
        BY DEF NotifyInv
    <3> QED BY <3>1, <3>2 DEF RowOK, Underway, Settled, DoneTold, Told, NothingForgotten
  <2> QED BY <2>1, <2>2
<1> QED BY <1>2, <1>3

\* A dispatcher that is idle has nothing to say.
LEMMA IdleRowOK == RowOK(DispatcherIdle) /\ RowOK(DispatcherIdle)'
BY NotifyAssumption DEF RowOK, DispatcherIdle, DispatcherRows, Underway, Settled, DoneTold

\* What keeps the rest: the rows, and the events that were told.
LEMMA EventsKept ==
    ASSUME NotifyInv, NothingForgotten, events' = events
    PROVE  DeliveredIsTold'
BY DEF NotifyInv, NothingForgotten, DeliveredIsTold

LEMMA RowsKept ==
    ASSUME NotifyInv, NothingForgotten, deliveries' = deliveries
    PROVE  RowsTell'
BY DEF NotifyInv, NothingForgotten, RowsTell, Told

LEMMA DispatchEventStep ==
    ASSUME NotifyInv, NEW w \in Dispatchers, DispatchEvent(w) PROVE NotifyInv'
<1> DEFINE r == dispatcher[w]
<1>1. RowOK(r) /\ r \in DispatcherRows
    BY DEF NotifyInv
<1>2. PICK e, usable, row :
          /\ e \in r.batch /\ usable \in SUBSET Subscriptions
          /\ DispatcherIs(w, row)
          /\ row = [r EXCEPT !.at = "event", !.batch = @ \ {e}, !.event = {e},
                          !.todo = usable, !.settled = (usable = Subscriptions)]
    BY DEF DispatchEvent
<1>3. NothingForgotten
    BY DEF DispatchEvent, NothingForgotten
<1>4. /\ row \in DispatcherRows /\ row.at = "event" /\ row.event = {e} /\ row.todo = usable
      /\ row.settled = (usable = Subscriptions) /\ row.done = r.done
    BY <1>1, <1>2 DEF DispatcherRows
<1>5. RowOK(row)
    BY <1>1, <1>4 DEF RowOK, Underway, Settled, DoneTold
<1>6. RowOK(row)'
    BY <1>3, <1>5, RowOKKept
<1> QED BY <1>2, <1>3, <1>6, DispatcherStep, EventsKept, RowsKept DEF DispatchEvent, NotifyInv

\* The delivery under way is a delivery.
LEMMA UnderwayIsDelivery ==
    ASSUME NEW r, RowOK(r), r.at \in {"posting", "answered"} PROVE r.to \in Deliveries
<1>1. PICK e \in r.event, s \in Subscriptions : r.to = <<e, s>>
    BY DEF RowOK, Underway
<1>2. e \in Events
    BY DEF RowOK, DispatcherRows
<1> QED BY <1>1, <1>2 DEF Deliveries

LEMMA OpenDeliveryStep ==
    ASSUME NotifyInv, NEW w \in Dispatchers, OpenDelivery(w) PROVE NotifyInv'
<1> DEFINE r == dispatcher[w]
<1>1. RowOK(r) /\ r \in DispatcherRows /\ r.at = "event"
    BY DEF NotifyInv, OpenDelivery, DispatcherAt
<1>2. PICK s \in r.todo, e \in r.event :
          LET row  == deliveries[<<e, s>>]
              skip == [r EXCEPT !.todo = @ \ {s}]
          IN  \/ Passed(row) /\ DispatcherIs(w, skip) /\ UNCHANGED deliveries
              \/ /\ ~Passed(row) /\ ~row.due
                 /\ DispatcherIs(w, [skip EXCEPT !.settled = FALSE])
                 /\ UNCHANGED deliveries
              \/ /\ ~Passed(row) /\ row.due
                 /\ deliveries' = IF row.status = "absent"
                                  THEN [deliveries EXCEPT ![<<e, s>>].status = "pending"]
                                  ELSE deliveries
                 /\ DispatcherIs(w, [skip EXCEPT !.at = "posting", !.to = <<e, s>>,
                                                 !.seen = row.attempt])
    BY DEF OpenDelivery
<1>3. NothingForgotten
    BY DEF OpenDelivery, NothingForgotten
<1>4. <<e, s>> \in Deliveries /\ s \in Subscriptions /\ deliveries[<<e, s>>] \in DeliveryRows
    BY <1>1 DEF DispatcherRows, Deliveries, NotifyInv
<1>5. PICK skip : skip = [r EXCEPT !.todo = @ \ {s}]
    OBVIOUS
<1>6. /\ skip \in DispatcherRows /\ skip.at = "event" /\ skip.event = r.event /\ skip.done = r.done
      /\ skip.todo = r.todo \ {s} /\ skip.settled = r.settled
    BY <1>1, <1>5 DEF DispatcherRows
<1>7. ASSUME Passed(deliveries[<<e, s>>]), DispatcherIs(w, skip), UNCHANGED deliveries
      PROVE  NotifyInv'
  <2>1. Told(<<e, s>>)
    BY <1>4, <1>7 DEF Passed, NotifyInv, RowsTell
  <2>2. RowOK(skip)
    BY <1>1, <1>6, <2>1 DEF RowOK, Underway, Settled, DoneTold
  <2>3. RowOK(skip)'
    BY <1>3, <2>2, RowOKKept
  <2> QED BY <1>3, <1>7, <2>3, DispatcherStep, EventsKept, RowsKept DEF OpenDelivery, NotifyInv
<1>8. ASSUME NEW row, row = [skip EXCEPT !.settled = FALSE], DispatcherIs(w, row),
             UNCHANGED deliveries
      PROVE  NotifyInv'
  <2>1. /\ row \in DispatcherRows /\ row.at = "event" /\ row.event = r.event /\ row.done = r.done
        /\ ~row.settled
    BY <1>6, <1>8 DEF DispatcherRows
  <2>2. RowOK(row)
    BY <1>1, <2>1 DEF RowOK, Underway, Settled, DoneTold
  <2>3. RowOK(row)'
    BY <1>3, <2>2, RowOKKept
  <2> QED BY <1>3, <1>8, <2>3, DispatcherStep, EventsKept, RowsKept DEF OpenDelivery, NotifyInv
<1>9. ASSUME NEW row, DispatcherIs(w, row), NEW seen, seen = deliveries[<<e, s>>].attempt,
             row = [skip EXCEPT !.at = "posting", !.to = <<e, s>>, !.seen = seen],
             deliveries' = IF deliveries[<<e, s>>].status = "absent"
                           THEN [deliveries EXCEPT ![<<e, s>>].status = "pending"]
                           ELSE deliveries
      PROVE  NotifyInv'
  <2>1. seen \in 1..MaxAttempts /\ seen \in 0..MaxAttempts
    BY <1>4, <1>9, NotifyAssumption DEF DeliveryRows
  <2>2. /\ row \in DispatcherRows /\ row.at = "posting" /\ row.event = r.event /\ row.done = r.done
        /\ row.todo = r.todo \ {s} /\ row.settled = r.settled /\ row.to = <<e, s>>
        /\ row.seen \in 1..MaxAttempts
    BY <1>4, <1>6, <1>9, <2>1 DEF DispatcherRows
  <2>3. RowOK(row)
    BY <1>1, <1>4, <2>2 DEF RowOK, Underway, Settled, DoneTold
  <2>4. RowOK(row)'
    BY <1>3, <2>3, RowOKKept
  <2>5. [deliveries[<<e, s>>] EXCEPT !.status = "pending"] \in DeliveryRows
    BY <1>4 DEF DeliveryRows
  <2>6. /\ deliveries' \in [Deliveries -> DeliveryRows]
        /\ \A d \in Deliveries : deliveries'[d].status \in {"sent", "dead"} =>
                                    deliveries[d].status \in {"sent", "dead"}
    BY <1>4, <1>9, <2>5 DEF NotifyInv, DeliveryRows
  <2>7. RowsTell'
    BY <1>3, <2>6 DEF NotifyInv, RowsTell, Told, NothingForgotten
  <2> QED BY <1>3, <1>9, <2>4, <2>6, <2>7, DispatcherStep, EventsKept DEF OpenDelivery, NotifyInv
<1> QED BY <1>2, <1>5, <1>7, <1>8, <1>9

LEMMA PostStep ==
    ASSUME NotifyInv, NEW w \in Dispatchers, Post(w) PROVE NotifyInv'
<1> DEFINE r == dispatcher[w]
<1>1. RowOK(r) /\ r \in DispatcherRows /\ r.at = "posting"
    BY DEF NotifyInv, Post, DispatcherAt
<1>2. PICK answer \in {"sent", "dead", "later"} :
          /\ DispatcherIs(w, [r EXCEPT !.at = "answered", !.answer = answer])
          /\ (answer # "sent" /\ UNCHANGED received) \/ received' = received \cup {r.to}
    BY DEF Post
<1>3. PICK row : row = [r EXCEPT !.at = "answered", !.answer = answer]
    OBVIOUS
<1>4. NothingForgotten
    BY <1>2 DEF Post, NothingForgotten
<1>5. r.to \in Deliveries
    BY <1>1, UnderwayIsDelivery
<1>6. /\ row \in DispatcherRows /\ row.at = "answered" /\ row.event = r.event /\ row.done = r.done
      /\ row.todo = r.todo /\ row.settled = r.settled /\ row.to = r.to /\ row.seen = r.seen
      /\ row.answer = answer
    BY <1>1, <1>2, <1>3 DEF DispatcherRows
<1>7. RowOK(row)'
    BY <1>1, <1>2, <1>4, <1>6 DEF RowOK, Underway, Settled, DoneTold, Told, NothingForgotten
<1>8. (received \cup givenUp \subseteq Deliveries)'
    BY <1>2, <1>5 DEF Post, NotifyInv
<1> QED BY <1>2, <1>3, <1>4, <1>7, <1>8, DispatcherStep, EventsKept, RowsKept DEF Post, NotifyInv

LEMMA WriteDeliveryStep ==
    ASSUME NotifyInv, NEW w \in Dispatchers, WriteDelivery(w) PROVE NotifyInv'
<1> DEFINE r == dispatcher[w]
<1>1. RowOK(r) /\ r \in DispatcherRows /\ r.at = "answered"
    BY DEF NotifyInv, WriteDelivery, DispatcherAt
<1>2. PICK status, attempt, settled, row :
          /\ status = NewStatus(w)
          /\ settled = (r.settled /\ status # "retry_wait")
          /\ attempt = IF status = "retry_wait" THEN r.seen + 1 ELSE r.seen
          /\ deliveries' = [deliveries EXCEPT ![r.to] =
                [status |-> status, due |-> status # "retry_wait", attempt |-> attempt]]
          /\ givenUp' = IF status = "dead" THEN givenUp \cup {r.to} ELSE givenUp
          /\ DispatcherIs(w, row)
          /\ row = [r EXCEPT !.at = "event", !.to = <<>>, !.seen = 0,
                  !.answer = "none", !.settled = settled]
    BY DEF WriteDelivery
<1>3. NothingForgotten
    BY <1>2 DEF WriteDelivery, NothingForgotten
<1>4. r.to \in Deliveries
    BY <1>1, UnderwayIsDelivery
<1>5. /\ status \in {"sent", "dead", "retry_wait"}
      /\ status = "sent" => r.answer = "sent"
      /\ status = "retry_wait" => ~(r.seen >= MaxAttempts)
  <2>1. r.answer \in {"sent", "dead", "later"}
    BY <1>1 DEF RowOK, Underway, DispatcherRows
  <2> QED BY <1>2, <2>1 DEF NewStatus
<1>6. r.seen \in 1..MaxAttempts
    BY <1>1 DEF RowOK, Underway
<1>7. attempt \in 1..MaxAttempts
    BY <1>2, <1>5, <1>6, NotifyAssumption
<1>8. status # "retry_wait" => r.to \in received' \cup givenUp'
  <2>1. status = "sent" => r.to \in received
    BY <1>1, <1>5 DEF RowOK, Underway
  <2> QED BY <1>2, <1>5, <2>1 DEF WriteDelivery
<1>9. /\ row \in DispatcherRows /\ row.at = "event" /\ row.event = r.event /\ row.done = r.done
      /\ row.todo = r.todo /\ (row.settled => r.settled /\ status # "retry_wait")
  <2>1. settled \in BOOLEAN /\ 0 \in 0..MaxAttempts /\ <<>> \in Deliveries \cup {<<>>}
    BY <1>2, NotifyAssumption
  <2> QED BY <1>1, <1>2, <2>1 DEF DispatcherRows
<1>10. RowOK(row)'
    BY <1>1, <1>3, <1>8, <1>9 DEF RowOK, Underway, Settled, DoneTold, Told, NothingForgotten
<1>11. [status |-> status, due |-> status # "retry_wait", attempt |-> attempt] \in DeliveryRows
    BY <1>5, <1>7 DEF DeliveryRows
<1>12. deliveries' \in [Deliveries -> DeliveryRows]
    BY <1>2, <1>11 DEF NotifyInv
<1>13. RowsTell'
  <2> SUFFICES ASSUME NEW d \in Deliveries, deliveries'[d].status \in {"sent", "dead"}
               PROVE  Told(d)'
    BY DEF RowsTell
  <2>1. CASE d = r.to
    BY <1>2, <1>4, <1>8, <2>1 DEF NotifyInv, Told
  <2>2. CASE d # r.to
    BY <1>2, <1>3, <2>2 DEF NotifyInv, RowsTell, Told, NothingForgotten
  <2> QED BY <2>1, <2>2
<1>14. (received \cup givenUp \subseteq Deliveries)'
    BY <1>2, <1>4 DEF WriteDelivery, NotifyInv
<1> QED BY <1>2, <1>3, <1>10, <1>12, <1>13, <1>14, DispatcherStep, EventsKept
       DEF WriteDelivery, NotifyInv

LEMMA EventServedStep ==
    ASSUME NotifyInv, NEW w \in Dispatchers, EventServed(w) PROVE NotifyInv'
<1> DEFINE r == dispatcher[w]
<1>1. RowOK(r) /\ r \in DispatcherRows /\ r.at = "event" /\ r.todo = {}
    BY DEF NotifyInv, EventServed, DispatcherAt
<1>2. PICK done, row :
          /\ done = IF r.settled THEN r.done \cup r.event ELSE r.done
          /\ DispatcherIs(w, row)
          /\ row = [r EXCEPT !.at = "batch", !.event = {}, !.settled = TRUE, !.done = done]
    BY DEF EventServed
<1>3. NothingForgotten
    BY DEF EventServed, NothingForgotten
<1>4. done \subseteq Events /\ \A e \in done : \A s \in Subscriptions : Told(<<e, s>>)
    BY <1>1, <1>2 DEF RowOK, Settled, DoneTold, DispatcherRows
<1>5. /\ row \in DispatcherRows /\ row.at = "batch" /\ row.event = {} /\ row.done = done
    BY <1>1, <1>2, <1>4 DEF DispatcherRows
<1>6. RowOK(row)
    BY <1>4, <1>5 DEF RowOK, Underway, Settled, DoneTold
<1>7. RowOK(row)'
    BY <1>3, <1>6, RowOKKept
<1> QED BY <1>2, <1>3, <1>7, DispatcherStep, EventsKept, RowsKept DEF EventServed, NotifyInv

LEMMA MarkDeliveredStep ==
    ASSUME NotifyInv, NEW w \in Dispatchers, MarkDelivered(w) PROVE NotifyInv'
<1>1. NothingForgotten /\ DispatcherIs(w, DispatcherIdle)
    BY DEF MarkDelivered, NothingForgotten
<1>2. RowOK(dispatcher[w])
    BY DEF NotifyInv
<1>3. events' \in [Events -> {"absent", "waiting", "delivered"}]
    BY DEF MarkDelivered, NotifyInv
<1>4. DeliveredIsTold'
    BY <1>2 DEF MarkDelivered, NotifyInv, DeliveredIsTold, RowOK, DoneTold, Told
<1> QED BY <1>1, <1>3, <1>4, IdleRowOK, DispatcherStep, RowsKept DEF MarkDelivered, NotifyInv

LEMMA NotifyTickStep ==
    ASSUME NotifyInv, NEW w \in Dispatchers, NotifyTick(w) PROVE NotifyInv'
<1>1. PICK batch, row :
          /\ batch \in SUBSET Undelivered
          /\ DispatcherIs(w, row)
          /\ row = [DispatcherIdle EXCEPT !.at = "batch", !.batch = batch]
    BY DEF NotifyTick
<1>2. NothingForgotten
    BY DEF NotifyTick, NothingForgotten
<1>3. /\ row \in DispatcherRows /\ row.at = "batch" /\ row.event = {} /\ row.done = {}
  <2>1. DispatcherIdle \in DispatcherRows /\ DispatcherIdle.event = {} /\ DispatcherIdle.done = {}
    BY IdleRowOK DEF RowOK, DispatcherIdle
  <2>2. batch \in SUBSET Events
    BY <1>1 DEF Undelivered
  <2> QED BY <1>1, <2>1, <2>2 DEF DispatcherRows
<1>4. RowOK(row)'
    BY <1>3 DEF RowOK, Underway, Settled, DoneTold
<1> QED BY <1>1, <1>2, <1>4, DispatcherStep, EventsKept, RowsKept DEF NotifyTick, NotifyInv

\* A step that leaves the dispatchers alone, and forgets no delivery.
LEMMA RowsStep ==
    ASSUME NotifyInv, NEW d \in Deliveries, RetryComesDue(d) \/ RetryDelivery(d) PROVE NotifyInv'
<1>1. PICK row : row.status \in {deliveries[d].status, "pending"} /\ row \in DeliveryRows
                 /\ deliveries' = [deliveries EXCEPT ![d] = row]
  <2>1. deliveries[d] \in DeliveryRows
    BY DEF NotifyInv
  <2>2. CASE RetryComesDue(d)
    <3>1. PICK row : row = [deliveries[d] EXCEPT !.due = TRUE]
        OBVIOUS
    <3>2. row \in DeliveryRows /\ row.status = deliveries[d].status
        BY <2>1, <3>1 DEF DeliveryRows
    <3> QED BY <2>2, <3>1, <3>2 DEF RetryComesDue, NotifyInv
  <2>3. CASE RetryDelivery(d)
    <3>1. PICK row : row = [deliveries[d] EXCEPT !.status = "pending", !.due = TRUE]
        OBVIOUS
    <3>2. row \in DeliveryRows /\ row.status = "pending"
        BY <2>1, <3>1 DEF DeliveryRows
    <3> QED BY <2>3, <3>1, <3>2 DEF RetryDelivery, NotifyInv
  <2> QED BY <2>2, <2>3
<1>2. NothingForgotten /\ dispatcher' = dispatcher /\ events' = events
      /\ received' = received /\ givenUp' = givenUp
    BY DEF RetryComesDue, RetryDelivery, NothingForgotten
<1>3. deliveries' \in [Deliveries -> DeliveryRows]
    BY <1>1 DEF NotifyInv
<1>4. RowsTell'
    BY <1>1, <1>2 DEF NotifyInv, RowsTell, Told
<1>5. \A v \in Dispatchers : RowOK(dispatcher[v])'
    BY <1>2 DEF NotifyInv, RowOK, Underway, Settled, DoneTold, Told
<1> QED BY <1>2, <1>3, <1>4, <1>5, EventsKept DEF NotifyInv

LEMMA NotifyStep == ASSUME NotifyInv, [NotifyNext]_notifyVars PROVE NotifyInv'
<1>1. CASE UNCHANGED notifyVars
    BY <1>1 DEF notifyVars, NotifyInv, RowsTell, RowOK, Underway, Settled, DoneTold, Told,
               DeliveredIsTold
<1>2. ASSUME NEW e \in Events, EnqueueEvent(e) PROVE NotifyInv'
  <2>1. events' \in [Events -> {"absent", "waiting", "delivered"}]
    BY <1>2 DEF EnqueueEvent, NotifyInv
  <2>2. \A f \in Events : events'[f] = "delivered" => events[f] = "delivered"
    BY <1>2 DEF EnqueueEvent, NotifyInv
  <2> QED BY <1>2, <2>1, <2>2 DEF EnqueueEvent, NotifyInv, RowsTell, RowOK, Underway, Settled,
                                  DoneTold, Told, DeliveredIsTold
<1>3. ASSUME NEW w \in Dispatchers, KillDispatcher(w) PROVE NotifyInv'
  <2>1. NothingForgotten /\ DispatcherIs(w, DispatcherIdle)
    BY <1>3 DEF KillDispatcher, NothingForgotten
  <2> QED BY <1>3, <2>1, IdleRowOK, DispatcherStep, EventsKept, RowsKept
             DEF KillDispatcher, NotifyInv
<1> QED BY <1>1, <1>2, <1>3, NotifyTickStep, DispatchEventStep, OpenDeliveryStep, PostStep,
          WriteDeliveryStep, EventServedStep, MarkDeliveredStep, RowsStep DEF NotifyNext

LEMMA NotifyStart == NotifyInit => NotifyInv
<1> SUFFICES ASSUME NotifyInit PROVE NotifyInv
  OBVIOUS
<1>1. NoDelivery \in DeliveryRows /\ NoDelivery.status = "absent"
  BY NotifyAssumption DEF NoDelivery, DeliveryRows
<1>2. RowOK(DispatcherIdle) /\ DispatcherIdle \in DispatcherRows
  BY IdleRowOK DEF RowOK
<1> QED BY <1>1, <1>2 DEF NotifyInit, NotifyInv, RowsTell, DeliveredIsTold

\* An event is marked delivered only when the endpoint of every subscription has got it or was
\* given up: for any number of events, subscriptions, dispatchers and attempts.
THEOREM DeliveredIsToldTheorem == NotifySpec => []DeliveredIsTold
<1>1. NotifyInit => NotifyInv
    BY NotifyStart
<1>2. NotifyInv /\ [NotifyNext]_notifyVars => NotifyInv'
    BY NotifyStep
<1>3. NotifyInv => DeliveredIsTold
    BY DEF NotifyInv
<1> QED BY <1>1, <1>2, <1>3, PTL DEF NotifySpec

(***************************** The start of collections *******************)

\* What a request activates is a version, and one version at most is active: a version that becomes
\* active supersedes all that it has found, and is refused when there are others.
EditRows == [at : {"idle", "insert", "supersede", "commit"},
             version : Versions \cup {NoVersion}, seen : SUBSET Versions]

InForce ==
    /\ definitions \in [Versions -> {"absent", "draft", "active", "superseded"}]
    /\ edits \in [Editors -> EditRows]
    /\ \A e \in Editors : edits[e].at # "idle" => edits[e].version \in Versions
    /\ \E v : ActiveVersions \subseteq {v}
    /\ \A v \in Versions : definitions[v] = "superseded" => \E u \in Versions : definitions[u] = "active"

LEMMA InForceStep == ASSUME InForce, [StartNext]_startVars PROVE InForce'
<1> USE DEF ActiveVersions
<1>1. CASE UNCHANGED <<definitions, edits>>
    BY <1>1 DEF InForce
<1>2. ASSUME NEW e \in Editors, NEW rec \in EditRows, EditGoes(e, rec), definitions' = definitions,
             rec.at # "idle" => rec.version \in Versions
      PROVE  InForce'
  <2>1. /\ edits' \in [Editors -> EditRows]
        /\ \A f \in Editors : edits'[f] = IF f = e THEN rec ELSE edits[f]
    BY <1>2 DEF EditGoes, InForce
  <2> QED BY <1>2, <2>1 DEF InForce
<1>3. ASSUME NEW e \in Editors, ReadMaxVersion(e) PROVE InForce'
  <2>1. PICK v \in Versions : \E rec : EditGoes(e, rec) /\ rec = [EditIdle EXCEPT !.at = "insert", !.version = v]
    BY <1>3 DEF ReadMaxVersion
  <2>2. PICK rec : EditGoes(e, rec) /\ rec = [EditIdle EXCEPT !.at = "insert", !.version = v]
    BY <2>1
  <2>3. rec \in EditRows /\ rec.version \in Versions
    BY <2>2 DEF EditIdle, EditRows
  <2> QED BY <1>2, <1>3, <2>2, <2>3 DEF ReadMaxVersion
<1>4. ASSUME NEW e \in Editors, NEW v \in Versions, ReadDraft(e, v) PROVE InForce'
  <2>1. PICK rec : EditGoes(e, rec) /\ rec = [EditIdle EXCEPT !.at = "supersede", !.version = v]
    BY <1>4 DEF ReadDraft
  <2>2. rec \in EditRows /\ rec.version \in Versions
    BY <2>1 DEF EditIdle, EditRows
  <2> QED BY <1>2, <1>4, <2>1, <2>2 DEF ReadDraft
<1>5. ASSUME NEW e \in Editors, FindActive(e) PROVE InForce'
  <2>1. PICK rec : EditGoes(e, rec) /\ rec = [edits[e] EXCEPT !.at = "commit", !.seen = ActiveVersions]
    BY <1>5 DEF FindActive
  <2>2. edits[e] \in EditRows /\ edits[e].version \in Versions
    BY <1>5 DEF FindActive, InForce
  <2>3. rec \in EditRows /\ rec.version \in Versions
    BY <2>1, <2>2 DEF EditRows
  <2> QED BY <1>2, <1>5, <2>1, <2>3 DEF FindActive
<1>6. ASSUME NEW e \in Editors, EditGoes(e, EditIdle), edits[e].at # "idle",
             definitions' \in [Versions -> {"absent", "draft", "active", "superseded"}],
             \E v : ActiveVersions' \subseteq {v},
             \A v \in Versions : definitions'[v] = "superseded" => \E u \in Versions : definitions'[u] = "active"
      PROVE  InForce'
  <2>1. EditIdle \in EditRows /\ EditIdle.at = "idle"
    BY DEF EditIdle, EditRows
  <2>2. /\ edits' \in [Editors -> EditRows]
        /\ \A f \in Editors : edits'[f] = IF f = e THEN EditIdle ELSE edits[f]
    BY <1>6, <2>1 DEF EditGoes, InForce
  <2> QED BY <1>6, <2>1, <2>2 DEF InForce
<1>7. ASSUME NEW e \in Editors, InsertDraft(e) PROVE InForce'
  <2>1. definitions' \in [Versions -> {"absent", "draft", "active", "superseded"}]
    BY <1>7 DEF InsertDraft, InForce
  <2>2. \A v \in Versions : \A status \in {"active", "superseded"} :
            definitions'[v] = status <=> definitions[v] = status
    BY <1>7 DEF InsertDraft, InForce
  <2>3. ActiveVersions' = ActiveVersions
    BY <2>2
  <2> QED BY <1>6, <1>7, <2>1, <2>2, <2>3 DEF InsertDraft, InForce
<1>8. ASSUME NEW e \in Editors, Activate(e), ~Conflict(e) PROVE InForce'
  <2>1. definitions' \in [Versions -> {"absent", "draft", "active", "superseded"}]
    BY <1>8 DEF Activate, InForce
  <2>2. \A v \in Versions : definitions'[v] = "active" => v = edits[e].version
    BY <1>8 DEF Activate, Conflict
  <2>3. edits[e].version \in Versions /\ edits[e].at # "idle"
    BY <1>8 DEF Activate, InForce
  <2>4. definitions'[edits[e].version] = "active"
    BY <1>8, <2>3 DEF Activate
  <2> QED BY <1>6, <1>8, <2>1, <2>2, <2>3, <2>4 DEF Activate
<1>9. ASSUME NEW e \in Editors, Activate(e), Conflict(e) PROVE InForce'
  <2>1. definitions' = definitions /\ edits[e].at # "idle" /\ EditGoes(e, EditIdle)
    BY <1>9 DEF Activate
  <2> QED BY <1>6, <2>1 DEF InForce
<1> QED BY <1>1, <1>3, <1>4, <1>5, <1>7, <1>8, <1>9 DEF StartNext, startVars,
          AskApproval, Decide, BuildSnapshot, FindEquivalent, CreateRun, Replay, RunEnds

\* However activations interleave, one version of a definition at most is active, and one is as soon
\* as another was superseded: for any number of versions and requests.
THEOREM OneDefinitionInForceTheorem == StartSpec => []OneDefinitionInForce
<1>1. StartInit => InForce
  <2> SUFFICES ASSUME StartInit PROVE InForce
    OBVIOUS
  <2>1. EditIdle \in EditRows
    BY DEF EditIdle, EditRows
  <2> QED BY <2>1 DEF StartInit, InForce, ActiveVersions, EditIdle
<1>2. InForce /\ [StartNext]_startVars => InForce'
    BY InForceStep
<1>3. InForce => OneDefinitionInForce
  <2> SUFFICES ASSUME InForce PROVE OneDefinitionInForce
    OBVIOUS
  <2>1. PICK v : ActiveVersions \subseteq {v}
    BY DEF InForce
  <2>2. ActiveVersions = {} \/ ActiveVersions = {v}
    BY <2>1
  <2>3. Cardinality(ActiveVersions) <= 1
    <3>1. Cardinality({}) = 0 /\ Cardinality({v}) = 1
      BY FS_EmptySet, FS_Singleton
    <3> QED BY <2>2, <3>1
  <2>4. (\E u \in Versions : definitions[u] = "superseded") => ActiveVersions # {}
    <3>1. \A v1 \in Versions : definitions[v1] = "superseded" => \E u \in Versions : definitions[u] = "active"
      BY DEF InForce
    <3> QED BY <3>1 DEF ActiveVersions
  <2> QED BY <2>3, <2>4 DEF OneDefinitionInForce
<1> QED BY <1>1, <1>2, <1>3, PTL DEF StartSpec

\* The runs are a sequence: what CreateRun appends to.
RunRows == [call : StartCalls, version : Versions \cup {NoVersion}, active : BOOLEAN]
StartPlaces == {"called", "asked", "approved", "refused", "find", "create", "answered"}
StartCallRows ==
    [at : StartPlaces, shown : Versions \cup {NoVersion}, found : Versions \cup {NoVersion}]

CallInv == starts \in [StartCalls -> StartCallRows] /\ runs \in Seq(RunRows)

LEMMA CallStep == ASSUME CallInv, [StartNext]_startVars PROVE CallInv'
<1> USE DEF CallInv, StartCallRows, StartPlaces
<1>1. ASSUME starts' = starts, runs' = runs PROVE CallInv'
    BY <1>1
<1>2. ASSUME NEW c \in StartCalls, NEW rec \in StartCallRows, StartGoes(c, rec), runs' = runs
      PROVE  CallInv'
    BY <1>2 DEF StartGoes
<1>3. ASSUME NEW c \in StartCalls, CreateRun(c), ~KeyIsTaken(c) PROVE CallInv'
  <2> DEFINE row == [call |-> c, version |-> starts[c].found, active |-> TRUE]
  <2>1. runs' = Append(runs, row) /\ row \in RunRows
    BY <1>3 DEF CreateRun, RunRows
  <2> HIDE DEF row
  <2>2. starts' \in [StartCalls -> StartCallRows]
    BY <1>3 DEF CreateRun, StartGoes
  <2> QED BY <2>1, <2>2
<1>4. ASSUME RunEnds PROVE CallInv'
  <2>1. PICK i \in DOMAIN runs : runs' = [runs EXCEPT ![i].active = FALSE]
    BY <1>4 DEF RunEnds
  <2>2. runs[i] \in RunRows
    OBVIOUS
  <2>3. [runs[i] EXCEPT !.active = FALSE] \in RunRows
    BY <2>2 DEF RunRows
  <2>4. runs' \in Seq(RunRows)
    BY <2>1, <2>3
  <2> QED BY <1>4, <2>4 DEF RunEnds
<1>5. ActiveVersion \in Versions \cup {NoVersion}
    BY DEF ActiveVersion, ActiveVersions
<1>6. ASSUME NEW c \in StartCalls,
             \/ AskApproval(c) \/ Decide(c) \/ BuildSnapshot(c) \/ FindEquivalent(c)
             \/ (CreateRun(c) /\ KeyIsTaken(c)) \/ Replay(c)
      PROVE  CallInv'
  <2>1. \E rec \in StartCallRows : StartGoes(c, rec)
    BY <1>5, <1>6 DEF AskApproval, Decide, BuildSnapshot, FindEquivalent, CreateRun, Replay, StartIdle
  <2>2. runs' = runs
    BY <1>6 DEF AskApproval, Decide, BuildSnapshot, FindEquivalent, CreateRun, Replay
  <2> QED BY <1>2, <2>1, <2>2
<1> QED BY <1>1, <1>3, <1>4, <1>6
       DEF StartNext, startVars, ReadMaxVersion, InsertDraft, ReadDraft, FindActive, Activate

(***************************** The calls of a tool ************************)

\* The calls that hold a permit; a handler that runs belongs to one of them.
Holders == {c \in ToolCalls : Holds(c)}

ToolInv ==
    /\ ToolTypeOK
    /\ \A c \in ToolCalls : calls[c].handler = "running" => calls[c].at \in {"running", "stopping"}
    /\ \A c \in ToolCalls : calls[c].at = "sleeping" => calls[c].attempt < MaxRetries
    /\ IsFiniteSet(Holders)
    /\ Cardinality(Holders) <= MaxConcurrency

\* A call goes on to a place where it holds a permit only if it held one before, and its handler runs
\* only while the call waits for it.
GoesOn(c, rec) ==
    /\ rec \in CallRecords
    /\ rec.at \in {"attempt", "running", "stopping", "sleeping"} => Holds(c)
    /\ rec.handler = "running" => rec.at \in {"running", "stopping"}
    /\ rec.at = "sleeping" => rec.attempt < MaxRetries

LEMMA CallGoesOn ==
    ASSUME ToolInv, NEW c \in ToolCalls, NEW rec, GoesOn(c, rec), CallGoes(c, rec),
           cancelSet' \subseteq ToolCalls, cached' \in BOOLEAN
    PROVE  ToolInv'
<1>1. /\ calls' \in [ToolCalls -> CallRecords]
      /\ calls'[c] = rec
      /\ \A d \in ToolCalls : d # c => calls'[d] = calls[d]
    BY DEF ToolInv, ToolTypeOK, CallGoes, GoesOn
<1>2. Holders' \subseteq Holders
    BY <1>1 DEF Holders, Holds, GoesOn
<1>3. IsFiniteSet(Holders') /\ Cardinality(Holders') <= Cardinality(Holders)
    BY <1>2, FS_Subset DEF ToolInv
<1>4. Cardinality(Holders') <= MaxConcurrency
    BY <1>3, FS_CardinalityType, ToolAssumption DEF ToolInv
<1> QED BY <1>1, <1>3, <1>4 DEF ToolInv, ToolTypeOK, GoesOn

LEMMA AcquireStep == ASSUME ToolInv, NEW c \in ToolCalls, Acquire(c) PROVE ToolInv'
<1>1. /\ calls' \in [ToolCalls -> CallRecords]
      /\ calls'[c].at = "attempt" /\ calls'[c].handler = calls[c].handler
      /\ \A d \in ToolCalls : d # c => calls'[d] = calls[d]
    BY DEF ToolInv, ToolTypeOK, Acquire, CallGoes, CallRecords
<1>2. Holders' = Holders \cup {c} /\ c \notin Holders
    BY <1>1 DEF Holders, Holds, Acquire
<1>3. Cardinality(Holders) \in Nat /\ Cardinality(Holders) < MaxConcurrency
    BY FS_CardinalityType, ToolAssumption DEF ToolInv, Acquire, Permits, Holders
<1>4. IsFiniteSet(Holders') /\ Cardinality(Holders') <= MaxConcurrency
  <2>1. IsFiniteSet(Holders \cup {c}) /\ Cardinality(Holders \cup {c}) = Cardinality(Holders) + 1
    BY <1>2, FS_AddElement DEF ToolInv
  <2> QED BY <1>2, <1>3, <2>1, ToolAssumption
<1>5. calls[c].handler # "running"
    BY DEF ToolInv, Acquire
<1> QED BY <1>1, <1>4, <1>5 DEF ToolInv, ToolTypeOK, Acquire

\* What a call that ends, backs off or is stopped becomes.
LEMMA EndedGoesOn ==
    ASSUME ToolInv, NEW c \in ToolCalls, NEW outcome \in Outcomes, calls[c].handler # "running"
    PROVE  GoesOn(c, Ended(c, outcome))
BY ZenonT(40) DEF ToolInv, ToolTypeOK, GoesOn, Ended, CallRecords, Outcomes

LEMMA RetriedGoesOn ==
    ASSUME ToolInv, NEW c \in ToolCalls, NEW outcome \in Outcomes, Holds(c), calls[c].handler # "running"
    PROVE  GoesOn(c, Retried(c, outcome))
<1>1. ASSUME calls[c].attempt < MaxRetries
      PROVE  GoesOn(c, [calls[c] EXCEPT !.at = "sleeping", !.handler = "none", !.why = outcome])
    BY <1>1, ZenonT(40) DEF ToolInv, ToolTypeOK, GoesOn, CallRecords, Outcomes
<1> QED BY <1>1, EndedGoesOn DEF Retried

LEMMA StopGoesOn ==
    ASSUME ToolInv, NEW c \in ToolCalls, NEW why \in Outcomes, calls[c].at = "running"
    PROVE  GoesOn(c, [calls[c] EXCEPT !.at = "stopping", !.why = why])
BY DEF ToolInv, ToolTypeOK, GoesOn, Holds, CallRecords, Outcomes

\* Every step of a call but the acquisition of its permit.
LEMMA CallGoesOnAlways ==
    ASSUME ToolInv, NEW c \in ToolCalls,
           \/ Invoke(c) \/ StartAttempt(c) \/ HandlerEnds(c) \/ SeeCancel(c) \/ TimeOut(c)
           \/ Abandon(c) \/ SeeEnd(c) \/ Stopped(c) \/ WakeUp(c)
    PROVE  \E rec : GoesOn(c, rec) /\ CallGoes(c, rec)
<1> USE DEF ToolInv, ToolTypeOK
<1>1. {"ok", "from_cache", "failed", "timeout", "cancelled", "abandoned"} \subseteq Outcomes
    BY DEF Outcomes
<1>2. CASE Invoke(c)
  <2>1. calls[c].handler # "running"
    BY <1>2 DEF Invoke
  <2>2. GoesOn(c, [calls[c] EXCEPT !.at = "waiting"])
    BY <2>1 DEF GoesOn, CallRecords
  <2> QED BY <1>1, <1>2, <2>1, <2>2, EndedGoesOn DEF Invoke
<1>3. CASE StartAttempt(c)
  <2>1. calls[c].handler # "running" /\ Holds(c)
    BY <1>3 DEF StartAttempt, Holds
  <2>2. GoesOn(c, [calls[c] EXCEPT !.at = "running", !.handler = "running"])
    BY <2>1 DEF GoesOn, CallRecords
  <2> QED BY <1>1, <1>3, <2>1, <2>2, EndedGoesOn DEF StartAttempt
<1>4. CASE HandlerEnds(c)
  <2>1. PICK end \in {"returned", "raised"} : CallGoes(c, [calls[c] EXCEPT !.handler = end])
    BY <1>4 DEF HandlerEnds
  <2>2. GoesOn(c, [calls[c] EXCEPT !.handler = end])
    BY <1>4 DEF HandlerEnds, GoesOn, CallRecords, Holds
  <2> QED BY <2>1, <2>2
<1>5. ASSUME NEW why \in Outcomes, Stop(c, why) PROVE \E rec : GoesOn(c, rec) /\ CallGoes(c, rec)
    BY <1>5, StopGoesOn DEF Stop
<1>6. CASE SeeCancel(c) \/ TimeOut(c)
    BY <1>1, <1>5, <1>6 DEF SeeCancel, TimeOut
<1>7. CASE Abandon(c)
  <2>1. CASE Stop(c, "abandoned")
    BY <1>1, <1>5, <2>1
  <2>2. CASE calls[c].at \in {"waiting", "sleeping"} /\ CallGoes(c, Ended(c, "abandoned"))
    BY <1>1, <2>2, EndedGoesOn
  <2> QED BY <1>7, <2>1, <2>2 DEF Abandon
<1>8. CASE SeeEnd(c)
    BY <1>1, <1>8, EndedGoesOn, RetriedGoesOn DEF SeeEnd, Holds
<1>9. CASE Stopped(c)
  <2>1. calls[c].why \in Outcomes /\ Holds(c)
    BY <1>9 DEF Stopped, CallRecords, Holds
  <2> QED BY <1>1, <1>9, <2>1, EndedGoesOn, RetriedGoesOn DEF Stopped
<1>10. CASE WakeUp(c)
  <2>1. calls[c].handler # "running" /\ Holds(c)
    BY <1>10 DEF WakeUp, Holds
  <2>2. calls[c].attempt + 1 \in 0..MaxRetries
    BY <1>10, ToolAssumption DEF WakeUp, CallRecords
  <2>3. GoesOn(c, [calls[c] EXCEPT !.at = "attempt", !.attempt = @ + 1, !.why = "none"])
    BY <2>1, <2>2, ZenonT(40) DEF GoesOn, CallRecords, Outcomes
  <2> QED BY <1>1, <1>10, <2>1, <2>3, EndedGoesOn DEF WakeUp
<1> QED BY <1>2, <1>3, <1>4, <1>6, <1>7, <1>8, <1>9, <1>10

LEMMA ToolStep == ASSUME ToolInv, [ToolNext]_toolVars PROVE ToolInv'
<1>1. CASE calls' = calls /\ cancelSet' \subseteq ToolCalls /\ cached' \in BOOLEAN
    BY <1>1 DEF ToolInv, ToolTypeOK, Holders, Holds
<1>2. ASSUME NEW c \in ToolCalls, ~Acquire(c), ~CancelRun(c),
             \/ Invoke(c) \/ StartAttempt(c) \/ HandlerEnds(c) \/ SeeCancel(c) \/ TimeOut(c)
             \/ Abandon(c) \/ SeeEnd(c) \/ Stopped(c) \/ WakeUp(c)
      PROVE  ToolInv'
  <2>1. cancelSet' = cancelSet /\ cached' \in BOOLEAN
    BY <1>2, ToolAssumption DEF ToolInv, ToolTypeOK, Invoke, StartAttempt, HandlerEnds, SeeCancel,
                                TimeOut, Abandon, SeeEnd, Stopped, WakeUp
  <2> QED BY <1>2, <2>1, CallGoesOnAlways, CallGoesOn DEF ToolInv, ToolTypeOK
<1>3. ASSUME NEW c \in ToolCalls, CancelRun(c) PROVE ToolInv'
    BY <1>1, <1>3 DEF CancelRun, ToolInv, ToolTypeOK
<1>4. CASE UNCHANGED toolVars \/ CacheExpires
    BY <1>1, <1>4 DEF toolVars, CacheExpires, ToolInv, ToolTypeOK
<1> QED BY <1>2, <1>3, <1>4, AcquireStep DEF ToolNext

LEMMA ToolStart == ToolInit => ToolInv
<1> SUFFICES ASSUME ToolInit PROVE ToolInv
  OBVIOUS
<1>1. ToolTypeOK /\ \A c \in ToolCalls : calls[c].at = "called" /\ calls[c].handler = "none"
  <2>1. 0 \in 0..MaxRetries /\ FALSE \in BOOLEAN
      BY ToolAssumption
  <2>2. PICK rec : rec = [at |-> "called", attempt |-> 0, handler |-> "none",
                          why |-> "none", outcome |-> "none"]
      OBVIOUS
  <2>3. rec \in CallRecords /\ rec.at = "called" /\ rec.handler = "none"
      BY <2>1, <2>2 DEF CallRecords, Outcomes
  <2>4. calls = [c \in ToolCalls |-> rec] /\ cancelSet = {} /\ cached = FALSE
      BY <2>2 DEF ToolInit
  <2> QED BY <2>1, <2>3, <2>4 DEF ToolTypeOK
<1>2. Holders = {}
  BY <1>1 DEF Holders, Holds
<1> QED BY <1>1, <1>2, FS_EmptySet, ToolAssumption DEF ToolInv

\* However a call ends, no handler of it goes on, and no more handlers run than there are permits:
\* for any number of calls, permits and retries.
THEOREM HandlersAreContainedTheorem == ToolSpec => []HandlersAreContained
<1>1. ToolInit => ToolInv
    BY ToolStart
<1>2. ToolInv /\ [ToolNext]_toolVars => ToolInv'
    BY ToolStep
<1>3. ToolInv => HandlersAreContained
  <2> SUFFICES ASSUME ToolInv PROVE HandlersAreContained
    OBVIOUS
  <2> DEFINE R == {c \in ToolCalls : calls[c].handler = "running"}
  <2>1. R \subseteq Holders
    BY DEF ToolInv, Holders, Holds
  <2>2. IsFiniteSet(R) /\ Cardinality(R) <= Cardinality(Holders)
    BY <2>1, FS_Subset DEF ToolInv
  <2>3. Cardinality(R) \in Nat /\ Cardinality(Holders) \in Nat
    BY <2>2, FS_CardinalityType DEF ToolInv
  <2> HIDE DEF R
  <2>4. Cardinality(R) <= MaxConcurrency
    BY <2>2, <2>3, ToolAssumption DEF ToolInv
  <2> USE DEF R
  <2> QED BY <2>4 DEF ToolInv, HandlersAreContained
<1> QED BY <1>1, <1>2, <1>3, PTL DEF ToolSpec

(***************************** The logins *********************************)

Counted == {l \in Logins : logins[l].listed /\ Active(l)}
LoginInv == LoginTypeOK /\ \E l : Counted \subseteq {l}

\* A session that is listed and active was so before.
Stays(l, rec) ==
    /\ rec \in LoginRecords
    /\ rec.listed /\ rec.status \in ActiveStatuses => logins[l].listed /\ Active(l)

LEMMA LoginStays ==
    ASSUME LoginInv, NEW l \in Logins, NEW rec, Stays(l, rec), LoginGoes(l, rec),
           credential' \in {"missing", "active", "invalid"}
    PROVE  LoginInv'
<1>1. /\ logins' \in [Logins -> LoginRecords]
      /\ logins'[l] = rec
      /\ \A k \in Logins : k # l => logins'[k] = logins[k]
    BY DEF LoginInv, LoginTypeOK, LoginGoes, Stays
<1>2. Counted' \subseteq Counted
    BY <1>1 DEF Counted, Active, Stays
<1> QED BY <1>1, <1>2 DEF LoginInv, LoginTypeOK

LEMMA CleanStays ==
    ASSUME NEW rec \in LoginRecords, NEW cleaned \in CleanedUp(rec)
    PROVE  /\ cleaned \in LoginRecords
           /\ cleaned.listed = rec.listed /\ cleaned.status = rec.status
<1> DEFINE Kept(q, a) == (IF q THEN {"qr"} ELSE {}) \cup (IF a THEN {"auth"} ELSE {})
<1>1. \A q, a : Kept(q, a) \in SUBSET {"qr", "auth"}
    OBVIOUS
<1>2. PICK q \in {FALSE, rec.qr}, a \in {FALSE, rec.auth} :
         cleaned = [rec EXCEPT !.qr = q, !.auth = a, !.kept = Kept(q, a)]
    BY DEF CleanedUp
<1>3. PICK kept \in SUBSET {"qr", "auth"} : cleaned = [rec EXCEPT !.qr = q, !.auth = a, !.kept = kept]
    BY <1>1, <1>2
<1> HIDE DEF Kept
<1>4. q \in BOOLEAN /\ a \in BOOLEAN
    BY DEF LoginRecords
<1>5. cleaned \in LoginRecords
    BY <1>3, <1>4, ZenonT(40) DEF LoginRecords
<1>6. cleaned.listed = rec.listed /\ cleaned.status = rec.status
    BY <1>3, ZenonT(40) DEF LoginRecords
<1> QED BY <1>5, <1>6

LEMMA ReadQrStays ==
    ASSUME NEW rec \in LoginRecords
    PROVE  /\ ReadQr(rec) \in LoginRecords
           /\ ReadQr(rec).listed = rec.listed
           /\ ReadQr(rec).status \in ActiveStatuses => rec.status \in ActiveStatuses
BY DEF ReadQr, LoginRecords, ActiveStatuses

\* Every step of a session but its start.
LEMMA SessionStays ==
    ASSUME LoginInv, NEW l \in Logins,
           \/ Spawned(l) \/ SpawnFails(l) \/ Get(l) \/ Cancel(l) \/ CancelEnds(l)
           \/ ShowQr(l) \/ ExportCookies(l) \/ ChildExits(l)
           \/ TimePasses(l) \/ Watch(l) \/ Saved(l) \/ SaveFails(l) \/ WatcherEnds(l)
    PROVE  \E rec : Stays(l, rec) /\ LoginGoes(l, rec)
<1>1. logins[l] \in LoginRecords
    BY DEF LoginInv, LoginTypeOK
<1> USE DEF Stays, Active, ActiveStatuses, FinalStatuses
<1>2. ASSUME NEW rec, Stays(l, rec), LoginCleans(l, rec)
      PROVE  \E new : Stays(l, new) /\ LoginGoes(l, new)
    BY <1>2, CleanStays DEF LoginCleans
<1>3. CASE Spawned(l)
    BY <1>1, <1>3, ZenonT(40) DEF Spawned, LoginRecords
<1>4. CASE SpawnFails(l)
    BY <1>1, <1>4 DEF SpawnFails, LoginRecords
<1>5. CASE Get(l)
    BY <1>1, <1>5, ReadQrStays DEF Get
<1>6. CASE Cancel(l)
  <2>1. PICK status \in {"cancelled", logins[l].status} :
            LET rec == [logins[l] EXCEPT !.status = status] IN
            \/ LoginGoes(l, [rec EXCEPT !.cancelling = TRUE])
            \/ logins[l].listed /\ LoginCleans(l, [rec EXCEPT !.listed = FALSE])
    BY <1>6 DEF Cancel
  <2>2. PICK rec : rec = [logins[l] EXCEPT !.status = status]
    OBVIOUS
  <2>3. rec \in LoginRecords /\ rec.listed = logins[l].listed /\ rec.status = status
    BY <1>1, <2>2 DEF LoginRecords
  <2>4. Stays(l, [rec EXCEPT !.cancelling = TRUE])
    BY <2>3 DEF LoginRecords
  <2>5. Stays(l, [rec EXCEPT !.listed = FALSE])
    BY <2>3 DEF LoginRecords
  <2> QED BY <1>2, <2>1, <2>2, <2>4, <2>5
<1>7. CASE CancelEnds(l)
  <2>1. PICK rec : rec = [logins[l] EXCEPT !.cancelling = FALSE, !.listed = FALSE]
    OBVIOUS
  <2>2. Stays(l, rec)
    BY <1>1, <2>1 DEF LoginRecords
  <2>3. LoginCleans(l, rec)
    BY <1>7, <2>1 DEF CancelEnds
  <2> QED BY <1>2, <2>2, <2>3
<1>8. CASE ShowQr(l)
    BY <1>1, <1>8 DEF ShowQr, LoginRecords
<1>9. CASE ExportCookies(l)
    BY <1>1, <1>9 DEF ExportCookies, LoginRecords
<1>10. CASE ChildExits(l)
    BY <1>1, <1>10 DEF ChildExits, LoginRecords
<1>11. CASE TimePasses(l)
    BY <1>1, <1>11 DEF TimePasses, LoginRecords
<1>12. CASE Watch(l)
  <2>1. PICK rec : rec = ReadQr(logins[l])
    OBVIOUS
  <2>2. /\ rec \in LoginRecords /\ rec.listed = logins[l].listed
        /\ rec.status \in ActiveStatuses => logins[l].status \in ActiveStatuses
    BY <1>1, <2>1, ReadQrStays
  <2>3. Stays(l, [logins[l] EXCEPT !.watcher = "saving"])
    BY <1>1 DEF LoginRecords
  <2>4. Stays(l, [rec EXCEPT !.status = "expired", !.watcher = "expiring"])
    BY <2>2 DEF LoginRecords
  <2>5. Stays(l, [rec EXCEPT !.status = "failed", !.watcher = "done"])
    <3>1. PICK final : final = [rec EXCEPT !.status = "failed", !.watcher = "done"]
        OBVIOUS
    <3>2. final \in LoginRecords /\ final.status = "failed"
        BY <2>2, <3>1 DEF LoginRecords
    <3> QED BY <3>1, <3>2
  <2>6. Stays(l, rec)
    BY <2>2
  <2> QED BY <1>2, <1>12, <2>1, <2>3, <2>4, <2>5, <2>6 DEF Watch
<1>13. CASE Saved(l)
  <2>1. PICK rec : rec = [logins[l] EXCEPT !.status = "authenticated", !.watcher = "ending"]
    OBVIOUS
  <2>2. Stays(l, rec)
    BY <1>1, <2>1, ZenonT(40) DEF LoginRecords
  <2>3. LoginCleans(l, rec)
    BY <1>13, <2>1 DEF Saved
  <2> QED BY <1>2, <2>2, <2>3
<1>14. CASE SaveFails(l)
  <2>1. PICK rec : rec = [logins[l] EXCEPT !.status = "failed", !.watcher = "ending"]
    OBVIOUS
  <2>2. Stays(l, rec)
    BY <1>1, <2>1, ZenonT(40) DEF LoginRecords
  <2>3. LoginCleans(l, rec)
    BY <1>14, <2>1 DEF SaveFails
  <2> QED BY <1>2, <2>2, <2>3
<1>15. CASE WatcherEnds(l)
  <2>1. PICK rec : rec = [logins[l] EXCEPT !.watcher = "done"]
    OBVIOUS
  <2>2. Stays(l, rec)
    BY <1>1, <2>1 DEF LoginRecords
  <2>3. LoginCleans(l, rec) \/ LoginGoes(l, rec)
    BY <1>15, <2>1 DEF WatcherEnds
  <2> QED BY <1>2, <2>2, <2>3
<1> QED BY <1>3, <1>4, <1>5, <1>6, <1>7, <1>8, <1>9, <1>10, <1>11, <1>12, <1>13, <1>14, <1>15

LEMMA LoginStep == ASSUME LoginInv, [LoginNext]_loginVars PROVE LoginInv'
<1>1. CASE logins' = logins /\ credential' \in {"missing", "active", "invalid"}
    BY <1>1 DEF LoginInv, LoginTypeOK, Counted, Active
<1>2. ASSUME NEW l \in Logins, StartLogin(l) PROVE LoginInv'
  <2>1. Counted = {}
    BY <1>2 DEF StartLogin, Counted
  <2>2. PICK rec : /\ LoginGoes(l, rec)
                   /\ rec = [NotStarted EXCEPT !.status = "starting", !.listed = TRUE,
                                               !.child = "spawning"]
    BY <1>2 DEF StartLogin
  <2>3. rec \in LoginRecords
    BY <2>2 DEF NotStarted, LoginRecords, ActiveStatuses
  <2>4. /\ logins' \in [Logins -> LoginRecords]
        /\ \A k \in Logins : k # l => logins'[k] = logins[k]
    BY <2>2, <2>3 DEF LoginInv, LoginTypeOK, LoginGoes
  <2>5. Counted' \subseteq {l}
    BY <2>1, <2>4 DEF Counted, Active
  <2> QED BY <1>2, <2>4, <2>5 DEF LoginInv, LoginTypeOK, StartLogin
<1>3. ASSUME NEW l \in Logins,
             \/ Spawned(l) \/ SpawnFails(l) \/ Get(l) \/ Cancel(l) \/ CancelEnds(l)
             \/ ShowQr(l) \/ ExportCookies(l) \/ ChildExits(l)
             \/ TimePasses(l) \/ Watch(l) \/ Saved(l) \/ SaveFails(l) \/ WatcherEnds(l)
      PROVE  LoginInv'
  <2>1. credential' \in {credential, "active"}
    BY <1>3 DEF Spawned, SpawnFails, Get, Cancel, CancelEnds, ShowQr, ExportCookies, ChildExits,
                TimePasses, Watch, Saved, SaveFails, WatcherEnds
  <2> QED BY <1>3, <2>1, SessionStays, LoginStays DEF LoginInv, LoginTypeOK
<1>4. CASE UNCHANGED loginVars \/ Revoke \/ MarkFailed
    BY <1>1, <1>4 DEF loginVars, Revoke, MarkFailed, LoginInv, LoginTypeOK
<1> QED BY <1>2, <1>3, <1>4 DEF LoginNext

LEMMA LoginStart == LoginInit => LoginInv
<1> SUFFICES ASSUME LoginInit PROVE LoginInv
  OBVIOUS
<1>1. NotStarted \in LoginRecords
  BY DEF NotStarted, LoginRecords
<1>2. LoginTypeOK
  BY <1>1 DEF LoginInit, LoginTypeOK
<1>3. Counted = {}
  BY DEF LoginInit, Counted, NotStarted
<1> QED BY <1>2, <1>3 DEF LoginInv

\* One session of a platform at most is active, however many are started, cancelled, watched to
\* their end and looked at long after it.
THEOREM OneLoginAtATimeTheorem == LoginSpec => []OneLoginAtATime
<1>1. LoginInit => LoginInv
    BY LoginStart
<1>2. LoginInv /\ [LoginNext]_loginVars => LoginInv'
    BY LoginStep
<1>3. LoginInv => OneLoginAtATime
  <2> SUFFICES ASSUME NEW l, Counted \subseteq {l} PROVE Cardinality(Counted) <= 1
    BY DEF LoginInv, Counted, OneLoginAtATime
  <2>1. Counted = {} \/ Counted = {l}
    OBVIOUS
  <2> QED BY <2>1, FS_EmptySet, FS_Singleton
<1> QED BY <1>1, <1>2, <1>3, PTL DEF LoginSpec

(***************************** The executions of a monitor ****************)

\* The store has of platform p what was published from the instant since[p] on and before `until'.
Covered(since, store, p, until) == \A t \in Instants : since[p] <= t /\ t < until => t \in store[p]

SlotRecords == [at : SlotPlaces, exec : Instants, now : Instants, from : Instants,
                todo : SUBSET Platforms, failed : SUBSET Platforms, lost : BOOLEAN]

\* An open window begins where the store has no gap, and a stored one leaves none.
SlotSound(since, store, row) ==
    LET p == CHOOSE q \in row.todo : TRUE IN
    /\ row \in SlotRecords
    /\ row.at \in {"crawling", "crawled", "persisted", "broken"} => row.todo # {}
    /\ row.at \in {"crawling", "crawled"} => Covered(since, store, p, row.from)
    /\ row.at = "persisted" => Covered(since, store, p, row.now)

MonitorInv(since) ==
    /\ clock \in Instants
    /\ cursors \in [Platforms -> Instants \cup {NoCursor}]
    /\ DOMAIN stored = Platforms
    /\ slots \in [Slots -> SlotRecords]
    /\ \A s \in Slots : slots[s].now <= clock /\ SlotSound(since, stored, slots[s])
    /\ \A p \in Platforms : Covered(since, stored, p, cursors[p])

\* As long as a platform has no cursor, the window it would get reaches back to since[p].
Reached(since) == \A p \in Platforms : cursors[p] = NoCursor => clock - Lookback <= since[p]

StoreGrows == DOMAIN stored' = DOMAIN stored /\ \A p \in Platforms : stored[p] \subseteq stored'[p]

LEMMA SoundKept ==
    ASSUME NEW since, StoreGrows, NEW row, SlotSound(since, stored, row)
    PROVE  SlotSound(since, stored', row)
<1> DEFINE p == CHOOSE q \in row.todo : TRUE
<1>1. row.todo # {} => p \in Platforms
    BY DEF SlotSound, SlotRecords
<1>2. \A u : Covered(since, stored, p, u) /\ p \in Platforms => Covered(since, stored', p, u)
    BY DEF Covered, StoreGrows
<1> HIDE DEF p
<1>3. row.at \in {"crawling", "crawled", "persisted"} => p \in Platforms
    BY <1>1 DEF SlotSound
<1> QED BY <1>2, <1>3 DEF SlotSound, p

\* The step of one slot: its new row is sound, and so is a cursor it writes.
LEMMA SlotMoves ==
    ASSUME NEW since, MonitorInv(since), NEW s \in Slots, NEW row,
           slots' = [slots EXCEPT ![s] = row], SlotSound(since, stored', row), row.now <= clock,
           clock' = clock, StoreGrows,
           \/ cursors' = cursors
           \/ \E p \in Platforms, t \in Instants : /\ cursors' = [cursors EXCEPT ![p] = t]
                                                   /\ Covered(since, stored', p, t)
    PROVE  MonitorInv(since)'
<1>1. row \in SlotRecords
    BY DEF SlotSound
<1>2. /\ slots' \in [Slots -> SlotRecords]
      /\ slots'[s] = row
      /\ \A q \in Slots : q # s => slots'[q] = slots[q]
    BY <1>1 DEF MonitorInv
<1>3. \A q \in Slots : slots'[q].now <= clock' /\ SlotSound(since, stored', slots'[q])
    BY <1>2, SoundKept DEF MonitorInv
<1>4. \A p \in Platforms : \A u : Covered(since, stored, p, u) => Covered(since, stored', p, u)
    BY DEF Covered, StoreGrows
<1>5. /\ cursors' \in [Platforms -> Instants \cup {NoCursor}]
      /\ \A p \in Platforms : Covered(since, stored', p, cursors'[p])
    BY <1>4 DEF MonitorInv
<1>6. DOMAIN stored' = Platforms /\ clock' \in Instants
    BY DEF MonitorInv, StoreGrows
<1> QED BY <1>2, <1>3, <1>5, <1>6 DEF MonitorInv

LEMMA RestSound ==
    ASSUME NEW since, NEW store, NEW e \in Instants, NEW place \in {"idle", "claimed", "failing"}
    PROVE  LET row == [SlotIdle EXCEPT !.at = place, !.exec = e] IN
           SlotSound(since, store, row) /\ row.now = 0
<1>1. 0 \in Instants
    BY MonitorAssumption DEF Instants
<1>2. PICK row : row = [SlotIdle EXCEPT !.at = place, !.exec = e]
    OBVIOUS
<1>3. row \in SlotRecords /\ row.at = place /\ row.now = 0
    BY <1>1, <1>2 DEF SlotIdle, SlotRecords, SlotPlaces
<1> QED BY <1>2, <1>3 DEF SlotSound

LEMMA IdleSound ==
    ASSUME NEW since, NEW store
    PROVE  SlotSound(since, store, SlotIdle) /\ SlotIdle.now = 0
<1>1. 0 \in Instants
    BY MonitorAssumption DEF Instants
<1>2. SlotIdle \in SlotRecords /\ SlotIdle.at = "idle" /\ SlotIdle.now = 0
    BY <1>1 DEF SlotIdle, SlotRecords, SlotPlaces
<1> QED BY <1>2 DEF SlotSound

\* What a slot goes to when nothing is written but its own row.
LEMMA SlotMovesAlone ==
    ASSUME NEW since, MonitorInv(since), NEW s \in Slots, NEW row,
           slots' = [slots EXCEPT ![s] = row], SlotSound(since, stored, row), row.now <= clock,
           UNCHANGED <<clock, cursors, stored>>
    PROVE  MonitorInv(since)'
BY SlotMoves DEF StoreGrows

LEMMA SlotRestsStep ==
    ASSUME NEW since, MonitorInv(since), NEW s \in Slots, SlotRests(s) \/ SlotFails(s),
           UNCHANGED <<clock, cursors, stored>>
    PROVE  MonitorInv(since)'
<1>1. slots[s].exec \in Instants /\ 0 <= clock
    BY MonitorAssumption DEF MonitorInv, SlotRecords, Instants
<1>2. CASE SlotRests(s)
    BY <1>1, <1>2, IdleSound, SlotMovesAlone DEF SlotRests
<1>3. CASE SlotFails(s)
  <2>1. PICK row : row = [SlotIdle EXCEPT !.at = "failing", !.exec = slots[s].exec]
    OBVIOUS
  <2>2. SlotSound(since, stored, row) /\ row.now = 0
    BY <1>1, <2>1, RestSound
  <2> QED BY <1>1, <1>3, <2>1, <2>2, SlotMovesAlone DEF SlotFails
<1> QED BY <1>2, <1>3

LEMMA SlotBreaksStep ==
    ASSUME NEW since, MonitorInv(since), NEW s \in Slots, SlotBreaks(s), slots[s].todo # {},
           UNCHANGED <<clock, cursors, stored>>
    PROVE  MonitorInv(since)'
<1>1. PICK row : row = [slots[s] EXCEPT !.at = "broken", !.from = 0]
    OBVIOUS
<1>2. 0 \in Instants
    BY MonitorAssumption DEF Instants
<1>3. row \in SlotRecords /\ row.at = "broken" /\ row.todo # {} /\ row.now <= clock
    BY <1>1, <1>2 DEF MonitorInv, SlotRecords, SlotPlaces
<1>4. SlotSound(since, stored, row)
    BY <1>3 DEF SlotSound
<1> QED BY <1>1, <1>3, <1>4, SlotMovesAlone DEF SlotBreaks

LEMMA OpenWindowStep ==
    ASSUME NEW since \in [Platforms -> Nat], MonitorInv(since), Reached(since),
           NEW s \in Slots, OpenWindow(s)
    PROVE  MonitorInv(since)'
<1>1. /\ Current(s) \in Platforms
      /\ slots[s].todo # {} /\ slots[s].todo \subseteq Platforms
    BY DEF OpenWindow, Current, MonitorInv, SlotRecords
<1>2. PICK p : p = Current(s)
    OBVIOUS
<1>3. PICK from : from = WindowStart(s)
    OBVIOUS
<1>4. slots[s].now \in Nat /\ slots[s].now <= clock /\ clock \in Nat /\ slots[s].now \in Instants
    BY MonitorAssumption DEF MonitorInv, SlotRecords, Instants
<1>5. ASSUME cursors[p] = NoCursor
      PROVE  from \in Instants /\ Covered(since, stored, p, from)
  <2>1. from = MaxOf(0, slots[s].now - Lookback)
    BY <1>2, <1>3, <1>5 DEF WindowStart
  <2>2. from \in Instants /\ (from = 0 \/ from <= clock - Lookback)
    BY <1>4, <2>1, MonitorAssumption DEF MaxOf, Instants
  <2>3. clock - Lookback <= since[p] /\ since[p] \in Nat
    BY <1>1, <1>2, <1>5 DEF Reached
  <2>4. from <= since[p]
    BY <1>4, <2>2, <2>3, MonitorAssumption DEF Instants
  <2>5. Covered(since, stored, p, from)
    BY <2>2, <2>3, <2>4 DEF Covered, Instants
  <2> QED BY <2>2, <2>5
<1>6. ASSUME cursors[p] # NoCursor
      PROVE  from \in Instants /\ Covered(since, stored, p, from)
    BY <1>1, <1>2, <1>3, <1>6 DEF WindowStart, MonitorInv
<1>7. from \in Instants /\ Covered(since, stored, p, from)
    BY <1>5, <1>6
<1>8. PICK row : row = [slots[s] EXCEPT !.at = "crawling", !.from = from]
    OBVIOUS
<1>9. /\ row \in SlotRecords /\ row.at = "crawling" /\ row.from = from
      /\ row.todo = slots[s].todo /\ row.now <= clock
    BY <1>7, <1>8 DEF MonitorInv, SlotRecords, SlotPlaces
<1>10. SlotSound(since, stored, row)
    BY <1>1, <1>2, <1>7, <1>9 DEF SlotSound, Current
<1>11. slots' = [slots EXCEPT ![s] = row]
    BY <1>3, <1>8 DEF OpenWindow
<1> QED BY <1>9, <1>10, <1>11, SlotMovesAlone DEF OpenWindow

LEMMA CrawlStep ==
    ASSUME NEW since, MonitorInv(since), NEW s \in Slots, Crawl(s)
    PROVE  MonitorInv(since)'
<1>1. SlotSound(since, stored, slots[s]) /\ slots[s] \in SlotRecords /\ slots[s].now <= clock
    BY DEF MonitorInv
<1>2. CASE SlotBreaks(s)
    BY <1>1, <1>2, SlotBreaksStep DEF Crawl, SlotAt, SlotSound
<1>3. CASE SlotGoes(s, "crawled")
  <2>1. PICK row : row = [slots[s] EXCEPT !.at = "crawled"]
    OBVIOUS
  <2>2. /\ row \in SlotRecords /\ row.at = "crawled" /\ row.from = slots[s].from
        /\ row.todo = slots[s].todo /\ row.now <= clock
    BY <1>1, <2>1 DEF SlotRecords, SlotPlaces
  <2>3. SlotSound(since, stored, row)
    BY <1>1, <2>2 DEF SlotSound, Crawl, SlotAt
  <2>4. slots' = [slots EXCEPT ![s] = row]
    BY <1>3, <2>1 DEF SlotGoes, MonitorInv
  <2> QED BY <2>2, <2>3, <2>4, SlotMovesAlone DEF Crawl
<1> QED BY <1>2, <1>3 DEF Crawl

LEMMA PersistBatchStep ==
    ASSUME NEW since \in [Platforms -> Nat], MonitorInv(since), NEW s \in Slots, PersistBatch(s)
    PROVE  MonitorInv(since)'
<1>1. 0 \in Instants
    BY MonitorAssumption DEF Instants
<1>2. SlotSound(since, stored, slots[s]) /\ slots[s] \in SlotRecords /\ slots[s].now <= clock
    BY DEF MonitorInv
<1>3. CASE SlotBreaks(s) /\ UNCHANGED stored
    BY <1>2, <1>3, SlotBreaksStep DEF PersistBatch, SlotAt, SlotSound
<1>4. ASSUME stored' = [stored EXCEPT ![Current(s)] = @ \cup (slots[s].from)..(slots[s].now - 1)],
             slots' = [slots EXCEPT ![s] = [@ EXCEPT !.at = "persisted", !.from = 0]]
      PROVE  MonitorInv(since)'
  <2>1. PICK p : p = Current(s)
    OBVIOUS
  <2>2. /\ slots[s].todo # {} /\ p \in Platforms
        /\ Covered(since, stored, p, slots[s].from)
    BY <1>2, <2>1 DEF PersistBatch, SlotAt, SlotSound, SlotRecords, Current
  <2>3. PICK row : row = [slots[s] EXCEPT !.at = "persisted", !.from = 0]
    OBVIOUS
  <2>4. /\ row \in SlotRecords /\ row.at = "persisted" /\ row.now = slots[s].now
        /\ row.todo = slots[s].todo
    BY <1>2, <1>1, <2>3 DEF SlotRecords, SlotPlaces
  <2>5. PICK batch : batch = (slots[s].from)..(slots[s].now - 1)
    OBVIOUS
  <2>6. stored' = [stored EXCEPT ![p] = @ \cup batch]
    BY <1>4, <2>1, <2>5
  <2>7. StoreGrows /\ stored'[p] = stored[p] \cup batch
    BY <2>2, <2>6 DEF StoreGrows, MonitorInv
  <2>8. ASSUME NEW t \in Instants, since[p] <= t, t < slots[s].now PROVE t \in stored'[p]
    <3>1. t \in Nat /\ slots[s].from \in Nat /\ slots[s].now \in Nat
        BY <1>2, MonitorAssumption DEF SlotRecords, Instants
    <3>2. CASE t < slots[s].from
        BY <2>2, <2>7, <2>8, <3>2 DEF Covered
    <3>3. CASE slots[s].from <= t
        BY <2>5, <2>7, <2>8, <3>1, <3>3
    <3> QED BY <3>1, <3>2, <3>3
  <2>9. SlotSound(since, stored', row)
    BY <2>1, <2>2, <2>4, <2>8 DEF SlotSound, Covered, Current
  <2>10. slots' = [slots EXCEPT ![s] = row]
    BY <1>4, <2>3
  <2> QED BY <1>2, <2>4, <2>7, <2>9, <2>10, SlotMoves DEF PersistBatch
<1> QED BY <1>3, <1>4 DEF PersistBatch

LEMMA PlatformDoneSound ==
    ASSUME NEW since, MonitorInv(since), NEW s \in Slots, NEW failed \in SUBSET Platforms,
           PlatformDone(s, failed)
    PROVE  \E row : /\ slots' = [slots EXCEPT ![s] = row]
                    /\ row.now <= clock
                    /\ \A store : SlotSound(since, store, row)
<1>1. PICK todo : todo = slots[s].todo \ {Current(s)}
    OBVIOUS
<1>2. PICK row : row = [slots[s] EXCEPT !.at = "looping", !.from = 0, !.todo = todo,
                                        !.failed = slots[s].failed \cup failed]
    OBVIOUS
<1>3. slots[s] \in SlotRecords /\ slots[s].now <= clock
    BY DEF MonitorInv
<1>4. 0 \in Instants /\ todo \subseteq Platforms /\ slots[s].failed \cup failed \subseteq Platforms
    BY <1>1, <1>3, MonitorAssumption DEF SlotRecords, Instants
<1>5. row \in SlotRecords /\ row.at = "looping" /\ row.now <= clock
    BY <1>2, <1>3, <1>4 DEF SlotRecords, SlotPlaces
<1>6. slots' = [slots EXCEPT ![s] = row]
    BY <1>1, <1>2 DEF PlatformDone
<1> QED BY <1>5, <1>6 DEF SlotSound

LEMMA UpsertCursorStep ==
    ASSUME NEW since, MonitorInv(since), NEW s \in Slots, UpsertCursor(s)
    PROVE  MonitorInv(since)'
<1>1. SlotSound(since, stored, slots[s]) /\ slots[s] \in SlotRecords
    BY DEF MonitorInv
<1>2. CASE SlotBreaks(s) /\ UNCHANGED cursors
    BY <1>1, <1>2, SlotBreaksStep DEF UpsertCursor, SlotAt, SlotSound
<1>3. CASE cursors' = [cursors EXCEPT ![Current(s)] = slots[s].now] /\ PlatformDone(s, {})
  <2>1. PICK p : p = Current(s)
    OBVIOUS
  <2>2. p \in Platforms /\ Covered(since, stored, p, slots[s].now) /\ slots[s].now \in Instants
    BY <1>1, <2>1 DEF UpsertCursor, SlotAt, SlotSound, SlotRecords, Current
  <2>3. PICK row : /\ slots' = [slots EXCEPT ![s] = row]
                   /\ row.now <= clock
                   /\ \A store : SlotSound(since, store, row)
    BY <1>3, PlatformDoneSound
  <2>4. StoreGrows /\ stored' = stored /\ clock' = clock
    BY DEF UpsertCursor, StoreGrows
  <2> QED BY <1>3, <2>1, <2>2, <2>3, <2>4, SlotMoves
<1> QED BY <1>2, <1>3 DEF UpsertCursor

LEMMA RecordFailureStep ==
    ASSUME NEW since, MonitorInv(since), NEW s \in Slots, RecordFailure(s)
    PROVE  MonitorInv(since)'
<1>1. CASE SlotFails(s)
    BY <1>1, SlotRestsStep DEF RecordFailure
<1>2. CASE PlatformDone(s, {Current(s)})
  <2>1. Current(s) \in Platforms
    BY DEF RecordFailure, SlotAt, MonitorInv, SlotSound, SlotRecords, Current
  <2>2. PICK row : /\ slots' = [slots EXCEPT ![s] = row]
                   /\ row.now <= clock
                   /\ \A store : SlotSound(since, store, row)
    BY <1>2, <2>1, PlatformDoneSound
  <2> QED BY <2>2, SlotMovesAlone DEF RecordFailure
<1> QED BY <1>1, <1>2 DEF RecordFailure

\* The slots that wait for their next platform, or for the end.
LEMMA LoopingStep ==
    ASSUME NEW since, MonitorInv(since), NEW s \in Slots,
           ClaimExecution(s) \/ StartExecution(s) \/ EvaluateAlerts(s)
    PROVE  MonitorInv(since)'
<1>1. slots[s] \in SlotRecords /\ slots[s].now <= clock /\ clock \in Instants
      /\ 0 \in Instants /\ 0 <= clock
    BY MonitorAssumption DEF MonitorInv, Instants
<1>2. CASE ClaimExecution(s)
  <2>1. PICK t \in Instants :
            slots' = [slots EXCEPT ![s] = [SlotIdle EXCEPT !.at = "claimed", !.exec = t]]
    BY <1>2 DEF ClaimExecution
  <2>2. PICK row : row = [SlotIdle EXCEPT !.at = "claimed", !.exec = t]
    OBVIOUS
  <2>3. SlotSound(since, stored, row) /\ row.now = 0
    BY <2>2, RestSound
  <2> QED BY <1>1, <1>2, <2>1, <2>2, <2>3, SlotMovesAlone DEF ClaimExecution
<1>3. CASE StartExecution(s)
  <2>1. CASE SlotRests(s)
    BY <1>3, <2>1, SlotRestsStep DEF StartExecution
  <2>2. CASE ~SlotRests(s)
    <3>1. PICK row : row = [slots[s] EXCEPT !.at = "looping", !.now = clock, !.todo = Platforms]
        OBVIOUS
    <3>2. row \in SlotRecords /\ row.at = "looping" /\ row.now = clock
        BY <1>1, <3>1 DEF SlotRecords, SlotPlaces
    <3>3. slots' = [slots EXCEPT ![s] = row]
        BY <1>3, <2>2, <3>1 DEF StartExecution
    <3>4. SlotSound(since, stored, row) /\ row.now <= clock
        BY <1>1, <3>2 DEF SlotSound, Instants
    <3> QED BY <1>3, <3>3, <3>4, SlotMovesAlone DEF StartExecution
  <2> QED BY <2>1, <2>2
<1>4. CASE EvaluateAlerts(s)
  <2>1. PICK row : row = [slots[s] EXCEPT !.at = "finishing", !.now = 0]
    OBVIOUS
  <2>2. row \in SlotRecords /\ row.at = "finishing" /\ row.now = 0
    BY <1>1, <2>1 DEF SlotRecords, SlotPlaces
  <2>3. SlotSound(since, stored, row)
    BY <2>2 DEF SlotSound
  <2> QED BY <1>1, <1>4, <2>1, <2>2, <2>3, SlotMovesAlone DEF EvaluateAlerts
<1> QED BY <1>2, <1>3, <1>4

LEMMA RowsAloneStep ==
    ASSUME NEW since, MonitorInv(since), UNCHANGED <<clock, cursors, stored, slots>>
    PROVE  MonitorInv(since)'
BY DEF MonitorInv

LEMMA EndStep ==
    ASSUME NEW since, MonitorInv(since), NEW s \in Slots,
           LeaseIsLost(s) \/ FinishExecution(s) \/ FailExecution(s) \/ Heartbeat(s)
    PROVE  MonitorInv(since)'
<1>1. CASE LeaseIsLost(s)
    BY <1>1, SlotRestsStep DEF LeaseIsLost, GivesUp
<1>2. CASE FinishExecution(s)
    BY <1>2, SlotRestsStep DEF FinishExecution
<1>3. CASE FailExecution(s)
    BY <1>3, SlotRestsStep DEF FailExecution
<1>4. CASE Heartbeat(s)
  <2>1. CASE UNCHANGED slots
    BY <1>4, <2>1, RowsAloneStep DEF Heartbeat
  <2>2. CASE slots' = [slots EXCEPT ![s].lost = TRUE]
    <3>1. PICK row : row = [slots[s] EXCEPT !.lost = TRUE]
        OBVIOUS
    <3>2. slots[s] \in SlotRecords /\ SlotSound(since, stored, slots[s]) /\ slots[s].now <= clock
        BY DEF MonitorInv
    <3>3. /\ row \in SlotRecords /\ row.at = slots[s].at /\ row.now = slots[s].now
          /\ row.from = slots[s].from /\ row.todo = slots[s].todo
        BY <3>1, <3>2 DEF SlotRecords
    <3>4. SlotSound(since, stored, row)
        BY <3>2, <3>3 DEF SlotSound
    <3>5. slots' = [slots EXCEPT ![s] = row]
        BY <2>2, <3>1 DEF MonitorInv
    <3> QED BY <1>4, <3>2, <3>3, <3>4, <3>5, SlotMovesAlone DEF Heartbeat
  <2> QED BY <1>4, <2>1, <2>2 DEF Heartbeat
<1> QED BY <1>1, <1>2, <1>3, <1>4

LEMMA MonitorStep ==
    ASSUME NEW since \in [Platforms -> Nat], MonitorInv(since), Reached(since),
           [MonitorNext]_monitorVars
    PROVE  MonitorInv(since)'
<1>1. CASE UNCHANGED monitorVars \/ ScheduleDue \/ RunNow
    BY <1>1, RowsAloneStep DEF monitorVars, ScheduleDue, RunNow
<1>2. CASE \E t \in Instants : ExecutionRipens(t)
    BY <1>2, RowsAloneStep DEF ExecutionRipens
<1>3. CASE ClockTicks
  <2>1. clock' \in Instants /\ clock <= clock'
    BY <1>3, MonitorAssumption DEF ClockTicks, MonitorInv, Instants
  <2>2. \A s \in Slots : slots[s].now <= clock'
    BY <2>1, MonitorAssumption DEF MonitorInv, SlotRecords, Instants
  <2> QED BY <1>3, <2>1, <2>2 DEF ClockTicks, MonitorInv
<1>4. ASSUME NEW process \in Processes, KillScheduler(process) PROVE MonitorInv(since)'
  <2>1. \A s \in Slots : slots'[s] = SlotIdle \/ slots'[s] = slots[s]
    BY <1>4 DEF KillScheduler
  <2>2. 0 <= clock /\ SlotIdle \in SlotRecords
    BY IdleSound, MonitorAssumption DEF MonitorInv, Instants, SlotSound
  <2>3. \A s \in Slots : slots'[s].now <= clock /\ SlotSound(since, stored, slots'[s])
    BY <2>1, <2>2, IdleSound DEF MonitorInv
  <2>4. slots' \in [Slots -> SlotRecords]
    BY <1>4, <2>1, <2>2 DEF KillScheduler, MonitorInv
  <2> QED BY <1>4, <2>3, <2>4 DEF KillScheduler, MonitorInv
<1>5. ASSUME NEW s \in Slots, SlotStep(s) \/ Heartbeat(s) PROVE MonitorInv(since)'
    BY <1>5, LoopingStep, EndStep, OpenWindowStep, CrawlStep, PersistBatchStep, UpsertCursorStep,
       RecordFailureStep DEF SlotStep
<1> QED BY <1>1, <1>2, <1>3, <1>4, <1>5 DEF MonitorNext

LEMMA MonitorStart ==
    ASSUME NEW since, MonitorInit
    PROVE  MonitorInv(since)
<1>1. 0 \in Instants /\ \A t \in Instants : ~(t < NoCursor)
    BY MonitorAssumption DEF Instants, NoCursor
<1>2. SlotIdle \in SlotRecords /\ SlotSound(since, stored, SlotIdle) /\ SlotIdle.now <= clock
    BY <1>1, IdleSound DEF SlotSound, MonitorInit, Instants
<1> QED BY <1>1, <1>2 DEF MonitorInv, MonitorInit, Covered

\* What was published since an instant that the first window of its platform reached back to is in
\* the store up to the cursor, for any number of platforms, executions and processes, any interval
\* and any lookback.
THEOREM CursorsLeaveNoGap ==
    ASSUME NEW since \in [Platforms -> Nat]
    PROVE  MonitorSpec /\ []Reached(since)
               => [](\A p \in Platforms : Covered(since, stored, p, cursors[p]))
<1>1. MonitorInit => MonitorInv(since)
    BY MonitorStart
<1>2. MonitorInv(since) /\ Reached(since) /\ [MonitorNext]_monitorVars => MonitorInv(since)'
    BY MonitorStep
<1>3. MonitorInv(since) => \A p \in Platforms : Covered(since, stored, p, cursors[p])
    BY DEF MonitorInv
<1> QED BY <1>1, <1>2, <1>3, PTL DEF MonitorSpec

\* A monitor whose lookback is as long as it has run misses nothing at all.
THEOREM NothingIsMissedTheorem ==
    ASSUME MaxInstant <= Lookback
    PROVE  MonitorSpec => []NothingIsMissed
<1> DEFINE since == [p \in Platforms |-> 0]
<1>1. since \in [Platforms -> Nat]
    OBVIOUS
<1>2. MonitorInv(since) => Reached(since)
    BY MonitorAssumption DEF MonitorInv, Reached, Instants
<1>3. MonitorInit => MonitorInv(since)
    BY MonitorStart
<1>4. MonitorInv(since) /\ Reached(since) /\ [MonitorNext]_monitorVars => MonitorInv(since)'
    BY <1>1, MonitorStep
<1>5. MonitorInv(since) => NothingIsMissed
    BY MonitorAssumption DEF MonitorInv, NothingIsMissed, Covered, Instants
<1> QED BY <1>2, <1>3, <1>4, <1>5, PTL DEF MonitorSpec

(***************************** The graph of a plan ************************)

\* Every nonempty set of steps has one that depends on none of them.
Grounded(pairs, these) ==
    \A T \in SUBSET these : T # {} => \E s \in T : DependsOn(pairs, s) \cap T = {}

ClosedUnder(pairs, C) == \A s \in C : DependsOn(pairs, s) \subseteq C

\* What the depth-first walk finds, told without it: what s depends on, directly or not, is
\* grounded and off the path.
ClearOf(pairs, path, s) ==
    \E R \in SUBSET StepKeys : s \in R /\ ClosedUnder(pairs, R) /\ R \cap path = {} /\ Grounded(pairs, R)

Below(pairs, d) == {x \in StepKeys : \A C \in SUBSET StepKeys : d \in C /\ ClosedUnder(pairs, C) => x \in C}

LEMMA DependsOnSteps ==
    ASSUME NEW pairs \in SUBSET Pairs, NEW s PROVE DependsOn(pairs, s) \subseteq StepKeys
BY DEF DependsOn, Pairs

LEMMA BelowClosed ==
    ASSUME NEW pairs \in SUBSET Pairs, NEW d \in StepKeys
    PROVE  d \in Below(pairs, d) /\ ClosedUnder(pairs, Below(pairs, d))
<1>1. ASSUME NEW x \in Below(pairs, d), NEW y \in DependsOn(pairs, x) PROVE y \in Below(pairs, d)
  BY <1>1, DependsOnSteps DEF Below, ClosedUnder
<1> QED BY <1>1 DEF Below, ClosedUnder

\* Nothing grounded is below what it depends on.
LEMMA NotBelowItself ==
    ASSUME NEW pairs \in SUBSET Pairs, NEW R \in SUBSET StepKeys, ClosedUnder(pairs, R), Grounded(pairs, R),
           NEW s \in R, NEW d \in DependsOn(pairs, s)
    PROVE  s \notin Below(pairs, d)
<1> SUFFICES ASSUME s \in Below(pairs, d) PROVE FALSE
  OBVIOUS
<1>1. d \in R /\ R \subseteq StepKeys
  BY DEF ClosedUnder
<1>2. PICK T : T = {x \in Below(pairs, d) : s \in Below(pairs, x)}
  OBVIOUS
<1>3. d \in T
  BY <1>1, <1>2, BelowClosed
<1>4. T \in SUBSET R
  BY <1>1, <1>2 DEF Below
<1>5. PICK x \in T : DependsOn(pairs, x) \cap T = {}
  BY <1>3, <1>4 DEF Grounded
<1>6. CASE x = s
  BY <1>2, <1>3, <1>5, <1>6
<1>7. CASE x # s
  <2>1. x \in StepKeys /\ x \in Below(pairs, d) /\ s \in Below(pairs, x)
    BY <1>2, <1>5 DEF Below
  <2>2. PICK C : C = {x} \cup {z \in StepKeys : \E y \in DependsOn(pairs, x) : z \in Below(pairs, y)}
    OBVIOUS
  <2>3. C \in SUBSET StepKeys /\ x \in C
    BY <2>1, <2>2
  <2>4. ASSUME NEW z \in C, NEW y \in DependsOn(pairs, z) PROVE y \in C
    <3>1. y \in StepKeys
      BY DependsOnSteps
    <3>2. CASE z = x
      BY <2>2, <2>4, <3>1, <3>2, BelowClosed
    <3>3. CASE z # x
      <4>1. PICK w \in DependsOn(pairs, x) : z \in Below(pairs, w)
        BY <2>2, <2>4, <3>3
      <4>2. w \in StepKeys
        BY DependsOnSteps
      <4>3. y \in Below(pairs, w)
        BY <2>4, <4>1, <4>2, BelowClosed DEF ClosedUnder
      <4> QED BY <2>2, <3>1, <4>1, <4>3
    <3> QED BY <3>2, <3>3
  <2>5. s \in C
    BY <2>1, <2>3, <2>4 DEF Below, ClosedUnder
  <2>6. PICK y \in DependsOn(pairs, x) : s \in Below(pairs, y)
    BY <1>7, <2>2, <2>5
  <2>7. y \in Below(pairs, d)
    BY <1>1, <2>1, <2>6, BelowClosed DEF ClosedUnder
  <2> QED BY <1>2, <1>5, <2>6, <2>7
<1> QED BY <1>6, <1>7

LEMMA ClearGoesDown ==
    ASSUME NEW pairs \in SUBSET Pairs, NEW path \in SUBSET StepKeys, NEW s \in StepKeys, ClearOf(pairs, path, s)
    PROVE  s \notin path /\ \A d \in DependsOn(pairs, s) : ClearOf(pairs, path \cup {s}, d)
<1>1. PICK R \in SUBSET StepKeys : s \in R /\ ClosedUnder(pairs, R) /\ R \cap path = {} /\ Grounded(pairs, R)
  BY DEF ClearOf
<1>2. ASSUME NEW d \in DependsOn(pairs, s) PROVE ClearOf(pairs, path \cup {s}, d)
  <2>1. d \in StepKeys /\ d \in R
    BY <1>1, DependsOnSteps DEF ClosedUnder
  <2>2. Below(pairs, d) \subseteq R /\ Below(pairs, d) \in SUBSET StepKeys
    BY <1>1, <2>1 DEF Below
  <2>3. Grounded(pairs, Below(pairs, d))
    BY <1>1, <2>2 DEF Grounded
  <2>4. s \notin Below(pairs, d)
    BY <1>1, <1>2, NotBelowItself
  <2> QED BY <1>1, <2>1, <2>2, <2>3, <2>4, BelowClosed DEF ClearOf
<1> QED BY <1>1, <1>2

LEMMA ClearGoesUp ==
    ASSUME NEW pairs \in SUBSET Pairs, NEW path \in SUBSET StepKeys, NEW s \in StepKeys, s \notin path,
           \A d \in DependsOn(pairs, s) : ClearOf(pairs, path \cup {s}, d)
    PROVE  ClearOf(pairs, path, s)
<1>1. PICK R : R = {s} \cup {x \in StepKeys : \E d \in DependsOn(pairs, s) : x \in Below(pairs, d)}
  OBVIOUS
<1>2. ASSUME NEW d \in DependsOn(pairs, s)
      PROVE  /\ d \in Below(pairs, d) /\ ClosedUnder(pairs, Below(pairs, d)) /\ Below(pairs, d) \in SUBSET StepKeys
             /\ Below(pairs, d) \cap (path \cup {s}) = {} /\ Grounded(pairs, Below(pairs, d))
  <2>1. PICK Q \in SUBSET StepKeys : d \in Q /\ ClosedUnder(pairs, Q) /\ Q \cap (path \cup {s}) = {} /\ Grounded(pairs, Q)
    BY DEF ClearOf
  <2>2. d \in StepKeys
    BY <2>1
  <2>3. Below(pairs, d) \subseteq Q
    BY <2>1 DEF Below
  <2>4. Grounded(pairs, Below(pairs, d))
    BY <2>1, <2>3 DEF Grounded
  <2> QED BY <2>1, <2>2, <2>3, <2>4, BelowClosed
<1>3. R \in SUBSET StepKeys /\ s \in R
  BY <1>1
<1>4. ClosedUnder(pairs, R)
  <2> SUFFICES ASSUME NEW z \in R, NEW y \in DependsOn(pairs, z) PROVE y \in R
    BY DEF ClosedUnder
  <2>1. y \in StepKeys
    BY DependsOnSteps
  <2>2. CASE z = s
    BY <1>1, <1>2, <2>1, <2>2
  <2>3. CASE z # s
    <3>1. PICK d \in DependsOn(pairs, s) : z \in Below(pairs, d)
      BY <1>1, <2>3
    <3>2. y \in Below(pairs, d)
      BY <1>2, <3>1 DEF ClosedUnder
    <3> QED BY <1>1, <2>1, <3>1, <3>2
  <2> QED BY <2>2, <2>3
<1>5. R \cap path = {}
  BY <1>1, <1>2
<1>6. ASSUME NEW T \in SUBSET R, T # {} PROVE \E x \in T : DependsOn(pairs, x) \cap T = {}
  <2>1. CASE \E d \in DependsOn(pairs, s) : T \cap Below(pairs, d) # {}
    <3>1. PICK d \in DependsOn(pairs, s) : T \cap Below(pairs, d) # {}
      BY <2>1
    <3>2. ClosedUnder(pairs, Below(pairs, d)) /\ Grounded(pairs, Below(pairs, d))
      BY <1>2, <3>1
    <3>3. PICK x \in T \cap Below(pairs, d) : DependsOn(pairs, x) \cap (T \cap Below(pairs, d)) = {}
      BY <3>1, <3>2 DEF Grounded
    <3>4. DependsOn(pairs, x) \subseteq Below(pairs, d)
      BY <3>2, <3>3 DEF ClosedUnder
    <3> QED BY <3>3, <3>4
  <2>2. CASE \A d \in DependsOn(pairs, s) : T \cap Below(pairs, d) = {}
    <3>1. T = {s}
      BY <1>1, <1>6, <2>2
    <3>2. s \notin DependsOn(pairs, s)
      BY <1>2, DependsOnSteps
    <3> QED BY <3>1, <3>2
  <2> QED BY <2>1, <2>2
<1> QED BY <1>3, <1>4, <1>5, <1>6 DEF ClearOf, Grounded

Walks(pairs, visit) ==
    visit = [v \in (SUBSET StepKeys) \X StepKeys |->
                /\ v[2] \notin v[1]
                /\ \A d \in DependsOn(pairs, v[2]) : visit[<<v[1] \cup {v[2]}, d>>]]

\* The walk is well defined: what it says of a path and a step follows from what it says of the
\* longer path and what the step depends on.
LEMMA VisitStep ==
    ASSUME NEW pairs \in SUBSET Pairs, NEW path \in SUBSET StepKeys, NEW s \in StepKeys
    PROVE  Visits(pairs)[<<path, s>>]
             <=> (s \notin path /\ \A d \in DependsOn(pairs, s) : Visits(pairs)[<<path \cup {s}, d>>])
<1>1. PICK D : D = (SUBSET StepKeys) \X StepKeys
  OBVIOUS
<1>2. PICK f : f = [v \in D |-> ClearOf(pairs, v[1], v[2])]
  OBVIOUS
<1>3. ASSUME NEW v \in D
      PROVE  f[v] = (v[2] \notin v[1] /\ \A d \in DependsOn(pairs, v[2]) : f[<<v[1] \cup {v[2]}, d>>])
  <2>1. v[1] \in SUBSET StepKeys /\ v[2] \in StepKeys
    BY <1>1, <1>3
  <2>2. \A d \in DependsOn(pairs, v[2]) : f[<<v[1] \cup {v[2]}, d>>] = ClearOf(pairs, v[1] \cup {v[2]}, d)
    BY <1>1, <1>2, <2>1, DependsOnSteps
  <2>3. f[v] = ClearOf(pairs, v[1], v[2])
    BY <1>2
  <2>4. ClearOf(pairs, v[1], v[2])
          <=> (v[2] \notin v[1] /\ \A d \in DependsOn(pairs, v[2]) : ClearOf(pairs, v[1] \cup {v[2]}, d))
    <3>1. ASSUME ClearOf(pairs, v[1], v[2])
          PROVE  v[2] \notin v[1] /\ \A d \in DependsOn(pairs, v[2]) : ClearOf(pairs, v[1] \cup {v[2]}, d)
      BY <2>1, <3>1, ClearGoesDown
    <3>2. ASSUME v[2] \notin v[1], \A d \in DependsOn(pairs, v[2]) : ClearOf(pairs, v[1] \cup {v[2]}, d)
          PROVE  ClearOf(pairs, v[1], v[2])
      BY <2>1, <3>2, ClearGoesUp
    <3> QED BY <3>1, <3>2
  <2>5. ClearOf(pairs, v[1], v[2]) \in BOOLEAN
    BY DEF ClearOf
  <2> QED BY <2>2, <2>3, <2>4, <2>5
<1>4. Walks(pairs, f)
  BY <1>1, <1>2, <1>3 DEF Walks
<1>5. Visits(pairs) = CHOOSE g : Walks(pairs, g)
  BY DEF Visits, Walks
<1>6. Walks(pairs, Visits(pairs))
  BY <1>4, <1>5
<1>7. <<path, s>> \in (SUBSET StepKeys) \X StepKeys
  OBVIOUS
<1> QED BY <1>6, <1>7 DEF Walks

LEMMA NatHasLeast ==
    ASSUME NEW K \in SUBSET Nat, K # {} PROVE \E n \in K : \A m \in K : n <= m
<1>1. PICK R : R = OpToRel(<, Nat)
  OBVIOUS
<1>2. IsWellFoundedOn(R, Nat)
  BY <1>1, NatLessThanWellFounded
<1>3. PICK n \in K : \A m \in K : <<m, n>> \notin R
  BY <1>2, WFMin
<1>4. \A m \in K : ~(m < n)
  BY <1>1, <1>3 DEF OpToRel
<1> QED BY <1>4

\* A path cannot get longer for ever: there are finitely many steps.
LEMMA PathsEnd ==
    ASSUME NEW G \in SUBSET (SUBSET StepKeys), \A path \in G : \E s \in StepKeys \ path : path \cup {s} \in G
    PROVE  G = {}
<1> SUFFICES ASSUME G # {} PROVE FALSE
  OBVIOUS
<1>1. PICK K : K = {n \in Nat : \E path \in G : n = Cardinality(StepKeys \ path)}
  OBVIOUS
<1>2. \A C \in SUBSET StepKeys : IsFiniteSet(C) /\ Cardinality(C) \in Nat
  BY PlanAssumption, FS_Subset, FS_CardinalityType
<1>3. K # {} /\ K \in SUBSET Nat
  BY <1>1, <1>2
<1>4. PICK n \in K : \A m \in K : n <= m
  BY <1>3, NatHasLeast
<1>5. PICK path \in G : n = Cardinality(StepKeys \ path)
  BY <1>1, <1>4
<1>6. PICK s \in StepKeys \ path : path \cup {s} \in G
  BY <1>5
<1>7. PICK rest : rest = StepKeys \ path
  OBVIOUS
<1>8. StepKeys \ (path \cup {s}) = rest \ {s} /\ s \in rest /\ IsFiniteSet(rest)
  BY <1>2, <1>6, <1>7
<1>9. Cardinality(rest \ {s}) = n - 1
  <2>1. Cardinality(rest \ {s}) = Cardinality(rest) - 1
    BY <1>8, FS_RemoveElement
  <2> QED BY <1>5, <1>7, <2>1
<1>10. n - 1 \in K
  <2>1. Cardinality(StepKeys \ (path \cup {s})) \in K
    <3>1. Cardinality(StepKeys \ (path \cup {s})) \in Nat
      BY <1>2
    <3> QED BY <1>1, <1>6, <3>1
  <2> QED BY <1>8, <1>9, <2>1
<1>11. n \in Nat /\ n <= n - 1
  BY <1>1, <1>4, <1>10
<1> QED BY <1>11

\* Of any steps of an accepted graph one depends on none of them.  Were there none such, the walk
\* could be carried on from any path on which it ends.
LEMMA AcceptedAreGrounded ==
    ASSUME NEW pairs \in SUBSET Pairs, ValidDag(pairs) PROVE Grounded(pairs, StepKeys)
<1> SUFFICES ASSUME NEW T \in SUBSET StepKeys, T # {}, \A s \in T : DependsOn(pairs, s) \cap T # {} PROVE FALSE
  BY DEF Grounded
<1>1. PICK G : G = {path \in SUBSET StepKeys : \E s \in T : Visits(pairs)[<<path, s>>]}
  OBVIOUS
<1>2. {} \in G
  BY <1>1 DEF ValidDag
<1>3. ASSUME NEW path \in G PROVE \E s \in StepKeys \ path : path \cup {s} \in G
  <2>1. PICK s \in T : Visits(pairs)[<<path, s>>]
    BY <1>1
  <2>2. s \notin path /\ \A d \in DependsOn(pairs, s) : Visits(pairs)[<<path \cup {s}, d>>]
    BY <1>1, <2>1, VisitStep
  <2>3. PICK d \in DependsOn(pairs, s) : d \in T
    BY <2>1
  <2>4. path \cup {s} \in SUBSET StepKeys /\ s \in StepKeys \ path
    BY <1>1, <2>2
  <2>5. path \cup {s} \in G
    BY <1>1, <2>2, <2>3, <2>4
  <2> QED BY <2>4, <2>5
<1>4. G \in SUBSET (SUBSET StepKeys)
  BY <1>1
<1>5. G = {}
  BY <1>3, <1>4, PathsEnd
<1> QED BY <1>2, <1>5

\* A graph without a cycle is accepted: the walk meets no step of its path again.
LEMMA GroundedAreAccepted ==
    ASSUME NEW pairs \in SUBSET Pairs, Grounded(pairs, StepKeys) PROVE ValidDag(pairs)
<1>1. PICK G : G = {path \in SUBSET StepKeys :
                      \E s \in StepKeys : ClearOf(pairs, path, s) /\ ~Visits(pairs)[<<path, s>>]}
  OBVIOUS
<1>2. ASSUME NEW path \in G PROVE \E s \in StepKeys \ path : path \cup {s} \in G
  <2>1. PICK s \in StepKeys : ClearOf(pairs, path, s) /\ ~Visits(pairs)[<<path, s>>]
    BY <1>1
  <2>2. s \notin path /\ \A d \in DependsOn(pairs, s) : ClearOf(pairs, path \cup {s}, d)
    BY <1>1, <2>1, ClearGoesDown
  <2>3. PICK d \in DependsOn(pairs, s) : ~Visits(pairs)[<<path \cup {s}, d>>]
    BY <1>1, <2>1, <2>2, VisitStep
  <2>4. d \in StepKeys /\ path \cup {s} \in SUBSET StepKeys
    BY <1>1, DependsOnSteps
  <2> QED BY <1>1, <2>2, <2>3, <2>4
<1>3. G = {}
  <2>1. G \in SUBSET (SUBSET StepKeys)
    BY <1>1
  <2> QED BY <1>2, <2>1, PathsEnd
<1>4. ASSUME NEW s \in StepKeys PROVE ClearOf(pairs, {}, s)
  BY DependsOnSteps DEF ClearOf, ClosedUnder
<1>5. \A s \in StepKeys : Visits(pairs)[<<{}, s>>]
  BY <1>1, <1>3, <1>4
<1>6. ASSUME NEW p \in pairs PROVE p[1] # p[2]
  <2>1. p[1] \in StepKeys /\ p[1] \in DependsOn(pairs, p[2])
    BY DEF Pairs, DependsOn
  <2>2. DependsOn(pairs, p[1]) \cap {p[1]} = {}
    BY <2>1 DEF Grounded
  <2> QED BY <2>1, <2>2
<1> QED BY <1>5, <1>6 DEF ValidDag

\* validate_dag accepts exactly the graphs without a cycle: those in which, of
\* any steps, one depends on none of the others and not on itself.
THEOREM ValidDagIsExact ==
    \A pairs \in SUBSET Pairs : ValidDag(pairs) <=> Grounded(pairs, StepKeys)
BY AcceptedAreGrounded, GroundedAreAccepted DEF ValidDag, Grounded

\* The edges stored and still to be stored are those of an accepted graph.
PlanInv ==
    /\ PlanTypeOK
    /\ Grounded(plan.edges \cup plan.todo, StepKeys)

LEMMA PlanStart == PlanInit => PlanInv
BY PlanAssumption DEF PlanInit, PlanInv, PlanTypeOK, NoPlan, DeclareIdle, Grounded, DependsOn, Declared

LEMMA FewerEdges ==
    ASSUME NEW pairs, NEW fewer \in SUBSET pairs, Grounded(pairs, StepKeys)
    PROVE  Grounded(fewer, StepKeys)
BY DEF Grounded, DependsOn

LEMMA PlanStep == ASSUME PlanInv, [PlanNext]_planVars PROVE PlanInv'
<1>0. /\ plan \in [status : {"none", "draft", "dead", "active"}, edges : SUBSET Pairs, todo : SUBSET Pairs]
      /\ steps \in [StepKeys -> {"absent"} \cup StepStatuses]
      /\ declares \in [Declarers -> [at : {"idle", "check", "promote", "write"},
                                     step : StepKeys, action : DOMAIN Declared]]
      /\ Grounded(plan.edges \cup plan.todo, StepKeys)
  BY DEF PlanInv, PlanTypeOK
\* What is done about a step leaves the plan alone.
<1>a. ASSUME plan' = plan, steps' \in [StepKeys -> {"absent"} \cup StepStatuses],
             declares' \in [Declarers -> [at : {"idle", "check", "promote", "write"},
                                          step : StepKeys, action : DOMAIN Declared]]
      PROVE  PlanInv'
  BY <1>0, <1>a DEF PlanInv, PlanTypeOK
<1>b. ASSUME NEW d \in Declarers, NEW rec \in [at : {"idle", "check", "promote", "write"},
                                            step : StepKeys, action : DOMAIN Declared],
             DeclareGoes(d, rec)
      PROVE  declares' \in [Declarers -> [at : {"idle", "check", "promote", "write"},
                                          step : StepKeys, action : DOMAIN Declared]]
  BY <1>0, <1>b DEF DeclareGoes
<1>c. DeclareIdle \in [at : {"idle", "check", "promote", "write"}, step : StepKeys, action : DOMAIN Declared]
  BY PlanAssumption DEF DeclareIdle, Declared
<1>d. ASSUME NEW d \in Declarers, NEW rec \in [at : {"idle", "check", "promote", "write"},
                                            step : StepKeys, action : DOMAIN Declared],
             NEW status, Permit(d, rec, status)
      PROVE  declares' \in [Declarers -> [at : {"idle", "check", "promote", "write"},
                                          step : StepKeys, action : DOMAIN Declared]]
  BY <1>b, <1>c, <1>d DEF Permit
<1>e. ASSUME NEW s \in StepKeys, NEW st \in StepStatuses, steps' = [steps EXCEPT ![s] = st]
      PROVE  steps' \in [StepKeys -> {"absent"} \cup StepStatuses]
  BY <1>0, <1>e
<1>1. ASSUME NEW body \in PlanBodies, CreatePlan(body) PROVE PlanInv'
  <2>1. body.edges \in SUBSET Pairs /\ body.depends \in SUBSET Pairs
    BY PlanAssumption
  <2>2. Grounded(body.edges \cup body.depends, StepKeys)
    BY <1>1, <2>1, AcceptedAreGrounded DEF CreatePlan
  <2>3. Grounded(body.edges, StepKeys)
    BY <2>2, FewerEdges
  <2>4. /\ plan' = [status |-> "draft", edges |-> {}, todo |-> body.edges]
        /\ UNCHANGED <<steps, declares>>
    BY <1>1 DEF CreatePlan
  <2>5. plan'.edges \cup plan'.todo = body.edges
    BY <2>4
  <2> QED BY <1>0, <2>1, <2>3, <2>4, <2>5 DEF PlanInv, PlanTypeOK
<1>2. CASE StoreSteps
  BY <1>0, <1>2, <1>a DEF StoreSteps, StepStatuses
<1>3. ASSUME NEW p \in Pairs, StoreEdge(p) PROVE PlanInv'
  <2>1. /\ p \in plan.todo
        /\ plan' = [plan EXCEPT !.edges = @ \cup {p}, !.todo = @ \ {p}]
        /\ UNCHANGED <<steps, declares>>
    BY <1>3 DEF StoreEdge
  <2>2. plan'.edges \cup plan'.todo = plan.edges \cup plan.todo
    BY <1>0, <2>1
  <2> QED BY <1>0, <2>1, <2>2 DEF PlanInv, PlanTypeOK
<1>4. CASE ActivatePlan
  <2>1. plan'.edges \cup plan'.todo = plan.edges \cup plan.todo
    BY <1>0, <1>4 DEF ActivatePlan
  <2> QED BY <1>0, <1>4, <2>1 DEF ActivatePlan, PlanInv, PlanTypeOK
<1>5. CASE CreatorDies
  <2>1. plan'.edges \cup plan'.todo = plan.edges
    BY <1>0, <1>5 DEF CreatorDies
  <2>2. Grounded(plan.edges, StepKeys)
    BY <1>0, FewerEdges
  <2> QED BY <1>0, <1>5, <2>1, <2>2 DEF CreatorDies, PlanInv, PlanTypeOK
<1>6. ASSUME NEW d \in Declarers, NEW s \in StepKeys, NEW a \in StepActions, ReadStep(d, s, a) PROVE PlanInv'
  <2>1. PICK rec : rec = [at |-> "check", step |-> s, action |-> a]
    OBVIOUS
  <2>2. rec \in [at : {"idle", "check", "promote", "write"}, step : StepKeys, action : DOMAIN Declared]
    BY <2>1, PlanAssumption
  <2>3. DeclareGoes(d, rec) \/ Permit(d, rec, steps[s])
    BY <1>6, <2>1 DEF ReadStep
  <2> QED BY <1>0, <1>6, <1>a, <1>b, <1>d, <2>2, <2>3 DEF ReadStep
<1>7. ASSUME NEW d \in Declarers, CheckReady(d) PROVE PlanInv'
  <2>1. PICK rec : rec = [declares[d] EXCEPT !.at = "promote"]
    OBVIOUS
  <2>2. rec \in [at : {"idle", "check", "promote", "write"}, step : StepKeys, action : DOMAIN Declared]
    BY <1>0, <2>1
  <2>3. DeclareGoes(d, rec) \/ DeclareGoes(d, DeclareIdle)
    BY <1>7, <2>1 DEF CheckReady
  <2> QED BY <1>0, <1>7, <1>a, <1>b, <1>c, <2>2, <2>3 DEF CheckReady
<1>8. ASSUME NEW d \in Declarers, Promote(d) PROVE PlanInv'
  <2>1. declares[d].step \in StepKeys
    BY <1>0
  <2>2. steps' \in [StepKeys -> {"absent"} \cup StepStatuses]
    BY <1>8, <1>e, <2>1 DEF Promote, StepStatuses
  <2> QED BY <1>0, <1>8, <1>a, <1>d, <2>2 DEF Promote
<1>9. ASSUME NEW d \in Declarers, WriteStep(d) PROVE PlanInv'
  <2>1. declares[d].step \in StepKeys /\ Declared[declares[d].action] \in StepStatuses
    BY <1>0 DEF StepStatuses
  <2>2. steps' \in [StepKeys -> {"absent"} \cup StepStatuses]
    BY <1>9, <1>e, <2>1 DEF WriteStep
  <2> QED BY <1>0, <1>9, <1>a, <1>b, <1>c, <2>2 DEF WriteStep
<1>10. CASE UNCHANGED planVars
  BY <1>0, <1>10, <1>a DEF planVars
<1> QED BY <1>1, <1>2, <1>3, <1>4, <1>5, <1>6, <1>7, <1>8, <1>9, <1>10 DEF PlanNext

\* A plan that exists waits for a step that is under way, has failed or is ready.
LEMMA GroundedIsNotStuck ==
    ASSUME PlanInv PROVE PlanIsNotStuck
<1> SUFFICES ASSUME \E s \in StepKeys : steps[s] = "pending"
             PROVE  \E s \in StepKeys : Ready(s) \/ steps[s] \notin {"pending"} \cup DoneStatuses
  BY DEF PlanIsNotStuck
<1>1. Grounded(plan.edges, StepKeys)
  BY FewerEdges DEF PlanInv
<1>2. PICK T : T = {s \in StepKeys : steps[s] = "pending"}
  OBVIOUS
<1>3. PICK s \in T : DependsOn(plan.edges, s) \cap T = {}
  BY <1>1, <1>2 DEF Grounded
<1>4. DependsOn(plan.edges, s) \subseteq StepKeys
  BY DependsOnSteps DEF PlanInv, PlanTypeOK
<1> QED BY <1>2, <1>3, <1>4 DEF Ready

\* No plan that was accepted waits for itself: while steps are pending, one of
\* them is ready, or the rest waits for a step that is under way or has failed,
\* whatever stale requests have written over each other.  validate_dag,
\* create_plan, declare_step.
THEOREM PlansAreNotStuck == PlanSpec => []PlanIsNotStuck
<1>1. PlanInv /\ [PlanNext]_planVars => PlanInv'
  BY PlanStep
<1>2. PlanInv => PlanIsNotStuck
  BY GroundedIsNotStuck
<1> QED BY <1>1, <1>2, PlanStart, PTL DEF PlanSpec

(***************************** The kinds of the rows **********************)

LEMMA AlertTypes == AlertInit /\ [][AlertNext]_alertVars => []AlertTypeOK
<1>1. AlertTypeOK /\ [AlertNext]_alertVars => AlertTypeOK'
  <2> SUFFICES ASSUME AlertTypeOK, [AlertNext]_alertVars PROVE AlertTypeOK'
    OBVIOUS
  <2> USE DEF AlertTypeOK, RaiserGoes
  <2>0. "open" \notin Targets /\ Targets = {"acknowledged", "resolved", "suppressed"}
    BY DEF Targets, AllowedFrom
  <2>1. CASE UNCHANGED alertVars
    BY <2>1 DEF alertVars
  <2>2. ASSUME NEW r \in Raisers, RuleHit(r) PROVE AlertTypeOK'
    <3>1. triggers - 1 \in 0..MaxTriggers
      BY <2>2, AlertAssumption DEF RuleHit
    <3> QED BY <2>2, <3>1 DEF RuleHit
  <2>3. ASSUME NEW r \in Raisers, InsertAlert(r) PROVE AlertTypeOK'
    BY <2>3 DEF InsertAlert
  <2>4. ASSUME NEW r \in Raisers, CountTrigger(r) PROVE AlertTypeOK'
    BY <2>4 DEF CountTrigger
  <2>5. ASSUME NEW r \in Raisers, ReopenRead(r) PROVE AlertTypeOK'
    BY <2>5 DEF ReopenRead
  <2>6. ASSUME NEW r \in Raisers, ReopenAlert(r) PROVE AlertTypeOK'
    BY <2>6 DEF ReopenAlert
  <2>7. ASSUME NEW r \in Raisers, KillRaiser(r) PROVE AlertTypeOK'
    BY <2>7 DEF KillRaiser
  <2>8. ASSUME NEW o \in AlertOperators, MoveWrite(o) PROVE AlertTypeOK'
    BY <2>8 DEF MoveWrite
  <2>9. ASSUME NEW o \in AlertOperators, NEW target \in Targets, MoveRead(o, target) PROVE AlertTypeOK'
    BY <2>9 DEF MoveRead
  <2> QED BY <2>1, <2>2, <2>3, <2>4, <2>5, <2>6, <2>7, <2>8, <2>9 DEF AlertNext
<1>2. AlertInit => AlertTypeOK
  <2> SUFFICES ASSUME AlertInit PROVE AlertTypeOK
    OBVIOUS
  <2>1. triggers \in 0..MaxTriggers
    BY AlertAssumption DEF AlertInit
  <2> QED BY <2>1 DEF AlertInit, AlertTypeOK
<1> QED BY <1>1, <1>2, PTL

LEMMA NotifyTypes == NotifyInit /\ [][NotifyNext]_notifyVars => []NotifyTypeOK
<1>1. NotifyInv => NotifyTypeOK
  BY DEF NotifyInv, NotifyTypeOK, DispatcherRows
<1>2. NotifyInv /\ [NotifyNext]_notifyVars => NotifyInv'
  BY NotifyStep
<1> QED BY <1>1, <1>2, NotifyStart, PTL

LEMMA ToolTypes == ToolInit /\ [][ToolNext]_toolVars => []ToolTypeOK
<1>1. ToolInv => ToolTypeOK
  BY DEF ToolInv
<1>2. ToolInv /\ [ToolNext]_toolVars => ToolInv'
  BY ToolStep
<1> QED BY <1>1, <1>2, ToolStart, PTL

LEMMA LoginTypes == LoginInit /\ [][LoginNext]_loginVars => []LoginTypeOK
<1>1. LoginInv => LoginTypeOK
  BY DEF LoginInv
<1>2. LoginInv /\ [LoginNext]_loginVars => LoginInv'
  BY LoginStep
<1> QED BY <1>1, <1>2, LoginStart, PTL

LEMMA PlanTypes == PlanInit /\ [][PlanNext]_planVars => []PlanTypeOK
<1>1. PlanInv /\ [PlanNext]_planVars => PlanInv'
  BY PlanStep
<1>2. PlanInv => PlanTypeOK
  BY DEF PlanInv
<1> QED BY <1>1, <1>2, PlanStart, PTL

\* A call that goes on to the creation of a run has found an active version.
StartInv ==
    /\ StartTypeOK
    /\ \A c \in StartCalls : starts[c].at \in {"find", "create"} => starts[c].found \in Versions

LEMMA StartInvStep == ASSUME StartInv, CallInv, [StartNext]_startVars PROVE StartInv'
<1>0. /\ definitions \in [Versions -> {"absent", "draft", "active", "superseded"}]
      /\ edits \in [Editors -> EditRows]
      /\ starts \in [StartCalls -> StartCallRows]
      /\ \A i \in DOMAIN runs : runs[i] \in [call : StartCalls, version : Versions, active : BOOLEAN]
      /\ \A c \in StartCalls : starts[c].at \in {"find", "create"} => starts[c].found \in Versions
  BY DEF StartInv, StartTypeOK, EditRows, StartCallRows, StartPlaces
<1>a. ASSUME definitions' \in [Versions -> {"absent", "draft", "active", "superseded"}],
             edits' \in [Editors -> EditRows], UNCHANGED <<starts, runs>>
      PROVE  StartInv'
  BY <1>0, <1>a DEF StartInv, StartTypeOK, EditRows, StartCallRows, StartPlaces
<1>b. ASSUME NEW e \in Editors, NEW rec \in EditRows, EditGoes(e, rec) PROVE edits' \in [Editors -> EditRows]
  BY <1>0, <1>b DEF EditGoes
<1>c. EditIdle \in EditRows
  BY DEF EditIdle, EditRows
<1>d. ASSUME UNCHANGED <<definitions, edits>>, starts' \in [StartCalls -> StartCallRows],
             \A c \in StartCalls : starts'[c].at \in {"find", "create"} => starts'[c].found \in Versions,
             \A i \in DOMAIN runs' : runs'[i] \in [call : StartCalls, version : Versions, active : BOOLEAN]
      PROVE  StartInv'
  BY <1>0, <1>d DEF StartInv, StartTypeOK, EditRows, StartCallRows, StartPlaces
<1>e. ASSUME NEW c \in StartCalls, NEW rec \in StartCallRows, StartGoes(c, rec),
             rec.at \in {"find", "create"} => rec.found \in Versions, UNCHANGED <<definitions, edits>>,
             \A i \in DOMAIN runs' : runs'[i] \in [call : StartCalls, version : Versions, active : BOOLEAN]
      PROVE  StartInv'
  <2>1. \A d \in StartCalls : starts'[d] = IF d = c THEN rec ELSE starts[d]
    BY <1>0, <1>e DEF StartGoes
  <2>2. starts' \in [StartCalls -> StartCallRows]
    BY <1>0, <1>e DEF StartGoes
  <2> QED BY <1>0, <1>d, <1>e, <2>1, <2>2
<1>f. ActiveVersion # NoVersion => ActiveVersion \in Versions
  BY DEF ActiveVersion, ActiveVersions
<1>g. ActiveVersion \in Versions \cup {NoVersion}
  BY <1>f
<1>1. CASE UNCHANGED startVars
  BY <1>0, <1>1, <1>d DEF startVars
<1>2. ASSUME NEW e \in Editors, ReadMaxVersion(e) PROVE StartInv'
  <2>1. PICK v \in Versions : EditGoes(e, [EditIdle EXCEPT !.at = "insert", !.version = v])
    BY <1>2 DEF ReadMaxVersion
  <2>2. [EditIdle EXCEPT !.at = "insert", !.version = v] \in EditRows
    BY DEF EditIdle, EditRows
  <2> QED BY <1>0, <1>2, <1>a, <1>b, <2>1, <2>2 DEF ReadMaxVersion
<1>3. ASSUME NEW e \in Editors, InsertDraft(e) PROVE StartInv'
  <2>1. definitions' \in [Versions -> {"absent", "draft", "active", "superseded"}]
    BY <1>0, <1>3 DEF InsertDraft
  <2> QED BY <1>3, <1>a, <1>b, <1>c, <2>1 DEF InsertDraft
<1>4. ASSUME NEW e \in Editors, NEW v \in Versions, ReadDraft(e, v) PROVE StartInv'
  <2>1. [EditIdle EXCEPT !.at = "supersede", !.version = v] \in EditRows
    BY DEF EditIdle, EditRows
  <2> QED BY <1>0, <1>4, <1>a, <1>b, <2>1 DEF ReadDraft
<1>5. ASSUME NEW e \in Editors, FindActive(e) PROVE StartInv'
  <2>1. [edits[e] EXCEPT !.at = "commit", !.seen = ActiveVersions] \in EditRows
    BY <1>0 DEF EditRows, ActiveVersions
  <2> QED BY <1>0, <1>5, <1>a, <1>b, <2>1 DEF FindActive
<1>6. ASSUME NEW e \in Editors, Activate(e) PROVE StartInv'
  <2>1. definitions' \in [Versions -> {"absent", "draft", "active", "superseded"}]
    BY <1>0, <1>6 DEF Activate
  <2> QED BY <1>6, <1>a, <1>b, <1>c, <2>1 DEF Activate
<1>7. ASSUME NEW c \in StartCalls, AskApproval(c) PROVE StartInv'
  <2>1. PICK rec : rec = [starts[c] EXCEPT !.at = "asked", !.shown = ActiveVersion]
    OBVIOUS
  <2>2. rec \in StartCallRows /\ rec.at = "asked"
    <3>1. starts[c] \in StartCallRows
      BY <1>0
    <3> QED BY <1>g, <2>1, <3>1 DEF StartCallRows, StartPlaces
  <2> QED BY <1>0, <1>7, <1>e, <2>1, <2>2 DEF AskApproval
<1>8. ASSUME NEW c \in StartCalls, Decide(c) PROVE StartInv'
  <2>1. PICK at \in {"approved", "refused"} : StartGoes(c, [starts[c] EXCEPT !.at = at])
    BY <1>8 DEF Decide
  <2>2. PICK rec : rec = [starts[c] EXCEPT !.at = at]
    OBVIOUS
  <2>3. rec \in StartCallRows /\ rec.at \notin {"find", "create"}
    BY <1>0, <2>2 DEF StartCallRows, StartPlaces
  <2> QED BY <1>0, <1>8, <1>e, <2>1, <2>2, <2>3 DEF Decide
<1>9. ASSUME NEW c \in StartCalls, BuildSnapshot(c) PROVE StartInv'
  <2>1. PICK rec : rec = [starts[c] EXCEPT !.at = IF ActiveVersion = NoVersion THEN "refused" ELSE "find",
                                           !.found = ActiveVersion]
    OBVIOUS
  <2>2. starts[c] \in StartCallRows /\ ActiveVersion \in Versions \cup {NoVersion}
    BY <1>0, <1>f, <1>g
  <2>3. CASE ActiveVersion = NoVersion
    <3>1. rec = [starts[c] EXCEPT !.at = "refused", !.found = ActiveVersion]
      BY <2>1, <2>3
    <3>2. rec \in StartCallRows /\ rec.at = "refused"
      BY <2>2, <3>1 DEF StartCallRows, StartPlaces
    <3> QED BY <1>0, <1>9, <1>e, <2>1, <3>2 DEF BuildSnapshot
  <2>4. CASE ActiveVersion # NoVersion
    <3>1. rec = [starts[c] EXCEPT !.at = "find", !.found = ActiveVersion]
      BY <2>1, <2>4
    <3>2. rec \in StartCallRows /\ rec.at = "find" /\ rec.found = ActiveVersion
      BY <2>2, <3>1 DEF StartCallRows, StartPlaces
    <3> QED BY <1>0, <1>9, <1>e, <2>1, <2>2, <2>4, <3>2 DEF BuildSnapshot
  <2> QED BY <2>3, <2>4
<1>10. ASSUME NEW c \in StartCalls, FindEquivalent(c) PROVE StartInv'
  <2>1. PICK at \in {"answered", "create"} : StartGoes(c, [starts[c] EXCEPT !.at = at])
    BY <1>10 DEF FindEquivalent
  <2>2. PICK rec : rec = [starts[c] EXCEPT !.at = at]
    OBVIOUS
  <2>3. rec \in StartCallRows /\ rec.found = starts[c].found
    BY <1>0, <2>2 DEF StartCallRows, StartPlaces
  <2>4. starts[c].found \in Versions
    BY <1>0, <1>10 DEF FindEquivalent
  <2> QED BY <1>0, <1>10, <1>e, <2>1, <2>2, <2>3, <2>4 DEF FindEquivalent
<1>11. ASSUME NEW c \in StartCalls, CreateRun(c) PROVE StartInv'
  <2>1. PICK rec : rec = [starts[c] EXCEPT !.at = "answered"]
    OBVIOUS
  <2>2. rec \in StartCallRows /\ rec.at = "answered" /\ StartGoes(c, rec)
    BY <1>0, <1>11, <2>1 DEF StartCallRows, StartPlaces, CreateRun
  <2>3. PICK row : row = [call |-> c, version |-> starts[c].found, active |-> TRUE]
    OBVIOUS
  <2>4. row \in [call : StartCalls, version : Versions, active : BOOLEAN]
    BY <1>0, <1>11, <2>3 DEF CreateRun
  <2>5. runs' = runs \/ runs' = Append(runs, row)
    BY <1>11, <2>3 DEF CreateRun
  <2>6. \A i \in DOMAIN runs' : runs'[i] \in [call : StartCalls, version : Versions, active : BOOLEAN]
    <3>1. CASE runs' = runs
      BY <1>0, <3>1
    <3>2. CASE runs' = Append(runs, row)
      <4>1. runs \in Seq(RunRows)
        BY DEF CallInv
      <4>2. DOMAIN runs' = 1..(Len(runs) + 1) /\ DOMAIN runs = 1..Len(runs) /\ Len(runs) \in Nat
        BY <3>2, <4>1
      <4>3. runs'[Len(runs) + 1] = row /\ \A i \in DOMAIN runs : runs'[i] = runs[i]
        BY <3>2, <4>1
      <4> QED BY <1>0, <2>4, <4>2, <4>3
    <3> QED BY <2>5, <3>1, <3>2
  <2> QED BY <1>11, <1>e, <2>2, <2>6 DEF CreateRun
<1>12. ASSUME NEW c \in StartCalls, Replay(c) PROVE StartInv'
  <2>1. StartIdle \in StartCallRows /\ StartIdle.at = "called"
    BY DEF StartIdle, StartCallRows, StartPlaces
  <2> QED BY <1>0, <1>12, <1>e, <2>1 DEF Replay
<1>13. CASE RunEnds
  <2>1. PICK i \in DOMAIN runs : runs' = [runs EXCEPT ![i].active = FALSE]
    BY <1>13 DEF RunEnds
  <2>2. DOMAIN runs' = DOMAIN runs
    BY <2>1
  <2>3. \A j \in DOMAIN runs : runs'[j] = IF j = i THEN [runs[i] EXCEPT !.active = FALSE] ELSE runs[j]
    BY <2>1
  <2>4. [runs[i] EXCEPT !.active = FALSE] \in [call : StartCalls, version : Versions, active : BOOLEAN]
    BY <1>0
  <2> QED BY <1>0, <1>13, <1>d, <2>2, <2>3, <2>4 DEF RunEnds
<1> QED BY <1>1, <1>2, <1>3, <1>4, <1>5, <1>6, <1>7, <1>8, <1>9, <1>10, <1>11, <1>12, <1>13 DEF StartNext

LEMMA StartTypes == StartInit /\ [][StartNext]_startVars => []StartTypeOK
<1>1. StartInit => StartInv /\ CallInv
  BY DEF StartInit, StartInv, StartTypeOK, StartIdle, EditIdle, CallInv, StartCallRows, StartPlaces
<1>2. StartInv /\ CallInv /\ [StartNext]_startVars => StartInv' /\ CallInv'
  BY StartInvStep, CallStep
<1>3. StartInv => StartTypeOK
  BY DEF StartInv
<1> QED BY <1>1, <1>2, <1>3, PTL

\* The rows of a monitor.  A slot with a window has a platform for it.
WorkingRecords == {row \in SlotRecords :
    row.at \in {"crawling", "crawled", "persisted", "broken"} => row.todo # {}}

MonitorTyped ==
    /\ MonitorTypeOK
    /\ stored \in [Platforms -> SUBSET Instants]
    /\ slots \in [Slots -> WorkingRecords]

LEMMA MonitorTypedStep == ASSUME MonitorTyped, [MonitorNext]_monitorVars PROVE MonitorTyped'
<1>0. /\ clock \in Instants
      /\ executions \in [Instants -> ExecutionRows]
      /\ cursors \in [Platforms -> Instants \cup {NoCursor}]
      /\ stored \in [Platforms -> SUBSET Instants]
      /\ slots \in [Slots -> WorkingRecords]
      /\ monitorCuts \in 0..MaxMonitorCuts
  BY DEF MonitorTyped, MonitorTypeOK
<1>a. ASSUME clock' \in Instants, executions' \in [Instants -> ExecutionRows],
             cursors' \in [Platforms -> Instants \cup {NoCursor}],
             stored' \in [Platforms -> SUBSET Instants], slots' \in [Slots -> WorkingRecords],
             monitorCuts' \in 0..MaxMonitorCuts
      PROVE  MonitorTyped'
  BY <1>a DEF MonitorTyped, MonitorTypeOK, WorkingRecords, SlotRecords
<1>b. SlotIdle \in WorkingRecords /\ 0 \in Instants /\ Instants \subseteq Int
  BY MonitorAssumption DEF SlotIdle, WorkingRecords, SlotRecords, SlotPlaces, Instants
<1>c. ASSUME NEW s \in Slots, NEW rec \in WorkingRecords, slots' = [slots EXCEPT ![s] = rec]
      PROVE  slots' \in [Slots -> WorkingRecords]
  BY <1>0, <1>c
<1>d. ASSUME NEW s \in Slots, SlotFails(s) PROVE slots' \in [Slots -> WorkingRecords]
  <2>1. PICK rec : rec = [SlotIdle EXCEPT !.at = "failing", !.exec = slots[s].exec]
    OBVIOUS
  <2>2. rec \in WorkingRecords
    BY <1>0, <1>b, <2>1 DEF WorkingRecords, SlotRecords, SlotPlaces
  <2> QED BY <1>c, <1>d, <2>1, <2>2 DEF SlotFails
<1>e. ASSUME NEW s \in Slots, SlotRests(s) PROVE slots' \in [Slots -> WorkingRecords]
  BY <1>b, <1>c, <1>e DEF SlotRests
<1>f. ASSUME NEW s \in Slots, slots[s].todo # {}, SlotBreaks(s) PROVE slots' \in [Slots -> WorkingRecords]
  <2>1. PICK rec : rec = [slots[s] EXCEPT !.at = "broken", !.from = 0]
    OBVIOUS
  <2>2. slots[s] \in SlotRecords /\ 0 \in Instants
    BY <1>0, <1>b DEF WorkingRecords
  <2>3. rec \in SlotRecords /\ rec.todo = slots[s].todo
    BY <2>1, <2>2 DEF SlotRecords, SlotPlaces
  <2>4. rec \in WorkingRecords
    BY <1>f, <2>3 DEF WorkingRecords
  <2> QED BY <1>c, <1>f, <2>1, <2>4 DEF SlotBreaks
<1>g. ASSUME NEW s \in Slots, NEW failed \in SUBSET Platforms, PlatformDone(s, failed)
      PROVE  slots' \in [Slots -> WorkingRecords]
  <2>1. PICK rec : rec = [slots[s] EXCEPT !.at = "looping", !.from = 0,
                  !.todo = slots[s].todo \ {Current(s)}, !.failed = slots[s].failed \cup failed]
    OBVIOUS
  <2>2. rec \in WorkingRecords
    BY <1>0, <1>b, <2>1 DEF WorkingRecords, SlotRecords, SlotPlaces
  <2> QED BY <1>c, <1>g, <2>1, <2>2 DEF PlatformDone
<1>h. ASSUME NEW t, NEW row \in ExecutionRows, executions' = [executions EXCEPT ![t] = row]
      PROVE  executions' \in [Instants -> ExecutionRows]
  BY <1>0, <1>h
<1>i. ASSUME NEW t, Create(t) PROVE executions' \in [Instants -> ExecutionRows]
  BY <1>0, <1>i DEF Create, ExecutionRows
<1>j. \A s \in Slots : slots[s] \in WorkingRecords
  BY <1>0
<1>k. ASSUME NEW s \in Slots, NEW outcome \in ExecutionEnded, EndExecution(s, outcome)
      PROVE  executions' \in [Instants -> ExecutionRows]
  BY <1>h, <1>k DEF EndExecution, ExecutionRows
<1>1. CASE UNCHANGED monitorVars
  BY <1>0, <1>a, <1>1 DEF monitorVars
<1>2. CASE ScheduleDue \/ RunNow
  BY <1>0, <1>a, <1>i, <1>2 DEF ScheduleDue, RunNow
<1>3. CASE ClockTicks
  <2>1. clock + 1 \in Instants
    BY <1>0, <1>3, MonitorAssumption DEF ClockTicks, Instants
  <2> QED BY <1>0, <1>a, <1>3, <2>1 DEF ClockTicks
<1>4. ASSUME NEW s \in Slots, ClaimExecution(s) PROVE MonitorTyped'
  <2>1. PICK t \in Instants :
            /\ executions' = [executions EXCEPT ![t] = [status |-> "running", owner |-> ProcessOf[s], ripe |-> FALSE]]
            /\ slots' = [slots EXCEPT ![s] = [SlotIdle EXCEPT !.at = "claimed", !.exec = t]]
    BY <1>4 DEF ClaimExecution
  <2>2. [status |-> "running", owner |-> ProcessOf[s], ripe |-> FALSE] \in ExecutionRows
    BY DEF ExecutionRows, Processes
  <2>3. [SlotIdle EXCEPT !.at = "claimed", !.exec = t] \in WorkingRecords
    BY <1>b DEF WorkingRecords, SlotRecords, SlotPlaces
  <2> QED BY <1>0, <1>4, <1>a, <1>c, <1>h, <2>1, <2>2, <2>3 DEF ClaimExecution
<1>5. ASSUME NEW s \in Slots, StartExecution(s) PROVE MonitorTyped'
  <2>1. [slots[s] EXCEPT !.at = "looping", !.now = clock, !.todo = Platforms] \in WorkingRecords
    BY <1>0, <1>j DEF WorkingRecords, SlotRecords, SlotPlaces
  <2> QED BY <1>0, <1>5, <1>a, <1>c, <1>e, <2>1 DEF StartExecution
<1>6. ASSUME NEW s \in Slots, LeaseIsLost(s) PROVE MonitorTyped'
  BY <1>0, <1>6, <1>a, <1>d DEF LeaseIsLost, GivesUp
<1>7. ASSUME NEW s \in Slots, OpenWindow(s) PROVE MonitorTyped'
  <2>1. Current(s) \in Platforms
    BY <1>7, <1>j DEF OpenWindow, Current, WorkingRecords, SlotRecords
  <2>2. cursors[Current(s)] = NoCursor \/ cursors[Current(s)] \in Instants
    BY <1>0, <2>1
  <2>3. slots[s].now \in Instants
    BY <1>j DEF WorkingRecords, SlotRecords
  <2>4. MaxOf(0, slots[s].now - Lookback) \in Instants
    BY <2>3, MonitorAssumption DEF MaxOf, Instants
  <2>5. WindowStart(s) \in Instants
    BY <2>2, <2>4 DEF WindowStart
  <2>6. PICK rec : rec = [slots[s] EXCEPT !.at = "crawling", !.from = WindowStart(s)]
    OBVIOUS
  <2>7. slots[s] \in SlotRecords /\ slots[s].todo # {}
    BY <1>7, <1>j DEF OpenWindow, WorkingRecords
  <2>8. rec \in SlotRecords /\ rec.todo = slots[s].todo
    BY <2>5, <2>6, <2>7 DEF SlotRecords, SlotPlaces
  <2>9. rec \in WorkingRecords
    BY <2>7, <2>8 DEF WorkingRecords
  <2> QED BY <1>0, <1>7, <1>a, <1>c, <2>6, <2>9 DEF OpenWindow
<1>8. ASSUME NEW s \in Slots, Crawl(s) PROVE MonitorTyped'
  <2>1. slots[s].todo # {}
    BY <1>8, <1>j DEF Crawl, SlotAt, WorkingRecords
  <2>2. [slots[s] EXCEPT !.at = "crawled"] \in WorkingRecords
    BY <1>j, <2>1 DEF WorkingRecords, SlotRecords, SlotPlaces
  <2> QED BY <1>0, <1>8, <1>a, <1>c, <1>f, <2>1, <2>2 DEF Crawl, SlotGoes, SlotAt
<1>9. ASSUME NEW s \in Slots, PersistBatch(s) PROVE MonitorTyped'
  <2>1. CASE SlotBreaks(s) /\ UNCHANGED stored
    <3>1. slots[s].todo # {}
      BY <1>9, <1>j DEF PersistBatch, SlotAt, WorkingRecords
    <3> QED BY <1>0, <1>9, <1>a, <1>f, <2>1, <3>1 DEF PersistBatch
  <2>2. CASE /\ stored' = [stored EXCEPT ![Current(s)] = @ \cup (slots[s].from)..(slots[s].now - 1)]
             /\ slots' = [slots EXCEPT ![s] = [@ EXCEPT !.at = "persisted", !.from = 0]]
    <3>1. slots[s].from \in Instants /\ slots[s].now \in Instants
      BY <1>j DEF WorkingRecords, SlotRecords
    <3>2. (slots[s].from)..(slots[s].now - 1) \subseteq Instants
      BY <3>1, MonitorAssumption DEF Instants
    <3>3. stored' \in [Platforms -> SUBSET Instants]
      BY <1>0, <2>2, <3>2
    <3>4. [slots[s] EXCEPT !.at = "persisted", !.from = 0] \in WorkingRecords
      BY <1>9, <1>b, <1>j DEF PersistBatch, SlotAt, WorkingRecords, SlotRecords, SlotPlaces
    <3> QED BY <1>0, <1>9, <1>a, <1>c, <2>2, <3>3, <3>4 DEF PersistBatch
  <2> QED BY <1>9, <2>1, <2>2 DEF PersistBatch
<1>10. ASSUME NEW s \in Slots, UpsertCursor(s) PROVE MonitorTyped'
  <2>1. CASE SlotBreaks(s) /\ UNCHANGED cursors
    <3>1. slots[s].todo # {}
      BY <1>10, <1>j DEF UpsertCursor, SlotAt, WorkingRecords
    <3> QED BY <1>0, <1>10, <1>a, <1>f, <2>1, <3>1 DEF UpsertCursor
  <2>2. CASE cursors' = [cursors EXCEPT ![Current(s)] = slots[s].now] /\ PlatformDone(s, {})
    <3>1. slots[s].now \in Instants
      BY <1>j DEF WorkingRecords, SlotRecords
    <3>2. cursors' \in [Platforms -> Instants \cup {NoCursor}]
      BY <1>0, <2>2, <3>1
    <3> QED BY <1>0, <1>10, <1>a, <1>g, <2>2, <3>2 DEF UpsertCursor
  <2> QED BY <1>10, <2>1, <2>2 DEF UpsertCursor
<1>11. ASSUME NEW s \in Slots, RecordFailure(s) PROVE MonitorTyped'
  <2>1. slots' \in [Slots -> WorkingRecords]
    <3>1. CASE cursors[Current(s)] = NoCursor
      BY <1>11, <1>d, <3>1 DEF RecordFailure
    <3>2. CASE cursors[Current(s)] # NoCursor
      <4>1. PlatformDone(s, {Current(s)})
        BY <1>11, <3>2 DEF RecordFailure
      <4>2. Current(s) \in Platforms
        BY <1>11, <1>j DEF RecordFailure, SlotAt, Current, WorkingRecords, SlotRecords
      <4> QED BY <1>g, <4>1, <4>2
    <3> QED BY <3>1, <3>2
  <2> QED BY <1>0, <1>11, <1>a, <2>1 DEF RecordFailure
<1>12. ASSUME NEW s \in Slots, EvaluateAlerts(s) PROVE MonitorTyped'
  <2>1. [slots[s] EXCEPT !.at = "finishing", !.now = 0] \in WorkingRecords
    BY <1>b, <1>j DEF WorkingRecords, SlotRecords, SlotPlaces
  <2> QED BY <1>0, <1>12, <1>a, <1>c, <2>1 DEF EvaluateAlerts
<1>13. ASSUME NEW s \in Slots, FinishExecution(s) PROVE MonitorTyped'
  <2>1. Outcome(s) \in ExecutionEnded
    BY DEF Outcome, ExecutionEnded
  <2> QED BY <1>0, <1>13, <1>a, <1>d, <1>e, <1>k, <2>1 DEF FinishExecution
<1>14. ASSUME NEW s \in Slots, FailExecution(s) PROVE MonitorTyped'
  <2>1. "failed" \in ExecutionEnded
    BY DEF ExecutionEnded
  <2> QED BY <1>0, <1>14, <1>a, <1>e, <1>k, <2>1 DEF FailExecution
<1>15. ASSUME NEW s \in Slots, Heartbeat(s) PROVE MonitorTyped'
  <2>1. ASSUME NEW t \in Instants, executions' = [executions EXCEPT ![t].ripe = FALSE]
        PROVE  executions' \in [Instants -> ExecutionRows]
    BY <1>0, <2>1 DEF ExecutionRows
  <2>3. slots[s].exec \in Instants
    BY <1>j DEF WorkingRecords, SlotRecords
  <2>2. [slots[s] EXCEPT !.lost = TRUE] \in WorkingRecords
    BY <1>j DEF WorkingRecords, SlotRecords
  <2> QED BY <1>0, <1>15, <1>a, <1>c, <2>1, <2>2, <2>3 DEF Heartbeat
<1>16. ASSUME NEW t \in Instants, ExecutionRipens(t) PROVE MonitorTyped'
  <2>1. executions' \in [Instants -> ExecutionRows]
    BY <1>0, <1>16 DEF ExecutionRipens, ExecutionRows
  <2> QED BY <1>0, <1>16, <1>a, <2>1 DEF ExecutionRipens
<1>17. ASSUME NEW process \in Processes, KillScheduler(process) PROVE MonitorTyped'
  <2>1. monitorCuts + 1 \in 0..MaxMonitorCuts
    BY <1>0, <1>17, MonitorAssumption DEF KillScheduler
  <2>2. slots' \in [Slots -> WorkingRecords]
    BY <1>b, <1>j, <1>17 DEF KillScheduler
  <2> QED BY <1>0, <1>17, <1>a, <2>1, <2>2 DEF KillScheduler
<1>18. ASSUME NEW s \in Slots, SlotStep(s) PROVE MonitorTyped'
  BY <1>18, <1>4, <1>5, <1>6, <1>7, <1>8, <1>9, <1>10, <1>11, <1>12, <1>13, <1>14 DEF SlotStep
<1> QED BY <1>1, <1>2, <1>3, <1>15, <1>16, <1>17, <1>18 DEF MonitorNext

LEMMA MonitorTypedStart == MonitorInit => MonitorTyped
<1> SUFFICES ASSUME MonitorInit PROVE MonitorTyped
  OBVIOUS
<1>1. 0 \in Instants /\ 0 \in 0..MaxMonitorCuts
  BY MonitorAssumption DEF Instants
<1>2. NoExecution \in ExecutionRows
  BY DEF NoExecution, ExecutionRows
<1>3. SlotIdle \in WorkingRecords
  BY <1>1 DEF SlotIdle, WorkingRecords, SlotRecords, SlotPlaces
<1> QED BY <1>1, <1>2, <1>3 DEF MonitorInit, MonitorTyped, MonitorTypeOK, WorkingRecords, SlotRecords

LEMMA MonitorTypes == MonitorInit /\ [][MonitorNext]_monitorVars => []MonitorTypeOK
<1>1. MonitorInit => MonitorTyped
  BY MonitorTypedStart
<1>2. MonitorTyped /\ [MonitorNext]_monitorVars => MonitorTyped'
  BY MonitorTypedStep
<1>3. MonitorTyped => MonitorTypeOK
  BY DEF MonitorTyped
<1> QED BY <1>1, <1>2, <1>3, PTL

(***************************** The times of a monitor *********************)

\* A time of the grid becomes an execution while it is the present.
CreatedNow ==
    \A t \in Instants : executions[t].status = "absent" /\ executions'[t].status # "absent" => t = clock

\* The row of an execution that has ended is not written again.
EndedStay ==
    \A t \in Instants : executions[t].status \in ExecutionEnded => executions'[t] = executions[t]

\* No execution is of the future, and a lease runs out only on one that is under way.
TimesInv ==
    /\ clock \in Instants /\ executions \in [Instants -> ExecutionRows]
    /\ \A t \in Scheduled : t <= clock
    /\ \A t \in Instants : executions[t].ripe => executions[t].status = "running"

\* The first time of the grid after the last execution that has not passed, for any interval.
LEMMA GridAhead ==
    ASSUME NEW now \in Nat, NEW last \in Nat, last <= now, NEW interval \in Nat \ {0}, NEW jumps,
           jumps = MaxOf(1, (now - last + interval - 1) \div interval)
    PROVE  last + jumps * interval \in Nat /\ last + jumps * interval >= now /\ last + jumps * interval > last
<1>1. PICK n \in Nat : n = now - last + interval - 1
  OBVIOUS
<1>2. PICK q \in Nat : q = n \div interval
  OBVIOUS
<1>3. n < q * interval + interval
  BY <1>2
<1>4. q * interval \in Nat
  OBVIOUS
<1>5. q * interval >= now - last
  BY <1>1, <1>3, <1>4
<1>6. CASE jumps = q /\ q >= 1
  <2>1. q * interval >= interval
    BY <1>6
  <2> QED BY <1>4, <1>5, <1>6, <2>1
<1>7. CASE jumps = 1 /\ q < 1
  <2>1. q * interval = 0
    BY <1>7
  <2> QED BY <1>5, <1>7, <2>1
<1>8. (jumps = q /\ q >= 1) \/ (jumps = 1 /\ q < 1)
  BY <1>1, <1>2 DEF MaxOf
<1> QED BY <1>6, <1>7, <1>8

LEMMA HasLatest ==
    ASSUME NEW T \in SUBSET Instants, T # {} PROVE \E t \in T : \A u \in T : u <= t
<1>1. T \subseteq 0 .. MaxInstant /\ MaxInstant \in Nat
  BY MonitorAssumption DEF Instants
<1>2. PICK K : K = {n \in Nat : MaxInstant - n \in T}
  OBVIOUS
<1>3. \A t \in T : MaxInstant - t \in K
  BY <1>1, <1>2
<1>4. K \in SUBSET Nat /\ K # {}
  BY <1>2, <1>3
<1>5. PICK n \in K : \A m \in K : n <= m
  BY <1>4, NatHasLeast
<1>6. MaxInstant - n \in T /\ n \in Nat
  BY <1>2
<1>7. ASSUME NEW u \in T PROVE u <= MaxInstant - n
  <2>1. n <= MaxInstant - u /\ u \in Nat
    BY <1>1, <1>3, <1>5
  <2> QED BY <1>1, <1>6, <2>1
<1> QED BY <1>6, <1>7

\* The schedule never looks back: what it creates is of this instant, and was not there.
LEMMA DueIsNow ==
    ASSUME TimesInv, ScheduleDue PROVE NextAt = clock /\ executions[clock].status = "absent"
<1>1. clock \in Nat /\ NextAt <= clock /\ Interval \in Nat \ {0}
  BY MonitorAssumption DEF TimesInv, ScheduleDue, Instants
<1>2. CASE Scheduled = {}
  BY <1>2 DEF NextAt, Scheduled, TimesInv
<1>3. CASE Scheduled # {}
  <2>1. PICK last : last = CHOOSE t \in Scheduled : \A u \in Scheduled : u <= t
    OBVIOUS
  <2>2. last \in Scheduled /\ \A u \in Scheduled : u <= last
    <3>1. Scheduled \in SUBSET Instants
      BY DEF Scheduled
    <3> QED BY <1>3, <2>1, <3>1, HasLatest
  <2>3. last \in Nat /\ last <= clock
    BY <2>2, MonitorAssumption DEF TimesInv, Scheduled, Instants
  <2>4. PICK jumps : jumps = MaxOf(1, (clock - last + Interval - 1) \div Interval)
    OBVIOUS
  <2>5. NextAt = last + jumps * Interval
    BY <1>3, <2>1, <2>4 DEF NextAt
  <2>6. NextAt \in Nat /\ NextAt >= clock /\ NextAt > last
    BY <1>1, <2>3, <2>4, <2>5, GridAhead
  <2>7. clock \notin Scheduled
    BY <1>1, <2>2, <2>3, <2>6
  <2> QED BY <1>1, <2>6, <2>7 DEF Scheduled, TimesInv
<1> QED BY <1>2, <1>3

\* One row is written, and it is not one that has ended.
LEMMA RowWritten ==
    ASSUME TimesInv, NEW t \in Instants, NEW row \in ExecutionRows, executions' = [executions EXCEPT ![t] = row],
           executions[t].status \notin ExecutionEnded, clock' = clock, row.status # "absent",
           executions[t].status # "absent" \/ t = clock, row.ripe => row.status = "running"
    PROVE  TimesInv' /\ CreatedNow /\ EndedStay
<1>1. \A u \in Instants : executions'[u] = IF u = t THEN row ELSE executions[u]
  BY DEF TimesInv
<1>2. executions' \in [Instants -> ExecutionRows]
  BY DEF TimesInv
<1>3. t <= clock
  BY MonitorAssumption DEF TimesInv, Scheduled, Instants
<1>4. \A u \in Scheduled' : u <= clock
  BY <1>1, <1>3 DEF TimesInv, Scheduled
<1>5. \A u \in Instants : executions'[u].ripe => executions'[u].status = "running"
  BY <1>1 DEF TimesInv
<1>6. CreatedNow /\ EndedStay
  BY <1>1 DEF CreatedNow, EndedStay
<1> QED BY <1>2, <1>4, <1>5, <1>6 DEF TimesInv

LEMMA TimesStep ==
    ASSUME MonitorTyped, TimesInv, [MonitorNext]_monitorVars PROVE TimesInv' /\ CreatedNow /\ EndedStay
<1>1. executions \in [Instants -> ExecutionRows] /\ clock \in Instants
      /\ \A s \in Slots : slots[s].exec \in Instants
  BY DEF TimesInv, MonitorTyped, MonitorTypeOK
<1>2. ASSUME UNCHANGED <<executions, clock>> PROVE TimesInv' /\ CreatedNow /\ EndedStay
  BY <1>2 DEF TimesInv, Scheduled, CreatedNow, EndedStay
<1>3. ASSUME NEW t \in Instants, Create(t), t = clock, executions[t].status = "absent", clock' = clock
      PROVE  TimesInv' /\ CreatedNow /\ EndedStay
  <2>1. PICK row : row = [executions[t] EXCEPT !.status = "scheduled"]
    OBVIOUS
  <2>2. row \in ExecutionRows /\ row.status = "scheduled" /\ row.ripe = executions[t].ripe
    BY <1>1, <2>1 DEF ExecutionRows
  <2>4. ~row.ripe
    BY <1>3, <2>2 DEF TimesInv
  <2>3. executions' = [executions EXCEPT ![t] = row]
    BY <1>3, <2>1 DEF Create
  <2> QED BY <1>3, <2>2, <2>3, <2>4, RowWritten DEF ExecutionEnded
<1>4. CASE ScheduleDue \/ RunNow
  BY <1>1, <1>3, <1>4, DueIsNow DEF ScheduleDue, RunNow
<1>5. CASE ClockTicks
  <2>1. clock' = clock + 1 /\ clock' \in Instants /\ executions' = executions
    BY <1>1, <1>5, MonitorAssumption DEF ClockTicks, Instants
  <2>2. \A t \in Scheduled' : t <= clock'
    BY <1>1, <2>1, MonitorAssumption DEF TimesInv, Scheduled, Instants
  <2> QED BY <2>1, <2>2 DEF TimesInv, CreatedNow, EndedStay
<1>6. ASSUME NEW s \in Slots, ClaimExecution(s) PROVE TimesInv' /\ CreatedNow /\ EndedStay
  <2>1. PICK t \in Instants :
            /\ ExecutionClaimable(t)
            /\ executions' = [executions EXCEPT ![t] =
                   [status |-> "running", owner |-> ProcessOf[s], ripe |-> FALSE]]
    BY <1>6 DEF ClaimExecution
  <2>2. PICK row : row = [status |-> "running", owner |-> ProcessOf[s], ripe |-> FALSE]
    OBVIOUS
  <2>3. row \in ExecutionRows /\ row.status = "running"
    BY <2>2 DEF ExecutionRows, Processes
  <2> QED BY <1>6, <2>1, <2>2, <2>3, RowWritten DEF ExecutionClaimable, ExecutionEnded, ClaimExecution
<1>7. ASSUME NEW s \in Slots, NEW outcome \in ExecutionEnded, Fenced(s), EndExecution(s, outcome), clock' = clock
      PROVE  TimesInv' /\ CreatedNow /\ EndedStay
  <2>1. PICK row : row = [status |-> outcome, owner |-> "nobody", ripe |-> FALSE]
    OBVIOUS
  <2>2. row \in ExecutionRows /\ row.status \in ExecutionEnded /\ ~row.ripe
    BY <2>1 DEF ExecutionRows
  <2>3. executions' = [executions EXCEPT ![slots[s].exec] = row]
    BY <1>7, <2>1 DEF EndExecution
  <2>4. executions[slots[s].exec].status = "running"
    BY <1>7 DEF Fenced, Row
  <2> QED BY <1>1, <1>7, <2>2, <2>3, <2>4, RowWritten DEF ExecutionEnded
<1>8. ASSUME NEW s \in Slots, FinishExecution(s) \/ FailExecution(s) PROVE TimesInv' /\ CreatedNow /\ EndedStay
  <2>1. Outcome(s) \in ExecutionEnded /\ "failed" \in ExecutionEnded
    BY DEF Outcome, ExecutionEnded
  <2> QED BY <1>2, <1>7, <1>8, <2>1 DEF FinishExecution, FailExecution
<1>9. ASSUME NEW t \in Instants, NEW ripe \in BOOLEAN, executions' = [executions EXCEPT ![t].ripe = ripe],
             executions[t].status = "running", clock' = clock
      PROVE  TimesInv' /\ CreatedNow /\ EndedStay
  <2>1. PICK row : row = [executions[t] EXCEPT !.ripe = ripe]
    OBVIOUS
  <2>2. row \in ExecutionRows /\ row.status = executions[t].status
    BY <1>1, <2>1 DEF ExecutionRows
  <2>3. executions' = [executions EXCEPT ![t] = row]
    BY <1>9, <2>1
  <2> QED BY <1>9, <2>2, <2>3, RowWritten DEF ExecutionEnded
<1>10. ASSUME NEW t \in Instants, ExecutionRipens(t) PROVE TimesInv' /\ CreatedNow /\ EndedStay
  BY <1>9, <1>10 DEF ExecutionRipens
<1>11. ASSUME NEW s \in Slots, Heartbeat(s) PROVE TimesInv' /\ CreatedNow /\ EndedStay
  <2>1. PICK t \in Instants : t = slots[s].exec
    BY <1>1
  <2>2. CASE executions[t].ripe /\ executions' = [executions EXCEPT ![t].ripe = FALSE]
    <3>1. executions[t].status = "running"
      BY <2>2 DEF TimesInv
    <3> QED BY <1>9, <1>11, <2>2, <3>1 DEF Heartbeat
  <2>3. CASE UNCHANGED executions
    BY <1>2, <1>11, <2>3 DEF Heartbeat
  <2> QED BY <1>11, <2>1, <2>2, <2>3 DEF Heartbeat, Row
<1>12. ASSUME NEW s \in Slots,
              \/ StartExecution(s) \/ LeaseIsLost(s) \/ OpenWindow(s) \/ Crawl(s) \/ PersistBatch(s)
              \/ UpsertCursor(s) \/ RecordFailure(s) \/ EvaluateAlerts(s)
       PROVE  TimesInv' /\ CreatedNow /\ EndedStay
  BY <1>2, <1>12 DEF StartExecution, LeaseIsLost, GivesUp, OpenWindow, Crawl, PersistBatch, UpsertCursor,
                     RecordFailure, EvaluateAlerts
<1>13. CASE UNCHANGED monitorVars \/ \E process \in Processes : KillScheduler(process)
  BY <1>2, <1>13 DEF monitorVars, KillScheduler
<1> QED BY <1>4, <1>5, <1>6, <1>8, <1>10, <1>11, <1>12, <1>13 DEF MonitorNext, SlotStep

LEMMA TimesStart == MonitorInit => TimesInv
<1> SUFFICES ASSUME MonitorInit PROVE TimesInv
  OBVIOUS
<1>1. \A t \in Instants : executions[t] = NoExecution
  BY DEF MonitorInit
<1>2. NoExecution \in ExecutionRows /\ NoExecution.status = "absent" /\ NoExecution.ripe = FALSE
  BY DEF NoExecution, ExecutionRows
<1>3. clock = 0 /\ clock \in Instants
  BY MonitorAssumption DEF MonitorInit, Instants
<1>4. executions \in [Instants -> ExecutionRows]
  BY <1>1, <1>2 DEF MonitorInit
<1>5. \A t \in Instants : executions[t].status = "absent" /\ executions[t].ripe = FALSE
  BY <1>1, <1>2
<1>6. Scheduled = {}
  BY <1>5 DEF Scheduled
<1> QED BY <1>3, <1>4, <1>5, <1>6 DEF TimesInv

\* The grid of a monitor is not caught up with: an execution is created only at the instant it is
\* for.  A time that passes while nobody polls, or while the one before is late, is skipped for
\* good, whatever the interval (compute_next_scheduled_at, _schedule_due).
THEOREM ExecutionsAreCreatedNow == MonitorSpec => [][CreatedNow]_monitorVars
<1>1. TimesInv /\ MonitorTyped /\ [MonitorNext]_monitorVars => TimesInv' /\ MonitorTyped' /\ [CreatedNow]_monitorVars
  BY TimesStep, MonitorTypedStep
<1> QED BY <1>1, TimesStart, MonitorTypedStart, PTL DEF MonitorSpec

\* An execution ends once: what its worker, another one or the schedule do later, of the same
\* process too, leaves its row as it is (update_execution_if_owner, refresh_execution_lease).
THEOREM ExecutionsEndOnce == MonitorSpec => [][EndedStay]_monitorVars
<1>1. TimesInv /\ MonitorTyped /\ [MonitorNext]_monitorVars => TimesInv' /\ MonitorTyped' /\ [EndedStay]_monitorVars
  BY TimesStep, MonitorTypedStep
<1> QED BY <1>1, TimesStart, MonitorTypedStart, PTL DEF MonitorSpec

=============================================================================
