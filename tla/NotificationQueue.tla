------------------------- MODULE NotificationQueue -------------------------
(***************************************************************************)
(* The notification outbox: events wait until every subscription they are  *)
(* relevant to has its delivery sent or given up.  A dispatcher lists a    *)
(* batch of waiting events, posts to the endpoint of each subscription,    *)
(* and marks the settled events delivered when it is through the batch.    *)
(*                                                                         *)
(* There is no lease: dispatchers of several processes may work on the     *)
(* same event.  Every action is one transaction, one HTTP request or the   *)
(* passing of a deadline; an exception of the database ends the tick of    *)
(* the dispatcher like a kill of its process does.                         *)
(*                                                                         *)
(* Abstracted: the payload, its signature and the address checks; which    *)
(* events a subscription matches; the time a backoff takes.                *)
(***************************************************************************)
EXTENDS Naturals, FiniteSets

CONSTANTS
    Events,
    Subscriptions,  \* the enabled webhook subscriptions relevant to the events
    Dispatchers,
    BatchLimit,     \* how many events a tick lists
    MaxAttempts     \* MAX_ATTEMPTS

ASSUME NotifyAssumption == MaxAttempts \in Nat \ {0}

VARIABLES
    events,         \* event -> "absent", "waiting" or "delivered"
    deliveries,     \* <<event, subscription>> -> row of delivery_attempts
    dispatcher,     \* what each dispatcher is doing
    received,       \* the deliveries whose endpoint has got the event (history)
    givenUp         \* the deliveries ever written dead (history)

notifyVars == <<events, deliveries, dispatcher, received, givenUp>>

Deliveries == Events \X Subscriptions
DeliveryRows == [status : {"absent", "pending", "sent", "dead", "retry_wait"},
                 attempt : 1..MaxAttempts, due : BOOLEAN]
NoDelivery == [status |-> "absent", attempt |-> 1, due |-> TRUE]

\* batch: events still to dispatch; event: the one under way, as a set; todo:
\* its subscriptions still to serve; settled: all_terminal; done: events to
\* mark; to: the delivery under way; seen: its attempt when read; answer: how
\* the endpoint answered.
DispatcherIdle == [at |-> "idle", batch |-> {}, event |-> {}, todo |-> {}, settled |-> TRUE,
                   done |-> {}, to |-> <<>>, seen |-> 0, answer |-> "none"]

NotifyInit ==
    /\ events = [e \in Events |-> "absent"]
    /\ deliveries = [d \in Deliveries |-> NoDelivery]
    /\ dispatcher = [w \in Dispatchers |-> DispatcherIdle]
    /\ received = {}
    /\ givenUp = {}

DispatcherAt(w, place) == dispatcher[w].at = place
DispatcherIs(w, rec) == dispatcher' = [dispatcher EXCEPT ![w] = rec]

\* enqueue_event: an event with the dedupe key of another is that other.
EnqueueEvent(e) ==
    /\ events[e] = "absent"
    /\ events' = [events EXCEPT ![e] = "waiting"]
    /\ UNCHANGED <<deliveries, dispatcher, received, givenUp>>

Undelivered == {e \in Events : events[e] = "waiting"}

NotifyTick(w) ==
    /\ DispatcherAt(w, "idle")
    /\ Undelivered # {}
    /\ \E batch \in SUBSET Undelivered :
         /\ \/ batch = Undelivered /\ Cardinality(batch) <= BatchLimit
            \/ Cardinality(batch) = BatchLimit
         /\ DispatcherIs(w, [DispatcherIdle EXCEPT !.at = "batch", !.batch = batch])
    /\ UNCHANGED <<events, deliveries, received, givenUp>>

\* _dispatch_event lists the subscriptions and endpoints, and serves those
\* outside their quiet hours whose endpoint is verified; any may be.
DispatchEvent(w) ==
    /\ DispatcherAt(w, "batch")
    /\ \E e \in dispatcher[w].batch, usable \in SUBSET Subscriptions :
         DispatcherIs(w, [dispatcher[w] EXCEPT !.at = "event", !.batch = @ \ {e}, !.event = {e},
                              !.todo = usable, !.settled = (usable = Subscriptions)])
    /\ UNCHANGED <<events, deliveries, received, givenUp>>

\* Mutant: a delivery that waits for its retry holds the event back no more.
PassedAny(row) == row.status \in {"sent", "dead"} \/ ~row.due

\* What lets the loop pass on from a delivery without holding the event back.
Passed(row) == row.status \in {"sent", "dead"}

\* A delivery is got or created and read: it is settled, waits, or is posted.
OpenDelivery(w) ==
    /\ DispatcherAt(w, "event")
    /\ \E s \in dispatcher[w].todo, e \in dispatcher[w].event :
         LET row  == deliveries[<<e, s>>]
             skip == [dispatcher[w] EXCEPT !.todo = @ \ {s}]
         IN  \/ /\ Passed(row)
                /\ DispatcherIs(w, skip)
                /\ UNCHANGED deliveries
             \/ /\ ~Passed(row)
                /\ ~row.due
                /\ DispatcherIs(w, [skip EXCEPT !.settled = FALSE])
                /\ UNCHANGED deliveries
             \/ /\ ~Passed(row)
                /\ row.due
                /\ deliveries' = IF row.status = "absent"
                                 THEN [deliveries EXCEPT ![<<e, s>>].status = "pending"] ELSE deliveries
                /\ DispatcherIs(w, [skip EXCEPT !.at = "posting", !.to = <<e, s>>, !.seen = row.attempt])
    /\ UNCHANGED <<events, received, givenUp>>

\* The endpoint answers 2xx, with a fatal status, or to try later; or the
\* request fails, with the event received or not.
Post(w) ==
    /\ DispatcherAt(w, "posting")
    /\ \E answer \in {"sent", "dead", "later"} :
         /\ DispatcherIs(w, [dispatcher[w] EXCEPT !.at = "answered", !.answer = answer])
         /\ \/ answer # "sent" /\ UNCHANGED received
            \/ received' = received \cup {dispatcher[w].to}
    /\ UNCHANGED <<events, deliveries, givenUp>>

\* Mutant: a delivery is retried for ever.
RetriedForEver(w) ==
    IF dispatcher[w].answer = "later" THEN "retry_wait" ELSE dispatcher[w].answer

NewStatus(w) ==
    CASE dispatcher[w].answer # "later"    -> dispatcher[w].answer
      [] dispatcher[w].seen >= MaxAttempts -> "dead"
      [] OTHER                             -> "retry_wait"

\* update_delivery_status, by primary key.
WriteDelivery(w) ==
    /\ DispatcherAt(w, "answered")
    /\ LET status == NewStatus(w)
       IN  /\ deliveries' = [deliveries EXCEPT ![dispatcher[w].to] =
                [status |-> status, due |-> status # "retry_wait",
                 attempt |-> IF status = "retry_wait" THEN dispatcher[w].seen + 1 ELSE dispatcher[w].seen]]
           /\ givenUp' = IF status = "dead" THEN givenUp \cup {dispatcher[w].to} ELSE givenUp
           /\ DispatcherIs(w, [dispatcher[w] EXCEPT !.at = "event", !.to = <<>>, !.seen = 0,
                  !.answer = "none", !.settled = @ /\ status # "retry_wait"])
    /\ UNCHANGED <<events, received>>

EventServed(w) ==
    /\ DispatcherAt(w, "event")
    /\ dispatcher[w].todo = {}
    /\ DispatcherIs(w, [dispatcher[w] EXCEPT !.at = "batch", !.event = {}, !.settled = TRUE,
           !.done = IF dispatcher[w].settled THEN @ \cup dispatcher[w].event ELSE @])
    /\ UNCHANGED <<events, deliveries, received, givenUp>>

MarkDelivered(w) ==
    /\ DispatcherAt(w, "batch")
    /\ dispatcher[w].batch = {}
    /\ events' = [e \in Events |-> IF e \in dispatcher[w].done THEN "delivered" ELSE events[e]]
    /\ DispatcherIs(w, DispatcherIdle)
    /\ UNCHANGED <<deliveries, received, givenUp>>

KillDispatcher(w) ==
    /\ ~DispatcherAt(w, "idle")
    /\ DispatcherIs(w, DispatcherIdle)
    /\ UNCHANGED <<events, deliveries, received, givenUp>>

\* next_retry_at passes.
RetryComesDue(d) ==
    /\ ~deliveries[d].due
    /\ deliveries' = [deliveries EXCEPT ![d].due = TRUE]
    /\ UNCHANGED <<events, dispatcher, received, givenUp>>

\* The API puts a delivery back, whatever its status: the event is not touched.
RetryDelivery(d) ==
    /\ deliveries[d].status \in {"sent", "dead", "retry_wait"}
    /\ deliveries' = [deliveries EXCEPT ![d] = [@ EXCEPT !.status = "pending", !.due = TRUE]]
    /\ UNCHANGED <<events, dispatcher, received, givenUp>>

NotifyNext ==
    \/ \E e \in Events : EnqueueEvent(e)
    \/ \E w \in Dispatchers :
         \/ NotifyTick(w) \/ DispatchEvent(w) \/ OpenDelivery(w) \/ Post(w)
         \/ WriteDelivery(w) \/ EventServed(w) \/ MarkDelivered(w) \/ KillDispatcher(w)
    \/ \E d \in Deliveries : RetryComesDue(d) \/ RetryDelivery(d)

NotifySpec == NotifyInit /\ [][NotifyNext]_notifyVars

---------------------------------------------------------------------------
(* Properties *)

NotifyTypeOK ==
    /\ events \in [Events -> {"absent", "waiting", "delivered"}]
    /\ deliveries \in [Deliveries -> DeliveryRows]
    /\ \A w \in Dispatchers :
         /\ dispatcher[w].at \in {"idle", "batch", "event", "posting", "answered"}
         /\ dispatcher[w].seen \in 0..MaxAttempts
         /\ dispatcher[w].batch \cup dispatcher[w].event \cup dispatcher[w].done \subseteq Events
         /\ dispatcher[w].todo \subseteq Subscriptions
    /\ received \cup givenUp \subseteq Deliveries

\* An event is marked delivered only when the endpoint of every subscription
\* has got it or was given up: at-least-once, though dispatchers overlap,
\* write answers over each other's, work on batches listed long ago, die
\* between request and answer, and though operators put deliveries back.
DeliveredIsTold ==
    \A e \in Events : events[e] = "delivered" =>
        \A s \in Subscriptions : <<e, s>> \in received \cup givenUp
=============================================================================
