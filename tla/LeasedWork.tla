---------------------------- MODULE LeasedWork ----------------------------
(***************************************************************************)
(* What the durable queues of the system promise of one item of work,      *)
(* whichever table it is a row of: it is handed out at most MaxTries       *)
(* times, it is taken away from an execution only after the lease of that  *)
(* execution has lapsed, and once it is over it is never handed out again. *)
(* The items are independent: several may move in one transaction, as when *)
(* a claim closes the exhausted ones and takes another.                    *)
(***************************************************************************)
EXTENDS Naturals

CONSTANTS Items,      \* the rows of the queue
          MaxTries    \* how often an item may be handed out

VARIABLE work         \* item -> its phase, the hand-outs so far, and whether its lease has lapsed

Rows == [phase  : {"absent", "waiting", "held", "over"},
         tries  : 0..MaxTries,
         lapsed : BOOLEAN]

Absent  == [phase |-> "absent",  tries |-> 0, lapsed |-> FALSE]
Waiting == [phase |-> "waiting", tries |-> 0, lapsed |-> FALSE]

Init == work \in [Items -> {Absent, Waiting}]

Submit(i) == /\ work[i] = Absent
             /\ work'[i] = Waiting

\* Handed out: nobody holds it, or the lease of the one who does has lapsed.
Grant(i) == /\ \/ work[i].phase = "waiting"
               \/ work[i].phase = "held" /\ work[i].lapsed
            /\ work[i].tries < MaxTries
            /\ work'[i] = [phase |-> "held", tries |-> work[i].tries + 1, lapsed |-> FALSE]

Lapse(i) == /\ work[i].phase = "held"
            /\ work'[i] = [work[i] EXCEPT !.lapsed = TRUE]

Renew(i) == /\ work[i].phase = "held"
            /\ work'[i] = [work[i] EXCEPT !.lapsed = FALSE]

\* Given back after a failure, for another try.
Release(i) == /\ work[i].phase = "held"
              /\ work'[i] = [phase |-> "waiting", tries |-> work[i].tries, lapsed |-> FALSE]

\* Done, failed for good, or cancelled, also before anybody took it.
Finish(i) == /\ work[i].phase \in {"waiting", "held"}
             /\ work'[i] = [phase |-> "over", tries |-> work[i].tries, lapsed |-> FALSE]

Step(i) == \/ Submit(i) \/ Grant(i) \/ Lapse(i) \/ Renew(i)
           \/ Release(i) \/ Finish(i)
           \/ work'[i] = work[i]

Next == /\ DOMAIN work' = Items
        /\ \A i \in Items : Step(i)

Spec == Init /\ [][Next]_work
=============================================================================
