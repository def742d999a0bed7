------------------------ MODULE FindingReviewProofs ------------------------
(***************************************************************************)
(* Theorems about FindingReview, for any set of requests, any decisions    *)
(* and any bound on the versions.                                          *)
(***************************************************************************)
EXTENDS FindingReview, TLAPS

Undecided == {"unreviewed", "in_review", "needs_more_evidence"}

\* What the maps of the code make of a status.
LEMMA ReviewOutcomes ==
    /\ \A d \in DOMAIN DECISION_TO_STATUS : DECISION_TO_STATUS[d] \in ItemStates
    /\ \A s \in ItemStates :
          /\ REVIEW_STATUS_TO_FINDING[s] \in FindingStates
          /\ REVIEW_STATUS_TO_FINDING[s] = "under_review" => s \in Undecided
          /\ REVIEW_STATUS_TO_FINDING[s] \in Verdicts => s \in {"accepted", "rejected"}
BY DEF DECISION_TO_STATUS, REVIEW_STATUS_TO_FINDING, ItemStates, FindingStates, Undecided,
       Verdicts

\* What a submission makes of the item it has read.
LEMMA SubmittedItem ==
    ASSUME NEW f \in FindingStates, NEW i \in Item, Submitted(f, i) # i
    PROVE  /\ Submitted(f, i) \in Item
           /\ Submitted(f, i).status \in {"unreviewed", "in_review"}
           /\ i.status # "none" => Submitted(f, i).version = i.version + 1
           /\ i.status = "none" => Submitted(f, i).version = 1
<1>1. CASE i.status = "none"
  BY <1>1 DEF Submitted, Item, ItemStates
<1>2. CASE i.status # "none"
  <2>1. Submitted(f, i) = [status |-> "in_review", version |-> i.version + 1]
    BY <1>2 DEF Submitted
  <2> QED BY <1>2, <2>1 DEF Item, ItemStates
<1> QED BY <1>1, <1>2

-----------------------------------------------------------------------------
(* The inductive invariant. *)

\* The status a request is going to write fits the row it is for.
TargetsFit ==
    \A c \in Clients :
        /\ client[c].pc \in {"decide", "verdict"} =>
              client[c].to \in ItemStates /\ client[c].seen.status # "none"
        /\ client[c].pc = "patch" => client[c].to \in {"candidate", "superseded"}

\* Row locks exclude each other.
OneLockEach ==
    \A c, d \in Clients :
        /\ client[c].pc \in {"submit", "verdict"} /\ client[d].pc \in {"submit", "verdict"} => c = d
        /\ client[c].pc = "reopen" /\ client[d].pc = "reopen" => c = d

\* A submission that is going to write the item has read its present value;
\* one that is not finds it undecided.  Claims and releases, which do not wait
\* for the finding, change neither.
SubmissionIsCurrent ==
    \A c \in Clients : client[c].pc = "submit" =>
        /\ finding # "superseded"
        /\ Submitted(finding, client[c].seen) # client[c].seen => item = client[c].seen
        /\ Submitted(finding, client[c].seen) = client[c].seen => item.status \in Undecided

\* An item that is being reopened exists.
ReopenedExists ==
    \A c \in Clients : client[c].pc = "reopen" => item.status # "none"

NoneIsFirst == item.status = "none" <=> item.version = 0

\* Decisions answer earlier versions, in their order.
DecisionsInOrder ==
    /\ \A i \in DOMAIN decisions : decisions[i].version < item.version
    /\ \A i, j \in DOMAIN decisions : i < j => decisions[i].version < decisions[j].version

IInv == /\ TypeOK /\ TargetsFit /\ OneLockEach /\ SubmissionIsCurrent
        /\ ReopenedExists /\ NoneIsFirst /\ DecisionsInOrder
        /\ VerdictIsDecided /\ UnderReviewIsDecidable

LEMMA InitInv == Init => IInv
<1> SUFFICES ASSUME Init PROVE IInv
  OBVIOUS
<1>1. TypeOK
  BY DEF Init, TypeOK, FindingStates, Item, NoItem, ItemStates, Client, Idle
<1>2. \A c \in Clients : client[c].pc = "idle"
  BY DEF Init, Idle
<1> QED
  BY <1>1, <1>2 DEF Init, IInv, TargetsFit, OneLockEach, SubmissionIsCurrent, ReopenedExists,
     NoneIsFirst, NoItem, DecisionsInOrder, VerdictIsDecided, Verdicts, UnderReviewIsDecidable

\* A step that moves one request and writes no row.
LEMMA MoveInv ==
    ASSUME IInv, NEW c \in Clients, NEW r \in Client, Goto(c, r),
           UNCHANGED <<finding, item, assigned, lastId, decisions>>,
           r.pc \in {"decide", "verdict"} => r.to \in ItemStates /\ r.seen.status # "none",
           r.pc = "patch" => r.to \in {"candidate", "superseded"},
           r.pc \in {"submit", "verdict"} => FindingFree,
           r.pc = "reopen" => ItemFree /\ item.status # "none",
           r.pc = "submit" => finding # "superseded" /\ r.seen = item
    PROVE  IInv'
<1>1. client \in [Clients -> Client] /\ client' = [client EXCEPT ![c] = r]
  BY DEF IInv, TypeOK, Goto
<1>2. client'[c] = r /\ \A d \in Clients : d # c => client'[d] = client[d]
  BY <1>1
<1>3. TypeOK'
  BY <1>1 DEF IInv, TypeOK
<1>4. TargetsFit'
  BY <1>2 DEF IInv, TargetsFit
<1>5. OneLockEach'
  BY <1>2 DEF IInv, OneLockEach, FindingFree, ItemFree
<1>6. SubmissionIsCurrent'
  <2>1. ASSUME r.pc = "submit", Submitted(finding, item) = item
        PROVE  item.status \in Undecided
    <3>1. item \in Item /\ finding \in FindingStates /\ finding # "superseded"
      BY <2>1 DEF IInv, TypeOK
    <3>2. item.status # "none"
      BY <2>1, <3>1 DEF Submitted, Item
    <3>3. CASE ~ Reactivates(finding, item)
      BY <3>1, <3>2, <3>3 DEF Reactivates, Undecided, Item, ItemStates, FindingStates
    <3>4. CASE Reactivates(finding, item)
      BY <2>1, <3>1, <3>2, <3>4 DEF Submitted, Undecided, Item, ItemStates
    <3> QED BY <3>3, <3>4
  <2> QED BY <1>2, <2>1 DEF IInv, SubmissionIsCurrent
<1>7. ReopenedExists'
  BY <1>2 DEF IInv, ReopenedExists
<1>8. /\ NoneIsFirst' /\ DecisionsInOrder' /\ VerdictIsDecided' /\ UnderReviewIsDecidable'
  BY DEF IInv, NoneIsFirst, DecisionsInOrder, VerdictIsDecided, UnderReviewIsDecidable
<1> QED BY <1>3, <1>4, <1>5, <1>6, <1>7, <1>8 DEF IInv

\* What a step that ends a request, or moves none, keeps about the others.
LEMMA ReturnInv ==
    ASSUME IInv, NEW c \in Clients, Return(c) \/ UNCHANGED client
    PROVE  /\ client' \in [Clients -> Client]
           /\ TargetsFit' /\ OneLockEach'
           /\ \A d \in Clients : client'[d] = client[d] \/ (d = c /\ client'[d] = Idle)
<1>1. Idle \in Client /\ Idle.pc = "idle"
  BY DEF Client, Idle, Item, NoItem, ItemStates, FindingStates
<1>2. client \in [Clients -> Client]
  BY DEF IInv, TypeOK
<1>3. client' \in [Clients -> Client]
  <2>1. CASE Return(c)
    BY <2>1, <1>1, <1>2 DEF Return, Goto
  <2>2. CASE UNCHANGED client
    BY <1>2, <2>2
  <2> QED BY <2>1, <2>2
<1>4. \A d \in Clients : client'[d] = client[d] \/ (d = c /\ client'[d] = Idle)
  <2>1. CASE Return(c)
    BY <2>1, <1>1, <1>2 DEF Return, Goto
  <2>2. CASE UNCHANGED client
    BY <2>2
  <2> QED BY <2>1, <2>2
<1> QED BY <1>1, <1>3, <1>4 DEF IInv, TargetsFit, OneLockEach

\* A status that is set raises the version, which keeps the decisions in order.
LEMMA VersionRaised ==
    ASSUME IInv, NEW s \in ItemStates, item' = [status |-> s, version |-> item.version + 1],
           UNCHANGED decisions
    PROVE  item' \in Item /\ NoneIsFirst' /\ DecisionsInOrder' /\ item'.status # "none"
<1>1. item.version \in Nat /\ item'.version = item.version + 1 /\ item'.status = s
  BY DEF IInv, TypeOK, Item
<1>2. \A i \in DOMAIN decisions : decisions[i].version \in Nat
  <2>1. decisions \in Seq(Decision)
    BY DEF IInv, TypeOK
  <2>2. \A i \in DOMAIN decisions : decisions[i] \in Decision
    BY <2>1
  <2> QED BY <2>2 DEF Decision
<1>3. s # "none"
  BY DEF ItemStates
<1> QED BY <1>1, <1>2, <1>3 DEF IInv, NoneIsFirst, DecisionsInOrder, Item

-----------------------------------------------------------------------------
(* One lemma per step that writes. *)

LEMMA SubmitWriteInv ==
    ASSUME IInv, NEW c \in Clients, SubmitWrite(c)
    PROVE  IInv' /\ item'.version \in {item.version, item.version + 1}
                 /\ (item'.status # item.status => item'.version = item.version + 1)
<1> DEFINE i == client[c].seen
           j == Submitted(finding, i)
<1>1. /\ client[c].pc = "submit" /\ finding' = "under_review" /\ Return(c)
      /\ UNCHANGED <<assigned, lastId, decisions>>
      /\ \/ i = j /\ item' = item
         \/ i # j /\ item' = j
  BY DEF SubmitWrite
<1>2. client[c] \in Client /\ item \in Item /\ finding \in FindingStates /\ i \in Item
  BY DEF IInv, TypeOK, Client
<1>3. i # j => item = i
  BY <1>1 DEF IInv, SubmissionIsCurrent
<1>4. i = j => item.status \in Undecided
  BY <1>1 DEF IInv, SubmissionIsCurrent
<1>5. i # j => /\ j \in Item /\ j.status \in {"unreviewed", "in_review"}
               /\ i.status # "none" => j.version = i.version + 1
               /\ i.status = "none" => j.version = 1
  BY <1>2, SubmittedItem
<1> HIDE DEF i, j
<1>6. item.version \in Nat /\ (item.status = "none" <=> item.version = 0)
  BY <1>2 DEF IInv, NoneIsFirst, Item
<1>7. /\ item' \in Item /\ item'.status \in Undecided
      /\ \/ item' = item
         \/ item'.version = item.version + 1
  <2>1. CASE i = j
    BY <2>1, <1>1, <1>2, <1>4
  <2>2. CASE i # j
    <3>1. j.version = item.version + 1
      BY <2>2, <1>3, <1>5, <1>6
    <3> QED BY <2>2, <3>1, <1>1, <1>5 DEF Undecided
  <2> QED BY <2>1, <2>2
<1>8. TargetsFit' /\ OneLockEach' /\ client' \in [Clients -> Client]
      /\ \A d \in Clients : client'[d] = client[d] \/ (d = c /\ client'[d] = Idle)
  BY <1>1, ReturnInv
<1>9. client'[c].pc = "idle"
  <2>1. client' = [client EXCEPT ![c] = Idle] /\ client \in [Clients -> Client]
    BY <1>1 DEF Return, Goto, IInv, TypeOK
  <2> QED BY <2>1 DEF Idle
<1>10. TypeOK'
  BY <1>1, <1>7, <1>8 DEF IInv, TypeOK, FindingStates
<1>11. SubmissionIsCurrent'
  <2>1. \A d \in Clients : client'[d].pc # "submit"
    BY <1>1, <1>8, <1>9 DEF IInv, OneLockEach, Idle
  <2> QED BY <2>1 DEF SubmissionIsCurrent
<1>12. item'.status # "none" /\ NoneIsFirst' /\ ReopenedExists'
  BY <1>6, <1>7 DEF Undecided, NoneIsFirst, ReopenedExists
<1>13. DecisionsInOrder'
  <2>1. \A k \in DOMAIN decisions : decisions[k].version \in Nat
    <3>1. decisions \in Seq(Decision)
      BY DEF IInv, TypeOK
    <3>2. \A k \in DOMAIN decisions : decisions[k] \in Decision
      BY <3>1
    <3> QED BY <3>2 DEF Decision
  <2> QED BY <2>1, <1>1, <1>6, <1>7 DEF IInv, DecisionsInOrder
<1>14. VerdictIsDecided' /\ UnderReviewIsDecidable'
  BY <1>1, <1>7 DEF VerdictIsDecided, Verdicts, UnderReviewIsDecidable, Undecided
<1> QED BY <1>6, <1>7, <1>8, <1>10, <1>11, <1>12, <1>13, <1>14 DEF IInv

\* Claims and releases set an item from one undecided status to another.
LEMMA UndecidedMoves ==
    ASSUME IInv, NEW s \in {"unreviewed", "in_review"},
           item.status \in {"unreviewed", "in_review"}, item.status # s,
           item' = [status |-> s, version |-> item.version + 1],
           NEW c \in Clients, Return(c) \/ UNCHANGED client,
           UNCHANGED <<finding, decisions>>,
           assigned' \subseteq 1 .. lastId' /\ lastId' \in Nat
    PROVE  IInv'
<1>1. item' \in Item /\ NoneIsFirst' /\ DecisionsInOrder' /\ item'.status # "none"
  BY VersionRaised DEF ItemStates
<1>2. TargetsFit' /\ OneLockEach' /\ client' \in [Clients -> Client]
      /\ \A d \in Clients : client'[d] = client[d] \/ (d = c /\ client'[d] = Idle)
  BY ReturnInv
<1>3. TypeOK'
  BY <1>1, <1>2 DEF IInv, TypeOK
<1>4. finding \notin Verdicts
  <2>1. CASE finding \in Verdicts
    <3>1. decisions # <<>> /\ decisions \in Seq(Decision)
      BY <2>1 DEF IInv, VerdictIsDecided, TypeOK
    <3>2. decisions[Len(decisions)] \in Decision
      BY <3>1
    <3>3. /\ REVIEW_STATUS_TO_FINDING[decisions[Len(decisions)].to] \in Verdicts
          /\ item.status = decisions[Len(decisions)].to
      BY <2>1 DEF IInv, VerdictIsDecided
    <3> QED BY <3>2, <3>3, ReviewOutcomes DEF Decision
  <2> QED BY <2>1
<1>5. VerdictIsDecided' /\ UnderReviewIsDecidable'
  BY <1>4 DEF VerdictIsDecided, UnderReviewIsDecidable
<1>6. SubmissionIsCurrent'
  <2> SUFFICES ASSUME NEW d \in Clients, client'[d].pc = "submit"
               PROVE  /\ finding # "superseded"
                      /\ Submitted(finding, client[d].seen) = client[d].seen
                      /\ client'[d] = client[d]
    BY DEF SubmissionIsCurrent, Undecided
  <2>1. client'[d] = client[d]
    BY <1>2 DEF Idle
  <2>2. /\ finding # "superseded"
        /\ Submitted(finding, client[d].seen) # client[d].seen => item = client[d].seen
    BY <2>1 DEF IInv, SubmissionIsCurrent
  <2>3. ~ Reactivates(finding, item)
    BY <1>4 DEF Reactivates, Verdicts
  <2>4. Submitted(finding, item) = item
    BY <2>3 DEF Submitted
  <2> QED BY <2>1, <2>2, <2>4
<1>7. ReopenedExists'
  BY <1>1 DEF ReopenedExists
<1> QED BY <1>1, <1>2, <1>3, <1>5, <1>6, <1>7 DEF IInv

\* A decision and a reopening set item and finding together, while nobody
\* else holds the finding.
LEMMA PairMoves ==
    ASSUME IInv, NEW c \in Clients, NEW s \in ItemStates, Return(c),
           \A d \in Clients : client[d].pc \in {"submit", "verdict"} => d = c,
           client[c].pc # "submit",
           item' = [status |-> s, version |-> item.version + 1],
           finding' = REVIEW_STATUS_TO_FINDING[s],
           UNCHANGED <<assigned, lastId>>,
           decisions' \in Seq(Decision), DecisionsInOrder',
           finding' \in Verdicts => /\ decisions' # <<>>
                                    /\ decisions'[Len(decisions')]
                                          = [version |-> item.version, to |-> s]
    PROVE  IInv'
<1>1. finding' \in FindingStates
      /\ (finding' = "under_review" => item'.status \in Undecided)
  BY ReviewOutcomes
<1>2. item.version \in Nat /\ item' \in Item /\ s # "none"
  BY DEF IInv, TypeOK, Item, ItemStates
<1>3. TargetsFit' /\ OneLockEach' /\ client' \in [Clients -> Client]
      /\ \A d \in Clients : client'[d] = client[d] \/ (d = c /\ client'[d] = Idle)
  BY ReturnInv
<1>4. TypeOK'
  BY <1>1, <1>2, <1>3 DEF IInv, TypeOK
<1>5. SubmissionIsCurrent'
  <2>1. \A d \in Clients : client'[d].pc # "submit"
    BY <1>3 DEF Idle
  <2> QED BY <2>1 DEF SubmissionIsCurrent
<1>6. ReopenedExists' /\ NoneIsFirst'
  BY <1>2 DEF ReopenedExists, NoneIsFirst
<1>7. VerdictIsDecided' /\ UnderReviewIsDecidable'
  BY <1>1 DEF VerdictIsDecided, UnderReviewIsDecidable, Undecided
<1> QED BY <1>3, <1>4, <1>5, <1>6, <1>7 DEF IInv

\* A refused request leaves everything as it is.
LEMMA RefusalInv ==
    ASSUME IInv, NEW c \in Clients, Return(c),
           UNCHANGED <<finding, item, assigned, lastId, decisions>>
    PROVE  IInv'
<1>1. Idle \in Client /\ Idle.pc = "idle"
  BY DEF Client, Idle, Item, NoItem, ItemStates, FindingStates
<1>2. Goto(c, Idle)
  BY DEF Return
<1> HIDE DEF Idle
<1> QED BY <1>1, <1>2, MoveInv

LEMMA DecideWriteInv ==
    ASSUME IInv, NEW c \in Clients, DecideWrite(c)
    PROVE  IInv' /\ item'.version \in {item.version, item.version + 1}
                 /\ (item'.status # item.status => item'.version = item.version + 1)
<1> DEFINE s == client[c].to
           new == [version |-> client[c].seen.version, to |-> s]
<1>1. /\ client[c].pc = "verdict" /\ Return(c) /\ UNCHANGED <<assigned, lastId>>
      /\ \/ /\ Matches(c)
            /\ item' = [status |-> s, version |-> item.version + 1]
            /\ finding' = REVIEW_STATUS_TO_FINDING[s]
            /\ decisions' = Append(decisions, new)
         \/ UNCHANGED <<finding, item, decisions>>
  BY DEF DecideWrite
<1>2. CASE UNCHANGED <<finding, item, decisions>>
  BY <1>1, <1>2, RefusalInv
<1>3. CASE /\ Matches(c)
           /\ item' = [status |-> s, version |-> item.version + 1]
           /\ finding' = REVIEW_STATUS_TO_FINDING[s]
           /\ decisions' = Append(decisions, new)
  <2>1. s \in ItemStates /\ client[c] \in Client
    BY <1>1 DEF IInv, TargetsFit, TypeOK
  <2>2. client[c].seen.version = item.version /\ item.version \in Nat
    BY <1>3 DEF Matches, IInv, TypeOK, Item
  <2>3. new \in Decision /\ new = [version |-> item.version, to |-> s]
    BY <2>1, <2>2 DEF Decision
  <2>4. item' = [status |-> s, version |-> item.version + 1]
    BY <1>3
  <2>5. finding' = REVIEW_STATUS_TO_FINDING[s]
    BY <1>3
  <2> HIDE DEF s, new
  <2>6. decisions \in Seq(Decision)
    BY DEF IInv, TypeOK
  <2>7. /\ decisions' \in Seq(Decision) /\ decisions' # <<>>
        /\ Len(decisions') = Len(decisions) + 1
        /\ decisions'[Len(decisions')] = new
        /\ \A k \in DOMAIN decisions : decisions'[k] = decisions[k]
        /\ DOMAIN decisions' = DOMAIN decisions \cup {Len(decisions')}
    BY <1>3, <2>3, <2>6
  <2>8. DecisionsInOrder'
    <3>1. \A k \in DOMAIN decisions :
             decisions[k].version \in Nat /\ decisions[k].version < item.version
      <4>1. \A k \in DOMAIN decisions : decisions[k] \in Decision
        BY <2>6
      <4> QED BY <4>1 DEF Decision, IInv, DecisionsInOrder
    <3>2. new.version = item.version /\ item'.version = item.version + 1
      BY <2>3, <2>4
    <3>3. \A k \in DOMAIN decisions' : decisions'[k].version < item'.version
      BY <2>2, <2>7, <3>1, <3>2
    <3>4. ASSUME NEW k \in DOMAIN decisions', NEW l \in DOMAIN decisions', k < l
          PROVE  decisions'[k].version < decisions'[l].version
      <4>1. k \in DOMAIN decisions
        BY <3>4, <2>6, <2>7
      <4>2. CASE l \in DOMAIN decisions
        BY <3>4, <4>1, <4>2, <2>7 DEF IInv, DecisionsInOrder
      <4>3. CASE l = Len(decisions')
        BY <4>1, <4>3, <2>7, <3>1, <3>2
      <4> QED BY <4>2, <4>3, <2>7
    <3> QED BY <3>3, <3>4 DEF DecisionsInOrder
  <2>9. \A d \in Clients : client[d].pc \in {"submit", "verdict"} => d = c
    BY <1>1 DEF IInv, OneLockEach
  <2>10. IInv'
    BY <1>1, <2>1, <2>3, <2>4, <2>5, <2>7, <2>8, <2>9, PairMoves
  <2> QED BY <2>2, <2>4, <2>10
<1> QED BY <1>1, <1>2, <1>3 DEF IInv, TypeOK, Item

LEMMA ReopenWriteInv ==
    ASSUME IInv, NEW c \in Clients, ReopenWrite(c)
    PROVE  IInv' /\ item'.version \in {item.version, item.version + 1}
                 /\ (item'.status # item.status => item'.version = item.version + 1)
<1>1. client[c].pc = "reopen" /\ FindingFree /\ Return(c)
      /\ UNCHANGED <<assigned, lastId, decisions>>
  BY DEF ReopenWrite
<1>2. CASE item' = [status |-> "in_review", version |-> item.version + 1]
           /\ finding' = "under_review"
  <2>1. "in_review" \in ItemStates /\ REVIEW_STATUS_TO_FINDING["in_review"] = "under_review"
    BY DEF ItemStates, REVIEW_STATUS_TO_FINDING
  <2>2. decisions' \in Seq(Decision) /\ DecisionsInOrder'
    BY <1>1, <1>2, <2>1, VersionRaised DEF IInv, TypeOK
  <2>3. IInv'
    BY <1>1, <1>2, <2>1, <2>2, PairMoves DEF FindingFree, Verdicts
  <2> QED BY <1>2, <2>3
<1>3. CASE UNCHANGED <<item, finding>>
  BY <1>1, <1>3, RefusalInv
<1> QED BY <1>2, <1>3 DEF ReopenWrite

LEMMA PatchWriteInv ==
    ASSUME IInv, NEW c \in Clients, PatchWrite(c)
    PROVE  IInv'
<1>1. /\ client[c].pc = "patch" /\ finding' = client[c].to /\ Return(c)
      /\ UNCHANGED <<item, assigned, lastId, decisions>>
      /\ FindingFree \/ finding' = finding
  BY DEF PatchWrite
<1>2. finding' \in {"candidate", "superseded"}
  BY <1>1 DEF IInv, TargetsFit
<1>3. TargetsFit' /\ OneLockEach' /\ client' \in [Clients -> Client]
      /\ \A d \in Clients : client'[d] = client[d] \/ (d = c /\ client'[d] = Idle)
  BY <1>1, ReturnInv
<1>4. TypeOK'
  BY <1>1, <1>2, <1>3 DEF IInv, TypeOK, FindingStates
<1>5. SubmissionIsCurrent'
  <2>1. ASSUME NEW d \in Clients, client'[d].pc = "submit"
        PROVE  client'[d] = client[d] /\ finding' = finding
    BY <1>1, <1>3, <2>1 DEF Idle, FindingFree
  <2> QED BY <1>1, <2>1 DEF IInv, SubmissionIsCurrent
<1>6. ReopenedExists'
  BY <1>1, <1>3 DEF IInv, ReopenedExists, Idle
<1>7. NoneIsFirst' /\ DecisionsInOrder' /\ VerdictIsDecided' /\ UnderReviewIsDecidable'
  BY <1>1, <1>2 DEF IInv, NoneIsFirst, DecisionsInOrder, VerdictIsDecided, Verdicts,
     UnderReviewIsDecidable
<1> QED BY <1>3, <1>4, <1>5, <1>6, <1>7 DEF IInv

-----------------------------------------------------------------------------
(* All steps. *)

VersionStep ==
    /\ item'.version \in {item.version, item.version + 1}
    /\ item'.status # item.status => item'.version = item.version + 1

LEMMA StepInv ==
    ASSUME IInv, NEW c \in Clients,
           Request(c) \/ Locked(c) \/ Commit(c) \/ Abort(c) \/ Victim(c)
    PROVE  IInv' /\ VersionStep
<1>1. /\ client[c] \in Client /\ item \in Item /\ Idle \in Client /\ Idle.pc = "idle"
      /\ NoItem \in Item
  BY DEF IInv, TypeOK, Client, Idle, Item, NoItem, ItemStates, FindingStates
<1>2. Decisions \subseteq DOMAIN DECISION_TO_STATUS
  BY ReviewAssumption
<1>3. CASE SubmitLock(c)
  <2> DEFINE r == [Idle EXCEPT !.pc = "submit", !.seen = item]
  <2>1. r \in Client /\ r.pc = "submit" /\ r.seen = item
    BY <1>1 DEF Client, Idle
  <2>2. /\ FindingFree /\ finding # "superseded" /\ Goto(c, r)
        /\ UNCHANGED <<finding, item, assigned, lastId, decisions>>
    BY <1>3 DEF SubmitLock
  <2> HIDE DEF r
  <2> QED BY <2>1, <2>2, MoveInv DEF VersionStep
<1>4. CASE Claim(c)
  <2>1. /\ item.status = "unreviewed" /\ UNCHANGED <<finding, decisions, client>>
        /\ item' = [status |-> "in_review", version |-> item.version + 1]
        /\ lastId' = lastId + 1 /\ assigned' = assigned \cup {lastId + 1}
    BY <1>4 DEF Claim
  <2>2. assigned' \subseteq 1 .. lastId' /\ lastId' \in Nat
    BY <2>1 DEF IInv, TypeOK
  <2> QED BY <2>1, <2>2, UndecidedMoves DEF VersionStep
<1>5. CASE ReleaseRead(c)
  <2>1. PICK a \in assigned : Goto(c, [Idle EXCEPT !.pc = "release", !.id = a])
    BY <1>5 DEF ReleaseRead
  <2> DEFINE r == [Idle EXCEPT !.pc = "release", !.id = a]
  <2>2. a \in Nat
    BY DEF IInv, TypeOK
  <2>3. r \in Client /\ r.pc = "release"
    BY <1>1, <2>2 DEF Client, Idle
  <2>4. Goto(c, r) /\ UNCHANGED <<finding, item, assigned, lastId, decisions>>
    BY <1>5, <2>1 DEF ReleaseRead
  <2> HIDE DEF r
  <2> QED BY <2>3, <2>4, MoveInv DEF VersionStep
<1>6. CASE ReopenLock(c)
  <2> DEFINE r == [Idle EXCEPT !.pc = "reopen", !.seen = item]
  <2>1. r \in Client /\ r.pc = "reopen"
    BY <1>1 DEF Client, Idle
  <2>2. /\ ItemFree /\ item.status # "none" /\ Goto(c, r)
        /\ UNCHANGED <<finding, item, assigned, lastId, decisions>>
    BY <1>6 DEF ReopenLock
  <2> HIDE DEF r
  <2> QED BY <2>1, <2>2, MoveInv DEF VersionStep
<1>7. ASSUME NEW d \in Decisions, DecideRead(c, d) PROVE IInv' /\ VersionStep
  <2> DEFINE r == [Idle EXCEPT !.pc = "decide", !.seen = item, !.to = DECISION_TO_STATUS[d]]
  <2>1. DECISION_TO_STATUS[d] \in ItemStates
    BY <1>2, ReviewOutcomes
  <2>2. r \in Client /\ r.pc = "decide" /\ r.to \in ItemStates /\ r.seen = item
    BY <1>1, <2>1 DEF Client, Idle
  <2>3. /\ item.status # "none" /\ Goto(c, r)
        /\ UNCHANGED <<finding, item, assigned, lastId, decisions>>
    BY <1>7 DEF DecideRead
  <2> HIDE DEF r
  <2> QED BY <2>2, <2>3, MoveInv DEF VersionStep
<1>8. ASSUME NEW s \in {"candidate", "superseded"}, PatchRead(c, s)
      PROVE  IInv' /\ VersionStep
  <2> DEFINE r == [Idle EXCEPT !.pc = "patch", !.to = s]
  <2>1. r \in Client /\ r.pc = "patch" /\ r.to \in {"candidate", "superseded"}
    BY <1>1 DEF Client, Idle, FindingStates
  <2>2. Goto(c, r) /\ UNCHANGED <<finding, item, assigned, lastId, decisions>>
    BY <1>8 DEF PatchRead
  <2> HIDE DEF r
  <2> QED BY <2>1, <2>2, MoveInv DEF VersionStep
<1>9. CASE ReleaseWrite(c)
  <2>1. CASE /\ item.status = "in_review"
             /\ item' = [status |-> "unreviewed", version |-> item.version + 1]
             /\ assigned' = assigned \ {client[c].id}
    <3>1. assigned' \subseteq 1 .. lastId' /\ lastId' \in Nat
      BY <1>9, <2>1 DEF ReleaseWrite, IInv, TypeOK
    <3>2. Return(c) /\ UNCHANGED <<finding, decisions>>
      BY <1>9 DEF ReleaseWrite
    <3> QED BY <2>1, <3>1, <3>2, UndecidedMoves DEF VersionStep
  <2>2. CASE UNCHANGED <<item, assigned>>
    BY <1>9, <2>2, RefusalInv DEF ReleaseWrite, VersionStep
  <2> QED BY <1>9, <2>1, <2>2 DEF ReleaseWrite
<1>10. CASE DecideLock(c)
  <2> DEFINE r == [client[c] EXCEPT !.pc = "verdict"]
  <2>1. r \in Client /\ r.pc = "verdict" /\ r.to = client[c].to /\ r.seen = client[c].seen
    BY <1>1 DEF Client
  <2>2. /\ FindingFree /\ Goto(c, r)
        /\ UNCHANGED <<finding, item, assigned, lastId, decisions>>
    BY <1>10 DEF DecideLock
  <2>3. client[c].to \in ItemStates /\ client[c].seen.status # "none"
    BY <1>10 DEF DecideLock, IInv, TargetsFit
  <2> HIDE DEF r
  <2> QED BY <2>1, <2>2, <2>3, MoveInv DEF VersionStep
<1>11. CASE PatchWrite(c)
  BY <1>11, PatchWriteInv DEF PatchWrite, VersionStep
<1>12. CASE Commit(c)
  BY <1>12, SubmitWriteInv, DecideWriteInv, ReopenWriteInv DEF Commit, VersionStep
<1>13. CASE Abort(c) \/ Victim(c)
  BY <1>13, RefusalInv DEF Abort, Victim, VersionStep
<1> QED
  BY <1>3, <1>4, <1>5, <1>6, <1>7, <1>8, <1>9, <1>10, <1>11, <1>12, <1>13 DEF Request, Locked

LEMMA NextInv == IInv /\ [Next]_vars => IInv' /\ (VersionStep \/ UNCHANGED vars)
<1> SUFFICES ASSUME IInv, [Next]_vars PROVE IInv' /\ (VersionStep \/ UNCHANGED vars)
  OBVIOUS
<1>1. CASE Next
  BY <1>1, StepInv DEF Next
<1>2. CASE UNCHANGED vars
  <2>1. UNCHANGED <<finding, item, assigned, lastId, decisions, client>>
    BY <1>2 DEF vars
  <2> QED
    BY <1>2, <2>1 DEF IInv, TypeOK, TargetsFit, OneLockEach, SubmissionIsCurrent,
       ReopenedExists, NoneIsFirst, DecisionsInOrder, VerdictIsDecided,
       UnderReviewIsDecidable
<1> QED BY <1>1, <1>2

LEMMA Invariance == Spec => []IInv
<1>1. IInv /\ [Next]_vars => IInv'
  BY NextInv
<1> QED BY <1>1, InitInv, PTL DEF Spec

-----------------------------------------------------------------------------
\* The finding, the item, the decisions and the requests stay well formed.
THEOREM TypeCorrect == Spec => []TypeOK
<1>1. IInv => TypeOK
  BY DEF IInv
<1> QED BY <1>1, Invariance, PTL

\* A verdict on a finding is the last decision of its review, however many
\* requests submit, decide, reopen and patch it at once: decide and reopen
\* change item and finding in one transaction that excludes every other.
THEOREM VerdictsAreDecided == Spec => []VerdictIsDecided
<1>1. IInv => VerdictIsDecided
  BY DEF IInv
<1> QED BY <1>1, Invariance, PTL

\* A finding under review can always be decided or reopened.
THEOREM ReviewsAreDecidable == Spec => []UnderReviewIsDecidable
<1>1. IInv => UnderReviewIsDecidable
  BY DEF IInv
<1> QED BY <1>1, Invariance, PTL

\* A finding and its item never contradict each other, for any number of
\* concurrent submissions, decisions, reopenings and patches.
THEOREM FindingsMatchItems == Spec => []FindingMatchesItem
<1>1. VerdictIsDecided /\ UnderReviewIsDecidable => FindingMatchesItem
  BY DEF FindingMatchesItem
<1> QED BY <1>1, VerdictsAreDecided, ReviewsAreDecidable, PTL

\* A version of the item is decided once: the versions of the decisions are
\* in strictly increasing order.
THEOREM DecisionsNameRounds == Spec => []OneDecisionPerVersion
<1>1. IInv => OneDecisionPerVersion
  <2> SUFFICES ASSUME IInv, NEW i \in DOMAIN decisions, NEW j \in DOMAIN decisions,
                      decisions[i].version = decisions[j].version
               PROVE  i = j
    BY DEF OneDecisionPerVersion
  <2>1. decisions \in Seq(Decision)
    BY DEF IInv, TypeOK
  <2>2. i \in Nat /\ j \in Nat /\ decisions[i] \in Decision /\ decisions[j] \in Decision
    BY <2>1
  <2>3. decisions[i].version \in Nat
    BY <2>2 DEF Decision
  <2> QED BY <2>2, <2>3 DEF IInv, DecisionsInOrder
<1> QED BY <1>1, Invariance, PTL

\* The version never goes back, and every change of the status raises it: a
\* submission computes it from an unlocked read, but nobody who could have
\* changed the item since has had the finding.
THEOREM VersionsOnlyGrow == Spec => VersionsGrow
<1>1. IInv /\ [Next]_vars =>
         [/\ item'.version \in {item.version, item.version + 1}
          /\ item'.status # item.status => item'.version = item.version + 1]_vars
  BY NextInv DEF VersionStep
<1> QED BY <1>1, Invariance, PTL DEF Spec, VersionsGrow
=============================================================================
