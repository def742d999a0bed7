--------------------------- MODULE FindingReview ---------------------------
(***************************************************************************)
(* A finding, its review item and the people who submit, claim, decide,    *)
(* release, reopen and patch them at the same time.  A step is a database  *)
(* transaction or the part of one up to the next row lock, with the locks  *)
(* of PostgreSQL; a client that holds a lock is known by its pc.           *)
(***************************************************************************)
EXTENDS Integers, Sequences, FiniteSets

CONSTANTS
    Clients,    \* requests that are served at the same time
    Decisions,  \* decisions the reviewers may take
    MaxVersion  \* bound: no request starts once the item has this version

FindingStates == {"candidate", "under_review", "verified", "rejected", "superseded"}
ItemStates    == {"unreviewed", "in_review", "accepted", "rejected", "needs_more_evidence"}

DECISION_TO_STATUS ==
    [approved |-> "accepted", rejected |-> "rejected", edited_approval |-> "accepted",
     more_evidence |-> "needs_more_evidence", revoked |-> "unreviewed"]

\* Mutant: a finding takes the status of its item as it is.
REVIEW_STATUS_AS_FINDING == [s \in ItemStates |-> s]

REVIEW_STATUS_TO_FINDING ==
    [unreviewed |-> "candidate", in_review |-> "under_review", accepted |-> "verified",
     rejected |-> "rejected", needs_more_evidence |-> "under_review"]

\* _VALID_TRANSITIONS, for the statuses something can write.
Transitions ==
    [unreviewed          |-> {"in_review", "accepted", "rejected"},
     in_review           |-> {"accepted", "rejected", "needs_more_evidence", "unreviewed"},
     accepted            |-> {"in_review"},
     rejected            |-> {"in_review"},
     needs_more_evidence |-> {"in_review"}]

\* Transitions of the ordinary findings API; those to under_review are
\* submissions.
ALLOWED_TRANSITIONS ==
    {<<"under_review", "candidate">>}
      \cup ({"candidate", "under_review", "verified", "rejected"} \X {"superseded"})

ASSUME ReviewAssumption ==
    /\ Clients # {} /\ MaxVersion \in Nat
    /\ Decisions \subseteq DOMAIN DECISION_TO_STATUS

VARIABLES
    finding,    \* findings.status
    item,       \* the review_items row, status "none" before the first submission
    assigned,   \* ids of the active review_assignments, in the order of their creation
    lastId,     \* how many assignments there have been
    decisions,  \* the review_decisions rows, in order
    client      \* what each request has read and where it is

vars == <<finding, item, assigned, lastId, decisions, client>>

Item   == [status : ItemStates \cup {"none"}, version : Nat]
NoItem == [status |-> "none", version |-> 0]

Decision == [version : Nat, to : ItemStates]

\* "submit" and "verdict" hold the lock on the finding, "reopen" that on the
\* item; "decide", "release" and "patch" have read and hold nothing.
Client == [pc : {"idle", "submit", "decide", "verdict", "reopen", "release", "patch"},
           seen : Item, to : ItemStates \cup FindingStates, id : Nat]
Idle   == [pc |-> "idle", seen |-> NoItem, to |-> "candidate", id |-> 0]

Init ==
    /\ finding = "candidate"
    /\ item = NoItem
    /\ assigned = {} /\ lastId = 0
    /\ decisions = <<>>
    /\ client = [c \in Clients |-> Idle]

FindingFree == \A c \in Clients : client[c].pc \notin {"submit", "verdict"}
ItemFree    == \A c \in Clients : client[c].pc # "reopen"

Begin(c)  == client[c].pc = "idle" /\ item.version < MaxVersion
Goto(c, r) == client' = [client EXCEPT ![c] = r]
Return(c)  == Goto(c, Idle)

-----------------------------------------------------------------------------
(* Submission: the finding is locked, the item is not. *)

\* A decided item goes back to its reviewers, for the first of these reasons
\* only where rows were written before findings and items were kept in step.
Reactivates(f, i) ==
    \/ f = "under_review" /\ i.status \in {"accepted", "rejected"}
    \/ f \in {"verified", "rejected"} /\ i.status # "in_review"
    \/ f = "candidate" /\ i.status \in {"needs_more_evidence", "accepted", "rejected"}

\* The item as submit_finding_for_review leaves it, given what it has read.
Submitted(f, i) ==
    IF i.status = "none"
      THEN [status |-> IF f \in {"verified", "rejected"} THEN "in_review" ELSE "unreviewed",
            version |-> 1]
      ELSE IF Reactivates(f, i)
             THEN [status |-> "in_review", version |-> i.version + 1]
             ELSE i

SubmitLock(c) ==
    /\ Begin(c)
    /\ FindingFree
    /\ finding # "superseded"
    /\ Goto(c, [Idle EXCEPT !.pc = "submit", !.seen = item])
    /\ UNCHANGED <<finding, item, assigned, lastId, decisions>>

\* Only columns that have changed are written: an item that stays as it is
\* needs no lock.
SubmitWrite(c) ==
    LET i == client[c].seen
        j == Submitted(finding, i)
    IN /\ client[c].pc = "submit"
       /\ \/ i = j /\ UNCHANGED item
          \/ i # j /\ ItemFree /\ item' = j
       /\ finding' = "under_review"
       /\ Return(c)
       /\ UNCHANGED <<assigned, lastId, decisions>>

-----------------------------------------------------------------------------
(* Claiming and releasing: the item alone. *)

Claim(c) ==
    /\ Begin(c)
    /\ ItemFree
    /\ item.status = "unreviewed"
    /\ item' = [status |-> "in_review", version |-> item.version + 1]
    /\ lastId' = lastId + 1
    /\ assigned' = assigned \cup {lastId + 1}
    /\ UNCHANGED <<finding, decisions, client>>

\* Every request of the API acts as "local_operator": the latest active
\* assignment is anybody's.
ReleaseRead(c) ==
    /\ Begin(c)
    /\ \E a \in assigned :
          /\ \A b \in assigned : b <= a
          /\ Goto(c, [Idle EXCEPT !.pc = "release", !.id = a])
    /\ UNCHANGED <<finding, item, assigned, lastId, decisions>>

ReleaseWrite(c) ==
    /\ client[c].pc = "release"
    /\ \/ /\ item.status = "in_review" /\ ItemFree
          /\ item' = [status |-> "unreviewed", version |-> item.version + 1]
          /\ assigned' = assigned \ {client[c].id}
       \/ item.status # "in_review" /\ UNCHANGED <<item, assigned>>
    /\ Return(c)
    /\ UNCHANGED <<finding, lastId, decisions>>

-----------------------------------------------------------------------------
(* Decisions: read, lock the finding, then compare and set the item. *)

DecideRead(c, d) ==
    /\ Begin(c)
    /\ item.status # "none"
    /\ DECISION_TO_STATUS[d] \in Transitions[item.status]
    /\ Goto(c, [Idle EXCEPT !.pc = "decide", !.seen = item, !.to = DECISION_TO_STATUS[d]])
    /\ UNCHANGED <<finding, item, assigned, lastId, decisions>>

DecideLock(c) ==
    /\ client[c].pc = "decide"
    /\ FindingFree
    /\ Goto(c, [client[c] EXCEPT !.pc = "verdict"])
    /\ UNCHANGED <<finding, item, assigned, lastId, decisions>>

\* Mutant: the status alone is compared.
MatchesStatus(c) == item.status = client[c].seen.status

\* Whether the conditional UPDATE finds the row the reviewer has read.
Matches(c) == item.status = client[c].seen.status /\ item.version = client[c].seen.version

\* Mutant: the finding is left to somebody else.
DecideItemOnly(c) ==
    LET s == client[c].to
    IN /\ client[c].pc = "verdict"
       /\ Matches(c) => ItemFree
       /\ \/ /\ Matches(c)
             /\ item' = [status |-> s, version |-> item.version + 1]
             /\ decisions' = Append(decisions, [version |-> client[c].seen.version, to |-> s])
          \/ ~ Matches(c) /\ UNCHANGED <<item, decisions>>
       /\ Return(c)
       /\ UNCHANGED <<finding, assigned, lastId>>

\* The item, the finding and the decision are one commit; a lost comparison
\* or a finding that is not under review rolls all of it back.
DecideWrite(c) ==
    LET s == client[c].to
    IN /\ client[c].pc = "verdict"
       /\ Matches(c) => ItemFree
       /\ \/ /\ Matches(c) /\ finding = "under_review"
             /\ item' = [status |-> s, version |-> item.version + 1]
             /\ finding' = REVIEW_STATUS_TO_FINDING[s]
             /\ decisions' = Append(decisions, [version |-> client[c].seen.version, to |-> s])
          \/ /\ ~ (Matches(c) /\ finding = "under_review")
             /\ UNCHANGED <<finding, item, decisions>>
       /\ Return(c)
       /\ UNCHANGED <<assigned, lastId>>

-----------------------------------------------------------------------------
(* Reopening: the item is locked first, the finding second. *)

ReopenLock(c) ==
    /\ Begin(c)
    /\ ItemFree
    /\ item.status # "none" /\ "in_review" \in Transitions[item.status]
    /\ Goto(c, [Idle EXCEPT !.pc = "reopen", !.seen = item])
    /\ UNCHANGED <<finding, item, assigned, lastId, decisions>>

\* Item and finding must be in states that belong together.
Paired(i, f) ==
    /\ i.status \in {"accepted", "rejected", "needs_more_evidence"}
           => f = REVIEW_STATUS_TO_FINDING[i.status]
    /\ f # "superseded"

\* Mutant: the item is reopened and its finding keeps its verdict.
ReopenItemOnly(c) ==
    /\ client[c].pc = "reopen"
    /\ item' = [status |-> "in_review", version |-> item.version + 1]
    /\ Return(c)
    /\ UNCHANGED <<finding, assigned, lastId, decisions>>

\* Mutant: a refusal leaves the transaction open.
ReopenKeepsLock(c) ==
    /\ client[c].pc = "reopen"
    /\ FindingFree /\ Paired(item, finding)
    /\ item' = [status |-> "in_review", version |-> item.version + 1]
    /\ finding' = "under_review"
    /\ Return(c)
    /\ UNCHANGED <<assigned, lastId, decisions>>

ReopenWrite(c) ==
    /\ client[c].pc = "reopen"
    /\ FindingFree
    /\ \/ /\ Paired(item, finding)
          /\ item' = [status |-> "in_review", version |-> item.version + 1]
          /\ finding' = "under_review"
       \/ ~ Paired(item, finding) /\ UNCHANGED <<item, finding>>
    /\ Return(c)
    /\ UNCHANGED <<assigned, lastId, decisions>>

-----------------------------------------------------------------------------
(* The ordinary findings API: checked in one transaction, written in another. *)

PatchRead(c, s) ==
    /\ Begin(c)
    /\ <<finding, s>> \in ALLOWED_TRANSITIONS
    /\ Goto(c, [Idle EXCEPT !.pc = "patch", !.to = s])
    /\ UNCHANGED <<finding, item, assigned, lastId, decisions>>

PatchWrite(c) ==
    /\ client[c].pc = "patch"
    /\ FindingFree \/ finding = client[c].to
    /\ finding' = client[c].to
    /\ Return(c)
    /\ UNCHANGED <<item, assigned, lastId, decisions>>

\* A request ends before its commit: its client goes away, its process dies.
Abort(c) ==
    /\ client[c].pc # "idle"
    /\ Return(c)
    /\ UNCHANGED <<finding, item, assigned, lastId, decisions>>

\* The holder of the finding wants the item, the holder of the item wants
\* the finding: PostgreSQL cancels one of them.
WantsItem(c) ==
    \/ client[c].pc = "verdict" /\ Matches(c)
    \/ client[c].pc = "submit" /\ Submitted(finding, client[c].seen) # client[c].seen
Victim(c) ==
    /\ \E b, d \in Clients : WantsItem(b) /\ client[d].pc = "reopen" /\ c \in {b, d}
    /\ Return(c)
    /\ UNCHANGED <<finding, item, assigned, lastId, decisions>>

-----------------------------------------------------------------------------
Request(c) ==
    \/ SubmitLock(c) \/ Claim(c) \/ ReleaseRead(c) \/ ReopenLock(c)
    \/ \E d \in Decisions : DecideRead(c, d)
    \/ \E s \in {"candidate", "superseded"} : PatchRead(c, s)
Locked(c) == ReleaseWrite(c) \/ DecideLock(c) \/ PatchWrite(c)
Commit(c) == SubmitWrite(c) \/ DecideWrite(c) \/ ReopenWrite(c)

Next == \E c \in Clients : Request(c) \/ Locked(c) \/ Commit(c) \/ Abort(c) \/ Victim(c)

Spec == Init /\ [][Next]_vars

\* Row locks are granted in the order of the requests, and a cycle of them
\* is detected.
ReviewFairness ==
    /\ \A c \in Clients : SF_vars(Locked(c) \/ Commit(c))
    /\ WF_vars(\E c \in Clients : Victim(c))

-----------------------------------------------------------------------------
(* Properties *)

TypeOK ==
    /\ finding \in FindingStates
    /\ item \in Item
    /\ assigned \subseteq 1 .. lastId /\ lastId \in Nat
    /\ decisions \in Seq(Decision)
    /\ client \in [Clients -> Client]

Verdicts == {"verified", "rejected"}

\* A finding is verified or rejected only as the outcome of the last decision
\* of its review, which nothing has touched since: requests that submit,
\* reopen or patch the finding meanwhile cannot leave a verdict behind that
\* its reviewers have taken back (decide_review_item, finding_service).
VerdictIsDecided ==
    finding \in Verdicts =>
        /\ decisions # <<>>
        /\ LET d == decisions[Len(decisions)]
           IN /\ REVIEW_STATUS_TO_FINDING[d.to] = finding
              /\ item = [status |-> d.to, version |-> d.version + 1]

\* A finding under review has an item that can still be decided or reopened,
\* so it never waits for a verdict nobody may give.
UnderReviewIsDecidable ==
    finding = "under_review" =>
        item.status \in {"unreviewed", "in_review", "needs_more_evidence"}

\* A finding and its item never contradict each other: verdicts are decided,
\* and what is under review can be.
FindingMatchesItem == VerdictIsDecided /\ UnderReviewIsDecidable

\* No two decisions answer the same version of the item, even if it returns
\* to the status it had: the object_version of a decision names one round.
OneDecisionPerVersion ==
    \A i, j \in DOMAIN decisions : decisions[i].version = decisions[j].version => i = j

\* Two rounds of review are told apart: whoever changes the status raises the
\* version by one, and no write takes the version back.
VersionsGrow ==
    [][/\ item'.version \in {item.version, item.version + 1}
       /\ item'.status # item.status => item'.version = item.version + 1]_vars

\* A request that waits for a row ends: no cycle of locks and no lock left
\* behind keeps it for ever.
RequestsEnd == \A c \in Clients : []<>(client[c].pc = "idle")

=============================================================================
