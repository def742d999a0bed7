--------------------------- MODULE CollectionStart ---------------------------
(***************************************************************************)
(* How a crawl of a case comes to be: the versions of its collection       *)
(* definition, of which one is active, and the calls of the agents that    *)
(* start a collection run from it, with the user's approval or with an     *)
(* approval given in advance (application/collection_service.py,           *)
(* infrastructure/database/collection_repository.py,                       *)
(* application/collection_run_service.py).                                 *)
(*                                                                         *)
(* A definition is its version: what it says about platforms, keywords and *)
(* filters is left out, as is the case's own topic and time range.  What   *)
(* becomes of a run is the module CollectionRun; here it is active or not. *)
(***************************************************************************)
EXTENDS Naturals, Sequences, FiniteSets

CONSTANTS
    Versions,       \* 1..n: the versions of the definition that may be made
    Editors,        \* requests that make or activate versions
    StartCalls,     \* calls of start_social_collection, all for one phase
    Preapproved     \* those of a run that was approved when it was created

ASSUME StartAssumption == Preapproved \subseteq StartCalls

VARIABLES
    definitions,    \* of each version: its status
    edits,          \* what each request is doing and has read
    starts,         \* what each call is doing, the version it was approved with and the one it read
    runs            \* collection_runs, in the order of their creation

startVars == <<definitions, edits, starts, runs>>

NoVersion == 0
EditIdle == [at |-> "idle", version |-> NoVersion, seen |-> {}]
StartIdle == [at |-> "called", shown |-> NoVersion, found |-> NoVersion]

StartInit ==
    /\ definitions = [v \in Versions |-> "absent"]
    /\ edits = [e \in Editors |-> EditIdle]
    /\ starts = [c \in StartCalls |-> StartIdle]
    /\ runs = <<>>

(***************************** Definitions ********************************)

ActiveVersions == {v \in Versions : definitions[v] = "active"}
Made == {v \in Versions : definitions[v] # "absent"}

EditGoes(e, rec) == edits' = [edits EXCEPT ![e] = rec]

\* create_manual, generate and revise number the new version after the greatest there is ...
ReadMaxVersion(e) ==
    /\ edits[e].at = "idle"
    /\ \E v \in Versions : /\ v = Cardinality(Made) + 1
                           /\ EditGoes(e, [EditIdle EXCEPT !.at = "insert", !.version = v])
    /\ UNCHANGED <<definitions, starts, runs>>

\* ... and insert it as a draft; a number that is taken meanwhile is refused.
InsertDraft(e) ==
    /\ edits[e].at = "insert"
    /\ definitions' = [definitions EXCEPT ![edits[e].version] = IF @ = "absent" THEN "draft" ELSE @]
    /\ EditGoes(e, EditIdle)
    /\ UNCHANGED <<starts, runs>>

\* activate, one transaction of three statements: the target is read, and is a draft.
ReadDraft(e, v) ==
    /\ edits[e].at = "idle"
    /\ definitions[v] = "draft"
    /\ EditGoes(e, [EditIdle EXCEPT !.at = "supersede", !.version = v])
    /\ UNCHANGED <<definitions, starts, runs>>

\* The UPDATE that supersedes the active version finds it.
FindActive(e) ==
    /\ edits[e].at = "supersede"
    /\ EditGoes(e, [edits[e] EXCEPT !.at = "commit", !.seen = ActiveVersions])
    /\ UNCHANGED <<definitions, starts, runs>>

\* Another version that has become active meanwhile: the unique index refuses a second one.
Conflict(e) == ActiveVersions \ (edits[e].seen \cup {edits[e].version}) # {}

\* Mutant: what was found is superseded last, the target itself as well.
ActivateThenSupersede(e) ==
    /\ edits[e].at = "commit"
    /\ definitions' = IF Conflict(e) THEN definitions
                      ELSE [v \in Versions |->
                               IF v \in edits[e].seen \cap ActiveVersions THEN "superseded"
                               ELSE IF v = edits[e].version THEN "active"
                               ELSE definitions[v]]
    /\ EditGoes(e, EditIdle)
    /\ UNCHANGED <<starts, runs>>

\* The target becomes active by its key, whatever it has become, also when another request has
\* made it active and the UPDATE has found it; what else was found is superseded.
Activate(e) ==
    /\ edits[e].at = "commit"
    /\ definitions' = IF Conflict(e) THEN definitions
                      ELSE [v \in Versions |->
                               IF v = edits[e].version THEN "active"
                               ELSE IF v \in edits[e].seen \cap ActiveVersions THEN "superseded"
                               ELSE definitions[v]]
    /\ EditGoes(e, EditIdle)
    /\ UNCHANGED <<starts, runs>>

(***************************** start_social_collection ********************)

StartGoes(c, rec) == starts' = [starts EXCEPT ![c] = rec]
ActiveVersion == IF ActiveVersions = {} THEN NoVersion ELSE CHOOSE v \in ActiveVersions : TRUE

\* The approval shows the scope of the definition that is active now, or none.
AskApproval(c) ==
    /\ starts[c].at = "called"
    /\ c \notin Preapproved
    /\ StartGoes(c, [starts[c] EXCEPT !.at = "asked", !.shown = ActiveVersion])
    /\ UNCHANGED <<definitions, edits, runs>>

Decide(c) ==
    /\ starts[c].at = "asked"
    /\ \E at \in {"approved", "refused"} : StartGoes(c, [starts[c] EXCEPT !.at = at])
    /\ UNCHANGED <<definitions, edits, runs>>

\* build_snapshot reads the active definition, after the approval: without one there is no run.
\* The scope is compared with the approved one before, but not its definition.
BuildSnapshot(c) ==
    /\ starts[c].at = IF c \in Preapproved THEN "called" ELSE "approved"
    /\ StartGoes(c, [starts[c] EXCEPT !.at = IF ActiveVersion = NoVersion THEN "refused" ELSE "find",
                                      !.found = ActiveVersion])
    /\ UNCHANGED <<definitions, edits, runs>>

\* find_active_by_fingerprint: an equivalent run that has not ended is the answer.
FindEquivalent(c) ==
    LET equivalent == \E i \in DOMAIN runs : runs[i].active /\ runs[i].version = starts[c].found IN
    /\ starts[c].at = "find"
    /\ StartGoes(c, [starts[c] EXCEPT !.at = IF equivalent THEN "answered" ELSE "create"])
    /\ UNCHANGED <<definitions, edits, runs>>

\* The key of the call is unique in the case.
KeyIsTaken(c) == \E i \in DOMAIN runs : runs[i].call = c

\* create: a run in state queued, or the run that this call has created before.
CreateRun(c) ==
    /\ starts[c].at = "create"
    /\ runs' = IF KeyIsTaken(c) THEN runs
               ELSE Append(runs, [call |-> c, version |-> starts[c].found, active |-> TRUE])
    /\ StartGoes(c, [starts[c] EXCEPT !.at = "answered"])
    /\ UNCHANGED <<definitions, edits>>

\* The process dies before the answer is in a checkpoint: the call is made again.  One with an
\* approval is not, its authorization is used up.
Replay(c) ==
    /\ c \in Preapproved
    /\ starts[c].at # "called"
    /\ StartGoes(c, StartIdle)
    /\ UNCHANGED <<definitions, edits, runs>>

RunEnds ==
    /\ \E i \in DOMAIN runs : /\ runs[i].active
                              /\ runs' = [runs EXCEPT ![i].active = FALSE]
    /\ UNCHANGED <<definitions, edits, starts>>

StartNext ==
    \/ \E e \in Editors : \/ ReadMaxVersion(e) \/ InsertDraft(e)
                          \/ \E v \in Versions : ReadDraft(e, v)
                          \/ FindActive(e) \/ Activate(e)
    \/ \E c \in StartCalls : \/ AskApproval(c) \/ Decide(c)
                             \/ BuildSnapshot(c) \/ FindEquivalent(c) \/ CreateRun(c)
                             \/ Replay(c)
    \/ RunEnds

StartSpec == StartInit /\ [][StartNext]_startVars

(***************************** Properties *********************************)

StartTypeOK ==
    /\ definitions \in [Versions -> {"absent", "draft", "active", "superseded"}]
    /\ edits \in [Editors -> [at : {"idle", "insert", "supersede", "commit"},
                              version : Versions \cup {NoVersion}, seen : SUBSET Versions]]
    /\ starts \in [StartCalls ->
           [at : {"called", "asked", "approved", "refused", "find", "create", "answered"},
            shown : Versions \cup {NoVersion}, found : Versions \cup {NoVersion}]]
    /\ \A i \in DOMAIN runs : runs[i] \in [call : StartCalls, version : Versions, active : BOOLEAN]

\* One definition is in force: however activations interleave, of different drafts or twice of the
\* same one, of which a request still thinks it is a draft, one version at most is active, and a
\* version is never superseded unless another one is active in its place, so that a case which
\* could be collected once can be collected ever after.
OneDefinitionInForce ==
    /\ Cardinality(ActiveVersions) <= 1
    /\ (\E v \in Versions : definitions[v] = "superseded") => ActiveVersions # {}

\* INV-1: a run created after an approval collects the definition that the approval showed.
ApprovedIsCollected ==
    \A i \in DOMAIN runs :
        LET shown == starts[runs[i].call].shown IN
        shown # NoVersion => runs[i].version = shown
=============================================================================
