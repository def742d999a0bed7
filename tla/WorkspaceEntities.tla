------------------------- MODULE WorkspaceEntities -------------------------
(***************************************************************************)
(* The entities of the workspace: the node that stands for one account of  *)
(* one platform in all cases that have seen it, the key that finds it, its *)
(* links to the cases and the revocable "same as" relations between two of *)
(* them (application/workspace_entity_service.py,                          *)
(* infrastructure/database/workspace_entity_repository.py).                *)
(*                                                                         *)
(* A refresh of a case is a job of the analysis workers: a sequence of     *)
(* transactions that resolves the accounts, links them, takes back what    *)
(* the case no longer shows, and deletes the entities nobody needs.  Two   *)
(* refreshes may run at once, of one case or of two, and the case may be   *)
(* deleted meanwhile.                                                      *)
(*                                                                         *)
(* Names, aliases, dates and the metadata of links are left out.  A case   *)
(* has at most one canonical entity.  Accounts without a native id, whose  *)
(* key is local to their case, are left out: nothing is shared about them. *)
(***************************************************************************)
EXTENDS FiniteSets

CONSTANTS
    Cases, NoCase,      \* cases; no case
    Accounts,           \* accounts of platforms, by platform and native id
    Refreshers,         \* workers that refresh cases
    EntityIds, NoEntity,\* ids of entities: more of them than are ever in use
    ForeignKeys         \* the database enforces foreign keys: PostgreSQL does, SQLite as opened here does not

ASSUME EntityAssumption ==
    /\ ForeignKeys \in BOOLEAN
    /\ NoCase \notin Cases
    /\ NoEntity \notin EntityIds

VARIABLES
    known,      \* the cases that exist
    authors,    \* of each case: the accounts that wrote its posts
    home,       \* of each account: the case in which its row was first observed
    aligned,    \* of each case: the accounts its canonical entity joins
    entities,   \* workspace_entities: the ids that exist
    keys,       \* workspace_entity_keys: the entity each account's key names
    links,      \* workspace_entity_case_links: by case and source, the entity
    same,       \* workspace_entity_relations: by case, the active pairs
    refresh     \* what each refresh is doing and has read

entityVars == <<known, authors, home, aligned, entities, keys, links, same, refresh>>
caseVars == <<known, authors, home, aligned>>
rowVars == <<entities, keys, links, same>>

\* An account is a source of its case as a row first observed there, or as an author of its posts.
Sources == {"account", "author"} \X Accounts
SourcesOf(c) == {s \in Sources : IF s[1] = "account" THEN home[s[2]] = c
                                                     ELSE s[2] \in authors[c] /\ home[s[2]] # c}

Idle(c, lone) == [at |-> "idle", case |-> c, sources |-> {}, found |-> [a \in Accounts |-> NoEntity],
                  todo |-> {}, creating |-> {}, pairs |-> {}, orphans |-> {}, lone |-> lone]

EntityInit ==
    /\ known = Cases
    /\ authors \in [Cases -> SUBSET Accounts]
    /\ home \in [Accounts -> Cases \cup {NoCase}]
    /\ \A c \in Cases, a \in Accounts : home[a] = c => a \in authors[c]
    /\ aligned = [c \in Cases |-> {}]
    /\ entities = {}
    /\ keys = [a \in Accounts |-> NoEntity]
    /\ links = [c \in Cases |-> [s \in Sources |-> NoEntity]]
    /\ same = [c \in Cases |-> {}]
    /\ refresh = [r \in Refreshers |-> Idle(NoCase, FALSE)]

(***************************** What refreshes meet ************************)

Running(r) == refresh[r].at # "idle"
Disturbed == [r \in Refreshers |-> [refresh[r] EXCEPT !.lone = FALSE]]

\* A post of the case is stored: its author is seen, and has a row if there was none.
Observe(c, a) ==
    /\ c \in known
    /\ a \notin authors[c] \/ home[a] = NoCase
    /\ authors' = [authors EXCEPT ![c] = @ \cup {a}]
    /\ home' = [home EXCEPT ![a] = IF @ = NoCase THEN c ELSE @]
    /\ refresh' = Disturbed
    /\ UNCHANGED <<known, aligned, rowVars>>

\* The alignment of the case joins accounts in one canonical entity, or takes that back.
Align(c, S) ==
    /\ c \in known
    /\ aligned[c] # S
    /\ \A a \in S : home[a] = c
    /\ aligned' = [aligned EXCEPT ![c] = S]
    /\ refresh' = Disturbed
    /\ UNCHANGED <<known, authors, home, rowVars>>

(***************************** Rows of the database ***********************)

Linked(e) == \E c \in Cases, s \in Sources : links[c][s] = e
Related(e) == \E c \in Cases : \E p \in same[c] : e \in p
Orphans == {e \in entities : ~Linked(e) /\ ~Related(e)}

\* Entities are deleted, and with them the rows that name them where the database cascades.
DeleteEntities(gone, linksLeft, sameLeft) ==
    LET kept(e) == IF ForeignKeys /\ e \in gone THEN NoEntity ELSE e IN
    /\ entities' = entities \ gone
    /\ keys' = [a \in Accounts |-> kept(keys[a])]
    /\ links' = [c \in Cases |-> [s \in Sources |-> kept(linksLeft[c][s])]]
    /\ same' = [c \in Cases |-> {p \in sameLeft[c] : ForeignKeys => p \cap gone = {}}]

\* delete_case, one transaction: what the case has, and the entities only it needed.
DeleteCase(c) ==
    LET linksLeft == [links EXCEPT ![c] = [s \in Sources |-> NoEntity]]
        sameLeft == [same EXCEPT ![c] = {}]
    IN
    /\ c \in known
    /\ known' = known \ {c}
    /\ authors' = [authors EXCEPT ![c] = {}]
    /\ home' = [a \in Accounts |-> IF home[a] = c THEN NoCase ELSE home[a]]
    /\ aligned' = [aligned EXCEPT ![c] = {}]
    /\ DeleteEntities({e \in entities : /\ \A d \in Cases, s \in Sources : linksLeft[d][s] # e
                                        /\ \A d \in Cases : \A p \in sameLeft[d] : e \notin p},
                      linksLeft, sameLeft)
    /\ refresh' = Disturbed

\* An id that nothing names: a new uuid differs from every other one.
Unused(e) ==
    /\ e \notin entities
    /\ \A a \in Accounts : keys[a] # e
    /\ ~Linked(e) /\ ~Related(e)
    /\ \A r \in Refreshers : /\ \A a \in Accounts : refresh[r].found[a] # e
                             /\ e \notin refresh[r].orphans
                             /\ \A p \in refresh[r].pairs : e \notin p
NewEntity == CHOOSE e \in EntityIds : Unused(e)

\* A row that names entities of a case can be written.
Referable(es, c) == ForeignKeys => es \subseteq entities /\ c \in known

(***************************** refresh_case *******************************)

Step(r, at) == refresh[r].at = at
Becomes(r, rec) == refresh' = [refresh EXCEPT ![r] = rec]

\* The case is there; its accounts are read.
StartRefresh(r, c) ==
    /\ ~Running(r)
    /\ c \in known
    /\ refresh' = [Disturbed EXCEPT ![r] =
           [Idle(c, \A q \in Refreshers : ~Running(q)) EXCEPT
                !.at = "resolve", !.sources = SourcesOf(c), !.todo = SourcesOf(c)]]
    /\ UNCHANGED <<caseVars, rowVars>>

\* find_by_key joins the key with its entity: a key without one finds nothing.
Resolve(r) ==
    /\ Step(r, "resolve")
    /\ \E s \in refresh[r].todo :
           LET e == keys[s[2]] IN
           Becomes(r, IF e \in entities
                      THEN [refresh[r] EXCEPT !.found[s[2]] = e, !.todo = @ \ {s}]
                      ELSE [refresh[r] EXCEPT !.at = "create", !.creating = {s}])
    /\ UNCHANGED <<caseVars, rowVars>>

\* Mutant: the key is not unique.
KeyIsNotUnique(a) == TRUE

\* uq_workspace_entity_key: an account has one key.
KeyIsFree(a) == keys[a] = NoEntity

\* create_with_key: the key is unique, whoever comes second has to look again.
CreateEntity(r) ==
    /\ Step(r, "create")
    /\ \E s \in refresh[r].creating :
           \/ /\ KeyIsFree(s[2])
              /\ \E e \in EntityIds : Unused(e)
              /\ entities' = entities \cup {NewEntity}
              /\ keys' = [keys EXCEPT ![s[2]] = NewEntity]
              /\ Becomes(r, [refresh[r] EXCEPT !.at = "resolve", !.found[s[2]] = NewEntity,
                                               !.todo = @ \ {s}, !.creating = {}])
           \/ /\ ~KeyIsFree(s[2])
              /\ Becomes(r, [refresh[r] EXCEPT !.at = "reload"])
              /\ UNCHANGED <<entities, keys>>
    /\ UNCHANGED <<caseVars, links, same>>

\* After the conflict: the entity of the other, or the refresh fails with workspace_entity_key_conflict.
Reload(r) ==
    /\ Step(r, "reload")
    /\ \E s \in refresh[r].creating :
           LET e == keys[s[2]] IN
           Becomes(r, IF e \in entities
                      THEN [refresh[r] EXCEPT !.at = "resolve", !.found[s[2]] = e,
                                              !.todo = @ \ {s}, !.creating = {}]
                      ELSE [Idle(refresh[r].case, FALSE) EXCEPT !.at = "key_conflict"])
    /\ UNCHANGED <<caseVars, rowVars>>

AllResolved(r) ==
    /\ Step(r, "resolve")
    /\ refresh[r].todo = {}
    /\ Becomes(r, [refresh[r] EXCEPT !.at = "link", !.todo = refresh[r].sources])
    /\ UNCHANGED <<caseVars, rowVars>>

\* upsert_case_link: the link of the source is created, or moved to the entity.
Link(r) ==
    LET c == refresh[r].case IN
    /\ Step(r, "link")
    /\ \E s \in refresh[r].todo :
           LET e == refresh[r].found[s[2]] IN
           /\ Referable({e}, c)
           /\ links' = [links EXCEPT ![c][s] = e]
           /\ Becomes(r, [refresh[r] EXCEPT !.todo = @ \ {s}])
    /\ UNCHANGED <<caseVars, entities, keys, same>>

\* Mutant: nothing is taken back.
KeepLinks(r) ==
    /\ Step(r, "link")
    /\ refresh[r].todo = {}
    /\ Becomes(r, [refresh[r] EXCEPT !.at = "align"])
    /\ UNCHANGED <<caseVars, rowVars>>

\* reconcile_case_links: sources the case no longer shows lose their link.
ReconcileLinks(r) ==
    LET c == refresh[r].case IN
    /\ Step(r, "link")
    /\ refresh[r].todo = {}
    /\ links' = [links EXCEPT ![c] = [s \in Sources |-> IF s \in refresh[r].sources THEN @[s] ELSE NoEntity]]
    /\ Becomes(r, [refresh[r] EXCEPT !.at = "align"])
    /\ UNCHANGED <<caseVars, entities, keys, same>>

\* The pairs the canonical entity of the case says are the same: of two accounts with rows in it.
ReadAlignment(r) ==
    LET rec == refresh[r]
        members == {rec.found[a] : a \in {b \in aligned[rec.case] : <<"account", b>> \in rec.sources}}
        expected == {p \in SUBSET members : Cardinality(p) = 2}
    IN
    /\ Step(r, "align")
    /\ Becomes(r, [rec EXCEPT !.at = "relate", !.pairs = expected, !.todo = {}])
    /\ UNCHANGED <<caseVars, rowVars>>

\* upsert_relation: the relation is created, or active again.
Relate(r) ==
    LET c == refresh[r].case IN
    /\ Step(r, "relate")
    /\ \E p \in refresh[r].pairs \ same[c] :
           /\ Referable(p, c)
           /\ same' = [same EXCEPT ![c] = @ \cup {p}]
    /\ UNCHANGED <<caseVars, entities, keys, links, refresh>>

\* reconcile_case_relations: what is not expected is retracted.
ReconcileRelations(r) ==
    LET c == refresh[r].case IN
    /\ Step(r, "relate")
    /\ refresh[r].pairs \subseteq same[c]
    /\ same' = [same EXCEPT ![c] = @ \cap refresh[r].pairs]
    /\ Becomes(r, [refresh[r] EXCEPT !.at = "orphans"])
    /\ UNCHANGED <<caseVars, entities, keys, links>>

\* delete_orphans looks for them and then deletes what it has found.
FindOrphans(r) ==
    /\ Step(r, "orphans")
    /\ Becomes(r, [refresh[r] EXCEPT !.at = "delete", !.orphans = Orphans])
    /\ UNCHANGED <<caseVars, rowVars>>

DeleteOrphans(r) ==
    /\ Step(r, "delete")
    /\ DeleteEntities(refresh[r].orphans, links, same)
    /\ Becomes(r, Idle(refresh[r].case, refresh[r].lone))
    /\ UNCHANGED caseVars

\* The worker is killed, a statement fails, or a foreign key refuses a row: what is committed stays.
RefreshFails(r) ==
    /\ Running(r)
    /\ Becomes(r, Idle(refresh[r].case, FALSE))
    /\ UNCHANGED <<caseVars, rowVars>>

RefreshStep(r) ==
    \/ Resolve(r) \/ CreateEntity(r) \/ Reload(r) \/ AllResolved(r)
    \/ Link(r) \/ ReconcileLinks(r)
    \/ ReadAlignment(r) \/ Relate(r) \/ ReconcileRelations(r)
    \/ FindOrphans(r) \/ DeleteOrphans(r)

EntityNext ==
    \/ \E c \in Cases, a \in Accounts : Observe(c, a)
    \/ \E c \in Cases : \E S \in SUBSET Accounts : Align(c, S)
    \/ \E c \in Cases : DeleteCase(c)
    \/ \E r \in Refreshers : \/ \E c \in Cases : StartRefresh(r, c)
                             \/ RefreshStep(r)
                             \/ RefreshFails(r)

EntitySpec == EntityInit /\ [][EntityNext]_entityVars

(***************************** Properties *********************************)

EntityTypeOK ==
    /\ known \subseteq Cases
    /\ authors \in [Cases -> SUBSET Accounts]
    /\ home \in [Accounts -> Cases \cup {NoCase}]
    /\ aligned \in [Cases -> SUBSET Accounts]
    /\ entities \subseteq EntityIds
    /\ keys \in [Accounts -> EntityIds \cup {NoEntity}]
    /\ links \in [Cases -> [Sources -> EntityIds \cup {NoEntity}]]
    /\ same \in [Cases -> SUBSET SUBSET EntityIds]

\* One account is one entity in the whole workspace: every link of an account, in whatever case,
\* leads to the entity that exists and that the account's key names; relations join such entities.
OneEntityPerAccount ==
    /\ \A c \in Cases, s \in Sources :
           links[c][s] # NoEntity => links[c][s] \in entities /\ keys[s[2]] = links[c][s]
    /\ \A c \in Cases : \A p \in same[c] : p \subseteq entities

\* A refresh that nobody disturbed leaves exactly what the case shows: its sources are linked,
\* its canonical pairs related, everything else taken back, and no entity without a use.
LoneRefreshIsExact ==
    \A r \in Refreshers :
        LET c == refresh[r].case IN
        refresh[r].at = "idle" /\ refresh[r].lone =>
            /\ {s \in Sources : links[c][s] # NoEntity} = SourcesOf(c)
            /\ same[c] = {p \in SUBSET {keys[a] : a \in aligned[c]} : Cardinality(p) = 2}
            /\ Orphans = {}

\* A key that is already taken leads to its entity: "on a UNIQUE conflict reload the existing entity
\* and return it".
ConflictFindsEntity == \A r \in Refreshers : refresh[r].at # "key_conflict"
=============================================================================
