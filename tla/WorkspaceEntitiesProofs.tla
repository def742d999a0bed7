---------------------- MODULE WorkspaceEntitiesProofs ----------------------
(***************************************************************************)
(* Theorems about WorkspaceEntities, for any cases, sources, accounts,     *)
(* entities and refreshes, with or without foreign keys in the database;   *)
(* and the types of the whole workspace that MCWorkspace puts together.    *)
(***************************************************************************)
EXTENDS MCWorkspace, WorkspaceProofs, FiniteSetTheorems, TLAPS

-----------------------------------------------------------------------------
(* The kinds of the rows *)

Ids == EntityIds \cup {NoEntity}
RefreshPlaces == {"idle", "resolve", "create", "reload", "key_conflict", "link", "align", "relate",
                  "orphans", "delete"}

\* What a refresh has read; the ids it found may be gone since.
RefreshRecords ==
    [at : RefreshPlaces, case : Cases \cup {NoCase}, sources : SUBSET Sources,
     found : [Accounts -> Ids], todo : SUBSET Sources, creating : SUBSET Sources,
     pairs : SUBSET SUBSET Ids, orphans : SUBSET EntityIds, lone : BOOLEAN]

CasesTyped ==
    /\ known \subseteq Cases
    /\ authors \in [Cases -> SUBSET Accounts]
    /\ home \in [Accounts -> Cases \cup {NoCase}]
    /\ aligned \in [Cases -> SUBSET Accounts]
    /\ \A c \in Cases : \A a \in aligned[c] : home[a] = c

RowsTyped ==
    /\ entities \subseteq EntityIds
    /\ keys \in [Accounts -> Ids]
    /\ links \in [Cases -> [Sources -> Ids]]
    /\ same \in [Cases -> SUBSET SUBSET Ids]

-----------------------------------------------------------------------------
(* A refresh nobody disturbs *)

CanonicalPairs(c) == {p \in SUBSET {keys[a] : a \in aligned[c]} : Cardinality(p) = 2}

\* The refresh has found what the key of the source names, and that exists.
Names(rec, s) == rec.found[s[2]] = keys[s[2]] /\ keys[s[2]] \in entities

LinksExact(c) == \A s \in Sources : links[c][s] = IF s \in SourcesOf(c) THEN keys[s[2]] ELSE NoEntity

Exact(c) ==
    /\ {s \in Sources : links[c][s] # NoEntity} = SourcesOf(c)
    /\ same[c] = CanonicalPairs(c)
    /\ Orphans = {}

\* How far a lone refresh has come, transaction by transaction.
LoneOK(rec) ==
    LET c == rec.case IN
    rec.lone =>
        /\ c \in Cases
        /\ rec.at # "key_conflict"
        /\ rec.at # "idle" => rec.sources = SourcesOf(c)
        /\ rec.at \in {"resolve", "create", "reload"} =>
               \A s \in rec.sources \ rec.todo : Names(rec, s)
        /\ rec.at \in {"link", "align", "relate", "orphans", "delete"} =>
               \A s \in rec.sources : Names(rec, s)
        /\ rec.at = "link" => \A s \in rec.sources \ rec.todo : links[c][s] = keys[s[2]]
        /\ rec.at \in {"align", "relate", "orphans", "delete"} => LinksExact(c)
        /\ rec.at \in {"relate", "orphans", "delete"} => rec.pairs = CanonicalPairs(c)
        /\ rec.at \in {"orphans", "delete"} => same[c] = CanonicalPairs(c)
        /\ rec.at = "delete" => rec.orphans = Orphans
        /\ rec.at = "idle" => Exact(c)

EntityInv ==
    /\ CasesTyped /\ RowsTyped
    /\ refresh \in [Refreshers -> RefreshRecords]
    /\ \A r \in Refreshers : LoneOK(refresh[r])
    /\ \A r, q \in Refreshers : refresh[r].lone /\ q # r => ~Running(q)

\* The row of a refresh after a step of its own: every id it has found is the one it had, or the one
\* the key of the account names.
RefreshGoesOn(r, rec) ==
    /\ Becomes(r, rec)
    /\ rec \in RefreshRecords
    /\ rec.lone => refresh[r].lone
    /\ \A a \in Accounts : rec.found[a] \in {NoEntity, refresh[r].found[a], keys'[a]}
    /\ LoneOK(rec)'

-----------------------------------------------------------------------------
(* The steps of one refresh *)

LEMMA SourceAccount == \A s \in Sources : s[2] \in Accounts
BY DEF Sources

LEMMA IdleTyped ==
    ASSUME NEW c \in Cases \cup {NoCase}, NEW lone \in BOOLEAN
    PROVE  /\ Idle(c, lone) \in RefreshRecords
           /\ Idle(c, lone).at = "idle" /\ Idle(c, lone).case = c /\ Idle(c, lone).lone = lone
           /\ \A a \in Accounts : Idle(c, lone).found[a] = NoEntity
<1>1. [a \in Accounts |-> NoEntity] \in [Accounts -> Ids]
    BY DEF Ids
<1>2. PICK none : none = [a \in Accounts |-> NoEntity]
    OBVIOUS
<1> QED BY <1>1, <1>2 DEF Idle, RefreshRecords, RefreshPlaces

LEMMA RowsStay ==
    ASSUME UNCHANGED <<caseVars, rowVars>>
    PROVE  \A rec : LoneOK(rec)' <=> LoneOK(rec)
BY DEF caseVars, rowVars, LoneOK, Names, LinksExact, Exact, CanonicalPairs, SourcesOf, Orphans,
       Linked, Related

LEMMA ResolveStep ==
    ASSUME EntityInv, NEW r \in Refreshers, Resolve(r)
    PROVE  \E rec : RefreshGoesOn(r, rec)
<1>1. refresh[r] \in RefreshRecords /\ LoneOK(refresh[r]) /\ refresh[r].at = "resolve"
    BY DEF EntityInv, Resolve, Step
<1>2. PICK s \in refresh[r].todo :
          LET e == keys[s[2]] IN
          Becomes(r, IF e \in entities
                      THEN [refresh[r] EXCEPT !.found[s[2]] = e, !.todo = @ \ {s}]
                      ELSE [refresh[r] EXCEPT !.at = "create", !.creating = {s}])
    BY DEF Resolve
<1>3. s \in Sources /\ s[2] \in Accounts /\ keys[s[2]] \in Ids /\ keys' = keys
    BY <1>1, SourceAccount DEF RefreshRecords, EntityInv, RowsTyped, Resolve, rowVars
<1>4. PICK a, e : a = s[2] /\ e = keys[a]
    OBVIOUS
<1>5. PICK found, todo : /\ found = [refresh[r].found EXCEPT ![a] = e]
                         /\ todo = refresh[r].todo \ {s}
    OBVIOUS
<1>6. found \in [Accounts -> Ids] /\ todo \in SUBSET Sources
    BY <1>1, <1>3, <1>4, <1>5 DEF RefreshRecords
<1>7. CASE e \in entities
  <2>1. PICK rec : rec = [refresh[r] EXCEPT !.found = found, !.todo = todo]
    OBVIOUS
  <2>2. /\ rec \in RefreshRecords /\ rec.at = "resolve" /\ rec.case = refresh[r].case
        /\ rec.lone = refresh[r].lone /\ rec.sources = refresh[r].sources
        /\ rec.found = found /\ rec.todo = todo
    BY <1>1, <1>6, <2>1 DEF RefreshRecords
  <2>3. Becomes(r, rec)
    BY <1>1, <1>2, <1>4, <1>5, <1>7, <2>1
  <2>4. \A b \in Accounts : found[b] = IF b = a THEN keys[b] ELSE refresh[r].found[b]
    BY <1>1, <1>3, <1>4, <1>5 DEF RefreshRecords
  <2>5. \A t \in Sources : Names(refresh[r], t) \/ t = s => Names(rec, t)
    BY <1>3, <1>4, <1>7, <2>2, <2>4, SourceAccount DEF Names
  <2>6. LoneOK(rec)
    BY <1>1, <1>5, <2>2, <2>5 DEF LoneOK, RefreshRecords
  <2>7. LoneOK(rec)'
    BY <2>6, RowsStay DEF Resolve
  <2> QED BY <1>3, <2>2, <2>3, <2>4, <2>7 DEF RefreshGoesOn
<1>8. CASE e \notin entities
  <2>1. PICK rec : rec = [refresh[r] EXCEPT !.at = "create", !.creating = {s}]
    OBVIOUS
  <2>2. /\ rec \in RefreshRecords /\ rec.at = "create" /\ rec.case = refresh[r].case
        /\ rec.lone = refresh[r].lone /\ rec.sources = refresh[r].sources
        /\ rec.found = refresh[r].found /\ rec.todo = refresh[r].todo
    BY <1>1, <1>3, <2>1 DEF RefreshRecords, RefreshPlaces
  <2>3. Becomes(r, rec)
    BY <1>2, <1>4, <1>8, <2>1
  <2>4. LoneOK(rec)
    BY <1>1, <2>2 DEF LoneOK, Names
  <2>5. LoneOK(rec)'
    BY <2>4, RowsStay DEF Resolve
  <2> QED BY <2>2, <2>3, <2>5 DEF RefreshGoesOn
<1> QED BY <1>7, <1>8

\* Between two refreshes nothing changes but by their own steps: a new entity takes the key of its
\* account, which had none.
LEMMA NewIsNew ==
    ASSUME \E e \in EntityIds : Unused(e)
    PROVE  NewEntity \in EntityIds /\ Unused(NewEntity)
BY DEF NewEntity

LEMMA CreateEntityStep ==
    ASSUME EntityInv, NEW r \in Refreshers, CreateEntity(r)
    PROVE  \E rec : RefreshGoesOn(r, rec)
<1>1. refresh[r] \in RefreshRecords /\ LoneOK(refresh[r]) /\ refresh[r].at = "create"
    BY DEF EntityInv, CreateEntity, Step
<1>2. PICK s \in refresh[r].creating :
           \/ /\ KeyIsFree(s[2])
              /\ \E e \in EntityIds : Unused(e)
              /\ entities' = entities \cup {NewEntity}
              /\ keys' = [keys EXCEPT ![s[2]] = NewEntity]
              /\ Becomes(r, [refresh[r] EXCEPT !.at = "resolve", !.found[s[2]] = NewEntity,
                                               !.todo = @ \ {s}, !.creating = {}])
           \/ /\ ~KeyIsFree(s[2])
              /\ Becomes(r, [refresh[r] EXCEPT !.at = "reload"])
              /\ UNCHANGED <<entities, keys>>
    BY DEF CreateEntity
<1>3. s \in Sources /\ s[2] \in Accounts
    BY <1>1, SourceAccount DEF RefreshRecords
<1>4. UNCHANGED caseVars /\ links' = links /\ same' = same
    BY DEF CreateEntity
<1>5. ASSUME KeyIsFree(s[2]), \E e \in EntityIds : Unused(e),
             entities' = entities \cup {NewEntity},
             keys' = [keys EXCEPT ![s[2]] = NewEntity],
             Becomes(r, [refresh[r] EXCEPT !.at = "resolve", !.found[s[2]] = NewEntity,
                                           !.todo = @ \ {s}, !.creating = {}])
      PROVE  \E rec : RefreshGoesOn(r, rec)
  <2>1. PICK a, e : a = s[2] /\ e = NewEntity
    OBVIOUS
  <2>2. e \in EntityIds /\ Unused(e)
    BY <1>5, <2>1, NewIsNew
  <2>3. PICK found, todo : /\ found = [refresh[r].found EXCEPT ![a] = e]
                           /\ todo = refresh[r].todo \ {s}
    OBVIOUS
  <2>4. found \in [Accounts -> Ids] /\ todo \in SUBSET Sources
    BY <1>1, <1>3, <2>1, <2>2, <2>3 DEF RefreshRecords, Ids
  <2>5. PICK rec : rec = [refresh[r] EXCEPT !.at = "resolve", !.found = found, !.todo = todo,
                                            !.creating = {}]
    OBVIOUS
  <2>6. /\ rec \in RefreshRecords /\ rec.at = "resolve" /\ rec.case = refresh[r].case
        /\ rec.lone = refresh[r].lone /\ rec.sources = refresh[r].sources
        /\ rec.found = found /\ rec.todo = todo
    BY <1>1, <2>4, <2>5 DEF RefreshRecords, RefreshPlaces
  <2>7. Becomes(r, rec)
    BY <1>1, <1>5, <2>1, <2>3, <2>5
  <2>8. /\ \A b \in Accounts : found[b] = IF b = a THEN e ELSE refresh[r].found[b]
        /\ \A b \in Accounts : keys'[b] = IF b = a THEN e ELSE keys[b]
        /\ entities' = entities \cup {e}
    BY <1>1, <1>3, <1>5, <2>1, <2>3 DEF RefreshRecords, EntityInv, RowsTyped
  <2>9. \A t \in Sources : Names(refresh[r], t) \/ t = s => Names(rec, t)'
    BY <1>3, <2>1, <2>6, <2>8, SourceAccount DEF Names
  <2>10. SourcesOf(rec.case)' = SourcesOf(rec.case)
    BY <1>4 DEF SourcesOf, caseVars
  <2>11. LoneOK(rec)'
    BY <1>1, <2>3, <2>6, <2>9, <2>10 DEF LoneOK, RefreshRecords
  <2> QED BY <1>3, <2>1, <2>6, <2>7, <2>8, <2>11 DEF RefreshGoesOn
<1>6. ASSUME Becomes(r, [refresh[r] EXCEPT !.at = "reload"]), UNCHANGED <<entities, keys>>
      PROVE  \E rec : RefreshGoesOn(r, rec)
  <2>1. PICK rec : rec = [refresh[r] EXCEPT !.at = "reload"]
    OBVIOUS
  <2>2. /\ rec \in RefreshRecords /\ rec.at = "reload" /\ rec.case = refresh[r].case
        /\ rec.lone = refresh[r].lone /\ rec.sources = refresh[r].sources
        /\ rec.found = refresh[r].found /\ rec.todo = refresh[r].todo
    BY <1>1, <2>1 DEF RefreshRecords, RefreshPlaces
  <2>3. LoneOK(rec)
    BY <1>1, <2>2 DEF LoneOK, Names
  <2>4. LoneOK(rec)'
    BY <1>4, <1>6, <2>3, RowsStay DEF rowVars
  <2> QED BY <1>6, <2>1, <2>2, <2>4 DEF RefreshGoesOn
<1> QED BY <1>2, <1>5, <1>6

LEMMA ReloadStep ==
    ASSUME EntityInv, NEW r \in Refreshers, Reload(r)
    PROVE  \E rec : RefreshGoesOn(r, rec)
<1>1. refresh[r] \in RefreshRecords /\ LoneOK(refresh[r]) /\ refresh[r].at = "reload"
    BY DEF EntityInv, Reload, Step
<1>2. PICK s \in refresh[r].creating :
          LET e == keys[s[2]] IN
          Becomes(r, IF e \in entities
                     THEN [refresh[r] EXCEPT !.at = "resolve", !.found[s[2]] = e,
                                             !.todo = @ \ {s}, !.creating = {}]
                     ELSE [Idle(refresh[r].case, FALSE) EXCEPT !.at = "key_conflict"])
    BY DEF Reload
<1>3. s \in Sources /\ s[2] \in Accounts /\ keys[s[2]] \in Ids /\ keys' = keys
    BY <1>1, SourceAccount DEF RefreshRecords, EntityInv, RowsTyped, Reload, rowVars
<1>4. PICK a, e : a = s[2] /\ e = keys[a]
    OBVIOUS
<1>5. PICK found, todo : /\ found = [refresh[r].found EXCEPT ![a] = e]
                         /\ todo = refresh[r].todo \ {s}
    OBVIOUS
<1>6. found \in [Accounts -> Ids] /\ todo \in SUBSET Sources
    BY <1>1, <1>3, <1>4, <1>5 DEF RefreshRecords
<1>7. CASE e \in entities
  <2>1. PICK rec : rec = [refresh[r] EXCEPT !.at = "resolve", !.found = found, !.todo = todo,
                                            !.creating = {}]
    OBVIOUS
  <2>2. /\ rec \in RefreshRecords /\ rec.at = "resolve" /\ rec.case = refresh[r].case
        /\ rec.lone = refresh[r].lone /\ rec.sources = refresh[r].sources
        /\ rec.found = found /\ rec.todo = todo
    BY <1>1, <1>6, <2>1 DEF RefreshRecords, RefreshPlaces
  <2>3. Becomes(r, rec)
    BY <1>1, <1>2, <1>4, <1>5, <1>7, <2>1
  <2>4. \A b \in Accounts : found[b] = IF b = a THEN keys[b] ELSE refresh[r].found[b]
    BY <1>1, <1>3, <1>4, <1>5 DEF RefreshRecords
  <2>5. \A t \in Sources : Names(refresh[r], t) \/ t = s => Names(rec, t)
    BY <1>3, <1>4, <1>7, <2>2, <2>4, SourceAccount DEF Names
  <2>6. LoneOK(rec)
    BY <1>1, <1>5, <2>2, <2>5 DEF LoneOK, RefreshRecords
  <2>7. LoneOK(rec)'
    BY <2>6, RowsStay DEF Reload
  <2> QED BY <1>3, <2>2, <2>3, <2>4, <2>7 DEF RefreshGoesOn
<1>8. CASE e \notin entities
  <2>1. refresh[r].case \in Cases \cup {NoCase} /\ FALSE \in BOOLEAN
    BY <1>1 DEF RefreshRecords
  <2>2. PICK idle \in RefreshRecords : /\ idle = Idle(refresh[r].case, FALSE) /\ idle.lone = FALSE
                                       /\ \A b \in Accounts : idle.found[b] = NoEntity
    BY <2>1, IdleTyped
  <2>3. PICK rec : rec = [idle EXCEPT !.at = "key_conflict"]
    OBVIOUS
  <2>4. /\ rec \in RefreshRecords /\ ~rec.lone /\ rec.found = idle.found
    BY <2>2, <2>3 DEF RefreshRecords, RefreshPlaces
  <2>5. Becomes(r, rec)
    BY <1>2, <1>4, <1>8, <2>2, <2>3
  <2> QED BY <2>2, <2>4, <2>5 DEF RefreshGoesOn, LoneOK
<1> QED BY <1>7, <1>8

LEMMA AllResolvedStep ==
    ASSUME EntityInv, NEW r \in Refreshers, AllResolved(r)
    PROVE  \E rec : RefreshGoesOn(r, rec)
<1>1. refresh[r] \in RefreshRecords /\ LoneOK(refresh[r]) /\ refresh[r].at = "resolve"
    BY DEF EntityInv, AllResolved, Step
<1>2. PICK rec : rec = [refresh[r] EXCEPT !.at = "link", !.todo = refresh[r].sources]
    OBVIOUS
<1>3. /\ rec \in RefreshRecords /\ rec.at = "link" /\ rec.case = refresh[r].case
      /\ rec.lone = refresh[r].lone /\ rec.sources = refresh[r].sources
      /\ rec.found = refresh[r].found /\ rec.todo = refresh[r].sources
    BY <1>1, <1>2 DEF RefreshRecords, RefreshPlaces
<1>4. LoneOK(rec)
    BY <1>1, <1>3 DEF LoneOK, Names, AllResolved
<1>5. LoneOK(rec)'
    BY <1>4, RowsStay DEF AllResolved
<1> QED BY <1>2, <1>3, <1>5 DEF RefreshGoesOn, AllResolved

LEMMA LinkStep ==
    ASSUME EntityInv, NEW r \in Refreshers, Link(r)
    PROVE  /\ \E rec : RefreshGoesOn(r, rec)
           /\ RowsTyped'
           /\ \E s \in Sources :
                  LET c == refresh[r].case
                      e == refresh[r].found[s[2]]
                  IN  Referable({e}, c) /\ links' = [links EXCEPT ![c][s] = e]
<1>1. refresh[r] \in RefreshRecords /\ LoneOK(refresh[r]) /\ refresh[r].at = "link"
    BY DEF EntityInv, Link, Step
<1>2. PICK c : c = refresh[r].case
    OBVIOUS
<1>3. PICK s \in refresh[r].todo :
           /\ Referable({refresh[r].found[s[2]]}, c)
           /\ links' = [links EXCEPT ![c][s] = refresh[r].found[s[2]]]
           /\ Becomes(r, [refresh[r] EXCEPT !.todo = @ \ {s}])
    BY <1>2 DEF Link
<1>4. s \in Sources /\ s[2] \in Accounts
    BY <1>1, SourceAccount DEF RefreshRecords
<1>5. PICK e \in Ids : e = refresh[r].found[s[2]]
    BY <1>1, <1>4 DEF RefreshRecords
<1>6. PICK todo : todo = refresh[r].todo \ {s}
    OBVIOUS
<1>7. PICK rec : rec = [refresh[r] EXCEPT !.todo = todo]
    OBVIOUS
<1>8. /\ rec \in RefreshRecords /\ rec.at = "link" /\ rec.case = c
      /\ rec.lone = refresh[r].lone /\ rec.sources = refresh[r].sources
      /\ rec.found = refresh[r].found /\ rec.todo = todo
    BY <1>1, <1>2, <1>6, <1>7 DEF RefreshRecords
<1>9. Becomes(r, rec)
    BY <1>3, <1>6, <1>7
<1>10. links' = [links EXCEPT ![c][s] = e]
    BY <1>3, <1>5
<1>11. UNCHANGED caseVars /\ entities' = entities /\ keys' = keys /\ same' = same
    BY DEF Link
<1>12. RowsTyped'
    BY <1>4, <1>10, <1>11 DEF EntityInv, RowsTyped
<1>13. c \in Cases => links'[c] = [links[c] EXCEPT ![s] = e]
    BY <1>10 DEF EntityInv, RowsTyped
<1>14. c \in Cases => \A t \in Sources : links'[c][t] = IF t = s THEN e ELSE links[c][t]
    BY <1>13 DEF EntityInv, RowsTyped
<1>15. SourcesOf(c)' = SourcesOf(c) /\ \A t : Names(rec, t)' <=> Names(refresh[r], t)
    BY <1>8, <1>11 DEF SourcesOf, caseVars, Names
<1>16. LoneOK(rec)'
  <2>1. SUFFICES ASSUME rec.lone PROVE LoneOK(rec)'
    BY DEF LoneOK
  <2>2. /\ c \in Cases /\ rec.sources = SourcesOf(c)
        /\ \A t \in rec.sources : Names(refresh[r], t)
        /\ \A t \in rec.sources \ refresh[r].todo : links[c][t] = keys[t[2]]
    BY <1>1, <1>2, <1>8, <2>1 DEF LoneOK
  <2>3. \A t \in rec.sources : t \in Sources
    BY <1>8 DEF RefreshRecords
  <2>4. s \in rec.sources => e = keys[s[2]]
    BY <1>5, <2>2 DEF Names
  <2>5. \A t \in rec.sources \ rec.todo : links'[c][t] = keys'[t[2]]
    BY <1>6, <1>8, <1>11, <1>14, <2>2, <2>3, <2>4
  <2> QED BY <1>8, <1>15, <2>2, <2>5 DEF LoneOK
<1>17. \A a \in Accounts : rec.found[a] = refresh[r].found[a]
    BY <1>8
<1> QED BY <1>2, <1>3, <1>4, <1>8, <1>9, <1>12, <1>16, <1>17 DEF RefreshGoesOn

LEMMA ReconcileLinksStep ==
    ASSUME EntityInv, NEW r \in Refreshers, ReconcileLinks(r)
    PROVE  /\ \E rec : RefreshGoesOn(r, rec)
           /\ RowsTyped'
           /\ \A c \in Cases : \A s \in Sources : links'[c][s] \in {NoEntity, links[c][s]}
<1>1. refresh[r] \in RefreshRecords /\ LoneOK(refresh[r]) /\ refresh[r].at = "link"
    BY DEF EntityInv, ReconcileLinks, Step
<1>2. PICK c : c = refresh[r].case
    OBVIOUS
<1>3. PICK left : left = [s \in Sources |-> IF s \in refresh[r].sources THEN links[c][s] ELSE NoEntity]
    OBVIOUS
<1>4. links' = [links EXCEPT ![c] = left]
    BY <1>2, <1>3 DEF ReconcileLinks, EntityInv, RowsTyped
<1>5. PICK rec : rec = [refresh[r] EXCEPT !.at = "align"]
    OBVIOUS
<1>6. /\ rec \in RefreshRecords /\ rec.at = "align" /\ rec.case = c
      /\ rec.lone = refresh[r].lone /\ rec.sources = refresh[r].sources
      /\ rec.found = refresh[r].found
    BY <1>1, <1>2, <1>5 DEF RefreshRecords, RefreshPlaces
<1>7. Becomes(r, rec) /\ refresh[r].todo = {}
    BY <1>5 DEF ReconcileLinks
<1>8. UNCHANGED caseVars /\ entities' = entities /\ keys' = keys /\ same' = same
    BY DEF ReconcileLinks
<1>9. c \in Cases => left \in [Sources -> Ids]
    BY <1>3 DEF EntityInv, RowsTyped, Ids
<1>10. RowsTyped'
    BY <1>4, <1>8, <1>9 DEF EntityInv, RowsTyped
<1>11. c \in Cases => \A s \in Sources :
           links'[c][s] = IF s \in refresh[r].sources THEN links[c][s] ELSE NoEntity
    BY <1>3, <1>4 DEF EntityInv, RowsTyped
<1>12. \A d \in Cases : d # c => links'[d] = links[d]
    BY <1>4 DEF EntityInv, RowsTyped
<1>13. SourcesOf(c)' = SourcesOf(c) /\ \A t : Names(rec, t)' <=> Names(refresh[r], t)
    BY <1>6, <1>8 DEF SourcesOf, caseVars, Names
<1>14. LoneOK(rec)'
  <2>1. SUFFICES ASSUME rec.lone PROVE LoneOK(rec)'
    BY DEF LoneOK
  <2>2. /\ c \in Cases /\ rec.sources = SourcesOf(c)
        /\ \A t \in rec.sources : Names(refresh[r], t)
        /\ \A t \in rec.sources : links[c][t] = keys[t[2]]
    BY <1>1, <1>2, <1>6, <1>7, <2>1 DEF LoneOK
  <2>3. LinksExact(c)'
    BY <1>6, <1>8, <1>11, <1>13, <2>2 DEF LinksExact
  <2> QED BY <1>6, <1>13, <2>2, <2>3 DEF LoneOK
<1> QED BY <1>6, <1>7, <1>10, <1>11, <1>12, <1>14 DEF RefreshGoesOn

LEMMA ReadAlignmentStep ==
    ASSUME EntityInv, NEW r \in Refreshers, ReadAlignment(r)
    PROVE  \E rec : RefreshGoesOn(r, rec)
<1>1. refresh[r] \in RefreshRecords /\ LoneOK(refresh[r]) /\ refresh[r].at = "align"
    BY DEF EntityInv, ReadAlignment, Step
<1>2. PICK c : c = refresh[r].case
    OBVIOUS
<1>3. PICK who : who = {b \in aligned[c] : <<"account", b>> \in refresh[r].sources}
    OBVIOUS
<1>4. PICK members : members = {refresh[r].found[a] : a \in who}
    OBVIOUS
<1>5. PICK expected : expected = {p \in SUBSET members : Cardinality(p) = 2}
    OBVIOUS
<1>6. PICK rec : rec = [refresh[r] EXCEPT !.at = "relate", !.pairs = expected, !.todo = {}]
    OBVIOUS
<1>7. Becomes(r, rec)
    BY <1>2, <1>3, <1>4, <1>5, <1>6 DEF ReadAlignment
<1>8. who \subseteq Accounts
    BY <1>1, <1>3 DEF RefreshRecords, Sources
<1>9. expected \in SUBSET SUBSET Ids
    BY <1>1, <1>4, <1>5, <1>8 DEF RefreshRecords
<1>10. /\ rec \in RefreshRecords /\ rec.at = "relate" /\ rec.case = c
       /\ rec.lone = refresh[r].lone /\ rec.sources = refresh[r].sources
       /\ rec.found = refresh[r].found /\ rec.pairs = expected
    BY <1>1, <1>2, <1>6, <1>9 DEF RefreshRecords, RefreshPlaces
<1>11. LoneOK(rec)
  <2>1. SUFFICES ASSUME rec.lone PROVE LoneOK(rec)
    BY DEF LoneOK
  <2>2. /\ c \in Cases /\ rec.sources = SourcesOf(c)
        /\ \A t \in rec.sources : Names(refresh[r], t)
        /\ LinksExact(c)
    BY <1>1, <1>2, <1>10, <2>1 DEF LoneOK
  <2>3. \A a \in aligned[c] : a \in Accounts /\ home[a] = c
    BY <2>2 DEF EntityInv, CasesTyped
  <2>4. \A a \in aligned[c] : <<"account", a>> \in SourcesOf(c)
    BY <2>3 DEF SourcesOf, Sources
  <2>5. refresh[r].sources = SourcesOf(c)
    BY <1>10, <2>2
  <2>6. who = aligned[c]
    <3>1. \A b \in aligned[c] : <<"account", b>> \in refresh[r].sources
        BY <2>4, <2>5
    <3> QED BY <1>3, <3>1, Zenon
  <2>7. ASSUME NEW a \in aligned[c] PROVE refresh[r].found[a] = keys[a]
    <3>1. PICK t : t = <<"account", a>>
        OBVIOUS
    <3>2. t[2] = a /\ Names(refresh[r], t)
        BY <2>2, <2>4, <3>1
    <3> QED BY <3>2 DEF Names
  <2>8. members = {keys[a] : a \in aligned[c]}
    BY <1>4, <2>6, <2>7
  <2>9. expected = CanonicalPairs(c)
    BY <1>5, <2>8 DEF CanonicalPairs
  <2>10. \A t : Names(rec, t) <=> Names(refresh[r], t)
    BY <1>10 DEF Names
  <2> QED BY <1>10, <2>2, <2>9, <2>10 DEF LoneOK
<1>12. LoneOK(rec)'
    BY <1>11, RowsStay DEF ReadAlignment
<1> QED BY <1>7, <1>10, <1>12 DEF RefreshGoesOn

LEMMA RelateStep ==
    ASSUME EntityInv, NEW r \in Refreshers, Relate(r)
    PROVE  /\ \E rec : RefreshGoesOn(r, rec)
           /\ RowsTyped'
           /\ \A c \in Cases : \A p \in same'[c] : p \in same[c] \/ Referable(p, c)
<1>1. refresh[r] \in RefreshRecords /\ LoneOK(refresh[r]) /\ refresh[r].at = "relate"
    BY DEF EntityInv, Relate, Step
<1>2. PICK c : c = refresh[r].case
    OBVIOUS
<1>3. PICK p \in refresh[r].pairs \ same[c] :
           Referable(p, c) /\ same' = [same EXCEPT ![c] = @ \cup {p}]
    BY <1>2 DEF Relate
<1>4. /\ UNCHANGED caseVars /\ entities' = entities /\ keys' = keys /\ links' = links
      /\ refresh' = refresh
    BY DEF Relate
<1>5. PICK rec : rec = refresh[r]
    OBVIOUS
<1>6. \A d \in Cases : same'[d] = IF d = c THEN same[d] \cup {p} ELSE same[d]
    BY <1>3 DEF EntityInv, RowsTyped
<1>7. p \in SUBSET Ids
    BY <1>1, <1>3 DEF RefreshRecords
<1>8. RowsTyped'
    BY <1>3, <1>4, <1>7 DEF EntityInv, RowsTyped
<1>9. LoneOK(rec)'
  <2>1. /\ SourcesOf(c)' = SourcesOf(c) /\ CanonicalPairs(c)' = CanonicalPairs(c)
        /\ LinksExact(c)' <=> LinksExact(c)
    BY <1>4 DEF SourcesOf, CanonicalPairs, LinksExact, caseVars
  <2>2. \A t : Names(rec, t)' <=> Names(rec, t)
    BY <1>4 DEF Names
  <2> QED BY <1>1, <1>2, <1>4, <1>5, <2>1, <2>2 DEF LoneOK
<1>10. Becomes(r, rec)
    BY <1>4, <1>5 DEF Becomes, EntityInv
<1>11. RefreshGoesOn(r, rec)
    BY <1>1, <1>5, <1>9, <1>10 DEF RefreshGoesOn
<1> QED BY <1>2, <1>3, <1>6, <1>8, <1>11

LEMMA ReconcileRelationsStep ==
    ASSUME EntityInv, NEW r \in Refreshers, ReconcileRelations(r)
    PROVE  /\ \E rec : RefreshGoesOn(r, rec)
           /\ RowsTyped'
           /\ \A c \in Cases : same'[c] \subseteq same[c]
<1>1. refresh[r] \in RefreshRecords /\ LoneOK(refresh[r]) /\ refresh[r].at = "relate"
    BY DEF EntityInv, ReconcileRelations, Step
<1>2. PICK c : c = refresh[r].case
    OBVIOUS
<1>3. PICK rec : rec = [refresh[r] EXCEPT !.at = "orphans"]
    OBVIOUS
<1>4. /\ rec \in RefreshRecords /\ rec.at = "orphans" /\ rec.case = c
      /\ rec.lone = refresh[r].lone /\ rec.sources = refresh[r].sources
      /\ rec.found = refresh[r].found /\ rec.pairs = refresh[r].pairs
    BY <1>1, <1>2, <1>3 DEF RefreshRecords, RefreshPlaces
<1>5. Becomes(r, rec) /\ rec.pairs \subseteq same[c]
    BY <1>2, <1>3, <1>4 DEF ReconcileRelations
<1>6. UNCHANGED caseVars /\ entities' = entities /\ keys' = keys /\ links' = links
    BY DEF ReconcileRelations
<1>7. same' = [same EXCEPT ![c] = @ \cap rec.pairs]
    BY <1>2, <1>4 DEF ReconcileRelations
<1>8. \A d \in Cases : same'[d] = IF d = c THEN same[d] \cap rec.pairs ELSE same[d]
    BY <1>7 DEF EntityInv, RowsTyped
<1>9. RowsTyped'
    BY <1>6, <1>7 DEF EntityInv, RowsTyped
<1>10. LoneOK(rec)'
  <2>1. SUFFICES ASSUME rec.lone PROVE LoneOK(rec)'
    BY DEF LoneOK
  <2>2. /\ c \in Cases /\ rec.sources = SourcesOf(c)
        /\ \A t \in rec.sources : Names(rec, t)
        /\ LinksExact(c) /\ rec.pairs = CanonicalPairs(c)
    BY <1>1, <1>2, <1>4, <2>1 DEF LoneOK, Names
  <2>3. /\ SourcesOf(c)' = SourcesOf(c) /\ CanonicalPairs(c)' = CanonicalPairs(c)
        /\ LinksExact(c)' <=> LinksExact(c)
    BY <1>6 DEF SourcesOf, CanonicalPairs, LinksExact, caseVars
  <2>4. \A t : Names(rec, t)' <=> Names(rec, t)
    BY <1>6 DEF Names
  <2>5. same'[c] = CanonicalPairs(c)
    BY <1>5, <1>8, <2>2
  <2> QED BY <1>4, <2>2, <2>3, <2>4, <2>5 DEF LoneOK
<1> QED BY <1>4, <1>5, <1>8, <1>9, <1>10 DEF RefreshGoesOn

LEMMA FindOrphansStep ==
    ASSUME EntityInv, NEW r \in Refreshers, FindOrphans(r)
    PROVE  \E rec : RefreshGoesOn(r, rec)
<1>1. refresh[r] \in RefreshRecords /\ LoneOK(refresh[r]) /\ refresh[r].at = "orphans"
    BY DEF EntityInv, FindOrphans, Step
<1>2. PICK orphans \in SUBSET EntityIds : orphans = Orphans
    BY DEF Orphans, EntityInv, RowsTyped
<1>3. PICK rec : rec = [refresh[r] EXCEPT !.at = "delete", !.orphans = orphans]
    OBVIOUS
<1>4. /\ rec \in RefreshRecords /\ rec.at = "delete" /\ rec.case = refresh[r].case
      /\ rec.lone = refresh[r].lone /\ rec.sources = refresh[r].sources
      /\ rec.found = refresh[r].found /\ rec.pairs = refresh[r].pairs /\ rec.orphans = Orphans
    BY <1>1, <1>2, <1>3 DEF RefreshRecords, RefreshPlaces
<1>5. LoneOK(rec)
    BY <1>1, <1>4 DEF LoneOK, Names
<1>6. LoneOK(rec)'
    BY <1>5, RowsStay DEF FindOrphans
<1> QED BY <1>2, <1>3, <1>4, <1>6 DEF RefreshGoesOn, FindOrphans

LEMMA RefreshFailsStep ==
    ASSUME EntityInv, NEW r \in Refreshers, RefreshFails(r)
    PROVE  \E rec : RefreshGoesOn(r, rec)
<1>1. refresh[r].case \in Cases \cup {NoCase} /\ FALSE \in BOOLEAN
    BY DEF EntityInv, RefreshRecords
<1>2. PICK rec \in RefreshRecords : /\ rec = Idle(refresh[r].case, FALSE) /\ rec.lone = FALSE
                                    /\ \A a \in Accounts : rec.found[a] = NoEntity
    BY <1>1, IdleTyped
<1>3. Becomes(r, rec)
    BY <1>2 DEF RefreshFails
<1> QED BY <1>2, <1>3 DEF RefreshGoesOn, LoneOK

-----------------------------------------------------------------------------
(* Entities are deleted *)

\* What is deleted is gone from the rows that named it, or left there; nothing else changes.
LEMMA DeletedRows ==
    ASSUME RowsTyped, NEW gone, NEW linksLeft \in [Cases -> [Sources -> Ids]],
           NEW sameLeft \in [Cases -> SUBSET SUBSET Ids],
           DeleteEntities(gone, linksLeft, sameLeft)
    PROVE  /\ RowsTyped'
           /\ entities' = entities \ gone
           /\ \A a \in Accounts : keys'[a] = IF ForeignKeys /\ keys[a] \in gone THEN NoEntity ELSE keys[a]
           /\ \A c \in Cases : \A s \in Sources :
                  /\ ForeignKeys /\ linksLeft[c][s] \in gone => links'[c][s] = NoEntity
                  /\ ~(ForeignKeys /\ linksLeft[c][s] \in gone) => links'[c][s] = linksLeft[c][s]
           /\ \A c \in Cases : \A p : p \in same'[c] <=>
                  p \in sameLeft[c] /\ (ForeignKeys => p \cap gone = {})
<1>1. \A a \in Accounts : keys'[a] = IF ForeignKeys /\ keys[a] \in gone THEN NoEntity ELSE keys[a]
    BY DEF DeleteEntities
<1>2. keys' \in [Accounts -> Ids]
    BY <1>1 DEF DeleteEntities, RowsTyped, Ids
<1>3. \A c \in Cases : \A s \in Sources :
          /\ ForeignKeys /\ linksLeft[c][s] \in gone => links'[c][s] = NoEntity
          /\ ~(ForeignKeys /\ linksLeft[c][s] \in gone) => links'[c][s] = linksLeft[c][s]
    BY DEF DeleteEntities
<1>4. links' \in [Cases -> [Sources -> Ids]]
  <2>1. \A c \in Cases : \A s \in Sources : links'[c][s] \in Ids
    BY <1>3 DEF Ids
  <2> QED BY <2>1 DEF DeleteEntities
<1>5. \A c \in Cases : \A p : p \in same'[c] <=>
          p \in sameLeft[c] /\ (ForeignKeys => p \cap gone = {})
    BY DEF DeleteEntities
<1>6. same' \in [Cases -> SUBSET SUBSET Ids]
    BY <1>5 DEF DeleteEntities
<1>7. entities' = entities \ gone
    BY DEF DeleteEntities
<1> QED BY <1>1, <1>2, <1>3, <1>4, <1>5, <1>6, <1>7 DEF RowsTyped

\* The entities a lone refresh deletes are of no use to anybody, so nothing else goes with them.
LEMMA DeleteOrphansStep ==
    ASSUME EntityInv, NEW r \in Refreshers, DeleteOrphans(r)
    PROVE  (\E rec : RefreshGoesOn(r, rec)) /\ RowsTyped'
<1>1. refresh[r] \in RefreshRecords /\ LoneOK(refresh[r]) /\ refresh[r].at = "delete"
    BY DEF EntityInv, DeleteOrphans, Step
<1>2. PICK c, gone : c = refresh[r].case /\ gone = refresh[r].orphans
    OBVIOUS
<1>3. RowsTyped /\ UNCHANGED caseVars
    BY DEF DeleteOrphans, EntityInv
<1>4. PICK linksLeft \in [Cases -> [Sources -> Ids]], sameLeft \in [Cases -> SUBSET SUBSET Ids] :
          linksLeft = links /\ sameLeft = same
    BY <1>3 DEF RowsTyped
<1>5. DeleteEntities(gone, linksLeft, sameLeft)
    BY <1>2, <1>4 DEF DeleteOrphans
<1>6. /\ RowsTyped'
      /\ entities' = entities \ gone
      /\ \A a \in Accounts : keys'[a] = IF ForeignKeys /\ keys[a] \in gone THEN NoEntity ELSE keys[a]
      /\ \A d \in Cases : \A s \in Sources :
             /\ ForeignKeys /\ links[d][s] \in gone => links'[d][s] = NoEntity
             /\ ~(ForeignKeys /\ links[d][s] \in gone) => links'[d][s] = links[d][s]
      /\ \A d \in Cases : \A p : p \in same'[d] <=>
             p \in same[d] /\ (ForeignKeys => p \cap gone = {})
    BY <1>3, <1>4, <1>5, DeletedRows
<1>7. c \in Cases \cup {NoCase} /\ refresh[r].lone \in BOOLEAN
    BY <1>1, <1>2 DEF RefreshRecords
<1>8. PICK rec \in RefreshRecords :
          /\ rec = Idle(c, refresh[r].lone)
          /\ rec.at = "idle" /\ rec.case = c /\ rec.lone = refresh[r].lone
          /\ \A a \in Accounts : rec.found[a] = NoEntity
    BY <1>7, IdleTyped
<1>9. Becomes(r, rec)
    BY <1>2, <1>8 DEF DeleteOrphans
<1>10. LoneOK(rec)'
  <2>1. SUFFICES ASSUME rec.lone PROVE LoneOK(rec)'
    BY DEF LoneOK
  <2>2. /\ c \in Cases /\ gone = Orphans /\ LinksExact(c) /\ same[c] = CanonicalPairs(c)
        /\ \A s \in SourcesOf(c) : keys[s[2]] \in entities
    BY <1>1, <1>2, <1>8, <2>1 DEF LoneOK, Names
  <2>3. \A d \in Cases : \A s \in Sources : links[d][s] \notin gone /\ links'[d][s] = links[d][s]
    BY <1>6, <2>2 DEF Orphans, Linked
  <2>4. ASSUME NEW d \in Cases PROVE same'[d] = same[d]
    <3>1. \A p \in same[d] : p \cap gone = {}
        BY <2>2 DEF Orphans, Related
    <3> QED BY <1>6, <3>1
  <2>5. \A e : (Linked(e)' <=> Linked(e)) /\ (Related(e)' <=> Related(e))
    BY <2>3, <2>4 DEF Linked, Related
  <2>6. Orphans' = {}
    BY <1>6, <2>2, <2>5 DEF Orphans
  <2>7. ASSUME NEW s \in SourcesOf(c) PROVE keys'[s[2]] = keys[s[2]] /\ links[c][s] = keys[s[2]]
    <3>1. s \in Sources /\ s[2] \in Accounts
        BY SourceAccount DEF SourcesOf
    <3>2. links[c][s] = keys[s[2]]
        BY <2>2, <3>1 DEF LinksExact
    <3> QED BY <1>6, <2>2, <2>3, <3>1, <3>2
  <2>8. SourcesOf(c)' = SourcesOf(c)
    BY <1>3 DEF SourcesOf, caseVars
  <2>9. \A s \in Sources : links'[c][s] # NoEntity <=> s \in SourcesOf(c)
    <3>1. \A s \in SourcesOf(c) : links[c][s] # NoEntity
        BY <1>3, <2>2, <2>7, EntityAssumption DEF RowsTyped
    <3>2. \A s \in Sources \ SourcesOf(c) : links[c][s] = NoEntity
        BY <2>2 DEF LinksExact
    <3> QED BY <2>2, <2>3, <3>1, <3>2
  <2>10. ASSUME NEW a \in aligned[c] PROVE keys'[a] = keys[a]
    <3>1. a \in Accounts /\ home[a] = c
        BY <2>2 DEF EntityInv, CasesTyped
    <3>2. PICK s : s = <<"account", a>>
        OBVIOUS
    <3>3. s \in SourcesOf(c) /\ s[2] = a
        BY <3>1, <3>2 DEF SourcesOf, Sources
    <3> QED BY <2>7, <3>3
  <2>11. {keys'[a] : a \in aligned'[c]} = {keys[a] : a \in aligned[c]}
    BY <1>3, <2>10 DEF caseVars
  <2>12. same'[c] = CanonicalPairs(c)'
    BY <2>2, <2>4, <2>11 DEF CanonicalPairs
  <2>13. Exact(c)'
    <3>1. {s \in Sources : links'[c][s] # NoEntity} = SourcesOf(c)
        BY <2>9 DEF SourcesOf
    <3> QED BY <2>6, <2>8, <2>12, <3>1 DEF Exact
  <2> QED BY <1>8, <2>2, <2>13 DEF LoneOK
<1> QED BY <1>6, <1>8, <1>9, <1>10 DEF RefreshGoesOn

-----------------------------------------------------------------------------
(* The steps of all *)

\* A refresh that goes on alone stays alone, and one that goes on with others was not.
LEMMA OwnStep ==
    ASSUME EntityInv, NEW r \in Refreshers, Running(r), \E rec : RefreshGoesOn(r, rec),
           UNCHANGED caseVars, RowsTyped'
    PROVE  EntityInv'
<1>1. PICK rec : RefreshGoesOn(r, rec)
    OBVIOUS
<1>2. /\ refresh' \in [Refreshers -> RefreshRecords]
      /\ refresh'[r] = rec
      /\ \A q \in Refreshers : q # r => refresh'[q] = refresh[q]
    BY <1>1 DEF RefreshGoesOn, Becomes, EntityInv
<1>3. \A q \in Refreshers : q # r => ~refresh[q].lone
    BY DEF EntityInv
<1>4. ASSUME NEW q \in Refreshers PROVE LoneOK(refresh[q])'
  <2>1. PICK row : row = refresh'[q]
    OBVIOUS
  <2>2. CASE q = r
    BY <1>1, <1>2, <2>1, <2>2 DEF RefreshGoesOn, LoneOK
  <2>3. CASE q # r
    BY <1>2, <1>3, <2>1, <2>3 DEF LoneOK
  <2> QED BY <2>2, <2>3
<1>5. \A p, q \in Refreshers : refresh'[p].lone /\ q # p => refresh'[q].at = "idle"
    BY <1>1, <1>2, <1>3 DEF RefreshGoesOn, EntityInv, Running
<1>6. CasesTyped'
    BY DEF EntityInv, CasesTyped, caseVars
<1> QED BY <1>2, <1>4, <1>5, <1>6 DEF EntityInv, Running

LEMMA RefreshStepStep ==
    ASSUME EntityInv, NEW r \in Refreshers, RefreshStep(r) \/ RefreshFails(r)
    PROVE  EntityInv'
<1>1. Running(r)
    BY DEF RefreshStep, Resolve, CreateEntity, Reload, AllResolved, Link, ReconcileLinks, ReadAlignment,
           Relate, ReconcileRelations, FindOrphans, DeleteOrphans, RefreshFails, Running, Step
<1>2. UNCHANGED caseVars
    BY DEF RefreshStep, Resolve, CreateEntity, Reload, AllResolved, Link, ReconcileLinks, ReadAlignment,
           Relate, ReconcileRelations, FindOrphans, DeleteOrphans, RefreshFails
<1>3. CASE UNCHANGED rowVars
  <2>1. RowsTyped'
    BY <1>3 DEF EntityInv, RowsTyped, rowVars
  <2> QED BY <1>1, <1>2, <2>1, OwnStep, ResolveStep, CreateEntityStep, ReloadStep, AllResolvedStep,
             LinkStep, ReconcileLinksStep, ReadAlignmentStep, RelateStep, ReconcileRelationsStep,
             FindOrphansStep, DeleteOrphansStep, RefreshFailsStep DEF RefreshStep
<1>4. CASE CreateEntity(r)
  <2>1. \E s \in refresh[r].creating :
            \/ /\ \E e \in EntityIds : Unused(e)
               /\ entities' = entities \cup {NewEntity}
               /\ keys' = [keys EXCEPT ![s[2]] = NewEntity]
            \/ UNCHANGED <<entities, keys>>
    BY <1>4 DEF CreateEntity
  <2>2. entities' \subseteq EntityIds /\ keys' \in [Accounts -> Ids]
    BY <2>1, NewIsNew DEF EntityInv, RowsTyped, Ids
  <2>3. RowsTyped'
    BY <1>4, <2>2 DEF EntityInv, RowsTyped, CreateEntity
  <2> QED BY <1>1, <1>2, <1>4, <2>3, OwnStep, CreateEntityStep
<1>5. CASE Link(r) \/ ReconcileLinks(r) \/ Relate(r) \/ ReconcileRelations(r) \/ DeleteOrphans(r)
    BY <1>1, <1>2, <1>5, OwnStep, LinkStep, ReconcileLinksStep, RelateStep, ReconcileRelationsStep,
       DeleteOrphansStep
<1> QED BY <1>3, <1>4, <1>5 DEF RefreshStep, Resolve, Reload, AllResolved, ReadAlignment, FindOrphans,
           RefreshFails

LEMMA DisturbedOK ==
    ASSUME refresh \in [Refreshers -> RefreshRecords]
    PROVE  /\ Disturbed \in [Refreshers -> RefreshRecords]
           /\ \A r \in Refreshers : /\ ~Disturbed[r].lone /\ Disturbed[r].at = refresh[r].at
                                     /\ Disturbed[r].found = refresh[r].found
<1>1. ASSUME NEW r \in Refreshers
      PROVE  /\ Disturbed[r] \in RefreshRecords /\ ~Disturbed[r].lone
             /\ Disturbed[r].at = refresh[r].at /\ Disturbed[r].found = refresh[r].found
  <2>1. PICK row : row = [refresh[r] EXCEPT !.lone = FALSE]
    OBVIOUS
  <2>2. /\ row \in RefreshRecords /\ row.lone = FALSE
        /\ row.at = refresh[r].at /\ row.found = refresh[r].found
    BY <2>1 DEF RefreshRecords
  <2>3. Disturbed[r] = row
    BY <2>1 DEF Disturbed
  <2> QED BY <2>2, <2>3
<1> QED BY <1>1 DEF Disturbed

LEMMA DisturbedStep ==
    ASSUME EntityInv, refresh' = Disturbed, CasesTyped', RowsTyped'
    PROVE  EntityInv'
<1>1. /\ refresh' \in [Refreshers -> RefreshRecords]
      /\ \A r \in Refreshers : ~refresh'[r].lone
    BY DisturbedOK DEF EntityInv
<1>2. \A r \in Refreshers : LoneOK(refresh[r])'
    BY <1>1 DEF LoneOK
<1> QED BY <1>1, <1>2 DEF EntityInv

LEMMA StartRefreshStep ==
    ASSUME EntityInv, NEW r \in Refreshers, NEW c \in Cases, StartRefresh(r, c)
    PROVE  EntityInv'
<1>1. PICK alone \in BOOLEAN : alone = \A q \in Refreshers : ~Running(q)
    OBVIOUS
<1>2. PICK idle \in RefreshRecords :
          /\ idle = Idle(c, alone) /\ idle.case = c /\ idle.lone = alone
    BY IdleTyped
<1>3. PICK sources : sources = SourcesOf(c)
    OBVIOUS
<1>4. PICK row : row = [idle EXCEPT !.at = "resolve", !.sources = sources, !.todo = sources]
    OBVIOUS
<1>5. sources \in SUBSET Sources
    BY <1>3 DEF SourcesOf
<1>6. /\ row \in RefreshRecords /\ row.at = "resolve" /\ row.case = c /\ row.lone = alone
      /\ row.sources = sources /\ row.todo = sources
    BY <1>2, <1>4, <1>5 DEF RefreshRecords, RefreshPlaces
<1>7. refresh' = [Disturbed EXCEPT ![r] = row]
    BY <1>1, <1>2, <1>3, <1>4 DEF StartRefresh
<1>8. /\ refresh' \in [Refreshers -> RefreshRecords]
      /\ refresh'[r] = row
      /\ \A q \in Refreshers : q # r => ~refresh'[q].lone /\ refresh'[q].at = refresh[q].at
    BY <1>6, <1>7, DisturbedOK DEF EntityInv
<1>9. LoneOK(row)
    BY <1>3, <1>6 DEF LoneOK
<1>10. LoneOK(row)'
    BY <1>9, RowsStay DEF StartRefresh
<1>11. ASSUME NEW q \in Refreshers PROVE LoneOK(refresh[q])'
  <2>1. PICK other : other = refresh'[q]
    OBVIOUS
  <2>2. CASE q = r
    BY <1>8, <1>10, <2>1, <2>2 DEF LoneOK
  <2>3. CASE q # r
    BY <1>8, <2>1, <2>3 DEF LoneOK
  <2> QED BY <2>2, <2>3
<1>12. \A p, q \in Refreshers : refresh'[p].lone /\ q # p => refresh'[q].at = "idle"
    BY <1>1, <1>6, <1>8 DEF Running
<1>13. CasesTyped' /\ RowsTyped'
    BY DEF StartRefresh, EntityInv, CasesTyped, RowsTyped, caseVars, rowVars
<1> QED BY <1>8, <1>11, <1>12, <1>13 DEF EntityInv, Running

LEMMA ObserveStep ==
    ASSUME EntityInv, NEW c \in Cases, NEW a \in Accounts, Observe(c, a)
    PROVE  EntityInv'
<1>1. /\ authors' \in [Cases -> SUBSET Accounts] /\ home' \in [Accounts -> Cases \cup {NoCase}]
      /\ known' = known /\ aligned' = aligned
      /\ \A b \in Accounts : home[b] # NoCase => home'[b] = home[b]
    BY DEF Observe, EntityInv, CasesTyped
<1>2. \A d \in Cases : \A b \in aligned[d] : b \in Accounts /\ home[b] = d /\ d # NoCase
    BY EntityAssumption DEF EntityInv, CasesTyped
<1>3. CasesTyped'
    BY <1>1, <1>2 DEF EntityInv, CasesTyped
<1>4. RowsTyped' /\ refresh' = Disturbed
    BY DEF Observe, EntityInv, RowsTyped, rowVars
<1> QED BY <1>3, <1>4, DisturbedStep

LEMMA AlignStep ==
    ASSUME EntityInv, NEW c \in Cases, NEW S \in SUBSET Accounts, Align(c, S)
    PROVE  EntityInv'
<1>1. CasesTyped'
    BY DEF Align, EntityInv, CasesTyped
<1>2. RowsTyped' /\ refresh' = Disturbed
    BY DEF Align, EntityInv, RowsTyped, rowVars
<1> QED BY <1>1, <1>2, DisturbedStep

\* What is left of the rows that name entities when the case is gone.
LEMMA CaseLeaves ==
    ASSUME RowsTyped, NEW c \in Cases, DeleteCase(c)
    PROVE  \E gone \in SUBSET entities,
             linksLeft \in [Cases -> [Sources -> Ids]], sameLeft \in [Cases -> SUBSET SUBSET Ids] :
               /\ DeleteEntities(gone, linksLeft, sameLeft)
               /\ \A d \in Cases : \A s \in Sources : linksLeft[d][s] \in {NoEntity, links[d][s]}
               /\ \A d \in Cases : sameLeft[d] \subseteq same[d]
<1>1. PICK none : none = [s \in Sources |-> NoEntity]
    OBVIOUS
<1>2. PICK linksLeft : linksLeft = [links EXCEPT ![c] = none]
    OBVIOUS
<1>3. PICK sameLeft : sameLeft = [same EXCEPT ![c] = {}]
    OBVIOUS
<1>4. PICK gone : gone = {e \in entities : /\ \A d \in Cases, s \in Sources : linksLeft[d][s] # e
                                          /\ \A d \in Cases : \A p \in sameLeft[d] : e \notin p}
    OBVIOUS
<1>5. none \in [Sources -> Ids] /\ \A s \in Sources : none[s] = NoEntity
    BY <1>1 DEF Ids
<1>6. /\ linksLeft \in [Cases -> [Sources -> Ids]]
      /\ \A d \in Cases : linksLeft[d] = IF d = c THEN none ELSE links[d]
    BY <1>2, <1>5 DEF RowsTyped
<1>7. /\ sameLeft \in [Cases -> SUBSET SUBSET Ids]
      /\ \A d \in Cases : sameLeft[d] \subseteq same[d]
    BY <1>3 DEF RowsTyped
<1>8. DeleteEntities(gone, linksLeft, sameLeft)
    BY <1>1, <1>2, <1>3, <1>4 DEF DeleteCase
<1>9. \A d \in Cases : \A s \in Sources : linksLeft[d][s] \in {NoEntity, links[d][s]}
    BY <1>5, <1>6
<1>10. gone \in SUBSET entities
    BY <1>4
<1> QED BY <1>6, <1>7, <1>8, <1>9, <1>10

LEMMA DeleteCaseStep ==
    ASSUME EntityInv, NEW c \in Cases, DeleteCase(c)
    PROVE  EntityInv'
<1>1. /\ known' \subseteq Cases /\ authors' \in [Cases -> SUBSET Accounts]
      /\ \A a \in Accounts : home'[a] = IF home[a] = c THEN NoCase ELSE home[a]
      /\ aligned' \in [Cases -> SUBSET Accounts]
      /\ \A d \in Cases : aligned'[d] = IF d = c THEN {} ELSE aligned[d]
    BY DEF DeleteCase, EntityInv, CasesTyped
<1>2. home' \in [Accounts -> Cases \cup {NoCase}]
    BY <1>1 DEF DeleteCase, EntityInv, CasesTyped
<1>3. \A d \in Cases : \A a \in aligned'[d] : home'[a] = d
    BY <1>1 DEF EntityInv, CasesTyped
<1>4. CasesTyped'
    BY <1>1, <1>2, <1>3 DEF CasesTyped
<1>5. RowsTyped'
  <2>1. RowsTyped
    BY DEF EntityInv
  <2>2. PICK gone \in SUBSET entities,
             linksLeft \in [Cases -> [Sources -> Ids]], sameLeft \in [Cases -> SUBSET SUBSET Ids] :
            DeleteEntities(gone, linksLeft, sameLeft)
    BY <2>1, CaseLeaves
  <2> QED BY <2>1, <2>2, DeletedRows
<1>6. refresh' = Disturbed
    BY DEF DeleteCase
<1> QED BY <1>4, <1>5, <1>6, DisturbedStep

LEMMA EntityStep == ASSUME EntityInv, [EntityNext]_entityVars PROVE EntityInv'
<1>1. CASE UNCHANGED entityVars
  <2>1. UNCHANGED <<caseVars, rowVars>> /\ refresh' = refresh
    BY <1>1 DEF entityVars, caseVars, rowVars
  <2>2. \A r \in Refreshers : LoneOK(refresh[r])'
    <3>1. ASSUME NEW r \in Refreshers PROVE LoneOK(refresh[r])'
        <4>1. PICK row : row = refresh[r]
            OBVIOUS
        <4>2. LoneOK(row)'
            BY <2>1, <4>1, RowsStay DEF EntityInv
        <4> QED BY <2>1, <4>1, <4>2 DEF LoneOK
    <3> QED BY <3>1
  <2> QED BY <2>1, <2>2 DEF EntityInv, CasesTyped, RowsTyped, caseVars, rowVars, Running
<1> QED BY <1>1, ObserveStep, AlignStep, DeleteCaseStep, StartRefreshStep, RefreshStepStep DEF EntityNext

LEMMA EntityStart == EntityInit => EntityInv
<1> SUFFICES ASSUME EntityInit PROVE EntityInv
    OBVIOUS
<1>1. PICK idle \in RefreshRecords : idle = Idle(NoCase, FALSE) /\ idle.lone = FALSE
    BY IdleTyped
<1>2. refresh = [r \in Refreshers |-> idle]
    BY <1>1 DEF EntityInit
<1>3. /\ refresh \in [Refreshers -> RefreshRecords]
      /\ \A r \in Refreshers : ~refresh[r].lone
    BY <1>1, <1>2
<1>4. CasesTyped
    BY DEF EntityInit, CasesTyped
<1>5. RowsTyped
    BY DEF EntityInit, RowsTyped, Ids
<1> QED BY <1>3, <1>4, <1>5 DEF EntityInv, LoneOK

\* A refresh that nobody disturbs leaves exactly what its case shows, whatever refreshes of any case
\* before it have left, whether the database enforces foreign keys or not.
THEOREM LoneRefreshIsExactTheorem == EntitySpec => []LoneRefreshIsExact
<1>1. EntityInv /\ [EntityNext]_entityVars => EntityInv'
    BY EntityStep
<1>2. EntityInv => LoneRefreshIsExact
    BY DEF EntityInv, LoneRefreshIsExact, LoneOK, Exact, CanonicalPairs
<1> QED BY <1>1, <1>2, EntityStart, PTL DEF EntitySpec

-----------------------------------------------------------------------------
(* One entity per account *)

\* Where foreign keys are enforced a key names an entity that exists, and an id a refresh has found is
\* still that of the account or gone.
KeyInv ==
    /\ EntityInv
    /\ OneEntityPerAccount
    /\ \A a \in Accounts : keys[a] # NoEntity => keys[a] \in entities
    /\ \A r \in Refreshers, a \in Accounts :
           refresh[r].found[a] \in entities => keys[a] = refresh[r].found[a]

\* Ids that were found stay good if the keys of what they name do.
FoundStays ==
    \A r \in Refreshers, a \in Accounts :
        refresh'[r].found[a] \in {NoEntity, refresh[r].found[a], keys'[a]}

LEMMA FoundAlways ==
    ASSUME EntityInv, [EntityNext]_entityVars
    PROVE  FoundStays
<1>1. CASE refresh' = Disturbed \/ refresh' = refresh
    BY <1>1, DisturbedOK DEF FoundStays, EntityInv
<1>2. ASSUME NEW r \in Refreshers, \E rec : RefreshGoesOn(r, rec) PROVE FoundStays
  <2>1. PICK rec : RefreshGoesOn(r, rec)
    BY <1>2
  <2>2. refresh'[r] = rec /\ \A q \in Refreshers : q # r => refresh'[q] = refresh[q]
    BY <2>1 DEF RefreshGoesOn, Becomes, EntityInv
  <2> QED BY <2>1, <2>2 DEF RefreshGoesOn, FoundStays
<1>3. ASSUME NEW r \in Refreshers, NEW c \in Cases, StartRefresh(r, c) PROVE FoundStays
  <2>1. PICK alone \in BOOLEAN : alone = \A q \in Refreshers : ~Running(q)
    OBVIOUS
  <2>2. PICK idle \in RefreshRecords :
            idle = Idle(c, alone) /\ \A a \in Accounts : idle.found[a] = NoEntity
    BY IdleTyped
  <2>3. PICK row : row = [idle EXCEPT !.at = "resolve", !.sources = SourcesOf(c), !.todo = SourcesOf(c)]
    OBVIOUS
  <2>4. row.found = idle.found
    BY <2>3 DEF RefreshRecords
  <2>5. refresh' = [Disturbed EXCEPT ![r] = row]
    BY <1>3, <2>1, <2>2, <2>3 DEF StartRefresh
  <2>6. refresh'[r] = row /\ \A q \in Refreshers : q # r => refresh'[q].found = refresh[q].found
    BY <2>5, DisturbedOK DEF EntityInv
  <2> QED BY <2>2, <2>4, <2>6 DEF FoundStays
<1>4. ASSUME NEW r \in Refreshers, RefreshStep(r) \/ RefreshFails(r) PROVE FoundStays
    BY <1>2, <1>4, ResolveStep, CreateEntityStep, ReloadStep, AllResolvedStep, LinkStep,
       ReconcileLinksStep, ReadAlignmentStep, RelateStep, ReconcileRelationsStep, FindOrphansStep,
       DeleteOrphansStep, RefreshFailsStep DEF RefreshStep
<1>5. CASE UNCHANGED entityVars
    BY <1>1, <1>5 DEF entityVars
<1>6. ASSUME NEW c \in Cases, DeleteCase(c) \/ (\E a \in Accounts : Observe(c, a))
                              \/ (\E S \in SUBSET Accounts : Align(c, S))
      PROVE  FoundStays
    BY <1>1, <1>6 DEF DeleteCase, Observe, Align
<1> QED BY <1>3, <1>4, <1>5, <1>6 DEF EntityNext

LEMMA KeysStay ==
    ASSUME KeyInv, EntityInv', FoundStays, entities' = entities, keys' = keys, OneEntityPerAccount'
    PROVE  KeyInv'
<1>1. NoEntity \notin entities
    BY EntityAssumption DEF KeyInv, EntityInv, RowsTyped
<1> QED BY <1>1 DEF KeyInv, FoundStays

LEMMA NewKey ==
    ASSUME KeyInv, EntityInv', FoundStays, NEW a \in Accounts, NEW e \in EntityIds, keys[a] = NoEntity,
           Unused(e), entities' = entities \cup {e}, keys' = [keys EXCEPT ![a] = e],
           links' = links, same' = same
    PROVE  KeyInv'
<1>1. NoEntity \notin entities'
    BY EntityAssumption DEF EntityInv, RowsTyped
<1>2. \A b \in Accounts : keys'[b] = IF b = a THEN e ELSE keys[b]
    BY DEF KeyInv, EntityInv, RowsTyped
<1>3. \A b \in Accounts : keys'[b] # NoEntity => keys'[b] \in entities'
    BY <1>2 DEF KeyInv
<1>4. ASSUME NEW r \in Refreshers, NEW b \in Accounts, refresh'[r].found[b] \in entities'
      PROVE  keys'[b] = refresh'[r].found[b]
  <2>1. CASE refresh'[r].found[b] = keys'[b]
    BY <2>1
  <2>2. CASE refresh'[r].found[b] = refresh[r].found[b]
    <3>1. refresh[r].found[b] # e
        BY DEF Unused
    <3>2. refresh[r].found[b] \in entities /\ keys[b] = refresh[r].found[b]
        BY <1>4, <2>2, <3>1 DEF KeyInv
    <3>3. b # a
        BY <1>1, <3>2
    <3> QED BY <1>2, <2>2, <3>2, <3>3
  <2> QED BY <1>1, <1>4, <2>1, <2>2 DEF FoundStays
<1>5. OneEntityPerAccount'
  <2>1. ASSUME NEW c \in Cases, NEW s \in Sources, links[c][s] # NoEntity
        PROVE  links[c][s] \in entities' /\ keys'[s[2]] = links[c][s]
    <3>1. links[c][s] \in entities /\ keys[s[2]] = links[c][s] /\ s[2] \in Accounts
        BY <2>1, SourceAccount DEF KeyInv, OneEntityPerAccount
    <3>2. s[2] # a
        BY <2>1, <3>1
    <3> QED BY <1>2, <3>1, <3>2
  <2>2. \A c \in Cases : \A p \in same[c] : p \subseteq entities'
    BY DEF KeyInv, OneEntityPerAccount
  <2> QED BY <2>1, <2>2 DEF OneEntityPerAccount
<1> QED BY <1>3, <1>4, <1>5 DEF KeyInv

LEMMA KeysDeleted ==
    ASSUME KeyInv, EntityInv', FoundStays, ForeignKeys, NEW gone,
           NEW linksLeft \in [Cases -> [Sources -> Ids]], NEW sameLeft \in [Cases -> SUBSET SUBSET Ids],
           \A c \in Cases : \A s \in Sources : linksLeft[c][s] \in {NoEntity, links[c][s]},
           \A c \in Cases : sameLeft[c] \subseteq same[c],
           DeleteEntities(gone, linksLeft, sameLeft)
    PROVE  KeyInv'
<1>1. RowsTyped
    BY DEF KeyInv, EntityInv
<1>2. /\ entities' = entities \ gone
      /\ \A a \in Accounts : keys'[a] = IF keys[a] \in gone THEN NoEntity ELSE keys[a]
      /\ \A c \in Cases : \A s \in Sources :
             links'[c][s] # NoEntity => links'[c][s] = linksLeft[c][s] /\ linksLeft[c][s] \notin gone
      /\ \A c \in Cases : \A p : p \in same'[c] => p \in sameLeft[c] /\ p \cap gone = {}
  <2>1. entities' = entities \ gone
    BY <1>1, DeletedRows
  <2>2. \A a \in Accounts : keys'[a] = IF keys[a] \in gone THEN NoEntity ELSE keys[a]
    BY <1>1, DeletedRows, ZenonT(40)
  <2>3. \A c \in Cases : \A s \in Sources :
            links'[c][s] # NoEntity => links'[c][s] = linksLeft[c][s] /\ linksLeft[c][s] \notin gone
    <3>1. \A c \in Cases : \A s \in Sources :
              /\ ForeignKeys /\ linksLeft[c][s] \in gone => links'[c][s] = NoEntity
              /\ ~(ForeignKeys /\ linksLeft[c][s] \in gone) => links'[c][s] = linksLeft[c][s]
        BY DEF DeleteEntities
    <3> QED BY <3>1
  <2>4. \A c \in Cases : \A p : p \in same'[c] => p \in sameLeft[c] /\ p \cap gone = {}
    BY <1>1, DeletedRows
  <2> QED BY <2>1, <2>2, <2>3, <2>4
<1>3. NoEntity \notin entities'
    BY EntityAssumption DEF EntityInv, RowsTyped
<1>4. \A a \in Accounts : keys'[a] # NoEntity => keys'[a] \in entities'
    BY <1>2 DEF KeyInv
<1>5. ASSUME NEW r \in Refreshers, NEW a \in Accounts, refresh'[r].found[a] \in entities'
      PROVE  keys'[a] = refresh'[r].found[a]
  <2>1. CASE refresh'[r].found[a] = keys'[a]
    BY <2>1
  <2>2. CASE refresh'[r].found[a] = refresh[r].found[a]
    BY <1>2, <1>5, <2>2 DEF KeyInv
  <2> QED BY <1>3, <1>5, <2>1, <2>2 DEF FoundStays
<1>6. OneEntityPerAccount'
  <2>1. ASSUME NEW c \in Cases, NEW s \in Sources, links'[c][s] # NoEntity
        PROVE  links'[c][s] \in entities' /\ keys'[s[2]] = links'[c][s]
    <3>1. links'[c][s] = links[c][s] /\ links[c][s] \notin gone
        BY <1>2, <2>1
    <3>2. links[c][s] \in entities /\ keys[s[2]] = links[c][s] /\ s[2] \in Accounts
        BY <2>1, <3>1, SourceAccount DEF KeyInv, OneEntityPerAccount
    <3> QED BY <1>2, <3>1, <3>2
  <2>2. ASSUME NEW c \in Cases, NEW p \in same'[c] PROVE p \subseteq entities'
    <3>1. p \in same[c] /\ p \cap gone = {}
        BY <1>2
    <3> QED BY <1>2, <3>1 DEF KeyInv, OneEntityPerAccount
  <2> QED BY <2>1, <2>2 DEF OneEntityPerAccount
<1> QED BY <1>4, <1>5, <1>6 DEF KeyInv

LEMMA KeyStep ==
    ASSUME ForeignKeys, KeyInv, [EntityNext]_entityVars
    PROVE  KeyInv'
<1>1. EntityInv' /\ FoundStays /\ EntityInv
    BY EntityStep, FoundAlways DEF KeyInv
<1>2. CASE UNCHANGED rowVars
    BY <1>1, <1>2, KeysStay DEF rowVars, OneEntityPerAccount, KeyInv
<1>3. ASSUME NEW r \in Refreshers, CreateEntity(r) PROVE KeyInv'
  <2>1. PICK s \in refresh[r].creating :
            \/ /\ KeyIsFree(s[2])
               /\ \E e \in EntityIds : Unused(e)
               /\ entities' = entities \cup {NewEntity}
               /\ keys' = [keys EXCEPT ![s[2]] = NewEntity]
            \/ UNCHANGED <<entities, keys>>
    BY <1>3 DEF CreateEntity
  <2>2. s[2] \in Accounts
    BY <1>1, SourceAccount DEF EntityInv, RefreshRecords
  <2>3. UNCHANGED <<entities, keys>> => KeyInv'
    BY <1>2, <1>3 DEF CreateEntity, rowVars
  <2> QED BY <1>1, <1>3, <2>1, <2>2, <2>3, NewIsNew, NewKey DEF CreateEntity, KeyIsFree
<1>4. ASSUME NEW r \in Refreshers, Link(r) PROVE KeyInv'
  <2>1. PICK s \in Sources :
            LET c == refresh[r].case
                e == refresh[r].found[s[2]]
            IN  Referable({e}, c) /\ links' = [links EXCEPT ![c][s] = e]
    BY <1>1, <1>4, LinkStep
  <2>2. PICK c, e : c = refresh[r].case /\ e = refresh[r].found[s[2]]
    OBVIOUS
  <2>3. s[2] \in Accounts /\ e \in entities /\ c \in Cases /\ links' = [links EXCEPT ![c][s] = e]
    BY <1>1, <2>1, <2>2, SourceAccount DEF Referable, EntityInv, CasesTyped
  <2>4. keys[s[2]] = e
    BY <2>2, <2>3 DEF KeyInv
  <2>5. \A d \in Cases : \A t \in Sources :
            links'[d][t] = IF d = c /\ t = s THEN e ELSE links[d][t]
    <3>1. links'[c] = [links[c] EXCEPT ![s] = e] /\ \A d \in Cases : d # c => links'[d] = links[d]
        BY <1>1, <2>3 DEF EntityInv, RowsTyped
    <3> QED BY <1>1, <3>1 DEF EntityInv, RowsTyped
  <2>6. entities' = entities /\ keys' = keys /\ same' = same
    BY <1>4 DEF Link
  <2>7. OneEntityPerAccount'
    BY <2>3, <2>4, <2>5, <2>6 DEF KeyInv, OneEntityPerAccount
  <2> QED BY <1>1, <2>6, <2>7, KeysStay
<1>5. ASSUME NEW r \in Refreshers, ReconcileLinks(r) PROVE KeyInv'
  <2>1. entities' = entities /\ keys' = keys /\ same' = same
    BY <1>5 DEF ReconcileLinks
  <2>2. \A c \in Cases : \A s \in Sources : links'[c][s] \in {NoEntity, links[c][s]}
    BY <1>1, <1>5, ReconcileLinksStep
  <2>3. OneEntityPerAccount'
    BY <2>1, <2>2 DEF KeyInv, OneEntityPerAccount
  <2> QED BY <1>1, <2>1, <2>3, KeysStay
<1>6. ASSUME NEW r \in Refreshers, Relate(r) \/ ReconcileRelations(r) PROVE KeyInv'
  <2>1. entities' = entities /\ keys' = keys /\ links' = links
    BY <1>6 DEF Relate, ReconcileRelations
  <2>2. \A c \in Cases : \A p \in same'[c] : p \in same[c] \/ Referable(p, c)
    BY <1>1, <1>6, RelateStep, ReconcileRelationsStep
  <2>3. OneEntityPerAccount'
    BY <2>1, <2>2 DEF KeyInv, OneEntityPerAccount, Referable
  <2> QED BY <1>1, <2>1, <2>3, KeysStay
<1>7. ASSUME NEW r \in Refreshers, DeleteOrphans(r) PROVE KeyInv'
  <2>1. PICK gone, linksLeft, sameLeft :
            gone = refresh[r].orphans /\ linksLeft = links /\ sameLeft = same
    OBVIOUS
  <2>2. /\ linksLeft \in [Cases -> [Sources -> Ids]] /\ sameLeft \in [Cases -> SUBSET SUBSET Ids]
        /\ DeleteEntities(gone, linksLeft, sameLeft)
    BY <1>1, <1>7, <2>1 DEF DeleteOrphans, EntityInv, RowsTyped
  <2>3. /\ \A c \in Cases : \A s \in Sources : linksLeft[c][s] \in {NoEntity, links[c][s]}
        /\ \A c \in Cases : sameLeft[c] \subseteq same[c]
    BY <2>1
  <2> QED BY <1>1, <2>2, <2>3, KeysDeleted
<1>8. ASSUME NEW c \in Cases, DeleteCase(c) PROVE KeyInv'
  <2>1. PICK gone \in SUBSET entities,
             linksLeft \in [Cases -> [Sources -> Ids]], sameLeft \in [Cases -> SUBSET SUBSET Ids] :
               /\ DeleteEntities(gone, linksLeft, sameLeft)
               /\ \A d \in Cases : \A s \in Sources : linksLeft[d][s] \in {NoEntity, links[d][s]}
               /\ \A d \in Cases : sameLeft[d] \subseteq same[d]
    BY <1>1, <1>8, CaseLeaves DEF EntityInv
  <2> QED BY <1>1, <2>1, KeysDeleted
<1>9. CASE UNCHANGED entityVars
    BY <1>2, <1>9 DEF entityVars, rowVars
<1>10. ASSUME NEW c \in Cases, NEW a \in Accounts, Observe(c, a) PROVE KeyInv'
    BY <1>2, <1>10 DEF Observe
<1>11. ASSUME NEW c \in Cases, NEW S \in SUBSET Accounts, Align(c, S) PROVE KeyInv'
    BY <1>2, <1>11 DEF Align
<1>12. ASSUME NEW c \in Cases, NEW r \in Refreshers, StartRefresh(r, c) PROVE KeyInv'
    BY <1>2, <1>12 DEF StartRefresh
<1>13. ASSUME NEW r \in Refreshers, \/ Resolve(r) \/ Reload(r) \/ AllResolved(r) \/ ReadAlignment(r)
                                    \/ FindOrphans(r) \/ RefreshFails(r)
       PROVE  KeyInv'
    BY <1>2, <1>13 DEF Resolve, Reload, AllResolved, ReadAlignment, FindOrphans, RefreshFails
<1> QED BY <1>3, <1>4, <1>5, <1>6, <1>7, <1>8, <1>9, <1>10, <1>13, <1>11, <1>12
       DEF EntityNext, RefreshStep

\* Where the database enforces foreign keys, one account is one entity in the whole workspace: for
\* any number of cases, accounts and refreshes, with cases deleted and refreshes killed at any point.
THEOREM OneEntityPerAccountTheorem ==
    ASSUME ForeignKeys
    PROVE  EntitySpec => []OneEntityPerAccount
<1>1. EntityInit => KeyInv
  <2> SUFFICES ASSUME EntityInit PROVE KeyInv
    OBVIOUS
  <2>1. EntityInv
    BY EntityStart
  <2>2. \A r \in Refreshers, a \in Accounts : refresh[r].found[a] = NoEntity
    <3>1. PICK idle \in RefreshRecords :
              idle = Idle(NoCase, FALSE) /\ \A a \in Accounts : idle.found[a] = NoEntity
        BY IdleTyped
    <3>2. refresh = [r \in Refreshers |-> idle]
        BY <3>1 DEF EntityInit
    <3> QED BY <3>1, <3>2
  <2> QED BY <2>1, <2>2 DEF EntityInit, KeyInv, OneEntityPerAccount
<1>2. KeyInv /\ [EntityNext]_entityVars => KeyInv'
    BY KeyStep
<1>3. KeyInv => OneEntityPerAccount
    BY DEF KeyInv
<1> QED BY <1>1, <1>2, <1>3, PTL DEF EntitySpec

-----------------------------------------------------------------------------
(* The kinds of the related *)

\* Every source a refresh is done with has an entity, so it relates entities and nothing else.
AllFound(found, these) == \A s \in these : found[s[2]] \in EntityIds

FoundOK(rec) ==
    /\ rec.at \in {"resolve", "create", "reload"} => AllFound(rec.found, rec.sources \ rec.todo)
    /\ rec.at \in {"link", "align"} => AllFound(rec.found, rec.sources)
    /\ rec.pairs \subseteq SUBSET EntityIds

FoundInv ==
    /\ same \in [Cases -> SUBSET SUBSET EntityIds]
    /\ \A r \in Refreshers : FoundOK(refresh[r])

\* One more source has its entity.
LEMMA OneMoreFound ==
    ASSUME NEW rec \in RefreshRecords, NEW s \in Sources, NEW e \in EntityIds,
           AllFound(rec.found, rec.sources \ rec.todo)
    PROVE  AllFound([rec.found EXCEPT ![s[2]] = e], rec.sources \ (rec.todo \ {s}))
<1>1. PICK a, found : a = s[2] /\ found = [rec.found EXCEPT ![a] = e]
    OBVIOUS
<1>2. rec.found \in [Accounts -> Ids] /\ rec.sources \subseteq Sources /\ a \in Accounts
    BY <1>1, SourceAccount DEF RefreshRecords
<1>3. \A b \in Accounts : found[b] = IF b = a THEN e ELSE rec.found[b]
    BY <1>1, <1>2
<1>4. ASSUME NEW t \in rec.sources \ (rec.todo \ {s}) PROVE found[t[2]] \in EntityIds
  <2>1. t[2] \in Accounts
    BY <1>2, SourceAccount
  <2> QED BY <1>1, <1>3, <2>1 DEF AllFound
<1> QED BY <1>1, <1>4 DEF AllFound

LEMMA IdleFound ==
    ASSUME NEW c \in Cases \cup {NoCase}, NEW lone \in BOOLEAN
    PROVE  FoundOK(Idle(c, lone)) /\ FoundOK([Idle(c, lone) EXCEPT !.at = "key_conflict"])
<1>1. PICK idle \in RefreshRecords : idle = Idle(c, lone)
    BY IdleTyped
<1>2. idle.at = "idle" /\ idle.pairs = {}
    BY <1>1 DEF Idle
<1>3. PICK failed : failed = [idle EXCEPT !.at = "key_conflict"]
    OBVIOUS
<1>4. failed.at = "key_conflict" /\ failed.pairs = {}
    BY <1>1, <1>2, <1>3 DEF RefreshRecords
<1> QED BY <1>1, <1>2, <1>3, <1>4 DEF FoundOK

\* A refresh that goes on with such a row leaves the invariant.
LEMMA RowFound ==
    ASSUME EntityInv, FoundInv, NEW r \in Refreshers, NEW rec, Becomes(r, rec), FoundOK(rec),
           same' \in [Cases -> SUBSET SUBSET EntityIds]
    PROVE  FoundInv'
<1>1. \A q \in Refreshers : refresh'[q] = IF q = r THEN rec ELSE refresh[q]
    BY DEF EntityInv, Becomes
<1>2. ASSUME NEW q \in Refreshers PROVE FoundOK(refresh[q])'
  <2>1. PICK row : row = refresh'[q]
    OBVIOUS
  <2>2. FoundOK(row)
    BY <1>1, <2>1 DEF FoundInv
  <2> QED BY <2>1, <2>2 DEF FoundOK, AllFound
<1> QED BY <1>2 DEF FoundInv

LEMMA ResolveFound ==
    ASSUME EntityInv, FoundInv, NEW r \in Refreshers, Resolve(r) \/ CreateEntity(r) \/ Reload(r)
    PROVE  FoundInv'
<1>1. PICK old \in RefreshRecords : old = refresh[r] /\ old.at \in {"resolve", "create", "reload"}
    BY DEF EntityInv, Resolve, CreateEntity, Reload, Step
<1>2. AllFound(old.found, old.sources \ old.todo) /\ old.pairs \subseteq SUBSET EntityIds
    BY <1>1 DEF FoundInv, FoundOK
<1>3. same' \in [Cases -> SUBSET SUBSET EntityIds] /\ entities \subseteq EntityIds
    BY DEF Resolve, CreateEntity, Reload, FoundInv, rowVars, EntityInv, RowsTyped
<1>4. ASSUME NEW s \in Sources, NEW e \in EntityIds,
             \/ Becomes(r, [old EXCEPT !.found[s[2]] = e, !.todo = old.todo \ {s}])
             \/ Becomes(r, [old EXCEPT !.at = "resolve", !.found[s[2]] = e,
                                       !.todo = old.todo \ {s}, !.creating = {}])
      PROVE  FoundInv'
  <2>1. PICK found, todo : found = [old.found EXCEPT ![s[2]] = e] /\ todo = old.todo \ {s}
    OBVIOUS
  <2>2. AllFound(found, old.sources \ todo)
    BY <1>2, <2>1, OneMoreFound
  <2>3. PICK rec : /\ Becomes(r, rec)
                   /\ \/ rec = [old EXCEPT !.found = found, !.todo = todo]
                      \/ rec = [old EXCEPT !.at = "resolve", !.found = found, !.todo = todo,
                                           !.creating = {}]
    BY <1>4, <2>1
  <2>4. /\ rec.at \in {"resolve", "create", "reload"} /\ rec.found = found /\ rec.todo = todo
        /\ rec.sources = old.sources /\ rec.pairs = old.pairs
    BY <1>1, <2>3 DEF RefreshRecords
  <2>5. FoundOK(rec)
    BY <1>2, <2>2, <2>4 DEF FoundOK
  <2> QED BY <1>3, <2>3, <2>5, RowFound
<1>5. ASSUME NEW rec, Becomes(r, rec),
             \/ \E s : rec = [old EXCEPT !.at = "create", !.creating = {s}]
             \/ rec = [old EXCEPT !.at = "reload"]
      PROVE  FoundInv'
  <2>1. /\ rec.at \in {"resolve", "create", "reload"} /\ rec.found = old.found /\ rec.todo = old.todo
        /\ rec.sources = old.sources /\ rec.pairs = old.pairs
    BY <1>1, <1>5 DEF RefreshRecords
  <2>2. FoundOK(rec)
    BY <1>2, <2>1 DEF FoundOK
  <2> QED BY <1>3, <1>5, <2>2, RowFound
<1>6. old.todo \subseteq Sources /\ old.creating \subseteq Sources /\ old.case \in Cases \cup {NoCase}
    BY DEF RefreshRecords
<1>7. CASE Resolve(r)
  <2>1. PICK s \in old.todo :
          LET e == keys[s[2]] IN
          Becomes(r, IF e \in entities
                      THEN [old EXCEPT !.found[s[2]] = e, !.todo = old.todo \ {s}]
                      ELSE [old EXCEPT !.at = "create", !.creating = {s}])
    BY <1>1, <1>7 DEF Resolve
  <2>2. CASE keys[s[2]] \in entities
    BY <1>3, <1>4, <1>6, <2>1, <2>2
  <2>3. CASE keys[s[2]] \notin entities
    BY <1>5, <2>1, <2>3
  <2> QED BY <2>2, <2>3
<1>8. CASE CreateEntity(r)
  <2>1. PICK s \in old.creating :
           \/ /\ \E e \in EntityIds : Unused(e)
              /\ Becomes(r, [old EXCEPT !.at = "resolve", !.found[s[2]] = NewEntity,
                                        !.todo = old.todo \ {s}, !.creating = {}])
           \/ Becomes(r, [old EXCEPT !.at = "reload"])
    BY <1>1, <1>8 DEF CreateEntity
  <2> QED BY <1>4, <1>5, <1>6, <2>1, NewIsNew
<1>9. CASE Reload(r)
  <2>1. PICK s \in old.creating :
           LET e == keys[s[2]] IN
           Becomes(r, IF e \in entities
                      THEN [old EXCEPT !.at = "resolve", !.found[s[2]] = e,
                                       !.todo = old.todo \ {s}, !.creating = {}]
                      ELSE [Idle(old.case, FALSE) EXCEPT !.at = "key_conflict"])
    BY <1>1, <1>9 DEF Reload
  <2>2. CASE keys[s[2]] \in entities
    BY <1>3, <1>4, <1>6, <2>1, <2>2
  <2>3. CASE keys[s[2]] \notin entities
    BY <1>3, <1>6, <2>1, <2>3, IdleFound, RowFound
  <2> QED BY <2>2, <2>3
<1> QED BY <1>7, <1>8, <1>9

LEMMA LinkFound ==
    ASSUME EntityInv, FoundInv, NEW r \in Refreshers,
           AllResolved(r) \/ Link(r) \/ ReconcileLinks(r) \/ FindOrphans(r) \/ ReconcileRelations(r)
    PROVE  FoundInv'
<1>1. PICK old \in RefreshRecords : old = refresh[r]
    BY DEF EntityInv
<1>2. FoundOK(old)
    BY <1>1 DEF FoundInv
<1>3. ASSUME NEW rec, Becomes(r, rec), rec.found = old.found, rec.sources = old.sources,
             rec.pairs = old.pairs, rec.at \in {"link", "align", "orphans", "delete"},
             \/ rec.at \in {"orphans", "delete"}
             \/ old.at \in {"link", "align"}
             \/ old.at = "resolve" /\ old.todo = {},
             same' \in [Cases -> SUBSET SUBSET EntityIds]
      PROVE  FoundInv'
  <2>1. old.sources \ {} = old.sources
    OBVIOUS
  <2>2. FoundOK(rec)
    BY <1>2, <1>3, <2>1 DEF FoundOK, AllFound
  <2> QED BY <1>3, <2>2, RowFound
<1>4. CASE AllResolved(r)
  <2>1. PICK rec : rec = [old EXCEPT !.at = "link", !.todo = old.sources]
    OBVIOUS
  <2>2. rec.at = "link" /\ rec.found = old.found /\ rec.sources = old.sources /\ rec.pairs = old.pairs
    BY <2>1 DEF RefreshRecords
  <2>3. same' \in [Cases -> SUBSET SUBSET EntityIds]
    BY <1>4 DEF AllResolved, FoundInv, rowVars
  <2>4. Becomes(r, rec) /\ old.at = "resolve" /\ old.todo = {}
    BY <1>1, <1>4, <2>1 DEF AllResolved, Step
  <2> QED BY <1>3, <2>2, <2>3, <2>4
<1>5. CASE Link(r)
  <2>1. PICK s : Becomes(r, [old EXCEPT !.todo = old.todo \ {s}])
    BY <1>1, <1>5 DEF Link
  <2>2. PICK rec : rec = [old EXCEPT !.todo = old.todo \ {s}]
    OBVIOUS
  <2>3. old.at = "link"
    BY <1>1, <1>5 DEF Link, Step
  <2>4. rec.at = old.at /\ rec.found = old.found /\ rec.sources = old.sources /\ rec.pairs = old.pairs
    BY <2>2 DEF RefreshRecords
  <2>5. same' \in [Cases -> SUBSET SUBSET EntityIds]
    BY <1>5 DEF Link, FoundInv
  <2> QED BY <1>3, <2>1, <2>2, <2>3, <2>4, <2>5
<1>6. CASE ReconcileLinks(r)
  <2>1. PICK rec : rec = [old EXCEPT !.at = "align"]
    OBVIOUS
  <2>2. rec.at = "align" /\ rec.found = old.found /\ rec.sources = old.sources /\ rec.pairs = old.pairs
    BY <2>1 DEF RefreshRecords
  <2>3. same' \in [Cases -> SUBSET SUBSET EntityIds]
    BY <1>6 DEF ReconcileLinks, FoundInv
  <2>4. Becomes(r, rec) /\ old.at = "link"
    BY <1>1, <1>6, <2>1 DEF ReconcileLinks, Step
  <2> QED BY <1>3, <2>2, <2>3, <2>4
<1>7. CASE FindOrphans(r)
  <2>1. PICK rec : rec = [old EXCEPT !.at = "delete", !.orphans = Orphans]
    OBVIOUS
  <2>2. rec.at = "delete" /\ rec.found = old.found /\ rec.sources = old.sources /\ rec.pairs = old.pairs
    BY <2>1 DEF RefreshRecords
  <2>3. same' \in [Cases -> SUBSET SUBSET EntityIds]
    BY <1>7 DEF FindOrphans, FoundInv, rowVars
  <2>4. Becomes(r, rec)
    BY <1>1, <1>7, <2>1 DEF FindOrphans
  <2> QED BY <1>3, <2>2, <2>3, <2>4
<1>8. CASE ReconcileRelations(r)
  <2>1. PICK rec : rec = [old EXCEPT !.at = "orphans"]
    OBVIOUS
  <2>2. rec.at = "orphans" /\ rec.found = old.found /\ rec.sources = old.sources /\ rec.pairs = old.pairs
    BY <2>1 DEF RefreshRecords
  <2>3. same' \in [Cases -> SUBSET SUBSET EntityIds]
    BY <1>8 DEF ReconcileRelations, FoundInv
  <2>4. Becomes(r, rec)
    BY <1>1, <1>8, <2>1 DEF ReconcileRelations
  <2> QED BY <1>3, <2>2, <2>3, <2>4
<1> QED BY <1>4, <1>5, <1>6, <1>7, <1>8

LEMMA RelateFound ==
    ASSUME EntityInv, FoundInv, NEW r \in Refreshers,
           ReadAlignment(r) \/ Relate(r) \/ DeleteOrphans(r) \/ RefreshFails(r)
    PROVE  FoundInv'
<1>1. PICK old \in RefreshRecords : old = refresh[r]
    BY DEF EntityInv
<1>2. FoundOK(old) /\ old.case \in Cases \cup {NoCase} /\ old.lone \in BOOLEAN
    BY <1>1 DEF FoundInv, RefreshRecords
<1>3. CASE ReadAlignment(r)
  <2>1. PICK who : who = {b \in aligned[old.case] : <<"account", b>> \in old.sources}
    OBVIOUS
  <2>2. PICK members : members = {old.found[a] : a \in who}
    OBVIOUS
  <2>3. PICK expected : expected = {p \in SUBSET members : Cardinality(p) = 2}
    OBVIOUS
  <2>4. PICK rec : rec = [old EXCEPT !.at = "relate", !.pairs = expected, !.todo = {}]
    OBVIOUS
  <2>5. Becomes(r, rec) /\ old.at = "align" /\ same' = same
    BY <1>1, <1>3, <2>1, <2>2, <2>3, <2>4 DEF ReadAlignment, Step, rowVars
  <2>6. ASSUME NEW b \in who PROVE old.found[b] \in EntityIds
    <3>1. PICK s : s = <<"account", b>>
        OBVIOUS
    <3>2. s \in old.sources /\ s[2] = b
        BY <2>1, <3>1
    <3> QED BY <1>2, <2>5, <3>2 DEF FoundOK, AllFound
  <2>7. expected \subseteq SUBSET EntityIds
    BY <2>2, <2>3, <2>6
  <2>8. rec.at = "relate" /\ rec.pairs = expected
    BY <2>4 DEF RefreshRecords
  <2>9. FoundOK(rec)
    BY <2>7, <2>8 DEF FoundOK
  <2> QED BY <2>5, <2>9, RowFound DEF FoundInv
<1>4. CASE Relate(r)
  <2>1. PICK p \in old.pairs : same' = [same EXCEPT ![old.case] = @ \cup {p}]
    BY <1>1, <1>4 DEF Relate
  <2>2. p \in SUBSET EntityIds
    BY <1>2, <2>1 DEF FoundOK
  <2>3. same' \in [Cases -> SUBSET SUBSET EntityIds]
    BY <2>1, <2>2 DEF FoundInv
  <2>4. Becomes(r, old)
    BY <1>1, <1>4 DEF Relate, Becomes, EntityInv
  <2> QED BY <1>2, <2>3, <2>4, RowFound
<1>5. CASE DeleteOrphans(r)
  <2>1. Becomes(r, Idle(old.case, old.lone))
    BY <1>1, <1>5 DEF DeleteOrphans
  <2>2. same' = [c \in Cases |-> {p \in same[c] : ForeignKeys => p \cap refresh[r].orphans = {}}]
    BY <1>5 DEF DeleteOrphans, DeleteEntities
  <2>3. same' \in [Cases -> SUBSET SUBSET EntityIds]
    BY <2>2 DEF FoundInv
  <2> QED BY <1>2, <2>1, <2>3, IdleFound, RowFound
<1>6. CASE RefreshFails(r)
  <2>1. Becomes(r, Idle(old.case, FALSE)) /\ same' = same
    BY <1>1, <1>6 DEF RefreshFails, rowVars
  <2> QED BY <1>2, <2>1, IdleFound, RowFound DEF FoundInv
<1> QED BY <1>3, <1>4, <1>5, <1>6

LEMMA DisturbedFound ==
    ASSUME EntityInv, FoundInv
    PROVE  \A r \in Refreshers : FoundOK(Disturbed[r])
<1>1. SUFFICES ASSUME NEW r \in Refreshers PROVE FoundOK(Disturbed[r])
    OBVIOUS
<1>2. PICK old \in RefreshRecords : old = refresh[r]
    BY DEF EntityInv
<1>3. PICK row : row = [old EXCEPT !.lone = FALSE]
    OBVIOUS
<1>4. /\ row.at = old.at /\ row.found = old.found /\ row.sources = old.sources
      /\ row.todo = old.todo /\ row.pairs = old.pairs
    BY <1>3 DEF RefreshRecords
<1>5. FoundOK(row)
    BY <1>2, <1>4 DEF FoundInv, FoundOK
<1> QED BY <1>2, <1>3, <1>5 DEF Disturbed

LEMMA OthersFound ==
    ASSUME EntityInv, FoundInv,
           same' \in [Cases -> SUBSET SUBSET EntityIds],
           refresh' = Disturbed \/ \E r \in Refreshers : \E rec : FoundOK(rec) /\ refresh' = [Disturbed EXCEPT ![r] = rec]
    PROVE  FoundInv'
<1>1. \A q \in Refreshers : FoundOK(refresh'[q])
  <2>1. CASE refresh' = Disturbed
    BY <2>1, DisturbedFound
  <2>2. ASSUME NEW r \in Refreshers, NEW rec, FoundOK(rec), refresh' = [Disturbed EXCEPT ![r] = rec]
        PROVE  \A q \in Refreshers : FoundOK(refresh'[q])
    <3>1. \A q \in Refreshers : refresh'[q] = IF q = r THEN rec ELSE Disturbed[q]
        BY <2>2 DEF Disturbed
    <3> QED BY <2>2, <3>1, DisturbedFound
  <2> QED BY <2>1, <2>2
<1>2. \A q \in Refreshers : FoundOK(refresh[q])'
    BY <1>1 DEF FoundOK, AllFound
<1> QED BY <1>2 DEF FoundInv

LEMMA StartFound ==
    ASSUME EntityInv, FoundInv, NEW r \in Refreshers, NEW c \in Cases, StartRefresh(r, c)
    PROVE  FoundInv'
<1>1. PICK alone \in BOOLEAN : alone = \A q \in Refreshers : ~Running(q)
    OBVIOUS
<1>2. PICK idle \in RefreshRecords : idle = Idle(c, alone)
    BY IdleTyped
<1>3. idle.pairs = {}
    BY <1>2 DEF Idle
<1>4. PICK sources : sources = SourcesOf(c)
    OBVIOUS
<1>5. PICK row : row = [idle EXCEPT !.at = "resolve", !.sources = sources, !.todo = sources]
    OBVIOUS
<1>6. row.at = "resolve" /\ row.sources = sources /\ row.todo = sources /\ row.pairs = {}
    BY <1>3, <1>5 DEF RefreshRecords
<1>7. FoundOK(row)
    BY <1>6 DEF FoundOK, AllFound
<1>8. refresh' = [Disturbed EXCEPT ![r] = row]
    BY <1>1, <1>2, <1>4, <1>5 DEF StartRefresh
<1>9. same' \in [Cases -> SUBSET SUBSET EntityIds]
    BY DEF StartRefresh, FoundInv, rowVars
<1> QED BY <1>7, <1>8, <1>9, OthersFound

LEMMA FoundStep == ASSUME EntityInv, FoundInv, [EntityNext]_entityVars PROVE FoundInv'
<1>1. CASE UNCHANGED entityVars
    BY <1>1 DEF entityVars, FoundInv, FoundOK, AllFound
<1>2. ASSUME NEW c \in Cases, NEW a \in Accounts, Observe(c, a) PROVE FoundInv'
    BY <1>2, OthersFound DEF Observe, rowVars, FoundInv
<1>3. ASSUME NEW c \in Cases, NEW S \in SUBSET Accounts, Align(c, S) PROVE FoundInv'
    BY <1>3, OthersFound DEF Align, rowVars, FoundInv
<1>4. ASSUME NEW c \in Cases, DeleteCase(c) PROVE FoundInv'
  <2>1. PICK gone, linksLeft, sameLeft : /\ DeleteEntities(gone, linksLeft, sameLeft)
                                         /\ \A d \in Cases : sameLeft[d] \subseteq same[d]
    BY <1>4, CaseLeaves DEF EntityInv
  <2>2. \A d \in Cases : sameLeft[d] \subseteq SUBSET EntityIds
    BY <2>1 DEF FoundInv
  <2>3. same' \in [Cases -> SUBSET SUBSET EntityIds]
    BY <2>1, <2>2 DEF DeleteEntities
  <2> QED BY <1>4, <2>3, OthersFound DEF DeleteCase
<1>5. ASSUME NEW r \in Refreshers, RefreshStep(r) \/ RefreshFails(r) PROVE FoundInv'
    BY <1>5, ResolveFound, LinkFound, RelateFound DEF RefreshStep
<1> QED BY <1>1, <1>2, <1>3, <1>4, <1>5, StartFound DEF EntityNext

LEMMA EntityTypes == EntityInit /\ [][EntityNext]_entityVars => []EntityTypeOK
<1>1. EntityInit => FoundInv
  <2> SUFFICES ASSUME EntityInit PROVE FoundInv
    OBVIOUS
  <2>1. FoundOK(Idle(NoCase, FALSE))
    BY IdleFound
  <2> QED BY <2>1 DEF EntityInit, FoundInv
<1>2. EntityInv /\ FoundInv /\ [EntityNext]_entityVars => EntityInv' /\ FoundInv'
    BY EntityStep, FoundStep
<1>3. EntityInv /\ FoundInv => EntityTypeOK
    BY DEF EntityInv, CasesTyped, RowsTyped, Ids, FoundInv, EntityTypeOK
<1> QED BY <1>1, <1>2, <1>3, EntityStart, PTL

-----------------------------------------------------------------------------
(* The workspace *)

\* Every row, call and session of the workspace is of the kinds its table has: the parts share no
\* variable, so the types of each are those of the whole.
THEOREM WorkspaceTypeCorrect == WorkspaceSpec => []WorkspaceTypeOK
<1>1. WorkspaceInit => MonitorInit /\ AlertInit /\ NotifyInit /\ EntityInit /\ PlanInit /\ StartInit
                       /\ ToolInit /\ LoginInit
    BY DEF WorkspaceInit
<1>2. ASSUME [WorkspaceNext]_<<monitorVars, alertVars, notifyVars, entityVars, planVars, startVars,
                               toolVars, loginVars, active>>
      PROVE  /\ [MonitorNext]_monitorVars /\ [AlertNext]_alertVars /\ [NotifyNext]_notifyVars
             /\ [EntityNext]_entityVars /\ [PlanNext]_planVars /\ [StartNext]_startVars
             /\ [ToolNext]_toolVars /\ [LoginNext]_loginVars
    BY <1>2 DEF WorkspaceNext
<1>3. /\ MonitorTypeOK /\ AlertTypeOK /\ NotifyTypeOK /\ EntityTypeOK
      /\ PlanTypeOK /\ StartTypeOK /\ ToolTypeOK /\ LoginTypeOK
      => WorkspaceTypeOK
    BY DEF WorkspaceTypeOK
<1> QED BY <1>1, <1>2, <1>3, MonitorTypes, AlertTypes, NotifyTypes, EntityTypes, PlanTypes, StartTypes,
           ToolTypes, LoginTypes, PTL DEF WorkspaceSpec
=============================================================================
