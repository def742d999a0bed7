------------------------ MODULE MediaPipelineProofs ------------------------
(***************************************************************************)
(* Theorems about MediaPipeline, for any assets, stages, length of the     *)
(* list and bound on the attempts.  With one worker process, whose loop    *)
(* and whose tasks may be cut short before or after any commit: a verdict  *)
(* is about a whole asset, and no job is left that nobody can take up.     *)
(* With any number of them: no job is given up early.  And the types of    *)
(* all the services that MCServices puts together.                         *)
(*                                                                         *)
(* The order of the argument: what the place of an actor says about its    *)
(* record and its job (MediaTyped); what a step may do to a job, to the    *)
(* actors and to the history (StepFacts), for any number of workers; with  *)
(* one, who watches whom (WatchInv); then for an asset in the list of each *)
(* tick how far it is at each place (WholeInv).                            *)
(***************************************************************************)
EXTENDS MCServices, AnalysisJobProofs, FindingReviewProofs, WorkspaceProofs, TLAPS

\* The deployment of the repository: the theorems that need it assume it.
OneWorker == \A v, w \in MediaWorkers : v = w

KeysOf(a) == {k \in MediaKeys : k[1] = a}
Present(k) == mediaJobs[k].status # "absent"

-----------------------------------------------------------------------------
(* Types, with what the place of an actor says about the rest of its record *)

AssetRows == [download : {"absent", "not_downloaded", "downloaded", "failed"},
              analysis : {"absent", "pending", "partial", "succeeded"}]

ActorRecords == [at : MediaPlaces, job : MediaAttempts \cup {NoMediaJob},
                 by : MediaWorkers \cup {"nobody"}, todo : SUBSET MediaKeys, settle : SUBSET Assets,
                 seen : 0..MediaTries, judged : (Assets \X {"partial", "succeeded"}) \cup {<<>>},
                 then : {"idle", "closing", "claiming"}]

InJob == {"watching", "executing", "fetched", "saved", "refused", "raised", "failing"}

\* A task works on its own asset and returns to nobody; a loop makes no download.
FitsRow(x, row) ==
    /\ row.at = "verdict" => row.judged \in Assets \X {"partial", "succeeded"}
    /\ row.at \in InJob => row.job \in MediaAttempts /\ row.then = "idle"
    /\ x \in MediaAttempts =>
         /\ row.at # "idle" => row.job = x /\ row.by \in MediaWorkers
         /\ row.at \notin {"closing", "claiming", "watching"}
         /\ row.then = "idle"
         /\ row.todo \subseteq KeysOf(x[1][1]) /\ row.settle \subseteq {x[1][1]}
         /\ row.at = "verdict" => row.judged[1] = x[1][1]
         /\ row.at \in {"fetched", "saved", "refused"} => x[1][2] = "download"
    /\ x \in MediaWorkers => row.at \notin {"executing", "fetched", "saved", "refused"}

ActorsTyped == /\ mediaActor \in [MediaActors -> ActorRecords]
               /\ \A x \in MediaActors : FitsRow(x, mediaActor[x])

MediaTyped == /\ media \in [Assets -> AssetRows]
              /\ mediaJobs \in [MediaKeys -> MediaRows]
              /\ ActorsTyped
              /\ mediaCuts \in 0..MaxMediaCuts
              /\ mediaLog \in MediaHistory

LEMMA KeyForms ==
    /\ \A a \in Assets : \A k \in KeysOf(a) : k = <<a, "download">> \/ k \in StageKeys(a)
    /\ \A a \in Assets : <<a, "download">> \in KeysOf(a) /\ StageKeys(a) \subseteq KeysOf(a)
    /\ \A a \in Assets : \A k \in StageKeys(a) : k[1] = a /\ k[2] \in StagesOf[a] /\ k[2] # "download"
    /\ \A k \in MediaKeys : k[1] \in Assets /\ k = <<k[1], k[2]>> /\ k \in KeysOf(k[1])
    /\ \A k \in MediaKeys : k[2] # "download" => k[2] \in StagesOf[k[1]]
BY MediaAssumption DEF MediaKeys, AllStages, KeysOf, StageKeys

LEMMA StageForms ==
    /\ \A a \in Assets : StageKeys(a) \subseteq KeysOf(a) /\ KeysOf(a) \subseteq MediaKeys
    /\ \A k \in MediaKeys : k[2] # "download" => k \in StageKeys(k[1])
<1>1. ASSUME NEW k \in MediaKeys, k[2] # "download" PROVE k \in StageKeys(k[1])
  <2>1. k = <<k[1], k[2]>> /\ k[2] \in StagesOf[k[1]]
    BY <1>1, KeyForms
  <2> QED BY <2>1 DEF StageKeys
<1> QED BY <1>1, KeyForms DEF KeysOf

LEMMA AttemptForms ==
    /\ \A t \in MediaAttempts : /\ t[1] \in MediaKeys /\ t[2] \in 1..MediaTries
                                /\ t[1][1] \in Assets /\ t[1] \in KeysOf(t[1][1])
    /\ \A w \in MediaWorkers : w \notin MediaAttempts
    /\ MediaWorkers \subseteq MediaActors /\ MediaAttempts \subseteq MediaActors
    /\ \A x \in MediaActors : x \in MediaWorkers \/ x \in MediaAttempts
<1>1. ASSUME NEW t \in MediaAttempts
      PROVE  t[1] \in MediaKeys /\ t[2] \in 1..MediaTries
  BY DEF MediaAttempts
<1>2. ASSUME NEW t \in MediaAttempts PROVE t[1][1] \in Assets /\ t[1] \in KeysOf(t[1][1])
  BY <1>1, KeyForms
<1> QED BY <1>1, <1>2, MediaAssumption DEF MediaActors

LEMMA ActorForm ==
    ASSUME MediaTyped, NEW x \in MediaActors
    PROVE  mediaActor[x] \in ActorRecords /\ FitsRow(x, mediaActor[x])
BY DEF MediaTyped, ActorsTyped

LEMMA Resting ==
    /\ MediaIdle \in ActorRecords /\ MediaIdle.at = "idle" /\ MediaIdle.then = "idle"
    /\ MediaIdle.todo = {} /\ MediaIdle.settle = {} /\ MediaIdle.judged = <<>>
    /\ \A x \in MediaActors : FitsRow(x, MediaIdle)
<1>1. /\ MediaIdle \in ActorRecords /\ MediaIdle.at = "idle" /\ MediaIdle.then = "idle"
      /\ MediaIdle.todo = {} /\ MediaIdle.settle = {} /\ MediaIdle.judged = <<>>
  <2>1. 0 \in 0..MediaTries /\ "idle" \in MediaPlaces
    BY MediaAssumption DEF MediaPlaces
  <2> QED BY <2>1 DEF MediaIdle, ActorRecords
<1> QED BY <1>1 DEF FitsRow, InJob

-----------------------------------------------------------------------------
(* The shapes of a step: who moves, who leaves and who hears of it *)

Moved(x) ==
    /\ x \in MediaAttempts => ~MediaAt(x, "idle")
    /\ ~MediaAt(x, "watching")
    /\ \A y \in MediaActors \ {x} : mediaActor'[y] = mediaActor[y]
    /\ mediaActor'[x].at # "watching"
    /\ mediaActor'[x].at \in InJob => mediaActor[x].at \in InJob /\ mediaActor'[x].job = mediaActor[x].job
    /\ mediaActor'[x].at = "failing" => /\ mediaActor'[x].seen = mediaJobs[MyKey(x)].attempt
                                        /\ UNCHANGED mediaJobs

Hears(y, x) == /\ Watches(y, x)
               /\ mediaActor'[y].at \in {"idle", "raised"}
               /\ mediaActor'[y].at = "raised" => mediaActor'[y].job = x

Left(x) ==
    /\ ~MediaAt(x, "watching") /\ ~MediaAt(x, "idle")
    /\ mediaActor'[x] = MediaIdle
    /\ \A y \in MediaActors \ {x} : mediaActor'[y] = mediaActor[y] \/ Hears(y, x)

LEMMA MovesTo ==
    ASSUME MediaTyped, NEW x \in MediaActors,
           x \in MediaAttempts => ~MediaAt(x, "idle"), ~MediaAt(x, "watching"),
           NEW row \in ActorRecords, FitsRow(x, row), row.at # "watching",
           mediaActor' = [mediaActor EXCEPT ![x] = row],
           row.at \in InJob => mediaActor[x].at \in InJob /\ row.job = mediaActor[x].job,
           row.at = "failing" => row.seen = mediaJobs[MyKey(x)].attempt /\ UNCHANGED mediaJobs
    PROVE  ActorsTyped' /\ Moved(x) /\ mediaActor'[x] = row
<1>1. mediaActor \in [MediaActors -> ActorRecords]
  BY DEF MediaTyped, ActorsTyped
<1>2. mediaActor'[x] = row /\ \A y \in MediaActors \ {x} : mediaActor'[y] = mediaActor[y]
  BY <1>1
<1>3. mediaActor' \in [MediaActors -> ActorRecords]
  BY <1>1
<1>4. \A y \in MediaActors : FitsRow(y, mediaActor'[y])
  BY <1>2 DEF MediaTyped, ActorsTyped
<1>5. ActorsTyped'
  BY <1>3, <1>4 DEF ActorsTyped
<1> QED BY <1>2, <1>5 DEF Moved

LEMMA Leaves ==
    ASSUME MediaTyped, NEW x \in MediaActors, ~MediaAt(x, "watching"), ~MediaAt(x, "idle"),
           NEW place \in {"idle", "raised"},
           MediaLeaves(x, place)
    PROVE  ActorsTyped' /\ Left(x)
<1>1. mediaActor \in [MediaActors -> ActorRecords] /\ "idle" \in MediaPlaces /\ "raised" \in MediaPlaces
  BY DEF MediaTyped, ActorsTyped, MediaPlaces
<1>2. mediaActor'[x] = MediaIdle /\ mediaActor' = [y \in MediaActors |-> mediaActor'[y]]
  BY DEF MediaLeaves
<1>3. ASSUME NEW y \in MediaActors, y # x
      PROVE  /\ mediaActor'[y] \in ActorRecords /\ FitsRow(y, mediaActor'[y])
             /\ mediaActor'[y] = mediaActor[y] \/ Hears(y, x)
  <2>1. CASE ~Watches(y, x)
    <3>1. mediaActor'[y] = mediaActor[y]
      BY <1>3, <2>1, Zenon DEF MediaLeaves
    <3> QED BY <3>1, ActorForm
  <2>2. CASE Watches(y, x)
    <3>1. PICK row : row = [mediaActor[y] EXCEPT !.at = place, !.job = IF place = "idle" THEN NoMediaJob ELSE x]
      OBVIOUS
    <3>2. mediaActor'[y] = row
      BY <1>3, <2>2, <3>1, Zenon DEF MediaLeaves
    <3>3. mediaActor[y].at = "watching" /\ mediaActor[y].job = x
      BY <2>2 DEF Watches, MediaAt
    <3>4. x \in MediaAttempts /\ mediaActor[y].then = "idle" /\ y \notin MediaAttempts
      BY <3>3, ActorForm DEF FitsRow, InJob
    <3>5. /\ row \in ActorRecords /\ row.at = place /\ row.then = "idle"
          /\ row.job = (IF place = "idle" THEN NoMediaJob ELSE x)
      BY <1>1, <3>1, <3>4, ActorForm DEF ActorRecords
    <3>6. FitsRow(y, row) /\ Hears(y, x)
      BY <2>2, <3>2, <3>4, <3>5 DEF FitsRow, InJob, Hears
    <3> QED BY <3>2, <3>5, <3>6
  <2> QED BY <2>1, <2>2
<1>4. ActorsTyped'
  <2>1. \A y \in MediaActors : mediaActor'[y] \in ActorRecords /\ FitsRow(y, mediaActor'[y])
    BY <1>2, <1>3, Resting
  <2>2. mediaActor' \in [MediaActors -> ActorRecords]
    BY <1>2, <2>1
  <2> QED BY <2>1, <2>2 DEF ActorsTyped
<1> QED BY <1>2, <1>3, <1>4 DEF Left

LEMMA ActorsStay ==
    ASSUME MediaTyped, UNCHANGED mediaActor PROVE ActorsTyped'
BY DEF MediaTyped, ActorsTyped

-----------------------------------------------------------------------------
(* What a step may do to the row of a job *)

JobKept(k) == mediaJobs'[k].status = mediaJobs[k].status /\ mediaJobs'[k].attempt = mediaJobs[k].attempt

JobMade(k) == /\ mediaJobs[k].status = "absent" /\ mediaJobs'[k].status = "pending"
              /\ mediaJobs'[k].attempt = mediaJobs[k].attempt

JobTaken(k) == /\ \E w \in MediaWorkers : MediaAt(w, "claiming")
               /\ MediaClaimable(k) /\ mediaJobs'[k].status = "running"
               /\ mediaJobs'[k].attempt = mediaJobs[k].attempt + 1

JobDone(k) == /\ mediaJobs'[k].status = "succeeded" /\ mediaJobs'[k].attempt = mediaJobs[k].attempt
              /\ k \in mediaLog'.done

JobClosed(k) == /\ mediaJobs[k].status = "running" /\ mediaJobs[k].attempt >= MediaTries
                /\ mediaJobs'[k].status = "failed_terminal"
                /\ mediaJobs'[k].attempt = mediaJobs[k].attempt

JobFailed(k) == \E x \in MediaActors :
    /\ MediaAt(x, "failing") /\ MyKey(x) = k
    /\ mediaJobs'[k].attempt = mediaJobs[k].attempt
    /\ \/ mediaActor[x].seen >= MediaTries /\ mediaJobs'[k].status = "failed_terminal"
       \/ mediaActor[x].seen < MediaTries /\ mediaJobs'[k].status = "failed"

MediaJobStep(k) == \/ JobKept(k) \/ JobMade(k) \/ JobTaken(k) \/ JobDone(k) \/ JobClosed(k) \/ JobFailed(k)

JobsTyped == mediaJobs \in [MediaKeys -> MediaRows]

LEMMA MediaStatuses ==
    ASSUME JobsTyped, NEW k \in MediaKeys
    PROVE  /\ mediaJobs[k].status \in {"absent", "pending", "running", "failed", "succeeded", "failed_terminal"}
           /\ mediaJobs[k].attempt \in 0..MediaTries
           /\ mediaJobs[k] \in MediaRows
<1>1. mediaJobs[k] \in MediaRows
  BY DEF JobsTyped
<1> QED BY <1>1 DEF MediaRows, MediaEnded

LEMMA JobWritten ==
    ASSUME JobsTyped, NEW k \in MediaKeys, NEW row \in MediaRows, mediaJobs' = [mediaJobs EXCEPT ![k] = row]
    PROVE  JobsTyped' /\ mediaJobs'[k] = row /\ \A j \in MediaKeys \ {k} : mediaJobs'[j] = mediaJobs[j]
BY DEF JobsTyped

LEMMA JobEnds ==
    ASSUME JobsTyped, NEW k \in MediaKeys, NEW s \in {"succeeded", "failed", "failed_terminal"}, EndJob(k, s)
    PROVE  /\ JobsTyped' /\ mediaJobs'[k].status = s /\ mediaJobs'[k].attempt = mediaJobs[k].attempt
           /\ \A j \in MediaKeys \ {k} : mediaJobs'[j] = mediaJobs[j]
<1>1. PICK row : row = [mediaJobs[k] EXCEPT !.status = s, !.owner = "nobody", !.ripe = FALSE]
  OBVIOUS
<1>2. row \in MediaRows /\ row.status = s /\ row.attempt = mediaJobs[k].attempt
  BY <1>1, MediaStatuses DEF MediaRows, MediaEnded
<1>3. mediaJobs' = [mediaJobs EXCEPT ![k] = row]
  BY <1>1 DEF EndJob
<1> QED BY <1>2, <1>3, JobWritten

LEMMA JobMakes ==
    ASSUME JobsTyped, NEW k \in MediaKeys, mediaJobs[k].status = "absent",
           mediaJobs' = [mediaJobs EXCEPT ![k].status = "pending"]
    PROVE  JobsTyped' /\ JobMade(k) /\ \A j \in MediaKeys \ {k} : mediaJobs'[j] = mediaJobs[j]
<1>1. PICK row : row = [mediaJobs[k] EXCEPT !.status = "pending"]
  OBVIOUS
<1>2. row \in MediaRows /\ row.status = "pending" /\ row.attempt = mediaJobs[k].attempt
  BY <1>1, MediaStatuses DEF MediaRows
<1>3. mediaJobs' = [mediaJobs EXCEPT ![k] = row]
  BY <1>1
<1> QED BY <1>2, <1>3, JobWritten DEF JobMade

LEMMA JobTimed ==
    ASSUME JobsTyped, NEW k \in MediaKeys, NEW ripe \in BOOLEAN,
           mediaJobs' = [mediaJobs EXCEPT ![k].ripe = ripe]
    PROVE  JobsTyped' /\ \A j \in MediaKeys : JobKept(j)
<1>1. PICK row : row = [mediaJobs[k] EXCEPT !.ripe = ripe]
  OBVIOUS
<1>2. row \in MediaRows /\ row.status = mediaJobs[k].status /\ row.attempt = mediaJobs[k].attempt
  BY <1>1, MediaStatuses DEF MediaRows
<1>3. mediaJobs' = [mediaJobs EXCEPT ![k] = row]
  BY <1>1
<1>4. JobsTyped' /\ mediaJobs'[k] = row /\ \A j \in MediaKeys \ {k} : mediaJobs'[j] = mediaJobs[j]
  BY <1>2, <1>3, JobWritten
<1> QED BY <1>2, <1>4 DEF JobKept

LEMMA JobTakes ==
    ASSUME JobsTyped, NEW w \in MediaWorkers, MediaAt(w, "claiming"),
           NEW k \in MediaKeys, MediaClaimable(k), mediaJobs' = Claimed(k, w)
    PROVE  /\ JobsTyped' /\ JobTaken(k) /\ mediaJobs[k].attempt + 1 \in 1..MediaTries
           /\ Present(k)
           /\ \A j \in MediaKeys \ {k} : mediaJobs'[j] = mediaJobs[j]
<1>1. PICK row : row = [status |-> "running", attempt |-> mediaJobs[k].attempt + 1, owner |-> w, ripe |-> FALSE]
  OBVIOUS
<1>2. mediaJobs[k].attempt \in 0..MediaTries /\ mediaJobs[k].attempt < MediaTries /\ Present(k)
  BY MediaStatuses DEF MediaClaimable, Present
<1>3. mediaJobs[k].attempt + 1 \in 1..MediaTries
  BY <1>2, MediaAssumption
<1>4. row \in MediaRows /\ row.status = "running" /\ row.attempt = mediaJobs[k].attempt + 1
  BY <1>1, <1>3, MediaAssumption DEF MediaRows
<1>5. mediaJobs' = [mediaJobs EXCEPT ![k] = row]
  BY <1>1 DEF Claimed
<1> QED BY <1>2, <1>3, <1>4, <1>5, JobWritten DEF JobTaken

LEMMA JobsClose ==
    ASSUME JobsTyped, NEW w \in MediaWorkers, Terminalize(w)
    PROVE  /\ JobsTyped'
           /\ \A k \in MediaExhausted : JobClosed(k)
           /\ \A k \in MediaKeys \ MediaExhausted : mediaJobs'[k] = mediaJobs[k]
<1>1. mediaJobs' = [k \in MediaKeys |-> mediaJobs'[k]]
  BY DEF Terminalize
<1>2. ASSUME NEW k \in MediaKeys
      PROVE  /\ mediaJobs'[k] \in MediaRows
             /\ k \in MediaExhausted => JobClosed(k)
             /\ k \notin MediaExhausted => mediaJobs'[k] = mediaJobs[k]
  <2>1. CASE k \in MediaExhausted
    <3>1. PICK row : row = [mediaJobs[k] EXCEPT !.status = "failed_terminal", !.owner = "nobody", !.ripe = FALSE]
      OBVIOUS
    <3>2. row \in MediaRows /\ row.status = "failed_terminal" /\ row.attempt = mediaJobs[k].attempt
      BY <3>1, MediaStatuses DEF MediaRows, MediaEnded
    <3>3. mediaJobs'[k] = row
      BY <2>1, <3>1, Zenon DEF Terminalize
    <3> QED BY <2>1, <3>2, <3>3 DEF JobClosed, MediaExhausted
  <2>2. CASE k \notin MediaExhausted
    <3>1. mediaJobs'[k] = mediaJobs[k]
      BY <2>2, Zenon DEF Terminalize
    <3> QED BY <2>2, <3>1, MediaStatuses
  <2> QED BY <2>1, <2>2
<1>3. JobsTyped'
  BY <1>1, <1>2 DEF JobsTyped
<1>4. MediaExhausted \subseteq MediaKeys
  BY DEF MediaExhausted
<1> QED BY <1>2, <1>3, <1>4

LEMMA JobsStay ==
    ASSUME JobsTyped, UNCHANGED mediaJobs PROVE JobsTyped' /\ \A k \in MediaKeys : JobKept(k)
BY DEF JobsTyped, JobKept

-----------------------------------------------------------------------------
(* What the actions write *)

LEMMA Listed ==
    /\ PendingAssets \subseteq Unfinished /\ Unfinished \subseteq Assets
    /\ \A assets \in SUBSET Assets : MissingKeys(assets) \subseteq MediaKeys
<1>1. PendingAssets \subseteq Unfinished /\ Unfinished \subseteq Assets
  BY DEF PendingAssets, Unfinished
<1>2. ASSUME NEW assets \in SUBSET Assets, NEW k \in MissingKeys(assets) PROVE k \in MediaKeys
  <2>1. PICK a \in assets :
            k \in (IF media[a].download = "downloaded" THEN StageKeys(a) ELSE {<<a, "download">>})
    BY <1>2 DEF MissingKeys
  <2> QED BY <2>1, KeyForms, StageForms
<1> QED BY <1>1, <1>2

LEMMA TickWrites ==
    ASSUME MediaTyped, NEW w \in MediaWorkers, MediaTick(w)
    PROVE  /\ ActorsTyped' /\ Moved(w)
           /\ mediaActor'[w].at = "creating" /\ mediaActor'[w].todo = MissingKeys(PendingAssets)
           /\ mediaActor'[w].then = "closing"
<1>1. PICK row : row = [MediaIdle EXCEPT !.at = "creating", !.todo = MissingKeys(PendingAssets),
                                         !.then = "closing"]
  OBVIOUS
<1>2. /\ row \in ActorRecords /\ row.at = "creating" /\ row.then = "closing"
      /\ row.todo = MissingKeys(PendingAssets)
  BY <1>1, Resting, Listed DEF ActorRecords, MediaPlaces
<1>3. w \in MediaActors /\ w \notin MediaAttempts
  BY AttemptForms
<1>4. FitsRow(w, row) /\ row.at \notin InJob
  BY <1>2, <1>3 DEF FitsRow, InJob
<1>5. mediaActor' = [mediaActor EXCEPT ![w] = row] /\ ~MediaAt(w, "watching")
  BY <1>1 DEF MediaTick, MediaMoves, MediaAt
<1> QED BY <1>2, <1>3, <1>4, <1>5, MovesTo

LEMMA CreateWrites ==
    ASSUME MediaTyped, NEW x \in MediaActors, CreateMediaJob(x)
    PROVE  \E k \in mediaActor[x].todo :
             /\ k \in MediaKeys /\ ActorsTyped' /\ Moved(x)
             /\ mediaActor'[x].at = "creating" /\ mediaActor'[x].todo = mediaActor[x].todo \ {k}
             /\ mediaActor'[x].then = mediaActor[x].then
             /\ JobsTyped' /\ (JobMade(k) \/ (UNCHANGED mediaJobs /\ Present(k)))
             /\ \A j \in MediaKeys \ {k} : mediaJobs'[j] = mediaJobs[j]
<1>1. PICK k \in mediaActor[x].todo :
         /\ mediaJobs' = IF mediaJobs[k].status = "absent"
                         THEN [mediaJobs EXCEPT ![k].status = "pending"] ELSE mediaJobs
         /\ mediaActor' = [mediaActor EXCEPT ![x].todo = @ \ {k}]
  BY DEF CreateMediaJob
<1>2. PICK row : row = [mediaActor[x] EXCEPT !.todo = @ \ {k}]
  OBVIOUS
<1>3. mediaActor[x] \in ActorRecords /\ FitsRow(x, mediaActor[x]) /\ mediaActor[x].at = "creating"
  BY ActorForm DEF CreateMediaJob, MediaAt
<1>4. /\ row \in ActorRecords /\ row.at = "creating" /\ row.todo = mediaActor[x].todo \ {k}
      /\ row.then = mediaActor[x].then /\ row.job = mediaActor[x].job /\ row.by = mediaActor[x].by
      /\ row.settle = mediaActor[x].settle /\ k \in MediaKeys
  BY <1>1, <1>2, <1>3 DEF ActorRecords
<1>5. FitsRow(x, row) /\ row.at \notin InJob
  BY <1>3, <1>4 DEF FitsRow, InJob
<1>6. mediaActor' = [mediaActor EXCEPT ![x] = row] /\ ~MediaAt(x, "watching") /\ ~MediaAt(x, "idle")
  BY <1>1, <1>2, <1>3 DEF MediaAt
<1>7. ActorsTyped' /\ Moved(x) /\ mediaActor'[x] = row
  BY <1>4, <1>5, <1>6, MovesTo
<1>8. JobsTyped
  BY DEF MediaTyped, JobsTyped
<1>9. CASE mediaJobs[k].status = "absent"
  <2>1. mediaJobs' = [mediaJobs EXCEPT ![k].status = "pending"]
    BY <1>1, <1>9
  <2>2. JobsTyped' /\ JobMade(k) /\ \A j \in MediaKeys \ {k} : mediaJobs'[j] = mediaJobs[j]
    BY <1>4, <1>8, <1>9, <2>1, JobMakes
  <2> QED BY <1>4, <1>7, <2>2
<1>10. CASE mediaJobs[k].status # "absent"
  <2>1. UNCHANGED mediaJobs
    BY <1>1, <1>10
  <2>2. JobsTyped'
    BY <1>8, <2>1 DEF JobsTyped
  <2> QED BY <1>4, <1>7, <1>10, <2>1, <2>2 DEF Present
<1> QED BY <1>9, <1>10

\* How a loop goes on, and a task, or a loop after a task, ends.
LEMMA ProceedWrites ==
    ASSUME MediaTyped, NEW x \in MediaActors, mediaActor[x].at \in {"creating", "settling"}, Proceed(x)
    PROVE  /\ ActorsTyped'
           /\ \/ Left(x)
              \/ /\ Moved(x) /\ x \notin MediaAttempts /\ mediaActor[x].then \in {"closing", "claiming"}
                 /\ mediaActor'[x].at = mediaActor[x].then
<1>1. /\ mediaActor[x] \in ActorRecords /\ FitsRow(x, mediaActor[x])
      /\ ~MediaAt(x, "watching") /\ ~MediaAt(x, "idle")
  BY ActorForm DEF MediaAt
<1>2. CASE mediaActor[x].then = "idle"
  BY <1>1, <1>2, Leaves DEF Proceed
<1>3. CASE mediaActor[x].then # "idle"
  <2>1. x \notin MediaAttempts /\ mediaActor[x].then \in {"closing", "claiming"}
    BY <1>1, <1>3 DEF FitsRow, ActorRecords
  <2>2. PICK row : row = [mediaActor[x] EXCEPT !.at = mediaActor[x].then]
    OBVIOUS
  <2>3. /\ row \in ActorRecords /\ row.at = mediaActor[x].then /\ row.at \notin InJob
        /\ row.at \in {"closing", "claiming"}
    BY <1>1, <2>1, <2>2 DEF ActorRecords, MediaPlaces, InJob
  <2>4. FitsRow(x, row)
    BY <2>1, <2>3 DEF FitsRow, InJob
  <2>5. mediaActor' = [mediaActor EXCEPT ![x] = row]
    BY <1>3, <2>2 DEF Proceed, MediaGoes
  <2> QED BY <1>1, <2>1, <2>3, <2>4, <2>5, MovesTo
<1> QED BY <1>2, <1>3

LEMMA ClosingWrites ==
    ASSUME MediaTyped, NEW w \in MediaWorkers, Terminalize(w)
    PROVE  /\ ActorsTyped' /\ Moved(w)
           /\ mediaActor'[w].at = "settling" /\ mediaActor'[w].then = "claiming"
           /\ mediaActor'[w].settle = {k[1] : k \in MediaExhausted}
<1>1. PICK row : row = [mediaActor[w] EXCEPT !.at = "settling", !.then = "claiming",
                                             !.settle = {k[1] : k \in MediaExhausted}]
  OBVIOUS
<1>2. w \in MediaActors /\ w \notin MediaAttempts
  BY AttemptForms
<1>3. {k[1] : k \in MediaExhausted} \subseteq Assets
  BY KeyForms DEF MediaExhausted
<1>4. /\ row \in ActorRecords /\ row.at = "settling" /\ row.then = "claiming"
      /\ row.settle = {k[1] : k \in MediaExhausted}
  BY <1>1, <1>2, <1>3, ActorForm DEF ActorRecords, MediaPlaces
<1>5. FitsRow(w, row) /\ row.at \notin InJob
  BY <1>2, <1>4 DEF FitsRow, InJob
<1>6. mediaActor' = [mediaActor EXCEPT ![w] = row] /\ ~MediaAt(w, "watching")
  BY <1>1 DEF Terminalize, MediaAt
<1> QED BY <1>2, <1>4, <1>5, <1>6, MovesTo

LEMMA VerdictForms ==
    ASSUME NEW a PROVE Verdict(a) \in {"none", "partial", "succeeded"}
BY DEF Verdict

LEMMA SettleReadWrites ==
    ASSUME MediaTyped, NEW x \in MediaActors, SettleRead(x)
    PROVE  /\ ActorsTyped' /\ Moved(x)
           /\ mediaActor'[x].settle \subseteq mediaActor[x].settle
           /\ mediaActor'[x].then = mediaActor[x].then
           /\ \/ mediaActor'[x].at = "settling"
              \/ /\ mediaActor'[x].at = "verdict"
                 /\ \E a \in mediaActor[x].settle :
                        Verdict(a) # "none" /\ mediaActor'[x].judged = <<a, Verdict(a)>>
<1>1. mediaActor[x] \in ActorRecords /\ FitsRow(x, mediaActor[x]) /\ mediaActor[x].at = "settling"
  BY ActorForm DEF SettleRead, MediaAt
<1>2. PICK a \in mediaActor[x].settle :
         mediaActor' = [mediaActor EXCEPT ![x] =
            IF Verdict(a) = "none" THEN [mediaActor[x] EXCEPT !.settle = mediaActor[x].settle \ {a}]
            ELSE [mediaActor[x] EXCEPT !.at = "verdict", !.settle = mediaActor[x].settle \ {a},
                                       !.judged = <<a, Verdict(a)>>]]
  BY DEF SettleRead, MediaMoves
<1>3. ~MediaAt(x, "watching") /\ ~MediaAt(x, "idle") /\ a \in Assets
  BY <1>1 DEF MediaAt, ActorRecords
<1>4. CASE Verdict(a) = "none"
  <2>1. PICK row : row = [mediaActor[x] EXCEPT !.settle = mediaActor[x].settle \ {a}]
    OBVIOUS
  <2>2. /\ row \in ActorRecords /\ row.at = "settling" /\ row.settle \subseteq mediaActor[x].settle
        /\ row.then = mediaActor[x].then /\ row.job = mediaActor[x].job /\ row.by = mediaActor[x].by
        /\ row.todo = mediaActor[x].todo
    BY <1>1, <2>1 DEF ActorRecords
  <2>3. FitsRow(x, row) /\ row.at \notin InJob
    BY <1>1, <2>2 DEF FitsRow, InJob
  <2>4. mediaActor' = [mediaActor EXCEPT ![x] = row]
    BY <1>2, <1>4, <2>1
  <2> QED BY <1>3, <2>2, <2>3, <2>4, MovesTo
<1>5. CASE Verdict(a) # "none"
  <2>1. PICK row : row = [mediaActor[x] EXCEPT !.at = "verdict", !.settle = mediaActor[x].settle \ {a},
                                               !.judged = <<a, Verdict(a)>>]
    OBVIOUS
  <2>2. <<a, Verdict(a)>> \in Assets \X {"partial", "succeeded"}
    BY <1>3, <1>5, VerdictForms
  <2>3. /\ row \in ActorRecords /\ row.at = "verdict" /\ row.settle \subseteq mediaActor[x].settle
        /\ row.then = mediaActor[x].then /\ row.job = mediaActor[x].job /\ row.by = mediaActor[x].by
        /\ row.todo = mediaActor[x].todo /\ row.judged = <<a, Verdict(a)>>
    BY <1>1, <2>1, <2>2 DEF ActorRecords, MediaPlaces
  <2>4. FitsRow(x, row) /\ row.at \notin InJob
    BY <1>1, <2>2, <2>3 DEF FitsRow, InJob
  <2>5. mediaActor' = [mediaActor EXCEPT ![x] = row]
    BY <1>2, <1>5, <2>1
  <2> QED BY <1>3, <1>5, <2>3, <2>4, <2>5, MovesTo
<1> QED BY <1>4, <1>5

LEMMA SettleWriteWrites ==
    ASSUME MediaTyped, NEW x \in MediaActors, SettleWrite(x)
    PROVE  /\ ActorsTyped' /\ Moved(x)
           /\ mediaActor'[x].at = "settling" /\ mediaActor'[x].settle = mediaActor[x].settle
           /\ mediaActor'[x].then = mediaActor[x].then
           /\ mediaActor[x].judged \in Assets \X {"partial", "succeeded"}
           /\ media' \in [Assets -> AssetRows]
           /\ media'[mediaActor[x].judged[1]].analysis = mediaActor[x].judged[2]
           /\ \A a \in Assets : /\ media'[a].download = media[a].download
                                /\ a # mediaActor[x].judged[1] => media'[a] = media[a]
<1>1. mediaActor[x] \in ActorRecords /\ FitsRow(x, mediaActor[x]) /\ mediaActor[x].at = "verdict"
  BY ActorForm DEF SettleWrite, MediaAt
<1>2. PICK row : row = [mediaActor[x] EXCEPT !.at = "settling", !.judged = <<>>]
  OBVIOUS
<1>3. /\ row \in ActorRecords /\ row.at = "settling" /\ row.settle = mediaActor[x].settle
      /\ row.then = mediaActor[x].then /\ row.job = mediaActor[x].job /\ row.by = mediaActor[x].by
      /\ row.todo = mediaActor[x].todo
  BY <1>1, <1>2 DEF ActorRecords, MediaPlaces
<1>4. FitsRow(x, row) /\ row.at \notin InJob
  BY <1>1, <1>3 DEF FitsRow, InJob
<1>5. mediaActor' = [mediaActor EXCEPT ![x] = row] /\ ~MediaAt(x, "watching") /\ ~MediaAt(x, "idle")
  BY <1>1, <1>2 DEF SettleWrite, MediaAt
<1>6. ActorsTyped' /\ Moved(x) /\ mediaActor'[x] = row
  BY <1>3, <1>4, <1>5, MovesTo
<1>7. PICK b, v : b = mediaActor[x].judged[1] /\ v = mediaActor[x].judged[2]
  OBVIOUS
<1>8. b \in Assets /\ v \in {"partial", "succeeded"} /\ mediaActor[x].judged \in Assets \X {"partial", "succeeded"}
  BY <1>1, <1>7 DEF FitsRow
<1>9. media \in [Assets -> AssetRows] /\ media' = [media EXCEPT ![b].analysis = v]
  BY <1>7 DEF SettleWrite, MediaTyped
<1>10. /\ media' \in [Assets -> AssetRows] /\ media'[b].analysis = v
       /\ \A a \in Assets : media'[a].download = media[a].download /\ (a # b => media'[a] = media[a])
  BY <1>8, <1>9 DEF AssetRows
<1> QED BY <1>3, <1>6, <1>7, <1>8, <1>10

LEMMA ClaimWrites ==
    ASSUME MediaTyped, NEW w \in MediaWorkers, ClaimMediaJob(w)
    PROVE  \E t \in MediaAttempts :
             /\ t[1] \in MediaKeys /\ ActorsTyped' /\ JobsTyped' /\ JobTaken(t[1]) /\ Present(t[1])
             /\ \A j \in MediaKeys \ {t[1]} : mediaJobs'[j] = mediaJobs[j]
             /\ mediaActor'[w].at = "watching" /\ mediaActor'[w].job = t
             /\ mediaActor'[t].at = "executing" /\ mediaActor'[t].job = t
             /\ \A y \in MediaActors \ {w, t} : mediaActor'[y] = mediaActor[y]
<1>1. PICK k \in MediaKeys :
         /\ MediaClaimable(k)
         /\ mediaJobs' = Claimed(k, w)
         /\ mediaActor' = [mediaActor EXCEPT
               ![w] = [MediaIdle EXCEPT !.at = "watching", !.job = <<k, mediaJobs[k].attempt + 1>>],
               ![<<k, mediaJobs[k].attempt + 1>>] =
                   [MediaIdle EXCEPT !.at = "executing", !.job = <<k, mediaJobs[k].attempt + 1>>, !.by = w]]
  BY DEF ClaimMediaJob
<1>2. PICK t : t = <<k, mediaJobs[k].attempt + 1>>
  OBVIOUS
<1>3. JobsTyped /\ MediaAt(w, "claiming")
  BY DEF MediaTyped, JobsTyped, ClaimMediaJob
<1>4. /\ JobsTyped' /\ JobTaken(k) /\ mediaJobs[k].attempt + 1 \in 1..MediaTries /\ Present(k)
      /\ \A j \in MediaKeys \ {k} : mediaJobs'[j] = mediaJobs[j]
  BY <1>1, <1>3, JobTakes
<1>5. t \in MediaAttempts /\ t[1] = k
  BY <1>2, <1>4 DEF MediaAttempts
<1>6. /\ w \in MediaActors /\ t \in MediaActors /\ w \notin MediaAttempts /\ w # t
      /\ t \notin MediaWorkers /\ t[1][1] \in Assets
  BY <1>5, AttemptForms
<1>7. PICK loop, task : /\ loop = [MediaIdle EXCEPT !.at = "watching", !.job = t]
                        /\ task = [MediaIdle EXCEPT !.at = "executing", !.job = t, !.by = w]
  OBVIOUS
<1>8. /\ loop \in ActorRecords /\ loop.at = "watching" /\ loop.job = t /\ loop.then = "idle"
  BY <1>5, <1>7, Resting DEF ActorRecords, MediaPlaces
<1>9. /\ task \in ActorRecords /\ task.at = "executing" /\ task.job = t /\ task.then = "idle"
      /\ task.by = w /\ task.todo = {} /\ task.settle = {}
  BY <1>5, <1>7, Resting DEF ActorRecords, MediaPlaces
<1>10. FitsRow(w, loop) /\ FitsRow(t, task)
  BY <1>5, <1>6, <1>8, <1>9 DEF FitsRow, InJob
<1>11. mediaActor' = [mediaActor EXCEPT ![w] = loop, ![t] = task]
  BY <1>1, <1>2, <1>7
<1>12. /\ mediaActor'[w] = loop /\ mediaActor'[t] = task
       /\ \A y \in MediaActors \ {w, t} : mediaActor'[y] = mediaActor[y]
       /\ mediaActor' \in [MediaActors -> ActorRecords]
  BY <1>6, <1>8, <1>9, <1>11 DEF MediaTyped, ActorsTyped
<1>13. \A y \in MediaActors : FitsRow(y, mediaActor'[y])
  BY <1>10, <1>12, ActorForm
<1>14. ActorsTyped'
  BY <1>12, <1>13 DEF ActorsTyped
<1> QED BY <1>4, <1>5, <1>8, <1>9, <1>12, <1>14

\* A move of an actor that has a job, to another place of the job.
LEMMA TaskGoesOn ==
    ASSUME MediaTyped, NEW x \in MediaActors, mediaActor[x].at \in InJob \ {"watching"},
           NEW place \in {"fetched", "saved", "refused", "raised"}, MediaGoes(x, place),
           place # "raised" => x \in MediaAttempts /\ x[1][2] = "download"
    PROVE  /\ ActorsTyped' /\ Moved(x)
           /\ mediaActor'[x].at = place /\ mediaActor'[x].job = mediaActor[x].job
<1>1. mediaActor[x] \in ActorRecords /\ FitsRow(x, mediaActor[x])
  BY ActorForm
<1>2. PICK row : row = [mediaActor[x] EXCEPT !.at = place]
  OBVIOUS
<1>3. /\ row \in ActorRecords /\ row.at = place /\ row.job = mediaActor[x].job
      /\ row.then = mediaActor[x].then /\ row.by = mediaActor[x].by
      /\ row.settle = mediaActor[x].settle /\ row.todo = mediaActor[x].todo
  BY <1>1, <1>2 DEF ActorRecords, MediaPlaces
<1>4. x \in MediaAttempts => x \notin MediaWorkers
  BY AttemptForms
<1>5. FitsRow(x, row)
  BY <1>1, <1>3, <1>4 DEF FitsRow, InJob
<1>6. mediaActor' = [mediaActor EXCEPT ![x] = row] /\ ~MediaAt(x, "watching") /\ ~MediaAt(x, "idle")
  BY <1>2 DEF MediaGoes, MediaAt, InJob
<1>7. place # "watching" /\ place # "failing"
  OBVIOUS
<1> QED BY <1>3, <1>5, <1>6, <1>7, MovesTo

LEMMA TaskForms ==
    ASSUME MediaTyped, NEW t \in MediaAttempts, mediaActor[t].at # "idle"
    PROVE  /\ t \in MediaActors /\ mediaActor[t].job = t /\ mediaActor[t].then = "idle"
           /\ MyKey(t) = t[1] /\ MyAsset(t) = t[1][1] /\ t[1] \in MediaKeys /\ t[1][1] \in Assets
           /\ StageKeys(t[1][1]) \subseteq KeysOf(t[1][1])
           /\ mediaActor[t].by \in MediaWorkers
           /\ t \notin MediaWorkers
           /\ mediaActor[t].at \in {"fetched", "saved", "refused"} => t[1][2] = "download"
           /\ mediaActor[t].todo \subseteq KeysOf(t[1][1]) /\ mediaActor[t].settle \subseteq {t[1][1]}
<1>1. t \in MediaActors /\ t[1] \in MediaKeys /\ t[1][1] \in Assets /\ t \notin MediaWorkers
  BY AttemptForms
<1>2. FitsRow(t, mediaActor[t])
  BY <1>1, ActorForm
<1>3. StageKeys(t[1][1]) \subseteq KeysOf(t[1][1])
  BY <1>1, StageForms
<1> QED BY <1>1, <1>2, <1>3 DEF FitsRow, MyKey, MyAsset

\* A task ends its job and goes on to what is left to do for its asset.
LEMMA EndsWrites ==
    ASSUME MediaTyped, NEW t \in MediaAttempts, EndDownload(t) \/ EndStage(t)
    PROVE  /\ ActorsTyped' /\ Moved(t) /\ JobsTyped' /\ JobDone(t[1])
           /\ \A j \in MediaKeys \ {t[1]} : mediaJobs'[j] = mediaJobs[j]
           /\ mediaLog'.done = mediaLog.done \cup {t[1]} /\ mediaLog'.orphaned = mediaLog.orphaned
           /\ mediaLog'.passedOver = mediaLog.passedOver /\ mediaLog' \in MediaHistory
           /\ UNCHANGED <<media, mediaCuts>>
           /\ mediaActor'[t].then = "idle"
           /\ \/ /\ MediaAt(t, "saved") /\ mediaActor'[t].at = "creating"
                 /\ mediaActor'[t].todo = StageKeys(t[1][1])
              \/ /\ MediaAt(t, "executing") /\ t[1][2] # "download" /\ mediaActor'[t].at = "settling"
                 /\ mediaActor'[t].settle = {t[1][1]}
<1>1. mediaActor[t].at \in {"saved", "executing"} /\ ~MediaAt(t, "watching") /\ ~MediaAt(t, "idle")
  BY DEF EndDownload, EndStage, MediaAt
<1>2. /\ t \in MediaActors /\ mediaActor[t].job = t /\ mediaActor[t].then = "idle"
      /\ MyKey(t) = t[1] /\ MyAsset(t) = t[1][1] /\ t[1] \in MediaKeys /\ t[1][1] \in Assets
      /\ StageKeys(t[1][1]) \subseteq KeysOf(t[1][1]) /\ mediaActor[t].by \in MediaWorkers
      /\ t \notin MediaWorkers
      /\ mediaActor[t].todo \subseteq KeysOf(t[1][1]) /\ mediaActor[t].settle \subseteq {t[1][1]}
  BY <1>1, TaskForms
<1>3. EndJob(t[1], "succeeded") /\ DoneOnce(t[1]) /\ UNCHANGED <<media, mediaCuts>>
  BY <1>2 DEF EndDownload, EndStage
<1>4. /\ mediaLog'.done = mediaLog.done \cup {t[1]} /\ mediaLog'.orphaned = mediaLog.orphaned
      /\ mediaLog'.passedOver = mediaLog.passedOver /\ mediaLog' \in MediaHistory
  BY <1>2, <1>3 DEF DoneOnce, MediaTyped, MediaHistory
<1>5. JobsTyped
  BY DEF MediaTyped, JobsTyped
<1>6. /\ JobsTyped' /\ mediaJobs'[t[1]].status = "succeeded"
      /\ mediaJobs'[t[1]].attempt = mediaJobs[t[1]].attempt
      /\ \A j \in MediaKeys \ {t[1]} : mediaJobs'[j] = mediaJobs[j]
  BY <1>2, <1>3, <1>5, JobEnds
<1>7. JobDone(t[1])
  BY <1>4, <1>6 DEF JobDone
<1>8. mediaActor[t] \in ActorRecords
  BY <1>2, ActorForm
<1>9. CASE EndDownload(t)
  <2>1. PICK row : row = [mediaActor[t] EXCEPT !.at = "creating", !.todo = StageKeys(t[1][1])]
    OBVIOUS
  <2>2. StageKeys(t[1][1]) \subseteq MediaKeys
    BY <1>2, StageForms
  <2>3. /\ row \in ActorRecords /\ row.at = "creating" /\ row.todo = StageKeys(t[1][1])
        /\ row.then = "idle" /\ row.job = t /\ row.by \in MediaWorkers
        /\ row.settle = mediaActor[t].settle
    BY <1>2, <1>8, <2>1, <2>2 DEF ActorRecords, MediaPlaces
  <2>4. FitsRow(t, row) /\ row.at \notin InJob
    BY <1>2, <2>3 DEF FitsRow, InJob
  <2>5. mediaActor' = [mediaActor EXCEPT ![t] = row] /\ MediaAt(t, "saved")
    BY <1>2, <1>9, <2>1 DEF EndDownload
  <2>6. ActorsTyped' /\ Moved(t) /\ mediaActor'[t] = row
    BY <1>1, <1>2, <2>3, <2>4, <2>5, MovesTo
  <2> QED BY <1>3, <1>4, <1>6, <1>7, <2>3, <2>5, <2>6
<1>10. CASE EndStage(t)
  <2>1. PICK row : row = [mediaActor[t] EXCEPT !.at = "settling", !.settle = {t[1][1]}]
    OBVIOUS
  <2>3. /\ row \in ActorRecords /\ row.at = "settling" /\ row.settle = {t[1][1]}
        /\ row.then = "idle" /\ row.job = t /\ row.by \in MediaWorkers
        /\ row.todo = mediaActor[t].todo
    BY <1>2, <1>8, <2>1 DEF ActorRecords, MediaPlaces
  <2>4. FitsRow(t, row) /\ row.at \notin InJob
    BY <1>2, <2>3 DEF FitsRow, InJob
  <2>5. mediaActor' = [mediaActor EXCEPT ![t] = row] /\ MediaAt(t, "executing") /\ t[1][2] # "download"
    BY <1>2, <1>10, <2>1 DEF EndStage
  <2>6. ActorsTyped' /\ Moved(t) /\ mediaActor'[t] = row
    BY <1>1, <1>2, <2>3, <2>4, <2>5, MovesTo
  <2> QED BY <1>3, <1>4, <1>6, <1>7, <2>3, <2>5, <2>6
<1> QED BY <1>9, <1>10

\* Who fails a job: a task that was refused, or a loop.
LEMMA FailReadWrites ==
    ASSUME MediaTyped, NEW x \in MediaActors, MediaFailRead(x)
    PROVE  ActorsTyped' /\ Moved(x) /\ mediaActor'[x].at = "failing"
<1>1. mediaActor[x] \in ActorRecords /\ FitsRow(x, mediaActor[x]) /\ mediaActor[x].at = "raised"
  BY ActorForm DEF MediaFailRead, MediaAt
<1>2. mediaActor[x].job \in MediaAttempts /\ MyKey(x) \in MediaKeys
  BY <1>1, AttemptForms DEF FitsRow, InJob, MyKey
<1>3. mediaJobs[MyKey(x)].attempt \in 0..MediaTries
  BY <1>2, MediaStatuses DEF MediaTyped, JobsTyped
<1>4. PICK row : row = [mediaActor[x] EXCEPT !.at = "failing", !.seen = mediaJobs[MyKey(x)].attempt]
  OBVIOUS
<1>5. /\ row \in ActorRecords /\ row.at = "failing" /\ row.seen = mediaJobs[MyKey(x)].attempt
      /\ row.job = mediaActor[x].job /\ row.then = mediaActor[x].then /\ row.by = mediaActor[x].by
      /\ row.settle = mediaActor[x].settle /\ row.todo = mediaActor[x].todo
  BY <1>1, <1>3, <1>4 DEF ActorRecords, MediaPlaces
<1>6. FitsRow(x, row)
  BY <1>1, <1>5 DEF FitsRow, InJob
<1>7. /\ mediaActor' = [mediaActor EXCEPT ![x] = row] /\ ~MediaAt(x, "watching") /\ ~MediaAt(x, "idle")
      /\ UNCHANGED mediaJobs /\ mediaActor[x].at \in InJob
  BY <1>1, <1>4 DEF MediaFailRead, MediaAt, InJob
<1> QED BY <1>5, <1>6, <1>7, MovesTo

LEMMA FailWrites ==
    ASSUME MediaTyped, NEW x \in MediaActors, FailMediaJob(x)
    PROVE  /\ ActorsTyped' /\ Moved(x) /\ JobsTyped' /\ MyKey(x) \in MediaKeys /\ JobFailed(MyKey(x))
           /\ \A j \in MediaKeys \ {MyKey(x)} : mediaJobs'[j] = mediaJobs[j]
           /\ mediaActor[x].at = "failing" /\ mediaActor[x].then = "idle"
           /\ mediaActor'[x].at = "settling" /\ mediaActor'[x].then = "idle"
           /\ \/ mediaActor'[x].settle = {}
              \/ mediaActor'[x].settle = {MyKey(x)[1]} /\ mediaJobs'[MyKey(x)].status = "failed_terminal"
           /\ mediaJobs'[MyKey(x)].status # "absent"
<1>1. mediaActor[x] \in ActorRecords /\ FitsRow(x, mediaActor[x]) /\ mediaActor[x].at = "failing"
  BY ActorForm DEF FailMediaJob, MediaAt
<1>2. mediaActor[x].job \in MediaAttempts /\ MyKey(x) \in MediaKeys /\ mediaActor[x].then = "idle"
  BY <1>1, AttemptForms DEF FitsRow, InJob, MyKey
<1>3. MyAsset(x) = MyKey(x)[1] /\ MyAsset(x) \in Assets
  BY <1>2, KeyForms DEF MyAsset, MyKey
<1>4. x \in MediaAttempts => MyAsset(x) = x[1][1]
  BY <1>1 DEF FitsRow, MyAsset
<1>15. \/ FailsWith(x, "failed_terminal", {MyAsset(x)}) /\ mediaActor[x].seen >= MediaTries
       \/ FailsWith(x, "failed", {}) /\ mediaActor[x].seen < MediaTries
  BY DEF FailMediaJob
<1>5. PICK s, assets :
         /\ FailsWith(x, s, assets)
         /\ \/ s = "failed_terminal" /\ assets = {MyAsset(x)} /\ mediaActor[x].seen >= MediaTries
            \/ s = "failed" /\ assets = {} /\ mediaActor[x].seen < MediaTries
  BY <1>15, Zenon
<1>16. /\ s \in {"failed", "failed_terminal"} /\ s \in {"succeeded", "failed", "failed_terminal"}
       /\ assets \subseteq {MyAsset(x)} /\ assets \subseteq Assets
       /\ assets = {} \/ (assets = {MyKey(x)[1]} /\ s = "failed_terminal")
  <2>1. CASE s = "failed_terminal" /\ assets = {MyAsset(x)}
    BY <1>3, <2>1
  <2>2. CASE s = "failed" /\ assets = {}
    BY <2>2
  <2> QED BY <1>5, <2>1, <2>2
<1>6. PICK row : row = [mediaActor[x] EXCEPT !.at = "settling", !.settle = assets, !.seen = 0]
  OBVIOUS
<1>7. /\ row \in ActorRecords /\ row.at = "settling" /\ row.settle = assets
      /\ row.job = mediaActor[x].job /\ row.then = "idle" /\ row.by = mediaActor[x].by
      /\ row.todo = mediaActor[x].todo
  <2>1. 0 \in 0..MediaTries /\ "settling" \in MediaPlaces /\ assets \in SUBSET Assets
    BY <1>16, MediaAssumption DEF MediaPlaces
  <2> QED BY <1>1, <1>2, <1>6, <2>1 DEF ActorRecords
<1>8. FitsRow(x, row) /\ row.at \notin InJob
  BY <1>1, <1>4, <1>7, <1>16 DEF FitsRow, InJob
<1>9. mediaActor' = [mediaActor EXCEPT ![x] = row] /\ ~MediaAt(x, "watching") /\ ~MediaAt(x, "idle")
  BY <1>1, <1>5, <1>6 DEF FailsWith, MediaAt
<1>10. ActorsTyped' /\ Moved(x) /\ mediaActor'[x] = row
  BY <1>7, <1>8, <1>9, MovesTo
<1>11. JobsTyped /\ EndJob(MyKey(x), s)
  BY <1>5 DEF MediaTyped, JobsTyped, FailsWith
<1>12. /\ JobsTyped' /\ mediaJobs'[MyKey(x)].status = s
       /\ mediaJobs'[MyKey(x)].attempt = mediaJobs[MyKey(x)].attempt
       /\ \A j \in MediaKeys \ {MyKey(x)} : mediaJobs'[j] = mediaJobs[j]
  BY <1>2, <1>11, <1>16, JobEnds
<1>13. JobFailed(MyKey(x))
  BY <1>1, <1>5, <1>12 DEF JobFailed, MediaAt
<1> QED BY <1>1, <1>2, <1>7, <1>10, <1>12, <1>13, <1>16

LEMMA DownloadWrites ==
    ASSUME MediaTyped, NEW t \in MediaAttempts, SaveDownload(t) \/ RefuseDownload(t)
    PROVE  /\ ActorsTyped' /\ Moved(t) /\ media' \in [Assets -> AssetRows]
           /\ t[1][2] = "download" /\ mediaActor'[t].job = t
           /\ \A a \in Assets \ {t[1][1]} : media'[a] = media[a]
           /\ \/ /\ MediaAt(t, "fetched") /\ mediaActor'[t].at = "saved"
                 /\ media'[t[1][1]] = [download |-> "downloaded", analysis |-> "pending"]
              \/ /\ MediaAt(t, "refused") /\ mediaActor'[t].at = "raised"
                 /\ media'[t[1][1]].download = "failed"
                 /\ media'[t[1][1]].analysis = media[t[1][1]].analysis
<1>1. mediaActor[t].at \in {"fetched", "refused"}
  BY DEF SaveDownload, RefuseDownload, MediaAt
<1>2. /\ t \in MediaActors /\ mediaActor[t].job = t /\ MyAsset(t) = t[1][1] /\ t[1][1] \in Assets
      /\ t[1][2] = "download"
  BY <1>1, TaskForms
<1>3. media \in [Assets -> AssetRows] /\ mediaActor[t].at \in InJob \ {"watching"}
  BY <1>1 DEF MediaTyped, InJob
<1>4. CASE SaveDownload(t)
  <2>1. ActorsTyped' /\ Moved(t) /\ mediaActor'[t].at = "saved" /\ mediaActor'[t].job = t
    BY <1>2, <1>3, <1>4, TaskGoesOn DEF SaveDownload
  <2>2. media' = [media EXCEPT ![t[1][1]] = [download |-> "downloaded", analysis |-> "pending"]]
    BY <1>2, <1>4 DEF SaveDownload
  <2>3. [download |-> "downloaded", analysis |-> "pending"] \in AssetRows
    BY DEF AssetRows
  <2>4. /\ media' \in [Assets -> AssetRows] /\ \A a \in Assets \ {t[1][1]} : media'[a] = media[a]
        /\ media'[t[1][1]] = [download |-> "downloaded", analysis |-> "pending"]
    BY <1>2, <1>3, <2>2, <2>3
  <2> QED BY <1>2, <1>4, <2>1, <2>4 DEF SaveDownload
<1>5. CASE RefuseDownload(t)
  <2>1. ActorsTyped' /\ Moved(t) /\ mediaActor'[t].at = "raised" /\ mediaActor'[t].job = t
    BY <1>2, <1>3, <1>5, TaskGoesOn DEF RefuseDownload
  <2>2. media' = [media EXCEPT ![t[1][1]].download = "failed"]
    BY <1>2, <1>5 DEF RefuseDownload
  <2>3. /\ media' \in [Assets -> AssetRows] /\ \A a \in Assets \ {t[1][1]} : media'[a] = media[a]
        /\ media'[t[1][1]].download = "failed" /\ media'[t[1][1]].analysis = media[t[1][1]].analysis
    BY <1>2, <1>3, <2>2 DEF AssetRows
  <2> QED BY <1>2, <1>5, <2>1, <2>3 DEF RefuseDownload
<1> QED BY <1>4, <1>5

Starts(w, t) ==
    /\ MediaAt(w, "claiming") /\ Present(t[1])
    /\ mediaActor'[w].at = "watching" /\ mediaActor'[w].job = t
    /\ mediaActor'[t].at = "executing" /\ mediaActor'[t].job = t
    /\ \A y \in MediaActors \ {w, t} : mediaActor'[y] = mediaActor[y]

Loses(w) ==
    /\ MediaAt(w, "watching")
    /\ mediaActor'[w] = MediaIdle /\ mediaActor'[mediaActor[w].job] = MediaIdle
    /\ \A y \in MediaActors \ {w, mediaActor[w].job} : mediaActor'[y] = mediaActor[y]

LeavesAlone(w) ==
    /\ MediaAt(w, "watching")
    /\ mediaActor'[w].at = "raised" /\ mediaActor'[w].job = mediaActor[w].job
    /\ MyKey(w) \in mediaLog'.orphaned
    /\ \A y \in MediaActors \ {w} : mediaActor'[y] = mediaActor[y]

Dies(w) == \A x \in MediaActors :
    \/ (x = w \/ mediaActor[x].by = w) /\ mediaActor'[x] = MediaIdle
    \/ x # w /\ mediaActor[x].by # w /\ mediaActor'[x] = mediaActor[x]

Shape == \/ \E x \in MediaActors : Moved(x) \/ Left(x)
         \/ \E w \in MediaWorkers : \/ \E t \in MediaAttempts : Starts(w, t)
                                    \/ Loses(w) \/ LeavesAlone(w) \/ Dies(w)
         \/ UNCHANGED mediaActor

LogGrows == /\ mediaLog' \in MediaHistory
            /\ mediaLog.done \subseteq mediaLog'.done
            /\ mediaLog.orphaned \subseteq mediaLog'.orphaned
            /\ mediaLog.passedOver \subseteq mediaLog'.passedOver
            /\ \A k \in mediaLog'.done \ mediaLog.done : mediaJobs'[k].status = "succeeded"

StepFacts == MediaTyped' /\ (\A k \in MediaKeys : MediaJobStep(k)) /\ LogGrows /\ Shape

LEMMA LogStays == ASSUME MediaTyped, UNCHANGED mediaLog PROVE LogGrows
BY DEF MediaTyped, LogGrows

\* A step that writes no job.
LEMMA JobsUntouched ==
    ASSUME MediaTyped, UNCHANGED mediaJobs
    PROVE  JobsTyped' /\ \A k \in MediaKeys : MediaJobStep(k)
BY JobsStay DEF MediaTyped, JobsTyped, MediaJobStep

\* One that writes one.
LEMMA JobTouched ==
    ASSUME NEW k \in MediaKeys, MediaJobStep(k), \A j \in MediaKeys \ {k} : mediaJobs'[j] = mediaJobs[j]
    PROVE  \A j \in MediaKeys : MediaJobStep(j)
BY DEF MediaJobStep, JobKept

LEMMA TickFacts ==
    ASSUME MediaTyped, NEW w \in MediaWorkers, MediaTick(w) PROVE StepFacts
<1>1. ActorsTyped' /\ Moved(w) /\ w \in MediaActors
  BY TickWrites, AttemptForms
<1>2. UNCHANGED <<media, mediaJobs, mediaCuts>>
  BY DEF MediaTick
<1>3. JobsTyped' /\ \A k \in MediaKeys : MediaJobStep(k)
  BY <1>2, JobsUntouched
<1>4. LogGrows
  <2>1. mediaLog' = [mediaLog EXCEPT !.passedOver = @ \cup (Unfinished \ PendingAssets)] /\ mediaLog \in MediaHistory
    BY DEF MediaTick, MediaTyped
  <2>2. Unfinished \subseteq Assets
    BY Listed
  <2>3. /\ mediaLog'.done = mediaLog.done /\ mediaLog'.orphaned = mediaLog.orphaned
        /\ mediaLog.passedOver \subseteq mediaLog'.passedOver /\ mediaLog' \in MediaHistory
    BY <2>1, <2>2 DEF MediaHistory
  <2> QED BY <2>3 DEF LogGrows
<1> QED BY <1>1, <1>2, <1>3, <1>4 DEF StepFacts, Shape, MediaTyped, JobsTyped, LogGrows

\* The steps that write the actors only, and the verdict.
LEMMA QuietFacts ==
    ASSUME MediaTyped, ActorsTyped', Shape, UNCHANGED <<mediaJobs, mediaLog>>,
           media' \in [Assets -> AssetRows], mediaCuts' \in 0..MaxMediaCuts
    PROVE  StepFacts
BY JobsUntouched, LogStays DEF StepFacts, MediaTyped, JobsTyped

LEMMA CreateFacts ==
    ASSUME MediaTyped, NEW x \in MediaActors, CreateMediaJob(x) PROVE StepFacts
<1>1. PICK k \in MediaKeys :
         /\ ActorsTyped' /\ Moved(x) /\ JobsTyped' /\ (JobMade(k) \/ UNCHANGED mediaJobs)
         /\ \A j \in MediaKeys \ {k} : mediaJobs'[j] = mediaJobs[j]
  BY CreateWrites
<1>2. MediaJobStep(k)
  BY <1>1 DEF MediaJobStep, JobKept
<1>3. \A j \in MediaKeys : MediaJobStep(j)
  BY <1>1, <1>2, JobTouched
<1>4. UNCHANGED <<media, mediaCuts, mediaLog>>
  BY DEF CreateMediaJob
<1>5. LogGrows
  BY <1>4, LogStays
<1> QED BY <1>1, <1>3, <1>4, <1>5 DEF StepFacts, Shape, MediaTyped, JobsTyped

LEMMA ProceedFacts ==
    ASSUME MediaTyped, NEW x \in MediaActors, MediaJobsCreated(x) \/ AssetsSettled(x) PROVE StepFacts
<1>1. /\ mediaActor[x].at \in {"creating", "settling"} /\ Proceed(x)
      /\ UNCHANGED <<media, mediaJobs, mediaCuts, mediaLog>>
  BY DEF MediaJobsCreated, AssetsSettled, MediaAt
<1>2. ActorsTyped' /\ Shape
  BY <1>1, ProceedWrites DEF Shape
<1> QED BY <1>1, <1>2, QuietFacts DEF MediaTyped

LEMMA ClosingFacts ==
    ASSUME MediaTyped, NEW w \in MediaWorkers, Terminalize(w) PROVE StepFacts
<1>1. ActorsTyped' /\ Moved(w) /\ w \in MediaActors
  BY ClosingWrites, AttemptForms
<1>2. JobsTyped
  BY DEF MediaTyped, JobsTyped
<1>3. /\ JobsTyped' /\ \A k \in MediaExhausted : JobClosed(k)
      /\ \A k \in MediaKeys \ MediaExhausted : mediaJobs'[k] = mediaJobs[k]
  BY <1>2, JobsClose
<1>4. \A k \in MediaKeys : MediaJobStep(k)
  BY <1>3 DEF MediaJobStep, JobKept
<1>5. UNCHANGED <<media, mediaCuts, mediaLog>>
  BY DEF Terminalize
<1>6. LogGrows
  BY <1>5, LogStays
<1> QED BY <1>1, <1>3, <1>4, <1>5, <1>6 DEF StepFacts, Shape, MediaTyped, JobsTyped

LEMMA SettleFacts ==
    ASSUME MediaTyped, NEW x \in MediaActors, SettleRead(x) \/ SettleWrite(x) PROVE StepFacts
<1>1. CASE SettleRead(x)
  <2>1. ActorsTyped' /\ Shape
    BY <1>1, SettleReadWrites DEF Shape
  <2>2. UNCHANGED <<media, mediaJobs, mediaCuts, mediaLog>>
    BY <1>1 DEF SettleRead
  <2> QED BY <2>1, <2>2, QuietFacts DEF MediaTyped
<1>2. CASE SettleWrite(x)
  <2>1. ActorsTyped' /\ Shape /\ media' \in [Assets -> AssetRows]
    BY <1>2, SettleWriteWrites DEF Shape
  <2>2. UNCHANGED <<mediaJobs, mediaCuts, mediaLog>>
    BY <1>2 DEF SettleWrite
  <2> QED BY <2>1, <2>2, QuietFacts DEF MediaTyped
<1> QED BY <1>1, <1>2

LEMMA ClaimFacts ==
    ASSUME MediaTyped, NEW w \in MediaWorkers, ClaimMediaJob(w) PROVE StepFacts
<1>1. PICK t \in MediaAttempts :
         /\ t[1] \in MediaKeys /\ ActorsTyped' /\ JobsTyped' /\ JobTaken(t[1]) /\ Present(t[1])
         /\ \A j \in MediaKeys \ {t[1]} : mediaJobs'[j] = mediaJobs[j]
         /\ mediaActor'[w].at = "watching" /\ mediaActor'[w].job = t
         /\ mediaActor'[t].at = "executing" /\ mediaActor'[t].job = t
         /\ \A y \in MediaActors \ {w, t} : mediaActor'[y] = mediaActor[y]
  BY ClaimWrites
<1>2. MediaJobStep(t[1])
  BY <1>1 DEF MediaJobStep
<1>3. \A j \in MediaKeys : MediaJobStep(j)
  BY <1>1, <1>2, JobTouched
<1>4. UNCHANGED <<media, mediaCuts, mediaLog>> /\ MediaAt(w, "claiming")
  BY DEF ClaimMediaJob
<1>5. LogGrows
  BY <1>4, LogStays
<1>6. Shape
  BY <1>1, <1>4 DEF Shape, Starts
<1> QED BY <1>1, <1>3, <1>4, <1>5, <1>6 DEF StepFacts, MediaTyped, JobsTyped

\* A loop rests, in the middle of its claim or with nothing to claim.
LEMMA RestFacts ==
    ASSUME MediaTyped, NEW w \in MediaWorkers, ClaimErrs(w) \/ NothingToClaim(w) PROVE StepFacts
<1>1. MediaAt(w, "claiming") /\ w \in MediaActors /\ w \notin MediaAttempts /\ ~MediaAt(w, "watching")
  BY AttemptForms DEF ClaimErrs, NothingToClaim, MediaAt
<1>2. mediaActor' = [mediaActor EXCEPT ![w] = MediaIdle]
  BY DEF ClaimErrs, NothingToClaim, MediaMoves
<1>3. /\ MediaIdle \in ActorRecords /\ FitsRow(w, MediaIdle)
      /\ MediaIdle.at \notin InJob /\ MediaIdle.at # "watching" /\ MediaIdle.at # "failing"
  BY <1>1, Resting DEF InJob
<1>4. ActorsTyped' /\ Moved(w)
  BY <1>1, <1>2, <1>3, MovesTo
<1>5. Shape
  BY <1>1, <1>4 DEF Shape
<1>6. JobsTyped
  BY DEF MediaTyped, JobsTyped
<1>7. CASE ClaimErrs(w)
  <2>1. PICK k \in MediaKeys : MediaClaimable(k) /\ mediaJobs' = Claimed(k, w)
    BY <1>7 DEF ClaimErrs
  <2>2. JobsTyped' /\ JobTaken(k) /\ \A j \in MediaKeys \ {k} : mediaJobs'[j] = mediaJobs[j]
    BY <1>1, <1>6, <2>1, JobTakes
  <2>3. MediaJobStep(k)
    BY <2>2 DEF MediaJobStep
  <2>4. \A j \in MediaKeys : MediaJobStep(j)
    BY <2>2, <2>3, JobTouched
  <2>5. UNCHANGED <<media, mediaLog>> /\ MediaIsCut
    BY <1>7 DEF ClaimErrs
  <2>6. mediaCuts' \in 0..MaxMediaCuts
    BY <2>5, MediaAssumption DEF MediaIsCut, MediaTyped
  <2>7. LogGrows
    BY <2>5, LogStays
  <2> QED BY <1>4, <1>5, <2>2, <2>4, <2>5, <2>6, <2>7 DEF StepFacts, MediaTyped, JobsTyped
<1>8. CASE NothingToClaim(w)
  <2>1. UNCHANGED <<media, mediaJobs, mediaCuts, mediaLog>>
    BY <1>8 DEF NothingToClaim
  <2> QED BY <1>4, <1>5, <2>1, QuietFacts DEF MediaTyped
<1> QED BY <1>7, <1>8

LEMMA TaskFacts ==
    ASSUME MediaTyped, NEW t \in MediaAttempts, TaskStep(t) PROVE StepFacts
<1>1. t \in MediaActors
  BY AttemptForms
<1>2. CASE Fetch(t)
  <2>1. mediaActor[t].at = "executing" /\ UNCHANGED <<media, mediaJobs, mediaCuts, mediaLog>>
    BY <1>2 DEF Fetch, MediaAt
  <2>2. mediaActor[t].at \in InJob \ {"watching"} /\ t[1][2] = "download"
    BY <1>2, <2>1, TaskForms DEF InJob, Fetch
  <2>3. PICK place \in {"fetched", "refused"} : MediaGoes(t, place)
    BY <1>2 DEF Fetch
  <2>4. ActorsTyped' /\ Moved(t)
    BY <1>1, <2>2, <2>3, TaskGoesOn
  <2> QED BY <1>1, <2>1, <2>4, QuietFacts DEF MediaTyped, Shape
<1>3. CASE SaveDownload(t) \/ RefuseDownload(t)
  <2>1. ActorsTyped' /\ Moved(t) /\ media' \in [Assets -> AssetRows]
    BY <1>3, DownloadWrites
  <2>2. UNCHANGED <<mediaJobs, mediaCuts, mediaLog>>
    BY <1>3 DEF SaveDownload, RefuseDownload
  <2> QED BY <1>1, <2>1, <2>2, QuietFacts DEF MediaTyped, Shape
<1>4. CASE EndDownload(t) \/ EndStage(t)
  <2>1. /\ ActorsTyped' /\ Moved(t) /\ JobsTyped' /\ JobDone(t[1])
        /\ \A j \in MediaKeys \ {t[1]} : mediaJobs'[j] = mediaJobs[j]
        /\ mediaLog'.done = mediaLog.done \cup {t[1]} /\ mediaLog'.orphaned = mediaLog.orphaned
        /\ mediaLog'.passedOver = mediaLog.passedOver /\ mediaLog' \in MediaHistory
        /\ UNCHANGED <<media, mediaCuts>>
    BY <1>4, EndsWrites
  <2>2. MediaJobStep(t[1]) /\ t[1] \in MediaKeys
    BY <2>1, AttemptForms DEF MediaJobStep
  <2>3. \A j \in MediaKeys : MediaJobStep(j)
    BY <2>1, <2>2, JobTouched
  <2>4. LogGrows
    BY <2>1 DEF LogGrows, JobDone
  <2> QED BY <1>1, <2>1, <2>3, <2>4 DEF StepFacts, Shape, MediaTyped, JobsTyped
<1>5. CASE WorkRaises(t)
  <2>1. /\ ~MediaAt(t, "watching") /\ ~MediaAt(t, "idle") /\ MediaLeaves(t, "raised")
        /\ UNCHANGED <<media, mediaJobs, mediaCuts, mediaLog>>
    BY <1>5 DEF WorkRaises, MediaAt
  <2>2. ActorsTyped' /\ Left(t)
    BY <1>1, <2>1, Leaves
  <2> QED BY <1>1, <2>1, <2>2, QuietFacts DEF MediaTyped, Shape
<1> QED BY <1>2, <1>3, <1>4, <1>5 DEF TaskStep

LEMMA FailFacts ==
    ASSUME MediaTyped, NEW x \in MediaActors, MediaFailRead(x) \/ FailMediaJob(x) PROVE StepFacts
<1>1. CASE MediaFailRead(x)
  <2>1. ActorsTyped' /\ Shape
    BY <1>1, FailReadWrites DEF Shape
  <2>2. UNCHANGED <<media, mediaJobs, mediaCuts, mediaLog>>
    BY <1>1 DEF MediaFailRead
  <2> QED BY <2>1, <2>2, QuietFacts DEF MediaTyped
<1>2. CASE FailMediaJob(x)
  <2>1. PICK k \in MediaKeys :
           /\ ActorsTyped' /\ Moved(x) /\ JobsTyped' /\ JobFailed(k)
           /\ \A j \in MediaKeys \ {k} : mediaJobs'[j] = mediaJobs[j]
    BY <1>2, FailWrites
  <2>2. MediaJobStep(k)
    BY <2>1 DEF MediaJobStep
  <2>3. \A j \in MediaKeys : MediaJobStep(j)
    BY <2>1, <2>2, JobTouched
  <2>4. UNCHANGED <<media, mediaCuts, mediaLog>>
    BY <1>2 DEF FailMediaJob
  <2>5. LogGrows
    BY <2>4, LogStays
  <2> QED BY <2>1, <2>3, <2>4, <2>5 DEF StepFacts, Shape, MediaTyped, JobsTyped
<1> QED BY <1>1, <1>2

LEMMA WatcherForms ==
    ASSUME MediaTyped, NEW w \in MediaWorkers, MediaAt(w, "watching")
    PROVE  /\ w \in MediaActors /\ w \notin MediaAttempts
           /\ mediaActor[w].job \in MediaAttempts /\ mediaActor[w].job \in MediaActors
           /\ MyKey(w) \in MediaKeys /\ MyKey(w) = mediaActor[w].job[1]
<1>1. w \in MediaActors /\ w \notin MediaAttempts
  BY AttemptForms
<1>2. mediaActor[w].job \in MediaAttempts
  BY <1>1, ActorForm DEF FitsRow, InJob, MediaAt
<1> QED BY <1>1, <1>2, AttemptForms DEF MyKey

LEMMA RefreshFacts ==
    ASSUME MediaTyped, NEW w \in MediaWorkers, RefreshMediaLease(w) PROVE StepFacts
<1>1. /\ MyKey(w) \in MediaKeys /\ UNCHANGED <<media, mediaActor, mediaCuts, mediaLog>>
      /\ mediaJobs' = [mediaJobs EXCEPT ![MyKey(w)].ripe = FALSE]
  BY WatcherForms DEF RefreshMediaLease
<1>2. JobsTyped' /\ \A k \in MediaKeys : MediaJobStep(k)
  BY <1>1, JobTimed DEF MediaTyped, JobsTyped, MediaJobStep
<1> QED BY <1>1, <1>2, ActorsStay, LogStays DEF StepFacts, Shape, MediaTyped, JobsTyped

LEMMA LoseFacts ==
    ASSUME MediaTyped, NEW w \in MediaWorkers, LoseMediaLease(w) PROVE StepFacts
<1>1. MediaAt(w, "watching") /\ MediaIsCut /\ UNCHANGED <<media, mediaJobs, mediaLog>>
  BY DEF LoseMediaLease
<1>2. PICK t : t = mediaActor[w].job
  OBVIOUS
<1>3. mediaActor' = [mediaActor EXCEPT ![w] = MediaIdle, ![t] = MediaIdle]
  BY <1>2 DEF LoseMediaLease
<1>4. w \in MediaActors /\ t \in MediaActors /\ w # t
  BY <1>1, <1>2, WatcherForms
<1>5. /\ mediaActor'[w] = MediaIdle /\ mediaActor'[t] = MediaIdle
      /\ \A y \in MediaActors \ {w, t} : mediaActor'[y] = mediaActor[y]
      /\ mediaActor' \in [MediaActors -> ActorRecords]
  BY <1>3, <1>4, Resting DEF MediaTyped, ActorsTyped
<1>6. \A y \in MediaActors : FitsRow(y, mediaActor'[y])
  BY <1>5, Resting, ActorForm
<1>7. ActorsTyped' /\ Shape
  BY <1>1, <1>2, <1>5, <1>6 DEF ActorsTyped, Shape, Loses
<1>8. mediaCuts' \in 0..MaxMediaCuts
  BY <1>1, MediaAssumption DEF MediaIsCut, MediaTyped
<1> QED BY <1>1, <1>7, <1>8, QuietFacts DEF MediaTyped

LEMMA HeartbeatFacts ==
    ASSUME MediaTyped, NEW w \in MediaWorkers, HeartbeatRaises(w) PROVE StepFacts
<1>1. MediaAt(w, "watching") /\ MediaIsCut /\ UNCHANGED <<media, mediaJobs>>
  BY DEF HeartbeatRaises
<1>2. w \in MediaActors /\ w \notin MediaAttempts /\ MyKey(w) \in MediaKeys
  BY <1>1, WatcherForms
<1>3. mediaActor[w] \in ActorRecords /\ FitsRow(w, mediaActor[w])
  BY <1>2, ActorForm
<1>4. PICK row : row = [mediaActor[w] EXCEPT !.at = "raised"]
  OBVIOUS
<1>5. /\ row \in ActorRecords /\ row.at = "raised" /\ row.job = mediaActor[w].job
      /\ row.then = mediaActor[w].then
  BY <1>3, <1>4 DEF ActorRecords, MediaPlaces
<1>6. FitsRow(w, row)
  BY <1>1, <1>2, <1>3, <1>5 DEF FitsRow, InJob, MediaAt
<1>7. mediaActor' = [mediaActor EXCEPT ![w] = row]
  BY <1>4 DEF HeartbeatRaises, MediaGoes
<1>8. /\ mediaActor'[w] = row /\ mediaActor' \in [MediaActors -> ActorRecords]
      /\ \A y \in MediaActors \ {w} : mediaActor'[y] = mediaActor[y]
  BY <1>2, <1>5, <1>7 DEF MediaTyped, ActorsTyped
<1>9. \A y \in MediaActors : FitsRow(y, mediaActor'[y])
  BY <1>6, <1>8, ActorForm
<1>10. ActorsTyped'
  BY <1>8, <1>9 DEF ActorsTyped
<1>11. mediaLog' = [mediaLog EXCEPT !.orphaned = @ \cup {MyKey(w)}] /\ mediaLog \in MediaHistory
  BY DEF HeartbeatRaises, MediaTyped
<1>12. /\ mediaLog'.done = mediaLog.done /\ mediaLog'.passedOver = mediaLog.passedOver
       /\ mediaLog'.orphaned = mediaLog.orphaned \cup {MyKey(w)} /\ mediaLog' \in MediaHistory
  BY <1>2, <1>11 DEF MediaHistory
<1>13. LogGrows /\ Shape
  BY <1>1, <1>5, <1>8, <1>12 DEF LogGrows, Shape, LeavesAlone
<1>14. mediaCuts' \in 0..MaxMediaCuts
  BY <1>1, MediaAssumption DEF MediaIsCut, MediaTyped
<1> QED BY <1>1, <1>10, <1>12, <1>13, <1>14, JobsUntouched DEF StepFacts, MediaTyped, JobsTyped

LEMMA ErrFacts ==
    ASSUME MediaTyped, NEW x \in MediaActors, MediaErrs(x) PROVE StepFacts
<1>1. /\ ~MediaAt(x, "watching") /\ ~MediaAt(x, "idle") /\ MediaIsCut /\ MediaLeaves(x, "raised")
      /\ UNCHANGED <<media, mediaJobs, mediaLog>>
  BY DEF MediaErrs, MediaAt
<1>2. ActorsTyped' /\ Shape
  BY <1>1, Leaves DEF Shape
<1>3. mediaCuts' \in 0..MaxMediaCuts
  BY <1>1, MediaAssumption DEF MediaIsCut, MediaTyped
<1> QED BY <1>1, <1>2, <1>3, QuietFacts DEF MediaTyped

LEMMA KillFacts ==
    ASSUME MediaTyped, NEW w \in MediaWorkers, KillMediaWorker(w) PROVE StepFacts
<1>1. /\ MediaIsCut /\ UNCHANGED <<media, mediaJobs, mediaLog>>
      /\ mediaActor' = [x \in MediaActors |->
           IF x = w \/ mediaActor[x].by = w THEN MediaIdle ELSE mediaActor[x]]
  BY DEF KillMediaWorker
<1>2. \A x \in MediaActors : mediaActor'[x] = MediaIdle \/ mediaActor'[x] = mediaActor[x]
  BY <1>1
<1>3. Dies(w)
  BY <1>1 DEF Dies
<1>4. mediaActor' \in [MediaActors -> ActorRecords]
  BY <1>1, <1>2, Resting, ActorForm
<1>5. \A x \in MediaActors : FitsRow(x, mediaActor'[x])
  BY <1>2, Resting, ActorForm
<1>6. ActorsTyped' /\ Shape
  BY <1>3, <1>4, <1>5 DEF ActorsTyped, Shape
<1>7. mediaCuts' \in 0..MaxMediaCuts
  BY <1>1, MediaAssumption DEF MediaIsCut, MediaTyped
<1> QED BY <1>1, <1>6, <1>7, QuietFacts DEF MediaTyped

LEMMA OutsideFacts ==
    ASSUME MediaTyped, NEW k \in MediaKeys, MediaRipens(k) \/ BackfillMedia(k) PROVE StepFacts
<1>1. JobsTyped
  BY DEF MediaTyped, JobsTyped
<1>2. UNCHANGED <<media, mediaActor, mediaCuts, mediaLog>>
  BY DEF MediaRipens, BackfillMedia
<1>3. JobsTyped' /\ \A j \in MediaKeys : MediaJobStep(j)
  <2>1. CASE MediaRipens(k)
    <3>1. mediaJobs' = [mediaJobs EXCEPT ![k].ripe = TRUE]
      BY <2>1 DEF MediaRipens
    <3> QED BY <1>1, <3>1, JobTimed DEF MediaJobStep
  <2>2. CASE BackfillMedia(k)
    <3>1. mediaJobs' = [mediaJobs EXCEPT ![k].status = "pending"] /\ mediaJobs[k].status = "absent"
      BY <2>2 DEF BackfillMedia
    <3>2. JobsTyped' /\ JobMade(k) /\ \A j \in MediaKeys \ {k} : mediaJobs'[j] = mediaJobs[j]
      BY <1>1, <3>1, JobMakes
    <3>3. MediaJobStep(k)
      BY <3>2 DEF MediaJobStep
    <3> QED BY <3>2, <3>3, JobTouched
  <2> QED BY <2>1, <2>2
<1> QED BY <1>2, <1>3, ActorsStay, LogStays DEF StepFacts, Shape, MediaTyped, JobsTyped

LEMMA MediaStepFacts == ASSUME MediaTyped, [MediaNext]_mediaVars PROVE StepFacts
<1>1. ASSUME NEW w \in MediaWorkers, LoopStep(w) PROVE StepFacts
  BY <1>1, TickFacts, ClosingFacts, ClaimFacts, RestFacts DEF LoopStep
<1>2. ASSUME NEW w \in MediaWorkers, RefreshMediaLease(w) \/ LoseMediaLease(w) \/ HeartbeatRaises(w)
                                     \/ ClaimErrs(w) \/ KillMediaWorker(w)
      PROVE  StepFacts
  BY <1>2, RefreshFacts, LoseFacts, HeartbeatFacts, RestFacts, KillFacts
<1>3. ASSUME NEW x \in MediaActors, SharedStep(x) \/ MediaErrs(x) PROVE StepFacts
  BY <1>3, CreateFacts, ProceedFacts, SettleFacts, FailFacts, ErrFacts DEF SharedStep
<1>4. CASE UNCHANGED mediaVars
  <2>1. UNCHANGED <<media, mediaJobs, mediaActor, mediaCuts, mediaLog>>
    BY <1>4 DEF mediaVars
  <2> QED BY <2>1, ActorsStay, QuietFacts DEF Shape, MediaTyped
<1> QED BY <1>1, <1>2, <1>3, <1>4, TaskFacts, OutsideFacts DEF MediaNext

LEMMA MediaTypedStart == MediaInit => MediaTyped
<1> SUFFICES ASSUME MediaInit PROVE MediaTyped
  OBVIOUS
<1>1. media \in [Assets -> AssetRows]
  <2>1. PICK registered \in SUBSET Assets :
           media = [a \in Assets |->
              IF a \in registered THEN [download |-> "not_downloaded", analysis |-> "pending"]
                                  ELSE [download |-> "absent", analysis |-> "absent"]]
    BY DEF MediaInit
  <2> QED BY <2>1 DEF AssetRows
<1>2. mediaJobs \in [MediaKeys -> MediaRows]
  <2>1. NoMediaRow \in MediaRows
    BY MediaAssumption DEF NoMediaRow, MediaRows
  <2> QED BY <2>1 DEF MediaInit
<1>3. ActorsTyped
  BY Resting DEF MediaInit, ActorsTyped
<1>4. mediaCuts \in 0..MaxMediaCuts /\ mediaLog \in MediaHistory
  BY MediaAssumption DEF MediaInit, MediaHistory
<1> QED BY <1>1, <1>2, <1>3, <1>4 DEF MediaTyped

LEMMA TypedIsTypeOK == MediaTyped => MediaTypeOK
<1> SUFFICES ASSUME MediaTyped PROVE MediaTypeOK
  OBVIOUS
<1>1. \A x \in MediaActors : mediaActor[x] \in ActorRecords
  BY ActorForm
<1> QED BY <1>1 DEF MediaTyped, MediaTypeOK, ActorRecords, AssetRows

\* Every row of the pipeline, and all a loop or a task knows, is of its kind.
LEMMA MediaTypes == MediaInit /\ [][MediaNext]_mediaVars => []MediaTypeOK
<1>1. MediaTyped /\ [MediaNext]_mediaVars => MediaTyped'
  BY MediaStepFacts DEF StepFacts
<1> QED BY <1>1, MediaTypedStart, TypedIsTypeOK, PTL

-----------------------------------------------------------------------------
(* Attempts *)

\* Who comes to fail a job has just read its attempt.
LEMMA WhoFails ==
    ASSUME MediaTyped, StepFacts, NEW x \in MediaActors, mediaActor'[x].at = "failing"
    PROVE  \/ mediaActor'[x] = mediaActor[x]
           \/ /\ mediaActor'[x].job = mediaActor[x].job
              /\ mediaActor'[x].seen = mediaJobs[MyKey(x)].attempt /\ UNCHANGED mediaJobs
<1>1. MediaIdle.at = "idle"
  BY Resting
<1>2. ASSUME NEW y \in MediaActors, Moved(y) \/ Left(y)
      PROVE  \/ mediaActor'[x] = mediaActor[x]
             \/ /\ mediaActor'[x].job = mediaActor[x].job
                /\ mediaActor'[x].seen = mediaJobs[MyKey(x)].attempt /\ UNCHANGED mediaJobs
  BY <1>1, <1>2 DEF Moved, Left, Hears, InJob
<1>3. ASSUME NEW w \in MediaWorkers,
             Loses(w) \/ LeavesAlone(w) \/ Dies(w) \/ \E t \in MediaAttempts : Starts(w, t)
      PROVE  mediaActor'[x] = mediaActor[x]
  BY <1>1, <1>3 DEF Starts, Loses, LeavesAlone, Dies
<1> QED BY <1>2, <1>3 DEF StepFacts, Shape

\* A failure is written by an attempt number that the job has reached.
MediaTryInv ==
    /\ MediaTyped
    /\ \A x \in MediaActors : MediaAt(x, "failing") => mediaActor[x].seen <= mediaJobs[MyKey(x)].attempt
    /\ \A k \in MediaKeys : mediaJobs[k].status = "failed_terminal" => mediaJobs[k].attempt = MediaTries

LEMMA NothingYet ==
    ASSUME MediaInit
    PROVE  /\ \A x \in MediaActors : mediaActor[x].at = "idle"
           /\ \A k \in MediaKeys : mediaJobs[k].status = "absent" /\ mediaJobs[k].attempt = 0
           /\ mediaLog.done = {} /\ mediaLog.orphaned = {} /\ mediaLog.passedOver = {}
BY DEF MediaInit, MediaIdle, NoMediaRow

LEMMA TriesGrow ==
    ASSUME MediaTyped, StepFacts, NEW k \in MediaKeys
    PROVE  /\ mediaJobs[k].attempt \in 0..MediaTries /\ mediaJobs'[k].attempt \in 0..MediaTries
           /\ mediaJobs[k].attempt <= mediaJobs'[k].attempt
           /\ JobTaken(k) \/ mediaJobs'[k].attempt = mediaJobs[k].attempt
<1>1. mediaJobs[k].attempt \in 0..MediaTries
  BY MediaStatuses DEF MediaTyped, JobsTyped
<1>2. mediaJobs'[k].attempt \in 0..MediaTries
  BY DEF StepFacts, MediaTyped, MediaRows
<1>3. MediaJobStep(k)
  BY DEF StepFacts
<1>4. JobTaken(k) \/ mediaJobs'[k].attempt = mediaJobs[k].attempt
  BY <1>3 DEF MediaJobStep, JobKept, JobMade, JobDone, JobClosed, JobFailed
<1>5. JobTaken(k) => mediaJobs'[k].attempt = mediaJobs[k].attempt + 1
  BY DEF JobTaken
<1> QED BY <1>1, <1>2, <1>4, <1>5, MediaAssumption

LEMMA FailerForms ==
    ASSUME MediaTyped, NEW x \in MediaActors, MediaAt(x, "failing")
    PROVE  MyKey(x) \in MediaKeys /\ mediaActor[x].seen \in 0..MediaTries /\ mediaActor[x].job \in MediaAttempts
<1>1. mediaActor[x] \in ActorRecords /\ mediaActor[x].job \in MediaAttempts
  BY ActorForm DEF FitsRow, InJob, MediaAt
<1> QED BY <1>1, AttemptForms DEF MyKey, ActorRecords

LEMMA MediaTriesAfter == ASSUME MediaTryInv, [MediaNext]_mediaVars PROVE MediaTryInv'
<1>1. MediaTyped /\ StepFacts /\ MediaTyped'
  BY MediaStepFacts DEF MediaTryInv, StepFacts
<1>2. ASSUME NEW x \in MediaActors, mediaActor'[x].at = "failing"
      PROVE  mediaActor'[x].seen <= mediaJobs'[mediaActor'[x].job[1]].attempt
  <2>1. CASE mediaActor'[x] = mediaActor[x]
    <3>1. MediaAt(x, "failing")
      BY <1>2, <2>1 DEF MediaAt
    <3>2. MyKey(x) \in MediaKeys /\ mediaActor[x].seen \in 0..MediaTries
      BY <1>1, <3>1, FailerForms
    <3>3. mediaActor[x].seen <= mediaJobs[MyKey(x)].attempt
      BY <3>1 DEF MediaTryInv
    <3>4. /\ mediaJobs[MyKey(x)].attempt \in 0..MediaTries /\ mediaJobs'[MyKey(x)].attempt \in 0..MediaTries
          /\ mediaJobs[MyKey(x)].attempt <= mediaJobs'[MyKey(x)].attempt
      BY <1>1, <3>2, TriesGrow
    <3>5. mediaActor[x].seen <= mediaJobs'[MyKey(x)].attempt
      BY <3>2, <3>3, <3>4, MediaAssumption
    <3> QED BY <2>1, <3>5 DEF MyKey
  <2>2. CASE /\ mediaActor'[x].job = mediaActor[x].job /\ UNCHANGED mediaJobs
             /\ mediaActor'[x].seen = mediaJobs[MyKey(x)].attempt
    <3>1. mediaActor'[x].job \in MediaAttempts
      BY <1>1, <1>2 DEF MediaTyped, ActorsTyped, FitsRow, InJob
    <3>2. MyKey(x) \in MediaKeys
      BY <2>2, <3>1, AttemptForms DEF MyKey
    <3>3. mediaJobs[MyKey(x)].attempt \in 0..MediaTries
      BY <1>1, <3>2, TriesGrow
    <3>4. mediaJobs'[mediaActor'[x].job[1]].attempt = mediaJobs[MyKey(x)].attempt
      BY <2>2 DEF MyKey
    <3> QED BY <2>2, <3>3, <3>4, MediaAssumption
  <2> QED BY <1>1, <1>2, <2>1, <2>2, WhoFails
<1>3. ASSUME NEW k \in MediaKeys, mediaJobs'[k].status = "failed_terminal"
      PROVE  mediaJobs'[k].attempt = MediaTries
  <2>1. mediaJobs[k].attempt \in 0..MediaTries /\ mediaJobs'[k].attempt \in 0..MediaTries
    BY <1>1, TriesGrow
  <2>2. MediaJobStep(k)
    BY <1>1 DEF StepFacts
  <2>3. CASE JobKept(k)
    BY <1>3, <2>3 DEF JobKept, MediaTryInv
  <2>4. CASE JobClosed(k)
    BY <2>1, <2>4, MediaAssumption DEF JobClosed
  <2>5. CASE JobFailed(k)
    <3>1. PICK x \in MediaActors : /\ MediaAt(x, "failing") /\ MyKey(x) = k
                                   /\ mediaJobs'[k].attempt = mediaJobs[k].attempt
                                   /\ mediaActor[x].seen >= MediaTries
      BY <1>3, <2>5 DEF JobFailed
    <3>2. mediaActor[x].seen <= mediaJobs[k].attempt /\ mediaActor[x].seen \in 0..MediaTries
      BY <1>1, <3>1, FailerForms DEF MediaTryInv
    <3> QED BY <2>1, <3>1, <3>2, MediaAssumption
  <2> QED BY <1>3, <2>2, <2>3, <2>4, <2>5 DEF MediaJobStep, JobMade, JobTaken, JobDone
<1> QED BY <1>1, <1>2, <1>3 DEF MediaTryInv, MediaAt, MyKey

\* No asset loses a stage before its time: a media job is given up only after
\* all of its attempts, although update_job does not ask whose job it is, a
\* task may be left behind by its worker, and there may be any number of
\* processes (_fail_job, terminalize_expired_jobs).
THEOREM MediaJobsGetAllTheirTries ==
    MediaSpec => [](\A k \in MediaKeys : mediaJobs[k].status = "failed_terminal" => mediaJobs[k].attempt = MediaTries)
<1>1. MediaTryInv => \A k \in MediaKeys : mediaJobs[k].status = "failed_terminal" => mediaJobs[k].attempt = MediaTries
  BY DEF MediaTryInv
<1>2. MediaInit => MediaTryInv
  BY NothingYet, MediaTypedStart DEF MediaTryInv, MediaAt
<1> QED BY <1>1, <1>2, MediaTriesAfter, PTL DEF MediaSpec

-----------------------------------------------------------------------------
(* One worker: a task is either watched by it or was left alone by it *)

Watched(t) == t[1] \in mediaLog.orphaned \/ \E w \in MediaWorkers : Watches(w, t)

WatchInv ==
    /\ MediaTyped
    /\ \A x \in MediaActors : mediaActor[x].at \in InJob => Present(MyKey(x))
    /\ \A t \in MediaAttempts : mediaActor[t].at # "idle" => Watched(t)

LEMMA PresentStays ==
    ASSUME StepFacts, NEW k \in MediaKeys, Present(k) PROVE Present(k)'
<1>1. MediaJobStep(k)
  BY DEF StepFacts
<1> QED BY <1>1 DEF MediaJobStep, JobKept, JobMade, JobTaken, JobDone, JobClosed, JobFailed, Present

\* A job in hand stays in hand: it has been created.
LEMMA HeldAfter ==
    ASSUME WatchInv, StepFacts, NEW x \in MediaActors, mediaActor'[x].at \in InJob
    PROVE  Present(MyKey(x))'
<1>1. MediaIdle.at \notin InJob
  BY Resting DEF InJob
<1>2. ASSUME mediaActor[x].at \in InJob, mediaActor'[x].job = mediaActor[x].job PROVE Present(MyKey(x))'
  <2>3. mediaActor[x].job \in MediaAttempts
    BY <1>2, ActorForm DEF WatchInv, FitsRow
  <2>1. MyKey(x) \in MediaKeys /\ Present(MyKey(x))
    <3>1. MyKey(x) \in MediaKeys
      BY <2>3, AttemptForms DEF MyKey
    <3> QED BY <1>2, <3>1 DEF WatchInv
  <2>2. PICK k \in MediaKeys : k = MyKey(x)
    BY <2>1
  <2>4. Present(k)'
    BY <2>1, <2>2, PresentStays
  <2> QED BY <1>2, <2>2, <2>4 DEF MyKey, Present
<1>3. ASSUME NEW y \in MediaActors, Moved(y) PROVE Present(MyKey(x))'
  <2>1. mediaActor[x].at \in InJob /\ mediaActor'[x].job = mediaActor[x].job
    BY <1>3 DEF Moved
  <2> QED BY <1>2, <2>1
<1>4. ASSUME NEW y \in MediaActors, Left(y) PROVE Present(MyKey(x))'
  <2>1. x # y
    BY <1>1, <1>4 DEF Left
  <2>2. CASE mediaActor'[x] = mediaActor[x]
    BY <1>2, <2>2
  <2>3. CASE Hears(x, y)
    <3>1. mediaActor[x].at = "watching" /\ mediaActor[x].job = y /\ mediaActor'[x].at # "idle"
      BY <2>3 DEF Hears, Watches, MediaAt, InJob
    <3>2. mediaActor[x].at \in InJob /\ mediaActor'[x].job = mediaActor[x].job
      BY <2>3, <3>1 DEF Hears, InJob
    <3> QED BY <1>2, <3>2
  <2> QED BY <1>4, <2>1, <2>2, <2>3 DEF Left
<1>5. ASSUME NEW w \in MediaWorkers, NEW t \in MediaAttempts, Starts(w, t) PROVE Present(MyKey(x))'
  <2>1. CASE x \in {w, t}
    <3>1. Present(t[1]) /\ t[1] \in MediaKeys /\ mediaActor'[x].job = t
      BY <1>5, <2>1, AttemptForms DEF Starts
    <3>2. Present(t[1])'
      BY <3>1, PresentStays
    <3> QED BY <3>1, <3>2 DEF MyKey, Present
  <2>2. CASE x \notin {w, t}
    BY <1>2, <1>5, <2>2 DEF Starts
  <2> QED BY <2>1, <2>2
<1>6. ASSUME NEW w \in MediaWorkers, Loses(w) \/ LeavesAlone(w) \/ Dies(w) PROVE Present(MyKey(x))'
  <2>1. mediaActor[x].at \in InJob /\ mediaActor'[x].job = mediaActor[x].job
    BY <1>1, <1>6 DEF Loses, LeavesAlone, Dies, MediaAt, InJob
  <2> QED BY <1>2, <2>1
<1>7. CASE UNCHANGED mediaActor
  BY <1>2, <1>7
<1> QED BY <1>3, <1>4, <1>5, <1>6, <1>7 DEF StepFacts, Shape

LEMMA WatchedAfter ==
    ASSUME OneWorker, WatchInv, StepFacts, NEW t \in MediaAttempts, mediaActor'[t].at # "idle"
    PROVE  Watched(t)'
<1>1. /\ MediaIdle.at = "idle" /\ t \in MediaActors /\ t \notin MediaWorkers /\ MediaTyped
      /\ MediaWorkers \subseteq MediaActors
      /\ \A v, w \in MediaWorkers : v = w
  BY Resting, AttemptForms DEF OneWorker, WatchInv
<1>2. mediaLog.orphaned \subseteq mediaLog'.orphaned
  BY DEF StepFacts, LogGrows
<1>3. mediaActor[t].at # "idle" => Watched(t)
  BY DEF WatchInv
<1>4. mediaActor[t].at # "watching"
  BY <1>1, ActorForm DEF FitsRow
<1>5. ASSUME mediaActor[t].at # "idle",
             \A w \in MediaWorkers : Watches(w, t) => mediaActor'[w] = mediaActor[w]
      PROVE  Watched(t)'
  BY <1>2, <1>3, <1>5 DEF Watched, Watches, MediaAt
<1>6. ASSUME NEW y \in MediaActors, Moved(y) PROVE Watched(t)'
  BY <1>1, <1>5, <1>6 DEF Moved, Watches, MediaAt
<1>7. ASSUME NEW y \in MediaActors, Left(y) PROVE Watched(t)'
  <2>1. t # y
    BY <1>1, <1>7 DEF Left
  <2>4. ~Hears(t, y)
    BY <1>4 DEF Hears, Watches, MediaAt
  <2>2. mediaActor'[t] = mediaActor[t]
    BY <1>1, <1>7, <2>1, <2>4 DEF Left
  <2>3. ASSUME NEW w \in MediaWorkers, Watches(w, t) PROVE mediaActor'[w] = mediaActor[w]
    <3>1. w # y
      BY <1>7, <2>3 DEF Left, Watches
    <3>2. ~Hears(w, y)
      BY <2>1, <2>3 DEF Hears, Watches
    <3> QED BY <1>1, <1>7, <3>1, <3>2 DEF Left
  <2> QED BY <1>5, <2>2, <2>3
<1>8. ASSUME NEW w \in MediaWorkers, NEW u \in MediaAttempts, Starts(w, u) PROVE Watched(t)'
  <2>1. CASE t = u
    BY <1>8, <2>1 DEF Starts, Watched, Watches, MediaAt
  <2>2. CASE t # u
    <3>1. t # w /\ mediaActor'[t] = mediaActor[t]
      BY <1>1, <1>8, <2>2 DEF Starts
    <3>2. \A v \in MediaWorkers : ~Watches(v, t)
      BY <1>1, <1>8 DEF Starts, Watches, MediaAt
    <3> QED BY <1>5, <3>1, <3>2
  <2> QED BY <2>1, <2>2
<1>9. ASSUME NEW w \in MediaWorkers, Loses(w) PROVE Watched(t)'
  <2>1. t # w /\ t # mediaActor[w].job /\ mediaActor'[t] = mediaActor[t]
    BY <1>1, <1>9 DEF Loses
  <2>2. \A v \in MediaWorkers : ~Watches(v, t)
    BY <1>1, <2>1 DEF Watches
  <2> QED BY <1>5, <2>1, <2>2
<1>10. ASSUME NEW w \in MediaWorkers, LeavesAlone(w) PROVE Watched(t)'
  <2>1. mediaActor'[t] = mediaActor[t] /\ Watched(t)
    BY <1>1, <1>3, <1>10 DEF LeavesAlone
  <2>2. CASE Watches(w, t)
    BY <1>10, <2>2 DEF LeavesAlone, Watches, MyKey, Watched
  <2>3. CASE ~Watches(w, t)
    BY <1>1, <1>2, <2>1, <2>3 DEF Watched
  <2> QED BY <2>2, <2>3
<1>11. ASSUME NEW w \in MediaWorkers, Dies(w) PROVE Watched(t)'
  <2>1. mediaActor[t].by # w /\ mediaActor[t].at # "idle"
    BY <1>1, <1>11 DEF Dies
  <2>2. mediaActor[t].by \in MediaWorkers
    BY <1>1, <2>1, TaskForms
  <2> QED BY <1>1, <2>1, <2>2
<1>12. CASE UNCHANGED mediaActor
  BY <1>5, <1>12
<1> QED BY <1>6, <1>7, <1>8, <1>9, <1>10, <1>11, <1>12 DEF StepFacts, Shape

LEMMA WatchAfter == ASSUME OneWorker, WatchInv, [MediaNext]_mediaVars PROVE WatchInv' /\ StepFacts
<1>1. StepFacts
  BY MediaStepFacts DEF WatchInv
<1>2. \A x \in MediaActors : mediaActor'[x].at \in InJob => Present(MyKey(x))'
  BY <1>1, HeldAfter
<1>3. \A t \in MediaAttempts : mediaActor'[t].at # "idle" => Watched(t)'
  BY <1>1, WatchedAfter
<1> QED BY <1>1, <1>2, <1>3 DEF WatchInv, StepFacts

LEMMA WatchAtFirst == ASSUME MediaInit PROVE WatchInv
<1>1. \A t \in MediaAttempts : t \in MediaActors
  BY AttemptForms
<1> QED BY <1>1, NothingYet, MediaTypedStart DEF WatchInv, InJob

\* One worker knows the attempts of the job it fails, and so does its task,
\* so that a job which they leave to wait has an attempt left.
MediaRetryInv ==
    /\ WatchInv
    /\ \A x \in MediaActors : MediaAt(x, "failing") /\ MyKey(x) \notin mediaLog.orphaned
           => mediaActor[x].seen = mediaJobs[MyKey(x)].attempt
    /\ \A k \in MediaKeys : mediaJobs[k].status \in {"absent", "pending"} => mediaJobs[k].attempt = 0
    /\ \A k \in MediaKeys \ mediaLog.orphaned :
           mediaJobs[k].status = "failed" => mediaJobs[k].attempt < MediaTries

\* Nobody claims a job that somebody who is not an orphan is about to fail.
LEMMA NotTaken ==
    ASSUME OneWorker, WatchInv, NEW x \in MediaActors, MediaAt(x, "failing"),
           MyKey(x) \notin mediaLog.orphaned, NEW w \in MediaWorkers
    PROVE  ~MediaAt(w, "claiming")
<1>1. CASE x \in MediaWorkers
  BY <1>1 DEF OneWorker, MediaAt
<1>2. CASE x \in MediaAttempts
  <2>1. mediaActor[x].at # "idle"
    BY DEF MediaAt
  <2>2. MyKey(x) = x[1] /\ Watched(x)
    BY <1>2, <2>1, TaskForms DEF WatchInv
  <2>3. PICK v \in MediaWorkers : Watches(v, x)
    BY <2>2 DEF Watched
  <2>4. v = w
    BY DEF OneWorker
  <2> QED BY <2>3, <2>4 DEF Watches, MediaAt
<1> QED BY <1>1, <1>2, AttemptForms

LEMMA MediaRetriesAfter == ASSUME OneWorker, MediaRetryInv, [MediaNext]_mediaVars PROVE MediaRetryInv'
<1>1. WatchInv /\ MediaTyped /\ WatchInv' /\ StepFacts /\ MediaTyped'
  BY WatchAfter DEF MediaRetryInv, WatchInv
<1>2. mediaLog.orphaned \subseteq mediaLog'.orphaned
  BY <1>1 DEF StepFacts, LogGrows
<1>3. ASSUME NEW x \in MediaActors, mediaActor'[x].at = "failing",
             mediaActor'[x].job[1] \notin mediaLog'.orphaned
      PROVE  mediaActor'[x].seen = mediaJobs'[mediaActor'[x].job[1]].attempt
  <2>1. CASE mediaActor'[x] = mediaActor[x]
    <3>1. MediaAt(x, "failing") /\ MyKey(x) = mediaActor'[x].job[1]
      BY <1>3, <2>1 DEF MediaAt, MyKey
    <3>2. MyKey(x) \in MediaKeys /\ MyKey(x) \notin mediaLog.orphaned
      BY <1>1, <1>2, <1>3, <3>1, FailerForms
    <3>3. mediaActor[x].seen = mediaJobs[MyKey(x)].attempt
      BY <3>1, <3>2 DEF MediaRetryInv
    <3>4. ~JobTaken(MyKey(x))
      BY <1>1, <3>1, <3>2, NotTaken DEF JobTaken
    <3>5. mediaJobs'[MyKey(x)].attempt = mediaJobs[MyKey(x)].attempt
      BY <1>1, <3>2, <3>4, TriesGrow
    <3> QED BY <2>1, <3>1, <3>3, <3>5
  <2>2. CASE /\ mediaActor'[x].job = mediaActor[x].job /\ UNCHANGED mediaJobs
             /\ mediaActor'[x].seen = mediaJobs[MyKey(x)].attempt
    BY <2>2 DEF MyKey
  <2> QED BY <1>1, <1>3, <2>1, <2>2, WhoFails
<1>4. ASSUME NEW k \in MediaKeys
      PROVE  /\ mediaJobs'[k].status \in {"absent", "pending"} => mediaJobs'[k].attempt = 0
             /\ k \notin mediaLog'.orphaned /\ mediaJobs'[k].status = "failed" => mediaJobs'[k].attempt < MediaTries
  <2>1. MediaJobStep(k)
    BY <1>1 DEF StepFacts
  <2>2. mediaJobs'[k].status \in {"absent", "pending"} => mediaJobs'[k].attempt = 0
    BY <2>1 DEF MediaJobStep, JobKept, JobMade, JobTaken, JobDone, JobClosed, JobFailed, MediaRetryInv
  <2>3. ASSUME k \notin mediaLog'.orphaned, mediaJobs'[k].status = "failed"
        PROVE  mediaJobs'[k].attempt < MediaTries
    <3>1. CASE JobKept(k)
      BY <1>2, <2>3, <3>1 DEF JobKept, MediaRetryInv
    <3>2. CASE JobFailed(k)
      <4>1. PICK x \in MediaActors : /\ MediaAt(x, "failing") /\ MyKey(x) = k
                                     /\ mediaJobs'[k].attempt = mediaJobs[k].attempt
                                     /\ mediaActor[x].seen < MediaTries
        BY <2>3, <3>2 DEF JobFailed
      <4>2. mediaActor[x].seen = mediaJobs[k].attempt
        BY <1>2, <2>3, <4>1 DEF MediaRetryInv
      <4> QED BY <4>1, <4>2
    <3> QED BY <2>1, <2>3, <3>1, <3>2 DEF MediaJobStep, JobMade, JobTaken, JobDone, JobClosed
  <2> QED BY <2>2, <2>3
<1> QED BY <1>1, <1>3, <1>4 DEF MediaRetryInv, MediaAt, MyKey

\* What MediaEnds needs of the safety of the table: with one worker, however
\* often it is cut short, no job waits for a retry that claim_job refuses,
\* unless a task of it was left alone by a heartbeat that raised.
THEOREM MediaJobsAreNeverStuck == ASSUME OneWorker PROVE MediaSpec => []NoMediaJobIsStuck
<1>1. MediaRetryInv => NoMediaJobIsStuck
  BY MediaAssumption DEF MediaRetryInv, NoMediaJobIsStuck
<1>2. MediaInit => MediaRetryInv
  BY NothingYet, WatchAtFirst DEF MediaRetryInv, MediaAt
<1> QED BY <1>1, <1>2, MediaRetriesAfter, PTL DEF MediaSpec

-----------------------------------------------------------------------------
(* One worker: a verdict is about a whole asset *)

AllThere(a) == \A k \in KeysOf(a) : Present(k)
GivenUp(a) == \E k \in KeysOf(a) : mediaJobs[k].status = "failed_terminal"
Started(a) == media[a].download = "downloaded" \/ \E k \in StageKeys(a) : Present(k)

\* What a tick has achieved once it has created the jobs that were missing.
Whole(a) == Started(a) => AllThere(a)

\* The assets that FinishedIsWhole speaks of.
Good(a) == a \notin mediaLog.passedOver /\ \A k \in mediaLog.orphaned : k[1] # a

AssetOK(a) ==
    /\ media[a].download # "downloaded" => Whole(a)
    /\ media[a].analysis = "succeeded" => KeysOf(a) \subseteq mediaLog.done

CreatingOK(row, a) == row.at = "creating" =>
    /\ (\E k \in StageKeys(a) : k \in row.todo) => media[a].download = "downloaded"
    /\ row.then # "idle" /\ Started(a) => \A k \in KeysOf(a) : Present(k) \/ k \in row.todo

SettlingOK(row, a) == row.at \in {"settling", "verdict"} =>
    /\ a \in row.settle => AllThere(a) \/ GivenUp(a)
    /\ row.then # "idle" => Whole(a)
    /\ row.at = "verdict" /\ row.judged = <<a, "succeeded">> => KeysOf(a) \subseteq mediaLog.done

WorkingOK(row, a) ==
    /\ row.at \in {"closing", "claiming"} => Whole(a)
    /\ row.at \in {"executing", "fetched", "refused"} /\ row.job[1][1] = a => Whole(a)
    /\ row.at = "saved" /\ row.job[1][1] = a => media[a].download = "downloaded"

ActorOK(x, a) == /\ CreatingOK(mediaActor[x], a) /\ SettlingOK(mediaActor[x], a)
                 /\ WorkingOK(mediaActor[x], a)

GoodOK(a) == AssetOK(a) /\ \A x \in MediaActors : ActorOK(x, a)

WholeInv ==
    /\ WatchInv
    /\ \A k \in MediaKeys : /\ mediaJobs[k].status = "succeeded" => k \in mediaLog.done
                            /\ k \in mediaLog.done => Present(k)
    /\ \A a \in Assets : media[a].download = "downloaded" =>
           media[a].analysis # "absent" /\ Present(<<a, "download">>)
    /\ \A a \in Assets : Good(a) => GoodOK(a)

LEMMA GoodBefore == ASSUME StepFacts, NEW a, Good(a)' PROVE Good(a)
BY DEF StepFacts, LogGrows, Good

LEMMA DoneAfter ==
    ASSUME WholeInv, StepFacts, NEW k \in MediaKeys
    PROVE  /\ mediaJobs'[k].status = "succeeded" => k \in mediaLog'.done
           /\ k \in mediaLog'.done => Present(k)'
           /\ k \in mediaLog.done => k \in mediaLog'.done
<1>1. MediaJobStep(k) /\ mediaLog.done \subseteq mediaLog'.done
  BY DEF StepFacts, LogGrows
<1>2. mediaJobs'[k].status = "succeeded" => k \in mediaLog'.done
  BY <1>1 DEF MediaJobStep, JobKept, JobMade, JobTaken, JobDone, JobClosed, JobFailed, WholeInv
<1>3. k \in mediaLog'.done => Present(k)'
  <2>1. CASE k \in mediaLog.done
    BY <2>1, PresentStays DEF WholeInv
  <2>2. CASE k \notin mediaLog.done
    BY <2>2 DEF StepFacts, LogGrows, Present
  <2> QED BY <2>1, <2>2
<1> QED BY <1>1, <1>2, <1>3

\* A step after which the asset is as far as it was.
CalmJobs(a) ==
    /\ media'[a].download = media[a].download
    /\ \A k \in StageKeys(a) : Present(k)' => Present(k) \/ media[a].download = "downloaded"

Calm(a) == CalmJobs(a) /\ (GivenUp(a) => GivenUp(a)')

LEMMA CalmAsset ==
    ASSUME WholeInv, StepFacts, NEW a \in Assets, CalmJobs(a)
    PROVE  /\ Started(a)' => Started(a)
           /\ AllThere(a) => AllThere(a)'
           /\ Whole(a) => Whole(a)'
           /\ KeysOf(a) \subseteq mediaLog.done => KeysOf(a) \subseteq mediaLog'.done
           /\ AssetOK(a) /\ media'[a].analysis = media[a].analysis => AssetOK(a)'
<1>1. KeysOf(a) \subseteq MediaKeys /\ StageKeys(a) \subseteq KeysOf(a)
  BY StageForms
<1>2. Started(a)' => Started(a)
  BY DEF Started, CalmJobs
<1>3. AllThere(a) => AllThere(a)'
  BY <1>1, PresentStays DEF AllThere
<1>4. KeysOf(a) \subseteq mediaLog.done => KeysOf(a) \subseteq mediaLog'.done
  BY DEF StepFacts, LogGrows
<1>5. Whole(a) => Whole(a)'
  BY <1>2, <1>3 DEF Whole
<1>6. AssetOK(a) /\ media'[a].analysis = media[a].analysis => AssetOK(a)'
  BY <1>4, <1>5 DEF AssetOK, CalmJobs
<1> QED BY <1>2, <1>3, <1>4, <1>5, <1>6

LEMMA CalmActor ==
    ASSUME WholeInv, StepFacts, NEW a \in Assets, Calm(a), NEW x \in MediaActors, ActorOK(x, a),
           mediaActor'[x] = mediaActor[x]
    PROVE  ActorOK(x, a)'
<1>1. CalmJobs(a) /\ KeysOf(a) \subseteq MediaKeys
  BY StageForms DEF Calm
<1>2. /\ Started(a)' => Started(a)
      /\ AllThere(a) => AllThere(a)'
      /\ Whole(a) => Whole(a)'
      /\ KeysOf(a) \subseteq mediaLog.done => KeysOf(a) \subseteq mediaLog'.done
      /\ media'[a].download = media[a].download
      /\ GivenUp(a) => GivenUp(a)'
      /\ \A k \in KeysOf(a) : Present(k) => Present(k)'
  BY <1>1, CalmAsset, PresentStays DEF Calm, CalmJobs
<1>3. CreatingOK(mediaActor[x], a)'
  BY <1>2 DEF ActorOK, CreatingOK
<1>4. SettlingOK(mediaActor[x], a)'
  BY <1>2 DEF ActorOK, SettlingOK
<1>5. WorkingOK(mediaActor[x], a)'
  BY <1>2 DEF ActorOK, WorkingOK
<1> QED BY <1>3, <1>4, <1>5 DEF ActorOK

\* Who has nothing to do with the asset.
LEMMA IdleOK ==
    ASSUME MediaTyped', NEW a \in Assets, NEW x \in MediaActors,
           \/ mediaActor'[x].at \in {"idle", "watching", "raised", "failing"}
           \/ x \in MediaAttempts /\ x[1][1] # a
    PROVE  ActorOK(x, a)'
<1>1. mediaActor'[x] \in ActorRecords /\ FitsRow(x, mediaActor'[x])
  BY DEF MediaTyped, ActorsTyped
<1>2. CASE mediaActor'[x].at \in {"idle", "watching", "raised", "failing"}
  BY <1>2 DEF ActorOK, CreatingOK, SettlingOK, WorkingOK
<1>3. CASE x \in MediaAttempts /\ x[1][1] # a
  <2>1. \A k \in StageKeys(a) : k \notin mediaActor'[x].todo
    BY <1>1, <1>3, KeyForms DEF FitsRow, KeysOf
  <2>2. /\ a \notin mediaActor'[x].settle /\ mediaActor'[x].then = "idle"
        /\ mediaActor'[x].at \notin {"closing", "claiming"}
        /\ mediaActor'[x].at # "idle" => mediaActor'[x].job[1][1] # a
    BY <1>1, <1>3 DEF FitsRow
  <2>3. mediaActor'[x].at = "verdict" => mediaActor'[x].judged # <<a, "succeeded">>
    BY <1>1, <1>3 DEF FitsRow
  <2>4. CreatingOK(mediaActor[x], a)'
    BY <2>1, <2>2 DEF CreatingOK
  <2>5. SettlingOK(mediaActor[x], a)'
    BY <2>2, <2>3 DEF SettlingOK
  <2>6. WorkingOK(mediaActor[x], a)'
    BY <2>2 DEF WorkingOK
  <2> QED BY <2>4, <2>5, <2>6 DEF ActorOK
<1> QED BY <1>2, <1>3

Elsewhere(x, a) == x \in MediaAttempts /\ x[1][1] # a

\* While the worker, or a task of the asset, does something else than watching,
\* everybody else leaves a good asset alone.
LEMMA Aside ==
    ASSUME OneWorker, WatchInv, NEW a \in Assets, Good(a), NEW x \in MediaActors,
           ~MediaAt(x, "watching"), ~Elsewhere(x, a), x \in MediaAttempts => ~MediaAt(x, "idle"),
           NEW y \in MediaActors, y # x
    PROVE  mediaActor[y].at \in {"idle", "watching"} \/ Elsewhere(y, a)
<1> SUFFICES ASSUME mediaActor[y].at # "idle", ~Elsewhere(y, a) PROVE mediaActor[y].at = "watching"
  OBVIOUS
<1>1. ASSUME NEW t \in MediaAttempts, mediaActor[t].at # "idle", ~Elsewhere(t, a)
      PROVE  \E w \in MediaWorkers : Watches(w, t)
  <2>1. Watched(t) /\ t[1][1] = a /\ t[1] \notin mediaLog.orphaned
    BY <1>1 DEF WatchInv, Elsewhere, Good
  <2> QED BY <2>1 DEF Watched
<1>2. CASE x \in MediaWorkers /\ y \in MediaWorkers
  BY <1>2 DEF OneWorker
<1>3. CASE x \in MediaWorkers /\ y \in MediaAttempts
  <2>1. PICK w \in MediaWorkers : Watches(w, y)
    BY <1>1, <1>3
  <2>2. w = x
    BY <1>3 DEF OneWorker
  <2> QED BY <2>1, <2>2 DEF Watches
<1>4. CASE x \in MediaAttempts
  <2>1. PICK w \in MediaWorkers : Watches(w, x)
    BY <1>1, <1>4 DEF MediaAt
  <2>2. CASE y \in MediaWorkers
    <3>1. w = y
      BY <2>2 DEF OneWorker
    <3> QED BY <2>1, <3>1 DEF Watches, MediaAt
  <2>3. CASE y \in MediaAttempts
    <3>1. PICK v \in MediaWorkers : Watches(v, y)
      BY <1>1, <2>3
    <3>2. v = w
      BY DEF OneWorker
    <3> QED BY <2>1, <3>1, <3>2 DEF Watches
  <2> QED BY <2>2, <2>3, AttemptForms
<1> QED BY <1>2, <1>3, <1>4, AttemptForms

Untouched(a) == media'[a] = media[a] /\ \A k \in KeysOf(a) : JobKept(k)

LEMMA UntouchedIsCalm ==
    ASSUME NEW a \in Assets, Untouched(a) PROVE Calm(a) /\ media'[a].analysis = media[a].analysis
<1>1. StageKeys(a) \subseteq KeysOf(a)
  BY StageForms
<1> QED BY <1>1 DEF Untouched, JobKept, Calm, CalmJobs, Present, GivenUp

\* The rest of the actors, when one moves or leaves.
LEMMA RestOK ==
    ASSUME OneWorker, WholeInv, StepFacts, NEW a \in Assets, Good(a), NEW x \in MediaActors,
           Moved(x) \/ Left(x), Elsewhere(x, a) => Untouched(a), NEW y \in MediaActors, y # x
    PROVE  ActorOK(y, a)'
<1>1. MediaTyped' /\ WatchInv /\ ActorOK(y, a)
  BY DEF StepFacts, WholeInv, GoodOK
<1>2. mediaActor'[y] = mediaActor[y] \/ mediaActor'[y].at \in {"idle", "raised"}
  BY DEF Moved, Left, Hears
<1>3. CASE mediaActor'[y].at \in {"idle", "raised"}
  BY <1>1, <1>3, IdleOK
<1>4. CASE mediaActor'[y] = mediaActor[y]
  <2>1. CASE Elsewhere(x, a)
    BY <1>1, <1>4, <2>1, UntouchedIsCalm, CalmActor
  <2>2. CASE ~Elsewhere(x, a)
    <3>1. ~MediaAt(x, "watching") /\ (x \in MediaAttempts => ~MediaAt(x, "idle"))
      BY DEF Moved, Left
    <3>2. mediaActor[y].at \in {"idle", "watching"} \/ Elsewhere(y, a)
      BY <1>1, <2>2, <3>1, Aside
    <3> QED BY <1>1, <1>4, <3>2, IdleOK DEF Elsewhere
  <2> QED BY <2>1, <2>2
<1> QED BY <1>2, <1>3, <1>4

\* A step of somebody who has to do with the asset ...
LEMMA Here ==
    ASSUME OneWorker, WholeInv, StepFacts, NEW a \in Assets, Good(a), NEW x \in MediaActors,
           Moved(x) \/ Left(x), ~Elsewhere(x, a), ActorOK(x, a)', AssetOK(a)'
    PROVE  GoodOK(a)'
<1>1. \A y \in MediaActors : y # x => ActorOK(y, a)'
  BY RestOK
<1> QED BY <1>1 DEF GoodOK

\* ... and of somebody who has not.
LEMMA There ==
    ASSUME OneWorker, WholeInv, StepFacts, NEW a \in Assets, Good(a), NEW x \in MediaActors,
           Moved(x) \/ Left(x), Elsewhere(x, a), Untouched(a)
    PROVE  GoodOK(a)'
<1>1. \A y \in MediaActors : y # x => ActorOK(y, a)'
  BY RestOK
<1>2. ActorOK(x, a)'
  BY IdleOK DEF StepFacts, Elsewhere
<1>3. AssetOK(a)'
  BY UntouchedIsCalm, CalmAsset DEF Calm, WholeInv, GoodOK
<1> QED BY <1>1, <1>2, <1>3 DEF GoodOK

\* A step in which nobody goes on with his work.
LEMMA CalmStep ==
    ASSUME WholeInv, StepFacts, NEW a \in Assets, Good(a), Calm(a),
           media'[a].analysis = media[a].analysis,
           \A x \in MediaActors : mediaActor'[x] = mediaActor[x] \/ mediaActor'[x].at \in {"idle", "raised"}
    PROVE  GoodOK(a)'
<1>1. GoodOK(a) /\ MediaTyped'
  BY DEF WholeInv, StepFacts
<1>2. ASSUME NEW x \in MediaActors PROVE ActorOK(x, a)'
  BY <1>1, CalmActor, IdleOK DEF GoodOK
<1>3. AssetOK(a)'
  BY <1>1, CalmAsset DEF GoodOK, Calm
<1> QED BY <1>2, <1>3 DEF GoodOK

LEMMA StillIsCalm ==
    ASSUME NEW a \in Assets, UNCHANGED mediaJobs, media'[a].download = media[a].download
    PROVE  Calm(a)
BY DEF Calm, CalmJobs, Present, GivenUp

-----------------------------------------------------------------------------
(* The steps of the worker, and of the task of a good asset *)

LEMMA TickOK ==
    ASSUME OneWorker, WholeInv, StepFacts, NEW a \in Assets, Good(a), Good(a)',
           NEW w \in MediaWorkers, MediaTick(w)
    PROVE  GoodOK(a)'
<1>1. MediaTyped /\ AssetOK(a) /\ w \in MediaActors /\ w \notin MediaAttempts
  BY AttemptForms DEF WholeInv, WatchInv, GoodOK
<1>2. /\ Moved(w) /\ mediaActor'[w].at = "creating"
      /\ mediaActor'[w].todo = MissingKeys(PendingAssets) /\ mediaActor'[w].then = "closing"
  BY <1>1, TickWrites
<1>3. UNCHANGED <<media, mediaJobs>> /\ a \notin Unfinished \ PendingAssets
  <2>1. mediaLog' = [mediaLog EXCEPT !.passedOver = @ \cup (Unfinished \ PendingAssets)] /\ mediaLog \in MediaHistory
    BY <1>1 DEF MediaTick, MediaTyped
  <2>2. mediaLog'.passedOver = mediaLog.passedOver \cup (Unfinished \ PendingAssets)
    BY <2>1 DEF MediaHistory
  <2> QED BY <2>2 DEF MediaTick, Good
<1>4. AssetOK(a)'
  BY <1>1, <1>3, StillIsCalm, CalmAsset DEF Calm
<1>5. ASSUME NEW k \in StageKeys(a), k \in MissingKeys(PendingAssets)
      PROVE  media[a].download = "downloaded"
  <2>1. PICK b \in PendingAssets :
            k \in (IF media[b].download = "downloaded" THEN StageKeys(b) ELSE {<<b, "download">>})
    BY <1>5 DEF MissingKeys
  <2>2. b \in Assets /\ k[1] = a /\ k[2] # "download"
    BY <1>5, Listed, KeyForms
  <2>3. CASE media[b].download = "downloaded"
    BY <2>1, <2>2, <2>3, KeyForms
  <2>4. CASE media[b].download # "downloaded"
    BY <2>1, <2>2, <2>4
  <2> QED BY <2>3, <2>4
<1>6. ASSUME Started(a), NEW k \in KeysOf(a) PROVE Present(k) \/ k \in MissingKeys(PendingAssets)
  <2>1. CASE media[a].download # "downloaded"
    BY <1>1, <1>6, <2>1 DEF AssetOK, Whole, AllThere
  <2>2. CASE media[a].download = "downloaded"
    <3>1. Present(<<a, "download">>) /\ media[a].analysis \in {"pending", "partial", "succeeded"}
      BY <1>1, <2>2 DEF WholeInv, MediaTyped, AssetRows
    <3>2. CASE media[a].analysis = "succeeded"
      <4>1. k \in MediaKeys /\ k \in mediaLog.done
        BY <1>1, <3>2, StageForms DEF AssetOK
      <4> QED BY <4>1 DEF WholeInv
    <3>3. CASE media[a].analysis # "succeeded"
      <4>1. a \in PendingAssets
        BY <1>3, <2>2, <3>1, <3>3 DEF Unfinished
      <4>2. k = <<a, "download">> \/ k \in StageKeys(a)
        BY KeyForms
      <4>3. k \in StageKeys(a) => k \in MissingKeys(PendingAssets)
        BY <2>2, <4>1 DEF MissingKeys
      <4> QED BY <3>1, <4>2, <4>3
    <3> QED BY <3>2, <3>3
  <2> QED BY <2>1, <2>2
<1>7. CreatingOK(mediaActor[w], a)'
  BY <1>2, <1>3, <1>5, <1>6 DEF CreatingOK, Started, Present
<1>8. ActorOK(w, a)'
  BY <1>2, <1>7 DEF ActorOK, SettlingOK, WorkingOK
<1> QED BY <1>1, <1>2, <1>4, <1>8, Here DEF Elsewhere

LEMMA CreateOK ==
    ASSUME OneWorker, WholeInv, StepFacts, NEW a \in Assets, Good(a),
           NEW x \in MediaActors, ~Elsewhere(x, a), CreateMediaJob(x)
    PROVE  GoodOK(a)'
<1>1. MediaTyped /\ AssetOK(a) /\ ActorOK(x, a) /\ mediaActor[x].at = "creating"
  BY DEF WholeInv, WatchInv, GoodOK, CreateMediaJob, MediaAt
<1>2. PICK k \in mediaActor[x].todo :
         /\ k \in MediaKeys /\ Moved(x)
         /\ mediaActor'[x].at = "creating" /\ mediaActor'[x].todo = mediaActor[x].todo \ {k}
         /\ mediaActor'[x].then = mediaActor[x].then
         /\ JobMade(k) \/ (UNCHANGED mediaJobs /\ Present(k))
         /\ \A j \in MediaKeys \ {k} : mediaJobs'[j] = mediaJobs[j]
  BY <1>1, CreateWrites
<1>3. UNCHANGED media /\ CreatingOK(mediaActor[x], a)
  BY <1>1 DEF CreateMediaJob, ActorOK
<1>4. KeysOf(a) \subseteq MediaKeys /\ StageKeys(a) \subseteq KeysOf(a)
  BY StageForms
<1>5. CalmJobs(a)
  <2>1. ASSUME NEW j \in StageKeys(a), Present(j)' PROVE Present(j) \/ media[a].download = "downloaded"
    <3>1. CASE j = k
      BY <1>1, <1>2, <1>3, <3>1 DEF CreatingOK
    <3>2. CASE j # k
      BY <1>2, <1>4, <2>1, <3>2 DEF Present
    <3> QED BY <3>1, <3>2
  <2> QED BY <1>3, <2>1 DEF CalmJobs
<1>6. AssetOK(a)' /\ (Started(a)' => Started(a))
  BY <1>1, <1>3, <1>5, CalmAsset
<1>7. Present(k)'
  BY <1>2 DEF JobMade, Present
<1>8. ASSUME mediaActor[x].then # "idle", Started(a)', NEW j \in KeysOf(a)
      PROVE  Present(j)' \/ j \in mediaActor'[x].todo
  <2>1. Present(j) \/ j \in mediaActor[x].todo
    BY <1>1, <1>3, <1>6, <1>8 DEF CreatingOK
  <2>2. Present(j) => Present(j)'
    BY <1>4, PresentStays
  <2> QED BY <1>2, <1>7, <2>1, <2>2
<1>9. CreatingOK(mediaActor[x], a)'
  BY <1>1, <1>2, <1>3, <1>8 DEF CreatingOK
<1>10. ActorOK(x, a)'
  BY <1>2, <1>9 DEF ActorOK, SettlingOK, WorkingOK
<1> QED BY <1>2, <1>6, <1>10, Here

LEMMA ProceedOK ==
    ASSUME OneWorker, WholeInv, StepFacts, NEW a \in Assets, Good(a),
           NEW x \in MediaActors, ~Elsewhere(x, a), MediaJobsCreated(x) \/ AssetsSettled(x)
    PROVE  GoodOK(a)'
<1>1. MediaTyped /\ MediaTyped' /\ AssetOK(a) /\ ActorOK(x, a) /\ MediaIdle.at = "idle"
  BY Resting DEF WholeInv, WatchInv, GoodOK, StepFacts
<1>2. /\ mediaActor[x].at \in {"creating", "settling"} /\ Proceed(x) /\ UNCHANGED <<media, mediaJobs>>
      /\ mediaActor[x].at = "creating" => mediaActor[x].todo = {}
  BY DEF MediaJobsCreated, AssetsSettled, MediaAt
<1>3. /\ AssetOK(a)' /\ (Whole(a) => Whole(a)')
  BY <1>1, <1>2, StillIsCalm, CalmAsset DEF Calm
<1>4. CASE Left(x)
  <2>1. ActorOK(x, a)'
    BY <1>1, <1>4, IdleOK DEF Left
  <2> QED BY <1>3, <1>4, <2>1, Here
<1>5. CASE /\ Moved(x) /\ mediaActor[x].then \in {"closing", "claiming"}
           /\ mediaActor'[x].at = mediaActor[x].then
  <2>1. Whole(a)
    BY <1>1, <1>2, <1>5 DEF ActorOK, CreatingOK, SettlingOK, Whole, AllThere
  <2>2. ActorOK(x, a)'
    BY <1>3, <1>5, <2>1 DEF ActorOK, CreatingOK, SettlingOK, WorkingOK
  <2> QED BY <1>3, <1>5, <2>2, Here
<1> QED BY <1>1, <1>2, <1>4, <1>5, ProceedWrites

LEMMA ClosingOK ==
    ASSUME OneWorker, WholeInv, StepFacts, NEW a \in Assets, Good(a),
           NEW w \in MediaWorkers, Terminalize(w)
    PROVE  GoodOK(a)'
<1>1. /\ MediaTyped /\ AssetOK(a) /\ w \in MediaActors /\ w \notin MediaAttempts
      /\ ActorOK(w, a) /\ mediaActor[w].at = "closing" /\ JobsTyped
  BY AttemptForms DEF WholeInv, WatchInv, GoodOK, Terminalize, MediaAt, MediaTyped, JobsTyped
<1>2. /\ Moved(w) /\ mediaActor'[w].at = "settling" /\ mediaActor'[w].then = "claiming"
      /\ mediaActor'[w].settle = {k[1] : k \in MediaExhausted}
  BY <1>1, ClosingWrites
<1>3. /\ \A k \in MediaExhausted : JobClosed(k)
      /\ \A k \in MediaKeys \ MediaExhausted : mediaJobs'[k] = mediaJobs[k]
  BY <1>1, JobsClose
<1>4. UNCHANGED media /\ Whole(a)
  BY <1>1 DEF Terminalize, ActorOK, WorkingOK
<1>5. KeysOf(a) \subseteq MediaKeys /\ StageKeys(a) \subseteq KeysOf(a)
  BY StageForms
<1>6. CalmJobs(a)
  BY <1>3, <1>4, <1>5 DEF CalmJobs, JobClosed, Present
<1>7. AssetOK(a)' /\ Whole(a)'
  BY <1>1, <1>4, <1>6, CalmAsset
<1>8. a \in mediaActor'[w].settle => GivenUp(a)'
  <2>1. ASSUME a \in mediaActor'[w].settle PROVE GivenUp(a)'
    <3>1. PICK k \in MediaExhausted : k[1] = a
      BY <1>2, <2>1
    <3>2. k \in KeysOf(a) /\ mediaJobs'[k].status = "failed_terminal"
      BY <1>3, <3>1 DEF MediaExhausted, KeysOf, JobClosed
    <3> QED BY <3>2 DEF GivenUp
  <2> QED BY <2>1
<1>9. ActorOK(w, a)'
  BY <1>2, <1>7, <1>8 DEF ActorOK, CreatingOK, SettlingOK, WorkingOK
<1> QED BY <1>1, <1>2, <1>7, <1>9, Here DEF Elsewhere

LEMMA SettleReadOK ==
    ASSUME OneWorker, WholeInv, StepFacts, NEW a \in Assets, Good(a),
           NEW x \in MediaActors, ~Elsewhere(x, a), SettleRead(x)
    PROVE  GoodOK(a)'
<1>1. MediaTyped /\ JobsTyped /\ AssetOK(a) /\ SettlingOK(mediaActor[x], a) /\ mediaActor[x].at = "settling"
  BY DEF WholeInv, WatchInv, GoodOK, ActorOK, SettleRead, MediaAt, MediaTyped, JobsTyped
<1>2. /\ Moved(x)
      /\ mediaActor'[x].settle \subseteq mediaActor[x].settle
      /\ mediaActor'[x].then = mediaActor[x].then
      /\ \/ mediaActor'[x].at = "settling"
         \/ /\ mediaActor'[x].at = "verdict"
            /\ \E b \in mediaActor[x].settle :
                   Verdict(b) # "none" /\ mediaActor'[x].judged = <<b, Verdict(b)>>
  BY <1>1, SettleReadWrites
<1>3. UNCHANGED <<media, mediaJobs>>
  BY DEF SettleRead
<1>4. Calm(a) /\ CalmJobs(a)
  BY <1>3, StillIsCalm DEF Calm
<1>5. /\ AssetOK(a)' /\ (Whole(a) => Whole(a)') /\ (AllThere(a) => AllThere(a)')
      /\ (KeysOf(a) \subseteq mediaLog.done => KeysOf(a) \subseteq mediaLog'.done)
  BY <1>1, <1>3, <1>4, CalmAsset
<1>6. ASSUME mediaActor'[x].at = "verdict", mediaActor'[x].judged = <<a, "succeeded">>
      PROVE  KeysOf(a) \subseteq mediaLog.done
  <2>1. a \in mediaActor[x].settle /\ Verdict(a) = "succeeded"
    BY <1>2, <1>6
  <2>2. StatusesOf(a) \cap {"pending", "running", "failed", "failed_terminal"} = {}
    BY <2>1 DEF Verdict
  <2>3. ASSUME NEW k \in KeysOf(a) PROVE k \in mediaLog.done
    <3>1. k \in MediaKeys /\ mediaJobs[k].status \in StatusesOf(a)
      BY StageForms DEF KeysOf, StatusesOf
    <3>2. mediaJobs[k].status \in {"absent", "succeeded"}
      BY <1>1, <2>2, <3>1, MediaStatuses
    <3>3. ~GivenUp(a)
      <4>1. \A j \in KeysOf(a) : mediaJobs[j].status \in StatusesOf(a)
        BY DEF KeysOf, StatusesOf
      <4> QED BY <2>2, <4>1 DEF GivenUp
    <3>4. Present(k)
      BY <1>1, <2>1, <3>3 DEF SettlingOK, AllThere
    <3> QED BY <3>1, <3>2, <3>4 DEF WholeInv, Present
  <2> QED BY <2>3
<1>7. SettlingOK(mediaActor[x], a)'
  BY <1>1, <1>2, <1>4, <1>5, <1>6 DEF SettlingOK, Calm
<1>8. ActorOK(x, a)'
  BY <1>2, <1>7 DEF ActorOK, CreatingOK, WorkingOK
<1> QED BY <1>2, <1>5, <1>8, Here

LEMMA SettleWriteOK ==
    ASSUME OneWorker, WholeInv, StepFacts, NEW a \in Assets, Good(a),
           NEW x \in MediaActors, ~Elsewhere(x, a), SettleWrite(x)
    PROVE  GoodOK(a)'
<1>1. MediaTyped /\ AssetOK(a) /\ SettlingOK(mediaActor[x], a) /\ mediaActor[x].at = "verdict"
  BY DEF WholeInv, WatchInv, GoodOK, ActorOK, SettleWrite, MediaAt
<1>2. /\ Moved(x)
      /\ mediaActor'[x].at = "settling" /\ mediaActor'[x].settle = mediaActor[x].settle
      /\ mediaActor'[x].then = mediaActor[x].then
      /\ mediaActor[x].judged \in Assets \X {"partial", "succeeded"}
      /\ media'[mediaActor[x].judged[1]].analysis = mediaActor[x].judged[2]
      /\ \A b \in Assets : /\ media'[b].download = media[b].download
                           /\ b # mediaActor[x].judged[1] => media'[b] = media[b]
  BY <1>1, SettleWriteWrites
<1>3. UNCHANGED mediaJobs
  BY DEF SettleWrite
<1>4. Calm(a) /\ CalmJobs(a)
  BY <1>2, <1>3, StillIsCalm DEF Calm
<1>5. /\ (Whole(a) => Whole(a)') /\ (AllThere(a) => AllThere(a)')
      /\ (KeysOf(a) \subseteq mediaLog.done => KeysOf(a) \subseteq mediaLog'.done)
      /\ (AssetOK(a) /\ media'[a].analysis = media[a].analysis => AssetOK(a)')
  BY <1>4, CalmAsset
<1>6. AssetOK(a)'
  <2>1. CASE mediaActor[x].judged[1] = a
    <3>1. media'[a].analysis = "succeeded" => KeysOf(a) \subseteq mediaLog.done
      BY <1>1, <1>2, <2>1 DEF SettlingOK
    <3>2. media'[a].download = media[a].download
      BY <1>2
    <3> QED BY <1>1, <1>5, <3>1, <3>2 DEF AssetOK
  <2>2. CASE mediaActor[x].judged[1] # a
    <3>1. media'[a] = media[a]
      BY <1>2, <2>2
    <3> QED BY <1>1, <1>5, <3>1
  <2> QED BY <2>1, <2>2
<1>7. SettlingOK(mediaActor[x], a)'
  BY <1>1, <1>2, <1>4, <1>5 DEF SettlingOK, Calm
<1>8. ActorOK(x, a)'
  BY <1>2, <1>7 DEF ActorOK, CreatingOK, WorkingOK
<1> QED BY <1>2, <1>6, <1>8, Here

LEMMA FewerStages ==
    ASSUME NEW a \in Assets, media'[a].download = media[a].download,
           \A k \in KeysOf(a) : Present(k)' => Present(k)
    PROVE  CalmJobs(a)
BY StageForms DEF CalmJobs

LEMMA ClaimOK ==
    ASSUME OneWorker, WholeInv, StepFacts, NEW a \in Assets, Good(a),
           NEW w \in MediaWorkers, ClaimMediaJob(w)
    PROVE  GoodOK(a)'
<1>1. /\ MediaTyped /\ MediaTyped' /\ WatchInv /\ AssetOK(a) /\ w \in MediaActors /\ w \notin MediaAttempts
      /\ ActorOK(w, a) /\ mediaActor[w].at = "claiming" /\ UNCHANGED <<media, mediaLog>>
  BY AttemptForms DEF WholeInv, WatchInv, GoodOK, ClaimMediaJob, MediaAt, StepFacts
<1>2. PICK t \in MediaAttempts :
         /\ t[1] \in MediaKeys /\ JobTaken(t[1]) /\ Present(t[1])
         /\ \A j \in MediaKeys \ {t[1]} : mediaJobs'[j] = mediaJobs[j]
         /\ mediaActor'[w].at = "watching"
         /\ mediaActor'[t].at = "executing" /\ mediaActor'[t].job = t
         /\ \A y \in MediaActors \ {w, t} : mediaActor'[y] = mediaActor[y]
  BY <1>1, ClaimWrites
<1>3. CalmJobs(a)
  <2>1. ASSUME NEW k \in KeysOf(a), Present(k)' PROVE Present(k)
    BY <1>2, <2>1, StageForms DEF Present
  <2> QED BY <1>1, <2>1, FewerStages
<1>4. AssetOK(a)' /\ Whole(a)'
  <2>1. Whole(a)
    BY <1>1 DEF ActorOK, WorkingOK
  <2> QED BY <1>1, <1>3, <2>1, CalmAsset
<1>5. t \in MediaActors
  BY AttemptForms
<1>6. ActorOK(w, a)'
  BY <1>1, <1>2, IdleOK
<1>7. ActorOK(t, a)'
  BY <1>2, <1>4, <1>5 DEF ActorOK, CreatingOK, SettlingOK, WorkingOK
<1>8. ASSUME NEW y \in MediaActors, y \notin {w, t} PROVE ActorOK(y, a)'
  <2>1. mediaActor[y].at \in {"idle", "watching"} \/ Elsewhere(y, a)
    BY <1>1, <1>8, Aside DEF MediaAt, Elsewhere
  <2> QED BY <1>1, <1>2, <1>8, <2>1, IdleOK DEF Elsewhere
<1> QED BY <1>4, <1>6, <1>7, <1>8 DEF GoodOK

LEMMA FetchOK ==
    ASSUME OneWorker, WholeInv, StepFacts, NEW a \in Assets, Good(a),
           NEW t \in MediaAttempts, ~Elsewhere(t, a), Fetch(t)
    PROVE  GoodOK(a)'
<1>1. /\ MediaTyped /\ AssetOK(a) /\ t \in MediaActors /\ ActorOK(t, a)
      /\ mediaActor[t].at = "executing" /\ UNCHANGED <<media, mediaJobs, mediaLog>>
      /\ mediaActor[t].at \in InJob \ {"watching"}
  BY AttemptForms DEF WholeInv, WatchInv, GoodOK, Fetch, MediaAt, InJob
<1>2. mediaActor[t].job = t /\ MyKey(t) = t[1] /\ t[1][1] = a
  BY <1>1, TaskForms DEF Elsewhere
<1>3. PICK place \in {"fetched", "refused"} : MediaGoes(t, place)
  BY DEF Fetch
<1>4. t[1][2] = "download"
  BY <1>2 DEF Fetch
<1>5. Moved(t) /\ mediaActor'[t].at = place /\ mediaActor'[t].job = t
  BY <1>1, <1>2, <1>3, <1>4, TaskGoesOn
<1>6. Whole(a) /\ CalmJobs(a)
  BY <1>1, <1>2, StillIsCalm DEF ActorOK, WorkingOK, Calm
<1>7. AssetOK(a)' /\ Whole(a)'
  BY <1>1, <1>6, CalmAsset
<1>8. ActorOK(t, a)'
  BY <1>5, <1>7 DEF ActorOK, CreatingOK, SettlingOK, WorkingOK
<1> QED BY <1>1, <1>5, <1>7, <1>8, Here

LEMMA DownloadOK ==
    ASSUME OneWorker, WholeInv, StepFacts, NEW a \in Assets, Good(a),
           NEW t \in MediaAttempts, ~Elsewhere(t, a), SaveDownload(t) \/ RefuseDownload(t)
    PROVE  GoodOK(a)'
<1>1. /\ MediaTyped /\ MediaTyped' /\ AssetOK(a) /\ t \in MediaActors /\ ActorOK(t, a)
      /\ UNCHANGED <<mediaJobs, mediaLog>> /\ t[1][1] = a
  BY AttemptForms DEF WholeInv, WatchInv, GoodOK, SaveDownload, RefuseDownload, StepFacts, Elsewhere
<1>2. /\ Moved(t) /\ mediaActor'[t].job = t
      /\ \/ /\ MediaAt(t, "fetched") /\ mediaActor'[t].at = "saved"
            /\ media'[a] = [download |-> "downloaded", analysis |-> "pending"]
         \/ /\ MediaAt(t, "refused") /\ mediaActor'[t].at = "raised"
            /\ media'[a].download = "failed"
            /\ media'[a].analysis = media[a].analysis
  BY <1>1, DownloadWrites
<1>3. CASE /\ mediaActor'[t].at = "saved"
           /\ media'[a] = [download |-> "downloaded", analysis |-> "pending"]
  <2>1. media'[a].download = "downloaded" /\ media'[a].analysis = "pending"
    BY <1>3
  <2>2. AssetOK(a)'
    BY <2>1 DEF AssetOK
  <2>3. ActorOK(t, a)'
    BY <1>3, <2>1 DEF ActorOK, CreatingOK, SettlingOK, WorkingOK
  <2> QED BY <1>1, <1>2, <2>2, <2>3, Here
<1>4. CASE /\ MediaAt(t, "refused") /\ mediaActor'[t].at = "raised"
           /\ media'[a].download = "failed" /\ media'[a].analysis = media[a].analysis
  <2>1. Whole(a)
    <3>1. mediaActor[t].at # "idle" /\ mediaActor[t].at = "refused"
      BY <1>4 DEF MediaAt
    <3>2. mediaActor[t].job = t
      BY <1>1, <3>1, TaskForms
    <3> QED BY <1>1, <3>1, <3>2 DEF ActorOK, WorkingOK
  <2>2. Whole(a)'
    BY <1>1, <1>4, <2>1 DEF Whole, Started, AllThere, Present
  <2>3. AssetOK(a)'
    BY <1>1, <1>4, <2>2 DEF AssetOK
  <2>4. ActorOK(t, a)'
    BY <1>1, <1>4, IdleOK
  <2> QED BY <1>1, <1>2, <2>3, <2>4, Here
<1> QED BY <1>2, <1>3, <1>4

LEMMA EndsOK ==
    ASSUME OneWorker, WholeInv, StepFacts, NEW a \in Assets, Good(a),
           NEW t \in MediaAttempts, ~Elsewhere(t, a), EndDownload(t) \/ EndStage(t)
    PROVE  GoodOK(a)'
<1>1. /\ MediaTyped /\ AssetOK(a) /\ t \in MediaActors /\ ActorOK(t, a) /\ t[1][1] = a
      /\ mediaActor[t].at \in {"saved", "executing"} /\ mediaActor[t].at \in InJob
  BY AttemptForms DEF WholeInv, WatchInv, GoodOK, EndDownload, EndStage, MediaAt, InJob, Elsewhere
<1>2. /\ Moved(t) /\ JobDone(t[1]) /\ UNCHANGED media
      /\ \A j \in MediaKeys \ {t[1]} : mediaJobs'[j] = mediaJobs[j]
      /\ mediaActor'[t].then = "idle"
      /\ \/ /\ MediaAt(t, "saved") /\ mediaActor'[t].at = "creating"
            /\ mediaActor'[t].todo = StageKeys(a)
         \/ /\ MediaAt(t, "executing") /\ t[1][2] # "download" /\ mediaActor'[t].at = "settling"
            /\ mediaActor'[t].settle = {a}
  BY <1>1, EndsWrites
<1>3. mediaActor[t].job = t /\ MyKey(t) = t[1] /\ t[1] \in MediaKeys
  BY <1>1, TaskForms
<1>4. Present(t[1])
  <2>1. Present(MyKey(t))
    BY <1>1 DEF WholeInv, WatchInv
  <2> QED BY <1>3, <2>1
<1>5. CalmJobs(a)
  <2>1. ASSUME NEW k \in KeysOf(a), Present(k)' PROVE Present(k)
    <3>1. CASE k = t[1]
      BY <1>4, <3>1
    <3>2. CASE k # t[1]
      BY <1>2, <2>1, <3>2, StageForms DEF Present
    <3> QED BY <3>1, <3>2
  <2> QED BY <1>2, <2>1, FewerStages
<1>6. AssetOK(a)' /\ (AllThere(a) => AllThere(a)')
  BY <1>1, <1>2, <1>5, CalmAsset
<1>7. CASE MediaAt(t, "saved") /\ mediaActor'[t].at = "creating" /\ mediaActor'[t].todo = StageKeys(a)
  <2>1. media'[a].download = "downloaded"
    BY <1>1, <1>2, <1>3, <1>7 DEF MediaAt, ActorOK, WorkingOK
  <2>2. ActorOK(t, a)'
    BY <1>2, <1>7, <2>1 DEF ActorOK, CreatingOK, SettlingOK, WorkingOK
  <2> QED BY <1>1, <1>2, <1>6, <2>2, Here
<1>8. CASE /\ MediaAt(t, "executing") /\ t[1][2] # "download" /\ mediaActor'[t].at = "settling"
           /\ mediaActor'[t].settle = {a}
  <2>1. t[1] \in StageKeys(a)
    BY <1>1, <1>3, <1>8, StageForms
  <2>2. Whole(a) /\ Started(a)
    BY <1>1, <1>3, <1>4, <1>8, <2>1 DEF MediaAt, ActorOK, WorkingOK, Started
  <2>3. AllThere(a)'
    BY <1>6, <2>2 DEF Whole
  <2>4. ActorOK(t, a)'
    BY <1>2, <1>8, <2>3 DEF ActorOK, CreatingOK, SettlingOK, WorkingOK
  <2> QED BY <1>1, <1>2, <1>6, <2>4, Here
<1> QED BY <1>2, <1>7, <1>8

LEMMA LeftOK ==
    ASSUME OneWorker, WholeInv, StepFacts, NEW a \in Assets, Good(a),
           NEW x \in MediaActors, ~Elsewhere(x, a), Left(x), UNCHANGED <<media, mediaJobs>>
    PROVE  GoodOK(a)'
<1>1. AssetOK(a) /\ MediaTyped' /\ MediaIdle.at = "idle"
  BY Resting DEF WholeInv, GoodOK, StepFacts
<1>2. AssetOK(a)'
  BY <1>1, StillIsCalm, CalmAsset DEF Calm
<1>3. ActorOK(x, a)'
  BY <1>1, IdleOK DEF Left
<1> QED BY <1>2, <1>3, Here

LEMMA FailReadOK ==
    ASSUME OneWorker, WholeInv, StepFacts, NEW a \in Assets, Good(a),
           NEW x \in MediaActors, ~Elsewhere(x, a), MediaFailRead(x)
    PROVE  GoodOK(a)'
<1>1. MediaTyped /\ AssetOK(a) /\ MediaTyped' /\ UNCHANGED <<media, mediaJobs>>
  BY DEF WholeInv, WatchInv, GoodOK, StepFacts, MediaFailRead
<1>2. Moved(x) /\ mediaActor'[x].at = "failing"
  BY <1>1, FailReadWrites
<1>3. AssetOK(a)'
  BY <1>1, StillIsCalm, CalmAsset DEF Calm
<1>4. ActorOK(x, a)'
  BY <1>1, <1>2, IdleOK
<1> QED BY <1>2, <1>3, <1>4, Here

LEMMA FailOK ==
    ASSUME OneWorker, WholeInv, StepFacts, NEW a \in Assets, Good(a),
           NEW x \in MediaActors, ~Elsewhere(x, a), FailMediaJob(x)
    PROVE  GoodOK(a)'
<1>1. MediaTyped /\ AssetOK(a) /\ UNCHANGED media
  BY DEF WholeInv, WatchInv, GoodOK, FailMediaJob
<1>2. /\ Moved(x) /\ MyKey(x) \in MediaKeys
      /\ \A j \in MediaKeys \ {MyKey(x)} : mediaJobs'[j] = mediaJobs[j]
      /\ mediaActor[x].at = "failing"
      /\ mediaActor'[x].at = "settling" /\ mediaActor'[x].then = "idle"
      /\ \/ mediaActor'[x].settle = {}
         \/ mediaActor'[x].settle = {MyKey(x)[1]} /\ mediaJobs'[MyKey(x)].status = "failed_terminal"
  BY <1>1, FailWrites
<1>3. PICK k \in MediaKeys : k = MyKey(x)
  BY <1>2
<1>4. Present(k)
  BY <1>2, <1>3 DEF WholeInv, WatchInv, InJob
<1>5. CalmJobs(a)
  <2>1. ASSUME NEW j \in KeysOf(a), Present(j)' PROVE Present(j)
    <3>1. CASE j = k
      BY <1>4, <3>1
    <3>2. CASE j # k
      BY <1>2, <1>3, <2>1, <3>2, StageForms DEF Present
    <3> QED BY <3>1, <3>2
  <2> QED BY <1>1, <2>1, FewerStages
<1>6. AssetOK(a)'
  BY <1>1, <1>5, CalmAsset
<1>7. ASSUME a \in mediaActor'[x].settle PROVE GivenUp(a)'
  <2>1. k[1] = a /\ mediaJobs'[k].status = "failed_terminal"
    BY <1>2, <1>3, <1>7
  <2> QED BY <2>1 DEF GivenUp, KeysOf
<1>8. ActorOK(x, a)'
  BY <1>2, <1>7 DEF ActorOK, CreatingOK, SettlingOK, WorkingOK
<1> QED BY <1>2, <1>6, <1>8, Here

\* A task of another asset.
LEMMA ElsewhereOK ==
    ASSUME OneWorker, WholeInv, StepFacts, NEW a \in Assets, Good(a), NEW x \in MediaActors,
           Elsewhere(x, a), SharedStep(x) \/ TaskStep(x)
    PROVE  GoodOK(a)'
<1>1. MediaTyped /\ x \in MediaAttempts /\ x[1][1] # a /\ FitsRow(x, mediaActor[x])
  BY ActorForm DEF WholeInv, WatchInv, Elsewhere
<1>2. SUFFICES (Moved(x) \/ Left(x)) /\ Untouched(a)
  BY There
<1>3. KeysOf(a) \subseteq MediaKeys /\ \A k \in KeysOf(a) : k[1] = a
  BY StageForms DEF KeysOf
<1>4. ASSUME UNCHANGED <<media, mediaJobs>> PROVE Untouched(a)
  BY <1>4 DEF Untouched, JobKept
<1>5. ASSUME UNCHANGED media, NEW k \in MediaKeys, k[1] = x[1][1],
             \A j \in MediaKeys \ {k} : mediaJobs'[j] = mediaJobs[j]
      PROVE  Untouched(a)
  BY <1>1, <1>3, <1>5 DEF Untouched, JobKept
<1>6. CASE CreateMediaJob(x)
  <2>1. PICK k \in mediaActor[x].todo :
           k \in MediaKeys /\ Moved(x) /\ \A j \in MediaKeys \ {k} : mediaJobs'[j] = mediaJobs[j]
    BY <1>1, <1>6, CreateWrites
  <2>2. k[1] = x[1][1] /\ UNCHANGED media
    BY <1>1, <1>6, <2>1 DEF FitsRow, KeysOf, CreateMediaJob
  <2> QED BY <1>5, <2>1, <2>2
<1>7. CASE MediaJobsCreated(x) \/ AssetsSettled(x)
  <2>1. mediaActor[x].at \in {"creating", "settling"} /\ Proceed(x) /\ UNCHANGED <<media, mediaJobs>>
    BY <1>7 DEF MediaJobsCreated, AssetsSettled, MediaAt
  <2> QED BY <1>1, <1>4, <2>1, ProceedWrites
<1>8. CASE SettleRead(x)
  <2>1. UNCHANGED <<media, mediaJobs>>
    BY <1>8 DEF SettleRead
  <2> QED BY <1>1, <1>4, <1>8, <2>1, SettleReadWrites
<1>9. CASE SettleWrite(x)
  <2>1. /\ Moved(x)
        /\ \A b \in Assets : b # mediaActor[x].judged[1] => media'[b] = media[b]
    BY <1>1, <1>9, SettleWriteWrites
  <2>2. mediaActor[x].judged[1] = x[1][1] /\ UNCHANGED mediaJobs
    BY <1>1, <1>9 DEF FitsRow, SettleWrite, MediaAt
  <2>3. media'[a] = media[a]
    BY <1>1, <2>1, <2>2
  <2> QED BY <2>1, <2>2, <2>3 DEF Untouched, JobKept
<1>10. CASE MediaFailRead(x)
  <2>1. UNCHANGED <<media, mediaJobs>>
    BY <1>10 DEF MediaFailRead
  <2> QED BY <1>1, <1>4, <1>10, <2>1, FailReadWrites
<1>11. CASE FailMediaJob(x)
  <2>1. /\ Moved(x) /\ MyKey(x) \in MediaKeys /\ mediaActor[x].at = "failing"
        /\ \A j \in MediaKeys \ {MyKey(x)} : mediaJobs'[j] = mediaJobs[j]
    BY <1>1, <1>11, FailWrites
  <2>2. MyKey(x) = x[1] /\ UNCHANGED media
    BY <1>1, <1>11, <2>1, TaskForms DEF FailMediaJob
  <2> QED BY <1>5, <2>1, <2>2
<1>12. CASE Fetch(x)
  <2>1. mediaActor[x].at = "executing" /\ UNCHANGED <<media, mediaJobs>>
    BY <1>12 DEF Fetch, MediaAt
  <2>2. mediaActor[x].at \in InJob \ {"watching"} /\ x[1][2] = "download"
    BY <1>1, <1>12, <2>1, TaskForms DEF InJob, Fetch
  <2>3. PICK place \in {"fetched", "refused"} : MediaGoes(x, place)
    BY <1>12 DEF Fetch
  <2> QED BY <1>1, <1>4, <2>1, <2>2, <2>3, TaskGoesOn
<1>13. CASE SaveDownload(x) \/ RefuseDownload(x)
  <2>1. Moved(x) /\ \A b \in Assets \ {x[1][1]} : media'[b] = media[b]
    BY <1>1, <1>13, DownloadWrites
  <2>2. UNCHANGED mediaJobs
    BY <1>13 DEF SaveDownload, RefuseDownload
  <2> QED BY <1>1, <2>1, <2>2 DEF Untouched, JobKept
<1>14. CASE EndDownload(x) \/ EndStage(x)
  <2>1. Moved(x) /\ UNCHANGED media /\ \A j \in MediaKeys \ {x[1]} : mediaJobs'[j] = mediaJobs[j]
    BY <1>1, <1>14, EndsWrites
  <2>2. x[1] \in MediaKeys
    BY <1>1, AttemptForms
  <2> QED BY <1>5, <2>1, <2>2
<1>15. CASE WorkRaises(x)
  <2>1. /\ ~MediaAt(x, "watching") /\ ~MediaAt(x, "idle") /\ MediaLeaves(x, "raised")
        /\ UNCHANGED <<media, mediaJobs>>
    BY <1>15 DEF WorkRaises, MediaAt
  <2> QED BY <1>1, <1>4, <2>1, Leaves
<1> QED BY <1>6, <1>7, <1>8, <1>9, <1>10, <1>11, <1>12, <1>13, <1>14, <1>15 DEF SharedStep, TaskStep

\* The worker, or a task of the asset itself.
LEMMA SharedOK ==
    ASSUME OneWorker, WholeInv, StepFacts, NEW a \in Assets, Good(a), NEW x \in MediaActors,
           ~Elsewhere(x, a), SharedStep(x)
    PROVE  GoodOK(a)'
BY CreateOK, ProceedOK, SettleReadOK, SettleWriteOK, FailReadOK, FailOK DEF SharedStep

LEMMA TaskOK ==
    ASSUME OneWorker, WholeInv, StepFacts, NEW a \in Assets, Good(a), NEW t \in MediaAttempts,
           ~Elsewhere(t, a), TaskStep(t)
    PROVE  GoodOK(a)'
<1>1. CASE WorkRaises(t)
  <2>1. /\ ~MediaAt(t, "watching") /\ ~MediaAt(t, "idle") /\ MediaLeaves(t, "raised")
        /\ UNCHANGED <<media, mediaJobs>> /\ MediaTyped /\ t \in MediaActors
    BY <1>1, AttemptForms DEF WorkRaises, MediaAt, WholeInv, WatchInv
  <2>2. Left(t)
    BY <2>1, Leaves
  <2> QED BY <2>1, <2>2, LeftOK
<1> QED BY <1>1, FetchOK, DownloadOK, EndsOK DEF TaskStep

LEMMA ErrsOK ==
    ASSUME OneWorker, WholeInv, StepFacts, NEW a \in Assets, Good(a), NEW x \in MediaActors, MediaErrs(x)
    PROVE  GoodOK(a)'
<1>1. /\ ~MediaAt(x, "watching") /\ ~MediaAt(x, "idle") /\ MediaLeaves(x, "raised")
      /\ UNCHANGED <<media, mediaJobs>> /\ MediaTyped
  BY DEF MediaErrs, MediaAt, WholeInv, WatchInv
<1>2. Left(x)
  BY <1>1, Leaves
<1>3. Untouched(a)
  BY <1>1 DEF Untouched, JobKept
<1> QED BY <1>1, <1>2, <1>3, LeftOK, There

\* The loop rests, in the middle of its claim or with nothing to claim.
LEMMA RestsOK ==
    ASSUME WholeInv, StepFacts, NEW a \in Assets, Good(a), NEW w \in MediaWorkers,
           ClaimErrs(w) \/ NothingToClaim(w)
    PROVE  GoodOK(a)'
<1>1. /\ MediaTyped /\ JobsTyped /\ MediaAt(w, "claiming") /\ w \in MediaActors /\ UNCHANGED media
      /\ mediaActor' = [mediaActor EXCEPT ![w] = MediaIdle]
  BY AttemptForms DEF WholeInv, WatchInv, MediaTyped, JobsTyped, ClaimErrs, NothingToClaim, MediaMoves
<1>2. \A x \in MediaActors : mediaActor'[x] = mediaActor[x] \/ mediaActor'[x].at \in {"idle", "raised"}
  BY <1>1, Resting DEF MediaTyped, ActorsTyped
<1>3. CASE NothingToClaim(w)
  <2>1. UNCHANGED mediaJobs
    BY <1>3 DEF NothingToClaim
  <2> QED BY <1>1, <1>2, <2>1, StillIsCalm, CalmStep
<1>4. CASE ClaimErrs(w)
  <2>1. PICK k \in MediaKeys : MediaClaimable(k) /\ mediaJobs' = Claimed(k, w)
    BY <1>4 DEF ClaimErrs
  <2>2. Present(k) /\ \A j \in MediaKeys \ {k} : mediaJobs'[j] = mediaJobs[j]
    BY <1>1, <2>1, JobTakes
  <2>3. CalmJobs(a)
    <3>1. ASSUME NEW j \in KeysOf(a), Present(j)' PROVE Present(j)
      BY <2>2, <3>1, StageForms DEF Present
    <3> QED BY <1>1, <3>1, FewerStages
  <2>4. ASSUME GivenUp(a) PROVE GivenUp(a)'
    <3>1. PICK j \in KeysOf(a) : mediaJobs[j].status = "failed_terminal"
      BY <2>4 DEF GivenUp
    <3>2. j # k /\ j \in MediaKeys
      BY <2>1, <3>1, StageForms DEF MediaClaimable
    <3> QED BY <2>2, <3>1, <3>2 DEF GivenUp
  <2> QED BY <1>1, <1>2, <2>3, <2>4, CalmStep DEF Calm
<1> QED BY <1>3, <1>4

LEMMA KeptIsCalm ==
    ASSUME NEW a \in Assets, UNCHANGED media, \A k \in MediaKeys : JobKept(k)
    PROVE  Calm(a)
<1>1. Untouched(a)
  BY StageForms DEF Untouched
<1> QED BY <1>1, UntouchedIsCalm

\* The heartbeat, the clock, a kill.
LEMMA BesideOK ==
    ASSUME WholeInv, StepFacts, NEW a \in Assets, Good(a),
           \/ \E w \in MediaWorkers : RefreshMediaLease(w) \/ LoseMediaLease(w) \/ HeartbeatRaises(w)
                                      \/ KillMediaWorker(w)
           \/ \E k \in MediaKeys : MediaRipens(k)
           \/ UNCHANGED mediaVars
    PROVE  GoodOK(a)'
<1>1. MediaTyped /\ JobsTyped /\ mediaActor \in [MediaActors -> ActorRecords]
  BY DEF WholeInv, WatchInv, MediaTyped, JobsTyped, ActorsTyped
<1>2. ASSUME UNCHANGED <<media, mediaActor>>, NEW k \in MediaKeys, NEW ripe \in BOOLEAN,
             mediaJobs' = [mediaJobs EXCEPT ![k].ripe = ripe]
      PROVE  GoodOK(a)'
  <2>1. \A j \in MediaKeys : JobKept(j)
    BY <1>1, <1>2, JobTimed
  <2> QED BY <1>2, <2>1, KeptIsCalm, CalmStep
<1>3. ASSUME UNCHANGED <<media, mediaJobs>>,
             \A x \in MediaActors : mediaActor'[x] = mediaActor[x] \/ mediaActor'[x].at \in {"idle", "raised"}
      PROVE  GoodOK(a)'
  BY <1>3, StillIsCalm, CalmStep
<1>4. ASSUME NEW w \in MediaWorkers, RefreshMediaLease(w) PROVE GoodOK(a)'
  <2>1. mediaActor[w].at \in InJob /\ w \in MediaActors
    BY <1>4, AttemptForms DEF RefreshMediaLease, MediaAt, InJob
  <2>2. MyKey(w) \in MediaKeys
    BY <1>1, <2>1, ActorForm, AttemptForms DEF FitsRow, MyKey
  <2> QED BY <1>2, <1>4, <2>2 DEF RefreshMediaLease
<1>5. ASSUME NEW w \in MediaWorkers, LoseMediaLease(w) PROVE GoodOK(a)'
  BY <1>1, <1>3, <1>5, Resting DEF LoseMediaLease
<1>6. ASSUME NEW w \in MediaWorkers, HeartbeatRaises(w) PROVE GoodOK(a)'
  <2>1. mediaActor' = [mediaActor EXCEPT ![w].at = "raised"] /\ UNCHANGED <<media, mediaJobs>>
    BY <1>6 DEF HeartbeatRaises, MediaGoes
  <2>2. \A x \in MediaActors : mediaActor'[x] = mediaActor[x] \/ mediaActor'[x].at \in {"idle", "raised"}
    BY <1>1, <2>1 DEF ActorRecords
  <2> QED BY <1>3, <2>1, <2>2
<1>7. ASSUME NEW w \in MediaWorkers, KillMediaWorker(w) PROVE GoodOK(a)'
  BY <1>3, <1>7, Resting DEF KillMediaWorker
<1>8. ASSUME NEW k \in MediaKeys, MediaRipens(k) PROVE GoodOK(a)'
  BY <1>2, <1>8 DEF MediaRipens
<1>9. CASE UNCHANGED mediaVars
  BY <1>3, <1>9 DEF mediaVars
<1> QED BY <1>4, <1>5, <1>6, <1>7, <1>8, <1>9

LEMMA BackfillOK ==
    ASSUME WholeInv, StepFacts, NEW a \in Assets, Good(a), NEW k \in MediaKeys, BackfillMedia(k)
    PROVE  GoodOK(a)'
<1>1. JobsTyped /\ UNCHANGED <<media, mediaActor>>
  BY DEF WholeInv, WatchInv, MediaTyped, JobsTyped, BackfillMedia
<1>2. JobMade(k) /\ \A j \in MediaKeys \ {k} : mediaJobs'[j] = mediaJobs[j]
  BY <1>1, JobMakes DEF BackfillMedia
<1>3. ASSUME k \in StageKeys(a) PROVE media[a].download = "downloaded"
  <2>1. PICK b \in Unfinished :
            k \in (IF media[b].download = "downloaded" THEN StageKeys(b) ELSE {<<b, "download">>})
    BY DEF BackfillMedia, MissingKeys
  <2>2. b \in Assets /\ k[1] = a /\ k[2] # "download"
    BY <1>3, Listed, KeyForms
  <2>3. CASE media[b].download = "downloaded"
    BY <2>1, <2>2, <2>3, KeyForms
  <2>4. CASE media[b].download # "downloaded"
    BY <2>1, <2>2, <2>4
  <2> QED BY <2>3, <2>4
<1>4. CalmJobs(a)
  <2>1. ASSUME NEW j \in StageKeys(a), Present(j)' PROVE Present(j) \/ media[a].download = "downloaded"
    BY <1>2, <1>3, <2>1, StageForms DEF Present
  <2> QED BY <1>1, <2>1 DEF CalmJobs
<1>5. GivenUp(a) => GivenUp(a)'
  <2>1. \A j \in KeysOf(a) : mediaJobs[j].status = "failed_terminal" => mediaJobs'[j] = mediaJobs[j]
    BY <1>2, StageForms DEF JobMade
  <2> QED BY <2>1 DEF GivenUp
<1> QED BY <1>1, <1>4, <1>5, CalmStep DEF Calm

LEMMA GoodAfter ==
    ASSUME OneWorker, WholeInv, StepFacts, [MediaNext]_mediaVars, NEW a \in Assets, Good(a)'
    PROVE  GoodOK(a)'
<1>1. Good(a)
  BY GoodBefore
<1>2. ASSUME NEW w \in MediaWorkers, LoopStep(w) PROVE GoodOK(a)'
  BY <1>1, <1>2, TickOK, ClosingOK, ClaimOK, RestsOK DEF LoopStep
<1>3. ASSUME NEW w \in MediaWorkers, ClaimErrs(w) PROVE GoodOK(a)'
  BY <1>1, <1>3, RestsOK
<1>4. ASSUME NEW t \in MediaAttempts, TaskStep(t) PROVE GoodOK(a)'
  BY <1>1, <1>4, AttemptForms, TaskOK, ElsewhereOK
<1>5. ASSUME NEW x \in MediaActors, SharedStep(x) PROVE GoodOK(a)'
  BY <1>1, <1>5, SharedOK, ElsewhereOK
<1>6. ASSUME NEW x \in MediaActors, MediaErrs(x) PROVE GoodOK(a)'
  BY <1>1, <1>6, ErrsOK
<1>7. ASSUME NEW k \in MediaKeys, BackfillMedia(k) PROVE GoodOK(a)'
  BY <1>1, <1>7, BackfillOK
<1> QED BY <1>1, <1>2, <1>3, <1>4, <1>5, <1>6, <1>7, BesideOK DEF MediaNext

LEMMA WhoWritesAssets ==
    ASSUME [MediaNext]_mediaVars
    PROVE  \/ UNCHANGED media
           \/ \E x \in MediaActors : SettleWrite(x)
           \/ \E t \in MediaAttempts : SaveDownload(t) \/ RefuseDownload(t)
<1>1. ASSUME NEW w \in MediaWorkers, LoopStep(w) PROVE UNCHANGED media
  BY <1>1 DEF LoopStep, MediaTick, Terminalize, ClaimMediaJob, NothingToClaim
<1>2. ASSUME NEW w \in MediaWorkers, \/ RefreshMediaLease(w) \/ LoseMediaLease(w) \/ HeartbeatRaises(w)
                                     \/ ClaimErrs(w) \/ KillMediaWorker(w)
      PROVE  UNCHANGED media
  BY <1>2 DEF RefreshMediaLease, LoseMediaLease, HeartbeatRaises, ClaimErrs, KillMediaWorker
<1>3. ASSUME NEW t \in MediaAttempts, TaskStep(t)
      PROVE  UNCHANGED media \/ SaveDownload(t) \/ RefuseDownload(t)
  BY <1>3 DEF TaskStep, Fetch, EndDownload, EndStage, WorkRaises
<1>4. ASSUME NEW x \in MediaActors, SharedStep(x) PROVE UNCHANGED media \/ SettleWrite(x)
  BY <1>4 DEF SharedStep, CreateMediaJob, MediaJobsCreated, SettleRead, AssetsSettled, MediaFailRead,
              FailMediaJob
<1>5. ASSUME NEW x \in MediaActors, MediaErrs(x) PROVE UNCHANGED media
  BY <1>5 DEF MediaErrs
<1>6. ASSUME NEW k \in MediaKeys, MediaRipens(k) \/ BackfillMedia(k) PROVE UNCHANGED media
  BY <1>6 DEF MediaRipens, BackfillMedia
<1> QED BY <1>1, <1>2, <1>3, <1>4, <1>5, <1>6 DEF MediaNext, mediaVars

LEMMA DownloadedAfter ==
    ASSUME WholeInv, StepFacts, [MediaNext]_mediaVars, NEW a \in Assets, media'[a].download = "downloaded"
    PROVE  media'[a].analysis # "absent" /\ Present(<<a, "download">>)'
<1>1. MediaTyped /\ <<a, "download">> \in MediaKeys
  BY StageForms, KeyForms DEF WholeInv, WatchInv
<1>2. PICK k \in MediaKeys : k = <<a, "download">>
  BY <1>1
<1>3. ASSUME media[a].download = "downloaded" PROVE media[a].analysis # "absent" /\ Present(k)'
  BY <1>2, <1>3, PresentStays DEF WholeInv
<1>4. CASE UNCHANGED media
  BY <1>2, <1>3, <1>4 DEF Present
<1>5. ASSUME NEW x \in MediaActors, SettleWrite(x)
      PROVE  media'[a].analysis # "absent" /\ Present(k)'
  <2>1. /\ mediaActor[x].judged \in Assets \X {"partial", "succeeded"}
        /\ media'[mediaActor[x].judged[1]].analysis = mediaActor[x].judged[2]
        /\ media'[a].download = media[a].download
        /\ a # mediaActor[x].judged[1] => media'[a] = media[a]
    BY <1>1, <1>5, SettleWriteWrites
  <2>2. mediaActor[x].judged[2] # "absent"
    BY <2>1
  <2> QED BY <1>3, <2>1, <2>2
<1>6. ASSUME NEW t \in MediaAttempts, SaveDownload(t) \/ RefuseDownload(t)
      PROVE  media'[a].analysis # "absent" /\ Present(k)'
  <2>1. /\ t[1][2] = "download"
        /\ \A b \in Assets \ {t[1][1]} : media'[b] = media[b]
        /\ \/ /\ MediaAt(t, "fetched")
              /\ media'[t[1][1]] = [download |-> "downloaded", analysis |-> "pending"]
           \/ media'[t[1][1]].download = "failed"
    BY <1>1, <1>6, DownloadWrites
  <2>2. CASE t[1][1] # a
    BY <1>3, <2>1, <2>2
  <2>3. CASE t[1][1] = a
    <3>1. MediaAt(t, "fetched") /\ media'[a].analysis = "pending"
      BY <2>1, <2>3
    <3>2. mediaActor[t].at \in InJob /\ mediaActor[t].at # "idle" /\ t \in MediaActors /\ t[1] \in MediaKeys
      BY <3>1, AttemptForms DEF MediaAt, InJob
    <3>3. MyKey(t) = t[1] /\ Present(MyKey(t))
      BY <1>1, <3>2, TaskForms DEF WholeInv, WatchInv
    <3>4. t[1] = k
      BY <1>2, <2>1, <2>3, <3>2, KeyForms
    <3>5. Present(k)'
      BY <3>3, <3>4, PresentStays
    <3> QED BY <3>1, <3>5
  <2> QED BY <2>2, <2>3
<1> QED BY <1>2, <1>4, <1>5, <1>6, WhoWritesAssets DEF Present

LEMMA WholeAfter == ASSUME OneWorker, WholeInv, [MediaNext]_mediaVars PROVE WholeInv'
<1>1. WatchInv' /\ StepFacts
  BY WatchAfter DEF WholeInv
<1>2. ASSUME NEW k \in MediaKeys
      PROVE  /\ mediaJobs'[k].status = "succeeded" => k \in mediaLog'.done
             /\ k \in mediaLog'.done => Present(k)'
  BY <1>1, DoneAfter
<1>3. ASSUME NEW a \in Assets, media'[a].download = "downloaded"
      PROVE  media'[a].analysis # "absent" /\ Present(<<a, "download">>)'
  BY <1>1, <1>3, DownloadedAfter
<1>4. ASSUME NEW a \in Assets, Good(a)' PROVE GoodOK(a)'
  BY <1>1, <1>4, GoodAfter
<1> QED BY <1>1, <1>2, <1>3, <1>4 DEF WholeInv

LEMMA WholeAtFirst == ASSUME MediaInit PROVE WholeInv
<1>1. WatchInv /\ \A x \in MediaActors : mediaActor[x].at = "idle"
  BY WatchAtFirst, NothingYet
<1>2. /\ \A k \in MediaKeys : mediaJobs[k].status = "absent" /\ ~Present(k)
      /\ mediaLog.done = {}
  BY DEF MediaInit, NoMediaRow, Present
<1>3. \A a \in Assets : media[a].download # "downloaded" /\ media[a].analysis # "succeeded"
  BY DEF MediaInit
<1>4. ASSUME NEW a \in Assets PROVE GoodOK(a)
  <2>1. ~Started(a)
    BY <1>2, <1>3, StageForms DEF Started
  <2>2. AssetOK(a)
    BY <1>3, <2>1 DEF AssetOK, Whole
  <2>3. \A x \in MediaActors : ActorOK(x, a)
    BY <1>1 DEF ActorOK, CreatingOK, SettlingOK, WorkingOK
  <2> QED BY <2>2, <2>3 DEF GoodOK
<1> QED BY <1>1, <1>2, <1>3, <1>4 DEF WholeInv

\* With one worker an asset that is reported succeeded went through all of its
\* jobs, however often the loop and its tasks are cut short and at whichever
\* write, unless a heartbeat that raised left a task of it alone or older
\* assets kept it out of the list of a tick.
THEOREM FinishedIsWholeTheorem == ASSUME OneWorker PROVE MediaSpec => []FinishedIsWhole
<1>1. WholeInv => FinishedIsWhole
  <2>1. ASSUME WholeInv, NEW a \in Assets, media[a].analysis = "succeeded", Good(a), NEW k \in MediaKeys, k[1] = a
        PROVE  k \in mediaLog.done
    BY <2>1 DEF WholeInv, GoodOK, AssetOK, KeysOf
  <2> QED BY <2>1 DEF FinishedIsWhole, Good
<1> QED BY <1>1, WholeAtFirst, WholeAfter, PTL DEF MediaSpec

-----------------------------------------------------------------------------
(* The services *)

\* Every row, request and session of the services is of the kinds its table has: the parts share no
\* variable, so the types of each are those of the whole.
THEOREM ServicesTypeCorrect == ServicesSpec => []ServicesTypeOK
<1>1. ServicesInit => JobTypeInv /\ MediaInit /\ MonitorInit /\ IInv /\ LoginInit
    BY TypedAtFirst, InitInv DEF ServicesInit
<1>2. ASSUME [ServicesNext]_<<jobVars, mediaVars, monitorVars, vars, loginVars, active>>
      PROVE  /\ [JobNext]_jobVars /\ [MediaNext]_mediaVars /\ [MonitorNext]_monitorVars
             /\ [Next]_vars /\ [LoginNext]_loginVars
    BY <1>2 DEF ServicesNext
<1>3. JobTypeInv /\ [JobNext]_jobVars => JobTypeInv'
    BY TypedAfter
<1>4. IInv /\ [Next]_vars => IInv'
    BY NextInv
<1>5. JobTypeInv /\ MediaTypeOK /\ MonitorTypeOK /\ IInv /\ LoginTypeOK => ServicesTypeOK
    BY DEF ServicesTypeOK, JobTypeInv, IInv
<1> QED BY <1>1, <1>2, <1>3, <1>4, <1>5, MediaTypes, MonitorTypes, LoginTypes, PTL DEF ServicesSpec
=============================================================================
