--------------------------- MODULE MediaPipeline ---------------------------
(***************************************************************************)
(* The media pipeline: an asset is downloaded, then analysed in stages     *)
(* (probe, OCR, ASR, key frames, C2PA), each a row of media_pipeline_jobs  *)
(* claimed under a lease.  Every tick of a worker creates the jobs that    *)
(* are missing, closes the exhausted ones, settles their assets, claims    *)
(* one job and watches its task.  The task writes the asset, the job and   *)
(* the verdict on the asset in separate transactions, none of which checks *)
(* that the job is still its own.  An exception may come out of every one  *)
(* of them, before or after it has committed.                              *)
(*                                                                         *)
(* Abstracted: the bytes, transcripts, derivatives and documents a stage   *)
(* stores; the order of creation in which claim_job prefers jobs.          *)
(***************************************************************************)
EXTENDS Naturals, FiniteSets

CONSTANTS
    Assets,          \* media assets
    CreatedAt,       \* asset -> when it was registered
    StagesOf,        \* asset -> its analysis stages, by media type
    ListLimit,       \* how many assets a tick looks at
    MediaWorkers,    \* worker processes; the deployment of the repository has one
    MediaTries,      \* max_attempts
    MaxMediaCuts     \* how often a worker is cut short in a behaviour (bound)

VARIABLES
    media,           \* asset -> download_status and analysis_status
    mediaJobs,       \* <<asset, stage>> -> row of media_pipeline_jobs
    mediaActor,      \* what each worker's loop, and the task of each attempt, is doing
    mediaCuts,       \* kills, exceptions, and heartbeats that failed or were refused, so far
    mediaLog         \* history

mediaVars == <<media, mediaJobs, mediaActor, mediaCuts, mediaLog>>

AllStages == {"download"} \cup UNION {StagesOf[a] : a \in Assets}
MediaKeys == {k \in Assets \X AllStages : k[2] = "download" \/ k[2] \in StagesOf[k[1]]}

\* Every claim starts a task of its own, told apart by the attempt.
MediaAttempts == MediaKeys \X (1 .. MediaTries)
MediaActors   == MediaWorkers \cup MediaAttempts

\* "download" is the kind of the first job only.
ASSUME MediaAssumption ==
    /\ MediaTries \in Nat \ {0} /\ MaxMediaCuts \in Nat /\ ListLimit \in Nat
    /\ \A a \in Assets : "download" \notin StagesOf[a]
    /\ MediaWorkers \cap MediaAttempts = {}

MediaEnded == {"succeeded", "failed_terminal"}

\* "succeeded" stands for "skipped" as well, a stage without a provider; "ripe":
\* the lease of a running job has expired, or the backoff of a failed one is over.
MediaRows == [status : {"absent", "pending", "running", "failed"} \cup MediaEnded,
              attempt : 0..MediaTries, owner : MediaWorkers \cup {"nobody"}, ripe : BOOLEAN]

NoMediaRow == [status |-> "absent", attempt |-> 0, owner |-> "nobody", ripe |-> FALSE]

\* at: the place in tick or _execute; job: the attempt watched or made; by:
\* the worker of a task; todo: the jobs still to create; settle: the assets
\* still to settle; seen: the attempt, judged: the asset and verdict last
\* read; then: where the loop goes when todo or settle is empty.
MediaPlaces == {"idle", "creating", "closing", "settling", "verdict", "claiming", "watching",
                "executing", "fetched", "saved", "refused", "raised", "failing"}
NoMediaJob == <<>>
MediaIdle == [at |-> "idle", job |-> NoMediaJob, by |-> "nobody", todo |-> {}, settle |-> {},
              seen |-> 0, judged |-> <<>>, then |-> "idle"]

\* done: the jobs that have been done once.  orphaned: the jobs a task of
\* which was left alone by its worker.  passedOver: the unfinished assets a
\* tick did not look at.
MediaHistory == [done : SUBSET MediaKeys, orphaned : SUBSET MediaKeys, passedOver : SUBSET Assets]

\* The worker starts on the assets the collection has registered.
MediaInit ==
    /\ \E registered \in SUBSET Assets :
         media = [a \in Assets |->
            IF a \in registered THEN [download |-> "not_downloaded", analysis |-> "pending"]
                                ELSE [download |-> "absent", analysis |-> "absent"]]
    /\ mediaJobs = [k \in MediaKeys |-> NoMediaRow]
    /\ mediaActor = [x \in MediaActors |-> MediaIdle]
    /\ mediaCuts = 0
    /\ mediaLog = [done |-> {}, orphaned |-> {}, passedOver |-> {}]

MediaAt(x, place) == mediaActor[x].at = place
MediaMoves(x, rec) == mediaActor' = [mediaActor EXCEPT ![x] = rec]
MediaGoes(x, place) == mediaActor' = [mediaActor EXCEPT ![x].at = place]
MyKey(x) == mediaActor[x].job[1]
MyAsset(x) == mediaActor[x].job[1][1]

\* An actor is through; the loop that watches it goes to its next place.
Watches(y, x) == MediaAt(y, "watching") /\ mediaActor[y].job = x
MediaLeaves(x, place) ==
    mediaActor' = [y \in MediaActors |->
        CASE y = x -> MediaIdle
          [] y # x /\ Watches(y, x) -> [mediaActor[y] EXCEPT !.at = place,
                                            !.job = IF place = "idle" THEN NoMediaJob ELSE x]
          [] OTHER -> mediaActor[y]]

\* The caller goes on after the jobs were created, or the assets settled.
Proceed(x) == IF mediaActor[x].then = "idle" THEN MediaLeaves(x, "idle")
                                             ELSE MediaGoes(x, mediaActor[x].then)

---------------------------------------------------------------------------
(* The tick: create, close, settle, claim *)

Unfinished == {a \in Assets :
    /\ media[a].download # "absent"
    /\ media[a].download \in {"not_downloaded", "failed"} \/ media[a].analysis \in {"pending", "partial"}}

\* list_pending_assets: the oldest ones; a failed or partial one stays in the list.
PendingAssets == {a \in Unfinished :
    Cardinality({b \in Unfinished : CreatedAt[b] < CreatedAt[a]}) < ListLimit}

StageKeys(a) == {a} \X StagesOf[a]

\* The jobs _enqueue_jobs asks for, from the list it has read.
MissingKeys(assets) ==
    UNION {IF media[a].download = "downloaded" THEN StageKeys(a) ELSE {<<a, "download">>} :
           a \in assets}

\* (A tick that finds nothing to do changes nothing and is left out.)
MediaTick(w) ==
    /\ MediaAt(w, "idle")
    /\ PendingAssets # {} \/ \E k \in MediaKeys : mediaJobs[k].status \in {"pending", "running", "failed"}
    /\ MediaMoves(w, [MediaIdle EXCEPT !.at = "creating", !.todo = MissingKeys(PendingAssets),
                                       !.then = "closing"])
    /\ mediaLog' = [mediaLog EXCEPT !.passedOver = @ \cup (Unfinished \ PendingAssets)]
    /\ UNCHANGED <<media, mediaJobs, mediaCuts>>

\* create_job, one transaction each; the unique key makes a second one a no-op.
CreateMediaJob(x) ==
    /\ MediaAt(x, "creating")
    /\ \E k \in mediaActor[x].todo :
         /\ mediaJobs' = IF mediaJobs[k].status = "absent"
                         THEN [mediaJobs EXCEPT ![k].status = "pending"] ELSE mediaJobs
         /\ mediaActor' = [mediaActor EXCEPT ![x].todo = @ \ {k}]
    /\ UNCHANGED <<media, mediaCuts, mediaLog>>

MediaJobsCreated(x) ==
    /\ MediaAt(x, "creating")
    /\ mediaActor[x].todo = {}
    /\ Proceed(x)
    /\ UNCHANGED <<media, mediaJobs, mediaCuts, mediaLog>>

MediaExhausted == {k \in MediaKeys : /\ mediaJobs[k].status = "running"
                                     /\ mediaJobs[k].ripe
                                     /\ mediaJobs[k].attempt >= MediaTries}

Terminalize(w) ==
    /\ MediaAt(w, "closing")
    /\ mediaJobs' = [k \in MediaKeys |->
         IF k \in MediaExhausted
         THEN [mediaJobs[k] EXCEPT !.status = "failed_terminal", !.owner = "nobody", !.ripe = FALSE]
         ELSE mediaJobs[k]]
    /\ mediaActor' = [mediaActor EXCEPT ![w].at = "settling", ![w].then = "claiming",
                                        ![w].settle = {k[1] : k \in MediaExhausted}]
    /\ UNCHANGED <<media, mediaCuts, mediaLog>>

StatusesOf(a) == {mediaJobs[k].status : k \in {k \in MediaKeys : k[1] = a}}

\* Mutant: a running job does not hold the verdict back.
VerdictIgnoringRunning(a) ==
    IF "pending" \in StatusesOf(a) THEN "none"
    ELSE IF StatusesOf(a) \cap {"failed", "failed_terminal"} # {} THEN "partial" ELSE "succeeded"

\* _finalize_asset_if_done: none while a job is pending or running.
Verdict(a) ==
    IF StatusesOf(a) \cap {"pending", "running"} # {} THEN "none"
    ELSE IF StatusesOf(a) \cap {"failed", "failed_terminal"} # {} THEN "partial" ELSE "succeeded"

\* It lists the jobs in one transaction ...
SettleRead(x) ==
    /\ MediaAt(x, "settling")
    /\ \E a \in mediaActor[x].settle :
         LET rest == mediaActor[x].settle \ {a}
         IN  MediaMoves(x, IF Verdict(a) = "none" THEN [mediaActor[x] EXCEPT !.settle = rest]
                           ELSE [mediaActor[x] EXCEPT !.at = "verdict", !.settle = rest,
                                                      !.judged = <<a, Verdict(a)>>])
    /\ UNCHANGED <<media, mediaJobs, mediaCuts, mediaLog>>

\* ... and writes the verdict in another.
SettleWrite(x) ==
    /\ MediaAt(x, "verdict")
    /\ LET judged == mediaActor[x].judged
       IN  media' = [media EXCEPT ![judged[1]].analysis = judged[2]]
    /\ mediaActor' = [mediaActor EXCEPT ![x].at = "settling", ![x].judged = <<>>]
    /\ UNCHANGED <<mediaJobs, mediaCuts, mediaLog>>

AssetsSettled(x) ==
    /\ MediaAt(x, "settling")
    /\ mediaActor[x].settle = {}
    /\ Proceed(x)
    /\ UNCHANGED <<media, mediaJobs, mediaCuts, mediaLog>>

MediaClaimable(k) ==
    /\ mediaJobs[k].attempt < MediaTries
    /\ \/ mediaJobs[k].status = "pending"
       \/ mediaJobs[k].status \in {"failed", "running"} /\ mediaJobs[k].ripe

Claimed(k, w) == [mediaJobs EXCEPT ![k] =
    [status |-> "running", attempt |-> @.attempt + 1, owner |-> w, ripe |-> FALSE]]

ClaimMediaJob(w) ==
    /\ MediaAt(w, "claiming")
    /\ \E k \in MediaKeys :
         /\ MediaClaimable(k)
         /\ mediaJobs' = Claimed(k, w)
         /\ LET t == <<k, mediaJobs[k].attempt + 1>>
            IN  mediaActor' = [mediaActor EXCEPT
                   ![w] = [MediaIdle EXCEPT !.at = "watching", !.job = t],
                   ![t] = [MediaIdle EXCEPT !.at = "executing", !.job = t, !.by = w]]
    /\ UNCHANGED <<media, mediaCuts, mediaLog>>

NothingToClaim(w) ==
    /\ MediaAt(w, "claiming")
    /\ \A k \in MediaKeys : ~MediaClaimable(k)
    /\ MediaMoves(w, MediaIdle)
    /\ UNCHANGED <<media, mediaJobs, mediaCuts, mediaLog>>

---------------------------------------------------------------------------
(* The task of a job *)

\* update_job: by primary key, whoever owns the job now.
EndJob(k, status) == mediaJobs' = [mediaJobs EXCEPT ![k] =
    [@ EXCEPT !.status = status, !.owner = "nobody", !.ripe = FALSE]]

DoneOnce(k) == mediaLog' = [mediaLog EXCEPT !.done = @ \cup {k}]

Fetch(t) ==
    /\ MediaAt(t, "executing")
    /\ MyKey(t)[2] = "download"
    /\ MediaGoes(t, "fetched") \/ MediaGoes(t, "refused")
    /\ UNCHANGED <<media, mediaJobs, mediaCuts, mediaLog>>

SaveDownload(t) ==
    /\ MediaAt(t, "fetched")
    /\ media' = [media EXCEPT ![MyAsset(t)] = [download |-> "downloaded", analysis |-> "pending"]]
    /\ MediaGoes(t, "saved")
    /\ UNCHANGED <<mediaJobs, mediaCuts, mediaLog>>

\* After the download job has succeeded the task creates the stages.
EndDownload(t) ==
    /\ MediaAt(t, "saved")
    /\ EndJob(MyKey(t), "succeeded")
    /\ DoneOnce(MyKey(t))
    /\ mediaActor' = [mediaActor EXCEPT ![t].at = "creating", ![t].todo = StageKeys(MyAsset(t))]
    /\ UNCHANGED <<media, mediaCuts>>

\* A refused download fails its job inside the task.
RefuseDownload(t) ==
    /\ MediaAt(t, "refused")
    /\ media' = [media EXCEPT ![MyAsset(t)].download = "failed"]
    /\ MediaGoes(t, "raised")
    /\ UNCHANGED <<mediaJobs, mediaCuts, mediaLog>>

\* A stage stores what it has derived and ends its job; then it settles its asset.
EndStage(t) ==
    /\ MediaAt(t, "executing")
    /\ MyKey(t)[2] # "download"
    /\ EndJob(MyKey(t), "succeeded")
    /\ DoneOnce(MyKey(t))
    /\ mediaActor' = [mediaActor EXCEPT ![t].at = "settling", ![t].settle = {MyAsset(t)}]
    /\ UNCHANGED <<media, mediaCuts>>

\* The fetch, or the analysis, raises: the loop that watches the task fails
\* the job, and nobody hears of it when none does.
WorkRaises(t) ==
    /\ MediaAt(t, "executing")
    /\ MediaLeaves(t, "raised")
    /\ UNCHANGED <<media, mediaJobs, mediaCuts, mediaLog>>

---------------------------------------------------------------------------
(* _fail_job: by a download that was refused, or by the loop for a task that raised *)

MediaFailRead(x) ==
    /\ MediaAt(x, "raised")
    /\ mediaActor' = [mediaActor EXCEPT ![x].at = "failing", ![x].seen = mediaJobs[MyKey(x)].attempt]
    /\ UNCHANGED <<media, mediaJobs, mediaCuts, mediaLog>>

FailsWith(x, status, assets) ==
    /\ EndJob(MyKey(x), status)
    /\ mediaActor' = [mediaActor EXCEPT ![x].at = "settling", ![x].settle = assets,
                                        ![x].seen = 0]

\* Mutant: the last attempt counts as one that can be repeated.
FailOneTooFew(x) ==
    /\ MediaAt(x, "failing")
    /\ \/ mediaActor[x].seen > MediaTries /\ FailsWith(x, "failed_terminal", {MyAsset(x)})
       \/ mediaActor[x].seen <= MediaTries /\ FailsWith(x, "failed", {})
    /\ UNCHANGED <<media, mediaCuts, mediaLog>>

\* Not fenced: a job that has just been ended is failed as well.
FailMediaJob(x) ==
    /\ MediaAt(x, "failing")
    /\ \/ mediaActor[x].seen >= MediaTries /\ FailsWith(x, "failed_terminal", {MyAsset(x)})
       \/ mediaActor[x].seen < MediaTries /\ FailsWith(x, "failed", {})
    /\ UNCHANGED <<media, mediaCuts, mediaLog>>

---------------------------------------------------------------------------
(* The heartbeat beside the task *)

StillMine(w) == mediaJobs[MyKey(w)].status = "running" /\ mediaJobs[MyKey(w)].owner = w

RefreshMediaLease(w) ==
    /\ MediaAt(w, "watching")
    /\ StillMine(w)
    /\ mediaJobs[MyKey(w)].ripe
    /\ mediaJobs' = [mediaJobs EXCEPT ![MyKey(w)].ripe = FALSE]
    /\ UNCHANGED <<media, mediaActor, mediaCuts, mediaLog>>

MediaIsCut == mediaCuts < MaxMediaCuts /\ mediaCuts' = mediaCuts + 1

\* It is refused when the job is no longer running, also because the task
\* itself has just ended it: the task is cancelled where it stands, before
\* the verdict or the stages that should follow.
LoseMediaLease(w) ==
    /\ MediaAt(w, "watching")
    /\ ~StillMine(w)
    /\ MediaIsCut
    /\ mediaActor' = [mediaActor EXCEPT ![w] = MediaIdle, ![mediaActor[w].job] = MediaIdle]
    /\ UNCHANGED <<media, mediaJobs, mediaLog>>

\* An exception of the heartbeat fails the job and leaves the task alone.
HeartbeatRaises(w) ==
    /\ MediaAt(w, "watching")
    /\ MediaIsCut
    /\ MediaGoes(w, "raised")
    /\ mediaLog' = [mediaLog EXCEPT !.orphaned = @ \cup {MyKey(w)}]
    /\ UNCHANGED <<media, mediaJobs>>

---------------------------------------------------------------------------
(* Exceptions, the process and the clock *)

\* A transaction raises, before or after it has committed: the loop gives the
\* tick up; a task ends, and the loop that watches it fails its job.
MediaErrs(x) ==
    /\ mediaActor[x].at \notin {"idle", "watching"}
    /\ MediaIsCut
    /\ MediaLeaves(x, "raised")
    /\ UNCHANGED <<media, mediaJobs, mediaLog>>

\* The claim was committed, the refresh of the row after it raises.
ClaimErrs(w) ==
    /\ MediaAt(w, "claiming")
    /\ MediaIsCut
    /\ \E k \in MediaKeys : MediaClaimable(k) /\ mediaJobs' = Claimed(k, w)
    /\ MediaMoves(w, MediaIdle)
    /\ UNCHANGED <<media, mediaLog>>

\* A kill, or stop(), which cancels the task and writes nothing.
KillMediaWorker(w) ==
    /\ \E x \in MediaActors : (x = w \/ mediaActor[x].by = w) /\ ~MediaAt(x, "idle")
    /\ MediaIsCut
    /\ mediaActor' = [x \in MediaActors |->
         IF x = w \/ mediaActor[x].by = w THEN MediaIdle ELSE mediaActor[x]]
    /\ UNCHANGED <<media, mediaJobs, mediaLog>>

MediaRipens(k) ==
    /\ mediaJobs[k].status \in {"running", "failed"}
    /\ ~mediaJobs[k].ripe
    /\ mediaJobs' = [mediaJobs EXCEPT ![k].ripe = TRUE]
    /\ UNCHANGED <<media, mediaActor, mediaCuts, mediaLog>>

\* The API queues what is missing as well, at any time.
BackfillMedia(k) ==
    /\ k \in MissingKeys(Unfinished)
    /\ mediaJobs[k].status = "absent"
    /\ mediaJobs' = [mediaJobs EXCEPT ![k].status = "pending"]
    /\ UNCHANGED <<media, mediaActor, mediaCuts, mediaLog>>

LoopStep(w) ==
    MediaTick(w) \/ Terminalize(w) \/ ClaimMediaJob(w) \/ NothingToClaim(w)

TaskStep(t) ==
    \/ Fetch(t) \/ SaveDownload(t) \/ EndDownload(t) \/ RefuseDownload(t)
    \/ EndStage(t) \/ WorkRaises(t)

\* What loops and tasks both do.
SharedStep(x) ==
    \/ CreateMediaJob(x) \/ MediaJobsCreated(x) \/ SettleRead(x) \/ SettleWrite(x)
    \/ AssetsSettled(x) \/ MediaFailRead(x) \/ FailMediaJob(x)

MediaNext ==
    \/ \E w \in MediaWorkers : \/ LoopStep(w) \/ RefreshMediaLease(w) \/ LoseMediaLease(w)
                                \/ HeartbeatRaises(w) \/ ClaimErrs(w) \/ KillMediaWorker(w)
    \/ \E t \in MediaAttempts : TaskStep(t)
    \/ \E x \in MediaActors : SharedStep(x) \/ MediaErrs(x)
    \/ \E k \in MediaKeys : MediaRipens(k) \/ BackfillMedia(k)

MediaSpec == MediaInit /\ [][MediaNext]_mediaVars

\* The loop goes on, tasks end in spite of heartbeats, deadlines pass.
MediaFairness ==
    /\ \A w \in MediaWorkers :
         /\ WF_mediaVars(LoopStep(w) \/ SharedStep(w))
         /\ WF_mediaVars(\E t \in MediaAttempts : mediaActor[t].by = w /\ (TaskStep(t) \/ SharedStep(t)))
    /\ WF_mediaVars(\E k \in MediaKeys : MediaRipens(k))

---------------------------------------------------------------------------
(* Properties *)

MediaTypeOK ==
    /\ media \in [Assets -> [download : {"absent", "not_downloaded", "downloaded", "failed"},
                             analysis : {"absent", "pending", "partial", "succeeded"}]]
    /\ mediaJobs \in [MediaKeys -> MediaRows]
    /\ \A x \in MediaActors :
         /\ mediaActor[x].at \in MediaPlaces
         /\ mediaActor[x].job \in MediaAttempts \cup {NoMediaJob}
         /\ mediaActor[x].todo \subseteq MediaKeys
         /\ mediaActor[x].settle \subseteq Assets
    /\ mediaCuts \in 0..MaxMediaCuts
    /\ mediaLog \in MediaHistory

\* With one worker, which may be killed, lose its lease or meet an exception
\* before or after any commit, an asset whose analysis is reported succeeded
\* was downloaded and went through each of its stages, also when the stages
\* are created one by one around the interruption and settled from a list
\* read earlier.  It takes that no task of the asset was left alone by a
\* heartbeat that raised and that the asset fitted into the list of every tick.
FinishedIsWhole == \A a \in Assets :
    /\ media[a].analysis = "succeeded"
    /\ a \notin mediaLog.passedOver
    /\ \A k \in mediaLog.orphaned : k[1] # a
    => \A k \in MediaKeys : k[1] = a => k \in mediaLog.done

\* With one worker, a job that is not over can be claimed, or closed, or will
\* be when its lease or its backoff runs out, although failing a job is not
\* fenced and works from an attempt read earlier.  It takes that no task of
\* the job was left alone: such a task may write "failed" over the last
\* attempt, which nobody claims or closes any more.
NoMediaJobIsStuck == \A k \in MediaKeys \ mediaLog.orphaned :
    mediaJobs[k].status \in {"pending", "failed"} => mediaJobs[k].attempt < MediaTries

\* Every job ends, unless a task of it was left alone.  And unless a worker is
\* cut short every registered asset gets its verdict, except one that from
\* some time on is never looked at because older assets, which failed or are
\* partial, fill the list for ever.  (An interruption between the last write
\* of a job and the verdict leaves the asset pending for ever.)
MediaEnds == <>[](\A a \in Assets : media[a].download # "absent" =>
    /\ \A k \in MediaKeys \ mediaLog.orphaned :
          k[1] = a => mediaJobs[k].status \in MediaEnded \cup {"absent"}
    /\ \/ media[a].analysis \in {"succeeded", "partial"}
       \/ mediaCuts > 0
       \/ a \in Unfinished \ PendingAssets)
=============================================================================
