------------------------- MODULE AnalysisJobProofs -------------------------
(***************************************************************************)
(* Theorems about AnalysisJob, for any jobs, follow-ups, processes (also   *)
(* processes that share a worker id, but for JobsAreNeverStuck) and any    *)
(* bound on the attempts.                                                  *)
(***************************************************************************)
EXTENDS AnalysisJob, TLAPS

\* A worker that is not idle has a job.
BusyHasJob == \A w \in JobWorkers : ~At(w, "idle") => JobOf(w) \in Jobs

JobTypeInv == JobTypeOK /\ BusyHasJob

-----------------------------------------------------------------------------
(* What one step may do to one row, and to one worker. *)

IsFcn(f, S) == f = [x \in S |-> f[x]]

JobEndedRow(row, status) == [row EXCEPT !.status = status, !.owner = JobNobody, !.ripe = FALSE]
Cancelled(row) == [row EXCEPT !.status = "cancelled", !.cancel = TRUE, !.ripe = FALSE]

\* Given out: claim_job takes it.
RowTaken(j) == JobClaimable(j) /\ \E w \in JobWorkers : jobs'[j] = Taken(jobs[j], JobWorkerId[w])

\* Brought to an end, or back to waiting, by the claim of another job or by a worker.
RowEnded(j) ==
    /\ jobs[j].status = "running"
    /\ \E s \in {"succeeded", "cancelled", "failed_terminal", "retry_wait"} :
          jobs'[j] = JobEndedRow(jobs[j], s)

\* The lease is renewed or lapses, or the backoff is over.
RowTimed(j) ==
    \/ jobs[j].status = "running" /\ jobs'[j] = [jobs[j] EXCEPT !.ripe = FALSE]
    \/ jobs[j].status \in {"running", "retry_wait"} /\ jobs'[j] = [jobs[j] EXCEPT !.ripe = TRUE]

\* request_cancel writes.
RowCancelled(j) ==
    /\ \/ jobCancel[j] = "queued" /\ jobs'[j] = Cancelled(jobs[j])
       \/ jobCancel[j] = "running" /\ jobs'[j] = [jobs[j] EXCEPT !.cancel = TRUE]
    /\ jobCancel'[j] = "done"

\* Created as what follows the job of a worker.
RowCreated(j) ==
    /\ jobs[j].status = "absent"
    /\ jobs'[j] = PendingRow
    /\ \E w \in JobWorkers : At(w, "following") /\ FollowUp[JobOf(w)] = j

RowStep(j) == \/ jobs'[j] = jobs[j]
              \/ RowTaken(j) \/ RowEnded(j) \/ RowTimed(j) \/ RowCancelled(j) \/ RowCreated(j)

\* A pending cancellation has read a job that exists, and writes once.
CancelStep(j) ==
    \/ jobCancel'[j] = jobCancel[j]
    \/ /\ jobCancel[j] = "none" /\ jobs[j].status # "absent"
       /\ jobCancel'[j] \in {"queued", "running"} /\ jobs'[j] = jobs[j]
    \/ jobCancel[j] \in {"queued", "running"} /\ RowCancelled(j)

\* A worker that is going to create a follow-up has completed its job.
WorkerStep(w) ==
    /\ jobWorker'[w] \in [at : WorkerPlaces, job : Jobs \cup {NoJob}, seen : 0..JobTries]
    /\ jobWorker'[w].at # "idle" => jobWorker'[w].job \in Jobs
    /\ jobWorker'[w].at = "following" =>
          \/ jobWorker'[w] = jobWorker[w]
          \/ jobs'[jobWorker'[w].job].status = "succeeded"

JobStep == /\ IsFcn(jobs', Jobs) /\ IsFcn(jobCancel', Jobs) /\ IsFcn(jobWorker', JobWorkers)
           /\ \A j \in Jobs : RowStep(j) /\ CancelStep(j)
           /\ \A w \in JobWorkers : WorkerStep(w)

-----------------------------------------------------------------------------
(* Every action makes such steps. *)

USE DEF IsFcn

\* What a busy worker and its job are.
LEMMA Busy ==
    ASSUME JobTypeInv, NEW w \in JobWorkers, jobWorker[w].at # "idle"
    PROVE  JobOf(w) \in Jobs /\ jobs[JobOf(w)] \in JobRows
BY DEF JobTypeInv, JobTypeOK, BusyHasJob, At, JobOf

\* A step of the worker's place alone.
LEMMA GoesIsStep ==
    ASSUME JobTypeInv, NEW w \in JobWorkers, NEW place \in WorkerPlaces \ {"idle"},
           jobWorker[w].at # "idle", Goes(w, place),
           place = "following" => jobs'[JobOf(w)].status = "succeeded"
    PROVE  IsFcn(jobWorker', JobWorkers) /\ \A v \in JobWorkers : WorkerStep(v)
<1>1. jobWorker' = [jobWorker EXCEPT ![w].at = place]
  BY DEF Goes
<1>2. JobOf(w) \in Jobs
  BY Busy
<1> QED BY <1>1, <1>2 DEF JobTypeInv, JobTypeOK, BusyHasJob, WorkerStep, At, JobOf

\* A worker that rests.
LEMMA RestsIsStep ==
    ASSUME JobTypeInv, NEW w \in JobWorkers, Rests(w)
    PROVE  IsFcn(jobWorker', JobWorkers) /\ \A v \in JobWorkers : WorkerStep(v)
<1>1. jobWorker' = [jobWorker EXCEPT ![w] = JobIdle]
  BY DEF Rests
<1>2. JobIdle \in [at : WorkerPlaces, job : Jobs \cup {NoJob}, seen : 0..JobTries]
  BY JobTriesAssumption DEF JobIdle, WorkerPlaces
<1>3. JobIdle.at = "idle"
  BY DEF JobIdle
<1> QED BY <1>1, <1>2, <1>3 DEF JobTypeInv, JobTypeOK, BusyHasJob, WorkerStep, At, JobOf

\* Nothing happens to the workers.
LEMMA WorkersStay ==
    ASSUME JobTypeInv, UNCHANGED jobWorker
    PROVE  IsFcn(jobWorker', JobWorkers) /\ \A v \in JobWorkers : WorkerStep(v)
BY DEF JobTypeInv, JobTypeOK, BusyHasJob, WorkerStep, At, JobOf

\* Nothing happens to the rows and cancellations.
LEMMA RowsStay ==
    ASSUME JobTypeInv, UNCHANGED <<jobs, jobCancel>>
    PROVE  /\ IsFcn(jobs', Jobs) /\ IsFcn(jobCancel', Jobs)
           /\ \A j \in Jobs : RowStep(j) /\ CancelStep(j)
BY DEF JobTypeInv, JobTypeOK, RowStep, CancelStep

\* A worker brings the job it holds to an end, or gives it back.
LEMMA WorkerEndsRow ==
    ASSUME JobTypeInv, NEW i \in Jobs, jobs[i].status = "running", UNCHANGED jobCancel,
           NEW s \in {"succeeded", "cancelled", "failed_terminal", "retry_wait"},
           jobs' = [jobs EXCEPT ![i] = JobEndedRow(@, s)]
    PROVE  /\ IsFcn(jobs', Jobs) /\ IsFcn(jobCancel', Jobs)
           /\ \A j \in Jobs : RowStep(j) /\ CancelStep(j)
<1>1. jobs'[i] = JobEndedRow(jobs[i], s) /\ \A j \in Jobs \ {i} : jobs'[j] = jobs[j]
  BY DEF JobTypeInv, JobTypeOK
<1>2. RowEnded(i)
  BY <1>1 DEF RowEnded
<1> QED BY <1>1, <1>2 DEF JobTypeInv, JobTypeOK, RowStep, CancelStep

LEMMA ExceptOfFcn ==
    ASSUME NEW S, NEW f, IsFcn(f, S), NEW x \in S, NEW v, NEW g, g = [f EXCEPT ![x] = v]
    PROVE  IsFcn(g, S) /\ g[x] = v /\ \A y \in S \ {x} : g[y] = f[y]
<1>1. DOMAIN f = S
  OBVIOUS
<1>2. [f EXCEPT ![x] = v] = [y \in S |-> IF y = x THEN v ELSE f[y]]
  BY <1>1
<1> QED BY <1>2

\* The claim.
LEMMA ClaimSteps ==
    ASSUME JobTypeInv, NEW w \in JobWorkers, ClaimJob(w)
    PROVE  JobStep
<1>1. \A j \in Jobs : \/ Closed[j] = jobs[j]
                      \/ jobs[j].status = "running" /\ Closed[j] = JobEndedRow(jobs[j], "failed_terminal")
  <2> TAKE j \in Jobs
  <2>1. CASE Exhausted(j)
    <3>1. Closed[j] = JobEndedRow(jobs[j], "failed_terminal")
      BY <2>1, Zenon DEF Closed, JobEndedRow
    <3> QED BY <2>1, <3>1 DEF Exhausted
  <2>2. CASE ~Exhausted(j)
    BY <2>2 DEF Closed
  <2> QED BY <2>1, <2>2
<1>2. IsFcn(jobCancel', Jobs) /\ UNCHANGED jobCancel
  BY DEF ClaimJob, JobTypeInv, JobTypeOK
<1>3. CASE \E j \in Jobs :
            /\ JobClaimable(j)
            /\ jobs' = [Closed EXCEPT ![j] = Taken(jobs[j], JobWorkerId[w])]
            /\ jobWorker' = [jobWorker EXCEPT ![w] = [at |-> "running", job |-> j, seen |-> 0]]
  <2>1. PICK i \in Jobs :
            /\ JobClaimable(i)
            /\ jobs' = [Closed EXCEPT ![i] = Taken(jobs[i], JobWorkerId[w])]
            /\ jobWorker' = [jobWorker EXCEPT ![w] = [at |-> "running", job |-> i, seen |-> 0]]
    BY <1>3
  <2>2. /\ IsFcn(jobs', Jobs)
        /\ jobs'[i] = Taken(jobs[i], JobWorkerId[w])
        /\ \A j \in Jobs \ {i} : jobs'[j] = Closed[j]
    <3>1. IsFcn(Closed, Jobs)
      BY DEF Closed
    <3> QED BY <2>1, <3>1, ExceptOfFcn, Zenon
  <2>3. \A j \in Jobs : RowStep(j)
    BY <1>1, <2>1, <2>2 DEF RowStep, RowTaken, RowEnded
  <2>4. IsFcn(jobWorker', JobWorkers) /\ \A v \in JobWorkers : WorkerStep(v)
    <3> DEFINE r == [at |-> "running", job |-> i, seen |-> 0]
    <3>1. /\ r \in [at : WorkerPlaces, job : Jobs \cup {NoJob}, seen : 0..JobTries]
          /\ r.at = "running" /\ r.job = i
      BY JobTriesAssumption DEF WorkerPlaces
    <3>2. jobWorker' = [jobWorker EXCEPT ![w] = r]
      BY <2>1
    <3> HIDE DEF r
    <3> QED BY <3>1, <3>2 DEF JobTypeInv, JobTypeOK, BusyHasJob, WorkerStep, At, JobOf
  <2> QED BY <1>2, <2>2, <2>3, <2>4 DEF JobStep, CancelStep
<1>4. CASE jobs' = Closed /\ UNCHANGED jobWorker
  <2>1. IsFcn(jobs', Jobs) /\ \A j \in Jobs : RowStep(j)
    BY <1>1, <1>4 DEF RowStep, RowEnded, Closed
  <2> QED BY <1>2, <1>4, <2>1, WorkersStay DEF JobStep, CancelStep
<1> QED BY <1>3, <1>4 DEF ClaimJob

\* The steps of a worker that write no row.
LEMMA QuietSteps ==
    ASSUME JobTypeInv, NEW w \in JobWorkers,
           HeartbeatRead(w) \/ AnalysisEnds(w) \/ Interrupted(w) \/ FailRead(w) \/ KillJobWorker(w)
    PROVE  JobStep
<1>1. UNCHANGED <<jobs, jobCancel>>
  BY DEF HeartbeatRead, AnalysisEnds, Interrupted, FailRead, KillJobWorker
<1>2. CASE HeartbeatRead(w) \/ AnalysisEnds(w) \/ Interrupted(w)
  <2>1. \E place \in {"cancelling", "refreshing", "returned", "raised"} : Goes(w, place)
    BY <1>2 DEF HeartbeatRead, AnalysisEnds, Interrupted
  <2>2. jobWorker[w].at # "idle"
    BY <1>2 DEF HeartbeatRead, AnalysisEnds, Interrupted, At
  <2> QED BY <1>1, <2>1, <2>2, RowsStay, GoesIsStep DEF JobStep, WorkerPlaces
<1>3. CASE FailRead(w)
  <2>1. jobWorker[w].at # "idle"
    BY <1>3 DEF FailRead, At
  <2>2. JobOf(w) \in Jobs /\ jobs[JobOf(w)].attempt \in 0..JobTries
    BY <2>1, Busy DEF JobRows
  <2>3. jobWorker' = [jobWorker EXCEPT ![w] = [at |-> "failing", job |-> JobOf(w),
                                               seen |-> jobs[JobOf(w)].attempt]]
    BY <1>3 DEF FailRead
  <2>4. IsFcn(jobWorker', JobWorkers) /\ \A v \in JobWorkers : WorkerStep(v)
    BY <2>2, <2>3 DEF JobTypeInv, JobTypeOK, BusyHasJob, WorkerStep, At, JobOf, WorkerPlaces
  <2> QED BY <1>1, <2>4, RowsStay DEF JobStep
<1>4. CASE KillJobWorker(w)
  BY <1>1, <1>4, RowsStay, RestsIsStep DEF JobStep, KillJobWorker
<1> QED BY <1>2, <1>3, <1>4

\* A renewed or refused lease.
LEMMA RefreshSteps ==
    ASSUME JobTypeInv, NEW w \in JobWorkers, RefreshLease(w)
    PROVE  JobStep
<1>1. jobWorker[w].at # "idle" /\ JobOf(w) \in Jobs /\ UNCHANGED jobCancel
  BY Busy DEF RefreshLease, At
<1>2. CASE /\ JobFenced(w)
           /\ jobs' = [jobs EXCEPT ![JobOf(w)].ripe = FALSE] /\ Goes(w, "running")
  <2>1. IsFcn(jobs', Jobs) /\ \A j \in Jobs : RowStep(j)
    BY <1>1, <1>2 DEF JobTypeInv, JobTypeOK, RowStep, RowTimed, JobFenced
  <2>2. IsFcn(jobWorker', JobWorkers) /\ \A v \in JobWorkers : WorkerStep(v)
    BY <1>1, <1>2, GoesIsStep DEF WorkerPlaces
  <2> QED BY <1>1, <2>1, <2>2 DEF JobStep, CancelStep, JobTypeInv, JobTypeOK
<1>3. CASE UNCHANGED jobs /\ Rests(w)
  BY <1>1, <1>3, RowsStay, RestsIsStep DEF JobStep
<1> QED BY <1>2, <1>3 DEF RefreshLease

\* A job that is cancelled, completed or failed by the worker that holds it.
LEMMA EndSteps ==
    ASSUME JobTypeInv, NEW w \in JobWorkers, MarkCancelled(w) \/ CompleteJob(w) \/ FailJob(w)
    PROVE  JobStep
<1>1. jobWorker[w].at # "idle" /\ JobOf(w) \in Jobs /\ UNCHANGED jobCancel
  BY Busy DEF MarkCancelled, CompleteJob, FailJob, At
<1>2. CASE UNCHANGED jobs /\ Rests(w)
  BY <1>1, <1>2, RowsStay, RestsIsStep DEF JobStep
<1>3. ASSUME NEW s \in {"succeeded", "cancelled", "failed_terminal", "retry_wait"}, JobFenced(w),
             jobs' = [jobs EXCEPT ![JobOf(w)] = JobEndedRow(@, s)],
             Rests(w) \/ (s = "succeeded" /\ Goes(w, "following"))
      PROVE  JobStep
  <2>1. /\ IsFcn(jobs', Jobs) /\ IsFcn(jobCancel', Jobs)
        /\ \A j \in Jobs : RowStep(j) /\ CancelStep(j)
    BY <1>1, <1>3, WorkerEndsRow DEF JobFenced
  <2>2. jobs'[JobOf(w)] = JobEndedRow(jobs[JobOf(w)], s) /\ jobs[JobOf(w)] \in JobRows
    BY <1>1, <1>3 DEF JobTypeInv, JobTypeOK
  <2>3. jobs'[JobOf(w)].status = s
    BY <2>2 DEF JobEndedRow, JobRows
  <2>4. IsFcn(jobWorker', JobWorkers) /\ \A v \in JobWorkers : WorkerStep(v)
    BY <1>1, <1>3, <2>3, RestsIsStep, GoesIsStep DEF WorkerPlaces
  <2> QED BY <2>1, <2>4 DEF JobStep
<1>4. CASE MarkCancelled(w)
  <2>1. CASE JobFenced(w) /\ jobs[JobOf(w)].cancel
    BY <1>3, <1>4, <2>1 DEF MarkCancelled, JobEndedRow
  <2>2. CASE ~(JobFenced(w) /\ jobs[JobOf(w)].cancel)
    BY <1>2, <1>4, <2>2 DEF MarkCancelled
  <2> QED BY <2>1, <2>2
<1>5. CASE CompleteJob(w)
  <2>1. CASE JobFenced(w) /\ ~jobs[JobOf(w)].cancel
    BY <1>3, <1>5, <2>1 DEF CompleteJob, JobEndedRow
  <2>2. CASE ~(JobFenced(w) /\ ~jobs[JobOf(w)].cancel)
    BY <1>2, <1>5, <2>2 DEF CompleteJob
  <2> QED BY <2>1, <2>2
<1>6. CASE FailJob(w)
  <2>1. CASE JobFenced(w)
    <3>1. \E s \in {"failed_terminal", "retry_wait"} : jobs' = [jobs EXCEPT ![JobOf(w)] = JobEndedRow(@, s)]
      BY <1>6, <2>1 DEF FailJob, JobEndedRow
    <3> QED BY <1>3, <1>6, <2>1, <3>1 DEF FailJob
  <2>2. CASE ~JobFenced(w)
    BY <1>2, <1>6, <2>2 DEF FailJob
  <2> QED BY <2>1, <2>2
<1> QED BY <1>4, <1>5, <1>6

\* A follow-up that is created, was there, or is not created.
LEMMA FollowSteps ==
    ASSUME JobTypeInv, NEW w \in JobWorkers, CreateFollowUp(w)
    PROVE  JobStep
<1>1. At(w, "following") /\ JobOf(w) \in Jobs /\ UNCHANGED jobCancel /\ Rests(w)
  BY Busy DEF CreateFollowUp, At
<1>2. CASE UNCHANGED jobs
  BY <1>1, <1>2, RowsStay, RestsIsStep DEF JobStep
<1>3. CASE FollowUp[JobOf(w)] # NoJob /\ jobs' = Enqueue(jobs, FollowUp[JobOf(w)])
  <2>1. FollowUp[JobOf(w)] \in Jobs
    BY <1>1, <1>3, FollowUpAssumption
  <2>2. IsFcn(jobs', Jobs) /\ \A j \in Jobs : RowStep(j)
    BY <1>1, <1>3, <2>1 DEF Enqueue, JobTypeInv, JobTypeOK, RowStep, RowCreated
  <2> QED BY <1>1, <2>2, RestsIsStep DEF JobStep, CancelStep, JobTypeInv, JobTypeOK
<1> QED BY <1>2, <1>3 DEF CreateFollowUp

\* The clock and the canceller.
LEMMA OutsideSteps ==
    ASSUME JobTypeInv, NEW i \in Jobs, JobRipens(i) \/ CancelJobRead(i) \/ CancelJobWrite(i)
    PROVE  JobStep
<1>1. UNCHANGED jobWorker
  BY DEF JobRipens, CancelJobRead, CancelJobWrite
<1>2. CASE JobRipens(i)
  <2>1. IsFcn(jobs', Jobs) /\ \A j \in Jobs : RowStep(j)
    BY <1>2 DEF JobRipens, JobTypeInv, JobTypeOK, RowStep, RowTimed
  <2> QED BY <1>1, <1>2, <2>1, WorkersStay DEF JobRipens, JobStep, CancelStep, JobTypeInv, JobTypeOK
<1>3. CASE CancelJobRead(i)
  <2>1. /\ IsFcn(jobs', Jobs) /\ IsFcn(jobCancel', Jobs)
        /\ \A j \in Jobs : RowStep(j) /\ CancelStep(j)
    BY <1>3 DEF CancelJobRead, JobTypeInv, JobTypeOK, RowStep, CancelStep
  <2> QED BY <1>1, <2>1, WorkersStay DEF JobStep
<1>4. CASE CancelJobWrite(i)
  <2>1. /\ jobCancel[i] \in {"queued", "running"} /\ jobCancel'[i] = "done"
        /\ IsFcn(jobCancel', Jobs) /\ \A j \in Jobs \ {i} : jobCancel'[j] = jobCancel[j]
    BY <1>4 DEF CancelJobWrite, JobTypeInv, JobTypeOK
  <2>2. CASE jobCancel[i] = "queued"
    <3>1. jobs' = [jobs EXCEPT ![i] = Cancelled(@)]
      BY <1>4, <2>2 DEF CancelJobWrite, Cancelled
    <3>2. /\ IsFcn(jobs', Jobs) /\ jobs'[i] = Cancelled(jobs[i])
          /\ \A j \in Jobs \ {i} : jobs'[j] = jobs[j]
      BY <3>1 DEF JobTypeInv, JobTypeOK
    <3>3. RowCancelled(i)
      BY <2>1, <2>2, <3>2 DEF RowCancelled
    <3> QED BY <1>1, <2>1, <3>2, <3>3, WorkersStay DEF JobStep, RowStep, CancelStep
  <2>3. CASE jobCancel[i] = "running"
    <3>1. /\ IsFcn(jobs', Jobs) /\ jobs'[i] = [jobs[i] EXCEPT !.cancel = TRUE]
          /\ \A j \in Jobs \ {i} : jobs'[j] = jobs[j]
      BY <1>4, <2>3 DEF CancelJobWrite, JobTypeInv, JobTypeOK
    <3>2. RowCancelled(i)
      BY <2>1, <2>3, <3>1 DEF RowCancelled
    <3> QED BY <1>1, <2>1, <3>1, <3>2, WorkersStay DEF JobStep, RowStep, CancelStep
  <2> QED BY <2>1, <2>2, <2>3
<1> QED BY <1>2, <1>3, <1>4

LEMMA NextSteps == JobTypeInv /\ JobNext => JobStep
<1> SUFFICES ASSUME JobTypeInv, JobNext PROVE JobStep
  OBVIOUS
<1>1. ASSUME NEW w \in JobWorkers, JobWorkerStep(w) PROVE JobStep
  BY <1>1, ClaimSteps, RefreshSteps, EndSteps, FollowSteps, QuietSteps DEF JobWorkerStep
<1> QED BY <1>1, QuietSteps, OutsideSteps DEF JobNext

-----------------------------------------------------------------------------
(* Type correctness. *)

LEMMA BlankRows ==
    /\ NoRow \in JobRows /\ NoRow.status = "absent" /\ NoRow.attempt = 0
    /\ PendingRow \in JobRows /\ PendingRow.status = "pending" /\ PendingRow.attempt = 0
<1>1. NoRow \in JobRows /\ NoRow.status = "absent" /\ NoRow.attempt = 0
  <2>1. 0 \in 0..JobTries
    BY JobTriesAssumption
  <2>2. "absent" \in JobStatuses
    BY DEF JobStatuses
  <2> QED BY <2>1, <2>2 DEF NoRow, JobRows
<1> QED BY <1>1 DEF PendingRow, JobRows, JobStatuses

\* The rows that a step of a well-formed row makes are well formed.
LEMMA RowStaysTyped ==
    ASSUME NEW j \in Jobs, jobs[j] \in JobRows, RowStep(j)
    PROVE  jobs'[j] \in JobRows
<1> DEFINE Owners == {JobWorkerId[w] : w \in JobWorkers} \cup {JobNobody}
<1>1. /\ jobs[j].attempt \in 0..JobTries /\ jobs[j].status \in JobStatuses
      /\ jobs[j].owner \in Owners /\ jobs[j].cancel \in BOOLEAN /\ jobs[j].ripe \in BOOLEAN
  BY DEF JobRows
<1>2. CASE RowTaken(j)
  <2>1. PICK w \in JobWorkers : jobs'[j] = Taken(jobs[j], JobWorkerId[w])
    BY <1>2 DEF RowTaken
  <2>2. jobs[j].attempt + 1 \in 0..JobTries
    BY <1>1, <1>2, JobTriesAssumption DEF RowTaken, JobClaimable
  <2>3. JobWorkerId[w] \in Owners
    OBVIOUS
  <2> QED BY <2>1, <2>2, <2>3 DEF Taken, JobRows, JobStatuses
<1>3. CASE RowEnded(j)
  BY <1>3 DEF RowEnded, JobEndedRow, JobRows, JobStatuses
<1>4. CASE RowTimed(j)
  BY <1>4 DEF RowTimed, JobRows
<1>5. CASE RowCancelled(j)
  BY <1>5 DEF RowCancelled, Cancelled, JobRows, JobStatuses
<1>6. CASE RowCreated(j)
  BY <1>6, BlankRows DEF RowCreated
<1> QED BY <1>2, <1>3, <1>4, <1>5, <1>6 DEF RowStep

LEMMA TypedAtFirst == JobInit => JobTypeInv
<1> SUFFICES ASSUME JobInit PROVE JobTypeInv
  OBVIOUS
<1>1. NoRow \in JobRows /\ PendingRow \in JobRows
  BY BlankRows
<1>2. JobIdle \in [at : WorkerPlaces, job : Jobs \cup {NoJob}, seen : 0..JobTries] /\ JobIdle.at = "idle"
  BY JobTriesAssumption DEF JobIdle, WorkerPlaces
<1> QED BY <1>1, <1>2 DEF JobInit, JobTypeInv, JobTypeOK, BusyHasJob, At

LEMMA TypedAfter == JobTypeInv /\ [JobNext]_jobVars => JobTypeInv'
<1> SUFFICES ASSUME JobTypeInv, [JobNext]_jobVars PROVE JobTypeInv'
  OBVIOUS
<1>1. CASE JobNext
  <2>1. JobStep
    BY <1>1, NextSteps
  <2>2. \A j \in Jobs : jobs'[j] \in JobRows
    BY <2>1, RowStaysTyped DEF JobTypeInv, JobTypeOK, JobStep
  <2>3. \A j \in Jobs : jobCancel'[j] \in {"none", "queued", "running", "done"}
    BY <2>1 DEF JobTypeInv, JobTypeOK, JobStep, CancelStep, RowCancelled
  <2> QED BY <2>1, <2>2, <2>3 DEF JobTypeInv, JobTypeOK, BusyHasJob, JobStep, WorkerStep, At, JobOf
<1>2. CASE UNCHANGED jobVars
  BY <1>2 DEF jobVars, JobTypeInv, JobTypeOK, BusyHasJob, At, JobOf
<1> QED BY <1>1, <1>2

\* The rows of analysis_jobs, the workers and the cancellations are well formed
\* in every reachable state: no row has more attempts than it may have.
THEOREM JobTypeCorrect == JobSpec => []JobTypeOK
<1>1. JobTypeInv => JobTypeOK
  BY DEF JobTypeInv
<1> QED BY <1>1, TypedAtFirst, TypedAfter, PTL DEF JobSpec

-----------------------------------------------------------------------------
(* What follows a job. *)

\* Stored once as succeeded, and at most overwritten by a cancellation.
Earned(j) ==
    \/ jobs[j].status = "succeeded"
    \/ jobs[j].status = "cancelled" /\ jobCancel[j] = "done"

\* Nothing has begun with a job that does not exist, and a worker that is about
\* to create what follows a job has seen that job succeed.
JobInv ==
    /\ JobTypeInv
    /\ \A j \in Jobs : jobs[j].status = "absent" => jobs[j].attempt = 0 /\ jobCancel[j] = "none"
    /\ \A w \in JobWorkers : At(w, "following") => Earned(JobOf(w))
    /\ FollowUpIsEarned

\* What has been earned stays so.
LEMMA EarnedStays ==
    ASSUME JobTypeInv, JobStep, NEW j \in Jobs, Earned(j)
    PROVE  Earned(j)'
<1>1. jobs[j] \in JobRows /\ RowStep(j) /\ CancelStep(j)
  BY DEF JobTypeInv, JobTypeOK, JobStep
<1>2. CASE jobs'[j] = jobs[j]
  BY <1>1, <1>2 DEF Earned, CancelStep
<1>3. CASE RowCancelled(j)
  <2>1. CASE jobs'[j] = Cancelled(jobs[j])
    <3>1. jobs'[j].status = "cancelled"
      BY <1>1, <2>1 DEF Cancelled, JobRows
    <3> QED BY <1>3, <3>1 DEF RowCancelled, Earned
  <2>2. CASE jobs'[j] = [jobs[j] EXCEPT !.cancel = TRUE]
    <3>1. jobs'[j].status = jobs[j].status
      BY <1>1, <2>2 DEF JobRows
    <3> QED BY <1>3, <3>1 DEF RowCancelled, Earned
  <2> QED BY <1>3, <2>1, <2>2 DEF RowCancelled
<1>4. ~RowTaken(j) /\ ~RowEnded(j) /\ ~RowTimed(j) /\ ~RowCreated(j)
  BY DEF Earned, RowTaken, JobClaimable, RowEnded, RowTimed, RowCreated
<1> QED BY <1>1, <1>2, <1>3, <1>4 DEF RowStep

\* A row that comes into being is created pending, by a worker for the job it follows.
LEMMA BornPending ==
    ASSUME JobInv, JobStep, NEW j \in Jobs
    PROVE  /\ jobs[j].status # "absent" => jobs'[j].status # "absent"
           /\ jobs[j].status = "absent" => jobs'[j] = jobs[j] \/ RowCreated(j)
           /\ jobs'[j].status = "absent" => jobs'[j] = jobs[j]
<1>1. jobs[j] \in JobRows /\ RowStep(j) /\ CancelStep(j)
  BY DEF JobInv, JobTypeInv, JobTypeOK, JobStep
<1>2. CASE RowTaken(j)
  BY <1>1, <1>2 DEF RowTaken, JobClaimable, Taken, JobRows
<1>3. CASE RowEnded(j)
  BY <1>1, <1>3 DEF RowEnded, JobEndedRow, JobRows
<1>4. CASE RowTimed(j)
  BY <1>1, <1>4 DEF RowTimed, JobRows
<1>5. CASE RowCancelled(j)
  <2>1. jobs[j].status # "absent"
    BY <1>5 DEF RowCancelled, JobInv
  <2> QED BY <1>1, <1>5, <2>1 DEF RowCancelled, Cancelled, JobRows
<1>6. CASE RowCreated(j)
  BY <1>6, BlankRows DEF RowCreated
<1> QED BY <1>1, <1>2, <1>3, <1>4, <1>5, <1>6 DEF RowStep

LEMMA InvAtFirst == JobInit => JobInv
<1> SUFFICES ASSUME JobInit PROVE JobInv
  OBVIOUS
<1>1. JobTypeInv
  BY TypedAtFirst
<1>2. \A j \in Jobs : jobs[j] \in {NoRow, PendingRow} /\ jobCancel[j] = "none"
  BY DEF JobInit
<1>3. \A w \in JobWorkers : ~At(w, "following")
  BY DEF JobInit, At, JobIdle
<1>4. \A j \in Jobs : FollowUp[j] # NoJob => jobs[FollowUp[j]].status = "absent"
  <2> SUFFICES ASSUME NEW j \in Jobs, FollowUp[j] # NoJob
               PROVE  jobs[FollowUp[j]].status = "absent"
    OBVIOUS
  <2>1. FollowUp[j] \in Jobs /\ FollowUp[j] \in FollowUps
    BY FollowUpAssumption DEF FollowUps
  <2> QED BY <2>1, BlankRows DEF JobInit
<1> QED BY <1>1, <1>2, <1>3, <1>4, BlankRows DEF JobInv, FollowUpIsEarned

LEMMA InvAfter == JobInv /\ [JobNext]_jobVars => JobInv'
<1> SUFFICES ASSUME JobInv, [JobNext]_jobVars PROVE JobInv'
  OBVIOUS
<1>1. JobTypeInv'
  BY TypedAfter DEF JobInv
<1>2. CASE UNCHANGED jobVars
  BY <1>1, <1>2 DEF jobVars, JobInv, FollowUpIsEarned, Earned, At, JobOf
<1>3. CASE JobNext
  <2>1. JobStep
    BY <1>3, NextSteps DEF JobInv
  <2>2. ASSUME NEW j \in Jobs, jobs'[j].status = "absent"
        PROVE  jobs'[j].attempt = 0 /\ jobCancel'[j] = "none"
    <3>1. jobs'[j] = jobs[j] /\ CancelStep(j)
      BY <2>1, <2>2, BornPending DEF JobStep
    <3>2. jobs[j].status = "absent" /\ jobs[j].attempt = 0 /\ jobCancel[j] = "none"
      BY <2>2, <3>1 DEF JobInv
    <3> QED BY <3>1, <3>2 DEF CancelStep
  <2>3. ASSUME NEW w \in JobWorkers, At(w, "following")' PROVE Earned(JobOf(w))'
    <3>1. WorkerStep(w) /\ jobWorker'[w].at = "following" /\ jobWorker'[w].job \in Jobs
      BY <2>1, <2>3 DEF JobStep, WorkerStep, At
    <3>2. CASE jobWorker'[w] = jobWorker[w]
      BY <2>1, <3>1, <3>2, EarnedStays DEF JobInv, At, JobOf, Earned
    <3>3. CASE jobs'[jobWorker'[w].job].status = "succeeded"
      BY <3>3 DEF Earned, JobOf
    <3> QED BY <3>1, <3>2, <3>3 DEF WorkerStep
  <2>4. ASSUME NEW j \in Jobs, FollowUp[j] # NoJob, jobs'[FollowUp[j]].status # "absent"
        PROVE  Earned(j)'
    <3>1. FollowUp[j] \in Jobs
      BY <2>4, FollowUpAssumption
    <3>2. CASE jobs[FollowUp[j]].status # "absent"
      BY <2>1, <2>4, <3>2, EarnedStays DEF JobInv, FollowUpIsEarned, Earned
    <3>3. CASE jobs[FollowUp[j]].status = "absent"
      <4>1. PICK w \in JobWorkers : At(w, "following") /\ FollowUp[JobOf(w)] = FollowUp[j]
        BY <2>1, <2>4, <3>1, <3>3, BornPending DEF RowCreated
      <4>2. JobOf(w) \in Jobs
        BY <4>1 DEF JobInv, JobTypeInv, BusyHasJob, At
      <4>3. JobOf(w) = j
        BY <2>4, <4>1, <4>2, FollowUpAssumption
      <4> QED BY <2>1, <4>1, <4>3, EarnedStays DEF JobInv
    <3> QED BY <3>2, <3>3
  <2> QED BY <1>1, <2>2, <2>3, <2>4 DEF JobInv, FollowUpIsEarned, Earned
<1> QED BY <1>2, <1>3

\* A refresh that follows a job exists only if the success of that job was
\* stored, for any number of late, restarted or interrupted workers and any
\* cancellation: complete_job's answer is what decides.
THEOREM FollowUpsAreEarned == JobSpec => []FollowUpIsEarned
<1>1. JobInv => FollowUpIsEarned
  BY DEF JobInv
<1> QED BY <1>1, InvAtFirst, InvAfter, PTL DEF JobSpec

-----------------------------------------------------------------------------
(* The attempts a job gets. *)

\* A worker that has read the attempt of a job in order to fail it.
FailsAt(w, j) == At(w, "failing") /\ JobOf(w) = j /\ JobFenced(w)

\* What one step may do to the attempt, the status and the holder of a job.
JobRowKept(j) ==
    /\ jobs'[j].attempt = jobs[j].attempt
    /\ jobs'[j].status = "running" => jobs[j].status = "running" /\ jobs'[j].owner = jobs[j].owner
    /\ jobs'[j].status = "pending" => jobs[j].status \in {"absent", "pending"}
    /\ jobs'[j].status = "retry_wait" =>
          \/ jobs[j].status = "retry_wait"
          \/ \E w \in JobWorkers : FailsAt(w, j) /\ ~(jobWorker[w].seen >= JobTries)
    /\ jobs'[j].status = "failed_terminal" =>
          \/ jobs[j].status = "failed_terminal"
          \/ jobs[j].attempt >= JobTries
          \/ \E w \in JobWorkers : FailsAt(w, j) /\ jobWorker[w].seen >= JobTries

RowClaimed(j) ==
    /\ JobClaimable(j)
    /\ \E w \in JobWorkers : /\ ~At(w, "failing") /\ ~At(w, "failing")'
                             /\ jobs'[j] = Taken(jobs[j], JobWorkerId[w])

\* A worker is about to write a failure with the attempt it has just read.
JobReads(w) == /\ UNCHANGED jobs
            /\ jobWorker'[w].seen = jobs[jobWorker'[w].job].attempt

JobSeenStep(w) == At(w, "failing")' => jobWorker'[w] = jobWorker[w] \/ JobReads(w)

JobTryStep == /\ \A j \in Jobs : JobRowKept(j) \/ RowClaimed(j)
           /\ \A w \in JobWorkers : JobSeenStep(w)

LEMMA SameRowKept ==
    ASSUME NEW j \in Jobs, jobs'[j] = jobs[j]
    PROVE  JobRowKept(j)
BY DEF JobRowKept

LEMMA PlainRowKept ==
    ASSUME NEW j \in Jobs, jobs[j] \in JobRows, NEW s \in {"succeeded", "cancelled"},
           jobs'[j] = JobEndedRow(jobs[j], s)
    PROVE  JobRowKept(j)
BY DEF JobRowKept, JobEndedRow, JobRows

LEMMA ClosedRowKept ==
    ASSUME NEW j \in Jobs, jobs[j] \in JobRows, jobs'[j] = Closed[j]
    PROVE  JobRowKept(j)
<1>1. CASE Exhausted(j)
  <2>1. jobs'[j] = JobEndedRow(jobs[j], "failed_terminal")
    BY <1>1, Zenon DEF Closed, JobEndedRow
  <2> QED BY <1>1, <2>1 DEF Exhausted, JobRowKept, JobEndedRow, JobRows
<1>2. CASE ~Exhausted(j)
  BY <1>2, SameRowKept DEF Closed
<1> QED BY <1>1, <1>2

\* A worker that goes anywhere but to write a failure.
LEMMA JobGoesSeen ==
    ASSUME JobTypeInv, NEW w \in JobWorkers,
           \/ \E place \in WorkerPlaces \ {"failing"} : Goes(w, place)
           \/ Rests(w)
           \/ UNCHANGED jobWorker
    PROVE  \A v \in JobWorkers : JobSeenStep(v)
<1> SUFFICES ASSUME NEW v \in JobWorkers PROVE JobSeenStep(v)
  OBVIOUS
<1>1. jobWorker \in [JobWorkers -> [at : WorkerPlaces, job : Jobs \cup {NoJob}, seen : 0..JobTries]]
  BY DEF JobTypeInv, JobTypeOK
<1>2. CASE \E place \in WorkerPlaces \ {"failing"} : Goes(w, place)
  BY <1>1, <1>2 DEF Goes, JobSeenStep, At
<1>3. CASE Rests(w)
  BY <1>1, <1>3 DEF Rests, JobIdle, JobSeenStep, At
<1>4. CASE UNCHANGED jobWorker
  BY <1>4 DEF JobSeenStep
<1> QED BY <1>2, <1>3, <1>4

LEMMA ClaimTries ==
    ASSUME JobTypeInv, NEW w \in JobWorkers, ClaimJob(w)
    PROVE  JobTryStep
<1>1. jobs \in [Jobs -> JobRows]
  BY DEF JobTypeInv, JobTypeOK
<1>2. CASE jobs' = Closed /\ UNCHANGED jobWorker
  BY <1>1, <1>2, ClosedRowKept, JobGoesSeen DEF JobTryStep
<1>3. CASE \E j \in Jobs :
            /\ JobClaimable(j)
            /\ jobs' = [Closed EXCEPT ![j] = Taken(jobs[j], JobWorkerId[w])]
            /\ jobWorker' = [jobWorker EXCEPT ![w] = [at |-> "running", job |-> j, seen |-> 0]]
  <2>1. PICK i \in Jobs :
            /\ JobClaimable(i)
            /\ jobs' = [Closed EXCEPT ![i] = Taken(jobs[i], JobWorkerId[w])]
            /\ jobWorker' = [jobWorker EXCEPT ![w] = [at |-> "running", job |-> i, seen |-> 0]]
    BY <1>3
  <2>2. /\ jobs'[i] = Taken(jobs[i], JobWorkerId[w])
        /\ \A j \in Jobs \ {i} : jobs'[j] = Closed[j]
    <3>1. IsFcn(Closed, Jobs)
      BY DEF Closed
    <3> QED BY <2>1, <3>1, ExceptOfFcn, Zenon
  <2>3. jobWorker'[w].at = "running" /\ \A v \in JobWorkers \ {w} : jobWorker'[v] = jobWorker[v]
    BY <2>1 DEF JobTypeInv, JobTypeOK
  <2>4. ~At(w, "failing") /\ ~At(w, "failing")'
    BY <2>3 DEF ClaimJob, At
  <2>5. RowClaimed(i)
    BY <2>1, <2>2, <2>4 DEF RowClaimed
  <2>6. \A v \in JobWorkers : JobSeenStep(v)
    BY <2>3 DEF JobSeenStep, At
  <2> QED BY <1>1, <2>2, <2>5, <2>6, ClosedRowKept DEF JobTryStep
<1> QED BY <1>2, <1>3 DEF ClaimJob

LEMMA QuietTries ==
    ASSUME JobTypeInv, NEW w \in JobWorkers,
           HeartbeatRead(w) \/ AnalysisEnds(w) \/ Interrupted(w) \/ FailRead(w) \/ KillJobWorker(w)
    PROVE  JobTryStep
<1>1. UNCHANGED jobs
  BY DEF HeartbeatRead, AnalysisEnds, Interrupted, FailRead, KillJobWorker
<1>2. CASE HeartbeatRead(w) \/ AnalysisEnds(w) \/ Interrupted(w)
  <2>1. \E place \in {"cancelling", "refreshing", "returned", "raised"} : Goes(w, place)
    BY <1>2 DEF HeartbeatRead, AnalysisEnds, Interrupted
  <2> QED BY <1>1, <2>1, SameRowKept, JobGoesSeen DEF JobTryStep, WorkerPlaces
<1>3. CASE FailRead(w)
  <2>1. JobOf(w) \in Jobs
    BY <1>3, Busy DEF FailRead, At
  <2>2. PICK r : r = [at |-> "failing", job |-> JobOf(w), seen |-> jobs[JobOf(w)].attempt]
    OBVIOUS
  <2>3. r.seen = jobs[r.job].attempt
    BY <2>2
  <2>4. jobWorker' = [jobWorker EXCEPT ![w] = r]
    BY <1>3, <2>2 DEF FailRead
  <2>5. jobWorker'[w] = r /\ \A v \in JobWorkers \ {w} : jobWorker'[v] = jobWorker[v]
    BY <2>4 DEF JobTypeInv, JobTypeOK
  <2>6. \A v \in JobWorkers : JobSeenStep(v)
    BY <1>1, <2>3, <2>5 DEF JobSeenStep, JobReads
  <2> QED BY <1>1, <2>6, SameRowKept DEF JobTryStep
<1>4. CASE KillJobWorker(w)
  BY <1>1, <1>4, SameRowKept, JobGoesSeen DEF JobTryStep, KillJobWorker
<1> QED BY <1>2, <1>3, <1>4

LEMMA RefreshTries ==
    ASSUME JobTypeInv, NEW w \in JobWorkers, RefreshLease(w)
    PROVE  JobTryStep
<1>1. JobOf(w) \in Jobs /\ jobs \in [Jobs -> JobRows]
  BY Busy DEF RefreshLease, At, JobTypeInv, JobTypeOK
<1>2. CASE /\ JobFenced(w)
           /\ jobs' = [jobs EXCEPT ![JobOf(w)].ripe = FALSE] /\ Goes(w, "running")
  <2>1. \A j \in Jobs : jobs[j] \in JobRows /\ (jobs'[j] = jobs[j] \/ jobs'[j] = [jobs[j] EXCEPT !.ripe = FALSE])
    BY <1>1, <1>2
  <2>2. \A j \in Jobs : JobRowKept(j)
    BY <2>1 DEF JobRowKept, JobRows
  <2> QED BY <1>2, <2>2, JobGoesSeen DEF JobTryStep, WorkerPlaces
<1>3. CASE UNCHANGED jobs /\ Rests(w)
  BY <1>3, SameRowKept, JobGoesSeen DEF JobTryStep
<1> QED BY <1>2, <1>3 DEF RefreshLease

LEMMA EndTries ==
    ASSUME JobTypeInv, NEW w \in JobWorkers, MarkCancelled(w) \/ CompleteJob(w) \/ FailJob(w)
    PROVE  JobTryStep
<1>1. JobOf(w) \in Jobs /\ jobs \in [Jobs -> JobRows]
  BY Busy DEF MarkCancelled, CompleteJob, FailJob, At, JobTypeInv, JobTypeOK
<1>2. \A v \in JobWorkers : JobSeenStep(v)
  <2>1. Rests(w) \/ Goes(w, "following")
    BY DEF MarkCancelled, CompleteJob, FailJob
  <2> QED BY <2>1, JobGoesSeen DEF WorkerPlaces
<1>3. CASE UNCHANGED jobs
  BY <1>2, <1>3, SameRowKept DEF JobTryStep
<1>4. ASSUME NEW s, jobs' = [jobs EXCEPT ![JobOf(w)] = JobEndedRow(@, s)],
             jobs'[JobOf(w)] = JobEndedRow(jobs[JobOf(w)], s) => JobRowKept(JobOf(w))
      PROVE  JobTryStep
  <2>1. /\ jobs'[JobOf(w)] = JobEndedRow(jobs[JobOf(w)], s)
        /\ \A j \in Jobs \ {JobOf(w)} : jobs'[j] = jobs[j]
    BY <1>1, <1>4
  <2> QED BY <1>2, <1>4, <2>1, SameRowKept DEF JobTryStep
<1>5. CASE MarkCancelled(w) \/ CompleteJob(w)
  <2>1. \/ UNCHANGED jobs
        \/ \E s \in {"succeeded", "cancelled"} : jobs' = [jobs EXCEPT ![JobOf(w)] = JobEndedRow(@, s)]
    BY <1>5 DEF MarkCancelled, CompleteJob, JobEndedRow
  <2> QED BY <1>1, <1>3, <1>4, <2>1, PlainRowKept
<1>6. CASE FailJob(w)
  <2>1. CASE JobFenced(w)
    <3>1. PICK s : /\ s = IF jobWorker[w].seen >= JobTries THEN "failed_terminal" ELSE "retry_wait"
                   /\ jobs' = [jobs EXCEPT ![JobOf(w)] = JobEndedRow(@, s)]
      BY <1>6, <2>1 DEF FailJob, JobEndedRow
    <3>2. FailsAt(w, JobOf(w))
      BY <1>6, <2>1 DEF FailJob, FailsAt
    <3>3. ASSUME jobs'[JobOf(w)] = JobEndedRow(jobs[JobOf(w)], s) PROVE JobRowKept(JobOf(w))
      <4>1. jobs'[JobOf(w)].status = s /\ jobs'[JobOf(w)].attempt = jobs[JobOf(w)].attempt
        BY <1>1, <3>3 DEF JobEndedRow, JobRows
      <4> QED BY <3>1, <3>2, <4>1 DEF JobRowKept
    <3> QED BY <1>4, <3>1, <3>3
  <2>2. CASE ~JobFenced(w)
    BY <1>3, <1>6, <2>2 DEF FailJob
  <2> QED BY <2>1, <2>2
<1> QED BY <1>5, <1>6

LEMMA FollowTries ==
    ASSUME JobInv, NEW w \in JobWorkers, CreateFollowUp(w)
    PROVE  JobTryStep
<1>1. JobOf(w) \in Jobs /\ jobs \in [Jobs -> JobRows] /\ Rests(w)
  BY Busy DEF CreateFollowUp, At, JobInv, JobTypeInv, JobTypeOK
<1>2. \A j \in Jobs : jobs'[j] = jobs[j] \/ (jobs[j].status = "absent" /\ jobs'[j] = PendingRow)
  BY <1>1, FollowUpAssumption DEF CreateFollowUp, Enqueue
<1>3. \A j \in Jobs : JobRowKept(j)
  BY <1>2, SameRowKept, BlankRows DEF JobInv, JobRowKept
<1> QED BY <1>1, <1>3, JobGoesSeen DEF JobTryStep, JobInv

LEMMA OutsideTries ==
    ASSUME JobTypeInv, NEW i \in Jobs, JobRipens(i) \/ CancelJobRead(i) \/ CancelJobWrite(i)
    PROVE  JobTryStep
<1>1. \A w \in JobWorkers : JobSeenStep(w)
  BY DEF JobRipens, CancelJobRead, CancelJobWrite, JobSeenStep
<1>2. jobs \in [Jobs -> JobRows]
  BY DEF JobTypeInv, JobTypeOK
<1>3. \A j \in Jobs : \/ jobs'[j] = jobs[j] \/ jobs'[j] = [jobs[j] EXCEPT !.ripe = TRUE]
                      \/ jobs'[j] = Cancelled(jobs[j]) \/ jobs'[j] = [jobs[j] EXCEPT !.cancel = TRUE]
  BY <1>2 DEF JobRipens, CancelJobRead, CancelJobWrite, Cancelled
<1>4. ASSUME NEW j \in Jobs PROVE JobRowKept(j)
  <2>1. jobs[j] \in JobRows
    BY <1>2
  <2> QED BY <1>3, <2>1, SameRowKept DEF JobRowKept, JobRows, Cancelled
<1> QED BY <1>1, <1>4 DEF JobTryStep

LEMMA TriesSteps ==
    ASSUME JobInv, JobNext
    PROVE  JobTryStep
<1>1. JobTypeInv
  BY DEF JobInv
<1>2. ASSUME NEW w \in JobWorkers, JobWorkerStep(w) PROVE JobTryStep
  BY <1>1, <1>2, ClaimTries, RefreshTries, EndTries, FollowTries, QuietTries DEF JobWorkerStep
<1> QED BY <1>1, <1>2, QuietTries, OutsideTries DEF JobNext

\* The attempt a worker has read is one the job has had; a job that is closed
\* has had all of them, and one that was never taken has had none.
TryInv ==
    /\ JobInv
    /\ \A w \in JobWorkers : At(w, "failing") => jobWorker[w].seen <= jobs[JobOf(w)].attempt
    /\ \A j \in Jobs : jobs[j].status = "pending" => jobs[j].attempt = 0
    /\ \A j \in Jobs : jobs[j].status = "failed_terminal" => jobs[j].attempt = JobTries

LEMMA TriesAtFirst == JobInit => TryInv
<1> SUFFICES ASSUME JobInit PROVE TryInv
  OBVIOUS
<1>1. \A j \in Jobs : jobs[j] \in {NoRow, PendingRow}
  BY DEF JobInit
<1>2. \A w \in JobWorkers : ~At(w, "failing")
  BY DEF JobInit, At, JobIdle
<1> QED BY <1>1, <1>2, InvAtFirst, BlankRows DEF TryInv

\* No step takes an attempt back.
LEMMA AttemptsGrow ==
    ASSUME JobInv, JobTryStep, NEW j \in Jobs
    PROVE  jobs[j].attempt <= jobs'[j].attempt
<1>1. jobs[j] \in JobRows /\ jobs[j].attempt \in Nat
  BY JobTriesAssumption DEF JobInv, JobTypeInv, JobTypeOK, JobRows
<1>2. CASE RowClaimed(j)
  <2>1. jobs'[j].attempt = jobs[j].attempt + 1
    BY <1>1, <1>2 DEF RowClaimed, Taken, JobRows
  <2> QED BY <1>1, <2>1
<1>3. CASE JobRowKept(j)
  BY <1>1, <1>3 DEF JobRowKept
<1> QED BY <1>2, <1>3 DEF JobTryStep

LEMMA TriesAfter == TryInv /\ [JobNext]_jobVars => TryInv'
<1> SUFFICES ASSUME TryInv, [JobNext]_jobVars PROVE TryInv'
  OBVIOUS
<1>1. JobInv /\ JobInv'
  BY InvAfter DEF TryInv
<1>2. CASE UNCHANGED jobVars
  BY <1>1, <1>2 DEF jobVars, TryInv, At, JobOf
<1>3. CASE JobNext
  <2>1. JobTryStep
    BY <1>1, <1>3, TriesSteps
  <2>2. \A j \in Jobs : /\ jobs[j] \in JobRows /\ jobs'[j] \in JobRows
                        /\ jobs[j].attempt \in 0..JobTries /\ jobs'[j].attempt \in 0..JobTries
    <3>1. \A j \in Jobs : jobs[j] \in JobRows /\ jobs'[j] \in JobRows
      BY <1>1 DEF JobInv, JobTypeInv, JobTypeOK
    <3> QED BY <3>1 DEF JobRows
  <2>3. ASSUME NEW w \in JobWorkers PROVE jobWorker[w].seen \in 0..JobTries
    BY <1>1 DEF JobInv, JobTypeInv, JobTypeOK
  <2>4. ASSUME NEW w \in JobWorkers, At(w, "failing")'
        PROVE  jobWorker'[w].seen <= jobs'[jobWorker'[w].job].attempt
    <3>1. jobWorker'[w].job \in Jobs
      BY <1>1, <2>4 DEF JobInv, JobTypeInv, BusyHasJob, At, JobOf
    <3>2. CASE jobWorker'[w] = jobWorker[w]
      <4>1. At(w, "failing") /\ JobOf(w) \in Jobs /\ jobWorker'[w].job = JobOf(w)
        BY <2>4, <3>1, <3>2 DEF At, JobOf
      <4>2. jobWorker[w].seen <= jobs[JobOf(w)].attempt /\ jobs[JobOf(w)].attempt <= jobs'[JobOf(w)].attempt
        BY <1>1, <2>1, <4>1, AttemptsGrow DEF TryInv
      <4> QED BY <2>2, <2>3, <3>2, <4>1, <4>2
    <3>3. CASE JobReads(w)
      BY <2>2, <3>1, <3>3 DEF JobReads
    <3> QED BY <2>1, <2>4, <3>2, <3>3 DEF JobTryStep, JobSeenStep
  <2>5. ASSUME NEW j \in Jobs PROVE JobRowKept(j) \/ (jobs'[j].status = "running")
    BY <2>1, <2>2 DEF JobTryStep, RowClaimed, Taken, JobRows
  <2>6. ASSUME NEW j \in Jobs, jobs'[j].status = "pending" PROVE jobs'[j].attempt = 0
    BY <1>1, <2>5, <2>6 DEF JobRowKept, TryInv, JobInv
  <2>7. ASSUME NEW j \in Jobs, jobs'[j].status = "failed_terminal" PROVE jobs'[j].attempt = JobTries
    <3>1. JobRowKept(j)
      BY <2>5, <2>7
    <3>2. jobs[j].status = "failed_terminal" => jobs[j].attempt = JobTries
      BY DEF TryInv
    <3>3. ASSUME NEW w \in JobWorkers, FailsAt(w, j), jobWorker[w].seen >= JobTries
          PROVE  jobs[j].attempt >= JobTries
      <4>1. jobWorker[w].seen <= jobs[j].attempt
        BY <3>3 DEF FailsAt, TryInv
      <4> QED BY <2>2, <2>3, <3>3, <4>1, JobTriesAssumption
    <3> QED BY <2>2, <2>7, <3>1, <3>2, <3>3, JobTriesAssumption DEF JobRowKept
  <2> QED BY <1>1, <2>4, <2>6, <2>7 DEF TryInv, At, JobOf
<1> QED BY <1>2, <1>3

\* A job has failed for good only after all its attempts.
AllTriesUsed == \A j \in Jobs : jobs[j].status = "failed_terminal" => jobs[j].attempt = JobTries

\* No job is given up early: whichever worker writes the failure, late, taken
\* over or sharing its id with another, fail_job decides by an attempt number
\* the job has really reached, and the first statement of claim_job by the row.
THEOREM JobsGetAllTheirTries == JobSpec => []AllTriesUsed
<1>1. TryInv => AllTriesUsed
  BY DEF TryInv, AllTriesUsed
<1> QED BY <1>1, TriesAtFirst, TriesAfter, PTL DEF JobSpec

\* The ids of the worker processes are their own.
OwnWorkerIds == \A v, w \in JobWorkers : JobWorkerId[v] = JobWorkerId[w] => v = w

\* A worker that may still write the failure of a job writes it by the job's
\* last attempt, so that a job that is left to wait has an attempt left.
RetryInv ==
    /\ TryInv
    /\ \A w \in JobWorkers : At(w, "failing") /\ JobFenced(w) => jobWorker[w].seen = jobs[JobOf(w)].attempt
    /\ \A j \in Jobs : jobs[j].status = "retry_wait" => jobs[j].attempt < JobTries

LEMMA RetriesAtFirst == JobInit => RetryInv
<1> SUFFICES ASSUME JobInit PROVE RetryInv
  OBVIOUS
<1>1. \A j \in Jobs : jobs[j] \in {NoRow, PendingRow}
  BY DEF JobInit
<1>2. \A w \in JobWorkers : ~At(w, "failing")
  BY DEF JobInit, At, JobIdle
<1> QED BY <1>1, <1>2, TriesAtFirst, BlankRows DEF RetryInv

LEMMA RetriesAfter ==
    ASSUME OwnWorkerIds
    PROVE  RetryInv /\ [JobNext]_jobVars => RetryInv'
<1> SUFFICES ASSUME RetryInv, [JobNext]_jobVars PROVE RetryInv'
  OBVIOUS
<1>1. TryInv /\ TryInv' /\ JobInv /\ JobInv'
  BY TriesAfter DEF RetryInv, TryInv
<1>2. CASE UNCHANGED jobVars
  BY <1>1, <1>2 DEF jobVars, RetryInv, At, JobOf, JobFenced
<1>3. CASE JobNext
  <2>1. JobTryStep
    BY <1>1, <1>3, TriesSteps
  <2>2. \A j \in Jobs : jobs[j] \in JobRows
    BY <1>1 DEF JobInv, JobTypeInv, JobTypeOK
  <2>3. ASSUME NEW w \in JobWorkers, At(w, "failing")', JobFenced(w)'
        PROVE  jobWorker'[w].seen = jobs'[jobWorker'[w].job].attempt
    <3>1. CASE JobReads(w)
      BY <3>1 DEF JobReads
    <3>2. CASE jobWorker'[w] = jobWorker[w]
      <4>1. PICK j \in Jobs : j = JobOf(w) /\ jobWorker'[w].job = j
        BY <1>1, <2>3, <3>2 DEF JobInv, JobTypeInv, BusyHasJob, At, JobOf
      <4>2. At(w, "failing") /\ jobs'[j].status = "running" /\ jobs'[j].owner = JobWorkerId[w]
        BY <2>3, <3>2, <4>1 DEF At, JobFenced, JobOf
      <4>3. ~RowClaimed(j)
        <5>1. ASSUME NEW v \in JobWorkers, ~At(v, "failing"), jobs'[j] = Taken(jobs[j], JobWorkerId[v])
              PROVE  FALSE
          <6>1. jobs'[j].owner = JobWorkerId[v]
            BY <2>2, <5>1 DEF Taken, JobRows
          <6> QED BY <4>2, <5>1, <6>1 DEF OwnWorkerIds
        <5> QED BY <5>1 DEF RowClaimed
      <4>4. JobRowKept(j)
        BY <2>1, <4>3 DEF JobTryStep
      <4>5. JobFenced(w) /\ jobs'[j].attempt = jobs[j].attempt
        BY <4>1, <4>2, <4>4 DEF JobRowKept, JobFenced
      <4> QED BY <3>2, <4>1, <4>2, <4>5 DEF RetryInv
    <3> QED BY <2>1, <2>3, <3>1, <3>2 DEF JobTryStep, JobSeenStep
  <2>4. ASSUME NEW j \in Jobs, jobs'[j].status = "retry_wait" PROVE jobs'[j].attempt < JobTries
    <3>1. JobRowKept(j)
      BY <2>1, <2>2, <2>4 DEF JobTryStep, RowClaimed, Taken, JobRows
    <3>2. jobs[j].attempt \in 0..JobTries
      BY <2>2 DEF JobRows
    <3>3. ASSUME NEW w \in JobWorkers, FailsAt(w, j), ~(jobWorker[w].seen >= JobTries)
          PROVE  jobs[j].attempt < JobTries
      <4>1. jobWorker[w].seen = jobs[j].attempt
        BY <3>3 DEF FailsAt, RetryInv
      <4> QED BY <3>2, <3>3, <4>1, JobTriesAssumption
    <3> QED BY <2>4, <3>1, <3>3 DEF JobRowKept, RetryInv
  <2> QED BY <1>1, <2>3, <2>4 DEF RetryInv, At, JobOf
<1> QED BY <1>2, <1>3

\* Each job is over, told to end, may be taken or closed by the next claim, or
\* is under a lease or a backoff that will run out.
NoJobIsStuck == \A j \in Jobs :
    \/ jobs[j].status \in JobEnded \cup {"absent"}
    \/ jobs[j].cancel
    \/ JobClaimable(j) \/ Exhausted(j)
    \/ jobs[j].status \in {"running", "retry_wait"} /\ ~jobs[j].ripe

\* What JobsEnd needs of the safety of the table: with worker ids of their own
\* no job waits for a retry that claim_job refuses for want of an attempt.  With
\* a shared id it may: a late fail_job then passes the fence with an older number.
THEOREM JobsAreNeverStuck ==
    ASSUME OwnWorkerIds
    PROVE  JobSpec => []NoJobIsStuck
<1>1. RetryInv => NoJobIsStuck
  <2> SUFFICES ASSUME RetryInv, NEW j \in Jobs,
                      jobs[j].status \notin JobEnded \cup {"absent"}, ~jobs[j].cancel,
                      ~(jobs[j].status \in {"running", "retry_wait"} /\ ~jobs[j].ripe)
               PROVE  JobClaimable(j) \/ Exhausted(j)
    BY DEF NoJobIsStuck
  <2>1. jobs[j] \in JobRows
    BY DEF RetryInv, TryInv, JobInv, JobTypeInv, JobTypeOK
  <2>2. jobs[j].status \in JobStatuses /\ jobs[j].attempt \in 0..JobTries
    BY <2>1 DEF JobRows
  <2>3. CASE jobs[j].status = "pending"
    BY <2>2, <2>3, JobTriesAssumption DEF RetryInv, TryInv, JobClaimable
  <2>4. CASE jobs[j].status = "retry_wait"
    BY <2>4 DEF RetryInv, JobClaimable
  <2>5. CASE jobs[j].status = "running"
    BY <2>2, <2>5, JobTriesAssumption DEF JobClaimable, Exhausted
  <2> QED BY <2>2, <2>3, <2>4, <2>5 DEF JobStatuses, JobEnded
<1>2. RetryInv /\ [JobNext]_jobVars => RetryInv'
  BY RetriesAfter
<1> QED BY <1>1, <1>2, RetriesAtFirst, PTL DEF JobSpec

-----------------------------------------------------------------------------
(* The refinement: the table of analysis jobs is a leased queue. *)

\* What the row of a job looks like in the queue.
Image(row) == [phase  |-> JobPhase(row.status), tries |-> row.attempt,
               lapsed |-> row.status = "running" /\ row.ripe]

LEMMA ImageOfJob ==
    /\ IsFcn(JobWork, Jobs)
    /\ \A j \in Jobs : JobWork[j] = Image(jobs[j])
BY Zenon DEF JobWork, Image

LEMMA ImageOfJobAfter ==
    /\ IsFcn(JobWork', Jobs)
    /\ \A j \in Jobs : JobWork'[j] = Image(jobs'[j])
BY Zenon DEF JobWork, Image

LEMMA Phases ==
    /\ JobPhase("absent") = "absent" /\ JobPhase("running") = "held"
    /\ \A s \in {"pending", "retry_wait"} : JobPhase(s) = "waiting"
    /\ \A s \in {"succeeded", "failed_terminal", "cancelled"} : JobPhase(s) = "over"
BY DEF JobPhase, JobEnded

\* An item that is told apart by its phase, its hand-outs and its lease.
LEMMA RowIsItemStep ==
    ASSUME JobInv, JobStep, NEW j \in Jobs
    PROVE  JobLease!Step(j)
<1> DEFINE row == jobs[j]
           new == jobs'[j]
<1>1. row \in JobRows /\ RowStep(j) /\ CancelStep(j)
  BY DEF JobInv, JobTypeInv, JobTypeOK, JobStep
<1>2. JobWork[j] = Image(row) /\ JobWork'[j] = Image(new)
  BY ImageOfJob, ImageOfJobAfter
<1>3. row.status \in JobStatuses /\ row.attempt \in 0..JobTries /\ row.ripe \in BOOLEAN
  BY <1>1 DEF JobRows
<1>4. CASE new = row
  BY <1>2, <1>4 DEF JobLease!Step
<1>5. CASE RowTaken(j)
  <2>1. /\ row.status \in {"pending", "retry_wait"} \/ (row.status = "running" /\ row.ripe)
        /\ row.attempt < JobTries
    BY <1>5 DEF RowTaken, JobClaimable
  <2>2. new.status = "running" /\ new.attempt = row.attempt + 1 /\ new.ripe = FALSE
    BY <1>1, <1>5 DEF RowTaken, Taken, JobRows
  <2>3. Image(new) = [phase |-> "held", tries |-> row.attempt + 1, lapsed |-> FALSE]
    BY <2>2, Phases DEF Image
  <2>4. /\ Image(row).phase = "waiting" \/ (Image(row).phase = "held" /\ Image(row).lapsed)
        /\ Image(row).tries = row.attempt
    BY <2>1, Phases DEF Image
  <2> QED BY <1>2, <2>1, <2>3, <2>4 DEF JobLease!Step, JobLease!Grant
<1>6. CASE RowEnded(j)
  <2>1. PICK s \in {"succeeded", "cancelled", "failed_terminal", "retry_wait"} : new = JobEndedRow(row, s)
    BY <1>6 DEF RowEnded
  <2>2. new.status = s /\ new.attempt = row.attempt /\ new.ripe = FALSE /\ row.status = "running"
    BY <1>1, <1>6, <2>1 DEF RowEnded, JobEndedRow, JobRows
  <2>3. Image(row).phase = "held"
    BY <2>2, Phases DEF Image
  <2>4. /\ Image(new) = [phase |-> JobPhase(s), tries |-> Image(row).tries, lapsed |-> FALSE]
        /\ Image(row).tries = row.attempt
    BY <2>2 DEF Image
  <2>5. JobPhase(s) = IF s = "retry_wait" THEN "waiting" ELSE "over"
    BY Phases
  <2> QED BY <1>2, <2>3, <2>4, <2>5 DEF JobLease!Step, JobLease!Finish, JobLease!Release
<1>7. CASE RowTimed(j)
  <2>1. CASE row.status = "running"
    <3>1. PICK x \in BOOLEAN : new = [row EXCEPT !.ripe = x]
      BY <1>7 DEF RowTimed
    <3>2. new.status = "running" /\ new.attempt = row.attempt /\ new.ripe = x
      BY <1>1, <2>1, <3>1 DEF JobRows
    <3>3. Image(new) = [Image(row) EXCEPT !.lapsed = x] /\ Image(row).phase = "held"
      BY <2>1, <3>2, Phases DEF Image
    <3> QED BY <1>2, <3>3 DEF JobLease!Step, JobLease!Lapse, JobLease!Renew
  <2>2. CASE row.status = "retry_wait"
    <3>1. new = [row EXCEPT !.ripe = TRUE]
      BY <1>7, <2>2 DEF RowTimed
    <3>2. new.status = "retry_wait" /\ new.attempt = row.attempt
      BY <1>1, <2>2, <3>1 DEF JobRows
    <3>3. Image(new) = Image(row)
      BY <2>2, <3>2 DEF Image
    <3> QED BY <1>2, <3>3 DEF JobLease!Step
  <2> QED BY <1>7, <2>1, <2>2 DEF RowTimed
<1>8. CASE RowCancelled(j)
  <2>1. row.status # "absent"
    BY <1>8 DEF RowCancelled, JobInv
  <2>2. CASE new = Cancelled(row)
    <3>1. new.status = "cancelled" /\ new.attempt = row.attempt
      BY <1>1, <2>2 DEF Cancelled, JobRows
    <3>2. Image(new) = [phase |-> "over", tries |-> Image(row).tries, lapsed |-> FALSE]
      BY <3>1, Phases DEF Image
    <3>3. Image(row).phase \in {"waiting", "held"} \/ Image(new) = Image(row)
      BY <1>3, <2>1, <3>1, Phases DEF Image, JobStatuses
    <3> QED BY <1>2, <3>2, <3>3 DEF JobLease!Step, JobLease!Finish
  <2>3. CASE new = [row EXCEPT !.cancel = TRUE]
    <3>1. new.status = row.status /\ new.attempt = row.attempt /\ new.ripe = row.ripe
      BY <1>1, <2>3 DEF JobRows
    <3>2. Image(new) = Image(row)
      BY <3>1 DEF Image
    <3> QED BY <1>2, <3>2 DEF JobLease!Step
  <2> QED BY <1>8, <2>2, <2>3 DEF RowCancelled
<1>9. CASE RowCreated(j)
  <2>1. row.status = "absent" /\ row.attempt = 0 /\ new = PendingRow
    BY <1>9 DEF RowCreated, JobInv
  <2>2. /\ Image(row) = [phase |-> "absent", tries |-> 0, lapsed |-> FALSE]
        /\ Image(new) = [phase |-> "waiting", tries |-> 0, lapsed |-> FALSE]
    BY <2>1, BlankRows, Phases DEF Image
  <2> QED BY <1>2, <2>2 DEF JobLease!Step, JobLease!Submit, JobLease!Absent, JobLease!Waiting
<1> QED BY <1>1, <1>4, <1>5, <1>6, <1>7, <1>8, <1>9 DEF RowStep

LEMMA QueueAtFirst == JobInit => JobLease!Init
<1> SUFFICES ASSUME JobInit PROVE JobLease!Init
  OBVIOUS
<1>1. \A j \in Jobs : jobs[j] \in {NoRow, PendingRow}
  BY DEF JobInit
<1>2. \A j \in Jobs : Image(jobs[j]) \in {JobLease!Absent, JobLease!Waiting}
  BY <1>1, BlankRows, Phases DEF Image, JobLease!Absent, JobLease!Waiting
<1> QED BY <1>2, ImageOfJob DEF JobLease!Init

LEMMA QueueAfter == JobInv /\ [JobNext]_jobVars => [JobLease!Next]_JobWork
<1> SUFFICES ASSUME JobInv, [JobNext]_jobVars PROVE [JobLease!Next]_JobWork
  OBVIOUS
<1>1. CASE JobNext
  <2>1. JobStep
    BY <1>1, NextSteps DEF JobInv
  <2>2. DOMAIN JobWork' = Jobs
    BY ImageOfJobAfter
  <2> QED BY <2>1, <2>2, RowIsItemStep DEF JobLease!Next
<1>2. CASE UNCHANGED jobVars
  BY <1>2 DEF jobVars, JobWork
<1> QED BY <1>1, <1>2

\* The table of analysis jobs implements the leased queue, for any jobs and
\* workers: no more executions than max_attempts, no take-over of a live lease,
\* no way back from an end.
THEOREM JobsImplementLeasedWork == JobSpec => JobsAreLeased
<1> QED BY QueueAtFirst, QueueAfter, InvAtFirst, InvAfter, PTL DEF JobSpec, JobsAreLeased, JobLease!Spec
=============================================================================
