---------------------------- MODULE AnalysisJob ----------------------------
(***************************************************************************)
(* The durable analysis jobs of a case: alignment and integrity, the       *)
(* refresh of the case's intelligence that follows them, and the refresh   *)
(* of the global signals that follows that one.                            *)
(*                                                                         *)
(* A row of analysis_jobs is claimed under a lease by the worker loop of a *)
(* process, which is sequential: it runs the analysis in a task, looks at  *)
(* the row every third of the lease, and stores the result.  Each action   *)
(* is one transaction of the worker, of the canceller, or the passing of   *)
(* a deadline; a process may be killed between any two of them.            *)
(*                                                                         *)
(* Abstracted: which analysis is run and its result; the order of creation *)
(* in which claim_job prefers jobs (any claimable job is taken here).      *)
(***************************************************************************)
EXTENDS Naturals

CONSTANTS
    Jobs,         \* the analysis jobs of the instance
    FollowUp,     \* job -> the job its success creates, or NoJob
    NoJob,
    JobWorkers,   \* worker processes
    JobWorkerId,  \* process -> the id it writes into lease_owner
    JobNobody,    \* lease_owner of a job nobody holds
    JobTries      \* max_attempts of a job (3 unless the caller says otherwise)

ASSUME JobTriesAssumption == JobTries \in Nat \ {0}

\* The idempotency key of a follow-up names the job it follows.
ASSUME FollowUpAssumption ==
    /\ NoJob \notin Jobs
    /\ \A j \in Jobs : FollowUp[j] \in Jobs \cup {NoJob}
    /\ \A i, j \in Jobs : FollowUp[i] = FollowUp[j] /\ FollowUp[i] # NoJob => i = j

VARIABLES
    jobs,         \* the rows of analysis_jobs
    jobWorker,    \* what each worker process is doing, and for which job
    jobCancel     \* what a pending request_cancel has read of each job's status

jobVars == <<jobs, jobWorker, jobCancel>>

JobStatuses == {"absent", "pending", "running", "retry_wait",
                "succeeded", "failed_terminal", "cancelled"}
JobEnded == {"succeeded", "failed_terminal", "cancelled"}

\* "ripe": the lease of a running job has expired, or the backoff of a
\* waiting one is over.
JobRows == [status : JobStatuses, attempt : 0..JobTries,
            owner : {JobWorkerId[w] : w \in JobWorkers} \cup {JobNobody},
            ripe : BOOLEAN, cancel : BOOLEAN]

NoRow == [status |-> "absent", attempt |-> 0, owner |-> JobNobody,
          ripe |-> FALSE, cancel |-> FALSE]
PendingRow == [NoRow EXCEPT !.status = "pending"]

\* Where a worker stands: it has the task under way ("running"), has seen no
\* cancellation and is about to renew the lease ("refreshing"), has seen one
\* ("cancelling"), has a result ("returned") or an exception ("raised") to
\* store, has read the attempt for that ("failing"), or has stored a result
\* and not yet created what follows ("following").
WorkerPlaces == {"idle", "running", "refreshing", "cancelling", "returned",
                 "raised", "failing", "following"}

\* seen: the attempt fail_job has read before it writes.
JobIdle == [at |-> "idle", job |-> NoJob, seen |-> 0]

FollowUps == {FollowUp[j] : j \in Jobs} \ {NoJob}

\* The worker starts on the jobs other components have created.
JobInit ==
    /\ \E created \in SUBSET (Jobs \ FollowUps) :
         jobs = [j \in Jobs |-> IF j \in created THEN PendingRow ELSE NoRow]
    /\ jobWorker = [w \in JobWorkers |-> JobIdle]
    /\ jobCancel = [j \in Jobs |-> "none"]

At(w, place) == jobWorker[w].at = place
JobOf(w) == jobWorker[w].job
Goes(w, place) == jobWorker' = [jobWorker EXCEPT ![w].at = place]
Rests(w) == jobWorker' = [jobWorker EXCEPT ![w] = JobIdle]

\* create_job: a job that exists under its idempotency key is returned as it is.
Enqueue(rows, j) ==
    IF rows[j].status = "absent" THEN [rows EXCEPT ![j] = PendingRow] ELSE rows

---------------------------------------------------------------------------
(* Claiming *)

\* Mutant: the exhausted jobs are not closed.
ExhaustedNever(j) == FALSE

Exhausted(j) == jobs[j].status = "running" /\ jobs[j].ripe /\ jobs[j].attempt >= JobTries

\* The first statement of claim_job: jobs whose last attempt lost its lease.
Closed == [j \in Jobs |->
    IF Exhausted(j)
    THEN [jobs[j] EXCEPT !.status = "failed_terminal", !.owner = JobNobody, !.ripe = FALSE]
    ELSE jobs[j]]

\* Mutant: attempts are not bounded by the claim, only by fail_job.
ClaimableForEver(j) ==
    /\ ~jobs[j].cancel
    /\ \/ jobs[j].status = "pending"
       \/ jobs[j].status \in {"retry_wait", "running"} /\ jobs[j].ripe

JobClaimable(j) ==
    /\ ~jobs[j].cancel
    /\ jobs[j].attempt < JobTries
    /\ \/ jobs[j].status = "pending"
       \/ jobs[j].status \in {"retry_wait", "running"} /\ jobs[j].ripe

Taken(row, id) == [row EXCEPT !.status = "running", !.attempt = @ + 1,
                              !.owner = id, !.ripe = FALSE]

ClaimJob(w) ==
    /\ At(w, "idle")
    /\ \/ \E j \in Jobs :
            /\ JobClaimable(j)
            /\ jobs' = [Closed EXCEPT ![j] = Taken(jobs[j], JobWorkerId[w])]
            /\ jobWorker' = [jobWorker EXCEPT ![w] = [at |-> "running", job |-> j, seen |-> 0]]
       \/ /\ \A j \in Jobs : ~JobClaimable(j)
          /\ jobs' = Closed
          /\ UNCHANGED jobWorker
    /\ UNCHANGED jobCancel

---------------------------------------------------------------------------
(* Running the analysis *)

\* Mutant: a worker writes by primary key, whatever became of the job.
JobUnfenced(w) == TRUE

\* The condition every write of a worker repeats in its UPDATE.
JobFenced(w) == /\ jobs[JobOf(w)].status = "running"
                /\ jobs[JobOf(w)].owner = JobWorkerId[w]

HeartbeatRead(w) ==
    /\ At(w, "running")
    /\ Goes(w, IF jobs[JobOf(w)].cancel THEN "cancelling" ELSE "refreshing")
    /\ UNCHANGED <<jobs, jobCancel>>

\* refresh_lease; if it is refused the task is cancelled and the job left alone.
RefreshLease(w) ==
    /\ At(w, "refreshing")
    /\ IF JobFenced(w) /\ ~jobs[JobOf(w)].cancel
       THEN jobs' = [jobs EXCEPT ![JobOf(w)].ripe = FALSE] /\ Goes(w, "running")
       ELSE UNCHANGED jobs /\ Rests(w)
    /\ UNCHANGED jobCancel

MarkCancelled(w) ==
    /\ At(w, "cancelling")
    /\ jobs' = IF JobFenced(w) /\ jobs[JobOf(w)].cancel
               THEN [jobs EXCEPT ![JobOf(w)] =
                        [@ EXCEPT !.status = "cancelled", !.owner = JobNobody, !.ripe = FALSE]]
               ELSE jobs
    /\ Rests(w)
    /\ UNCHANGED jobCancel

\* The analysis returns or raises.
AnalysisEnds(w) ==
    /\ At(w, "running")
    /\ Goes(w, "returned") \/ Goes(w, "raised")
    /\ UNCHANGED <<jobs, jobCancel>>

\* stop() cancels the loop, or the database raises, inside the try of tick:
\* both handlers go to fail_job.
Interrupted(w) ==
    /\ jobWorker[w].at \in {"refreshing", "cancelling", "returned", "following"}
    /\ Goes(w, "raised")
    /\ UNCHANGED <<jobs, jobCancel>>

\* Mutant: the follow-up is created whatever complete_job answers.
CompleteRegardless(w) ==
    /\ At(w, "returned")
    /\ jobs' = IF JobFenced(w) /\ ~jobs[JobOf(w)].cancel
               THEN [jobs EXCEPT ![JobOf(w)] =
                        [@ EXCEPT !.status = "succeeded", !.owner = JobNobody, !.ripe = FALSE]]
               ELSE jobs
    /\ Goes(w, "following")
    /\ UNCHANGED jobCancel

CompleteJob(w) ==
    /\ At(w, "returned")
    /\ IF JobFenced(w) /\ ~jobs[JobOf(w)].cancel
       THEN /\ jobs' = [jobs EXCEPT ![JobOf(w)] =
                           [@ EXCEPT !.status = "succeeded", !.owner = JobNobody, !.ripe = FALSE]]
            /\ Goes(w, "following")
       ELSE UNCHANGED jobs /\ Rests(w)
    /\ UNCHANGED jobCancel

\* Best effort: an exception of create_job is logged and swallowed.
CreateFollowUp(w) ==
    /\ At(w, "following")
    /\ \/ UNCHANGED jobs
       \/ /\ FollowUp[JobOf(w)] # NoJob
          /\ jobs' = Enqueue(jobs, FollowUp[JobOf(w)])
    /\ Rests(w)
    /\ UNCHANGED jobCancel

\* fail_job reads the attempt in one transaction ...
FailRead(w) ==
    /\ At(w, "raised")
    /\ jobWorker' = [jobWorker EXCEPT ![w] =
                        [at |-> "failing", job |-> JobOf(w), seen |-> jobs[JobOf(w)].attempt]]
    /\ UNCHANGED <<jobs, jobCancel>>

\* ... and writes in another; a requested cancellation does not stop it.
FailJob(w) ==
    /\ At(w, "failing")
    /\ jobs' = IF JobFenced(w)
               THEN [jobs EXCEPT ![JobOf(w)] =
                        [@ EXCEPT !.status = IF jobWorker[w].seen >= JobTries
                                             THEN "failed_terminal" ELSE "retry_wait",
                                  !.owner = JobNobody, !.ripe = FALSE]]
               ELSE jobs
    /\ Rests(w)
    /\ UNCHANGED jobCancel

---------------------------------------------------------------------------
(* The process, the clock, the API *)

KillJobWorker(w) ==
    /\ ~At(w, "idle")
    /\ Rests(w)
    /\ UNCHANGED <<jobs, jobCancel>>

\* A lease expires, be its worker dead or late, or a backoff is over.
JobRipens(j) ==
    /\ jobs[j].status \in {"running", "retry_wait"}
    /\ ~jobs[j].ripe
    /\ jobs' = [jobs EXCEPT ![j].ripe = TRUE]
    /\ UNCHANGED <<jobWorker, jobCancel>>

\* request_cancel reads the row ...
CancelJobRead(j) ==
    /\ jobCancel[j] = "none"
    /\ jobs[j].status \in {"pending", "retry_wait", "running"}
    /\ jobCancel' = [jobCancel EXCEPT ![j] =
                        IF jobs[j].status = "running" THEN "running" ELSE "queued"]
    /\ UNCHANGED <<jobs, jobWorker>>

\* ... and writes by primary key what the status it has read calls for.
CancelJobWrite(j) ==
    /\ jobCancel[j] \in {"queued", "running"}
    /\ jobs' = IF jobCancel[j] = "queued"
               THEN [jobs EXCEPT ![j] = [@ EXCEPT !.status = "cancelled", !.cancel = TRUE, !.ripe = FALSE]]
               ELSE [jobs EXCEPT ![j].cancel = TRUE]
    /\ jobCancel' = [jobCancel EXCEPT ![j] = "done"]
    /\ UNCHANGED jobWorker

---------------------------------------------------------------------------
\* One turn of the worker loop at its own speed.
JobWorkerStep(w) ==
    \/ ClaimJob(w) \/ RefreshLease(w) \/ MarkCancelled(w)
    \/ CompleteJob(w) \/ CreateFollowUp(w) \/ FailRead(w) \/ FailJob(w)

JobNext ==
    \/ \E w \in JobWorkers :
         JobWorkerStep(w) \/ HeartbeatRead(w) \/ AnalysisEnds(w) \/ Interrupted(w) \/ KillJobWorker(w)
    \/ \E j \in Jobs : JobRipens(j) \/ CancelJobRead(j) \/ CancelJobWrite(j)

JobSpec == JobInit /\ [][JobNext]_jobVars

\* The loop of a live process goes on; an analysis ends, though heartbeats
\* come in between; deadlines pass.
JobFairness ==
    /\ \A w \in JobWorkers : WF_jobVars(JobWorkerStep(w)) /\ SF_jobVars(AnalysisEnds(w))
    /\ \A j \in Jobs : WF_jobVars(JobRipens(j))

---------------------------------------------------------------------------
(* Properties *)

JobTypeOK ==
    /\ jobs \in [Jobs -> JobRows]
    /\ jobWorker \in [JobWorkers -> [at : WorkerPlaces, job : Jobs \cup {NoJob}, seen : 0..JobTries]]
    /\ jobCancel \in [Jobs -> {"none", "queued", "running", "done"}]

\* The row of a job as an item of leased work.
JobPhase(status) ==
    CASE status = "absent"                    -> "absent"
      [] status \in {"pending", "retry_wait"} -> "waiting"
      [] status = "running"                   -> "held"
      [] status \in JobEnded                  -> "over"

JobWork == [j \in Jobs |->
    [phase  |-> JobPhase(jobs[j].status), tries |-> jobs[j].attempt,
     lapsed |-> jobs[j].status = "running" /\ jobs[j].ripe]]

JobLease == INSTANCE LeasedWork WITH Items <- Jobs, MaxTries <- JobTries, work <- JobWork

\* The table of analysis jobs keeps the promise of a leased queue, also with
\* workers that share an id, are late or die, and with cancellations that
\* write what they should have done earlier: no more than max_attempts
\* executions, no take-over of a live lease, no way back from an end.
JobsAreLeased == JobLease!Spec

\* What follows a job exists only if the result of that job was stored, even
\* if the completion was refused to a late worker, or the stored success was
\* overwritten since by a cancellation that had read the job when it waited.
FollowUpIsEarned ==
    \A j \in Jobs : FollowUp[j] # NoJob /\ jobs[FollowUp[j]].status # "absent" =>
        \/ jobs[j].status = "succeeded"
        \/ jobs[j].status = "cancelled" /\ jobCancel[j] = "done"

\* With worker ids of their own, whatever kills, late heartbeats and failures
\* there are, a job that is created comes to an end or is told to: it is
\* never left behind running or waiting for a retry it cannot have.  A job
\* told to end may be left so: nobody claims it any more.
JobsEnd == \A j \in Jobs :
    []<>(jobs[j].status \in JobEnded \cup {"absent"} \/ jobs[j].cancel)
=============================================================================
