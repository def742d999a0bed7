----------------------------- MODULE MCServices -----------------------------
(***************************************************************************)
(* What the API process must bring to an end: the work of its background   *)
(* workers (analysis jobs, media jobs, monitor executions), the requests   *)
(* on a finding and its review item, and the logins to a platform.  They   *)
(* share nothing but the database, and no table: a behaviour in which two  *)
(* of them work is an interleaving of two in which one does, so one of     *)
(* them works in each behaviour of the instance.                           *)
(***************************************************************************)
EXTENDS AnalysisJob, MediaPipeline, MonitorExecution, FindingReview, PlatformLogin, TLC

CONSTANTS refreshCase, signals,   \* a refresh of a case and the refresh of the signals after it
          image, clip             \* media assets

VARIABLE active   \* the part that works in this behaviour

MCFollowUp == (refreshCase :> signals) @@ (signals :> NoJob)
MCJobWorkerId == [w \in JobWorkers |-> w]
MCStagesOf == [a \in Assets |-> IF a = image THEN {"probe", "ocr"} ELSE {"probe"}]
MCCreatedAt == [a \in Assets |-> IF a = image THEN 2 ELSE 1]
MCProcessOf == [s \in Slots |-> "scheduler"]

\* Approving with edits writes the same statuses as approving.
DecisionKinds == {"approved", "rejected", "more_evidence", "revoked"}

\* A media worker is cut short only in behaviours in which the image is the only
\* asset (bound); the clip, the older one, is there for the limit of the list.
LoneAsset == \A a \in Assets \ {image} : media[a].download = "absent"

ServicesInit ==
    /\ JobInit /\ MediaInit /\ MonitorInit /\ Init /\ LoginInit
    /\ active \in {"jobs", "media", "monitor", "review", "login"}
    /\ active # "jobs" => \A j \in Jobs : jobs[j].status = "absent"
    /\ active # "media" => \A a \in Assets : media[a].download = "absent"
    /\ active = "media" /\ image \in Assets => media[image].download # "absent"
    /\ monitorOn = (active = "monitor")
    /\ active # "login" => credential = "missing"

ServicesNext ==
    /\ UNCHANGED active
    /\ \/ JobNext /\ UNCHANGED <<mediaVars, monitorVars, vars, loginVars>>
       \/ MediaNext /\ (mediaCuts' = 0 \/ LoneAsset) /\ UNCHANGED <<jobVars, monitorVars, vars, loginVars>>
       \/ MonitorNext /\ UNCHANGED <<jobVars, mediaVars, vars, loginVars>>
       \/ active = "review" /\ Next /\ UNCHANGED <<jobVars, mediaVars, monitorVars, loginVars>>
       \/ active = "login" /\ LoginNext /\ UNCHANGED <<jobVars, mediaVars, monitorVars, vars>>

ServicesSpec ==
    /\ ServicesInit
    /\ [][ServicesNext]_<<jobVars, mediaVars, monitorVars, vars, loginVars, active>>
    /\ JobFairness /\ MediaFairness /\ MonitorFairness /\ ReviewFairness /\ LoginFairness

\* Every row, request and session is of the kinds its table has.
ServicesTypeOK == JobTypeOK /\ MediaTypeOK /\ MonitorTypeOK /\ TypeOK /\ LoginTypeOK

\* Whatever dies and is late, what was created ends: every analysis job, the jobs and the verdict
\* of every media asset, every monitor execution, every request that waits for a row lock.
WorkEnds == JobsEnd /\ MediaEnds /\ ExecutionsEnd /\ RequestsEnd
=============================================================================
