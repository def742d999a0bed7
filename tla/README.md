# Verification of Nothing-in-the-dark

TLA+ models of the backend in `src/backend/app`, the instances TLC checks them
on, and theorems about them that TLAPS checks for every instance. Paths in this
file are relative to `src/backend/app` unless they begin with `docs/`, `src/` or
`README.md`.

Contents: 1 the system, 2 the inventory, 3 the modules, 4 the runs, 5 fairness,
6 the proofs, 7 what the checks found, 8 what is not covered, 9 the plan.

## 1. The system

The product investigates topics on social media. An agent, the *coordinator*,
works on a case: it calls tools, dispatches *expert* agents, asks a human before
it does something expensive, starts crawls that run in the background, and
leaves findings that people review before they enter a report.

The backend is one Python program: FastAPI handlers and asyncio workers over a
SQL database (SQLite by default, `config.py:35`; PostgreSQL supported). Several
processes may share a database. There is no message broker; the components meet
in rows, and the pattern that recurs is the *leased row*:

    pending --claim--> running under a lease --status write--> terminal
                          |  the worker dies
                          +--> the lease runs out --> claimed again

The components differ in exactly the points that make the pattern right or
wrong: whether a heartbeat refreshes the lease, whether writes are fenced by
`lease_owner`, whether claims are capped, whether a cancellation is read before
it is written, and what of the work is repeated by the next claim.

Every `await` is a place where another task of the process may run, every
commit one where another process may. A step of a model is therefore a database
transaction, or a stretch of code between two awaits that changes state another
actor can see.

## 2. Inventory

"Model" names the module; `-` means that there is none, with the reason in
section 8.

| Component | State | Operations | Interacts with | What is hard | What makes it correct | Model |
|---|---|---|---|---|---|---|
| Agent runs (`application/graph_worker.py`, `agent_service.py`, `graphs/agent_loop.py`, `harness/runtime.py`) | `agent_runs` row: status, lease, metadata; LangGraph checkpoint per run; `_run_tasks` per process | claim, mark running, run a node, interrupt, park, complete, fail, cancel, resume, stop | approvals, authorizations, run trees, collection runs (cancelled with the run that triggered them) | a resumed node re-runs from its beginning; a lease nobody refreshes; status writes without a condition; kills anywhere | nothing gated runs unapproved, no decision is lost, one execution at a time, every run ends and stays ended | `AgentRun` |
| Approvals and one-time authorizations (`agent_service.py:154-340`, `authorization_service.py`) | `approvals`, `execution_authorizations` rows | ask, approve, edit, reject, consume | agent runs, operators | four transactions per decision; two operators at once; which decision answers which interrupt | an authorization pays for one invocation, of the tool and scope that was approved; a decision is final | `AgentRun` |
| Run trees: budget, experts, steering (`harness/runtime.py:470-530`, `harness/tool_factory.py:400-520,1765-1843`, `application/repositories.py`) | counter in the coordinator's metadata, child rows with a dispatch key, `run_steerings` | reserve, dispatch, wait, deliver, steer, mark, fold | agent runs | check-then-create of experts, a counter overwritten by a metadata patch, batches replayed after a crash, a cancellation answered by another process, a parent that waits for what must still be claimed | limits hold, one expert per dispatch, instructions enter once, nobody waits for ever | `RunTree` |
| Collection runs (`application/collection_run_worker.py`, `infrastructure/database/collection_run_repository.py`) | `collection_runs` row: status, lease, cancel request, claims, platform checkpoint | claim, heartbeat, passes, ingest, checkpoint, live scan, terminal status, recover, cancel | social store, analysis jobs, agent runs | executions that outlive their lease; the checkpoint written from two kinds of tasks; kills between storing and checkpointing; racing cancellation | what is checkpointed is stored, completed means whole, superseded executions are silent, every run ends | `CollectionRun` |
| Findings and review (`application/finding_service.py`, `review_service.py`, `repositories.py:3311-3760`) | `findings`, `review_items`, `review_assignments`, `review_decisions` | submit, claim, release, decide, reopen, patch | materialised artifacts, reports | two rows kept in step by requests that lock them in different orders, or do not lock | a verdict is the last decision's, rounds are told apart, requests return | `FindingReview` |
| Collection start (`application/collection_service.py`, `collection_run_service.py`, `infrastructure/database/collection_repository.py`) | versions of the collection definition, idempotency key, fingerprint of the request | make and activate versions, ask for approval, snapshot, find an equivalent run, create | collection runs, the agent tool `start_social_collection` | a version activated while an approval is awaited; replayed starts; two editors | one definition in force, what was approved is collected | `CollectionStart` |
| Analysis jobs (`analysis_job_worker.py`, `infrastructure/database/analysis_job_repository.py`) | `analysis_jobs` row: status, lease, attempt, retry time, cancel request | enqueue, claim, heartbeat, complete, fail, cancel, follow-up | collection runs, algorithms | retries computed from a stale attempt; cancellation of a job nobody executes | a leased queue: no live lease is taken over, no end is undone; follow-ups are earned; jobs end | `AnalysisJob`, `LeasedWork` |
| Monitors and alerts (`monitor_scheduler.py`, `infrastructure/database/monitor_repository.py`, `services/monitoring.py`, `services/alert_state.py`) | `monitors`, executions, cursors, alert occurrences | due, run now, claim, crawl, store, move cursor, evaluate, finish; trigger, acknowledge, resolve, suppress | crawler, notifications | storing, evaluating and finishing are separate; cursors without a fence; claims without a cap; alerts raised while they are handled | no post a cursor has passed is missed, a trigger is seen, executions end | `MonitorExecution`, `AlertOccurrence` |
| Media pipeline (`media_pipeline_worker.py`, `infrastructure/database/media_pipeline_repository.py`) | assets, one job with a lease per asset and stage | tick, claim, download, analyse, settle, retry, backfill | ML worker | job writes are not fenced; an exception may come before or after any commit; a task may go on beside the next attempt; the verdict on an asset is read, then written; a list with a limit | a finished asset has all its stages done, jobs that are not over can be taken up, jobs and assets come to their end | `MediaPipeline` |
| Notifications (`notification_service.py`) | events, deliveries with attempts | enqueue, list a batch, post, record, mark delivered, retry by hand | monitors, webhooks | a kill after sending; dispatchers without a lease; a queue read twenty at a time | delivered means that everybody was told or given up | `NotificationQueue` |
| Resilience (`services/resilience.py`, `resilience_service.py`) | circuit breakers, cached per process and stored whole | allow, success, failure | nobody: only its own routes call it; the gateway takes the retry policy | the last writer wins | - | - |
| Approval policy (`harness/approval_policy.py`) | none: pure functions | `crawl_scope`, `crawl_scope_expanded` | agent runs | strings and dates | a wider scope always asks again | - (scopes are ranks in `AgentRun`, versions in `CollectionStart`) |
| Goals, plans, validators (`goal_service.py`, `services/planning.py`) | goals, plan versions, steps, edges | create, validate, store, activate, declare a step | agent runs | a plan is stored in many transactions; a step is read, judged and written in three | an accepted plan never waits for itself | `PlanSteps` |
| Tool registry (`harness/tools.py`) | semaphore per tool, result cache, handlers' tasks | validate, acquire, attempt, time out, cancel, retry, cache | agent runs, run trees | a handler that goes on after its time limit; two kinds of cancellation | no handler outlives its call, permits hold | `ToolCall` |
| Memories (`memory_governance.py`, `memory_extraction.py`) | memory rows with review status | extract, merge, approve, expire | agent runs | text processing for the most part | an unreviewed memory is not recalled | - |
| Debates (`debate_service.py`) | rounds of one request | open, argue, judge | model gateway | nothing concurrent | - | - |
| Workspace entities (`workspace_entity_service.py`, `infrastructure/database/workspace_entity_repository.py`) | entities, keys, case links, relations | refresh a case, delete a case | social store, alignment, analysis jobs | a refresh is a dozen transactions; two of them race for a key and for orphans; a case is deleted meanwhile | one account is one entity; an undisturbed refresh leaves exactly what the case shows | `WorkspaceEntities` |
| Platform login (`services/platform_auth.py`, `platform_credentials.py`) | sessions in memory, a child process and files each, one credential per platform | start, poll, cancel, watch, save, revoke, mark failed | crawler | cancelled while it starts, saves or expires; files with cookies | one active session; no child and no cookies stay behind | `PlatformLogin` |
| Knowledge and cross-investigation views (`knowledge_repository.py`, `cross_investigation_service.py`) | documents, chunks | create, read, update, delete | findings | scope conditions only | - | - |
| Analysis algorithms (`services/propagation_algorithm.py`, `narrative.py`, `integrity.py`, ...) | none | numerical functions over posts | analysis jobs | numerics | - | - |
| Quality, evaluation, replay (`investigation_quality_service.py`, `evaluation/`) | none | reports over stored rows | - | read only | - | - |
| Reports and share links (`report_document_service.py`, `services/reports.py`) | documents, share links | render, share, download | findings | the download quota is one conditional UPDATE | - | - |
| Crawler adapters (`infrastructure/crawler`, `services/crawl_coverage.py`) | external processes | crawl a platform | collection runs | I/O | - | - (a pass is one task with an outcome) |
| Sandbox, egress proxy, content security (`harness/sandbox.py`, ...) | processes, sockets | run, filter | tools | operating-system isolation | - | - |
| Model gateway, embeddings, telemetry | connections | ask, embed, trace | all | I/O | - | - (an answer is a choice) |
| MCP and A2A adapters | sessions, mailbox rows | list, call, send | tools | protocol adapters | - | - |
| HTTP API, schemas, bootstrap | wiring | - | all | - | - | each module names its handlers |

`PROJECT.json` lists the same components with their sources, and 40 hazards at
their lines with the properties that watch them.

## 3. The modules

Each module is one specification with its CONSTANTS and their assumption, its
VARIABLES, one action per transaction or step, `Next`, `Spec`, `FairSpec` where
it has liveness properties, and its properties at the end. `MC<module>` gives
TLC its plans and symmetries, `<module>Proofs` holds the theorems. Definitions
marked `Mutant:` are what a plausible mistake would make of the definition
after them; no specification uses them, they serve to confirm that each
property notices such a mistake.

`AgentRun`, `RunTree` and `CollectionRun` are checked one by one. Each abstracts
the parts of the others it meets, and says so: an execution in `RunTree` marks its
run running and looks at its checkpoint in one step because `AgentRun` takes
these apart; a
collection started by an agent is a gated call in `AgentRun`, a call with an
approval in `CollectionStart` and a row of its own in `CollectionRun`.

The other parts share a process and a database but no table, so that a behaviour
in which two of them work is an interleaving of two in which one does.
`MCServices` and `MCWorkspace` put them together in that way: `active`, chosen
in the initial state, says which part works. `MCServices` has those with
something that must end, `MCWorkspace` those with safety properties only; the
names of actors and things are shared by its parts, so that one small symmetry
group serves all.

### AgentRun: one run, its approvals, its authorizations

| TLA+ | Code |
|---|---|
| `status`, `leaseOwner`, `lease`, `claims` | the `agent_runs` row; `lease` is `lease_expires_at` as seen by the clock: none, live, expired |
| `meta` | `metadata_json`: budget approved, `approved_crawl_scope` |
| `approvals` | the approvals rows in the order of their creation, each with its execution authorization (`auth`) and whether its parameter hash can match (`bound`) |
| `cp` | the LangGraph checkpoint: next node, who wrote it, the pending interrupt, the answers the interrupted node has used |
| `ex[e]` | the n-th claim's `_execute`: where it is, its `approval_id`, its approved tools and scope, the answers it resumes with |
| `handle` | `_run_tasks` of each process |
| `client` | requests between two of their transactions |
| `plan` | what the language model will do: nodes, each a model step or a batch of tool calls |
| `Claim`, `LeaseExpires`, `Release` | `claim_next_agent_run`, time, `release_agent_run` with the task's done callback |
| `LoadContext`, `MarkRunning`, `LookAtCheckpoint` | `_execute` to the start of the graph; the latest decided approval becomes the answer |
| `AskBudget`, `BudgetAnswer`, `ModelStep` | `model_step` with `_budget_approval` |
| `AskTool`, `ToolRejected`, `ToolGranted`, `ToolAllowed` | `_authorize_tool` |
| `Consume`, `Invoke`, `EndBatch` | `consume_for_tool`, the handler, the end of the node |
| `PersistApproval`, `Park` | `_persist_approval`, then `waiting_approval`: two transactions |
| `CheckCancelled`, `Complete`, `EmitEnd`, `FailRun`, `MarkCancelled`, `ExecuteRaises` | the end of `_execute` and `_execute_with_cleanup` |
| `Crash`, `Stop` | a kill; a graceful `stop()` |
| `Decide`, `PatchMetadata`, `CreateAuthorization`, `UpdateApproval`, `ResumeRead`, `ResumeWrite` | `approve()` / `reject()`, transaction by transaction |
| `BareResume`, `CancelRun`, `CancelWrite`, `Abandon` | `POST /runs/{id}/resume`, `cancel`, a request whose process dies |

Abstractions. The model's choices are a plan, fixed at the start and unknown to
everybody else. Calls of a node are kept in order with their tool and the rank
of their scope: a call *expands* a scope of lower rank, which is all that
`crawl_scope_expanded` contributes to the protocol. `interrupt()` is modelled
by what LangGraph does with it: the k-th interrupt of a node returns its k-th
answer, a node without the next answer stops there and is re-run from its
beginning. Not in the model: the wording of events, costs, the trace, the hour
after which an authorization expires.

### RunTree: what the runs of a tree share

`runs` are the rows of a coordinator (run 1) and its experts with their dispatch
keys; `used` is `tool_calls_used` in the coordinator's `execution_policy`;
`steers` the `run_steerings` rows. `ListSteerings`, `MarkSteerings` and
`FoldSteerings` are the three transactions of the steering loader;
`ReserveCalls` is `reserve_run_tree_tool_calls`, one transaction;
`PatchRead` / `PatchWrite` are `patch_run_metadata`, which reads the metadata
with the counter in it and writes all of it back; `FindExpert`, `CreateExpert`,
`ExpertEnded`, `WindowOver` are the dispatch of an expert and `_wait_for_child`;
`Deliver` and `Complete` are `_finalize_expert_run` and the status after it.
Calls of a batch run in parallel unless one of them is sequential (`Turn`).

An execution is `Claimed` before `StartRun` marks its run running, whatever the
status has become meanwhile (`graph_worker.py:405`). `Cancel` writes the status and
reaches one execution at most: the one whose task the answering process has in
`_run_tasks`, which then writes `cancelled` once more (`Ending`, `CancelledEnds`).
An execution in another process goes on (`Spends`) until `Deliver` looks at the
status; `log.missed` remembers that there was one.

### CollectionRun: durable background crawling

`progress` is the platform checkpoint in the row, `ex[e].mem` the copy in memory
of the execution that the n-th claim created, `persisted` the platforms whose
batch reached the social store. `BeginExecute` ... `EnqueueAnalysis` follow
`_execute`: the passes, `AcquireSlot` / `CrawlEnds` per platform task,
`IngestPlatform` before `CheckpointPlatform`, one deferred retry pass, the
terminal status, the analysis jobs. `Heartbeat` refreshes the lease under the
fence `lease_owner = :worker_id AND status = 'running'`, sets the cancel event
when cancellation was requested or the fence refuses, and may die
(`HeartbeatDies`): `_heartbeat_loop` catches only cancellation. `ScanSend` /
`ScanCommit` is `_scan_live_progress`, whose UPDATE is sent from a platform
task with the checkpoint of that moment. `RecoverExpired` and `FailExhausted`
are the tick's transactions, `CancelRead` / `CancelWrite` is `request_cancel`,
which reads the status and writes later without a version check.

### FindingReview: people who disagree at the same time

`finding` and `item` are the status of the finding and its review item (with
`version`); `client` is what each request has read and which row it holds. The
model has PostgreSQL's row locks: `SELECT ... FOR UPDATE` and an UPDATE wait for
the holder, a read does not. `SubmitLock` / `SubmitWrite` lock the finding and
then write the item; `DecideRead`, `DecideLock`, `DecideWrite` read, lock the
finding, compare and set the item; `ReopenLock` / `ReopenWrite` lock the item
first. `PatchRead` / `PatchWrite` is `update_status`: checked in one
transaction, written in another. `Abort` is a request that ends before its
commit, `Victim` the deadlock detector.

### AnalysisJob, LeasedWork: a queue and what it promises

`LeasedWork` is an abstract queue: an item is handed out at most `MaxTries`
times, taken from its holder only after the lease has lapsed, and never again
once it is over. `AnalysisJob` is the table `analysis_jobs`: `jobs` the rows,
`jobWorker` the place of each worker in `tick`, `jobCancel` what a pending
`request_cancel` has read. `ClaimJob` closes exhausted and cancelled rows and
takes another, in one transaction; `HeartbeatRead` / `RefreshLease` /
`MarkCancelled` are the look at the row between thirds of the lease;
`CompleteJob` and `CreateFollowUp`, `FailRead` and `FailJob`, `CancelJobRead`
and `CancelJobWrite` are two transactions each. `JobWork` maps a row to an item: a refresh of
the lease by its holder is a `Renew`, a retry a `Release`, a cancellation a
`Finish` from wherever the row was.

### MediaPipeline: a queue without a fence

One row per asset and stage (`mediaJobs`), one per asset (`media`). The actors are
the loop of each worker and the task of each attempt, since `tick` starts a task
for the job it has claimed and watches it beside the heartbeat.

| TLA+ | Code |
|---|---|
| `PendingAssets`, `MediaTick` | `list_pending_assets`: of the unfinished assets the oldest `ListLimit` (50 in the code); failed and partial ones are unfinished for ever |
| `CreateMediaJob`, `MediaJobsCreated` | `create_job`, one transaction per job, by the tick and by a task that has downloaded |
| `Terminalize`, `SettleRead`, `SettleWrite`, `AssetsSettled` | `terminalize_expired_jobs`; `_finalize_asset_if_done`, which lists in one transaction and writes in another |
| `ClaimMediaJob`, `NothingToClaim` | `claim_job`, and the task that `tick` creates |
| `Fetch`, `SaveDownload`, `EndDownload`, `RefuseDownload`, `EndStage`, `WorkRaises` | `_execute`: the download and the stages |
| `MediaFailRead`, `FailMediaJob` | `_fail_job`: the attempt is read in one transaction, the status written in another, by key |
| `RefreshMediaLease`, `LoseMediaLease` | the heartbeat; when it is refused, the task is cancelled where it stands |
| `HeartbeatRaises` | the heartbeat raises (`media_pipeline_worker.py:115`, caught at `:127`): the job is failed, its task is left alone and goes on beside the next attempt |
| `MediaErrs`, `ClaimErrs` | any other transaction raises, before it commits or after: a task ends and its loop fails the job, also one that has just succeeded; a loop gives its tick up |
| `KillMediaWorker`, `MediaRipens`, `BackfillMedia` | a kill or `stop()`; leases and backoffs run out; the API queues what is missing |

`mediaLog` is history: the jobs that were done once, those of which a task was
left alone, and the assets that a tick passed over because the list was full.

### MonitorExecution, AlertOccurrence, NotificationQueue

An instant of `clock` stands for the posts published then. `ScheduleDue` and
`RunNow` create executions, a slot claims one, and goes through the platforms:
`OpenWindow` from the cursor, `Crawl`, `PersistBatch`, `UpsertCursor` or
`RecordFailure`, then `EvaluateAlerts` and `FinishExecution`. The heartbeat
(`Heartbeat`, `LeaseIsLost`) and kills of the process run beside it.
`AlertOccurrence` has `upsert_alert_occurrence` statement by statement against
`set_alert_status`, which validates in one transaction and writes in another.
`NotificationQueue` has a dispatcher's batch: `DispatchEvent`, `OpenDelivery`,
`Post`, `WriteDelivery`, `EventServed`, `MarkDelivered`; `received` and
`givenUp` are history: what the endpoints know. The subscriptions are those of
webhooks: one of another channel, without an endpoint, is written `sent` without a post
(`notification_service.py:404-406`), so there is nobody to be told.

### WorkspaceEntities

`refresh[r]` is one `refresh_case`: `Resolve`, `CreateEntity`, `Reload` per
account, `Link`, `ReconcileLinks`, `ReadAlignment`, `Relate`,
`ReconcileRelations`, `FindOrphans`, `DeleteOrphans`. Beside it posts are stored
(`Observe`), the alignment changes (`Align`) and cases are deleted
(`DeleteCase`). `ForeignKeys` says whether the database cascades and refuses;
SQLite as opened by the program does neither. `lone` marks a refresh that
nothing has disturbed since it began.

### CollectionStart

`definitions` are the versions of the collection definition; making one reads
the greatest number and inserts, activating one is read, UPDATE and commit
against the partial unique index (`Conflict`). `starts` are the calls of
`start_social_collection`: the approval shows a version (`shown`), `BuildSnapshot`
reads the active one (`found`), `FindEquivalent` looks for a run, `CreateRun`
inserts under the key of the call. `Replay` is a call made again from the
checkpoint. An activation writes its target by key, whatever has become of it
since it was read: a superseded draft may become active again, and a request whose
target was activated by another finds it among the active ones it supersedes.

### PlatformLogin

`logins` are the sessions with child, files and watcher. Between two awaits a
handler runs alone, so `Watch` is one turn of the loop and `Cancel` ends where
`_terminate` waits for the child (`CancelEnds`). The child shows its code,
exports the cookies and exits when it likes. `CleanedUp` is `_cleanup`, which
deletes the code and the cookies and swallows an `OSError`: `kept` are the files of
the last cleanup that would not go. The child's log, the output of its crawl and the
directory are not deleted by anybody and are not in the model (section 7).

### ToolCall

Calls of one tool. `Stop` cancels the handler's task and waits for it, for three
reasons: the run's cancel event, the time limit, the cancellation of the caller;
`HandlerEnds` is when it does end. `Retried` is the decision after an attempt. A
`TimeoutError` the handler raises itself counts as a time-out, which is retried also
when the tool is not idempotent, and a `tool_cancelled` of its own is never retried.

### PlanSteps

`ValidDag` is the depth-first search of `validate_dag`, over edges and
`depends_on` together; `StoreSteps`, `StoreEdge`, `ActivatePlan` store the plan,
`ReadStep`, `CheckReady`, `Promote`, `WriteStep` are `declare_step`.
`attach_run` (`goal_service.py:275-286`), which also writes `running`, is left out:
nothing calls it.

## 4. The runs

A run takes a few minutes at most on two workers. `CHECK_DEADLOCK FALSE`
everywhere: the systems stop when the work and the bounded faults are used up.

| Run | Instance | States | What it shows |
|---|---|---|---|
| `agent_safe` | 3 plans with one approval each (collect, start, budget), 2 processes, 1 operator, kills, errors, cancel and resume requests; 4 claims, 2 requests | 560 k | a completed run has run or refused every call; no decision is lost *if operators answer once the run shows that it waits* (`Patient`) |
| `agent_two` | 8 plans with one or two interrupts, in one node, in two, in a row and in one batch; approve, edit, reject; the first execution may be killed; fair | 3.5 k | each answer is the answer to its own question, every run ends |
| `agent_faults` | 1 gated call, leases that run out under an execution, graceful stops, requests that die half-way, 2 operators deciding at once, repeatedly, differently; 3 claims | 3.2 M | an authorization pays for one invocation, of its tool and scope; decisions are final |
| `agent_lost` | as agent_safe, impatient operator | - | **violated**: section 7, finding 1 |
| `run_tree` | coordinator with an expert and a read side by side and a collection after them, 3 slots, 1 instruction; 2 claims of the coordinator; kill, overrun, time-out, one error or cancellation, answered by the executing process or by another | 5.96 M | a read-only tree keeps its limit, instructions enter once, one dispatch makes one expert and a completed coordinator leaves none that spends, silence means that everything has ended |
| `steering_lost` | no faults, 2 instructions | - | **violated**: finding 2 |
| `collection_safe` | 2 platforms, 2 processes with ids of their own, 3 claims, kills anywhere, heartbeats on time, live scan off | 727 k | what the checkpoint calls completed is stored and stays completed; a completed run has all its data; a superseded execution is silent; a terminal status is final but for a cancellation that had read `queued` |
| `collection_faults` | 1 platform, 2 processes, 2 claims, live scans, late and dead heartbeats; fair | 1.09 M | overlapping executions do not write the row of another process, every run ends |
| `services` | analysis jobs: a refresh and its follow-up, 2 workers, 2 tries; media: 2 assets with 2 stages and 1, a list of 1, 1 worker, 2 tries, and 1 kill, exception or failing heartbeat when the asset with 2 stages is alone; monitor: 2 platforms, 1 slot, 2 executions, 1 kill; review: 2 concurrent requests, versions to 5; 1 login; fair | 216 k | the table of analysis jobs implements `LeasedWork`; follow-ups are earned; a finished asset is whole; no media job is left that nobody can take up; finding and review item agree and versions tell rounds apart; jobs, assets, executions and requests come to their end; a login leaves no child and no cookies |
| `monitor_stalls` | the same with fewer requests | - | **violated**: finding 3 |
| `workspace` | monitor: 2 slots, 1 platform, 2 executions, clock to 2; alert: 2 executions, 2 operators, 3 triggers; 1 event, 2 subscriptions, 2 dispatchers; 2 cases, 1 account, 2 refreshers, foreign keys; a plan of 3 steps as chain and cycle, 2 declaring requests; 3 versions, 2 editors, 2 start calls; 3 tool calls, 2 permits, 1 retry; 2 logins | 1.94 M | no post is missed, no trigger stays unseen, delivered means told, one account is one entity, a lone refresh is exact, one definition is in force once there was one, no accepted plan waits for itself, handlers are contained, one login at a time |
| `approved_snapshot` | 2 versions, 1 editor, 1 start call with an approval | - | **violated**: finding 4 |

Why the bounds are enough:

- *Two of each.* The protocols distinguish "me" and "somebody else": two
  processes, two operators, two requests. A third process adds no branch to a
  fence or a compare-and-set. Where the question is an overlap inside one
  process (shared `worker_id`), the instance has one process and several claims.
- *Claims.* Three claims are the smallest number with a superseded execution, a
  current one and one to come; four in `agent_safe` because an approval costs
  one. `MaxClaims` is a parameter of the code for collections (`max_attempts`),
  a bound for agent runs.
- *Plans.* One interrupt with calls before and after it, and every way two
  interrupts can meet (same node, next node, later node, same call type). The
  code keeps no memory beyond the latest decided approval, so a third interrupt
  repeats the situation of the second.
- *Faults* are bounded where they could go on for ever (`FaultyClaims`,
  `MaxFailures`), and each occurs before, between and after every step.
- *Limit 3* in `run_tree` is less than the four calls of the tree, so that a
  batch is granted in part.
- *Versions to 5*: submit, claim, decide, reopen, decide again, with another
  request asleep since the first version.
- *Two tries* of a job: a first attempt that fails or is lost, and a last one.
- *One cut* of a media worker meets every write of a tick and of a task, before
  and after its commit, as it may come at any place; the theorems have any number
  of cuts. With two assets there is none, so that the limit of the list (a list of
  1, two assets) and the interruptions are looked at one at a time.
- *Three versions*: one active, one that supersedes it, and another draft of a
  request that has read the first as active.
- *Five ids* of entities for one account: two that were deleted and are still
  remembered by refreshes, and a new one; `Unused` must never run dry, and a run
  with six reaches the same states up to renaming.
- *Clock to 2, interval 2, lookback 5*: a window that begins before the first
  post, two executions that overlap, and a cursor taken back between them.
- *Three calls, two permits*: one call has to wait.

Symmetry: platforms in `collection_safe`, operators in `agent_faults`, actors and
things in `workspace`; never in a run with a liveness property. The definitions
of these modules name no particular member; `NewEntity` and `ActiveVersion`
choose, the one among ids that nothing tells apart and that no permutation
moves, the other from a set of at most one.

## 5. Fairness

- `AgentRun`: weak fairness of claiming (workers poll for ever,
  `application/graph_worker.py:144-165,254-262`), of each execution's own steps, of requests that
  have begun, of a lease running out, and of somebody deciding when a decision
  is awaited. The last is an assumption about people: a run nobody answers waits
  by design. No fault is fair, and kills are bounded by `FaultyClaims`: claims of
  an agent run are not capped in the code, so a run that kills every worker is
  claimed for ever.
- `CollectionRun`: weak fairness of the tick's `RecoverExpired` and `Claim`, of
  executions, heartbeats, scans, a cancellation in flight and of an unattended
  lease running out. Kills are not bounded: claims are capped by the code and
  `recover_expired` closes what the last one leaves.
- `FindingReview`: strong fairness of each request's steps that wait for a row:
  PostgreSQL queues lock requests, so a request whose lock is free again and
  again gets it, while weak fairness would let later requests overtake it for
  ever. Weak fairness of the deadlock detector.
- `AnalysisJob`: weak fairness of each worker's loop and of leases and backoffs
  running out, strong fairness of an analysis coming to an end, which is an
  assumption about the analyses: the heartbeat keeps a worker in its loop as long
  as one runs, and weak fairness would let it beat for ever. Kills are not
  bounded: claims are capped.
- `MediaPipeline`: weak fairness of the worker's loop, of its tasks and of leases;
  kills, exceptions and heartbeats that fail or are refused are bounded
  (`MaxMediaCuts`), since a worker that is killed in every tick settles nothing.
  That a task ends in spite of heartbeats is an assumption about the work.
  `MonitorExecution`: of the schedule, the clock,
  the slots and the leases, kills bounded (`MaxMonitorCuts`): claims of an
  execution are not capped.
- `PlatformLogin`: of the coordinator's own tasks, of time, and of the end of a
  child that was terminated (`_terminate` kills after 8 s). Nothing is assumed of
  users, nor of a child that was not terminated.
- What must end is stated as `[]<>` or `<>[]` of having ended; ends are final
  where that is used, so this says the same as leading to the end.
- `RunTree` has no fairness; `QuietMeansEnded` says without it that a tree in
  which nobody can act has ended.

## 6. The proofs

tlapm checks all of `AgentRunProofs`, `CollectionRunProofs`, `RunTreeProofs`,
`FindingReviewProofs`, `AnalysisJobProofs`, `WorkspaceProofs`,
`WorkspaceEntitiesProofs` and `MediaPipelineProofs`. The theorems hold for every
value of the constants that satisfies the assumptions the modules name
(`AgentAssumption`, `CollectionAssumption`, `RunTreeAssumption`,
`ReviewAssumption`, `JobTriesAssumption`, `FollowUpAssumption`,
`MediaAssumption`, `MonitorAssumption`, `AlertAssumption`, `NotifyAssumption`,
`EntityAssumption`, `StartAssumption`, `ToolAssumption`, `PlanAssumption`): any
set of processes, operators, clients and platforms, any plans, any subset of the
faults, any bounds. The assumptions say only what types the constants have, that
`NoOwner`, `NoProc`, `NoCase` and `NoEntity` are none of the things they are the
absence of, that `DefaultScope` is positive, as `crawl_scope` makes it, that no
stage is called `download`, that a plan has steps, and that a job follows one
other job at most, as its idempotency key, which names that job, makes it.

Some theorems need more, and say it in their statement, because the code keeps
the promise only then:

| Theorem | Needs | Without it |
|---|---|---|
| `NoDecisionIsLost` | operators decide only what the row shows as waiting, one operator, no execution outlives its lease, no request dies half-way | TLC violates `NoLostDecision` on `agent_safe` for each of them; for impatience it is the run `agent_lost` |
| `DecisionsAnswerTheirInterrupt` | one operator who decides what the row shows as waiting, not "cancel"; no execution outlives its lease; no cancellation, bare or repeated resume, graceful stop, or scope approved beforehand; of the executions only the first may be killed | TLC violates `AnswersOwnInterrupt` on `agent_two` for each of them (for cancellations and stops beside kills and errors). Requests may die half-way |
| `OneExecutionAtATime`, `FinishedNodesStayFinished` | no execution outlives its lease | TLC finds two live executions, of which the older one takes the checkpoint back to a node that the other has finished |
| `EndedRunsStayEnded` | no execution outlives its lease; one operator, who decides what the row shows as waiting; a repeated decision, but no bare resume or cancel | TLC revives an ended run for each of them, on `agent_safe` with "repeat" as the requests. Kills, errors, stops and requests that die half-way do no harm |
| `SupersededAreSilent`, `OneCollectorAtATime` | heartbeats that come in time and do not fail | TLC violates `SupersededIsSilent` and finds two live executions for either, on `collection_safe`; live scans do no harm |
| `CompletedPlatformsStay` | the same, and no live scan | TLC violates `CheckpointMonotone` for each of the three |
| `NothingIsMissedTheorem` | a lookback that reaches the beginning | what was published before the first window is not asked for; `CursorsLeaveNoGap` needs nothing |
| `OneEntityPerAccountTheorem` | a database that enforces foreign keys | a refresh may link what a deletion has just removed |
| `BudgetHoldsWithoutCollections` | a plan that does not collect, or a read-only tree (`NoPatch`) | the expert's reservation is overwritten by the patch of the collection, and TLC counts more invocations than the limit |
| `NobodyWaitsInVain` | every run may be claimed at least once (`MaxClaims`, a bound of the model) | a run that is never claimed waits |
| `JobsAreNeverStuck` | no two analysis workers share an id | a late `fail_job` passes the fence and writes `retry_wait` over the last attempt |
| `MediaJobsAreNeverStuck` | one media worker, as deployed; a job no task of which was left alone by a heartbeat that raised | `update_job` is not fenced: such a task, or the task of another worker, writes `failed` over the last attempt, and nobody claims or closes the job any more (TLC finds it for either) |
| `FinishedIsWholeTheorem` | the same of every job of the asset; and the asset fitted into the list of every tick | TLC violates `FinishedIsWhole` for each: a task left alone, or that of another worker, creates the stages one by one while the loop already executes and settles the first; after an interruption between two stages a tick that does not see the asset does not create the others |
| `ExpertsAreFoundAgain` | (in the property) no two executions of a run at once; for what is left behind, a coordinator that did not give up waiting, and cancellations that reach the execution there is | two executions dispatch two experts; an expert cancelled by another process goes on after its coordinator has completed |

**AgentRun.** `TypeCorrect` needs more than `TypeOK`: `TypeInv` adds that an
execution in the middle of a call is at a call of its plan (`Placed`), that what
it resumes with are approvals that exist, and that a request deciding an
approval decides an existing one. `GatedCallsNeedAuthorization` and
`AuthorizationsAreOneTime` follow from `ChargeInv`. The two properties are not
inductive: the state in which an execution is about to invoke the tool, having
consumed the authorization, satisfies both whatever the authorization is. So
call such an execution a *holder*: what a holder holds is consumed, for its
tool and scope (`HolderCharged`); no call has been paid with it
(`HolderUnpaid`); nobody else holds it (`OneHolder`); and calls name existing
approvals (`CallsPlaced`), so that a new approval is nobody's. Only `Consume`
makes a holder and needs `issued`; only `Invoke` uses one up; every other step
is `Quiet` (no new holder, no authorization goes back from consumed), and quiet
steps keep the invariant by one lemma. The proof uses neither leases nor the
status: one-time authorizations hold although two executions of a run overlap.
`DecisionsAreFinal` needs only the types: four actions write approvals, and each
of them leaves a decided status alone.

`CompletedTookEveryCall` rests on `DoneInv`: every call of the nodes before the
checkpoint, and of the nodes before the one an execution is at, is in the
history, invoked or refused, whoever put it there (`DoneTo`), and of its own
batch those before its position are (`TakenTo`). As the history only grows
(`StaysTaken`), an execution that was overtaken may write an old checkpoint, and
the invariant stays. `NoDecisionIsLost` needs `WaitInv`: one execution lives at a
time and the row is its own until it has parked the run (`SoleInv`), a parking
execution finds an undecided approval, and a request that is deciding one finds
the run waiting and the approval undecided until it writes. Requests that die
half-way leave all of that but the property itself (`Awaited`), so the next
theorem may use it with them.
`DecisionsAnswerTheirInterrupt` is the longest argument. The answers a node
resumes with are those of its gated calls, in their order and without a gap
(`InOrder`), and an execution that has come to a call has taken exactly the
answers of the gated calls before it (`Passed`). So the next interrupt is about
the first gated call without an answer, the checkpoint carries that question
until its approval is stored and decided (`Due`, `LookReady`, `AskReady`,
`ParkReady`), and as decisions are dated in the order of the approvals (`Dated`)
the latest one, which the code takes, is the one that was asked for.

Three theorems are about one execution at a time. `OneExecutionAtATime` needs
`AloneInv`: as nothing renews a lease, "no execution outlives its lease" is all
there is to say, and the invariant carries that a live execution has a live lease,
which keeps `claim_agent_run` away whoever asks. It also places the execution at
the node the checkpoint names, from which `FinishedNodesStayFinished` follows:
what runs again after a kill is the node that was not finished, never one that
was. These two allow any operators. `EndedRunsStayEnded` does not: it puts
`AloneInv` and `WaitInv` together with two facts, that no execution which may still
go on is at work on an ended run (`EarlyInv`) and that a request about to resume
the run finds it waiting (`WaitsForRequest`); an impatient or a second operator
reads the row before the run ends and writes `pending` after.

**CollectionRun.** `CheckpointBacked` is not inductive, because the row's
checkpoint is a copy of one in memory that may be old: `Backed` demands the
same of each execution's memory, of the platform it is ingesting and of every
scan in flight. Then the fence does not matter for it: even an unfenced write
writes something backed, which is why overlapping executions and racing scans,
which do take the checkpoint back (finding 3), never lose data.
`CompletedRunsAreWhole` follows because the terminal status is computed from
the memory of the execution that writes it. `SupersededAreFenced` rests on
`OwnerIsClaimant` (a running row is owned by the process of its latest claim)
and on one lemma per kind of step that every write of an execution passes the
fence; `TerminalsAreFinal` looks at the guards alone. For the two theorems about timely
heartbeats one execution lives at a time (`Alone`): a live execution of a
running row is the latest, and has a live lease, since it has either just begun
or beats. What stops beating has lost the row to a cancellation, and such a row
is not claimed again; so there is no superseded execution left to write
(`SupersededAreSilent`). Without live scans, moreover, the row's checkpoint is
the one in the memory of that execution, and a platform that is announced or has
a task is not completed in it (`Followed`); every write is then one mark of the
coordinator, of a platform that was not completed (`CompletedPlatformsStay`).
`OneCollectorAtATime` is what `Alone` says of two executions.

`CollectionsAreNeverStuck` is the safety under `EventuallyTerminal`, and needs no
hypothesis. A queued row has not been claimed, nor cancelled without ending
(`RowInv`), so it is claimable; an expired one is claimable or may be closed, the
two guards together missing no case; and if a live lease cannot run out, a live
execution keeps it. That one has a step: a coordinator that ingests has
something to ingest (`Attended`), and if no task of a pass has a result, the first
one that waits finds the semaphore free (`LiveGoesOn`).

**RunTree.** The type invariant adds what bounds the counter: the copy of the
metadata that a pending patch is going to write back is within the limit, so the
patch can undo a reservation and never pushes the counter beyond. It also
places every batch at a node of the plan. `InstructionsEnterOnce` follows from
`HeardInv`: an instruction that a conversation holds, in a checkpoint or in
memory, is marked consumed and is held once; what an execution has listed, it
does not hold; and when it folds what it has listed, that is marked. Listing,
marking and folding are proved one by one; every other step adds no
conversation that was not there and unmarks nothing (`NothingNew`,
`SteersKept`), which is enough (`QuietHeard`). `ResultsPrecedeStatuses` needs
that an execution about to complete its run has delivered.

`InvocationsArePaid` counts: the calls made and the calls that executions still
may make (`Todo`, a finite set, although the number of executions is not
bounded) are together no more than what was taken from the counter (`PaidInv`).
A reservation adds to both sides, an invocation moves one call from the second
to the first, a kill drops calls and keeps the slots. In a read-only tree, or under
a plan that does not collect (`NoPatch`), no patch takes the counter back
(`NoCollection`), so the theorem is a corollary of
`BudgetHoldsWithoutCollections`, which asks no more than that.
`ExpertsAreFoundAgain` holds while no run has had two executions at once
(`log.overlap`): then its one execution is where the checkpoint is (`SoleInv`),
and an expert was dispatched by a call of the plan at the coordinator's node or
before it. At its node the expert is found again by its key; before it, it has
ended, unless the coordinator gave up waiting (`Dispatched`, `Answered`). That an
expert which has ended does not go on spending is `QuitInv`: while every
cancellation has reached the execution there was (`~log.missed`), no execution of a
run that has ended spends. Without that it is false of the code, as a cancellation
answered by another process changes only the row.

`NobodyWaitsInVain` is `QuietMeansEnded` with the guards (`CanClaim`, `CanLapse`,
`CanWork`) written out, since the provers do not know ENABLED. If nobody can act,
a run that has not ended has a live execution (`StaffedInv`: nobody can claim it,
and its last claim is at work), and an execution without a step can only be one
that waits for an expert. The expert was created (`WaitedInv`) and has not ended, so
it has a live execution too, which waits for an expert in its turn; but an expert
only reads.

**FindingReview.** The hard case is a submission: it locks the finding, reads
the item without a lock and writes the literal version it has read plus one.
`SubmissionIsCurrent` says why this is safe: whoever holds the finding with a
submission that is going to write sees the item as it still is, since the only
requests that change an item in such a state (decide, reopen) need the finding,
and those that do not (claim, release) start from an item that the submission
leaves alone. From it follow that versions only grow, and with
`DecisionsInOrder` that no two decisions answer one version. `VerdictIsDecided`
needs in addition that a pending patch writes only `candidate` or `superseded`
(`TargetsFit`) and that locks exclude each other (`OneLockEach`).

`FindingsMatchItems` is that and `ReviewsAreDecidable` together, the form in
which `services` checks them.

**AnalysisJob.** `JobsImplementLeasedWork` is the refinement. A step of the table
may move several rows (a claim closes all that are exhausted), so the argument
goes row by row: `RowStep`, `CancelStep` and `WorkerStep` say what any action may
do to one row, one cancellation and one worker; every action is shown to satisfy
them, and everything else follows from the three. `JobInv` adds to the types
that an absent row is blank and that a worker about to create a follow-up works
for a job whose success is stored (`Earned`), which is `FollowUpsAreEarned`. The
image of a row (`Image`) is then one item of `LeasedWork`, and a row's step is
the item's step or a stutter.

Two theorems are about the attempts. `JobsGetAllTheirTries`: `fail_job` compares
the attempt the *worker* has seen with the bound, so `TryInv` says that what a
worker has seen is an attempt the job has really reached. `JobsAreNeverStuck` adds
that a worker which would still pass the fence has seen the last attempt, and that
a job left to wait has one left (`RetryInv`). That needs ids of the workers' own:
workers that share an id give up no job early, but may leave one that never ends. A job that was cancelled is excepted: section 7 says what becomes of it.

**MediaPipeline.** `MediaTyped` gives each actor a record that fits its place
(`ActorRecords`): a task works for its own attempt, a loop watches one it has
claimed. `StepFacts` then says what any step may do to one job (`MediaJobStep`:
kept, made, taken, done, closed or failed), to the history (`LogGrows`) and to the
actors (`Shape`: one moves, one ends and its watcher hears of it, a loop starts a
task, loses it, leaves it alone or dies). Every action is shown to satisfy it, and
the rest follows from it. `MediaJobsGetAllTheirTries` needs no hypothesis: a job may
be failed by anybody, at any time, from a number read long ago, but it is given up
only by a number that is the bound, which the job has then reached
(`MediaTryInv`).

The other two are about one worker, which does not mean one task: a heartbeat that
raises leaves its task alone, and the loop goes on. `WatchInv` says that this is the
only way: a task that is not idle is watched by its loop, or its job is one the
history calls orphaned. So of any other job nobody but the loop and the task it
watches is about to write a failure, while neither claims (`NotTaken`): the attempt they
have read is the one the row still has, and `MediaJobsAreNeverStuck` follows
(`MediaRetryInv`), whatever raises and whenever the worker is killed.

`FinishedIsWholeTheorem` says where the worker may be cut short without harm
(`WholeInv`): the jobs a tick has still to create are those missing of every
downloaded asset (`CreatingOK`), so that after it every downloaded asset has all of
its jobs (`Whole`), and the verdict it is about to write is the one the rows
justify (`SettlingOK`). A task that ends a download and is interrupted before it
has created the stages leaves an asset with no verdict that counts, since the asset
is pending then and the next tick creates what is missing, provided the tick looks at
it (`Good`). A job that was done and is failed afterwards, by an exception after the
commit, stays done in the history and may be done again.

**The workspace.** `WorkspaceProofs` has the parts that `workspace` and
`services` check together.
`DeliveredIsTold` says nothing about a dispatcher
half-way through an event, so `NotifyInv` does: a row that says `sent` or `dead`
tells the truth (`RowsTell`); an answer `sent` means that the endpoint has got the
event (`Underway`); every subscription served so far, but the one under way, was
told as long as the event counts as settled (`Settled`); and the events to mark
were told to everybody (`DoneTold`). Nothing is ever taken back from what was
received or given up (`NothingForgotten`), so what the dispatchers that do not
step say stays true (`RowOKKept`), and no lease is needed: overlapping dispatchers
may overwrite each other's rows, as each writes what its own endpoint answered.
`TriggerIsSeen` is inductive as soon as the executions' places are typed.
`OneDefinitionInForceTheorem` is about requests that have read their draft, and
what was active, in earlier transactions: what is active fits into a set with one
element, and a superseded version implies an active one (`InForce`). An activation
that goes through leaves its own target active and nothing else, also when the
target is among what it has found; one that would leave two is refused whole.

`HandlersAreContainedTheorem`: a handler runs only for a call that waits for it
or is stopping it, and such a call holds a permit; the permits are counted as
the cardinality of the set of calls that hold one, over any set of calls,
infinite ones included. `OneLoginAtATimeTheorem`: the listed and active sessions
fit into a set with one element; a session becomes one only where the
coordinator has looked that there is none.

`CursorsLeaveNoGap` is about any instants `since` that the first windows reached
back to. A window begins where its platform's store has no gap, and what was
persisted leaves none (`SlotSound`), even when another execution has moved the
cursor on or back in between: the store only grows (`StoreGrows`), so each
execution's own argument stays good, and no lease is needed.
`NothingIsMissedTheorem` is the instance in which `since` is the beginning.
`ExecutionsAreCreatedNow` is what the run `monitor_stalls` shows an instance of:
of two conditions on one instant, not before now and not after now, only "now"
is left, for every interval. `ExecutionsEndOnce` needs that only a running row's
lease runs out (`TimesInv`), so that nobody claims an ended one.

`ValidDagIsExact` is about the depth-first walk itself: it accepts a graph
exactly if of every nonempty set of steps one depends on none of the set
(`Grounded`). That the recursive function of the walk exists at all is shown by
giving one (`VisitStep`): `ClearOf` says of a path and a step, without walking,
that some set that holds the step and all it depends on is grounded and off the
path. Were the walk to accept a set of steps that all depend on one another, or
to refuse a grounded one, then every path on which it does so could be made
longer by a step; but steps are finitely many (`PathsEnd`). So no induction over
data is needed. `PlansAreNotStuck` then carries `Grounded` from the accepted
body to what is stored of it: every subset of an acyclic graph is acyclic, and
of the pending steps one depends on no pending step.

**WorkspaceEntities.** `LoneRefreshIsExactTheorem` follows a refresh transaction
by transaction (`LoneOK`): what it has found is what the keys name, what it has
linked is exact, the pairs it is going to relate are those of the alignment, and
the orphans it has listed are the orphans there are. It is lone as long as no
other refresh runs and no post, alignment or deletion comes in between, so
nothing else needs to be known of the state it starts from. For
`OneEntityPerAccountTheorem`, `KeyInv` says that under foreign keys an id some
refresh has found is still the account's or gone for good, so a late `Link`
fails and links nothing wrong.

**All parts together.** `WorkspaceTypeCorrect` and `ServicesTypeCorrect` put
together one lemma on types per part (`AlertTypes`, `NotifyTypes`, `ToolTypes`,
`LoginTypes`, `PlanTypes`, `StartTypes`, `MonitorTypes`, `EntityTypes`,
`MediaTypes`): the parts share no variable, so a step of the whole is a step of
each or leaves it alone. Two of them are not inductive on types: an execution of
a monitor that has a window has a platform (`WorkingRecords`), and a refresh has
an entity for every account it is done with (`FoundInv`), which is why it never
relates what it has not found.

Only model-checked: the liveness properties (`EventuallyTerminal` of both runs,
`WorkEnds`, `LoginsLeaveNoCookies`) and `QuietMeansEnded`, which speaks of ENABLED,
are outside what the prover does. Of `QuietMeansEnded` the theorem
`NobodyWaitsInVain` has all but the ENABLED; of what liveness needs of the safety
of the tables `CollectionsAreNeverStuck`, `JobsAreNeverStuck`,
`MediaJobsAreNeverStuck` and, for agent runs, `NoDecisionIsLost` have the part that
could go wrong; that fair steps then lead to the end remains with TLC. Every other
property of a passing run is stated by a theorem.

## 7. What the checks found

Four runs end in a counterexample on purpose: the property is what the
repository says, the trace is what the code does.

1. `agent_lost`: `_persist_approval` commits the approval before the worker
   writes `waiting_approval`. A decision between the two sets `pending`, the
   worker overwrites it, nobody makes the run pending again, although
   `graph_worker.py:9-11` says approvals "flip them back to pending so this
   worker picks them up again".
2. `steering_lost`: `mark_steerings_consumed` marks every unconsumed
   instruction, also those that arrived after the listing: consumed, never
   heard. `models.py:243` says `consumed_at` is set when the worker folds the
   instruction in.
3. `monitor_stalls`: `compute_next_scheduled_at` (`services/monitoring.py:168-171`)
   skips every time of the grid that lies before now, and the scheduler
   (`monitor_scheduler.py:113`) refuses one that lies after it: the first
   execution of an interval monitor is its last, although the module's
   docstring promises continuous monitoring.
4. `approved_snapshot`: `start()` freezes the definition that is active when it
   is called, after the approval; the scope is compared before, without the
   definition's id and version. INV-1 of
   docs/nothing-in-the-dark-async-progressive-collection-final-plan.md:119-133
   forbids this.

Behaviour that a reader of the models should know, which the models have (the
instances above avoid it where a property would be false for that reason
alone):

- Agent runs. A resumed node repeats its calls from the first one. The answer to
  an interrupt is the *latest decided* approval of the run: a repeated decision,
  or a node asked again after a kill that came once an approved call had run,
  gets a decision that was meant for another question (`FaultyClaims = 2` in
  `agent_two` shows it), and in PostgreSQL a cancelled approval, which has no
  `decided_at`, comes before all others (`NullsFirst`). A budget overrun's
  metadata is patched before the approval is decided, so a losing approver
  raises the budget all the same; an approval that was rejected meanwhile can
  keep an issued authorization. A request that dies after the decision and
  before the resume leaves a run waiting with nothing to decide. A kill between
  consuming and calling makes the retry fail; so do two gated calls in one
  batch, and a tool approved in advance once the run was resumed by a budget
  approval: `approval_id` is set for the whole execution. `MarkRunning` revives
  a run cancelled between its claim and its first write; an error while the end
  event is emitted turns a completed run into a failed one; `stop()` labels the
  runs it interrupts cancelled, as docs/interview-readiness-delivery.md:421-423
  acknowledges.
- Approval with edits: approving a collection with edits issues an authorization
  for the hash of the edited arguments, while the consumer hashes `crawl_scope`
  of the arguments (`agent_service.py:284`): the run fails, although
  `agent_service.py:179-180` says an edited approval generates an authorization
  bound to tool and argument hash. The done callback of an old task may pop the
  handle of its successor (`graph_worker.py:159`), which can then no longer be
  cancelled in its process.
- Collections. Processes configured with one `collection_worker_id` pass each
  other's fence. After a kill a platform may be attempted more than
  `PLATFORM_MAX_ATTEMPTS` times. A live scan serialises the whole checkpoint in a
  platform task; sent before and committed after the coordinator's flush, it
  takes a completed platform back to running, although
  `collection_run_worker.py:306` says that only the coordinator writes it. The
  analysis jobs are created also when the fence has refused the terminal status.
- Run trees. A writable tree may exceed its limit: a patch writes the old
  counter back. A replayed batch pays again, and may be refused for it. A
  coordinator whose wait (600 s) outlives its lease (300 s) is executed twice
  and may dispatch an expert twice. An instruction accepted after the last
  steering step is not heard. Cancelling a coordinator leaves its experts
  running. A cancellation answered by a process other than the executing one changes
  the row and stops nothing (`graph_worker.py:167-173`): the execution goes on spending
  the coordinator's budget until it looks at the status after its loop (`:450-452`), and one
  that has been claimed but not started sets the run back to `running` (`:405`). A
  coordinator that waits for a cancelled expert takes it as ended and completes
  meanwhile.
- Review. Reopening locks the item and then the finding, the others the other
  way round, of which
  docs/review-decision-concurrency-hardening-execution-plan-revised.md:478-483
  warns; PostgreSQL then refuses one request. `update_status` may overwrite a
  verdict with `candidate` or `superseded` in a transition the table
  (`finding_service.py:32-41`) forbids. A superseded finding leaves an item
  nobody can decide. A decision "revoked" leaves the assignment active, so that
  a later claim makes two.
- Analysis jobs. A cancellation that nobody executing the job sees leaves it
  `running`; a failure after a cancellation request leaves it `retry_wait`,
  claimed by nobody. A kill between completing a job and creating its follow-up
  loses the follow-up. Two workers that share an id can fail each other's job
  from a stale attempt and leave it waiting for ever.
- Media. The except clause of `tick` (`media_pipeline_worker.py:127-128`) fails the
  job whatever has raised. If that is the heartbeat (`:115`), the task is not
  cancelled and goes on, unfenced, beside the next attempt: it may write `failed`
  over the last attempt, and the job then is neither claimed nor closed by anybody. If
  it is something after the job has been committed as succeeded (`create_job`
  `:207`, `_finalize_asset_if_done`, a refresh of the row), the job is `failed`
  again and done again, a download too, although the docstring (`:8`) says that
  a recovery does not download again because the job has succeeded. A download that
  is done again once the stages are over sets the asset pending, and no verdict
  follows. A kill, or a heartbeat refused because the job has just ended, between
  the end of the last job and the verdict leaves the asset pending likewise.
  `list_pending_assets` takes the oldest fifty unfinished assets, and failed and
  partial ones never stop being unfinished: fifty of them, and a later asset gets no
  job of a tick any more, only of the backfill. Two workers would break
  `FinishedIsWhole`: one executes and settles the first stage while the task of the
  other has not yet created the second; the deployment has one.
- Monitors. A cron monitor never gets its first execution
  (`services/monitoring.py:162`). `record_cursor_failure` without a cursor row
  adds 1 to None (`monitor_repository.py:255-278`) and fails the whole execution,
  against `monitor_scheduler.py:289`. A kill after the cursor has moved loses the
  evaluation of the alerts. Claims of an execution are not capped.
- Notifications. Without a lease two dispatchers may post one event twice. A
  dead letter that is put back is never posted when its event was already
  delivered (`notifications.py:236-246`). Twenty events that cannot be delivered
  keep the ones behind them waiting.
- Collection start. Two calls with different keys race to two active equivalent
  runs. The key is cut to 64 characters (`collection_run_repository.py:64`) and is
  absent without a tool call id (`tool_factory.py:853-855`), when a replayed call may
  start a second run. An activation that read its draft long ago can bring a superseded
  version back. Without an active definition the approval shows no scope.
- Workspace entities. `delete_orphans` cascades away a link that another refresh
  has committed between its SELECT and its DELETE. On SQLite, where the program
  does not switch foreign keys on, keys of deleted entities stay, and every later
  refresh of that account fails with `workspace_entity_key_conflict`, against the
  docstring at `workspace_entity_repository.py:172` (`ConflictFindsEntity` is
  false with `ForeignKeys = FALSE`).
- Login. A login cancelled while its cookies are being saved ends as
  authenticated, with its credential stored. The cleanup deletes `qr.json` and
  `auth_state.json` only (`platform_auth.py:482-490`): the child's log stays in the
  session's directory, although the comment where it is opened (`:362-363`) says
  that it is deleted in the cleanup of a final status, and so do the output of the
  crawl and the directory itself. If deleting the cookies fails (`:489`), they stay
  and nobody tries again once the session is over. A cancelled session may still become
  expired or failed, against the comment at `platform_auth.py:416`. A session
  cancelled while it spawns keeps its child until its time is up. A crawl that
  fails with old cookies marks a freshly saved credential invalid.
- Tools. A time-out is retried also when the tool is not idempotent, and so is a
  `TimeoutError` the handler raises itself (`harness/tools.py:427-428`). A call that
  waits for its permit does not see a cancellation, and one that waits for a
  stopped handler swallows its own. A result may be discarded as cancelled after
  its effect is done. Permits are held during back-off.
- Notifications of other channels than webhooks are written `sent`, and nothing is
  sent (`notification_service.py:404-406`).
- Plans. `depends_on` without edges is validated but never stored. Steps of a
  draft whose edges are still being stored can be declared. Two stale requests
  may overwrite succeeded with failed. A pending step cannot be skipped before
  its dependencies are done, and a failed one has no way back.

## 8. What is not covered

- Analysis algorithms, reports, evaluation, telemetry, gateways, MCP/A2A and the
  sandbox: numerics, rendering, I/O or operating-system isolation, nothing with a
  state space of its own. Most of the program's lines are of this kind, or
  queries that only read; the models cover the code that changes shared state.
- The circuit breakers (`services/resilience.py`): no component runs behind one.
- Debates, knowledge, memories: one request at a time, a row each, and text.
- The approval policy's functions normalise strings and dates; what they decide
  is a rank in `AgentRun`.
- Goals: their own status, criteria and assessment; plans have `PlanSteps`, without
  `attach_run` (`goal_service.py:275-286`), which nothing calls.
- Collection start: overlapping executions of one call, and what the key of a call
  is: in the model every call has one of its own.
- Login: the child's log, the output of its crawl and the session's directory, which
  nothing deletes; an API process that dies, whose sessions are gone from memory.
- Notifications: subscriptions of channels without a webhook, for which nothing is
  posted.
- SQLite's locking: `FindingReview` has PostgreSQL's. On SQLite there is no
  `FOR UPDATE`, and the argument for versions does not apply to it.
- In modelled components: expiry of authorizations after an hour, posts (a
  platform's batch is stored or not), the text of answers, evidence links,
  comments on reviews, materialising findings from artifacts, names and aliases
  of entities, subscriptions and endpoints as rows, encryption of credentials.
- Time is abstracted to "the lease has run out" or "the retry is due"; only
  `MonitorExecution` counts instants.

## 9. Plan

Done: the modules of section 3 with the runs of section 4 and the theorems of
section 6.

What is left to prove: the hypotheses of the table in section 6 as sharp as TLC
allows (`NoDecisionIsLost` and `EndedRunsStayEnded` with several operators, of whom
one decides at a time); the budget of a writable tree that does collect, as long as
no reservation is made between the read and the write of a patch.

Possible models: materialising findings (two concurrent syncs), composed with
`FindingReview`; the goal's own status and its assessment, composed with
`PlanSteps`.
