# A verification project for model-express

Model Express runs machine-learning experiments for a user: agents plan
experiments, an orchestrator turns them into jobs, workers train them (locally
or on Modal), and a desktop application watches. This directory holds TLA+
modules that model the orchestrator's protocol with its workers, the dispatcher
that runs a project's jobs on Modal, the loop in which agents plan the next
experiments, and the live view of the desktop; TLC
configurations that model-check them, and proofs that TLAPS checks. Paths below
are relative to the repository; Go paths without a prefix are under
`services/orchestrator/internal/`.

- [1. The system](#1-the-system): its parts, their state and how they interact
- [2. What is modelled](#2-what-is-modelled): modules, and how they read against the code
- [3. What the runs show](#3-what-the-runs-show): properties, bounds, fairness
- [4. What is proved](#4-what-is-proved)
- [5. Disagreements found](#5-disagreements-found)
- [6. What is not modelled, and the plan](#6-what-is-not-modelled-and-the-plan)

## 1. The system

### Parts

| Part | State it keeps | Operations | Talks to |
|---|---|---|---|
| **Job store** (`store/postgres_jobs.go`, `postgres_job_records.go`, `policy_dispatch.go`, `postgres_workers.go`) | `experiment_jobs`: status, attempt counter, holder, lease, policy verdict, the attempt named in `config`; `workers`: status, `current_job_id` | create, claim, heartbeat, metric, complete, fail, retry, cancel, recover expired leases, mark policy pending; each one transaction | every HTTP handler, the recovery ticker |
| **Progress snapshots** (`store/job_progress.go`, `job_lifecycle_transitions.go`) | `job_progress`: stage and revision per job and attempt | upsert under a revision rule, inside the transaction of the store method | job store, live view |
| **Worker callbacks** (`api/jobs.go`, `api/job_progress.go`) | none between requests; a request carries an attempt id | validate against the job row, then call the store, then hooks | workers and remote training, job store, remote sessions |
| **Lease recovery** (`api/lease_recovery.go`) | none | a ticker, and every poll: requeue or fail expired jobs, re-evaluate their policy, run failure hooks | job store, policies, hooks |
| **Policy dispatch** (`api/workers.go`, `store/policy_dispatch.go`) | evaluations, `policy_eligibility_status` of queued jobs | poll: hand back the current job, or evaluate candidates and claim one | policies, job store |
| **Experiment policies** (`policies/`, `store/*_policies.go`, `api/experiment_policy*.go`) | bindings and revisions per scope, proposals | bind, propose, accept, resolve an effective policy | dispatch, planner |
| **Remote training sessions** (`store/remote_sessions.go`, `api/jobs.go`) | one record per job and attempt: status, token hash, expiry | upsert at claim and poll, close at the end, expire at a callback | callbacks, claim, cancellation |
| **Execution events and live state** (`store/transition_events.go`, `postgres_live_state.go`, `api/live_state.go`, `api/activity.go`) | an append-only event log with a sequence, activity rows | append with an idempotency key, read after a cursor | job store, desktop application |
| **Worker requirements** (`api/workers.go`, `store/postgres_execution.go`) | demand per plan | raise, fulfil, scale down | supervisor, dispatcher |
| **Plan execution and cancellation** (`api/plans.go`, `api/jobs.go`) | plan status | execute a plan, cancel its jobs one by one with provider calls in between | job store, sessions, training summaries |
| **Training summaries** (`store/postgres_runs.go`) | one row per job | read, merge, write | callbacks, hooks, agents |
| **Terminal hooks, agents, AutoML** (`api/agent_runtime.go`, `agent_followups.go`, `automl.go`) | decisions, outcomes, rounds | run in goroutines after a job ended; may submit further plans | job store, planner |
| **Worker loop** (`services/worker/worker/main.py`, `orchestrator_client.py`) | the job it holds | register, poll, train, report, retry reports | orchestrator |
| **Modal dispatcher** (`training/modal_dispatcher.py`, `modal_provider.py`) | slots with the job each claimed, futures of its threads, datasets that are warm or warming, the Modal session, retry times | refresh the target, register slots, poll, start single jobs and batches, prewarm datasets, collect ended threads, hold or close the session, leave when idle | orchestrator, Modal |
| **Dataset cache** (`datasets/cache.py`, `shards.py`) | manifests and files on disk | acquire lock, populate, reuse | worker processes |
| **Mission Control** (`apps/mission-control/src/features/live`, `hooks`, `electron`) | a reduced live state and its cursor | load a snapshot, apply increments, resubscribe | live endpoints, SSE relay |

`PROJECT.json` lists these and the parts with no protocol of their own (catalog,
language-model prompting, scoring, memory cards, settings).

### How they interact

A worker registers, polls, and is given a job by a claim, which writes both
sides of the assignment, names the attempt in the job's `config` and starts a
lease. The worker, or the remote training it dispatched, reports with callbacks
that name the attempt. Each callback is two steps for the database: a read that
validates (`validateJobCallback`) and a transaction that acts. Heartbeats, polls
and metrics renew the lease. If the lease runs out, the recovery ticker or any
poll requeues the job for another attempt, or fails it when `max_attempts` are
used. A user may cancel a plan, and change the policies its jobs wait under, at
any moment. All of it runs concurrently in goroutines of one orchestrator; only
the database's row locks order it.

### What is hard here

- A callback that was validated may act much later, when its attempt has been
  superseded by a recovery, a retry or a cancellation.
- An assignment is stored twice and cleared by statements with different
  conditions.
- A job names its attempt in four places: a counter, a config key, the name of a
  snapshot and the name a callback carries.
- Snapshots are written by the store and by workers, each with revisions of its
  own making, in any order.
- A worker may die at any point, also with callbacks still in flight; the
  orchestrator may restart between a request's two steps.
- Sessions, summaries, hooks and follow-ups run after the transaction that
  caused them, in transactions of their own, and any of them may fail.
- Policies change between an evaluation and the claim that relies on it.
- The hooks of jobs that end together decide on the same plan at the same time,
  around calls of a language model that take minutes; users decide meanwhile.
- One dispatcher process is many workers: its main thread decides on slots, session
  and exit from a demand it read some time ago, while threads run and end, datasets
  are prewarmed for several jobs at once, and leases run out behind its back.
- Events, snapshots and fetches reach the desktop over different roads, late and
  out of order, over connections that break; while they flow nothing polls.

`PROJECT.json` lists these hazards at the line where each bites, with the
properties that catch them or the reason there is none yet.

### What makes each part correct

- *Job store*: a job has at most one holder and at most `max_attempts` claims; both
  sides of an assignment agree; a finished job is final; a queued job ends.
- *Snapshots*: a terminal snapshot is never overwritten, and the snapshot of the
  current attempt tells the job's story.
- *Callbacks*: a callback of a superseded attempt has no effect.
- *Lease recovery*: a silent worker loses its job; every failed job gets its hooks.
- *Policy dispatch*: no job starts under a policy that was replaced before the claim.
- *Remote sessions*: an ended attempt has no usable session; a running one has.
- *Events*: a transition is logged once; a reader following the cursor misses none.
- *Requirements*: demand is raised while jobs wait and dropped when none does.
- *Cancellation*: afterwards nothing of the plan runs, and outcomes that came first stand.
- *Modal dispatcher*: a slot works on the attempt it holds or on nothing; the session is
  open while it is needed; a dataset is prewarmed once; no slot is freed in silence,
  nothing is left behind at the exit; every grant ends, and work that is wanted starts.
- *Hooks and follow-ups*: the planner decides once on a plan, one decision has one
  follow-up plan, automation stays within its rounds, a campaign that came to rest has a
  champion.
- *Live session*: the view converges to the server's state, whatever responses are late.

## 2. What is modelled

| Module | Role |
|---|---|
| `JobQueue` | the abstract promise: submit, grant, release |
| `JobLifecycle` | the PostgreSQL job store, progress snapshots and worker callbacks |
| `RemoteSession` | the remote training session of one job, in its config and as a row per attempt |
| `PolicyDispatch` | bindings of policies, and the evaluations that claims, blocks and retries rely on |
| `Campaign` | the hooks of finished jobs, planner, reviewer, follow-up plans, champions, and the users among them |
| `ModalDispatcher` | the dispatcher of Modal jobs: main thread, slots, job threads, over `JobQueue` |
| `EventLog` | the durable events: one allocator row, idempotent appends |
| `LiveFeed` | the desktop's session that follows `EventLog` through snapshots and a stream |
| `MCJobLifecycle`, `MCRemoteSession`, `MCPolicyDispatch`, `MCCampaign`, `MCModalDispatcher`, `MCLiveFeed` | values of constants, symmetry sets and initial states for the runs |
| `JobQueueProofs`, `JobLifecycleProofs`, `RemoteSessionProofs`, `PolicyDispatchProofs`, `CampaignProofs`, `ModalDispatcherProofs`, `LiveFeedProofs` | inductive invariants |
| `JobLifecycleRefinement` | `JobLifecycle` implements `JobQueue`, proved; that `PolicyDispatch` does is proved in `PolicyDispatchProofs` |

### JobLifecycle

State: `job` is the table of jobs, `worker` that of workers, `progress` the
snapshots, `handler` the requests between validation and transaction, `alive`
the worker processes that still send. One action is one store method, that is,
one transaction; PostgreSQL's row locks (`FOR UPDATE`) make the ones that touch
the same rows serial, so a whole transaction is one step.

| Action | Code |
|---|---|
| `CreateJobWithOptions` | `postgres_job_records.go`, row and queued snapshot |
| `RegisterWorker`, `HeartbeatWorker` | `postgres_workers.go`; a poll with a job in hand renews the lease the same way |
| `ClaimJobIfQueuedAndPolicyCurrent` | `policy_dispatch.go`: both rows, the attempt's name, the lease, the snapshot |
| `RecoverExpiredJobLeases` | `postgres_job_records.go`: every expired job in one transaction |
| `CancelJob`, `CompleteJob`, `FailJob` | `finishJobWithTransition` in `postgres_jobs.go` |
| `RetryJob` | `postgres_jobs.go`, with `forceFail` from the out-of-memory ladder or the policy |
| `ReportMetric`, `ReportJobProgress` | `postgres_job_records.go`, `job_progress.go` |
| `ApplyQueuedJobPolicyEvaluation`, `MarkQueuedJobsPolicyPending` | `policy_dispatch.go` |
| `ValidateJobCallback` | `api/jobs.go`: the read outside the transaction |
| `LeaseExpires`, `WorkerDies`, `OrchestratorRestarts` | time and crashes |

Abstractions. A lease is `none`, `live` or `expired` instead of a time. The
config keeps only the attempt it names, `[kind, n]` for
`<job>:attempt-n`, `:pending-attempt-n` and `:terminal-after-attempt-n`.
`lease_owner_worker_id` equals `worker_id` in every statement of the code and is
one field. `OFFLINE` is computed when a worker is read and has no state. Policies
are their verdict on a job. Error texts, timestamps, metrics' values, summaries
and execution records are left out. A request that is refused changes no row and
is a step not taken; a store error before commit is a transaction not taken.

Two facts the model leans on, taken from the code: a poll finds the worker's
current job first and hands it out again, so a worker that lost a response does
not lose the job (`api/workers.go`); and a restarted worker process registers a
new row, so a process that died never speaks again under its old id.

`JobLifecycle` models the PostgreSQL store, which production uses. The in-memory
store that most tests use differs in ways that matter: it creates the queued
snapshot of a retry (section 5), and it holds one mutex through a whole method
so that none of its methods can deadlock with another.

### JobQueue

`phase`, `holder` and `grants` of a job. `Submit`, `Grant` (only a waiting job,
only with a grant left, only to a worker that holds nothing) and `Release` (of any
set of jobs, some to wait again and others for good). `JobLifecycle!Queue` is the
refinement mapping: the class of the status, the holder of an active job, and
the attempt counter.

### RemoteSession

A job that trains on Modal has a session: the right of a remote training to call
back. It is stored twice, in the job's config under `remote_training_session`
(`session`) and in the table `remote_training_sessions`, one row per attempt
(`record`). `job` is what sessions can tell of the job: waiting, held or over,
the attempt counter, the attempt its config names and its lease. `request` is
where each request of the API stands, with the attempt and the session it has
read; a request is a series of transactions, and one action is one of them.

| Action | Code |
|---|---|
| `Claim`, then `UpsertRemoteTrainingSession`, `PersistSession` | `pollNextPolicyPermittedJob` and `augmentPolledJob`, `api/workers.go` and `api/jobs.go`: the claim, the row of the new session, the config |
| `PollHeartbeat`, `PollReadsJob`, then the same two | the poll of a worker that holds the job: the lease, the job, a session whose expiry is renewed |
| `ValidateJobCallback`, `RejectInactiveRemoteTrainingSession` | `api/jobs.go`: the job is read, then the row, then the session of the job that was read |
| `FailJobReadsJob`, `ApplyCallback` (`FinishJob`, `RetryJob`, `ReportMetric`) | the transactions of `JobLifecycle`, each closing the row that the locked job names; the retry of the out-of-memory ladder writes back the config that `failJob` read |
| `CloseConfig`, `CloseRemoteTrainingSession` | `closeRemoteTrainingSession`, `api/jobs.go`: config, then row |
| `CancelReadsJob`, `CancelJob` | a plan's cancellation, which patches the config of the job as its list had it |
| `RecoverExpiredJobLeases`, `LeaseExpires`, `HeartbeatWorker` | as in `JobLifecycle` |
| `SessionExpires`, `RecordExpires(n)`, `OrchestratorRestarts` | time, separately for the two copies, and restarts |

Abstractions. One job is enough, because sessions of different jobs share
nothing. An expiry is a flag, `late`, and a renewal clears it. A session's
attempt is its name; token, scopes and URLs are left out, as is the check of the
token. The code logs a failed session write and goes on: those actions have a
second outcome that writes nothing. The policies that a claim validates are
assumed to allow it.

### PolicyDispatch

State: `binding` holds, by subject (account, project, dataset, run), the last
revision and the version it names, or none if the binding was cleared; `job` is a
summary of the row with its `policy_eligibility_status`; `worker` is the current
job; `request` is where each request stands, with the sources its evaluation read.

| Action | Code |
|---|---|
| `PollJob`, `ListQueuedJobsForWorker`, `NextCandidate`, `BatchEnds` | `pollNextPolicyPermittedJob`, `api/workers.go`: a batch of the oldest candidates, those the worker cannot run passed over, another batch if this one was full and something in it was decided |
| `Evaluate` | `evaluateJobPolicy`: the active bindings of the job's subjects, read outside the transaction |
| `LockAndValidatePolicySources` | `store/policy_dispatch.go`: advisory locks of all the job's subjects, then the comparison; a difference sends the poll back to `Evaluate` while tries are left |
| `ClaimJobIfQueuedAndPolicyCurrent`, `ApplyQueuedJobPolicyEvaluation` | the rest of the same transaction: a claim, or a block, or the verdict of a requeued job |
| `RequestsJob`, `CreateJobWithOptions`, `FailJobRetryable`, `RetryJob` | creation and retry: an evaluation, and a write that compares nothing |
| `RecoverExpiredJobLeases`, `JobEnds`, `CancelJob` | as in `JobLifecycle`; a requeued job is pending and evaluated at once |
| `GetExperimentPolicy`, `SetExperimentPolicyBinding`, `ClearExperimentPolicyBinding`, `EditEnds` | `store/postgres_policies.go`: the edit states the revision it was shown, or none; it takes the subject's lock and marks the queued jobs under the subject as pending |

Abstractions. A policy version is the set of jobs it denies: what matters of a
configuration is in the job's execution spec, which retries keep. What a worker
can run is a constant. A poll's own filter of templates is left out; a job whose
template no policy controls is a job that no version denies. A transaction that
relies on an evaluation is two actions, with the locks held in between, so that
TLC and the proof see what the locks are for. The verdict that creation and retry
write is not compared with anything, but nothing relies on it being `allowed`:
every claim evaluates again. A retry that is denied ends the job.

`Phase` and `Holder` map the rows to `JobQueue` (`PolicyDispatch!Queue`): whatever policies do
in between, those who submit jobs see the same queue as in `JobLifecycle`. That is
worth a check of its own here, because two polls of one worker and stale retries go on
while evaluations are open, and because the claim's transaction was split in two.

### Campaign

State: `plans` and `decisions` are the rows in order of creation, `jobs` the jobs of
the plans with the status of their row and of their summary, `champion` and
`selection` what `project_champions` and `projectChampionSelectionState` say, `lock`
is `autoReviewMu`, and `actor` is where each hook (one per job) and each user's
request stands. An action is what happens between two points at which other
goroutines may run: a store call whose result is used later, a call of the
language model, the taking of the mutex.

| Action | Code |
|---|---|
| `ReportSummary`, `CompleteJob`, `FailJob`, `BlockRetry` | `store/postgres_runs.go`, `completeJob` and `failJob` in `api/jobs.go`: the row and summary of a job, and the hook that is queued |
| `RecordOutcome`, `CostStop` | the first steps of `runPlanningLoopAfterTrainingJob`, `api/agent_runtime.go` and `api/workers.go` |
| `PlannerPasses` … `PlannerDecides` | `runExperimentPlannerAfterTrainingJob`: a decision that exists is repeated, a selected champion stops the loop, else the model is asked, under the mutex, and fails, waits or decides |
| `ReviewWaits`, `ReviewRepeats`, `ReviewDecides` | `runAutomaticExperimentReview`, `api/agent_followups.go`, of the latest plan |
| `Fallback`, `PickChampion` | `selectBestAvailableChampionAfterTerminalTrainingJob`, `selectBestAvailableChampionForTerminalPlanStop` |
| `ScheduleBlocked` … `CreatePlan` | `schedulePlannerDecision`, `ensureFollowUpPlan`: the guard, the plan that exists, the rounds, the new plan |
| `ExecuteBlocked` … `JobsCreated`, `Aggregate` | `executeStoredExperimentPlan`, `api/plans.go`: job by job, with skips for cost and duplicates, errors, and the outcome of a plan that is over |
| `ReviewProject`, `ScheduleFollowUp`, `Reopen`, `ExecuteRequest` | the requests of users |
| `CancelPlan`, `CancelJob`, `Cancelled` | `cancelPlanActiveExecutionByID`, `api/jobs.go`: the open jobs are listed and cancelled one by one, row and summary; a job that ended meanwhile keeps its row and its summary says failed all the same; an error ends the request wherever it occurs; then the best run is promoted, if asked for, and the outcome recorded |
| `Restart` | the process ends; hooks are not stored anywhere |

Abstractions. The mode is the automatic one, in which hooks carry out what they
decide. What planner and reviewer say is a choice among what they may say in
that state; a run's score is left out, so which run becomes champion is not
told. A summary is its status. `selection` compares two timestamps in the code
(the champion's last write and the last reopen) and is here what that comparison
yields. A decision that the code persists again with the `decision_source` it has is
a repetition. Providers, monitors, memory records and events are left out. `excused` remembers plans that the loop may leave
undecided for a reason it logs; only `CampaignDecided` reads it.

### ModalDispatcher

The orchestrator is the abstract `JobQueue` (`Queue == INSTANCE JobQueue WITH Workers <-
Slots`): each slot is one worker of it, and `JobLifecycle` is proved to implement that
queue. `main` is the main thread with what it knows (target, required count, what is due,
session, idle state); `slot` is the job, the attempt and the leading slot of each
`_DispatcherSlot`; `thread` where the future of a leading slot stands; `warm` and
`warming` the datasets; `sent` whether an outcome of a slot's claim was sent; `stray` counts,
by slot, the polls that the client gave up and the orchestrator is still serving. `overtaken`
is a history variable, read by `SlotWorksOnWhatItHolds` only. A step of
the main thread ends where it looks at what a thread changes, or calls the orchestrator.

| Action | Code in `training/modal_dispatcher.py` |
|---|---|
| `RefreshSlotTarget`, `RefreshFails`, `RefreshSkipped` | `_refresh_slot_target_from_requirements`: target and demand, or a failed reading that leaves both |
| `RegisterSlots` | `register_slots`, up to the target or to the first call that fails |
| `RunsOn`, `CollectFinishedSlot`, `CollectFinishedSlots` | `_collect_finished_slots`, slot by slot; an exception is reported for each slot, unless it says it was reported |
| `PollAnswers`, `PollFindsNothing`, `PollFails`, `PollsLater` | the loop over free slots in `run_once` |
| `StrayPollClaims`, `PollOutrun` | `pollNextPolicyPermittedJob`, `api/workers.go`, of a poll whose client timed out (`orchestrator_client.py`) and which nothing cancels: it claims at any later time, or while another poll of its slot is answered nothing |
| `StartClaimedSlots`, `StartInSession` | `_start_claimed_slots`: one thread for a job, or for a chunk of `_modal_batch_groups` |
| `OpenModalSession`, `RunWithoutSession`, `PollsWithoutSession`, `HoldModalSession` | the two loops of `run_forever` around `_should_hold_modal_session` |
| `ShouldStay`, `ExitForIdle` | `_should_exit_for_idle`: unwanted twice, with a reading in between |
| `EnsureCacheWarm`, `Materialize`, `SetEvent`, `PopWarming`, `WaiterWakes` | `_ensure_cache_warm`: owner and waiters of a dataset, each step a stretch between locks |
| `RunnerTells`, `RunnerEnds` | the runner, `modal_provider.py`: outcomes by job, then a return or an exception |
| `RefreshIsDue`, `RetryIsDue` | the times that a reading, a failed registration or a failed poll set |
| `JobSubmitted`, `LeaseRunsOut`, `JobCancelled`, `DemandChanges` | the orchestrator, as the dispatcher meets it |

Abstractions. Heartbeats are no step: what they do is that the lease of a registered slot in
the target, or with a started job, runs out only by a disturbance (`Beats`). A poll may hand the
slot the job it holds once more, as the code of `api/workers.go` does. The supervision of a
remote call, its timeouts and payloads are inside `RunnerTells` and `RunnerEnds`: a runner
returns without an exception when the outcome of each job was told or nobody asks for it any
more. Jobs that are prewarmed on Modal and then profiled on this machine are left out
(`ModalDispatcherAssumption` excludes them). A poll that was given up asks for what it asked for when it was sent; one that finds its worker with a
job has no effect, and is a step not taken. A failure report that was given up and is served later is a
`LeaseRunsOut` or a `JobCancelled` as far as the queue goes. A reported or refused failure is the
queue's `Release` or nothing; whether a failure retries or ends a job is the
orchestrator's choice and left open.

### EventLog and LiveFeed

`EventLog` is the transaction of `store/transition_events.go`: it locks the allocator row,
looks for its idempotency key, takes the next number and inserts, together with
the transition itself; `log` is what is committed, `tx` what is not. `LiveFeed` adds
the reader: `ui` is the session controller with its request, stream, timers and
coalescer, `live` the reduced state with its cursor, `copy` how much of the log the list of jobs
on the screen reflects.

| Action | Code |
|---|---|
| `AppendTransition`, `Commit`, `Rollback` | `appendExecutionTransitionTx`, `CreateExecutionTransition` |
| `SnapshotArrives`, `SnapshotFails` | `GetProjectLiveState`, one repeatable-read transaction, and `loadSnapshot`, `liveSessionController.ts` |
| `ProbeAnswers`, `ProbeFails`, `StreamOpens` | `probeAndOpen`, `openStream` |
| `StreamSends` | `streamProjectExecutionEventsV2`, `api/activity.go` |
| `EventArrives`, `EventGarbled`, `StreamBreaks`, `ReconnectTimer` | `handleStreamEvent` with `applyExecutionEvent`, `recoverMalformedEvent`, `handleStreamFailure`, `scheduleReconnect` |
| `StartResync`, `StartFetch`, `FetchArrives`, `FetchFails` | the coalescer, `liveInvalidations.ts` |
| `CompactTimer` | the callback of `scheduleCompactSnapshot`, `liveSessionController.ts`, whatever the window is doing by then; `CompactScheduled` sets it, in a healthy window only |
| `Poll`, `RefreshAll` | `livePollingPolicy.ts` and `liveRefreshCoordinator.ts`, by the window's interval and by the user |

Abstractions. The controller has one request at a time, since the next one aborts
the one before; a request answers with any state of the log since it was sent. A
stream is FIFO; pages, keepalives and the ticker are the freedom when `StreamSends`
happens. No code raises the retained floor of the log, so there is no 410; a
database restored behind its readers, which would be a 409, is not modelled. `jobs`
stands for every resource that is fetched by itself. Whether a snapshot has open work, without which
`scheduleCompactSnapshot` sets no timer, is left open. The reducer's lists of seen
identities hold 128 entries and here all of them. `supported` and `cursor_consistent` are
told by `conn`. Switching projects makes a new session.

Definitions whose names end in `Faulty` stand before the definition they are a
plausible bug of. No specification uses them; each property was seen to fail
when its definition is replaced by the faulty one, which shows that the property
depends on that code.

## 3. What the runs show

| Run | Instance | Checks |
|---|---|---|
| `one` | 1 job, 2 workers, 2 handlers, 2 attempts, revision 5, fair | `TypeOK`, `AttemptIdentity`, `SnapshotAgreesWithJob`, `SupersededAttemptFrozen`, `TerminalIsFinal`, `DeadWorkerReleased`, `EveryJobSettles` |
| `two` | 2 jobs, 2 workers, 2 handlers, 2 attempts | `AssignmentMatched`, `HoldersDistinct`, `ImplementsJobQueue` |
| `ends` | RemoteSession: 2 requests, 2 attempts | `TypeOK`, `EndedRecordsStay`, `RecordEndsWithAttempt` |
| `settles` | 2 requests, 1 attempt, fair | `JobSettles` |
| `polled` | 1 request, 1 attempt | `PolledSessionActive`: violated |
| `gate` | PolicyDispatch: 1 job under 2 subjects, 2 versions, 2 requests, 1 worker, 2 revisions, 2 attempts | `TypeOK`, `BlockedIsDenied`, `ClaimPermitted`, `EditReplacesWhatItSaw` |
| `starts` | 2 jobs under 1 subject, 2 requests, 1 worker, 2 revisions, 1 attempt, fair | `PermittedJobStarts`, `ImplementsJobQueue` |
| `rounds` | Campaign: 3 plans, 4 jobs, 1 follow-up round; either 1 experiment and 1 request of a user, or 2 experiments and 1 restart or denied retry; fair | `TypeOK`, `OnePlannerDecision`, `OneAutomaticFollowUp`, `RoundsBounded`, `CampaignDecided`, `HookFinishes` |
| `reopened` | 2 plans, 2 jobs, 1 request | `ReopenSticks`: violated |
| `slots` | ModalDispatcher: 1 training job on 1 dataset, 2 attempts, 2 slots, batches of 2, 1 disturbance, fair | `TypeOK`, `SlotWorksOnWhatItHolds`, `SessionHeldWhileNeeded`, `DatasetsShared`, `IdleExitLeavesNothing`, `FreedIsReported`, `EveryGrantEnds`, `DemandedJobStarts` |
| `feed` | LiveFeed: 3 transitions, 2 producers, 1 reconnect, 2 disturbances; fair | `TypeOK`, `NumberedAsCommitted`, `NoGap`, `StreamCarriesOn`, `NeverForgets`, `CatchesUp` |
| `missed` | a connected window, 3 transitions, one of another project; no disturbance | `NothingMissed`: violated |

- `AttemptIdentity` — status, counter, named attempt, holder and lease of a row
  agree, through any order of claims, retries, recoveries and late callbacks.
- `AssignmentMatched` — `worker_id` and `current_job_id` name each other.
- `SnapshotAgreesWithJob` — the snapshot the live view joins to a job says what the
  job's status says. It holds although callbacks may be stale, because a
  terminal stage always lands and is never overwritten.
- `SupersededAttemptFrozen` — snapshots of past attempts are history, and revisions only grow.
- `TerminalIsFinal` — no step changes a finished job.
- `HoldersDistinct` — no worker holds two jobs that run.
- `ImplementsJobQueue` — every step is one of the abstract queue or changes nothing it sees.
  For `PolicyDispatch` it fails if the claim does not look whether the worker has a job
  by then: two polls of one worker may be open at a time.
- `DeadWorkerReleased`, `EveryJobSettles` — recovery and progress.
- `EndedRecordsStay` — a poll that read a session as active may write its row after
  the attempt ended; the upsert does not revive it.
- `RecordEndsWithAttempt` — completing, failing, retrying, cancelling and recovering
  end the row in the same transaction as the attempt, so that a restart before the
  request's own closing writes leaves no usable session.
- `JobSettles` — sessions that expire, renewals and failed writes do not keep a job
  from ending, provided that no callback finds its session expired. The proviso is
  needed: see section 5.
- `ClaimPermitted` — a job starts only under policies that permit it at that
  moment, whatever was bound or cleared since the poll evaluated it.
- `BlockedIsDenied` — no queued job stays blocked when the policies in force permit it.
  Nobody looks at a blocked job again until an edit marks it, so such a block would
  be for ever.
- `EditReplacesWhatItSaw` — an edit that states a revision replaces what its author
  was shown, although bindings are cleared and set anew in between: revisions
  of a subject are never used twice.
- `PermittedJobStarts` — the two together with the poll's tries: a job that is permitted
  from some time on leaves the queue, whatever the edits before and whatever polls
  gave up.
- `OnePlannerDecision` — hooks of a plan's jobs run at once, and each asks before the
  model is called whether the planner has decided; it decides once.
- `OneAutomaticFollowUp` — late hooks carry the standing decision out again, and find its plan.
- `RoundsBounded` — automation counts all follow-up plans, the users' too, and creates
  its own under the mutex: it never makes more than the setting allows.
- `CampaignDecided` — planner, reviewer, cost policy, terminal stops and fallbacks each
  pass in some states; when no hook was lost and nothing excused the plan, one of
  them did not. It fails if the last hook does not look for a champion.
- `HookFinishes` — a hook ends. It fails if an execution inside a hook records the plan's
  outcome itself, which takes the mutex the hook holds.
- `SlotWorksOnWhatItHolds` — leases run out and answers of polls are lost without the dispatcher
  knowing; still a slot does not run one job while its worker holds another, or
  another attempt of the same one. There is one exception, and the property says what it amounts to: the
  orchestrator serves a poll to its end although the client timed out. It may claim after
  a later poll of the slot was answered, if that job was taken from the worker while its
  thread runs on. Then no slot works on the attempt it claimed; `EveryGrantEnds` says that
  it does not stay so. It fails if a busy slot polls.
- `SessionHeldWhileNeeded` — the demand drops to zero while a job runs or a dataset is
  prewarmed; the Modal app stays open until the thread is done with it.
- `DatasetsShared` — threads meet at a dataset before, while and after it is prewarmed: one
  materializes, none does so again when it is warm, and no waiter waits for nobody.
- `IdleExitLeavesNothing` — the exit looks at demand, datasets and threads in turn; it leaves no claim
  that it was told of, started or not. What a poll it gave up claims later runs out.
- `FreedIsReported` — a slot is freed when the outcome was sent or the attempt is not its own any more.
  The exception in the property is in the code: a batch whose dataset could not be prewarmed
  counts as reported when only its first job was; the others stay held until their slot
  polls and is handed the job again, or its lease runs out.
- `EveryGrantEnds` — that this is so: no grant is renewed for ever by a slot that knows nothing of
  it. It fails if slots beyond the target keep sending heartbeats.
- `DemandedJobStarts` — a reading, a registration or a poll that failed is tried again, so that
  demand brings the waiting job to a start while the dispatcher is there.
- `NumberedAsCommitted` — numbers follow commits without gaps, one for each key: what
  makes a number a cursor.
- `NoGap` — all transitions up to the cursor are on the screen, though snapshot and stream
  are read by different transactions at different times.
- `StreamCarriesOn` — while polling is off, a stream is open that holds or will send
  whatever the screen lacks.
- `NeverForgets` — no answer, however late, takes back what was shown.
- `CatchesUp` — after the last disturbance the screen has everything, or polling is on; and
  the window does not rest on polling unless it has given the stream up: it takes the
  stream up again. The second part has a proviso, that the timer of the compact snapshot is never
  pending in a window that is not healthy. It is needed: section 5. The property fails if
  a stream is not opened after a probe that answers.

**Bounds.** `MaxAttempts` is 3 in the code by default; run `one` has two, so a job goes
through a first and a last attempt, and a retry and a recovery each meet one attempt that is
over and one that is not. What an attempt in between adds is covered by the proofs of all
its safety properties, which hold for any number. Two handlers let one stale
callback act while another is validated for the next attempt. Two workers let a job
change hands while the first still has callbacks in flight; two jobs let a
recovery treat several at once and one worker be freed of one job while it
holds another. Metrics and progress reports carry revision 5 (`Epochs = {3}`,
`WorkerRevisions = {5}`), above all that the store assigns (1 queued, 2 assigned, 4 terminal):
the hard case, in which the order of revisions would put a report above the end of the
attempt. Run `two` leaves out metrics and
progress reports (`Epochs` and `WorkerRevisions` empty): they touch snapshots and
leases only, and run `one` covers them. Run `two` uses the symmetry of jobs, workers and
handlers; run `one` checks liveness and uses none. Deadlock is checked in both.

Run `ends` has two requests, so that one can sit between any two of its steps while
the other ends the attempt, and two attempts, so that a late request meets the
session of a later one. A job that is over and whose requests have all
ended stops: deadlock is not checked for `RemoteSession`. Run `settles` has one
attempt, which is the hard case: another attempt starts with a new session.

Run `gate` has a subject that exists before the job and one that comes with it,
so a binding may be made where an evaluation saw none. Two revisions suffice for a
binding to be set, cleared and set again, or replaced, between an evaluation and the
comparison. `DispatchTries` and `RecoveryTries` are 2 and 1 instead of 4 and 3: the
loop is there, with a try that is not the last and one that is. Two requests let a
user's edit, or a second poll, fall between any two steps of the first. Run
`starts` has more room in a batch than jobs, as the code has room for 64, and a
version that denies one job of the two; its two requests may be two polls of the one
worker. One attempt and one subject keep the graph small enough for liveness, so
this run sees no job granted again; for `JobLifecycle` run `two` does, and for both modules the
proof of `ImplementsJobQueue` has any number of attempts. Deadlock is checked in `gate`: a user can always open an edit.

Run `rounds` starts either from one experiment, where a follow-up plan and the hooks of both
plans meet a user's request, or from two experiments whose hooks meet each other and
a fault. One follow-up round is the smallest limit that can be exceeded, and three
plans leave room to exceed it, by automation or by the user. Restarts, denied
retries and requests are bounded by `MaxFaults` and `MaxRequests`. A cancellation meets one
open job at a time here, with the race against its end and with every error; one
that is interrupted between two jobs needs two experiments and a user, which is too much
for liveness, and the safety properties are proved for it. A campaign comes to
rest, so deadlock is not checked for `Campaign`.

Run `slots` has one job, and still two threads that deal with it: the lease of the first attempt runs
out while its thread runs, and the second attempt is claimed by the other slot, so that stale and
current claim share a dataset and a session. Two slots are a slot in the target and one that
may be shrunk away, and a batch of two. The poll that is given up may be served at any
time after, in the attempt of the first thread or when the job waits for its second: the run
reaches the exception of `SlotWorksOnWhatItHolds`, when a failure is reported before its thread ends. One disturbance is a lost call, a lost lease, a session that does not open or
a rise of demand, at any moment; demand may fall and a lease that nobody renews may
run out besides. The safety properties also held with two jobs and three slots, and are
proved for all. A dispatcher that left or crashed does nothing more, so deadlock is not checked.

Run `feed` has a transition that changes the snapshot only, one that also touches a
resource of its own, and one that touches nothing. With three, a snapshot can pass two that are on the
wire while a third has yet to be shown. Two disturbances (faults, or the user) let one of them
meet the recovery of the other: a snapshot asked for by the user and an event that cannot be read, with the
compact timer, which is no disturbance and fires at any moment after it was set, are the road of
section 5 to a window that stays in recovery. One reconnect lets the budget run out. Transitions of other projects,
which make sequence numbers jump, are in run `missed` and in the proofs, which
hold for any. Everything comes to rest there as well.

**Fairness.** `RecoveryFairness`: the ticker of `lease_recovery.go` and every poll run
`RecoverExpiredJobLeases`; a request that reached its transaction ends; the
lease of a silent worker runs out, since nobody renews it. `WorkerFairness`: while a
worker lives it registers and polls, so it claims when it can; and since a poll
hands it its own job again, it goes on reporting an outcome for it. That last
assumption is strong fairness, because recoveries and cancellations take the
opportunity away again and again; it says that a living worker does not lose the
race with its own lease for ever. `EveryJobSettles` further assumes that one worker
lives and that the policy does not block the job for ever. Nothing is assumed
about users, policy changes or crashes. The assumption about reports abstracts
from a remote session that expired, after which no report is accepted: `RemoteSession`
models that.

`RemoteSession!Fairness`: the same ticker; a request that is being served comes to its
end; a worker that lives polls, alone or with the job in hand, and goes on
reporting an outcome (strong fairness, since recoveries take the opportunity
away). Restarts are not for ever. Nothing is assumed of leases, cancellations
or expiry.

`PolicyDispatch!Fairness`: a worker without a job polls again and again (strong
fairness, since requests may all be taken when it tries); what a worker runs ends; a
request that is served goes on; from some time on nothing restarts. Nothing is
assumed of users, except that `MaxRevision` bounds their edits of one subject: a user
who rebinds a policy between every evaluation and its comparison keeps the job waiting.

`Campaign!Fairness`: goroutines and requests are scheduled, the call of the language model
has a timeout, and `sync.Mutex` lets every waiter have its turn. Workers owe nothing. Lock
waits are guards of actions that stay enabled once the lock is free for good, and
which holder releases it is itself under fairness.

`LiveFeed!Fairness`: the server answers requests and sends what there is to send, timers fire,
and the coalescer starts what it queued. Nothing is assumed of producers, of the wire or of the
user; their faults are bounded by `MaxDisturbances`.

`ModalDispatcher!Fairness`: the main thread and the job threads are scheduled, the times that
refreshes and retries wait for come, and a lease that nobody renews runs out. A runner
ends, because its calls have timeouts. Nothing is assumed of users, of demand or of the
provider; failing calls, leases lost in spite of heartbeats and demand that rises are bounded by
`MaxDisturbances`.

## 4. What is proved

From `JobLifecycleAssumption` (the empty ids are no ids, `MaxAttempts` is positive,
epochs and revisions are positive numbers) and for every number of jobs, workers,
handlers and attempts:

| Theorem | States |
|---|---|
| `TypeCorrect` | `Spec => []TypeOK` |
| `AttemptsIdentified` | `Spec => []AttemptIdentity` |
| `AssignmentsMatched` | `Spec => []AssignmentMatched` |
| `TerminalJobsFinal` | `Spec => TerminalIsFinal` |
| `SnapshotsAgree` | `Spec => []SnapshotAgreesWithJob` |
| `SupersededAttemptsFrozen` | `Spec => SupersededAttemptFrozen` |
| `RefinesJobQueue` | `Spec => ImplementsJobQueue` |
| `HoldersAreDistinct` | `Spec => []HoldersDistinct` |
| `HoldersExclusive` (abstract queue) | `Spec => [](TypeOK /\ Exclusive)` |
| `RemoteSessionProofs!TypeCorrect` | `Spec => []TypeOK` |
| `EndedRecordsKept` | `Spec => EndedRecordsStay` |
| `RecordsEndWithAttempts` | `Spec => RecordEndsWithAttempt` |
| `PolicyDispatchProofs!TypeCorrect` | `Spec => []TypeOK` |
| `BlockedAreDenied` | `Spec => []BlockedIsDenied` |
| `ClaimsArePermitted` | `Spec => ClaimPermitted` |
| `EditsReplaceWhatTheySaw` | `Spec => EditReplacesWhatItSaw` |
| `DispatchRefinesJobQueue` | `Spec => ImplementsJobQueue` |
| `CampaignProofs!TypeCorrect` | `Spec => []TypeOK` |
| `PlannerDecidesOnce` | `Spec => []OnePlannerDecision` |
| `FollowsUpOnce` | `Spec => []OneAutomaticFollowUp` |
| `RoundsStayBounded` | `Spec => []RoundsBounded` |
| `CampaignsDecided` | `Spec => []CampaignDecided` |
| `ModalDispatcherProofs!TypeCorrect` | `Spec => []TypeOK` |
| `SlotsWorkOnWhatTheyHold` | `Spec => []SlotWorksOnWhatItHolds` |
| `SessionIsHeld` | `Spec => []SessionHeldWhileNeeded` |
| `DatasetsAreShared` | `Spec => []DatasetsShared` |
| `IdleExitIsClean` | `Spec => []IdleExitLeavesNothing` |
| `FreedAreReported` | `Spec => FreedIsReported` |
| `KeepsToTheQueue` | `Spec => Queue!Spec` |
| `LiveFeedProofs!TypeCorrect` | `Spec => []TypeOK` |
| `NumbersFollowCommits` | `Spec => []NumberedAsCommitted` |
| `NoneFallsBetween` | `Spec => []NoGap` |
| `StreamCarriesTheRest` | `Spec => []StreamCarriesOn` |
| `NothingIsTakenBack` | `Spec => NeverForgets` |

Those of `RemoteSessionProofs` need `RemoteSessionAssumption` only (`MaxAttempts` is
positive), those of `PolicyDispatchProofs` `PolicyDispatchAssumption` only: bounds are
numbers, the constant functions have their types, no version is the absence of one, and
nobody is no worker. Those
of `CampaignProofs` need `CampaignAssumption` (bounds are numbers, plan sizes are positive
and initial ones fit the bound of jobs, users are no hooks, nobody is neither), those of `ModalDispatcherProofs` `ModalDispatcherAssumption` (bounds are
positive numbers, training jobs and prewarmed ones need Modal) and those of
`LiveFeedProofs` `LiveFeedAssumption` (the sets of transitions are nested).

The inductive invariant is
`IInv == TypeOK /\ AttemptIdentity /\ AssignmentMatched /\ CallbacksOfCreatedJobs`.
None of the three properties is inductive alone. The claim does not compare the
attempt counter with `max_attempts`: that it stays in range follows because a
queued row has an attempt left, which is part of `AttemptIdentity`. Finishing a
job frees the worker that `worker_id` names by its key, whatever that worker holds;
that it does not free it of another job follows from `AssignmentMatched`, and
needs in turn that a row which is not active has no worker pointing at it. And a
callback acts on a row with the attempt the row names by then, which is a legal
attempt only if the job exists: `CallbacksOfCreatedJobs`.

Each action has a lemma (`ClaimOK`, `RecoverOK`, `RetryOK`, ...), with one step per
conjunct it can disturb; `StepOK` combines them. The rows that the transactions
write have lemmas of their own (`ClaimedRowOK`, `RequeuedRowOK`, `FinishedRowOK`), and
so does the one idea that all assignment proofs share: clearing every worker
that points at a job, together with making the job inactive, keeps the two sides
matched (`ReleaseKeepsMatch`), and freeing the named worker does the same
(`FreedIsReleased`). The refinement proof reduces each step to its effect on the
three things the queue sees of a row (`SameQueueRow`).

What snapshots say needs more than `SnapshotAgreesWithJob`, because of the order of revisions:
whether a write lands depends on the revision that is there. `SnapshotsTold` says of each attempt
what its snapshot can be. An attempt still to come has none, or a queued one below the
revision of the assignment, so the claim's snapshot lands. The current attempt's is a stage
of a worker while the job is active, so the outcome lands, whose stage is terminal, and after
which nothing lands. And each step either leaves a snapshot alone or moves it forward
(`Advances`), only if its attempt is the one its job is at, which is `SupersededAttemptsFrozen`.

For `RemoteSession` the invariant adds two facts to `TypeOK`: a waiting job has an
attempt left, and a request fits the step it is at (`RequestFits`): one that
is about to write a session knows the attempt, one that is about to close a
session knows with which status. The action properties follow from
what each statement does to a row (`ClosedRecordOK`, `UpsertedRecordOK`) and from one
lemma about all the transactions that take an attempt away (`TakenAway`): the
session named by the locked job is the one they close.

For `PolicyDispatch` the invariant is `TypeOK`, `BlockedIsDenied`, `BindingsNumbered` (a
subject with an active binding has a positive revision), `WaitingJobsHaveAttempts`, and
what each request may rely on (`RequestFits`). Two clauses of the latter carry the
argument. A request between its comparison and its write has seen the
sources in force (`seen = Sources`): true when the comparison succeeds, and kept
because an edit needs the lock of its subject, which the request holds. Hence a
claim is permitted, and a block is justified when it is written; it stays
justified because an edit marks all jobs under its subject. And an edit
remembers a binding whose revision is not above the subject's last one, and which is still in
force if the subject's current revision is the one it expects: revisions only grow, also
over a cleared binding, so the comparison of two numbers compares the bindings.

That `PolicyDispatch` implements the queue needs two facts more (`QInv`). A job that runs has a
worker, and a worker has one job (`Assigned`): with it the worker of a job that ends or is
requeued is the holder the queue knows. And a retry that is still being evaluated is of a job that was
created (`RetriesCreated`): its write compares nothing, so by then the job may be requeued,
claimed by another worker or over, and each of these has to be a step of the queue or
none. Three kinds of steps change what the queue sees: a creation submits
(`CreationSubmits`), a claim grants (`ClaimGrants`), and all the rest takes a job from its worker, if it has
one (`TakingReleases`).

For `Campaign` the invariant says what an actor at each step relies on (`Fits`): the rows
it remembers exist; a hook that waits for the model, schedules, creates or executes holds
the mutex; while it waits the planner has no decision on its plan, and when it is
about to create a plan, its decision has none and automation is below its limit. The
last two are kept because whoever could change them needs the mutex too, or, being a
user, makes plans that are not automation's own. `PlannerDecidesOnce`, `FollowsUpOnce`
and `RoundsStayBounded` are then the effect of a single step. The count of plans needs
facts about cardinalities, and `Newest` that a set of numbers has a greatest member.

`CampaignDecided` is about a campaign at rest, and its proof about how campaigns come to rest. The
invariant `DInv` adds two parts to `IInv`. `Ground` holds always: a job that is open has had no
hook, a follow-up plan is of a decision on an earlier plan, and a hook looks and writes only for its
own plan and later ones (`Follows`). `Course` holds while no hook was lost and no plan excused.
A hook that ends leaves one of four things behind (`Ends`): a champion
or a decision for one, no run that succeeded at all, open jobs in its own plan, or a
later plan that is alive, with a run that succeeded or a hook to come (`Later`). Each step of a hook either keeps
that true or moves on to a step that will see to it. The delicate one is a hook that executes a plan
and skips jobs: the plan must be left with work (`HasWork`), which nobody takes away in
between because the hook holds the mutex. At rest the newest plan with a run that succeeded
has no later plan alive and no open job, so its last hook left a champion or a decision for one.

For `ModalDispatcher` the invariant is a conjunction of eleven parts. `QueueOK` is the abstract queue's
own: a holder holds one job. `ClaimsOK` says that no claim is newer than its job: with it a new grant is an attempt that no
slot works on, also when a poll claims that was given up. `StraysOK` says that a slot behind whose work
one may claim is busy: such a poll is `late`, because the slot took a job since, and as long as it is
not, its slot is free. An answered poll is by a slot that is free. Together they give `SlotWorksOnWhatItHolds`. `LeadsOK`
ties slots to threads: a slot is led by itself or by an earlier slot that leads itself, except
while the main thread collects, when the leader may be freed already and its slots
behind the cursor not. `CachesOK` is the protocol of the datasets: one thread owns an entry, it is
open until the owner sets its end, and who waits waits at an open entry. `SessionOK`: the session is
open exactly in the inner loop, and outside it nothing started needs it. `PendingOK`: in which places
of the main loop a claim may be waiting to be started; the idle exit is not one of them. `EndsOK` and
`ReportsOK` relate the end of a thread to what was sent for its slots: one that ended well has
told each of them, or lost the attempt; one that ended `reported` has told its leader. What
`FreedAreReported` says is then the effect of one action, `CollectFinishedSlot`. `KeepsToTheQueue`
closes the composition: the orchestrator that the dispatcher is proved with takes no step that
is not the abstract queue's, and the store takes none either (`RefinesJobQueue`), so what the
dispatcher relies on is what the store gives.

For `LiveFeed` the log has the invariant `LogInv` (an open transaction holds the next
number, and there is one such transaction at most), the stream `StreamOK` (the wire is in order, not past
the server's cursor, and holds what lies between the window's cursor and the server's),
and the state `LiveOK`: what is shown is exactly the project's transitions up to the
cursor. That a snapshot answers with any prefix of the log since it was sent, and may
be installed while an older stream is still open, is why `StreamOK` speaks of the
window's cursor and not of the one the stream was opened with.

`HoldersAreDistinct` is obtained from the abstract queue: `Exclusive` is an invariant of
`JobQueue`, and the refinement maps it to `HoldersDistinct`.

All safety invariants, action properties and refinements that passing runs check are proved. Only
model-checked are the liveness properties (`DeadWorkerReleased`, `EveryJobSettles`, `JobSettles`,
`PermittedJobStarts`, `HookFinishes`, `EveryGrantEnds`, `DemandedJobStarts`, `CatchesUp`): they rest on
fairness, which needs `ENABLED`, and that is out of this prover's reach.

## 5. Disagreements found

- **Stale callbacks act**. `docs/plans/01-experiment-execution-fidelity.md:227`
  asks to "Reject stale attempt callbacks." `validateJobCallback` does, on a row it
  reads outside the transaction; the store methods for complete, fail, retry and
  metrics are not given the attempt. In the model: a worker's callback is
  validated, its lease expires and the job is requeued, then the callback's
  transaction runs and ends a job that is queued, or already claimed by another
  worker. The proofs above hold in spite of it: the store stays consistent, and
  only the attribution of the outcome is wrong.
- **A retry has no snapshot**. `docs/plans/03-progress-reporting-and-activity-efficiency.md:197`
  says "Retry creates a fresh attempt-scoped snapshot." The PostgreSQL `RetryJob`
  writes its queued transition under the attempt that failed, where the revision
  rule discards it; the in-memory store and lease recovery write it under the
  attempt to come.
- **A poll hands out a session that refuses every callback** (run `polled`).
  `api/handlers_test.go:335` expects a polled job's session to be active. One
  callback that finds the session expired closes it as `expired`, in the config and
  in its row, and leaves the job running. From then on polls renew the session's
  expiry and keep its status, and the upsert does not reopen the row. Every
  callback is refused, while the polls and heartbeats of the same worker keep the
  lease alive: the job can neither end nor be recovered until a user cancels it or
  its worker falls silent. The same closing step is what `JobSettles` has to exclude.
- **Jobs that no worker can run hide the others**.
  `docs/plans/05-user-configurable-proposal-exclusions.md:1058` says "A blocked
  candidate does not prevent a worker from claiming the next permitted job". A
  candidate whose artifact plan the polling worker cannot satisfy is denied on record
  only: its row does not change, so it is a candidate in the next batch too, and a
  batch in which nothing was decided ends the poll (`api/workers.go:1024`). When the
  oldest jobs of a whole batch are of that kind, a job behind them is never
  looked at, although a worker could run it and no policy denies it.
- **A reopened project closes again by itself** (run `reopened`). The guard against
  follow-ups compares the champion's `updated_at` with the last reopen, and storing the
  champion again updates it (`store/postgres_champion.go:39`). A hook of the same plan
  that was still queued repeats the planner's decision (`api/agent_runtime.go:470`), and
  follow-ups are refused again although the user has just reopened, which
  `api/handlers_test.go:7945` and the guard's own message say should suffice.
- **A snapshot can swallow events** (run `missed`). When a compact snapshot's cursor passes events that
  the stream has not delivered, the stream goes on after them and nobody refetches the
  resources they touched (`liveSessionController.ts:207-227`); polling is off. No fault is
  needed, two events of one job in quick succession are enough.
  `docs/operations/activity-v2-rollout.md:55` lists "any missed transition" as a no-go.
- **An orderly stream looks out of order**. While a compact snapshot's cursor is probed the old
  stream stays open; what it delivers with a lower sequence starts a cursor recovery, and
  three in a row end in fallback. The same document (:50) asks for none. `LiveFeed` has
  this behaviour; `CatchesUp` holds because fallback polls.
- **After `409 cursor_ahead` the session stays in recovery**. `docs/Architecture.md:367` has it
  resynchronise, but a snapshot with a lower cursor than the window's is rejected
  (`liveStateReducer.ts:85`) and nothing is scheduled after that. It takes a restored
  database, which is not modelled.

The model also shows a row that stays active for a job that is over, when a
cancellation falls between the claim and the upsert of the new session. No
document or test says otherwise, and callbacks are refused because the job is over
before its session is looked at; it is noted as a hazard without a property. Nor does one say that
a cursor recovery comes to its end, and this one need not: the timer of the compact snapshot is set in a healthy window, but its callback
does not look again (`liveSessionController.ts:422`). When an event cannot be read or looks out of order, the
recovery's request may be aborted by that timer; if the compact snapshot then has the
cursor that the window has, nothing is probed, and the window stays in recovery with no request, stream or timer until
somebody refreshes. Nothing is lost, because it polls (`livePollingPolicy.ts:57`), at the cost that the stream was to save. The proviso of
`CatchesUp` is that; without it TLC finds this behaviour in run `feed`. Likewise a
cancellation that races with the end of a job leaves a job that succeeded with a summary
that says failed, so its run is no candidate for champion any more.

## 6. What is not modelled, and the plan

In the order of importance; each is one module with its MC module and runs.

1. `StoreLocks` — the order in which transactions lock policy sources, worker and
   job rows, and what PostgreSQL does when two orders meet.
2. `Cancellation` — what `Campaign` leaves out of it: provider calls, summaries written
   without a lock, and outcomes that arrive late.
3. `WorkerRequirement` and `WorkerLoop` — demand as the orchestrator computes it, the
   worker's own retries; the latter refines the worker that `JobLifecycle` assumes.
4. `RetryLadder`, `ProgressReport` — pure rules (out-of-memory escalation, stage
   taxonomy), checked against reference definitions.
5. Dataset cache locking, attempt execution records, AutoML rounds.

Noted while reading and in no module yet: metrics are keyed by job and epoch without the
attempt (`store/postgres_job_records.go:720`), so two attempts write over each other; two
executions of a plan may each create its jobs (`api/plans.go:213`); and a claim that did not
assign counts as progress of the poll (`api/workers.go:1013`).

Left out for good: numeric training and scoring code, prompting and parsing of
language-model output, memory cards and embeddings, catalogs generated from
contracts, settings and diagnostics, and user-interface layout. They are data
without protocol.
