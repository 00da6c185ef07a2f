---------------------------- MODULE JobLifecycle ----------------------------
(***************************************************************************)
(* The job store of the orchestrator, in its PostgreSQL form, with the     *)
(* HTTP callbacks that drive it.  A job row, the worker row that holds it  *)
(* and the progress snapshot of each attempt change together, in one       *)
(* transaction per store method: one action per store method.              *)
(*                                                                         *)
(* A worker callback is not one step.  validateJobCallback reads the job   *)
(* row outside any transaction; the store method runs later, in a          *)
(* transaction that is not told which attempt the callback was for.  A     *)
(* handler is the goroutine of one such request, between the two steps.    *)
(***************************************************************************)
EXTENDS Integers

CONSTANTS
    Jobs, Workers,      \* rows that may come to exist
    Handlers,           \* callback requests the API serves at one time
    NoJob, NoWorker,    \* the empty current_job_id and worker_id
    MaxAttempts,        \* max_attempts of a job (defaultJobMaxAttempts = 3)
    Epochs,             \* epochs a metric may report
    WorkerRevisions     \* revisions a worker may put on a progress report

ASSUME JobLifecycleAssumption ==
    /\ NoJob \notin Jobs
    /\ NoWorker \notin Workers
    /\ MaxAttempts \in Nat \ {0}
    /\ Epochs \subseteq Nat \ {0}
    /\ WorkerRevisions \subseteq Nat \ {0}

VARIABLES
    job,        \* experiment_jobs
    worker,     \* workers
    progress,   \* job_progress, by job and attempt
    handler,    \* callbacks validated and not yet applied
    alive       \* worker processes that still send anything

vars == <<job, worker, progress, handler, alive>>

-----------------------------------------------------------------------------
(* Rows. *)

ActiveStatuses == {"ASSIGNED", "RUNNING"}
TerminalStatuses == {"SUCCEEDED", "FAILED"}
Statuses == {"NONE", "QUEUED"} \cup ActiveStatuses \cup TerminalStatuses

\* The jobs are of a template that policies control: each carries the verdict
\* of its last evaluation, or none since a binding changed or a lease was lost.
PolicyStatuses == {"ALLOWED", "PENDING", "POLICY_BLOCKED"}

\* The attempt a job's config names: "<job>:pending-attempt-N", ":attempt-N"
\* or ":terminal-after-attempt-N", with active_attempt_number = N.
AttemptName == [kind: {"pending", "attempt", "terminal"}, n: 1..MaxAttempts]
Named(k, i) == [kind |-> k, n |-> i]

\* lease_owner_worker_id is always worker_id, and is not kept apart from it.
JobRow == [status: Statuses, attempt: 0..MaxAttempts, active: AttemptName,
           worker: Workers \cup {NoWorker},
           lease: {"none", "live", "expired"}, policy: PolicyStatuses]

\* OFFLINE is derived from last_heartbeat when a row is read, never stored.
WorkerRow == [status: {"NONE", "IDLE", "RUNNING"}, current: Jobs \cup {NoJob}]

TerminalStages == {"completed", "failed", "cancelled"}
WorkerStages == {"worker_starting", "training", "finalizing"}
Stages == {"none", "queued"} \cup WorkerStages \cup TerminalStages
ProgressRow == [stage: Stages, revision: Nat]

OutcomeOps == {"complete", "fail", "retry"}
Ops == OutcomeOps \cup {"metrics", "progress"}
Callback == [op: Ops, job: Jobs, attempt: 1..MaxAttempts]
Idle == [op |-> "idle"]

NoJobRow == [status |-> "NONE", attempt |-> 0, active |-> Named("pending", 1),
             worker |-> NoWorker, lease |-> "none", policy |-> "PENDING"]
FreeWorkerRow == [status |-> "IDLE", current |-> NoJob]

IsActive(r) == r.status \in ActiveStatuses
IsTerminal(r) == r.status \in TerminalStatuses

\* Each definition named ...Faulty is the one after it with a plausible bug in
\* it: the properties are run against it, and nothing here uses it.

\* Faulty: an attempt too many.
AttemptsLeftFaulty(r) == r.attempt <= MaxAttempts
AttemptsLeft(r) == r.attempt < MaxAttempts

\* Faulty: forgets the jobs that already report metrics.
LeaseLostFaulty(r) == r.status = "ASSIGNED" /\ r.lease = "expired"
LeaseLost(r) == IsActive(r) /\ r.lease = "expired"

-----------------------------------------------------------------------------
(* What a transaction writes into one row. *)

\* Faulty: looks at revisions only, so a worker that counts past the terminal
\* revision overwrites the outcome.
UpsertedStageFaulty(row, stage, revision) ==
    IF revision > row.revision THEN [stage |-> stage, revision |-> revision]
    ELSE row

\* Faulty: last writer wins.
UpsertedOrderFaulty(row, stage, revision) ==
    IF row.stage \in TerminalStages THEN row
    ELSE [stage |-> stage, revision |-> revision]

\* A job snapshot row is written only by a newer revision, except that a
\* terminal stage always lands; a terminal stage is never overwritten.
Upserted(row, stage, revision) ==
    CASE row.stage \in TerminalStages -> row
      [] row.stage \notin TerminalStages /\ stage \in TerminalStages ->
            [stage |-> stage,
             revision |-> IF revision > row.revision THEN revision
                          ELSE row.revision + 1]
      [] row.stage \notin TerminalStages /\ stage \notin TerminalStages ->
            IF revision > row.revision
            THEN [stage |-> stage, revision |-> revision] ELSE row

RevisionQueued == 1
RevisionAssigned == 2
RevisionTerminal == 4
RevisionForEpoch(epoch) == RevisionAssigned + epoch

ClaimedRow(r, w) ==
    [status |-> "ASSIGNED", attempt |-> r.attempt + 1,
     active |-> Named("attempt", r.attempt + 1), worker |-> w,
     lease |-> "live", policy |-> "ALLOWED"]

\* Faulty: still names the attempt that just ended.
RequeuedAttemptFaulty(r, p) ==
    [status |-> "QUEUED", attempt |-> r.attempt, active |-> r.active,
     worker |-> NoWorker, lease |-> "none", policy |-> p]

\* Faulty: a retry starts to count again.
RequeuedCountFaulty(r, p) ==
    [status |-> "QUEUED", attempt |-> 0, active |-> Named("pending", 1),
     worker |-> NoWorker, lease |-> "none", policy |-> p]

RequeuedRow(r, p) ==
    [status |-> "QUEUED", attempt |-> r.attempt,
     active |-> Named("pending", r.attempt + 1), worker |-> NoWorker,
     lease |-> "none", policy |-> p]

\* RetryJob and finishJob leave worker_id on the row; lease recovery clears it.
FinishedRow(r, status, n, w, p) ==
    [status |-> status, attempt |-> r.attempt,
     active |-> Named("terminal", n), worker |-> w,
     lease |-> "none", policy |-> p]

\* Faulty: the worker is idle again and still names the job.
WorkersReleasedFaulty(S) ==
    [w \in Workers |-> IF worker[w].current \in S
                       THEN [worker[w] EXCEPT !.status = "IDLE"]
                       ELSE worker[w]]

\* Faulty: the statement has lost its WHERE.
WorkersReleasedAllFaulty(S) == [w \in Workers |-> FreeWorkerRow]

\* UPDATE workers ... WHERE current_job_id = j, for every j of S.
WorkersReleased(S) ==
    [w \in Workers |-> IF worker[w].current \in S THEN FreeWorkerRow
                       ELSE worker[w]]

\* Faulty: the worker of a finished job is forgotten.
WorkerFreedFaulty(w) == worker

\* UPDATE workers ... WHERE id = w, whatever job the row holds.
WorkerFreed(w) ==
    [x \in Workers |-> IF x = w THEN FreeWorkerRow ELSE worker[x]]

SetProgress(j, n, stage, revision) ==
    progress' = [progress EXCEPT ![j][n] = Upserted(@, stage, revision)]

-----------------------------------------------------------------------------
Init ==
    /\ job = [j \in Jobs |-> NoJobRow]
    /\ worker = [w \in Workers |-> [status |-> "NONE", current |-> NoJob]]
    /\ progress = [j \in Jobs |-> [n \in 1..MaxAttempts |->
                                     [stage |-> "none", revision |-> 0]]]
    /\ handler = [h \in Handlers |-> Idle]
    /\ alive = Workers

CreateJobWithOptions(j, p) ==
    /\ job[j].status = "NONE"
    /\ job' = [job EXCEPT ![j] = RequeuedRow(NoJobRow, p)]
    /\ SetProgress(j, 1, "queued", RevisionQueued)
    /\ UNCHANGED <<worker, handler, alive>>

RegisterWorker(w) ==
    /\ w \in alive
    /\ worker[w].status = "NONE"
    /\ worker' = [worker EXCEPT ![w] = FreeWorkerRow]
    /\ UNCHANGED <<job, progress, handler, alive>>

\* A heartbeat of an idle worker changes only last_heartbeat: it is a stutter.
HeartbeatWorker(w) ==
    LET j == worker[w].current
    IN  /\ w \in alive
        /\ j # NoJob
        /\ ~ IsTerminal(job[j])
        /\ job' = [job EXCEPT ![j].lease = "live"]
        /\ UNCHANGED <<worker, progress, handler, alive>>

\* Time passes: lease_expires_at is reached.
LeaseExpires(j) ==
    /\ job[j].lease = "live"
    /\ job' = [job EXCEPT ![j].lease = "expired"]
    /\ UNCHANGED <<worker, progress, handler, alive>>

ClaimJobIfQueuedAndPolicyCurrent(w, j) ==
    /\ w \in alive
    /\ worker[w].status # "NONE"
    /\ worker[w].current = NoJob
    /\ job[j].status = "QUEUED"
    /\ job[j].policy # "POLICY_BLOCKED"
    /\ job' = [job EXCEPT ![j] = ClaimedRow(job[j], w)]
    /\ worker' = [worker EXCEPT ![w] = [status |-> "RUNNING", current |-> j]]
    /\ SetProgress(j, job[j].attempt + 1, "worker_starting", RevisionAssigned)
    /\ UNCHANGED <<handler, alive>>

\* One transaction for every expired lease: requeue, or fail the job whose
\* attempts are used up.
RecoverExpiredJobLeases ==
    LET Expired == {j \in Jobs : LeaseLost(job[j])}
        Exhausted == {j \in Expired : ~ AttemptsLeft(job[j])}
        Requeued == Expired \ Exhausted
    IN  /\ Expired # {}
        /\ job' = [j \in Jobs |->
             CASE j \in Exhausted -> FinishedRow(job[j], "FAILED",
                    job[j].attempt, NoWorker, job[j].policy)
               [] j \in Requeued -> RequeuedRow(job[j], "PENDING")
               [] OTHER -> job[j]]
        /\ worker' = WorkersReleased(Expired)
        /\ progress' = [j \in Jobs |-> [n \in 1..MaxAttempts |->
             CASE j \in Exhausted /\ n = job[j].attempt ->
                    Upserted(progress[j][n], "failed", RevisionTerminal)
               [] j \in Requeued /\ n = job[j].attempt + 1 ->
                    Upserted(progress[j][n], "queued", RevisionQueued)
               [] OTHER -> progress[j][n]]]
        /\ UNCHANGED <<handler, alive>>

\* Faulty: no early return for a job that is over.
FinishJobFaulty(j, status, stage) ==
    /\ job' = [job EXCEPT ![j] = FinishedRow(job[j], status,
                 job[j].active.n, job[j].worker, job[j].policy)]
    /\ worker' = WorkerFreed(job[j].worker)
    /\ SetProgress(j, job[j].active.n, stage, RevisionTerminal)

\* finishJobWithTransition.
FinishJob(j, status, stage) ==
    \/ /\ IsTerminal(job[j])
       /\ worker' = WorkersReleased({j})
       /\ UNCHANGED <<job, progress>>
    \/ /\ ~ IsTerminal(job[j])
       /\ job' = [job EXCEPT ![j] = FinishedRow(job[j], status,
                    job[j].active.n, job[j].worker, job[j].policy)]
       /\ worker' = WorkerFreed(job[j].worker)
       /\ SetProgress(j, job[j].active.n, stage, RevisionTerminal)

\* A user cancels: the plan's job list was read earlier, so the job may have
\* moved on in any way since.
CancelJob(j) ==
    /\ job[j].status # "NONE"
    /\ FinishJob(j, "FAILED", "cancelled")
    /\ UNCHANGED <<handler, alive>>

\* Policy evaluation of a queued job, at dispatch or after lease recovery.
ApplyQueuedJobPolicyEvaluation(j, p) ==
    /\ job[j].status = "QUEUED"
    /\ job' = [job EXCEPT ![j].policy = p]
    /\ UNCHANGED <<worker, progress, handler, alive>>

\* A policy binding changed: its queued jobs await a new evaluation.
MarkQueuedJobsPolicyPending(S) ==
    /\ job' = [j \in Jobs |-> IF j \in S /\ job[j].status = "QUEUED"
                              THEN [job[j] EXCEPT !.policy = "PENDING"]
                              ELSE job[j]]
    /\ UNCHANGED <<worker, progress, handler, alive>>

-----------------------------------------------------------------------------
(* Callbacks: the check, then the transaction.  A callback that fails the  *)
(* check, or the check of its remote session, or the readiness check of    *)
(* completeJob, changes no job: it is a step not taken.                    *)

ValidateJobCallback(h, j, op) ==
    /\ handler[h] = Idle
    /\ job[j].worker \in alive
    /\ ~ IsTerminal(job[j])
    /\ job[j].active.kind = "attempt"
    /\ handler' = [handler EXCEPT ![h] =
                     [op |-> op, job |-> j, attempt |-> job[j].active.n]]
    /\ UNCHANGED <<job, worker, progress, alive>>

Responds(h, op) ==
    /\ handler[h].op = op
    /\ handler' = [handler EXCEPT ![h] = Idle]
    /\ UNCHANGED alive

CompleteJob(h) ==
    /\ Responds(h, "complete")
    /\ FinishJob(handler[h].job, "SUCCEEDED", "completed")

FailJob(h) ==
    /\ Responds(h, "fail")
    /\ FinishJob(handler[h].job, "FAILED", "failed")

\* The out-of-memory ladder or the policy may forbid another attempt
\* (forceFail); p is the policy status the retry was evaluated to, and a
\* blocked retry is always forced to fail.
RetryJob(h, forceFail, p) ==
    LET j == handler[h].job
        n == job[j].active.n
        requeue == AttemptsLeft(job[j]) /\ ~ forceFail
    IN  /\ Responds(h, "retry")
        /\ p = "POLICY_BLOCKED" => forceFail
        /\ worker' = WorkersReleased({j})
        /\ \/ /\ IsTerminal(job[j])
              /\ UNCHANGED <<job, progress>>
           \/ /\ ~ IsTerminal(job[j]) /\ requeue
              /\ job' = [job EXCEPT ![j] = RequeuedRow(job[j], p)]
              /\ SetProgress(j, n, "queued", RevisionQueued)
           \/ /\ ~ IsTerminal(job[j]) /\ ~ requeue
              /\ job' = [job EXCEPT ![j] =
                           FinishedRow(job[j], "FAILED", n, job[j].worker, p)]
              /\ SetProgress(j, n, "failed", RevisionTerminal)

ReportMetric(h, epoch) ==
    LET j == handler[h].job
    IN  /\ Responds(h, "metrics")
        /\ \/ /\ IsActive(job[j])
              /\ job' = [job EXCEPT ![j].status = "RUNNING", ![j].lease = "live"]
              /\ worker' = [worker EXCEPT ![job[j].worker].status = "RUNNING"]
              /\ SetProgress(j, job[j].active.n, "training",
                             RevisionForEpoch(epoch))
           \/ /\ ~ IsActive(job[j])
              /\ UNCHANGED <<job, worker, progress>>

\* The only callback whose transaction compares the attempt again.
ReportJobProgress(h, stage, revision) ==
    LET j == handler[h].job
        n == job[j].active.n
        current == /\ IsActive(job[j])
                   /\ job[j].active = Named("attempt", handler[h].attempt)
    IN  /\ Responds(h, "progress")
        /\ IF current THEN SetProgress(j, n, stage, revision)
                      ELSE UNCHANGED progress
        /\ UNCHANGED <<job, worker>>

ReportsOutcome(h) ==
    \/ CompleteJob(h)
    \/ FailJob(h)
    \/ \E f \in BOOLEAN, p \in PolicyStatuses \ {"PENDING"} : RetryJob(h, f, p)

ApplyCallback(h) ==
    \/ ReportsOutcome(h)
    \/ \E e \in Epochs : ReportMetric(h, e)
    \/ \E s \in WorkerStages, r \in WorkerRevisions : ReportJobProgress(h, s, r)

-----------------------------------------------------------------------------
(* Crashes. *)

\* A worker process, with the training it supervises, falls silent for good.
WorkerDies(w) ==
    /\ w \in alive
    /\ alive' = alive \ {w}
    /\ UNCHANGED <<job, worker, progress, handler>>

\* The orchestrator restarts: requests between their two steps are lost.
OrchestratorRestarts ==
    /\ \E h \in Handlers : handler[h] # Idle
    /\ handler' = [h \in Handlers |-> Idle]
    /\ UNCHANGED <<job, worker, progress, alive>>

-----------------------------------------------------------------------------
Next ==
    \/ \E j \in Jobs, p \in PolicyStatuses \ {"PENDING"} :
          \/ CreateJobWithOptions(j, p)
          \/ ApplyQueuedJobPolicyEvaluation(j, p)
    \/ \E j \in Jobs : LeaseExpires(j) \/ CancelJob(j)
    \/ \E w \in Workers : RegisterWorker(w) \/ HeartbeatWorker(w) \/ WorkerDies(w)
    \/ \E w \in Workers, j \in Jobs : ClaimJobIfQueuedAndPolicyCurrent(w, j)
    \/ \E S \in SUBSET Jobs : MarkQueuedJobsPolicyPending(S)
    \/ RecoverExpiredJobLeases
    \/ \E h \in Handlers, j \in Jobs, op \in Ops : ValidateJobCallback(h, j, op)
    \/ \E h \in Handlers : ApplyCallback(h)
    \/ OrchestratorRestarts

Spec == Init /\ [][Next]_vars

\* Lease recovery runs on a ticker and at every poll; a request that reached
\* its transaction ends; a silent worker's lease runs out.
RecoveryFairness ==
    /\ WF_vars(RecoverExpiredJobLeases)
    /\ \A h \in Handlers : WF_vars(ApplyCallback(h))
    /\ \A j \in Jobs : WF_vars(job[j].worker \notin alive /\ LeaseExpires(j))

\* A worker loop polls while it lives; a poll hands it again the job it still
\* holds, so it goes on reporting some outcome of it until one is served.
WorkerFairness ==
    /\ \A w \in Workers : WF_vars(RegisterWorker(w))
    /\ \A w \in Workers :
         WF_vars(\E j \in Jobs : ClaimJobIfQueuedAndPolicyCurrent(w, j))
    /\ \A w \in Workers :
         SF_vars(\E h \in Handlers, j \in Jobs, op \in OutcomeOps :
                   job[j].worker = w /\ ValidateJobCallback(h, j, op))
    /\ \A h \in Handlers : SF_vars(ReportsOutcome(h))

LiveSpec == Spec /\ RecoveryFairness /\ WorkerFairness

-----------------------------------------------------------------------------
(* Properties. *)

TypeOK ==
    /\ job \in [Jobs -> JobRow]
    /\ worker \in [Workers -> WorkerRow]
    /\ progress \in [Jobs -> [1..MaxAttempts -> ProgressRow]]
    /\ handler \in [Handlers -> Callback \cup {Idle}]
    /\ alive \subseteq Workers

\* The attempt named in a job's config, its attempt counter, its holder and
\* its lease agree with its status: a queued job names the attempt still to
\* come, a claimed one the attempt it counts, and only a claimed one has a
\* lease (policy_dispatch.go, postgres_jobs.go, postgres_job_records.go).
RowIdentity(r) ==
    /\ r.status = "NONE" => r = NoJobRow
    /\ r.status = "QUEUED" =>
         /\ r.attempt < MaxAttempts
         /\ r.active = Named("pending", r.attempt + 1)
         /\ r.worker = NoWorker
         /\ r.lease = "none"
    /\ IsActive(r) =>
         /\ r.active = Named("attempt", r.attempt)
         /\ r.worker # NoWorker
         /\ r.lease # "none"
    /\ IsTerminal(r) =>
         /\ r.active.kind = "terminal"
         /\ r.active.n \in {r.attempt, r.attempt + 1}
         /\ r.lease = "none"

AttemptIdentity == \A j \in Jobs : RowIdentity(job[j])

\* Both sides of an assignment agree, whatever order claims, recoveries,
\* retries, cancellations and late callbacks run in: the job's worker_id
\* names the worker whose current_job_id names the job, and a worker with no
\* job is idle.  Two workers never hold one job.
AssignmentMatched ==
    /\ \A j \in Jobs : IsActive(job[j]) => worker[job[j].worker].current = j
    /\ \A w \in Workers : worker[w].current # NoJob =>
          IsActive(job[worker[w].current]) /\ job[worker[w].current].worker = w
    /\ \A w \in Workers : worker[w].status = "RUNNING" <=>
          worker[w].current # NoJob

\* What the live view joins to a job, the snapshot of the attempt its config
\* names, tells the job's own story: a claimed job shows a worker stage, a
\* succeeded one "completed", a failed one "failed" or "cancelled", however
\* late or stale the worker's reports are.
SnapshotAgreesWithJob ==
    \A j \in Jobs :
      LET stage == progress[j][job[j].active.n].stage
      IN  /\ IsActive(job[j]) => stage \in WorkerStages
          /\ job[j].status = "SUCCEEDED" => stage = "completed"
          /\ job[j].status = "FAILED" => stage \in {"failed", "cancelled"}

\* A snapshot of an attempt that was superseded is history: no late callback,
\* recovery or retry writes it again, and a snapshot still in use only moves
\* to a newer revision.
SupersededAttemptFrozen ==
    [][\A j \in Jobs, n \in 1..MaxAttempts :
         progress'[j][n] # progress[j][n] =>
           /\ n >= job[j].active.n
           /\ progress'[j][n].revision > progress[j][n].revision]_vars

\* A finished job is never reopened, reassigned or re-judged.
TerminalIsFinal ==
    [][\A j \in Jobs : IsTerminal(job[j]) => job'[j] = job[j]]_vars

\* A worker that falls silent does not keep its job: lease recovery takes it
\* back, whatever callbacks of it were still being served.
DeadWorkerReleased ==
    \A w \in Workers, j \in Jobs :
        (w \notin alive /\ IsActive(job[j]) /\ job[j].worker = w)
          ~> (~ IsActive(job[j]) \/ job[j].worker # w)

\* As long as one worker lives and the policy does not block it for ever, a
\* queued job ends, through any number of crashes, retries and recoveries.
EveryJobSettles ==
    \A j \in Jobs :
        ([](alive # {}) /\ <>[](job[j].policy # "POLICY_BLOCKED")) =>
          (job[j].status = "QUEUED" ~> IsTerminal(job[j]))
-----------------------------------------------------------------------------
(* The detailed store implements the abstract queue. *)

Phase(r) ==
    CASE r.status = "NONE" -> "absent"
      [] r.status = "QUEUED" -> "waiting"
      [] IsActive(r) -> "held"
      [] IsTerminal(r) -> "done"

Queue == INSTANCE JobQueue WITH
    phase <- [j \in Jobs |-> Phase(job[j])],
    holder <- [j \in Jobs |-> IF IsActive(job[j]) THEN job[j].worker
                              ELSE NoWorker],
    grants <- [j \in Jobs |-> job[j].attempt]

\* Every step of the store, its late callbacks and its recoveries included, is
\* a step of the queue or leaves the queue as it is.
ImplementsJobQueue == Queue!Spec

\* The promise of the queue, on the store's own rows: no two jobs that are held
\* name the same worker, whatever late callbacks, recoveries and cancellations of
\* both are under way.
HoldersDistinct == Queue!Exclusive
=============================================================================
