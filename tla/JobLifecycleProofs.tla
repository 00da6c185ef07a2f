------------------------- MODULE JobLifecycleProofs -------------------------
(***************************************************************************)
(* The store keeps its rows consistent for every number of jobs, workers,  *)
(* callbacks and attempts.  IInv is inductive: rows are well typed, a row  *)
(* names the right attempt, both sides of an assignment agree, and no      *)
(* callback runs for a job that was never created.                         *)
(***************************************************************************)
EXTENDS JobLifecycle, TLAPS

CallbacksOfCreatedJobs ==
    \A h \in Handlers : handler[h] # Idle => job[handler[h].job].status # "NONE"

IInv == TypeOK /\ AttemptIdentity /\ AssignmentMatched /\ CallbacksOfCreatedJobs

USE JobLifecycleAssumption DEF JobLifecycleAssumption

-----------------------------------------------------------------------------
(* Rows that the transactions write. *)

LEMMA UpsertedType ==
    ASSUME NEW row \in ProgressRow, NEW stage \in Stages, NEW revision \in Nat
    PROVE  Upserted(row, stage, revision) \in ProgressRow
BY DEF Upserted, ProgressRow, Stages, TerminalStages, WorkerStages

LEMMA ClaimedRowOK ==
    ASSUME NEW r \in JobRow, NEW w \in Workers, r.status = "QUEUED", RowIdentity(r)
    PROVE  /\ ClaimedRow(r, w) \in JobRow
           /\ RowIdentity(ClaimedRow(r, w))
           /\ IsActive(ClaimedRow(r, w))
BY DEF ClaimedRow, JobRow, RowIdentity, IsActive, IsTerminal, Named, AttemptName,
       ActiveStatuses, TerminalStatuses, Statuses, PolicyStatuses

LEMMA RequeuedRowOK ==
    ASSUME NEW r \in JobRow, NEW p \in PolicyStatuses, r.attempt < MaxAttempts
    PROVE  /\ RequeuedRow(r, p) \in JobRow
           /\ RowIdentity(RequeuedRow(r, p))
           /\ ~ IsActive(RequeuedRow(r, p))
           /\ ~ IsTerminal(RequeuedRow(r, p))
BY DEF RequeuedRow, JobRow, RowIdentity, IsActive, IsTerminal, Named, AttemptName,
       ActiveStatuses, TerminalStatuses, Statuses, PolicyStatuses

LEMMA FinishedRowOK ==
    ASSUME NEW r \in JobRow, NEW status \in TerminalStatuses,
           NEW n \in 1..MaxAttempts, n \in {r.attempt, r.attempt + 1},
           NEW w \in Workers \cup {NoWorker}, NEW p \in PolicyStatuses
    PROVE  /\ FinishedRow(r, status, n, w, p) \in JobRow
           /\ RowIdentity(FinishedRow(r, status, n, w, p))
           /\ ~ IsActive(FinishedRow(r, status, n, w, p))
           /\ IsTerminal(FinishedRow(r, status, n, w, p))
BY DEF FinishedRow, JobRow, RowIdentity, IsActive, IsTerminal, Named, AttemptName,
       ActiveStatuses, TerminalStatuses, Statuses, PolicyStatuses

\* The attempt a job that is not over names is the one it counts or the next.
LEMMA ActiveAttemptNear ==
    ASSUME NEW r \in JobRow, RowIdentity(r)
    PROVE  /\ r.active.n \in 1..MaxAttempts
           /\ r.active.n \in {r.attempt, r.attempt + 1}
           /\ IsActive(r) => r.active.n = r.attempt
BY DEF JobRow, RowIdentity, IsActive, IsTerminal, Named, AttemptName, NoJobRow,
       ActiveStatuses, TerminalStatuses, Statuses

-----------------------------------------------------------------------------
(* Both sides of an assignment. *)

\* A claimed job names a real worker, a job without a holder no worker at all.
LEMMA HolderKnown ==
    ASSUME TypeOK, AttemptIdentity, NEW j \in Jobs
    PROVE  /\ IsActive(job[j]) => job[j].worker \in Workers
           /\ ~ IsActive(job[j]) /\ ~ IsTerminal(job[j]) => job[j].worker = NoWorker
BY DEF TypeOK, AttemptIdentity, RowIdentity, JobRow, NoJobRow, IsActive, IsTerminal,
       ActiveStatuses, TerminalStatuses, Statuses

\* A transaction that takes the jobs of S away from whoever holds them, and
\* changes no other holder, leaves every assignment matched.
LEMMA ReleaseKeepsMatch ==
    ASSUME TypeOK, AttemptIdentity, AssignmentMatched, NEW S \in SUBSET Jobs,
           worker' = WorkersReleased(S),
           \A j \in S : ~ IsActive(job'[j]),
           \A j \in Jobs \ S : /\ IsActive(job'[j]) <=> IsActive(job[j])
                               /\ job'[j].worker = job[j].worker
    PROVE  AssignmentMatched' /\ worker' \in [Workers -> WorkerRow]
<1>1. worker' \in [Workers -> WorkerRow]
  BY DEF TypeOK, WorkersReleased, FreeWorkerRow, WorkerRow
<1>2. ASSUME NEW w \in Workers
      PROVE  /\ worker[w].current \in S => worker'[w] = FreeWorkerRow
             /\ worker[w].current \notin S => worker'[w] = worker[w]
  BY DEF WorkersReleased
<1>3. ASSUME NEW j \in Jobs, IsActive(job'[j]) PROVE worker'[job'[j].worker].current = j
  <2>1. j \notin S /\ IsActive(job[j]) /\ job'[j].worker = job[j].worker
    BY <1>3
  <2>2. job[j].worker \in Workers /\ worker[job[j].worker].current = j
    BY <2>1, HolderKnown DEF AssignmentMatched
  <2> QED
    BY <2>1, <2>2, <1>2
<1>4. ASSUME NEW w \in Workers
      PROVE  /\ worker'[w].current # NoJob =>
                  /\ IsActive(job'[worker'[w].current])
                  /\ job'[worker'[w].current].worker = w
             /\ worker'[w].status = "RUNNING" <=> worker'[w].current # NoJob
  <2>1. CASE worker[w].current \in S
    BY <2>1, <1>2 DEF FreeWorkerRow
  <2>2. CASE worker[w].current \notin S
    <3>1. worker'[w] = worker[w] /\ worker[w].current \in Jobs \cup {NoJob}
      BY <2>2, <1>2 DEF TypeOK, WorkerRow
    <3> QED
      BY <2>2, <3>1 DEF AssignmentMatched
  <2> QED
    BY <2>1, <2>2
<1> QED
  BY <1>1, <1>3, <1>4 DEF AssignmentMatched

LEMMA KeepsMatch ==
    ASSUME TypeOK, AssignmentMatched, worker' = worker,
           \A j \in Jobs : /\ IsActive(job'[j]) <=> IsActive(job[j])
                           /\ job'[j].worker = job[j].worker
    PROVE  AssignmentMatched'
<1>1. \A w \in Workers : worker[w].current \in Jobs \cup {NoJob}
  BY DEF TypeOK, WorkerRow
<1> QED
  BY <1>1 DEF AssignmentMatched

\* Freeing the worker a job names frees exactly the workers that hold the job.
LEMMA FreedIsReleased ==
    ASSUME TypeOK, AttemptIdentity, AssignmentMatched,
           NEW j \in Jobs, ~ IsTerminal(job[j])
    PROVE  WorkerFreed(job[j].worker) = WorkersReleased({j})
<1>1. ASSUME NEW w \in Workers PROVE worker[w].current = j <=> w = job[j].worker
  <2>1. worker[w].current = j => w = job[j].worker
    BY DEF AssignmentMatched
  <2>2. w = job[j].worker => worker[w].current = j
    BY HolderKnown DEF AssignmentMatched
  <2> QED
    BY <2>1, <2>2
<1> QED
  BY <1>1 DEF WorkerFreed, WorkersReleased

-----------------------------------------------------------------------------
(* What a step has to show, and what one that writes a single row shows. *)

RowsOK ==
    /\ job \in [Jobs -> JobRow]
    /\ worker \in [Workers -> WorkerRow]
    /\ progress \in [Jobs -> [1..MaxAttempts -> ProgressRow]]
    /\ AttemptIdentity
    /\ AssignmentMatched

CreatedStays == \A j \in Jobs : job[j].status # "NONE" => job'[j].status # "NONE"

LEMMA Assemble ==
    ASSUME IInv, RowsOK', CreatedStays, alive' \subseteq Workers,
           handler' \in [Handlers -> Callback \cup {Idle}],
           \A h \in Handlers : handler'[h] \in {handler[h], Idle}
    PROVE  IInv'
<1>1. TypeOK'
  BY DEF RowsOK, TypeOK
<1>2. CallbacksOfCreatedJobs'
  <2> SUFFICES ASSUME NEW h \in Handlers, handler'[h] # Idle
               PROVE  job'[handler'[h].job].status # "NONE"
    BY DEF CallbacksOfCreatedJobs
  <2>1. handler'[h] = handler[h] /\ handler[h] \in Callback
    BY DEF IInv, TypeOK
  <2> QED
    BY <2>1 DEF IInv, CallbacksOfCreatedJobs, CreatedStays, Callback
<1> QED
  BY <1>1, <1>2 DEF IInv, RowsOK

LEMMA OneJobWritten ==
    ASSUME TypeOK, AttemptIdentity, NEW j \in Jobs,
           NEW r \in JobRow, RowIdentity(r), r.status # "NONE",
           job' = [job EXCEPT ![j] = r]
    PROVE  job' \in [Jobs -> JobRow] /\ AttemptIdentity' /\ CreatedStays
BY DEF TypeOK, AttemptIdentity, CreatedStays

LEMMA OneSnapshotWritten ==
    ASSUME TypeOK, NEW j \in Jobs, NEW n \in 1..MaxAttempts,
           NEW stage \in Stages, NEW revision \in Nat,
           SetProgress(j, n, stage, revision)
    PROVE  progress' \in [Jobs -> [1..MaxAttempts -> ProgressRow]]
<1>1. Upserted(progress[j][n], stage, revision) \in ProgressRow
  BY UpsertedType DEF TypeOK
<1> QED
  BY <1>1 DEF TypeOK, SetProgress

LEMMA RowTyped ==
    ASSUME TypeOK, AttemptIdentity, NEW j \in Jobs
    PROVE  job[j] \in JobRow /\ RowIdentity(job[j])
BY DEF TypeOK, AttemptIdentity

\* A callback that answers was validated for some job.
LEMMA CallbackJob ==
    ASSUME TypeOK, NEW h \in Handlers, NEW op \in Ops, Responds(h, op)
    PROVE  /\ handler[h] \in Callback /\ handler[h].job \in Jobs /\ handler[h] # Idle
           /\ handler' = [handler EXCEPT ![h] = Idle] /\ alive' = alive
BY DEF TypeOK, Responds, Callback, Idle, Ops, OutcomeOps

\* A transaction that ends a job, whoever asks for it.
LEMMA FinishJobOK ==
    ASSUME IInv, NEW j \in Jobs, NEW status \in TerminalStatuses,
           NEW stage \in TerminalStages, FinishJob(j, status, stage)
    PROVE  RowsOK' /\ CreatedStays
<1> USE DEF IInv
<1>1. CASE IsTerminal(job[j]) /\ worker' = WorkersReleased({j})
           /\ UNCHANGED <<job, progress>>
  <2>1. ~ IsActive(job[j])
    BY <1>1 DEF IsActive, IsTerminal, ActiveStatuses, TerminalStatuses
  <2>2. AssignmentMatched' /\ worker' \in [Workers -> WorkerRow]
    BY <1>1, <2>1, ReleaseKeepsMatch
  <2>3. job' \in [Jobs -> JobRow] /\ AttemptIdentity' /\ CreatedStays
    BY <1>1 DEF TypeOK, AttemptIdentity, CreatedStays
  <2> QED
    BY <1>1, <2>2, <2>3 DEF TypeOK, RowsOK
<1>2. CASE ~ IsTerminal(job[j])
  <2> DEFINE n == job[j].active.n
             r == FinishedRow(job[j], status, n, job[j].worker, job[j].policy)
  <2>1. /\ job' = [job EXCEPT ![j] = r]
        /\ worker' = WorkerFreed(job[j].worker)
        /\ SetProgress(j, n, stage, RevisionTerminal)
    BY <1>2 DEF FinishJob
  <2>2. n \in 1..MaxAttempts /\ n \in {job[j].attempt, job[j].attempt + 1}
    BY RowTyped, ActiveAttemptNear
  <2>3. job[j].worker \in Workers \cup {NoWorker} /\ job[j].policy \in PolicyStatuses
    BY RowTyped DEF JobRow
  <2>4. r \in JobRow /\ RowIdentity(r) /\ ~ IsActive(r) /\ IsTerminal(r)
    BY <2>2, <2>3, RowTyped, FinishedRowOK
  <2>5. job' \in [Jobs -> JobRow] /\ AttemptIdentity' /\ CreatedStays
    BY <2>1, <2>4, OneJobWritten DEF IsTerminal, TerminalStatuses
  <2>6. progress' \in [Jobs -> [1..MaxAttempts -> ProgressRow]]
    BY <2>1, <2>2, OneSnapshotWritten
       DEF Stages, TerminalStages, RevisionTerminal
  <2>7. AssignmentMatched' /\ worker' \in [Workers -> WorkerRow]
    <3>1. worker' = WorkersReleased({j})
      BY <1>2, <2>1, FreedIsReleased
    <3>2. ~ IsActive(job'[j]) /\ \A i \in Jobs \ {j} : job'[i] = job[i]
      BY <2>1, <2>4 DEF TypeOK
    <3> QED
      BY <3>1, <3>2, ReleaseKeepsMatch
  <2> QED
    BY <2>5, <2>6, <2>7 DEF RowsOK
<1> QED
  BY <1>1, <1>2 DEF FinishJob

-----------------------------------------------------------------------------
(* One lemma per action that writes more than a field. *)

LEMMA CreateJobOK ==
    ASSUME IInv, NEW j \in Jobs, NEW p \in PolicyStatuses, CreateJobWithOptions(j, p)
    PROVE  IInv'
<1> USE DEF IInv
<1>1. /\ job[j] = NoJobRow
      /\ ~ IsActive(job[j]) /\ NoJobRow \in JobRow /\ NoJobRow.attempt < MaxAttempts
  <2>1. job[j] = NoJobRow
    BY DEF CreateJobWithOptions, AttemptIdentity, RowIdentity
  <2>2. job[j] \in JobRow /\ NoJobRow.attempt < MaxAttempts
    BY RowTyped DEF NoJobRow
  <2>3. ~ IsActive(job[j])
    BY <2>1 DEF NoJobRow, IsActive, ActiveStatuses
  <2> QED
    BY <2>1, <2>2, <2>3
<1> DEFINE r == RequeuedRow(NoJobRow, p)
<1>2. r \in JobRow /\ RowIdentity(r) /\ ~ IsActive(r)
  BY <1>1, RequeuedRowOK
<1>3. r.status # "NONE" /\ r.worker = NoWorker
  BY DEF RequeuedRow
<1>4. job' \in [Jobs -> JobRow] /\ AttemptIdentity' /\ CreatedStays
  BY <1>2, <1>3, OneJobWritten DEF CreateJobWithOptions
<1>5. progress' \in [Jobs -> [1..MaxAttempts -> ProgressRow]]
  BY OneSnapshotWritten DEF CreateJobWithOptions, Stages, RevisionQueued
<1>6. AssignmentMatched'
  <2>1. job' = [job EXCEPT ![j] = r] /\ worker' = worker
    BY DEF CreateJobWithOptions
  <2>2. job[j].worker = NoWorker
    BY <1>1 DEF NoJobRow
  <2>3. \A i \in Jobs : /\ IsActive(job'[i]) <=> IsActive(job[i])
                        /\ job'[i].worker = job[i].worker
    BY <1>1, <1>2, <1>3, <2>1, <2>2 DEF TypeOK
  <2> QED
    BY <2>1, <2>3, KeepsMatch
<1>7. RowsOK'
  BY <1>4, <1>5, <1>6 DEF RowsOK, TypeOK, CreateJobWithOptions
<1>8. /\ alive' \subseteq Workers /\ handler' \in [Handlers -> Callback \cup {Idle}]
      /\ \A h \in Handlers : handler'[h] \in {handler[h], Idle}
  BY DEF CreateJobWithOptions, TypeOK
<1> QED
  BY <1>4, <1>7, <1>8, Assemble

LEMMA ClaimOK ==
    ASSUME IInv, NEW w \in Workers, NEW j \in Jobs,
           ClaimJobIfQueuedAndPolicyCurrent(w, j)
    PROVE  IInv'
<1> USE DEF IInv
<1> DEFINE r == ClaimedRow(job[j], w)
<1>1. /\ job' = [job EXCEPT ![j] = r]
      /\ worker' = [worker EXCEPT ![w] = [status |-> "RUNNING", current |-> j]]
      /\ job[j].status = "QUEUED" /\ worker[w].current = NoJob
  BY DEF ClaimJobIfQueuedAndPolicyCurrent
<1>2. /\ job[j] \in JobRow /\ RowIdentity(job[j]) /\ ~ IsActive(job[j])
      /\ job[j].attempt + 1 \in 1..MaxAttempts
  <2>1. job[j] \in JobRow /\ RowIdentity(job[j])
    BY RowTyped
  <2>2. job[j].attempt < MaxAttempts
    BY <1>1, <2>1 DEF RowIdentity
  <2> QED
    BY <1>1, <2>1, <2>2 DEF IsActive, ActiveStatuses, JobRow
<1>3. r \in JobRow /\ RowIdentity(r) /\ IsActive(r)
  BY <1>1, <1>2, ClaimedRowOK
<1>4. r.status # "NONE" /\ r.worker = w
  BY DEF ClaimedRow
<1>5. job' \in [Jobs -> JobRow] /\ AttemptIdentity' /\ CreatedStays
  BY <1>1, <1>3, <1>4, OneJobWritten
<1>6. progress' \in [Jobs -> [1..MaxAttempts -> ProgressRow]]
  BY <1>2, OneSnapshotWritten
     DEF ClaimJobIfQueuedAndPolicyCurrent, Stages, WorkerStages, RevisionAssigned
<1>7. worker' \in [Workers -> WorkerRow]
  BY <1>1 DEF TypeOK, WorkerRow
<1>8. AssignmentMatched'
  <2>1. \A x \in Workers : worker[x].current # j
    BY <1>2 DEF AssignmentMatched
  <2>2. /\ job'[j] = r /\ \A i \in Jobs \ {j} : job'[i] = job[i]
        /\ worker'[w] = [status |-> "RUNNING", current |-> j]
        /\ \A x \in Workers \ {w} : worker'[x] = worker[x]
    BY <1>1 DEF TypeOK
  <2>3. ASSUME NEW i \in Jobs, IsActive(job'[i])
        PROVE  worker'[job'[i].worker].current = i
    <3>1. CASE i = j
      BY <3>1, <2>2, <1>4
    <3>2. CASE i # j
      <4>1. job'[i] = job[i] /\ job[i].worker \in Workers
            /\ worker[job[i].worker].current = i
        BY <2>3, <3>2, <2>2, HolderKnown DEF AssignmentMatched
      <4> QED
        BY <4>1, <2>2, <1>1
    <3> QED
      BY <3>1, <3>2
  <2>4. ASSUME NEW x \in Workers
        PROVE  /\ worker'[x].current # NoJob =>
                    /\ IsActive(job'[worker'[x].current])
                    /\ job'[worker'[x].current].worker = x
               /\ worker'[x].status = "RUNNING" <=> worker'[x].current # NoJob
    <3>1. CASE x = w
      BY <3>1, <2>2, <1>3, <1>4
    <3>2. CASE x # w
      <4>1. worker'[x] = worker[x] /\ worker[x].current \in Jobs \cup {NoJob}
        BY <3>2, <2>2 DEF TypeOK, WorkerRow
      <4> QED
        BY <4>1, <2>1, <2>2 DEF AssignmentMatched
    <3> QED
      BY <3>1, <3>2
  <2> QED
    BY <2>3, <2>4 DEF AssignmentMatched
<1>9. RowsOK'
  BY <1>5, <1>6, <1>7, <1>8 DEF RowsOK
<1>10. /\ alive' \subseteq Workers /\ handler' \in [Handlers -> Callback \cup {Idle}]
       /\ \A h \in Handlers : handler'[h] \in {handler[h], Idle}
  BY DEF ClaimJobIfQueuedAndPolicyCurrent, TypeOK
<1> QED
  BY <1>5, <1>9, <1>10, Assemble

LEMMA RecoverOK ==
    ASSUME IInv, RecoverExpiredJobLeases
    PROVE  IInv'
<1> USE DEF IInv
<1> DEFINE Expired == {j \in Jobs : LeaseLost(job[j])}
           Exhausted == {j \in Expired : ~ AttemptsLeft(job[j])}
           Requeued == Expired \ Exhausted
           Failed(j) == FinishedRow(job[j], "FAILED", job[j].attempt, NoWorker,
                                    job[j].policy)
           Back(j) == RequeuedRow(job[j], "PENDING")
<1>1. /\ job' = [j \in Jobs |-> IF j \in Exhausted THEN Failed(j)
                                ELSE IF j \in Requeued THEN Back(j) ELSE job[j]]
      /\ worker' = WorkersReleased(Expired)
      /\ UNCHANGED <<handler, alive>>
  BY Zenon DEF RecoverExpiredJobLeases
<1>2. ASSUME NEW j \in Expired
      PROVE  /\ job[j] \in JobRow /\ job[j].attempt \in 1..MaxAttempts
             /\ job[j].policy \in PolicyStatuses
  <2>1. job[j] \in JobRow /\ RowIdentity(job[j]) /\ IsActive(job[j])
    BY RowTyped DEF LeaseLost
  <2> QED
    BY <2>1, ActiveAttemptNear DEF JobRow
<1>3. ASSUME NEW j \in Exhausted
      PROVE  /\ Failed(j) \in JobRow /\ RowIdentity(Failed(j)) /\ ~ IsActive(Failed(j))
             /\ Failed(j).status # "NONE"
  <2>1. /\ Failed(j) \in JobRow /\ RowIdentity(Failed(j)) /\ ~ IsActive(Failed(j))
        /\ IsTerminal(Failed(j))
    BY <1>2, FinishedRowOK DEF TerminalStatuses
  <2> QED
    BY <2>1 DEF IsTerminal, TerminalStatuses
<1>4. ASSUME NEW j \in Requeued
      PROVE  /\ Back(j) \in JobRow /\ RowIdentity(Back(j)) /\ ~ IsActive(Back(j))
             /\ Back(j).status # "NONE"
  <2>1. job[j].attempt < MaxAttempts
    BY <1>2 DEF AttemptsLeft
  <2>2. Back(j) \in JobRow /\ RowIdentity(Back(j)) /\ ~ IsActive(Back(j))
    BY <1>2, <2>1, RequeuedRowOK DEF PolicyStatuses
  <2> QED
    BY <2>2 DEF RequeuedRow
<1>5. job' \in [Jobs -> JobRow] /\ AttemptIdentity' /\ CreatedStays
  BY <1>1, <1>3, <1>4 DEF TypeOK, AttemptIdentity, CreatedStays
<1>6. AssignmentMatched' /\ worker' \in [Workers -> WorkerRow]
  <2>1. \A j \in Expired : ~ IsActive(job'[j])
    BY <1>1, <1>3, <1>4
  <2>2. \A j \in Jobs \ Expired : job'[j] = job[j]
    BY <1>1
  <2> QED
    BY <1>1, <2>1, <2>2, ReleaseKeepsMatch
<1>7. progress' \in [Jobs -> [1..MaxAttempts -> ProgressRow]]
  <2>1. ASSUME NEW j \in Jobs, NEW n \in 1..MaxAttempts
        PROVE  /\ Upserted(progress[j][n], "failed", RevisionTerminal) \in ProgressRow
               /\ Upserted(progress[j][n], "queued", RevisionQueued) \in ProgressRow
               /\ progress[j][n] \in ProgressRow
    BY UpsertedType
       DEF TypeOK, Stages, TerminalStages, RevisionTerminal, RevisionQueued
  <2>2. progress' = [j \in Jobs |-> [n \in 1..MaxAttempts |->
          IF j \in Exhausted /\ n = job[j].attempt
          THEN Upserted(progress[j][n], "failed", RevisionTerminal)
          ELSE IF j \in Requeued /\ n = job[j].attempt + 1
               THEN Upserted(progress[j][n], "queued", RevisionQueued)
               ELSE progress[j][n]]]
    BY Zenon DEF RecoverExpiredJobLeases
  <2> QED
    BY <2>1, <2>2
<1>8. RowsOK'
  BY <1>5, <1>6, <1>7 DEF RowsOK
<1>9. /\ alive' \subseteq Workers /\ handler' \in [Handlers -> Callback \cup {Idle}]
      /\ \A h \in Handlers : handler'[h] \in {handler[h], Idle}
  BY <1>1 DEF TypeOK
<1> QED
  BY <1>5, <1>8, <1>9, Assemble

LEMMA RetryOK ==
    ASSUME IInv, NEW h \in Handlers, NEW f \in BOOLEAN, NEW p \in PolicyStatuses,
           RetryJob(h, f, p)
    PROVE  RowsOK' /\ CreatedStays
<1> USE DEF IInv
<1> DEFINE j == handler[h].job
           n == job[j].active.n
<1>1. j \in Jobs
  BY CallbackJob DEF RetryJob, Ops, OutcomeOps
<1>2. /\ job[j] \in JobRow /\ RowIdentity(job[j]) /\ job[j].worker \in Workers \cup {NoWorker}
      /\ n \in 1..MaxAttempts /\ n \in {job[j].attempt, job[j].attempt + 1}
  BY <1>1, RowTyped, ActiveAttemptNear DEF JobRow
<1>3. worker' = WorkersReleased({j})
  BY DEF RetryJob
<1>4. CASE IsTerminal(job[j]) /\ UNCHANGED <<job, progress>>
  <2>1. ~ IsActive(job[j])
    BY <1>4 DEF IsActive, IsTerminal, ActiveStatuses, TerminalStatuses
  <2>2. AssignmentMatched' /\ worker' \in [Workers -> WorkerRow]
    BY <1>1, <1>3, <1>4, <2>1, ReleaseKeepsMatch
  <2>3. job' \in [Jobs -> JobRow] /\ AttemptIdentity' /\ CreatedStays
    BY <1>4 DEF TypeOK, AttemptIdentity, CreatedStays
  <2> QED
    BY <1>4, <2>2, <2>3 DEF TypeOK, RowsOK
<1>5. ASSUME NEW r \in JobRow, RowIdentity(r), ~ IsActive(r), r.status # "NONE",
             job' = [job EXCEPT ![j] = r],
             NEW stage \in Stages, NEW revision \in Nat,
             SetProgress(j, n, stage, revision)
      PROVE  RowsOK' /\ CreatedStays
  <2>1. job' \in [Jobs -> JobRow] /\ AttemptIdentity' /\ CreatedStays
    BY <1>1, <1>5, OneJobWritten
  <2>2. progress' \in [Jobs -> [1..MaxAttempts -> ProgressRow]]
    BY <1>1, <1>2, <1>5, OneSnapshotWritten
  <2>3. ~ IsActive(job'[j]) /\ \A i \in Jobs \ {j} : job'[i] = job[i]
    BY <1>1, <1>5 DEF TypeOK
  <2>4. AssignmentMatched' /\ worker' \in [Workers -> WorkerRow]
    BY <1>1, <1>3, <2>3, ReleaseKeepsMatch
  <2> QED
    BY <2>1, <2>2, <2>4 DEF RowsOK
<1>6. CASE /\ job[j].attempt < MaxAttempts
           /\ job' = [job EXCEPT ![j] = RequeuedRow(job[j], p)]
           /\ SetProgress(j, n, "queued", RevisionQueued)
  <2> DEFINE r == RequeuedRow(job[j], p)
  <2>1. r \in JobRow /\ RowIdentity(r) /\ ~ IsActive(r)
    BY <1>2, <1>6, RequeuedRowOK
  <2>2. r.status # "NONE"
    BY DEF RequeuedRow
  <2> HIDE DEF r
  <2> QED
    BY <1>5, <1>6, <2>1, <2>2 DEF r, Stages, RevisionQueued
<1>7. CASE /\ job' = [job EXCEPT ![j] = FinishedRow(job[j], "FAILED", n, job[j].worker, p)]
           /\ SetProgress(j, n, "failed", RevisionTerminal)
  <2> DEFINE r == FinishedRow(job[j], "FAILED", n, job[j].worker, p)
  <2>1. r \in JobRow /\ RowIdentity(r) /\ ~ IsActive(r)
    BY <1>2, FinishedRowOK DEF TerminalStatuses
  <2>2. r.status # "NONE"
    BY DEF FinishedRow
  <2> HIDE DEF r
  <2> QED
    BY <1>5, <1>7, <2>1, <2>2 DEF r, Stages, TerminalStages, RevisionTerminal
<1> QED
  BY <1>4, <1>6, <1>7 DEF RetryJob, AttemptsLeft

\* A transaction that writes one field of a row keeps what the row names.
LEMMA FieldWritten ==
    ASSUME NEW r \in JobRow, RowIdentity(r)
    PROVE  /\ \A p \in PolicyStatuses : r.status = "QUEUED" =>
                /\ [r EXCEPT !.policy = p] \in JobRow
                /\ RowIdentity([r EXCEPT !.policy = p])
           /\ \A l \in {"live", "expired"} : IsActive(r) =>
                /\ [r EXCEPT !.lease = l] \in JobRow
                /\ RowIdentity([r EXCEPT !.lease = l])
                /\ [r EXCEPT !.status = "RUNNING", !.lease = l] \in JobRow
                /\ RowIdentity([r EXCEPT !.status = "RUNNING", !.lease = l])
BY DEF RowIdentity, JobRow, IsActive, IsTerminal, ActiveStatuses, TerminalStatuses,
       Statuses, NoJobRow

LEMMA OneFieldOK ==
    ASSUME IInv, UNCHANGED worker, NEW j \in Jobs,
           NEW r \in JobRow, RowIdentity(r), r.status # "NONE",
           job' = [job EXCEPT ![j] = r],
           IsActive(r) <=> IsActive(job[j]), r.worker = job[j].worker
    PROVE  /\ job' \in [Jobs -> JobRow]
           /\ AttemptIdentity' /\ AssignmentMatched' /\ CreatedStays
<1> USE DEF IInv
<1>1. job' \in [Jobs -> JobRow] /\ AttemptIdentity' /\ CreatedStays
  BY OneJobWritten
<1>2. \A i \in Jobs : /\ IsActive(job'[i]) <=> IsActive(job[i])
                      /\ job'[i].worker = job[i].worker
  BY DEF TypeOK
<1> QED
  BY <1>1, <1>2, KeepsMatch

\* LeaseExpires, and a heartbeat that renews the lease.
LEMMA LeaseOK ==
    ASSUME IInv, NEW j \in Jobs, IsActive(job[j]), NEW l \in {"live", "expired"},
           job' = [job EXCEPT ![j].lease = l],
           UNCHANGED <<worker, progress, handler, alive>>
    PROVE  IInv'
<1> USE DEF IInv
<1> DEFINE r == [job[j] EXCEPT !.lease = l]
<1>1. job[j] \in JobRow /\ RowIdentity(job[j])
  BY RowTyped
<1>2. r \in JobRow /\ RowIdentity(r)
  BY <1>1, FieldWritten
<1>3. r.status = job[j].status /\ r.worker = job[j].worker
  BY <1>1 DEF JobRow
<1>4. job' = [job EXCEPT ![j] = r]
  BY DEF TypeOK
<1>5. /\ job' \in [Jobs -> JobRow]
      /\ AttemptIdentity' /\ AssignmentMatched' /\ CreatedStays
  BY <1>2, <1>3, <1>4, OneFieldOK DEF IsActive, ActiveStatuses
<1>6. RowsOK'
  BY <1>5 DEF RowsOK, TypeOK
<1> QED
  BY <1>5, <1>6, Assemble DEF TypeOK

LEMMA PolicyOK ==
    ASSUME IInv, UNCHANGED <<worker, progress, handler, alive>>,
           NEW S \in SUBSET Jobs, NEW p \in PolicyStatuses,
           job' = [j \in Jobs |-> IF j \in S /\ job[j].status = "QUEUED"
                                  THEN [job[j] EXCEPT !.policy = p] ELSE job[j]]
    PROVE  IInv'
<1> USE DEF IInv
<1>1. ASSUME NEW j \in Jobs
      PROVE  /\ job'[j] \in JobRow /\ RowIdentity(job'[j])
             /\ job'[j].status = job[j].status /\ job'[j].worker = job[j].worker
  <2>1. job[j] \in JobRow /\ RowIdentity(job[j])
    BY RowTyped
  <2>2. CASE j \in S /\ job[j].status = "QUEUED"
    <3>1. job'[j] = [job[j] EXCEPT !.policy = p]
      BY <2>2
    <3>2. [job[j] EXCEPT !.policy = p] \in JobRow
          /\ RowIdentity([job[j] EXCEPT !.policy = p])
      BY <2>1, <2>2, FieldWritten
    <3> QED
      BY <2>1, <3>1, <3>2 DEF JobRow
  <2>3. CASE ~ (j \in S /\ job[j].status = "QUEUED")
    BY <2>1, <2>3
  <2> QED
    BY <2>2, <2>3
<1>2. job' \in [Jobs -> JobRow] /\ AttemptIdentity' /\ CreatedStays
  BY <1>1 DEF AttemptIdentity, CreatedStays
<1>3. AssignmentMatched'
  BY <1>1, KeepsMatch DEF IsActive
<1>4. RowsOK'
  BY <1>2, <1>3 DEF RowsOK, TypeOK
<1> QED
  BY <1>2, <1>4, Assemble DEF TypeOK

\* The metric of an active job marks it, and a worker already marked, RUNNING.
LEMMA MetricOK ==
    ASSUME IInv, NEW h \in Handlers, NEW e \in Epochs, ReportMetric(h, e)
    PROVE  RowsOK' /\ CreatedStays
<1> USE DEF IInv
<1> DEFINE j == handler[h].job
<1>1. j \in Jobs
  BY CallbackJob DEF ReportMetric, Ops, OutcomeOps
<1>2. CASE UNCHANGED <<job, worker, progress>>
  BY <1>2 DEF RowsOK, TypeOK, CreatedStays, AttemptIdentity, AssignmentMatched
<1>3. CASE /\ IsActive(job[j])
           /\ job' = [job EXCEPT ![j].status = "RUNNING", ![j].lease = "live"]
           /\ worker' = [worker EXCEPT ![job[j].worker].status = "RUNNING"]
           /\ SetProgress(j, job[j].active.n, "training", RevisionForEpoch(e))
  <2> DEFINE r == [job[j] EXCEPT !.status = "RUNNING", !.lease = "live"]
  <2>1. job[j] \in JobRow /\ RowIdentity(job[j]) /\ job[j].active.n \in 1..MaxAttempts
    BY <1>1, RowTyped, ActiveAttemptNear
  <2>2. r \in JobRow /\ RowIdentity(r)
    BY <1>3, <2>1, FieldWritten
  <2>3. r.status = "RUNNING" /\ r.worker = job[j].worker
    BY <2>1 DEF JobRow
  <2>4. job' = [job EXCEPT ![j] = r]
    BY <1>1, <1>3 DEF TypeOK
  <2>5. worker' = worker
    <3> DEFINE w == job[j].worker
    <3>1. w \in Workers /\ worker[w].current = j
      BY <1>1, <1>3, HolderKnown DEF AssignmentMatched
    <3>2. worker[w].status = "RUNNING"
      BY <1>1, <3>1 DEF AssignmentMatched
    <3>3. worker[w] \in WorkerRow
      BY <3>1 DEF TypeOK
    <3>4. [worker[w] EXCEPT !.status = "RUNNING"] = worker[w]
      BY <3>2, <3>3 DEF WorkerRow
    <3>5. worker' = [worker EXCEPT ![w] = worker[w]]
      BY <1>3, <3>1, <3>4 DEF TypeOK
    <3> QED
      BY <3>1, <3>5 DEF TypeOK
  <2>6. /\ job' \in [Jobs -> JobRow]
        /\ AttemptIdentity' /\ AssignmentMatched' /\ CreatedStays
    BY <1>1, <1>3, <2>2, <2>3, <2>4, <2>5, OneFieldOK DEF IsActive, ActiveStatuses
  <2>7. progress' \in [Jobs -> [1..MaxAttempts -> ProgressRow]]
    <3>1. RevisionForEpoch(e) \in Nat /\ "training" \in Stages
      BY DEF RevisionForEpoch, RevisionAssigned, Stages, WorkerStages
    <3> QED
      BY <1>1, <1>3, <2>1, <3>1, OneSnapshotWritten
  <2> QED
    BY <2>5, <2>6, <2>7 DEF RowsOK, TypeOK
<1> QED
  BY <1>2, <1>3 DEF ReportMetric

LEMMA ProgressOK ==
    ASSUME IInv, NEW h \in Handlers, NEW stage \in WorkerStages,
           NEW revision \in WorkerRevisions, ReportJobProgress(h, stage, revision)
    PROVE  RowsOK' /\ CreatedStays
<1> USE DEF IInv
<1> DEFINE j == handler[h].job
<1>1. j \in Jobs /\ UNCHANGED <<job, worker>>
  BY CallbackJob DEF ReportJobProgress, Ops, OutcomeOps
<1>2. job[j].active.n \in 1..MaxAttempts
  BY <1>1, RowTyped, ActiveAttemptNear
<1>3. progress' \in [Jobs -> [1..MaxAttempts -> ProgressRow]]
  <2>1. CASE UNCHANGED progress
    BY <2>1 DEF TypeOK
  <2>2. CASE SetProgress(j, job[j].active.n, stage, revision)
    BY <1>1, <1>2, <2>2, OneSnapshotWritten DEF Stages
  <2> QED
    BY <2>1, <2>2 DEF ReportJobProgress
<1> QED
  BY <1>1, <1>3 DEF RowsOK, TypeOK, CreatedStays, AttemptIdentity, AssignmentMatched

-----------------------------------------------------------------------------
\* The steps that only move a handler, a worker process or an idle worker row.
LEMMA RegisterOK ==
    ASSUME IInv, NEW w \in Workers, RegisterWorker(w)
    PROVE  IInv'
<1> USE DEF IInv
<1>1. /\ UNCHANGED <<job, progress, handler, alive>> /\ worker[w].current = NoJob
      /\ worker' = [worker EXCEPT ![w] = FreeWorkerRow]
  <2>1. worker[w].status = "NONE"
    BY DEF RegisterWorker
  <2>2. worker[w].current = NoJob
    BY <2>1 DEF AssignmentMatched
  <2> QED
    BY <2>2 DEF RegisterWorker
<1>2. worker' \in [Workers -> WorkerRow]
  BY <1>1 DEF TypeOK, FreeWorkerRow, WorkerRow
<1>3. \A x \in Workers : /\ worker'[x].current = worker[x].current
                         /\ worker'[x].status = "RUNNING" <=> worker[x].status = "RUNNING"
  BY <1>1 DEF TypeOK, FreeWorkerRow, AssignmentMatched
<1>4. \A j \in Jobs : IsActive(job[j]) => job[j].worker \in Workers
  BY HolderKnown
<1>5. AssignmentMatched'
  BY <1>1, <1>3, <1>4 DEF AssignmentMatched
<1>6. RowsOK' /\ CreatedStays
  BY <1>1, <1>2, <1>5 DEF RowsOK, TypeOK, AttemptIdentity, CreatedStays
<1> QED
  BY <1>1, <1>6, Assemble DEF TypeOK

LEMMA ValidateOK ==
    ASSUME IInv, NEW h \in Handlers, NEW j \in Jobs, NEW op \in Ops,
           ValidateJobCallback(h, j, op)
    PROVE  IInv'
<1> USE DEF IInv
<1>1. /\ UNCHANGED <<job, worker, progress, alive>>
      /\ handler' = [handler EXCEPT ![h] =
                       [op |-> op, job |-> j, attempt |-> job[j].active.n]]
  BY DEF ValidateJobCallback
<1>2. job[j].active.n \in 1..MaxAttempts
  BY RowTyped, ActiveAttemptNear
<1>3. TypeOK'
  BY <1>1, <1>2 DEF TypeOK, Callback
<1>4. job[j].status # "NONE"
  <2>1. RowIdentity(job[j]) /\ job[j].active.kind = "attempt"
    BY RowTyped DEF ValidateJobCallback
  <2>2. NoJobRow.active.kind = "pending"
    BY DEF NoJobRow, Named
  <2> QED
    BY <2>1, <2>2 DEF RowIdentity
<1>5. CallbacksOfCreatedJobs'
  BY <1>1, <1>4 DEF CallbacksOfCreatedJobs, TypeOK
<1> QED
  BY <1>1, <1>3, <1>5 DEF AttemptIdentity, AssignmentMatched

LEMMA ApplyOK ==
    ASSUME IInv, NEW h \in Handlers, ApplyCallback(h)
    PROVE  IInv'
<1> USE DEF IInv
<1>1. /\ handler' = [handler EXCEPT ![h] = Idle]
      /\ alive' = alive
  <2>1. \E op \in Ops : Responds(h, op)
    BY DEF ApplyCallback, ReportsOutcome, CompleteJob, FailJob, RetryJob,
           ReportMetric, ReportJobProgress, Ops, OutcomeOps
  <2> QED
    BY <2>1, CallbackJob
<1>2. RowsOK' /\ CreatedStays
  <2>1. CASE CompleteJob(h)
    <3>1. handler[h].job \in Jobs
      BY <2>1, CallbackJob DEF CompleteJob, Ops, OutcomeOps
    <3> QED
      BY <2>1, <3>1, FinishJobOK DEF CompleteJob, TerminalStatuses, TerminalStages
  <2>2. CASE FailJob(h)
    <3>1. handler[h].job \in Jobs
      BY <2>2, CallbackJob DEF FailJob, Ops, OutcomeOps
    <3> QED
      BY <2>2, <3>1, FinishJobOK DEF FailJob, TerminalStatuses, TerminalStages
  <2>3. CASE \E f \in BOOLEAN, p \in PolicyStatuses \ {"PENDING"} : RetryJob(h, f, p)
    BY <2>3, RetryOK
  <2>4. CASE \E e \in Epochs : ReportMetric(h, e)
    BY <2>4, MetricOK
  <2>5. CASE \E s \in WorkerStages, r \in WorkerRevisions : ReportJobProgress(h, s, r)
    BY <2>5, ProgressOK
  <2> QED
    BY <2>1, <2>2, <2>3, <2>4, <2>5 DEF ApplyCallback, ReportsOutcome
<1>3. /\ handler' \in [Handlers -> Callback \cup {Idle}]
      /\ \A x \in Handlers : handler'[x] \in {handler[x], Idle}
  BY <1>1 DEF TypeOK
<1> QED
  BY <1>1, <1>2, <1>3, Assemble DEF TypeOK

LEMMA InitOK == Init => IInv
<1> SUFFICES ASSUME Init PROVE IInv
  OBVIOUS
<1> USE DEF Init
<1>1. NoJobRow \in JobRow /\ RowIdentity(NoJobRow) /\ ~ IsActive(NoJobRow)
  BY DEF NoJobRow, JobRow, RowIdentity, IsActive, IsTerminal, Named, AttemptName,
         ActiveStatuses, TerminalStatuses, Statuses, PolicyStatuses
<1>2. TypeOK
  BY <1>1 DEF TypeOK, WorkerRow, ProgressRow, Stages
<1>3. AttemptIdentity
  BY <1>1 DEF AttemptIdentity
<1>4. AssignmentMatched
  BY <1>1 DEF AssignmentMatched
<1> QED
  BY <1>2, <1>3, <1>4 DEF IInv, CallbacksOfCreatedJobs

LEMMA StepOK == IInv /\ [Next]_vars => IInv'
<1> SUFFICES ASSUME IInv, [Next]_vars PROVE IInv'
  OBVIOUS
<1>1. ASSUME NEW j \in Jobs, NEW p \in PolicyStatuses, CreateJobWithOptions(j, p)
      PROVE  IInv'
  BY <1>1, CreateJobOK
<1>2. ASSUME NEW j \in Jobs, NEW p \in PolicyStatuses,
             ApplyQueuedJobPolicyEvaluation(j, p)
      PROVE  IInv'
  <2>1. job' = [i \in Jobs |-> IF i \in {j} /\ job[i].status = "QUEUED"
                               THEN [job[i] EXCEPT !.policy = p] ELSE job[i]]
    BY <1>2 DEF ApplyQueuedJobPolicyEvaluation, IInv, TypeOK
  <2> QED
    BY <1>2, <2>1, PolicyOK DEF ApplyQueuedJobPolicyEvaluation
<1>3. ASSUME NEW j \in Jobs, LeaseExpires(j) PROVE IInv'
  <2>1. IsActive(job[j])
    BY <1>3, RowTyped
       DEF IInv, LeaseExpires, RowIdentity, JobRow, NoJobRow, IsActive, IsTerminal,
           ActiveStatuses, TerminalStatuses, Statuses
  <2> QED
    BY <1>3, <2>1, LeaseOK DEF LeaseExpires
<1>4. ASSUME NEW j \in Jobs, CancelJob(j) PROVE IInv'
  <2>1. RowsOK' /\ CreatedStays
    BY <1>4, FinishJobOK DEF CancelJob, TerminalStatuses, TerminalStages
  <2> QED
    BY <1>4, <2>1, Assemble DEF CancelJob, IInv, TypeOK
<1>5. ASSUME NEW w \in Workers, RegisterWorker(w) PROVE IInv'
  BY <1>5, RegisterOK
<1>6. ASSUME NEW w \in Workers, HeartbeatWorker(w) PROVE IInv'
  <2> DEFINE j == worker[w].current
  <2>1. j \in Jobs /\ IsActive(job[j])
    BY <1>6 DEF HeartbeatWorker, IInv, TypeOK, WorkerRow, AssignmentMatched
  <2> QED
    BY <1>6, <2>1, LeaseOK DEF HeartbeatWorker
<1>7. ASSUME NEW w \in Workers, WorkerDies(w) PROVE IInv'
  BY <1>7 DEF WorkerDies, IInv, TypeOK, AttemptIdentity, AssignmentMatched,
              CallbacksOfCreatedJobs
<1>8. ASSUME NEW w \in Workers, NEW j \in Jobs, ClaimJobIfQueuedAndPolicyCurrent(w, j)
      PROVE  IInv'
  BY <1>8, ClaimOK
<1>9. ASSUME NEW S \in SUBSET Jobs, MarkQueuedJobsPolicyPending(S) PROVE IInv'
  BY <1>9, PolicyOK DEF MarkQueuedJobsPolicyPending, PolicyStatuses
<1>10. CASE RecoverExpiredJobLeases
  BY <1>10, RecoverOK
<1>11. ASSUME NEW h \in Handlers, NEW j \in Jobs, NEW op \in Ops,
              ValidateJobCallback(h, j, op)
       PROVE  IInv'
  BY <1>11, ValidateOK
<1>12. ASSUME NEW h \in Handlers, ApplyCallback(h) PROVE IInv'
  BY <1>12, ApplyOK
<1>13. CASE OrchestratorRestarts
  BY <1>13 DEF OrchestratorRestarts, IInv, TypeOK, AttemptIdentity, AssignmentMatched,
               CallbacksOfCreatedJobs
<1>14. CASE UNCHANGED vars
  BY <1>14 DEF vars, IInv, TypeOK, AttemptIdentity, AssignmentMatched,
               CallbacksOfCreatedJobs
<1> QED
  BY <1>1, <1>2, <1>3, <1>4, <1>5, <1>6, <1>7, <1>8, <1>9, <1>10, <1>11, <1>12,
     <1>13, <1>14 DEF Next

\* The store's rows stay consistent whatever order claims, recoveries, retries,
\* cancellations and late callbacks run in.
THEOREM Invariance == Spec => []IInv
BY InitOK, StepOK, PTL DEF Spec

\* No transaction writes a row of a shape the store does not know: an attempt
\* beyond max_attempts, say, or a negative revision.
THEOREM TypeCorrect == Spec => []TypeOK
BY Invariance, PTL DEF IInv

\* The attempt in a job's config agrees with its counter, holder and lease.
THEOREM AttemptsIdentified == Spec => []AttemptIdentity
BY Invariance, PTL DEF IInv

\* A job's worker_id and a worker's current_job_id always name each other.
THEOREM AssignmentsMatched == Spec => []AssignmentMatched
BY Invariance, PTL DEF IInv

-----------------------------------------------------------------------------
\* Whatever a step does to a job, it does it to a job that is not over.
LEMMA TerminalKept ==
    ASSUME IInv, [Next]_vars, NEW j \in Jobs, IsTerminal(job[j])
    PROVE  job'[j] = job[j]
<1> USE DEF IInv
<1>1. /\ ~ IsActive(job[j]) /\ job[j].status \notin {"NONE", "QUEUED"}
      /\ job[j].lease = "none"
  <2>1. RowIdentity(job[j])
    BY RowTyped
  <2> QED
    BY <2>1 DEF RowIdentity, IsActive, IsTerminal, ActiveStatuses, TerminalStatuses
<1>2. ASSUME NEW i \in Jobs, NEW status, NEW stage, FinishJob(i, status, stage)
      PROVE  job'[j] = job[j]
  BY <1>2 DEF FinishJob, TypeOK
<1>3. ASSUME NEW i \in Jobs, NEW p \in PolicyStatuses,
             CreateJobWithOptions(i, p) \/ ApplyQueuedJobPolicyEvaluation(i, p)
      PROVE  job'[j] = job[j]
  BY <1>1, <1>3 DEF CreateJobWithOptions, ApplyQueuedJobPolicyEvaluation, TypeOK
<1>4. ASSUME NEW i \in Jobs, LeaseExpires(i) \/ CancelJob(i) PROVE job'[j] = job[j]
  BY <1>1, <1>2, <1>4 DEF LeaseExpires, CancelJob, TypeOK
<1>5. ASSUME NEW w \in Workers, RegisterWorker(w) \/ HeartbeatWorker(w) \/ WorkerDies(w)
      PROVE  job'[j] = job[j]
  BY <1>5 DEF RegisterWorker, HeartbeatWorker, WorkerDies, TypeOK
<1>6. ASSUME NEW w \in Workers, NEW i \in Jobs, ClaimJobIfQueuedAndPolicyCurrent(w, i)
      PROVE  job'[j] = job[j]
  BY <1>1, <1>6 DEF ClaimJobIfQueuedAndPolicyCurrent, TypeOK
<1>7. ASSUME NEW S \in SUBSET Jobs, MarkQueuedJobsPolicyPending(S)
      PROVE  job'[j] = job[j]
  BY <1>1, <1>7 DEF MarkQueuedJobsPolicyPending
<1>8. CASE RecoverExpiredJobLeases
  <2> DEFINE Expired == {i \in Jobs : LeaseLost(job[i])}
             Exhausted == {i \in Expired : ~ AttemptsLeft(job[i])}
  <2>1. job' = [i \in Jobs |-> IF i \in Exhausted
                               THEN FinishedRow(job[i], "FAILED", job[i].attempt,
                                                NoWorker, job[i].policy)
                               ELSE IF i \in Expired \ Exhausted
                                    THEN RequeuedRow(job[i], "PENDING") ELSE job[i]]
    BY <1>8, Zenon DEF RecoverExpiredJobLeases
  <2>2. j \notin Expired
    BY <1>1 DEF LeaseLost
  <2> QED
    BY <2>1, <2>2
<1>9. ASSUME NEW h \in Handlers, ApplyCallback(h) PROVE job'[j] = job[j]
  <2>1. handler[h].job \in Jobs
    <3>1. \E op \in Ops : Responds(h, op)
      BY <1>9 DEF ApplyCallback, ReportsOutcome, CompleteJob, FailJob, RetryJob,
                  ReportMetric, ReportJobProgress, Ops, OutcomeOps
    <3> QED
      BY <3>1, CallbackJob
  <2>2. CASE CompleteJob(h) \/ FailJob(h)
    BY <1>2, <2>1, <2>2 DEF CompleteJob, FailJob
  <2>3. ASSUME NEW f \in BOOLEAN, NEW p \in PolicyStatuses, RetryJob(h, f, p)
        PROVE  job'[j] = job[j]
    BY <2>1, <2>3 DEF RetryJob, TypeOK
  <2>4. ASSUME NEW e \in Epochs, ReportMetric(h, e) PROVE job'[j] = job[j]
    BY <1>1, <2>1, <2>4 DEF ReportMetric, TypeOK
  <2>5. ASSUME NEW s \in WorkerStages, NEW r \in WorkerRevisions,
               ReportJobProgress(h, s, r)
        PROVE  job'[j] = job[j]
    BY <2>5 DEF ReportJobProgress
  <2> QED
    BY <1>9, <2>2, <2>3, <2>4, <2>5 DEF ApplyCallback, ReportsOutcome
<1>10. \/ \E h \in Handlers, i \in Jobs, op \in Ops : ValidateJobCallback(h, i, op)
       \/ OrchestratorRestarts \/ UNCHANGED vars
       => job'[j] = job[j]
  BY DEF ValidateJobCallback, OrchestratorRestarts, vars
<1> QED
  BY <1>3, <1>4, <1>5, <1>6, <1>7, <1>8, <1>9, <1>10 DEF Next

\* A finished job is never reopened, reassigned or re-judged.
THEOREM TerminalJobsFinal == Spec => TerminalIsFinal
<1>1. IInv /\ [Next]_vars =>
        [\A j \in Jobs : IsTerminal(job[j]) => job'[j] = job[j]]_vars
  BY TerminalKept
<1> QED
  BY <1>1, Invariance, PTL DEF Spec, TerminalIsFinal

-----------------------------------------------------------------------------
(* Snapshots.  A snapshot of an attempt still to come has at most been      *)
(* queued, so the claim's own revision lands; the one of the attempt at hand *)
(* is a worker's, so the outcome lands, and nothing lands after it.         *)

Fresh(row) == row.stage \in {"none", "queued"} /\ row.revision < RevisionAssigned

Outcomes(status) == IF status = "SUCCEEDED" THEN {"completed"} ELSE {"failed", "cancelled"}

Told(r, P) ==
    /\ r.status \in {"NONE", "QUEUED"} =>
          \A n \in 1..MaxAttempts : n >= r.active.n => Fresh(P[n])
    /\ IsActive(r) =>
          /\ P[r.active.n].stage \in WorkerStages
          /\ \A n \in 1..MaxAttempts : n > r.active.n => Fresh(P[n])
    /\ IsTerminal(r) => P[r.active.n].stage \in Outcomes(r.status)

SnapshotsTold == \A j \in Jobs : Told(job[j], progress[j])

\* What SupersededAttemptFrozen asks of one job.
Advances(r, P, Q) ==
    \A n \in 1..MaxAttempts :
        Q[n] # P[n] => n >= r.active.n /\ Q[n].revision > P[n].revision

Snapshots == [1..MaxAttempts -> ProgressRow]

LEMMA UpsertedAdvances ==
    ASSUME NEW row \in ProgressRow, NEW stage \in Stages, NEW v \in Nat
    PROVE  LET new == Upserted(row, stage, v)
           IN  /\ new # row => new.revision > row.revision
               /\ new.stage \in {row.stage, stage}
               /\ row.stage \in TerminalStages => new = row
               /\ (row.stage \notin TerminalStages /\ stage \in TerminalStages)
                     => new.stage = stage
               /\ (row.stage \notin TerminalStages /\ v > row.revision)
                     => new.stage = stage
               /\ stage \notin TerminalStages => new = row \/ new.revision = v
BY DEF Upserted, ProgressRow, Stages, TerminalStages, WorkerStages

LEMMA WriteAdvances ==
    ASSUME NEW r \in JobRow, NEW P \in Snapshots, NEW n \in 1..MaxAttempts,
           n >= r.active.n, NEW stage \in Stages, NEW v \in Nat
    PROVE  Advances(r, P, [P EXCEPT ![n] = Upserted(@, stage, v)])
<1>1. P[n] \in ProgressRow
  BY DEF Snapshots
<1>2. Upserted(P[n], stage, v) # P[n] => Upserted(P[n], stage, v).revision > P[n].revision
  BY <1>1, UpsertedAdvances
<1> QED
  BY <1>2 DEF Advances, Snapshots

\* A row that keeps its status and the attempt it names keeps its story.
LEMMA SameRowTold ==
    ASSUME NEW r, NEW q, NEW P, Told(r, P), q.active = r.active,
           q.status = r.status \/ (IsActive(q) /\ IsActive(r))
    PROVE  Told(q, P) /\ Advances(r, P, P)
BY DEF Told, Advances, IsActive, IsTerminal, ActiveStatuses, TerminalStatuses

LEMMA ClaimTold ==
    ASSUME NEW r \in JobRow, RowIdentity(r), NEW P \in Snapshots, Told(r, P),
           r.status = "QUEUED", NEW w
    PROVE  LET Q == [P EXCEPT ![r.attempt + 1] =
                        Upserted(@, "worker_starting", RevisionAssigned)]
           IN  Told(ClaimedRow(r, w), Q) /\ Advances(r, P, Q)
<1> DEFINE n == r.attempt + 1
           new == Upserted(P[n], "worker_starting", RevisionAssigned)
           Q == [P EXCEPT ![n] = new]
           q == ClaimedRow(r, w)
<1>1. n \in 1..MaxAttempts /\ r.active.n = n
  BY DEF RowIdentity, JobRow, Named
<1>2. P[n] \in ProgressRow /\ Fresh(P[n]) /\ "worker_starting" \in Stages
      /\ RevisionAssigned \in Nat
  BY <1>1 DEF Told, Snapshots, Stages, WorkerStages, RevisionAssigned
<1>3. new.stage = "worker_starting"
  BY <1>2, UpsertedAdvances DEF Fresh, TerminalStages, ProgressRow
<1>4. q.status = "ASSIGNED" /\ q.active.n = n
  BY DEF ClaimedRow, Named
<1>5. \A m \in 1..MaxAttempts : m > n => Fresh(Q[m])
  BY <1>1 DEF Told, Snapshots
<1>6. Told(q, Q)
  <2>1. Q[n].stage \in WorkerStages
    BY <1>1, <1>3 DEF Snapshots, WorkerStages
  <2> QED
    BY <1>4, <1>5, <2>1 DEF Told, IsActive, IsTerminal, ActiveStatuses, TerminalStatuses
<1>7. Advances(r, P, Q)
  BY <1>1, <1>2, WriteAdvances
<1> QED
  BY <1>6, <1>7

\* Requeueing writes the snapshot of the attempt to come, or, in RetryJob, of
\* the attempt the job still names.
LEMMA RequeueTold ==
    ASSUME NEW r \in JobRow, RowIdentity(r), NEW P \in Snapshots, Told(r, P),
           ~ IsTerminal(r), r.attempt < MaxAttempts, NEW p,
           NEW n \in {r.active.n, r.attempt + 1}
    PROVE  LET Q == [P EXCEPT ![n] = Upserted(@, "queued", RevisionQueued)]
           IN  Told(RequeuedRow(r, p), Q) /\ Advances(r, P, Q)
<1> DEFINE new == Upserted(P[n], "queued", RevisionQueued)
           Q == [P EXCEPT ![n] = new]
           q == RequeuedRow(r, p)
<1>1. /\ r.active.n \in 1..MaxAttempts /\ n \in 1..MaxAttempts
      /\ n >= r.active.n /\ r.attempt \in Nat
      /\ r.active.n \in {r.attempt, r.attempt + 1}
      /\ IsActive(r) => r.active.n = r.attempt
      /\ ~ IsActive(r) => r.active.n = r.attempt + 1
  <2>1. ~ IsActive(r) => r.active.n = r.attempt + 1
    BY DEF RowIdentity, NoJobRow, Named, IsActive, IsTerminal, JobRow, Statuses,
           ActiveStatuses, TerminalStatuses
  <2>2. r.attempt \in Nat /\ r.attempt + 1 \in 1..MaxAttempts
    BY DEF JobRow
  <2> QED
    BY <2>1, <2>2, ActiveAttemptNear
<1>2. P[n] \in ProgressRow /\ "queued" \in Stages /\ RevisionQueued \in Nat
  BY <1>1 DEF Snapshots, Stages, RevisionQueued
<1>3. \A m \in 1..MaxAttempts : m > r.attempt => Fresh(P[m])
  <2>1. CASE IsActive(r)
    BY <1>1, <2>1 DEF Told
  <2>2. CASE ~ IsActive(r)
    <3>1. r.status \in {"NONE", "QUEUED"}
      BY <2>2 DEF JobRow, Statuses, IsActive, IsTerminal
    <3> QED
      BY <1>1, <2>2, <3>1 DEF Told
  <2> QED
    BY <2>1, <2>2
<1>4. \A m \in 1..MaxAttempts : m > r.attempt => Fresh(Q[m])
  <2>1. n > r.attempt => Fresh(new)
    BY <1>1, <1>2, <1>3, UpsertedAdvances
       DEF Fresh, TerminalStages, RevisionQueued, RevisionAssigned, ProgressRow
  <2> QED
    BY <1>1, <1>3, <2>1 DEF Snapshots
<1>5. q.status = "QUEUED" /\ q.active.n = r.attempt + 1
  BY DEF RequeuedRow, Named
<1>6. Told(q, Q)
  BY <1>1, <1>4, <1>5 DEF Told, IsActive, IsTerminal, ActiveStatuses, TerminalStatuses
<1>7. Advances(r, P, Q)
  BY <1>1, <1>2, WriteAdvances
<1> QED
  BY <1>6, <1>7

LEMMA FinishTold ==
    ASSUME NEW r \in JobRow, RowIdentity(r), NEW P \in Snapshots, Told(r, P),
           ~ IsTerminal(r), NEW status \in TerminalStatuses,
           NEW stage \in Outcomes(status), NEW w, NEW p
    PROVE  LET Q == [P EXCEPT ![r.active.n] = Upserted(@, stage, RevisionTerminal)]
           IN  /\ Told(FinishedRow(r, status, r.active.n, w, p), Q)
               /\ Advances(r, P, Q)
<1> DEFINE n == r.active.n
           new == Upserted(P[n], stage, RevisionTerminal)
           Q == [P EXCEPT ![n] = new]
           q == FinishedRow(r, status, n, w, p)
<1>1. n \in 1..MaxAttempts
  BY ActiveAttemptNear
<1>2. /\ P[n] \in ProgressRow /\ stage \in TerminalStages /\ stage \in Stages
      /\ RevisionTerminal \in Nat
  BY <1>1 DEF Snapshots, Stages, TerminalStages, Outcomes, RevisionTerminal
<1>3. P[n].stage \notin TerminalStages
  <2>1. r.status \in {"NONE", "QUEUED"} \/ IsActive(r)
    BY DEF JobRow, Statuses, IsActive, IsTerminal
  <2> QED
    BY <1>1, <2>1 DEF Told, Fresh, TerminalStages, WorkerStages
<1>4. new.stage = stage
  BY <1>2, <1>3, UpsertedAdvances
<1>5. q.status = status /\ q.active.n = n
  BY DEF FinishedRow, Named
<1>6. Told(q, Q)
  <2>1. Q[n].stage = stage
    BY <1>1, <1>4 DEF Snapshots
  <2> QED
    BY <1>5, <2>1 DEF Told, IsActive, IsTerminal, ActiveStatuses, TerminalStatuses
<1>7. Advances(r, P, Q)
  BY <1>1, <1>2, WriteAdvances
<1> QED
  BY <1>6, <1>7

LEMMA ReportTold ==
    ASSUME NEW r \in JobRow, RowIdentity(r), NEW P \in Snapshots, Told(r, P),
           IsActive(r), NEW q, IsActive(q), q.active = r.active,
           NEW stage \in WorkerStages, NEW v \in Nat
    PROVE  LET Q == [P EXCEPT ![r.active.n] = Upserted(@, stage, v)]
           IN  Told(q, Q) /\ Advances(r, P, Q)
<1> DEFINE n == r.active.n
           new == Upserted(P[n], stage, v)
           Q == [P EXCEPT ![n] = new]
<1>1. n \in 1..MaxAttempts /\ P[n] \in ProgressRow /\ stage \in Stages
  BY ActiveAttemptNear DEF Snapshots, Stages
<1>2. new.stage \in WorkerStages
  BY <1>1, UpsertedAdvances DEF Told
<1>3. Told(q, Q)
  <2>1. Q[n].stage \in WorkerStages /\ \A m \in 1..MaxAttempts : m > n => Fresh(Q[m])
    BY <1>1, <1>2 DEF Told, Snapshots
  <2> QED
    BY <2>1 DEF Told, IsActive, IsTerminal, ActiveStatuses, TerminalStatuses
<1>4. Advances(r, P, Q)
  BY <1>1, WriteAdvances
<1> QED
  BY <1>3, <1>4

\* A transaction tells the story of job j on, and leaves its past alone.
Continues(j) ==
    /\ Told(job'[j], progress'[j])
    /\ Advances(job[j], progress[j], progress'[j])

SInv == IInv /\ SnapshotsTold

LEMMA RowKnown ==
    ASSUME SInv, NEW j \in Jobs
    PROVE  /\ job[j] \in JobRow /\ RowIdentity(job[j])
           /\ progress[j] \in Snapshots /\ Told(job[j], progress[j])
BY RowTyped DEF SInv, IInv, TypeOK, SnapshotsTold, Snapshots

LEMMA RowsUntouched ==
    ASSUME SInv, NEW j \in Jobs, progress'[j] = progress[j],
           job'[j].active = job[j].active,
           \/ job'[j].status = job[j].status
           \/ IsActive(job'[j]) /\ IsActive(job[j])
    PROVE  Continues(j)
<1>1. Told(job[j], progress[j])
  BY RowKnown
<1> DEFINE q == job'[j]
<1>2. q.active = job[j].active
      /\ (q.status = job[j].status \/ (IsActive(q) /\ IsActive(job[j])))
  OBVIOUS
<1> HIDE DEF q
<1>3. Told(q, progress[j]) /\ Advances(job[j], progress[j], progress[j])
  BY <1>1, <1>2, SameRowTold
<1> QED
  BY <1>3 DEF q, Continues

\* A transaction that writes one job and one of its snapshots.
LEMMA OneStoryWritten ==
    ASSUME SInv, NEW i \in Jobs, NEW r, NEW n, NEW stage, NEW v,
           job' = [job EXCEPT ![i] = r], SetProgress(i, n, stage, v),
           LET Q == [progress[i] EXCEPT ![n] = Upserted(@, stage, v)]
           IN  Told(r, Q) /\ Advances(job[i], progress[i], Q),
           NEW j \in Jobs
    PROVE  Continues(j)
<1> DEFINE Q == [progress[i] EXCEPT ![n] = Upserted(@, stage, v)]
<1>1. CASE j = i
  <2>1. job'[i] = r /\ progress'[i] = Q
    BY DEF SetProgress, SInv, IInv, TypeOK
  <2> QED
    BY <1>1, <2>1 DEF Continues
<1>2. CASE j # i
  <2>1. job'[j] = job[j] /\ progress'[j] = progress[j]
    BY <1>2 DEF SetProgress, SInv, IInv, TypeOK
  <2> QED
    BY <2>1, RowsUntouched
<1> QED
  BY <1>1, <1>2

LEMMA FinishContinues ==
    ASSUME SInv, NEW i \in Jobs, NEW status \in TerminalStatuses,
           NEW stage \in Outcomes(status), FinishJob(i, status, stage), NEW j \in Jobs
    PROVE  Continues(j)
<1>1. CASE UNCHANGED <<job, progress>>
  BY <1>1, RowsUntouched
<1>2. CASE ~ IsTerminal(job[i])
  <2> DEFINE n == job[i].active.n
             r == FinishedRow(job[i], status, n, job[i].worker, job[i].policy)
             Q == [progress[i] EXCEPT ![n] = Upserted(@, stage, RevisionTerminal)]
  <2>1. job' = [job EXCEPT ![i] = r] /\ SetProgress(i, n, stage, RevisionTerminal)
    BY <1>2 DEF FinishJob
  <2>2. Told(r, Q) /\ Advances(job[i], progress[i], Q)
    BY <1>2, RowKnown, FinishTold
  <2> HIDE DEF r, n
  <2> QED
    BY <2>1, <2>2, OneStoryWritten
<1> QED
  BY <1>1, <1>2 DEF FinishJob

LEMMA RecoverContinues ==
    ASSUME SInv, RecoverExpiredJobLeases, NEW j \in Jobs
    PROVE  Continues(j)
<1> DEFINE Expired == {i \in Jobs : LeaseLost(job[i])}
           Exhausted == {i \in Expired : ~ AttemptsLeft(job[i])}
           Requeued == Expired \ Exhausted
           Failed(i) == FinishedRow(job[i], "FAILED", job[i].attempt, NoWorker,
                                    job[i].policy)
           Back(i) == RequeuedRow(job[i], "PENDING")
           P == progress[j]
           a == job[j].attempt
<1>1. /\ job' = [i \in Jobs |-> IF i \in Exhausted THEN Failed(i)
                                ELSE IF i \in Requeued THEN Back(i) ELSE job[i]]
      /\ progress' = [i \in Jobs |-> [n \in 1..MaxAttempts |->
          IF i \in Exhausted /\ n = job[i].attempt
          THEN Upserted(progress[i][n], "failed", RevisionTerminal)
          ELSE IF i \in Requeued /\ n = job[i].attempt + 1
               THEN Upserted(progress[i][n], "queued", RevisionQueued)
               ELSE progress[i][n]]]
  BY Zenon DEF RecoverExpiredJobLeases
<1>2. /\ job[j] \in JobRow /\ RowIdentity(job[j]) /\ P \in Snapshots /\ Told(job[j], P)
      /\ a \in Nat
  BY RowKnown DEF JobRow
<1>3. ASSUME j \in Expired PROVE ~ IsTerminal(job[j]) /\ job[j].active.n = a
  BY <1>2, <1>3, ActiveAttemptNear
     DEF LeaseLost, IsActive, IsTerminal, ActiveStatuses, TerminalStatuses
<1>4. CASE j \in Exhausted
  <2> DEFINE Q == [P EXCEPT ![a] = Upserted(@, "failed", RevisionTerminal)]
  <2>1. job'[j] = Failed(j)
    BY <1>1, <1>4
  <2>2. progress'[j] = Q
    BY <1>1, <1>2, <1>4 DEF Snapshots
  <2>3. Told(Failed(j), Q) /\ Advances(job[j], P, Q)
    BY <1>2, <1>3, <1>4, FinishTold DEF TerminalStatuses, Outcomes
  <2> QED
    BY <2>1, <2>2, <2>3 DEF Continues
<1>5. CASE j \in Requeued
  <2> DEFINE Q == [P EXCEPT ![a + 1] = Upserted(@, "queued", RevisionQueued)]
  <2>1. job'[j] = Back(j)
    BY <1>1, <1>5
  <2>2. progress'[j] = Q
    BY <1>1, <1>2, <1>5 DEF Snapshots
  <2>3. a < MaxAttempts
    BY <1>5 DEF AttemptsLeft
  <2>4. Told(Back(j), Q) /\ Advances(job[j], P, Q)
    BY <1>2, <1>3, <1>5, <2>3, RequeueTold
  <2> QED
    BY <2>1, <2>2, <2>4 DEF Continues
<1>6. CASE j \notin Expired
  <2>1. job'[j] = job[j] /\ progress'[j] = P
    BY <1>1, <1>2, <1>6 DEF Snapshots
  <2> QED
    BY <2>1, RowsUntouched
<1> QED
  BY <1>4, <1>5, <1>6

LEMMA CallbackContinues ==
    ASSUME SInv, NEW h \in Handlers, ApplyCallback(h), NEW j \in Jobs
    PROVE  Continues(j)
<1> DEFINE i == handler[h].job
           n == job[i].active.n
<1>1. i \in Jobs
  <2>1. \E op \in Ops : Responds(h, op)
    BY DEF ApplyCallback, ReportsOutcome, CompleteJob, FailJob, RetryJob,
           ReportMetric, ReportJobProgress, Ops, OutcomeOps
  <2> QED
    BY <2>1, CallbackJob DEF SInv, IInv
<1>2. /\ job[i] \in JobRow /\ RowIdentity(job[i])
      /\ progress[i] \in Snapshots /\ Told(job[i], progress[i])
  BY <1>1, RowKnown
<1>3. CASE CompleteJob(h) \/ FailJob(h)
  BY <1>1, <1>3, FinishContinues DEF CompleteJob, FailJob, TerminalStatuses, Outcomes
<1>4. ASSUME NEW f \in BOOLEAN, NEW p \in PolicyStatuses, RetryJob(h, f, p)
      PROVE  Continues(j)
  <2>1. CASE UNCHANGED <<job, progress>>
    BY <2>1, RowsUntouched
  <2>2. CASE /\ ~ IsTerminal(job[i]) /\ AttemptsLeft(job[i])
             /\ job' = [job EXCEPT ![i] = RequeuedRow(job[i], p)]
             /\ SetProgress(i, n, "queued", RevisionQueued)
    <3> DEFINE r == RequeuedRow(job[i], p)
               Q == [progress[i] EXCEPT ![n] = Upserted(@, "queued", RevisionQueued)]
    <3>1. Told(r, Q) /\ Advances(job[i], progress[i], Q)
      BY <1>2, <2>2, RequeueTold DEF AttemptsLeft
    <3> HIDE DEF r, n, i
    <3> QED
      BY <1>1, <2>2, <3>1, OneStoryWritten DEF r
  <2>3. CASE /\ ~ IsTerminal(job[i])
             /\ job' = [job EXCEPT ![i] =
                          FinishedRow(job[i], "FAILED", n, job[i].worker, p)]
             /\ SetProgress(i, n, "failed", RevisionTerminal)
    <3> DEFINE r == FinishedRow(job[i], "FAILED", n, job[i].worker, p)
               Q == [progress[i] EXCEPT ![n] = Upserted(@, "failed", RevisionTerminal)]
    <3>1. Told(r, Q) /\ Advances(job[i], progress[i], Q)
      BY <1>2, <2>3, FinishTold DEF TerminalStatuses, Outcomes
    <3> HIDE DEF r, n, i
    <3> QED
      BY <1>1, <2>3, <3>1, OneStoryWritten DEF r
  <2> QED
    BY <1>4, <2>1, <2>2, <2>3 DEF RetryJob
<1>5. ASSUME NEW e \in Epochs, ReportMetric(h, e) PROVE Continues(j)
  <2>1. CASE UNCHANGED <<job, worker, progress>>
    BY <2>1, RowsUntouched
  <2>2. CASE /\ IsActive(job[i])
             /\ job' = [job EXCEPT ![i].status = "RUNNING", ![i].lease = "live"]
             /\ SetProgress(i, n, "training", RevisionForEpoch(e))
    <3> DEFINE r == [job[i] EXCEPT !.status = "RUNNING", !.lease = "live"]
               v == RevisionForEpoch(e)
               Q == [progress[i] EXCEPT ![n] = Upserted(@, "training", v)]
    <3>1. job' = [job EXCEPT ![i] = r]
      BY <1>1, <2>2 DEF SInv, IInv, TypeOK
    <3>2. IsActive(r) /\ r.active = job[i].active
      BY <1>2 DEF JobRow, IsActive, ActiveStatuses
    <3>3. v \in Nat /\ "training" \in WorkerStages
      BY DEF RevisionForEpoch, RevisionAssigned, WorkerStages
    <3> HIDE DEF r, v
    <3>4. Told(r, Q) /\ Advances(job[i], progress[i], Q)
      BY <1>2, <2>2, <3>2, <3>3, ReportTold
    <3>5. SetProgress(i, n, "training", v)
      BY <2>2 DEF v
    <3> HIDE DEF n, i
    <3> QED
      BY <1>1, <3>1, <3>4, <3>5, OneStoryWritten
  <2> QED
    BY <1>5, <2>1, <2>2 DEF ReportMetric
<1>6. ASSUME NEW s \in WorkerStages, NEW v \in WorkerRevisions, ReportJobProgress(h, s, v)
      PROVE  Continues(j)
  <2>1. CASE UNCHANGED <<job, progress>>
    BY <2>1, RowsUntouched
  <2>2. CASE IsActive(job[i]) /\ job' = job /\ SetProgress(i, n, s, v)
    <3> DEFINE r == job[i]
               Q == [progress[i] EXCEPT ![n] = Upserted(@, s, v)]
    <3>1. job' = [job EXCEPT ![i] = r]
      BY <1>1, <2>2 DEF SInv, IInv, TypeOK
    <3>2. Told(r, Q) /\ Advances(job[i], progress[i], Q)
      BY <1>2, <2>2, ReportTold
    <3> HIDE DEF r, n, i
    <3> QED
      BY <1>1, <2>2, <3>1, <3>2, OneStoryWritten
  <2> QED
    BY <1>6, <2>1, <2>2 DEF ReportJobProgress
<1> QED
  BY <1>3, <1>4, <1>5, <1>6 DEF ApplyCallback, ReportsOutcome

LEMMA StepContinues ==
    ASSUME SInv, [Next]_vars, NEW j \in Jobs
    PROVE  Continues(j)
<1>1. ASSUME NEW i \in Jobs, NEW p \in PolicyStatuses, CreateJobWithOptions(i, p)
      PROVE  Continues(j)
  <2> DEFINE r == RequeuedRow(job[i], p)
             Q == [progress[i] EXCEPT ![1] = Upserted(@, "queued", RevisionQueued)]
  <2>1. /\ job[i] = NoJobRow /\ job[i].attempt = 0 /\ ~ IsTerminal(job[i])
        /\ job[i].active.n = 1
    <3>1. job[i] = NoJobRow
      BY <1>1 DEF CreateJobWithOptions, SInv, IInv, AttemptIdentity, RowIdentity
    <3> QED
      BY <3>1 DEF NoJobRow, Named, IsTerminal, TerminalStatuses
  <2>2. Told(r, Q) /\ Advances(job[i], progress[i], Q)
    BY <2>1, RowKnown, RequeueTold
  <2>3. job' = [job EXCEPT ![i] = r] /\ SetProgress(i, 1, "queued", RevisionQueued)
    BY <1>1, <2>1 DEF CreateJobWithOptions
  <2> HIDE DEF r
  <2> QED
    BY <2>2, <2>3, OneStoryWritten
<1>2. ASSUME NEW w \in Workers, NEW i \in Jobs, ClaimJobIfQueuedAndPolicyCurrent(w, i)
      PROVE  Continues(j)
  <2> DEFINE n == job[i].attempt + 1
             r == ClaimedRow(job[i], w)
             Q == [progress[i] EXCEPT ![n] =
                     Upserted(@, "worker_starting", RevisionAssigned)]
  <2>1. /\ job' = [job EXCEPT ![i] = r] /\ job[i].status = "QUEUED"
        /\ SetProgress(i, n, "worker_starting", RevisionAssigned)
    BY <1>2 DEF ClaimJobIfQueuedAndPolicyCurrent
  <2>2. Told(r, Q) /\ Advances(job[i], progress[i], Q)
    BY <2>1, RowKnown, ClaimTold
  <2> HIDE DEF r, n
  <2> QED
    BY <2>1, <2>2, OneStoryWritten
<1>3. ASSUME NEW i \in Jobs, CancelJob(i) PROVE Continues(j)
  BY <1>3, FinishContinues DEF CancelJob, TerminalStatuses, Outcomes
<1>4. CASE RecoverExpiredJobLeases
  BY <1>4, RecoverContinues
<1>5. ASSUME NEW h \in Handlers, ApplyCallback(h) PROVE Continues(j)
  BY <1>5, CallbackContinues
<1>6. ASSUME progress' = progress, job'[j].active = job[j].active,
             job'[j].status = job[j].status
      PROVE  Continues(j)
  BY <1>6, RowsUntouched
<1>7. job \in [Jobs -> JobRow] /\ job[j] \in JobRow
  BY DEF SInv, IInv, TypeOK
<1>8. ASSUME NEW i \in Jobs, NEW p \in PolicyStatuses,
             ApplyQueuedJobPolicyEvaluation(i, p) \/ LeaseExpires(i)
      PROVE  Continues(j)
  BY <1>6, <1>7, <1>8 DEF ApplyQueuedJobPolicyEvaluation, LeaseExpires, JobRow
<1>9. ASSUME NEW w \in Workers, RegisterWorker(w) \/ HeartbeatWorker(w) \/ WorkerDies(w)
      PROVE  Continues(j)
  BY <1>6, <1>7, <1>9 DEF RegisterWorker, HeartbeatWorker, WorkerDies, JobRow
<1>10. ASSUME NEW S \in SUBSET Jobs, MarkQueuedJobsPolicyPending(S) PROVE Continues(j)
  BY <1>6, <1>7, <1>10 DEF MarkQueuedJobsPolicyPending, JobRow
<1>11. \/ \E h \in Handlers, i \in Jobs, op \in Ops : ValidateJobCallback(h, i, op)
       \/ OrchestratorRestarts \/ UNCHANGED vars
       => Continues(j)
  BY <1>6 DEF ValidateJobCallback, OrchestratorRestarts, vars
<1>12. "PENDING" \in PolicyStatuses
  BY DEF PolicyStatuses
<1> QED
  BY <1>1, <1>2, <1>3, <1>4, <1>5, <1>8, <1>9, <1>10, <1>11, <1>12 DEF Next

LEMMA SnapshotsInvariant == Spec => []SInv
<1>1. Init => SInv
  <2> SUFFICES ASSUME Init PROVE SnapshotsTold
    BY InitOK DEF SInv
  <2>1. ~ IsActive(NoJobRow) /\ ~ IsTerminal(NoJobRow)
    BY DEF NoJobRow, IsActive, IsTerminal, ActiveStatuses, TerminalStatuses
  <2>2. ASSUME NEW j \in Jobs, NEW n \in 1..MaxAttempts
        PROVE  job[j] = NoJobRow /\ Fresh(progress[j][n])
    <3>1. progress[j][n] = [stage |-> "none", revision |-> 0] /\ job[j] = NoJobRow
      BY DEF Init
    <3> QED
      BY <3>1 DEF Fresh, RevisionAssigned
  <2>3. ASSUME NEW j \in Jobs PROVE Told(job[j], progress[j])
    <3> DEFINE P == progress[j]
    <3>1. job[j] = NoJobRow /\ \A n \in 1..MaxAttempts : Fresh(P[n])
      BY <2>2
    <3> HIDE DEF P
    <3>2. Told(NoJobRow, P)
      BY <2>1, <3>1 DEF Told
    <3> QED
      BY <3>1, <3>2 DEF P
  <2> QED
    BY <2>3 DEF SnapshotsTold
<1>2. SInv /\ [Next]_vars => SInv'
  <2> SUFFICES ASSUME SInv, [Next]_vars PROVE SInv'
    OBVIOUS
  <2>1. IInv'
    BY StepOK DEF SInv
  <2>2. SnapshotsTold'
    BY StepContinues DEF SnapshotsTold, Continues
  <2> QED
    BY <2>1, <2>2 DEF SInv
<1> QED
  BY <1>1, <1>2, PTL DEF Spec

\* The snapshot the live view joins to a job tells the job's own story, however
\* late or stale the worker's reports are.
THEOREM SnapshotsAgree == Spec => []SnapshotAgreesWithJob
<1>1. SInv => SnapshotAgreesWithJob
  BY DEF SInv, SnapshotsTold, Told, SnapshotAgreesWithJob, Outcomes, IsTerminal,
         TerminalStatuses
<1> QED
  BY <1>1, SnapshotsInvariant, PTL

\* Snapshots of past attempts are history, and those in use only move on to
\* newer revisions.
THEOREM SupersededAttemptsFrozen == Spec => SupersededAttemptFrozen
<1>1. SInv /\ [Next]_vars =>
        [\A j \in Jobs, n \in 1..MaxAttempts :
           progress'[j][n] # progress[j][n] =>
             /\ n >= job[j].active.n
             /\ progress'[j][n].revision > progress[j][n].revision]_vars
  BY StepContinues DEF Continues, Advances
<1> QED
  BY <1>1, SnapshotsInvariant, PTL DEF Spec, SupersededAttemptFrozen
=============================================================================
