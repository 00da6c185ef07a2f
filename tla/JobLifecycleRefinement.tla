----------------------- MODULE JobLifecycleRefinement -----------------------
(***************************************************************************)
(* The store implements JobQueue, for every number of jobs, workers,       *)
(* callbacks and attempts.  Only three kinds of step change what the queue *)
(* sees: a creation, a claim, and a transaction that takes jobs back or    *)
(* ends them; each of the others leaves status class, holder and attempt   *)
(* counter of every row alone.                                             *)
(***************************************************************************)
EXTENDS JobLifecycleProofs

USE JobLifecycleAssumption DEF JobLifecycleAssumption

\* What the queue sees of a row: its phase, holder and grants.
Holder(r) == IF IsActive(r) THEN r.worker ELSE NoWorker
SameQueueRow(r, s) ==
    Phase(r) = Phase(s) /\ Holder(r) = Holder(s) /\ r.attempt = s.attempt

LEMMA PhaseOf ==
    ASSUME NEW r \in JobRow
    PROVE  /\ Phase(r) = "absent" <=> r.status = "NONE"
           /\ Phase(r) = "waiting" <=> r.status = "QUEUED"
           /\ Phase(r) = "held" <=> IsActive(r)
           /\ Phase(r) = "done" <=> IsTerminal(r)
<1>1. r.status \in Statuses
  BY DEF JobRow
<1>2. CASE r.status = "NONE"
  BY <1>2 DEF Phase, IsActive, IsTerminal, ActiveStatuses, TerminalStatuses
<1>3. CASE r.status = "QUEUED"
  BY <1>3 DEF Phase, IsActive, IsTerminal, ActiveStatuses, TerminalStatuses
<1>4. CASE IsActive(r)
  BY <1>4 DEF Phase, IsActive, IsTerminal, ActiveStatuses, TerminalStatuses
<1>5. CASE IsTerminal(r)
  BY <1>5 DEF Phase, IsActive, IsTerminal, ActiveStatuses, TerminalStatuses
<1> QED
  BY <1>1, <1>2, <1>3, <1>4, <1>5 DEF Statuses, IsActive, IsTerminal

LEMMA QueueStutters ==
    ASSUME \A j \in Jobs : SameQueueRow(job'[j], job[j])
    PROVE  UNCHANGED Queue!vars
BY DEF Queue!vars, SameQueueRow, Holder

LEMMA QueueReleases ==
    ASSUME TypeOK, TypeOK', NEW Back \in SUBSET Jobs, NEW Over \in SUBSET Jobs,
           Back \cap Over = {},
           \A j \in Back : /\ IsActive(job[j]) /\ job[j].attempt < MaxAttempts
                           /\ job'[j].status = "QUEUED",
           \A j \in Over : /\ job[j].status # "NONE" /\ ~ IsTerminal(job[j])
                           /\ IsTerminal(job'[j]),
           \A j \in Back \cup Over : job'[j].attempt = job[j].attempt,
           \A j \in Jobs \ (Back \cup Over) : SameQueueRow(job'[j], job[j])
    PROVE  Queue!Next
<1>1. \A j \in Jobs : job[j] \in JobRow /\ job'[j] \in JobRow
  BY DEF TypeOK
<1>2. \A j \in Back : Phase(job[j]) = "held" /\ Phase(job'[j]) = "waiting"
  BY <1>1, PhaseOf
<1>3. \A j \in Over : Phase(job[j]) \in {"waiting", "held"} /\ Phase(job'[j]) = "done"
  BY <1>1, PhaseOf
     DEF JobRow, Statuses, IsActive, IsTerminal, ActiveStatuses, TerminalStatuses
<1>4. \A j \in Back \cup Over : ~ IsActive(job'[j])
  BY <1>1, <1>2, <1>3, PhaseOf
<1>5. Queue!Release(Back, Over)
  <2>1. /\ \A j \in Back : /\ [i \in Jobs |-> Phase(job[i])][j] = "held"
                           /\ [i \in Jobs |-> job[i].attempt][j] < MaxAttempts
        /\ \A j \in Over : [i \in Jobs |-> Phase(job[i])][j] \in {"waiting", "held"}
    BY <1>2, <1>3
  <2>2. [j \in Jobs |-> Phase(job'[j])] =
          [j \in Jobs |-> IF j \in Over THEN "done"
                          ELSE IF j \in Back THEN "waiting"
                          ELSE [i \in Jobs |-> Phase(job[i])][j]]
    BY <1>2, <1>3 DEF SameQueueRow
  <2>3. [j \in Jobs |-> Holder(job'[j])] =
          [j \in Jobs |-> IF j \in Back \cup Over THEN NoWorker
                          ELSE [i \in Jobs |-> Holder(job[i])][j]]
    BY <1>4 DEF SameQueueRow, Holder
  <2>4. [j \in Jobs |-> job'[j].attempt] = [j \in Jobs |-> job[j].attempt]
    BY DEF SameQueueRow
  <2> QED
    BY <2>1, <2>2, <2>3, <2>4 DEF Queue!Release, Holder
<1> QED
  BY <1>5 DEF Queue!Next

-----------------------------------------------------------------------------
LEMMA CreateSubmits ==
    ASSUME IInv, IInv', NEW j \in Jobs, NEW p \in PolicyStatuses,
           CreateJobWithOptions(j, p)
    PROVE  Queue!Next
<1>1. job[j] = NoJobRow /\ job' = [job EXCEPT ![j] = RequeuedRow(NoJobRow, p)]
  BY DEF CreateJobWithOptions, IInv, AttemptIdentity, RowIdentity
<1>2. /\ job'[j].status = "QUEUED" /\ job'[j].attempt = 0 /\ job[j].attempt = 0
      /\ job[j].status = "NONE"
  BY <1>1 DEF RequeuedRow, NoJobRow, IInv, TypeOK
<1>3. \A i \in Jobs : job[i] \in JobRow /\ job'[i] \in JobRow
  BY DEF IInv, TypeOK
<1>4. Phase(job[j]) = "absent" /\ Phase(job'[j]) = "waiting"
  BY <1>2, <1>3, PhaseOf
<1>5. ~ IsActive(job[j]) /\ ~ IsActive(job'[j])
  BY <1>2 DEF IsActive, ActiveStatuses
<1>6. \A i \in Jobs \ {j} : job'[i] = job[i]
  BY <1>1 DEF IInv, TypeOK
<1>7. Queue!Submit(j)
  <2>1. [i \in Jobs |-> Phase(job'[i])] =
          [[i \in Jobs |-> Phase(job[i])] EXCEPT ![j] = "waiting"]
    <3>1. \A i \in Jobs \ {j} : Phase(job'[i]) = Phase(job[i])
      BY <1>6
    <3> QED
      BY <1>4, <3>1
  <2>2. [i \in Jobs |-> IF IsActive(job'[i]) THEN job'[i].worker ELSE NoWorker] =
          [i \in Jobs |-> IF IsActive(job[i]) THEN job[i].worker ELSE NoWorker]
    BY <1>5, <1>6
  <2>3. [i \in Jobs |-> job'[i].attempt] = [i \in Jobs |-> job[i].attempt]
    BY <1>2, <1>6
  <2> QED
    BY <1>4, <2>1, <2>2, <2>3 DEF Queue!Submit
<1> QED
  BY <1>7 DEF Queue!Next

\* A worker without a current job holds no job of the queue: its row and the
\* rows of the jobs agree.
LEMMA ClaimGrants ==
    ASSUME IInv, IInv', NEW w \in Workers, NEW j \in Jobs,
           ClaimJobIfQueuedAndPolicyCurrent(w, j)
    PROVE  Queue!Next
<1>1. /\ job' = [job EXCEPT ![j] = ClaimedRow(job[j], w)]
      /\ job[j].status = "QUEUED" /\ worker[w].current = NoJob
  BY DEF ClaimJobIfQueuedAndPolicyCurrent
<1>2. /\ job'[j].status = "ASSIGNED" /\ job'[j].worker = w
      /\ job'[j].attempt = job[j].attempt + 1
  BY <1>1 DEF ClaimedRow, IInv, TypeOK
<1>3. \A i \in Jobs : job[i] \in JobRow /\ job'[i] \in JobRow
  BY DEF IInv, TypeOK
<1>4. /\ Phase(job[j]) = "waiting" /\ Phase(job'[j]) = "held" /\ IsActive(job'[j])
      /\ job[j].attempt < MaxAttempts
  <2>1. job[j].attempt < MaxAttempts
    BY <1>1, RowTyped DEF IInv, RowIdentity
  <2>2. IsActive(job'[j])
    BY <1>2 DEF IsActive, ActiveStatuses
  <2> QED
    BY <1>1, <1>3, <2>1, <2>2, PhaseOf
<1>5. \A i \in Jobs : IsActive(job[i]) => job[i].worker # w
  BY <1>1 DEF IInv, AssignmentMatched
<1>6. \A i \in Jobs \ {j} : job'[i] = job[i]
  BY <1>1 DEF IInv, TypeOK
<1>7. Queue!Grant(j, w)
  <2> DEFINE phase == [i \in Jobs |-> Phase(job[i])]
             holder == [i \in Jobs |-> IF IsActive(job[i]) THEN job[i].worker
                                       ELSE NoWorker]
             grants == [i \in Jobs |-> job[i].attempt]
  <2>1. phase[j] = "waiting" /\ grants[j] < MaxAttempts
    BY <1>4
  <2>2. \A i \in Jobs : phase[i] = "held" => holder[i] # w
    BY <1>3, <1>5, PhaseOf
  <2>3. [i \in Jobs |-> Phase(job'[i])] = [phase EXCEPT ![j] = "held"]
    <3>1. \A i \in Jobs \ {j} : Phase(job'[i]) = Phase(job[i])
      BY <1>6
    <3> QED
      BY <1>4, <3>1
  <2>4. [i \in Jobs |-> IF IsActive(job'[i]) THEN job'[i].worker ELSE NoWorker] =
          [holder EXCEPT ![j] = w]
    BY <1>2, <1>4, <1>6
  <2>5. [i \in Jobs |-> job'[i].attempt] = [grants EXCEPT ![j] = @ + 1]
    BY <1>2, <1>6
  <2> QED
    BY <2>1, <2>2, <2>3, <2>4, <2>5 DEF Queue!Grant, Queue!Held
<1> QED
  BY <1>7 DEF Queue!Next

\* One job ends: a release, unless it had ended before.
LEMMA FinishReleases ==
    ASSUME IInv, IInv', NEW j \in Jobs, job[j].status # "NONE",
           NEW status \in TerminalStatuses, NEW stage, FinishJob(j, status, stage)
    PROVE  [Queue!Next]_(Queue!vars)
<1>1. CASE UNCHANGED job
  BY <1>1, QueueStutters DEF SameQueueRow
<1>2. CASE /\ ~ IsTerminal(job[j])
           /\ job' = [job EXCEPT ![j] = FinishedRow(job[j], status,
                        job[j].active.n, job[j].worker, job[j].policy)]
  <2>1. job'[j].status = status /\ job'[j].attempt = job[j].attempt
    BY <1>2 DEF FinishedRow, IInv, TypeOK
  <2>2. \A i \in Jobs \ {j} : SameQueueRow(job'[i], job[i])
    BY <1>2 DEF SameQueueRow, IInv, TypeOK
  <2>3. \A i \in {j} : /\ job[i].status # "NONE" /\ ~ IsTerminal(job[i])
                       /\ IsTerminal(job'[i]) /\ job'[i].attempt = job[i].attempt
    BY <1>2, <2>1 DEF IsTerminal
  <2> QED
    BY <2>2, <2>3, QueueReleases, {j} \in SUBSET Jobs, {} \in SUBSET Jobs DEF IInv
<1> QED
  BY <1>1, <1>2 DEF FinishJob

\* One job goes back to the queue: a release, or nothing new if a late callback
\* retries a job that waits already.
LEMMA RetryReleases ==
    ASSUME IInv, IInv', NEW h \in Handlers, NEW f \in BOOLEAN, NEW p \in PolicyStatuses,
           RetryJob(h, f, p)
    PROVE  [Queue!Next]_(Queue!vars)
<1> DEFINE j == handler[h].job
           n == job[j].active.n
<1>1. /\ j \in Jobs /\ job[j].status # "NONE"
      /\ job[j] \in JobRow /\ job'[j] \in JobRow
  <2>1. j \in Jobs /\ handler[h] # Idle
    BY CallbackJob DEF RetryJob, IInv, Ops, OutcomeOps
  <2> QED
    BY <2>1 DEF IInv, TypeOK, CallbacksOfCreatedJobs
<1>2. CASE UNCHANGED job
  BY <1>2, QueueStutters DEF SameQueueRow
<1>3. CASE /\ ~ IsTerminal(job[j]) /\ job[j].attempt < MaxAttempts
           /\ job' = [job EXCEPT ![j] = RequeuedRow(job[j], p)]
  <2>1. job'[j].status = "QUEUED" /\ job'[j].attempt = job[j].attempt
    BY <1>1, <1>3 DEF RequeuedRow, IInv, TypeOK
  <2>2. \A i \in Jobs \ {j} : SameQueueRow(job'[i], job[i])
    BY <1>3 DEF SameQueueRow, IInv, TypeOK
  <2>3. CASE IsActive(job[j])
    <3>1. \A i \in {j} : /\ IsActive(job[i]) /\ job[i].attempt < MaxAttempts
                         /\ job'[i].status = "QUEUED"
                         /\ job'[i].attempt = job[i].attempt
      BY <1>3, <2>1, <2>3
    <3> QED
      BY <1>1, <2>2, <3>1, QueueReleases, {j} \in SUBSET Jobs, {} \in SUBSET Jobs
         DEF IInv
  <2>4. CASE ~ IsActive(job[j])
    <3>1. job[j].status = "QUEUED"
      BY <1>1, <1>3, <2>4
         DEF JobRow, Statuses, IsActive, IsTerminal, ActiveStatuses, TerminalStatuses
    <3>2. ~ IsActive(job'[j]) /\ Phase(job[j]) = "waiting" /\ Phase(job'[j]) = "waiting"
      BY <1>1, <2>1, <3>1, PhaseOf DEF IsActive, ActiveStatuses
    <3>3. SameQueueRow(job'[j], job[j])
      BY <2>1, <2>4, <3>2 DEF SameQueueRow, Holder
    <3> QED
      BY <2>2, <3>3, QueueStutters
  <2> QED
    BY <2>3, <2>4
<1>4. CASE /\ ~ IsTerminal(job[j])
           /\ job' = [job EXCEPT ![j] = FinishedRow(job[j], "FAILED", n, job[j].worker, p)]
  <2>1. job'[j].status = "FAILED" /\ job'[j].attempt = job[j].attempt
    BY <1>1, <1>4 DEF FinishedRow, IInv, TypeOK
  <2>2. \A i \in Jobs \ {j} : SameQueueRow(job'[i], job[i])
    BY <1>4 DEF SameQueueRow, IInv, TypeOK
  <2>3. \A i \in {j} : /\ job[i].status # "NONE" /\ ~ IsTerminal(job[i])
                       /\ IsTerminal(job'[i]) /\ job'[i].attempt = job[i].attempt
    BY <1>1, <1>4, <2>1 DEF IsTerminal, TerminalStatuses
  <2> QED
    BY <1>1, <2>2, <2>3, QueueReleases, {j} \in SUBSET Jobs, {} \in SUBSET Jobs DEF IInv
<1> QED
  BY <1>2, <1>3, <1>4 DEF RetryJob, AttemptsLeft

\* Expired leases: some jobs wait again, those without an attempt left are over.
LEMMA RecoverReleases ==
    ASSUME IInv, IInv', RecoverExpiredJobLeases
    PROVE  Queue!Next
<1> DEFINE Expired == {j \in Jobs : LeaseLost(job[j])}
           Exhausted == {j \in Expired : ~ AttemptsLeft(job[j])}
           Requeued == Expired \ Exhausted
<1>1. job' = [j \in Jobs |-> IF j \in Exhausted
                             THEN FinishedRow(job[j], "FAILED", job[j].attempt,
                                              NoWorker, job[j].policy)
                             ELSE IF j \in Requeued THEN RequeuedRow(job[j], "PENDING")
                             ELSE job[j]]
  BY Zenon DEF RecoverExpiredJobLeases
<1>2. \A j \in Expired : IsActive(job[j]) /\ job[j].attempt \in Nat
  BY DEF IInv, TypeOK, JobRow, LeaseLost
<1>3. \A j \in Requeued : /\ IsActive(job[j]) /\ job[j].attempt < MaxAttempts
                          /\ job'[j].status = "QUEUED" /\ job'[j].attempt = job[j].attempt
  BY <1>1, <1>2 DEF RequeuedRow, AttemptsLeft
<1>4. \A j \in Exhausted : /\ job[j].status # "NONE" /\ ~ IsTerminal(job[j])
                           /\ IsTerminal(job'[j]) /\ job'[j].attempt = job[j].attempt
  <2> SUFFICES ASSUME NEW j \in Exhausted
               PROVE  /\ job[j].status # "NONE" /\ ~ IsTerminal(job[j])
                      /\ IsTerminal(job'[j]) /\ job'[j].attempt = job[j].attempt
    OBVIOUS
  <2>1. job'[j].status = "FAILED" /\ job'[j].attempt = job[j].attempt
    BY <1>1 DEF FinishedRow
  <2> QED
    BY <1>2, <2>1 DEF IsActive, IsTerminal, ActiveStatuses, TerminalStatuses
<1>5. \A j \in Jobs \ (Requeued \cup Exhausted) : SameQueueRow(job'[j], job[j])
  BY <1>1 DEF SameQueueRow
<1>6. Requeued \in SUBSET Jobs /\ Exhausted \in SUBSET Jobs /\ Requeued \cap Exhausted = {}
  OBVIOUS
<1> HIDE DEF Requeued, Exhausted
<1> QED
  BY <1>3, <1>4, <1>5, <1>6, QueueReleases DEF IInv

\* A lease, a policy verdict or a metric changes nothing the queue sees.
LEMMA FieldsStutter ==
    ASSUME IInv,
           \A j \in Jobs : /\ IsActive(job'[j]) <=> IsActive(job[j])
                           /\ ~ IsActive(job[j]) => job'[j].status = job[j].status
                           /\ job'[j].worker = job[j].worker
                           /\ job'[j].attempt = job[j].attempt
    PROVE  UNCHANGED Queue!vars
<1>1. ASSUME NEW j \in Jobs PROVE Phase(job'[j]) = Phase(job[j])
  BY DEF Phase, IsActive, IsTerminal, ActiveStatuses, TerminalStatuses
<1> QED
  BY <1>1, QueueStutters DEF SameQueueRow, Holder

LEMMA CallbackRefines ==
    ASSUME IInv, IInv', NEW h \in Handlers, ApplyCallback(h)
    PROVE  [Queue!Next]_(Queue!vars)
<1>1. CASE CompleteJob(h) \/ FailJob(h)
  <2>1. /\ handler[h].job \in Jobs
        /\ job[handler[h].job].status # "NONE"
    BY <1>1, CallbackJob
       DEF CompleteJob, FailJob, IInv, CallbacksOfCreatedJobs, Ops, OutcomeOps
  <2> QED
    BY <1>1, <2>1, FinishReleases DEF CompleteJob, FailJob, TerminalStatuses
<1>2. CASE \E f \in BOOLEAN, p \in PolicyStatuses \ {"PENDING"} : RetryJob(h, f, p)
  BY <1>2, RetryReleases
<1>3. ASSUME NEW e \in Epochs, ReportMetric(h, e) PROVE UNCHANGED Queue!vars
  <2>1. CASE UNCHANGED job
    BY <2>1, QueueStutters DEF SameQueueRow
  <2>2. CASE /\ IsActive(job[handler[h].job])
             /\ job' = [job EXCEPT ![handler[h].job].status = "RUNNING",
                                   ![handler[h].job].lease = "live"]
    BY <2>2, FieldsStutter DEF IInv, TypeOK, JobRow, IsActive, ActiveStatuses
  <2> QED
    BY <1>3, <2>1, <2>2 DEF ReportMetric
<1>4. ASSUME NEW s \in WorkerStages, NEW r \in WorkerRevisions, ReportJobProgress(h, s, r)
      PROVE  UNCHANGED Queue!vars
  BY <1>4, QueueStutters DEF ReportJobProgress, SameQueueRow
<1> QED
  BY <1>1, <1>2, <1>3, <1>4 DEF ApplyCallback, ReportsOutcome

LEMMA InitRefines == Init => Queue!Init
<1> SUFFICES ASSUME Init PROVE Queue!Init
  OBVIOUS
<1>1. /\ Phase(NoJobRow) = "absent" /\ ~ IsActive(NoJobRow) /\ NoJobRow.attempt = 0
  BY DEF Phase, NoJobRow, IsActive, IsTerminal, ActiveStatuses, TerminalStatuses
<1> QED
  BY <1>1 DEF Init, Queue!Init

LEMMA StepRefines == IInv /\ IInv' /\ [Next]_vars => [Queue!Next]_(Queue!vars)
<1> SUFFICES ASSUME IInv, IInv', [Next]_vars PROVE [Queue!Next]_(Queue!vars)
  OBVIOUS
<1>1. ASSUME NEW j \in Jobs, NEW p \in PolicyStatuses, CreateJobWithOptions(j, p)
      PROVE  Queue!Next
  BY <1>1, CreateSubmits
<1>2. ASSUME NEW j \in Jobs, NEW p \in PolicyStatuses,
             ApplyQueuedJobPolicyEvaluation(j, p)
      PROVE  UNCHANGED Queue!vars
  BY <1>2, FieldsStutter
     DEF ApplyQueuedJobPolicyEvaluation, IInv, TypeOK, JobRow, IsActive
<1>3. ASSUME NEW j \in Jobs, LeaseExpires(j) PROVE UNCHANGED Queue!vars
  BY <1>3, FieldsStutter DEF LeaseExpires, IInv, TypeOK, JobRow, IsActive
<1>4. ASSUME NEW j \in Jobs, CancelJob(j) PROVE [Queue!Next]_(Queue!vars)
  BY <1>4, FinishReleases DEF CancelJob, TerminalStatuses
<1>5. ASSUME NEW w \in Workers, HeartbeatWorker(w) PROVE UNCHANGED Queue!vars
  BY <1>5, FieldsStutter DEF HeartbeatWorker, IInv, TypeOK, JobRow, IsActive
<1>6. ASSUME NEW w \in Workers, NEW j \in Jobs, ClaimJobIfQueuedAndPolicyCurrent(w, j)
      PROVE  Queue!Next
  BY <1>6, ClaimGrants
<1>7. ASSUME NEW S \in SUBSET Jobs, MarkQueuedJobsPolicyPending(S)
      PROVE  UNCHANGED Queue!vars
  BY <1>7, FieldsStutter
     DEF MarkQueuedJobsPolicyPending, IInv, TypeOK, JobRow, IsActive
<1>8. CASE RecoverExpiredJobLeases
  BY <1>8, RecoverReleases
<1>9. ASSUME NEW h \in Handlers, ApplyCallback(h) PROVE [Queue!Next]_(Queue!vars)
  BY <1>9, CallbackRefines
<1>10. CASE UNCHANGED job
  BY <1>10, QueueStutters DEF SameQueueRow
<1>11. \/ \E w \in Workers : RegisterWorker(w) \/ WorkerDies(w)
       \/ \E h \in Handlers, j \in Jobs, op \in Ops : ValidateJobCallback(h, j, op)
       \/ OrchestratorRestarts \/ UNCHANGED vars
       => UNCHANGED job
  BY DEF RegisterWorker, WorkerDies, ValidateJobCallback, OrchestratorRestarts, vars
<1> QED
  BY <1>1, <1>2, <1>3, <1>4, <1>5, <1>6, <1>7, <1>8, <1>9, <1>10, <1>11 DEF Next

\* Every behaviour of the store is a behaviour of the queue: a job is granted to
\* one worker at a time, at most MaxAttempts times, and never again once over.
THEOREM RefinesJobQueue == Spec => ImplementsJobQueue
<1>1. Init => Queue!Init
  BY InitRefines
<1>2. IInv /\ IInv' /\ [Next]_vars => [Queue!Next]_(Queue!vars)
  BY StepRefines
<1> QED
  BY <1>1, <1>2, Invariance, PTL DEF Spec, ImplementsJobQueue, Queue!Spec

\* No two held jobs name one worker, for any number of jobs, workers and late
\* callbacks: the store keeps the promise the queue makes.
THEOREM HoldersAreDistinct == Spec => []HoldersDistinct
<1>1. ASSUME IInv PROVE HoldersDistinct
  <2>1. \A j \in Jobs : j \in Queue!Held <=> IsActive(job[j])
    <3>1. ASSUME NEW j \in Jobs PROVE (Phase(job[j]) = "held") <=> IsActive(job[j])
      BY <1>1 DEF IInv, TypeOK, JobRow, Statuses, Phase, IsActive, IsTerminal,
                  ActiveStatuses, TerminalStatuses
    <3> QED
      BY <3>1 DEF Queue!Held
  <2>2. ASSUME NEW j \in Jobs, IsActive(job[j])
        PROVE  worker[job[j].worker].current = j /\ job[j].worker # NoWorker
    BY <1>1, <2>2 DEF IInv, AssignmentMatched, AttemptIdentity, RowIdentity
  <2>3. Queue!Held \subseteq Jobs
    BY DEF Queue!Held
  <2> QED
    BY <2>1, <2>2, <2>3 DEF HoldersDistinct, Queue!Exclusive
<1> QED
  BY <1>1, Invariance, PTL
=============================================================================
