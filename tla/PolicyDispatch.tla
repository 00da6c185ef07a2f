--------------------------- MODULE PolicyDispatch ---------------------------
(***************************************************************************)
(* How a queued job meets the experiment policies.  Users bind immutable   *)
(* policy versions to subjects (account, project, dataset, run) and may    *)
(* rebind them at any moment.  A poll lists queued jobs, evaluates each    *)
(* against the bindings it reads, and then claims or blocks it in a        *)
(* transaction that takes the locks of all the job's subjects and compares *)
(* the bindings again.  Requeued jobs are evaluated in the same way, new   *)
(* and retried ones without the comparison.                                *)
(*                                                                         *)
(* A policy is a set of jobs it denies: what matters of a configuration is *)
(* in the job's execution spec, which no retry changes.  Jobs are numbered *)
(* in the order of their creation.  Rows of jobs and workers are summaries *)
(* of JobLifecycle.                                                        *)
(***************************************************************************)
EXTENDS Integers, FiniteSets

CONSTANTS
    Requests,       \* requests the API serves at one time
    Workers, NoWorker,
    JobCount,
    Compatible,     \* the jobs whose artifact plan a worker's capabilities satisfy
    Subjects,
    Shared,         \* the subjects that exist before their jobs: all but runs
    SubjectsOf,     \* the subjects whose bindings a job is under
    Versions,
    NoVersion,
    Denies,         \* the jobs a policy version denies
    Limit,          \* jobs in a batch of candidates
    DispatchTries,  \* evaluations of a candidate in one poll
    RecoveryTries,  \* evaluations of a job whose lease ran out
    MaxRevision,    \* bound: rebindings of one subject
    MaxAttempts     \* max_attempts of every job

Jobs == 1..JobCount
NoJob == 0

ASSUME PolicyDispatchAssumption ==
    /\ JobCount \in Nat /\ MaxRevision \in Nat
    /\ {Limit, DispatchTries, RecoveryTries, MaxAttempts} \subseteq Nat \ {0}
    /\ NoWorker \notin Workers
    /\ Compatible \in [Workers -> SUBSET Jobs]
    /\ SubjectsOf \in [Jobs -> SUBSET Subjects] /\ Shared \subseteq Subjects
    /\ NoVersion \notin Versions
    /\ Denies \in [Versions -> SUBSET Jobs]

VARIABLES
    binding,    \* by subject: the last revision, and its version if active
    job,        \* experiment_jobs
    worker,     \* current_job_id
    request     \* where each request stands, and what it read

vars == <<binding, job, worker, request>>

-----------------------------------------------------------------------------
Binding == [revision: 0..MaxRevision, version: Versions \cup {NoVersion}]

\* The active binding of a subject, as an evaluation records it.
NoSource == [revision |-> 0, version |-> NoVersion]
Source(s) == IF binding[s].version = NoVersion THEN NoSource ELSE binding[s]
Sources(j) == [s \in SubjectsOf[j] |-> Source(s)]

\* Denials of all subjects are united.
DeniedBy(j, sources) ==
    \E s \in SubjectsOf[j] :
        sources[s].version \in Versions /\ j \in Denies[sources[s].version]

Permits(j) == ~ DeniedBy(j, Sources(j))

JobRow == [status: {"none", "queued", "active", "over"},
           eligibility: {"pending", "allowed", "blocked"}, attempt: 0..MaxAttempts]
NoJobRow == [status |-> "none", eligibility |-> "pending", attempt |-> 0]

AttemptsLeft(j) == job[j].attempt < MaxAttempts

\* An evaluation in progress: of a candidate of a poll, of a job that lost its
\* lease, of one that failed and may be retried, of one to be created.
Steps == {"list", "candidate", "evaluate", "validate", "commit", "write"}
AllSources == UNION {[S -> Binding] : S \in SUBSET Subjects}
NoSources == [s \in {} |-> NoSource]
MaxTries == IF DispatchTries > RecoveryTries THEN DispatchTries ELSE RecoveryTries

Poll == [at: Steps \ {"write"}, op: {"dispatch"}, worker: Workers, batch: SUBSET Jobs,
         full: BOOLEAN, progress: BOOLEAN, job: Jobs \cup {NoJob},
         tries: 0..MaxTries, seen: AllSources]
Gate == [at: {"evaluate", "validate", "commit", "write"},
         op: {"requeue", "retry", "create"}, job: Jobs,
         tries: 0..MaxTries, seen: AllSources]

\* An edit of a user: the binding that was shown, and the revision that the
\* edit expects, if it states one.
Unstated == -1
Edit == [at: {"edit"}, subject: Subjects, expected: 0..MaxRevision \cup {Unstated},
         saw: Binding]
Idle == [at |-> "idle"]

Goes(r, q) == request' = [request EXCEPT ![r] = q]

Evaluating(op, j) ==
    [at |-> "evaluate", op |-> op, job |-> j, tries |-> 0, seen |-> NoSources]

-----------------------------------------------------------------------------
Init ==
    /\ binding = [s \in Subjects |-> NoSource]
    /\ job = [j \in Jobs |-> NoJobRow]
    /\ worker = [w \in Workers |-> NoJob]
    /\ request = [r \in Requests |-> Idle]

\* Each definition named ...Faulty is the one after it with a plausible bug in
\* it: the properties are run against it, and nothing here uses it.

(* Policy sources. *)

\* The subjects whose policy heads the transaction of an evaluation locks,
\* bound or not.
Heads(q) == SubjectsOf[q.job]

\* pg_advisory_xact_lock: from the comparison to the end of the transaction.
Locked(s) == \E r \in Requests : request[r].at = "commit" /\ s \in Heads(request[r])

\* Faulty: a binding made since is not noticed where there was none.
SourcesCurrentFaulty(q) ==
    \A s \in SubjectsOf[q.job] : q.seen[s] # NoSource => q.seen[s] = Source(s)

\* Number, revision and version of the active bindings are those evaluated.
SourcesCurrent(q) == q.seen = Sources(q.job)

\* Faulty: the loop evaluates once more than it should.
TriesLeftFaulty(q) ==
    q.tries <= (IF q.op = "dispatch" THEN DispatchTries ELSE RecoveryTries)
TriesLeft(q) ==
    q.tries < (IF q.op = "dispatch" THEN DispatchTries ELSE RecoveryTries)

\* evaluateJobPolicy
Evaluate(r) ==
    LET q == request[r]
    IN  /\ q.at = "evaluate"
        /\ Goes(r, [q EXCEPT !.at = IF q.op \in {"dispatch", "requeue"}
                                    THEN "validate" ELSE "write",
                             !.seen = Sources(q.job), !.tries = @ + 1])
        /\ UNCHANGED <<binding, job, worker>>

\* The first half of the transactions that claim, block or reconcile a job.
LockAndValidatePolicySources(r) ==
    LET q == request[r]
    IN  /\ q.at = "validate"
        /\ \A s \in Heads(q) : ~ Locked(s)
        /\ Goes(r, IF SourcesCurrent(q) THEN [q EXCEPT !.at = "commit"]
                   ELSE IF TriesLeft(q) THEN [q EXCEPT !.at = "evaluate"]
                   ELSE Idle)
        /\ UNCHANGED <<binding, job, worker>>

(* Polls. *)

\* A worker that has a job is handed that one.
PollJob(r, w) ==
    /\ request[r] = Idle
    /\ worker[w] = NoJob
    /\ Goes(r, [at |-> "list", op |-> "dispatch", worker |-> w, batch |-> {},
                full |-> FALSE, progress |-> FALSE, job |-> NoJob, tries |-> 0,
                seen |-> NoSources])
    /\ UNCHANGED <<binding, job, worker>>

Candidates == {j \in Jobs : job[j].status = "queued" /\ job[j].eligibility # "blocked"}
Oldest(S) == {j \in S : Cardinality({k \in S : k < j}) < Limit}

ListQueuedJobsForWorker(r) ==
    LET batch == Oldest(Candidates)
    IN  /\ request[r].at = "list"
        /\ Goes(r, IF batch = {} THEN Idle
                   ELSE [request[r] EXCEPT !.at = "candidate", !.batch = batch,
                                           !.full = Cardinality(batch) = Limit,
                                           !.progress = FALSE])
        /\ UNCHANGED <<binding, job, worker>>

\* A candidate that this worker cannot run is passed over.
NextCandidate(r) ==
    LET q == request[r]
    IN  /\ q.at = "candidate"
        /\ \E j \in q.batch :
             /\ \A k \in q.batch : j <= k
             /\ Goes(r, IF j \in Compatible[q.worker]
                        THEN [q EXCEPT !.at = "evaluate", !.job = j, !.tries = 0,
                                       !.batch = @ \ {j}]
                        ELSE [q EXCEPT !.batch = @ \ {j}])
        /\ UNCHANGED <<binding, job, worker>>

\* The poll goes on only if there may be more jobs, and one of these was decided.
BatchEnds(r) ==
    LET q == request[r]
    IN  /\ q.at = "candidate" /\ q.batch = {}
        /\ Goes(r, IF q.full /\ q.progress THEN [q EXCEPT !.at = "list"] ELSE Idle)
        /\ UNCHANGED <<binding, job, worker>>

Decided(q) == [q EXCEPT !.at = "candidate", !.progress = TRUE]

\* The second half: the locks are held, so the evaluation is still true.
ApplyQueuedJobPolicyEvaluation(r) ==
    LET q == request[r]
        denied == DeniedBy(q.job, q.seen)
    IN  /\ q.at = "commit"
        /\ denied \/ q.op = "requeue"
        /\ job' = IF job[q.job].status # "queued" THEN job
                  ELSE [job EXCEPT ![q.job].eligibility =
                                       IF denied THEN "blocked" ELSE "allowed"]
        /\ Goes(r, IF q.op = "dispatch" THEN Decided(q) ELSE Idle)
        /\ UNCHANGED <<binding, worker>>

\* Faulty: the worker is not looked at again.
ClaimableFaulty(q) == q.job \in Candidates
Claimable(q) == worker[q.worker] = NoJob /\ q.job \in Candidates

ClaimJobIfQueuedAndPolicyCurrent(r) ==
    LET q == request[r]
        row == job[q.job]
    IN  /\ q.at = "commit" /\ q.op = "dispatch"
        /\ ~ DeniedBy(q.job, q.seen)
        /\ IF Claimable(q)
           THEN /\ job' = [job EXCEPT ![q.job] =
                              [status |-> "active", eligibility |-> "allowed",
                               attempt |-> row.attempt + 1]]
                /\ worker' = [worker EXCEPT ![q.worker] = q.job]
                /\ Goes(r, Idle)
           ELSE UNCHANGED <<job, worker>> /\ Goes(r, Decided(q))
        /\ UNCHANGED binding

(* The rest of a job's life. *)

Released(j) == [w \in Workers |-> IF worker[w] = j THEN NoJob ELSE worker[w]]

RequestsJob(r, j) ==
    /\ request[r] = Idle
    /\ job[j].status = "none"
    /\ \A k \in 1..(j - 1) : job[k].status # "none"
    /\ Goes(r, Evaluating("create", j))
    /\ UNCHANGED <<binding, job, worker>>

\* The job gets the verdict of an evaluation that nothing compares again.
CreateJobWithOptions(r) ==
    LET q == request[r]
    IN  /\ q.at = "write" /\ q.op = "create"
        /\ job' = IF DeniedBy(q.job, q.seen) \/ job[q.job].status # "none" THEN job
                  ELSE [job EXCEPT ![q.job].status = "queued",
                                   ![q.job].eligibility = "allowed"]
        /\ Goes(r, Idle)
        /\ UNCHANGED <<binding, worker>>

FailJobRetryable(r, j) ==
    /\ request[r] = Idle
    /\ job[j].status = "active"
    /\ Goes(r, Evaluating("retry", j))
    /\ UNCHANGED <<binding, job, worker>>

RetryJob(r) ==
    LET q == request[r]
        denied == DeniedBy(q.job, q.seen)
    IN  /\ q.at = "write" /\ q.op = "retry"
        /\ IF job[q.job].status = "over" THEN UNCHANGED <<job, worker>>
           ELSE /\ job' = [job EXCEPT
                    ![q.job].status = IF AttemptsLeft(q.job) /\ ~ denied
                                      THEN "queued" ELSE "over",
                    ![q.job].eligibility = IF denied THEN "blocked" ELSE "allowed"]
                /\ worker' = Released(q.job)
        /\ Goes(r, Idle)
        /\ UNCHANGED binding

\* A job whose lease ran out waits as pending, and is evaluated at once.
RecoverExpiredJobLeases(r, j) ==
    /\ request[r] = Idle
    /\ job[j].status = "active"
    /\ job' = IF AttemptsLeft(j)
              THEN [job EXCEPT ![j].status = "queued", ![j].eligibility = "pending"]
              ELSE [job EXCEPT ![j].status = "over"]
    /\ worker' = Released(j)
    /\ Goes(r, IF AttemptsLeft(j) THEN Evaluating("requeue", j) ELSE Idle)
    /\ UNCHANGED binding

FinishJob(j) ==
    /\ job' = [job EXCEPT ![j].status = "over"]
    /\ worker' = Released(j)
    /\ UNCHANGED <<binding, request>>

JobEnds(j) == job[j].status = "active" /\ FinishJob(j)
CancelJob(j) == job[j].status \in {"queued", "active"} /\ FinishJob(j)

(* Users who edit policies. *)

CurrentRevision(s) == Source(s).revision

\* Faulty: revisions start again once a binding was cleared.
NextRevisionFaulty(s) == CurrentRevision(s) + 1
NextRevision(s) == binding[s].revision + 1

\* Faulty: only jobs that were allowed are looked at again.
MarkedPolicyPendingFaulty(s) ==
    [j \in Jobs |-> IF /\ job[j].status = "queued" /\ s \in SubjectsOf[j]
                       /\ job[j].eligibility = "allowed"
                    THEN [job[j] EXCEPT !.eligibility = "pending"] ELSE job[j]]
MarkedPolicyPending(s) ==
    [j \in Jobs |-> IF job[j].status = "queued" /\ s \in SubjectsOf[j]
                    THEN [job[j] EXCEPT !.eligibility = "pending"] ELSE job[j]]

Exists(s) ==
    s \in Shared \/ \E j \in Jobs : s \in SubjectsOf[j] /\ job[j].status # "none"

\* What a client shows, and what it will send.
GetExperimentPolicy(r, s) ==
    /\ request[r] = Idle
    /\ Exists(s)
    /\ \E expected \in {CurrentRevision(s), Unstated} :
         Goes(r, [at |-> "edit", subject |-> s, expected |-> expected,
                  saw |-> Source(s)])
    /\ UNCHANGED <<binding, job, worker>>

Rebinds(r, b) ==
    LET s == request[r].subject
    IN  /\ ~ Locked(s)
        /\ binding' = [binding EXCEPT ![s] = b]
        /\ job' = MarkedPolicyPending(s)
        /\ Goes(r, Idle)
        /\ UNCHANGED worker

SetExperimentPolicyBinding(r, v) ==
    LET q == request[r]
    IN  /\ q.at = "edit"
        /\ q.expected \in {Unstated, CurrentRevision(q.subject)}
        /\ NextRevision(q.subject) <= MaxRevision
        /\ Rebinds(r, [revision |-> NextRevision(q.subject), version |-> v])

ClearExperimentPolicyBinding(r) ==
    LET q == request[r]
    IN  /\ q.at = "edit"
        /\ q.expected > 0 /\ q.expected = CurrentRevision(q.subject)
        /\ Rebinds(r, [revision |-> binding[q.subject].revision, version |-> NoVersion])

\* Refused because of its revision, or given up.
EditEnds(r) ==
    /\ request[r].at = "edit"
    /\ Goes(r, Idle)
    /\ UNCHANGED <<binding, job, worker>>

OrchestratorRestarts ==
    /\ \E r \in Requests : request[r] # Idle
    /\ request' = [r \in Requests |-> Idle]
    /\ UNCHANGED <<binding, job, worker>>

-----------------------------------------------------------------------------
Edits(r) == \E v \in Versions : SetExperimentPolicyBinding(r, v)

Continues(r) ==
    \/ Evaluate(r) \/ LockAndValidatePolicySources(r)
    \/ ListQueuedJobsForWorker(r) \/ NextCandidate(r) \/ BatchEnds(r)
    \/ ApplyQueuedJobPolicyEvaluation(r) \/ ClaimJobIfQueuedAndPolicyCurrent(r)
    \/ CreateJobWithOptions(r) \/ RetryJob(r)
    \/ Edits(r) \/ ClearExperimentPolicyBinding(r) \/ EditEnds(r)

Step ==
    \/ \E r \in Requests :
         \/ \E w \in Workers : PollJob(r, w)
         \/ \E j \in Jobs : \/ RequestsJob(r, j) \/ FailJobRetryable(r, j)
                            \/ RecoverExpiredJobLeases(r, j)
         \/ \E s \in Subjects : GetExperimentPolicy(r, s)
         \/ Continues(r)
    \/ \E j \in Jobs : JobEnds(j) \/ CancelJob(j)

Next == Step \/ OrchestratorRestarts

Spec == Init /\ [][Next]_vars

\* Idle workers poll again and again, and what they run ends; a request that
\* is served goes on; and from some time on nothing restarts.
Fairness ==
    /\ \A w \in Workers : SF_vars(\E r \in Requests : PollJob(r, w))
    /\ \A r \in Requests : WF_vars(Continues(r))
    /\ \A j \in Jobs : WF_vars(JobEnds(j))
    /\ <>[][Step]_vars

LiveSpec == Spec /\ Fairness

-----------------------------------------------------------------------------
(* What the people who submit jobs see of this. *)

Phase(j) ==
    CASE job[j].status = "none"   -> "absent"
      [] job[j].status = "queued" -> "waiting"
      [] job[j].status = "active" -> "held"
      [] job[j].status = "over"   -> "done"

Holder(j) ==
    IF \E w \in Workers : worker[w] = j THEN CHOOSE w \in Workers : worker[w] = j
    ELSE NoWorker

Queue == INSTANCE JobQueue WITH
    phase <- [j \in Jobs |-> Phase(j)],
    holder <- [j \in Jobs |-> Holder(j)],
    grants <- [j \in Jobs |-> job[j].attempt]

\* Policies only delay and end jobs: behind all evaluations, stale retries and
\* polls of one worker at a time or two, a job is still granted to one worker
\* at a time, to none that has a job, and not too often
\* (ClaimJobIfQueuedAndPolicyCurrent, RetryJob).
ImplementsJobQueue == Queue!Spec

-----------------------------------------------------------------------------
TypeOK ==
    /\ binding \in [Subjects -> Binding]
    /\ job \in [Jobs -> JobRow]
    /\ worker \in [Workers -> Jobs \cup {NoJob}]
    /\ request \in [Requests -> Poll \cup Gate \cup Edit \cup {Idle}]

\* A job starts only if the policies in force at that very moment permit it,
\* whatever was bound, rebound or cleared since the poll evaluated it
\* (ClaimJobIfQueuedAndPolicyCurrent).
ClaimPermitted ==
    [][\A j \in Jobs : (job[j].status = "queued" /\ job'[j].status = "active")
                          => Permits(j)]_vars

\* A blocked job is denied by the policies in force: nobody evaluates it again
\* until one of them changes, so a block that outlives its reason is for ever
\* (ApplyQueuedJobPolicyEvaluation, markQueuedJobsPolicyPendingTx).
BlockedIsDenied ==
    \A j \in Jobs : (job[j].status = "queued" /\ job[j].eligibility = "blocked")
                       => ~ Permits(j)

\* An edit that states the revision it expects replaces the binding its author
\* was shown, and no other, though bindings were cleared and set anew meanwhile
\* (SetExperimentPolicyBinding, ClearExperimentPolicyBinding).
EditReplacesWhatItSaw ==
    [][\A r \in Requests :
         (/\ request[r].at = "edit" /\ request'[r] # request[r]
          /\ request[r].expected # Unstated
          /\ binding'[request[r].subject] # binding[request[r].subject])
            => Source(request[r].subject) = request[r].saw]_vars

\* A queued job that the policies permit from some time on does not wait for
\* ever, however often they changed before: neither a block that was written
\* by an evaluation from before the change, nor a poll that gave up, keeps it.
PermittedJobStarts ==
    \A j \in Jobs :
        <>[]Permits(j) => (job[j].status = "queued" ~> job[j].status # "queued")
=============================================================================
