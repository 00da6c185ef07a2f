------------------------ MODULE PolicyDispatchProofs ------------------------
(***************************************************************************)
(* What holds of policy dispatch for every number of jobs, requests,       *)
(* subjects and revisions: rows keep their type, a job starts only if the  *)
(* policies of that moment permit it, a blocked job is denied by them, and *)
(* an edit replaces the binding that its author saw.                       *)
(***************************************************************************)
EXTENDS PolicyDispatch, TLAPS

USE PolicyDispatchAssumption DEF PolicyDispatchAssumption

\* A binding in force was numbered.
BindingsNumbered ==
    \A s \in Subjects : binding[s].version # NoVersion => binding[s].revision > 0

\* A job that has no worker yet may still have one.
WaitingJobsHaveAttempts ==
    \A j \in Jobs : job[j].status \in {"none", "queued"} => AttemptsLeft(j)

\* The binding a client was shown is the one that still has its revision.
Remembers(q) ==
    /\ q.saw.revision <= binding[q.subject].revision
    /\ q.saw.revision = 0 => q.saw = NoSource
    /\ q.expected # Unstated => q.expected = q.saw.revision
    /\ (/\ binding[q.subject].version # NoVersion
        /\ binding[q.subject].revision = q.saw.revision) => q.saw = binding[q.subject]

\* What a request knows of the state: a job is evaluated while it has tries
\* left, and the locks it holds keep what it read true.
RequestFits(q) ==
    /\ q.at \in {"evaluate", "validate", "commit", "write"} => q.job \in Jobs
    /\ q.at = "evaluate" => TriesLeft(q)
    /\ q.at \in {"validate", "commit"} => q.op \in {"dispatch", "requeue"}
    /\ q.at = "commit" => SourcesCurrent(q)
    /\ q.at = "edit" => Remembers(q)

IInv ==
    /\ TypeOK
    /\ BindingsNumbered
    /\ WaitingJobsHaveAttempts
    /\ \A r \in Requests : RequestFits(request[r])
    /\ BlockedIsDenied

-----------------------------------------------------------------------------
(* Kinds of requests. *)

Requesting == Poll \cup Gate \cup Edit \cup {Idle}

LEMMA Kinds ==
    ASSUME NEW q \in Requesting
    PROVE  /\ q.at = "edit" => q \in Edit
           /\ q.at \in {"list", "candidate"} => q \in Poll
           /\ q.at = "write" => q \in Gate
           /\ q.at \in {"evaluate", "validate", "commit"} => q \in Poll \cup Gate
           /\ q \in Poll \cup Gate => q.at # "edit"
BY DEF Requesting, Poll, Gate, Edit, Idle, Steps

LEMMA IdleOK == Idle \in Requesting /\ RequestFits(Idle)
BY DEF Idle, Requesting, RequestFits

LEMMA NoSourceTyped == NoSource \in Binding /\ NoSources \in AllSources
<1>1. NoSource \in Binding
  BY DEF NoSource, Binding
<1>2. NoSources \in [{} -> Binding]
  BY <1>1 DEF NoSources
<1>. QED BY <1>1, <1>2 DEF AllSources

LEMMA SourcesTyped ==
    ASSUME TypeOK, NEW j \in Jobs
    PROVE  Sources(j) \in AllSources
<1>1. \A s \in SubjectsOf[j] : Source(s) \in Binding
  BY NoSourceTyped DEF TypeOK, Source
<1>2. Sources(j) \in [SubjectsOf[j] -> Binding]
  BY <1>1 DEF Sources
<1>. QED BY <1>2 DEF AllSources

\* An evaluation that is still current tells what the policies say.
LEMMA CurrentMeansDenied ==
    ASSUME TypeOK, NEW q, q.job \in Jobs, SourcesCurrent(q)
    PROVE  DeniedBy(q.job, q.seen) <=> ~ Permits(q.job)
BY DEF SourcesCurrent, Permits

-----------------------------------------------------------------------------
(* The parts of the invariant, after a step. *)

JobsOK ==
    /\ job' \in [Jobs -> JobRow]
    /\ WaitingJobsHaveAttempts'
    /\ BlockedIsDenied'

WorkersOK == worker' \in [Workers -> Jobs \cup {NoJob}]

RequestsOK ==
    /\ request' \in [Requests -> Requesting]
    /\ \A r \in Requests : RequestFits(request[r])'

\* Bindings stay: what was true of them stays.
LEMMA BindingsStay ==
    ASSUME IInv, binding' = binding
    PROVE  /\ \A j \in Jobs : Permits(j)' = Permits(j)
           /\ \A q \in Requesting : RequestFits(q)' = RequestFits(q)
<1>1. \A s : Source(s)' = Source(s)
  BY DEF Source
<1>2. \A j : Sources(j)' = Sources(j)
  BY <1>1 DEF Sources
<1>. QED BY <1>2 DEF Permits, DeniedBy, RequestFits, SourcesCurrent, TriesLeft, Remembers

LEMMA GoesOK ==
    ASSUME IInv, binding' = binding, NEW r \in Requests,
           NEW q \in Requesting, RequestFits(q), Goes(r, q)
    PROVE  RequestsOK
<1>1. request \in [Requests -> Requesting]
  BY DEF IInv, TypeOK, Requesting
<1>2. request' \in [Requests -> Requesting]
  BY <1>1 DEF Goes
<1>3. \A p \in Requests : request'[p] = IF p = r THEN q ELSE request[p]
  BY <1>1 DEF Goes
<1>4. \A p \in Requests : RequestFits(request'[p])
  BY <1>3 DEF IInv
<1>5. ASSUME NEW p \in Requests
      PROVE  RequestFits(request[p])'
  <2>1. request'[p] \in Requesting
    BY <1>2
  <2>. QED BY <2>1, <1>4, BindingsStay DEF RequestFits, SourcesCurrent, TriesLeft, Remembers, Sources, Source
<1>. QED BY <1>2, <1>5 DEF RequestsOK

LEMMA JobsStay ==
    ASSUME IInv, binding' = binding, job' = job
    PROVE  JobsOK
BY BindingsStay DEF IInv, TypeOK, JobsOK, WaitingJobsHaveAttempts, AttemptsLeft, BlockedIsDenied

\* One row of a job changes.
LEMMA JobChanges ==
    ASSUME IInv, binding' = binding, NEW j \in Jobs,
           job' \in [Jobs -> JobRow],
           \A k \in Jobs \ {j} : job'[k] = job[k],
           job'[j].status \in {"none", "queued"} => job'[j].attempt < MaxAttempts,
           job'[j].status = "queued" /\ job'[j].eligibility = "blocked" => ~ Permits(j)
    PROVE  JobsOK
<1>1. WaitingJobsHaveAttempts'
  BY DEF IInv, WaitingJobsHaveAttempts, AttemptsLeft
<1>2. BlockedIsDenied'
  BY BindingsStay DEF IInv, BlockedIsDenied
<1>. QED BY <1>1, <1>2 DEF JobsOK

LEMMA Rejoined ==
    ASSUME IInv, binding' = binding, JobsOK, WorkersOK, RequestsOK
    PROVE  IInv'
BY DEF IInv, TypeOK, JobsOK, WorkersOK, RequestsOK, Requesting, BindingsNumbered

\* A request goes on and changes nothing else.
LEMMA OnlyGoes ==
    ASSUME IInv, NEW r \in Requests, NEW q \in Requesting, RequestFits(q), Goes(r, q),
           UNCHANGED <<binding, job, worker>>
    PROVE  IInv'
<1>1. JobsOK
  BY JobsStay
<1>2. RequestsOK
  BY GoesOK
<1>3. WorkersOK
  BY DEF IInv, TypeOK, WorkersOK
<1>. QED BY <1>1, <1>2, <1>3, Rejoined

-----------------------------------------------------------------------------
(* Evaluations. *)

LEMMA EvaluatingOK ==
    ASSUME NEW op \in {"requeue", "retry", "create"}, NEW j \in Jobs
    PROVE  Evaluating(op, j) \in Requesting /\ RequestFits(Evaluating(op, j))
<1>1. 0 \in 0..MaxTries /\ 0 < RecoveryTries
  BY DEF MaxTries
<1>2. Evaluating(op, j) \in Gate
  BY <1>1, NoSourceTyped DEF Evaluating, Gate
<1>. QED BY <1>1, <1>2 DEF Evaluating, Requesting, RequestFits, TriesLeft

LEMMA EvaluateOK ==
    ASSUME IInv, NEW r \in Requests, Evaluate(r)
    PROVE  IInv'
<1>. DEFINE q == request[r]
            n == [q EXCEPT !.at = IF q.op \in {"dispatch", "requeue"}
                                  THEN "validate" ELSE "write",
                           !.seen = Sources(q.job), !.tries = @ + 1]
<1>1. q \in Requesting /\ q.at = "evaluate" /\ TriesLeft(q) /\ q.job \in Jobs
  BY DEF IInv, TypeOK, Requesting, RequestFits, Evaluate
<1>2. q \in Poll \cup Gate
  BY <1>1, Kinds
<1>3. q.tries + 1 \in 0..MaxTries
  BY <1>1, <1>2 DEF TriesLeft, MaxTries, Poll, Gate
<1>4. Sources(q.job) \in AllSources
  BY <1>1, SourcesTyped DEF IInv
<1>5. n \in Requesting
  <2>1. CASE q \in Poll
    BY <2>1, <1>3, <1>4 DEF Poll, Steps, Requesting
  <2>2. CASE q \in Gate
    BY <2>2, <1>3, <1>4 DEF Gate, Requesting
  <2>. QED BY <1>2, <2>1, <2>2
<1>6. RequestFits(n)
  BY <1>1, <1>2 DEF RequestFits, Poll, Gate
<1>. QED BY <1>5, <1>6, OnlyGoes DEF Evaluate

LEMMA ValidateOK ==
    ASSUME IInv, NEW r \in Requests, LockAndValidatePolicySources(r)
    PROVE  IInv'
<1>. DEFINE q == request[r]
<1>1. q \in Requesting /\ q.at = "validate"
  BY DEF IInv, TypeOK, Requesting, LockAndValidatePolicySources
<1>2. q \in Poll \cup Gate
  BY <1>1, Kinds
<1>3. q.job \in Jobs
  BY <1>1 DEF IInv, RequestFits
<1>4. CASE SourcesCurrent(q)
  <2>. DEFINE n == [q EXCEPT !.at = "commit"]
  <2>1. n \in Requesting
    BY <1>2 DEF Poll, Gate, Steps, Requesting
  <2>2. n.at = "commit" /\ n.op = q.op /\ n.job = q.job /\ n.seen = q.seen
    BY <1>2 DEF Poll, Gate
  <2>3. RequestFits(n)
    BY <1>1, <1>3, <1>4, <2>2 DEF RequestFits, SourcesCurrent, IInv
  <2>. QED BY <1>4, <2>1, <2>3, OnlyGoes DEF LockAndValidatePolicySources
<1>5. CASE ~ SourcesCurrent(q) /\ TriesLeft(q)
  <2>. DEFINE n == [q EXCEPT !.at = "evaluate"]
  <2>1. n \in Requesting
    BY <1>2 DEF Poll, Gate, Steps, Requesting
  <2>2. n.at = "evaluate" /\ n.job = q.job /\ n.op = q.op /\ n.tries = q.tries
    BY <1>2 DEF Poll, Gate
  <2>3. RequestFits(n)
    BY <1>3, <1>5, <2>2 DEF RequestFits, TriesLeft
  <2>. QED BY <1>5, <2>1, <2>3, OnlyGoes DEF LockAndValidatePolicySources
<1>6. CASE ~ SourcesCurrent(q) /\ ~ TriesLeft(q)
  BY <1>6, IdleOK, OnlyGoes DEF LockAndValidatePolicySources
<1>. QED BY <1>4, <1>5, <1>6

-----------------------------------------------------------------------------
(* Polls. *)

LEMMA PollJobOK ==
    ASSUME IInv, NEW r \in Requests, NEW w \in Workers, PollJob(r, w)
    PROVE  IInv'
<1>. DEFINE n == [at |-> "list", op |-> "dispatch", worker |-> w, batch |-> {},
                  full |-> FALSE, progress |-> FALSE, job |-> NoJob, tries |-> 0,
                  seen |-> NoSources]
<1>1. 0 \in 0..MaxTries
  BY DEF MaxTries
<1>2. n \in Requesting
  BY <1>1, NoSourceTyped DEF Requesting, Poll, Steps
<1>3. RequestFits(n)
  BY DEF RequestFits
<1>. QED BY <1>2, <1>3, OnlyGoes DEF PollJob

\* A poll is between two candidates: it knows nothing that could be stale.
LEMMA BetweenCandidates ==
    ASSUME NEW n \in Poll, n.at \in {"list", "candidate"}
    PROVE  n \in Requesting /\ RequestFits(n)
BY DEF Requesting, RequestFits

LEMMA ListOK ==
    ASSUME IInv, NEW r \in Requests, ListQueuedJobsForWorker(r)
    PROVE  IInv'
<1>. DEFINE q == request[r]
            batch == Oldest(Candidates)
            full == Cardinality(batch) = Limit
            n == [q EXCEPT !.at = "candidate", !.batch = batch, !.full = full,
                           !.progress = FALSE]
<1>1. q \in Requesting /\ q.at = "list"
  BY DEF IInv, TypeOK, Requesting, ListQueuedJobsForWorker
<1>2. q \in Poll
  BY <1>1, Kinds
<1>3. batch \in SUBSET Jobs /\ full \in BOOLEAN
  BY DEF Oldest, Candidates
<1>4. n \in Poll /\ n.at = "candidate"
  <2>. HIDE DEF batch, full
  <2>. QED BY <1>2, <1>3 DEF Poll, Steps
<1>5. Goes(r, IF batch = {} THEN Idle ELSE n) /\ UNCHANGED <<binding, job, worker>>
  BY DEF ListQueuedJobsForWorker
<1>. QED
  <2>. HIDE DEF batch, n
  <2>. QED BY <1>4, <1>5, BetweenCandidates, IdleOK, OnlyGoes

LEMMA NextCandidateOK ==
    ASSUME IInv, NEW r \in Requests, NextCandidate(r)
    PROVE  IInv'
<1>. DEFINE q == request[r]
<1>1. q \in Requesting /\ q.at = "candidate"
  BY DEF IInv, TypeOK, Requesting, NextCandidate
<1>2. q \in Poll
  BY <1>1, Kinds
<1>3. PICK j \in q.batch :
          Goes(r, IF j \in Compatible[q.worker]
                  THEN [q EXCEPT !.at = "evaluate", !.job = j, !.tries = 0,
                                 !.batch = @ \ {j}]
                  ELSE [q EXCEPT !.batch = @ \ {j}])
  BY DEF NextCandidate
<1>4. j \in Jobs /\ 0 \in 0..MaxTries
  BY <1>2 DEF Poll, MaxTries
<1>5. CASE j \in Compatible[q.worker]
  <2>. DEFINE n == [q EXCEPT !.at = "evaluate", !.job = j, !.tries = 0,
                             !.batch = @ \ {j}]
  <2>1. n \in Poll
    BY <1>2, <1>4 DEF Poll, Steps
  <2>2. n.at = "evaluate" /\ n.job = j /\ n.tries = 0 /\ n.op = "dispatch"
    BY <1>2 DEF Poll
  <2>3. RequestFits(n)
    BY <1>4, <2>2 DEF RequestFits, TriesLeft
  <2>4. n \in Requesting
    BY <2>1 DEF Requesting
  <2>. QED BY <1>3, <1>5, <2>3, <2>4, OnlyGoes DEF NextCandidate
<1>6. CASE j \notin Compatible[q.worker]
  <2>. DEFINE n == [q EXCEPT !.batch = @ \ {j}]
  <2>1. n \in Poll /\ n.at = "candidate"
    BY <1>1, <1>2 DEF Poll
  <2>. QED BY <1>3, <1>6, <2>1, BetweenCandidates, OnlyGoes DEF NextCandidate
<1>. QED BY <1>5, <1>6

LEMMA BatchEndsOK ==
    ASSUME IInv, NEW r \in Requests, BatchEnds(r)
    PROVE  IInv'
<1>. DEFINE q == request[r]
            n == [q EXCEPT !.at = "list"]
<1>1. q \in Requesting /\ q.at = "candidate"
  BY DEF IInv, TypeOK, Requesting, BatchEnds
<1>2. n \in Poll /\ n.at = "list"
  BY <1>1, Kinds DEF Poll, Steps
<1>. QED BY <1>2, BetweenCandidates, IdleOK, OnlyGoes DEF BatchEnds

\* What a request at the second half of its transaction is.
LEMMA CommitFacts ==
    ASSUME IInv, NEW r \in Requests, request[r].at = "commit"
    PROVE  /\ request[r].job \in Jobs
           /\ request[r].op \in {"dispatch", "requeue"}
           /\ DeniedBy(request[r].job, request[r].seen) <=> ~ Permits(request[r].job)
           /\ request[r].op = "dispatch" =>
                /\ request[r].worker \in Workers
                /\ Decided(request[r]) \in Requesting
                /\ RequestFits(Decided(request[r]))
<1>. DEFINE q == request[r]
<1>1. q \in Requesting /\ q.job \in Jobs /\ SourcesCurrent(q) /\ q.op \in {"dispatch", "requeue"}
  BY DEF IInv, TypeOK, Requesting, RequestFits
<1>2. q \in Poll \cup Gate
  BY <1>1, Kinds
<1>3. DeniedBy(q.job, q.seen) <=> ~ Permits(q.job)
  BY <1>1, CurrentMeansDenied DEF IInv
<1>4. ASSUME q.op = "dispatch"
      PROVE  q.worker \in Workers /\ Decided(q) \in Poll /\ Decided(q).at = "candidate"
  <2>1. q \in Poll
    BY <1>2, <1>4 DEF Gate
  <2>. QED BY <2>1 DEF Poll, Decided, Steps
<1>. QED BY <1>1, <1>3, <1>4, BetweenCandidates

LEMMA ApplyOK ==
    ASSUME IInv, NEW r \in Requests, ApplyQueuedJobPolicyEvaluation(r)
    PROVE  IInv'
<1>. DEFINE q == request[r]
            denied == DeniedBy(q.job, q.seen)
            verdict == IF denied THEN "blocked" ELSE "allowed"
<1>1. q.at = "commit"
  BY DEF ApplyQueuedJobPolicyEvaluation
<1>2. RequestsOK
  BY <1>1, CommitFacts, IdleOK, GoesOK DEF ApplyQueuedJobPolicyEvaluation
<1>3. q.job \in Jobs /\ (denied <=> ~ Permits(q.job))
  BY <1>1, CommitFacts
<1>4. ASSUME job[q.job].status # "queued" PROVE JobsOK
  BY <1>4, JobsStay DEF ApplyQueuedJobPolicyEvaluation
<1>5. ASSUME job[q.job].status = "queued" PROVE JobsOK
  <2>1. job' = [job EXCEPT ![q.job].eligibility = verdict] /\ binding' = binding
    BY <1>5 DEF ApplyQueuedJobPolicyEvaluation
  <2>2. verdict \in {"allowed", "blocked"} /\ (verdict = "blocked" => ~ Permits(q.job))
    BY <1>3
  <2>3. job \in [Jobs -> JobRow] /\ job[q.job].attempt < MaxAttempts
    BY <1>3, <1>5 DEF IInv, TypeOK, WaitingJobsHaveAttempts, AttemptsLeft
  <2>. HIDE DEF verdict
  <2>4. job' \in [Jobs -> JobRow]
    BY <1>3, <2>1, <2>2, <2>3 DEF JobRow
  <2>5. job'[q.job].eligibility = verdict /\ job'[q.job].attempt = job[q.job].attempt
    BY <1>3, <2>1, <2>3 DEF JobRow
  <2>. QED BY <1>3, <2>1, <2>2, <2>3, <2>4, <2>5, JobChanges
<1>6. WorkersOK
  BY DEF ApplyQueuedJobPolicyEvaluation, IInv, TypeOK, WorkersOK
<1>. QED BY <1>2, <1>4, <1>5, <1>6, Rejoined DEF ApplyQueuedJobPolicyEvaluation

LEMMA ClaimOK ==
    ASSUME IInv, NEW r \in Requests, ClaimJobIfQueuedAndPolicyCurrent(r)
    PROVE  IInv' /\ \A j \in Jobs : job'[j] # job[j] => Permits(j)
<1>. DEFINE q == request[r]
            row == [status |-> "active", eligibility |-> "allowed",
                    attempt |-> job[q.job].attempt + 1]
<1>1. q.at = "commit" /\ q.op = "dispatch" /\ binding' = binding
  BY DEF ClaimJobIfQueuedAndPolicyCurrent
<1>2. RequestsOK
  BY <1>1, CommitFacts, IdleOK, GoesOK DEF ClaimJobIfQueuedAndPolicyCurrent
<1>3. q.job \in Jobs /\ q.worker \in Workers /\ Permits(q.job)
  BY <1>1, CommitFacts DEF ClaimJobIfQueuedAndPolicyCurrent
<1>4. CASE Claimable(q)
  <2>1. job' = [job EXCEPT ![q.job] = row] /\ worker' = [worker EXCEPT ![q.worker] = q.job]
    BY <1>4 DEF ClaimJobIfQueuedAndPolicyCurrent
  <2>2. job \in [Jobs -> JobRow] /\ job[q.job].attempt < MaxAttempts
    BY <1>3, <1>4 DEF IInv, TypeOK, WaitingJobsHaveAttempts, AttemptsLeft, Claimable, Candidates
  <2>3. row \in JobRow
    BY <1>3, <2>2 DEF JobRow
  <2>4. \A j \in Jobs : job'[j] = IF j = q.job THEN row ELSE job[j]
    BY <1>3, <2>1, <2>2
  <2>5. JobsOK
    <3>1. job' \in [Jobs -> JobRow]
      BY <2>1, <2>2, <2>3
    <3>2. job'[q.job].status = "active"
      BY <1>3, <2>4
    <3>. QED BY <1>1, <1>3, <2>4, <3>1, <3>2, JobChanges
  <2>6. WorkersOK
    BY <1>3, <2>1 DEF IInv, TypeOK, WorkersOK
  <2>. QED BY <1>1, <1>2, <1>3, <2>4, <2>5, <2>6, Rejoined
<1>5. CASE ~ Claimable(q)
  <2>1. job' = job /\ worker' = worker
    BY <1>5 DEF ClaimJobIfQueuedAndPolicyCurrent
  <2>2. WorkersOK
    BY <2>1 DEF IInv, TypeOK, WorkersOK
  <2>. QED BY <1>1, <1>2, <2>1, <2>2, JobsStay, Rejoined
<1>. QED BY <1>4, <1>5

-----------------------------------------------------------------------------
(* The rest of a job's life. *)

LEMMA ReleasedOK ==
    ASSUME IInv, NEW j \in Jobs
    PROVE  Released(j) \in [Workers -> Jobs \cup {NoJob}]
BY DEF IInv, TypeOK, Released

LEMMA RequestsJobOK ==
    ASSUME IInv, NEW r \in Requests, NEW j \in Jobs, RequestsJob(r, j)
    PROVE  IInv'
BY EvaluatingOK, OnlyGoes DEF RequestsJob

LEMMA FailJobRetryableOK ==
    ASSUME IInv, NEW r \in Requests, NEW j \in Jobs, FailJobRetryable(r, j)
    PROVE  IInv'
BY EvaluatingOK, OnlyGoes DEF FailJobRetryable

LEMMA WriteFacts ==
    ASSUME IInv, NEW r \in Requests, request[r].at = "write"
    PROVE  request[r].job \in Jobs
BY DEF IInv, RequestFits

LEMMA CreateOK ==
    ASSUME IInv, NEW r \in Requests, CreateJobWithOptions(r)
    PROVE  IInv'
<1>. DEFINE q == request[r]
<1>1. q.job \in Jobs /\ binding' = binding
  BY WriteFacts DEF CreateJobWithOptions
<1>2. RequestsOK
  BY IdleOK, GoesOK DEF CreateJobWithOptions
<1>3. JobsOK
  <2>1. CASE job' = job
    BY <1>1, <2>1, JobsStay
  <2>2. CASE job' # job
    <3>1. /\ job[q.job].status = "none"
          /\ job' = [job EXCEPT ![q.job].status = "queued",
                                ![q.job].eligibility = "allowed"]
      BY <2>2 DEF CreateJobWithOptions
    <3>2. job \in [Jobs -> JobRow] /\ job[q.job].attempt < MaxAttempts
      BY <1>1, <3>1 DEF IInv, TypeOK, WaitingJobsHaveAttempts, AttemptsLeft
    <3>3. job' \in [Jobs -> JobRow]
      BY <1>1, <3>1, <3>2 DEF JobRow
    <3>4. job'[q.job].eligibility = "allowed" /\ job'[q.job].attempt = job[q.job].attempt
      BY <1>1, <3>1, <3>2 DEF JobRow
    <3>5. \A k \in Jobs \ {q.job} : job'[k] = job[k]
      BY <1>1, <3>1, <3>2
    <3>. QED BY <1>1, <3>2, <3>3, <3>4, <3>5, JobChanges
  <2>. QED BY <2>1, <2>2
<1>4. WorkersOK
  BY DEF CreateJobWithOptions, IInv, TypeOK, WorkersOK
<1>. QED BY <1>1, <1>2, <1>3, <1>4, Rejoined

LEMMA RetryJobOK ==
    ASSUME IInv, NEW r \in Requests, RetryJob(r)
    PROVE  IInv'
<1>. DEFINE q == request[r]
            denied == DeniedBy(q.job, q.seen)
            status == IF AttemptsLeft(q.job) /\ ~ denied THEN "queued" ELSE "over"
            verdict == IF denied THEN "blocked" ELSE "allowed"
<1>1. q.job \in Jobs /\ binding' = binding
  BY WriteFacts DEF RetryJob
<1>2. RequestsOK
  BY IdleOK, GoesOK DEF RetryJob
<1>3. ASSUME job[q.job].status = "over" PROVE JobsOK /\ WorkersOK
  BY <1>1, <1>3, JobsStay DEF RetryJob, IInv, TypeOK, WorkersOK
<1>4. ASSUME job[q.job].status # "over" PROVE JobsOK /\ WorkersOK
  <2>1. /\ job' = [job EXCEPT ![q.job].status = status, ![q.job].eligibility = verdict]
        /\ worker' = Released(q.job)
    BY <1>4 DEF RetryJob
  <2>2. /\ status \in {"queued", "over"} /\ verdict \in {"allowed", "blocked"}
        /\ status = "queued" => AttemptsLeft(q.job) /\ verdict # "blocked"
    OBVIOUS
  <2>. HIDE DEF status, verdict
  <2>3. job \in [Jobs -> JobRow]
    BY DEF IInv, TypeOK
  <2>4. job' \in [Jobs -> JobRow]
    BY <1>1, <2>1, <2>2, <2>3 DEF JobRow
  <2>5. /\ job'[q.job].status = status /\ job'[q.job].eligibility = verdict
        /\ job'[q.job].attempt = job[q.job].attempt
    BY <1>1, <2>1, <2>3 DEF JobRow
  <2>6. \A k \in Jobs \ {q.job} : job'[k] = job[k]
    BY <1>1, <2>1, <2>3
  <2>7. JobsOK
    BY <1>1, <2>2, <2>4, <2>5, <2>6, JobChanges DEF AttemptsLeft
  <2>. QED BY <1>1, <2>1, <2>7, ReleasedOK DEF WorkersOK
<1>. QED BY <1>1, <1>2, <1>3, <1>4, Rejoined

LEMMA RecoverOK ==
    ASSUME IInv, NEW r \in Requests, NEW j \in Jobs, RecoverExpiredJobLeases(r, j)
    PROVE  IInv'
<1>1. binding' = binding /\ worker' = Released(j)
  BY DEF RecoverExpiredJobLeases
<1>2. RequestsOK
  BY <1>1, EvaluatingOK, IdleOK, GoesOK DEF RecoverExpiredJobLeases
<1>3. job \in [Jobs -> JobRow]
  BY DEF IInv, TypeOK
<1>4. /\ job' \in [Jobs -> JobRow]
      /\ \A k \in Jobs \ {j} : job'[k] = job[k]
  BY <1>3 DEF RecoverExpiredJobLeases, JobRow
<1>5. /\ job'[j].status = "queued" => AttemptsLeft(j) /\ job'[j].eligibility = "pending"
      /\ job'[j].status # "none" /\ job'[j].attempt = job[j].attempt
  BY <1>3 DEF RecoverExpiredJobLeases, JobRow
<1>6. JobsOK
  BY <1>1, <1>4, <1>5, JobChanges DEF AttemptsLeft
<1>. QED BY <1>1, <1>2, <1>6, ReleasedOK, Rejoined DEF WorkersOK

LEMMA FinishOK ==
    ASSUME IInv, NEW j \in Jobs, FinishJob(j)
    PROVE  IInv'
<1>1. binding' = binding /\ worker' = Released(j) /\ request' = request
  BY DEF FinishJob
<1>2. job \in [Jobs -> JobRow]
  BY DEF IInv, TypeOK
<1>3. /\ job' \in [Jobs -> JobRow]
      /\ \A k \in Jobs \ {j} : job'[k] = job[k]
      /\ job'[j].status = "over"
  BY <1>2 DEF FinishJob, JobRow
<1>4. JobsOK
  BY <1>1, <1>3, JobChanges
<1>5. request \in [Requests -> Requesting]
  BY DEF IInv, TypeOK, Requesting
<1>6. ASSUME NEW p \in Requests PROVE RequestFits(request[p])'
  <2>1. request[p] \in Requesting /\ RequestFits(request[p])
    BY <1>5 DEF IInv
  <2>. QED BY <1>1, <2>1, BindingsStay
         DEF RequestFits, SourcesCurrent, TriesLeft, Remembers, Sources, Source
<1>7. RequestsOK
  BY <1>1, <1>5, <1>6 DEF RequestsOK
<1>. QED BY <1>1, <1>4, <1>7, ReleasedOK, Rejoined DEF WorkersOK

-----------------------------------------------------------------------------
(* Edits. *)

LEMMA GetOK ==
    ASSUME IInv, NEW r \in Requests, NEW s \in Subjects, GetExperimentPolicy(r, s)
    PROVE  IInv'
<1>1. PICK expected \in {CurrentRevision(s), Unstated} :
          Goes(r, [at |-> "edit", subject |-> s, expected |-> expected, saw |-> Source(s)])
  BY DEF GetExperimentPolicy
<1>. DEFINE n == [at |-> "edit", subject |-> s, expected |-> expected, saw |-> Source(s)]
<1>2. binding[s] \in Binding /\ (binding[s].version # NoVersion => binding[s].revision > 0)
  BY DEF IInv, TypeOK, BindingsNumbered
<1>3. Source(s) \in Binding /\ expected \in 0..MaxRevision \cup {Unstated}
  BY <1>2, NoSourceTyped DEF Source, CurrentRevision, Binding
<1>4. n \in Requesting
  BY <1>3 DEF Requesting, Edit
<1>5. Remembers(n)
  BY <1>2 DEF Remembers, Source, NoSource, CurrentRevision, Binding
<1>6. RequestFits(n)
  BY <1>5 DEF RequestFits
<1>. QED BY <1>1, <1>4, <1>6, OnlyGoes DEF GetExperimentPolicy

\* A subject gets another binding: its queued jobs are pending, and no request
\* that holds its lock is misled.
LEMMA RebindsOK ==
    ASSUME IInv, NEW r \in Requests, request[r].at = "edit", NEW b \in Binding,
           Rebinds(r, b),
           b.version # NoVersion => b.revision > binding[request[r].subject].revision,
           b.revision >= binding[request[r].subject].revision
    PROVE  IInv'
<1>. DEFINE s == request[r].subject
<1>1. request \in [Requests -> Requesting] /\ binding \in [Subjects -> Binding]
      /\ job \in [Jobs -> JobRow]
  BY DEF IInv, TypeOK, Requesting
<1>2. s \in Subjects
  BY <1>1, Kinds DEF Edit
<1>3. /\ binding' = [binding EXCEPT ![s] = b] /\ job' = MarkedPolicyPending(s)
      /\ ~ Locked(s) /\ Goes(r, Idle) /\ worker' = worker
  BY DEF Rebinds
<1>. HIDE DEF s
<1>4. /\ binding' \in [Subjects -> Binding]
      /\ \A x \in Subjects : binding'[x] = IF x = s THEN b ELSE binding[x]
  BY <1>1, <1>2, <1>3
<1>5. BindingsNumbered'
  BY <1>1, <1>2, <1>4 DEF IInv, BindingsNumbered, Binding, s
<1>6. ASSUME NEW j \in Jobs, s \notin SubjectsOf[j]
      PROVE  Sources(j)' = Sources(j)
  <2>1. \A x \in SubjectsOf[j] : Source(x)' = Source(x)
    BY <1>4, <1>6 DEF Source
  <2>. QED BY <2>1 DEF Sources
<1>7. JobsOK
  <2>1. \A j \in Jobs : /\ job'[j] \in JobRow
                        /\ job'[j].status = job[j].status
                        /\ job'[j].attempt = job[j].attempt
    BY <1>1, <1>3 DEF MarkedPolicyPending, JobRow
  <2>2. job' \in [Jobs -> JobRow]
    BY <1>3, <2>1 DEF MarkedPolicyPending
  <2>3. WaitingJobsHaveAttempts'
    BY <2>1 DEF IInv, WaitingJobsHaveAttempts, AttemptsLeft
  <2>4. ASSUME NEW j \in Jobs, job'[j].status = "queued", job'[j].eligibility = "blocked"
        PROVE  ~ Permits(j)'
    <3>1. s \notin SubjectsOf[j] /\ job'[j] = job[j]
      BY <1>1, <1>3, <2>4 DEF MarkedPolicyPending, JobRow
    <3>2. ~ Permits(j)
      BY <2>4, <3>1 DEF IInv, BlockedIsDenied
    <3>. QED BY <1>6, <3>1, <3>2 DEF Permits, DeniedBy
  <2>. QED BY <2>2, <2>3, <2>4 DEF JobsOK, BlockedIsDenied
<1>8. RequestsOK
  <2>1. request' \in [Requests -> Requesting]
    BY <1>1, <1>3, IdleOK DEF Goes
  <2>2. ASSUME NEW p \in Requests
        PROVE  RequestFits(request[p])'
    <3>1. CASE p = r
      BY <1>1, <1>3, <3>1 DEF Goes, Idle, RequestFits
    <3>2. CASE p # r
      <4>. DEFINE q == request[p]
      <4>1. q \in Requesting /\ RequestFits(q) /\ request'[p] = q
        BY <1>1, <1>3, <3>2 DEF IInv, Goes
      <4>2. ASSUME q.at = "commit" PROVE Sources(q.job)' = Sources(q.job)
        BY <1>3, <1>6, <4>1, <4>2 DEF Locked, Heads, RequestFits
      <4>3. ASSUME q.at = "commit" PROVE SourcesCurrent(request[p])'
        BY <4>1, <4>2, <4>3 DEF RequestFits, SourcesCurrent
      <4>4. ASSUME q.at = "edit" PROVE Remembers(request[p])'
        <5>1. q \in Edit /\ Remembers(q)
          BY <4>1, <4>4, Kinds DEF RequestFits
        <5>2. q.subject \in Subjects /\ q.saw.revision \in Nat
          BY <5>1 DEF Edit, Binding
        <5>3. CASE q.subject = s
          <6>1. q.saw.revision <= b.revision
                /\ (b.version # NoVersion => q.saw.revision # b.revision)
            BY <1>1, <1>2, <5>1, <5>2, <5>3 DEF Remembers, Binding, s
          <6>. QED BY <1>4, <4>1, <5>1, <5>2, <5>3, <6>1 DEF Remembers
        <5>4. CASE q.subject # s
          BY <1>4, <4>1, <5>1, <5>2, <5>4 DEF Remembers
        <5>. QED BY <5>3, <5>4
      <4>. QED BY <4>1, <4>3, <4>4 DEF RequestFits, TriesLeft
    <3>. QED BY <3>1, <3>2
  <2>. QED BY <2>1, <2>2 DEF RequestsOK
<1>9. WorkersOK
  BY <1>3 DEF IInv, TypeOK, WorkersOK
<1>. QED BY <1>4, <1>5, <1>7, <1>8, <1>9
       DEF IInv, TypeOK, JobsOK, WorkersOK, RequestsOK, Requesting

\* An edit that states a revision finds the binding it was shown.
LEMMA StatedRevision ==
    ASSUME IInv, NEW r \in Requests, request[r].at = "edit",
           request[r].expected # Unstated,
           request[r].expected = CurrentRevision(request[r].subject)
    PROVE  Source(request[r].subject) = request[r].saw
<1>. DEFINE q == request[r]
<1>1. q \in Requesting /\ Remembers(q)
  BY DEF IInv, TypeOK, Requesting, RequestFits
<1>2. q.subject \in Subjects
  BY <1>1, Kinds DEF Edit
<1>. QED BY <1>1, <1>2 DEF Remembers, CurrentRevision, Source, NoSource

LEMMA SetBindingOK ==
    ASSUME IInv, NEW r \in Requests, NEW v \in Versions, SetExperimentPolicyBinding(r, v)
    PROVE  IInv'
<1>. DEFINE s == request[r].subject
            b == [revision |-> NextRevision(s), version |-> v]
<1>1. request[r] \in Requesting /\ request[r].at = "edit"
  BY DEF IInv, TypeOK, Requesting, SetExperimentPolicyBinding
<1>2. s \in Subjects /\ binding[s] \in Binding
  BY <1>1, Kinds DEF Edit, IInv, TypeOK
<1>3. b \in Binding /\ b.revision > binding[s].revision
  BY <1>2 DEF SetExperimentPolicyBinding, NextRevision, Binding
<1>. QED BY <1>1, <1>2, <1>3, RebindsOK DEF SetExperimentPolicyBinding, Binding

LEMMA ClearBindingOK ==
    ASSUME IInv, NEW r \in Requests, ClearExperimentPolicyBinding(r)
    PROVE  IInv'
<1>. DEFINE s == request[r].subject
            b == [revision |-> binding[s].revision, version |-> NoVersion]
<1>1. request[r] \in Requesting /\ request[r].at = "edit"
  BY DEF IInv, TypeOK, Requesting, ClearExperimentPolicyBinding
<1>2. s \in Subjects /\ binding[s] \in Binding
  BY <1>1, Kinds DEF Edit, IInv, TypeOK
<1>3. b \in Binding /\ b.revision >= binding[s].revision /\ b.version = NoVersion
  BY <1>2 DEF Binding
<1>. QED BY <1>1, <1>3, RebindsOK DEF ClearExperimentPolicyBinding

LEMMA RestartOK ==
    ASSUME IInv, OrchestratorRestarts
    PROVE  IInv'
<1>1. binding' = binding /\ JobsOK /\ WorkersOK
  BY JobsStay DEF OrchestratorRestarts, IInv, TypeOK, WorkersOK
<1>2. RequestsOK
  BY IdleOK DEF OrchestratorRestarts, RequestsOK, RequestFits, Idle
<1>. QED BY <1>1, <1>2, Rejoined

-----------------------------------------------------------------------------
LEMMA InitOK ==
    ASSUME Init
    PROVE  IInv
<1>1. TypeOK
  BY NoSourceTyped DEF Init, TypeOK, NoJobRow, JobRow
<1>2. BindingsNumbered /\ WaitingJobsHaveAttempts /\ BlockedIsDenied
  BY DEF Init, BindingsNumbered, WaitingJobsHaveAttempts, BlockedIsDenied, AttemptsLeft,
         NoJobRow, NoSource
<1>3. \A r \in Requests : RequestFits(request[r])
  BY IdleOK DEF Init
<1>. QED BY <1>1, <1>2, <1>3 DEF IInv

LEMMA ContinuesOK ==
    ASSUME IInv, NEW r \in Requests, Continues(r)
    PROVE  IInv'
<1>1. CASE EditEnds(r)
  BY <1>1, IdleOK, OnlyGoes DEF EditEnds
<1>. QED BY <1>1, EvaluateOK, ValidateOK, ListOK, NextCandidateOK, BatchEndsOK, ApplyOK,
            ClaimOK, CreateOK, RetryJobOK, SetBindingOK, ClearBindingOK
         DEF Continues, Edits

LEMMA NextOK ==
    ASSUME IInv, Next
    PROVE  IInv'
BY PollJobOK, RequestsJobOK, FailJobRetryableOK, RecoverOK, GetOK, ContinuesOK, FinishOK,
   RestartOK
DEF Next, Step, JobEnds, CancelJob

LEMMA Invariance == Spec => []IInv
<1>1. Init => IInv
  BY InitOK
<1>2. IInv /\ [Next]_vars => IInv'
  <2>1. ASSUME IInv, UNCHANGED vars PROVE IInv'
    <3>1. /\ binding' = binding /\ job' = job /\ worker' = worker /\ request' = request
      BY <2>1 DEF vars
    <3>. QED BY <2>1, <3>1
           DEF IInv, TypeOK, BindingsNumbered, WaitingJobsHaveAttempts, AttemptsLeft,
               BlockedIsDenied, Permits, DeniedBy, Sources, Source, RequestFits, TriesLeft,
               SourcesCurrent, Remembers
  <2>. QED BY <2>1, NextOK
<1>. QED BY <1>1, <1>2, PTL DEF Spec

-----------------------------------------------------------------------------
(* The theorems. *)

\* Rows and requests keep their types: revisions, attempts and tries stay
\* within their bounds (api/workers.go, pollNextPolicyPermittedJob).
THEOREM TypeCorrect == Spec => []TypeOK
<1>1. IInv => TypeOK
  BY DEF IInv
<1>. QED BY <1>1, Invariance, PTL

\* A blocked job is denied by the policies in force, whatever edits, polls and
\* requeues came in between (store/policy_dispatch.go).
THEOREM BlockedAreDenied == Spec => []BlockedIsDenied
<1>1. IInv => BlockedIsDenied
  BY DEF IInv
<1>. QED BY <1>1, Invariance, PTL

Starts(j) == job[j].status = "queued" /\ job'[j].status = "active"

\* Only a claim starts a job: no other step makes a queued job active.
LEMMA OnlyClaimsStart ==
    ASSUME IInv, Next, NEW j \in Jobs, Starts(j)
    PROVE  \E r \in Requests : ClaimJobIfQueuedAndPolicyCurrent(r)
<1>1. job \in [Jobs -> JobRow]
  BY DEF IInv, TypeOK
<1>2. job' # job
  BY DEF Starts
<1>3. ASSUME NEW r \in Requests, ApplyQueuedJobPolicyEvaluation(r) PROVE FALSE
  BY <1>1, <1>3 DEF ApplyQueuedJobPolicyEvaluation, Starts, JobRow
<1>4. ASSUME NEW r \in Requests, CreateJobWithOptions(r) PROVE FALSE
  BY <1>1, <1>4 DEF CreateJobWithOptions, Starts, JobRow
<1>5. ASSUME NEW r \in Requests, RetryJob(r) PROVE FALSE
  BY <1>1, <1>5 DEF RetryJob, Starts, JobRow
<1>6. ASSUME NEW r \in Requests, NEW k \in Jobs, RecoverExpiredJobLeases(r, k) PROVE FALSE
  BY <1>1, <1>6 DEF RecoverExpiredJobLeases, Starts, JobRow
<1>7. ASSUME NEW k \in Jobs, FinishJob(k) PROVE FALSE
  BY <1>1, <1>7 DEF FinishJob, Starts, JobRow
<1>8. ASSUME NEW r \in Requests, NEW b, Rebinds(r, b) PROVE FALSE
  BY <1>1, <1>8 DEF Rebinds, MarkedPolicyPending, Starts, JobRow
<1>9. ASSUME NEW r \in Requests, Continues(r)
      PROVE  ClaimJobIfQueuedAndPolicyCurrent(r)
  BY <1>2, <1>3, <1>4, <1>5, <1>8, <1>9
  DEF Continues, Evaluate, LockAndValidatePolicySources, ListQueuedJobsForWorker,
      NextCandidate, BatchEnds, Edits, SetExperimentPolicyBinding,
      ClearExperimentPolicyBinding, EditEnds
<1>. QED BY <1>2, <1>6, <1>7, <1>9
     DEF Next, Step, PollJob, RequestsJob, FailJobRetryable, GetExperimentPolicy,
         JobEnds, CancelJob, OrchestratorRestarts

\* A job starts only if the policies in force at that moment permit it: the
\* locks taken by a claim hold off every edit until the job is assigned
\* (store/policy_dispatch.go, ClaimJobIfQueuedAndPolicyCurrent).
THEOREM ClaimsArePermitted == Spec => ClaimPermitted
<1>1. IInv /\ [Next]_vars
        => [\A j \in Jobs : (job[j].status = "queued" /\ job'[j].status = "active")
                               => Permits(j)]_vars
  <2>1. ASSUME IInv, Next, NEW j \in Jobs, Starts(j) PROVE Permits(j)
    BY <2>1, OnlyClaimsStart, ClaimOK DEF Starts
  <2>. QED BY <2>1 DEF Starts
<1>. QED BY <1>1, Invariance, PTL DEF Spec, ClaimPermitted

\* The step of an edit: it replaces what its author saw.
Replaces(r) ==
    (/\ request[r].at = "edit" /\ request'[r] # request[r]
     /\ request[r].expected # Unstated
     /\ binding'[request[r].subject] # binding[request[r].subject])
       => Source(request[r].subject) = request[r].saw

LEMMA EditsReplace ==
    ASSUME IInv, Next, NEW r \in Requests
    PROVE  Replaces(r)
<1>1. request \in [Requests -> Requesting]
  BY DEF IInv, TypeOK, Requesting
<1>2. SUFFICES ASSUME binding' # binding, request'[r] # request[r],
                      request[r].at = "edit", request[r].expected # Unstated
               PROVE  Source(request[r].subject) = request[r].saw
  BY DEF Replaces
<1>3. PICK p \in Requests :
          \/ \E v \in Versions : SetExperimentPolicyBinding(p, v)
          \/ ClearExperimentPolicyBinding(p)
  BY <1>2 DEF Next, Step, Continues, Edits, PollJob, RequestsJob, FailJobRetryable,
              RecoverExpiredJobLeases, GetExperimentPolicy, JobEnds, CancelJob, FinishJob,
              OrchestratorRestarts, Evaluate, LockAndValidatePolicySources,
              ListQueuedJobsForWorker, NextCandidate, BatchEnds, EditEnds,
              ApplyQueuedJobPolicyEvaluation, ClaimJobIfQueuedAndPolicyCurrent,
              CreateJobWithOptions, RetryJob
<1>4. p = r
  BY <1>1, <1>2, <1>3 DEF SetExperimentPolicyBinding, ClearExperimentPolicyBinding,
                          Rebinds, Goes
<1>5. request[r].expected = CurrentRevision(request[r].subject)
  BY <1>2, <1>3, <1>4 DEF SetExperimentPolicyBinding, ClearExperimentPolicyBinding
<1>. QED BY <1>2, <1>5, StatedRevision

\* An edit that states a revision replaces the binding its author was shown,
\* through any number of edits and clearings by others
\* (store/postgres_policies.go, SetExperimentPolicyBinding).
THEOREM EditsReplaceWhatTheySaw == Spec => EditReplacesWhatItSaw
<1>1. IInv /\ [Next]_vars
        => [\A r \in Requests :
              (/\ request[r].at = "edit" /\ request'[r] # request[r]
               /\ request[r].expected # Unstated
               /\ binding'[request[r].subject] # binding[request[r].subject])
                 => Source(request[r].subject) = request[r].saw]_vars
  BY EditsReplace DEF Replaces
<1>. QED BY <1>1, Invariance, PTL DEF Spec, EditReplacesWhatItSaw
-----------------------------------------------------------------------------
(* The queue that the jobs' submitters see.  Of a row it shows the status, *)
(* the attempt counter and the worker; three kinds of steps change these:  *)
(* a creation, a claim, and whatever takes one job from its worker.        *)

\* A job that runs has a worker, and a worker has one job.
Assigned ==
    /\ \A w \in Workers : worker[w] \in Jobs => job[worker[w]].status = "active"
    /\ \A j \in Jobs : job[j].status = "active" => \E w \in Workers : worker[w] = j
    /\ \A v, w \in Workers : (worker[v] = worker[w] /\ worker[v] \in Jobs) => v = w

\* A retry, however late, is of a job that was created.
RetriesCreated(q) ==
    (q.at \in {"evaluate", "write"} /\ q.op = "retry") => job[q.job].status # "none"

QInv ==
    /\ IInv
    /\ Assigned
    /\ \A r \in Requests : RetriesCreated(request[r])

LEMMA JobNumbers == NoJob \notin Jobs
BY DEF NoJob, Jobs

LEMMA HolderIs ==
    ASSUME Assigned, NEW j \in Jobs
    PROVE  /\ \A w \in Workers : worker[w] = j => Holder(j) = w
           /\ (\A w \in Workers : worker[w] # j) => Holder(j) = NoWorker
           /\ Holder(j) # NoWorker => Holder(j) \in Workers /\ worker[Holder(j)] = j
<1>1. ASSUME NEW w \in Workers, worker[w] = j PROVE Holder(j) = w /\ w # NoWorker
  <2>1. \A v \in Workers : worker[v] = j => v = w
    BY <1>1 DEF Assigned
  <2>. QED BY <1>1, <2>1 DEF Holder
<1>2. (\A w \in Workers : worker[w] # j) => Holder(j) = NoWorker
  BY DEF Holder
<1>. QED BY <1>1, <1>2

LEMMA PhaseIs ==
    ASSUME NEW j \in Jobs, job[j] \in JobRow
    PROVE  /\ Phase(j) = "absent" <=> job[j].status = "none"
           /\ Phase(j) = "waiting" <=> job[j].status = "queued"
           /\ Phase(j) = "held" <=> job[j].status = "active"
           /\ Phase(j) = "done" <=> job[j].status = "over"
<1>1. job[j].status \in {"none", "queued", "active", "over"}
  BY DEF JobRow
<1>2. /\ job[j].status = "none" => Phase(j) = "absent"
      /\ job[j].status = "queued" => Phase(j) = "waiting"
      /\ job[j].status = "active" => Phase(j) = "held"
      /\ job[j].status = "over" => Phase(j) = "done"
  BY DEF Phase
<1>. QED BY <1>1, <1>2

\* A row the queue sees no change in.
SameRow(j) == job'[j].status = job[j].status /\ job'[j].attempt = job[j].attempt

LEMMA PhaseSame ==
    ASSUME NEW j \in Jobs, SameRow(j)
    PROVE  Phase(j)' = Phase(j)
BY DEF Phase, SameRow

LEMMA Stutters ==
    ASSUME QInv, worker' = worker, \A j \in Jobs : SameRow(j)
    PROVE  Assigned' /\ UNCHANGED Queue!vars
<1>1. Assigned'
  BY DEF QInv, Assigned, SameRow
<1>2. \A j \in Jobs : Phase(j)' = Phase(j) /\ Holder(j)' = Holder(j)
  BY PhaseSame DEF Holder
<1>. QED BY <1>1, <1>2 DEF Queue!vars, SameRow

\* Nothing is given and nobody else's job is touched.
Others(j) == \A k \in Jobs \ {j} : SameRow(k)

LEMMA CreationSubmits ==
    ASSUME QInv, IInv', NEW j \in Jobs, worker' = worker, Others(j),
           job[j].status = "none", job'[j].status = "queued",
           job'[j].attempt = job[j].attempt
    PROVE  Assigned' /\ Queue!Next
<1>1. Assigned'
  BY DEF QInv, Assigned, SameRow, Others
<1>2. job[j] \in JobRow /\ job'[j] \in JobRow
  BY DEF QInv, IInv, TypeOK
<1>3. Phase(j) = "absent" /\ Phase(j)' = "waiting"
  BY <1>2, PhaseIs DEF Phase
<1>4. /\ \A k \in Jobs \ {j} : Phase(k)' = Phase(k)
      /\ \A k \in Jobs : Holder(k)' = Holder(k) /\ job'[k].attempt = job[k].attempt
  BY PhaseSame DEF Holder, Others, SameRow
<1>5. Queue!Submit(j)
  BY <1>3, <1>4 DEF Queue!Submit
<1>. QED BY <1>1, <1>5 DEF Queue!Next

LEMMA ClaimGrants ==
    ASSUME QInv, IInv', NEW j \in Jobs, NEW w \in Workers, Others(j),
           worker[w] = NoJob, worker' = [worker EXCEPT ![w] = j],
           job[j].status = "queued", job'[j].status = "active",
           job'[j].attempt = job[j].attempt + 1
    PROVE  Assigned' /\ Queue!Next
<1>1. /\ worker \in [Workers -> Jobs \cup {NoJob}]
      /\ job[j] \in JobRow /\ job'[j] \in JobRow /\ job[j].attempt < MaxAttempts
  BY DEF QInv, IInv, TypeOK, WaitingJobsHaveAttempts, AttemptsLeft
<1>2. /\ worker'[w] = j
      /\ \A v \in Workers \ {w} : worker'[v] = worker[v] /\ worker[v] # j
  BY <1>1 DEF QInv, Assigned
<1>3. Assigned'
  <2>1. \A v \in Workers : worker'[v] \in Jobs => job'[worker'[v]].status = "active"
    BY <1>2 DEF QInv, Assigned, Others, SameRow
  <2>2. \A k \in Jobs : job'[k].status = "active" => \E v \in Workers : worker'[v] = k
    BY <1>2, JobNumbers DEF QInv, Assigned, Others, SameRow
  <2>3. \A u, v \in Workers : (worker'[u] = worker'[v] /\ worker'[u] \in Jobs) => u = v
    BY <1>2 DEF QInv, Assigned
  <2>. QED BY <2>1, <2>2, <2>3 DEF Assigned
<1>4. Phase(j) = "waiting" /\ Phase(j)' = "held"
  BY <1>1, PhaseIs DEF Phase
<1>5. Holder(j)' = w
  BY <1>2, <1>3, HolderIs DEF Holder, Assigned
<1>6. ASSUME NEW k \in Jobs \ {j}
      PROVE  /\ Phase(k)' = Phase(k) /\ job'[k].attempt = job[k].attempt
             /\ Holder(k)' = Holder(k) /\ Holder(k) # w
  <2>1. \A v \in Workers : worker'[v] = k <=> worker[v] = k
    BY <1>2, JobNumbers
  <2>2. Holder(k)' = Holder(k)
    BY <2>1 DEF Holder
  <2>3. Holder(k) # w
    BY HolderIs, JobNumbers DEF QInv
  <2>. QED BY <2>2, <2>3, PhaseSame DEF Others, SameRow
<1>7. Holder(j) # w
  BY HolderIs, JobNumbers DEF QInv
<1>8. Queue!Grant(j, w)
  BY <1>1, <1>4, <1>5, <1>6, <1>7 DEF Queue!Grant, Queue!Held
<1>. QED BY <1>3, <1>8 DEF Queue!Next

\* One job leaves its worker, if it has one, and waits again or is over.
LEMMA TakingReleases ==
    ASSUME QInv, IInv', NEW j \in Jobs, Others(j), worker' = Released(j),
           job[j].status \in {"queued", "active"},
           \/ job'[j].status = "over"
           \/ job'[j].status = "queued" /\ AttemptsLeft(j),
           job'[j].attempt = job[j].attempt
    PROVE  Assigned' /\ [Queue!Next]_(Queue!vars)
<1>1. /\ worker \in [Workers -> Jobs \cup {NoJob}]
      /\ job[j] \in JobRow /\ job'[j] \in JobRow
  BY DEF QInv, IInv, TypeOK
<1>2. \A v \in Workers : worker'[v] = IF worker[v] = j THEN NoJob ELSE worker[v]
  BY DEF Released
<1>3. Assigned'
  <2>1. \A v \in Workers : worker'[v] \in Jobs => job'[worker'[v]].status = "active"
    BY <1>2, JobNumbers DEF QInv, Assigned, Others, SameRow
  <2>2. \A k \in Jobs : job'[k].status = "active" => \E v \in Workers : worker'[v] = k
    BY <1>2 DEF QInv, Assigned, Others, SameRow
  <2>3. \A u, v \in Workers : (worker'[u] = worker'[v] /\ worker'[u] \in Jobs) => u = v
    BY <1>2, JobNumbers DEF QInv, Assigned
  <2>. QED BY <2>1, <2>2, <2>3 DEF Assigned
<1>4. Holder(j)' = NoWorker
  BY <1>2, JobNumbers DEF Holder
<1>5. ASSUME NEW k \in Jobs \ {j}
      PROVE  /\ Phase(k)' = Phase(k) /\ job'[k].attempt = job[k].attempt
             /\ Holder(k)' = Holder(k)
  <2>1. \A v \in Workers : worker'[v] = k <=> worker[v] = k
    BY <1>2, JobNumbers
  <2>. QED BY <2>1, PhaseSame DEF Holder, Others, SameRow
<1>6. CASE job[j].status = "queued" /\ job'[j].status = "queued"
  <2>1. Holder(j) = NoWorker
    BY <1>6, HolderIs DEF QInv, Assigned
  <2>2. Phase(j)' = Phase(j)
    BY <1>6, PhaseSame DEF SameRow
  <2>3. UNCHANGED Queue!vars
    BY <1>4, <1>5, <2>1, <2>2 DEF Queue!vars
  <2>. QED BY <1>3, <2>3
<1>7. CASE job[j].status = "active" /\ job'[j].status = "queued"
  <2>1. Phase(j) = "held" /\ Phase(j)' = "waiting"
    BY <1>1, <1>7, PhaseIs DEF Phase
  <2>2. Queue!Release({j}, {})
    BY <1>4, <1>5, <1>7, <2>1 DEF Queue!Release, AttemptsLeft
  <2>. QED BY <1>3, <2>2 DEF Queue!Next
<1>8. CASE job'[j].status = "over"
  <2>1. Phase(j) \in {"waiting", "held"} /\ Phase(j)' = "done"
    BY <1>1, <1>8, PhaseIs DEF Phase
  <2>2. Queue!Release({}, {j})
    BY <1>4, <1>5, <2>1 DEF Queue!Release
  <2>. QED BY <1>3, <2>2 DEF Queue!Next
<1>. QED BY <1>6, <1>7, <1>8

LEMMA RowChanges ==
    ASSUME IInv, NEW j \in Jobs, NEW s \in {"none", "queued", "active", "over"},
           NEW e \in {"pending", "allowed", "blocked"},
           job' = [job EXCEPT ![j].status = s, ![j].eligibility = e]
    PROVE  /\ Others(j)
           /\ job'[j].status = s /\ job'[j].attempt = job[j].attempt
BY DEF IInv, TypeOK, JobRow, Others, SameRow

Refines == Assigned' /\ [Queue!Next]_(Queue!vars)

LEMMA CreateRefines ==
    ASSUME QInv, IInv', NEW r \in Requests, CreateJobWithOptions(r)
    PROVE  Refines
<1>1. request[r].job \in Jobs /\ worker' = worker
  BY WriteFacts DEF CreateJobWithOptions, QInv
<1>2. CASE job' = job
  BY <1>1, <1>2, Stutters DEF SameRow, Refines
<1>3. CASE job' # job
  <2>. DEFINE j == request[r].job
  <2>1. job[j].status = "none"
        /\ job' = [job EXCEPT ![j].status = "queued", ![j].eligibility = "allowed"]
    BY <1>3 DEF CreateJobWithOptions
  <2>. QED BY <1>1, <2>1, RowChanges, CreationSubmits DEF QInv, Refines
<1>. QED BY <1>2, <1>3

LEMMA ClaimRefines ==
    ASSUME QInv, IInv', NEW r \in Requests, ClaimJobIfQueuedAndPolicyCurrent(r)
    PROVE  Refines
<1>. DEFINE j == request[r].job
            w == request[r].worker
<1>1. request[r].at = "commit" /\ request[r].op = "dispatch"
  BY DEF ClaimJobIfQueuedAndPolicyCurrent
<1>2. j \in Jobs /\ w \in Workers /\ job \in [Jobs -> JobRow]
  BY <1>1, CommitFacts DEF QInv, IInv, TypeOK
<1>3. CASE ~ Claimable(request[r])
  BY <1>3, Stutters DEF ClaimJobIfQueuedAndPolicyCurrent, SameRow, Refines
<1>4. CASE Claimable(request[r])
  <2>1. /\ worker[w] = NoJob /\ worker' = [worker EXCEPT ![w] = j]
        /\ job[j].status = "queued"
        /\ job' = [job EXCEPT ![j] = [status |-> "active", eligibility |-> "allowed",
                                      attempt |-> job[j].attempt + 1]]
    BY <1>4 DEF ClaimJobIfQueuedAndPolicyCurrent, Claimable, Candidates
  <2>2. /\ Others(j) /\ job'[j].status = "active"
        /\ job'[j].attempt = job[j].attempt + 1
    BY <1>2, <2>1 DEF Others, SameRow
  <2>. QED BY <1>2, <2>1, <2>2, ClaimGrants DEF Refines
<1>. QED BY <1>3, <1>4

LEMMA RetryRefines ==
    ASSUME QInv, IInv', NEW r \in Requests, RetryJob(r)
    PROVE  Refines
<1>. DEFINE j == request[r].job
            denied == DeniedBy(j, request[r].seen)
            s == IF AttemptsLeft(j) /\ ~ denied THEN "queued" ELSE "over"
            e == IF denied THEN "blocked" ELSE "allowed"
<1>1. j \in Jobs /\ job[j].status # "none" /\ job \in [Jobs -> JobRow]
  BY WriteFacts DEF RetryJob, QInv, RetriesCreated, IInv, TypeOK
<1>2. CASE job[j].status = "over"
  BY <1>2, Stutters DEF RetryJob, SameRow, Refines
<1>3. CASE job[j].status # "over"
  <2>1. job' = [job EXCEPT ![j].status = s, ![j].eligibility = e] /\ worker' = Released(j)
    BY <1>3 DEF RetryJob
  <2>2. s \in {"queued", "over"} /\ (s = "queued" => AttemptsLeft(j))
    OBVIOUS
  <2>3. job[j].status \in {"queued", "active"}
    BY <1>1, <1>3 DEF JobRow
  <2>4. Others(j) /\ job'[j].status = s /\ job'[j].attempt = job[j].attempt
    <3>1. s \in {"none", "queued", "active", "over"} /\ e \in {"pending", "allowed", "blocked"}
      OBVIOUS
    <3>. HIDE DEF s, e, j
    <3>. QED BY <1>1, <2>1, <3>1, RowChanges DEF QInv
  <2>. HIDE DEF s, e, j
  <2>. QED BY <1>1, <2>1, <2>2, <2>3, <2>4, TakingReleases DEF Refines
<1>. QED BY <1>2, <1>3

LEMMA RecoverRefines ==
    ASSUME QInv, IInv', NEW r \in Requests, NEW j \in Jobs, RecoverExpiredJobLeases(r, j)
    PROVE  Refines
<1>1. worker' = Released(j) /\ job[j].status = "active" /\ job \in [Jobs -> JobRow]
  BY DEF RecoverExpiredJobLeases, QInv, IInv, TypeOK
<1>2. \A k \in Jobs \ {j} : job'[k] = job[k]
  BY <1>1 DEF RecoverExpiredJobLeases
<1>3. /\ job'[j].attempt = job[j].attempt
      /\ job'[j].status = IF AttemptsLeft(j) THEN "queued" ELSE "over"
  BY <1>1 DEF RecoverExpiredJobLeases, JobRow
<1>. QED BY <1>1, <1>2, <1>3, TakingReleases DEF Refines, Others, SameRow

LEMMA FinishRefines ==
    ASSUME QInv, IInv', NEW j \in Jobs, FinishJob(j),
           job[j].status \in {"queued", "active"}
    PROVE  Refines
<1>1. worker' = Released(j) /\ job \in [Jobs -> JobRow]
  BY DEF FinishJob, QInv, IInv, TypeOK
<1>2. /\ Others(j) /\ job'[j].attempt = job[j].attempt
      /\ job'[j].status = "over"
  BY <1>1 DEF FinishJob, Others, SameRow, JobRow
<1>. QED BY <1>1, <1>2, TakingReleases DEF Refines

\* Verdicts change neither status, worker nor attempt.
LEMMA VerdictRefines ==
    ASSUME QInv, NEW r \in Requests,
           \/ ApplyQueuedJobPolicyEvaluation(r)
           \/ \E b \in Binding : Rebinds(r, b)
    PROVE  Refines
<1>1. worker' = worker /\ job \in [Jobs -> JobRow]
  BY DEF ApplyQueuedJobPolicyEvaluation, Rebinds, QInv, IInv, TypeOK
<1>2. \A j \in Jobs : SameRow(j)
  BY <1>1 DEF ApplyQueuedJobPolicyEvaluation, Rebinds, MarkedPolicyPending, SameRow, JobRow
<1>. QED BY <1>1, <1>2, Stutters DEF Refines

LEMMA BindingsWritten ==
    ASSUME IInv, NEW r \in Requests, request[r].at = "edit"
    PROVE  /\ \A v \in Versions : SetExperimentPolicyBinding(r, v) => \E b \in Binding : Rebinds(r, b)
           /\ ClearExperimentPolicyBinding(r) => \E b \in Binding : Rebinds(r, b)
<1>. DEFINE s == request[r].subject
<1>1. request[r] \in Edit
  BY Kinds DEF IInv, TypeOK, Requesting
<1>2. s \in Subjects /\ binding[s] \in Binding
  BY <1>1 DEF Edit, IInv, TypeOK
<1>3. ASSUME NEW v \in Versions, SetExperimentPolicyBinding(r, v)
      PROVE  [revision |-> NextRevision(s), version |-> v] \in Binding
  BY <1>2, <1>3 DEF SetExperimentPolicyBinding, Binding, NextRevision
<1>4. [revision |-> binding[s].revision, version |-> NoVersion] \in Binding
  BY <1>2 DEF Binding
<1>. QED BY <1>3, <1>4 DEF SetExperimentPolicyBinding, ClearExperimentPolicyBinding

LEMMA StepRefines ==
    ASSUME QInv, IInv', [Next]_vars
    PROVE  Refines
<1>1. CASE UNCHANGED <<job, worker>>
  BY <1>1, Stutters DEF SameRow, Refines
<1>2. ASSUME NEW r \in Requests, Edits(r) \/ ClearExperimentPolicyBinding(r)
      PROVE  Refines
  <2>1. request[r].at = "edit"
    BY <1>2 DEF Edits, SetExperimentPolicyBinding, ClearExperimentPolicyBinding
  <2>2. \E b \in Binding : Rebinds(r, b)
    BY <1>2, <2>1, BindingsWritten DEF Edits, QInv
  <2>. QED BY <2>2, VerdictRefines
<1>3. ASSUME NEW r \in Requests, Continues(r)
      PROVE  Refines
  BY <1>1, <1>2, <1>3, VerdictRefines, ClaimRefines, CreateRefines, RetryRefines
  DEF Continues, Evaluate, LockAndValidatePolicySources, ListQueuedJobsForWorker,
      NextCandidate, BatchEnds, EditEnds
<1>4. ASSUME NEW j \in Jobs, JobEnds(j) \/ CancelJob(j)
      PROVE  Refines
  BY <1>4, FinishRefines DEF JobEnds, CancelJob
<1>. QED BY <1>1, <1>3, <1>4, RecoverRefines
     DEF Next, Step, PollJob, RequestsJob, FailJobRetryable, GetExperimentPolicy,
         OrchestratorRestarts, vars

\* No job is uncreated, and who asks for a retry asks for one of a running job.
LEMMA RetriesStayCreated ==
    ASSUME QInv, IInv', [Next]_vars, NEW r \in Requests
    PROVE  RetriesCreated(request[r])'
<1>1. SUFFICES ASSUME request'[r].at \in {"evaluate", "write"}, request'[r].op = "retry"
               PROVE  job'[request'[r].job].status # "none"
  BY DEF RetriesCreated
<1>2. request \in [Requests -> Requesting] /\ job \in [Jobs -> JobRow]
  BY DEF QInv, IInv, TypeOK, Requesting
<1>3. request'[r].job \in Jobs
  BY <1>1 DEF IInv, RequestFits
<1>4. ASSUME NEW j \in Jobs, job[j].status # "none" PROVE job'[j].status # "none"
  <2>1. ASSUME NEW p \in Requests, ApplyQueuedJobPolicyEvaluation(p)
        PROVE  job'[j].status # "none"
    BY <1>2, <1>4, <2>1 DEF ApplyQueuedJobPolicyEvaluation, JobRow
  <2>2. ASSUME NEW p \in Requests, ClaimJobIfQueuedAndPolicyCurrent(p)
        PROVE  job'[j].status # "none"
    <3>1. request[p].job \in Jobs
      BY <2>2, CommitFacts DEF ClaimJobIfQueuedAndPolicyCurrent, QInv
    <3>2. \/ job' = job
          \/ job' = [job EXCEPT ![request[p].job] =
                       [status |-> "active", eligibility |-> "allowed",
                        attempt |-> job[request[p].job].attempt + 1]]
      BY <2>2 DEF ClaimJobIfQueuedAndPolicyCurrent
    <3>. QED BY <1>2, <1>4, <3>1, <3>2
  <2>3. ASSUME NEW p \in Requests, CreateJobWithOptions(p) \/ RetryJob(p)
        PROVE  job'[j].status # "none"
    BY <1>2, <1>4, <2>3 DEF CreateJobWithOptions, RetryJob, JobRow
  <2>4. ASSUME NEW p \in Requests, NEW b, Rebinds(p, b) PROVE job'[j].status # "none"
    BY <1>2, <1>4, <2>4 DEF Rebinds, MarkedPolicyPending, JobRow
  <2>5. ASSUME NEW p \in Requests, NEW k \in Jobs, RecoverExpiredJobLeases(p, k)
        PROVE  job'[j].status # "none"
    BY <1>2, <1>4, <2>5 DEF RecoverExpiredJobLeases, JobRow
  <2>6. ASSUME NEW k \in Jobs, FinishJob(k) PROVE job'[j].status # "none"
    BY <1>2, <1>4, <2>6 DEF FinishJob, JobRow
  <2>7. ASSUME NEW p \in Requests, Continues(p) PROVE job'[j].status # "none"
    BY <1>4, <2>1, <2>2, <2>3, <2>4, <2>7
    DEF Continues, Evaluate, LockAndValidatePolicySources, ListQueuedJobsForWorker,
        NextCandidate, BatchEnds, Edits, SetExperimentPolicyBinding,
        ClearExperimentPolicyBinding, EditEnds
  <2>. QED BY <1>4, <2>5, <2>6, <2>7
       DEF Next, Step, PollJob, RequestsJob, FailJobRetryable, GetExperimentPolicy,
           JobEnds, CancelJob, OrchestratorRestarts, vars
<1>5. CASE request'[r] = request[r]
  BY <1>1, <1>3, <1>4, <1>5 DEF QInv, RetriesCreated
<1>6. CASE request'[r] # request[r]
  <2>1. \/ \E j \in Jobs : FailJobRetryable(r, j) /\ request'[r].job = j
        \/ Evaluate(r) /\ request[r].op = "retry" /\ request'[r].job = request[r].job
    <3>1. ASSUME NEW p \in Requests, NEW q, Goes(p, q)
          PROVE  p = r /\ request'[r] = q
      BY <1>2, <1>6, <3>1 DEF Goes
    <3>2. request[r] \in Requesting
      BY <1>2
    <3>3. ASSUME NEW p \in Requests, NEW w \in Workers, PollJob(p, w) PROVE FALSE
      BY <1>1, <3>1, <3>3 DEF PollJob
    <3>4. ASSUME NEW p \in Requests, NEW j \in Jobs,
                 RequestsJob(p, j) \/ RecoverExpiredJobLeases(p, j)
          PROVE  FALSE
      <4>1. CASE RequestsJob(p, j)
        BY <1>1, <3>1, <4>1 DEF RequestsJob, Evaluating
      <4>2. CASE RecoverExpiredJobLeases(p, j)
        BY <1>1, <3>1, <4>2 DEF RecoverExpiredJobLeases, Evaluating, Idle
      <4>. QED BY <3>4, <4>1, <4>2
    <3>5. ASSUME NEW p \in Requests, NEW j \in Jobs, FailJobRetryable(p, j)
          PROVE  FailJobRetryable(r, j) /\ request'[r].job = j
      BY <3>1, <3>5 DEF FailJobRetryable, Evaluating
    <3>6. ASSUME NEW p \in Requests, NEW s \in Subjects, GetExperimentPolicy(p, s) PROVE FALSE
      BY <1>1, <3>1, <3>6 DEF GetExperimentPolicy
    <3>7. ASSUME NEW p \in Requests, Evaluate(p)
          PROVE  Evaluate(r) /\ request[r].op = "retry" /\ request'[r].job = request[r].job
      <4>1. p = r /\ request[r].at = "evaluate"
        BY <3>1, <3>7 DEF Evaluate
      <4>2. request[r] \in Poll \cup Gate
        BY <3>2, <4>1, Kinds
      <4>. DEFINE q == request[r]
                  at == IF q.op \in {"dispatch", "requeue"} THEN "validate" ELSE "write"
                  n == [q EXCEPT !.at = at, !.seen = Sources(q.job), !.tries = @ + 1]
      <4>3. request'[r] = n
        BY <3>1, <3>7, <4>1 DEF Evaluate
      <4>4. n.op = q.op /\ n.job = q.job
        <5>. HIDE DEF at
        <5>. QED BY <4>2 DEF Poll, Gate
      <4>. HIDE DEF n
      <4>. QED BY <1>1, <3>7, <4>1, <4>3, <4>4
    <3>8. ASSUME NEW p \in Requests,
                 \/ LockAndValidatePolicySources(p) \/ ListQueuedJobsForWorker(p)
                 \/ NextCandidate(p) \/ BatchEnds(p)
          PROVE  FALSE
      <4>. DEFINE q == request[p]
      <4>1. q \in Requesting /\ q.at \in {"validate", "list", "candidate"}
        BY <1>2, <3>8 DEF LockAndValidatePolicySources, ListQueuedJobsForWorker,
                          NextCandidate, BatchEnds
      <4>2. q \in Poll \cup Gate /\ (q.at # "validate" => q \in Poll)
        BY <4>1, Kinds
      <4>3. q.op # "retry"
        <5>1. q.at = "validate" => q.op \in {"dispatch", "requeue"}
          BY DEF QInv, IInv, RequestFits
        <5>. QED BY <4>1, <4>2, <5>1 DEF Poll
      <4>4. PICK n : Goes(p, n) /\ (n = Idle \/ n.op = q.op)
        <5>1. CASE LockAndValidatePolicySources(p)
          BY <4>2, <5>1 DEF LockAndValidatePolicySources, Poll, Gate
        <5>2. CASE ListQueuedJobsForWorker(p)
          <6>. DEFINE b == Oldest(Candidates)
                      f == Cardinality(b) = Limit
                      m == [q EXCEPT !.at = "candidate", !.batch = b, !.full = f,
                                     !.progress = FALSE]
          <6>1. Goes(p, Idle) \/ Goes(p, m)
            BY <5>2 DEF ListQueuedJobsForWorker
          <6>2. m.op = q.op
            <7>. HIDE DEF b, f
            <7>. QED BY <4>2, <5>2 DEF ListQueuedJobsForWorker, Poll
          <6>. HIDE DEF m
          <6>. QED BY <6>1, <6>2
        <5>3. CASE NextCandidate(p)
          <6>1. q \in Poll
            BY <4>2, <5>3 DEF NextCandidate
          <6>2. PICK j \in q.batch :
                    \/ Goes(p, [q EXCEPT !.at = "evaluate", !.job = j, !.tries = 0,
                                         !.batch = @ \ {j}])
                    \/ Goes(p, [q EXCEPT !.batch = @ \ {j}])
            BY <5>3 DEF NextCandidate
          <6>3. /\ [q EXCEPT !.at = "evaluate", !.job = j, !.tries = 0,
                             !.batch = @ \ {j}].op = q.op
                /\ [q EXCEPT !.batch = @ \ {j}].op = q.op
            BY <6>1 DEF Poll
          <6>. QED BY <6>2, <6>3
        <5>4. CASE BatchEnds(p)
          BY <4>2, <5>4 DEF BatchEnds, Poll
        <5>. QED BY <3>8, <5>1, <5>2, <5>3, <5>4
      <4>. QED BY <1>1, <3>1, <4>3, <4>4 DEF Idle
    <3>9. ASSUME NEW p \in Requests, ApplyQueuedJobPolicyEvaluation(p) PROVE FALSE
      <4>1. request[p] \in Poll \/ request[p].op # "dispatch"
        BY <1>2, <3>9, Kinds DEF ApplyQueuedJobPolicyEvaluation, Gate
      <4>2. Decided(request[p]).at = "candidate" \/ request[p].op # "dispatch"
        BY <4>1 DEF Decided, Poll
      <4>. QED BY <1>1, <3>1, <3>9, <4>2 DEF ApplyQueuedJobPolicyEvaluation, Idle
    <3>10. ASSUME NEW p \in Requests, ClaimJobIfQueuedAndPolicyCurrent(p) PROVE FALSE
      <4>1. request[p] \in Poll
        BY <1>2, <3>10, Kinds DEF ClaimJobIfQueuedAndPolicyCurrent, Gate
      <4>2. Decided(request[p]).at = "candidate"
        BY <4>1 DEF Decided, Poll
      <4>. QED BY <1>1, <3>1, <3>10, <4>2 DEF ClaimJobIfQueuedAndPolicyCurrent, Idle
    <3>11. ASSUME NEW p \in Requests,
                  \/ CreateJobWithOptions(p) \/ RetryJob(p) \/ EditEnds(p)
                  \/ Edits(p) \/ ClearExperimentPolicyBinding(p)
           PROVE  FALSE
      <4>1. Goes(p, Idle)
        BY <3>11 DEF CreateJobWithOptions, RetryJob, EditEnds, Edits, Rebinds,
                     SetExperimentPolicyBinding, ClearExperimentPolicyBinding
      <4>. QED BY <1>1, <3>1, <4>1 DEF Idle
    <3>12. ~ OrchestratorRestarts
      BY <1>1 DEF OrchestratorRestarts, Idle
    <3>13. ~ (request' = request)
      BY <1>6
    <3>. QED BY <3>3, <3>4, <3>5, <3>6, <3>7, <3>8, <3>9, <3>10, <3>11, <3>12, <3>13
         DEF Next, Step, Continues, JobEnds, CancelJob, FinishJob, vars
  <2>. QED BY <1>3, <1>4, <2>1
       DEF FailJobRetryable, Evaluate, QInv, RetriesCreated
<1>. QED BY <1>5, <1>6

LEMMA QInvariance == Spec => []QInv
<1>1. Init => QInv
  <2>. SUFFICES ASSUME Init PROVE QInv
    OBVIOUS
  <2>1. Assigned
    BY JobNumbers DEF Init, Assigned, NoJobRow
  <2>2. \A r \in Requests : RetriesCreated(request[r])
    BY DEF Init, RetriesCreated, Idle
  <2>. QED BY <2>1, <2>2, InitOK DEF QInv
<1>2. QInv /\ IInv' /\ [Next]_vars => QInv'
  BY StepRefines, RetriesStayCreated DEF QInv, Refines
<1>. QED BY <1>1, <1>2, Invariance, PTL DEF Spec

LEMMA InitRefines == Init => Queue!Init
<1>. SUFFICES ASSUME Init PROVE Queue!Init
  OBVIOUS
<1>1. ASSUME NEW j \in Jobs
      PROVE  Phase(j) = "absent" /\ Holder(j) = NoWorker /\ job[j].attempt = 0
  BY <1>1, JobNumbers DEF Init, NoJobRow, Phase, Holder
<1>. QED BY <1>1 DEF Queue!Init

\* Whatever policies, edits, stale evaluations and late retries do, the jobs'
\* submitters see the abstract queue: one worker at a time, a worker that has
\* no other job, and no attempt too many (store/policy_dispatch.go,
\* ClaimJobIfQueuedAndPolicyCurrent; store/postgres_jobs.go, RetryJob).
THEOREM DispatchRefinesJobQueue == Spec => ImplementsJobQueue
<1>1. Init => Queue!Init
  BY InitRefines
<1>2. QInv /\ QInv' /\ [Next]_vars => [Queue!Next]_(Queue!vars)
  BY StepRefines DEF QInv, Refines
<1>. QED BY <1>1, <1>2, QInvariance, PTL DEF Spec, ImplementsJobQueue, Queue!Spec
=============================================================================
