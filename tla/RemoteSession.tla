--------------------------- MODULE RemoteSession ---------------------------
(***************************************************************************)
(* The remote training session of a job whose training runs on Modal.  It  *)
(* is kept twice: in the job's config, where callbacks look first, and as  *)
(* a row of its own for every attempt.  A poll renews both, the end of an  *)
(* attempt closes both, and a callback that finds either expired closes    *)
(* both; each of these is several transactions of one API request, with    *)
(* the requests of other goroutines, or a restart, in between.             *)
(*                                                                         *)
(* One job is enough: sessions of different jobs share nothing.  The job   *)
(* itself is a summary of JobLifecycle.                                    *)
(***************************************************************************)
EXTENDS Integers

CONSTANTS
    Requests,       \* requests the API serves at one time
    MaxAttempts     \* max_attempts of the job

ASSUME RemoteSessionAssumption == MaxAttempts \in Nat \ {0}

VARIABLES
    job,        \* phase, attempt counter, attempt named in config, lease
    session,    \* config["remote_training_session"]
    record,     \* remote_training_sessions, by name of attempt
    request     \* where each request stands, and what it read

vars == <<job, session, record, request>>

-----------------------------------------------------------------------------
Name == [kind: {"pending", "attempt", "terminal"}, n: 1..MaxAttempts]
Named(k, i) == [kind |-> k, n |-> i]
NoName == [kind |-> "none", n |-> 0]

JobRow == [phase: {"queued", "held", "over"}, attempt: 0..MaxAttempts,
           active: Name, lease: {"none", "live", "expired"}]

Ended == {"closed", "expired", "failed"}

\* late: expires_at lies in the past.
SessionRow == [name: Name \cup {NoName}, status: {"active"} \cup Ended, late: BOOLEAN]
NoSession == [name |-> NoName, status |-> "active", late |-> FALSE]

RecordRow == [status: {"none", "active"} \cup Ended, late: BOOLEAN]
NoRecord == [status |-> "none", late |-> FALSE]

\* A request keeps the attempt it is about, the session it read or will write
\* and, on its way to close a session, the status it closes it with.
Ops == {"complete", "fail", "retry", "metrics"}
Steps == {"read", "touch", "upsert", "persist", "cancel", "check", "reread",
          "apply", "closeConfig", "closeRecord"}
Idle == [at |-> "idle"]
Busy == [at: Steps, op: Ops \cup Ended \cup {"poll", "cancel"},
         name: Name \cup {NoName}, session: SessionRow]

Goes(r, q) == request' = [request EXCEPT ![r] = q]
At(step, op, name, s) == [at |-> step, op |-> op, name |-> name, session |-> s]

-----------------------------------------------------------------------------
(* What one statement writes. *)

\* Each definition named ...Faulty is the one after it with a plausible bug in
\* it: the properties are run against it, and nothing here uses it.

\* Faulty: an upsert revives a session that ended.
UpsertedRecordFaulty(old, s) == [status |-> s.status, late |-> s.late]

\* INSERT ... ON CONFLICT: a row that ended stays as it is.
UpsertedRecord(old, s) ==
    IF old.status \in Ended THEN old ELSE [status |-> s.status, late |-> s.late]

\* UPDATE ... WHERE id: no row, or one that ended, stays as it is.
ClosedRecord(old, status) ==
    IF old.status \in Ended \cup {"none"} THEN old
    ELSE [old EXCEPT !.status = status]

\* closeRemoteTrainingSessionForJobConfigTx: the row of the session that the
\* locked job row names.
CloseNamedRecord(status) ==
    record' = [n \in Name |-> IF n = session.name THEN ClosedRecord(record[n], status)
                              ELSE record[n]]

\* remoteTrainingSessionForPolledJob: a session of this attempt is kept, its
\* expiry renewed if it has passed and its status left alone; for any other
\* attempt a new one is made.
PolledSession(name, s) ==
    IF s.name = name THEN [s EXCEPT !.late = FALSE]
    ELSE [name |-> name, status |-> "active", late |-> FALSE]

\* Where closeRemoteTrainingSession starts, given the session of its job.
Closing(s, status) ==
    IF s = NoSession THEN Idle
    ELSE At(IF s.status \in Ended THEN "closeRecord" ELSE "closeConfig",
            status, NoName, s)

\* Faulty: the lease path forgets the session.
LeaseLostRecordFaulty == UNCHANGED record
LeaseLostRecord == CloseNamedRecord("expired")

\* Faulty: an attempt without a row counts as one whose session ended.
UsableFaulty(e) == e.status = "active"

\* The row has ended unless it is active; a row that was never written does
\* not count against the session in the config.
Usable(e) == e.status \in {"none", "active"}

-----------------------------------------------------------------------------
Init ==
    /\ job = [phase |-> "queued", attempt |-> 0, active |-> Named("pending", 1),
              lease |-> "none"]
    /\ session = NoSession
    /\ record = [n \in Name |-> NoRecord]
    /\ request = [r \in Requests |-> Idle]

\* Faulty: an attempt too many.
AttemptsLeftFaulty(r) == r.attempt <= MaxAttempts
AttemptsLeft(r) == r.attempt < MaxAttempts

Requeued == [phase |-> "queued", attempt |-> job.attempt,
             active |-> Named("pending", job.attempt + 1), lease |-> "none"]
Over == [phase |-> "over", attempt |-> job.attempt,
         active |-> Named("terminal", job.active.n), lease |-> "none"]

(* Polls. *)

\* augmentPolledJob, for a job as the request read it.
Polled(r, name, s) ==
    Goes(r, At(IF s.name # name \/ s.late THEN "upsert" ELSE "touch", "poll",
               name, PolledSession(name, s)))

\* A poll of an idle worker: the claim returns the row as it wrote it.
Claim(r) ==
    LET n == job.attempt + 1
    IN  /\ request[r] = Idle
        /\ job.phase = "queued"
        /\ job' = [phase |-> "held", attempt |-> n, active |-> Named("attempt", n),
                   lease |-> "live"]
        /\ Polled(r, Named("attempt", n), session)
        /\ UNCHANGED <<session, record>>

\* A heartbeat, sent alone or as the first step of a poll.
Heartbeat ==
    /\ job.phase = "held"
    /\ job' = [job EXCEPT !.lease = "live"]

HeartbeatWorker == Heartbeat /\ UNCHANGED <<session, record, request>>

\* A poll of a worker that holds the job renews its lease, and reads the job
\* afterwards.
PollHeartbeat(r) ==
    /\ request[r] = Idle
    /\ Heartbeat
    /\ Goes(r, At("read", "poll", NoName, NoSession))
    /\ UNCHANGED <<session, record>>

PollReadsJob(r) ==
    /\ request[r].at = "read"
    /\ Polled(r, job.active, session)
    /\ UNCHANGED <<job, session, record>>

\* Here and in the steps below, a write that fails is logged and the request
\* goes on.
UpsertRemoteTrainingSession(r) ==
    LET q == request[r]
    IN  /\ q.at \in {"touch", "upsert"}
        /\ \/ UNCHANGED record
           \/ record' = [record EXCEPT ![q.name] = UpsertedRecord(@, q.session)]
        /\ Goes(r, IF q.at = "upsert" THEN [q EXCEPT !.at = "persist"] ELSE Idle)
        /\ UNCHANGED <<job, session>>

PersistSession(r) ==
    /\ request[r].at = "persist"
    /\ session' \in {session, request[r].session}
    /\ Goes(r, Idle)
    /\ UNCHANGED <<job, record>>

(* Callbacks. *)

Accepted(op) ==
    At(IF op \in {"fail", "retry"} THEN "reread" ELSE "apply", op, NoName, NoSession)

\* validateJobCallback reads the job; a session of another attempt is no
\* reason to look further.
ValidateJobCallback(r, op) ==
    /\ request[r] = Idle
    /\ job.phase = "held"
    /\ Goes(r, IF session.name = job.active
               THEN At("check", op, job.active, session) ELSE Accepted(op))
    /\ UNCHANGED <<job, session, record>>

\* rejectInactiveRemoteTrainingSession: the row first, then the session of
\* the job as it was read.
RejectInactiveRemoteTrainingSession(r) ==
    LET q == request[r]
        e == record[q.name]
        expired == e.late \/ (Usable(e) /\ q.session.late)
    IN  /\ q.at = "check"
        /\ Goes(r, IF expired THEN Closing(q.session, "expired")
                   ELSE IF Usable(e) /\ q.session.status = "active"
                        THEN Accepted(q.op)
                        ELSE Idle)
        /\ UNCHANGED <<job, session, record>>

\* failJob reads the job again, for the retry it may be given.
FailJobReadsJob(r) ==
    /\ request[r].at = "reread"
    /\ Goes(r, IF job.phase = "over" THEN Idle
               ELSE At("apply", request[r].op, NoName,
                       IF request[r].op = "retry" THEN session ELSE NoSession))
    /\ UNCHANGED <<job, session, record>>

\* What a job that ends takes with it; one that is over stays as it is.
Ends(status) ==
    IF job.phase = "over" THEN UNCHANGED <<job, record>>
    ELSE job' = Over /\ CloseNamedRecord(status)

\* finishJobWithTransition, then closeRemoteTrainingSession with its result.
FinishJob(r, status) ==
    /\ Ends(status)
    /\ Goes(r, Closing(session, status))
    /\ UNCHANGED session

\* ladder: the job gets the config that failJob read, whether it is requeued or
\* not.  A retry that the policy forbids ends the job without a closing of the
\* session in its config.
RetryJob(r, forceFail, ladder) ==
    LET requeued == job.phase # "over" /\ AttemptsLeft(job) /\ ~ forceFail
        s == IF ladder /\ job.phase # "over" THEN request[r].session ELSE session
    IN  /\ session' = s
        /\ \/ /\ requeued
              /\ job' = Requeued
              /\ CloseNamedRecord("expired")
              /\ Goes(r, Idle)
           \/ /\ ~ requeued
              /\ Ends("failed")
              /\ Goes(r, Closing(s, "failed")) \/ (forceFail /\ Goes(r, Idle))

ReportMetric(r) ==
    /\ job' = IF job.phase = "held" THEN [job EXCEPT !.lease = "live"] ELSE job
    /\ Goes(r, Idle)
    /\ UNCHANGED <<session, record>>

ApplyCallback(r) ==
    LET q == request[r]
    IN  /\ q.at = "apply"
        /\ \/ q.op = "complete" /\ FinishJob(r, "closed")
           \/ q.op = "fail" /\ FinishJob(r, "failed")
           \/ q.op = "retry" /\ \E force, ladder \in BOOLEAN : RetryJob(r, force, ladder)
           \/ q.op = "metrics" /\ ReportMetric(r)

(* Closing, in two transactions. *)

CloseConfig(r) ==
    LET q == request[r]
    IN  /\ q.at = "closeConfig"
        /\ session' \in {session, [q.session EXCEPT !.status = q.op]}
        /\ Goes(r, Closing([q.session EXCEPT !.status = q.op], q.op))
        /\ UNCHANGED <<job, record>>

CloseRemoteTrainingSession(r) ==
    LET q == request[r]
    IN  /\ q.at = "closeRecord"
        /\ \/ UNCHANGED record
           \/ record' = [record EXCEPT ![q.session.name] = ClosedRecord(@, q.op)]
        /\ Goes(r, Idle)
        /\ UNCHANGED <<job, session>>

(* Leases, users, time, restarts. *)

RecoverExpiredJobLeases ==
    /\ job.phase = "held" /\ job.lease = "expired"
    /\ job' = IF AttemptsLeft(job) THEN Requeued ELSE Over
    /\ LeaseLostRecord
    /\ UNCHANGED <<session, request>>

CancelReadsJob(r) ==
    /\ request[r] = Idle
    /\ job.phase # "over"
    /\ Goes(r, At("cancel", "cancel", NoName, session))
    /\ UNCHANGED <<job, session, record>>

\* The patch of the config is made from the job as the plan's list had it.
CancelJob(r) ==
    LET s == request[r].session
    IN  /\ request[r].at = "cancel"
        /\ IF job.phase = "over"
           THEN UNCHANGED <<job, session, record>>
           ELSE /\ job' = Over
                /\ session' = IF s = NoSession THEN session
                              ELSE [s EXCEPT !.status = "failed"]
                /\ CloseNamedRecord("failed")
        /\ Goes(r, Idle)

LeaseExpires ==
    /\ job.lease = "live"
    /\ job' = [job EXCEPT !.lease = "expired"]
    /\ UNCHANGED <<session, record, request>>

SessionExpires ==
    /\ session # NoSession /\ ~ session.late
    /\ session' = [session EXCEPT !.late = TRUE]
    /\ UNCHANGED <<job, record, request>>

RecordExpires(n) ==
    /\ record[n].status # "none" /\ ~ record[n].late
    /\ record' = [record EXCEPT ![n].late = TRUE]
    /\ UNCHANGED <<job, session, request>>

OrchestratorRestarts ==
    /\ \E r \in Requests : request[r] # Idle
    /\ request' = [r \in Requests |-> Idle]
    /\ UNCHANGED <<job, session, record>>

-----------------------------------------------------------------------------
Continues(r) ==
    \/ PollReadsJob(r) \/ UpsertRemoteTrainingSession(r) \/ PersistSession(r)
    \/ RejectInactiveRemoteTrainingSession(r) \/ FailJobReadsJob(r)
    \/ ApplyCallback(r)
    \/ CloseConfig(r) \/ CloseRemoteTrainingSession(r)
    \/ CancelJob(r)

Step ==
    \/ \E r \in Requests :
         \/ Claim(r) \/ PollHeartbeat(r) \/ CancelReadsJob(r)
         \/ \E op \in Ops : ValidateJobCallback(r, op)
         \/ Continues(r)
    \/ HeartbeatWorker \/ RecoverExpiredJobLeases \/ LeaseExpires
    \/ SessionExpires \/ \E n \in Name : RecordExpires(n)

Next == Step \/ OrchestratorRestarts

Spec == Init /\ [][Next]_vars

\* A worker loop that lives polls and, holding the job, reports outcomes of
\* it; a request that is served comes to its end; leases that ran out are
\* recovered by the ticker; and from some time on nothing restarts.
Fairness ==
    /\ WF_vars(\E r \in Requests : Claim(r))
    /\ WF_vars(\E r \in Requests : PollHeartbeat(r))
    /\ SF_vars(\E r \in Requests, op \in Ops \ {"metrics"} : ValidateJobCallback(r, op))
    /\ \A r \in Requests : WF_vars(Continues(r))
    /\ WF_vars(RecoverExpiredJobLeases)
    /\ <>[][Step]_vars

LiveSpec == Spec /\ Fairness

-----------------------------------------------------------------------------
TypeOK ==
    /\ job \in JobRow
    /\ session \in SessionRow
    /\ record \in [Name -> RecordRow]
    /\ request \in [Requests -> Busy \cup {Idle}]

\* A session row that ended stays ended, with the status it first ended with,
\* however many polls that read the session as active are still to write it
\* (remote_sessions.go, UpsertRemoteTrainingSession).
EndedRecordsStay ==
    [][\A n \in Name : record[n].status \in Ended =>
                          record'[n].status = record[n].status]_vars

\* The transaction that takes an attempt away from its worker, on whichever of
\* the five roads, ends the row of its session with it, so that no restart in
\* between can leave it active.
RecordEndsWithAttempt ==
    [][(/\ job.phase = "held" /\ job'.active # job.active
        /\ session.name = job.active /\ record[job.active].status # "none")
          => record'[job.active].status \in Ended]_vars

\* services/orchestrator/internal/api/handlers_test.go:335 expects the session
\* of a polled job to be active: what a poll is about to hand to the worker
\* that holds the job is a session its callbacks can use.
PolledSessionActive ==
    \A r \in Requests :
        (/\ request[r].at \in {"touch", "upsert", "persist"}
         /\ job.phase = "held" /\ request[r].name = job.active)
          => request[r].session.status = "active"

\* Sessions do not keep a job from ending, whatever polls, renewals, failed
\* writes and recoveries happen, as long as no callback comes in between the
\* expiry of its session and the renewal.
JobSettles ==
    [](\A r \in Requests : request[r] = Idle \/ request[r].op # "expired")
      => <>(job.phase = "over")
=============================================================================
