------------------------ MODULE RemoteSessionProofs ------------------------
(***************************************************************************)
(* What holds of remote sessions for every number of requests and          *)
(* attempts: rows keep their type, a session that ended is never revived,  *)
(* and it ends in the transaction that ends its attempt.                   *)
(***************************************************************************)
EXTENDS RemoteSession, TLAPS

USE RemoteSessionAssumption DEF RemoteSessionAssumption

\* A request on its way to write a session knows the attempt; one on its way
\* to close a session knows the status to close it with.
RequestFits(q) ==
    /\ q.at \in {"touch", "upsert"} => q.name \in Name
    /\ q.at \in {"closeConfig", "closeRecord"} => q.op \in Ended
    /\ q.at \in {"check", "reread", "apply"} => q.op \in Ops

IInv ==
    /\ TypeOK
    /\ job.phase = "queued" => AttemptsLeft(job)
    /\ \A r \in Requests : RequestFits(request[r])

-----------------------------------------------------------------------------
LEMMA AtTyped ==
    ASSUME NEW step \in Steps, NEW op \in Ops \cup Ended \cup {"poll", "cancel"},
           NEW name \in Name \cup {NoName}, NEW s \in SessionRow
    PROVE  At(step, op, name, s) \in Busy
BY DEF At, Busy

LEMMA NoSessionTyped == NoSession \in SessionRow
BY DEF NoSession, SessionRow, Ended

LEMMA ClosedRecordOK ==
    ASSUME NEW e \in RecordRow, NEW status \in Ended
    PROVE  /\ ClosedRecord(e, status) \in RecordRow
           /\ e.status \in Ended => ClosedRecord(e, status).status = e.status
           /\ e.status # "none" => ClosedRecord(e, status).status \in Ended
BY DEF ClosedRecord, RecordRow, Ended

LEMMA UpsertedRecordOK ==
    ASSUME NEW e \in RecordRow, NEW s \in SessionRow
    PROVE  /\ UpsertedRecord(e, s) \in RecordRow
           /\ e.status \in Ended => UpsertedRecord(e, s).status = e.status
BY DEF UpsertedRecord, RecordRow, SessionRow, Ended

\* What every step does to the rows: they keep their type, and one that ended
\* keeps its status.
RecordsKept ==
    /\ record' \in [Name -> RecordRow]
    /\ \A n \in Name : record[n].status \in Ended => record'[n].status = record[n].status

LEMMA CloseNamedOK ==
    ASSUME TypeOK, NEW status \in Ended, CloseNamedRecord(status)
    PROVE  /\ RecordsKept
           /\ session.name \in Name /\ record[session.name].status # "none"
                => record'[session.name].status \in Ended
<1>1. \A n \in Name : record'[n] = IF n = session.name
                                     THEN ClosedRecord(record[n], status) ELSE record[n]
  BY DEF CloseNamedRecord
<1>2. \A n \in Name : record'[n] \in RecordRow
  BY <1>1, ClosedRecordOK DEF TypeOK
<1>3. record' \in [Name -> RecordRow]
  BY <1>2 DEF CloseNamedRecord
<1>4. \A n \in Name : record[n].status \in Ended => record'[n].status = record[n].status
  BY <1>1, ClosedRecordOK DEF TypeOK
<1>5. ASSUME session.name \in Name, record[session.name].status # "none"
      PROVE  record'[session.name].status \in Ended
  BY <1>1, <1>5, ClosedRecordOK DEF TypeOK
<1>. QED BY <1>3, <1>4, <1>5 DEF RecordsKept

\* An attempt that ends takes the row of its session with it.
EndsRecord ==
    (/\ job.phase = "held" /\ job'.active # job.active
     /\ session.name = job.active /\ record[job.active].status # "none")
       => record'[job.active].status \in Ended

JobOK ==
    /\ job' \in JobRow
    /\ job'.phase = "queued" => AttemptsLeft(job')

LEMMA RequeuedOK ==
    ASSUME TypeOK, AttemptsLeft(job), job' = Requeued
    PROVE  JobOK
BY DEF TypeOK, JobOK, JobRow, Requeued, AttemptsLeft, Name, Named

LEMMA OverOK ==
    ASSUME TypeOK, job' = Over
    PROVE  JobOK
BY DEF TypeOK, JobOK, JobRow, Over, AttemptsLeft, Name, Named

-----------------------------------------------------------------------------
(* Where requests go. *)

Requesting == Busy \cup {Idle}

RequestsOK ==
    /\ request' \in [Requests -> Requesting]
    /\ \A r \in Requests : RequestFits(request'[r])

LEMMA IdleOK == Idle \in Requesting /\ RequestFits(Idle)
BY DEF Idle, Requesting, RequestFits

LEMMA AtOK ==
    ASSUME NEW step \in Steps, NEW op \in Ops \cup Ended \cup {"poll", "cancel"},
           NEW name \in Name \cup {NoName}, NEW s \in SessionRow,
           step \in {"touch", "upsert"} => name \in Name,
           step \in {"closeConfig", "closeRecord"} => op \in Ended,
           step \in {"check", "reread", "apply"} => op \in Ops
    PROVE  At(step, op, name, s) \in Requesting /\ RequestFits(At(step, op, name, s))
BY AtTyped DEF Requesting, RequestFits, At

LEMMA GoesOK ==
    ASSUME IInv, NEW r \in Requests, NEW q \in Requesting, RequestFits(q), Goes(r, q)
    PROVE  RequestsOK
BY DEF IInv, TypeOK, RequestsOK, Goes, Requesting

LEMMA ClosingOK ==
    ASSUME NEW s \in SessionRow, NEW status \in Ended
    PROVE  Closing(s, status) \in Requesting /\ RequestFits(Closing(s, status))
<1>1. CASE s = NoSession
  BY <1>1, IdleOK DEF Closing
<1>2. CASE s # NoSession
  <2>1. Closing(s, status) = At(IF s.status \in Ended THEN "closeRecord" ELSE "closeConfig",
                                status, NoName, s)
    BY <1>2 DEF Closing
  <2>. QED BY <2>1, AtOK DEF Steps
<1>. QED BY <1>1, <1>2

LEMMA PolledOK ==
    ASSUME IInv, NEW r \in Requests, NEW name \in Name, Polled(r, name, session)
    PROVE  RequestsOK
<1>. DEFINE step == IF session.name # name \/ session.late THEN "upsert" ELSE "touch"
<1>1. PolledSession(name, session) \in SessionRow
  BY DEF IInv, TypeOK, PolledSession, SessionRow
<1>2. step \in Steps /\ step \in {"touch", "upsert"}
  BY DEF Steps
<1>3. Goes(r, At(step, "poll", name, PolledSession(name, session)))
  BY DEF Polled
<1>. HIDE DEF step
<1>. QED BY <1>1, <1>2, <1>3, AtOK, GoesOK

LEMMA AcceptedOK ==
    ASSUME NEW op \in Ops
    PROVE  Accepted(op) \in Requesting /\ RequestFits(Accepted(op))
<1>. DEFINE step == IF op \in {"fail", "retry"} THEN "reread" ELSE "apply"
<1>1. step \in {"reread", "apply"} /\ step \in Steps
  BY DEF Steps
<1>2. Accepted(op) = At(step, op, NoName, NoSession)
  BY DEF Accepted
<1>. HIDE DEF step
<1>. QED BY <1>1, <1>2, AtOK, NoSessionTyped

\* What a busy request holds.
LEMMA BusyHolds ==
    ASSUME IInv, NEW r \in Requests, request[r].at # "idle"
    PROVE  /\ request[r] \in Busy
           /\ request[r].session \in SessionRow
           /\ request[r].name \in Name \cup {NoName}
           /\ request[r].op \in Ops \cup Ended \cup {"poll", "cancel"}
           /\ RequestFits(request[r])
<1>1. request[r] \in Busy
  BY DEF IInv, TypeOK, Idle
<1>. QED BY <1>1 DEF Busy, IInv

-----------------------------------------------------------------------------
(* Steps. *)

Kept ==
    /\ JobOK
    /\ session' \in SessionRow
    /\ RecordsKept
    /\ EndsRecord
    /\ RequestsOK

LEMMA JobSame ==
    ASSUME IInv, UNCHANGED job
    PROVE  JobOK /\ EndsRecord
BY DEF IInv, TypeOK, JobOK, EndsRecord, AttemptsLeft

LEMMA RecordSame ==
    ASSUME IInv, UNCHANGED record
    PROVE  RecordsKept
BY DEF IInv, TypeOK, RecordsKept

LEMMA RequestSame ==
    ASSUME IInv, UNCHANGED request
    PROVE  RequestsOK
BY DEF IInv, TypeOK, RequestsOK, Requesting

\* A transaction that takes the attempt away closes the named row.
LEMMA TakenAway ==
    ASSUME IInv, NEW status \in Ended, CloseNamedRecord(status)
    PROVE  RecordsKept /\ EndsRecord
<1>1. TypeOK
  BY DEF IInv
<1>2. job.active \in Name
  BY <1>1 DEF TypeOK, JobRow
<1>. QED BY <1>1, <1>2, CloseNamedOK DEF EndsRecord

LEMMA ClaimOK ==
    ASSUME IInv, NEW r \in Requests, Claim(r)
    PROVE  Kept
<1>. DEFINE n == job.attempt + 1
<1>1. n \in 1..MaxAttempts
  BY DEF IInv, TypeOK, JobRow, Claim, AttemptsLeft
<1>2. Named("attempt", n) \in Name
  BY <1>1 DEF Named, Name
<1>3. JobOK
  BY <1>1, <1>2 DEF Claim, JobOK, JobRow, AttemptsLeft
<1>4. EndsRecord
  BY DEF Claim, EndsRecord
<1>5. RequestsOK
  BY <1>2, PolledOK DEF Claim
<1>6. session' \in SessionRow /\ RecordsKept
  BY RecordSame DEF Claim, IInv, TypeOK
<1>. QED BY <1>3, <1>4, <1>5, <1>6 DEF Kept

LEMMA LeaseOK ==
    ASSUME IInv, NEW v \in {"live", "expired"}, job' = [job EXCEPT !.lease = v]
    PROVE  JobOK /\ EndsRecord
BY DEF IInv, TypeOK, JobRow, JobOK, EndsRecord, AttemptsLeft

LEMMA PollOK ==
    ASSUME IInv, NEW r \in Requests,
           PollHeartbeat(r) \/ PollReadsJob(r) \/ UpsertRemoteTrainingSession(r)
             \/ PersistSession(r)
    PROVE  Kept
<1>1. CASE PollHeartbeat(r)
  <2>1. RequestsOK
    BY <1>1, AtOK, NoSessionTyped, GoesOK DEF PollHeartbeat, Steps
  <2>2. session' \in SessionRow /\ RecordsKept
    BY <1>1, RecordSame DEF PollHeartbeat, IInv, TypeOK
  <2>. QED BY <1>1, <2>1, <2>2, LeaseOK DEF PollHeartbeat, Heartbeat, Kept
<1>2. CASE PollReadsJob(r)
  <2>1. job.active \in Name
    BY DEF IInv, TypeOK, JobRow
  <2>2. RequestsOK
    BY <1>2, <2>1, PolledOK DEF PollReadsJob
  <2>3. session' \in SessionRow
    BY <1>2 DEF PollReadsJob, IInv, TypeOK
  <2>. QED BY <1>2, <2>2, <2>3, JobSame, RecordSame DEF PollReadsJob, Kept
<1>3. CASE UpsertRemoteTrainingSession(r)
  <2>. DEFINE q == request[r]
  <2>1. /\ q \in Busy
        /\ q.session \in SessionRow
        /\ q.name \in Name
    BY <1>3, BusyHolds DEF UpsertRemoteTrainingSession, RequestFits
  <2>2. RecordsKept
    <3>1. CASE UNCHANGED record
      BY <3>1, RecordSame
    <3>2. CASE record' = [record EXCEPT ![q.name] = UpsertedRecord(@, q.session)]
      <4>1. \A n \in Name : record'[n] = IF n = q.name THEN UpsertedRecord(record[n], q.session)
                                         ELSE record[n]
        BY <3>2 DEF IInv, TypeOK
      <4>2. \A n \in Name : record'[n] \in RecordRow
        BY <2>1, <4>1, UpsertedRecordOK DEF IInv, TypeOK
      <4>3. record' \in [Name -> RecordRow]
        BY <3>2, <4>2 DEF IInv, TypeOK
      <4>4. \A n \in Name : record[n].status \in Ended => record'[n].status = record[n].status
        BY <2>1, <4>1, UpsertedRecordOK DEF IInv, TypeOK
      <4>. QED BY <4>3, <4>4 DEF RecordsKept
    <3>. QED BY <1>3, <3>1, <3>2 DEF UpsertRemoteTrainingSession
  <2>3. RequestsOK
    <3>1. [q EXCEPT !.at = "persist"] \in Requesting /\ RequestFits([q EXCEPT !.at = "persist"])
      BY <2>1 DEF Requesting, RequestFits, Busy, Steps
    <3>2. Goes(r, [q EXCEPT !.at = "persist"]) \/ Goes(r, Idle)
      BY <1>3 DEF UpsertRemoteTrainingSession
    <3>. QED BY <3>1, <3>2, IdleOK, GoesOK
  <2>4. session' \in SessionRow
    BY <1>3 DEF UpsertRemoteTrainingSession, IInv, TypeOK
  <2>. QED BY <1>3, <2>2, <2>3, <2>4, JobSame DEF UpsertRemoteTrainingSession, Kept
<1>4. CASE PersistSession(r)
  <2>1. session' \in SessionRow
    BY <1>4, BusyHolds DEF PersistSession, IInv, TypeOK
  <2>2. RequestsOK
    BY <1>4, IdleOK, GoesOK DEF PersistSession
  <2>. QED BY <1>4, <2>1, <2>2, JobSame, RecordSame DEF PersistSession, Kept
<1>. QED BY <1>1, <1>2, <1>3, <1>4

LEMMA CallbackReadsOK ==
    ASSUME IInv, NEW r \in Requests,
           \/ \E op \in Ops : ValidateJobCallback(r, op)
           \/ RejectInactiveRemoteTrainingSession(r)
           \/ FailJobReadsJob(r)
    PROVE  Kept
<1>1. UNCHANGED <<job, session, record>>
  BY DEF ValidateJobCallback, RejectInactiveRemoteTrainingSession, FailJobReadsJob
<1>2. session \in SessionRow /\ job.active \in Name
  BY DEF IInv, TypeOK, JobRow
<1>3. RequestsOK
  <2>1. ASSUME NEW op \in Ops, ValidateJobCallback(r, op)
        PROVE  RequestsOK
    <3>1. CASE session.name = job.active
      <4>1. Goes(r, At("check", op, job.active, session))
        BY <2>1, <3>1 DEF ValidateJobCallback
      <4>. QED BY <1>2, <4>1, AtOK, GoesOK DEF Steps
    <3>2. CASE session.name # job.active
      BY <2>1, <3>2, AcceptedOK, GoesOK DEF ValidateJobCallback
    <3>. QED BY <3>1, <3>2
  <2>2. CASE RejectInactiveRemoteTrainingSession(r)
    <3>1. request[r].session \in SessionRow /\ request[r].op \in Ops
      BY <2>2, BusyHolds DEF RejectInactiveRemoteTrainingSession, RequestFits
    <3>2. \/ Goes(r, Closing(request[r].session, "expired"))
          \/ Goes(r, Accepted(request[r].op))
          \/ Goes(r, Idle)
      BY <2>2 DEF RejectInactiveRemoteTrainingSession
    <3>. QED BY <3>1, <3>2, ClosingOK, AcceptedOK, IdleOK, GoesOK DEF Ended
  <2>3. CASE FailJobReadsJob(r)
    <3>1. request[r].op \in Ops
      BY <2>3, BusyHolds DEF FailJobReadsJob, RequestFits
    <3>. DEFINE s == IF request[r].op = "retry" THEN session ELSE NoSession
    <3>2. s \in SessionRow
      BY <1>2, NoSessionTyped
    <3>3. Goes(r, Idle) \/ Goes(r, At("apply", request[r].op, NoName, s))
      BY <2>3 DEF FailJobReadsJob
    <3>. HIDE DEF s
    <3>. QED BY <3>1, <3>2, <3>3, AtOK, IdleOK, GoesOK DEF Steps
  <2>. QED BY <2>1, <2>2, <2>3
<1>. QED BY <1>1, <1>2, <1>3, JobSame, RecordSame DEF Kept

\* The job of a callback ends, or had ended before.
LEMMA EndsOK ==
    ASSUME IInv, NEW status \in Ended, Ends(status)
    PROVE  JobOK /\ RecordsKept /\ EndsRecord
<1>1. CASE job.phase = "over"
  BY <1>1, JobSame, RecordSame DEF Ends
<1>2. CASE job.phase # "over"
  BY <1>2, OverOK, TakenAway DEF IInv, Ends
<1>. QED BY <1>1, <1>2

LEMMA FinishOK ==
    ASSUME IInv, NEW r \in Requests, NEW status \in Ended, FinishJob(r, status)
    PROVE  Kept
<1>1. session' = session /\ session \in SessionRow
  BY DEF FinishJob, IInv, TypeOK
<1>2. RequestsOK
  BY <1>1, ClosingOK, GoesOK DEF FinishJob
<1>3. JobOK /\ RecordsKept /\ EndsRecord
  BY EndsOK DEF FinishJob
<1>. QED BY <1>1, <1>2, <1>3 DEF Kept

LEMMA RetryOK ==
    ASSUME IInv, NEW r \in Requests, request[r].at = "apply",
           NEW force \in BOOLEAN, NEW ladder \in BOOLEAN, RetryJob(r, force, ladder)
    PROVE  Kept
<1>. DEFINE t == IF ladder /\ job.phase # "over" THEN request[r].session ELSE session
<1>1. session' = t /\ t \in SessionRow
  BY BusyHolds DEF RetryJob, IInv, TypeOK
<1>2. \/ /\ job.phase # "over" /\ AttemptsLeft(job)
         /\ job' = Requeued /\ CloseNamedRecord("expired") /\ Goes(r, Idle)
      \/ /\ Ends("failed")
         /\ Goes(r, Closing(t, "failed")) \/ Goes(r, Idle)
  BY DEF RetryJob
<1>. HIDE DEF t
<1>3. RequestsOK
  BY <1>1, <1>2, IdleOK, ClosingOK, GoesOK DEF Ended
<1>4. JobOK /\ RecordsKept /\ EndsRecord
  BY <1>2, RequeuedOK, TakenAway, EndsOK DEF IInv, Ended
<1>. QED BY <1>1, <1>3, <1>4 DEF Kept

LEMMA ApplyOK ==
    ASSUME IInv, NEW r \in Requests, ApplyCallback(r)
    PROVE  Kept
<1>1. CASE FinishJob(r, "closed") \/ FinishJob(r, "failed")
  BY <1>1, FinishOK DEF Ended
<1>2. CASE \E force, ladder \in BOOLEAN : RetryJob(r, force, ladder)
  BY <1>2, RetryOK DEF ApplyCallback
<1>3. CASE ReportMetric(r)
  <2>1. JobOK /\ EndsRecord
    <3>1. CASE job.phase = "held"
      BY <1>3, <3>1, LeaseOK DEF ReportMetric
    <3>2. CASE job.phase # "held"
      BY <1>3, <3>2, JobSame DEF ReportMetric
    <3>. QED BY <3>1, <3>2
  <2>2. session' \in SessionRow /\ RecordsKept
    BY <1>3, RecordSame DEF ReportMetric, IInv, TypeOK
  <2>3. RequestsOK
    BY <1>3, IdleOK, GoesOK DEF ReportMetric
  <2>. QED BY <2>1, <2>2, <2>3 DEF Kept
<1>. QED BY <1>1, <1>2, <1>3 DEF ApplyCallback

LEMMA CloseOK ==
    ASSUME IInv, NEW r \in Requests, CloseConfig(r) \/ CloseRemoteTrainingSession(r)
    PROVE  Kept
<1>. DEFINE q == request[r]
<1>1. /\ q \in Busy /\ q.session \in SessionRow /\ q.op \in Ended
  BY BusyHolds DEF CloseConfig, CloseRemoteTrainingSession, RequestFits
<1>2. CASE CloseConfig(r)
  <2>1. [q.session EXCEPT !.status = q.op] \in SessionRow
    BY <1>1 DEF SessionRow
  <2>2. RequestsOK
    BY <1>1, <1>2, <2>1, ClosingOK, GoesOK DEF CloseConfig
  <2>3. session' \in SessionRow
    BY <1>2, <2>1 DEF CloseConfig, IInv, TypeOK
  <2>. QED BY <1>2, <2>2, <2>3, JobSame, RecordSame DEF CloseConfig, Kept
<1>3. CASE CloseRemoteTrainingSession(r)
  <2>1. RecordsKept
    <3>1. CASE UNCHANGED record
      BY <3>1, RecordSame
    <3>2. CASE record' = [record EXCEPT ![q.session.name] = ClosedRecord(@, q.op)]
      <4>1. \A n \in Name : record'[n] = IF n = q.session.name THEN ClosedRecord(record[n], q.op)
                                         ELSE record[n]
        BY <3>2 DEF IInv, TypeOK
      <4>2. \A n \in Name : record'[n] \in RecordRow
        BY <1>1, <4>1, ClosedRecordOK DEF IInv, TypeOK
      <4>3. record' \in [Name -> RecordRow]
        BY <3>2, <4>2 DEF IInv, TypeOK
      <4>4. \A n \in Name : record[n].status \in Ended => record'[n].status = record[n].status
        BY <1>1, <4>1, ClosedRecordOK DEF IInv, TypeOK
      <4>. QED BY <4>3, <4>4 DEF RecordsKept
    <3>. QED BY <1>3, <3>1, <3>2 DEF CloseRemoteTrainingSession
  <2>2. RequestsOK
    BY <1>3, IdleOK, GoesOK DEF CloseRemoteTrainingSession
  <2>3. session' \in SessionRow
    BY <1>3 DEF CloseRemoteTrainingSession, IInv, TypeOK
  <2>. QED BY <1>3, <2>1, <2>2, <2>3, JobSame DEF CloseRemoteTrainingSession, Kept
<1>. QED BY <1>2, <1>3

LEMMA RecoverOK ==
    ASSUME IInv, RecoverExpiredJobLeases
    PROVE  Kept
<1>1. JobOK
  BY RequeuedOK, OverOK DEF RecoverExpiredJobLeases, IInv
<1>2. RecordsKept /\ EndsRecord
  BY TakenAway DEF RecoverExpiredJobLeases, LeaseLostRecord, Ended
<1>3. RequestsOK /\ session' \in SessionRow
  BY RequestSame DEF RecoverExpiredJobLeases, IInv, TypeOK
<1>. QED BY <1>1, <1>2, <1>3 DEF Kept

LEMMA CancelOK ==
    ASSUME IInv, NEW r \in Requests, CancelReadsJob(r) \/ CancelJob(r)
    PROVE  Kept
<1>1. CASE CancelReadsJob(r)
  <2>1. session \in SessionRow
    BY DEF IInv, TypeOK
  <2>2. Goes(r, At("cancel", "cancel", NoName, session))
    BY <1>1 DEF CancelReadsJob
  <2>3. RequestsOK
    BY <2>1, <2>2, AtOK, GoesOK DEF Steps
  <2>. QED BY <1>1, <2>1, <2>3, JobSame, RecordSame DEF CancelReadsJob, Kept
<1>2. CASE CancelJob(r)
  <2>1. request[r].session \in SessionRow
    BY <1>2, BusyHolds DEF CancelJob
  <2>2. session' \in SessionRow
    BY <1>2, <2>1 DEF CancelJob, SessionRow, Ended, IInv, TypeOK
  <2>3. Ends("failed")
    BY <1>2 DEF CancelJob, Ends
  <2>4. JobOK /\ RecordsKept /\ EndsRecord
    BY <2>3, EndsOK DEF Ended
  <2>5. RequestsOK
    BY <1>2, IdleOK, GoesOK DEF CancelJob
  <2>. QED BY <2>2, <2>4, <2>5 DEF Kept
<1>. QED BY <1>1, <1>2

LEMMA TimeOK ==
    ASSUME IInv,
           \/ LeaseExpires \/ SessionExpires
           \/ \E n \in Name : RecordExpires(n)
    PROVE  Kept
<1>1. RequestsOK
  BY RequestSame DEF LeaseExpires, SessionExpires, RecordExpires
<1>2. CASE LeaseExpires
  BY <1>1, <1>2, LeaseOK, RecordSame DEF LeaseExpires, Kept, IInv, TypeOK
<1>3. CASE SessionExpires
  <2>1. session' \in SessionRow
    BY <1>3 DEF SessionExpires, SessionRow, IInv, TypeOK
  <2>. QED BY <1>1, <1>3, <2>1, JobSame, RecordSame DEF SessionExpires, Kept
<1>4. ASSUME NEW n \in Name, RecordExpires(n)
      PROVE  Kept
  <2>1. record' = [record EXCEPT ![n].late = TRUE]
    BY <1>4 DEF RecordExpires
  <2>2. record' \in [Name -> RecordRow]
    BY <2>1 DEF IInv, TypeOK, RecordRow
  <2>3. \A m \in Name : record'[m].status = record[m].status
    BY <2>1 DEF IInv, TypeOK, RecordRow
  <2>4. RecordsKept
    BY <2>2, <2>3 DEF RecordsKept
  <2>. QED BY <1>1, <1>4, <2>4, JobSame DEF RecordExpires, Kept, IInv, TypeOK
<1>. QED BY <1>2, <1>3, <1>4

LEMMA OthersOK ==
    ASSUME IInv, HeartbeatWorker \/ OrchestratorRestarts
    PROVE  Kept
<1>1. CASE HeartbeatWorker
  BY <1>1, LeaseOK, RecordSame, RequestSame DEF HeartbeatWorker, Heartbeat, Kept, IInv, TypeOK
<1>2. CASE OrchestratorRestarts
  <2>1. request' = [r \in Requests |-> Idle]
    BY <1>2 DEF OrchestratorRestarts
  <2>2. RequestsOK
    BY <2>1, IdleOK DEF RequestsOK
  <2>. QED BY <1>2, <2>2, JobSame, RecordSame DEF OrchestratorRestarts, Kept, IInv, TypeOK
<1>. QED BY <1>1, <1>2

-----------------------------------------------------------------------------
LEMMA InitOK ==
    ASSUME Init
    PROVE  IInv
<1>1. job \in JobRow /\ AttemptsLeft(job)
  BY DEF Init, JobRow, Name, Named, AttemptsLeft
<1>2. record \in [Name -> RecordRow]
  BY DEF Init, NoRecord, RecordRow
<1>3. request \in [Requests -> Busy \cup {Idle}] /\ \A r \in Requests : RequestFits(request[r])
  BY IdleOK DEF Init
<1>. QED BY <1>1, <1>2, <1>3, NoSessionTyped DEF Init, IInv, TypeOK

LEMMA NextOK ==
    ASSUME IInv, Next
    PROVE  Kept
BY ClaimOK, PollOK, CallbackReadsOK, ApplyOK, CloseOK, RecoverOK, CancelOK, TimeOK, OthersOK
   DEF Next, Step, Continues

\* Every step, a stuttering one too, keeps the invariant and what the action
\* properties say of rows.
LEMMA StepOK ==
    ASSUME IInv, [Next]_vars
    PROVE  IInv' /\ RecordsKept /\ EndsRecord
<1>1. Kept
  <2>1. CASE Next
    BY <2>1, NextOK
  <2>2. CASE UNCHANGED vars
    BY <2>2, JobSame, RecordSame, RequestSame DEF vars, Kept, IInv, TypeOK
  <2>. QED BY <2>1, <2>2
<1>2. IInv'
  BY <1>1 DEF Kept, JobOK, RecordsKept, RequestsOK, Requesting, IInv, TypeOK, AttemptsLeft
<1>. QED BY <1>1, <1>2 DEF Kept

LEMMA Invariance == Spec => []IInv
<1>1. Init => IInv
  BY InitOK
<1>2. IInv /\ [Next]_vars => IInv'
  BY StepOK
<1>. QED BY <1>1, <1>2, PTL DEF Spec

\* Jobs, sessions, rows and requests keep their types; in particular no claim
\* and no requeue goes beyond max_attempts.
THEOREM TypeCorrect == Spec => []TypeOK
<1>1. IInv => TypeOK
  BY DEF IInv
<1>. QED BY <1>1, Invariance, PTL

\* A session row that ended is never revived and never ends a second time with
\* another status, for any number of concurrent polls, callbacks and restarts
\* (remote_sessions.go, UpsertRemoteTrainingSession and
\* CloseRemoteTrainingSession).
THEOREM EndedRecordsKept == Spec => EndedRecordsStay
<1>1. IInv /\ [Next]_vars
        => [\A n \in Name : record[n].status \in Ended =>
                              record'[n].status = record[n].status]_vars
  BY StepOK DEF RecordsKept
<1>. QED BY <1>1, Invariance, PTL DEF Spec, EndedRecordsStay

\* Whichever transaction takes an attempt from its worker leaves no active row
\* of its session behind, if the config named the session
\* (remote_sessions.go, closeRemoteTrainingSessionForJobConfigTx).
THEOREM RecordsEndWithAttempts == Spec => RecordEndsWithAttempt
<1>1. IInv /\ [Next]_vars
        => [(/\ job.phase = "held" /\ job'.active # job.active
             /\ session.name = job.active /\ record[job.active].status # "none")
              => record'[job.active].status \in Ended]_vars
  BY StepOK DEF EndsRecord
<1>. QED BY <1>1, Invariance, PTL DEF Spec, RecordEndsWithAttempt
=============================================================================
