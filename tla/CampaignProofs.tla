--------------------------- MODULE CampaignProofs ---------------------------
(***************************************************************************)
(* What holds of the experimentation loop for every number of users,       *)
(* plans, jobs, rounds and requests: rows keep their type, the planner     *)
(* decides once on a plan, automation follows a decision up once and never *)
(* exceeds the rounds it is allowed.  All of it rests on autoReviewMu: who *)
(* stands between a check and what it is for holds the lock.  And: what a  *)
(* hook that ends leaves behind, which is how a campaign that comes to     *)
(* rest has its champion.                                                  *)
(***************************************************************************)
EXTENDS Campaign, FiniteSetTheorems, WellFoundedInduction, TLAPS

-----------------------------------------------------------------------------
(* Sets of numbers and sequences. *)

LEMMA LeastExists ==
    ASSUME NEW T \in SUBSET Nat, T # {}
    PROVE  \E x \in T : \A y \in T : x <= y
<1>1. \E x \in T : \A y \in T : ~ (<<y, x>> \in OpToRel(<, Nat))
  BY NatLessThanWellFounded, WFMin
<1>2. \A x, y \in T : ~ (<<y, x>> \in OpToRel(<, Nat)) => x <= y
  BY DEF OpToRel
<1> QED
  BY <1>1, <1>2

LEMMA NewestInSet ==
    ASSUME NEW n \in Nat, NEW D \in SUBSET (1..n), D # {}
    PROVE  Newest(D) \in D /\ \A e \in D : e <= Newest(D)
<1> DEFINE T == {n - d : d \in D}
<1>1. T \in SUBSET Nat
  OBVIOUS
<1>2. \E d \in D : n - d \in T
  OBVIOUS
<1>3. PICK x \in T : \A y \in T : x <= y
  BY <1>1, <1>2, LeastExists
<1>4. PICK d \in D : x = n - d
  BY <1>3
<1>5. \A e \in D : e <= d
  BY <1>3, <1>4
<1> QED
  BY <1>5 DEF Newest

LEMMA AppendSeq ==
    ASSUME NEW S, NEW s \in Seq(S), NEW x \in S
    PROVE  /\ Append(s, x) \in Seq(S)
           /\ Len(Append(s, x)) = Len(s) + 1
           /\ \A i \in 1..Len(s) : Append(s, x)[i] = s[i]
           /\ Append(s, x)[Len(s) + 1] = x
OBVIOUS

-----------------------------------------------------------------------------
USE CampaignAssumption DEF CampaignAssumption

AutoPlans(P) == {p \in 1..Len(P) : P[p].source # 0 /\ P[p].auto}

\* Jobs and decisions name plans that exist.
RowsRefer ==
    /\ \A j \in 1..Len(jobs) : jobs[j].plan \in 1..Len(plans)
    /\ \A d \in 1..Len(decisions) : decisions[d].plan \in 1..Len(plans)

\* What an actor in state s relies on, of plans P, decisions D, jobs J and the
\* holder L of the lock: the rows it remembers exist, and what it checked under
\* the lock is true as long as it holds the lock.
Fits(a, s, P, D, J, L) ==
    /\ s.at \notin {"idle", "done", "lost", "aggregate"} => s.plan \in 1..Len(P)
    /\ s.at \in {"schedule", "create"} => s.decision \in 1..Len(D)
    /\ a \in Hooks /\ s.at # "idle" => a \in 1..Len(J)
    /\ s.at = "llm" =>
         /\ L = a /\ s.path = "planner"
         /\ \A d \in 1..Len(D) : D[d].plan = s.plan => D[d].by # "planner"
    /\ s.at \in {"schedule", "create", "execute", "jobs"} /\ s.path # "user" => L = a
    /\ s.at = "create" /\ s.path # "user" =>
         /\ \A p \in 1..Len(P) : P[p].auto => P[p].source # s.decision
         /\ Cardinality(AutoPlans(P)) < MaxRounds
    /\ s.at = "cancel" => a \in Users /\ s.todo \subseteq 1..Len(J)

DecidedOnce ==
    \A d, e \in 1..Len(decisions) :
        /\ decisions[d].by = "planner" /\ decisions[e].by = "planner"
        /\ decisions[d].plan = decisions[e].plan
        => d = e

IInv ==
    /\ TypeOK
    /\ RowsRefer
    /\ \A a \in Actors : Fits(a, actor[a], plans, decisions, jobs, lock)
    /\ DecidedOnce
    /\ OneAutomaticFollowUp
    /\ RoundsBounded

LEMMA Lengths ==
    ASSUME TypeOK
    PROVE  /\ Len(plans) \in 1..MaxPlans /\ Len(jobs) \in 0..MaxJobs /\ Len(decisions) \in Nat
           /\ 1..Len(jobs) \subseteq Hooks
           /\ \A p \in 1..Len(plans) : plans[p] \in Plan
           /\ \A j \in 1..Len(jobs) : jobs[j] \in Job
           /\ \A d \in 1..Len(decisions) : decisions[d] \in Decision
           /\ \A a \in Actors : actor[a] \in Actor
BY DEF TypeOK, Hooks

-----------------------------------------------------------------------------
(* Steps of one actor. *)

RowsGrow ==
    /\ Len(plans) <= Len(plans') /\ \A p \in 1..Len(plans) : plans'[p] = plans[p]
    /\ Len(decisions) <= Len(decisions')
    /\ \A d \in 1..Len(decisions) : decisions'[d] = decisions[d]
    /\ Len(jobs) <= Len(jobs')

LockMoves(a) ==
    \/ lock' = lock
    \/ lock = a /\ lock' = Nobody
    \/ lock = Nobody /\ lock' = a

\* Only the holder of the lock adds decisions of the planner and automatic plans.
AddedUnderLock(a) ==
    \/ lock = a
    \/ /\ \A d \in 1..Len(decisions') : decisions'[d].by = "planner" => d <= Len(decisions)
       /\ \A p \in 1..Len(plans') : plans'[p].auto => p <= Len(plans)
       /\ AutoPlans(plans') = AutoPlans(plans)

LEMMA OthersFit ==
    ASSUME IInv, TypeOK', RowsGrow, NEW a \in Actors, LockMoves(a), AddedUnderLock(a),
           NEW b \in Actors, b # a
    PROVE  Fits(b, actor[b], plans', decisions', jobs', lock')
<1> DEFINE s == actor[b]
<1>1. Fits(b, s, plans, decisions, jobs, lock)
  BY DEF IInv
<1>2. lock = b => lock' = b /\ lock # a
  BY DEF LockMoves, Actors
<1>3. /\ Len(plans) \in Nat /\ Len(plans') \in Nat /\ Len(decisions) \in Nat
      /\ Len(decisions') \in Nat /\ Len(jobs) \in Nat /\ Len(jobs') \in Nat
  BY Lengths DEF IInv, TypeOK
<1>4. /\ s.at \notin {"idle", "done", "lost", "aggregate"} => s.plan \in 1..Len(plans')
      /\ s.at \in {"schedule", "create"} => s.decision \in 1..Len(decisions')
      /\ b \in Hooks /\ s.at # "idle" => b \in 1..Len(jobs')
      /\ s.at = "cancel" => b \in Users /\ s.todo \subseteq 1..Len(jobs')
  BY <1>1, <1>3 DEF Fits, RowsGrow
<1>5. lock = b =>
        /\ \A d \in 1..Len(decisions') : decisions'[d].plan = s.plan => 
               decisions'[d].by # "planner" \/ \E e \in 1..Len(decisions) : decisions[e] = decisions'[d]
        /\ \A p \in 1..Len(plans') : plans'[p].auto => p \in 1..Len(plans) /\ plans'[p] = plans[p]
        /\ AutoPlans(plans') = AutoPlans(plans)
  BY <1>2, <1>3 DEF AddedUnderLock, RowsGrow
<1>6. s.at = "llm" =>
         /\ lock' = b /\ s.path = "planner"
         /\ \A d \in 1..Len(decisions') : decisions'[d].plan = s.plan => decisions'[d].by # "planner"
  BY <1>1, <1>2, <1>5 DEF Fits
<1>7. /\ s.at \in {"schedule", "create", "execute", "jobs"} /\ s.path # "user" => lock' = b
      /\ s.at = "create" /\ s.path # "user" =>
         /\ \A p \in 1..Len(plans') : plans'[p].auto => plans'[p].source # s.decision
         /\ Cardinality(AutoPlans(plans')) < MaxRounds
  BY <1>1, <1>2, <1>5 DEF Fits
<1> QED
  BY <1>4, <1>6, <1>7 DEF Fits

\* A step of actor a that takes it to s.
LEMMA StepOK ==
    ASSUME IInv, TypeOK', RowsRefer', RowsGrow, NEW a \in Actors, NEW s,
           Goes(a, s), LockMoves(a), AddedUnderLock(a),
           Fits(a, s, plans', decisions', jobs', lock'),
           DecidedOnce', OneAutomaticFollowUp', RoundsBounded'
    PROVE  IInv'
<1>1. \A b \in Actors : actor'[b] = IF b = a THEN s ELSE actor[b]
  BY DEF IInv, TypeOK, Goes
<1>2. \A b \in Actors : Fits(b, actor'[b], plans', decisions', jobs', lock')
  BY <1>1, OthersFit
<1> QED
  BY <1>2 DEF IInv

\* Columns a step of an actor may write without further ado.
FlagsTyped ==
    /\ champion' \in BOOLEAN /\ selection' \in {"none", "selected", "reopened"}
    /\ capped' \subseteq 1..MaxPlans /\ excused' \subseteq 1..MaxPlans
    /\ budget' \in [requests: 0..MaxRequests, faults: 0..MaxFaults]

LEMMA MoveOK ==
    ASSUME IInv, NEW a \in Actors, NEW s \in Actor, Goes(a, s), LockMoves(a), lock' \in Hooks \cup {Nobody},
           Fits(a, s, plans, decisions, jobs, lock'),
           UNCHANGED <<plans, jobs, decisions>>, FlagsTyped
    PROVE  IInv'
<1>1. TypeOK'
  BY DEF IInv, TypeOK, FlagsTyped, Goes
<1>2. RowsRefer' /\ RowsGrow /\ AddedUnderLock(a)
  BY Lengths DEF IInv, RowsRefer, RowsGrow, AddedUnderLock
<1>3. DecidedOnce' /\ OneAutomaticFollowUp' /\ RoundsBounded'
  BY DEF IInv, DecidedOnce, OneAutomaticFollowUp, RoundsBounded
<1> QED
  BY <1>1, <1>2, <1>3, StepOK

LEMMA Standing ==
    ASSUME IInv, NEW a \in Actors
    PROVE  /\ actor[a] \in Actor
           /\ Fits(a, actor[a], plans, decisions, jobs, lock)
           /\ lock \in Hooks \cup {Nobody}
           /\ a # Nobody
BY Lengths DEF IInv, TypeOK

LEMMA IdleTyped == Idle \in Actor /\ [Idle EXCEPT !.at = "done"] \in Actor
<1>1. {} \in SUBSET (Nat \ {0})
  OBVIOUS
<1>2. Idle \in Actor
  BY <1>1, SMT DEF Idle, Actor, Steps
<1> QED
  BY <1>2, SMT DEF Actor, Steps

LEMMA ReturnsOK ==
    ASSUME IInv, NEW a \in Actors, actor[a].at # "idle" \/ a \in Users, Returns(a),
           UNCHANGED <<plans, jobs, decisions>>, FlagsTyped
    PROVE  IInv'
<1> DEFINE s == IF a \in Hooks THEN [Idle EXCEPT !.at = "done"] ELSE Idle
<1>1. s \in Actor
  BY IdleTyped
<1>4. Goes(a, s)
  BY DEF Returns, Over
<1>2. LockMoves(a) /\ lock' \in Hooks \cup {Nobody}
  BY Standing DEF Returns, Release, LockMoves
<1>3. Fits(a, s, plans, decisions, jobs, lock')
  BY Standing, CampaignAssumption DEF Fits, Idle, Actors
<1> QED
  BY <1>1, <1>2, <1>3, <1>4, MoveOK

\* Steps an actor may be sent to without a check of anything.
Harmless == {"cost", "planner", "review", "fallback", "pick", "aggregate"}

LEMMA AtOK ==
    ASSUME IInv, NEW a \in Actors, NEW step \in Harmless, At(a, step),
           actor[a].at \notin {"idle", "done", "lost", "aggregate"},
           lock' = lock \/ Release(a),
           UNCHANGED <<plans, jobs, decisions>>, FlagsTyped
    PROVE  IInv'
<1> DEFINE s == [actor[a] EXCEPT !.at = step]
<1>1. s \in Actor /\ Goes(a, s)
  BY Standing DEF At, Actor, Harmless, Steps
<1>2. LockMoves(a) /\ lock' \in Hooks \cup {Nobody}
  BY Standing DEF Release, LockMoves
<1>3. Fits(a, s, plans, decisions, jobs, lock')
  BY Standing DEF Fits, Actor, Harmless
<1> QED
  BY <1>1, <1>2, <1>3, MoveOK

LEMMA RowsStay ==
    ASSUME IInv, UNCHANGED rows, UNCHANGED budget, excused' \subseteq 1..MaxPlans
    PROVE  UNCHANGED <<plans, jobs, decisions>> /\ FlagsTyped
BY DEF IInv, TypeOK, FlagsTyped, rows

LEMMA ExcuseOK ==
    ASSUME IInv, NEW a \in Actors, Excuse(actor[a].plan),
           actor[a].at \notin {"idle", "done", "lost", "aggregate"}
    PROVE  excused' \subseteq 1..MaxPlans
<1>1. actor[a].plan \in 1..Len(plans) /\ Len(plans) \in 1..MaxPlans
  BY Standing, Lengths DEF IInv, Fits
<1>2. excused \subseteq 1..MaxPlans
  BY DEF IInv, TypeOK
<1>3. actor[a].plan \in 1..MaxPlans
  BY <1>1
<1> QED
  BY <1>2, <1>3, Zenon DEF Excuse

LEMMA TerminalStopOK ==
    ASSUME IInv, NEW a \in Actors,
           \/ TerminalStop(a, Returns(a), Returns(a))
           \/ TerminalStop(a, Returns(a), At(a, "planner") /\ UNCHANGED lock),
           actor[a].at \notin {"idle", "done", "lost", "aggregate"},
           UNCHANGED <<plans, jobs, decisions>>, FlagsTyped
    PROVE  IInv'
<1>1. \/ Returns(a)
      \/ At(a, "pick") /\ UNCHANGED lock
      \/ At(a, "planner") /\ UNCHANGED lock
  BY DEF TerminalStop
<1> QED
  BY <1>1, ReturnsOK, AtOK DEF Harmless

-----------------------------------------------------------------------------
(* Steps that leave plans, jobs and decisions as they are. *)

LEMMA ToHarmless ==
    ASSUME IInv, NEW a \in Actors,
           \/ RecordOutcome(a) \/ CostStop(a) \/ PlannerPasses(a) \/ PlannerStops(a)
           \/ PlannerFails(a) \/ PlannerWaits(a) \/ ReviewWaits(a)
           \/ ScheduleBlocked(a) \/ NothingNovel(a) \/ RoundsExhausted(a)
           \/ ExecuteBlocked(a) \/ CreateJobFails(a) \/ Aggregate(a)
    PROVE  IInv'
<1> USE DEF Harmless
<1> DEFINE D == {"idle", "done", "lost", "aggregate"}
<1>1. CASE RecordOutcome(a)
  <2>1. excused' = excused /\ actor[a].at \notin D /\ At(a, "cost")
    BY <1>1 DEF RecordOutcome
  <2> QED
    BY <1>1, <2>1, AtOK, RowsStay DEF RecordOutcome, IInv, TypeOK
<1>2. CASE CostStop(a)
  <2>1. UNCHANGED <<plans, jobs, decisions>> /\ FlagsTyped /\ actor[a].at \notin D
    BY <1>2, RowsStay DEF CostStop, IInv, TypeOK
  <2> QED
    BY <1>2, <2>1, TerminalStopOK, AtOK DEF CostStop
<1>3. CASE PlannerPasses(a)
  BY <1>3, AtOK, RowsStay DEF PlannerPasses, IInv, TypeOK
<1>4. CASE PlannerStops(a)
  BY <1>4, ReturnsOK, RowsStay DEF PlannerStops, IInv, TypeOK
<1>5. CASE PlannerFails(a)
  BY <1>5, AtOK, RowsStay DEF PlannerFails, IInv, TypeOK
<1>6. CASE PlannerWaits(a)
  BY <1>6, ReturnsOK, RowsStay, ExcuseOK DEF PlannerWaits
<1>7. CASE ReviewWaits(a)
  BY <1>7, AtOK, RowsStay DEF ReviewWaits, IInv, TypeOK
<1>8. CASE ScheduleBlocked(a)
  BY <1>8, ReturnsOK, RowsStay DEF ScheduleBlocked, IInv, TypeOK
<1>9. CASE NothingNovel(a)
  BY <1>9, ReturnsOK, RowsStay, ExcuseOK DEF NothingNovel
<1>10. CASE RoundsExhausted(a)
  BY <1>10, TerminalStopOK, RowsStay DEF RoundsExhausted, IInv, TypeOK
<1>11. CASE ExecuteBlocked(a)
  BY <1>11, ReturnsOK, AtOK, RowsStay DEF ExecuteBlocked, ExecutionFails, IInv, TypeOK
<1>12. CASE CreateJobFails(a)
  BY <1>12, ReturnsOK, AtOK, RowsStay, ExcuseOK DEF CreateJobFails, ExecutionFails
<1>13. CASE Aggregate(a)
  BY <1>13, ReturnsOK, RowsStay DEF Aggregate, IInv, TypeOK
<1> QED
  BY <1>1, <1>2, <1>3, <1>4, <1>5, <1>6, <1>7, <1>8, <1>9, <1>10, <1>11, <1>12, <1>13

LEMMA SelectsAgainTyped ==
    ASSUME IInv, NEW type, SelectsAgain(type)
    PROVE  champion' \in BOOLEAN /\ selection' \in {"none", "selected", "reopened"}
BY DEF IInv, TypeOK, SelectsAgain

LEMMA PlannerRepeatsOK ==
    ASSUME IInv, NEW h \in Hooks, PlannerRepeats(h)
    PROVE  IInv'
<1> DEFINE p == actor[h].plan
           d == Newest(DecidedByPlanner(p))
           s == [actor[h] EXCEPT !.at = "schedule", !.path = "planner", !.decision = d]
<1>5. DecidedByPlanner(p) \in SUBSET (1..Len(decisions)) /\ DecidedByPlanner(p) # {}
  BY DEF PlannerRepeats, DecidedByPlanner, PlannerDecisions
<1>1. d \in 1..Len(decisions)
  BY <1>5, NewestInSet, Lengths DEF IInv
<1>2. UNCHANGED <<plans, jobs, decisions>> /\ FlagsTyped /\ h \in Actors
  BY SelectsAgainTyped DEF PlannerRepeats, FlagsTyped, IInv, TypeOK, Actors
<1>3. CASE Returns(h)
  BY <1>2, <1>3, ReturnsOK DEF PlannerRepeats
<1>4. CASE Locks(h) /\ Goes(h, s)
  <2>4. d \in Nat
    BY <1>1, Lengths DEF IInv
  <2>1. s \in Actor
    BY <1>2, <2>4, Standing DEF Actor, Steps
  <2>2. LockMoves(h) /\ lock' \in Hooks \cup {Nobody}
    BY <1>4 DEF Locks, LockMoves
  <2>3. Fits(h, s, plans, decisions, jobs, lock')
    BY <1>1, <1>2, <1>4, Standing DEF Fits, Locks, PlannerRepeats, Actor
  <2> QED
    BY <1>2, <1>4, <2>1, <2>2, <2>3, MoveOK
<1> QED
  BY <1>3, <1>4 DEF PlannerRepeats

LEMMA PlannerAsksOK ==
    ASSUME IInv, NEW h \in Hooks, PlannerAsks(h)
    PROVE  IInv'
<1>1. UNCHANGED <<plans, jobs, decisions>> /\ FlagsTyped /\ h \in Actors
  BY RowsStay DEF PlannerAsks, IInv, TypeOK, Actors
<1>2. PICK r \in {"error", "ADD", "STOP", "WAIT", "SELECT"} :
        Goes(h, [actor[h] EXCEPT !.at = "llm", !.path = "planner", !.say = r])
  BY DEF PlannerAsks
<1> DEFINE s == [actor[h] EXCEPT !.at = "llm", !.path = "planner", !.say = r]
<1>3. s \in Actor
  BY <1>1, Standing DEF Actor, Steps
<1>4. LockMoves(h) /\ lock' \in Hooks \cup {Nobody} /\ lock' = h
  BY DEF PlannerAsks, Locks, LockMoves
<1>5. \A d \in 1..Len(decisions) : decisions[d].plan = s.plan => decisions[d].by # "planner"
  BY <1>1, Standing DEF PlannerAsks, DecidedByPlanner, PlannerDecisions, Actor
<1>6. Fits(h, s, plans, decisions, jobs, lock')
  BY <1>1, <1>4, <1>5, Standing DEF Fits, PlannerAsks, Actor
<1> QED
  BY <1>1, <1>2, <1>3, <1>4, <1>6, MoveOK

LEMMA ReviewRepeatsOK ==
    ASSUME IInv, NEW h \in Hooks, ReviewRepeats(h)
    PROVE  IInv'
<1> DEFINE d == Newest(ActionDecisions(Latest))
           s == [actor[h] EXCEPT !.at = "schedule", !.path = "review",
                                 !.plan = Latest, !.decision = d]
<1>1. d \in 1..Len(decisions)
  BY NewestInSet, Lengths DEF ReviewRepeats, ActionDecisions, IInv
<1>2. UNCHANGED <<plans, jobs, decisions>> /\ FlagsTyped /\ h \in Actors
  BY SelectsAgainTyped DEF ReviewRepeats, FlagsTyped, IInv, TypeOK, Actors
<1>3. CASE Returns(h)
  BY <1>2, <1>3, ReturnsOK DEF ReviewRepeats
<1>4. CASE Locks(h) /\ Goes(h, s)
  <2>4. d \in Nat /\ Latest \in 0..MaxPlans
    BY <1>1, Lengths DEF IInv, Latest
  <2>1. s \in Actor
    BY <1>2, <2>4, Standing DEF Actor, Steps
  <2>2. LockMoves(h) /\ lock' \in Hooks \cup {Nobody}
    BY <1>4 DEF Locks, LockMoves
  <2>3. Fits(h, s, plans, decisions, jobs, lock')
    BY <1>1, <1>2, <1>4, Standing, Lengths DEF Fits, Locks, ReviewRepeats, Actor, Latest, IInv
  <2> QED
    BY <1>2, <1>4, <2>1, <2>2, <2>3, MoveOK
<1> QED
  BY <1>3, <1>4 DEF ReviewRepeats

LEMMA FallbackOK ==
    ASSUME IInv, NEW h \in Hooks, Fallback(h)
    PROVE  IInv'
<1> DEFINE s == [actor[h] EXCEPT !.plan = jobs[h].plan, !.at = "pick"]
<1>1. UNCHANGED <<plans, jobs, decisions>> /\ FlagsTyped /\ h \in Actors
  BY RowsStay DEF Fallback, IInv, TypeOK, Actors
<1>2. CASE Returns(h)
  BY <1>1, <1>2, ReturnsOK DEF Fallback
<1>3. CASE Goes(h, s) /\ UNCHANGED lock
  <2>1. jobs[h].plan \in 1..Len(plans)
    BY <1>1, Standing DEF Fits, Fallback, IInv, RowsRefer
  <2>4. jobs[h].plan \in 0..MaxPlans
    BY <2>1, Lengths DEF IInv
  <2>2. s \in Actor
    BY <1>1, <2>4, Standing DEF Actor, Steps
  <2>3. Fits(h, s, plans, decisions, jobs, lock')
    BY <1>1, <1>3, <2>1, Standing DEF Fits, Fallback, Actor
  <2> QED
    BY <1>1, <1>3, <2>2, <2>3, MoveOK, Standing DEF LockMoves
<1> QED
  BY <1>2, <1>3 DEF Fallback

LEMMA ReusePlanOK ==
    ASSUME IInv, NEW a \in Actors, ReusePlan(a)
    PROVE  IInv'
<1>1. UNCHANGED <<plans, jobs, decisions>> /\ FlagsTyped
  BY RowsStay DEF ReusePlan, IInv, TypeOK
<1>2. CASE Returns(a)
  BY <1>1, <1>2, ReturnsOK DEF ReusePlan
<1>3. CASE \E p \in 1..Len(plans) :
              Goes(a, [actor[a] EXCEPT !.at = "execute", !.plan = p]) /\ UNCHANGED lock
  <2>1. PICK p \in 1..Len(plans) : Goes(a, [actor[a] EXCEPT !.at = "execute", !.plan = p])
    BY <1>3
  <2> DEFINE s == [actor[a] EXCEPT !.at = "execute", !.plan = p]
  <2>4. p \in 0..MaxPlans
    BY Lengths DEF IInv
  <2>2. s \in Actor
    BY <2>4, Standing DEF Actor, Steps
  <2>3. Fits(a, s, plans, decisions, jobs, lock')
    BY <1>3, Standing DEF Fits, ReusePlan, Actor
  <2> QED
    BY <1>1, <1>3, <2>1, <2>2, <2>3, MoveOK, Standing DEF LockMoves
<1> QED
  BY <1>2, <1>3 DEF ReusePlan, FollowUps

LEMMA SchedulePlanOK ==
    ASSUME IInv, NEW a \in Actors, SchedulePlan(a)
    PROVE  IInv'
<1> DEFINE s == [actor[a] EXCEPT !.at = "create"]
<1>1. UNCHANGED <<plans, jobs, decisions>> /\ FlagsTyped /\ Goes(a, s)
  BY RowsStay DEF SchedulePlan, IInv, TypeOK, At
<1>2. s \in Actor
  BY Standing DEF Actor, Steps
<1>3. RoundsLeft => Cardinality(AutoPlans(plans)) < MaxRounds
  <2> DEFINE All == {p \in 1..Len(plans) : plans[p].source # 0}
  <2>6. Len(plans) \in Int
    BY Lengths DEF IInv
  <2>7. IsFiniteSet(1..Len(plans))
    BY <2>6, FS_Interval
  <2>4. IsFiniteSet(1..Len(plans)) /\ All \in SUBSET (1..Len(plans))
    BY <2>7
  <2>5. IsFiniteSet(All)
    BY <2>4, FS_Subset
  <2>1. IsFiniteSet(All) /\ AutoPlans(plans) \in SUBSET All
    BY <2>5 DEF AutoPlans
  <2>2. Cardinality(AutoPlans(plans)) <= Cardinality(All)
    BY <2>1, FS_Subset
  <2>3. Cardinality(All) \in Nat /\ Cardinality(AutoPlans(plans)) \in Nat
    BY <2>1, FS_Subset, FS_CardinalityType
  <2> QED
    BY <2>2, <2>3 DEF RoundsLeft, Rounds
<1>4. \A p \in 1..Len(plans) : plans[p].source # actor[a].decision
  BY DEF SchedulePlan, PlanExists, FollowUps
<1>5. Fits(a, s, plans, decisions, jobs, lock')
  BY <1>3, <1>4, Standing DEF Fits, SchedulePlan, Actor
<1> QED
  BY <1>1, <1>2, <1>5, MoveOK, Standing DEF LockMoves, SchedulePlan

LEMMA ExecutePlanOK ==
    ASSUME IInv, NEW a \in Actors, ExecutePlan(a)
    PROVE  IInv'
<1> DEFINE s == [actor[a] EXCEPT !.at = "jobs", !.todo = Missing(actor[a].plan), !.skipped = FALSE]
<1>1. UNCHANGED <<plans, jobs, decisions>> /\ FlagsTyped /\ Goes(a, s)
  BY RowsStay DEF ExecutePlan, IInv, TypeOK
<1>2. actor[a].plan \in 1..Len(plans)
  BY Standing DEF ExecutePlan, Fits
<1>3. plans[actor[a].plan] \in Plan
  BY <1>2, Lengths DEF IInv
<1>4. Missing(actor[a].plan) \subseteq Nat \ {0}
  BY <1>3 DEF Missing, Plan
<1>5. s \in Actor
  BY <1>4, Standing DEF Actor, Steps
<1>6. Fits(a, s, plans, decisions, jobs, lock')
  BY Standing DEF Fits, ExecutePlan, Actor
<1> QED
  BY <1>1, <1>5, <1>6, MoveOK, Standing DEF LockMoves, ExecutePlan

LEMMA SkipForCostOK ==
    ASSUME IInv, NEW a \in Actors, SkipForCost(a)
    PROVE  IInv'
<1>1. UNCHANGED <<plans, jobs, decisions>> /\ FlagsTyped
  BY RowsStay DEF SkipForCost, IInv, TypeOK
<1>2. PICK e \in actor[a].todo :
        Goes(a, [actor[a] EXCEPT !.todo = @ \ {e}, !.skipped = TRUE])
  BY DEF SkipForCost
<1> DEFINE s == [actor[a] EXCEPT !.todo = @ \ {e}, !.skipped = TRUE]
<1>3. s \in Actor
  BY Standing DEF Actor
<1>4. Fits(a, s, plans, decisions, jobs, lock')
  BY Standing DEF Fits, SkipForCost, Actor
<1> QED
  BY <1>1, <1>2, <1>3, <1>4, MoveOK, Standing DEF LockMoves, SkipForCost

LEMMA SkipDuplicateOK ==
    ASSUME IInv, NEW a \in Actors, SkipDuplicate(a)
    PROVE  IInv'
<1>1. UNCHANGED <<plans, jobs, decisions>> /\ FlagsTyped
  BY RowsStay, ExcuseOK, Standing DEF SkipDuplicate
<1>2. PICK e \in actor[a].todo : Goes(a, [actor[a] EXCEPT !.todo = @ \ {e}])
  BY DEF SkipDuplicate
<1> DEFINE s == [actor[a] EXCEPT !.todo = @ \ {e}]
<1>3. s \in Actor
  BY Standing DEF Actor
<1>4. Fits(a, s, plans, decisions, jobs, lock')
  BY Standing DEF Fits, SkipDuplicate, Actor
<1> QED
  BY <1>1, <1>2, <1>3, <1>4, MoveOK, Standing DEF LockMoves, SkipDuplicate

LEMMA ExecutedOK ==
    ASSUME IInv, NEW a \in Actors, Executed(a),
           actor[a].at \notin {"idle", "done", "lost", "aggregate"},
           UNCHANGED <<plans, jobs, decisions>>, FlagsTyped
    PROVE  IInv'
BY ReturnsOK, AtOK DEF Executed, Harmless

LEMMA JobsCreatedOK ==
    ASSUME IInv, NEW a \in Actors, JobsCreated(a)
    PROVE  IInv'
<1>1. actor[a].plan \in 1..MaxPlans /\ actor[a].at = "jobs"
  BY Standing, Lengths DEF JobsCreated, Fits, IInv
<1>2. capped' \subseteq 1..MaxPlans
  BY <1>1, Zenon DEF JobsCreated, IInv, TypeOK
<1>3. UNCHANGED <<plans, jobs, decisions>> /\ FlagsTyped
  BY <1>2 DEF JobsCreated, IInv, TypeOK, FlagsTyped
<1>4. \/ Executed(a)
      \/ At(a, "pick") /\ UNCHANGED lock
  BY DEF JobsCreated, TerminalStop
<1> QED
  BY <1>1, <1>3, <1>4, ExecutedOK, AtOK DEF Harmless

LEMMA RequestTyped ==
    ASSUME IInv, NEW u, Request(u)
    PROVE  budget' \in [requests: 0..MaxRequests, faults: 0..MaxFaults]
<1>1. budget \in [requests: 0..MaxRequests, faults: 0..MaxFaults]
  BY DEF IInv, TypeOK
<1>2. budget.requests - 1 \in 0..MaxRequests
  BY <1>1 DEF Request
<1> QED
  BY <1>1, <1>2 DEF Request

LEMMA ExecuteRequestOK ==
    ASSUME IInv, NEW u \in Users, NEW p \in 1..Len(plans), ExecuteRequest(u, p)
    PROVE  IInv'
<1> DEFINE s == [actor[u] EXCEPT !.at = "execute", !.path = "user", !.plan = p]
<1>1. UNCHANGED <<plans, jobs, decisions>> /\ Goes(u, s) /\ u \in Actors /\ u \notin Hooks
  BY DEF ExecuteRequest, rows, Actors
<1>2. FlagsTyped
  BY RequestTyped DEF ExecuteRequest, rows, IInv, TypeOK, FlagsTyped
<1>3. p \in 0..MaxPlans
  BY Lengths DEF IInv
<1>4. s \in Actor
  BY <1>1, <1>3, Standing DEF Actor, Steps
<1>5. Fits(u, s, plans, decisions, jobs, lock')
  BY <1>1, Standing DEF Fits, Actor
<1> QED
  BY <1>1, <1>2, <1>4, <1>5, MoveOK, Standing DEF LockMoves, ExecuteRequest

-----------------------------------------------------------------------------
(* Steps that decide. *)

\* Jobs may end, but they stay and keep their plan.
JobsKept ==
    /\ jobs' \in Seq(Job) /\ Len(jobs') = Len(jobs)
    /\ \A j \in 1..Len(jobs) : jobs'[j].plan = jobs[j].plan

LEMMA JobsStay == ASSUME IInv, UNCHANGED jobs PROVE JobsKept
BY DEF IInv, TypeOK, JobsKept

LEMMA DecideOK ==
    ASSUME IInv, NEW a \in Actors, NEW s \in Actor, Goes(a, s), LockMoves(a),
           lock' \in Hooks \cup {Nobody}, plans' = plans, JobsKept, FlagsTyped,
           NEW p \in 1..Len(plans), NEW type, NEW by, Decides(p, type, by),
           [plan |-> p, type |-> type, by |-> by] \in Decision,
           by = "planner" =>
              /\ lock = a
              /\ \A d \in 1..Len(decisions) : decisions[d].plan = p => decisions[d].by # "planner",
           Fits(a, s, plans, decisions', jobs, lock')
    PROVE  IInv'
<1> DEFINE n == Len(decisions)
           new == [plan |-> p, type |-> type, by |-> by]
<1>1. /\ decisions' \in Seq(Decision) /\ Len(decisions') = n + 1 /\ n \in Nat
      /\ \A d \in 1..n : decisions'[d] = decisions[d]
      /\ decisions'[n + 1] = new
  BY AppendSeq DEF Decides, IInv, TypeOK
<1>2. TypeOK'
  BY <1>1 DEF IInv, TypeOK, FlagsTyped, Goes, JobsKept
<1>3. RowsRefer'
  <2>1. \A j \in 1..Len(jobs') : jobs'[j].plan \in 1..Len(plans')
    BY DEF IInv, RowsRefer, JobsKept
  <2>2. \A d \in 1..n : decisions'[d].plan \in 1..Len(plans')
    BY <1>1 DEF IInv, RowsRefer
  <2>3. decisions'[n + 1].plan \in 1..Len(plans')
    BY <1>1
  <2>4. \A d \in 1..Len(decisions') : d \in 1..n \/ d = n + 1
    BY <1>1
  <2> QED
    BY <2>1, <2>2, <2>3, <2>4 DEF RowsRefer
<1>4. RowsGrow
  BY <1>1, Lengths DEF IInv, RowsGrow, JobsKept
<1>5. AddedUnderLock(a)
  BY <1>1 DEF AddedUnderLock
<1>6. DecidedOnce'
  <2> SUFFICES ASSUME NEW d \in 1..(n + 1), NEW e \in 1..(n + 1),
                      decisions'[d].by = "planner", decisions'[e].by = "planner",
                      decisions'[d].plan = decisions'[e].plan
               PROVE  d = e
    BY <1>1 DEF DecidedOnce
  <2>1. CASE d \in 1..n /\ e \in 1..n
    BY <1>1, <2>1 DEF IInv, DecidedOnce
  <2>2. CASE d = n + 1 \/ e = n + 1
    BY <1>1, <2>2
  <2> QED
    BY <1>1, <2>1, <2>2
<1>7. OneAutomaticFollowUp' /\ RoundsBounded'
  BY DEF IInv, OneAutomaticFollowUp, RoundsBounded
<1>8. Fits(a, s, plans', decisions', jobs', lock')
  BY DEF Fits, JobsKept
<1> QED
  BY <1>2, <1>3, <1>4, <1>5, <1>6, <1>7, <1>8, StepOK

LEMMA SelectsTyped ==
    ASSUME IInv, NEW type, Selects(type)
    PROVE  champion' \in BOOLEAN /\ selection' \in {"none", "selected", "reopened"}
BY DEF IInv, TypeOK, Selects

LEMMA PlannerDecidesOK ==
    ASSUME IInv, NEW h \in Hooks, PlannerDecides(h)
    PROVE  IInv'
<1> DEFINE p == actor[h].plan
           type == actor[h].say
           next == [actor[h] EXCEPT !.at = "schedule", !.decision = Len(decisions')]
           over == [Idle EXCEPT !.at = "done"]
<1>1. h \in Actors /\ plans' = plans /\ UNCHANGED jobs /\ JobsKept
  BY JobsStay DEF Actors, PlannerDecides
<1>2. FlagsTyped
  BY SelectsTyped DEF PlannerDecides, FlagsTyped, IInv, TypeOK
<1>3. /\ p \in 1..Len(plans) /\ lock = h /\ Decides(p, type, "planner") /\ actor[h].path = "planner"
      /\ \A d \in 1..Len(decisions) : decisions[d].plan = p => decisions[d].by # "planner"
      /\ h \in 1..Len(jobs)
  BY <1>1, Standing DEF PlannerDecides, Fits
<1>4. p \in 1..MaxPlans
  BY <1>3, Lengths DEF IInv
<1>5. [plan |-> p, type |-> type, by |-> "planner"] \in Decision
  BY <1>4 DEF PlannerDecides, Decision
<1>6. Len(decisions') = Len(decisions) + 1 /\ Len(decisions) \in Nat
  BY <1>5, AppendSeq DEF Decides, PlannerDecides, IInv, TypeOK
<1>7. CASE Goes(h, next) /\ UNCHANGED lock
  <2>4. Len(decisions') \in Nat
    BY <1>6
  <2>1. next \in Actor
    BY <1>1, <2>4, Standing DEF Actor, Steps
  <2>2. Fits(h, next, plans, decisions', jobs, lock')
    BY <1>1, <1>3, <1>6, <1>7, Standing DEF Fits, Actor
  <2> QED
    BY <1>1, <1>2, <1>3, <1>5, <1>7, <2>1, <2>2, DecideOK DEF LockMoves
<1>8. CASE Returns(h)
  <2>1. over \in Actor /\ Goes(h, over)
    BY <1>8, IdleTyped DEF Returns, Over
  <2>2. Fits(h, over, plans, decisions', jobs, lock')
    BY <1>3 DEF Fits, Idle
  <2>3. LockMoves(h) /\ lock' \in Hooks \cup {Nobody}
    BY <1>3, <1>8 DEF LockMoves, Returns, Release
  <2> QED
    BY <1>1, <1>2, <1>3, <1>5, <2>1, <2>2, <2>3, DecideOK
<1> QED
  BY <1>7, <1>8 DEF PlannerDecides

LEMMA ReviewDecidesOK ==
    ASSUME IInv, NEW h \in Hooks, ReviewDecides(h)
    PROVE  IInv'
<1>1. PICK type \in ReviewTypes(Latest) :
        /\ Decides(Latest, type, "review")
        /\ Selects(type)
        /\ IF type = "ADD"
           THEN /\ Locks(h)
                /\ Goes(h, [actor[h] EXCEPT !.at = "schedule", !.path = "review",
                                            !.plan = Latest, !.decision = Len(decisions')])
           ELSE lock = Nobody /\ Returns(h)
  BY DEF ReviewDecides
<1> DEFINE next == [actor[h] EXCEPT !.at = "schedule", !.path = "review",
                                    !.plan = Latest, !.decision = Len(decisions')]
           over == [Idle EXCEPT !.at = "done"]
<1>2. h \in Actors /\ plans' = plans /\ UNCHANGED jobs /\ JobsKept
  BY JobsStay DEF Actors, ReviewDecides
<1>3. FlagsTyped
  BY <1>1, SelectsTyped DEF ReviewDecides, FlagsTyped, IInv, TypeOK
<1>4. Latest \in 1..Len(plans) /\ Latest \in 1..MaxPlans /\ h \in 1..Len(jobs)
  BY <1>2, Standing, Lengths DEF IInv, Latest, ReviewDecides, Fits
<1>5. [plan |-> Latest, type |-> type, by |-> "review"] \in Decision
  BY <1>4 DEF ReviewTypes, Decision
<1>6. Len(decisions') = Len(decisions) + 1 /\ Len(decisions) \in Nat
  BY <1>1, <1>5, AppendSeq DEF Decides, IInv, TypeOK
<1>7. CASE Goes(h, next) /\ Locks(h)
  <2>4. Len(decisions') \in Nat /\ Latest \in 0..MaxPlans
    BY <1>4, <1>6
  <2>1. next \in Actor
    BY <1>2, <2>4, Standing DEF Actor, Steps
  <2>2. Fits(h, next, plans, decisions', jobs, lock')
    BY <1>2, <1>4, <1>6, <1>7, Standing DEF Fits, Actor, Locks
  <2>3. LockMoves(h) /\ lock' \in Hooks \cup {Nobody}
    BY <1>7 DEF LockMoves, Locks
  <2> QED
    BY <1>1, <1>2, <1>3, <1>4, <1>5, <1>7, <2>1, <2>2, <2>3, DecideOK
<1>8. CASE Returns(h)
  <2>1. over \in Actor /\ Goes(h, over)
    BY <1>8, IdleTyped DEF Returns, Over
  <2>2. Fits(h, over, plans, decisions', jobs, lock')
    BY <1>4 DEF Fits, Idle
  <2>3. LockMoves(h) /\ lock' \in Hooks \cup {Nobody}
    BY <1>2, <1>8, Standing DEF LockMoves, Returns, Release
  <2> QED
    BY <1>1, <1>2, <1>3, <1>4, <1>5, <2>1, <2>2, <2>3, DecideOK
<1> QED
  BY <1>1, <1>7, <1>8

LEMMA PickChampionOK ==
    ASSUME IInv, NEW a \in Actors, PickChampion(a)
    PROVE  IInv'
<1> DEFINE p == actor[a].plan
           over == IF a \in Hooks THEN [Idle EXCEPT !.at = "done"] ELSE Idle
           next == [actor[a] EXCEPT !.at = "aggregate"]
<1>1. plans' = plans /\ UNCHANGED jobs /\ JobsKept /\ Decides(p, "SELECT", "fallback")
  BY JobsStay DEF PickChampion
<1>2. FlagsTyped
  BY SelectsTyped DEF PickChampion, FlagsTyped, IInv, TypeOK
<1>3. p \in 1..Len(plans) /\ p \in 1..MaxPlans /\ (a \in Hooks => a \in 1..Len(jobs))
  BY Standing, Lengths DEF PickChampion, Fits, IInv
<1>4. [plan |-> p, type |-> "SELECT", by |-> "fallback"] \in Decision
  BY <1>3 DEF Decision
<1>5. CASE Goes(a, next) /\ UNCHANGED lock
  <2>1. next \in Actor
    BY Standing DEF Actor, Steps
  <2>2. Fits(a, next, plans, decisions', jobs, lock')
    BY <1>3, Standing DEF Fits, Actor
  <2> QED
    BY <1>1, <1>2, <1>3, <1>4, <1>5, <2>1, <2>2, DecideOK, Standing DEF LockMoves
<1>6. CASE Returns(a)
  <2>1. over \in Actor
    BY IdleTyped
  <2>2. Goes(a, over)
    BY <1>6 DEF Returns, Over
  <2>3. Fits(a, over, plans, decisions', jobs, lock')
    BY <1>3 DEF Fits, Idle
  <2>4. LockMoves(a) /\ lock' \in Hooks \cup {Nobody}
    BY <1>6, Standing DEF LockMoves, Returns, Release
  <2> QED
    BY <1>1, <1>2, <1>3, <1>4, <2>1, <2>2, <2>3, <2>4, DecideOK
<1> QED
  BY <1>5, <1>6 DEF PickChampion, Executed, At

LEMMA IdleUser ==
    ASSUME IInv, NEW u \in Users, actor[u].at = "idle"
    PROVE  /\ u \in Actors /\ u \notin Hooks /\ actor[u] \in Actor
           /\ UNCHANGED actor => Goes(u, actor[u])
           /\ \A D : Fits(u, actor[u], plans, D, jobs, lock)
           /\ UNCHANGED lock => LockMoves(u) /\ lock' \in Hooks \cup {Nobody}
<1>1. u \in Actors /\ u \notin Hooks
  BY DEF Actors
<1>2. UNCHANGED actor => Goes(u, actor[u])
  BY <1>1 DEF Goes, IInv, TypeOK
<1> QED
  BY <1>1, <1>2, Standing DEF Fits, LockMoves

LEMMA ReviewTyped ==
    ASSUME IInv, NEW type \in {"ADD", "STOP", "SELECT", "WAIT"}
    PROVE  Latest \in 1..Len(plans) /\ [plan |-> Latest, type |-> type, by |-> "user"] \in Decision
<1>1. Latest \in 1..Len(plans) /\ Latest \in 1..MaxPlans
  BY Lengths DEF IInv, Latest
<1> QED
  BY <1>1 DEF Decision

LEMMA ReviewProjectOK ==
    ASSUME IInv, NEW u \in Users, ReviewProject(u)
    PROVE  IInv'
<1>1. PICK type \in {"ADD", "STOP", "SELECT", "WAIT"} : Reviews(type)
  BY DEF ReviewProject
<1>2. plans' = plans /\ UNCHANGED lock /\ UNCHANGED actor /\ JobsKept /\ actor[u].at = "idle"
  BY JobsStay DEF ReviewProject, Request
<1>3. FlagsTyped
  BY <1>1, SelectsTyped, RequestTyped DEF ReviewProject, Reviews, FlagsTyped, IInv, TypeOK
<1> QED
  BY <1>1, <1>2, <1>3, ReviewTyped, IdleUser, DecideOK DEF Reviews

LEMMA ReopenOK ==
    ASSUME IInv, NEW u \in Users, NEW p \in 1..Len(plans), Reopen(u, p)
    PROVE  IInv'
<1>1. plans' = plans /\ UNCHANGED lock /\ UNCHANGED actor /\ JobsKept /\ actor[u].at = "idle"
  BY JobsStay DEF Reopen, Request
<1>2. FlagsTyped
  BY RequestTyped DEF Reopen, FlagsTyped, IInv, TypeOK
<1>3. p \in 1..MaxPlans
  BY Lengths DEF IInv
<1>4. [plan |-> p, type |-> "REOPEN", by |-> "user"] \in Decision
  BY <1>3 DEF Decision
<1> QED
  BY <1>1, <1>2, <1>4, IdleUser, DecideOK DEF Reopen

LEMMA ScheduleFollowUpOK ==
    ASSUME IInv, NEW u \in Users, ScheduleFollowUp(u)
    PROVE  IInv'
<1> DEFINE n == Len(decisions)
           s(d, p) == [actor[u] EXCEPT !.at = "schedule", !.path = "user",
                                       !.decision = d, !.plan = p]
<1>1. /\ UNCHANGED <<plans, jobs>> /\ UNCHANGED lock /\ JobsKept /\ actor[u].at = "idle"
      /\ n \in Nat
  BY JobsStay, Lengths DEF ScheduleFollowUp, Request, IInv
<1>2. UNCHANGED <<champion, selection>> => FlagsTyped
  BY RequestTyped DEF ScheduleFollowUp, FlagsTyped, IInv, TypeOK
<1>3. \A d \in Nat, p \in 1..Len(plans) : s(d, p) \in Actor
  <2>1. \A p \in 1..Len(plans) : p \in 0..MaxPlans
    BY Lengths DEF IInv
  <2> QED
    BY <1>1, <2>1, IdleUser DEF Actor, Steps
<1>4. CASE /\ n > 0 /\ UNCHANGED <<decisions, champion, selection>>
           /\ Goes(u, s(n, decisions[n].plan))
  <2>1. n \in 1..Len(decisions) /\ decisions[n].plan \in 1..Len(plans)
    BY <1>1, <1>4 DEF IInv, RowsRefer
  <2>2. Fits(u, s(n, decisions[n].plan), plans, decisions, jobs, lock')
    BY <1>1, <2>1, IdleUser DEF Fits, Actor
  <2> QED
    BY <1>1, <1>2, <1>3, <1>4, <2>1, <2>2, IdleUser, MoveOK
<1>5. CASE \E type \in {"ADD", "STOP", "SELECT", "WAIT"} :
              /\ Reviews(type)
              /\ IF type = "ADD" THEN Goes(u, s(n + 1, Latest)) ELSE UNCHANGED actor
  <2>1. PICK type \in {"ADD", "STOP", "SELECT", "WAIT"} :
              /\ Reviews(type)
              /\ IF type = "ADD" THEN Goes(u, s(n + 1, Latest)) ELSE UNCHANGED actor
    BY <1>5
  <2>2. FlagsTyped
    BY <2>1, SelectsTyped, RequestTyped DEF ScheduleFollowUp, Reviews, FlagsTyped, IInv, TypeOK
  <2>3. CASE UNCHANGED actor
    BY <1>1, <2>1, <2>2, <2>3, ReviewTyped, IdleUser, DecideOK DEF Reviews
  <2>4. CASE Goes(u, s(n + 1, Latest))
    <3>1. Latest \in 1..Len(plans)
      BY <2>1, ReviewTyped
    <3>2. Len(decisions') = n + 1
      BY <2>1, ReviewTyped, AppendSeq DEF Reviews, Decides, IInv, TypeOK
    <3>3. Fits(u, s(n + 1, Latest), plans, decisions', jobs, lock')
      BY <1>1, <3>1, <3>2, IdleUser DEF Fits, Actor
    <3> HIDE DEF s
    <3>4. s(n + 1, Latest) \in Actor
      <4>1. n + 1 \in Nat
        BY <1>1
      <4> QED
        BY <1>3, <3>1, <4>1
    <3>5. /\ LockMoves(u) /\ lock' \in Hooks \cup {Nobody} /\ u \in Actors
          /\ [plan |-> Latest, type |-> type, by |-> "user"] \in Decision
          /\ Decides(Latest, type, "user")
      BY <1>1, <2>1, ReviewTyped, IdleUser DEF Reviews
    <3> QED
      BY <1>1, <2>2, <2>4, <3>1, <3>3, <3>4, <3>5, DecideOK
  <2> QED
    BY <2>1, <2>3, <2>4
<1> QED
  BY <1>4, <1>5 DEF ScheduleFollowUp

LEMMA JobsMoveOK ==
    ASSUME IInv, NEW a \in Actors, NEW s \in Actor, Goes(a, s), UNCHANGED <<plans, decisions, lock>>,
           JobsKept, FlagsTyped, Fits(a, s, plans, decisions, jobs, lock)
    PROVE  IInv'
<1>1. TypeOK'
  BY DEF IInv, TypeOK, FlagsTyped, Goes, JobsKept
<1>2. RowsRefer' /\ RowsGrow /\ AddedUnderLock(a) /\ LockMoves(a)
  BY Lengths DEF IInv, RowsRefer, RowsGrow, AddedUnderLock, JobsKept, LockMoves
<1>3. DecidedOnce' /\ OneAutomaticFollowUp' /\ RoundsBounded'
  BY DEF IInv, DecidedOnce, OneAutomaticFollowUp, RoundsBounded
<1>4. Fits(a, s, plans', decisions', jobs', lock')
  BY DEF Fits, JobsKept
<1> QED
  BY <1>1, <1>2, <1>3, <1>4, StepOK

LEMMA CancelPlanOK ==
    ASSUME IInv, NEW u \in Users, NEW p \in 1..Len(plans), CancelPlan(u, p)
    PROVE  IInv'
<1> DEFINE open == {j \in JobsOf(p) : jobs[j].row = "open"}
           s == [actor[u] EXCEPT !.at = "cancel", !.path = "user", !.plan = p, !.todo = open]
<1>1. UNCHANGED <<plans, jobs, decisions, lock>> /\ Goes(u, s) /\ u \in Actors /\ u \notin Hooks
  BY DEF CancelPlan, rows, Actors
<1>2. p \in 1..MaxPlans
  BY Lengths DEF IInv
<1>3. excused' \subseteq 1..MaxPlans
  BY <1>2, Zenon DEF CancelPlan, Excuse, IInv, TypeOK
<1>4. FlagsTyped
  BY <1>3, RequestTyped DEF CancelPlan, rows, FlagsTyped, IInv, TypeOK
<1>5. open \subseteq 1..Len(jobs) /\ open \subseteq Nat \ {0}
  BY Lengths DEF JobsOf, IInv
<1> HIDE DEF open
<1>6. s \in Actor
  <2> DEFINE t == [actor[u] EXCEPT !.at = "cancel", !.path = "user", !.plan = p]
  <2>1. p \in 0..MaxPlans /\ actor[u] \in Actor /\ open \in SUBSET (Nat \ {0})
    BY <1>1, <1>2, <1>5, Standing
  <2>2. t \in Actor
    BY <2>1 DEF Actor, Steps
  <2>3. s = [t EXCEPT !.todo = open]
    BY <2>1 DEF Actor
  <2> HIDE DEF t
  <2>4. [t EXCEPT !.todo = open] \in Actor
    BY <2>1, <2>2 DEF Actor
  <2> QED
    BY <2>3, <2>4
<1>7. Fits(u, s, plans, decisions, jobs, lock')
  BY <1>1, <1>5, Standing DEF Fits, Actor
<1> QED
  BY <1>1, <1>4, <1>6, <1>7, MoveOK, Standing DEF LockMoves

LEMMA CancelJobOK ==
    ASSUME IInv, NEW a \in Actors, CancelJob(a)
    PROVE  IInv'
<1> DEFINE s == actor[a]
           next(j) == [s EXCEPT !.todo = @ \ {j}]
<1>1. s.at = "cancel" /\ a \in Users /\ s.todo \subseteq 1..Len(jobs) /\ s.plan \in 1..Len(plans)
  BY Standing DEF CancelJob, Fits
<1>2. UNCHANGED <<plans, decisions, lock>> /\ FlagsTyped
  BY DEF CancelJob, IInv, TypeOK, FlagsTyped
<1>3. PICK j \in s.todo :
        /\ \/ jobs' = [jobs EXCEPT ![j].row = IF @ = "open" THEN "failed" ELSE @,
                                   ![j].summary = "failed"]
           \/ jobs' = [jobs EXCEPT ![j].row = IF @ = "open" THEN "failed" ELSE @]
           \/ UNCHANGED jobs
        /\ Goes(a, next(j)) \/ Over(a)
  BY DEF CancelJob
<1>4. JobsKept
  <2>1. j \in 1..Len(jobs) /\ jobs[j] \in Job /\ jobs \in Seq(Job)
    BY <1>1, Lengths DEF IInv, TypeOK
  <2>2. ASSUME NEW row \in Job, row.plan = jobs[j].plan, jobs' = [jobs EXCEPT ![j] = row]
        PROVE  JobsKept
    BY <2>1, <2>2, Lengths DEF IInv, JobsKept
  <2>3. CASE jobs' = [jobs EXCEPT ![j].row = IF @ = "open" THEN "failed" ELSE @,
                                  ![j].summary = "failed"]
    BY <2>1, <2>2, <2>3 DEF Job
  <2>4. CASE jobs' = [jobs EXCEPT ![j].row = IF @ = "open" THEN "failed" ELSE @]
    BY <2>1, <2>2, <2>4 DEF Job
  <2> QED
    BY <1>3, <2>3, <2>4, JobsStay
<1>5. next(j) \in Actor /\ Fits(a, next(j), plans, decisions, jobs, lock)
  BY <1>1, Standing DEF Actor, Fits
<1>6. Idle \in Actor /\ Fits(a, Idle, plans, decisions, jobs, lock) /\ (Over(a) => Goes(a, Idle))
  BY <1>1, IdleTyped DEF Fits, Idle, Over
<1> QED
  BY <1>2, <1>3, <1>4, <1>5, <1>6, JobsMoveOK

LEMMA CancelledOK ==
    ASSUME IInv, NEW a \in Actors, Cancelled(a)
    PROVE  IInv'
<1> DEFINE p == actor[a].plan
           next == [actor[a] EXCEPT !.at = "aggregate"]
<1>1. actor[a].at = "cancel" /\ a \in Users /\ p \in 1..Len(plans) /\ p \in 1..MaxPlans
  BY Standing, Lengths DEF Cancelled, Fits, IInv
<1>2. UNCHANGED <<plans, jobs, lock>> /\ JobsKept /\ FlagsTyped
  BY JobsStay DEF Cancelled, IInv, TypeOK, FlagsTyped
<1>3. PICK s \in {next, Idle} : Goes(a, s)
  BY <1>1 DEF Cancelled, At, Over
<1>4. next \in Actor /\ Idle \in Actor
  BY <1>1, IdleTyped, Standing DEF Actor, Steps
<1>5. \A D : Fits(a, next, plans, D, jobs, lock) /\ Fits(a, Idle, plans, D, jobs, lock)
  BY <1>1, Standing DEF Fits, Idle, Actor
<1>6. s \in Actor /\ \A D : Fits(a, s, plans, D, jobs, lock)
  BY <1>4, <1>5
<1>7. CASE UNCHANGED decisions
  BY <1>2, <1>3, <1>6, <1>7, JobsMoveOK
<1>8. CASE Decides(p, "SELECT", "user")
  <2>1. [plan |-> p, type |-> "SELECT", by |-> "user"] \in Decision
    BY <1>1 DEF Decision
  <2> QED
    BY <1>1, <1>2, <1>3, <1>6, <1>8, <2>1, Standing, DecideOK DEF LockMoves
<1> QED
  BY <1>7, <1>8 DEF Cancelled

-----------------------------------------------------------------------------
(* Steps that create plans and jobs. *)

LEMMA CreateJobOK ==
    ASSUME IInv, NEW a \in Actors, CreateJob(a)
    PROVE  IInv'
<1> DEFINE p == actor[a].plan
<1>1. PICK e \in actor[a].todo :
        /\ jobs' = Append(jobs, [plan |-> p, experiment |-> e, row |-> "open", summary |-> "none"])
        /\ Goes(a, [actor[a] EXCEPT !.todo = @ \ {e}])
  BY DEF CreateJob
<1> DEFINE s == [actor[a] EXCEPT !.todo = @ \ {e}]
           new == [plan |-> p, experiment |-> e, row |-> "open", summary |-> "none"]
<1>15. actor[a].at = "jobs"
  BY DEF CreateJob
<1>10. p \in 1..Len(plans) /\ p \in 1..MaxPlans
  BY <1>15, Standing, Lengths DEF Fits, IInv
<1>11. e \in Nat \ {0} /\ s \in Actor
  BY Standing DEF Actor
<1>12. UNCHANGED <<plans, decisions, lock>> /\ FlagsTyped
  BY DEF CreateJob, IInv, TypeOK, FlagsTyped
<1>2. /\ p \in 1..Len(plans) /\ p \in 1..MaxPlans /\ e \in Nat \ {0} /\ s \in Actor
      /\ UNCHANGED <<plans, decisions, lock>> /\ FlagsTyped
  BY <1>10, <1>11, <1>12
<1>3. new \in Job
  BY <1>2 DEF Job
<1>4. /\ jobs' \in Seq(Job) /\ Len(jobs') = Len(jobs) + 1 /\ Len(jobs) \in Nat
      /\ \A j \in 1..Len(jobs) : jobs'[j] = jobs[j]
      /\ jobs'[Len(jobs) + 1] = new
  BY <1>1, <1>3, AppendSeq DEF IInv, TypeOK
<1>13. Len(jobs') <= MaxJobs
  BY <1>4 DEF CreateJob
<1>14. actor' \in [Actors -> Actor]
  BY <1>1, <1>2 DEF IInv, TypeOK, Goes
<1>5. TypeOK'
  BY <1>2, <1>4, <1>13, <1>14 DEF IInv, TypeOK, FlagsTyped
<1>6. RowsRefer'
  <2>1. \A j \in 1..Len(jobs') : j \in 1..Len(jobs) \/ j = Len(jobs) + 1
    BY <1>4
  <2> QED
    BY <1>2, <1>4, <2>1 DEF IInv, RowsRefer
<1>7. RowsGrow /\ AddedUnderLock(a) /\ LockMoves(a)
  BY <1>2, <1>4, Lengths DEF IInv, RowsGrow, AddedUnderLock, LockMoves
<1>8. DecidedOnce' /\ OneAutomaticFollowUp' /\ RoundsBounded'
  BY <1>2 DEF IInv, DecidedOnce, OneAutomaticFollowUp, RoundsBounded
<1>9. Fits(a, s, plans', decisions', jobs', lock')
  BY <1>2, <1>4, Standing DEF Fits, Actor
<1> QED
  BY <1>1, <1>5, <1>6, <1>7, <1>8, <1>9, StepOK

LEMMA CreatePlanOK ==
    ASSUME IInv, NEW a \in Actors, CreatePlan(a)
    PROVE  IInv'
<1> DEFINE d == actor[a].decision
           auto == actor[a].path # "user"
           n == Len(plans)
<1>1. PICK size \in FollowUpSizes :
        plans' = Append(plans, [source |-> d, auto |-> auto, size |-> size])
  BY DEF CreatePlan
<1> DEFINE new == [source |-> d, auto |-> auto, size |-> size]
<1>2. /\ d \in 1..Len(decisions) /\ d \in Nat /\ d # 0 /\ actor[a].at = "create"
      /\ auto => lock = a
      /\ UNCHANGED <<jobs, decisions>> /\ FlagsTyped
  BY Standing, Lengths DEF CreatePlan, Fits, Actor, IInv, TypeOK, FlagsTyped
<1>3. new \in Plan
  BY <1>2 DEF Plan
<1>4. /\ plans' \in Seq(Plan) /\ Len(plans') = n + 1 /\ n \in 1..MaxPlans /\ n < MaxPlans
      /\ \A p \in 1..n : plans'[p] = plans[p]
      /\ plans'[n + 1] = new
  BY <1>1, <1>3, AppendSeq, Lengths DEF IInv, TypeOK, CreatePlan
<1>17. new.source = d /\ (auto => new.auto = TRUE) /\ (~ auto => new.auto = FALSE)
  OBVIOUS
<1> HIDE DEF new, d
<1>5. \A p \in 1..Len(plans') : p \in 1..n \/ p = n + 1
  BY <1>4
<1>6. PICK s \in Actor :
        /\ Goes(a, s)
        /\ \/ Returns(a) /\ s.at \in {"idle", "done"}
           \/ UNCHANGED lock /\ s.at = "execute" /\ s.plan = n + 1 /\ s.path = actor[a].path
  <2>1. CASE Returns(a)
    <3> DEFINE s == IF a \in Hooks THEN [Idle EXCEPT !.at = "done"] ELSE Idle
    <3>1. s \in Actor
      BY IdleTyped
    <3>2. Goes(a, s) /\ s.at \in {"idle", "done"}
      BY <2>1 DEF Returns, Over, Idle
    <3> QED
      BY <2>1, <3>1, <3>2
  <2>2. CASE Goes(a, [actor[a] EXCEPT !.at = "execute", !.plan = Len(plans')]) /\ UNCHANGED lock
    <3> DEFINE s == [actor[a] EXCEPT !.at = "execute", !.plan = n + 1]
    <3>1. n + 1 \in 0..MaxPlans
      BY <1>4
    <3>2. s \in Actor /\ s.at = "execute" /\ s.plan = n + 1 /\ s.path = actor[a].path
      BY <3>1, Standing DEF Actor, Steps
    <3>3. Goes(a, s)
      BY <1>4, <2>2
    <3> QED
      BY <2>2, <3>2, <3>3
  <2> QED
    BY <2>1, <2>2 DEF CreatePlan
<1>7. LockMoves(a) /\ lock' \in Hooks \cup {Nobody}
  BY <1>6, Standing DEF LockMoves, Returns, Release
<1>8. TypeOK'
  BY <1>2, <1>4, <1>6, <1>7 DEF IInv, TypeOK, FlagsTyped, Goes
<1>9. RowsRefer'
  <2>1. \A p \in 1..n : p \in 1..Len(plans')
    BY <1>4
  <2> QED
    BY <1>2, <2>1 DEF IInv, RowsRefer
<1>10. RowsGrow
  BY <1>2, <1>4, Lengths DEF IInv, RowsGrow
<1>11. OneAutomaticFollowUp'
  <2>1. auto => \A p \in 1..n : plans[p].auto => plans[p].source # d
    BY <1>2, Standing DEF Fits, d
  <2> SUFFICES ASSUME NEW p \in 1..Len(plans'), NEW q \in 1..Len(plans'),
                      plans'[p].auto, plans'[q].auto, plans'[p].source = plans'[q].source
               PROVE  p = q
    BY DEF OneAutomaticFollowUp
  <2>2. CASE p \in 1..n /\ q \in 1..n
    BY <1>4, <2>2 DEF IInv, OneAutomaticFollowUp
  <2>3. CASE p = n + 1 /\ q \in 1..n
    BY <1>4, <1>17, <2>1, <2>3
  <2>4. CASE q = n + 1 /\ p \in 1..n
    BY <1>4, <1>17, <2>1, <2>4
  <2> QED
    BY <1>5, <2>2, <2>3, <2>4
<1>12. RoundsBounded'
  <2>1. CASE auto
    <3>1. AutoPlans(plans') = AutoPlans(plans) \cup {n + 1}
      BY <1>2, <1>4, <1>5, <1>17, <2>1 DEF AutoPlans
    <3>8. n \in Int
      BY <1>4
    <3>2. IsFiniteSet(1..n)
      BY <3>8, FS_Interval
    <3>3. AutoPlans(plans) \in SUBSET (1..n)
      BY DEF AutoPlans
    <3>4. IsFiniteSet(AutoPlans(plans))
      BY <3>2, <3>3, FS_Subset
    <3>5. n + 1 \notin AutoPlans(plans)
      BY <1>4 DEF AutoPlans
    <3>6. Cardinality(AutoPlans(plans')) = Cardinality(AutoPlans(plans)) + 1
      BY <3>1, <3>4, <3>5, FS_AddElement
    <3>7. Cardinality(AutoPlans(plans)) \in Nat /\ Cardinality(AutoPlans(plans)) < MaxRounds
      BY <1>2, <2>1, <3>4, FS_CardinalityType, Standing DEF Fits
    <3> QED
      BY <3>6, <3>7 DEF RoundsBounded, AutoPlans
  <2>2. CASE ~ auto
    <3>1. AutoPlans(plans') = AutoPlans(plans)
      BY <1>2, <1>4, <1>5, <1>17, <2>2 DEF AutoPlans
    <3> QED
      BY <3>1 DEF IInv, RoundsBounded, AutoPlans
  <2> QED
    BY <2>1, <2>2
<1>13. DecidedOnce'
  BY <1>2 DEF IInv, DecidedOnce
<1>14. Fits(a, s, plans', decisions', jobs', lock')
  <2>1. Len(plans') = n + 1 /\ n + 1 \in 1..Len(plans') /\ (a \in Hooks => a \in 1..Len(jobs'))
    BY <1>2, <1>4, Standing DEF Fits
  <2>2. s.at = "execute" /\ s.path # "user" => lock' = a
    BY <1>2, <1>6
  <2> QED
    BY <1>6, <2>1, <2>2 DEF Fits
<1>15. CASE auto
  BY <1>2, <1>6, <1>7, <1>8, <1>9, <1>10, <1>11, <1>12, <1>13, <1>14, <1>15, StepOK DEF AddedUnderLock
<1>16. CASE ~ auto
  <2>1. \A p \in 1..Len(plans') : plans'[p].auto => p <= n
    BY <1>4, <1>5, <1>16, <1>17
  <2>2. AutoPlans(plans') = AutoPlans(plans)
    BY <1>4, <1>5, <1>16, <1>17 DEF AutoPlans
  <2>3. \A e \in 1..Len(decisions') : e <= Len(decisions)
    BY <1>2, Lengths DEF IInv
  <2>4. AddedUnderLock(a)
    BY <2>1, <2>2, <2>3 DEF AddedUnderLock
  <2> QED
    BY <1>6, <1>7, <1>8, <1>9, <1>10, <1>11, <1>12, <1>13, <1>14, <2>4, StepOK
<1> QED
  BY <1>15, <1>16

-----------------------------------------------------------------------------
(* Jobs and restarts. *)

LEMMA EnqueueOK ==
    ASSUME IInv, NEW j \in 1..Len(jobs), JobsKept, UNCHANGED <<plans, decisions, lock>>, FlagsTyped,
           Enqueue(j) \/ Goes(j, [Idle EXCEPT !.at = "lost"])
    PROVE  IInv'
<1> DEFINE hook == [Idle EXCEPT !.at = "outcome", !.plan = jobs[j].plan]
           lost == [Idle EXCEPT !.at = "lost"]
<1>1. j \in Hooks /\ j \in Actors
  BY Lengths DEF IInv, Actors
<1>2. jobs[j].plan \in 1..Len(plans) /\ jobs[j].plan \in 0..MaxPlans
  BY Lengths DEF IInv, RowsRefer
<1>3. hook \in Actor /\ lost \in Actor
  BY <1>2, IdleTyped DEF Actor, Steps
<1>4. hook.at = "outcome" /\ hook.plan = jobs[j].plan /\ lost.at = "lost"
  BY DEF Idle
<1>5. /\ Fits(j, hook, plans, decisions, jobs, lock)
      /\ Fits(j, lost, plans, decisions, jobs, lock)
  BY <1>1, <1>2, <1>4 DEF Fits
<1>6. PICK s \in Actor : Goes(j, s) /\ Fits(j, s, plans, decisions, jobs, lock)
  BY <1>1, <1>3, <1>5, Standing DEF Enqueue
<1> QED
  BY <1>1, <1>6, JobsMoveOK

LEMMA JobStepOK ==
    ASSUME IInv, NEW j \in 1..Len(jobs), JobStep(j)
    PROVE  IInv'
<1>1. j \in Hooks /\ j \in Actors /\ jobs[j] \in Job /\ jobs \in Seq(Job)
  BY Lengths DEF IInv, TypeOK, Actors
<1>2. ASSUME NEW row \in Job, row.plan = jobs[j].plan, jobs' = [jobs EXCEPT ![j] = row]
      PROVE  JobsKept
  BY <1>1, <1>2, Lengths DEF IInv, JobsKept
<1>3. CASE ReportSummary(j)
  <2>1. PICK x \in {"running", "succeeded"} : jobs' = [jobs EXCEPT ![j].summary = x]
    BY <1>3 DEF ReportSummary
  <2>2. JobsKept
    BY <1>1, <1>2, <2>1 DEF Job
  <2>3. FlagsTyped /\ UNCHANGED <<plans, decisions, lock>> /\ Goes(j, actor[j])
    BY <1>1, <1>3 DEF ReportSummary, Goes, FlagsTyped, IInv, TypeOK
  <2> QED
    BY <1>1, <2>2, <2>3, Standing, JobsMoveOK
<1>4. CASE CompleteJob(j)
  <2>1. JobsKept
    BY <1>1, <1>2, <1>4 DEF CompleteJob, Job
  <2>2. FlagsTyped
    BY <1>4 DEF CompleteJob, FlagsTyped, IInv, TypeOK
  <2> QED
    BY <1>4, <2>1, <2>2, EnqueueOK DEF CompleteJob
<1>5. CASE FailJob(j)
  <2>1. JobsKept
    BY <1>1, <1>2, <1>5 DEF FailJob, Job
  <2>2. FlagsTyped
    BY <1>5 DEF FailJob, FlagsTyped, IInv, TypeOK
  <2> QED
    BY <1>5, <2>1, <2>2, EnqueueOK DEF FailJob
<1>6. CASE BlockRetry(j)
  <2>1. JobsKept
    BY <1>1, <1>2, <1>6 DEF BlockRetry, Job
  <2>2. FlagsTyped
    BY <1>6 DEF BlockRetry, FlagsTyped, IInv, TypeOK
  <2> QED
    BY <1>6, <2>1, <2>2, EnqueueOK DEF BlockRetry
<1> QED
  BY <1>3, <1>4, <1>5, <1>6 DEF JobStep

LEMMA RestartOK ==
    ASSUME IInv, Restart
    PROVE  IInv'
<1>1. UNCHANGED <<plans, jobs, decisions>> /\ lock' = Nobody
  BY DEF Restart, rows
<1>2. FlagsTyped
  BY DEF Restart, rows, FlagsTyped, IInv, TypeOK
<1>3. \A x \in {"done", "lost"} : [Idle EXCEPT !.at = x] \in Actor /\ [Idle EXCEPT !.at = x].at = x
  BY IdleTyped DEF Actor, Steps, Idle
<1>4. \A a \in Actors : /\ actor'[a] \in Actor
                         /\ \/ actor'[a].at = "idle"
                            \/ actor'[a].at \in {"done", "lost"} /\ actor[a].at # "idle" /\ a \notin Users
  BY <1>3, IdleTyped DEF Restart, Idle
<1>5. actor' \in [Actors -> Actor]
  BY <1>4 DEF Restart
<1>6. TypeOK'
  BY <1>1, <1>2, <1>5 DEF IInv, TypeOK, FlagsTyped
<1>7. ASSUME NEW a \in Actors
      PROVE  Fits(a, actor'[a], plans', decisions', jobs', lock')
  BY <1>1, <1>4, Standing DEF Fits
<1>8. RowsRefer' /\ DecidedOnce' /\ OneAutomaticFollowUp' /\ RoundsBounded'
  BY <1>1 DEF IInv, RowsRefer, DecidedOnce, OneAutomaticFollowUp, RoundsBounded
<1> QED
  BY <1>6, <1>7, <1>8 DEF IInv

-----------------------------------------------------------------------------
LEMMA InitOK == Init => IInv
<1> SUFFICES ASSUME Init PROVE IInv
  OBVIOUS
<1>1. PICK n \in InitialSizes :
        /\ plans = <<[source |-> 0, auto |-> TRUE, size |-> n]>>
        /\ jobs = [e \in 1..n |->
                      [plan |-> 1, experiment |-> e, row |-> "open", summary |-> "none"]]
  BY DEF Init
<1>2. n \in 1..MaxJobs /\ [source |-> 0, auto |-> TRUE, size |-> n] \in Plan
  BY DEF Plan
<1>3. plans \in Seq(Plan) /\ Len(plans) = 1 /\ plans[1] = [source |-> 0, auto |-> TRUE, size |-> n]
  BY <1>1, <1>2
<1>4. \A e \in 1..n : [plan |-> 1, experiment |-> e, row |-> "open", summary |-> "none"] \in Job
  BY <1>2 DEF Job
<1>5. jobs \in Seq(Job) /\ Len(jobs) = n /\ \A e \in 1..n : jobs[e].plan = 1
  BY <1>1, <1>2, <1>4
<1>6. decisions \in Seq(Decision) /\ Len(decisions) = 0
  BY DEF Init
<1>7. actor \in [Actors -> Actor] /\ \A a \in Actors : actor[a] = Idle
  BY IdleTyped DEF Init
<1>12. Len(plans) \in 1..MaxPlans /\ Len(jobs) <= MaxJobs
  BY <1>2, <1>3, <1>5
<1>13. /\ champion \in BOOLEAN /\ selection \in {"none", "selected", "reopened"}
       /\ lock \in Hooks \cup {Nobody} /\ capped \subseteq 1..MaxPlans /\ excused \subseteq 1..MaxPlans
       /\ budget \in [requests: 0..MaxRequests, faults: 0..MaxFaults]
  BY DEF Init
<1>8. TypeOK
  BY <1>3, <1>5, <1>6, <1>7, <1>12, <1>13 DEF TypeOK
<1>9. \A a \in Actors : Fits(a, actor[a], plans, decisions, jobs, lock)
  <2>1. Idle.at = "idle"
    BY DEF Idle
  <2> QED
    BY <1>7, <2>1 DEF Fits
<1>10. RowsRefer /\ DecidedOnce /\ OneAutomaticFollowUp
  BY <1>3, <1>5, <1>6 DEF RowsRefer, DecidedOnce, OneAutomaticFollowUp
<1>11. RoundsBounded
  <2>2. \A p \in 1..Len(plans) : plans[p].source = 0
    BY <1>3
  <2>1. AutoPlans(plans) = {}
    BY <2>2 DEF AutoPlans
  <2>3. Cardinality(AutoPlans(plans)) = 0
    BY <2>1, FS_EmptySet, Zenon
  <2> QED
    BY <2>3 DEF RoundsBounded, AutoPlans
<1> QED
  BY <1>8, <1>9, <1>10, <1>11 DEF IInv

LEMMA NextOK == IInv /\ [Next]_vars => IInv'
<1> SUFFICES ASSUME IInv, [Next]_vars PROVE IInv'
  OBVIOUS
<1>1. ASSUME NEW a \in Actors, ActorStep(a) PROVE IInv'
  BY <1>1, ToHarmless, PickChampionOK, ReusePlanOK, SchedulePlanOK, CreatePlanOK,
     ExecutePlanOK, CreateJobOK, SkipForCostOK, SkipDuplicateOK, JobsCreatedOK,
     CancelJobOK, CancelledOK DEF ActorStep
<1>2. ASSUME NEW h \in Hooks, HookStep(h) PROVE IInv'
  <2>1. h \in Actors
    BY DEF Actors
  <2> QED
    BY <1>2, <2>1, ToHarmless, PlannerRepeatsOK, PlannerAsksOK, PlannerDecidesOK,
       ReviewRepeatsOK, ReviewDecidesOK, FallbackOK DEF HookStep
<1>3. ASSUME NEW u \in Users, UserStep(u) PROVE IInv'
  BY <1>3, ReviewProjectOK, ScheduleFollowUpOK, ReopenOK, ExecuteRequestOK, CancelPlanOK
     DEF UserStep
<1>4. CASE UNCHANGED vars
  BY <1>4 DEF vars, IInv, TypeOK, RowsRefer, DecidedOnce, OneAutomaticFollowUp, RoundsBounded
<1> QED
  BY <1>1, <1>2, <1>3, <1>4, JobStepOK, RestartOK DEF Next

LEMMA Invariance == Spec => []IInv
BY InitOK, NextOK, PTL DEF Spec

\* Rows keep their type: the lock is only ever held by a hook, and no job stands
\* for an experiment its plan does not have.
THEOREM TypeCorrect == Spec => []TypeOK
<1>1. IInv => TypeOK
  BY DEF IInv
<1> QED
  BY <1>1, Invariance, PTL

\* The planner decides at most once on a plan.
THEOREM PlannerDecidesOnce == Spec => []OnePlannerDecision
<1>1. IInv => OnePlannerDecision
  <2> SUFFICES ASSUME IInv, NEW p \in 1..Len(plans)
               PROVE  Cardinality(PlannerDecisions(p)) <= 1
    BY DEF OnePlannerDecision
  <2>1. \A d, e \in PlannerDecisions(p) : d = e
    BY DEF IInv, DecidedOnce, PlannerDecisions
  <2>2. CASE PlannerDecisions(p) = {}
    BY <2>2, FS_EmptySet
  <2>3. CASE PlannerDecisions(p) # {}
    <3>1. PICK d : PlannerDecisions(p) = {d}
      BY <2>1, <2>3
    <3>2. Cardinality({d}) = 1
      BY FS_Singleton
    <3> QED
      BY <3>1, <3>2
  <2> QED
    BY <2>2, <2>3
<1> QED
  BY <1>1, Invariance, PTL

\* Automation follows a decision up with one plan at most.
THEOREM FollowsUpOnce == Spec => []OneAutomaticFollowUp
<1>1. IInv => OneAutomaticFollowUp
  BY DEF IInv
<1> QED
  BY <1>1, Invariance, PTL

\* Automation never starts more rounds than the setting allows.
THEOREM RoundsStayBounded == Spec => []RoundsBounded
<1>1. IInv => RoundsBounded
  BY DEF IInv
<1> QED
  BY <1>1, Invariance, PTL

HIDE CampaignAssumption DEF CampaignAssumption

-----------------------------------------------------------------------------
(* How a campaign comes to its champion.  A hook that ends leaves one of four *)
(* things behind: a champion, no run to select, an open job in its own plan, or *)
(* a later plan that is still live.                                         *)

Good == champion \/ \E d \in 1..Len(decisions) : decisions[d].type = "SELECT"

\* No hook was lost and no plan excused.
Clean == excused = {} /\ \A h \in Hooks : actor[h].at # "lost"

\* Where a hook is about to look or to write, for its plan and later ones only.
Follows(h, s, P, D) ==
    /\ s.at \in {"outcome", "cost", "planner", "llm"} => s.plan = jobs[h].plan
    /\ s.at \in {"schedule", "create"} =>
          s.path # "user" /\ D[s.decision].plan >= jobs[h].plan
    /\ s.at \in {"execute", "jobs"} =>
          s.path # "user" /\ s.plan > jobs[h].plan /\ P[s.plan].source # 0
    /\ s.at # "aggregate"

SelectionsMean ==
    /\ selection # "none" => Good
    /\ \A d \in 1..Len(decisions) :
        /\ decisions[d].type = "REOPEN" => Good
        /\ decisions[d].by = "planner" => decisions[d].type \in {"ADD", "STOP", "SELECT"}

SourcesEarlier ==
    \A p \in 1..Len(plans) : plans[p].source # 0 =>
        /\ plans[p].source \in 1..Len(decisions)
        /\ decisions[plans[p].source].plan < p

Ground ==
    /\ \A j \in 1..Len(jobs) : jobs[j].row = "open" => actor[j].at = "idle"
    /\ SelectionsMean
    /\ SourcesEarlier
    /\ \A h \in Hooks : Follows(h, actor[h], plans, decisions)
    /\ \A a \in Actors : actor[a].at = "cancel" => excused # {}

\* A plan of which a run succeeded or somebody has yet to look.
Live(p) == \E j \in JobsOf(p) : jobs[j].row # "failed" \/ actor[j].at # "done"

Told ==
    \A j \in 1..Len(jobs) :
        jobs[j].row # "open" => jobs[j].summary = jobs[j].row /\ actor[j].at # "idle"

\* A run of p succeeded, or the hook of a job of p has yet to pass the lock.
HasWork(p) ==
    \E j \in JobsOf(p) : jobs[j].row = "succeeded" \/ actor[j].at \in {"idle", "outcome"}

\* An execution by hook h will not end with nothing to wait for.
Leaves(h) ==
    actor[h].at = "jobs" =>
        actor[h].skipped \/ actor[h].todo # {} \/ HasWork(actor[h].plan)

Won(p) == \E j \in JobsOf(p) : jobs[j].row = "succeeded"
Finished(p) == \A j \in JobsOf(p) : jobs[j].row # "open" /\ actor[j].at = "done"
Later(p) == \E q \in 1..Len(plans) : q > p /\ Live(q)

Carried == \A p \in 1..Len(plans) : Won(p) /\ Finished(p) => Good \/ Later(p)

Course == Clean => Told /\ Carried /\ \A h \in Hooks : Leaves(h)

DInv == IInv /\ Ground /\ Course

Ends(p) == Good \/ Succeeded = {} \/ Open(p) \/ Later(p)

LEMMA CourseStep ==
    ASSUME DInv, IInv', Good => Good', Clean' => Clean,
           Len(plans) <= Len(plans'), Len(jobs) <= Len(jobs'),
           \A j \in 1..Len(jobs) : jobs'[j].plan = jobs[j].plan,
           \A j \in 1..Len(jobs') : j > Len(jobs) => jobs'[j].row = "open",
           Clean' => /\ Told'
                     /\ \A j \in 1..Len(jobs) :
                           \/ jobs'[j].row = jobs[j].row
                           \/ jobs[j].row = "open" /\ actor'[j].at # "done"
                     /\ \A p \in 1..Len(plans) : \A j \in JobsOf(p) :
                           actor[j].at # "done" /\ actor'[j].at = "done" => Ends(p)'
                     /\ \A h \in Hooks : Leaves(h)'
    PROVE  Course'
<1> SUFFICES ASSUME Clean', NEW q \in 1..Len(plans'), Won(q)', Finished(q)'
             PROVE  Good' \/ Later(q)'
  BY DEF Course, Carried
<1>10. /\ Len(plans) \in Nat /\ Len(plans') \in Nat /\ Len(jobs) \in Nat /\ Len(jobs') \in Nat
  BY DEF DInv, IInv, TypeOK
<1>11. Told /\ Carried /\ \A j \in 1..Len(jobs) : jobs[j].row \in {"open", "succeeded", "failed"}
  BY Lengths DEF DInv, Course, IInv, Job
<1>12. /\ \A j \in 1..Len(jobs) : jobs[j].plan \in 1..Len(plans)
       /\ \A j \in 1..Len(jobs') : jobs'[j].plan \in 1..Len(plans')
  BY DEF DInv, IInv, RowsRefer
<1>1. /\ Len(plans) \in Nat /\ Len(plans') \in Nat /\ Len(jobs) \in Nat /\ Len(jobs') \in Nat
      /\ Told /\ Carried
      /\ \A j \in 1..Len(jobs) : jobs[j].row \in {"open", "succeeded", "failed"}
      /\ \A j \in 1..Len(jobs) : jobs[j].plan \in 1..Len(plans)
      /\ \A j \in 1..Len(jobs') : jobs'[j].plan \in 1..Len(plans')
  BY <1>10, <1>11, <1>12
<1>2. \A j \in JobsOf(q)' : j \in 1..Len(jobs) /\ j \in JobsOf(q)
  BY <1>1 DEF Finished, JobsOf
<1>3. \A j \in JobsOf(q) : j \in JobsOf(q)' /\ j \in 1..Len(jobs) /\ j \in 1..Len(jobs')
  BY <1>1 DEF JobsOf
<1>4. Succeeded' # {} /\ ~ Open(q)'
  BY DEF Told, Won, Finished, JobsOf, Succeeded, Open
<1>5. \A j \in JobsOf(q) : jobs'[j].row = jobs[j].row /\ jobs[j].row # "open" /\ jobs[j].plan = q
  BY <1>1, <1>3 DEF Finished, JobsOf
<1>6. Won(q)
  BY <1>2, <1>5 DEF Won
<1>7. q \in 1..Len(plans)
  BY <1>1, <1>6 DEF Won, JobsOf
<1>8. CASE Finished(q)
  <2>1. Good \/ Later(q)
    BY <1>1, <1>6, <1>7, <1>8 DEF Carried
  <2>2. SUFFICES ASSUME NEW x \in 1..Len(plans), x > q, Live(x) PROVE Good' \/ Later(q)'
    BY <2>1 DEF Later
  <2>3. PICK j \in JobsOf(x) : jobs[j].row # "failed" \/ actor[j].at # "done"
    BY <2>2 DEF Live
  <2>4. j \in 1..Len(jobs) /\ j \in 1..Len(jobs') /\ jobs'[j].plan = x /\ j \in JobsOf(x)' /\ x \in 1..Len(plans')
    BY <1>1, <2>3 DEF JobsOf
  <2>5. CASE jobs'[j].row # "failed" \/ actor'[j].at # "done"
    BY <2>2, <2>4, <2>5 DEF Later, Live
  <2>6. CASE jobs'[j].row = "failed" /\ actor'[j].at = "done"
    <3>1. jobs[j].row = "failed" /\ actor[j].at # "done"
      BY <2>3, <2>4, <2>6
    <3>2. Ends(x)'
      BY <2>2, <2>3, <2>6, <3>1
    <3>3. Open(x)' => Later(q)'
      BY <2>2, <2>4, <1>1 DEF Open, Later, Live
    <3>4. Later(x)' => Later(q)'
      BY <2>2, <1>1 DEF Later
    <3> QED
      BY <1>4, <3>2, <3>3, <3>4 DEF Ends
  <2> QED
    BY <2>5, <2>6
<1>9. CASE ~ Finished(q)
  <2>1. PICK j \in JobsOf(q) : actor[j].at # "done"
    BY <1>5, <1>9 DEF Finished
  <2>2. actor'[j].at = "done" /\ jobs'[j].plan = q
    BY <1>3, <2>1 DEF Finished, JobsOf
  <2>3. Ends(q)'
    BY <1>3, <1>7, <2>1, <2>2
  <2> QED
    BY <1>4, <2>3 DEF Ends
<1> QED
  BY <1>8, <1>9

-----------------------------------------------------------------------------
\* A step of actor a to s that leaves the jobs alone, and what it must keep to.
Does(a, s) ==
    /\ Goes(a, s) /\ UNCHANGED jobs /\ RowsGrow
    /\ champion => champion'
    /\ excused \subseteq excused'
    /\ selection' # "none" => Good'
    /\ \A d \in 1..Len(decisions') : d > Len(decisions) =>
          /\ decisions'[d].type = "REOPEN" => Good'
          /\ decisions'[d].by = "planner" => decisions'[d].type \in {"ADD", "STOP", "SELECT"}
    /\ \A p \in 1..Len(plans') : p > Len(plans) /\ plans'[p].source # 0 =>
          /\ plans'[p].source \in 1..Len(decisions)
          /\ decisions[plans'[p].source].plan < p
    /\ s.at = "cancel" => excused' # {}
    /\ a \in Hooks =>
          /\ actor[a].at \notin {"idle", "done", "lost"} /\ s.at \notin {"idle", "lost"}
          /\ Follows(a, s, plans', decisions')
          /\ actor[a].at = "outcome" => lock = Nobody \/ plans[jobs[a].plan].source = 0
          /\ Clean /\ excused' = {} =>
                /\ s.at = "done" => Good' \/ Ends(jobs[a].plan)
                /\ s.at = "jobs" => /\ actor[a].at # "outcome"
                                    /\ s.skipped \/ s.todo # {} \/ HasWork(s.plan)

LEMMA GoodStays ==
    ASSUME TypeOK, TypeOK', RowsGrow, champion => champion', Good
    PROVE  Good'
<1>1. Len(decisions) \in Nat /\ Len(decisions') \in Nat
  BY DEF TypeOK
<1> QED
  BY <1>1 DEF Good, RowsGrow

LEMMA DoesGround ==
    ASSUME DInv, IInv', NEW a \in Actors, NEW s, Does(a, s)
    PROVE  Ground'
<1>1. /\ Len(plans) \in Nat /\ Len(plans') \in Nat /\ Len(decisions) \in Nat
      /\ Len(decisions') \in Nat /\ Len(jobs) \in Nat
  BY DEF DInv, IInv, TypeOK
<1>2. \A b \in Actors : actor'[b] = IF b = a THEN s ELSE actor[b]
  BY DEF DInv, IInv, TypeOK, Does, Goes
<1>3. Good => Good'
  BY GoodStays DEF DInv, IInv, Does
<1>4. \A j \in 1..Len(jobs') : jobs'[j].row = "open" => actor'[j].at = "idle"
  <2> SUFFICES ASSUME NEW j \in 1..Len(jobs), jobs[j].row = "open" PROVE actor'[j].at = "idle"
    BY DEF Does
  <2>1. j \in Hooks /\ j \in Actors /\ actor[j].at = "idle"
    BY Lengths DEF DInv, IInv, Ground, Actors
  <2> QED
    BY <1>2, <2>1 DEF Does
<1>5. SelectionsMean'
  <2>1. ASSUME NEW d \in 1..Len(decisions')
        PROVE  /\ decisions'[d].type = "REOPEN" => Good'
               /\ decisions'[d].by = "planner" => decisions'[d].type \in {"ADD", "STOP", "SELECT"}
    <3>1. CASE d > Len(decisions)
      BY <3>1 DEF Does
    <3>2. CASE d \in 1..Len(decisions)
      BY <1>3, <3>2 DEF DInv, Ground, SelectionsMean, Does, RowsGrow
    <3> QED
      BY <1>1, <3>1, <3>2
  <2> QED
    BY <2>1 DEF SelectionsMean, Does
<1>6. SourcesEarlier'
  <2> SUFFICES ASSUME NEW p \in 1..Len(plans'), plans'[p].source # 0
               PROVE  plans'[p].source \in 1..Len(decisions') /\ decisions'[plans'[p].source].plan < p
    BY DEF SourcesEarlier
  <2>1. plans'[p].source \in 1..Len(decisions) /\ decisions[plans'[p].source].plan < p
    <3>1. CASE p > Len(plans)
      BY <3>1 DEF Does
    <3>2. CASE p \in 1..Len(plans)
      BY <3>2 DEF DInv, Ground, SourcesEarlier, Does, RowsGrow
    <3> QED
      BY <1>1, <3>1, <3>2
  <2> QED
    BY <1>1, <2>1 DEF Does, RowsGrow
<1>7. ASSUME NEW h \in Hooks PROVE Follows(h, actor[h], plans, decisions)'
  <2>1. CASE h = a
    BY <1>2, <2>1 DEF Does, Follows
  <2>2. CASE h # a
    <3>1. h \in Actors /\ actor'[h] = actor[h] /\ Follows(h, actor[h], plans, decisions)
      BY <1>2, <2>2 DEF DInv, Ground, Actors
    <3>2. /\ actor[h].at \in {"schedule", "create"} => actor[h].decision \in 1..Len(decisions)
          /\ actor[h].at \in {"execute", "jobs"} => actor[h].plan \in 1..Len(plans)
      BY <3>1, Standing DEF DInv, Fits
    <3> QED
      BY <3>1, <3>2 DEF Follows, Does, RowsGrow
  <2> QED
    BY <2>1, <2>2
<1>8. ASSUME NEW b \in Actors, actor'[b].at = "cancel" PROVE excused' # {}
  BY <1>2, <1>8 DEF Does, DInv, Ground
<1> QED
  BY <1>4, <1>5, <1>6, <1>7, <1>8 DEF Ground

LEMMA DoesCourse ==
    ASSUME DInv, IInv', NEW a \in Actors, NEW s, Does(a, s)
    PROVE  Course'
<1>1. \A b \in Actors : actor'[b] = IF b = a THEN s ELSE actor[b]
  BY DEF DInv, IInv, TypeOK, Does, Goes
<1>2. Good => Good'
  BY GoodStays DEF DInv, IInv, Does
<1>3. /\ Len(plans) \in Nat /\ Len(plans') \in Nat /\ Len(jobs) \in Nat
      /\ 1..Len(jobs) \subseteq Hooks /\ 1..Len(jobs) \subseteq Actors
  BY Lengths DEF DInv, IInv, TypeOK, Actors
<1>4. Clean' => Clean /\ (a \in Hooks => excused' = {})
  <2>1. \A h \in Hooks : h \in Actors
    BY DEF Actors
  <2> QED
    BY <1>1, <2>1 DEF Clean, Does
<1>5. Clean' => Told'
  BY <1>1, <1>3, <1>4 DEF DInv, Course, Told, Does
<1>6. ASSUME Clean', NEW p \in 1..Len(plans), NEW j \in JobsOf(p), actor[j].at # "done", actor'[j].at = "done"
      PROVE  Ends(p)'
  <2>1. j \in 1..Len(jobs) /\ jobs[j].plan = p /\ j = a /\ a \in Hooks
    BY <1>1, <1>3, <1>6 DEF JobsOf
  <2>2. Good' \/ Ends(p)
    BY <1>1, <1>4, <1>6, <2>1 DEF Does
  <2>3. Succeeded' = Succeeded /\ (Open(p) => Open(p)')
    BY DEF Succeeded, Open, JobsOf, Does
  <2>4. Later(p) => Later(p)'
    <3>1. ASSUME NEW q \in 1..Len(plans), q > p, Live(q) PROVE Later(p)'
      <4>1. PICK i \in JobsOf(q) : jobs[i].row # "failed" \/ actor[i].at # "done"
        BY <3>1 DEF Live
      <4>2. i # a /\ i \in Actors /\ i \in JobsOf(q)'
        BY <1>3, <2>1, <3>1, <4>1 DEF JobsOf, Does
      <4>3. Live(q)'
        BY <1>1, <4>1, <4>2 DEF Live, Does
      <4> QED
        BY <1>3, <3>1, <4>3 DEF Later, Does, RowsGrow
    <3> QED
      BY <3>1 DEF Later
  <2> QED
    BY <1>2, <2>2, <2>3, <2>4 DEF Ends
<1>7. ASSUME Clean', NEW h \in Hooks PROVE Leaves(h)'
  <2> SUFFICES ASSUME actor'[h].at = "jobs"
               PROVE  actor'[h].skipped \/ actor'[h].todo # {} \/ HasWork(actor[h].plan)'
    BY DEF Leaves
  <2>9. h \in Actors
    BY DEF Actors
  <2>1. /\ actor'[h].skipped \/ actor'[h].todo # {} \/ HasWork(actor'[h].plan)
        /\ h = a => actor[h].at # "outcome" /\ actor[h].at # "idle"
    <3>1. CASE h = a
      <4>1. actor'[h] = s /\ s.at = "jobs" /\ a \in Hooks /\ excused' = {} /\ Clean
        BY <1>1, <1>4, <1>7, <2>9, <3>1
      <4>2. actor[a].at \notin {"idle", "outcome"} /\ (s.skipped \/ s.todo # {} \/ HasWork(s.plan))
        BY <4>1, Zenon DEF Does
      <4> QED
        BY <3>1, <4>1, <4>2, Zenon
    <3>2. CASE h # a
      BY <1>1, <1>4, <1>7, <2>9, <3>2 DEF DInv, Course, Leaves
    <3> QED
      BY <3>1, <3>2
  <2>2. ASSUME NEW p, p = actor'[h].plan, HasWork(p) PROVE HasWork(p)'
    <3>1. PICK j \in JobsOf(p) : jobs[j].row = "succeeded" \/ actor[j].at \in {"idle", "outcome"}
      BY <2>2 DEF HasWork
    <3>2. j \in JobsOf(p)' /\ jobs'[j] = jobs[j] /\ j \in Hooks /\ j \in Actors /\ jobs[j].plan = p
      BY <1>3, <3>1 DEF JobsOf, Does
    <3>3. CASE jobs[j].row = "succeeded"
      BY <3>2, <3>3 DEF HasWork
    <3>4. CASE actor[j].at \in {"idle", "outcome"} /\ j # a
      BY <1>1, <3>2, <3>4 DEF HasWork
    <3>5. CASE actor[j].at \in {"idle", "outcome"} /\ j = a
      <4>1. actor[a].at = "outcome" /\ h # a /\ actor'[h] = actor[h] /\ actor[h].at = "jobs"
        BY <1>1, <2>1, <2>9, <3>2, <3>5 DEF Does
      <4>2. /\ Fits(h, actor[h], plans, decisions, jobs, lock)
            /\ Follows(h, actor[h], plans, decisions)
        BY <2>9, Standing DEF DInv, Ground
      <4>3. lock = h /\ plans[p].source # 0
        BY <2>2, <4>1, <4>2 DEF Fits, Follows
      <4>4. lock = Nobody \/ plans[p].source = 0
        BY <3>2, <3>5, <4>1 DEF Does
      <4> QED
        BY <2>9, <4>3, <4>4, Standing DEF DInv
    <3> QED
      BY <3>1, <3>3, <3>4, <3>5
  <2> QED
    BY <2>1, <2>2
<1> QED
  <2>1. /\ Len(plans) <= Len(plans') /\ jobs' = jobs
        /\ \A j \in 1..Len(jobs') : j > Len(jobs) => jobs'[j].row = "open"
    BY <1>3 DEF Does, RowsGrow
  <2> QED
    BY <1>2, <1>3, <1>4, <1>5, <1>6, <1>7, <2>1, CourseStep

LEMMA DoesOK ==
    ASSUME DInv, IInv', NEW a \in Actors, NEW s, Does(a, s)
    PROVE  DInv'
BY DoesGround, DoesCourse DEF DInv

-----------------------------------------------------------------------------
(* Champions and selections. *)

\* What a step does to champion and selection.
Selection ==
    /\ champion => champion'
    /\ selection' # "none" => Good'

LEMMA SelectionStays ==
    ASSUME DInv, UNCHANGED <<champion, selection, decisions>>
    PROVE  Selection
BY DEF DInv, Ground, SelectionsMean, Selection, Good

LEMMA SelectedAgain ==
    ASSUME DInv, NEW type, SelectsAgain(type), UNCHANGED decisions
    PROVE  /\ Selection
           /\ type \in {"SELECT", "STOP"} => Good' \/ Succeeded = {}
BY SelectionStays DEF SelectsAgain, Selection, Good

LEMMA Decided ==
    ASSUME DInv, NEW p, NEW type, NEW by, Decides(p, type, by)
    PROVE  /\ Len(decisions') = Len(decisions) + 1 /\ Len(decisions) \in Nat
           /\ \A d \in 1..Len(decisions) : decisions'[d] = decisions[d]
           /\ decisions'[Len(decisions) + 1] = [plan |-> p, type |-> type, by |-> by]
           /\ type = "SELECT" => Good'
<1>1. decisions \in Seq(Decision) /\ Len(decisions) \in Nat
  BY DEF DInv, IInv, TypeOK
<1>2. /\ Len(decisions') = Len(decisions) + 1 /\ Len(decisions) \in Nat
      /\ \A d \in 1..Len(decisions) : decisions'[d] = decisions[d]
      /\ decisions'[Len(decisions) + 1] = [plan |-> p, type |-> type, by |-> by]
  BY <1>1 DEF Decides
<1>3. Len(decisions) + 1 \in 1..Len(decisions')
  BY <1>2
<1>4. decisions'[Len(decisions) + 1].type = type
  BY <1>2
<1>5. type = "SELECT" => Good'
  BY <1>3, <1>4, Zenon DEF Good
<1> QED
  BY <1>2, <1>5

LEMMA SelectedNow ==
    ASSUME DInv, TypeOK', NEW p, NEW type, NEW by, Decides(p, type, by), Selects(type)
    PROVE  /\ Selection
           /\ type \in {"SELECT", "STOP"} => Good' \/ Succeeded = {}
<1>1. /\ champion' = (champion \/ (type \in {"SELECT", "STOP"} /\ Succeeded # {}))
      /\ selection' = IF type = "SELECT" \/ (type = "STOP" /\ Succeeded # {})
                      THEN "selected" ELSE selection
  BY DEF Selects
<1>2. Good => Good'
  <2>1. champion => champion'
    BY <1>1
  <2>2. ASSUME NEW d \in 1..Len(decisions), decisions[d].type = "SELECT" PROVE Good'
    <3>1. /\ Len(decisions') = Len(decisions) + 1 /\ Len(decisions) \in Nat
          /\ \A e \in 1..Len(decisions) : decisions'[e] = decisions[e]
      BY Decided
    <3> QED
      BY <2>2, <3>1 DEF Good
  <2> QED
    BY <2>1, <2>2 DEF Good
<1>3. champion' => Good'
  BY DEF Good
<1>4. type = "SELECT" => Good'
  BY Decided
<1>5. selection # "none" => Good
  BY DEF DInv, Ground, SelectionsMean
<1> QED
  BY <1>1, <1>2, <1>3, <1>4, <1>5 DEF Selection

LEMMA RowsSame ==
    ASSUME DInv, UNCHANGED <<plans, jobs, decisions>>
    PROVE  /\ RowsGrow
           /\ \A d \in 1..Len(decisions') : ~ d > Len(decisions)
           /\ \A p \in 1..Len(plans') : ~ p > Len(plans)
<1>1. Len(plans) \in Nat /\ Len(decisions) \in Nat /\ Len(jobs) \in Nat
  BY DEF DInv, IInv, TypeOK
<1> QED
  BY <1>1 DEF RowsGrow

-----------------------------------------------------------------------------
(* Ends and moves that leave the rows alone, but for champion and selection. *)

LEMMA ReturnsEnds ==
    ASSUME DInv, IInv', NEW a \in Actors, Returns(a) \/ Over(a),
           UNCHANGED <<plans, jobs, decisions>>, Selection, excused \subseteq excused',
           a \in Hooks => actor[a].at \notin {"idle", "done", "lost", "outcome"},
           a \in Hooks /\ Clean /\ excused' = {} => Good' \/ Ends(jobs[a].plan)
    PROVE  DInv'
<1> DEFINE s == IF a \in Hooks THEN [Idle EXCEPT !.at = "done"] ELSE Idle
<1>1. Goes(a, s)
  BY DEF Returns, Over
<1>2. (a \in Hooks => s.at = "done") /\ (a \notin Hooks => s.at = "idle")
  BY DEF Idle
<1>3. Follows(a, s, plans', decisions') \/ a \notin Hooks
  BY <1>2 DEF Follows
<1> HIDE DEF s
<1>4. Does(a, s)
  BY <1>1, <1>2, <1>3, RowsSame DEF Does, Selection
<1> QED
  BY <1>4, DoesOK

\* A move that is no end.
LEMMA Moves ==
    ASSUME DInv, IInv', NEW a \in Actors, NEW s, Goes(a, s),
           UNCHANGED <<plans, jobs, decisions>>, Selection, excused \subseteq excused',
           s.at = "cancel" => excused' # {},
           a \in Hooks => /\ actor[a].at \notin {"idle", "done", "lost", "outcome"}
                          /\ s.at \notin {"idle", "done", "lost"}
                          /\ Follows(a, s, plans, decisions)
                          /\ s.at = "jobs" /\ excused' = {} =>
                                s.skipped \/ s.todo # {} \/ HasWork(s.plan)
    PROVE  DInv'
<1>1. a \in Hooks => Follows(a, s, plans', decisions')
  BY DEF Follows
<1>2. Does(a, s)
  BY <1>1, RowsSame DEF Does, Selection
<1> QED
  BY <1>2, DoesOK

LEMMA AtGoesOn ==
    ASSUME DInv, IInv', NEW a \in Actors,
           NEW step \in {"cost", "planner", "review", "fallback", "pick", "aggregate"}, At(a, step),
           UNCHANGED <<plans, jobs, decisions>>, Selection, excused \subseteq excused',
           a \in Hooks => /\ actor[a].at \notin {"idle", "done", "lost"}
                          /\ step # "aggregate"
                          /\ step \in {"cost", "planner"} => actor[a].at \in {"outcome", "cost"}
                          /\ actor[a].at = "outcome" => lock = Nobody \/ plans[jobs[a].plan].source = 0
    PROVE  DInv'
<1> DEFINE s == [actor[a] EXCEPT !.at = step]
<1>1. Goes(a, s) /\ s.at = step /\ s.plan = actor[a].plan
  BY Standing DEF At, Actor, DInv
<1>2. Follows(a, s, plans', decisions') \/ a \notin Hooks
  BY <1>1 DEF Follows, DInv, Ground
<1> HIDE DEF s
<1>3. Does(a, s)
  BY <1>1, <1>2, RowsSame DEF Does, Selection
<1> QED
  BY <1>3, DoesOK

LEMMA RowsFixed ==
    ASSUME DInv, UNCHANGED rows
    PROVE  UNCHANGED <<plans, jobs, decisions>> /\ Selection
BY SelectionStays DEF rows

LEMMA ChampionFound ==
    ASSUME DInv, UNCHANGED <<champion, selection, decisions>>
    PROVE  (champion \/ selection = "selected") => Good'
BY SelectionStays DEF Selection, Good, DInv, Ground, SelectionsMean

\* Steps that look, and go on or end for a reason that they found.
LEMMA LooksDecided ==
    ASSUME DInv, IInv', NEW h \in Hooks,
           \/ RecordOutcome(h) \/ CostStop(h) \/ PlannerPasses(h) \/ PlannerStops(h)
           \/ PlannerFails(h) \/ PlannerWaits(h) \/ ReviewWaits(h) \/ Fallback(h)
    PROVE  DInv'
<1>1. h \in Actors /\ Follows(h, actor[h], plans, decisions)
  BY DEF Actors, DInv, Ground
<1>2. CASE RecordOutcome(h)
  <2>1. lock = Nobody \/ plans[jobs[h].plan].source = 0
    BY <1>1, <1>2 DEF RecordOutcome, Follows
  <2> QED
    BY <1>1, <1>2, <2>1, RowsFixed, AtGoesOn DEF RecordOutcome
<1>3. CASE CostStop(h)
  <2>1. UNCHANGED <<plans, jobs, decisions>> /\ Selection /\ excused \subseteq excused' /\ actor[h].at = "cost"
    BY <1>3, RowsFixed DEF CostStop
  <2>2. CASE At(h, "planner")
    BY <1>1, <2>1, <2>2, AtGoesOn
  <2>3. CASE At(h, "pick")
    BY <1>1, <2>1, <2>3, AtGoesOn
  <2>4. CASE champion /\ Returns(h)
    BY <1>1, <1>3, <2>1, <2>4, ReturnsEnds, ChampionFound DEF CostStop, rows
  <2> QED
    BY <1>3, <2>2, <2>3, <2>4 DEF CostStop, TerminalStop
<1>4. CASE PlannerPasses(h)
  BY <1>1, <1>4, RowsFixed, AtGoesOn DEF PlannerPasses
<1>5. CASE PlannerStops(h)
  BY <1>1, <1>5, RowsFixed, ReturnsEnds, ChampionFound DEF PlannerStops, rows
<1>6. CASE PlannerFails(h)
  BY <1>1, <1>6, RowsFixed, AtGoesOn DEF PlannerFails
<1>7. CASE PlannerWaits(h)
  <2>1. excused \subseteq excused' /\ excused' # {}
    BY <1>7, Zenon DEF PlannerWaits, Excuse
  <2> QED
    BY <1>1, <1>7, <2>1, RowsFixed, ReturnsEnds DEF PlannerWaits
<1>8. CASE ReviewWaits(h)
  BY <1>1, <1>8, RowsFixed, AtGoesOn DEF ReviewWaits
<1>9. CASE Fallback(h)
  <2>1. UNCHANGED <<plans, jobs, decisions>> /\ Selection /\ excused \subseteq excused' /\ actor[h].at = "fallback"
    BY <1>9, RowsFixed DEF Fallback
  <2>2. CASE Returns(h) /\ (champion \/ Succeeded = {} \/ Open(jobs[h].plan))
    <3>1. Good' \/ Ends(jobs[h].plan)
      BY <1>9, <2>2, ChampionFound DEF Ends, Fallback, rows
    <3> QED
      BY <1>1, <2>1, <2>2, <3>1, ReturnsEnds
  <2>3. CASE Goes(h, [actor[h] EXCEPT !.plan = jobs[h].plan, !.at = "pick"])
    <3> DEFINE s == [actor[h] EXCEPT !.plan = jobs[h].plan, !.at = "pick"]
    <3>1. s.at = "pick"
      BY <1>1, Standing DEF DInv, Actor
    <3>2. Follows(h, s, plans', decisions')
      BY <3>1 DEF Follows
    <3> HIDE DEF s
    <3>3. Does(h, s)
      BY <2>1, <2>3, <3>1, <3>2, RowsSame DEF s, Does, Selection
    <3> QED
      BY <1>1, <3>3, DoesOK
  <2>4. \/ Returns(h) /\ (champion \/ Succeeded = {} \/ Open(jobs[h].plan))
        \/ Goes(h, [actor[h] EXCEPT !.plan = jobs[h].plan, !.at = "pick"])
    BY <1>9, <1>1, Standing DEF Fallback, FallsBack
  <2> QED
    BY <2>2, <2>3, <2>4
<1> QED
  BY <1>2, <1>3, <1>4, <1>5, <1>6, <1>7, <1>8, <1>9

\* A hook goes on to schedule decision d of a plan that is not before its own.
LEMMA SchedulesOn ==
    ASSUME DInv, IInv', NEW h \in Hooks, NEW s, Goes(h, s), s.at = "schedule", s.path # "user",
           UNCHANGED jobs, RowsGrow, Selection, excused \subseteq excused',
           decisions'[s.decision].plan >= jobs[h].plan,
           actor[h].at \notin {"idle", "done", "lost", "outcome"},
           \A d \in 1..Len(decisions') : d > Len(decisions) =>
              /\ decisions'[d].type # "REOPEN"
              /\ decisions'[d].by = "planner" => decisions'[d].type \in {"ADD", "STOP", "SELECT"},
           UNCHANGED plans
    PROVE  DInv'
<1>1. Follows(h, s, plans', decisions')
  BY DEF Follows
<1>2. \A p \in 1..Len(plans') : ~ p > Len(plans)
  BY DEF DInv, IInv, TypeOK
<1>3. Does(h, s)
  BY <1>1, <1>2 DEF Does, Selection
<1> QED
  BY <1>3, DoesOK DEF Actors

LEMMA PlannerRepeatsDecided ==
    ASSUME DInv, IInv', NEW h \in Hooks, PlannerRepeats(h)
    PROVE  DInv'
<1> DEFINE p == actor[h].plan
           d == Newest(DecidedByPlanner(p))
           s == [actor[h] EXCEPT !.at = "schedule", !.path = "planner", !.decision = d]
<1>1. DecidedByPlanner(p) \in SUBSET (1..Len(decisions)) /\ DecidedByPlanner(p) # {}
  BY DEF PlannerRepeats, DecidedByPlanner, PlannerDecisions
<1>2. d \in DecidedByPlanner(p) /\ Len(decisions) \in Nat
  BY <1>1, NewestInSet, Lengths DEF DInv, IInv
<1>3. d \in 1..Len(decisions) /\ decisions[d].plan = p /\ decisions[d].by = "planner"
  BY <1>2 DEF DecidedByPlanner, PlannerDecisions
<1>4. decisions[d].type \in {"ADD", "STOP", "SELECT"}
  BY <1>3 DEF DInv, Ground, SelectionsMean
<1>5. h \in Actors /\ actor[h].at = "planner" /\ p = jobs[h].plan
  BY DEF PlannerRepeats, Actors, DInv, Ground, Follows
<1>6. /\ UNCHANGED <<plans, jobs, decisions>> /\ excused \subseteq excused' /\ Selection
      /\ decisions[d].type \in {"SELECT", "STOP"} => Good' \/ Succeeded = {}
  BY SelectedAgain DEF PlannerRepeats
<1>7. CASE decisions[d].type # "ADD"
  <2>1. Returns(h)
    BY <1>7 DEF PlannerRepeats
  <2>2. Good' \/ Ends(jobs[h].plan)
    BY <1>4, <1>6, <1>7 DEF Ends
  <2> QED
    BY <1>5, <1>6, <2>1, <2>2, ReturnsEnds
<1>8. CASE decisions[d].type = "ADD"
  <2>1. Goes(h, s)
    BY <1>8 DEF PlannerRepeats
  <2>2. s.at = "schedule" /\ s.path = "planner" /\ s.decision = d
    BY <1>5, Standing DEF DInv, Actor
  <2>3. jobs[h].plan \in Nat
    BY <1>5, Lengths, Standing DEF DInv, Actor
  <2> HIDE DEF s, d
  <2>4. decisions'[s.decision].plan >= jobs[h].plan
    BY <1>3, <1>5, <1>6, <2>2, <2>3
  <2> QED
    BY <1>5, <1>6, <2>1, <2>2, <2>4, RowsSame, SchedulesOn
<1> QED
  BY <1>7, <1>8

LEMMA PlannerAsksDecided ==
    ASSUME DInv, IInv', NEW h \in Hooks, PlannerAsks(h)
    PROVE  DInv'
<1>1. PICK x \in {"error", "ADD", "STOP", "WAIT", "SELECT"} :
        Goes(h, [actor[h] EXCEPT !.at = "llm", !.path = "planner", !.say = x])
  BY DEF PlannerAsks
<1> DEFINE s == [actor[h] EXCEPT !.at = "llm", !.path = "planner", !.say = x]
<1>2. h \in Actors /\ actor[h].at = "planner" /\ actor[h].plan = jobs[h].plan
  BY DEF PlannerAsks, Actors, DInv, Ground, Follows
<1>3. s.at = "llm" /\ s.plan = jobs[h].plan
  BY <1>2, Standing DEF DInv, Actor
<1>4. UNCHANGED <<plans, jobs, decisions>> /\ Selection /\ excused' = excused
  BY RowsFixed DEF PlannerAsks
<1> HIDE DEF s
<1>5. Follows(h, s, plans', decisions')
  BY <1>3 DEF Follows
<1>6. Does(h, s)
  BY <1>1, <1>2, <1>3, <1>4, <1>5, RowsSame DEF s, Does, Selection
<1> QED
  BY <1>2, <1>6, DoesOK

LEMMA PlannerDecidesDecided ==
    ASSUME DInv, IInv', NEW h \in Hooks, PlannerDecides(h)
    PROVE  DInv'
<1> DEFINE p == actor[h].plan
           type == actor[h].say
           s == [actor[h] EXCEPT !.at = "schedule", !.decision = Len(decisions')]
           over == [Idle EXCEPT !.at = "done"]
<1>1. h \in Actors /\ actor[h].at = "llm" /\ p = jobs[h].plan /\ actor[h].path = "planner"
  BY Standing DEF PlannerDecides, Actors, DInv, Ground, Follows, Fits
<1>2. type \in {"ADD", "STOP", "SELECT"} /\ Decides(p, type, "planner") /\ Selects(type)
  BY DEF PlannerDecides
<1>3. Selection /\ (type \in {"SELECT", "STOP"} => Good' \/ Succeeded = {})
  BY <1>2, SelectedNow DEF IInv
<1>4. /\ Len(decisions') = Len(decisions) + 1 /\ Len(decisions) \in Nat
      /\ \A d \in 1..Len(decisions) : decisions'[d] = decisions[d]
      /\ decisions'[Len(decisions) + 1] = [plan |-> p, type |-> type, by |-> "planner"]
  BY <1>2, Decided
<1>5. /\ UNCHANGED plans /\ UNCHANGED jobs /\ excused' = excused
      /\ Len(plans) \in Nat /\ Len(jobs) \in Nat
  BY Lengths DEF PlannerDecides, DInv, IInv
<1>6. /\ RowsGrow
      /\ \A d \in 1..Len(decisions') : d > Len(decisions) =>
            /\ decisions'[d].type # "REOPEN"
            /\ decisions'[d].by = "planner" => decisions'[d].type \in {"ADD", "STOP", "SELECT"}
  <2>1. RowsGrow
    BY <1>4, <1>5 DEF RowsGrow
  <2>2. \A d \in 1..Len(decisions') : d > Len(decisions) => d = Len(decisions) + 1
    BY <1>4
  <2> QED
    BY <1>2, <1>4, <2>1, <2>2
<1>7. CASE type # "ADD"
  <2>1. Goes(h, over) /\ over.at = "done"
    BY <1>7 DEF PlannerDecides, Returns, Over, Idle
  <2>2. Good' \/ Ends(jobs[h].plan)
    BY <1>2, <1>3, <1>7 DEF Ends
  <2> HIDE DEF over
  <2>3. Follows(h, over, plans', decisions')
    BY <2>1 DEF Follows
  <2>4. \A q \in 1..Len(plans') : ~ q > Len(plans)
    BY <1>5
  <2>5. Does(h, over)
    BY <1>1, <1>3, <1>5, <1>6, <2>1, <2>2, <2>3, <2>4 DEF Does, Selection
  <2> QED
    BY <1>1, <2>5, DoesOK
<1>8. CASE type = "ADD"
  <2>1. Goes(h, s)
    BY <1>8 DEF PlannerDecides
  <2>2. s.at = "schedule" /\ s.path = "planner" /\ s.decision = Len(decisions) + 1
    BY <1>1, <1>4, Standing DEF DInv, Actor
  <2>3. jobs[h].plan \in Nat
    BY <1>1, Standing DEF DInv, Actor
  <2> HIDE DEF s
  <2>4. decisions'[s.decision].plan >= jobs[h].plan
    BY <1>1, <1>4, <2>2, <2>3
  <2> QED
    BY <1>1, <1>3, <1>5, <1>6, <2>1, <2>2, <2>4, SchedulesOn
<1> QED
  BY <1>7, <1>8

\* A decision that is not the planner's, by an actor that ends with it or, being
\* a user, goes on.
LEMMA DecidesAndEnds ==
    ASSUME DInv, IInv', NEW a \in Actors, NEW s, Goes(a, s),
           NEW p, NEW type, NEW by, Decides(p, type, by), by # "planner",
           type = "REOPEN" => Good',
           UNCHANGED plans, UNCHANGED jobs, Selection, excused \subseteq excused',
           s.at # "cancel",
           a \in Hooks => /\ actor[a].at \notin {"idle", "done", "lost", "outcome"}
                          /\ s.at = "done"
                          /\ Good' \/ Ends(jobs[a].plan)
    PROVE  DInv'
<1>1. /\ Len(decisions') = Len(decisions) + 1 /\ Len(decisions) \in Nat
      /\ \A d \in 1..Len(decisions) : decisions'[d] = decisions[d]
      /\ decisions'[Len(decisions) + 1] = [plan |-> p, type |-> type, by |-> by]
      /\ Len(plans) \in Nat /\ Len(jobs) \in Nat
  BY Decided, Lengths DEF DInv, IInv
<1>2. RowsGrow /\ \A q \in 1..Len(plans') : ~ q > Len(plans)
  BY <1>1 DEF RowsGrow
<1>3. \A d \in 1..Len(decisions') : d > Len(decisions) =>
            /\ decisions'[d].type = "REOPEN" => Good'
            /\ decisions'[d].by # "planner"
  <2>1. \A d \in 1..Len(decisions') : d > Len(decisions) => d = Len(decisions) + 1
    BY <1>1
  <2> QED
    BY <1>1, <2>1
<1>4. a \in Hooks => Follows(a, s, plans', decisions')
  BY DEF Follows
<1>5. Does(a, s)
  BY <1>2, <1>3, <1>4 DEF Does, Selection
<1> QED
  BY <1>5, DoesOK

LEMMA PickChampionDecided ==
    ASSUME DInv, IInv', NEW a \in Actors, PickChampion(a)
    PROVE  DInv'
<1> DEFINE over == IF a \in Hooks THEN [Idle EXCEPT !.at = "done"] ELSE Idle
           next == [actor[a] EXCEPT !.at = "aggregate"]
<1>1. Decides(actor[a].plan, "SELECT", "fallback") /\ Selection /\ Good'
  BY SelectedNow, Decided DEF PickChampion, IInv
<1>2. UNCHANGED plans /\ UNCHANGED jobs /\ excused' = excused /\ actor[a].at = "pick"
  BY DEF PickChampion
<1>3. CASE Goes(a, over)
  <2>1. over.at \in {"done", "idle"} /\ (a \in Hooks => over.at = "done")
    BY DEF Idle
  <2> HIDE DEF over
  <2> QED
    BY <1>1, <1>2, <1>3, <2>1, DecidesAndEnds
<1>4. CASE Goes(a, next) /\ a \notin Hooks
  <2>1. next.at = "aggregate"
    BY Standing DEF DInv, Actor
  <2> HIDE DEF next
  <2> QED
    BY <1>1, <1>2, <1>4, <2>1, DecidesAndEnds
<1> QED
  BY <1>3, <1>4, CampaignAssumption DEF PickChampion, Executed, DefersAggregate, Returns, Over, At, Actors

LEMMA ReviewRepeatsDecided ==
    ASSUME DInv, IInv', NEW h \in Hooks, ReviewRepeats(h)
    PROVE  DInv'
<1> DEFINE d == Newest(ActionDecisions(Latest))
           s == [actor[h] EXCEPT !.at = "schedule", !.path = "review",
                                 !.plan = Latest, !.decision = d]
<1>1. ActionDecisions(Latest) \in SUBSET (1..Len(decisions)) /\ ActionDecisions(Latest) # {}
  BY DEF ReviewRepeats, ActionDecisions
<1>2. d \in ActionDecisions(Latest)
  BY <1>1, NewestInSet, Lengths DEF DInv, IInv
<1>3. d \in 1..Len(decisions) /\ decisions[d].plan = Latest /\ decisions[d].type # "WAIT"
  BY <1>2 DEF ActionDecisions
<1>4. decisions[d].type \in {"ADD", "SELECT", "STOP", "REOPEN"}
  BY <1>3, Lengths DEF DInv, IInv, Decision
<1>5. h \in Actors /\ actor[h].at = "review"
  BY DEF ReviewRepeats, Actors
<1>6. /\ UNCHANGED <<plans, jobs, decisions>> /\ excused' = excused /\ Selection
      /\ decisions[d].type \in {"SELECT", "STOP"} => Good' \/ Succeeded = {}
  BY SelectedAgain DEF ReviewRepeats
<1>7. CASE decisions[d].type # "ADD"
  <2>1. Returns(h)
    BY <1>7 DEF ReviewRepeats
  <2>2. decisions[d].type = "REOPEN" => Good
    BY <1>3 DEF DInv, Ground, SelectionsMean
  <2>3. Good' \/ Ends(jobs[h].plan)
    BY <1>4, <1>6, <1>7, <2>2 DEF Ends
  <2> QED
    BY <1>5, <1>6, <2>1, <2>3, ReturnsEnds
<1>8. CASE decisions[d].type = "ADD"
  <2>1. Goes(h, s)
    BY <1>8 DEF ReviewRepeats
  <2>2. s.at = "schedule" /\ s.path = "review" /\ s.decision = d
    BY <1>5, Standing DEF DInv, Actor
  <2>3. Latest >= jobs[h].plan
    <3>1. h \in 1..Len(jobs)
      BY <1>5, Standing DEF DInv, Fits
    <3> QED
      BY <3>1, Lengths DEF Latest, DInv, IInv, RowsRefer
  <2> HIDE DEF s, d
  <2>4. decisions'[s.decision].plan >= jobs[h].plan
    BY <1>3, <1>6, <2>2, <2>3
  <2> QED
    BY <1>5, <1>6, <2>1, <2>2, <2>4, RowsSame, SchedulesOn
<1> QED
  BY <1>7, <1>8

LEMMA ReviewDecidesDecided ==
    ASSUME DInv, IInv', NEW h \in Hooks, ReviewDecides(h)
    PROVE  DInv'
<1> DEFINE s == [actor[h] EXCEPT !.at = "schedule", !.path = "review",
                                 !.plan = Latest, !.decision = Len(decisions')]
           over == [Idle EXCEPT !.at = "done"]
<1>1. PICK type \in ReviewTypes(Latest) :
        /\ Decides(Latest, type, "review") /\ Selects(type)
        /\ IF type = "ADD" THEN Goes(h, s) ELSE Returns(h)
  BY DEF ReviewDecides
<1>2. type \in {"ADD", "STOP", "SELECT"}
  BY DEF ReviewTypes
<1>3. Selection /\ (type \in {"SELECT", "STOP"} => Good' \/ Succeeded = {})
  BY <1>1, SelectedNow DEF IInv
<1>4. /\ h \in Actors /\ actor[h].at = "review"
      /\ UNCHANGED plans /\ UNCHANGED jobs /\ excused' = excused
  BY DEF ReviewDecides, Actors
<1>5. CASE type # "ADD"
  <2>1. Goes(h, over) /\ over.at = "done"
    BY <1>1, <1>5 DEF Returns, Over, Idle
  <2>2. Good' \/ Ends(jobs[h].plan)
    BY <1>2, <1>3, <1>5 DEF Ends
  <2> HIDE DEF over
  <2> QED
    BY <1>1, <1>2, <1>3, <1>4, <2>1, <2>2, DecidesAndEnds
<1>6. CASE type = "ADD"
  <2>1. /\ Len(decisions') = Len(decisions) + 1 /\ Len(decisions) \in Nat
        /\ \A d \in 1..Len(decisions) : decisions'[d] = decisions[d]
        /\ decisions'[Len(decisions) + 1] = [plan |-> Latest, type |-> type, by |-> "review"]
        /\ Len(plans) \in Nat /\ Len(jobs) \in Nat
    BY <1>1, Decided, Lengths DEF DInv, IInv
  <2>2. RowsGrow
    BY <1>4, <2>1 DEF RowsGrow
  <2>3. \A d \in 1..Len(decisions') : d > Len(decisions) =>
              decisions'[d].type # "REOPEN" /\ decisions'[d].by # "planner"
    <3>1. \A d \in 1..Len(decisions') : d > Len(decisions) => d = Len(decisions) + 1
      BY <2>1
    <3> QED
      BY <1>6, <2>1, <3>1
  <2>4. Goes(h, s) /\ s.at = "schedule" /\ s.path = "review" /\ s.decision = Len(decisions) + 1
    BY <1>1, <1>4, <1>6, <2>1, Standing DEF DInv, Actor
  <2>5. Latest >= jobs[h].plan
    <3>1. h \in 1..Len(jobs)
      BY <1>4, Standing DEF DInv, Fits
    <3> QED
      BY <3>1, Lengths DEF Latest, DInv, IInv, RowsRefer
  <2> HIDE DEF s
  <2>6. decisions'[s.decision].plan >= jobs[h].plan
    BY <2>1, <2>4, <2>5
  <2> QED
    BY <1>3, <1>4, <2>2, <2>3, <2>4, <2>6, SchedulesOn
<1> QED
  BY <1>5, <1>6

-----------------------------------------------------------------------------
(* Steps of hooks and of users on their way to a plan's jobs. *)

LEMMA StopsDecided ==
    ASSUME DInv, IInv', NEW a \in Actors,
           \/ ScheduleBlocked(a) \/ NothingNovel(a) \/ RoundsExhausted(a)
           \/ ExecuteBlocked(a) \/ CreateJobFails(a) \/ Aggregate(a)
    PROVE  DInv'
<1>1. a \in Hooks => Follows(a, actor[a], plans, decisions)
  BY DEF DInv, Ground
<1>2. CASE ScheduleBlocked(a)
  BY <1>2, RowsFixed, ChampionFound, ReturnsEnds DEF ScheduleBlocked, rows
<1>3. CASE NothingNovel(a)
  <2>1. excused \subseteq excused' /\ excused' # {}
    BY <1>3, Zenon DEF NothingNovel, Excuse
  <2> QED
    BY <1>3, <2>1, RowsFixed, ReturnsEnds DEF NothingNovel
<1>4. CASE RoundsExhausted(a)
  <2>1. UNCHANGED <<plans, jobs, decisions>> /\ Selection /\ excused' = excused /\ actor[a].at = "schedule"
    BY <1>4, RowsFixed DEF RoundsExhausted
  <2>2. CASE At(a, "pick")
    BY <2>1, <2>2, AtGoesOn
  <2>3. CASE Returns(a) /\ (champion \/ Succeeded = {})
    <3>1. Good' \/ Ends(jobs[a].plan)
      BY <1>4, <2>3, ChampionFound DEF Ends, RoundsExhausted, rows
    <3> QED
      BY <2>1, <2>3, <3>1, ReturnsEnds
  <2> QED
    BY <1>4, <2>2, <2>3 DEF RoundsExhausted, TerminalStop
<1>5. CASE ExecuteBlocked(a)
  <2>1. UNCHANGED <<plans, jobs, decisions>> /\ Selection /\ excused' = excused /\ actor[a].at = "execute"
    BY <1>5, RowsFixed DEF ExecuteBlocked
  <2>2. Good'
    BY <1>5, ChampionFound DEF ExecuteBlocked, rows
  <2> QED
    BY <1>5, <2>1, <2>2, ReturnsEnds, AtGoesOn DEF ExecuteBlocked, ExecutionFails
<1>6. CASE CreateJobFails(a)
  <2>1. excused \subseteq excused' /\ excused' # {}
    BY <1>6, Zenon DEF CreateJobFails, Excuse
  <2>2. UNCHANGED <<plans, jobs, decisions>> /\ Selection /\ actor[a].at = "jobs"
    BY <1>6, RowsFixed DEF CreateJobFails
  <2> QED
    BY <1>6, <2>1, <2>2, ReturnsEnds, AtGoesOn DEF CreateJobFails, ExecutionFails
<1>7. CASE Aggregate(a)
  <2>1. a \notin Hooks
    BY <1>1, <1>7 DEF Aggregate, Follows
  <2> QED
    BY <1>7, <2>1, RowsFixed, ReturnsEnds DEF Aggregate
<1> QED
  BY <1>2, <1>3, <1>4, <1>5, <1>6, <1>7

LEMMA ReusePlanDecided ==
    ASSUME DInv, IInv', NEW a \in Actors, ReusePlan(a)
    PROVE  DInv'
<1>1. UNCHANGED <<plans, jobs, decisions>> /\ Selection /\ excused' = excused /\ actor[a].at = "schedule"
  BY RowsFixed DEF ReusePlan
<1>2. CASE actor[a].path = "user"
  <2>1. a \notin Hooks
    BY <1>1, <1>2 DEF DInv, Ground, Follows
  <2> QED
    BY <1>1, <1>2, <2>1, ReturnsEnds DEF ReusePlan
<1>3. CASE actor[a].path # "user"
  <2>1. PICK p \in FollowUps(actor[a].decision) :
            Goes(a, [actor[a] EXCEPT !.at = "execute", !.plan = p])
    BY <1>3 DEF ReusePlan
  <2> DEFINE s == [actor[a] EXCEPT !.at = "execute", !.plan = p]
  <2>2. s.at = "execute" /\ s.plan = p /\ s.path = actor[a].path
    BY Standing DEF DInv, Actor
  <2> HIDE DEF s
  <2>3. p \in 1..Len(plans) /\ plans[p].source = actor[a].decision
    BY <2>1 DEF FollowUps
  <2>4. actor[a].decision \in 1..Len(decisions) /\ Len(decisions) \in Nat
    BY <1>1, Standing, Lengths DEF DInv, IInv, Fits
  <2>5. plans[p].source # 0 /\ decisions[actor[a].decision].plan < p
    BY <2>3, <2>4 DEF DInv, Ground, SourcesEarlier
  <2>6. decisions[actor[a].decision].plan \in Nat /\ p \in Nat
    BY <2>3, <2>4, Lengths DEF DInv, IInv, Decision
  <2>7. ASSUME a \in Hooks PROVE p > jobs[a].plan
    <3>1. a \in 1..Len(jobs) /\ decisions[actor[a].decision].plan >= jobs[a].plan
      BY <1>1, <2>7, Standing DEF DInv, Ground, Follows, Fits
    <3>2. jobs[a].plan \in Nat
      BY <3>1, Lengths DEF DInv, IInv, Job
    <3> QED
      BY <2>5, <2>6, <3>1, <3>2
  <2>8. a \in Hooks => Follows(a, s, plans, decisions)
    BY <1>3, <2>2, <2>5, <2>7 DEF Follows
  <2> QED
    BY <1>1, <2>1, <2>2, <2>8, Moves DEF s
<1> QED
  BY <1>2, <1>3

LEMMA SchedulePlanDecided ==
    ASSUME DInv, IInv', NEW a \in Actors, SchedulePlan(a)
    PROVE  DInv'
<1> DEFINE s == [actor[a] EXCEPT !.at = "create"]
<1>1. /\ UNCHANGED <<plans, jobs, decisions>> /\ Selection /\ excused' = excused
      /\ actor[a].at = "schedule" /\ Goes(a, s)
  BY RowsFixed DEF SchedulePlan, At
<1>2. s.at = "create" /\ s.path = actor[a].path /\ s.decision = actor[a].decision
  BY Standing DEF DInv, Actor
<1> HIDE DEF s
<1>3. a \in Hooks => Follows(a, s, plans, decisions)
  BY <1>1, <1>2 DEF DInv, Ground, Follows
<1> QED
  BY <1>1, <1>2, <1>3, Moves

LEMMA CreatePlanDecided ==
    ASSUME DInv, IInv', NEW a \in Actors, CreatePlan(a)
    PROVE  DInv'
<1> DEFINE d == actor[a].decision
           n == Len(plans)
           over == IF a \in Hooks THEN [Idle EXCEPT !.at = "done"] ELSE Idle
           next == [actor[a] EXCEPT !.at = "execute", !.plan = Len(plans')]
<1>1. PICK size \in FollowUpSizes :
        plans' = Append(plans, [source |-> d, auto |-> actor[a].path # "user", size |-> size])
  BY DEF CreatePlan
<1>2. /\ plans' \in Seq(Plan) /\ plans \in Seq(Plan) /\ n \in Nat
      /\ Len(decisions) \in Nat /\ Len(jobs) \in Nat
  BY DEF DInv, IInv, TypeOK
<1>3. Len(plans') = n + 1 /\ \A p \in 1..n : plans'[p] = plans[p]
  BY <1>1, <1>2
<1>4. plans'[n + 1].source = d
  BY <1>1, <1>2
<1>5. /\ UNCHANGED jobs /\ UNCHANGED decisions /\ UNCHANGED champion /\ UNCHANGED selection
      /\ excused' = excused /\ actor[a].at = "create"
  BY DEF CreatePlan
<1>6. d \in 1..Len(decisions) /\ d # 0
  BY <1>2, <1>5, Standing DEF DInv, Fits
<1>7. decisions[d].plan \in 1..n
  BY <1>6 DEF DInv, IInv, RowsRefer
<1>8. /\ RowsGrow /\ Selection
      /\ \A e \in 1..Len(decisions') : ~ e > Len(decisions)
      /\ \A p \in 1..Len(plans') : p > n => p = n + 1
  BY <1>2, <1>3, <1>5, SelectionStays DEF RowsGrow
<1>9. \A p \in 1..Len(plans') : p > n /\ plans'[p].source # 0 =>
            /\ plans'[p].source \in 1..Len(decisions)
            /\ decisions[plans'[p].source].plan < p
  <2>1. decisions[d].plan < n + 1
    BY <1>2, <1>7
  <2> HIDE DEF d
  <2> QED
    BY <1>4, <1>6, <1>8, <2>1
<1> HIDE DEF d
<1>10. CASE a \notin Hooks
  <2>1. PICK s : Goes(a, s) /\ s.at \in {"idle", "execute"}
    <3>1. Idle.at = "idle" /\ next.at = "execute"
      BY Standing DEF Idle, DInv, Actor
    <3> QED
      BY <1>10, <3>1 DEF CreatePlan, Returns, Over
  <2>2. Does(a, s)
    BY <1>5, <1>8, <1>9, <1>10, <2>1 DEF Does, Selection
  <2> QED
    BY <2>2, DoesOK
<1>11. CASE a \in Hooks
  <2>1. /\ actor[a].path # "user" /\ a \in 1..Len(jobs) /\ decisions[d].plan >= jobs[a].plan
    BY <1>5, <1>11, Standing DEF DInv, Ground, Follows, Fits, d
  <2>2. Goes(a, next)
    BY <2>1 DEF CreatePlan
  <2>3. next.at = "execute" /\ next.path = actor[a].path /\ next.plan = n + 1
    BY <1>3, Standing DEF DInv, Actor
  <2> HIDE DEF next
  <2>4. n + 1 > jobs[a].plan
    <3>1. jobs[a].plan \in 1..n
      BY <2>1 DEF DInv, IInv, RowsRefer
    <3> QED
      BY <1>2, <3>1
  <2>5. Follows(a, next, plans', decisions')
    BY <1>4, <1>6, <2>1, <2>3, <2>4 DEF Follows
  <2>6. Does(a, next)
    BY <1>5, <1>8, <1>9, <2>2, <2>3, <2>5 DEF Does, Selection
  <2> QED
    BY <2>6, DoesOK
<1> QED
  BY <1>10, <1>11

LEMMA ExecutePlanDecided ==
    ASSUME DInv, IInv', NEW a \in Actors, ExecutePlan(a)
    PROVE  DInv'
<1> DEFINE p == actor[a].plan
           s == [actor[a] EXCEPT !.at = "jobs", !.todo = Missing(p), !.skipped = FALSE]
<1>1. /\ UNCHANGED <<plans, jobs, decisions>> /\ Selection /\ excused' = excused
      /\ actor[a].at = "execute" /\ Goes(a, s)
  BY RowsFixed DEF ExecutePlan
<1>2. s.at = "jobs" /\ s.path = actor[a].path /\ s.plan = p /\ s.todo = Missing(p)
  BY Standing DEF DInv, Actor
<1> HIDE DEF s
<1>3. a \in Hooks => Follows(a, s, plans, decisions)
  BY <1>1, <1>2 DEF DInv, Ground, Follows
<1>4. ASSUME Missing(p) = {} PROVE HasWork(p)
  <2>1. p \in 1..Len(plans) /\ plans[p] \in Plan
    BY <1>1, Standing, Lengths DEF DInv, IInv, Fits
  <2>2. plans[p].size \in Nat /\ 1 <= plans[p].size
    <3>1. MaxJobs \in Nat
      BY CampaignAssumption DEF CampaignAssumption
    <3>2. InitialSizes \cup FollowUpSizes \subseteq Nat \ {0}
      BY <3>1, CampaignAssumption DEF CampaignAssumption
    <3>3. plans[p].size \in InitialSizes \cup FollowUpSizes
      BY <2>1 DEF Plan
    <3>4. plans[p].size \in Nat \ {0}
      BY <3>2, <3>3, Zenon
    <3> QED
      BY <3>4
  <2>3. PICK j \in JobsOf(p) : jobs[j].row # "failed"
    BY <1>4, <2>2 DEF Missing
  <2>4. j \in 1..Len(jobs) /\ jobs[j].row \in {"open", "succeeded"}
    BY <2>3, Lengths DEF JobsOf, DInv, IInv, Job
  <2>5. jobs[j].row = "open" => actor[j].at = "idle"
    BY <2>4 DEF DInv, Ground
  <2> QED
    BY <2>3, <2>4, <2>5 DEF HasWork
<1> QED
  BY <1>1, <1>2, <1>3, <1>4, Moves

LEMMA SkipsDecided ==
    ASSUME DInv, IInv', NEW a \in Actors, SkipForCost(a) \/ SkipDuplicate(a)
    PROVE  DInv'
<1>1. /\ UNCHANGED <<plans, jobs, decisions>> /\ Selection /\ actor[a].at = "jobs"
      /\ actor[a] \in Actor
  BY RowsFixed, Standing DEF SkipForCost, SkipDuplicate, DInv
<1>2. PICK s : /\ Goes(a, s) /\ s.at = "jobs" /\ s.path = actor[a].path /\ s.plan = actor[a].plan
               /\ excused \subseteq excused' /\ (s.skipped \/ excused' # {})
  <2>1. CASE SkipForCost(a)
    <3>1. PICK e \in actor[a].todo : Goes(a, [actor[a] EXCEPT !.todo = @ \ {e}, !.skipped = TRUE])
      BY <2>1 DEF SkipForCost
    <3> DEFINE s == [actor[a] EXCEPT !.todo = @ \ {e}, !.skipped = TRUE]
    <3>2. s.at = "jobs" /\ s.path = actor[a].path /\ s.plan = actor[a].plan /\ s.skipped
      BY <1>1 DEF Actor
    <3>3. excused' = excused
      BY <2>1 DEF SkipForCost
    <3> QED
      BY <3>1, <3>2, <3>3
  <2>2. CASE SkipDuplicate(a)
    <3>1. PICK e \in actor[a].todo : Goes(a, [actor[a] EXCEPT !.todo = @ \ {e}])
      BY <2>2 DEF SkipDuplicate
    <3> DEFINE s == [actor[a] EXCEPT !.todo = @ \ {e}]
    <3>2. s.at = "jobs" /\ s.path = actor[a].path /\ s.plan = actor[a].plan
      BY <1>1 DEF Actor
    <3>3. excused \subseteq excused' /\ excused' # {}
      BY <2>2, Zenon DEF SkipDuplicate, Excuse
    <3> QED
      BY <3>1, <3>2, <3>3
  <2> QED
    BY <2>1, <2>2
<1>3. a \in Hooks => Follows(a, s, plans, decisions)
  BY <1>1, <1>2 DEF DInv, Ground, Follows
<1> QED
  BY <1>1, <1>2, <1>3, Moves

LEMMA JobsCreatedDecided ==
    ASSUME DInv, IInv', NEW a \in Actors, JobsCreated(a)
    PROVE  DInv'
<1> DEFINE p == actor[a].plan
<1>1. /\ UNCHANGED <<plans, jobs, decisions>> /\ Selection /\ excused' = excused
      /\ actor[a].at = "jobs" /\ actor[a].todo = {}
      /\ UNCHANGED <<champion, selection, decisions>>
  BY SelectionStays DEF JobsCreated
<1>2. ASSUME a \in Hooks, Live(p) PROVE Ends(jobs[a].plan)
  <2>1. p \in 1..Len(plans) /\ p > jobs[a].plan
    BY <1>1, <1>2, Standing DEF DInv, Ground, Follows, Fits
  <2> QED
    BY <1>2, <2>1 DEF Ends, Later
<1>3. Open(p) => Live(p)
  BY DEF Open, Live
<1>4. HasWork(p) => Live(p)
  BY DEF HasWork, Live
<1>5. CASE At(a, "pick")
  BY <1>1, <1>5, AtGoesOn
<1>6. CASE Executed(a) /\ (champion \/ Succeeded = {} \/ Open(p) \/ ~ actor[a].skipped)
  <2>1. CASE a \notin Hooks
    BY <1>1, <1>6, <2>1, ReturnsEnds, AtGoesOn DEF Executed
  <2>2. CASE a \in Hooks
    <3>1. Returns(a)
      BY <1>6, <2>2 DEF Executed, DefersAggregate
    <3>2. champion => Good'
      BY <1>1, ChampionFound
    <3>3. Succeeded = {} => Ends(jobs[a].plan)
      BY DEF Ends
    <3>4. Clean /\ ~ actor[a].skipped => HasWork(p)
      BY <1>1, <2>2 DEF DInv, Course, Leaves
    <3>5. Clean => Good' \/ Ends(jobs[a].plan)
      BY <1>2, <1>3, <1>4, <1>6, <2>2, <3>2, <3>3, <3>4
    <3> QED
      BY <1>1, <3>1, <3>5, ReturnsEnds
  <2> QED
    BY <2>1, <2>2
<1> QED
  BY <1>5, <1>6 DEF JobsCreated, TerminalStop

-----------------------------------------------------------------------------
(* Steps that write jobs. *)

LEMMA CreateJobDecided ==
    ASSUME DInv, IInv', NEW a \in Actors, CreateJob(a)
    PROVE  DInv'
<1> DEFINE n == Len(jobs)
<1> PICK p : p = actor[a].plan
  OBVIOUS
<1>1. PICK e \in actor[a].todo :
        /\ jobs' = Append(jobs, [plan |-> p, experiment |-> e, row |-> "open", summary |-> "none"])
        /\ Goes(a, [actor[a] EXCEPT !.todo = @ \ {e}])
  BY DEF CreateJob
<1> DEFINE s == [actor[a] EXCEPT !.todo = @ \ {e}]
<1>2. /\ UNCHANGED <<plans, decisions, champion, selection, excused>>
      /\ actor[a].at = "jobs" /\ n < MaxJobs /\ n \in Nat /\ jobs \in Seq(Job)
  BY DEF CreateJob, DInv, IInv, TypeOK
<1>3. /\ Len(jobs') = n + 1 /\ \A j \in 1..n : jobs'[j] = jobs[j]
      /\ jobs'[n + 1].plan = p /\ jobs'[n + 1].row = "open"
  BY <1>1, <1>2
<1>4. s.at = "jobs" /\ s.path = actor[a].path /\ s.plan = p /\ s.skipped = actor[a].skipped
  BY <1>2, Standing DEF DInv, Actor
<1> HIDE DEF s
<1>5. \A b \in Actors : actor'[b] = IF b = a THEN s ELSE actor[b]
  BY <1>1 DEF DInv, IInv, TypeOK, Goes, s
<1>6. n + 1 \in Hooks /\ n + 1 \in Actors /\ actor[n + 1].at = "idle" /\ actor'[n + 1].at = "idle"
  <2>1. n + 1 \in Hooks /\ n + 1 \in Actors
    BY <1>2, CampaignAssumption DEF Hooks, Actors, CampaignAssumption
  <2>2. actor[n + 1].at = "idle"
    BY <1>2, <2>1, Standing DEF DInv, Fits
  <2> QED
    BY <1>2, <1>5, <2>1, <2>2
<1>7. \A j \in 1..Len(jobs') : j \in 1..n \/ j = n + 1
  BY <1>2, <1>3
<1>8. 1..n \subseteq Hooks /\ Hooks \subseteq Actors
  BY Lengths DEF DInv, IInv, Actors
<1>9. Ground'
  <2>1. \A j \in 1..Len(jobs') : jobs'[j].row = "open" => actor'[j].at = "idle"
    BY <1>2, <1>3, <1>5, <1>6, <1>7, <1>8 DEF DInv, Ground
  <2>2. SelectionsMean' /\ SourcesEarlier'
    BY <1>2 DEF DInv, Ground, SelectionsMean, SourcesEarlier, Good
  <2>3. ASSUME NEW h \in Hooks PROVE Follows(h, actor[h], plans, decisions)'
    <3>1. h \in Actors /\ Follows(h, actor[h], plans, decisions)
      BY <1>8 DEF DInv, Ground
    <3>2. actor[h].at # "idle" => jobs'[h] = jobs[h]
      BY <1>3, <3>1, Standing DEF DInv, Fits
    <3> QED
      BY <1>2, <1>4, <1>5, <3>1, <3>2 DEF Follows
  <2>4. \A b \in Actors : actor'[b].at = "cancel" => excused' # {}
    BY <1>2, <1>4, <1>5 DEF DInv, Ground
  <2> QED
    BY <2>1, <2>2, <2>3, <2>4 DEF Ground
<1>10. Clean' => Clean
  BY <1>2, <1>5, <1>8 DEF Clean
<1>11. Clean' => Told'
  <2> SUFFICES ASSUME Clean', NEW j \in 1..n, jobs'[j].row # "open"
               PROVE  jobs'[j].summary = jobs'[j].row /\ actor'[j].at # "idle"
    BY <1>3, <1>7 DEF Told
  <2>1. Told /\ j \in Actors /\ jobs'[j] = jobs[j]
    BY <1>3, <1>8, <1>10 DEF DInv, Course
  <2>2. actor'[j].at = actor[j].at
    BY <1>2, <1>4, <1>5, <2>1
  <2> QED
    BY <2>1, <2>2 DEF Told
<1>12. ASSUME NEW j \in Hooks, actor'[j].at = "done" PROVE actor[j].at = "done"
  BY <1>4, <1>5, <1>8, <1>12
<1>13. ASSUME Clean', NEW h \in Hooks PROVE Leaves(h)'
  <2>1. CASE h = a
    <3>1. n + 1 \in JobsOf(p)'
      BY <1>2, <1>3 DEF JobsOf
    <3>2. HasWork(p)'
      BY <1>6, <3>1 DEF HasWork
    <3>3. actor'[h].plan = p
      BY <1>4, <1>5, <1>8, <2>1
    <3> QED
      BY <3>2, <3>3 DEF Leaves
  <2>2. CASE h # a
    <3>1. actor'[h] = actor[h]
      BY <1>5, <1>8, <2>2
    <3>2. Leaves(h)
      BY <1>10, <1>13 DEF DInv, Course
    <3>3. ASSUME NEW q, HasWork(q) PROVE HasWork(q)'
      <4>1. PICK j \in JobsOf(q) : jobs[j].row = "succeeded" \/ actor[j].at \in {"idle", "outcome"}
        BY <3>3 DEF HasWork
      <4>2. j \in JobsOf(q)' /\ jobs'[j] = jobs[j] /\ j \in Actors
        BY <1>2, <1>3, <1>8, <4>1 DEF JobsOf
      <4>3. jobs'[j].row = "succeeded" \/ actor'[j].at \in {"idle", "outcome"}
        BY <1>2, <1>5, <4>1, <4>2
      <4> QED
        BY <4>2, <4>3 DEF HasWork
    <3> QED
      BY <3>1, <3>2, <3>3 DEF Leaves
  <2> QED
    BY <2>1, <2>2
<1>14. Course'
  <2>1. Good => Good'
    BY <1>2 DEF Good
  <2>2. Len(plans) <= Len(plans') /\ Len(jobs) <= Len(jobs')
    BY <1>2, <1>3, Lengths DEF DInv, IInv
  <2>3. \A j \in 1..Len(jobs') : j > Len(jobs) => jobs'[j].row = "open"
    BY <1>2, <1>3, <1>7
  <2>4. \A q \in 1..Len(plans) : \A j \in JobsOf(q) :
            ~ (actor[j].at # "done" /\ actor'[j].at = "done")
    BY <1>8, <1>12 DEF JobsOf
  <2> QED
    BY <1>3, <1>10, <1>11, <1>13, <2>1, <2>2, <2>3, <2>4, CourseStep
<1> QED
  BY <1>9, <1>14 DEF DInv

\* Who cancels has excused a plan.
LEMMA CancelJobDecided ==
    ASSUME DInv, IInv', NEW a \in Actors, CancelJob(a)
    PROVE  DInv'
<1>1. /\ UNCHANGED <<plans, decisions, champion, selection, excused>>
      /\ actor[a].at = "cancel" /\ a \in Users /\ a \notin Hooks
      /\ actor[a].todo \subseteq 1..Len(jobs)
  BY Standing, CampaignAssumption DEF CancelJob, DInv, Fits, CampaignAssumption
<1>2. excused' # {}
  BY <1>1 DEF DInv, Ground
<1>3. PICK j \in actor[a].todo :
        /\ \/ jobs' = [jobs EXCEPT ![j].row = IF @ = "open" THEN "failed" ELSE @,
                                   ![j].summary = "failed"]
           \/ jobs' = [jobs EXCEPT ![j].row = IF @ = "open" THEN "failed" ELSE @]
           \/ UNCHANGED jobs
        /\ \E s : Goes(a, s)
  BY DEF CancelJob, Over
<1>4. jobs \in Seq(Job) /\ j \in 1..Len(jobs) /\ jobs[j] \in Job
  BY <1>1, Lengths DEF DInv, IInv, TypeOK
<1>5. /\ Len(jobs') = Len(jobs)
      /\ \A i \in 1..Len(jobs) : /\ jobs'[i].plan = jobs[i].plan
                                 /\ jobs'[i].row = "open" => jobs[i].row = "open"
  <2>1. ASSUME NEW row \in Job, jobs' = [jobs EXCEPT ![j] = row],
               row.plan = jobs[j].plan, row.row = "open" => jobs[j].row = "open"
        PROVE  /\ Len(jobs') = Len(jobs)
               /\ \A i \in 1..Len(jobs) : /\ jobs'[i].plan = jobs[i].plan
                                          /\ jobs'[i].row = "open" => jobs[i].row = "open"
    BY <1>4, <2>1
  <2>2. CASE jobs' = [jobs EXCEPT ![j].row = IF @ = "open" THEN "failed" ELSE @,
                                  ![j].summary = "failed"]
    BY <1>4, <2>1, <2>2 DEF Job
  <2>3. CASE jobs' = [jobs EXCEPT ![j].row = IF @ = "open" THEN "failed" ELSE @]
    BY <1>4, <2>1, <2>3 DEF Job
  <2> QED
    BY <1>3, <2>2, <2>3
<1>6. \A h \in Hooks : h \in Actors /\ actor'[h] = actor[h]
  <2>1. PICK x : actor' = [actor EXCEPT ![a] = x]
    BY <1>3 DEF Goes
  <2>2. \A b \in Actors : b # a => actor'[b] = actor[b]
    BY <2>1 DEF DInv, IInv, TypeOK
  <2> QED
    BY <1>1, <2>2 DEF Actors
<1>7. \A i \in 1..Len(jobs') : jobs'[i].row = "open" => actor'[i].at = "idle"
  <2>1. 1..Len(jobs) \subseteq Hooks
    BY Lengths DEF DInv, IInv
  <2> QED
    BY <1>5, <1>6, <2>1 DEF DInv, Ground
<1>8. SelectionsMean' /\ SourcesEarlier'
  BY <1>1 DEF DInv, Ground, SelectionsMean, SourcesEarlier, Good
<1>9. ASSUME NEW h \in Hooks PROVE Follows(h, actor[h], plans, decisions)'
  <2>2. actor[h].at # "idle" => h \in 1..Len(jobs)
    BY <1>6, Standing DEF DInv, Fits
  <2>1. actor[h].at # "idle" => jobs'[h].plan = jobs[h].plan
    BY <1>5, <2>2
  <2> QED
    BY <1>1, <1>6, <2>1 DEF Follows, DInv, Ground
<1> QED
  BY <1>2, <1>7, <1>8, <1>9 DEF DInv, Ground, Course, Clean

LEMMA CancelledDecided ==
    ASSUME DInv, IInv', NEW a \in Actors, Cancelled(a)
    PROVE  DInv'
<1> DEFINE next == [actor[a] EXCEPT !.at = "aggregate"]
<1>1. /\ UNCHANGED plans /\ UNCHANGED jobs /\ excused' = excused
      /\ actor[a].at = "cancel" /\ a \in Users /\ a \notin Hooks
  BY Standing, CampaignAssumption DEF Cancelled, DInv, Fits, CampaignAssumption
<1>2. Goes(a, next) \/ Goes(a, Idle)
  BY <1>1 DEF Cancelled, At, Over
<1>3. next.at = "aggregate" /\ Idle.at = "idle"
  BY Standing DEF DInv, Actor, Idle
<1>4. CASE UNCHANGED <<decisions, champion, selection>>
  <2>1. Selection
    BY <1>4, SelectionStays
  <2>2. CASE At(a, "aggregate")
    BY <1>1, <1>4, <2>1, <2>2, AtGoesOn
  <2>3. CASE Over(a)
    BY <1>1, <1>4, <2>1, <2>3, ReturnsEnds
  <2> QED
    BY <2>2, <2>3 DEF Cancelled
<1>5. CASE Decides(actor[a].plan, "SELECT", "user") /\ champion' = TRUE /\ selection' = "selected"
  <2>1. Selection
    BY <1>5 DEF Selection, Good
  <2> HIDE DEF next
  <2> QED
    BY <1>1, <1>2, <1>3, <1>5, <2>1, DecidesAndEnds
<1> QED
  BY <1>4, <1>5 DEF Cancelled

-----------------------------------------------------------------------------
(* Jobs and restarts. *)

\* A job that is open is written, and its hook starts, is lost or is left alone.
LEMMA JobWritten ==
    ASSUME DInv, IInv', NEW j \in 1..Len(jobs), jobs[j].row = "open",
           NEW row \in Job, jobs' = [jobs EXCEPT ![j] = row], row.plan = jobs[j].plan,
           NEW s, Goes(j, s),
           UNCHANGED <<plans, decisions, champion, selection, excused>>,
           \/ row.row = "open" /\ s = actor[j]
           \/ row.row # "open" /\ row.summary = row.row /\ s.at = "outcome" /\ s.plan = jobs[j].plan
           \/ row.row # "open" /\ s.at = "lost"
    PROVE  DInv'
<1>1. /\ 1..Len(jobs) \subseteq Hooks /\ Hooks \subseteq Actors /\ jobs \in Seq(Job)
      /\ actor[j].at = "idle"
  BY Lengths DEF DInv, IInv, TypeOK, Actors, Ground
<1>2. /\ Len(jobs') = Len(jobs) /\ Len(jobs) \in Nat
      /\ \A i \in 1..Len(jobs) : jobs'[i] = IF i = j THEN row ELSE jobs[i]
      /\ \A i \in 1..Len(jobs) : jobs'[i].plan = jobs[i].plan
  BY <1>1
<1>3. \A b \in Actors : actor'[b] = IF b = j THEN s ELSE actor[b]
  BY <1>1 DEF DInv, IInv, TypeOK, Goes
<1>4. s.at \in {"idle", "outcome", "lost"}
  BY <1>1
<1>5. Ground'
  <2>1. \A i \in 1..Len(jobs') : jobs'[i].row = "open" => actor'[i].at = "idle"
    BY <1>1, <1>2, <1>3 DEF DInv, Ground
  <2>2. SelectionsMean' /\ SourcesEarlier'
    BY DEF DInv, Ground, SelectionsMean, SourcesEarlier, Good
  <2>3. ASSUME NEW h \in Hooks PROVE Follows(h, actor[h], plans, decisions)'
    <3>1. actor[h].at # "idle" => jobs'[h].plan = jobs[h].plan
      BY <1>1, <1>2, Standing DEF DInv, Fits
    <3>2. CASE h = j
      BY <1>1, <1>2, <1>3, <1>4, <3>2 DEF Follows
    <3>3. CASE h # j
      BY <1>1, <1>3, <3>1, <3>3 DEF Follows, DInv, Ground
    <3> QED
      BY <3>2, <3>3
  <2>4. \A b \in Actors : actor'[b].at = "cancel" => excused' # {}
    BY <1>3, <1>4 DEF DInv, Ground
  <2> QED
    BY <2>1, <2>2, <2>3, <2>4 DEF Ground
<1>6. Clean' => Clean /\ s.at # "lost"
  BY <1>1, <1>3 DEF Clean
<1>7. Clean' => Told'
  BY <1>1, <1>2, <1>3, <1>6 DEF DInv, Course, Told
<1>8. ASSUME Clean', NEW h \in Hooks PROVE Leaves(h)'
  <2>1. CASE h = j
    BY <1>1, <1>3, <1>4, <2>1 DEF Leaves
  <2>2. CASE h # j
    <3>1. actor'[h] = actor[h]
      BY <1>1, <1>3, <2>2
    <3>2. Leaves(h)
      BY <1>6, <1>8 DEF DInv, Course
    <3>3. ASSUME NEW q, HasWork(q) PROVE HasWork(q)'
      <4>1. PICK i \in JobsOf(q) : jobs[i].row = "succeeded" \/ actor[i].at \in {"idle", "outcome"}
        BY <3>3 DEF HasWork
      <4>2. i \in JobsOf(q)' /\ i \in Actors /\ i \in 1..Len(jobs)
        BY <1>1, <1>2, <4>1 DEF JobsOf
      <4>3. CASE i = j
        <5>1. actor'[i].at \in {"idle", "outcome"}
          BY <1>3, <1>4, <1>6, <1>8, <4>2, <4>3
        <5> QED
          BY <4>2, <5>1 DEF HasWork
      <4>4. CASE i # j
        BY <1>2, <1>3, <4>1, <4>2, <4>4 DEF HasWork
      <4> QED
        BY <4>3, <4>4
    <3> QED
      BY <3>1, <3>2, <3>3 DEF Leaves
  <2> QED
    BY <2>1, <2>2
<1>9. Course'
  <2>1. Good => Good'
    BY DEF Good
  <2>2. Len(plans) <= Len(plans') /\ Len(jobs) <= Len(jobs')
    BY <1>2, Lengths DEF DInv, IInv
  <2>3. \A i \in 1..Len(jobs') : ~ i > Len(jobs)
    BY <1>2
  <2>4. \A q \in 1..Len(plans) : \A i \in JobsOf(q) :
            ~ (actor[i].at # "done" /\ actor'[i].at = "done")
    BY <1>1, <1>3, <1>4 DEF JobsOf
  <2>5. \A i \in 1..Len(jobs) :
           \/ jobs'[i].row = jobs[i].row
           \/ jobs[i].row = "open" /\ actor'[i].at # "done"
    BY <1>1, <1>2, <1>3, <1>4
  <2> QED
    BY <1>2, <1>6, <1>7, <1>8, <2>1, <2>2, <2>3, <2>4, <2>5, CourseStep
<1> QED
  BY <1>5, <1>9 DEF DInv

LEMMA JobStepDecided ==
    ASSUME DInv, IInv', NEW j \in 1..Len(jobs), JobStep(j)
    PROVE  DInv'
<1>1. /\ j \in Hooks /\ j \in Actors /\ jobs[j] \in Job /\ jobs \in Seq(Job)
      /\ jobs[j].row = "open" /\ actor[j].at = "idle"
  BY Lengths DEF DInv, IInv, TypeOK, Actors, Ground, JobStep, ReportSummary, CompleteJob,
                 FailJob, BlockRetry
<1>2. UNCHANGED <<plans, decisions, champion, selection, excused>>
  BY DEF JobStep, ReportSummary, CompleteJob, FailJob, BlockRetry
<1> DEFINE hook == [Idle EXCEPT !.at = "outcome", !.plan = jobs[j].plan]
           lost == [Idle EXCEPT !.at = "lost"]
<1>3. hook.at = "outcome" /\ hook.plan = jobs[j].plan /\ lost.at = "lost"
  BY DEF Idle
<1>4. Enqueue(j) => Goes(j, hook)
  BY <1>1 DEF Enqueue
<1>5. CASE ReportSummary(j)
  <2>1. PICK x \in {"running", "succeeded"} : jobs' = [jobs EXCEPT ![j].summary = x]
    BY <1>5 DEF ReportSummary
  <2> DEFINE row == [jobs[j] EXCEPT !.summary = x]
  <2>2. row \in Job /\ row.plan = jobs[j].plan /\ row.row = "open"
    BY <1>1 DEF Job
  <2>3. Goes(j, actor[j])
    BY <1>1, <1>5 DEF ReportSummary, Goes, DInv, IInv, TypeOK
  <2>4. jobs' = [jobs EXCEPT ![j] = row]
    BY <2>1
  <2> HIDE DEF row
  <2> QED
    BY <1>1, <1>2, <2>2, <2>3, <2>4, JobWritten
<1>6. CASE CompleteJob(j)
  <2> DEFINE row == [jobs[j] EXCEPT !.row = "succeeded"]
  <2>1. /\ row \in Job /\ row.plan = jobs[j].plan /\ row.row = "succeeded"
        /\ row.summary = "succeeded" /\ jobs' = [jobs EXCEPT ![j] = row]
    BY <1>1, <1>6 DEF Job, CompleteJob
  <2>2. Goes(j, hook)
    BY <1>4, <1>6 DEF CompleteJob
  <2> HIDE DEF row, hook
  <2> QED
    BY <1>1, <1>2, <1>3, <2>1, <2>2, JobWritten
<1>7. CASE FailJob(j)
  <2> DEFINE row == [jobs[j] EXCEPT !.row = "failed", !.summary = "failed"]
  <2>1. /\ row \in Job /\ row.plan = jobs[j].plan /\ row.row = "failed"
        /\ row.summary = "failed" /\ jobs' = [jobs EXCEPT ![j] = row]
    BY <1>1, <1>7 DEF Job, FailJob
  <2>2. Goes(j, hook)
    BY <1>4, <1>7 DEF FailJob
  <2> HIDE DEF row, hook
  <2> QED
    BY <1>1, <1>2, <1>3, <2>1, <2>2, JobWritten
<1>8. CASE BlockRetry(j)
  <2> DEFINE row == [jobs[j] EXCEPT !.row = "failed"]
  <2>1. /\ row \in Job /\ row.plan = jobs[j].plan /\ row.row = "failed"
        /\ jobs' = [jobs EXCEPT ![j] = row]
    BY <1>1, <1>8 DEF Job, BlockRetry
  <2>2. Goes(j, lost)
    BY <1>8 DEF BlockRetry
  <2> HIDE DEF row, lost
  <2> QED
    BY <1>1, <1>2, <1>3, <2>1, <2>2, JobWritten
<1> QED
  BY <1>5, <1>6, <1>7, <1>8 DEF JobStep

\* The hooks that were under way are lost.
LEMMA RestartDecided ==
    ASSUME DInv, IInv', Restart
    PROVE  DInv'
<1>1. UNCHANGED <<plans, jobs, decisions, champion, selection, excused>>
  BY DEF Restart, rows
<1>2. Idle.at = "idle" /\ \A x : [Idle EXCEPT !.at = x].at = x
  BY DEF Idle
<1>3. \A a \in Actors : actor'[a].at =
            IF a \in Users \/ actor[a].at = "idle" THEN "idle"
            ELSE IF actor[a].at = "done" THEN "done" ELSE "lost"
  BY <1>2 DEF Restart
<1>4. 1..Len(jobs) \subseteq Hooks /\ Hooks \subseteq Actors
  BY Lengths DEF DInv, IInv, Actors
<1>5. Ground'
  <2>1. \A j \in 1..Len(jobs') : jobs'[j].row = "open" => actor'[j].at = "idle"
    BY <1>1, <1>3, <1>4 DEF DInv, Ground
  <2>2. SelectionsMean' /\ SourcesEarlier'
    BY <1>1 DEF DInv, Ground, SelectionsMean, SourcesEarlier, Good
  <2>3. ASSUME NEW h \in Hooks PROVE Follows(h, actor[h], plans, decisions)'
    BY <1>3, <1>4 DEF Follows
  <2>4. \A b \in Actors : actor'[b].at # "cancel"
    BY <1>3
  <2> QED
    BY <2>1, <2>2, <2>3, <2>4 DEF Ground
<1>6. ASSUME Clean'
      PROVE  \A h \in Hooks : actor[h].at \in {"idle", "done"} /\ actor'[h].at = actor[h].at
  <2> SUFFICES ASSUME NEW h \in Hooks
               PROVE  actor[h].at \in {"idle", "done"} /\ actor'[h].at = actor[h].at
    OBVIOUS
  <2>1. h \in Actors /\ h \notin Users /\ actor'[h].at # "lost"
    BY <1>4, <1>6, CampaignAssumption DEF Clean, CampaignAssumption
  <2> QED
    BY <1>3, <2>1
<1>7. Clean' => Clean
  BY <1>1, <1>6 DEF Clean
<1>8. Clean' => Told'
  BY <1>1, <1>4, <1>6, <1>7 DEF DInv, Course, Told
<1>9. Clean' => \A h \in Hooks : Leaves(h)'
  BY <1>6 DEF Leaves
<1>10. Course'
  <2>1. Good => Good'
    BY <1>1 DEF Good
  <2>2. Len(plans) <= Len(plans') /\ Len(jobs) <= Len(jobs')
    BY <1>1, Lengths DEF DInv, IInv
  <2>3. \A j \in 1..Len(jobs') : ~ j > Len(jobs)
    BY <1>1, Lengths DEF DInv, IInv
  <2>4. Clean' => \A q \in 1..Len(plans) : \A j \in JobsOf(q) :
            ~ (actor[j].at # "done" /\ actor'[j].at = "done")
    BY <1>4, <1>6 DEF JobsOf
  <2> QED
    BY <1>1, <1>7, <1>8, <1>9, <2>1, <2>2, <2>3, <2>4, CourseStep
<1> QED
  BY <1>5, <1>10 DEF DInv

-----------------------------------------------------------------------------
(* Requests of users. *)

LEMMA ReviewedNow ==
    ASSUME DInv, TypeOK', NEW type, Reviews(type)
    PROVE  Decides(Latest, type, "user") /\ Selection
BY SelectedNow DEF Reviews

LEMMA RequestsDecided ==
    ASSUME DInv, IInv', NEW u \in Users, UserStep(u)
    PROVE  DInv'
<1>1. u \in Actors /\ u \notin Hooks /\ actor[u].at = "idle" /\ (UNCHANGED actor => Goes(u, actor[u]))
  <2>1. actor[u].at = "idle"
    BY DEF UserStep, ReviewProject, ScheduleFollowUp, Reopen, ExecuteRequest, CancelPlan, Request
  <2> QED
    BY <2>1, IdleUser DEF DInv
<1>2. CASE ReviewProject(u)
  <2>1. PICK type \in {"ADD", "STOP", "SELECT", "WAIT"} : Reviews(type)
    BY <1>2 DEF ReviewProject
  <2>2. Decides(Latest, type, "user") /\ Selection
    BY <2>1, ReviewedNow DEF IInv
  <2>3. /\ Goes(u, actor[u]) /\ UNCHANGED plans /\ UNCHANGED jobs /\ excused' = excused
    BY <1>1, <1>2 DEF ReviewProject
  <2> QED
    BY <1>1, <2>1, <2>2, <2>3, DecidesAndEnds
<1>3. CASE ScheduleFollowUp(u)
  <2> DEFINE n == Len(decisions)
             s(d, p) == [actor[u] EXCEPT !.at = "schedule", !.path = "user",
                                         !.decision = d, !.plan = p]
  <2>1. \A d, p : s(d, p).at = "schedule"
    BY <1>1, Standing DEF DInv, Actor
  <2> HIDE DEF s
  <2>2. UNCHANGED plans /\ UNCHANGED jobs /\ excused' = excused
    BY <1>3 DEF ScheduleFollowUp
  <2>3. CASE UNCHANGED <<decisions, champion, selection>> /\ Goes(u, s(n, decisions[n].plan))
    BY <1>1, <2>1, <2>2, <2>3, SelectionStays, Moves
  <2>4. ASSUME NEW type \in {"ADD", "STOP", "SELECT", "WAIT"}, Reviews(type),
               Goes(u, s(n + 1, Latest)) \/ UNCHANGED actor
        PROVE  DInv'
    <3>1. Decides(Latest, type, "user") /\ Selection
      BY <2>4, ReviewedNow DEF IInv
    <3>2. PICK x : Goes(u, x) /\ x.at # "cancel"
      BY <1>1, <2>1, <2>4
    <3> QED
      BY <1>1, <2>2, <2>4, <3>1, <3>2, DecidesAndEnds
  <2> QED
    BY <1>3, <2>3, <2>4 DEF ScheduleFollowUp, s
<1>4. ASSUME NEW p \in 1..Len(plans), Reopen(u, p) PROVE DInv'
  <2>1. /\ Decides(p, "REOPEN", "user") /\ Goes(u, actor[u]) /\ UNCHANGED plans /\ UNCHANGED jobs
        /\ excused' = excused /\ champion' = champion /\ selection # "none"
    BY <1>1, <1>4 DEF Reopen
  <2>2. Good
    BY <2>1 DEF DInv, Ground, SelectionsMean
  <2>3. Good'
    <3>1. /\ Len(decisions') = Len(decisions) + 1 /\ Len(decisions) \in Nat
          /\ \A d \in 1..Len(decisions) : decisions'[d] = decisions[d]
      BY <2>1, Decided
    <3> QED
      BY <2>1, <2>2, <3>1 DEF Good
  <2> QED
    BY <1>1, <2>1, <2>3, DecidesAndEnds DEF Selection
<1>5. ASSUME NEW p \in 1..Len(plans), ExecuteRequest(u, p) PROVE DInv'
  <2> DEFINE s == [actor[u] EXCEPT !.at = "execute", !.path = "user", !.plan = p]
  <2>1. s.at = "execute"
    BY <1>1, Standing DEF DInv, Actor
  <2>2. /\ Goes(u, s) /\ UNCHANGED <<plans, jobs, decisions>> /\ Selection /\ excused' = excused
    BY <1>5, RowsFixed DEF ExecuteRequest
  <2> HIDE DEF s
  <2> QED
    BY <1>1, <2>1, <2>2, Moves
<1>6. ASSUME NEW p \in 1..Len(plans), CancelPlan(u, p) PROVE DInv'
  <2> DEFINE s == [actor[u] EXCEPT !.at = "cancel", !.path = "user", !.plan = p,
                                   !.todo = {j \in JobsOf(p) : jobs[j].row = "open"}]
  <2>1. /\ Goes(u, s) /\ UNCHANGED <<plans, jobs, decisions>> /\ Selection
    BY <1>6, RowsFixed DEF CancelPlan
  <2>2. excused \subseteq excused' /\ excused' # {}
    BY <1>6, Zenon DEF CancelPlan, Excuse
  <2> HIDE DEF s
  <2> QED
    BY <1>1, <2>1, <2>2, Moves
<1> QED
  BY <1>2, <1>3, <1>4, <1>5, <1>6 DEF UserStep

-----------------------------------------------------------------------------
LEMMA DecidedInit == Init => DInv
<1> SUFFICES ASSUME Init PROVE DInv
  OBVIOUS
<1>1. PICK n \in InitialSizes :
        /\ plans = <<[source |-> 0, auto |-> TRUE, size |-> n]>>
        /\ jobs = [e \in 1..n |->
                      [plan |-> 1, experiment |-> e, row |-> "open", summary |-> "none"]]
  BY DEF Init
<1>2. IInv
  BY InitOK
<1>3. /\ \A p \in 1..Len(plans) : plans[p].source = 0
      /\ Len(decisions) = 0 /\ selection = "none"
  BY <1>1 DEF Init
<1>4. \A a \in Actors : actor[a].at = "idle"
  BY DEF Init, Idle
<1>5. \A j \in 1..Len(jobs) : j \in Actors /\ jobs[j].row = "open"
  <2>1. n \in Nat
    BY CampaignAssumption DEF CampaignAssumption
  <2>2. Len(jobs) = n /\ \A j \in 1..n : jobs[j].row = "open"
    BY <1>1, <2>1
  <2>3. 1..Len(jobs) \subseteq Hooks
    BY <1>2, Lengths DEF IInv
  <2> QED
    BY <2>2, <2>3 DEF Actors
<1>6. \A h \in Hooks : h \in Actors
  BY DEF Actors
<1>7. Ground
  BY <1>3, <1>4, <1>5, <1>6 DEF Ground, SelectionsMean, SourcesEarlier, Follows
<1>8. Course
  BY <1>4, <1>5, <1>6 DEF Course, Told, Carried, Won, Leaves, JobsOf
<1> QED
  BY <1>2, <1>7, <1>8 DEF DInv

LEMMA DecidedNext == DInv /\ [Next]_vars => DInv'
<1> SUFFICES ASSUME DInv, [Next]_vars PROVE DInv'
  OBVIOUS
<1>1. IInv'
  BY NextOK DEF DInv
<1>2. ASSUME NEW a \in Actors, ActorStep(a) PROVE DInv'
  BY <1>1, <1>2, StopsDecided, PickChampionDecided, ReusePlanDecided, SchedulePlanDecided,
     CreatePlanDecided, ExecutePlanDecided, CreateJobDecided, SkipsDecided, JobsCreatedDecided,
     CancelJobDecided, CancelledDecided DEF ActorStep
<1>3. ASSUME NEW h \in Hooks, HookStep(h) PROVE DInv'
  BY <1>1, <1>3, LooksDecided, PlannerRepeatsDecided, PlannerAsksDecided,
     PlannerDecidesDecided, ReviewRepeatsDecided, ReviewDecidesDecided DEF HookStep
<1>4. CASE UNCHANGED vars
  BY <1>1, <1>4 DEF vars, DInv, Ground, SelectionsMean, SourcesEarlier, Follows, Course, Clean,
     Told, Carried, Leaves, Won, Finished, Later, Live, HasWork, JobsOf, Good
<1> QED
  BY <1>1, <1>2, <1>3, <1>4, JobStepDecided, RequestsDecided, RestartDecided DEF Next

\* A campaign that came to rest, with no hook lost and no plan excused, has a
\* champion or a decision to select one if any run succeeded.  Of the plans with
\* a run that succeeded the newest counts: the last hook of its jobs to end left
\* a champion behind, or a plan after it that is still live, and the latter, at
\* rest, is live by a run of its own.
THEOREM CampaignsDecided == Spec => []CampaignDecided
<1>1. DInv => CampaignDecided
  <2> SUFFICES ASSUME DInv, AtRest, Succeeded # {} PROVE Good
    BY DEF CampaignDecided, Good
  <2> DEFINE W == {p \in 1..Len(plans) : Won(p)}
  <2>1. Told /\ Carried
    BY DEF AtRest, DInv, Course, Clean
  <2>2. /\ 1..Len(jobs) \subseteq Hooks /\ Len(plans) \in Nat
        /\ \A j \in 1..Len(jobs) : /\ jobs[j].row \in {"succeeded", "failed"}
                                   /\ jobs[j].plan \in 1..Len(plans)
    BY Lengths DEF DInv, IInv, TypeOK, Job, AtRest, RowsRefer
  <2>3. \A j \in 1..Len(jobs) : actor[j].at = "done" /\ jobs[j].summary = jobs[j].row
    BY <2>1, <2>2 DEF AtRest, Told
  <2>4. W \in SUBSET (1..Len(plans)) /\ W # {}
    BY <2>2, <2>3 DEF Succeeded, Won, JobsOf
  <2> DEFINE p == Newest(W)
  <2>5. p \in W /\ \A q \in W : q <= p
    BY <2>2, <2>4, NewestInSet
  <2> HIDE DEF p
  <2>6. Finished(p)
    BY <2>2, <2>3 DEF Finished, JobsOf
  <2>7. ASSUME NEW q \in 1..Len(plans), q > p, Live(q) PROVE FALSE
    <3>1. q \in W
      BY <2>2, <2>3, <2>7 DEF Live, Won, JobsOf
    <3> QED
      BY <2>2, <2>5, <2>7, <3>1
  <2> QED
    BY <2>1, <2>5, <2>6, <2>7 DEF Carried, Later
<1>2. DInv /\ [Next]_vars => DInv'
  BY DecidedNext
<1> QED
  BY <1>1, <1>2, DecidedInit, PTL DEF Spec
=============================================================================
