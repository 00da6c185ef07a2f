------------------------------- MODULE Campaign -------------------------------
(***************************************************************************)
(* The experimentation loop of one project in autonomous mode.  A plan's   *)
(* training jobs run on workers; each job that ends starts a goroutine,    *)
(* its hook, which may ask the LLM planner or the built-in reviewer what   *)
(* to do next: add experiments (a follow-up plan, executed at once), select*)
(* a champion or stop.  Users review, schedule, reopen, execute and cancel *)
(* at the same time.  autoReviewMu keeps hooks apart where they decide;    *)
(* users and the fallbacks that select a champion do not take it.          *)
(*                                                                         *)
(* Recommendations of planner and reviewer are nondeterministic, and so is *)
(* the score of a run: a run is eligible as champion if its summary says   *)
(* it succeeded, and which of them is chosen is left out.                  *)
(***************************************************************************)
EXTENDS Integers, Sequences, FiniteSets

CONSTANTS
    Users,
    Nobody,         \* holder of a free lock
    MaxRounds,      \* maxAutoFollowUpRounds
    InitialSizes,   \* experiments of the project's first plan
    FollowUpSizes,  \* experiments of a follow-up plan
    MaxPlans,       \* bound: plans of the project
    MaxJobs,        \* bound: jobs of the project
    MaxRequests,    \* bound: requests of users
    MaxFaults       \* bound: restarts and blocked retries

Hooks == 1..MaxJobs
Actors == Hooks \cup Users

ASSUME CampaignAssumption ==
    /\ {MaxRounds, MaxPlans, MaxJobs, MaxRequests, MaxFaults} \subseteq Nat
    /\ MaxPlans > 0
    /\ InitialSizes \subseteq 1..MaxJobs /\ FollowUpSizes \subseteq Nat \ {0}
    /\ Users \cap Hooks = {} /\ Nobody \notin Actors

VARIABLES
    plans,      \* experiment_plans, in order of creation
    jobs,       \* the plans' training jobs with their summaries, in order
    decisions,  \* agent_decisions, in order
    champion,   \* project_champions has a row
    selection,  \* what projectChampionSelectionState finds
    lock,       \* autoReviewMu
    actor,      \* where each hook and each request of a user stands
    capped,     \* plans of which the cost policy skipped an experiment
    excused,    \* history: plans the loop may leave undecided, see Excuse
    budget      \* requests and faults left

vars == <<plans, jobs, decisions, champion, selection, lock, actor, capped,
          excused, budget>>
rows == <<plans, jobs, decisions, champion, selection, capped>>

-----------------------------------------------------------------------------
Plan == [source: Nat, auto: BOOLEAN, size: InitialSizes \cup FollowUpSizes]
Job == [plan: 1..MaxPlans, experiment: Nat \ {0}, row: {"open", "succeeded", "failed"},
        summary: {"none", "running", "succeeded", "failed"}]
Decision == [plan: 1..MaxPlans, type: {"ADD", "SELECT", "STOP", "WAIT", "REOPEN"},
             by: {"planner", "review", "fallback", "user"}]

Steps == {"idle", "outcome", "cost", "planner", "llm", "review", "fallback", "pick",
          "schedule", "create", "execute", "jobs", "cancel", "aggregate", "done", "lost"}
Actor == [at: Steps, plan: 0..MaxPlans, decision: Nat,
          path: {"none", "planner", "review", "user"},
          say: {"none", "ADD", "SELECT", "STOP", "WAIT", "error"},
          todo: SUBSET (Nat \ {0}), skipped: BOOLEAN]

Idle == [at |-> "idle", plan |-> 0, decision |-> 0, path |-> "none", say |-> "none",
         todo |-> {}, skipped |-> FALSE]

TypeOK ==
    /\ plans \in Seq(Plan) /\ Len(plans) \in 1..MaxPlans
    /\ jobs \in Seq(Job) /\ Len(jobs) <= MaxJobs
    /\ decisions \in Seq(Decision)
    /\ champion \in BOOLEAN
    /\ selection \in {"none", "selected", "reopened"}
    /\ lock \in Hooks \cup {Nobody}
    /\ actor \in [Actors -> Actor]
    /\ capped \subseteq 1..MaxPlans /\ excused \subseteq 1..MaxPlans
    /\ budget \in [requests: 0..MaxRequests, faults: 0..MaxFaults]

-----------------------------------------------------------------------------
(* What the handlers read.  Each definition named ...Faulty is the one after it *)
(* with a plausible bug in it: the properties are run against it, and nothing   *)
(* here uses it.                                                                *)

JobsOf(p) == {j \in 1..Len(jobs) : jobs[j].plan = p}
Summaries(p) == {j \in JobsOf(p) : jobs[j].summary # "none"}
Open(p) == \E j \in JobsOf(p) : jobs[j].row = "open"
Succeeded == {j \in 1..Len(jobs) : jobs[j].summary = "succeeded"}

\* As many summaries as experiments, all of them terminal: a job that failed
\* and was created again counts twice, a job without a summary not at all.
Ready(p) ==
    /\ Cardinality(Summaries(p)) >= plans[p].size
    /\ \A j \in Summaries(p) : jobs[j].summary \in {"succeeded", "failed"}

\* Faulty: experiments are numbered from zero.
MissingFaulty(p) ==
    {e \in 0..plans[p].size :
        ~ \E j \in JobsOf(p) : jobs[j].experiment = e /\ jobs[j].row # "failed"}

\* Experiments of the plan without a job that is open or succeeded.
Missing(p) ==
    {e \in 1..plans[p].size :
        ~ \E j \in JobsOf(p) : jobs[j].experiment = e /\ jobs[j].row # "failed"}

\* Decisions are listed from the newest.
Newest(D) == CHOOSE d \in D : \A e \in D : e <= d
PlannerDecisions(p) ==
    {d \in 1..Len(decisions) : decisions[d].plan = p /\ decisions[d].by = "planner"}
ActionDecisions(p) ==
    {d \in 1..Len(decisions) : decisions[d].plan = p /\ decisions[d].type # "WAIT"}

FollowUps(d) == {p \in 1..Len(plans) : plans[p].source = d}
Rounds == Cardinality({p \in 1..Len(plans) : plans[p].source # 0})

-----------------------------------------------------------------------------
(* What they write. *)

Goes(a, s) == actor' = [actor EXCEPT ![a] = s]
At(a, step) == Goes(a, [actor[a] EXCEPT !.at = step])

\* The end of a hook or of a request.
Over(a) == Goes(a, IF a \in Hooks THEN [Idle EXCEPT !.at = "done"] ELSE Idle)

\* A function that locked autoReviewMu unlocks it when it returns.
Release(a) == lock' = IF lock = a THEN Nobody ELSE lock
Returns(a) == Over(a) /\ Release(a)

\* A plan the loop stops at without a decision, for a reason it logs: the
\* planner waits, no experiment is novel, or a job is not created.
Excuse(p) == excused' = excused \cup {p}

Decides(p, type, by) ==
    decisions' = Append(decisions, [plan |-> p, type |-> type, by |-> by])

\* CreateAgentDecision and persistProjectChampionFromDecision: a SELECT decision
\* is a selection of itself, one that stops if there is a run to select.  The
\* champion's row is new, or its updated_at is.
Selects(type) ==
    /\ champion' = (champion \/ (type \in {"SELECT", "STOP"} /\ Succeeded # {}))
    /\ selection' = IF \/ type = "SELECT"
                       \/ type = "STOP" /\ Succeeded # {}
                    THEN "selected" ELSE selection

\* The same for a decision that exists: only the champion is written again.
SelectsAgain(type) ==
    IF type \in {"SELECT", "STOP"} /\ Succeeded # {}
    THEN champion' = TRUE /\ selection' = "selected"
    ELSE UNCHANGED <<champion, selection>>

-----------------------------------------------------------------------------
Init ==
    /\ \E n \in InitialSizes :
        /\ plans = <<[source |-> 0, auto |-> TRUE, size |-> n]>>
        /\ jobs = [e \in 1..n |->
                      [plan |-> 1, experiment |-> e, row |-> "open", summary |-> "none"]]
    /\ decisions = <<>>
    /\ champion = FALSE
    /\ selection = "none"
    /\ lock = Nobody
    /\ actor = [a \in Actors |-> Idle]
    /\ capped = {}
    /\ excused = {}
    /\ budget \in [requests: 0..MaxRequests, faults: 0..MaxFaults]

(* Jobs. *)

\* The worker posts a summary, or a failure is retried.  A job whose lease ran
\* out is queued again with the summary it has.
ReportSummary(j) ==
    /\ jobs[j].row = "open"
    /\ \E s \in {"running", "succeeded"} :
        /\ s # jobs[j].summary
        /\ jobs' = [jobs EXCEPT ![j].summary = s]
    /\ UNCHANGED <<plans, decisions, champion, selection, lock, actor, capped,
                   excused, budget>>

\* enqueueTrainingTerminalHooks: once for each job and process.
Enqueue(j) ==
    Goes(j, IF actor[j].at = "idle"
            THEN [Idle EXCEPT !.at = "outcome", !.plan = jobs[j].plan]
            ELSE actor[j])

CompleteJob(j) ==
    /\ jobs[j].row = "open" /\ jobs[j].summary = "succeeded"
    /\ jobs' = [jobs EXCEPT ![j].row = "succeeded"]
    /\ Enqueue(j)
    /\ UNCHANGED <<plans, decisions, champion, selection, lock, capped, excused, budget>>

\* failJob, or the recovery of a lease that was the job's last.
FailJob(j) ==
    /\ jobs[j].row = "open"
    /\ jobs' = [jobs EXCEPT ![j].row = "failed", ![j].summary = "failed"]
    /\ Enqueue(j)
    /\ UNCHANGED <<plans, decisions, champion, selection, lock, capped, excused, budget>>

\* A retry the policies deny ends the job, and the handler returns there: the
\* summary stays as it is and no hook is started.
BlockRetry(j) ==
    /\ jobs[j].row = "open" /\ budget.faults > 0
    /\ jobs' = [jobs EXCEPT ![j].row = "failed"]
    /\ budget' = [budget EXCEPT !.faults = @ - 1]
    /\ Goes(j, [Idle EXCEPT !.at = "lost"])
    /\ UNCHANGED <<plans, decisions, champion, selection, lock, capped, excused>>

\* The process ends: hooks on their way are gone, and nothing starts them again.
Restart ==
    /\ budget.faults > 0
    /\ budget' = [budget EXCEPT !.faults = @ - 1]
    /\ lock' = Nobody
    /\ actor' = [a \in Actors |->
                    IF a \in Users \/ actor[a].at = "idle" THEN Idle
                    ELSE [Idle EXCEPT !.at = IF actor[a].at = "done" THEN "done" ELSE "lost"]]
    /\ UNCHANGED <<rows, excused>>

-----------------------------------------------------------------------------
(* Champions of the fallbacks. *)

\* selectBestAvailableChampionForTerminalPlanStop: a champion is there, or the
\* best run becomes one in the next step, or there is none to select.
TerminalStop(a, selected, none) ==
    IF champion THEN selected
    ELSE IF Succeeded # {} THEN At(a, "pick") /\ UNCHANGED lock
    ELSE none

\* Faulty: an execution within the planning loop records the outcome itself.
DefersAggregateFaulty(a) == FALSE
DefersAggregate(a) == a \in Hooks

\* The end of an execution.  The outcome of a plan that is over is recorded under
\* the lock, by an execution that is not part of a hook and does not hold it.
Executed(a) ==
    IF plans[actor[a].plan].source # 0 /\ ~ Open(actor[a].plan) /\ ~ DefersAggregate(a)
    THEN At(a, "aggregate") /\ UNCHANGED lock
    ELSE Returns(a)

\* The second half of the terminal stop.  Nothing keeps two hooks from being here.
PickChampion(a) ==
    /\ actor[a].at = "pick"
    /\ Decides(actor[a].plan, "SELECT", "fallback")
    /\ Selects("SELECT")
    /\ IF a \in Users THEN Executed(a) ELSE Returns(a)
    /\ UNCHANGED <<plans, jobs, capped, excused, budget>>

(* The hook of a job that ended: runPlanningLoopAfterTrainingJob. *)

\* The outcome of a follow-up plan is recorded under the lock.
RecordOutcome(h) ==
    /\ actor[h].at = "outcome"
    /\ plans[actor[h].plan].source # 0 => lock = Nobody
    /\ At(h, "cost")
    /\ UNCHANGED <<rows, lock, excused, budget>>

\* The cost policy kept experiments of the plan from running.
CostStop(h) ==
    /\ actor[h].at = "cost"
    /\ IF actor[h].plan \in capped /\ ~ Open(actor[h].plan)
       THEN TerminalStop(h, Returns(h), At(h, "planner") /\ UNCHANGED lock)
       ELSE At(h, "planner") /\ UNCHANGED lock
    /\ UNCHANGED <<rows, excused, budget>>

\* A planner that is switched off, or whose plan is not ready, leaves the job to
\* the reviewer.
PlannerPasses(h) ==
    /\ actor[h].at = "planner"
    /\ At(h, "review")
    /\ UNCHANGED <<rows, lock, excused, budget>>

\* Faulty: planner and reviewer run without autoReviewMu.
LocksFaulty(a) == UNCHANGED lock
Locks(a) == lock = Nobody /\ lock' = a

\* Faulty: the decision another hook made for the plan is not looked for.
DecidedByPlannerFaulty(p) == {}
DecidedByPlanner(p) == PlannerDecisions(p)

\* The plan has its decision: its champion is stored again, its follow-up plan
\* ensured and executed again.
PlannerRepeats(h) ==
    LET p == actor[h].plan
        d == Newest(DecidedByPlanner(p))
    IN  /\ actor[h].at = "planner" /\ Ready(p) /\ DecidedByPlanner(p) # {}
        /\ SelectsAgain(decisions[d].type)
        /\ IF decisions[d].type = "ADD"
           THEN /\ Locks(h)
                /\ Goes(h, [actor[h] EXCEPT !.at = "schedule", !.path = "planner", !.decision = d])
           ELSE lock = Nobody /\ Returns(h)
        /\ UNCHANGED <<plans, jobs, decisions, capped, excused, budget>>

\* A selected champion stops the loop.
PlannerStops(h) ==
    /\ actor[h].at = "planner" /\ lock = Nobody
    /\ Ready(actor[h].plan) /\ DecidedByPlanner(actor[h].plan) = {}
    /\ selection = "selected"
    /\ Returns(h)
    /\ UNCHANGED <<rows, excused, budget>>

\* What the LLM may answer to the input it is given: a champion only if a run
\* succeeded.  The backend turns a WAIT with evidence into a champion too.
PlannerSays(s) == s = "SELECT" => Succeeded # {}

PlannerAsks(h) ==
    /\ actor[h].at = "planner"
    /\ Ready(actor[h].plan) /\ DecidedByPlanner(actor[h].plan) = {}
    /\ selection # "selected"
    /\ Locks(h)
    /\ \E s \in {"error", "ADD", "STOP", "WAIT", "SELECT"} :
        /\ PlannerSays(s)
        /\ Goes(h, [actor[h] EXCEPT !.at = "llm", !.path = "planner", !.say = s])
    /\ UNCHANGED <<rows, excused, budget>>

\* The call failed, or its answer was refused as often as the backend asks.
PlannerFails(h) ==
    /\ actor[h].at = "llm" /\ actor[h].say = "error"
    /\ At(h, "fallback") /\ Release(h)
    /\ UNCHANGED <<rows, excused, budget>>

PlannerWaits(h) ==
    /\ actor[h].at = "llm" /\ actor[h].say = "WAIT"
    /\ Excuse(actor[h].plan)
    /\ Returns(h)
    /\ UNCHANGED <<rows, budget>>

PlannerDecides(h) ==
    LET s == actor[h]
    IN  /\ s.at = "llm" /\ s.say \in {"ADD", "STOP", "SELECT"}
        /\ Decides(s.plan, s.say, "planner")
        /\ Selects(s.say)
        /\ IF s.say = "ADD"
           THEN /\ Goes(h, [s EXCEPT !.at = "schedule", !.decision = Len(decisions')])
                /\ UNCHANGED lock
           ELSE Returns(h)
        /\ UNCHANGED <<plans, jobs, capped, excused, budget>>

(* runAutomaticExperimentReview, of the latest plan, whichever job ended. *)

Latest == Len(plans)

\* The reviewer adds experiments or stops when it selects nothing.
ReviewTypes(p) ==
    {"ADD", "STOP"} \cup (IF Succeeded \cap JobsOf(p) = {} THEN {} ELSE {"SELECT"})

ReviewWaits(h) ==
    /\ actor[h].at = "review" /\ lock = Nobody
    /\ \/ ~ Ready(Latest)
       \/ ActionDecisions(Latest) = {} /\ selection = "selected"
    /\ At(h, "fallback")
    /\ UNCHANGED <<rows, lock, excused, budget>>

\* Whatever is decided on the plan is carried out again.
ReviewRepeats(h) ==
    LET d == Newest(ActionDecisions(Latest))
    IN  /\ actor[h].at = "review"
        /\ Ready(Latest) /\ ActionDecisions(Latest) # {}
        /\ SelectsAgain(decisions[d].type)
        /\ IF decisions[d].type = "ADD"
           THEN /\ Locks(h)
                /\ Goes(h, [actor[h] EXCEPT !.at = "schedule", !.path = "review",
                                            !.plan = Latest, !.decision = d])
           ELSE lock = Nobody /\ Returns(h)
        /\ UNCHANGED <<plans, jobs, decisions, capped, excused, budget>>

ReviewDecides(h) ==
    /\ actor[h].at = "review"
    /\ Ready(Latest) /\ ActionDecisions(Latest) = {} /\ selection # "selected"
    /\ \E type \in ReviewTypes(Latest) :
        /\ Decides(Latest, type, "review")
        /\ Selects(type)
        /\ IF type = "ADD"
           THEN /\ Locks(h)
                /\ Goes(h, [actor[h] EXCEPT !.at = "schedule", !.path = "review",
                                            !.plan = Latest, !.decision = Len(decisions')])
           ELSE lock = Nobody /\ Returns(h)
    /\ UNCHANGED <<plans, jobs, capped, excused, budget>>

\* Faulty: a champion is looked for only when the planner failed.
FallsBackFaulty(h) == FALSE
FallsBack(h) == ~ Open(jobs[h].plan)

\* After a failed planner, or without a decision of the reviewer: the hook of
\* the plan's last job sees to a champion.
Fallback(h) ==
    /\ actor[h].at = "fallback"
    /\ IF FallsBack(h)
       THEN LET s == [actor[h] EXCEPT !.plan = jobs[h].plan]
            IN  IF ~ champion /\ Succeeded # {}
                THEN Goes(h, [s EXCEPT !.at = "pick"]) /\ UNCHANGED lock
                ELSE Returns(h)
       ELSE Returns(h)
    /\ UNCHANGED <<rows, excused, budget>>

-----------------------------------------------------------------------------
(* Follow-up plans: schedulePlannerDecision, ensureFollowUpPlan. *)

\* Faulty: one round more than the setting allows.
RoundsLeftFaulty == Rounds <= MaxRounds
RoundsLeft == Rounds < MaxRounds

\* A champion was selected meanwhile.  The planner finds it before it ensures
\* the plan and is done; the reviewer and the user get an error.
ScheduleBlocked(a) ==
    /\ actor[a].at = "schedule" /\ selection = "selected"
    /\ Returns(a)
    /\ UNCHANGED <<rows, excused, budget>>

\* Every experiment repeats one that ran: nothing is scheduled.
NothingNovel(a) ==
    /\ actor[a].at = "schedule" /\ selection # "selected"
    /\ Excuse(actor[a].plan)
    /\ Returns(a)
    /\ UNCHANGED <<rows, budget>>

\* A decision that has its plan gets no other.
PlanExists(d) == FollowUps(d) # {}

ReusePlan(a) ==
    LET s == actor[a]
    IN  /\ s.at = "schedule" /\ selection # "selected" /\ PlanExists(s.decision)
        /\ IF s.path = "user"
           THEN Returns(a)
           ELSE /\ \E p \in FollowUps(s.decision) : Goes(a, [s EXCEPT !.at = "execute", !.plan = p])
                /\ UNCHANGED lock
        /\ UNCHANGED <<rows, excused, budget>>

RoundsExhausted(a) ==
    LET s == actor[a]
    IN  /\ s.at = "schedule" /\ s.path # "user"
        /\ selection # "selected" /\ ~ PlanExists(s.decision) /\ ~ RoundsLeft
        /\ TerminalStop(a, Returns(a), Returns(a))
        /\ UNCHANGED <<rows, excused, budget>>

SchedulePlan(a) ==
    LET s == actor[a]
    IN  /\ s.at = "schedule" /\ selection # "selected" /\ ~ PlanExists(s.decision)
        /\ s.path = "user" \/ RoundsLeft
        /\ At(a, "create")
        /\ UNCHANGED <<rows, lock, excused, budget>>

\* The plan is validated and its experiments prepared before it is stored; a
\* plan that another request stored for the decision meanwhile goes unnoticed.
CreatePlan(a) ==
    LET s == actor[a]
    IN  /\ s.at = "create" /\ Len(plans) < MaxPlans
        /\ \E n \in FollowUpSizes :
            plans' = Append(plans, [source |-> s.decision, auto |-> s.path # "user", size |-> n])
        /\ IF s.path = "user"
           THEN Returns(a)
           ELSE Goes(a, [s EXCEPT !.at = "execute", !.plan = Len(plans')]) /\ UNCHANGED lock
        /\ UNCHANGED <<jobs, decisions, champion, selection, capped, excused, budget>>

(* executeStoredExperimentPlan. *)

\* Where an execution that fails goes: the planner's error has a fallback.
ExecutionFails(a) ==
    IF actor[a].path = "planner" THEN At(a, "fallback") /\ Release(a) ELSE Returns(a)

ExecuteBlocked(a) ==
    LET s == actor[a]
    IN  /\ s.at = "execute" /\ plans[s.plan].source # 0 /\ selection = "selected"
        /\ ExecutionFails(a)
        /\ UNCHANGED <<rows, excused, budget>>

ExecutePlan(a) ==
    LET s == actor[a]
    IN  /\ s.at = "execute" /\ (plans[s.plan].source = 0 \/ selection # "selected")
        /\ Goes(a, [s EXCEPT !.at = "jobs", !.todo = Missing(s.plan), !.skipped = FALSE])
        /\ UNCHANGED <<rows, lock, excused, budget>>

\* Jobs are created one by one, for what was missing when the plan was read.
CreateJob(a) ==
    LET s == actor[a]
    IN  /\ s.at = "jobs" /\ Len(jobs) < MaxJobs
        /\ \E e \in s.todo :
            /\ \A f \in s.todo : e <= f
            /\ jobs' = Append(jobs, [plan |-> s.plan, experiment |-> e,
                                     row |-> "open", summary |-> "none"])
            /\ Goes(a, [s EXCEPT !.todo = @ \ {e}])
        /\ UNCHANGED <<plans, decisions, champion, selection, lock, capped, excused, budget>>

SkipForCost(a) ==
    LET s == actor[a]
    IN  /\ s.at = "jobs" /\ s.todo # {}
        /\ \E e \in s.todo :
            /\ \A f \in s.todo : e <= f
            /\ Goes(a, [s EXCEPT !.todo = @ \ {e}, !.skipped = TRUE])
        /\ UNCHANGED <<rows, lock, excused, budget>>

\* An experiment that turns out to repeat one that was accepted before: no job,
\* and nobody counts it.
SkipDuplicate(a) ==
    LET s == actor[a]
    IN  /\ s.at = "jobs" /\ s.todo # {}
        /\ \E e \in s.todo :
            /\ \A f \in s.todo : e <= f
            /\ Goes(a, [s EXCEPT !.todo = @ \ {e}])
        /\ Excuse(s.plan)
        /\ UNCHANGED <<rows, lock, budget>>

\* An error ends the execution, with the jobs there are by then.
CreateJobFails(a) ==
    /\ actor[a].at = "jobs" /\ actor[a].todo # {}
    /\ Excuse(actor[a].plan)
    /\ ExecutionFails(a)
    /\ UNCHANGED <<rows, budget>>

\* Skipped experiments are recorded, and a plan they leave without open jobs gets
\* its champion.
JobsCreated(a) ==
    LET s == actor[a]
    IN  /\ s.at = "jobs" /\ s.todo = {}
        /\ capped' = IF s.skipped THEN capped \cup {s.plan} ELSE capped
        /\ IF s.skipped /\ ~ Open(s.plan) THEN TerminalStop(a, Executed(a), Executed(a))
           ELSE Executed(a)
        /\ UNCHANGED <<plans, jobs, decisions, champion, selection, excused, budget>>

Aggregate(a) ==
    /\ actor[a].at = "aggregate" /\ lock = Nobody
    /\ Returns(a)
    /\ UNCHANGED <<rows, excused, budget>>

-----------------------------------------------------------------------------
(* Requests of users, on any plan and at any time. *)

Request(u) ==
    /\ actor[u].at = "idle" /\ budget.requests > 0
    /\ budget' = [budget EXCEPT !.requests = @ - 1]

\* createReviewerDecision, which asks nobody: what it decides, and its type.
Reviews(type) ==
    /\ IF Ready(Latest) THEN type \in ReviewTypes(Latest) ELSE type = "WAIT"
    /\ Decides(Latest, type, "user")
    /\ Selects(type)

ReviewProject(u) ==
    /\ Request(u)
    /\ \E type \in {"ADD", "STOP", "SELECT", "WAIT"} : Reviews(type)
    /\ UNCHANGED <<plans, jobs, lock, actor, capped, excused>>

\* scheduleFollowUpExperiments: of the newest decision, or of a new review.
ScheduleFollowUp(u) ==
    LET n == Len(decisions)
        Schedules(d, p) == Goes(u, [actor[u] EXCEPT !.at = "schedule", !.path = "user",
                                                    !.decision = d, !.plan = p])
    IN  /\ Request(u)
        /\ IF n > 0 /\ decisions[n].type = "ADD"
           THEN Schedules(n, decisions[n].plan) /\ UNCHANGED <<decisions, champion, selection>>
           ELSE \E type \in {"ADD", "STOP", "SELECT", "WAIT"} :
                    /\ Reviews(type)
                    /\ IF type = "ADD" THEN Schedules(n + 1, Latest) ELSE UNCHANGED actor
        /\ UNCHANGED <<plans, jobs, lock, capped, excused>>

\* reopenProjectExperimentation
Reopen(u, p) ==
    /\ Request(u) /\ selection # "none"
    /\ Decides(p, "REOPEN", "user")
    /\ selection' = "reopened"
    /\ UNCHANGED <<plans, jobs, champion, lock, actor, capped, excused>>

ExecuteRequest(u, p) ==
    /\ Request(u)
    /\ Goes(u, [actor[u] EXCEPT !.at = "execute", !.path = "user", !.plan = p])
    /\ UNCHANGED <<rows, lock, excused>>

\* cancelPlanActiveExecutionByID: the jobs that are open are listed, and then
\* cancelled one by one.  No hooks follow.
CancelPlan(u, p) ==
    /\ Request(u)
    /\ Goes(u, [actor[u] EXCEPT !.at = "cancel", !.path = "user", !.plan = p,
                                !.todo = {j \in JobsOf(p) : jobs[j].row = "open"}])
    /\ Excuse(p)
    /\ UNCHANGED <<rows, lock>>

Promotes(p) == ~ champion /\ \E j \in JobsOf(p) : jobs[j].summary = "succeeded"

\* A job that ended since keeps its row; its summary says failed all the same.
\* An error before, between or after the two writes ends the request.
CancelJob(a) ==
    LET s == actor[a]
    IN  /\ s.at = "cancel"
        /\ \E j \in s.todo :
            /\ \A i \in s.todo : j <= i
            /\ \/ /\ jobs' = [jobs EXCEPT ![j].row = IF @ = "open" THEN "failed" ELSE @,
                                          ![j].summary = "failed"]
                  /\ Goes(a, [s EXCEPT !.todo = @ \ {j}])
               \/ /\ jobs' = [jobs EXCEPT ![j].row = IF @ = "open" THEN "failed" ELSE @]
                  /\ Over(a)
               \/ UNCHANGED jobs /\ Over(a)
        /\ UNCHANGED <<plans, decisions, champion, selection, lock, capped, excused, budget>>

\* The plan's best run is promoted if the user asked for it and the project has no
\* champion.  The outcome of a follow-up plan is recorded when its jobs are over,
\* unless an error ends the request first.
Cancelled(a) ==
    LET s == actor[a]
    IN  /\ s.at = "cancel" /\ s.todo = {}
        /\ \/ UNCHANGED <<decisions, champion, selection>>
           \/ /\ Promotes(s.plan)
              /\ Decides(s.plan, "SELECT", "user")
              /\ champion' = TRUE /\ selection' = "selected"
        /\ \/ plans[s.plan].source # 0 /\ ~ Open(s.plan) /\ At(a, "aggregate")
           \/ Over(a)
        /\ UNCHANGED <<plans, jobs, lock, capped, excused, budget>>

-----------------------------------------------------------------------------
ActorStep(a) ==
    \/ PickChampion(a) \/ ScheduleBlocked(a) \/ NothingNovel(a) \/ ReusePlan(a)
    \/ RoundsExhausted(a) \/ SchedulePlan(a) \/ CreatePlan(a)
    \/ ExecuteBlocked(a) \/ ExecutePlan(a)
    \/ CreateJob(a) \/ SkipForCost(a) \/ SkipDuplicate(a)
    \/ CreateJobFails(a) \/ JobsCreated(a)
    \/ CancelJob(a) \/ Cancelled(a)
    \/ Aggregate(a)

HookStep(h) ==
    \/ RecordOutcome(h) \/ CostStop(h)
    \/ PlannerPasses(h) \/ PlannerRepeats(h) \/ PlannerStops(h) \/ PlannerAsks(h)
    \/ PlannerFails(h) \/ PlannerWaits(h) \/ PlannerDecides(h)
    \/ ReviewWaits(h) \/ ReviewRepeats(h) \/ ReviewDecides(h)
    \/ Fallback(h)

JobStep(j) == ReportSummary(j) \/ CompleteJob(j) \/ FailJob(j) \/ BlockRetry(j)

UserStep(u) ==
    \/ ReviewProject(u) \/ ScheduleFollowUp(u)
    \/ \E p \in 1..Len(plans) : Reopen(u, p) \/ ExecuteRequest(u, p) \/ CancelPlan(u, p)

Next ==
    \/ \E a \in Actors : ActorStep(a)
    \/ \E h \in Hooks : HookStep(h)
    \/ \E j \in 1..Len(jobs) : JobStep(j)
    \/ \E u \in Users : UserStep(u)
    \/ Restart

Spec == Init /\ [][Next]_vars

\* Goroutines and requests are scheduled, the call of the LLM has a timeout and
\* sync.Mutex lets every waiter have its turn.  Workers owe nothing.
Fairness ==
    /\ \A a \in Actors : WF_vars(ActorStep(a))
    /\ \A h \in Hooks : WF_vars(HookStep(h))

-----------------------------------------------------------------------------
\* The planner decides once on a plan, however many hooks of its jobs come by:
\* the check for a decision and the decision, with the LLM in between, are under
\* autoReviewMu (runExperimentPlannerAfterTrainingJob).
OnePlannerDecision == \A p \in 1..Len(plans) : Cardinality(PlannerDecisions(p)) <= 1

\* Automation follows one decision up with one plan at most: hooks that come
\* later, and executions they repeat, find that plan (ensureFollowUpPlan).
OneAutomaticFollowUp ==
    \A p, q \in 1..Len(plans) :
        plans[p].auto /\ plans[q].auto /\ plans[p].source = plans[q].source => p = q

\* The loop never starts more follow-up plans by itself than the setting allows,
\* even if users schedule plans while it counts (maxAutoFollowUpRounds).
RoundsBounded ==
    Cardinality({p \in 1..Len(plans) : plans[p].source # 0 /\ plans[p].auto}) <= MaxRounds

AtRest ==
    /\ \A j \in 1..Len(jobs) : jobs[j].row # "open"
    /\ \A h \in Hooks : actor[h].at \in {"idle", "done"}
    /\ \A u \in Users : actor[u].at = "idle"
    /\ excused = {}

\* A campaign that came to rest, without a hook that was lost or a plan that was
\* excused, has a champion if any run succeeded, or a decision to select one:
\* whichever hook was the last to look, it or one of the fallbacks decided.
CampaignDecided ==
    AtRest /\ Succeeded # {} =>
        champion \/ \E d \in 1..Len(decisions) : decisions[d].type = "SELECT"

\* A hook ends: it never waits for the lock it holds (deferPlanAggregate), nor
\* leaves the lock to nobody.
HookFinishes ==
    \A h \in Hooks :
        actor[h].at \notin {"idle", "done", "lost"} ~> actor[h].at \in {"done", "lost"}

\* What the test TestReopenExperimentationAllowsFollowUpsAfterChampionSelection
\* and the guard's message say: a reopened project allows follow-ups until a
\* champion is selected anew, by another decision.
ReopenSticks ==
    [][selection = "reopened" /\ selection' = "selected" => Len(decisions') > Len(decisions)]_vars
=============================================================================
