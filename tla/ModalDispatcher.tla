-------------------------- MODULE ModalDispatcher --------------------------
(***************************************************************************)
(* The dispatcher of a project's Modal jobs: one process, which shows      *)
(* itself to the orchestrator as several workers, its slots.  Its main     *)
(* thread reads how many slots are wanted, registers them, polls for the   *)
(* free ones, hands what it claims to threads (one for a job, or one for a *)
(* batch of jobs), frees the slots of threads that ended, keeps the Modal  *)
(* app open while it is needed, and leaves when nothing is wanted any      *)
(* more.  Threads that need the same dataset have it materialized once.    *)
(*                                                                         *)
(* The orchestrator is the abstract JobQueue, which JobLifecycle           *)
(* implements: a slot is a worker of it, and what a slot claims is a grant.*)
(* Calls fail on their way there and on their way back, or are served when *)
(* nobody waits for them any more, leases run out at any moment, and Modal *)
(* may not open.                                                           *)
(***************************************************************************)
EXTENDS Integers, FiniteSets

CONSTANTS
    Jobs, NoJob,
    MaxAttempts,
    MaxSlots,           \* MAX_DISPATCHER_SLOTS
    SlotCount,          \* slots before the first reading of the requirements
    IdlePollSlots,      \* slots that poll when no worker is required
    BatchSize,          \* jobs in a batch; 1: MODAL_BATCH_RUNNER is off
    Training,           \* train_experiment: not polled for without demand
    NeedsModal,         \* _job_requires_modal_session
    Keys, NoKey,
    KeyOf,              \* the dataset that is prewarmed for a job
    MaxDisturbances     \* bound: failing calls, changes of demand, leases lost though renewed

Slots == 1..MaxSlots
NoSlot == 0

\* A job is prewarmed inside a session: left out are profile jobs that are
\* prewarmed on Modal and then profiled locally.
ASSUME ModalDispatcherAssumption ==
    /\ {MaxAttempts, MaxSlots, BatchSize} \subseteq Nat \ {0}
    /\ SlotCount \in Slots /\ IdlePollSlots \in {0, 1}
    /\ MaxDisturbances \in Nat
    /\ NoJob \notin Jobs /\ NoKey \notin Keys
    /\ KeyOf \in [Jobs -> Keys \cup {NoKey}]
    /\ Training \subseteq NeedsModal
    /\ {j \in Jobs : KeyOf[j] # NoKey} \subseteq NeedsModal

VARIABLES
    phase, holder, grants,      \* the orchestrator's queue
    demand,                     \* what its worker requirements ask for
    disturbed,                  \* disturbances so far
    main,                       \* the main thread
    slot,                       \* _DispatcherSlot
    thread,                     \* the future a slot leads
    warm, warming,              \* _warm_cache_keys, _warming
    sent,                       \* by slot: an outcome of its claim was sent
    stray,                      \* how many polls were given up and are still served
    overtaken                   \* history: slots for which such a poll claimed behind their work

queueVars == <<phase, holder, grants>>
strayVars == <<stray, overtaken>>
vars == <<phase, holder, grants, demand, disturbed, main, slot, thread, warm, warming, sent,
          stray, overtaken>>

Queue == INSTANCE JobQueue WITH Workers <- Slots, NoWorker <- NoSlot

-----------------------------------------------------------------------------
\* mode: outside a session at the top of the loop, in one, or polling without.
\* backoff: the calls that failed and are not to be tried again yet.
\* idle: since the last work, not even once / once / again read as unwanted.
Main == [at: {"refresh", "register", "collect", "poll", "begin", "end", "exit", "hold",
              "over", "crashed"},
         mode: {"outer", "inner", "bare"}, cursor: 1..MaxSlots + 1,
         registered: 0..MaxSlots, target: 0..MaxSlots, required: 0..MaxSlots,
         read: BOOLEAN, due: BOOLEAN, backoff: SUBSET {"register", "poll"},
         session: BOOLEAN,
         idle: {"no", "started", "confirmed"}]

\* lead: the slot whose thread runs the job; grant: the attempt it was claimed for.
Claim == [job: Jobs \cup {NoJob}, grant: 0..MaxAttempts, lead: Slots \cup {NoSlot}]
Free == [job |-> NoJob, grant |-> 0, lead |-> NoSlot]

Ends == {"ok", "reported", "raised"}
Thread == [at: {"none", "queued", "wait", "woken", "warming", "warmed", "set", "run", "over"},
           end: Ends \cup {"none"}]
NoThread == [at |-> "none", end |-> "none"]

\* training: it asked for training jobs too.  late: its slot has taken a job since.
StrayPoll == [slot: Slots, training: BOOLEAN, late: BOOLEAN]

TypeOK ==
    /\ Queue!TypeOK
    /\ demand \in 0..MaxSlots /\ disturbed \in 0..MaxDisturbances
    /\ main \in Main
    /\ slot \in [Slots -> Claim]
    /\ thread \in [Slots -> Thread]
    /\ warm \subseteq Keys
    /\ warming \in [Keys -> Ends \cup {"none", "open"}]
    /\ sent \in [Slots -> BOOLEAN]
    /\ stray \in [StrayPoll -> Nat]
    /\ overtaken \subseteq Slots

Init ==
    /\ Queue!Init
    /\ demand \in 0..MaxSlots /\ disturbed = 0
    /\ main = [at |-> "refresh", mode |-> "outer", cursor |-> 1, registered |-> 0,
               target |-> SlotCount, required |-> 0, read |-> FALSE, due |-> TRUE,
               backoff |-> {}, session |-> FALSE, idle |-> "no"]
    /\ slot = [s \in Slots |-> Free]
    /\ thread = [s \in Slots |-> NoThread]
    /\ warm = {}
    /\ warming = [k \in Keys |-> "none"]
    /\ sent = [s \in Slots |-> FALSE]
    /\ stray = [p \in StrayPoll |-> 0]
    /\ overtaken = {}

-----------------------------------------------------------------------------
(* What the dispatcher sees of itself. *)

InTarget(s) == s <= main.target
Busy(s) == slot[s].job # NoJob
Started(s) == slot[s].lead # NoSlot
Pending(s) == Busy(s) /\ ~ Started(s)

PendingModal == \E s \in Slots : Pending(s) /\ slot[s].job \in NeedsModal

Warming == \E k \in Keys : warming[k] # "none"

HoldsSessionFaulty == main.required > 0 \/ Warming

HoldsSession ==
    \/ main.required > 0
    \/ \E s \in Slots : Started(s) /\ slot[s].job \in NeedsModal
    \/ Warming

Going == main.at \notin {"over", "crashed"}

BeatsFaulty(s) == Going /\ s <= main.registered

\* A slot's heartbeat, which the main thread sends in every round, keeps the
\* lease of what its worker holds.
Beats(s) ==
    /\ Going
    /\ s <= main.registered
    /\ InTarget(s) \/ Started(s)

Batch(s) == {t \in Slots : slot[t].lead = s}

-----------------------------------------------------------------------------
(* Calls to the orchestrator about a claim.  It serves them while the claim *)
(* is the job's current attempt.                                            *)

Disturbs == disturbed < MaxDisturbances /\ disturbed' = disturbed + 1
Undisturbed == UNCHANGED disturbed

Current(s) ==
    /\ Busy(s)
    /\ holder[slot[s].job] = s
    /\ grants[slot[s].job] = slot[s].grant

Fails(s) ==
    /\ Current(s)
    /\ Queue!Release({slot[s].job}, {}) \/ Queue!Release({}, {slot[s].job})

Completes(s) == Current(s) /\ Queue!Release({}, {slot[s].job})

\* A failure is served, refused, or lost on its way there or back.  One that is
\* served when nobody waits any more does to the queue what a lease that runs out
\* or a cancellation does.
Served(s) == Fails(s) /\ Undisturbed
Refused(s) == ~ Current(s) /\ UNCHANGED queueVars /\ Undisturbed
Lost(s) == (Fails(s) \/ UNCHANGED queueVars) /\ Disturbs

Sends(s) == sent' = [sent EXCEPT ![s] = TRUE]
SendsFailure(s) == Sends(s) /\ (Served(s) \/ Refused(s) \/ Lost(s))
SendsNothing == UNCHANGED <<queueVars, sent, disturbed>>

-----------------------------------------------------------------------------
(* The main thread: run_forever around run_once.  Its steps are between the *)
(* points where it looks at what threads change, or calls the orchestrator.  *)

MainStep == UNCHANGED <<demand, warm, warming>>
OnlyMain == UNCHANGED <<queueVars, demand, slot, thread, warm, warming, sent, strayVars>>

AfterRefresh(m) ==
    [m EXCEPT !.at = IF m.mode = "outer" THEN "collect" ELSE "register", !.cursor = 1]

RefreshSkipped ==
    /\ main.at = "refresh" /\ ~ main.due
    /\ main' = AfterRefresh(main)
    /\ OnlyMain /\ Undisturbed

RefreshFails ==
    /\ main.at = "refresh" /\ main.due
    /\ main' = AfterRefresh([main EXCEPT !.due = FALSE, !.read = FALSE])
    /\ OnlyMain /\ Disturbs

TargetFaulty(n) == n + IdlePollSlots
Target(n) == IF n > 0 THEN n ELSE IdlePollSlots

RefreshSlotTarget ==
    /\ main.at = "refresh" /\ main.due
    /\ main' = AfterRefresh(
                 [main EXCEPT !.due = FALSE, !.read = TRUE, !.required = demand,
                    !.target = Target(demand),
                    !.idle = IF @ = "started" THEN "confirmed" ELSE @])
    /\ OnlyMain /\ Undisturbed

\* Up to the target, or as far as the calls go through; one that failed is
\* tried again later.
RegisterSlots ==
    /\ main.at = "register"
    /\ IF "register" \in main.backoff \/ main.registered >= main.target
       THEN main' = [main EXCEPT !.at = "collect"] /\ Undisturbed
       ELSE \/ /\ main' = [main EXCEPT !.at = "collect", !.registered = main.target]
               /\ Undisturbed
            \/ /\ \E n \in main.registered..(main.target - 1) :
                     main' = [main EXCEPT !.at = "collect", !.registered = n,
                                          !.backoff = @ \cup {"register"}]
               /\ Disturbs
    /\ OnlyMain

Finished(s) == Started(s) /\ thread[slot[s].lead].at = "over"

\* The slots are looked at one after the other: the thread of a batch may end
\* in between.
Reached(s) ==
    /\ main.at = "collect" /\ Started(s) /\ s >= main.cursor
    /\ \A t \in Slots : (Started(t) /\ t >= main.cursor) => s <= t

RunsOn(s) ==
    /\ Reached(s) /\ ~ Finished(s)
    /\ main' = [main EXCEPT !.cursor = s + 1]
    /\ OnlyMain /\ Undisturbed

\* The exception of a thread is reported for each of its slots, unless it says
\* that it was reported.
CollectFinishedSlot(s) ==
    LET l == slot[s].lead
    IN  /\ Reached(s) /\ Finished(s)
        /\ IF thread[l].end = "raised" THEN SendsFailure(s) ELSE SendsNothing
        /\ slot' = [slot EXCEPT ![s] = Free]
        /\ thread' = [thread EXCEPT ![l] = IF Batch(l) = {s} THEN NoThread ELSE @]
        /\ main' = [main EXCEPT !.cursor = s + 1]
        /\ overtaken' = overtaken \ {s}
        /\ UNCHANGED stray /\ MainStep

Collected == main.at = "collect" /\ \A s \in Slots : Started(s) => s < main.cursor

\* Then heartbeats are sent (Beats).
CollectFinishedSlots ==
    /\ Collected /\ main.mode # "outer"
    /\ main' = [main EXCEPT !.at = "poll", !.cursor = 1]
    /\ OnlyMain /\ Undisturbed

OpenModalSession ==
    /\ Collected /\ main.mode = "outer"
    /\ HoldsSession \/ PendingModal
    /\ \/ /\ main' = [main EXCEPT !.at = "begin", !.mode = "inner", !.session = TRUE]
          /\ Undisturbed
       \/ main' = [main EXCEPT !.at = "crashed"] /\ Disturbs
    /\ OnlyMain

RunWithoutSession ==
    /\ Collected /\ main.mode = "outer"
    /\ ~ HoldsSession /\ ~ PendingModal
    /\ main' = [main EXCEPT !.at = "refresh", !.mode = "bare"]
    /\ OnlyMain /\ Undisturbed

ToPollFaulty == {s \in Slots : s >= main.cursor /\ s <= main.registered /\ InTarget(s)}
ToPoll == {s \in Slots : /\ s >= main.cursor /\ s <= main.registered
                         /\ ~ Busy(s) /\ InTarget(s)}

Polls(s) ==
    /\ main.at = "poll" /\ "poll" \notin main.backoff
    /\ s \in ToPoll /\ \A t \in ToPoll : s <= t

\* run_once returns without starting what it claimed.
Returns(m) == [m EXCEPT !.at = IF m.mode = "inner" THEN "exit" ELSE "end", !.cursor = 1]

\* The retry of a failed poll is not due yet.
PollsLater ==
    /\ main.at = "poll" /\ "poll" \in main.backoff
    /\ main' = Returns(main)
    /\ OnlyMain /\ Undisturbed

\* _poll_templates, when the poll was sent.
AsksFor(j, training) == phase[j] = "waiting" /\ (j \in Training => training)
Eligible(j) == AsksFor(j, main.required > 0)

\* A worker that holds a job is given it again, whatever it polls for.
Grants(s, j) ==
    \/ holder[j] = s /\ UNCHANGED queueVars
    \/ /\ \A i \in Jobs : holder[i] # s
       /\ Eligible(j) /\ Queue!Grant(j, s)

\* Polls of s that were given up are older than the job it takes now.
Outruns(s) ==
    stray' = [p \in StrayPoll |->
                IF p.slot # s THEN stray[p]
                ELSE IF p.late THEN stray[p] + stray[[p EXCEPT !.late = FALSE]]
                ELSE 0]

PollAnswers(s, j) ==
    /\ Polls(s) /\ Grants(s, j)
    /\ slot' = [slot EXCEPT ![s] = [job |-> j, grant |-> grants'[j], lead |-> NoSlot]]
    /\ sent' = [sent EXCEPT ![s] = FALSE]
    /\ main' = [main EXCEPT !.cursor = s + 1, !.idle = "no"]
    /\ Outruns(s)
    /\ UNCHANGED <<thread, overtaken>> /\ MainStep /\ Undisturbed

PollFindsNothing(s) ==
    /\ Polls(s)
    /\ \A j \in Jobs : holder[j] # s /\ ~ Eligible(j)
    /\ main' = [main EXCEPT !.cursor = s + 1]
    /\ OnlyMain /\ Undisturbed

\* The call times out, or does not arrive.  The orchestrator does not notice that
\* nobody waits for the answer: it may serve the poll at any time, or never.
PollFails(s) ==
    /\ Polls(s)
    /\ main' = [Returns(main) EXCEPT !.backoff = @ \cup {"poll"}]
    /\ stray' = [stray EXCEPT ![[slot |-> s, training |-> main.required > 0,
                                 late |-> FALSE]] = @ + 1]
    /\ UNCHANGED <<queueVars, slot, thread, sent, overtaken>> /\ MainStep /\ Disturbs

\* Such a poll claims, if the worker still holds nothing.
StrayGrants(p) ==
    /\ stray[p] > 0
    /\ stray' = [stray EXCEPT ![p] = @ - 1]
    /\ \A i \in Jobs : holder[i] # p.slot
    /\ \E j \in Jobs : AsksFor(j, p.training) /\ Queue!Grant(j, p.slot)
    /\ overtaken' = IF p.late /\ Busy(p.slot) THEN overtaken \cup {p.slot} ELSE overtaken

\* A poll that was answered nothing, because a stray one was claiming.
PollOutrun(s) ==
    /\ Polls(s)
    /\ \E p \in StrayPoll : p.slot = s /\ StrayGrants(p)
    /\ main' = [main EXCEPT !.cursor = s + 1]
    /\ UNCHANGED <<slot, thread, sent>> /\ MainStep /\ Undisturbed

Polled == main.at = "poll" /\ "poll" \notin main.backoff /\ ToPoll = {}

PollsWithoutSession ==
    /\ Polled /\ main.mode = "bare"
    /\ main' = [main EXCEPT !.at = "end", !.cursor = 1]
    /\ OnlyMain /\ Undisturbed

\* _modal_batch_groups: training jobs on one dataset, in chunks.
Peers(s) ==
    {t \in Slots : /\ Pending(t)
                   /\ slot[t].job \in Training /\ slot[s].job \in Training
                   /\ KeyOf[slot[t].job] = KeyOf[slot[s].job]}

Chunk(s) == Cardinality({t \in Peers(s) : t < s}) \div BatchSize

\* The first slot of a chunk runs it.
Leads(lead) ==
    \A s \in Slots : Pending(s) =>
        /\ lead[s] \in Peers(s) \cup {s} /\ lead[s] <= s /\ lead[lead[s]] = lead[s]
        /\ \A t \in Peers(s) : Chunk(t) = Chunk(s) <=> lead[t] = lead[s]

\* _start_claimed_slots is given every pending slot wherever it is called.
StartClaimedSlots ==
    /\ \/ main.at = "begin"
       \/ Polled /\ main.mode = "inner"
       \/ main.at = "end" /\ ~ PendingModal
    /\ \E lead \in [Slots -> Slots] :
         /\ Leads(lead)
         /\ slot' = [s \in Slots |-> IF Pending(s) THEN [slot[s] EXCEPT !.lead = lead[s]]
                                     ELSE slot[s]]
         /\ thread' = [s \in Slots |-> IF Pending(s) /\ lead[s] = s
                                       THEN [at |-> "queued", end |-> "none"] ELSE thread[s]]
    /\ main' = [main EXCEPT !.at = IF main.at = "begin" THEN "refresh" ELSE "exit",
                            !.cursor = 1]
    /\ SendsNothing /\ UNCHANGED strayVars /\ MainStep

\* What was claimed outside a session needs one.
StartInSession ==
    /\ main.at = "end" /\ PendingModal
    /\ main' = [main EXCEPT !.at = "refresh", !.mode = "outer"]
    /\ OnlyMain /\ Undisturbed

UnwantedFaulty == main.read /\ main.required = 0 /\ ~ Warming

\* _should_exit_for_idle.
Unwanted == main.read /\ main.required = 0 /\ ~ Warming /\ \A s \in Slots : ~ Started(s)

Stays(idle, due) ==
    /\ main' = [main EXCEPT !.idle = idle, !.due = due,
                  !.at = IF main.mode = "inner" THEN "hold" ELSE "refresh",
                  !.mode = IF main.mode = "inner" THEN "inner" ELSE "outer"]
    /\ OnlyMain /\ Undisturbed

ShouldStay ==
    /\ main.at = "exit"
    /\ CASE ~ Unwanted               -> Stays("no", main.due)
         [] main.idle = "confirmed"  -> Stays("confirmed", main.due)
         [] OTHER                    -> Stays("started", TRUE)

ExitForIdle ==
    /\ main.at = "exit" /\ Unwanted /\ main.idle = "confirmed"
    /\ main' = [main EXCEPT !.at = "over", !.session = FALSE]
    /\ OnlyMain /\ Undisturbed

HoldModalSession ==
    /\ main.at = "hold"
    /\ main' = IF HoldsSession \/ PendingModal THEN [main EXCEPT !.at = "begin"]
               ELSE [main EXCEPT !.at = "refresh", !.mode = "outer", !.session = FALSE]
    /\ OnlyMain /\ Undisturbed

RefreshIsDueFaulty ==
    /\ Going /\ main.read /\ ~ main.due
    /\ main' = [main EXCEPT !.due = TRUE]
    /\ OnlyMain /\ Undisturbed

\* _next_requirement_refresh_at has come.
RefreshIsDue ==
    /\ Going /\ ~ main.due
    /\ main' = [main EXCEPT !.due = TRUE]
    /\ OnlyMain /\ Undisturbed

\* _next_register_retry_at or _next_poll_retry_at has.
RetryIsDue(call) ==
    /\ Going /\ call \in main.backoff
    /\ main' = [main EXCEPT !.backoff = @ \ {call}]
    /\ OnlyMain /\ Undisturbed

-----------------------------------------------------------------------------
(* A thread: _run_claimed_job or _run_claimed_batch.  The first job of a   *)
(* batch stands for it when a dataset is prewarmed.                        *)

Key(s) == KeyOf[slot[s].job]

ThreadGoes(s, at, end) == thread' = [thread EXCEPT ![s] = [at |-> at, end |-> end]]
ThreadStep == UNCHANGED <<demand, main, slot, strayVars>>

FindsFaulty(s) == "none"
Finds(s) == warming[Key(s)]

\* _ensure_cache_warm, up to the release of _cache_lock.
EnsureCacheWarm(s) ==
    /\ thread[s].at = "queued"
    /\ IF Key(s) \in warm \cup {NoKey}
       THEN ThreadGoes(s, "run", "none") /\ UNCHANGED warming
       ELSE CASE Finds(s) = "none" -> /\ ThreadGoes(s, "warming", "none")
                                      /\ warming' = [warming EXCEPT ![Key(s)] = "open"]
              [] Finds(s) = "open" -> ThreadGoes(s, "wait", "none") /\ UNCHANGED warming
              [] OTHER             -> ThreadGoes(s, "woken", Finds(s)) /\ UNCHANGED warming
    /\ SendsNothing /\ UNCHANGED warm /\ ThreadStep

\* run_modal_dataset_materialization reports a failed call for the thread's
\* first job; what fails before or after that is an exception like any other.
Materialize(s) ==
    /\ thread[s].at = "warming"
    /\ \/ /\ ThreadGoes(s, "warmed", "ok")
          /\ warm' \in {warm, warm \cup {Key(s)}}
          /\ SendsNothing
       \/ /\ ThreadGoes(s, "warmed", "raised") /\ UNCHANGED warm
          /\ SendsNothing \/ (Sends(s) /\ (Refused(s) \/ Lost(s)))
       \/ /\ ThreadGoes(s, "warmed", "reported") /\ UNCHANGED warm
          /\ Sends(s) /\ Served(s)
    /\ UNCHANGED warming /\ ThreadStep

Wakes(s, t) == thread[t].at = "wait" /\ Key(t) = Key(s)

\* What a waiter learns is state.error; it cannot change any more.
SetEvent(s) ==
    /\ thread[s].at = "warmed"
    /\ thread' = [t \in Slots |->
                    CASE t = s       -> [thread[t] EXCEPT !.at = "set"]
                      [] Wakes(s, t) -> [at |-> "woken", end |-> thread[s].end]
                      [] OTHER       -> thread[t]]
    /\ warming' = [warming EXCEPT ![Key(s)] = thread[s].end]
    /\ SendsNothing /\ UNCHANGED warm /\ ThreadStep

PopWarming(s) ==
    /\ thread[s].at = "set"
    /\ IF thread[s].end = "ok" THEN ThreadGoes(s, "run", "none")
                               ELSE ThreadGoes(s, "over", thread[s].end)
    /\ warming' = [warming EXCEPT ![Key(s)] = "none"]
    /\ SendsNothing /\ UNCHANGED warm /\ ThreadStep

\* A waiter reports for itself when the owner reported for itself.
WaiterReportsFaulty(s) == FALSE
WaiterReports(s) == thread[s].end = "reported"

WaiterWakes(s) ==
    /\ thread[s].at = "woken"
    /\ IF thread[s].end = "ok" THEN ThreadGoes(s, "run", "none")
                               ELSE ThreadGoes(s, "over", thread[s].end)
    /\ IF WaiterReports(s) THEN SendsFailure(s) ELSE SendsNothing
    /\ UNCHANGED <<warm, warming>> /\ ThreadStep

\* The runner, or the remote function it calls, tells the outcome of a job.
RunnerTells(s, t) ==
    /\ thread[s].at = "run" /\ t \in Batch(s) /\ ~ sent[t]
    /\ Completes(t) \/ Fails(t)
    /\ sent' = [sent EXCEPT ![t] = TRUE]
    /\ UNCHANGED <<thread, warm, warming>> /\ ThreadStep /\ Undisturbed

\* It returns when every job's outcome is told or nobody asks for it any more.
RunnerEnds(s) ==
    /\ thread[s].at = "run"
    /\ \/ /\ \A t \in Batch(s) : sent[t] \/ ~ Current(t)
          /\ ThreadGoes(s, "over", "ok")
       \/ ThreadGoes(s, "over", "raised")
    /\ SendsNothing /\ UNCHANGED <<warm, warming>> /\ ThreadStep

-----------------------------------------------------------------------------
(* The orchestrator. *)

DispatcherSame == UNCHANGED <<main, slot, thread, warm, warming, sent>>
DispatcherIdles == DispatcherSame /\ UNCHANGED strayVars

StrayPollClaims(p) == StrayGrants(p) /\ UNCHANGED <<demand, disturbed>> /\ DispatcherSame

JobSubmitted(j) == Queue!Submit(j) /\ UNCHANGED <<demand, disturbed>> /\ DispatcherIdles

\* A lease runs out when nobody renews it, and when heartbeats are lost.
LeaseRunsOut(j) ==
    /\ phase[j] = "held"
    /\ Queue!Release({j}, {}) \/ Queue!Release({}, {j})
    /\ IF Beats(holder[j]) THEN Disturbs ELSE Undisturbed
    /\ UNCHANGED demand /\ DispatcherIdles

JobCancelled(j) ==
    /\ Queue!Release({}, {j})
    /\ UNCHANGED <<demand, disturbed>> /\ DispatcherIdles

\* Demand ends with its jobs; any other change of it is bounded.
DemandChanges(n) ==
    /\ n # demand /\ demand' = n
    /\ IF n = 0 THEN Undisturbed ELSE Disturbs
    /\ UNCHANGED queueVars /\ DispatcherIdles

-----------------------------------------------------------------------------
MainThread ==
    \/ RefreshSkipped \/ RefreshFails \/ RefreshSlotTarget
    \/ RegisterSlots
    \/ \E s \in Slots : \/ RunsOn(s) \/ CollectFinishedSlot(s)
                        \/ PollFindsNothing(s) \/ PollFails(s) \/ PollOutrun(s)
                        \/ \E j \in Jobs : PollAnswers(s, j)
    \/ CollectFinishedSlots \/ OpenModalSession \/ RunWithoutSession
    \/ PollsLater \/ PollsWithoutSession \/ StartClaimedSlots \/ StartInSession
    \/ ShouldStay \/ ExitForIdle \/ HoldModalSession

JobThread(s) ==
    \/ EnsureCacheWarm(s) \/ Materialize(s) \/ SetEvent(s) \/ PopWarming(s)
    \/ WaiterWakes(s) \/ RunnerEnds(s) \/ \E t \in Slots : RunnerTells(s, t)

Next ==
    \/ MainThread \/ RefreshIsDue \/ \E call \in {"register", "poll"} : RetryIsDue(call)
    \/ \E s \in Slots : JobThread(s)
    \/ \E j \in Jobs : JobSubmitted(j) \/ LeaseRunsOut(j) \/ JobCancelled(j)
    \/ \E p \in StrayPoll : StrayPollClaims(p)
    \/ \E n \in 0..MaxSlots : DemandChanges(n)

Spec == Init /\ [][Next]_vars

\* The threads run, time passes, and a lease that nobody renews runs out.
Fairness ==
    /\ WF_vars(MainThread) /\ WF_vars(RefreshIsDue)
    /\ WF_vars(RetryIsDue("register")) /\ WF_vars(RetryIsDue("poll"))
    /\ \A s \in Slots : WF_vars(JobThread(s))
    /\ \A j \in Jobs : WF_vars(holder[j] \in Slots /\ ~ Beats(holder[j]) /\ LeaseRunsOut(j))

LiveSpec == Spec /\ Fairness

-----------------------------------------------------------------------------
\* While the orchestrator says that a slot's worker holds a job, the slot works
\* on that very attempt or on nothing, though leases run out and answers are lost
\* behind its back.  The exception is what a time-out cannot prevent: a poll that
\* was given up before the slot took its job may claim when that job is taken away
\* but its thread runs on.  Then nobody works on the attempt it claimed (run_once,
\* _collect_finished_slots; pollNextPolicyPermittedJob).
SlotWorksOnWhatItHolds ==
    \A s \in Slots, j \in Jobs :
        (holder[j] = s /\ Busy(s)) =>
            \/ slot[s].job = j /\ slot[s].grant = grants[j]
            \/ /\ s \in overtaken
               /\ \A t \in Slots : slot[t].job = j => slot[t].grant # grants[j]

\* A thread never calls Modal after the main thread closed the session: demand
\* that disappears while a job runs does not close it, and what is claimed
\* outside one waits for the next (_should_hold_modal_session).
SessionHeldWhileNeeded ==
    \A s \in Slots :
        (Started(s) /\ slot[s].job \in NeedsModal
           /\ thread[slot[s].lead].at \in {"warming", "run"})
              => main.session

\* Two threads never materialize one dataset at a time, nor one that is warm,
\* and who waits for a dataset waits for a thread that will tell him, whether
\* it succeeds or not (_ensure_cache_warm).
DatasetsShared ==
    /\ \A s, t \in Slots :
         (thread[s].at = "warming" /\ thread[t].at = "warming" /\ Key(s) = Key(t)) => s = t
    /\ \A s \in Slots : thread[s].at = "warming" => Key(s) \notin warm
    /\ \A s \in Slots : thread[s].at = "wait" =>
          \E t \in Slots : thread[t].at \in {"warming", "warmed"} /\ Key(t) = Key(s)

\* The dispatcher leaves nothing behind when it leaves for want of work: no
\* job it was given and has not started, none that runs, none whose end it has
\* not dealt with (_should_exit_for_idle).  What a poll it gave up claims for it
\* nevertheless, it does not know of: EveryGrantEnds.
IdleExitLeavesNothing ==
    main.at = "over" => \A s \in Slots : slot[s] = Free /\ thread[s] = NoThread

\* A slot is freed only when an outcome of its claim was sent, or the attempt
\* is no longer its own.  The exception is what the code forgets: a failure to
\* prewarm that was reported for the first job of a batch counts as reported
\* for all of them (_run_claimed_batch, _collect_finished_slots).
FreedIsReported ==
    [][\A s \in Slots :
         (Busy(s) /\ slot'[s] = Free)
            => \/ sent'[s] \/ ~ Current(s)
               \/ slot[s].lead # s /\ thread[slot[s].lead].end = "reported"]_vars

\* Every grant ends: whatever is lost, forgotten or shrunk away, the slot that
\* holds a job either runs it or stops renewing its lease
\* (_heartbeat_due_slots, pollNextPolicyPermittedJob).
EveryGrantEnds == \A j \in Jobs : phase[j] = "held" ~> phase[j] # "held"

\* While workers are required, a job that waits is started, unless the
\* dispatcher is gone (_refresh_slot_target_from_requirements, _poll_templates).
DemandedJobStarts ==
    \A j \in Jobs :
        (phase[j] = "waiting" /\ demand > 0)
           ~> (phase[j] # "waiting" \/ demand = 0 \/ main.at \in {"over", "crashed"})
=============================================================================
