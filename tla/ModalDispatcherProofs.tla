----------------------- MODULE ModalDispatcherProofs -----------------------
(***************************************************************************)
(* ModalDispatcher for any number of jobs, slots and datasets, and any     *)
(* bound on attempts and disturbances: its types, and its safety           *)
(* properties, from one inductive invariant.                               *)
(***************************************************************************)
EXTENDS ModalDispatcher, TLAPS

\* The orchestrator: a job is held exactly if it has a holder, and a worker
\* holds one job at most.
QueueOK ==
    /\ \A j \in Jobs : holder[j] # NoSlot <=> phase[j] = "held"
    /\ \A i, j \in Jobs : (holder[i] = holder[j] /\ holder[i] # NoSlot) => i = j

\* A slot without a job has no claim, and a claim is not newer than the job.
ClaimsOK ==
    \A s \in Slots : /\ ~ Busy(s) => slot[s] = Free
                     /\ Busy(s) => slot[s].grant <= grants[slot[s].job]

\* A thread is led by the first slot of its batch, which is freed first.
LeadsOK ==
    /\ \A s \in Slots : Started(s) =>
          LET l == slot[s].lead
          IN  /\ l <= s
              /\ thread[l].at # "none"
              /\ \/ slot[l].lead = l
                 \/ main.at = "collect" /\ s >= main.cursor /\ thread[l].at = "over"
              /\ KeyOf[slot[s].job] # NoKey => slot[s].job \in NeedsModal
    /\ \A l \in Slots : thread[l].at \notin {"none", "over"} => slot[l].lead = l
    /\ \A l \in Slots : thread[l].at = "over" => \E s \in Slots : slot[s].lead = l

\* One thread owns a dataset that is being prewarmed.
Owns(l, k) == thread[l].at \in {"warming", "warmed", "set"} /\ Key(l) = k

EndsOK ==
    \A l \in Slots :
        /\ thread[l].at = "none" => thread[l] = NoThread
        /\ thread[l].at \in {"woken", "warmed", "set", "over"} => thread[l].end \in Ends

CachesOK ==
    /\ \A l \in Slots, k \in Keys : Owns(l, k) => warming[k] # "none"
    /\ \A l, m \in Slots, k \in Keys : (Owns(l, k) /\ Owns(m, k)) => l = m
    /\ \A l \in Slots : thread[l].at \in {"warming", "warmed", "set", "wait"} => Key(l) \in Keys
    /\ \A l \in Slots : thread[l].at \in {"warming", "warmed"} => warming[Key(l)] = "open"
    /\ \A l \in Slots : thread[l].at = "set" => warming[Key(l)] # "open"
    /\ \A l \in Slots : thread[l].at = "wait" => warming[Key(l)] = "open"
    /\ \A k \in Keys : warming[k] = "open" =>
          \E l \in Slots : thread[l].at \in {"warming", "warmed"} /\ Key(l) = k
    /\ \A l \in Slots : thread[l].at = "warming" => Key(l) \notin warm

\* The session is open inside its block, and outside it nothing needs it.
SessionOK ==
    /\ main.session = (main.mode = "inner" /\ main.at # "over")
    /\ main.at \in {"begin", "hold"} => main.mode = "inner"
    /\ main.at = "end" => main.mode = "bare"
    /\ main.at \in {"register", "poll"} => main.mode # "outer"
    /\ main.at = "over" => \A s \in Slots : ~ Busy(s)
    /\ ~ main.session => \A s \in Slots : Started(s) => slot[s].job \notin NeedsModal

\* Inside a session nothing waits to be started when the loop starts over,
\* and what was just claimed is the last work there was.
PendingOK ==
    \A s \in Slots : Pending(s) =>
        /\ main.at = "exit" => main.mode = "inner"
        /\ main.mode = "inner" => main.at \notin {"refresh", "register", "collect"}
        /\ (main.mode = "inner" /\ main.at \in {"poll", "exit"}) => main.idle = "no"

\* What a thread has said, when it ends.
Settled(s) == sent[s] \/ ~ Current(s)

ReportsOK ==
    \A s \in Slots : Started(s) =>
        LET t == thread[slot[s].lead]
        IN  /\ (t.at = "over" /\ t.end = "ok") => Settled(s)
            /\ (t.at \in {"warmed", "set", "over"} /\ t.end = "reported" /\ slot[s].lead = s)
                  => Settled(s)

\* A stray poll that is no older than its slot's work has a slot without work, and
\* a slot is overtaken until it is freed.
StraysOK ==
    /\ \A p \in StrayPoll : (stray[p] > 0 /\ ~ p.late) => ~ Busy(p.slot)
    /\ \A s \in overtaken : Busy(s)

Inv ==
    /\ TypeOK /\ QueueOK /\ ClaimsOK /\ SlotWorksOnWhatItHolds /\ StraysOK /\ LeadsOK
    /\ EndsOK /\ CachesOK /\ SessionOK /\ PendingOK /\ ReportsOK

-----------------------------------------------------------------------------
LEMMA Numbers == NoSlot \notin Slots /\ Slots \subseteq Nat /\ MaxSlots \in Nat \ {0}
    BY ModalDispatcherAssumption DEF NoSlot, Slots

LEMMA InitOK == Init => Inv
<1>. SUFFICES ASSUME Init PROVE Inv
    OBVIOUS
<1>. USE ModalDispatcherAssumption, Numbers DEF Init, Queue!Init
<1>1. TypeOK
    BY DEF TypeOK, Queue!TypeOK, Main, Claim, Free, Thread, NoThread, Slots
<1>2. QueueOK /\ ClaimsOK /\ SlotWorksOnWhatItHolds /\ StraysOK
    BY DEF QueueOK, ClaimsOK, SlotWorksOnWhatItHolds, StraysOK, Busy, Free
<1>3. LeadsOK /\ PendingOK /\ ReportsOK
    BY DEF LeadsOK, PendingOK, ReportsOK, Started, Pending, Busy, Free, NoThread
<1>4. EndsOK /\ CachesOK
    BY DEF EndsOK, CachesOK, Owns, NoThread
<1>5. SessionOK
    BY DEF SessionOK, Started, Busy, Free
<1>. QED
    BY <1>1, <1>2, <1>3, <1>4, <1>5 DEF Inv

-----------------------------------------------------------------------------
(* The queue. *)

QueueTyped == Queue!TypeOK /\ QueueOK

\* Nobody is given a job.
Drops ==
    /\ grants' = grants
    /\ \A j \in Jobs : holder'[j] \in {holder[j], NoSlot}

LEMMA QueueKept ==
    ASSUME QueueTyped, UNCHANGED queueVars
    PROVE  QueueTyped' /\ Drops
    BY DEF QueueTyped, QueueOK, Queue!TypeOK, queueVars, Drops

LEMMA QueueSubmits ==
    ASSUME QueueTyped, NEW j \in Jobs, Queue!Submit(j)
    PROVE  QueueTyped' /\ Drops
    BY DEF QueueTyped, QueueOK, Queue!TypeOK, Queue!Submit, Drops

LEMMA QueueReleases ==
    ASSUME QueueTyped, NEW Back \in SUBSET Jobs, NEW Over \in SUBSET Jobs,
           Queue!Release(Back, Over)
    PROVE  QueueTyped' /\ Drops
    BY Numbers DEF QueueTyped, QueueOK, Queue!TypeOK, Queue!Release, Drops

LEMMA QueueGrants ==
    ASSUME QueueTyped, NEW j \in Jobs, NEW s \in Slots, Queue!Grant(j, s),
           \A i \in Jobs : holder[i] # s
    PROVE  /\ QueueTyped'
           /\ holder' = [holder EXCEPT ![j] = s]
           /\ grants' = [grants EXCEPT ![j] = @ + 1]
    BY Numbers, ModalDispatcherAssumption DEF QueueTyped, QueueOK, Queue!TypeOK, Queue!Grant

LEMMA DisturbedTyped ==
    ASSUME TypeOK, Disturbs \/ Undisturbed
    PROVE  disturbed' \in 0..MaxDisturbances
    BY ModalDispatcherAssumption DEF TypeOK, Disturbs, Undisturbed

-----------------------------------------------------------------------------
(* Steps of the main thread that change nothing else. *)

\* Between two rounds of collecting, who leads a thread leads his own.
LeadsItself == \A s \in Slots : Started(s) => slot[slot[s].lead].lead = slot[s].lead

LEMMA LeadersLead ==
    ASSUME Inv, main.at # "collect" \/ Collected
    PROVE  LeadsItself
<1>. SUFFICES ASSUME NEW s \in Slots, Started(s)
              PROVE  slot[slot[s].lead].lead = slot[s].lead
    BY DEF LeadsItself
<1>1. main.cursor \in Nat
    BY Numbers DEF Inv, TypeOK, Main
<1>. QED
    BY <1>1, Numbers DEF Inv, LeadsOK, Collected

LEMMA MainAndStraysMove ==
    ASSUME Inv, UNCHANGED <<queueVars, demand, slot, thread, warm, warming, sent, overtaken>>,
           Disturbs \/ Undisturbed, main' \in Main, stray' \in [StrayPoll -> Nat],
           LeadsItself, SessionOK', PendingOK', StraysOK'
    PROVE  Inv'
<1>1. TypeOK'
    BY DisturbedTyped DEF Inv, TypeOK, queueVars, Queue!TypeOK
<1>2. QueueOK' /\ ClaimsOK' /\ SlotWorksOnWhatItHolds'
    BY DEF Inv, queueVars, QueueOK, ClaimsOK, SlotWorksOnWhatItHolds, Busy
<1>3. LeadsOK'
    BY DEF Inv, LeadsOK, LeadsItself, Started
<1>4. EndsOK' /\ CachesOK'
    BY DEF Inv, EndsOK, CachesOK, Owns, Key
<1>5. ReportsOK'
    BY DEF Inv, queueVars, ReportsOK, Started, Settled, Current, Busy
<1>. QED
    BY <1>1, <1>2, <1>3, <1>4, <1>5 DEF Inv

LEMMA MainMoves ==
    ASSUME Inv, OnlyMain, Disturbs \/ Undisturbed, main' \in Main,
           LeadsItself, SessionOK', PendingOK'
    PROVE  Inv'
<1>1. StraysOK' /\ stray' \in [StrayPoll -> Nat]
    BY DEF Inv, TypeOK, OnlyMain, strayVars, StraysOK, Busy
<1>. QED
    BY <1>1, MainAndStraysMove DEF OnlyMain, strayVars

LEMMA RefreshesKept ==
    ASSUME Inv, RefreshSkipped \/ RefreshFails \/ RefreshSlotTarget
    PROVE  Inv'
<1>. USE DEF RefreshSkipped, RefreshFails, RefreshSlotTarget
<1>1. LeadsItself /\ OnlyMain /\ (Disturbs \/ Undisturbed)
    BY LeadersLead
<1>2. Target(demand) \in 0..MaxSlots
    BY Numbers, ModalDispatcherAssumption DEF Inv, TypeOK, Target
<1>3. main' \in Main
    <2>1. main \in Main /\ 1 \in 1..(MaxSlots + 1)
        BY Numbers DEF Inv, TypeOK
    <2>2. \A m \in Main : AfterRefresh(m) \in Main
        BY <2>1 DEF Main, AfterRefresh
    <2>3. [main EXCEPT !.due = FALSE, !.read = FALSE] \in Main
        BY <2>1 DEF Main
    <2>4. [main EXCEPT !.due = FALSE, !.read = TRUE, !.required = demand,
             !.target = Target(demand),
             !.idle = IF @ = "started" THEN "confirmed" ELSE @] \in Main
        BY <2>1, <1>2 DEF Main, Inv, TypeOK
    <2>. QED
        BY <2>1, <2>2, <2>3, <2>4
<1>4. /\ main.at = "refresh"
      /\ main'.at = IF main.mode = "outer" THEN "collect" ELSE "register"
      /\ main'.mode = main.mode /\ main'.session = main.session
    BY DEF Inv, TypeOK, Main, AfterRefresh
<1>5. SessionOK'
    BY <1>1, <1>4 DEF Inv, SessionOK, OnlyMain, Started, Busy
<1>6. PendingOK'
    BY <1>1, <1>4 DEF Inv, PendingOK, OnlyMain, Pending, Started, Busy
<1>. QED
    BY <1>1, <1>3, <1>5, <1>6, MainMoves

LEMMA Between ==
    ASSUME NEW r \in 0..MaxSlots, NEW t \in 0..MaxSlots, NEW n \in r..(t - 1)
    PROVE  n \in 0..MaxSlots
    BY Numbers

LEMMA RegisterKept ==
    ASSUME Inv, RegisterSlots
    PROVE  Inv'
<1>. USE DEF RegisterSlots
<1>1. LeadsItself /\ OnlyMain /\ (Disturbs \/ Undisturbed)
    BY LeadersLead
<1>2. main.registered \in 0..MaxSlots /\ main.target \in 0..MaxSlots /\ main \in Main
    BY DEF Inv, TypeOK, Main
<1>3. main' \in Main
    <2>1. CASE main' = [main EXCEPT !.at = "collect"]
        BY <1>2, <2>1 DEF Main
    <2>2. CASE main' = [main EXCEPT !.at = "collect", !.registered = main.target]
        BY <1>2, <2>2 DEF Main
    <2>3. ASSUME NEW n \in main.registered..(main.target - 1),
                 main' = [main EXCEPT !.at = "collect", !.registered = n,
                                      !.backoff = @ \cup {"register"}]
          PROVE  main' \in Main
        <3>1. n \in 0..MaxSlots
            BY <1>2, Between
        <3>2. main.backoff \cup {"register"} \in SUBSET {"register", "poll"}
            BY <1>2 DEF Main
        <3>. QED
            BY <1>2, <2>3, <3>1, <3>2 DEF Main
    <2>. QED
        BY <2>1, <2>2, <2>3
<1>4. main.at = "register" /\ main'.at = "collect"
      /\ main'.mode = main.mode /\ main'.session = main.session
    BY <1>2 DEF Main
<1>5. SessionOK'
    BY <1>1, <1>4 DEF Inv, SessionOK, OnlyMain, Started, Busy
<1>6. PendingOK'
    BY <1>1, <1>4 DEF Inv, PendingOK, OnlyMain, Pending, Started, Busy
<1>. QED
    BY <1>1, <1>3, <1>5, <1>6, MainMoves

\* The cursor starts over, or goes one slot further.
LEMMA Cursors ==
    /\ 1 \in 1..(MaxSlots + 1)
    /\ \A s \in Slots : s + 1 \in 1..(MaxSlots + 1)
    BY Numbers DEF Slots

LEMMA CollectedKept ==
    ASSUME Inv, CollectFinishedSlots \/ OpenModalSession \/ RunWithoutSession
    PROVE  Inv'
<1>. USE DEF CollectFinishedSlots, OpenModalSession, RunWithoutSession
<1>1. Collected /\ OnlyMain /\ (Disturbs \/ Undisturbed) /\ main \in Main
    BY DEF Inv, TypeOK
<1>2. LeadsItself /\ main.at = "collect"
    BY <1>1, LeadersLead DEF Collected
<1>3. main' \in Main
    <2>1. CASE main' = [main EXCEPT !.at = "poll", !.cursor = 1]
        BY <1>1, <2>1, Cursors DEF Main
    <2>2. CASE main' = [main EXCEPT !.at = "begin", !.mode = "inner", !.session = TRUE]
        BY <1>1, <2>2 DEF Main
    <2>3. CASE main' = [main EXCEPT !.at = "crashed"]
        BY <1>1, <2>3 DEF Main
    <2>4. CASE main' = [main EXCEPT !.at = "refresh", !.mode = "bare"]
        BY <1>1, <2>4 DEF Main
    <2>. QED
        BY <2>1, <2>2, <2>3, <2>4
<1>4. CASE CollectFinishedSlots
    <2>1. main'.at = "poll" /\ main'.mode = main.mode /\ main'.session = main.session
        BY <1>1, <1>4 DEF Main
    <2>2. SessionOK' /\ PendingOK'
        BY <1>1, <1>2, <2>1, <1>4
        DEF Inv, SessionOK, PendingOK, OnlyMain, Pending, Started, Busy
    <2>. QED
        BY <1>1, <1>2, <1>3, <2>2, MainMoves
<1>5. CASE OpenModalSession
    <2>1. /\ main.mode = "outer"
          /\ \/ main'.at = "begin" /\ main'.mode = "inner" /\ main'.session = TRUE
             \/ main'.at = "crashed" /\ main'.mode = "outer" /\ main'.session = main.session
        BY <1>1, <1>5 DEF Main
    <2>2. SessionOK'
        BY <1>1, <1>2, <2>1 DEF Inv, SessionOK, OnlyMain, Started, Busy
    <2>3. PendingOK'
        BY <1>1, <1>2, <2>1 DEF Inv, PendingOK, OnlyMain, Pending, Started, Busy
    <2>. QED
        BY <1>1, <1>2, <1>3, <2>2, <2>3, MainMoves
<1>6. CASE RunWithoutSession
    <2>1. /\ main.mode = "outer"
          /\ main'.at = "refresh" /\ main'.mode = "bare" /\ main'.session = main.session
        BY <1>1, <1>6 DEF Main
    <2>2. SessionOK' /\ PendingOK'
        BY <1>1, <1>2, <2>1 DEF Inv, SessionOK, PendingOK, OnlyMain, Pending, Started, Busy
    <2>. QED
        BY <1>1, <1>2, <1>3, <2>2, MainMoves
<1>. QED
    BY <1>4, <1>5, <1>6

LEMMA RunsOnKept ==
    ASSUME Inv, NEW s \in Slots, RunsOn(s)
    PROVE  Inv'
<1>. USE DEF RunsOn
<1>1. main' \in Main /\ main'.at = main.at /\ main'.cursor = s + 1
      /\ main'.mode = main.mode /\ main'.session = main.session /\ main'.idle = main.idle
    BY Cursors DEF Inv, TypeOK, Main
<1>2. OnlyMain /\ (Disturbs \/ Undisturbed)
    OBVIOUS
<1>3. TypeOK'
    BY <1>1, <1>2, DisturbedTyped DEF Inv, TypeOK, OnlyMain, queueVars, strayVars, Queue!TypeOK
<1>4. QueueOK' /\ ClaimsOK' /\ SlotWorksOnWhatItHolds' /\ StraysOK'
    BY DEF Inv, OnlyMain, queueVars, strayVars, QueueOK, ClaimsOK, SlotWorksOnWhatItHolds,
       StraysOK, Busy
<1>5. LeadsOK'
    <2>1. ASSUME NEW t \in Slots, Started(t), t >= main.cursor
          PROVE  t >= s + 1 \/ ~ (thread[slot[t].lead].at = "over")
        BY <2>1, Numbers DEF Reached, Finished
    <2>2. ASSUME NEW t \in Slots, Started(t)
          PROVE  \/ slot[slot[t].lead].lead = slot[t].lead
                 \/ main.at = "collect" /\ t >= s + 1 /\ thread[slot[t].lead].at = "over"
        BY <2>1, <2>2 DEF Inv, LeadsOK
    <2>. QED
        BY <1>1, <2>2 DEF Inv, OnlyMain, LeadsOK, Started
<1>6. EndsOK' /\ CachesOK'
    BY DEF Inv, OnlyMain, EndsOK, CachesOK, Owns, Key
<1>7. ReportsOK'
    BY DEF Inv, OnlyMain, queueVars, ReportsOK, Started, Settled, Current, Busy
<1>8. SessionOK' /\ PendingOK'
    BY <1>1 DEF Inv, SessionOK, PendingOK, OnlyMain, Pending, Started, Busy
<1>. QED
    BY <1>3, <1>4, <1>5, <1>6, <1>7, <1>8 DEF Inv

LEMMA PollingKept ==
    ASSUME Inv, PollsLater \/ PollsWithoutSession \/ \E s \in Slots : PollFindsNothing(s)
    PROVE  Inv'
<1>1. main \in Main /\ main.at = "poll" /\ OnlyMain /\ (Disturbs \/ Undisturbed)
    BY DEF Inv, TypeOK, PollsLater, PollsWithoutSession, PollFindsNothing, Polled, Polls
<1>2. LeadsItself
    BY <1>1, LeadersLead
<1>3. CASE PollsLater \/ PollsWithoutSession
    <2>1. Returns(main) \in Main
        BY <1>1, Cursors DEF Returns, Main
    <2>2. main' = Returns(main)
        BY <1>1, <1>3 DEF PollsLater, PollsWithoutSession, Returns
    <2>3. /\ main'.at = IF main.mode = "inner" THEN "exit" ELSE "end"
          /\ main'.mode = main.mode /\ main'.session = main.session /\ main'.idle = main.idle
        BY <1>1, <2>2 DEF Returns, Main
    <2>4. main.mode \in {"inner", "bare"}
        BY <1>1 DEF Inv, SessionOK, Main
    <2>5. SessionOK'
        BY <1>1, <2>3, <2>4 DEF Inv, SessionOK, OnlyMain, Started, Busy
    <2>6. PendingOK'
        BY <1>1, <2>3 DEF Inv, PendingOK, OnlyMain, Pending, Started, Busy
    <2>. QED
        BY <1>1, <1>2, <2>1, <2>2, <2>5, <2>6, MainMoves
<1>4. CASE \E s \in Slots : PollFindsNothing(s)
    <2>1. PICK s \in Slots : main' = [main EXCEPT !.cursor = s + 1]
        BY <1>4 DEF PollFindsNothing
    <2>2. main' \in Main /\ main'.at = main.at
          /\ main'.mode = main.mode /\ main'.session = main.session /\ main'.idle = main.idle
        BY <1>1, <2>1, Cursors DEF Main
    <2>3. SessionOK' /\ PendingOK'
        BY <1>1, <2>2 DEF Inv, SessionOK, PendingOK, OnlyMain, Pending, Started, Busy
    <2>. QED
        BY <1>1, <1>2, <2>2, <2>3, MainMoves
<1>. QED
    BY <1>3, <1>4

LEMMA StartInSessionKept ==
    ASSUME Inv, StartInSession
    PROVE  Inv'
<1>. USE DEF StartInSession
<1>1. LeadsItself /\ OnlyMain /\ (Disturbs \/ Undisturbed)
    BY LeadersLead
<1>2. main' \in Main /\ main'.at = "refresh" /\ main'.mode = "outer" /\ main'.session = main.session
    BY DEF Inv, TypeOK, Main
<1>3. SessionOK' /\ PendingOK'
    BY <1>1, <1>2 DEF Inv, SessionOK, PendingOK, OnlyMain, Pending, Started, Busy
<1>. QED
    BY <1>1, <1>2, <1>3, MainMoves

LEMMA ShouldStayKept ==
    ASSUME Inv, ShouldStay
    PROVE  Inv'
<1>1. PICK idle \in {"no", "started", "confirmed"}, due \in BOOLEAN : Stays(idle, due)
    BY DEF ShouldStay, Inv, TypeOK, Main
<1>2. main \in Main /\ main.at = "exit" /\ OnlyMain /\ (Disturbs \/ Undisturbed)
    BY <1>1 DEF Inv, TypeOK, ShouldStay, Stays
<1>3. LeadsItself
    BY <1>2, LeadersLead
<1>4. /\ main' \in Main /\ main'.session = main.session
      /\ main'.at = IF main.mode = "inner" THEN "hold" ELSE "refresh"
      /\ main'.mode = IF main.mode = "inner" THEN "inner" ELSE "outer"
    BY <1>1, <1>2 DEF Stays, Main
<1>5. SessionOK'
    BY <1>2, <1>4 DEF Inv, SessionOK, OnlyMain, Started, Busy
<1>6. PendingOK'
    BY <1>2, <1>4 DEF Inv, PendingOK, OnlyMain, Pending, Started, Busy
<1>. QED
    BY <1>2, <1>3, <1>4, <1>5, <1>6, MainMoves

LEMMA ExitForIdleKept ==
    ASSUME Inv, ExitForIdle
    PROVE  Inv'
<1>. USE DEF ExitForIdle
<1>1. LeadsItself /\ OnlyMain /\ (Disturbs \/ Undisturbed)
    BY LeadersLead
<1>2. main' \in Main /\ main'.at = "over" /\ main'.session = FALSE
    BY DEF Inv, TypeOK, Main
<1>3. \A s \in Slots : ~ Busy(s)
    BY DEF Inv, PendingOK, Pending, Unwanted
<1>4. SessionOK' /\ PendingOK'
    BY <1>1, <1>2, <1>3 DEF Inv, SessionOK, PendingOK, OnlyMain, Pending, Started, Busy, Unwanted
<1>. QED
    BY <1>1, <1>2, <1>4, MainMoves

LEMMA HoldModalSessionKept ==
    ASSUME Inv, HoldModalSession
    PROVE  Inv'
<1>. USE DEF HoldModalSession
<1>1. LeadsItself /\ OnlyMain /\ (Disturbs \/ Undisturbed) /\ main \in Main
    BY LeadersLead DEF Inv, TypeOK
<1>2. main.mode = "inner"
    BY DEF Inv, SessionOK
<1>3. CASE HoldsSession \/ PendingModal
    <2>1. main' \in Main /\ main'.at = "begin" /\ main'.mode = "inner" /\ main'.session = main.session
        BY <1>1, <1>2, <1>3 DEF Main
    <2>2. SessionOK' /\ PendingOK'
        BY <1>1, <1>2, <2>1 DEF Inv, SessionOK, PendingOK, OnlyMain, Pending, Started, Busy
    <2>. QED
        BY <1>1, <2>1, <2>2, MainMoves
<1>4. CASE ~ (HoldsSession \/ PendingModal)
    <2>1. main' \in Main /\ main'.at = "refresh" /\ main'.mode = "outer" /\ main'.session = FALSE
        BY <1>1, <1>4 DEF Main
    <2>2. SessionOK'
        BY <1>1, <1>4, <2>1 DEF Inv, SessionOK, OnlyMain, Started, Busy, HoldsSession
    <2>3. PendingOK'
        BY <1>1, <2>1 DEF Inv, PendingOK, OnlyMain, Pending, Started, Busy
    <2>. QED
        BY <1>1, <2>1, <2>2, <2>3, MainMoves
<1>. QED
    BY <1>3, <1>4

LEMMA TimersKept ==
    ASSUME Inv, RefreshIsDue \/ \E call \in {"register", "poll"} : RetryIsDue(call)
    PROVE  Inv'
<1>1. OnlyMain /\ (Disturbs \/ Undisturbed) /\ main \in Main
    BY DEF RefreshIsDue, RetryIsDue, Inv, TypeOK
<1>2. main' \in Main /\ main'.at = main.at /\ main'.cursor = main.cursor
      /\ main'.mode = main.mode /\ main'.session = main.session /\ main'.idle = main.idle
    <2>1. CASE RefreshIsDue
        BY <1>1, <2>1 DEF RefreshIsDue, Main
    <2>2. ASSUME NEW call, RetryIsDue(call)
          PROVE  main' \in Main /\ main'.at = main.at /\ main'.cursor = main.cursor
                 /\ main'.mode = main.mode /\ main'.session = main.session /\ main'.idle = main.idle
        <3>1. main.backoff \ {call} \in SUBSET {"register", "poll"}
            BY <1>1 DEF Main
        <3>. QED
            BY <1>1, <2>2, <3>1 DEF RetryIsDue, Main
    <2>. QED
        BY <2>1, <2>2
<1>3. TypeOK'
    BY <1>1, <1>2, DisturbedTyped DEF Inv, TypeOK, OnlyMain, queueVars, strayVars, Queue!TypeOK
<1>4. QueueOK' /\ ClaimsOK' /\ SlotWorksOnWhatItHolds' /\ StraysOK'
    BY <1>1 DEF Inv, OnlyMain, queueVars, strayVars, QueueOK, ClaimsOK, SlotWorksOnWhatItHolds,
       StraysOK, Busy
<1>5. LeadsOK'
    BY <1>1, <1>2 DEF Inv, OnlyMain, LeadsOK, Started
<1>6. EndsOK' /\ CachesOK'
    BY <1>1 DEF Inv, OnlyMain, EndsOK, CachesOK, Owns, Key
<1>7. ReportsOK'
    BY <1>1 DEF Inv, OnlyMain, queueVars, ReportsOK, Started, Settled, Current, Busy
<1>8. SessionOK' /\ PendingOK'
    BY <1>1, <1>2 DEF Inv, SessionOK, PendingOK, OnlyMain, Pending, Started, Busy
<1>. QED
    BY <1>3, <1>4, <1>5, <1>6, <1>7, <1>8 DEF Inv

-----------------------------------------------------------------------------
(* Calls about a claim. *)

LEMMA FailureDrops ==
    ASSUME Inv, NEW s \in Slots, Fails(s) \/ Completes(s) \/ UNCHANGED queueVars
    PROVE  QueueTyped' /\ Drops
<1>1. QueueTyped
    BY DEF Inv, TypeOK, QueueTyped
<1>2. CASE UNCHANGED queueVars
    BY <1>1, <1>2, QueueKept
<1>3. CASE Fails(s) \/ Completes(s)
    <2>. DEFINE j == slot[s].job
    <2>1. j \in Jobs
        BY <1>3, ModalDispatcherAssumption DEF Inv, TypeOK, Claim, Fails, Completes, Current, Busy
    <2>2. {j} \in SUBSET Jobs /\ {} \in SUBSET Jobs
        BY <2>1
    <2>3. Queue!Release({j}, {}) \/ Queue!Release({}, {j})
        BY <1>3 DEF Fails, Completes
    <2>. HIDE DEF j
    <2>. QED
        BY <1>1, <2>2, <2>3, QueueReleases
<1>. QED
    BY <1>2, <1>3

LEMMA SendsFailureDrops ==
    ASSUME Inv, NEW s \in Slots, SendsFailure(s) \/ SendsNothing
    PROVE  /\ QueueTyped' /\ Drops
           /\ disturbed' \in 0..MaxDisturbances
           /\ sent' \in [Slots -> BOOLEAN]
           /\ \A t \in Slots : sent[t] => sent'[t]
           /\ SendsFailure(s) => sent'[s]
<1>1. QueueTyped' /\ Drops
    BY FailureDrops DEF SendsFailure, SendsNothing, Served, Refused, Lost
<1>2. Disturbs \/ Undisturbed
    BY DEF SendsFailure, SendsNothing, Served, Refused, Lost, Undisturbed
<1>3. disturbed' \in 0..MaxDisturbances
    BY <1>2, DisturbedTyped DEF Inv
<1>4. sent \in [Slots -> BOOLEAN]
    BY DEF Inv, TypeOK
<1>5. CASE SendsNothing
    BY <1>1, <1>3, <1>4, <1>5 DEF SendsNothing, SendsFailure, Sends
<1>6. CASE SendsFailure(s)
    <2>1. sent' = [sent EXCEPT ![s] = TRUE]
        BY <1>6 DEF SendsFailure, Sends
    <2>. QED
        BY <1>1, <1>3, <1>4, <2>1
<1>. QED
    BY <1>5, <1>6

\* What a slot holds and what it has settled survive whatever takes jobs away.
LEMMA ClaimsStay ==
    ASSUME Inv, Drops, slot' = slot, UNCHANGED strayVars
    PROVE  ClaimsOK' /\ SlotWorksOnWhatItHolds' /\ StraysOK'
<1>1. \A s \in Slots : Busy(s) => slot[s].job \in Jobs
    BY DEF Inv, TypeOK, Claim, Busy
<1>. QED
    BY <1>1, Numbers DEF Inv, Drops, strayVars, ClaimsOK, SlotWorksOnWhatItHolds, StraysOK, Busy

LEMMA SettledStays ==
    ASSUME Inv, Drops, NEW s \in Slots, slot'[s] = slot[s], sent[s] => sent'[s], Settled(s)
    PROVE  Settled(s)'
<1>1. Busy(s) => slot[s].job \in Jobs
    BY DEF Inv, TypeOK, Claim, Busy
<1>. QED
    BY <1>1, Numbers DEF Drops, Settled, Current, Busy

-----------------------------------------------------------------------------
(* Steps of the orchestrator, and of what surrounds the dispatcher. *)

LEMMA OutsideMoves ==
    ASSUME Inv, QueueTyped', Drops, DispatcherIdles, demand' \in 0..MaxSlots,
           Disturbs \/ Undisturbed
    PROVE  Inv'
<1>. USE DEF DispatcherIdles, DispatcherSame
<1>1. TypeOK'
    BY DisturbedTyped DEF Inv, TypeOK, QueueTyped, strayVars
<1>2. QueueOK' /\ ClaimsOK' /\ SlotWorksOnWhatItHolds' /\ StraysOK'
    BY ClaimsStay DEF QueueTyped
<1>3. LeadsOK' /\ EndsOK' /\ CachesOK'
    BY DEF Inv, LeadsOK, EndsOK, CachesOK, Started, Owns, Key
<1>4. SessionOK' /\ PendingOK'
    BY DEF Inv, SessionOK, PendingOK, Pending, Started, Busy
<1>5. ReportsOK'
    <2>1. \A s \in Slots : Settled(s) => Settled(s)'
        BY SettledStays
    <2>. QED
        BY <2>1 DEF Inv, ReportsOK, Started
<1>. QED
    BY <1>1, <1>2, <1>3, <1>4, <1>5 DEF Inv

LEMMA OrchestratorKept ==
    ASSUME Inv,
           \/ \E j \in Jobs : JobSubmitted(j) \/ LeaseRunsOut(j) \/ JobCancelled(j)
           \/ \E n \in 0..MaxSlots : DemandChanges(n)
    PROVE  Inv'
<1>1. QueueTyped /\ demand \in 0..MaxSlots
    BY DEF Inv, TypeOK, QueueTyped
<1>2. ASSUME NEW j \in Jobs, JobSubmitted(j) \/ LeaseRunsOut(j) \/ JobCancelled(j)
      PROVE  Inv'
    <2>1. {j} \in SUBSET Jobs /\ {} \in SUBSET Jobs
        OBVIOUS
    <2>2. Queue!Submit(j) \/ Queue!Release({j}, {}) \/ Queue!Release({}, {j})
        BY <1>2 DEF JobSubmitted, LeaseRunsOut, JobCancelled
    <2>3. QueueTyped' /\ Drops
        BY <1>1, <2>1, <2>2, QueueSubmits, QueueReleases
    <2>4. (Disturbs \/ Undisturbed) /\ demand' = demand /\ DispatcherIdles
        BY <1>2 DEF JobSubmitted, LeaseRunsOut, JobCancelled, Undisturbed
    <2>. QED
        BY <1>1, <2>3, <2>4, OutsideMoves
<1>3. ASSUME NEW n \in 0..MaxSlots, DemandChanges(n)
      PROVE  Inv'
    <2>1. QueueTyped' /\ Drops
        BY <1>1, <1>3, QueueKept DEF DemandChanges
    <2>2. (Disturbs \/ Undisturbed) /\ demand' \in 0..MaxSlots /\ DispatcherIdles
        BY <1>3 DEF DemandChanges
    <2>. QED
        BY <2>1, <2>2, OutsideMoves
<1>. QED
    BY <1>2, <1>3

-----------------------------------------------------------------------------
(* Steps of a thread. *)

LEMMA ThreadMoves ==
    ASSUME Inv, ThreadStep, QueueTyped', Drops, disturbed' \in 0..MaxDisturbances,
           sent' \in [Slots -> BOOLEAN], warm' \subseteq Keys,
           warming' \in [Keys -> Ends \cup {"none", "open"}],
           thread' \in [Slots -> Thread],
           \A l \in Slots : /\ thread'[l].at = "none" <=> thread[l].at = "none"
                            /\ thread[l].at = "over" => thread'[l].at = "over",
           EndsOK', CachesOK', ReportsOK'
    PROVE  Inv'
<1>. USE DEF ThreadStep
<1>1. TypeOK'
    BY DEF Inv, TypeOK, QueueTyped, strayVars
<1>2. QueueOK' /\ ClaimsOK' /\ SlotWorksOnWhatItHolds' /\ StraysOK'
    BY ClaimsStay DEF QueueTyped
<1>3. LeadsOK'
    <2>1. \A s \in Slots : Started(s) => slot[s].lead \in Slots
        BY DEF Inv, TypeOK, Claim, Started
    <2>2. ASSUME NEW s \in Slots, Started(s)
          PROVE  LET l == slot[s].lead
                 IN  /\ l <= s
                     /\ thread'[l].at # "none"
                     /\ \/ slot[l].lead = l
                        \/ main.at = "collect" /\ s >= main.cursor /\ thread'[l].at = "over"
                     /\ KeyOf[slot[s].job] # NoKey => slot[s].job \in NeedsModal
        BY <2>1, <2>2 DEF Inv, LeadsOK
    <2>3. \A l \in Slots : thread'[l].at \notin {"none", "over"} => slot[l].lead = l
        BY DEF Inv, LeadsOK
    <2>4. \A l \in Slots : thread'[l].at = "over" => \E s \in Slots : slot[s].lead = l
        BY DEF Inv, LeadsOK
    <2>. QED
        BY <2>2, <2>3, <2>4 DEF LeadsOK, Started
<1>4. SessionOK' /\ PendingOK'
    BY DEF Inv, SessionOK, PendingOK, Pending, Started, Busy
<1>. QED
    BY <1>1, <1>2, <1>3, <1>4 DEF Inv

\* What a thread that goes on unchanged has said.
LEMMA ReportsStay ==
    ASSUME Inv, Drops, slot' = slot, \A t \in Slots : sent[t] => sent'[t],
           \A t \in Slots : Started(t) =>
              LET m == thread'[slot[t].lead]
              IN  \/ m = thread[slot[t].lead]
                  \/ m.at \notin {"warmed", "set", "over"}
                  \/ /\ (m.at = "over" /\ m.end = "ok") => Settled(t)'
                     /\ (m.end = "reported" /\ slot[t].lead = t) => Settled(t)'
    PROVE  ReportsOK'
<1>1. \A t \in Slots : Settled(t) => Settled(t)'
    BY SettledStays
<1>. QED
    BY <1>1 DEF Inv, ReportsOK, Started

\* A thread that is not over has its own slot, and its job's dataset.
LEMMA ThreadHasKey ==
    ASSUME Inv, NEW s \in Slots, thread[s].at \notin {"none", "over"}
    PROVE  slot[s].lead = s /\ Started(s) /\ Busy(s) /\ Key(s) \in Keys \cup {NoKey}
<1>1. slot[s].lead = s /\ Started(s)
    BY Numbers DEF Inv, LeadsOK, Started
<1>2. Busy(s)
    BY <1>1 DEF Inv, ClaimsOK, Free, Started
<1>3. slot[s].job \in Jobs
    BY <1>2 DEF Inv, TypeOK, Claim, Busy
<1>. QED
    BY <1>1, <1>2, <1>3, ModalDispatcherAssumption DEF Key

LEMMA EnsureKept ==
    ASSUME Inv, NEW s \in Slots, EnsureCacheWarm(s)
    PROVE  Inv'
<1>. USE DEF EnsureCacheWarm
<1>1. Key(s) \in Keys \cup {NoKey} /\ slot' = slot
    BY ThreadHasKey DEF ThreadStep
<1>2. /\ QueueTyped' /\ Drops /\ disturbed' \in 0..MaxDisturbances
      /\ sent' \in [Slots -> BOOLEAN] /\ \A t \in Slots : sent[t] => sent'[t]
      /\ warm' \subseteq Keys
    BY SendsFailureDrops DEF Inv, TypeOK
<1>3. /\ thread \in [Slots -> Thread]
      /\ warming \in [Keys -> Ends \cup {"none", "open"}]
    BY DEF Inv, TypeOK
<1>4. \A k : Key(s)' = Key(s) /\ \A t \in Slots : Key(t)' = Key(t)
    BY <1>1 DEF Key
<1>5. PICK at \in {"run", "warming", "wait", "woken"}, end \in Ends \cup {"none"} :
         /\ thread' = [thread EXCEPT ![s] = [at |-> at, end |-> end]]
         /\ warming' = IF at = "warming" THEN [warming EXCEPT ![Key(s)] = "open"] ELSE warming
         /\ at = "warming" => Key(s) \in Keys /\ Key(s) \notin warm /\ warming[Key(s)] = "none"
         /\ at = "wait" => Key(s) \in Keys /\ warming[Key(s)] = "open"
         /\ at = "woken" => end \in Ends
    BY <1>1, <1>3 DEF ThreadGoes, Finds, Ends
<1>6. thread' \in [Slots -> Thread] /\ warming' \in [Keys -> Ends \cup {"none", "open"}]
    BY <1>3, <1>5 DEF Thread
<1>7. EndsOK'
    BY <1>3, <1>5 DEF Inv, EndsOK
<1>8. CachesOK'
    BY <1>1, <1>3, <1>4, <1>5 DEF Inv, CachesOK, Owns
<1>9. ReportsOK'
    BY <1>1, <1>2, <1>3, <1>5, ReportsStay
<1>. QED
    BY <1>2, <1>3, <1>5, <1>6, <1>7, <1>8, <1>9, ThreadMoves

LEMMA MaterializeKept ==
    ASSUME Inv, NEW s \in Slots, Materialize(s)
    PROVE  Inv'
<1>. USE DEF Materialize
<1>1. slot' = slot /\ Key(s) \in Keys /\ warming' = warming
    BY DEF ThreadStep, Inv, CachesOK
<1>2. SendsNothing \/ SendsFailure(s)
    BY DEF SendsFailure
<1>3. /\ QueueTyped' /\ Drops /\ disturbed' \in 0..MaxDisturbances
      /\ sent' \in [Slots -> BOOLEAN] /\ \A t \in Slots : sent[t] => sent'[t]
    BY <1>2, SendsFailureDrops
<1>4. /\ thread \in [Slots -> Thread]
      /\ warming \in [Keys -> Ends \cup {"none", "open"}] /\ warm \subseteq Keys
    BY DEF Inv, TypeOK
<1>5. \A t \in Slots : Key(t)' = Key(t)
    BY <1>1 DEF Key
<1>6. PICK end \in Ends :
         /\ thread' = [thread EXCEPT ![s] = [at |-> "warmed", end |-> end]]
         /\ warm' \in {warm, warm \cup {Key(s)}}
         /\ end = "reported" => Sends(s)
    BY DEF ThreadGoes, Ends
<1>7. thread' \in [Slots -> Thread] /\ warm' \subseteq Keys
    BY <1>1, <1>4, <1>6 DEF Thread
<1>8. EndsOK'
    BY <1>4, <1>6 DEF Inv, EndsOK
<1>9. CachesOK'
    BY <1>1, <1>4, <1>5, <1>6 DEF Inv, CachesOK, Owns
<1>10. ReportsOK'
    <2>1. (thread'[s].end = "reported") => Settled(s)'
        BY <1>4, <1>6 DEF Sends, Settled, Inv, TypeOK
    <2>. QED
        BY <1>1, <1>3, <1>4, <1>6, <2>1, ReportsStay
<1>. QED
    BY <1>1, <1>3, <1>4, <1>6, <1>7, <1>8, <1>9, <1>10, ThreadMoves

LEMMA SetEventKept ==
    ASSUME Inv, NEW s \in Slots, SetEvent(s)
    PROVE  Inv'
<1>. USE DEF SetEvent
<1>1. slot' = slot /\ warm' = warm /\ Key(s) \in Keys /\ thread[s].end \in Ends
    BY DEF ThreadStep, Inv, CachesOK, EndsOK
<1>2. /\ QueueTyped' /\ Drops /\ disturbed' \in 0..MaxDisturbances
      /\ sent' \in [Slots -> BOOLEAN] /\ \A t \in Slots : sent[t] => sent'[t]
    BY SendsFailureDrops
<1>3. /\ thread \in [Slots -> Thread]
      /\ warming \in [Keys -> Ends \cup {"none", "open"}] /\ warm \subseteq Keys
    BY DEF Inv, TypeOK
<1>4. \A t \in Slots : Key(t)' = Key(t)
    BY <1>1 DEF Key
<1>5. /\ thread'[s] = [thread[s] EXCEPT !.at = "set"]
      /\ \A t \in Slots \ {s} :
            thread'[t] = IF Wakes(s, t) THEN [at |-> "woken", end |-> thread[s].end] ELSE thread[t]
    <2>. DEFINE next(t) == CASE t = s       -> [thread[t] EXCEPT !.at = "set"]
                             [] Wakes(s, t) -> [at |-> "woken", end |-> thread[s].end]
                             [] OTHER       -> thread[t]
    <2>1. \A t \in Slots : thread'[t] = next(t)
        <3>1. thread' = [t \in Slots |-> next(t)]
            OBVIOUS
        <3>. HIDE DEF next
        <3>. QED
            BY <3>1
    <2>2. next(s) = [thread[s] EXCEPT !.at = "set"]
        <3>1. ~ Wakes(s, s)
            BY DEF Wakes
        <3>. QED
            BY <3>1
    <2>3. \A t \in Slots \ {s} :
             next(t) = IF Wakes(s, t) THEN [at |-> "woken", end |-> thread[s].end] ELSE thread[t]
        OBVIOUS
    <2>. HIDE DEF next
    <2>. QED
        BY <2>1, <2>2, <2>3
<1>6. thread'[s].at = "set" /\ thread'[s].end = thread[s].end
    BY <1>3, <1>5 DEF Thread
<1>7. thread' \in [Slots -> Thread] /\ warming' \in [Keys -> Ends \cup {"none", "open"}]
    <2>1. \A t \in Slots : thread'[t] \in Thread
        BY <1>1, <1>3, <1>5 DEF Thread
    <2>2. thread' = [t \in Slots |-> thread'[t]]
        <3>. HIDE DEF Wakes
        <3>. QED
            OBVIOUS
    <2>. QED
        BY <1>1, <1>3, <2>1, <2>2
<1>8. EndsOK'
    BY <1>1, <1>5, <1>6 DEF Inv, EndsOK
<1>9. CachesOK'
    <2>1. warming'[Key(s)] \notin {"none", "open"}
          /\ \A k \in Keys : k # Key(s) => warming'[k] = warming[k]
        BY <1>1, <1>3 DEF Ends
    <2>2. \A t \in Slots \ {s} : \/ thread'[t] = thread[t] /\ ~ Wakes(s, t)
                                 \/ thread'[t].at = "woken"
        BY <1>5
    <2>3. \A l \in Slots, k \in Keys : Owns(l, k)' => Owns(l, k)
        BY <1>4, <1>6, <2>2 DEF Owns
    <2>4. \A l \in Slots : l # s /\ thread[l].at \in {"warming", "warmed", "set"} => Key(l) # Key(s)
        BY <1>1 DEF Inv, CachesOK, Owns
    <2>5. \A k \in Keys : warming'[k] = "open" =>
             \E l \in Slots : thread'[l].at \in {"warming", "warmed"} /\ Key(l) = k
        <3>. SUFFICES ASSUME NEW k \in Keys, warming'[k] = "open"
                      PROVE  \E l \in Slots : thread'[l].at \in {"warming", "warmed"} /\ Key(l) = k
            OBVIOUS
        <3>1. k # Key(s) /\ warming[k] = "open"
            BY <2>1
        <3>2. PICK l \in Slots : thread[l].at \in {"warming", "warmed"} /\ Key(l) = k
            BY <3>1 DEF Inv, CachesOK
        <3>3. l # s /\ thread'[l] = thread[l]
            BY <3>1, <3>2, <1>5 DEF Wakes
        <3>. QED
            BY <3>2, <3>3
    <2>6. \A l \in Slots : thread'[l].at = "wait" => thread[l].at = "wait" /\ Key(l) # Key(s)
        BY <1>6, <2>2 DEF Wakes
    <2>7. \A l \in Slots : thread'[l].at \in {"warming", "warmed"} =>
             thread[l].at = thread'[l].at /\ Key(l) # Key(s)
        BY <1>6, <2>2, <2>4
    <2>8. \A l \in Slots : thread'[l].at = "set" =>
             Key(l) = Key(s) \/ (thread[l].at = "set" /\ Key(l) # Key(s))
        BY <1>6, <2>2
    <2>9. \A l \in Slots : thread'[l].at \in {"warming", "warmed", "set", "wait"} => Key(l) \in Keys
        BY <1>1, <1>6, <2>2 DEF Inv, CachesOK
    <2>10. \A l \in Slots, k \in Keys : Owns(l, k)' => warming'[k] # "none"
        BY <2>1, <2>3 DEF Inv, CachesOK
    <2>11. \A l, m \in Slots, k \in Keys : (Owns(l, k)' /\ Owns(m, k)') => l = m
        BY <2>3 DEF Inv, CachesOK
    <2>12. \A l \in Slots : /\ thread'[l].at \in {"warming", "warmed"} => warming'[Key(l)] = "open"
                            /\ thread'[l].at = "set" => warming'[Key(l)] # "open"
                            /\ thread'[l].at = "wait" => warming'[Key(l)] = "open"
                            /\ thread'[l].at = "warming" => Key(l) \notin warm
        BY <2>1, <2>6, <2>7, <2>8, <2>9 DEF Inv, CachesOK
    <2>. QED
        BY <1>1, <1>4, <2>5, <2>9, <2>10, <2>11, <2>12 DEF CachesOK
<1>10. ReportsOK'
    <2>1. (thread[s].end = "reported") => Settled(s)'
        BY <1>1, <1>2, ThreadHasKey, SettledStays DEF Inv, ReportsOK
    <2>2. \A t \in Slots : Started(t) => slot[t].lead \in Slots
        BY DEF Inv, TypeOK, Claim, Started
    <2>. QED
        BY <1>1, <1>2, <1>5, <1>6, <2>1, <2>2, ReportsStay
<1>11. \A l \in Slots : /\ thread'[l].at = "none" <=> thread[l].at = "none"
                        /\ thread[l].at = "over" => thread'[l].at = "over"
    BY <1>5, <1>6 DEF Wakes
<1>. QED
    BY <1>1, <1>2, <1>3, <1>7, <1>8, <1>9, <1>10, <1>11, ThreadMoves

LEMMA PopWarmingKept ==
    ASSUME Inv, NEW s \in Slots, PopWarming(s)
    PROVE  Inv'
<1>. USE DEF PopWarming
<1>1. /\ slot' = slot /\ warm' = warm /\ Key(s) \in Keys /\ thread[s].end \in Ends
      /\ warming[Key(s)] # "open"
    BY DEF ThreadStep, Inv, CachesOK, EndsOK
<1>2. /\ QueueTyped' /\ Drops /\ disturbed' \in 0..MaxDisturbances
      /\ sent' \in [Slots -> BOOLEAN] /\ \A t \in Slots : sent[t] => sent'[t]
    BY SendsFailureDrops
<1>3. /\ thread \in [Slots -> Thread]
      /\ warming \in [Keys -> Ends \cup {"none", "open"}] /\ warm \subseteq Keys
    BY DEF Inv, TypeOK
<1>4. \A t \in Slots : Key(t)' = Key(t)
    BY <1>1 DEF Key
<1>5. PICK at \in {"run", "over"}, end \in Ends \cup {"none"} :
         /\ thread' = [thread EXCEPT ![s] = [at |-> at, end |-> end]]
         /\ at = "over" => end = thread[s].end /\ end # "ok"
    BY <1>1 DEF ThreadGoes
<1>6. thread' \in [Slots -> Thread] /\ warming' \in [Keys -> Ends \cup {"none", "open"}]
    BY <1>3, <1>5 DEF Thread
<1>7. EndsOK'
    BY <1>1, <1>3, <1>5 DEF Inv, EndsOK
<1>8. CachesOK'
    <2>1. \A l \in Slots, k \in Keys : Owns(l, k)' => Owns(l, k) /\ k # Key(s)
        BY <1>3, <1>4, <1>5 DEF Inv, CachesOK, Owns
    <2>2. \A l \in Slots : thread'[l].at \in {"warming", "warmed", "set", "wait"} =>
             thread[l] = thread'[l] /\ Key(l) # Key(s)
        BY <1>1, <1>3, <1>5 DEF Inv, CachesOK, Owns
    <2>3. \A k \in Keys : warming'[k] = IF k = Key(s) THEN "none" ELSE warming[k]
        BY <1>3
    <2>. QED
        BY <1>1, <1>3, <1>4, <1>5, <2>1, <2>2, <2>3 DEF Inv, CachesOK
<1>9. ReportsOK'
    <2>1. (thread[s].end = "reported") => Settled(s)'
        BY <1>1, <1>2, ThreadHasKey, SettledStays DEF Inv, ReportsOK
    <2>2. \A t \in Slots : Started(t) => slot[t].lead \in Slots
        BY DEF Inv, TypeOK, Claim, Started
    <2>. QED
        BY <1>1, <1>2, <1>3, <1>5, <2>1, <2>2, ReportsStay
<1>. QED
    BY <1>1, <1>2, <1>3, <1>5, <1>6, <1>7, <1>8, <1>9, ThreadMoves

LEMMA WaiterWakesKept ==
    ASSUME Inv, NEW s \in Slots, WaiterWakes(s)
    PROVE  Inv'
<1>. USE DEF WaiterWakes
<1>1. slot' = slot /\ warm' = warm /\ warming' = warming /\ thread[s].end \in Ends
    BY DEF ThreadStep, Inv, EndsOK
<1>2. /\ QueueTyped' /\ Drops /\ disturbed' \in 0..MaxDisturbances
      /\ sent' \in [Slots -> BOOLEAN] /\ \A t \in Slots : sent[t] => sent'[t]
      /\ thread[s].end = "reported" => sent'[s]
    BY SendsFailureDrops DEF WaiterReports
<1>3. /\ thread \in [Slots -> Thread]
      /\ warming \in [Keys -> Ends \cup {"none", "open"}] /\ warm \subseteq Keys
    BY DEF Inv, TypeOK
<1>4. \A t \in Slots : Key(t)' = Key(t)
    BY <1>1 DEF Key
<1>5. PICK at \in {"run", "over"}, end \in Ends \cup {"none"} :
         /\ thread' = [thread EXCEPT ![s] = [at |-> at, end |-> end]]
         /\ at = "over" => end = thread[s].end /\ end # "ok"
    BY <1>1 DEF ThreadGoes
<1>6. thread' \in [Slots -> Thread]
    BY <1>3, <1>5 DEF Thread
<1>7. EndsOK'
    BY <1>1, <1>3, <1>5 DEF Inv, EndsOK
<1>8. CachesOK'
    BY <1>1, <1>3, <1>4, <1>5 DEF Inv, CachesOK, Owns
<1>9. ReportsOK'
    <2>1. (thread[s].end = "reported") => Settled(s)'
        BY <1>2 DEF Settled
    <2>2. \A t \in Slots : Started(t) => slot[t].lead \in Slots
        BY DEF Inv, TypeOK, Claim, Started
    <2>. QED
        BY <1>1, <1>2, <1>3, <1>5, <2>1, <2>2, ReportsStay
<1>. QED
    BY <1>1, <1>2, <1>3, <1>5, <1>6, <1>7, <1>8, <1>9, ThreadMoves

LEMMA RunnerTellsKept ==
    ASSUME Inv, NEW s \in Slots, NEW t \in Slots, RunnerTells(s, t)
    PROVE  Inv'
<1>. USE DEF RunnerTells
<1>1. slot' = slot /\ warm' = warm /\ warming' = warming /\ thread' = thread
    BY DEF ThreadStep
<1>2. QueueTyped' /\ Drops /\ disturbed' \in 0..MaxDisturbances
    BY FailureDrops, DisturbedTyped DEF Inv
<1>3. sent' \in [Slots -> BOOLEAN] /\ \A u \in Slots : sent[u] => sent'[u]
    BY DEF Inv, TypeOK
<1>4. thread' \in [Slots -> Thread] /\ warm' \subseteq Keys
      /\ warming' \in [Keys -> Ends \cup {"none", "open"}]
    BY <1>1 DEF Inv, TypeOK
<1>5. EndsOK' /\ CachesOK'
    BY <1>1 DEF Inv, EndsOK, CachesOK, Owns, Key
<1>6. ReportsOK'
    BY <1>1, <1>2, <1>3, ReportsStay
<1>. QED
    BY <1>1, <1>2, <1>3, <1>4, <1>5, <1>6, ThreadMoves

LEMMA RunnerEndsKept ==
    ASSUME Inv, NEW s \in Slots, RunnerEnds(s)
    PROVE  Inv'
<1>. USE DEF RunnerEnds
<1>1. slot' = slot /\ warm' = warm /\ warming' = warming
    BY DEF ThreadStep
<1>2. /\ QueueTyped' /\ Drops /\ disturbed' \in 0..MaxDisturbances
      /\ sent' \in [Slots -> BOOLEAN] /\ \A t \in Slots : sent[t] => sent'[t]
    BY SendsFailureDrops
<1>3. /\ thread \in [Slots -> Thread]
      /\ warming \in [Keys -> Ends \cup {"none", "open"}] /\ warm \subseteq Keys
    BY DEF Inv, TypeOK
<1>4. \A t \in Slots : Key(t)' = Key(t)
    BY <1>1 DEF Key
<1>5. PICK end \in {"ok", "raised"} :
         /\ thread' = [thread EXCEPT ![s] = [at |-> "over", end |-> end]]
         /\ end = "ok" => \A t \in Batch(s) : Settled(t)
    BY DEF ThreadGoes, Settled
<1>6. thread' \in [Slots -> Thread]
    BY <1>3, <1>5 DEF Thread, Ends
<1>7. EndsOK'
    BY <1>3, <1>5 DEF Inv, EndsOK, Ends
<1>8. CachesOK'
    BY <1>1, <1>3, <1>4, <1>5 DEF Inv, CachesOK, Owns
<1>9. ReportsOK'
    <2>1. \A t \in Slots : Settled(t) => Settled(t)'
        BY <1>1, <1>2, SettledStays
    <2>2. \A t \in Slots : Started(t) => slot[t].lead \in Slots
        BY DEF Inv, TypeOK, Claim, Started
    <2>. QED
        BY <1>1, <1>2, <1>3, <1>5, <2>1, <2>2, ReportsStay DEF Batch
<1>. QED
    BY <1>1, <1>2, <1>3, <1>5, <1>6, <1>7, <1>8, <1>9, ThreadMoves

LEMMA ThreadKept ==
    ASSUME Inv, NEW s \in Slots, JobThread(s)
    PROVE  Inv'
    BY EnsureKept, MaterializeKept, SetEventKept, PopWarmingKept, WaiterWakesKept,
       RunnerTellsKept, RunnerEndsKept DEF JobThread

-----------------------------------------------------------------------------
(* Collecting, claiming and starting. *)

LEMMA CollectKept ==
    ASSUME Inv, NEW s \in Slots, CollectFinishedSlot(s)
    PROVE  Inv'
<1>. DEFINE l == slot[s].lead
<1>1. /\ SendsFailure(s) \/ SendsNothing
      /\ main.at = "collect" /\ Started(s) /\ s >= main.cursor
      /\ thread[l].at = "over"
      /\ thread[l].end = "raised" => SendsFailure(s)
      /\ slot' = [slot EXCEPT ![s] = Free]
      /\ thread' = [thread EXCEPT ![l] = IF Batch(l) = {s} THEN NoThread ELSE @]
      /\ demand' = demand /\ warm' = warm /\ warming' = warming
      /\ stray' = stray /\ overtaken' = overtaken \ {s}
    BY DEF CollectFinishedSlot, Reached, Finished, MainStep
<1>2. \A t \in Slots : (Started(t) /\ t >= main.cursor) => s <= t
    BY DEF CollectFinishedSlot, Reached
<1>3. /\ QueueTyped' /\ Drops /\ disturbed' \in 0..MaxDisturbances
      /\ sent' \in [Slots -> BOOLEAN] /\ \A t \in Slots : sent[t] => sent'[t]
    BY <1>1, SendsFailureDrops
<1>4. /\ main' \in Main /\ main'.at = "collect" /\ main'.cursor = s + 1
      /\ main'.mode = main.mode /\ main'.session = main.session /\ main'.idle = main.idle
    BY <1>1, Cursors DEF CollectFinishedSlot, Inv, TypeOK, Main
<1>5. /\ slot \in [Slots -> Claim] /\ thread \in [Slots -> Thread] /\ l \in Slots
    BY <1>1 DEF Inv, TypeOK, Claim, Started
<1>6. /\ slot'[s] = Free /\ \A t \in Slots : t # s => slot'[t] = slot[t]
      /\ \A m \in Slots : m # l => thread'[m] = thread[m]
      /\ thread'[l] = IF Batch(l) = {s} THEN NoThread ELSE thread[l]
    BY <1>1, <1>5
<1>. HIDE DEF l
<1>7. \A t \in Slots : Busy(t)' => t # s
    BY <1>6 DEF Busy, Free
<1>8. \A t \in Slots : Started(t)' => t # s /\ Started(t) /\ slot[t].lead \in Slots
    BY <1>5, <1>6 DEF Started, Free, Claim
<1>9. \A t \in Slots : Started(t)' => thread'[slot[t].lead] = thread[slot[t].lead]
    BY <1>6, <1>8 DEF Batch
<1>10. \A m \in Slots : thread'[m].at \notin {"none", "over"} =>
          m # s /\ m # l /\ thread'[m] = thread[m] /\ slot'[m] = slot[m]
    BY <1>1, <1>6 DEF Inv, LeadsOK, NoThread, l
<1>11. TypeOK'
    <2>1. slot' \in [Slots -> Claim]
        BY <1>1, <1>5, ModalDispatcherAssumption DEF Claim, Free
    <2>2. thread' \in [Slots -> Thread]
        BY <1>1, <1>5 DEF Thread, NoThread, l
    <2>. QED
        BY <1>1, <1>3, <1>4, <2>1, <2>2 DEF Inv, TypeOK, QueueTyped
<1>12. QueueOK' /\ ClaimsOK' /\ SlotWorksOnWhatItHolds' /\ StraysOK'
    <2>1. \A t \in Slots : Busy(t) => slot[t].job \in Jobs
        BY DEF Inv, TypeOK, Claim, Busy
    <2>2. ASSUME NEW t \in Slots, t # s
          PROVE  /\ Busy(t)' <=> Busy(t)
                 /\ slot'[t] = slot[t]
        BY <1>6, <2>2 DEF Busy
    <2>3. ClaimsOK'
        <3>1. ~ Busy(s)' /\ slot'[s] = Free
            BY <1>6, <1>7
        <3>. QED
            BY <1>3, <2>1, <2>2, <3>1 DEF Inv, Drops, ClaimsOK
    <2>4. SlotWorksOnWhatItHolds'
        <3>. SUFFICES ASSUME NEW t \in Slots, NEW i \in Jobs, holder'[i] = t, Busy(t)',
                             ~ (slot'[t].job = i /\ slot'[t].grant = grants'[i])
                      PROVE  /\ t \in overtaken'
                             /\ \A u \in Slots : slot'[u].job = i => slot'[u].grant # grants'[i]
            BY DEF SlotWorksOnWhatItHolds
        <3>1. t # s /\ Busy(t) /\ holder[i] = t /\ slot'[t] = slot[t] /\ grants' = grants
            BY <1>3, <1>7, <2>2, Numbers DEF Drops
        <3>2. /\ t \in overtaken
              /\ \A u \in Slots : slot[u].job = i => slot[u].grant # grants[i]
            BY <3>1 DEF Inv, SlotWorksOnWhatItHolds
        <3>3. \A u \in Slots : slot'[u].job = i => slot'[u] = slot[u]
            BY <1>6, ModalDispatcherAssumption DEF Free
        <3>. QED
            BY <1>1, <3>1, <3>2, <3>3
    <2>5. StraysOK'
        <3>1. \A t \in Slots : Busy(t)' => Busy(t)
            BY <1>7, <2>2
        <3>2. \A p \in StrayPoll : p.slot \in Slots
            BY DEF StrayPoll
        <3>3. \A t \in overtaken \ {s} : Busy(t)'
            BY <2>2 DEF Inv, TypeOK, StraysOK
        <3>. QED
            BY <1>1, <3>1, <3>2, <3>3 DEF Inv, StraysOK
    <2>. QED
        BY <1>3, <2>3, <2>4, <2>5 DEF QueueTyped
<1>13. LeadsOK'
    <2>1. ASSUME NEW t \in Slots, Started(t)'
          PROVE  LET m == slot'[t].lead
                 IN  /\ m <= t
                     /\ thread'[m].at # "none"
                     /\ \/ slot'[m].lead = m
                        \/ main'.at = "collect" /\ t >= main'.cursor /\ thread'[m].at = "over"
                     /\ KeyOf[slot'[t].job] # NoKey => slot'[t].job \in NeedsModal
        <3>. DEFINE m == slot[t].lead
        <3>1. t # s /\ Started(t) /\ m \in Slots /\ slot'[t] = slot[t] /\ thread'[m] = thread[m]
            BY <1>6, <1>8, <1>9, <2>1
        <3>2. /\ m <= t /\ thread[m].at # "none"
              /\ KeyOf[slot[t].job] # NoKey => slot[t].job \in NeedsModal
              /\ slot[m].lead = m \/ (t >= main.cursor /\ thread[m].at = "over")
            BY <3>1 DEF Inv, LeadsOK
        <3>3. t >= main.cursor => t >= s + 1
            BY <1>2, <3>1, Numbers
        <3>4. CASE m # s
            BY <1>4, <1>6, <3>1, <3>2, <3>3, <3>4
        <3>5. CASE m = s
            <4>1. t >= s + 1
                BY <3>1, <3>2, <3>5, Numbers
            <4>2. thread[m].at = "over"
                BY <1>1, <3>2, <3>5 DEF l
            <4>. QED
                BY <1>4, <3>1, <3>2, <4>1, <4>2
        <3>. QED
            BY <3>4, <3>5
    <2>2. \A m \in Slots : thread'[m].at \notin {"none", "over"} => slot'[m].lead = m
        BY <1>10 DEF Inv, LeadsOK
    <2>3. \A m \in Slots : thread'[m].at = "over" => \E t \in Slots : slot'[t].lead = m
        <3>1. ASSUME NEW m \in Slots, m # l, thread'[m].at = "over"
              PROVE  \E t \in Slots : slot'[t].lead = m
            <4>1. PICK t \in Slots : slot[t].lead = m
                BY <1>6, <3>1 DEF Inv, LeadsOK
            <4>. QED
                BY <1>6, <3>1, <4>1 DEF l
        <3>2. ASSUME thread'[l].at = "over"
              PROVE  \E t \in Slots : slot'[t].lead = l
            <4>1. Batch(l) # {s} /\ s \in Batch(l)
                BY <1>6, <3>2 DEF NoThread, Batch, l
            <4>2. PICK t \in Batch(l) : t # s
                BY <4>1
            <4>. QED
                BY <1>6, <4>2 DEF Batch
        <3>. QED
            BY <3>1, <3>2
    <2>. QED
        BY <2>1, <2>2, <2>3 DEF LeadsOK
<1>14. EndsOK'
    BY <1>5, <1>6 DEF Inv, EndsOK, NoThread
<1>15. CachesOK'
    <2>1. \A m \in Slots : thread'[m].at \notin {"none", "over"} =>
             thread'[m] = thread[m] /\ Key(m)' = Key(m)
        BY <1>10 DEF Key
    <2>2. \A m \in Slots : thread[m].at \notin {"none", "over"} =>
             thread'[m] = thread[m] /\ Key(m)' = Key(m)
        BY <1>1, <1>6 DEF Key, Inv, LeadsOK, l
    <2>3. \A m \in Slots, k \in Keys : Owns(m, k)' <=> Owns(m, k)
        BY <2>1, <2>2 DEF Owns
    <2>. QED
        BY <1>1, <2>1, <2>2, <2>3 DEF Inv, CachesOK
<1>16. SessionOK' /\ PendingOK'
    BY <1>1, <1>4, <1>6, <1>7, <1>8
    DEF Inv, SessionOK, PendingOK, Pending, Started, Busy
<1>17. ReportsOK'
    <2>1. \A t \in Slots : Started(t)' => Started(t) /\ slot'[t] = slot[t]
        BY <1>6, <1>8
    <2>2. \A t \in Slots : (Started(t)' /\ Settled(t)) => Settled(t)'
        BY <1>3, <2>1, SettledStays
    <2>. QED
        BY <1>9, <2>1, <2>2 DEF Inv, ReportsOK
<1>. QED
    BY <1>11, <1>12, <1>13, <1>14, <1>15, <1>16, <1>17 DEF Inv

\* A slot that polls is given the job its worker holds already, or a new one;
\* what the others hold and have settled stays as it is.
LEMMA GrantsGive ==
    ASSUME Inv, NEW s \in Slots, NEW j \in Jobs, Grants(s, j)
    PROVE  /\ QueueTyped'
           /\ holder'[j] = s
           /\ \A i \in Jobs : grants[i] <= grants'[i]
           /\ \A i \in Jobs : i # j => holder'[i] = holder[i] /\ grants'[i] = grants[i]
<1>1. QueueTyped
    BY DEF Inv, TypeOK, QueueTyped
<1>2. CASE holder[j] = s /\ UNCHANGED queueVars
    BY <1>1, <1>2, QueueKept DEF queueVars, QueueTyped, Queue!TypeOK
<1>3. CASE (\A i \in Jobs : holder[i] # s) /\ Queue!Grant(j, s)
    <2>1. /\ QueueTyped'
          /\ holder' = [holder EXCEPT ![j] = s]
          /\ grants' = [grants EXCEPT ![j] = @ + 1]
        BY <1>1, <1>3, QueueGrants
    <2>2. holder \in [Jobs -> Slots \cup {NoSlot}] /\ grants \in [Jobs -> 0..MaxAttempts]
        BY <1>1 DEF QueueTyped, Queue!TypeOK
    <2>. QED
        BY <2>1, <2>2, ModalDispatcherAssumption
<1>. QED
    BY <1>2, <1>3 DEF Grants

\* A slot that polls leads no thread, and has none.
LEMMA PollerIsFree ==
    ASSUME Inv, NEW s \in Slots, Polls(s)
    PROVE  /\ main.at = "poll" /\ ~ Busy(s) /\ ~ Started(s)
           /\ thread[s].at = "none" /\ \A t \in Slots : slot[t].lead # s
<1>1. main.at = "poll" /\ ~ Busy(s)
    BY DEF Polls, ToPoll
<1>2. ~ Started(s) /\ slot[s].lead # s
    BY <1>1, Numbers DEF Inv, ClaimsOK, Free, Started
<1>3. \A t \in Slots : slot[t].lead # s
    BY <1>1, <1>2, LeadersLead, Numbers DEF LeadsItself, Started
<1>. QED
    BY <1>1, <1>2, <1>3 DEF Inv, LeadsOK, TypeOK, Thread

LEMMA OthersSettled ==
    ASSUME Inv, NEW s \in Slots, NEW j \in Jobs, Grants(s, j),
           NEW t \in Slots, t # s, slot'[t] = slot[t], sent[t] => sent'[t], Settled(t)
    PROVE  Settled(t)'
<1>1. Busy(t) => slot[t].job \in Jobs
    BY DEF Inv, TypeOK, Claim, Busy
<1>. QED
    BY <1>1, GrantsGive DEF Settled, Current, Busy

\* Polls of a slot that takes a job grow old.
LEMMA OutrunsOK ==
    ASSUME stray \in [StrayPoll -> Nat], NEW s \in Slots, Outruns(s)
    PROVE  /\ stray' \in [StrayPoll -> Nat]
           /\ \A p \in StrayPoll : (stray'[p] > 0 /\ ~ p.late) => stray[p] > 0 /\ p.slot # s
<1>1. \A p \in StrayPoll : [p EXCEPT !.late = FALSE] \in StrayPoll
    BY DEF StrayPoll
<1>. QED
    BY <1>1 DEF Outruns

LEMMA PollAnswersKept ==
    ASSUME Inv, NEW s \in Slots, NEW j \in Jobs, PollAnswers(s, j)
    PROVE  Inv'
<1>1. /\ Polls(s) /\ Grants(s, j)
      /\ slot' = [slot EXCEPT ![s] = [job |-> j, grant |-> grants'[j], lead |-> NoSlot]]
      /\ sent' = [sent EXCEPT ![s] = FALSE]
      /\ main' = [main EXCEPT !.cursor = s + 1, !.idle = "no"]
      /\ thread' = thread /\ demand' = demand /\ warm' = warm /\ warming' = warming
      /\ Undisturbed /\ Outruns(s) /\ overtaken' = overtaken
    BY DEF PollAnswers, MainStep
<1>2. /\ main.at = "poll" /\ ~ Busy(s) /\ ~ Started(s)
      /\ thread[s].at = "none" /\ \A t \in Slots : slot[t].lead # s
    BY <1>1, PollerIsFree
<1>3. /\ QueueTyped' /\ holder'[j] = s
      /\ \A i \in Jobs : grants[i] <= grants'[i]
      /\ \A i \in Jobs : i # j => holder'[i] = holder[i] /\ grants'[i] = grants[i]
    BY <1>1, GrantsGive
<1>4. /\ main' \in Main /\ main'.at = "poll" /\ main'.idle = "no"
      /\ main'.mode = main.mode /\ main'.session = main.session
    BY <1>1, <1>2, Cursors DEF Inv, TypeOK, Main
<1>5. /\ slot \in [Slots -> Claim] /\ sent \in [Slots -> BOOLEAN]
      /\ grants'[j] \in 0..MaxAttempts /\ j # NoJob
    BY <1>3, ModalDispatcherAssumption DEF Inv, TypeOK, QueueTyped, Queue!TypeOK
<1>6. /\ slot'[s] = [job |-> j, grant |-> grants'[j], lead |-> NoSlot]
      /\ \A t \in Slots : t # s => slot'[t] = slot[t] /\ sent'[t] = sent[t]
    BY <1>1, <1>5
<1>7. \A t \in Slots : Started(t)' => t # s /\ Started(t)
    BY <1>6 DEF Started
<1>8. \A t \in Slots : t # s => (Busy(t)' <=> Busy(t))
    BY <1>6 DEF Busy
<1>9. \A t \in Slots : Busy(t) => slot[t].job \in Jobs
    BY DEF Inv, TypeOK, Claim, Busy
<1>10. TypeOK'
    <2>1. slot' \in [Slots -> Claim]
        BY <1>1, <1>5 DEF Claim
    <2>2. stray' \in [StrayPoll -> Nat]
        BY <1>1, OutrunsOK DEF Inv, TypeOK
    <2>. QED
        BY <1>1, <1>3, <1>4, <1>5, <2>1, <2>2, DisturbedTyped DEF Inv, TypeOK, QueueTyped
<1>11. ClaimsOK'
    <2>1. \A t \in Slots : Busy(t) => slot[t].grant \in Nat
        BY <1>5, ModalDispatcherAssumption DEF Claim
    <2>2. grants \in [Jobs -> 0..MaxAttempts] /\ grants' \in [Jobs -> 0..MaxAttempts]
        BY <1>3 DEF Inv, TypeOK, QueueTyped, Queue!TypeOK
    <2>3. \A t \in Slots : t # s =>
             (Busy(t) => slot[t].grant <= grants'[slot[t].job]) /\ (~ Busy(t) => slot[t] = Free)
        BY <1>3, <1>9, <2>1, <2>2, ModalDispatcherAssumption DEF Inv, ClaimsOK
    <2>4. Busy(s)' /\ slot'[s].grant = grants'[slot'[s].job]
        BY <1>5, <1>6 DEF Busy
    <2>5. grants'[slot'[s].job] <= grants'[slot'[s].job]
        BY <1>5, <1>6, ModalDispatcherAssumption
    <2>. QED
        BY <1>6, <1>8, <2>3, <2>4, <2>5 DEF ClaimsOK
<1>12. SlotWorksOnWhatItHolds' /\ StraysOK'
    <2>1. ASSUME NEW t \in Slots, NEW i \in Jobs, holder'[i] = t, Busy(t)'
          PROVE  \/ slot'[t].job = i /\ slot'[t].grant = grants'[i]
                 \/ /\ t \in overtaken'
                    /\ \A u \in Slots : slot'[u].job = i => slot'[u].grant # grants'[i]
        <3>1. CASE t = s
            <4>1. i = j
                BY <1>3, <2>1, <3>1, Numbers DEF QueueTyped, QueueOK
            <4>. QED
                BY <1>6, <3>1, <4>1
        <3>2. CASE t # s
            <4>1. /\ i # j /\ holder[i] = t /\ grants'[i] = grants[i]
                  /\ Busy(t) /\ slot'[t] = slot[t]
                BY <1>3, <1>6, <1>8, <2>1, <3>2
            <4>2. \A u \in Slots : slot'[u].job = i => slot'[u] = slot[u]
                BY <1>6, <4>1
            <4>. QED
                BY <1>1, <4>1, <4>2 DEF Inv, SlotWorksOnWhatItHolds
        <3>. QED
            BY <3>1, <3>2
    <2>2. SlotWorksOnWhatItHolds'
        BY <2>1 DEF SlotWorksOnWhatItHolds
    <2>3. \A p \in StrayPoll : (stray'[p] > 0 /\ ~ p.late) => stray[p] > 0 /\ p.slot # s
        BY <1>1, OutrunsOK DEF Inv, TypeOK
    <2>4. \A p \in StrayPoll : p.slot \in Slots
        BY DEF StrayPoll
    <2>5. \A t \in overtaken : t \in Slots /\ t # s /\ Busy(t)'
        BY <1>2, <1>8 DEF Inv, TypeOK, StraysOK
    <2>6. StraysOK'
        BY <1>1, <1>8, <2>3, <2>4, <2>5 DEF Inv, StraysOK
    <2>. QED
        BY <2>2, <2>6
<1>13. LeadsOK'
    <2>1. \A t \in Slots : slot'[t].lead \in Slots => t # s /\ slot'[t] = slot[t] /\ slot[t].lead # s
        BY <1>2, <1>6, Numbers
    <2>2. \A t \in Slots : Started(t) => slot[t].lead \in Slots
        BY <1>5 DEF Claim, Started
    <2>3. LeadsItself
        BY <1>2, LeadersLead
    <2>4. \A t \in Slots : slot[t].lead \in Slots => t # s /\ slot'[t] = slot[t]
        BY <1>2, <1>6 DEF Started, NoSlot, Slots
    <2>. QED
        BY <1>1, <1>2, <1>6, <1>7, <2>1, <2>2, <2>3, <2>4 DEF Inv, LeadsOK, LeadsItself, Started
<1>14. EndsOK'
    BY <1>1 DEF Inv, EndsOK
<1>15. CachesOK'
    <2>1. \A m \in Slots : m # s => Key(m)' = Key(m)
        BY <1>6 DEF Key
    <2>2. \A m \in Slots, k \in Keys : Owns(m, k)' <=> Owns(m, k)
        BY <1>1, <1>2, <2>1 DEF Owns
    <2>. QED
        BY <1>1, <1>2, <2>1, <2>2 DEF Inv, CachesOK
<1>16. SessionOK' /\ PendingOK'
    <2>1. \A t \in Slots : t # s => (Pending(t)' <=> Pending(t))
        BY <1>6 DEF Pending, Busy, Started
    <2>. QED
        BY <1>2, <1>4, <1>6, <1>7, <1>8, <2>1 DEF Inv, SessionOK, PendingOK
<1>17. ReportsOK'
    <2>1. \A t \in Slots : (t # s /\ Settled(t)) => Settled(t)'
        BY <1>1, <1>6, OthersSettled
    <2>. QED
        BY <1>1, <1>6, <1>7, <2>1 DEF Inv, ReportsOK
<1>. QED
    BY <1>3, <1>10, <1>11, <1>12, <1>13, <1>14, <1>15, <1>16, <1>17 DEF Inv, QueueTyped

LEMMA PollFailsKept ==
    ASSUME Inv, NEW s \in Slots, PollFails(s)
    PROVE  Inv'
<1>. DEFINE fresh == [slot |-> s, training |-> main.required > 0, late |-> FALSE]
<1>1. /\ Polls(s) /\ Disturbs
      /\ main' = [Returns(main) EXCEPT !.backoff = @ \cup {"poll"}]
      /\ stray' = [stray EXCEPT ![fresh] = @ + 1]
      /\ UNCHANGED <<queueVars, demand, slot, thread, warm, warming, sent, overtaken>>
    BY DEF PollFails, MainStep
<1>2. main.at = "poll" /\ ~ Busy(s) /\ main.mode \in {"inner", "bare"} /\ main \in Main
    BY <1>1, PollerIsFree DEF Inv, SessionOK, TypeOK, Main
<1>3. /\ main' \in Main
      /\ main'.at = IF main.mode = "inner" THEN "exit" ELSE "end"
      /\ main'.mode = main.mode /\ main'.session = main.session /\ main'.idle = main.idle
    <2>1. Returns(main) \in Main /\ Returns(main).backoff = main.backoff
        BY <1>2, Cursors DEF Returns, Main
    <2>2. main.backoff \cup {"poll"} \in SUBSET {"register", "poll"}
        BY <1>2 DEF Main
    <2>3. main' \in Main
        BY <1>1, <2>1, <2>2 DEF Main
    <2>. QED
        BY <1>1, <1>2, <2>3 DEF Returns, Main
<1>4. LeadsItself
    BY <1>2, LeadersLead
<1>5. SessionOK'
    BY <1>1, <1>2, <1>3 DEF Inv, SessionOK, Started, Busy
<1>6. PendingOK'
    BY <1>1, <1>2, <1>3 DEF Inv, PendingOK, Pending, Started, Busy
<1>7. stray' \in [StrayPoll -> Nat] /\ StraysOK'
    <2>1. stray \in [StrayPoll -> Nat] /\ fresh \in StrayPoll /\ fresh.slot = s
        BY DEF Inv, TypeOK, StrayPoll
    <2>. HIDE DEF fresh
    <2>2. stray' \in [StrayPoll -> Nat] /\ \A p \in StrayPoll : p # fresh => stray'[p] = stray[p]
        BY <1>1, <2>1
    <2>. QED
        BY <1>1, <1>2, <2>1, <2>2 DEF Inv, StraysOK, Busy
<1>. QED
    BY <1>1, <1>3, <1>4, <1>5, <1>6, <1>7, MainAndStraysMove

\* A stray poll claims a new attempt, on which nobody works, behind a slot that
\* works on something older or on nothing.
LEMMA StrayGrantsKept ==
    ASSUME Inv, NEW p \in StrayPoll, StrayGrants(p),
           UNCHANGED <<demand, slot, thread, warm, warming, sent>>, Undisturbed,
           main' \in Main, LeadsOK', SessionOK', PendingOK'
    PROVE  Inv'
<1>. DEFINE s == p.slot
<1>1. /\ s \in Slots /\ stray[p] > 0 /\ stray' = [stray EXCEPT ![p] = @ - 1]
      /\ \A i \in Jobs : holder[i] # s
      /\ overtaken' = IF p.late /\ Busy(s) THEN overtaken \cup {s} ELSE overtaken
    BY DEF StrayGrants, StrayPoll
<1>2. PICK j \in Jobs : Queue!Grant(j, s)
    BY DEF StrayGrants
<1>3. QueueTyped /\ stray \in [StrayPoll -> Nat] /\ overtaken \subseteq Slots
    BY DEF Inv, TypeOK, QueueTyped
<1>. HIDE DEF s
<1>4. /\ QueueTyped'
      /\ holder' = [holder EXCEPT ![j] = s]
      /\ grants' = [grants EXCEPT ![j] = @ + 1]
    BY <1>1, <1>2, <1>3, QueueGrants
<1>5. /\ grants \in [Jobs -> Nat]
      /\ holder'[j] = s /\ grants'[j] = grants[j] + 1
      /\ \A i \in Jobs : i # j => holder'[i] = holder[i] /\ grants'[i] = grants[i]
    BY <1>3, <1>4, ModalDispatcherAssumption DEF QueueTyped, Queue!TypeOK
<1>6. \A t \in Slots : Busy(t) => slot[t].job \in Jobs /\ slot[t].grant \in Nat
    BY ModalDispatcherAssumption DEF Inv, TypeOK, Claim, Busy
<1>7. \A t \in Slots : slot[t].job = j => slot[t].grant # grants'[j]
    <2>. SUFFICES ASSUME NEW t \in Slots, slot[t].job = j
                  PROVE  slot[t].grant # grants[j] + 1
        BY <1>5
    <2>1. Busy(t)
        BY ModalDispatcherAssumption DEF Busy
    <2>. QED
        BY <1>5, <1>6, <2>1 DEF Inv, ClaimsOK
<1>8. stray' \in [StrayPoll -> Nat] /\ \A q \in StrayPoll : stray'[q] > 0 => stray[q] > 0
    BY <1>1, <1>3
<1>9. TypeOK'
    <2>1. disturbed' \in 0..MaxDisturbances
        BY DisturbedTyped DEF Inv
    <2>. QED
        BY <1>1, <1>3, <1>4, <1>8, <2>1 DEF Inv, TypeOK, QueueTyped
<1>10. ClaimsOK'
    <2>1. \A t \in Slots : Busy(t) => slot[t].grant <= grants'[slot[t].job]
        BY <1>5, <1>6 DEF Inv, ClaimsOK
    <2>. QED
        BY <2>1 DEF Inv, ClaimsOK, Busy
<1>11. SlotWorksOnWhatItHolds'
    <2>. SUFFICES ASSUME NEW t \in Slots, NEW i \in Jobs, holder'[i] = t, Busy(t)
                  PROVE  \/ slot[t].job = i /\ slot[t].grant = grants'[i]
                         \/ /\ t \in overtaken'
                            /\ \A u \in Slots : slot[u].job = i => slot[u].grant # grants'[i]
        BY DEF SlotWorksOnWhatItHolds, Busy
    <2>1. CASE i = j
        <3>1. t = s
            BY <1>5, <2>1
        <3>2. p.late
            BY <1>1, <3>1 DEF Inv, StraysOK, s
        <3>. QED
            BY <1>1, <1>7, <2>1, <3>1, <3>2
    <2>2. CASE i # j
        <3>1. holder[i] = t /\ grants'[i] = grants[i] /\ overtaken \subseteq overtaken'
            BY <1>1, <1>5, <2>2
        <3>. QED
            BY <3>1 DEF Inv, SlotWorksOnWhatItHolds
    <2>. QED
        BY <2>1, <2>2
<1>12. StraysOK'
    BY <1>1, <1>8 DEF Inv, StraysOK, Busy
<1>13. EndsOK' /\ CachesOK'
    BY DEF Inv, EndsOK, CachesOK, Owns, Key
<1>14. ReportsOK'
    <2>1. ASSUME NEW t \in Slots, Current(t)'
          PROVE  Current(t)
        <3>1. Busy(t) /\ holder'[slot[t].job] = t /\ grants'[slot[t].job] = slot[t].grant
            BY <2>1 DEF Current, Busy
        <3>2. slot[t].job \in Jobs \ {j}
            BY <1>6, <1>7, <3>1
        <3>. QED
            BY <1>5, <3>1, <3>2 DEF Current
    <2>2. \A t \in Slots : Settled(t) => Settled(t)'
        BY <2>1 DEF Settled
    <2>. QED
        BY <2>2 DEF Inv, ReportsOK, Started
<1>. QED
    BY <1>4, <1>9, <1>10, <1>11, <1>12, <1>13, <1>14 DEF Inv, QueueTyped

LEMMA PollOutrunKept ==
    ASSUME Inv, NEW s \in Slots, PollOutrun(s)
    PROVE  Inv'
<1>1. /\ Polls(s) /\ Undisturbed /\ main' = [main EXCEPT !.cursor = s + 1]
      /\ UNCHANGED <<demand, slot, thread, warm, warming, sent>>
    BY DEF PollOutrun, MainStep
<1>2. PICK p \in StrayPoll : StrayGrants(p)
    BY DEF PollOutrun
<1>3. /\ main.at = "poll" /\ main' \in Main /\ main'.at = "poll"
      /\ main'.mode = main.mode /\ main'.session = main.session /\ main'.idle = main.idle
    BY <1>1, PollerIsFree, Cursors DEF Inv, TypeOK, Main
<1>4. LeadsOK'
    BY <1>1, <1>3, LeadersLead DEF Inv, LeadsOK, LeadsItself, Started
<1>5. SessionOK' /\ PendingOK'
    BY <1>1, <1>3 DEF Inv, SessionOK, PendingOK, Pending, Started, Busy
<1>. QED
    BY <1>1, <1>2, <1>3, <1>4, <1>5, StrayGrantsKept

LEMMA StrayPollClaimsKept ==
    ASSUME Inv, NEW p \in StrayPoll, StrayPollClaims(p)
    PROVE  Inv'
<1>1. /\ StrayGrants(p) /\ Undisturbed /\ main' = main
      /\ UNCHANGED <<demand, slot, thread, warm, warming, sent>>
    BY DEF StrayPollClaims, DispatcherSame, Undisturbed
<1>2. main' \in Main /\ LeadsOK' /\ SessionOK' /\ PendingOK'
    BY <1>1 DEF Inv, TypeOK, LeadsOK, SessionOK, PendingOK, Pending, Started, Busy
<1>. QED
    BY <1>1, <1>2, StrayGrantsKept

LEMMA StartKept ==
    ASSUME Inv, StartClaimedSlots
    PROVE  Inv'
<1>1. /\ \/ main.at = "begin"
         \/ Polled /\ main.mode = "inner"
         \/ main.at = "end" /\ ~ PendingModal
      /\ main' = [main EXCEPT !.at = IF main.at = "begin" THEN "refresh" ELSE "exit",
                              !.cursor = 1]
      /\ holder' = holder /\ grants' = grants /\ phase' = phase /\ sent' = sent
      /\ disturbed' = disturbed /\ demand' = demand /\ warm' = warm /\ warming' = warming
      /\ stray' = stray /\ overtaken' = overtaken
    BY DEF StartClaimedSlots, SendsNothing, MainStep, queueVars, strayVars
<1>2. PICK lead \in [Slots -> Slots] :
         /\ Leads(lead)
         /\ slot' = [s \in Slots |-> IF Pending(s) THEN [slot[s] EXCEPT !.lead = lead[s]]
                                     ELSE slot[s]]
         /\ thread' = [s \in Slots |-> IF Pending(s) /\ lead[s] = s
                                       THEN [at |-> "queued", end |-> "none"] ELSE thread[s]]
    BY DEF StartClaimedSlots
<1>3. /\ slot \in [Slots -> Claim] /\ thread \in [Slots -> Thread] /\ main \in Main
      /\ main.at \in {"begin", "poll", "end"}
    BY <1>1 DEF Inv, TypeOK, Polled
<1>4. LeadsItself
    BY <1>3, LeadersLead
<1>5. /\ main' \in Main /\ main'.at = IF main.at = "begin" THEN "refresh" ELSE "exit"
      /\ main'.mode = main.mode /\ main'.session = main.session
    BY <1>1, <1>3, Cursors DEF Main
<1>6. \A s \in Slots : Pending(s) =>
         /\ slot[s].job \in Jobs
         /\ lead[s] \in Slots /\ lead[s] <= s /\ Pending(lead[s]) /\ lead[lead[s]] = lead[s]
    BY <1>2, <1>3 DEF Leads, Peers, Claim, Pending, Busy
<1>7. \A s \in Slots :
         /\ slot'[s].job = slot[s].job /\ slot'[s].grant = slot[s].grant
         /\ Pending(s) => slot'[s].lead = lead[s]
         /\ ~ Pending(s) => slot'[s] = slot[s]
    BY <1>2, <1>3 DEF Claim
<1>8. \A s \in Slots :
         /\ Pending(s) /\ lead[s] = s => thread'[s].at = "queued"
         /\ ~ (Pending(s) /\ lead[s] = s) => thread'[s] = thread[s]
    BY <1>2
<1>9. \A s \in Slots : Busy(s)' <=> Busy(s)
    BY <1>7 DEF Busy
<1>10. \A s \in Slots : Started(s) => ~ Pending(s) /\ slot[s].lead \in Slots
                                     /\ ~ Pending(slot[s].lead)
    BY <1>3, <1>4, Numbers DEF Pending, LeadsItself, Started, Claim
<1>11. \A s \in Slots : Started(s)' <=> Started(s) \/ Pending(s)
    BY <1>6, <1>7, Numbers DEF Started
<1>12. \A s \in Slots : thread[s].at # "none" => ~ Pending(s) /\ thread'[s] = thread[s]
    <2>1. \A s \in Slots : thread[s].at \notin {"none", "over"} => slot[s].lead = s
        BY DEF Inv, LeadsOK
    <2>2. \A s \in Slots : thread[s].at = "over" => slot[s].lead = s
        BY <1>4, Numbers DEF Inv, LeadsOK, LeadsItself, Started
    <2>. QED
        BY <1>8, <1>10, <2>1, <2>2, Numbers DEF Started
<1>13. \A s \in Slots : ~ Pending(s)'
    BY <1>9, <1>11 DEF Pending
<1>14. TypeOK'
    <2>1. slot' \in [Slots -> Claim]
        <3>1. \A s \in Slots : Pending(s) => [slot[s] EXCEPT !.lead = lead[s]] \in Claim
            BY <1>3, <1>6 DEF Claim
        <3>. QED
            BY <1>2, <1>3, <3>1
    <2>2. thread' \in [Slots -> Thread]
        BY <1>2, <1>3 DEF Thread
    <2>. QED
        BY <1>1, <1>5, <2>1, <2>2 DEF Inv, TypeOK, Queue!TypeOK
<1>15. QueueOK' /\ SlotWorksOnWhatItHolds' /\ StraysOK'
    <2>1. QueueOK' /\ SlotWorksOnWhatItHolds'
        BY <1>1, <1>7, <1>9 DEF Inv, QueueOK, SlotWorksOnWhatItHolds
    <2>2. StraysOK'
        BY <1>1, <1>9 DEF Inv, TypeOK, StraysOK, StrayPoll
    <2>. QED
        BY <2>1, <2>2
<1>16. ClaimsOK'
    <2>1. \A s \in Slots : ~ Busy(s) => ~ Pending(s)
        BY DEF Pending
    <2>. QED
        BY <1>1, <1>7, <1>9, <2>1 DEF Inv, ClaimsOK
<1>17. LeadsOK'
    <2>1. ASSUME NEW s \in Slots, Started(s)'
          PROVE  LET l == slot'[s].lead
                 IN  /\ l <= s
                     /\ thread'[l].at # "none"
                     /\ slot'[l].lead = l
                     /\ KeyOf[slot'[s].job] # NoKey => slot'[s].job \in NeedsModal
        <3>1. CASE Pending(s)
            BY <1>6, <1>7, <1>8, <3>1, ModalDispatcherAssumption
        <3>2. CASE Started(s)
            BY <1>4, <1>7, <1>10, <1>12, <3>2 DEF Inv, LeadsOK, LeadsItself
        <3>. QED
            BY <1>11, <2>1, <3>1, <3>2
    <2>2. \A l \in Slots : thread'[l].at \notin {"none", "over"} => slot'[l].lead = l
        BY <1>7, <1>8, <1>12 DEF Inv, LeadsOK
    <2>3. \A l \in Slots : thread'[l].at = "over" => \E s \in Slots : slot'[s].lead = l
        <3>. SUFFICES ASSUME NEW l \in Slots, thread'[l].at = "over"
                      PROVE  \E s \in Slots : slot'[s].lead = l
            OBVIOUS
        <3>1. thread[l].at = "over"
            BY <1>8
        <3>2. PICK s \in Slots : slot[s].lead = l
            BY <3>1 DEF Inv, LeadsOK
        <3>3. Started(s)
            BY <3>2, Numbers DEF Started
        <3>. QED
            BY <1>7, <1>10, <3>2, <3>3
    <2>. QED
        BY <2>1, <2>2, <2>3 DEF LeadsOK
<1>18. EndsOK'
    BY <1>8 DEF Inv, EndsOK
<1>19. CachesOK'
    <2>1. \A s \in Slots : Key(s)' = Key(s)
        BY <1>7 DEF Key
    <2>2. \A s \in Slots, k \in Keys : Owns(s, k)' <=> Owns(s, k)
        BY <1>8, <1>12, <2>1 DEF Owns
    <2>3. \A s \in Slots : thread'[s].at \in {"warming", "warmed", "set", "wait"} =>
             thread'[s] = thread[s]
        BY <1>8
    <2>4. \A s \in Slots : thread[s].at \in {"warming", "warmed"} => thread'[s] = thread[s]
        BY <1>12
    <2>. QED
        BY <1>1, <2>1, <2>2, <2>3, <2>4 DEF Inv, CachesOK
<1>20. SessionOK'
    <2>1. CASE main.at = "begin" \/ (main.at = "poll" /\ main.mode = "inner")
        BY <1>5, <2>1 DEF Inv, SessionOK
    <2>2. CASE main.at = "end" /\ ~ PendingModal
        BY <1>5, <1>7, <1>11, <2>2 DEF Inv, SessionOK, PendingModal
    <2>. QED
        BY <1>1, <2>1, <2>2 DEF Polled
<1>21. PendingOK'
    BY <1>13 DEF PendingOK
<1>22. ReportsOK'
    <2>1. \A s \in Slots : Settled(s)' <=> Settled(s)
        BY <1>1, <1>7, <1>9 DEF Settled, Current
    <2>2. ASSUME NEW s \in Slots, Started(s)'
          PROVE  \/ Started(s) /\ slot'[s].lead = slot[s].lead
                    /\ thread'[slot[s].lead] = thread[slot[s].lead]
                 \/ thread'[slot'[s].lead].at = "queued"
        BY <1>6, <1>7, <1>8, <1>10, <1>11, <2>2
    <2>. QED
        BY <2>1, <2>2 DEF Inv, ReportsOK
<1>. QED
    BY <1>14, <1>15, <1>16, <1>17, <1>18, <1>19, <1>20, <1>21, <1>22 DEF Inv

-----------------------------------------------------------------------------
LEMMA MainThreadKept ==
    ASSUME Inv, MainThread
    PROVE  Inv'
    BY RefreshesKept, RegisterKept, RunsOnKept, CollectKept, PollingKept, PollFailsKept,
       PollOutrunKept, PollAnswersKept, CollectedKept, StartKept, StartInSessionKept, ShouldStayKept,
       ExitForIdleKept, HoldModalSessionKept
    DEF MainThread

LEMMA NextKept ==
    ASSUME Inv, [Next]_vars
    PROVE  Inv'
<1>1. CASE Next
    BY <1>1, MainThreadKept, TimersKept, ThreadKept, OrchestratorKept, StrayPollClaimsKept
    DEF Next
<1>2. CASE UNCHANGED vars
    <2>1. OnlyMain /\ Undisturbed /\ main' = main
        BY <1>2 DEF vars, OnlyMain, queueVars, strayVars, Undisturbed
    <2>2. QueueTyped' /\ Drops /\ demand' \in 0..MaxSlots /\ DispatcherIdles
        BY <2>1, QueueKept
        DEF OnlyMain, Inv, TypeOK, QueueTyped, DispatcherIdles, DispatcherSame
    <2>. QED
        BY <2>1, <2>2, OutsideMoves
<1>. QED
    BY <1>1, <1>2

LEMMA InvHolds == Spec => []Inv
<1>1. Init => Inv
    BY InitOK
<1>2. Inv /\ [Next]_vars => Inv'
    BY NextKept
<1>. QED
    BY <1>1, <1>2, PTL DEF Spec

\* The types of the dispatcher's state, of the threads and of the queue, for
\* any number of jobs, slots and datasets.
THEOREM TypeCorrect == Spec => []TypeOK
<1>1. Inv => TypeOK
    BY DEF Inv
<1>. QED
    BY <1>1, InvHolds, PTL

\* A slot whose worker holds a job works on that attempt of it or on nothing, or
\* on what it took before a poll it had given up claimed behind its back: then
\* nobody works on the attempt that was claimed (run_once, _collect_finished_slots;
\* pollNextPolicyPermittedJob).
THEOREM SlotsWorkOnWhatTheyHold == Spec => []SlotWorksOnWhatItHolds
<1>1. Inv => SlotWorksOnWhatItHolds
    BY DEF Inv
<1>. QED
    BY <1>1, InvHolds, PTL

\* The session is open while a thread uses it (_should_hold_modal_session):
\* what needs one is started in one, and HoldsSession keeps it.
THEOREM SessionIsHeld == Spec => []SessionHeldWhileNeeded
<1>1. Inv => SessionHeldWhileNeeded
    BY DEF Inv, SessionOK, SessionHeldWhileNeeded
<1>. QED
    BY <1>1, InvHolds, PTL

\* A dataset is materialized by one thread at a time and not again while it is
\* warm, and a thread that waits has one to wait for (_ensure_cache_warm).
THEOREM DatasetsAreShared == Spec => []DatasetsShared
<1>1. Inv => DatasetsShared
    <2>. SUFFICES ASSUME Inv PROVE DatasetsShared
        OBVIOUS
    <2>1. ASSUME NEW s \in Slots, NEW t \in Slots,
                 thread[s].at = "warming", thread[t].at = "warming", Key(s) = Key(t)
          PROVE  s = t
        BY <2>1 DEF Inv, CachesOK, Owns
    <2>2. ASSUME NEW s \in Slots, thread[s].at = "wait"
          PROVE  \E t \in Slots : thread[t].at \in {"warming", "warmed"} /\ Key(t) = Key(s)
        BY <2>2 DEF Inv, CachesOK
    <2>. QED
        BY <2>1, <2>2 DEF DatasetsShared, Inv, CachesOK
<1>. QED
    BY <1>1, InvHolds, PTL

\* The dispatcher that leaves for want of work leaves no claim it was told of and
\* no thread behind (_should_exit_for_idle).
THEOREM IdleExitIsClean == Spec => []IdleExitLeavesNothing
<1>1. Inv => IdleExitLeavesNothing
    <2>. SUFFICES ASSUME Inv, main.at = "over", NEW s \in Slots
                  PROVE  slot[s] = Free /\ thread[s] = NoThread
        BY DEF IdleExitLeavesNothing
    <2>1. \A t \in Slots : slot[t] = Free
        BY DEF Inv, SessionOK, ClaimsOK
    <2>2. thread[s].at = "none"
        BY <2>1, Numbers DEF Inv, LeadsOK, Free
    <2>3. thread[s] = NoThread
        BY <2>2 DEF Inv, EndsOK
    <2>. QED
        BY <2>1, <2>3
<1>. QED
    BY <1>1, InvHolds, PTL

\* A slot is freed only when an outcome of its claim was sent, when the attempt
\* is no longer its own, or, what the code forgets, when it is not the first of
\* a batch whose failure to prewarm was reported (_collect_finished_slots).
THEOREM FreedAreReported == Spec => FreedIsReported
<1>. DEFINE Dealt(s) == (Busy(s) /\ slot'[s] = Free)
                          => \/ sent'[s] \/ ~ Current(s)
                             \/ slot[s].lead # s /\ thread[slot[s].lead].end = "reported"
<1>1. ASSUME Inv, [Next]_vars, NEW s \in Slots
      PROVE  Dealt(s)
    <2>1. CASE CollectFinishedSlot(s)
        <3>1. Started(s) /\ thread[slot[s].lead].at = "over" /\ slot[s].lead \in Slots
            BY <1>1, <2>1 DEF CollectFinishedSlot, Finished, Started, Inv, TypeOK, Claim
        <3>2. SendsFailure(s) \/ SendsNothing
            BY <2>1 DEF CollectFinishedSlot
        <3>3. sent[s] => sent'[s]
            BY <1>1, <3>2, SendsFailureDrops
        <3>4. thread[slot[s].lead].end = "raised" => sent'[s]
            BY <1>1, <2>1, SendsFailureDrops DEF CollectFinishedSlot
        <3>5. thread[slot[s].lead].end \in Ends
            BY <1>1, <3>1 DEF Inv, EndsOK
        <3>. QED
            BY <1>1, <3>1, <3>3, <3>4, <3>5 DEF Inv, ReportsOK, Settled, Ends
    <2>2. ASSUME NEW t \in Slots, t # s, CollectFinishedSlot(t)
          PROVE  Dealt(s)
        <3>1. slot'[s] = slot[s]
            BY <1>1, <2>2 DEF CollectFinishedSlot, Inv, TypeOK
        <3>. QED
            BY <3>1 DEF Busy, Free
    <2>3. ASSUME NEW t \in Slots, NEW j \in Jobs, PollAnswers(t, j)
          PROVE  Dealt(s)
        <3>1. slot'[t].job = j /\ j # NoJob
            BY <1>1, <2>3, ModalDispatcherAssumption DEF PollAnswers, Inv, TypeOK
        <3>2. s # t => slot'[s] = slot[s]
            BY <1>1, <2>3 DEF PollAnswers, Inv, TypeOK
        <3>. QED
            BY <3>1, <3>2 DEF Busy, Free
    <2>4. CASE StartClaimedSlots
        <3>1. slot'[s].job = slot[s].job
            BY <1>1, <2>4 DEF StartClaimedSlots, Inv, TypeOK, Claim
        <3>. QED
            BY <3>1 DEF Busy, Free
    <2>5. CASE slot' = slot
        BY <2>5 DEF Busy, Free
    <2>6. \/ slot' = slot \/ StartClaimedSlots
          \/ \E t \in Slots : CollectFinishedSlot(t) \/ \E j \in Jobs : PollAnswers(t, j)
        <3>1. CASE MainThread
            BY <3>1 DEF MainThread, OnlyMain, RefreshSkipped, RefreshFails, RefreshSlotTarget,
               RegisterSlots, RunsOn, PollFindsNothing, PollFails, PollOutrun,
               CollectFinishedSlots, OpenModalSession, RunWithoutSession, PollsLater, PollsWithoutSession,
               StartInSession, ShouldStay, Stays, ExitForIdle, HoldModalSession
        <3>2. ASSUME NEW t \in Slots, JobThread(t)
              PROVE  slot' = slot
            BY <3>2 DEF JobThread, EnsureCacheWarm, Materialize, SetEvent, PopWarming,
               WaiterWakes, RunnerEnds, RunnerTells, ThreadStep
        <3>3. CASE RefreshIsDue \/ \E call \in {"register", "poll"} : RetryIsDue(call)
            BY <3>3 DEF RefreshIsDue, RetryIsDue, OnlyMain
        <3>4. CASE \/ \E j \in Jobs : JobSubmitted(j) \/ LeaseRunsOut(j) \/ JobCancelled(j)
                   \/ \E p \in StrayPoll : StrayPollClaims(p)
                   \/ \E n \in 0..MaxSlots : DemandChanges(n)
            BY <3>4 DEF JobSubmitted, LeaseRunsOut, JobCancelled, DemandChanges, StrayPollClaims,
               DispatcherIdles, DispatcherSame
        <3>. QED
            BY <1>1, <3>1, <3>2, <3>3, <3>4 DEF Next, vars
    <2>. HIDE DEF Dealt
    <2>. QED
        BY <2>1, <2>2, <2>3, <2>4, <2>5, <2>6
<1>2. Inv /\ [Next]_vars => [\A s \in Slots : Dealt(s)]_vars
    BY <1>1
<1>3. Spec => [][\A s \in Slots : Dealt(s)]_vars
    BY <1>2, InvHolds, PTL DEF Spec
<1>. QED
    BY <1>3 DEF FreedIsReported
-----------------------------------------------------------------------------
(* What the dispatcher does to the queue, and what it meets there. *)

LEMMA ReleasesRefine ==
    ASSUME NEW Back \in SUBSET Jobs, NEW Over \in SUBSET Jobs, Queue!Release(Back, Over)
    PROVE  Queue!Next
    BY DEF Queue!Next

LEMMA KeepsRefine ==
    ASSUME UNCHANGED queueVars
    PROVE  [Queue!Next]_(Queue!vars)
    BY DEF queueVars, Queue!vars

\* An outcome is told of a job that the orchestrator has, whose attempt is the
\* slot's.
LEMMA OutcomesRefine ==
    ASSUME TypeOK, NEW s \in Slots, Fails(s) \/ Completes(s)
    PROVE  Queue!Next
<1>1. slot[s].job \in Jobs
    BY DEF Fails, Completes, Current, Busy, TypeOK, Claim
<1>2. {slot[s].job} \in SUBSET Jobs /\ {} \in SUBSET Jobs
    BY <1>1
<1>. QED
    BY <1>2, ReleasesRefine DEF Fails, Completes

LEMMA SendsRefine ==
    ASSUME TypeOK, NEW s \in Slots, SendsFailure(s) \/ Refused(s) \/ Lost(s) \/ Served(s)
    PROVE  [Queue!Next]_(Queue!vars)
    BY OutcomesRefine, KeepsRefine DEF SendsFailure, Served, Refused, Lost

LEMMA GrantsRefine ==
    ASSUME NEW s \in Slots, NEW j \in Jobs, Grants(s, j)
    PROVE  [Queue!Next]_(Queue!vars)
    BY KeepsRefine DEF Grants, Queue!Next

LEMMA StraysRefine ==
    ASSUME NEW p \in StrayPoll, StrayGrants(p)
    PROVE  Queue!Next
    BY DEF StrayGrants, StrayPoll, Queue!Next

LEMMA MainRefines ==
    ASSUME TypeOK, MainThread
    PROVE  [Queue!Next]_(Queue!vars)
<1>1. ASSUME NEW s \in Slots, CollectFinishedSlot(s)
      PROVE  [Queue!Next]_(Queue!vars)
    BY <1>1, SendsRefine, KeepsRefine DEF CollectFinishedSlot, SendsNothing
<1>2. ASSUME NEW s \in Slots,
             PollFails(s) \/ PollOutrun(s) \/ \E j \in Jobs : PollAnswers(s, j)
      PROVE  [Queue!Next]_(Queue!vars)
    BY <1>2, GrantsRefine, StraysRefine, KeepsRefine DEF PollFails, PollOutrun, PollAnswers
<1>3. CASE StartClaimedSlots
    BY <1>3, KeepsRefine, Zenon DEF StartClaimedSlots, SendsNothing
<1>4. CASE OnlyMain
    BY <1>4, KeepsRefine DEF OnlyMain
<1>5. \/ OnlyMain \/ StartClaimedSlots
      \/ \E s \in Slots : \/ CollectFinishedSlot(s) \/ PollFails(s) \/ PollOutrun(s)
                          \/ \E j \in Jobs : PollAnswers(s, j)
    BY Zenon
    DEF MainThread, RefreshSkipped, RefreshFails, RefreshSlotTarget, RegisterSlots, RunsOn,
        PollFindsNothing, CollectFinishedSlots, OpenModalSession, RunWithoutSession,
        PollsLater, PollsWithoutSession, StartInSession, ShouldStay, Stays, ExitForIdle,
        HoldModalSession
<1>. QED
    BY <1>1, <1>2, <1>3, <1>4, <1>5

LEMMA ThreadRefines ==
    ASSUME TypeOK, NEW s \in Slots, JobThread(s)
    PROVE  [Queue!Next]_(Queue!vars)
<1>1. CASE Materialize(s)
    BY <1>1, SendsRefine, KeepsRefine DEF Materialize, SendsNothing
<1>2. CASE WaiterWakes(s)
    BY <1>2, SendsRefine, KeepsRefine DEF WaiterWakes, SendsNothing
<1>3. CASE \E t \in Slots : RunnerTells(s, t)
    BY <1>3, OutcomesRefine DEF RunnerTells
<1>4. CASE UNCHANGED queueVars
    BY <1>4, KeepsRefine
<1>. QED
    BY <1>1, <1>2, <1>3, <1>4
    DEF JobThread, SendsNothing, EnsureCacheWarm, SetEvent, PopWarming, RunnerEnds

LEMMA OrchestratorRefines ==
    ASSUME NEW j \in Jobs, JobSubmitted(j) \/ LeaseRunsOut(j) \/ JobCancelled(j)
    PROVE  Queue!Next
<1>1. {j} \in SUBSET Jobs /\ {} \in SUBSET Jobs
    OBVIOUS
<1>2. CASE JobSubmitted(j)
    BY <1>2 DEF JobSubmitted, Queue!Next
<1>3. CASE LeaseRunsOut(j) \/ JobCancelled(j)
    BY <1>1, <1>3, ReleasesRefine DEF LeaseRunsOut, JobCancelled
<1>. QED
    BY <1>2, <1>3

\* The orchestrator that the dispatcher is proved correct with is the abstract
\* queue, and no other: whatever it is told, and however polls and outcomes are
\* lost, repeated or late, each of its steps is one the queue allows or none,
\* as are those of the store, which implements the same queue
\* (training/modal_dispatcher.py, run_once; modal_provider.py).
THEOREM KeepsToTheQueue == Spec => Queue!Spec
<1>1. Init => Queue!Init
    BY DEF Init
<1>2. TypeOK /\ [Next]_vars => [Queue!Next]_(Queue!vars)
    <2>. SUFFICES ASSUME TypeOK, [Next]_vars PROVE [Queue!Next]_(Queue!vars)
        OBVIOUS
    <2>1. CASE UNCHANGED queueVars
        BY <2>1, KeepsRefine
    <2>. QED
        BY <2>1, MainRefines, ThreadRefines, OrchestratorRefines, StraysRefine
        DEF Next, StrayPollClaims, RefreshIsDue, RetryIsDue, OnlyMain, DemandChanges, vars, queueVars
<1>. QED
    BY <1>1, <1>2, TypeCorrect, PTL DEF Spec, Queue!Spec
=============================================================================
