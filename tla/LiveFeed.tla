------------------------------ MODULE LiveFeed ------------------------------
(***************************************************************************)
(* A Mission Control session that follows a project live: it installs a    *)
(* snapshot of the project with the cursor of the event log it was read    *)
(* at, opens the event stream after that cursor, applies events as they    *)
(* come, and fetches again whatever resource an event is about.  While it  *)
(* is healthy the window does not poll.  The connection breaks, requests   *)
(* fail or overtake one another, and a snapshot asked for in the middle    *)
(* meets the events that made it necessary.                                *)
(*                                                                         *)
(* The window is `ui`; what it shows is `live` and, for resources fetched  *)
(* one by one, `copy`.  A request in the air is aborted by the next one,   *)
(* which is why there is a single one.  Events are FIFO within a stream.   *)
(***************************************************************************)
EXTENDS EventLog

CONSTANTS
    Mine,               \* transitions of the project the window shows
    Operational,        \* those that change what the snapshot counts
    Terminal,           \* those that also change what is fetched by itself
    MaxReconnects,      \* maxReconnectAttempts
    MaxDisturbances     \* bound: faults, and snapshots nobody's event asked for

ASSUME LiveFeedAssumption ==
    /\ Terminal \subseteq Operational
    /\ Operational \subseteq Mine
    /\ Mine \subseteq Keys
    /\ MaxReconnects \in Nat
    /\ MaxDisturbances \in Nat

VARIABLES
    ui,             \* connection, timers, counters, request, stream, work
    live,           \* IncrementalLiveState
    copy,           \* how much of the log the list of jobs on the screen reflects
    disturbed       \* disturbances so far

vars == <<log, tx, ui, live, copy, disturbed>>

-----------------------------------------------------------------------------
Resources == {"live_state", "jobs"}

\* resourcesForExecutionEvent, for one event type of each shape.
Touches(k) ==
    {r \in Resources: IF r = "jobs" THEN k \in Terminal ELSE k \in Operational}

Connections == {"connecting", "connected", "reconnecting", "recovering",
                "disconnected", "fallback", "unsupported"}

\* reason: what the snapshot is for.  since: the log's length when it was sent.
\* task: the coalescer's live_state entry waits for this request.
Request == [what: {"none", "snapshot", "probe"},
            reason: {"initial", "manual", "cursor_recovery", "compact", "none"},
            since: Nat, cursor: Nat, task: BOOLEAN]
NoRequest == [what |-> "none", reason |-> "none", since |-> 0, cursor |-> 0, task |-> FALSE]

\* cursor: what the server has sent up to.  wire: sent and not yet arrived.
Stream == [phase: {"closed", "opening", "open"}, cursor: Nat, wire: Seq(Event)]
Closed == [phase |-> "closed", cursor |-> 0, wire |-> << >>]

\* A resource's entry in the coalescer; again: in flight and stale already.
Work == {"idle", "queued", "flying", "again"}

\* timer: reconnectTimer is set.  compact: compactSnapshotTimer is.
Ui == [conn: Connections, healthy: BOOLEAN, timer: BOOLEAN, compact: BOOLEAN, tries: Nat,
       recoveries: Nat,
       request: Request, stream: Stream, work: [Resources -> Work], since: Nat,
       retried: BOOLEAN]

Live == [installed: BOOLEAN, cursor: Nat, shown: SUBSET Keys, seen: SUBSET Keys]

TypeOK ==
    /\ log \in Seq(Event)
    /\ tx \in [Producers -> Event \cup {Outside}]
    /\ ui \in Ui
    /\ live \in Live
    /\ copy \in Nat
    /\ disturbed \in 0..MaxDisturbances

-----------------------------------------------------------------------------
(* The coalescer. *)

Invalidated(work, R) ==
    [r \in Resources |->
        IF r \notin R THEN work[r]
        ELSE IF work[r] \in {"flying", "again"} THEN "again" ELSE "queued"]

FinishedFaulty(work, r) ==
    [work EXCEPT ![r] = IF @ = "again" THEN "follow_up" ELSE "idle"]

Finished(work, r) ==
    [work EXCEPT ![r] = IF @ = "again" THEN "queued" ELSE "idle"]

-----------------------------------------------------------------------------
(* The controller: what a handler does to the window.  A handler runs to   *)
(* its next await without interruption.                                    *)

\* The promise the coalescer waits for, if any, resolves.
AbortRequest(u) ==
    [u EXCEPT !.request = NoRequest,
              !.work = IF u.request.task = TRUE THEN Finished(@, "live_state") ELSE @]

EnterFallback(u, conn) ==
    [AbortRequest(u) EXCEPT !.stream = Closed, !.timer = FALSE, !.compact = FALSE,
                            !.healthy = FALSE, !.conn = conn]

\* scheduleCompactSnapshot: the timer is cleared, and set anew if the window is
\* healthy and the snapshot has open work.
CompactScheduled(u) == {[u EXCEPT !.compact = b]: b \in {FALSE, u.healthy}}

LoadSnapshot(u, reason, task) ==
    LET sent == [what |-> "snapshot", reason |-> reason, since |-> Len(log),
                 cursor |-> 0, task |-> task]
    IN  IF reason = "compact"
        THEN [AbortRequest(u) EXCEPT !.request = sent]
        ELSE [AbortRequest(u) EXCEPT !.request = sent, !.healthy = FALSE,
                 !.conn = IF reason = "cursor_recovery" THEN "recovering" ELSE "connecting"]

\* manualResync.
Resync(u, task) == LoadSnapshot(u, IF u.healthy = TRUE THEN "compact" ELSE "manual", task)

ScheduleReconnect(u) ==
    IF u.timer = TRUE THEN u
    ELSE IF u.tries >= MaxReconnects
         THEN EnterFallback([u EXCEPT !.tries = @ + 1], "fallback")
         ELSE [u EXCEPT !.tries = @ + 1, !.timer = TRUE, !.healthy = FALSE,
                        !.conn = "reconnecting"]

\* After an event out of order, or one that cannot be read.
RecoverCursor(u) ==
    LET closed == [u EXCEPT !.stream = Closed, !.recoveries = @ + 1]
    IN  IF closed.recoveries <= 2
        THEN LoadSnapshot(closed, "cursor_recovery", FALSE)
        ELSE EnterFallback(closed, "fallback")

-----------------------------------------------------------------------------
Init ==
    /\ LogInit
    /\ live = [installed |-> FALSE, cursor |-> 0, shown |-> {}, seen |-> {}]
    /\ ui = [conn |-> "connecting", healthy |-> FALSE, timer |-> FALSE,
             compact |-> FALSE, tries |-> 0, recoveries |-> 0,
             request |-> [NoRequest EXCEPT !.what = "snapshot", !.reason = "initial"],
             stream |-> Closed, work |-> [r \in Resources |-> "idle"], since |-> 0,
             retried |-> FALSE]
    /\ copy = 0
    /\ disturbed = 0

Disturbs == disturbed < MaxDisturbances /\ disturbed' = disturbed + 1

\* The client's steps leave the log alone, the server's leave the client alone.
ClientStep == UNCHANGED logVars

LogStep == LogNext /\ UNCHANGED <<ui, live, copy, disturbed>>

-----------------------------------------------------------------------------
(* Snapshots. *)

\* One read-only repeatable-read transaction: the cursor and every row of the
\* project as they were after the first n commits.
Rows(n) == {log[i].key: i \in 1..n} \cap Mine

\* latest_important_event.
Latest(n) ==
    {log[i].key: i \in {j \in 1..n: /\ log[j].key \in Mine
                                    /\ \A m \in (j + 1)..n: log[m].key \notin Mine}}

OlderFaulty(cursor) == FALSE
Older(cursor) == live.installed = TRUE /\ cursor < live.cursor

\* The server read the snapshot at some instant since it was asked.
SnapshotArrives(n) ==
    /\ ui.request.what = "snapshot"
    /\ n \in ui.request.since..Len(log)
    /\ LET cursor == LastSequence(n)
       IN  IF Older(cursor)
           THEN /\ ui' \in CompactScheduled(AbortRequest(ui))
                /\ UNCHANGED live
           ELSE /\ live' = [installed |-> TRUE, cursor |-> cursor, shown |-> Rows(n),
                            seen |-> live.seen \cup Latest(n)]
                /\ IF ui.request.reason = "compact" /\ cursor = live.cursor
                   THEN ui' \in CompactScheduled(AbortRequest(ui))
                   ELSE ui' = [ui EXCEPT !.request.what = "probe", !.request.since = 0,
                                        !.request.cursor = cursor]
    /\ ClientStep
    /\ UNCHANGED <<copy, disturbed>>

SnapshotFails ==
    /\ Disturbs
    /\ ui.request.what = "snapshot"
    /\ \E conn \in {"fallback", "unsupported"}: ui' = EnterFallback(ui, conn)
    /\ ClientStep
    /\ UNCHANGED <<live, copy>>

-----------------------------------------------------------------------------
(* The stream. *)

\* Events of the stream before have passed the cursor the probe was sent with.
OvertakenFaulty(cursor) == cursor <= live.cursor
Overtaken(cursor) == cursor < live.cursor

\* A stream is opened strictly after the cursor of the probe, or not at all.
ProbeAnswers ==
    /\ ui.request.what = "probe"
    /\ ui' = IF Overtaken(ui.request.cursor)
             THEN AbortRequest(ui)
             ELSE [AbortRequest(ui) EXCEPT
                      !.stream = [phase |-> "opening", cursor |-> ui.request.cursor,
                                  wire |-> << >>],
                      !.healthy = FALSE,
                      !.conn = IF ui.request.reason = "initial" THEN "connecting"
                               ELSE "reconnecting"]
    /\ ClientStep
    /\ UNCHANGED <<live, copy, disturbed>>

ProbeFails ==
    /\ Disturbs
    /\ ui.request.what = "probe"
    /\ \/ ui' = ScheduleReconnect(AbortRequest(ui))
       \/ ui' = EnterFallback(ui, "unsupported")
    /\ ClientStep
    /\ UNCHANGED <<live, copy>>

StreamOpens ==
    /\ ui.stream.phase = "opening"
    /\ ui' \in CompactScheduled(
                  [ui EXCEPT !.stream.phase = "open", !.tries = 0, !.conn = "connected",
                             !.healthy = TRUE])
    /\ ClientStep
    /\ UNCHANGED <<live, copy, disturbed>>

Unsent(i) == log[i].key \in Mine /\ log[i].sequence > ui.stream.cursor

NextToSendFaulty(i) == Unsent(i)
NextToSend(i) ==
    /\ Unsent(i)
    /\ \A j \in DOMAIN log: Unsent(j) => log[j].sequence >= log[i].sequence

\* The server reads pages of the project's events after its cursor, in
\* ascending order, and writes them one by one: an event may leave when others,
\* later than its page, are committed already.
StreamSends(i) ==
    /\ ui.stream.phase = "open"
    /\ NextToSend(i)
    /\ ui' = [ui EXCEPT !.stream.cursor = log[i].sequence,
                        !.stream.wire = Append(@, log[i])]
    /\ ClientStep
    /\ UNCHANGED <<live, copy, disturbed>>

Applied(e) == live.installed = TRUE /\ e.sequence > live.cursor
Ignored(e) == live.installed = TRUE /\ (e.sequence = live.cursor \/ e.key \in live.seen)

\* handleStreamEvent.
EventArrives ==
    /\ ui.stream.phase = "open"
    /\ ui.stream.wire # << >>
    /\ LET e == Head(ui.stream.wire)
           u == [ui EXCEPT !.stream.wire = Tail(@)]
       IN  IF Applied(e)
           THEN /\ live' = [live EXCEPT !.cursor = e.sequence, !.shown = @ \cup {e.key},
                                        !.seen = @ \cup {e.key}]
                /\ ui' = [u EXCEPT !.recoveries = 0,
                             !.work = IF e.key \in live.seen THEN @
                                      ELSE Invalidated(@, Touches(e.key))]
           ELSE /\ UNCHANGED live
                /\ ui' = IF Ignored(e) THEN u ELSE RecoverCursor(u)
    /\ ClientStep
    /\ UNCHANGED <<copy, disturbed>>

EventGarbled ==
    /\ Disturbs
    /\ ui.stream.phase = "open"
    /\ ui.stream.wire # << >>
    /\ ui' = RecoverCursor(ui)
    /\ ClientStep
    /\ UNCHANGED <<live, copy>>

\* The connection or the server is gone, with what was on the wire.
StreamBreaks ==
    /\ Disturbs
    /\ ui.stream.phase # "closed"
    /\ LET u == [ui EXCEPT !.stream = Closed, !.compact = FALSE, !.healthy = FALSE,
                              !.conn = "disconnected"]
       IN  \/ ui' = ScheduleReconnect(u)
           \/ ui' = EnterFallback(u, "unsupported")
    /\ ClientStep
    /\ UNCHANGED <<live, copy>>

ReconnectTimer ==
    /\ ui.timer = TRUE
    /\ ui' = IF live.installed = TRUE
             THEN [AbortRequest(ui) EXCEPT
                      !.timer = FALSE,
                      !.request = [NoRequest EXCEPT !.what = "probe", !.cursor = live.cursor]]
             ELSE [ui EXCEPT !.timer = FALSE]
    /\ ClientStep
    /\ UNCHANGED <<live, copy, disturbed>>

-----------------------------------------------------------------------------
(* What events lead to. *)

Polls == ~(ui.healthy = TRUE /\ ui.conn = "connected" /\ live.installed = TRUE)

StartResync ==
    /\ ui.work["live_state"] = "queued"
    /\ ui' = Resync([ui EXCEPT !.work["live_state"] = "flying"], TRUE)
    /\ ClientStep
    /\ UNCHANGED <<live, copy, disturbed>>

StartFetch ==
    /\ ui.work["jobs"] = "queued"
    /\ ui' = [ui EXCEPT !.work["jobs"] = "flying", !.since = Len(log)]
    /\ ClientStep
    /\ UNCHANGED <<live, copy, disturbed>>

FetchArrives(n) ==
    /\ ui.work["jobs"] \in {"flying", "again"}
    /\ n \in ui.since..Len(log)
    /\ copy' = n
    /\ ui' = [ui EXCEPT !.work = Finished(@, "jobs"), !.since = 0, !.retried = FALSE]
    /\ ClientStep
    /\ UNCHANGED <<live, disturbed>>

\* One follow-up, and another one only for an event that came in between.
FetchFailed(u) ==
    IF u.retried = FALSE
    THEN [u EXCEPT !.work["jobs"] = "queued", !.since = 0, !.retried = TRUE]
    ELSE [u EXCEPT !.work = Finished(@, "jobs"), !.since = 0,
                   !.retried = u.work["jobs"] = "again"]

FetchFails ==
    /\ Disturbs
    /\ ui.work["jobs"] \in {"flying", "again"}
    /\ ui' = FetchFailed(ui)
    /\ ClientStep
    /\ UNCHANGED <<live, copy>>

\* The broad refresh preempts a targeted fetch.
BroadRefresh(u) ==
    /\ copy' = Len(log)
    /\ ui' = IF u.work["jobs"] \in {"flying", "again"} THEN FetchFailed(u) ELSE u

Poll ==
    /\ Polls
    /\ BroadRefresh(ui)
    /\ ClientStep
    /\ UNCHANGED <<live, disturbed>>

\* The timer outlives the health it was set in: whatever is in the air is aborted.
CompactTimer ==
    /\ ui.compact = TRUE
    /\ ui' = LoadSnapshot([ui EXCEPT !.compact = FALSE], "compact", FALSE)
    /\ ClientStep
    /\ UNCHANGED <<live, copy, disturbed>>

\* The user has everything refreshed.
RefreshAll ==
    /\ Disturbs
    /\ ui.conn # "unsupported"
    /\ BroadRefresh(Resync(ui, FALSE))
    /\ ClientStep
    /\ UNCHANGED live

-----------------------------------------------------------------------------
Next ==
    \/ LogStep
    \/ \E n \in 0..Len(log): SnapshotArrives(n)
    \/ SnapshotFails
    \/ ProbeAnswers
    \/ ProbeFails
    \/ StreamOpens
    \/ \E i \in DOMAIN log: StreamSends(i)
    \/ EventArrives
    \/ EventGarbled
    \/ StreamBreaks
    \/ ReconnectTimer
    \/ StartResync
    \/ StartFetch
    \/ \E n \in 0..Len(log): FetchArrives(n)
    \/ FetchFails
    \/ Poll
    \/ CompactTimer
    \/ RefreshAll

Spec == Init /\ [][Next]_vars

\* The server answers what is asked and sends what is there, timers fire, and
\* what the window has queued it starts.
Fairness ==
    /\ WF_vars(\E n \in 0..Len(log): SnapshotArrives(n))
    /\ WF_vars(ProbeAnswers)
    /\ WF_vars(StreamOpens)
    /\ WF_vars(\E i \in DOMAIN log: StreamSends(i))
    /\ WF_vars(EventArrives)
    /\ WF_vars(ReconnectTimer)
    /\ WF_vars(StartResync)

LiveSpec == Spec /\ Fairness

-----------------------------------------------------------------------------
\* Every transition of the project up to the cursor is on the screen: none
\* falls between the snapshot and the stream, however they overlap.
NoGap ==
    \A i \in DOMAIN log:
        /\ live.installed = TRUE
        /\ log[i].key \in Mine
        /\ log[i].sequence <= live.cursor
        => log[i].key \in live.shown

\* Polling is off only while a stream is open that will still deliver every
\* transition after the cursor: it is on the wire, or the server has yet to
\* send it.
StreamCarriesOn ==
    ~Polls =>
        /\ ui.stream.phase = "open"
        /\ \A i \in DOMAIN log:
              /\ log[i].key \in Mine
              /\ log[i].sequence > live.cursor
              /\ log[i].sequence <= ui.stream.cursor
              => \E j \in DOMAIN ui.stream.wire: ui.stream.wire[j] = log[i]

\* What was on the screen once is never taken back by a late snapshot.
NeverForgets == [][live.shown \subseteq live'.shown]_vars

\* Every transition of the project is on the screen.
Shown == \A i \in DOMAIN log: log[i].key \in Mine => log[i].key \in live.shown

\* When disturbances have ended, every transition gets onto the screen, or the
\* window polls; and it polls because it has given the stream up, or else the
\* stream is taken up again.  That second half fails the window whose snapshot
\* timer outlives the health it was set in: the timer then takes the place of the
\* request that was to recover the stream (scheduleCompactSnapshot, loadSnapshot,
\* probeAndOpen, resolveLivePollingPolicy).
CatchesUp ==
    /\ <>[](Polls \/ Shown)
    /\ [](ui.compact = TRUE => ui.healthy = TRUE)
          => <>[](ui.conn \in {"fallback", "unsupported"} \/ Shown)

\* "No-go conditions are any missed transition": once the window has caught up
\* and has nothing left to do, a resource it fetches by itself reflects the
\* last transition that touched it.
NothingMissed ==
    /\ ~Polls
    /\ ui.request.what = "none"
    /\ \A r \in Resources: ui.work[r] = "idle"
    /\ \A i \in DOMAIN log: log[i].key \in Mine => log[i].sequence <= live.cursor
    => \A i \in DOMAIN log: log[i].key \in Terminal => copy >= i
=============================================================================
