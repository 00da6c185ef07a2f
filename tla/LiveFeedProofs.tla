--------------------------- MODULE LiveFeedProofs ---------------------------
(***************************************************************************)
(* For any transitions, producers and windows' misfortunes: events are     *)
(* numbered in the order of their commits, what a window shows is exactly  *)
(* the project's transitions up to its cursor, its stream carries the rest,*)
(* and nothing shown is taken back.                                        *)
(***************************************************************************)
EXTENDS LiveFeed, TLAPS

\* The allocator row at work: at most one open transaction has a number, and it
\* is the next one.
LogInv ==
    /\ log \in Seq(Event)
    /\ tx \in [Producers -> Event \cup {Outside}]
    /\ NumberedAsCommitted
    /\ \A p \in Producers:
          tx[p] # Outside =>
              /\ tx[p] \in Event
              /\ tx[p].sequence = Len(log) + 1
              /\ \A i \in DOMAIN log: log[i].key # tx[p].key
    /\ \A p, q \in Producers: tx[p] # Outside /\ tx[q] # Outside => p = q

\* The wire holds transitions of the project in order, none past the server's
\* cursor, and all of those between the window's cursor c and the server's.
StreamOK(s, L, c) ==
    /\ s \in Stream
    /\ s.cursor <= Len(L)
    /\ \A a \in DOMAIN s.wire:
          /\ s.wire[a].sequence \in 1..s.cursor
          /\ L[s.wire[a].sequence] = s.wire[a]
          /\ s.wire[a].key \in Mine
    /\ \A a, b \in DOMAIN s.wire: a < b => s.wire[a].sequence < s.wire[b].sequence
    /\ \A i \in DOMAIN L:
          /\ L[i].key \in Mine
          /\ c < i
          /\ i <= s.cursor
          => \E a \in DOMAIN s.wire: s.wire[a] = L[i]

\* A probe was sent with a cursor the window has had.
WindowOK(u, L, c) ==
    /\ u \in Ui
    /\ u.request.what = "probe" => u.request.cursor <= c
    /\ StreamOK(u.stream, L, c)

\* Between handlers, a connected window has an open stream.
Attached(u) == u.conn = "connected" => u.stream.phase = "open"

RowsOf(L, n) == {L[i].key: i \in 1..n} \cap Mine

LiveOK(l, L) ==
    /\ l \in Live
    /\ l.cursor <= Len(L)
    /\ l.shown = RowsOf(L, l.cursor)
    /\ l.installed = TRUE \/ l.cursor = 0

IInv ==
    /\ LogInv
    /\ WindowOK(ui, log, live.cursor)
    /\ Attached(ui)
    /\ LiveOK(live, log)
    /\ copy \in Nat
    /\ disturbed \in 0..MaxDisturbances

-----------------------------------------------------------------------------
(* The log. *)

LEMMA LogInitOK == LogInit => LogInv
    BY DEF LogInit, LogInv, NumberedAsCommitted, Event

LEMMA LogKept ==
    ASSUME LogInv, LogNext
    PROVE  LogInv' /\ (log' = log \/ \E e \in Event: log' = Append(log, e))
<1>. USE DEF LogInv
<1>1. PICK p \in Producers: \/ \E k \in Keys: AppendTransition(p, k)
                            \/ Commit(p)
                            \/ Rollback(p)
    BY DEF LogNext
<1>2. CASE \E k \in Keys: AppendTransition(p, k)
    <2>1. PICK k \in Keys: AppendTransition(p, k)
        BY <1>2
    <2>2. LastSequence(Len(log)) = Len(log)
        BY DEF LastSequence, NumberedAsCommitted, Event
    <2>3. /\ tx' = [tx EXCEPT ![p] = [key |-> k, sequence |-> Len(log) + 1]]
          /\ log' = log
          /\ \A q \in Producers: tx[q] = Outside
          /\ \A i \in DOMAIN log: log[i].key # k
        BY <2>1, <2>2 DEF AppendTransition, AllocatorFree, Existing
    <2>4. [key |-> k, sequence |-> Len(log) + 1] \in Event
        BY DEF Event
    <2>. QED
        BY <2>3, <2>4 DEF NumberedAsCommitted
<1>3. CASE Commit(p)
    <2>1. /\ tx[p] # Outside
          /\ log' = Append(log, tx[p])
          /\ tx' = [tx EXCEPT ![p] = Outside]
          /\ tx[p] \in Event
          /\ tx[p].sequence = Len(log) + 1
          /\ \A i \in DOMAIN log: log[i].key # tx[p].key
        BY <1>3 DEF Commit
    <2>2. /\ log' \in Seq(Event)
          /\ Len(log') = Len(log) + 1
          /\ DOMAIN log' = 1..(Len(log) + 1)
          /\ log'[Len(log) + 1] = tx[p]
          /\ \A i \in DOMAIN log: log'[i] = log[i]
        BY <2>1
    <2>3. \A q \in Producers: tx'[q] = Outside
        BY <2>1
    <2>4. NumberedAsCommitted'
        <3>1. \A i \in DOMAIN log': log'[i].sequence = i
            BY <2>1, <2>2 DEF NumberedAsCommitted
        <3>2. ASSUME NEW i \in DOMAIN log', NEW j \in DOMAIN log',
                     log'[i].key = log'[j].key
              PROVE  i = j
            <4>1. CASE i \in DOMAIN log /\ j \in DOMAIN log
                BY <3>2, <4>1, <2>2 DEF NumberedAsCommitted
            <4>2. CASE i = Len(log) + 1 \/ j = Len(log) + 1
                BY <3>2, <4>2, <2>1, <2>2
            <4>. QED
                BY <4>1, <4>2, <2>2
        <3>. QED
            BY <3>1, <3>2 DEF NumberedAsCommitted
    <2>5. tx' \in [Producers -> Event \cup {Outside}]
        BY <2>1
    <2>. QED
        BY <2>1, <2>2, <2>3, <2>4, <2>5
<1>4. CASE Rollback(p)
    BY <1>4 DEF Rollback, NumberedAsCommitted
<1>. QED
    BY <1>1, <1>2, <1>3, <1>4

\* What a window knows of the log stays true when the log grows.
LEMMA StreamOutlivesLog ==
    ASSUME NEW L \in Seq(Event), NEW e \in Event, NEW c \in Nat, NEW s, StreamOK(s, L, c)
    PROVE  StreamOK(s, Append(L, e), c)
<1>1. /\ Len(Append(L, e)) = Len(L) + 1
      /\ DOMAIN Append(L, e) = 1..(Len(L) + 1)
      /\ \A i \in 1..Len(L): Append(L, e)[i] = L[i]
    OBVIOUS
<1>2. \A a \in DOMAIN s.wire: s.wire[a].sequence \in 1..Len(L)
    BY DEF StreamOK, Stream
<1>3. ASSUME NEW i \in DOMAIN Append(L, e), Append(L, e)[i].key \in Mine, c < i, i <= s.cursor
      PROVE  \E a \in DOMAIN s.wire: s.wire[a] = Append(L, e)[i]
    <2>1. i \in 1..Len(L)
        BY <1>1, <1>3 DEF StreamOK, Stream
    <2>. QED
        BY <2>1, <1>1, <1>3 DEF StreamOK
<1>4. s.cursor <= Len(L) + 1
    BY DEF StreamOK, Stream
<1>5. \A a \in DOMAIN s.wire: Append(L, e)[s.wire[a].sequence] = s.wire[a]
    BY <1>1, <1>2 DEF StreamOK
<1>. QED
    BY <1>1, <1>3, <1>4, <1>5 DEF StreamOK

LEMMA RowsOutliveLog ==
    ASSUME NEW L \in Seq(Event), NEW e \in Event, NEW n \in Nat, n <= Len(L)
    PROVE  RowsOf(Append(L, e), n) = RowsOf(L, n)
<1>1. \A i \in 1..n: Append(L, e)[i] = L[i]
    OBVIOUS
<1>. QED
    BY <1>1 DEF RowsOf

-----------------------------------------------------------------------------
(* What a handler does to a window leaves it a window. *)

LEMMA ClosedOK ==
    ASSUME NEW L \in Seq(Event), NEW c \in Nat
    PROVE  StreamOK(Closed, L, c)
    BY DEF StreamOK, Closed, Stream

LEMMA FinishedWork ==
    ASSUME NEW w \in [Resources -> Work], NEW r \in Resources
    PROVE  Finished(w, r) \in [Resources -> Work]
    BY DEF Finished, Work

LEMMA InvalidatedWork ==
    ASSUME NEW w \in [Resources -> Work], NEW R
    PROVE  Invalidated(w, R) \in [Resources -> Work]
    BY DEF Invalidated, Work

LEMMA NoRequestOK == NoRequest \in Request
    BY DEF NoRequest, Request

LEMMA AbortOK ==
    ASSUME NEW L, NEW c, NEW u, WindowOK(u, L, c)
    PROVE  /\ WindowOK(AbortRequest(u), L, c)
           /\ AbortRequest(u).request = NoRequest
           /\ AbortRequest(u).stream = u.stream
           /\ AbortRequest(u).conn = u.conn
<1>1. u \in Ui
    BY DEF WindowOK
<1>2. Finished(u.work, "live_state") \in [Resources -> Work]
    BY <1>1, FinishedWork DEF Ui, Resources
<1>3. DEFINE w == IF u.request.task = TRUE THEN Finished(u.work, "live_state") ELSE u.work
<1>4. w \in [Resources -> Work]
    BY <1>1, <1>2 DEF Ui
<1>5. AbortRequest(u) = [u EXCEPT !.request = NoRequest, !.work = w]
    BY <1>1 DEF AbortRequest, Ui
<1>. HIDE DEF w
<1>6. AbortRequest(u) \in Ui
    BY <1>1, <1>4, <1>5, NoRequestOK DEF Ui
<1>7. /\ AbortRequest(u).request = NoRequest
      /\ AbortRequest(u).stream = u.stream
      /\ AbortRequest(u).conn = u.conn
    BY <1>1, <1>5 DEF Ui
<1>. QED
    BY <1>6, <1>7 DEF WindowOK, NoRequest

LEMMA FallbackOK ==
    ASSUME NEW L \in Seq(Event), NEW c \in Nat, NEW u, WindowOK(u, L, c),
           NEW conn \in {"fallback", "unsupported"}
    PROVE  WindowOK(EnterFallback(u, conn), L, c) /\ Attached(EnterFallback(u, conn))
<1>. DEFINE a == AbortRequest(u)
            r == EnterFallback(u, conn)
<1>1. a \in Ui /\ a.request = NoRequest
    BY AbortOK DEF WindowOK
<1>2. StreamOK(Closed, L, c) /\ Closed \in Stream
    BY ClosedOK DEF StreamOK
<1>3. r = [a EXCEPT !.stream = Closed, !.timer = FALSE, !.compact = FALSE,
                    !.healthy = FALSE, !.conn = conn]
    BY DEF EnterFallback
<1>. HIDE DEF a, r
<1>4. r \in Ui /\ r.stream = Closed /\ r.request = NoRequest /\ r.conn = conn
    BY <1>1, <1>2, <1>3 DEF Ui, Connections
<1>5. WindowOK(r, L, c) /\ Attached(r)
    BY <1>2, <1>4 DEF WindowOK, Attached, NoRequest
<1>. QED
    BY <1>5 DEF r

LEMMA CompactOK ==
    ASSUME NEW L, NEW c, NEW u, WindowOK(u, L, c), Attached(u), NEW b \in BOOLEAN,
           NEW r, r = [u EXCEPT !.compact = b]
    PROVE  WindowOK(r, L, c) /\ Attached(r)
<1>1. /\ r \in Ui
      /\ r.request = u.request
      /\ r.stream = u.stream
      /\ r.conn = u.conn
    BY DEF WindowOK, Ui
<1>. QED
    BY <1>1 DEF WindowOK, Attached

LEMMA ScheduledOK ==
    ASSUME NEW L, NEW c, NEW u, WindowOK(u, L, c), Attached(u),
           NEW r \in CompactScheduled(u)
    PROVE  WindowOK(r, L, c) /\ Attached(r)
<1>1. u.healthy \in BOOLEAN
    BY DEF WindowOK, Ui
<1>2. PICK b \in BOOLEAN: r = [u EXCEPT !.compact = b]
    BY <1>1 DEF CompactScheduled
<1>. QED
    BY <1>2, CompactOK

LEMMA LoadOK ==
    ASSUME log \in Seq(Event),
           NEW L, NEW c, NEW u, WindowOK(u, L, c),
           NEW reason \in {"initial", "manual", "cursor_recovery", "compact"},
           reason = "compact" => Attached(u),
           NEW task \in BOOLEAN
    PROVE  /\ WindowOK(LoadSnapshot(u, reason, task), L, c)
           /\ Attached(LoadSnapshot(u, reason, task))
<1>. DEFINE a == AbortRequest(u)
            sent == [what |-> "snapshot", reason |-> reason, since |-> Len(log),
                     cursor |-> 0, task |-> task]
            r == LoadSnapshot(u, reason, task)
<1>1. WindowOK(a, L, c) /\ a.conn = u.conn /\ a.stream = u.stream
    BY AbortOK
<1>2. sent \in Request /\ sent.what = "snapshot"
    BY DEF Request
<1>3. \/ reason = "compact" /\ r = [a EXCEPT !.request = sent]
      \/ \E conn \in {"recovering", "connecting"}:
            r = [a EXCEPT !.request = sent, !.healthy = FALSE, !.conn = conn]
    BY DEF LoadSnapshot
<1>. HIDE DEF a, sent, r
<1>4. CASE reason = "compact" /\ r = [a EXCEPT !.request = sent]
    <2>1. /\ r \in Ui
          /\ r.request = sent
          /\ r.stream = u.stream
          /\ r.conn = u.conn
        BY <1>1, <1>2, <1>4 DEF WindowOK, Ui
    <2>2. WindowOK(r, L, c) /\ Attached(r)
        BY <2>1, <1>2, <1>4 DEF WindowOK, Attached
    <2>. QED
        BY <2>2 DEF r
<1>5. CASE \E conn \in {"recovering", "connecting"}:
            r = [a EXCEPT !.request = sent, !.healthy = FALSE, !.conn = conn]
    <2>1. /\ r \in Ui
          /\ r.request = sent
          /\ r.stream = u.stream
          /\ r.conn # "connected"
        BY <1>1, <1>2, <1>5 DEF WindowOK, Ui, Connections
    <2>2. WindowOK(r, L, c) /\ Attached(r)
        BY <2>1, <1>2 DEF WindowOK, Attached
    <2>. QED
        BY <2>2 DEF r
<1>. QED
    BY <1>3, <1>4, <1>5

LEMMA ResyncOK ==
    ASSUME log \in Seq(Event),
           NEW L, NEW c, NEW u, WindowOK(u, L, c), Attached(u), NEW task \in BOOLEAN
    PROVE  WindowOK(Resync(u, task), L, c) /\ Attached(Resync(u, task))
    BY LoadOK DEF Resync

LEMMA ReconnectOK ==
    ASSUME NEW L \in Seq(Event), NEW c \in Nat, NEW u, WindowOK(u, L, c), Attached(u)
    PROVE  WindowOK(ScheduleReconnect(u), L, c) /\ Attached(ScheduleReconnect(u))
<1>. DEFINE v == [u EXCEPT !.tries = @ + 1]
            w == [u EXCEPT !.tries = @ + 1, !.timer = TRUE, !.healthy = FALSE,
                           !.conn = "reconnecting"]
<1>1. u \in Ui /\ u.tries + 1 \in Nat
    BY DEF WindowOK, Ui
<1>2. /\ v \in Ui
      /\ v.request = u.request
      /\ v.stream = u.stream
    BY <1>1 DEF Ui
<1>3. /\ w \in Ui
      /\ w.request = u.request
      /\ w.stream = u.stream
      /\ w.conn = "reconnecting"
    BY <1>1 DEF Ui, Connections
<1>4. ScheduleReconnect(u) \in {u, EnterFallback(v, "fallback"), w}
    BY DEF ScheduleReconnect
<1>. HIDE DEF v, w
<1>5. WindowOK(v, L, c)
    BY <1>2 DEF WindowOK
<1>6. WindowOK(EnterFallback(v, "fallback"), L, c) /\ Attached(EnterFallback(v, "fallback"))
    BY <1>5, FallbackOK
<1>7. WindowOK(w, L, c) /\ Attached(w)
    BY <1>3 DEF WindowOK, Attached
<1>. QED
    BY <1>4, <1>6, <1>7

LEMMA RecoverOK ==
    ASSUME log \in Seq(Event),
           NEW L \in Seq(Event), NEW c \in Nat, NEW u, WindowOK(u, L, c)
    PROVE  WindowOK(RecoverCursor(u), L, c) /\ Attached(RecoverCursor(u))
<1>. DEFINE v == [u EXCEPT !.stream = Closed, !.recoveries = @ + 1]
<1>1. StreamOK(Closed, L, c) /\ Closed \in Stream
    BY ClosedOK DEF StreamOK
<1>a. u \in Ui /\ u.recoveries \in Nat /\ u.recoveries + 1 \in Nat
    BY DEF WindowOK, Ui
<1>2. /\ v \in Ui
      /\ v.request = u.request
      /\ v.stream = Closed
    BY <1>1, <1>a DEF Ui
<1>3. RecoverCursor(u) \in {LoadSnapshot(v, "cursor_recovery", FALSE), EnterFallback(v, "fallback")}
    BY DEF RecoverCursor
<1>. HIDE DEF v
<1>4. WindowOK(v, L, c)
    BY <1>1, <1>2 DEF WindowOK
<1>. QED
    BY <1>3, <1>4, LoadOK, FallbackOK

LEMMA FetchFailedOK ==
    ASSUME NEW L, NEW c, NEW u, WindowOK(u, L, c), Attached(u)
    PROVE  WindowOK(FetchFailed(u), L, c) /\ Attached(FetchFailed(u))
<1>. DEFINE r == FetchFailed(u)
<1>1. Finished(u.work, "jobs") \in [Resources -> Work]
    BY FinishedWork DEF WindowOK, Ui, Resources
<1>2. [u.work EXCEPT !["jobs"] = "queued"] \in [Resources -> Work]
    BY DEF WindowOK, Ui, Work
<1>a. /\ u.retried = FALSE =>
            r = [u EXCEPT !.work = [u.work EXCEPT !["jobs"] = "queued"], !.since = 0,
                          !.retried = TRUE]
      /\ u.retried # FALSE =>
            r = [u EXCEPT !.work = Finished(u.work, "jobs"), !.since = 0,
                          !.retried = u.work["jobs"] = "again"]
    BY DEF FetchFailed, WindowOK, Ui
<1>3. \E w \in [Resources -> Work], b \in BOOLEAN:
         r = [u EXCEPT !.work = w, !.since = 0, !.retried = b]
    <2>. HIDE DEF r
    <2>1. CASE u.retried = FALSE
        BY <1>2, <1>a, <2>1
    <2>2. CASE u.retried # FALSE
        BY <1>1, <1>a, <2>2
    <2>. QED
        BY <2>1, <2>2
<1>. HIDE DEF r
<1>4. /\ r \in Ui
      /\ r.request = u.request
      /\ r.stream = u.stream
      /\ r.conn = u.conn
    <2>1. u \in Ui /\ 0 \in Nat
        BY DEF WindowOK
    <2>2. PICK w \in [Resources -> Work], b \in BOOLEAN:
             r = [u EXCEPT !.work = w, !.since = 0, !.retried = b]
        BY <1>3
    <2>. QED
        BY <2>1, <2>2 DEF Ui
<1>5. WindowOK(r, L, c) /\ Attached(r)
    BY <1>4 DEF WindowOK, Attached
<1>. QED
    BY <1>5 DEF r

-----------------------------------------------------------------------------
(* The stream. *)

LEMMA CursorRaised ==
    ASSUME NEW L \in Seq(Event), NEW c \in Nat, NEW d \in Nat, c <= d,
           NEW u, WindowOK(u, L, c)
    PROVE  WindowOK(u, L, d)
<1>1. u.request.what = "probe" => u.request.cursor <= d
    BY DEF WindowOK, Ui, Request
<1>2. \A i \in DOMAIN L: d < i => c < i
    OBVIOUS
<1>3. StreamOK(u.stream, L, d)
    BY <1>2 DEF WindowOK, StreamOK
<1>. QED
    BY <1>1, <1>3 DEF WindowOK

LEMMA StreamWith ==
    ASSUME NEW s \in Stream, NEW n \in Nat, NEW w \in Seq(Event)
    PROVE  /\ [s EXCEPT !.cursor = n, !.wire = w] \in Stream
           /\ [s EXCEPT !.cursor = n, !.wire = w].cursor = n
           /\ [s EXCEPT !.cursor = n, !.wire = w].wire = w
           /\ [s EXCEPT !.wire = w] \in Stream
           /\ [s EXCEPT !.wire = w].cursor = s.cursor
           /\ [s EXCEPT !.wire = w].wire = w
    BY DEF Stream

LEMMA SendOK ==
    ASSUME LogInv, NEW c \in Nat, NEW s, StreamOK(s, log, c),
           NEW i \in DOMAIN log,
           log[i].key \in Mine, i > s.cursor,
           \A j \in DOMAIN log: log[j].key \in Mine /\ j > s.cursor => j >= i,
           NEW r \in Stream, r.cursor = i, r.wire = Append(s.wire, log[i])
    PROVE  StreamOK(r, log, c)
<1>1. /\ s \in Stream
      /\ s.wire \in Seq(Event)
      /\ s.cursor \in Nat
      /\ i \in 1..Len(log)
      /\ log[i] \in Event
      /\ log[i].sequence = i
    BY DEF StreamOK, Stream, LogInv, NumberedAsCommitted
<1>3. /\ DOMAIN r.wire = 1..(Len(s.wire) + 1)
      /\ DOMAIN s.wire = 1..Len(s.wire)
      /\ Len(s.wire) \in Nat
      /\ r.wire[Len(s.wire) + 1] = log[i]
      /\ \A a \in DOMAIN s.wire: r.wire[a] = s.wire[a]
    BY <1>1
<1>4. \A a \in DOMAIN r.wire:
        /\ r.wire[a].sequence \in 1..r.cursor
        /\ log[r.wire[a].sequence] = r.wire[a]
        /\ r.wire[a].key \in Mine
    BY <1>1, <1>3 DEF StreamOK
<1>5. \A a, b \in DOMAIN r.wire: a < b => r.wire[a].sequence < r.wire[b].sequence
    BY <1>1, <1>3 DEF StreamOK
<1>6. ASSUME NEW j \in DOMAIN log, log[j].key \in Mine, c < j, j <= i
      PROVE  \E a \in DOMAIN r.wire: r.wire[a] = log[j]
    <2>1. CASE j <= s.cursor
        BY <1>3, <1>6, <2>1 DEF StreamOK
    <2>2. CASE j > s.cursor
        <3>1. j = i
            BY <1>1, <1>6, <2>2 DEF LogInv
        <3>. QED
            BY <1>3, <3>1
    <2>. QED
        BY <1>1, <1>6, <2>1, <2>2 DEF LogInv
<1>7. r.cursor <= Len(log)
    BY <1>1 DEF LogInv
<1>. QED
    BY <1>4, <1>5, <1>6, <1>7 DEF StreamOK

LEMMA ReceiveOK ==
    ASSUME LogInv, NEW c \in Nat, NEW s, StreamOK(s, log, c), s.wire # << >>,
           NEW d \in Nat, c <= d, s.wire[1].sequence <= d,
           NEW r, r = [s EXCEPT !.wire = Tail(s.wire)]
    PROVE  StreamOK(r, log, d)
<1>1. s \in Stream /\ s.wire \in Seq(Event) /\ s.cursor \in Nat
    BY DEF StreamOK, Stream
<1>w. Tail(s.wire) \in Seq(Event)
    BY <1>1
<1>2. /\ r \in Stream
      /\ r.cursor = s.cursor
      /\ r.wire = Tail(s.wire)
    BY <1>1, <1>w, StreamWith
<1>3. /\ Len(s.wire) \in Nat \ {0}
      /\ DOMAIN s.wire = 1..Len(s.wire)
      /\ DOMAIN r.wire = 1..(Len(s.wire) - 1)
      /\ \A a \in DOMAIN r.wire: r.wire[a] = s.wire[a + 1]
    BY <1>1, <1>2
<1>n. \A a \in DOMAIN r.wire: a + 1 \in DOMAIN s.wire /\ a \in Nat
    BY <1>3
<1>4. \A a \in DOMAIN r.wire:
        /\ r.wire[a].sequence \in 1..r.cursor
        /\ log[r.wire[a].sequence] = r.wire[a]
        /\ r.wire[a].key \in Mine
    <2>. SUFFICES ASSUME NEW a \in DOMAIN r.wire
                  PROVE  /\ r.wire[a].sequence \in 1..r.cursor
                         /\ log[r.wire[a].sequence] = r.wire[a]
                         /\ r.wire[a].key \in Mine
        OBVIOUS
    <2>. DEFINE b == a + 1
    <2>1. b \in DOMAIN s.wire /\ r.wire[a] = s.wire[b]
        BY <1>3, <1>n
    <2>. HIDE DEF b
    <2>. QED
        BY <1>2, <2>1 DEF StreamOK
<1>5. ASSUME NEW a \in DOMAIN r.wire, NEW b \in DOMAIN r.wire, a < b
      PROVE  r.wire[a].sequence < r.wire[b].sequence
    <2>. DEFINE f == a + 1
                g == b + 1
    <2>1. /\ f \in DOMAIN s.wire
          /\ g \in DOMAIN s.wire
          /\ f < g
          /\ r.wire[a] = s.wire[f]
          /\ r.wire[b] = s.wire[g]
        BY <1>3, <1>n, <1>5
    <2>. HIDE DEF f, g
    <2>. QED
        BY <2>1 DEF StreamOK
<1>6. ASSUME NEW j \in DOMAIN log, log[j].key \in Mine, d < j, j <= r.cursor
      PROVE  \E a \in DOMAIN r.wire: r.wire[a] = log[j]
    <2>1. j \in Nat /\ log[j].sequence = j /\ c < j
        BY <1>6 DEF LogInv, NumberedAsCommitted
    <2>2. PICK a \in DOMAIN s.wire: s.wire[a] = log[j]
        BY <1>2, <1>6, <2>1 DEF StreamOK
    <2>3. a # 1
        BY <1>1, <1>6, <2>1, <2>2
    <2>. DEFINE b == a - 1
    <2>4. b \in DOMAIN r.wire /\ b + 1 = a
        BY <1>3, <2>3
    <2>5. r.wire[b] = s.wire[a]
        BY <1>3, <2>4
    <2>. HIDE DEF b
    <2>. QED
        BY <2>2, <2>4, <2>5
<1>. QED
    BY <1>2, <1>4, <1>5, <1>6 DEF StreamOK

LEMMA HeadIsNext ==
    ASSUME LogInv, NEW c \in Nat, NEW s, StreamOK(s, log, c), s.wire # << >>,
           c < s.wire[1].sequence
    PROVE  /\ s.wire[1].sequence \in 1..Len(log)
           /\ s.wire[1] = log[s.wire[1].sequence]
           /\ RowsOf(log, s.wire[1].sequence) = RowsOf(log, c) \cup {s.wire[1].key}
<1>. DEFINE e == s.wire[1]
<1>1. /\ s.wire \in Seq(Event)
      /\ s.cursor \in Nat
      /\ 1 \in DOMAIN s.wire
      /\ DOMAIN s.wire = 1..Len(s.wire)
    BY DEF StreamOK, Stream
<1>2. /\ e.sequence \in 1..Len(log)
      /\ e = log[e.sequence]
      /\ e.key \in Mine
      /\ e.sequence <= s.cursor
    BY <1>1 DEF StreamOK, LogInv
<1>3. ASSUME NEW i \in DOMAIN log, c < i, i < e.sequence
      PROVE  log[i].key \notin Mine
    <2>1. SUFFICES ASSUME log[i].key \in Mine
                   PROVE  FALSE
        OBVIOUS
    <2>2. i <= s.cursor
        BY <1>1, <1>2, <1>3 DEF LogInv
    <2>3. PICK a \in DOMAIN s.wire: s.wire[a] = log[i]
        BY <1>3, <2>1, <2>2 DEF StreamOK
    <2>4. s.wire[a].sequence = i
        BY <2>3 DEF LogInv, NumberedAsCommitted
    <2>5. a = 1 \/ e.sequence < s.wire[a].sequence
        BY <1>1 DEF StreamOK
    <2>. QED
        BY <1>2, <1>3, <2>4, <2>5
<1>4. \A i \in 1..e.sequence: i \in DOMAIN log
    BY <1>2 DEF LogInv
<1>5. 1..c \subseteq 1..e.sequence
    BY <1>2
<1>6. ASSUME NEW k \in RowsOf(log, e.sequence)
      PROVE  k \in RowsOf(log, c) \cup {e.key}
    <2>1. PICK i \in 1..e.sequence: log[i].key = k
        BY <1>6 DEF RowsOf
    <2>2. i \in 1..c \/ i = e.sequence
        BY <1>2, <1>3, <1>4, <1>6, <2>1 DEF RowsOf
    <2>. QED
        BY <1>2, <1>6, <2>1, <2>2 DEF RowsOf
<1>7. RowsOf(log, c) \cup {e.key} \subseteq RowsOf(log, e.sequence)
    BY <1>2, <1>5 DEF RowsOf
<1>. QED
    BY <1>2, <1>6, <1>7

-----------------------------------------------------------------------------
(* The steps. *)

LEMMA ClientKeepsLog ==
    ASSUME LogInv, ClientStep
    PROVE  LogInv' /\ log' = log
    BY DEF ClientStep, logVars, LogInv, NumberedAsCommitted

\* A step that touches neither the log nor what the window shows.
LEMMA WindowStepOK ==
    ASSUME IInv, ClientStep, live' = live,
           WindowOK(ui', log, live.cursor), Attached(ui'),
           copy' \in Nat, disturbed' \in 0..MaxDisturbances
    PROVE  IInv' /\ live.shown \subseteq live'.shown
<1>1. LogInv' /\ log' = log
    BY ClientKeepsLog DEF IInv
<1>2. LiveOK(live', log')
    BY <1>1 DEF IInv
<1>3. WindowOK(ui', log', live'.cursor)
    BY <1>1
<1>. QED
    BY <1>1, <1>2, <1>3 DEF IInv

LEMMA DisturbsOK ==
    ASSUME disturbed \in 0..MaxDisturbances, Disturbs
    PROVE  disturbed' \in 0..MaxDisturbances
    BY LiveFeedAssumption DEF Disturbs

\* The facts every step starts from.
LEMMA Known ==
    ASSUME IInv
    PROVE  /\ log \in Seq(Event)
           /\ Len(log) \in Nat
           /\ live \in Live
           /\ live.cursor \in Nat
           /\ live.cursor <= Len(log)
           /\ ui \in Ui
           /\ ui.stream \in Stream
           /\ ui.request \in Request
           /\ ui.work \in [Resources -> Work]
           /\ \A n \in 0..Len(log): LastSequence(n) = n
    BY DEF IInv, LogInv, NumberedAsCommitted, LiveOK, Live, WindowOK, Ui, LastSequence

LEMMA KnownLive ==
    ASSUME IInv
    PROVE  /\ live.installed = TRUE \/ live.cursor = 0
           /\ live.shown = RowsOf(log, live.cursor)
           /\ live.seen \in SUBSET Keys
           /\ \A i \in DOMAIN log: log[i] \in Event
    BY DEF IInv, LogInv, LiveOK, Live

\* What the window shows after it took a snapshot or an event.
LEMMA ShownOK ==
    ASSUME NEW L \in Seq(Event), NEW n \in 0..Len(L), NEW shown, shown = RowsOf(L, n),
           NEW seen \in SUBSET Keys,
           NEW l, l = [installed |-> TRUE, cursor |-> n, shown |-> shown, seen |-> seen]
    PROVE  LiveOK(l, L)
<1>1. \A i \in 1..n: i \in DOMAIN L
    OBVIOUS
<1>2. \A i \in DOMAIN L: L[i].key \in Keys
    <2>1. \A i \in DOMAIN L: L[i] \in Event
        OBVIOUS
    <2>. QED
        BY <2>1 DEF Event
<1>3. shown \in SUBSET Keys
    BY <1>1, <1>2 DEF RowsOf
<1>4. n \in Nat /\ n <= Len(L)
    OBVIOUS
<1>. QED
    BY <1>3, <1>4 DEF LiveOK, Live

LEMMA LogStepOK ==
    ASSUME IInv, LogStep
    PROVE  IInv' /\ live.shown \subseteq live'.shown
<1>1. /\ LogInv'
      /\ log' = log \/ \E e \in Event: log' = Append(log, e)
    BY LogKept DEF IInv, LogStep
<1>2. UNCHANGED <<ui, live, copy, disturbed>>
    BY DEF LogStep
<1>3. WindowOK(ui, log', live.cursor)
    BY <1>1, Known, StreamOutlivesLog DEF IInv, WindowOK
<1>4. LiveOK(live, log')
    <2>1. CASE log' = log
        BY <2>1 DEF IInv
    <2>2. ASSUME NEW e \in Event, log' = Append(log, e)
          PROVE  LiveOK(live, log')
        <3>1. RowsOf(log', live.cursor) = RowsOf(log, live.cursor)
            BY <2>2, Known, RowsOutliveLog
        <3>2. live.cursor <= Len(log')
            BY <2>2, Known
        <3>. QED
            BY <3>1, <3>2 DEF IInv, LiveOK
    <2>. QED
        BY <1>1, <2>1, <2>2
<1>. QED
    BY <1>1, <1>2, <1>3, <1>4 DEF IInv

\* Between two instants of the log, rows only come.
LEMMA RowsGrow ==
    ASSUME NEW L, NEW m \in Nat, NEW n \in Nat, m <= n
    PROVE  RowsOf(L, m) \subseteq RowsOf(L, n)
<1>1. 1..m \subseteq 1..n
    OBVIOUS
<1>. QED
    BY <1>1 DEF RowsOf

LEMMA SnapshotArrivesOK ==
    ASSUME IInv, NEW n \in 0..Len(log), SnapshotArrives(n)
    PROVE  IInv' /\ live.shown \subseteq live'.shown
<1>1. ClientStep /\ disturbed' = disturbed /\ LastSequence(n) = n /\ n \in Nat
    BY Known DEF SnapshotArrives
<1>2. CASE Older(n)
    <2>1. ui' \in CompactScheduled(AbortRequest(ui)) /\ UNCHANGED <<live, copy>>
        BY <1>1, <1>2 DEF SnapshotArrives
    <2>2. WindowOK(AbortRequest(ui), log, live.cursor) /\ Attached(AbortRequest(ui))
        BY AbortOK DEF IInv, Attached
    <2>3. WindowOK(ui', log, live.cursor) /\ Attached(ui')
        BY <2>1, <2>2, ScheduledOK
    <2>. QED
        BY <1>1, <2>1, <2>3, WindowStepOK DEF IInv
<1>3. CASE ~Older(n)
    <2>1. /\ live' = [installed |-> TRUE, cursor |-> n, shown |-> Rows(n),
                      seen |-> live.seen \cup Latest(n)]
          /\ copy' = copy
          /\ \/ ui' \in CompactScheduled(AbortRequest(ui))
             \/ ui' = [ui EXCEPT !.request.what = "probe", !.request.since = 0,
                                 !.request.cursor = n]
        BY <1>1, <1>3 DEF SnapshotArrives
    <2>2. live.cursor <= n
        <3>1. CASE live.installed = TRUE
            BY <1>1, <1>3, <3>1, Known DEF Older
        <3>2. CASE live.cursor = 0
            BY <1>1, <3>2
        <3>. QED
            BY <3>1, <3>2, KnownLive
    <2>3. WindowOK(ui, log, n)
        BY <1>1, <2>2, Known, CursorRaised DEF IInv
    <2>4. WindowOK(ui', log, n) /\ Attached(ui')
        <3>1. CASE ui' \in CompactScheduled(AbortRequest(ui))
            <4>1. /\ WindowOK(AbortRequest(ui), log, n)
                  /\ AbortRequest(ui).stream = ui.stream
                  /\ AbortRequest(ui).conn = ui.conn
                BY <2>3, AbortOK
            <4>2. Attached(AbortRequest(ui))
                BY <4>1 DEF IInv, Attached
            <4>. QED
                BY <3>1, <4>1, <4>2, ScheduledOK
        <3>2. CASE ui' = [ui EXCEPT !.request.what = "probe", !.request.since = 0,
                                    !.request.cursor = n]
            <4>1. /\ ui' \in Ui
                  /\ ui'.request.cursor = n
                  /\ ui'.stream = ui.stream
                  /\ ui'.conn = ui.conn
                BY <1>1, <3>2, Known DEF Ui, Request
            <4>. QED
                BY <1>1, <2>3, <4>1 DEF IInv, WindowOK, Attached
        <3>. QED
            BY <2>1, <3>1, <3>2
    <2>5. Rows(n) = RowsOf(log, n)
        BY DEF Rows, RowsOf
    <2>6. live.seen \cup Latest(n) \in SUBSET Keys
        <3>1. \A i \in 1..n: i \in DOMAIN log
            BY Known
        <3>2. \A i \in 1..n: log[i].key \in Keys
            BY <3>1, KnownLive DEF Event
        <3>3. Latest(n) \in SUBSET Keys
            BY <3>2 DEF Latest
        <3>. QED
            BY <3>3, KnownLive
    <2>7. LiveOK(live', log)
        BY <2>1, <2>5, <2>6, Known, ShownOK
    <2>8. live.shown \subseteq live'.shown
        BY <1>1, <2>1, <2>2, <2>5, Known, KnownLive, RowsGrow
    <2>9. copy' \in Nat
        BY <1>1, <2>1 DEF IInv
    <2>10. live'.cursor = n
        BY <2>1
    <2>11. LogInv' /\ log' = log
        BY <1>1, ClientKeepsLog DEF IInv
    <2>. QED
        BY <1>1, <2>4, <2>7, <2>8, <2>9, <2>10, <2>11 DEF IInv
<1>. QED
    BY <1>2, <1>3

LEMMA SnapshotFailsOK ==
    ASSUME IInv, SnapshotFails
    PROVE  IInv' /\ live.shown \subseteq live'.shown
<1>1. WindowOK(ui', log, live.cursor) /\ Attached(ui')
    BY Known, FallbackOK DEF IInv, SnapshotFails
<1>. QED
    BY <1>1, WindowStepOK, DisturbsOK DEF IInv, SnapshotFails

LEMMA ProbeAnswersOK ==
    ASSUME IInv, ProbeAnswers
    PROVE  IInv' /\ live.shown \subseteq live'.shown
<1>. DEFINE a == AbortRequest(ui)
            s == [phase |-> "opening", cursor |-> ui.request.cursor, wire |-> << >>]
<1>1. /\ WindowOK(a, log, live.cursor)
      /\ a.request = NoRequest
      /\ a.conn = ui.conn
      /\ a.stream = ui.stream
    BY AbortOK DEF IInv
<1>2. CASE Overtaken(ui.request.cursor)
    BY <1>1, <1>2, WindowStepOK DEF IInv, ProbeAnswers, Attached
<1>3. CASE ~Overtaken(ui.request.cursor)
    <2>1. ui.request.cursor = live.cursor
        BY <1>3, Known DEF IInv, ProbeAnswers, Overtaken, WindowOK, Request
    <2>2. StreamOK(s, log, live.cursor)
        BY <2>1, Known DEF StreamOK, Stream
    <2>3. \E conn \in {"connecting", "reconnecting"}:
             ui' = [a EXCEPT !.stream = s, !.healthy = FALSE, !.conn = conn]
        BY <1>3 DEF ProbeAnswers
    <2>. HIDE DEF a, s
    <2>4. /\ ui' \in Ui
          /\ ui'.request = NoRequest
          /\ ui'.stream = s
          /\ ui'.conn # "connected"
        BY <1>1, <2>2, <2>3 DEF WindowOK, Ui, Connections, StreamOK
    <2>5. WindowOK(ui', log, live.cursor) /\ Attached(ui')
        BY <2>2, <2>4 DEF WindowOK, Attached, NoRequest
    <2>. QED
        BY <2>5, WindowStepOK DEF IInv, ProbeAnswers
<1>. QED
    BY <1>2, <1>3

LEMMA ProbeFailsOK ==
    ASSUME IInv, ProbeFails
    PROVE  IInv' /\ live.shown \subseteq live'.shown
<1>1. WindowOK(AbortRequest(ui), log, live.cursor) /\ Attached(AbortRequest(ui))
    BY AbortOK DEF IInv, Attached
<1>2. WindowOK(ui', log, live.cursor) /\ Attached(ui')
    BY <1>1, Known, ReconnectOK, FallbackOK DEF IInv, ProbeFails
<1>. QED
    BY <1>2, WindowStepOK, DisturbsOK DEF IInv, ProbeFails

LEMMA StreamOpensOK ==
    ASSUME IInv, StreamOpens
    PROVE  IInv' /\ live.shown \subseteq live'.shown
<1>. DEFINE s == [ui.stream EXCEPT !.phase = "open"]
            u == [ui EXCEPT !.stream = s, !.tries = 0, !.conn = "connected", !.healthy = TRUE]
<1>1. ui' \in CompactScheduled(u)
    BY Known DEF StreamOpens, Ui
<1>2. s \in Stream /\ s.phase = "open" /\ s.cursor = ui.stream.cursor /\ s.wire = ui.stream.wire
    BY Known DEF Stream
<1>3. StreamOK(s, log, live.cursor)
    BY <1>2 DEF IInv, WindowOK, StreamOK
<1>. HIDE DEF s
<1>4. /\ u \in Ui
      /\ u.request = ui.request
      /\ u.stream = s
    BY <1>2, Known DEF Ui, Connections
<1>. HIDE DEF u
<1>5. WindowOK(u, log, live.cursor) /\ Attached(u)
    BY <1>2, <1>3, <1>4 DEF IInv, WindowOK, Attached
<1>6. WindowOK(ui', log, live.cursor) /\ Attached(ui')
    BY <1>1, <1>5, ScheduledOK
<1>. QED
    BY <1>6, WindowStepOK DEF IInv, StreamOpens

LEMMA StreamSendsOK ==
    ASSUME IInv, NEW i \in DOMAIN log, StreamSends(i)
    PROVE  IInv' /\ live.shown \subseteq live'.shown
<1>. DEFINE w == Append(ui.stream.wire, log[i])
            s == [ui.stream EXCEPT !.cursor = i, !.wire = w]
<1>1. \A j \in DOMAIN log: log[j].sequence = j
    BY DEF IInv, LogInv, NumberedAsCommitted
<1>2. /\ log[i].key \in Mine
      /\ i > ui.stream.cursor
      /\ \A j \in DOMAIN log: log[j].key \in Mine /\ j > ui.stream.cursor => j >= i
    BY <1>1 DEF StreamSends, NextToSend, Unsent
<1>3. /\ ui' = [ui EXCEPT !.stream = s]
    BY <1>1, Known DEF StreamSends, Ui, Stream
<1>4. w \in Seq(Event) /\ i \in Nat
    BY Known DEF Stream
<1>5. s \in Stream /\ s.cursor = i /\ s.wire = w /\ s.phase = ui.stream.phase
    <2>. HIDE DEF w
    <2>. QED
        BY <1>4, Known DEF Stream
<1>6. StreamOK(s, log, live.cursor)
    BY <1>2, <1>5, Known, SendOK DEF IInv, WindowOK
<1>. HIDE DEF s
<1>7. /\ ui' \in Ui
      /\ ui'.request = ui.request
      /\ ui'.stream = s
      /\ ui'.conn = ui.conn
    BY <1>3, <1>5, Known DEF Ui
<1>8. WindowOK(ui', log, live.cursor) /\ Attached(ui')
    BY <1>5, <1>6, <1>7 DEF IInv, WindowOK, Attached
<1>. QED
    BY <1>8, WindowStepOK DEF IInv, StreamSends

\* The window without the head of the wire, when the cursor is at d.
LEMMA WithoutHeadOK ==
    ASSUME IInv, ui.stream.wire # << >>,
           NEW d \in Nat, live.cursor <= d, ui.stream.wire[1].sequence <= d,
           NEW n \in Nat, NEW w \in [Resources -> Work],
           NEW u, u = [ui EXCEPT !.stream = [ui.stream EXCEPT !.wire = Tail(ui.stream.wire)],
                                 !.recoveries = n, !.work = w]
    PROVE  WindowOK(u, log, d) /\ Attached(u)
<1>. DEFINE s == [ui.stream EXCEPT !.wire = Tail(ui.stream.wire)]
<1>1. StreamOK(s, log, d)
    BY Known, ReceiveOK DEF IInv, WindowOK
<1>2. s.phase = ui.stream.phase
    BY Known DEF Stream
<1>3. s \in Stream /\ u = [ui EXCEPT !.stream = s, !.recoveries = n, !.work = w]
    BY <1>1 DEF StreamOK
<1>. HIDE DEF s
<1>4. /\ u \in Ui
      /\ u.request = ui.request
      /\ u.stream = s
      /\ u.conn = ui.conn
    BY <1>3, Known DEF Ui
<1>5. u.request.what = "probe" => u.request.cursor <= d
    BY <1>4, Known DEF IInv, WindowOK, Request
<1>. QED
    BY <1>1, <1>2, <1>4, <1>5 DEF IInv, WindowOK, Attached

LEMMA EventArrivesOK ==
    ASSUME IInv, EventArrives
    PROVE  IInv' /\ live.shown \subseteq live'.shown
<1>. DEFINE e == ui.stream.wire[1]
            s == [ui.stream EXCEPT !.wire = Tail(ui.stream.wire)]
            u == [ui EXCEPT !.stream = s]
<1>1. /\ ClientStep
      /\ UNCHANGED <<copy, disturbed>>
      /\ ui.stream.wire # << >>
      /\ Head(ui.stream.wire) = e
    BY DEF EventArrives
<1>2. /\ e \in Event
      /\ e.sequence \in 1..ui.stream.cursor
      /\ e.sequence \in Nat
      /\ StreamOK(ui.stream, log, live.cursor)
    <2>1. StreamOK(ui.stream, log, live.cursor)
        BY DEF IInv, WindowOK
    <2>2. ui.stream.wire \in Seq(Event)
        BY Known DEF Stream
    <2>3. 1 \in DOMAIN ui.stream.wire /\ e \in Event
        BY <1>1, <2>2
    <2>4. e.sequence \in 1..ui.stream.cursor
        BY <2>1, <2>3 DEF StreamOK
    <2>. QED
        BY <2>1, <2>3, <2>4 DEF Event
<1>3. [ui EXCEPT !.stream.wire = Tail(@)] = u
    BY Known DEF Ui, Stream
<1>4. CASE Applied(e)
    <2>1. live.cursor < e.sequence
        BY <1>4 DEF Applied
    <2>2. /\ e.sequence \in 1..Len(log)
          /\ RowsOf(log, e.sequence) = RowsOf(log, live.cursor) \cup {e.key}
        BY <1>1, <1>2, <2>1, Known, HeadIsNext DEF IInv
    <2>3. live' = [live EXCEPT !.cursor = e.sequence, !.shown = @ \cup {e.key},
                               !.seen = @ \cup {e.key}]
        BY <1>1, <1>4 DEF EventArrives
    <2>4. LiveOK(live', log)
        <3>1. live' = [installed |-> TRUE, cursor |-> e.sequence,
                       shown |-> live.shown \cup {e.key}, seen |-> live.seen \cup {e.key}]
            BY <1>4, <2>3, Known DEF Live, Applied
        <3>2. live.seen \cup {e.key} \in SUBSET Keys
            BY <1>2, KnownLive DEF Event
        <3>. QED
            <4>1. /\ live.shown \cup {e.key} = RowsOf(log, e.sequence)
                  /\ e.sequence \in 0..Len(log)
                  /\ log \in Seq(Event)
                BY <2>2, Known, KnownLive
            <4>. HIDE DEF e
            <4>. QED
                BY <3>1, <3>2, <4>1, ShownOK
    <2>5. live'.cursor = e.sequence /\ live.shown \subseteq live'.shown
        BY <2>3, Known DEF Live
    <2>6. PICK w \in [Resources -> Work]:
             ui' = [u EXCEPT !.recoveries = 0, !.work = w]
        <3>1. Invalidated(u.work, Touches(e.key)) \in [Resources -> Work]
            BY Known, InvalidatedWork DEF Ui
        <3>2. u.work \in [Resources -> Work]
            BY Known DEF Ui
        <3>3. ui' = [u EXCEPT !.recoveries = 0,
                              !.work = IF e.key \in live.seen THEN u.work
                                       ELSE Invalidated(u.work, Touches(e.key))]
            BY <1>1, <1>3, <1>4 DEF EventArrives
        <3>. QED
            BY <3>1, <3>2, <3>3
    <2>7. ui' = [ui EXCEPT !.stream = s, !.recoveries = 0, !.work = w]
        <3>. HIDE DEF s
        <3>. QED
            BY <2>6, Known DEF Ui
    <2>8. WindowOK(ui', log, e.sequence) /\ Attached(ui')
        <3>1. /\ live.cursor <= e.sequence
              /\ e.sequence <= e.sequence
              /\ 0 \in Nat
            BY <1>2, <2>1, Known
        <3>. QED
            BY <1>1, <1>2, <2>7, <3>1, WithoutHeadOK
    <2>9. LogInv' /\ log' = log
        BY <1>1, ClientKeepsLog DEF IInv
    <2>. QED
        BY <1>1, <2>4, <2>5, <2>8, <2>9 DEF IInv
<1>5. CASE ~Applied(e) /\ Ignored(e)
    <2>1. ui' = u /\ live' = live
        BY <1>1, <1>3, <1>5 DEF EventArrives
    <2>2. e.sequence <= live.cursor
        BY <1>2, <1>5, Known DEF Applied, Ignored
    <2>3. /\ ui' = [ui EXCEPT !.stream = s, !.recoveries = ui.recoveries, !.work = ui.work]
          /\ ui.recoveries \in Nat
        <3>. HIDE DEF s
        <3>. QED
            BY <2>1, Known DEF Ui
    <2>4. WindowOK(ui', log, live.cursor) /\ Attached(ui')
        <3>1. /\ live.cursor \in Nat
              /\ live.cursor <= live.cursor
              /\ ui.work \in [Resources -> Work]
            BY Known
        <3>. QED
            BY <1>1, <2>2, <2>3, <3>1, WithoutHeadOK
    <2>. QED
        BY <1>1, <2>1, <2>4, WindowStepOK DEF IInv
<1>6. CASE ~Applied(e) /\ ~Ignored(e)
    <2>1. ui' = RecoverCursor(u) /\ live' = live
        BY <1>1, <1>3, <1>6 DEF EventArrives
    <2>2. RecoverCursor(u) = RecoverCursor(ui)
        <3>1. [u EXCEPT !.stream = Closed, !.recoveries = @ + 1]
                 = [ui EXCEPT !.stream = Closed, !.recoveries = @ + 1]
            BY Known DEF Ui
        <3>. QED
            BY <3>1 DEF RecoverCursor
    <2>3. WindowOK(ui', log, live.cursor) /\ Attached(ui')
        BY <2>1, <2>2, Known, RecoverOK DEF IInv
    <2>. QED
        BY <1>1, <2>1, <2>3, WindowStepOK DEF IInv
<1>. QED
    BY <1>4, <1>5, <1>6

LEMMA EventGarbledOK ==
    ASSUME IInv, EventGarbled
    PROVE  IInv' /\ live.shown \subseteq live'.shown
<1>1. WindowOK(ui', log, live.cursor) /\ Attached(ui')
    BY Known, RecoverOK DEF IInv, EventGarbled
<1>. QED
    BY <1>1, WindowStepOK, DisturbsOK DEF IInv, EventGarbled

LEMMA StreamBreaksOK ==
    ASSUME IInv, StreamBreaks
    PROVE  IInv' /\ live.shown \subseteq live'.shown
<1>. DEFINE u == [ui EXCEPT !.stream = Closed, !.compact = FALSE, !.healthy = FALSE,
                            !.conn = "disconnected"]
<1>1. StreamOK(Closed, log, live.cursor) /\ Closed \in Stream
    BY Known, ClosedOK DEF StreamOK
<1>2. /\ u \in Ui
      /\ u.request = ui.request
      /\ u.stream = Closed
      /\ u.conn = "disconnected"
    BY <1>1, Known DEF Ui, Connections
<1>3. ui' = ScheduleReconnect(u) \/ ui' = EnterFallback(u, "unsupported")
    BY DEF StreamBreaks
<1>. HIDE DEF u
<1>4. WindowOK(u, log, live.cursor) /\ Attached(u)
    BY <1>1, <1>2 DEF IInv, WindowOK, Attached
<1>5. WindowOK(ui', log, live.cursor) /\ Attached(ui')
    BY <1>3, <1>4, Known, ReconnectOK, FallbackOK
<1>. QED
    BY <1>5, WindowStepOK, DisturbsOK DEF IInv, StreamBreaks

LEMMA ReconnectTimerOK ==
    ASSUME IInv, ReconnectTimer
    PROVE  IInv' /\ live.shown \subseteq live'.shown
<1>. DEFINE a == AbortRequest(ui)
            q == [NoRequest EXCEPT !.what = "probe", !.cursor = live.cursor]
<1>1. /\ WindowOK(a, log, live.cursor)
      /\ a.conn = ui.conn
      /\ a.stream = ui.stream
    BY AbortOK DEF IInv
<1>2. q \in Request /\ q.cursor = live.cursor
    BY Known DEF NoRequest, Request
<1>3. \/ ui' = [a EXCEPT !.timer = FALSE, !.request = q]
      \/ ui' = [ui EXCEPT !.timer = FALSE]
    BY DEF ReconnectTimer
<1>. HIDE DEF a, q
<1>4. CASE ui' = [a EXCEPT !.timer = FALSE, !.request = q]
    <2>1. /\ ui' \in Ui
          /\ ui'.request = q
          /\ ui'.stream = ui.stream
          /\ ui'.conn = ui.conn
        BY <1>1, <1>2, <1>4 DEF WindowOK, Ui
    <2>2. WindowOK(ui', log, live.cursor) /\ Attached(ui')
        BY <1>2, <2>1, Known DEF IInv, WindowOK, Attached
    <2>. QED
        BY <2>2, WindowStepOK DEF IInv, ReconnectTimer
<1>5. CASE ui' = [ui EXCEPT !.timer = FALSE]
    <2>1. /\ ui' \in Ui
          /\ ui'.request = ui.request
          /\ ui'.stream = ui.stream
          /\ ui'.conn = ui.conn
        BY <1>5, Known DEF Ui
    <2>2. WindowOK(ui', log, live.cursor) /\ Attached(ui')
        BY <2>1 DEF IInv, WindowOK, Attached
    <2>. QED
        BY <2>2, WindowStepOK DEF IInv, ReconnectTimer
<1>. QED
    BY <1>3, <1>4, <1>5

\* Work and the time it was started are nobody else's business.
LEMMA WorkOK ==
    ASSUME NEW L, NEW c, NEW u, WindowOK(u, L, c), Attached(u),
           NEW w \in [Resources -> Work], NEW n \in Nat, NEW b \in BOOLEAN,
           NEW r, r = [u EXCEPT !.work = w, !.since = n, !.retried = b]
    PROVE  WindowOK(r, L, c) /\ Attached(r)
<1>1. /\ r \in Ui
      /\ r.request = u.request
      /\ r.stream = u.stream
      /\ r.conn = u.conn
    BY DEF WindowOK, Ui
<1>. QED
    BY <1>1 DEF WindowOK, Attached

LEMMA StartResyncOK ==
    ASSUME IInv, StartResync
    PROVE  IInv' /\ live.shown \subseteq live'.shown
<1>. DEFINE w == [ui.work EXCEPT !["live_state"] = "flying"]
            u == [ui EXCEPT !.work["live_state"] = "flying"]
<1>1. w \in [Resources -> Work]
    BY Known DEF Work
<1>2. u = [ui EXCEPT !.work = w, !.since = ui.since, !.retried = ui.retried]
    BY Known DEF Ui
<1>3. WindowOK(u, log, live.cursor) /\ Attached(u)
    <2>1. ui.since \in Nat /\ ui.retried \in BOOLEAN
        BY Known DEF Ui
    <2>. HIDE DEF w, u
    <2>. QED
        BY <1>1, <1>2, <2>1, WorkOK DEF IInv
<1>4. ui' = Resync(u, TRUE)
    BY DEF StartResync
<1>. HIDE DEF w, u
<1>5. WindowOK(ui', log, live.cursor) /\ Attached(ui')
    BY <1>3, <1>4, Known, ResyncOK
<1>. QED
    BY <1>5, WindowStepOK DEF IInv, StartResync

LEMMA StartFetchOK ==
    ASSUME IInv, StartFetch
    PROVE  IInv' /\ live.shown \subseteq live'.shown
<1>. DEFINE w == [ui.work EXCEPT !["jobs"] = "flying"]
<1>1. w \in [Resources -> Work]
    BY Known DEF Work
<1>2. ui' = [ui EXCEPT !.work = w, !.since = Len(log), !.retried = ui.retried]
    BY Known DEF Ui, StartFetch
<1>3. ui.retried \in BOOLEAN
    BY Known DEF Ui
<1>. HIDE DEF w
<1>4. WindowOK(ui', log, live.cursor) /\ Attached(ui')
    BY <1>1, <1>2, <1>3, Known, WorkOK DEF IInv
<1>. QED
    BY <1>4, WindowStepOK DEF IInv, StartFetch

LEMMA FetchArrivesOK ==
    ASSUME IInv, NEW n \in 0..Len(log), FetchArrives(n)
    PROVE  IInv' /\ live.shown \subseteq live'.shown
<1>. DEFINE w == Finished(ui.work, "jobs")
<1>1. w \in [Resources -> Work]
    BY Known, FinishedWork DEF Resources
<1>2. ui' = [ui EXCEPT !.work = w, !.since = 0, !.retried = FALSE]
    BY Known DEF Ui, FetchArrives
<1>3. copy' \in Nat
    <2>1. n \in Nat /\ copy' = n
        BY Known DEF FetchArrives
    <2>. QED
        BY <2>1 DEF IInv
<1>. HIDE DEF w
<1>4. WindowOK(ui', log, live.cursor) /\ Attached(ui')
    BY <1>1, <1>2, WorkOK DEF IInv
<1>. QED
    BY <1>3, <1>4, WindowStepOK DEF IInv, FetchArrives

LEMMA FetchFailsOK ==
    ASSUME IInv, FetchFails
    PROVE  IInv' /\ live.shown \subseteq live'.shown
<1>1. WindowOK(ui', log, live.cursor) /\ Attached(ui')
    BY FetchFailedOK DEF IInv, FetchFails
<1>. QED
    BY <1>1, WindowStepOK, DisturbsOK DEF IInv, FetchFails

LEMMA BroadRefreshOK ==
    ASSUME IInv, NEW u, WindowOK(u, log, live.cursor), Attached(u), BroadRefresh(u)
    PROVE  /\ WindowOK(ui', log, live.cursor)
           /\ Attached(ui')
           /\ copy' \in Nat
<1>1. ui' \in {FetchFailed(u), u}
    BY DEF BroadRefresh
<1>2. copy' \in Nat
    BY Known DEF IInv, BroadRefresh
<1>. QED
    BY <1>1, <1>2, FetchFailedOK

LEMMA PollOK ==
    ASSUME IInv, Poll
    PROVE  IInv' /\ live.shown \subseteq live'.shown
    BY BroadRefreshOK, WindowStepOK DEF IInv, Poll

LEMMA CompactTimerOK ==
    ASSUME IInv, CompactTimer
    PROVE  IInv' /\ live.shown \subseteq live'.shown
<1>. DEFINE u == [ui EXCEPT !.compact = FALSE]
<1>1. WindowOK(u, log, live.cursor) /\ Attached(u)
    BY CompactOK DEF IInv
<1>2. ui' = LoadSnapshot(u, "compact", FALSE)
    BY DEF CompactTimer
<1>. HIDE DEF u
<1>3. WindowOK(ui', log, live.cursor) /\ Attached(ui')
    BY <1>1, <1>2, Known, LoadOK
<1>. QED
    BY <1>3, WindowStepOK DEF IInv, CompactTimer

LEMMA RefreshAllOK ==
    ASSUME IInv, RefreshAll
    PROVE  IInv' /\ live.shown \subseteq live'.shown
<1>1. WindowOK(Resync(ui, FALSE), log, live.cursor) /\ Attached(Resync(ui, FALSE))
    BY Known, ResyncOK DEF IInv
<1>2. /\ WindowOK(ui', log, live.cursor)
      /\ Attached(ui')
      /\ copy' \in Nat
    BY <1>1, BroadRefreshOK DEF RefreshAll
<1>. QED
    BY <1>2, WindowStepOK, DisturbsOK DEF IInv, RefreshAll

-----------------------------------------------------------------------------
(* The invariant. *)

LEMMA InitOK == Init => IInv
<1>. SUFFICES ASSUME Init
              PROVE  IInv
    OBVIOUS
<1>. DEFINE q == [NoRequest EXCEPT !.what = "snapshot", !.reason = "initial"]
            w == [r \in Resources |-> "idle"]
<1>1. LogInv /\ log = << >>
    BY LogInitOK DEF Init, LogInit
<1>2. q \in Request /\ q.what = "snapshot"
    BY DEF NoRequest, Request
<1>3. w \in [Resources -> Work]
    BY DEF Work
<1>4. StreamOK(Closed, log, 0) /\ Closed \in Stream
    BY <1>1, ClosedOK DEF StreamOK, LogInv
<1>5. ui = [conn |-> "connecting", healthy |-> FALSE, timer |-> FALSE, compact |-> FALSE,
            tries |-> 0, recoveries |-> 0, request |-> q, stream |-> Closed, work |-> w,
            since |-> 0, retried |-> FALSE]
    BY DEF Init
<1>. HIDE DEF q, w
<1>6. /\ ui \in Ui
      /\ ui.request = q
      /\ ui.stream = Closed
      /\ ui.conn = "connecting"
    BY <1>2, <1>3, <1>4, <1>5 DEF Ui, Connections
<1>7. live.cursor = 0 /\ LiveOK(live, log)
    BY <1>1 DEF Init, LiveOK, Live, RowsOf
<1>8. copy \in Nat /\ disturbed \in 0..MaxDisturbances
    BY LiveFeedAssumption DEF Init
<1>. QED
    BY <1>1, <1>2, <1>4, <1>6, <1>7, <1>8 DEF IInv, WindowOK, Attached

LEMMA StepOK ==
    ASSUME IInv, [Next]_vars
    PROVE  IInv' /\ live.shown \subseteq live'.shown
<1>1. CASE LogStep
    BY <1>1, LogStepOK
<1>2. CASE \E n \in 0..Len(log): SnapshotArrives(n)
    BY <1>2, SnapshotArrivesOK
<1>3. CASE SnapshotFails
    BY <1>3, SnapshotFailsOK
<1>4. CASE ProbeAnswers
    BY <1>4, ProbeAnswersOK
<1>5. CASE ProbeFails
    BY <1>5, ProbeFailsOK
<1>6. CASE StreamOpens
    BY <1>6, StreamOpensOK
<1>7. CASE \E i \in DOMAIN log: StreamSends(i)
    BY <1>7, StreamSendsOK
<1>8. CASE EventArrives
    BY <1>8, EventArrivesOK
<1>9. CASE EventGarbled
    BY <1>9, EventGarbledOK
<1>10. CASE StreamBreaks
    BY <1>10, StreamBreaksOK
<1>11. CASE ReconnectTimer
    BY <1>11, ReconnectTimerOK
<1>12. CASE StartResync
    BY <1>12, StartResyncOK
<1>13. CASE StartFetch
    BY <1>13, StartFetchOK
<1>14. CASE \E n \in 0..Len(log): FetchArrives(n)
    BY <1>14, FetchArrivesOK
<1>15. CASE FetchFails
    BY <1>15, FetchFailsOK
<1>16. CASE Poll
    BY <1>16, PollOK
<1>17. CASE CompactTimer
    BY <1>17, CompactTimerOK
<1>18. CASE RefreshAll
    BY <1>18, RefreshAllOK
<1>19. CASE UNCHANGED vars
    BY <1>19 DEF vars, IInv, LogInv, NumberedAsCommitted
<1>. QED
    BY <1>1, <1>2, <1>3, <1>4, <1>5, <1>6, <1>7, <1>8, <1>9, <1>10, <1>11, <1>12,
       <1>13, <1>14, <1>15, <1>16, <1>17, <1>18, <1>19 DEF Next

LEMMA InvariantHolds == Spec => []IInv
    BY InitOK, StepOK, PTL DEF Spec

-----------------------------------------------------------------------------
(* What follows. *)

\* Every variable stays in its type whatever arrives, breaks or is aborted.
THEOREM TypeCorrect == Spec => []TypeOK
<1>1. IInv => TypeOK
    BY DEF IInv, LogInv, WindowOK, LiveOK, TypeOK
<1>. QED
    BY <1>1, InvariantHolds, PTL

\* Sequence numbers follow the order of the commits without gaps, for any
\* number of producers, rollbacks and retries.
THEOREM NumbersFollowCommits == Spec => []NumberedAsCommitted
<1>1. IInv => NumberedAsCommitted
    BY DEF IInv, LogInv
<1>. QED
    BY <1>1, InvariantHolds, PTL

\* No transition falls between a snapshot and the stream that follows it.
THEOREM NoneFallsBetween == Spec => []NoGap
<1>1. ASSUME IInv
      PROVE  NoGap
    <2>. SUFFICES ASSUME NEW i \in DOMAIN log, log[i].key \in Mine,
                         log[i].sequence <= live.cursor
                  PROVE  log[i].key \in live.shown
        BY DEF NoGap
    <2>1. i \in 1..live.cursor
        BY <1>1, Known DEF IInv, LogInv, NumberedAsCommitted
    <2>. QED
        BY <1>1, <2>1 DEF IInv, LiveOK, RowsOf
<1>. QED
    BY <1>1, InvariantHolds, PTL

\* A window that has stopped polling is going to be sent all that is missing.
THEOREM StreamCarriesTheRest == Spec => []StreamCarriesOn
<1>1. ASSUME IInv
      PROVE  StreamCarriesOn
    <2>. SUFFICES ASSUME ~Polls
                  PROVE  /\ ui.stream.phase = "open"
                         /\ \A i \in DOMAIN log:
                               /\ log[i].key \in Mine
                               /\ log[i].sequence > live.cursor
                               /\ log[i].sequence <= ui.stream.cursor
                               => \E j \in DOMAIN ui.stream.wire: ui.stream.wire[j] = log[i]
        BY DEF StreamCarriesOn
    <2>1. ui.stream.phase = "open"
        BY <1>1 DEF IInv, Attached, Polls
    <2>2. \A i \in DOMAIN log: log[i].sequence = i /\ i \in Nat
        BY <1>1 DEF IInv, LogInv, NumberedAsCommitted
    <2>. QED
        BY <1>1, <2>1, <2>2, Known DEF IInv, WindowOK, StreamOK
<1>. QED
    BY <1>1, InvariantHolds, PTL

\* No step takes a transition off the screen again.
THEOREM NothingIsTakenBack == Spec => NeverForgets
<1>1. IInv /\ [Next]_vars => live.shown \subseteq live'.shown
    BY StepOK
<1>2. IInv /\ [Next]_vars => [live.shown \subseteq live'.shown]_vars
    BY <1>1
<1>. QED
    BY <1>2, InvariantHolds, PTL DEF Spec, NeverForgets
=============================================================================
