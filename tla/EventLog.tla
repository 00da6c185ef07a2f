------------------------------ MODULE EventLog ------------------------------
(***************************************************************************)
(* The durable execution events.  Every transition of a job, an attempt or *)
(* an agent is written together with one event, in one transaction; the    *)
(* event's sequence number comes from a single allocator row, which the    *)
(* transaction locks before anything else and holds until it ends, so that *)
(* readers who remember the last number they saw miss nothing.  Producers  *)
(* are retried: the event's idempotency key names the transition.          *)
(***************************************************************************)
EXTENDS Integers, Sequences

CONSTANTS
    Keys,           \* idempotency keys: the transitions that may happen
    Producers       \* transactions that may be open at one time

VARIABLES
    log,            \* committed events, in the order of their commits
    tx              \* what each open transaction has appended

logVars == <<log, tx>>

Event == [key: Keys, sequence: Nat]

\* The tx of a producer that has no transaction.
Outside == [key |-> {}, sequence |-> 0]

-----------------------------------------------------------------------------
(* The allocator row, as committed after the first n transactions. *)

LastSequence(n) == IF n = 0 THEN 0 ELSE log[n].sequence

\* A second transaction that asks for the row waits.
AllocatorFreeFaulty == TRUE
AllocatorFree == \A p \in Producers: tx[p] = Outside

ExistingFaulty(k) == FALSE
Existing(k) == \E i \in DOMAIN log: log[i].key = k

LogInit ==
    /\ log = << >>
    /\ tx = [p \in Producers |-> Outside]

\* The transaction takes the row and inserts.  Under the same lock it looks
\* for the key first: a retry of what was already logged returns the old event
\* and changes nothing.
AppendTransition(p, k) ==
    /\ tx[p] = Outside
    /\ AllocatorFree
    /\ ~Existing(k)
    /\ tx' = [tx EXCEPT ![p] = [key |-> k, sequence |-> LastSequence(Len(log)) + 1]]
    /\ UNCHANGED log

\* The transition and its event become visible, and the row is released.
Commit(p) ==
    /\ tx[p] # Outside
    /\ log' = Append(log, tx[p])
    /\ tx' = [tx EXCEPT ![p] = Outside]

\* An error, or the process ends: neither is ever seen, nor is the number used.
Rollback(p) ==
    /\ tx[p] # Outside
    /\ tx' = [tx EXCEPT ![p] = Outside]
    /\ UNCHANGED log

LogNext ==
    \E p \in Producers:
        \/ \E k \in Keys: AppendTransition(p, k)
        \/ Commit(p)
        \/ Rollback(p)

-----------------------------------------------------------------------------
\* Transitions are numbered in the order in which they become visible, from 1
\* and without gaps, and each is logged once however often its producer is
\* retried: the sequence number is a cursor.
NumberedAsCommitted ==
    /\ \A i \in DOMAIN log: log[i].sequence = i
    /\ \A i, j \in DOMAIN log: log[i].key = log[j].key => i = j
=============================================================================
