------------------------------ MODULE JobQueue ------------------------------
(***************************************************************************)
(* What the orchestrator promises the people who submit jobs and the       *)
(* workers that run them: a job is granted to one worker at a time, at     *)
(* most MaxAttempts times, a worker holds one job at a time, and a job     *)
(* that is over stays over.  Leases, attempts, callbacks, snapshots and    *)
(* crashes are the means; JobLifecycle implements this specification.      *)
(***************************************************************************)
EXTENDS Integers

CONSTANTS Jobs, Workers, NoWorker, MaxAttempts

\* What a theorem assumes of the parameters; JobLifecycle, which implements this
\* specification, assumes as much of its own.
ParametersFit ==
    /\ NoWorker \notin Workers
    /\ MaxAttempts \in Nat \ {0}

VARIABLES
    phase,      \* where a job is: absent, waiting, held or done
    holder,     \* the worker that holds a job
    grants      \* how often a job was granted

vars == <<phase, holder, grants>>

Held == {j \in Jobs : phase[j] = "held"}

Init ==
    /\ phase = [j \in Jobs |-> "absent"]
    /\ holder = [j \in Jobs |-> NoWorker]
    /\ grants = [j \in Jobs |-> 0]

Submit(j) ==
    /\ phase[j] = "absent"
    /\ phase' = [phase EXCEPT ![j] = "waiting"]
    /\ UNCHANGED <<holder, grants>>

Grant(j, w) ==
    /\ phase[j] = "waiting"
    /\ grants[j] < MaxAttempts
    /\ \A i \in Held : holder[i] # w
    /\ phase' = [phase EXCEPT ![j] = "held"]
    /\ holder' = [holder EXCEPT ![j] = w]
    /\ grants' = [grants EXCEPT ![j] = @ + 1]

\* Several jobs may leave their holders at once: some wait again, with an
\* attempt left, the others are over.  A waiting job may end without a grant.
Release(Back, Over) ==
    /\ \A j \in Back : phase[j] = "held" /\ grants[j] < MaxAttempts
    /\ \A j \in Over : phase[j] \in {"waiting", "held"}
    /\ phase' = [j \in Jobs |-> IF j \in Over THEN "done"
                                ELSE IF j \in Back THEN "waiting" ELSE phase[j]]
    /\ holder' = [j \in Jobs |-> IF j \in Back \cup Over THEN NoWorker
                                 ELSE holder[j]]
    /\ UNCHANGED grants

Next ==
    \/ \E j \in Jobs : Submit(j)
    \/ \E j \in Jobs, w \in Workers : Grant(j, w)
    \/ \E Back, Over \in SUBSET Jobs : Release(Back, Over)

Spec == Init /\ [][Next]_vars

-----------------------------------------------------------------------------
TypeOK ==
    /\ phase \in [Jobs -> {"absent", "waiting", "held", "done"}]
    /\ holder \in [Jobs -> Workers \cup {NoWorker}]
    /\ grants \in [Jobs -> 0..MaxAttempts]

\* A worker never holds two jobs, and a job that is not held has no holder.
Exclusive ==
    /\ \A i, j \in Held : holder[i] = holder[j] => i = j
    /\ \A j \in Jobs : holder[j] # NoWorker <=> j \in Held
=============================================================================
