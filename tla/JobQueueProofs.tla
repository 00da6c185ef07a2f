--------------------------- MODULE JobQueueProofs ---------------------------
(***************************************************************************)
(* The queue keeps its promises for every number of jobs and workers.      *)
(* Typing and exclusivity are inductive together: a grant is refused to a  *)
(* worker that holds a job, so no two held jobs come to share a holder.    *)
(***************************************************************************)
EXTENDS JobQueue, TLAPS

LEMMA QueueInductive ==
    ASSUME ParametersFit, TypeOK, Exclusive, [Next]_vars
    PROVE  (TypeOK /\ Exclusive)'
<1> USE DEF ParametersFit, TypeOK, Exclusive, Held
<1>1. ASSUME NEW j \in Jobs, Submit(j) PROVE (TypeOK /\ Exclusive)'
  BY <1>1 DEF Submit
<1>2. ASSUME NEW j \in Jobs, NEW w \in Workers, Grant(j, w)
      PROVE  (TypeOK /\ Exclusive)'
  <2>1. TypeOK'
    BY <1>2 DEF Grant
  <2>2. \A i, k \in Held' : holder'[i] = holder'[k] => i = k
    BY <1>2 DEF Grant
  <2>3. \A i \in Jobs : holder'[i] # NoWorker <=> i \in Held'
    BY <1>2 DEF Grant
  <2> QED
    BY <2>1, <2>2, <2>3
<1>3. ASSUME NEW Back \in SUBSET Jobs, NEW Over \in SUBSET Jobs, Release(Back, Over)
      PROVE  (TypeOK /\ Exclusive)'
  <2>1. TypeOK'
    BY <1>3 DEF Release
  <2>2. \A i \in Jobs : i \in Held' <=> i \in Held /\ i \notin Back \cup Over
    BY <1>3 DEF Release
  <2>3. \A i \in Jobs : holder'[i] = IF i \in Back \cup Over THEN NoWorker ELSE holder[i]
    BY <1>3 DEF Release
  <2> QED
    BY <2>1, <2>2, <2>3
<1>4. CASE UNCHANGED vars
  BY <1>4 DEF vars
<1> QED
  BY <1>1, <1>2, <1>3, <1>4 DEF Next

\* A worker never holds two jobs, and a job that is not held has no holder.
THEOREM HoldersExclusive ==
    ASSUME ParametersFit
    PROVE  Spec => [](TypeOK /\ Exclusive)
<1>1. Init => TypeOK /\ Exclusive
  BY DEF ParametersFit, Init, TypeOK, Exclusive, Held
<1>2. TypeOK /\ Exclusive /\ [Next]_vars => (TypeOK /\ Exclusive)'
  BY QueueInductive
<1> QED
  BY <1>1, <1>2, PTL DEF Spec
=============================================================================
