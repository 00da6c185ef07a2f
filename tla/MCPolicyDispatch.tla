-------------------------- MODULE MCPolicyDispatch --------------------------
EXTENDS PolicyDispatch, TLC

CONSTANTS r1, r2, w1, w2, proj, run1, lax, strict

Symmetric == Permutations(Requests)

\* Every job is under its project's policy, and the first has one of its own.
ProjectAndRun == [j \in Jobs |-> IF j = 1 THEN Subjects ELSE Shared]

\* One version denies the first job, the other nothing.
StrictDeniesFirst == [v \in Versions |-> IF v = strict THEN {1} ELSE {}]

\* Every worker can run every job.
AllCompatible == [w \in Workers |-> Jobs]
=============================================================================
