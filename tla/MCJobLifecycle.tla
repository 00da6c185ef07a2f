-------------------------- MODULE MCJobLifecycle --------------------------
EXTENDS JobLifecycle, TLC

\* Jobs, workers and handlers are interchangeable: nothing orders or names them.
JobSymmetry == Permutations(Jobs) \cup Permutations(Workers) \cup Permutations(Handlers)
=============================================================================
