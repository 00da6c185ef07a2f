-------------------------- MODULE MCRemoteSession --------------------------
EXTENDS RemoteSession, TLC

\* Requests are interchangeable: nothing orders or names them.
Symmetry == Permutations(Requests)
=============================================================================
