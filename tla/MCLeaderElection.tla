--------------------------- MODULE MCLeaderElection ---------------------------
EXTENDS LeaderElection, TLC

\* Servers are interchangeable, and so are the callers within one.
LeaderSymmetry == Permutations(Servers) \cup Permutations(Calls)
=============================================================================
