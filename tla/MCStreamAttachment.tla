--------------------------- MODULE MCStreamAttachment ---------------------------
EXTENDS StreamAttachment

\* Clients of one kind are interchangeable.
ClientSymmetry == Permutations(Initial) \cup Permutations(Resuming)
=============================================================================
