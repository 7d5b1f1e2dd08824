------------------------ MODULE MCApprovalLifecycle ------------------------
(* Model-checking instances of ApprovalLifecycle. *)
EXTENDS ApprovalLifecycle, TLC

\* Callers are interchangeable; used only where no liveness is checked.
CallerSymmetry == Permutations(Callers)
=============================================================================
