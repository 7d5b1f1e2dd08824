---------------------------- MODULE MCRequestPath ----------------------------
(* A model-checking instance of RequestPath: requests are alike. *)
EXTENDS RequestPath, TLC

Symmetry == Permutations(Requests)
=============================================================================
