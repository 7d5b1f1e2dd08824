--------------------------- MODULE MCGenerationClaims ---------------------------
(***************************************************************************)
(* A model-checking instance of GenerationClaims: attempts are alike, and  *)
(* nothing is explored behind the point where no key remembers the         *)
(* generation, for the properties promise nothing there.                   *)
(***************************************************************************)
EXTENDS GenerationClaims, TLC

Symmetry == Permutations(Attempts)

Remembered == ~forgotten
=============================================================================
