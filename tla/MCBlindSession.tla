--------------------------- MODULE MCBlindSession ---------------------------
(* Two comparisons, so that a token can be tried on the other one.         *)
EXTENDS BlindSession, TLC
Symmetry == Permutations(Groups)
=============================================================================
