---------------------------- MODULE MCCloneDoor ----------------------------
(***************************************************************************)
(* Two clones of refs that may stand at two commits each.  Neither the     *)
(* names nor the commits are told apart, and what is checked is of states  *)
(* and of single steps, the same for each, so both sets are symmetric.     *)
(***************************************************************************)
EXTENDS CloneDoor, TLC

CONSTANTS c1, c2, h1, h2

MCClones == {c1, c2}
MCHeads == {h1, h2}
Symmetry == Permutations(MCClones) \cup Permutations(MCHeads)
=============================================================================
