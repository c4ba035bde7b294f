------------------------------ MODULE MCBrains ------------------------------
(***************************************************************************)
(* Brains for TLC.                                                         *)
(***************************************************************************)
EXTENDS Brains, TLC

Symmetry == Permutations(Users)
=============================================================================
