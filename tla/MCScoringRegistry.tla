--------------------------- MODULE MCScoringRegistry ------------------------
(***************************************************************************)
(* ScoringRegistry for TLC: validators with unequal stakes that the quorum *)
(* can split exactly in half.                                              *)
(***************************************************************************)
EXTENDS ScoringRegistry, TLC

CONSTANTS BigValidator, BigStake, SmallStake

MCInitialStake ==
  [k \in Pools |-> IF k[2] = BigValidator THEN BigStake ELSE SmallStake]

\* Roots are opaque hashes, and every brain starts with the same stakes.
Symmetry == Permutations(Roots) \cup Permutations(Brains)
=============================================================================
