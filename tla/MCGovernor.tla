----------------------------- MODULE MCGovernor -----------------------------
(***************************************************************************)
(* The governor over the brains for TLC: each proposal lowers the quorum. *)
(***************************************************************************)
EXTENDS Governor, TLC

MCNewQuorum == [p \in Proposals |-> 1]

Symmetry == Permutations(Users) \cup Permutations(Proposals)
=============================================================================
