---------------------------- MODULE MCStakingVault --------------------------
(***************************************************************************)
(* StakingVault for TLC.  Time and token supply bound the state space: the *)
(* amounts that can move are those the accounts own.                       *)
(***************************************************************************)
EXTENDS StakingVault, TLC

CONSTANTS StakerWealth, RewarderWealth

MCWealth == [a \in Accounts |-> IF a = Rewarder THEN RewarderWealth ELSE StakerWealth]

\* Brains and stakers are interchangeable.
Symmetry == Permutations(Brains) \cup Permutations(Stakers)
=============================================================================
