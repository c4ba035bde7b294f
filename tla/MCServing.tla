----------------------------- MODULE MCServing ------------------------------
(***************************************************************************)
(* Serving for TLC: the brain is inactive, so redemptions pay the miner    *)
(* alone, and the split and the distributions are left to MCMarket.        *)
(***************************************************************************)
EXTENDS Serving, TLC

CONSTANTS UserWealth, Metered

MCWealth == [a \in Accounts |-> IF a \in Users THEN UserWealth ELSE 0]
MCPrices == {[perByte |-> p, perRequest |-> 0] : p \in Metered}
MCSubnets == {[active |-> FALSE, owner |-> NoOwner, ownerSplitBps |-> 0, minerShareBps |-> 0]}
MCValidatorSets == {}
MCStakes == {}

Symmetry == Permutations(Nonces)
=============================================================================
