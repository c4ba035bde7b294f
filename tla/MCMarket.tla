------------------------------ MODULE MCMarket ------------------------------
(***************************************************************************)
(* Market for TLC.  The brain is active with the owner's part at its cap,  *)
(* or inactive; any of the two validators are registered.              *)
(***************************************************************************)
EXTENDS Market, TLC

CONSTANTS UserWealth

MCWealth == [a \in Accounts |-> IF a \in Users THEN UserWealth ELSE 0]

MCPrices == {[perByte |-> 1, perRequest |-> 0]}

Inactive == [active |-> FALSE, owner |-> NoOwner, ownerSplitBps |-> 0, minerShareBps |-> 0]
Active(o, minerShare) ==
  [active |-> TRUE, owner |-> o, ownerSplitBps |-> 1500, minerShareBps |-> minerShare]
MCSubnets == {Inactive} \cup {Active(o, minerShare) : o \in Owners, minerShare \in {7609, 10000}}

MCValidatorSets == SUBSET Validators
MCStakes == [Validators -> 0 .. 2]

Symmetry == Permutations(Nonces) \cup Permutations(Validators)
=============================================================================
