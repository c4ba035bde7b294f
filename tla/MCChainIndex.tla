---------------------------- MODULE MCChainIndex ----------------------------
(***************************************************************************)
(* ChainIndex for TLC: what the blocks may hold.  One member is enough:    *)
(* the index treats each on its own.                                       *)
(***************************************************************************)
EXTENDS ChainIndex, TLC

CONSTANT m1

Enter(role) == [role |-> role, joined |-> TRUE, member |-> m1]
Leave(role) == [role |-> role, joined |-> FALSE, member |-> m1]

\* A member comes in both roles, leaves both, or comes back within a block.
MCContents ==
  { <<>>, <<Enter("Miner"), Enter("Validator")>>, <<Leave("Miner"), Leave("Validator")>>,
    <<Leave("Miner"), Enter("Miner")>> }
=============================================================================
