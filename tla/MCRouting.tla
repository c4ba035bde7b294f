------------------------------ MODULE MCRouting ------------------------------
(***************************************************************************)
(* Routing for TLC: finalized scores for one miner or for all.             *)
(***************************************************************************)
EXTENDS Routing

CONSTANTS FinalScores, Skew

MCAhead == [m \in Miners |-> Skew]
MCVerified == Miners \X FinalScores

=============================================================================
