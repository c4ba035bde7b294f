--------------------------- MODULE MCEpochProtocol --------------------------
(***************************************************************************)
(* EpochProtocol for TLC.  A quorum needs two validators: both honest ones,   *)
(* or one of them and the other validator, who then is a minority.         *)
(***************************************************************************)
EXTENDS EpochProtocol, TLC

CONSTANTS HonestStake, OtherStake

MCInitialStake ==
  [k \in {Brain} \X Validators |-> IF k[2] \in Honest THEN HonestStake ELSE OtherStake]

\* Observations of every miner.
Complete == [Miners -> Scores]

\* Observations of one miner each: no miner is sure to have quorum coverage.
Sparse == UNION { [{m} -> Scores] : m \in Miners }

Symmetry == Permutations(Honest)
=============================================================================
