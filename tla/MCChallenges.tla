---------------------------- MODULE MCChallenges ----------------------------
(***************************************************************************)
(* Challenges for TLC: other validators add up to five leaves, for trees   *)
(* of every shape of up to seven leaves.                                   *)
(***************************************************************************)
EXTENDS Challenges

CONSTANTS x1, x2, x3, x4, x5

Extra(miners) == {[miner |-> m, score |-> FP] : m \in miners}
MCOtherLeaves == {Extra({}), Extra({x1, x2, x3}), Extra({x1, x2, x3, x4, x5})}
=============================================================================
