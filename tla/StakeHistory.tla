----------------------------- MODULE StakeHistory ---------------------------
(***************************************************************************)
(* What the vault promises governance about snapshots: a record of the     *)
(* stake of every series (the network and each brain) at the end of every  *)
(* second that is over.  The stake may change any number of times within a *)
(* second; when the clock moves on, its last value is the record, for good.*)
(* StakingVault implements this with sparse checkpoints.                   *)
(***************************************************************************)
EXTENDS Naturals

CONSTANT Series
VARIABLES now, live, past

Init ==
  /\ now = 1
  /\ live = [x \in Series |-> 0]
  /\ past = [x \in Series |-> [t \in {0} |-> 0]]

Change ==
  /\ live' \in [Series -> Nat]
  /\ UNCHANGED <<now, past>>

EndOfSecond ==
  /\ now' = now + 1
  /\ past' = [x \in Series |->
                [t \in 0 .. now |-> IF t = now THEN live[x] ELSE past[x][t]]]
  /\ UNCHANGED live

Next == Change \/ EndOfSecond

Spec == Init /\ [][Next]_<<now, live, past>>
=============================================================================
