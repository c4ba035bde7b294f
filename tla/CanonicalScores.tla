---------------------------- MODULE CanonicalScores -------------------------
(***************************************************************************)
(* The canonical scores of CanonicalCandidatePool.add in                   *)
(* validator/src/basedai_validator/aggregator.py: per miner, the           *)
(* stake-weighted median of the validators' scores, for the miners that a  *)
(* quorum of the stake has scored.                                         *)
(*                                                                         *)
(* c is the pool's dict of contributions: a function from the validators   *)
(* that submitted to their score maps, each a function from some of the    *)
(* miners to scores.  stake is a function from validators to stake.        *)
(***************************************************************************)
EXTENDS Naturals, FiniteSets, Totals

\* min_quorum_bps = MIN_QUORUM_BPS, mirroring the registry.
Need(total) == IF total = 0 THEN 1 ELSE (total * 5001 + 9999) \div 10000

Scorers(c, stake, m) == {v \in DOMAIN c : m \in DOMAIN c[v] /\ stake[v] > 0}

\* Those whose score of m is at most s.
UpTo(c, stake, m, s) == {v \in Scorers(c, stake, m) : c[v][m] <= s}

\* Defect: takes the highest score.
Highest(c, stake, m) ==
  CHOOSE s \in {c[v][m] : v \in Scorers(c, stake, m)} :
    UpTo(c, stake, m, s) = Scorers(c, stake, m)

\* The lowest score at which the accumulated weight reaches half: acc * 2 >= weight.
Median(c, stake, m) ==
  LET scores == {c[v][m] : v \in Scorers(c, stake, m)}
      half(s) == 2 * Total(stake, UpTo(c, stake, m, s)) >= Total(stake, Scorers(c, stake, m))
  IN CHOOSE s \in scores : half(s) /\ \A t \in scores : half(t) => s <= t

\* Omission by a minority cannot create a canonical leaf.
Covered(c, stake, need) ==
  {m \in UNION {DOMAIN c[v] : v \in DOMAIN c} :
     Scorers(c, stake, m) # {} /\ Total(stake, Scorers(c, stake, m)) >= need}

Canonical(c, stake, need) == [m \in Covered(c, stake, need) |-> Median(c, stake, m)]
=============================================================================
