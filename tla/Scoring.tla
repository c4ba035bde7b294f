------------------------------- MODULE Scoring -------------------------------
(***************************************************************************)
(* score_miners (validator/src/basedai_validator/scoring.py).              *)
(*                                                                         *)
(* An observation has the miner, the prompt, the response hash the miner   *)
(* claimed, its latency, and the overlap of its text with the reference,   *)
(* in 0 .. FP; a prompt without a reference is not in Referenced.  Scores  *)
(* are fixed-point.  Above the median the logarithm of the code is a       *)
(* straight line with the same ends: only its order matters here.          *)
(***************************************************************************)
EXTENDS Integers, Sequences, FiniteSets, FiniteSetsExt

CONSTANTS
  FP,             \* 1_000_000 stands for a score of 1
  Referenced      \* the prompts with a reference text

ASSUME ScoringAssumption == FP \in Nat \ {0}

Scored(obs) == {obs[i].miner : i \in DOMAIN obs}
About(obs, m) == {i \in DOMAIN obs : obs[i].miner = m}

Agreeing(obs, i) == {j \in DOMAIN obs : obs[j].prompt = obs[i].prompt /\ obs[j].hash = obs[i].hash}

\* Counter.most_common(1): of the most frequent hashes of a prompt the first seen.
Modal(obs, p) ==
  LET asked == {i \in DOMAIN obs : obs[i].prompt = p}
      most == {i \in asked : \A j \in asked : Cardinality(Agreeing(obs, j)) <= Cardinality(Agreeing(obs, i))}
  IN obs[CHOOSE i \in most : \A j \in most : i <= j].hash

\* Twice the median: the sum of the two values in the middle, as np.percentile
\* interpolates between them.
TwiceMedian(obs, about) ==
  LET half(i, before(_, _)) ==
        2 * Cardinality({j \in about : obs[j].latency = obs[i].latency \/ before(obs[j].latency, obs[i].latency)})
          >= Cardinality(about)
      least(a, b) == a < b
      most(a, b) == a > b
      lower == {obs[i].latency : i \in {k \in about : half(k, least)}}
      upper == {obs[i].latency : i \in {k \in about : half(k, most)}}
  IN (CHOOSE v \in lower : \A w \in lower : v <= w) + (CHOOSE v \in upper : \A w \in upper : v >= w)

LatencyScore(obs, m) ==
  LET all == TwiceMedian(obs, DOMAIN obs)
      own == TwiceMedian(obs, About(obs, m))
  IN IF own <= all THEN FP ELSE (FP * all) \div own

Mean(f, S) == MapThenSumSet(LAMBDA i : f[i], S) \div Cardinality(S)

QualityScore(obs, m) ==
  LET samples == {i \in About(obs, m) : obs[i].prompt \in Referenced}
  IN IF samples = {} THEN FP \div 2 ELSE Mean([i \in samples |-> obs[i].overlap], samples)

ConsistencyScore(obs, m) ==
  LET agreed == {i \in About(obs, m) : obs[i].hash = Modal(obs, obs[i].prompt)}
  IN (FP * Cardinality(agreed)) \div Cardinality(About(obs, m))

\* Defect: agreement with the others outweighs the reference.
Conformity(l, q, c) == (20 * l + 30 * q + 50 * c) \div 100

Composite(l, q, c) == (20 * l + 50 * q + 30 * c) \div 100

\* score_miners: the score of every miner that was observed.
ScoreMiners(obs) ==
  [m \in Scored(obs) |->
     Composite(LatencyScore(obs, m), QualityScore(obs, m), ConsistencyScore(obs, m))]
=============================================================================
