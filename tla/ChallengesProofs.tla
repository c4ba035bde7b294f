--------------------------- MODULE ChallengesProofs --------------------------
(***************************************************************************)
(* Scoring and its proofs, for every list of observations and every tree.  *)
(***************************************************************************)
EXTENDS Challenges, TotalsTheorems

-----------------------------------------------------------------------------
(* Scores.                                                                 *)

Observation ==
  [miner : Miners, prompt : Prompts, hash : {Right, Wrong, Zero}, overlap : {0, FP},
   latency : Latencies, old : BOOLEAN]

\* A sum over a finite set is the number of its coins.
LEMMA SumIsTotal ==
  ASSUME NEW S, IsFiniteSet(S), NEW f, \A i \in S : f[i] \in Nat
  PROVE  MapThenSumSet(LAMBDA i : f[i], S) = Total(f, S)
<1> DEFINE pick(s) == CHOOSE x \in s : TRUE
           Sums(g) == g = [s \in SUBSET S |-> IF s = {} THEN 0 ELSE f[pick(s)] + g[s \ {pick(s)}]]
           iter == CHOOSE g : Sums(g)
           total == [s \in SUBSET S |-> Total(f, s)]
<1>1. MapThenSumSet(LAMBDA i : f[i], S) = iter[S]
  BY DEF MapThenSumSet, MapThenFoldSet
<1>2. \A s \in SUBSET S : s # {} => pick(s) \in s
  OBVIOUS
<1> HIDE DEF pick
<1>3. \A s \in SUBSET S : /\ IsFiniteSet(s) /\ \A i \in s : f[i] \in Nat
                          /\ Total(f, s) \in Nat
  BY FS_Subset, CoinsFinite
<1>4. \A s \in SUBSET S : s # {} => Total(f, s) = f[pick(s)] + Total(f, s \ {pick(s)})
  <2> TAKE s \in SUBSET S
  <2> HAVE s # {}
  <2>1. pick(s) \in s /\ IsFiniteSet(s) /\ s \ {pick(s)} \in SUBSET S
    BY <1>2, <1>3
  <2>2. Total(f, s) = Total(f, s \ {pick(s)}) + f[pick(s)]
    BY <1>3, <2>1, TotalSplit
  <2>3. Total(f, s \ {pick(s)}) \in Nat /\ f[pick(s)] \in Nat
    BY <1>3, <2>1
  <2> QED BY <2>2, <2>3
<1>5. Total(f, {}) = 0
  BY TotalZero
<1>6. Sums(total)
  BY <1>4, <1>5
<1>7. Sums(iter)
  BY <1>6
<1> DEFINE wrong == {n \in Nat : \E s \in SUBSET S : Cardinality(s) = n /\ iter[s] # Total(f, s)}
<1>8. ASSUME NEW n \in wrong, \A k \in wrong : n <= k PROVE FALSE
  <2>1. PICK s \in SUBSET S : Cardinality(s) = n /\ iter[s] # Total(f, s)
    BY <1>8
  <2>2. s # {}
    BY <1>5, <1>7, <2>1
  <2>3. pick(s) \in s /\ s \ {pick(s)} \in SUBSET S /\ IsFiniteSet(s)
    BY <1>2, <1>3, <2>2
  <2>4. Cardinality(s \ {pick(s)}) = n - 1 /\ n - 1 \in Nat
    <3>1. Cardinality(s \ {pick(s)}) = Cardinality(s) - 1
      BY <2>3, FS_RemoveElement
    <3>2. Cardinality(s \ {pick(s)}) \in Nat /\ Cardinality(s) \in Nat /\ Cardinality(s) = n
      BY <2>1, <2>3, FS_RemoveElement, FS_CardinalityType
    <3> QED BY <3>1, <3>2
  <2>5. iter[s \ {pick(s)}] = Total(f, s \ {pick(s)})
    <3>1. n - 1 \notin wrong
      <4>1. n \in Nat /\ ~ (n <= n - 1)
        BY <2>4
      <4> HIDE DEF wrong
      <4> QED BY <1>8, <4>1
    <3> QED BY <2>3, <2>4, <3>1
  <2>6. iter[s] = f[pick(s)] + iter[s \ {pick(s)}]
    BY <1>7, <2>2
  <2> QED BY <1>4, <2>1, <2>2, <2>5, <2>6
<1> HIDE DEF iter
<1>9. wrong = {}
  <2> SUFFICES ASSUME wrong # {} PROVE FALSE
    OBVIOUS
  <2>1. \E n \in wrong : \A k \in wrong : n <= k
    BY LeastNumber
  <2> QED BY <1>8, <2>1
<1>10. iter[S] = Total(f, S)
  BY <1>9, FS_CardinalityType
<1> QED BY <1>1, <1>10

\* The indices of a list, and those of one miner, are finite in number.
LEMMA IndicesFinite ==
  ASSUME NEW obs \in Seq(Observation)
  PROVE  /\ IsFiniteSet(DOMAIN obs)
         /\ \A S \in SUBSET DOMAIN obs : IsFiniteSet(S) /\ Cardinality(S) \in Nat
         /\ \A i \in DOMAIN obs : obs[i] \in Observation /\ obs[i].latency \in Nat
<1>1. DOMAIN obs = 1 .. Len(obs) /\ Len(obs) \in Nat
  OBVIOUS
<1>2. IsFiniteSet(DOMAIN obs)
  BY <1>1, FS_Interval
<1>3. \A S \in SUBSET DOMAIN obs : IsFiniteSet(S) /\ Cardinality(S) \in Nat
  BY <1>2, FS_Subset, FS_CardinalityType
<1>4. \A i \in DOMAIN obs : obs[i] \in Observation
  OBVIOUS
<1> QED BY <1>2, <1>3, <1>4, ChallengesAssumption DEF Observation

\* The median of latencies that are there is a number.
LEMMA MedianTyped ==
  ASSUME NEW obs \in Seq(Observation), NEW about \in SUBSET DOMAIN obs, about # {}
  PROVE  TwiceMedian(obs, about) \in Nat
<1> DEFINE upTo(i) == {j \in about : obs[j].latency = obs[i].latency \/ obs[j].latency < obs[i].latency}
           from(i) == {j \in about : obs[j].latency = obs[i].latency \/ obs[j].latency > obs[i].latency}
           lower == {obs[i].latency : i \in {k \in about : 2 * Cardinality(upTo(k)) >= Cardinality(about)}}
           upper == {obs[i].latency : i \in {k \in about : 2 * Cardinality(from(k)) >= Cardinality(about)}}
           all == {obs[i].latency : i \in about}
<1>1. TwiceMedian(obs, about)
        = (CHOOSE v \in lower : \A w \in lower : v <= w) + (CHOOSE v \in upper : \A w \in upper : v >= w)
  BY DEF TwiceMedian
<1>2. IsFiniteSet(about) /\ Cardinality(about) \in Nat /\ \A i \in about : obs[i].latency \in Nat
  BY IndicesFinite
<1>3. all \in SUBSET Nat /\ all # {} /\ IsFiniteSet(all)
  <2>1. all \in SUBSET Nat /\ all # {}
    BY <1>2
  <2> DEFINE f == [i \in about |-> obs[i].latency]
  <2>2. f \in Surjection(about, all)
    BY DEF Surjection
  <2> QED BY <1>2, <2>1, <2>2, FS_Surjection
<1>4. lower \subseteq all /\ upper \subseteq all
  OBVIOUS
<1>5. lower # {}
  <2>1. PICK v \in all : \A w \in all : w <= v
    BY <1>3, GreatestNumber
  <2>2. PICK i \in about : obs[i].latency = v
    BY <2>1
  <2>3. \A j \in about : obs[j].latency <= v
    BY <2>1
  <2>4. upTo(i) = about
    BY <1>2, <2>2, <2>3
  <2>5. 2 * Cardinality(upTo(i)) >= Cardinality(about)
    <3>1. 2 * Cardinality(about) >= Cardinality(about)
      BY <1>2
    <3> HIDE DEF upTo
    <3> QED BY <2>4, <3>1
  <2>6. i \in {k \in about : 2 * Cardinality(upTo(k)) >= Cardinality(about)}
    <3> HIDE DEF upTo
    <3> QED BY <2>5
  <2> QED BY <2>6
<1>6. upper # {}
  <2>1. PICK v \in all : \A w \in all : v <= w
    BY <1>3, LeastNumber
  <2>2. PICK i \in about : obs[i].latency = v
    BY <2>1
  <2>3. \A j \in about : v <= obs[j].latency
    BY <2>1
  <2>4. from(i) = about
    BY <1>2, <2>2, <2>3
  <2>5. 2 * Cardinality(from(i)) >= Cardinality(about)
    <3>1. 2 * Cardinality(about) >= Cardinality(about)
      BY <1>2
    <3> HIDE DEF from
    <3> QED BY <2>4, <3>1
  <2>6. i \in {k \in about : 2 * Cardinality(from(k)) >= Cardinality(about)}
    <3> HIDE DEF from
    <3> QED BY <2>5
  <2> QED BY <2>6
<1>7. lower \in SUBSET Nat /\ upper \in SUBSET Nat /\ IsFiniteSet(upper)
  BY <1>3, <1>4, FS_Subset
<1> HIDE DEF lower, upper, all
<1>8. \E v \in lower : \A w \in lower : v <= w
  BY <1>5, <1>7, LeastNumber
<1>9. \E v \in upper : \A w \in upper : v >= w
  <2>1. \E v \in upper : \A w \in upper : w <= v
    BY <1>6, <1>7, GreatestNumber
  <2> QED BY <1>7, <2>1
<1>10. (CHOOSE v \in lower : \A w \in lower : v <= w) \in Nat
  BY <1>7, <1>8
<1>11. (CHOOSE v \in upper : \A w \in upper : v >= w) \in Nat
  BY <1>7, <1>9
<1> QED BY <1>1, <1>10, <1>11

\* Latency and consistency are worth at most a whole.
LEMMA LatencyTyped ==
  ASSUME NEW obs \in Seq(Observation), NEW m \in Scored(obs)
  PROVE  LatencyScore(obs, m) \in 0 .. FP
<1> DEFINE all == TwiceMedian(obs, DOMAIN obs)
           own == TwiceMedian(obs, About(obs, m))
<1>1. About(obs, m) \in SUBSET DOMAIN obs /\ About(obs, m) # {} /\ DOMAIN obs # {}
  BY DEF About, Scored
<1>2. all \in Nat /\ own \in Nat
  BY <1>1, MedianTyped
<1>3. FP \in Nat
  BY ScoringAssumption
<1> HIDE DEF all, own
<1>4. CASE own <= all
  BY <1>3, <1>4 DEF LatencyScore, all, own
<1>5. CASE ~ (own <= all)
  <2>1. own \in Nat \ {0} /\ all <= own
    BY <1>2, <1>5
  <2>2. (all * FP) \div own \in Nat /\ (all * FP) \div own <= FP
    BY <1>2, <1>3, <2>1, ProRata
  <2>3. all * FP = FP * all
    BY <1>2, <1>3
  <2>4. LatencyScore(obs, m) = (FP * all) \div own
    BY <1>5 DEF LatencyScore, all, own
  <2> QED BY <1>3, <2>2, <2>3, <2>4
<1> QED BY <1>4, <1>5

LEMMA ConsistencyTyped ==
  ASSUME NEW obs \in Seq(Observation), NEW m \in Scored(obs)
  PROVE  ConsistencyScore(obs, m) \in 0 .. FP
<1> DEFINE agreed == {i \in About(obs, m) : obs[i].hash = Modal(obs, obs[i].prompt)}
           c == Cardinality(agreed)
           n == Cardinality(About(obs, m))
<1>1. About(obs, m) \in SUBSET DOMAIN obs /\ About(obs, m) # {} /\ agreed \subseteq About(obs, m)
  BY DEF About, Scored
<1>2. IsFiniteSet(About(obs, m)) /\ n \in Nat
  BY <1>1, IndicesFinite
<1>3. c \in Nat /\ c <= n /\ n # 0
  <2> HIDE DEF agreed
  <2> QED BY <1>1, <1>2, FS_Subset, FS_CardinalityType, FS_EmptySet
<1>4. FP \in Nat
  BY ScoringAssumption
<1>5. ConsistencyScore(obs, m) = (FP * c) \div n
  BY DEF ConsistencyScore
<1> HIDE DEF c, n
<1>6. (c * FP) \div n \in Nat /\ (c * FP) \div n <= FP
  BY <1>2, <1>3, <1>4, ProRata
<1>7. c * FP = FP * c
  BY <1>3, <1>4
<1> QED BY <1>4, <1>5, <1>6, <1>7

\* A mean is a number, that of equal numbers is the number.
LEMMA MeanTyped ==
  ASSUME NEW S, IsFiniteSet(S), S # {}, NEW f, \A i \in S : f[i] \in Nat
  PROVE  /\ Mean(f, S) \in Nat
         /\ \A n \in Nat : (\A i \in S : f[i] = n) => Mean(f, S) = n
<1>1. Cardinality(S) \in Nat \ {0}
  BY FS_CardinalityType, FS_EmptySet
<1>2. Mean(f, S) = Total(f, S) \div Cardinality(S) /\ Total(f, S) \in Nat
  BY SumIsTotal, CoinsFinite DEF Mean
<1>3. ASSUME NEW n \in Nat, \A i \in S : f[i] = n PROVE Mean(f, S) = n
  <2> DEFINE one == [i \in S |-> 1]
             same == [i \in S |-> n * one[i]]
  <2>1. Total(one, S) = Cardinality(S)
    BY TotalOnes
  <2>2. Total(same, S) = n * Total(one, S)
    <3>1. \A i \in S : one[i] \in Nat
      OBVIOUS
    <3> HIDE DEF one
    <3> QED BY <3>1, TotalScale
  <2>3. Total(f, S) = Total(same, S)
    <3>1. \A i \in S : same[i] = f[i]
      BY <1>3
    <3> HIDE DEF same
    <3> QED BY <3>1, TotalSame
  <2>4. Total(f, S) = n * Cardinality(S)
    BY <2>1, <2>2, <2>3
  <2> DEFINE c == Cardinality(S)
             q == (n * c) \div c
  <2>5. n * c \in Nat /\ c \in Nat \ {0}
    BY <1>1
  <2>6. q \in Nat /\ q * c <= n * c /\ n * c < q * c + c
    BY <2>5, FloorDivision
  <2> HIDE DEF c, q
  <2>7. q = n
    <3>1. CASE q < n
      <4>1. PICK d \in Nat : n = q + 1 + d
        <5>1. n - q - 1 \in Nat /\ n = q + 1 + (n - q - 1)
          BY <2>6, <3>1
        <5> QED BY <5>1
      <4>2. n * c = q * c + c + d * c /\ d * c \in Nat
        BY <2>5, <2>6, <4>1
      <4> QED BY <2>5, <2>6, <4>2
    <3>2. CASE q > n
      <4>1. PICK d \in Nat : q = n + 1 + d
        <5>1. q - n - 1 \in Nat /\ q = n + 1 + (q - n - 1)
          BY <2>6, <3>2
        <5> QED BY <5>1
      <4>2. q * c = n * c + c + d * c /\ d * c \in Nat
        BY <2>5, <2>6, <4>1
      <4> QED BY <2>5, <2>6, <4>2
    <3> QED BY <2>6, <3>1, <3>2
  <2> QED BY <1>2, <2>4, <2>7 DEF c, q
<1> QED BY <1>1, <1>2, <1>3, FloorDivision

\* The quality of a miner that always answers, and of one that always fails.
LEMMA QualityTyped ==
  ASSUME NEW obs \in Seq(Observation), NEW m \in Scored(obs)
  PROVE  /\ QualityScore(obs, m) \in Nat
         /\ \A n \in {0, FP} :
              (\A i \in About(obs, m) : obs[i].prompt \in Referenced /\ obs[i].overlap = n)
                => QualityScore(obs, m) = n
<1> DEFINE samples == {i \in About(obs, m) : obs[i].prompt \in Referenced}
           overlap == [i \in samples |-> obs[i].overlap]
<1>1. About(obs, m) \in SUBSET DOMAIN obs /\ About(obs, m) # {}
  BY DEF About, Scored
<1>2. IsFiniteSet(samples) /\ samples \subseteq About(obs, m)
  BY <1>1, IndicesFinite
<1>3. FP \in Nat /\ FP \div 2 \in Nat
  BY ScoringAssumption
<1>4. \A i \in samples : overlap[i] \in Nat /\ overlap[i] = obs[i].overlap
  <2>1. \A i \in samples : obs[i] \in Observation
    BY <1>1, <1>2, IndicesFinite
  <2> QED BY <1>3, <2>1 DEF Observation
<1>5. QualityScore(obs, m) = IF samples = {} THEN FP \div 2 ELSE Mean(overlap, samples)
  BY DEF QualityScore
<1>6. ASSUME NEW n \in {0, FP},
             \A i \in About(obs, m) : obs[i].prompt \in Referenced /\ obs[i].overlap = n
      PROVE  samples # {} /\ \A i \in samples : overlap[i] = n
  BY <1>1, <1>6
<1> HIDE DEF samples, overlap
<1> QED BY <1>2, <1>3, <1>4, <1>5, <1>6, MeanTyped

\* Every observed miner has a score.
LEMMA ScoreTyped ==
  ASSUME NEW obs \in Seq(Observation), NEW m \in Scored(obs)
  PROVE  ScoreMiners(obs)[m] \in Nat
<1> DEFINE l == LatencyScore(obs, m)
           q == QualityScore(obs, m)
           c == ConsistencyScore(obs, m)
<1>1. l \in Nat /\ q \in Nat /\ c \in Nat
  BY LatencyTyped, QualityTyped, ConsistencyTyped, ScoringAssumption
<1>2. ScoreMiners(obs)[m] = (20 * l + 50 * q + 30 * c) \div 100
  BY DEF ScoreMiners, Composite
<1> HIDE DEF l, q, c
<1> QED BY <1>1, <1>2

\* The reference outweighs speed and agreement together: whatever others answered and
\* however fast, a miner that is right each time has at least the score of one that
\* fails each time.
THEOREM RightOutranksFailure ==
  ASSUME NEW obs \in Seq(Observation), NEW m \in Scored(obs), NEW n \in Scored(obs),
         \A i \in About(obs, m) : obs[i].prompt \in Referenced /\ obs[i].overlap = FP,
         \A i \in About(obs, n) : obs[i].prompt \in Referenced /\ obs[i].overlap = 0
  PROVE  ScoreMiners(obs)[m] >= ScoreMiners(obs)[n]
<1> DEFINE l == LatencyScore(obs, m)
           c == ConsistencyScore(obs, m)
           k == LatencyScore(obs, n)
           d == ConsistencyScore(obs, n)
<1>1. l \in 0 .. FP /\ c \in 0 .. FP /\ k \in 0 .. FP /\ d \in 0 .. FP /\ FP \in Nat
  BY LatencyTyped, ConsistencyTyped, ScoringAssumption
<1>2. QualityScore(obs, m) = FP /\ QualityScore(obs, n) = 0
  BY QualityTyped
<1>3. /\ ScoreMiners(obs)[m] = (20 * l + 50 * FP + 30 * c) \div 100
      /\ ScoreMiners(obs)[n] = (20 * k + 50 * 0 + 30 * d) \div 100
  BY <1>2 DEF ScoreMiners, Composite
<1> HIDE DEF l, c, k, d
<1> QED BY <1>1, <1>3

-----------------------------------------------------------------------------
(* Trees.                                                                  *)

Pairs(X) == {PairHash(a, b) : a, b \in X}

EvenUp(n) == IF n % 2 = 1 THEN n + 1 ELSE n

\* The next layer of a layer: half of its length, a pair of neighbours at each place.
LEMMA NextLayerShape ==
  ASSUME NEW X, NEW layer \in Seq(X), Len(layer) > 0
  PROVE  /\ Padded(layer) \in Seq(X) /\ Len(Padded(layer)) % 2 = 0
         /\ Len(Padded(layer)) = EvenUp(Len(layer))
         /\ \A i \in 1 .. Len(layer) : Padded(layer)[i] = layer[i]
         /\ NextLayer(layer) \in Seq(Pairs(X))
         /\ Len(NextLayer(layer)) = Len(Padded(layer)) \div 2
         /\ \A i \in 1 .. Len(NextLayer(layer)) :
              NextLayer(layer)[i] = PairHash(Padded(layer)[2 * i - 1], Padded(layer)[2 * i])
<1> DEFINE even == Padded(layer)
           next == NextLayer(layer)
           half == Len(even) \div 2
<1>1. Len(layer) \in Nat /\ \A i \in 1 .. Len(layer) : layer[i] \in X
  OBVIOUS
<1>2. Last(layer) \in X
  BY DEF Last
<1>3. /\ even \in Seq(X)
      /\ Len(even) = EvenUp(Len(layer))
      /\ \A i \in 1 .. Len(layer) : even[i] = layer[i]
  BY <1>1, <1>2 DEF Padded, EvenUp
<1>4. Len(even) \in Nat /\ Len(even) % 2 = 0
  <2> DEFINE n == Len(layer)
  <2>1. n \in Nat /\ n % 2 \in {0, 1} /\ (n % 2 = 1 => (n + 1) % 2 = 0)
    <3>1. n \in Nat
      OBVIOUS
    <3> HIDE DEF n
    <3> QED BY <3>1
  <2>2. Len(even) = EvenUp(n)
    BY <1>3
  <2> HIDE DEF n, even
  <2> QED BY <2>1, <2>2 DEF EvenUp
<1> HIDE DEF even
<1>5. half \in Nat /\ 2 * half = Len(even)
  BY <1>4
<1>6. next = [i \in 1 .. half |-> PairHash(even[2 * i - 1], even[2 * i])]
  BY DEF NextLayer, even
<1>7. \A i \in 1 .. half : PairHash(even[2 * i - 1], even[2 * i]) \in Pairs(X)
  <2> TAKE i \in 1 .. half
  <2>1. 2 * i - 1 \in 1 .. Len(even) /\ 2 * i \in 1 .. Len(even)
    BY <1>5
  <2>2. even[2 * i - 1] \in X /\ even[2 * i] \in X
    BY <1>3, <2>1
  <2> QED BY <2>2 DEF Pairs
<1> HIDE DEF half, next
<1>8. next \in [1 .. half -> Pairs(X)]
  BY <1>6, <1>7
<1>9. next \in Seq(Pairs(X)) /\ Len(next) = half
  BY <1>5, <1>8
<1>10. \A i \in 1 .. Len(next) : next[i] = PairHash(even[2 * i - 1], even[2 * i])
  BY <1>6, <1>9
<1>11. /\ Padded(layer) \in Seq(X) /\ Len(Padded(layer)) % 2 = 0
       /\ Len(Padded(layer)) = EvenUp(Len(layer))
       /\ \A i \in 1 .. Len(layer) : Padded(layer)[i] = layer[i]
  BY <1>3, <1>4 DEF even
<1>12. NextLayer(layer) \in Seq(Pairs(X))
  BY <1>9 DEF next
<1>13. Len(NextLayer(layer)) = Len(Padded(layer)) \div 2
  BY <1>9 DEF next, half, even
<1>14. \A i \in 1 .. Len(NextLayer(layer)) :
         NextLayer(layer)[i] = PairHash(Padded(layer)[2 * i - 1], Padded(layer)[2 * i])
  BY <1>10 DEF next, even
<1> QED BY <1>11, <1>12, <1>13, <1>14

\* The layers follow each other.
LEMMA LayersFollow ==
  ASSUME NEW hashes, Len(hashes) \in Nat
  PROVE  /\ Layers(hashes)[0] = hashes
         /\ \A k \in 1 .. Len(hashes) : Layers(hashes)[k] = NextLayer(Layers(hashes)[k - 1])
<1> DEFINE Builds(g, n) ==
             g = [k \in 0 .. n |-> IF k = 0 THEN hashes ELSE NextLayer(g[k - 1])]
           wrong == {n \in Nat : ~ \E g : Builds(g, n)}
           layer == CHOOSE g : Builds(g, Len(hashes))
<1>1. ASSUME NEW n \in wrong, \A k \in wrong : n <= k PROVE FALSE
  <2>1. n # 0
    <3> DEFINE g == [k \in 0 .. 0 |-> hashes]
    <3>1. Builds(g, 0)
      OBVIOUS
    <3> QED BY <3>1
  <2>2. n \in Nat /\ n - 1 \in Nat /\ n - 1 \notin wrong
    <3>1. n \in Nat /\ n - 1 \in Nat /\ ~ (n <= n - 1)
      BY <2>1
    <3> HIDE DEF wrong
    <3> QED BY <1>1, <3>1
  <2>3. PICK g : Builds(g, n - 1)
    BY <2>2
  <2> DEFINE h == [k \in 0 .. n |-> IF k = 0 THEN hashes ELSE NextLayer(g[k - 1])]
  <2>4. \A k \in 0 .. n - 1 : h[k] = g[k]
    BY <2>2, <2>3
  <2>5. \A k \in 0 .. n : k # 0 => h[k - 1] = g[k - 1]
    <3>1. \A k \in 0 .. n : k # 0 => k - 1 \in 0 .. n - 1
      BY <2>2
    <3> HIDE DEF h
    <3> QED BY <2>4, <3>1
  <2>6. Builds(h, n)
    <3>1. \A k \in 0 .. n : h[k] = IF k = 0 THEN hashes ELSE NextLayer(h[k - 1])
      <4>1. \A k \in 0 .. n : h[k] = IF k = 0 THEN hashes ELSE NextLayer(g[k - 1])
        OBVIOUS
      <4> HIDE DEF h
      <4> QED BY <2>5, <4>1
    <3>2. h = [k \in 0 .. n |-> h[k]]
      OBVIOUS
    <3> HIDE DEF h
    <3> QED BY <3>1, <3>2
  <2> HIDE DEF h
  <2> QED BY <2>6
<1>2. \E g : Builds(g, Len(hashes))
  <2> SUFFICES ASSUME wrong # {} PROVE FALSE
    OBVIOUS
  <2>1. \E n \in wrong : \A k \in wrong : n <= k
    <3>1. wrong \in SUBSET Nat
      OBVIOUS
    <3> HIDE DEF wrong
    <3> QED BY <3>1, LeastNumber
  <2> QED BY <1>1, <2>1
<1>3. Builds(layer, Len(hashes))
  BY <1>2
<1>4. Layers(hashes) = layer
  BY DEF Layers
<1> HIDE DEF layer
<1> QED BY <1>3, <1>4
\* A path moves to the parent of each place.
LEMMA PathFollows ==
  ASSUME NEW hashes, Len(hashes) \in Nat, NEW i
  PROVE  /\ Path(hashes, i)[0] = i
         /\ \A k \in 1 .. Len(hashes) :
              Path(hashes, i)[k] = (Path(hashes, i)[k - 1] + 1) \div 2
<1> DEFINE Builds(g, n) ==
             g = [k \in 0 .. n |-> IF k = 0 THEN i ELSE (g[k - 1] + 1) \div 2]
           wrong == {n \in Nat : ~ \E g : Builds(g, n)}
           built == CHOOSE g : Builds(g, Len(hashes))
<1>1. ASSUME NEW n \in wrong, \A k \in wrong : n <= k PROVE FALSE
  <2>1. n # 0
    <3> DEFINE g == [k \in 0 .. 0 |-> i]
    <3>1. Builds(g, 0)
      OBVIOUS
    <3> QED BY <3>1
  <2>2. n \in Nat /\ n - 1 \in Nat /\ n - 1 \notin wrong
    <3>1. n \in Nat /\ n - 1 \in Nat /\ ~ (n <= n - 1)
      BY <2>1
    <3> HIDE DEF wrong
    <3> QED BY <1>1, <3>1
  <2>3. PICK g : Builds(g, n - 1)
    BY <2>2
  <2> DEFINE h == [k \in 0 .. n |-> IF k = 0 THEN i ELSE (g[k - 1] + 1) \div 2]
  <2>4. \A k \in 0 .. n - 1 : h[k] = g[k]
    BY <2>2, <2>3
  <2>5. \A k \in 0 .. n : k # 0 => h[k - 1] = g[k - 1]
    <3>1. \A k \in 0 .. n : k # 0 => k - 1 \in 0 .. n - 1
      BY <2>2
    <3> HIDE DEF h
    <3> QED BY <2>4, <3>1
  <2>6. Builds(h, n)
    <3>1. \A k \in 0 .. n : h[k] = IF k = 0 THEN i ELSE (h[k - 1] + 1) \div 2
      <4>1. \A k \in 0 .. n : h[k] = IF k = 0 THEN i ELSE (g[k - 1] + 1) \div 2
        OBVIOUS
      <4> HIDE DEF h
      <4> QED BY <2>5, <4>1
    <3>2. h = [k \in 0 .. n |-> h[k]]
      OBVIOUS
    <3> HIDE DEF h
    <3> QED BY <3>1, <3>2
  <2> HIDE DEF h
  <2> QED BY <2>6
<1>2. \E g : Builds(g, Len(hashes))
  <2> SUFFICES ASSUME wrong # {} PROVE FALSE
    OBVIOUS
  <2>1. \E n \in wrong : \A k \in wrong : n <= k
    <3>1. wrong \in SUBSET Nat
      OBVIOUS
    <3> HIDE DEF wrong
    <3> QED BY <3>1, LeastNumber
  <2> QED BY <1>1, <2>1
<1>3. Builds(built, Len(hashes))
  BY <1>2
<1>4. Path(hashes, i) = built
  BY DEF Path
<1> HIDE DEF built
<1> QED BY <1>3, <1>4

\* What verifyScore computes on the way.
Follows(hash, leaf, proof) ==
  /\ hash[0] = LeafHash(leaf)
  /\ \A k \in 1 .. Len(proof) : hash[k] = PairHash(hash[k - 1], proof[k])
  /\ \A root : VerifyScore(root, leaf, proof) <=> hash[Len(proof)] = root

LEMMA VerifyFollows ==
  ASSUME NEW leaf, NEW proof, Len(proof) \in Nat
  PROVE  \E hash : Follows(hash, leaf, proof)
<1> DEFINE Builds(g, n) ==
             g = [k \in 0 .. n |-> IF k = 0 THEN LeafHash(leaf) ELSE PairHash(g[k - 1], proof[k])]
           wrong == {n \in Nat : ~ \E g : Builds(g, n)}
           built == CHOOSE g : Builds(g, Len(proof))
<1>1. ASSUME NEW n \in wrong, \A k \in wrong : n <= k PROVE FALSE
  <2>1. n # 0
    <3> DEFINE g == [k \in 0 .. 0 |-> LeafHash(leaf)]
    <3>1. Builds(g, 0)
      OBVIOUS
    <3> QED BY <3>1
  <2>2. n \in Nat /\ n - 1 \in Nat /\ n - 1 \notin wrong
    <3>1. n \in Nat /\ n - 1 \in Nat /\ ~ (n <= n - 1)
      BY <2>1
    <3> HIDE DEF wrong
    <3> QED BY <1>1, <3>1
  <2>3. PICK g : Builds(g, n - 1)
    BY <2>2
  <2> DEFINE h == [k \in 0 .. n |-> IF k = 0 THEN LeafHash(leaf) ELSE PairHash(g[k - 1], proof[k])]
  <2>4. \A k \in 0 .. n - 1 : h[k] = g[k]
    BY <2>2, <2>3
  <2>5. \A k \in 0 .. n : k # 0 => h[k - 1] = g[k - 1]
    <3>1. \A k \in 0 .. n : k # 0 => k - 1 \in 0 .. n - 1
      BY <2>2
    <3> HIDE DEF h
    <3> QED BY <2>4, <3>1
  <2>6. Builds(h, n)
    <3>1. \A k \in 0 .. n : h[k] = IF k = 0 THEN LeafHash(leaf) ELSE PairHash(h[k - 1], proof[k])
      <4>1. \A k \in 0 .. n : h[k] = IF k = 0 THEN LeafHash(leaf) ELSE PairHash(g[k - 1], proof[k])
        OBVIOUS
      <4> HIDE DEF h
      <4> QED BY <2>5, <4>1
    <3>2. h = [k \in 0 .. n |-> h[k]]
      OBVIOUS
    <3> HIDE DEF h
    <3> QED BY <3>1, <3>2
  <2> HIDE DEF h
  <2> QED BY <2>6
<1>2. \E g : Builds(g, Len(proof))
  <2> SUFFICES ASSUME wrong # {} PROVE FALSE
    OBVIOUS
  <2>1. \E n \in wrong : \A k \in wrong : n <= k
    <3>1. wrong \in SUBSET Nat
      OBVIOUS
    <3> HIDE DEF wrong
    <3> QED BY <3>1, LeastNumber
  <2> QED BY <1>1, <2>1
<1>3. Builds(built, Len(proof))
  BY <1>2
<1>4. \A root : VerifyScore(root, leaf, proof) <=> built[Len(proof)] = root
  BY DEF VerifyScore
<1> HIDE DEF built
<1>5. /\ built[0] = LeafHash(leaf)
      /\ \A k \in 1 .. Len(proof) : built[k] = PairHash(built[k - 1], proof[k])
  BY <1>3
<1> QED BY <1>4, <1>5 DEF Follows

\* Halving.
LEMMA HalfOf ==
  ASSUME NEW n \in Nat \ {0}
  PROVE  LET half == EvenUp(n) \div 2
         IN /\ half \in Nat \ {0} /\ (n # 1 => half < n)
            /\ \A p \in 1 .. n : (p + 1) \div 2 \in 1 .. half
  BY DEF EvenUp

\* A sequence of one hash or more.
IsLayer(s) == Len(s) \in Nat \ {0} /\ \E Z : s \in Seq(Z)

\* All layers are layers, and each is shorter than the one before until there is one
\* hash left.
LEMMA LayersShape ==
  ASSUME NEW hashes, IsLayer(hashes)
  PROVE  \A k \in 0 .. Len(hashes) :
           /\ IsLayer(Layers(hashes)[k])
           /\ (\A j \in 0 .. k - 1 : Len(Layers(hashes)[j]) # 1)
                => Len(Layers(hashes)[k]) + k <= Len(hashes)
<1> DEFINE layer == Layers(hashes)
           top == Len(hashes)
           Good(k) == /\ IsLayer(layer[k])
                      /\ (\A j \in 0 .. k - 1 : Len(layer[j]) # 1) => Len(layer[k]) + k <= top
           wrong == {k \in 0 .. top : ~ Good(k)}
<1>1. top \in Nat /\ layer[0] = hashes /\ \A k \in 1 .. top : layer[k] = NextLayer(layer[k - 1])
  BY LayersFollow DEF IsLayer
<1> HIDE DEF layer
<1>2. ASSUME NEW n \in wrong, \A k \in wrong : n <= k PROVE FALSE
  <2>1. Good(0)
    BY <1>1
  <2>2. n \in 1 .. top /\ n - 1 \in 0 .. top /\ n - 1 \notin wrong
    <3>1. n # 0 /\ n \in 0 .. top
      BY <2>1
    <3>2. n \in 1 .. top /\ n - 1 \in 0 .. top /\ ~ (n <= n - 1)
      BY <1>1, <3>1
    <3> HIDE DEF wrong
    <3> QED BY <1>2, <3>2
  <2>3. Good(n - 1)
    BY <2>2
  <2> DEFINE last == layer[n - 1]
  <2>4. PICK Z : last \in Seq(Z)
    BY <2>3 DEF IsLayer
  <2>5. Len(last) \in Nat \ {0}
    BY <2>3 DEF IsLayer
  <2>6. layer[n] = NextLayer(last)
    BY <1>1, <2>2
  <2>7. NextLayer(last) \in Seq(Pairs(Z)) /\ Len(NextLayer(last)) = EvenUp(Len(last)) \div 2
    <3>1. Len(last) > 0
      BY <2>5
    <3> HIDE DEF last
    <3> QED BY <2>4, <3>1, NextLayerShape
  <2>8. Len(layer[n]) \in Nat \ {0} /\ (Len(last) # 1 => Len(layer[n]) < Len(last))
    BY <2>5, <2>6, <2>7, HalfOf
  <2>9. IsLayer(layer[n])
    BY <2>6, <2>7, <2>8 DEF IsLayer
  <2>10. ASSUME \A j \in 0 .. n - 1 : Len(layer[j]) # 1 PROVE Len(layer[n]) + n <= top
    <3>1. Len(last) # 1 /\ \A j \in 0 .. n - 1 - 1 : Len(layer[j]) # 1
      <4>1. n - 1 \in 0 .. n - 1 /\ \A j \in 0 .. n - 1 - 1 : j \in 0 .. n - 1
        BY <2>2
      <4> QED BY <2>10, <4>1
    <3>2. Len(last) + (n - 1) <= top
      BY <2>3, <3>1
    <3> HIDE DEF last
    <3> QED BY <1>1, <2>2, <2>5, <2>8, <3>1, <3>2
  <2>11. Good(n)
    BY <2>9, <2>10
  <2> QED BY <2>11
<1>3. wrong = {}
  <2> SUFFICES ASSUME wrong # {} PROVE FALSE
    OBVIOUS
  <2>1. \E n \in wrong : \A k \in wrong : n <= k
    <3>1. wrong \in SUBSET Nat
      BY <1>1
    <3> HIDE DEF wrong
    <3> QED BY <3>1, LeastNumber
  <2> QED BY <1>2, <2>1
<1> QED BY <1>3 DEF layer

\* There is a root.
LEMMA HeightShape ==
  ASSUME NEW hashes, IsLayer(hashes)
  PROVE  /\ Height(hashes) \in 0 .. Len(hashes)
         /\ Len(Layers(hashes)[Height(hashes)]) = 1
<1> DEFINE layer == Layers(hashes)
           top == Len(hashes)
           single == {k \in 0 .. top : Len(layer[k]) = 1}
<1>1. top \in Nat
  BY DEF IsLayer
<1>2. single # {}
  <2> SUFFICES ASSUME \A k \in 0 .. top : Len(layer[k]) # 1 PROVE FALSE
    OBVIOUS
  <2>1. top \in 0 .. top /\ \A j \in 0 .. top - 1 : j \in 0 .. top
    BY <1>1
  <2>2. Len(layer[top]) \in Nat \ {0} /\ Len(layer[top]) + top <= top
    BY <2>1, LayersShape DEF IsLayer
  <2> QED BY <1>1, <2>2
<1>3. \E k \in single : \A j \in single : k <= j
  <2>1. single \in SUBSET Nat
    BY <1>1
  <2> HIDE DEF single
  <2> QED BY <1>2, <2>1, LeastNumber
<1>4. \E k \in 0 .. top : Len(layer[k]) = 1 /\ \A j \in 0 .. k - 1 : Len(layer[j]) # 1
  <2>1. PICK k \in single : \A j \in single : k <= j
    BY <1>3
  <2>2. \A j \in 0 .. k - 1 : j \in 0 .. top /\ ~ (k <= j)
    BY <1>1, <2>1
  <2> QED BY <2>1, <2>2
<1> HIDE DEF layer, top
<1> QED BY <1>4 DEF Height, layer, top

\* A leaf's hash is not that of a pair, and says which leaf it is of; a pair's says
\* which two it is of.
LEMMA HashesAreFree ==
  /\ \A leaf, a, b : LeafHash(leaf) # PairHash(a, b)
  /\ \A leaf, other : LeafHash(leaf) = LeafHash(other)
                        => leaf.miner = other.miner /\ leaf.score = other.score
  /\ \A a, b, c, d : PairHash(a, b) = PairHash(c, d) => c \in {a, b}
  /\ \A a, b : PairHash(a, b) = PairHash(b, a)
  BY DEF LeafHash, PairHash

\* What verifies is in the tree: no sequence of hashes proves a leaf that is not.
LEMMA VerifiedIsLeaf ==
  ASSUME NEW hashes, IsLayer(hashes), NEW leaf, NEW proof, Len(proof) \in Nat,
         \A i \in 1 .. Len(hashes) : \E l : hashes[i] = LeafHash(l),
         VerifyScore(RootOf(hashes), leaf, proof)
  PROVE  \E i \in 1 .. Len(hashes) : hashes[i] = LeafHash(leaf)
<1> DEFINE layer == Layers(hashes)
           top == Height(hashes)
<1>1. /\ top \in 0 .. Len(hashes) /\ Len(layer[top]) = 1 /\ Len(hashes) \in Nat
      /\ layer[0] = hashes
      /\ \A k \in 1 .. Len(hashes) : layer[k] = NextLayer(layer[k - 1])
      /\ \A k \in 0 .. Len(hashes) : IsLayer(layer[k])
  BY HeightShape, LayersFollow, LayersShape DEF IsLayer
<1>2. RootOf(hashes) = layer[top][1]
  BY DEF RootOf
<1> HIDE DEF layer, top
<1>3a. PICK hash : Follows(hash, leaf, proof)
  BY VerifyFollows
<1>3. /\ hash[0] = LeafHash(leaf)
      /\ \A k \in 1 .. Len(proof) : hash[k] = PairHash(hash[k - 1], proof[k])
      /\ \A root : VerifyScore(root, leaf, proof) <=> hash[Len(proof)] = root
  BY <1>3a DEF Follows
<1> DEFINE In(h, j) == \E i \in 1 .. Len(layer[j]) : layer[j][i] = h
           met == {k \in 0 .. Len(proof) : \E j \in 0 .. top : In(hash[k], j)}
<1>4. Len(proof) \in met
  BY <1>1, <1>2, <1>3
\* Where the path meets the tree first is at the leaf's own hash.
<1>5. PICK k \in met : \A l \in met : k <= l
  <2>1. met \in SUBSET Nat
    OBVIOUS
  <2> HIDE DEF met
  <2> QED BY <1>4, <2>1, LeastNumber
<1>6. PICK j \in 0 .. top : In(hash[k], j)
  BY <1>5
<1>7. ASSUME j # 0 PROVE \E a, b : hash[k] = PairHash(a, b) /\ In(a, j - 1) /\ In(b, j - 1)
  <2> DEFINE below == layer[j - 1]
  <2>1. j \in 1 .. Len(hashes) /\ j - 1 \in 0 .. Len(hashes)
    BY <1>1, <1>7
  <2>2. layer[j] = NextLayer(below) /\ IsLayer(below)
    BY <1>1, <2>1
  <2>3. PICK Z : below \in Seq(Z)
    BY <2>2 DEF IsLayer
  <2>4. PICK i \in 1 .. Len(layer[j]) : layer[j][i] = hash[k]
    BY <1>6
  <2> DEFINE own == {below[q] : q \in 1 .. Len(below)}
  <2>5. Len(below) \in Nat \ {0} /\ Len(below) > 0
    BY <2>2 DEF IsLayer
  <2> HIDE DEF below
  <2>6. below \in Seq(own)
    <3>1. below \in [1 .. Len(below) -> own] /\ Len(below) \in Nat
      BY <2>3, <2>5
    <3> HIDE DEF own
    <3> QED BY <3>1
  <2>7. layer[j] \in Seq(Pairs(own))
    <3> HIDE DEF own
    <3> QED BY <2>2, <2>5, <2>6, NextLayerShape
  <2>8. hash[k] \in Pairs(own)
    <3> HIDE DEF own
    <3> QED BY <2>4, <2>7
  <2>9. PICK a \in own, b \in own : hash[k] = PairHash(a, b)
    <3> HIDE DEF own
    <3> QED BY <2>8 DEF Pairs
  <2>10. PICK x \in 1 .. Len(below), y \in 1 .. Len(below) : a = below[x] /\ b = below[y]
    BY <2>9
  <2> QED BY <2>9, <2>10 DEF below
<1> HIDE DEF In
<1>8. CASE k = 0
  <2>1. j = 0
    BY <1>3, <1>7, <1>8, HashesAreFree
  <2> QED BY <1>1, <1>3, <1>6, <1>8, <2>1 DEF In
<1>9. CASE k # 0
  <2>1. k \in 1 .. Len(proof) /\ k - 1 \in 0 .. Len(proof) /\ ~ (k <= k - 1)
    BY <1>9
  <2>2. hash[k] = PairHash(hash[k - 1], proof[k])
    BY <1>3, <2>1
  <2>3. j # 0
    BY <1>1, <1>6, <2>2, HashesAreFree DEF In
  <2>4. In(hash[k - 1], j - 1)
    BY <1>7, <2>2, <2>3, HashesAreFree
  <2>5. j - 1 \in 0 .. top
    BY <1>1, <2>3
  <2>6. k - 1 \in met
    BY <2>1, <2>4, <2>5
  <2> HIDE DEF met
  <2> QED BY <1>5, <2>1, <2>6
<1> QED BY <1>8, <1>9

\* What is in the tree verifies with its proof.
LEMMA ProofVerifies ==
  ASSUME NEW hashes, IsLayer(hashes), NEW i \in 1 .. Len(hashes),
         NEW leaf, LeafHash(leaf) = hashes[i]
  PROVE  /\ Len(ProofAt(hashes, i)) \in Nat
         /\ VerifyScore(RootOf(hashes), leaf, ProofAt(hashes, i))
<1> DEFINE layer == Layers(hashes)
           top == Height(hashes)
           at == Path(hashes, i)
           proof == ProofAt(hashes, i)
<1>1. /\ top \in 0 .. Len(hashes) /\ Len(layer[top]) = 1 /\ Len(hashes) \in Nat
      /\ layer[0] = hashes
      /\ \A k \in 1 .. Len(hashes) : layer[k] = NextLayer(layer[k - 1])
      /\ \A k \in 0 .. Len(hashes) : IsLayer(layer[k])
  BY HeightShape, LayersFollow, LayersShape DEF IsLayer
<1>2. /\ at[0] = i /\ \A k \in 1 .. Len(hashes) : at[k] = (at[k - 1] + 1) \div 2
  BY <1>1, PathFollows
<1>3. proof = [k \in 1 .. top |-> Padded(layer[k - 1])[Sibling(at[k - 1])]]
  BY DEF ProofAt
<1>4. RootOf(hashes) = layer[top][1]
  BY DEF RootOf
<1> HIDE DEF layer, top, at, proof
<1>5. Len(proof) = top /\ top \in Nat
  <2> DEFINE own == {proof[k] : k \in 1 .. top}
  <2>1. proof \in [1 .. top -> own] /\ top \in Nat
    BY <1>1, <1>3
  <2> HIDE DEF own
  <2> QED BY <2>1
<1>6a. PICK hash : Follows(hash, leaf, proof)
  BY <1>5, VerifyFollows
<1>6. /\ hash[0] = LeafHash(leaf)
      /\ \A k \in 1 .. Len(proof) : hash[k] = PairHash(hash[k - 1], proof[k])
      /\ \A root : VerifyScore(root, leaf, proof) <=> hash[Len(proof)] = root
  BY <1>6a DEF Follows
<1> DEFINE Good(k) == at[k] \in 1 .. Len(layer[k]) /\ hash[k] = layer[k][at[k]]
           wrong == {k \in 0 .. top : ~ Good(k)}
\* The path is always at the hash that was computed.
<1>7. ASSUME NEW k \in wrong, \A l \in wrong : k <= l PROVE FALSE
  <2>1. Good(0)
    BY <1>1, <1>2, <1>6
  <2>2. k \in 1 .. top /\ k - 1 \in 0 .. top /\ k - 1 \notin wrong
    <3>1. k # 0 /\ k \in 0 .. top
      BY <2>1
    <3>2. k \in 1 .. top /\ k - 1 \in 0 .. top /\ ~ (k <= k - 1)
      BY <1>5, <3>1
    <3> HIDE DEF wrong
    <3> QED BY <1>7, <3>2
  <2> DEFINE below == layer[k - 1]
             p == at[k - 1]
             q == at[k]
             even == Padded(below)
             n == Len(below)
  <2>3. p \in 1 .. n /\ hash[k - 1] = below[p]
    BY <2>2
  <2>4. /\ k \in 1 .. Len(hashes) /\ k - 1 \in 0 .. Len(hashes)
        /\ layer[k] = NextLayer(below) /\ IsLayer(below) /\ q = (p + 1) \div 2
    <3>1. k \in 1 .. Len(hashes) /\ k - 1 \in 0 .. Len(hashes)
      <4> HIDE DEF wrong
      <4> QED BY <1>1, <2>2
    <3> QED BY <1>1, <1>2, <3>1
  <2>5. proof[k] = even[Sibling(p)] /\ hash[k] = PairHash(hash[k - 1], proof[k])
    BY <1>3, <1>5, <1>6, <2>2
  <2>6. PICK Z : below \in Seq(Z)
    BY <2>4 DEF IsLayer
  <2>7. n \in Nat \ {0} /\ n > 0
    BY <2>4 DEF IsLayer
  <2> HIDE DEF below
  <2>8. /\ \A x \in 1 .. n : even[x] = below[x]
        /\ Len(NextLayer(below)) = EvenUp(n) \div 2
        /\ \A x \in 1 .. Len(NextLayer(below)) :
             NextLayer(below)[x] = PairHash(even[2 * x - 1], even[2 * x])
    BY <2>6, <2>7, NextLayerShape
  <2> HIDE DEF p, q, even, n
  <2>9. q \in 1 .. Len(layer[k])
    BY <2>3, <2>4, <2>7, <2>8, HalfOf
  <2>10. layer[k][q] = PairHash(even[2 * q - 1], even[2 * q])
    BY <2>4, <2>8, <2>9
  <2>11. hash[k] = PairHash(even[p], even[Sibling(p)])
    BY <2>3, <2>5, <2>8
  <2>12. \/ 2 * q - 1 = p /\ 2 * q = Sibling(p)
         \/ 2 * q = p /\ 2 * q - 1 = Sibling(p)
    BY <2>3, <2>4, <2>7 DEF Sibling
  <2>13. hash[k] = layer[k][q]
    BY <2>10, <2>11, <2>12, HashesAreFree
  <2>14. Good(k)
    BY <2>9, <2>13 DEF q
  <2> QED BY <2>14
<1>8. wrong = {}
  <2> SUFFICES ASSUME wrong # {} PROVE FALSE
    OBVIOUS
  <2>1. \E k \in wrong : \A l \in wrong : k <= l
    <3>1. wrong \in SUBSET Nat
      BY <1>5
    <3> HIDE DEF wrong
    <3> QED BY <3>1, LeastNumber
  <2> QED BY <1>7, <2>1
<1>9. Good(top)
  BY <1>5, <1>8
<1>10. hash[top] = layer[top][1]
  <2>1. at[top] = 1
    BY <1>1, <1>9
  <2> QED BY <1>9, <2>1
<1> QED BY <1>4, <1>5, <1>6, <1>10 DEF proof

\* The leaves' hashes, in some order, make a list of all of them and of no other.
LEMMA HashedShape ==
  ASSUME NEW tree, IsFiniteSet(tree)
  PROVE  /\ Len(Hashed(tree)) \in Nat
         /\ Hashed(tree) \in Seq({LeafHash(l) : l \in tree})
         /\ \A l \in tree : \E i \in 1 .. Len(Hashed(tree)) : Hashed(tree)[i] = LeafHash(l)
<1> DEFINE pick(s) == CHOOSE l \in s : TRUE
           H == {LeafHash(l) : l \in tree}
           Upto(n) == {s \in SUBSET tree : Cardinality(s) <= n}
           Value(g, s) == IF s = {} THEN <<>> ELSE Append(g[s \ {pick(s)}], LeafHash(pick(s)))
           Folds(g) == g = [s \in SUBSET tree |-> Value(g, s)]
           Lists(g, s) == /\ g[s] \in Seq(H)
                          /\ \A l \in s : \E i \in 1 .. Len(g[s]) : g[s][i] = LeafHash(l)
           FoldsTo(g, n) == \A s \in Upto(n) : g[s] = Value(g, s)
           wrong == {n \in Nat : ~ \E g : FoldsTo(g, n)}
           iter == CHOOSE g : Folds(g)
<1>1. Hashed(tree) = iter[tree]
  BY DEF Hashed, FoldSet, MapThenFoldSet
<1>2. \A s \in SUBSET tree : s # {} => pick(s) \in s
  OBVIOUS
<1> HIDE DEF pick
<1>3. \A s \in SUBSET tree : IsFiniteSet(s) /\ Cardinality(s) \in Nat
  BY FS_Subset, FS_CardinalityType
<1>4. \A s \in SUBSET tree : s # {} =>
        /\ s \ {pick(s)} \in SUBSET tree
        /\ \A n \in Nat : s \in Upto(n) => n # 0 /\ s \ {pick(s)} \in Upto(n - 1)
  <2> TAKE s \in SUBSET tree
  <2> HAVE s # {}
  <2>1. pick(s) \in s /\ IsFiniteSet(s) /\ Cardinality(s) \in Nat
    BY <1>2, <1>3
  <2>2. Cardinality(s \ {pick(s)}) = Cardinality(s) - 1
    BY <2>1, FS_RemoveElement
  <2>3. Cardinality(s) # 0
    BY <2>1, FS_EmptySet
  <2> QED BY <2>1, <2>2, <2>3
<1>5. ASSUME NEW g, NEW s \in SUBSET tree, NEW t \in SUBSET tree, t = s \ {pick(s)}, s # {},
             Lists(g, t), g[s] = Append(g[t], LeafHash(pick(s)))
      PROVE  Lists(g, s)
  <2>1. pick(s) \in s /\ LeafHash(pick(s)) \in H
    BY <1>2, <1>5
  <2> DEFINE last == LeafHash(pick(s))
             before == g[t]
  <2>2. before \in Seq(H) /\ last \in H /\ g[s] = Append(before, last)
    BY <1>5, <2>1
  <2> HIDE DEF H, last, before
  <2>3. /\ g[s] \in Seq(H) /\ Len(g[s]) = Len(before) + 1 /\ Len(before) \in Nat
        /\ g[s][Len(before) + 1] = last
        /\ \A i \in 1 .. Len(before) : i \in 1 .. Len(g[s]) /\ g[s][i] = before[i]
    BY <2>2
  <2>4. \A l \in s : \E i \in 1 .. Len(g[s]) : g[s][i] = LeafHash(l)
    <3> TAKE l \in s
    <3>1. CASE l = pick(s)
      <4>1. Len(before) + 1 \in 1 .. Len(g[s])
        BY <2>3
      <4> QED BY <2>3, <3>1, <4>1 DEF last
    <3>2. CASE l # pick(s)
      <4>1. l \in t
        BY <1>5, <3>2
      <4>2. PICK i \in 1 .. Len(before) : before[i] = LeafHash(l)
        BY <1>5, <4>1 DEF before
      <4> QED BY <2>3, <4>2
    <3> QED BY <3>1, <3>2
  <2> QED BY <2>3, <2>4
<1>6. ASSUME NEW n \in wrong, \A k \in wrong : n <= k PROVE FALSE
  <2>1. n # 0
    <3> DEFINE g == [s \in SUBSET tree |-> <<>>]
    <3>1. \A s \in Upto(0) : s = {}
      BY <1>4
    <3>2. \A s \in Upto(0) : g[s] = <<>>
      OBVIOUS
    <3>3. FoldsTo(g, 0)
      <4> HIDE DEF g
      <4> QED BY <3>1, <3>2
    <3> QED BY <3>3
  <2>2. n \in Nat /\ n - 1 \in Nat /\ n - 1 \notin wrong
    <3>1. n \in Nat /\ n - 1 \in Nat /\ ~ (n <= n - 1)
      BY <2>1
    <3> HIDE DEF wrong
    <3> QED BY <1>6, <3>1
  <2>3. PICK g : FoldsTo(g, n - 1)
    BY <2>2
  <2> DEFINE h == [s \in SUBSET tree |-> Value(g, s)]
  <2> HIDE DEF Value, Upto, wrong
  <2>4. \A s \in SUBSET tree : h[s] = Value(g, s)
    OBVIOUS
  <2> HIDE DEF h
  <2>5. \A s \in Upto(n - 1) : h[s] = g[s]
    BY <2>3, <2>4 DEF Upto
  <2>6. FoldsTo(h, n)
    <3> SUFFICES ASSUME NEW s \in Upto(n) PROVE h[s] = Value(h, s)
      OBVIOUS
    <3>1. s \in SUBSET tree
      BY DEF Upto
    <3>2. CASE s = {}
      BY <2>4, <3>1, <3>2 DEF Value
    <3>3. CASE s # {}
      <4> DEFINE t == s \ {pick(s)}
      <4>1. t \in SUBSET tree /\ t \in Upto(n - 1)
        BY <1>4, <2>2, <3>1, <3>3
      <4>2. h[t] = g[t]
        BY <2>5, <4>1
      <4> QED BY <2>4, <3>1, <3>3, <4>2 DEF Value
    <3> QED BY <3>2, <3>3
  <2> QED BY <2>2, <2>6 DEF wrong
<1>7. wrong = {}
  <2> SUFFICES ASSUME wrong # {} PROVE FALSE
    OBVIOUS
  <2>1. \E n \in wrong : \A k \in wrong : n <= k
    <3>1. wrong \in SUBSET Nat
      OBVIOUS
    <3> HIDE DEF wrong
    <3> QED BY <3>1, LeastNumber
  <2> QED BY <1>6, <2>1
<1>8. PICK g : FoldsTo(g, Cardinality(tree))
  <2>1. Cardinality(tree) \in Nat
    BY <1>3
  <2> QED BY <1>7, <2>1
<1>9. SUBSET tree = Upto(Cardinality(tree))
  <2>1. \A s \in SUBSET tree : Cardinality(s) <= Cardinality(tree)
    BY FS_Subset
  <2> QED BY <2>1<1>10. Folds(iter)
  <2> DEFINE h == [s \in SUBSET tree |-> g[s]]
  <2>1. \A s \in SUBSET tree : g[s] = Value(g, s)
    BY <1>8, <1>9
  <2>2. \A s \in SUBSET tree : h[s] = Value(h, s)
    <3>1. \A s \in SUBSET tree : h[s] = g[s]
      OBVIOUS
    <3> HIDE DEF h
    <3> QED BY <1>4, <2>1, <3>1
  <2>3. h = [s \in SUBSET tree |-> h[s]]
    OBVIOUS
  <2>4. Folds(h)
    <3> HIDE DEF h, Value
    <3> QED BY <2>2, <2>3
  <2> HIDE DEF h
  <2> QED BY <2>4
<1> HIDE DEF iter
<1>11. \A s \in SUBSET tree : iter[s] = Value(iter, s)
  <2> HIDE DEF Value
  <2> QED BY <1>10
<1> DEFINE bad == {n \in Nat : \E s \in SUBSET tree : Cardinality(s) = n /\ ~ Lists(iter, s)}
<1>12. ASSUME NEW n \in bad, \A k \in bad : n <= k PROVE FALSE
  <2>1. PICK s \in SUBSET tree : Cardinality(s) = n /\ ~ Lists(iter, s)
    BY <1>12
  <2>2. s # {}
    <3>1. iter[{}] = <<>> /\ <<>> \in Seq(H)
      <4>1. iter[{}] = Value(iter, {})
        <5> HIDE DEF Value
        <5> QED BY <1>11
      <4> HIDE DEF H
      <4> QED BY <4>1
    <3> HIDE DEF H
    <3> QED BY <2>1, <3>1
  <2> DEFINE t == s \ {pick(s)}
  <2>3. t \in SUBSET tree /\ Cardinality(t) \in Nat /\ ~ (n <= Cardinality(t))
    <3>1. s \in Upto(n) /\ n \in Nat
      BY <1>3, <2>1
    <3>2. t \in SUBSET tree /\ t \in Upto(n - 1) /\ Cardinality(t) \in Nat
      BY <1>3, <1>4, <2>2, <3>1
    <3> QED BY <3>1, <3>2
  <2>4. Lists(iter, t)
    <3> HIDE DEF Lists, t
    <3> QED BY <1>12, <2>3
  <2>5. iter[s] = Append(iter[t], LeafHash(pick(s)))
    BY <1>11, <2>2
  <2>6. Lists(iter, s)
    <3> HIDE DEF Lists
    <3> QED BY <1>5, <2>2, <2>3, <2>4, <2>5
  <2> QED BY <2>1, <2>6
<1>13. bad = {}
  <2> SUFFICES ASSUME bad # {} PROVE FALSE
    OBVIOUS
  <2>1. \E n \in bad : \A k \in bad : n <= k
    <3>1. bad \in SUBSET Nat
      OBVIOUS
    <3> HIDE DEF bad
    <3> QED BY <3>1, LeastNumber
  <2> QED BY <1>12, <2>1
<1>14. Lists(iter, tree)
  <2>1. tree \in SUBSET tree /\ Cardinality(tree) \in Nat
    BY <1>3
  <2> HIDE DEF Lists
  <2> QED BY <1>13, <2>1
<1> QED BY <1>1, <1>14

\* Whatever the leaves are and however many, the registry accepts the proof of each,
\* and no list of hashes as a proof that a miner of the tree has another score.
THEOREM TreesBindScores ==
  ASSUME NEW tree, OneLeafEach(tree), NEW leaf \in tree
  PROVE  /\ Len(Proof(tree, leaf)) \in Nat
         /\ VerifyScore(Root(tree), leaf, Proof(tree, leaf))
         /\ \A score, proof :
              Len(proof) \in Nat /\ VerifyScore(Root(tree), [leaf EXCEPT !.score = score], proof)
                => score = leaf.score
<1> DEFINE hashes == Hashed(tree)
           place == CHOOSE i \in DOMAIN hashes : hashes[i] = LeafHash(leaf)
<1>1. IsFiniteSet(tree) /\ tree # {}
  BY DEF OneLeafEach
<1>2. /\ Len(hashes) \in Nat
      /\ hashes \in Seq({LeafHash(l) : l \in tree})
      /\ \A l \in tree : \E i \in 1 .. Len(hashes) : hashes[i] = LeafHash(l)
  BY <1>1, HashedShape
<1> HIDE DEF hashes
<1>3. IsLayer(hashes) /\ DOMAIN hashes = 1 .. Len(hashes)
  BY <1>2 DEF IsLayer
<1>4. place \in 1 .. Len(hashes) /\ hashes[place] = LeafHash(leaf)
  BY <1>2, <1>3
<1>5. Root(tree) = RootOf(hashes) /\ Proof(tree, leaf) = ProofAt(hashes, place)
  BY <1>1 DEF Root, Proof, hashes
<1>6. \A i \in 1 .. Len(hashes) : \E l \in tree : hashes[i] = LeafHash(l)
  BY <1>2
<1> HIDE DEF place
<1>7. /\ Len(Proof(tree, leaf)) \in Nat
      /\ VerifyScore(Root(tree), leaf, Proof(tree, leaf))
  BY <1>3, <1>4, <1>5, ProofVerifies
<1>8. ASSUME NEW score, NEW proof, Len(proof) \in Nat,
             VerifyScore(Root(tree), [leaf EXCEPT !.score = score], proof)
      PROVE  score = leaf.score
  <2> DEFINE other == [leaf EXCEPT !.score = score]
  <2>1. DOMAIN leaf = {"miner", "score"}
    BY DEF OneLeafEach
  <2>2. other.miner = leaf.miner /\ other.score = score
    BY <2>1
  <2>3. VerifyScore(RootOf(hashes), other, proof)
    BY <1>5, <1>8
  <2> HIDE DEF other
  <2>4. PICK i \in 1 .. Len(hashes) : hashes[i] = LeafHash(other)
    BY <1>3, <1>6, <1>8, <2>3, VerifiedIsLeaf
  <2>5. PICK l \in tree : LeafHash(l) = LeafHash(other)
    BY <1>6, <2>4
  <2>6. l.miner = leaf.miner /\ l.score = score
    BY <2>2, <2>5, HashesAreFree
  <2>7. l = leaf
    BY <2>6 DEF OneLeafEach
  <2> QED BY <2>6, <2>7
<1> QED BY <1>7, <1>8

-----------------------------------------------------------------------------
(* The two loops of a validator.                                           *)

\* Observations and leaves are well formed, a failure shows no text, nothing that was
\* observed is left over from an epoch that has ended, and each miner has one leaf.
ChallengesInv ==
  /\ registered \in BOOLEAN /\ posting \in BOOLEAN
  /\ observations \in Seq(Observation)
  /\ \A i \in DOMAIN observations :
       ~ observations[i].old /\ (observations[i].hash = Zero => observations[i].overlap = 0)
  /\ (asked # Nobody => asked \in Miners \X Prompts)
  /\ OneLeafEach(leaves) /\ \A l \in leaves : l.miner \in Miners

\* The leaves of a validator's own root.
LEMMA OwnLeaves ==
  ASSUME NEW obs \in Seq(Observation)
  PROVE  LET own == {[miner |-> m, score |-> ScoreMiners(obs)[m]] : m \in Scored(obs)}
         IN  OneLeafEach(own) /\ \A l \in own : l.miner \in Miners
<1> DEFINE leaf == [i \in DOMAIN obs |-> [miner |-> obs[i].miner,
                                          score |-> ScoreMiners(obs)[obs[i].miner]]]
           own == {[miner |-> m, score |-> ScoreMiners(obs)[m]] : m \in Scored(obs)}
<1>1. IsFiniteSet(own)
  <2>1. leaf \in Surjection(DOMAIN obs, own)
    BY DEF Surjection, Scored
  <2> HIDE DEF own, leaf
  <2> QED BY <2>1, IndicesFinite, FS_Surjection
<1>2. \A m \in Scored(obs) : m \in Miners /\ ScoreMiners(obs)[m] \in Nat
  <2>1. \A m \in Scored(obs) : m \in Miners
    BY IndicesFinite DEF Scored, Observation
  <2> QED BY <2>1, ScoreTyped
<1>3. \A l \in own : DOMAIN l = {"miner", "score"} /\ l.score \in Nat /\ l.miner \in Miners
  BY <1>2
<1>4. \A l, k \in own : l.miner = k.miner => l = k
  OBVIOUS
<1> QED BY <1>1, <1>3, <1>4 DEF OneLeafEach

\* Before the first challenge.
LEMMA ChallengesInvInit == ChallengesInit => ChallengesInv
<1> SUFFICES ASSUME ChallengesInit PROVE ChallengesInv
  OBVIOUS
<1>1. observations = <<>> /\ observations \in Seq(Observation)
  BY DEF ChallengesInit
<1>2. OneLeafEach({})
  BY FS_EmptySet DEF OneLeafEach
<1>3. DOMAIN observations = {}
  BY <1>1
<1> QED BY <1>1, <1>2, <1>3 DEF ChallengesInit, ChallengesInv

\* Both loops, in any order, and a restart of both.
LEMMA ChallengesInvNext == ChallengesInv /\ [ChallengesNext]_challengeVars => ChallengesInv'
<1> SUFFICES ASSUME ChallengesInv, [ChallengesNext]_challengeVars PROVE ChallengesInv'
  OBVIOUS
<1>1. CASE VerifyRegistration \/ Deregistered
  BY <1>1 DEF VerifyRegistration, Deregistered, ChallengesInv
<1>2. ASSUME NEW m \in Miners, NEW p \in Prompts, IssueChallenge(m, p) PROVE ChallengesInv'
  BY <1>2 DEF IssueChallenge, ChallengesInv
<1>3. ASSUME NEW o \in HonestOutcomes \cup OtherOutcomes, RecordObservation(o)
      PROVE  ChallengesInv'
  <2> DEFINE new == [miner |-> asked[1], prompt |-> asked[2], hash |-> o.hash,
                     overlap |-> o.overlap, latency |-> o.latency, old |-> FALSE]
  <2>1. /\ o.hash \in {Right, Wrong, Zero} /\ o.overlap \in {0, FP} /\ o.latency \in Latencies
        /\ (o.hash = Zero => o.overlap = 0)
    BY ChallengesAssumption DEF HonestOutcomes, OtherOutcomes, Failures, Outcome
  <2>2. asked \in Miners \X Prompts
    BY <1>3 DEF RecordObservation, ChallengesInv
  <2>3. new \in Observation /\ ~ new.old /\ (new.hash = Zero => new.overlap = 0)
    BY <2>1, <2>2 DEF Observation
  <2>4. observations' = Append(observations, new) /\ UNCHANGED <<registered, posting, leaves>>
        /\ asked' = Nobody
    BY <1>3 DEF RecordObservation
  <2>5. observations \in Seq(Observation)
    BY DEF ChallengesInv
  <2> HIDE DEF new
  <2>6. /\ observations' \in Seq(Observation)
        /\ \A i \in DOMAIN observations' :
             \/ i \in DOMAIN observations /\ observations'[i] = observations[i]
             \/ observations'[i] = new
    BY <2>3, <2>4, <2>5
  <2>7. \A i \in DOMAIN observations' :
          /\ ~ observations'[i].old
          /\ observations'[i].hash = Zero => observations'[i].overlap = 0
    BY <2>3, <2>6 DEF ChallengesInv
  <2> QED BY <2>4, <2>6, <2>7 DEF ChallengesInv
<1>4. CASE BeginPosting
  <2>1. OneLeafEach(leaves') /\ \A l \in leaves' : l.miner \in Miners
    BY <1>4, OwnLeaves DEF BeginPosting, ChallengesInv
  <2> QED BY <1>4, <2>1 DEF BeginPosting, ChallengesInv
<1>5. ASSUME observations' = <<>>, leaves' = {}, posting' = FALSE, registered' = registered,
             asked' = Nobody \/ asked' = asked
      PROVE  ChallengesInv'
  <2>1. <<>> \in Seq(Observation) /\ DOMAIN <<>> = {}
    OBVIOUS
  <2>2. OneLeafEach({})
    BY FS_EmptySet DEF OneLeafEach
  <2> QED BY <1>5, <2>1, <2>2 DEF ChallengesInv
<1>6. ASSUME NEW failed \in BOOLEAN, EndPosting(failed) PROVE ChallengesInv'
  <2>1. observations' = <<>>
    BY <1>6 DEF EndPosting, Cleared
  <2> QED BY <1>5, <1>6, <2>1 DEF EndPosting
<1>7. CASE ValidatorRestart
  BY <1>5, <1>7 DEF ValidatorRestart
<1>8. CASE UNCHANGED challengeVars
  BY <1>8 DEF challengeVars, ChallengesInv
<1> QED BY <1>1, <1>2, <1>3, <1>4, <1>6, <1>7, <1>8 DEF ChallengesNext

LEMMA ChallengesInductive == ChallengesSpec => []ChallengesInv
BY ChallengesInvInit, ChallengesInvNext, PTL DEF ChallengesSpec

\* Whatever is under way when an epoch ends, no response is scored in two epochs.
THEOREM ChallengesScoredInOneEpoch == ChallengesSpec => []ScoredInOneEpoch
<1>1. ChallengesInv => ScoredInOneEpoch
  BY DEF ChallengesInv, ScoredInOneEpoch
<1> QED BY <1>1, ChallengesInductive, PTL

\* At every moment a miner that was right each time has at least the score of one that
\* failed each time.
THEOREM ChallengesAnswersOutrankFailures == ChallengesSpec => []AnswersOutrankFailures
<1>1. ChallengesInv => AnswersOutrankFailures
  <2> SUFFICES ASSUME ChallengesInv, NEW m \in Scored(observations), NEW n \in Scored(observations),
                      \A i \in About(observations, m) :
                        observations[i].overlap = FP /\ observations[i].prompt \in Referenced,
                      \A i \in About(observations, n) :
                        observations[i].hash = Zero /\ observations[i].prompt \in Referenced
               PROVE  ScoreMiners(observations)[m] >= ScoreMiners(observations)[n]
    BY DEF AnswersOutrankFailures, Always
  <2>1. \A i \in About(observations, n) : observations[i].overlap = 0
    BY DEF ChallengesInv, About
  <2> QED BY <2>1, RightOutranksFailure DEF ChallengesInv
<1> QED BY <1>1, ChallengesInductive, PTL

\* The root a validator posts binds its scores, in every canonical tree they are part of.
THEOREM ChallengesProofsBindScores == ChallengesSpec => []ProofsBindScores
<1>1. ChallengesInv => ProofsBindScores
  <2> SUFFICES ASSUME ChallengesInv, NEW others \in OtherLeaves
               PROVE  LET tree == leaves \cup others
                      IN \A leaf \in tree :
                           /\ VerifyScore(Root(tree), leaf, Proof(tree, leaf))
                           /\ \A other \in tree :
                                ~ VerifyScore(Root(tree), [leaf EXCEPT !.score = @ + 1],
                                              Proof(tree, other))
    BY DEF ProofsBindScores
  <2> DEFINE tree == leaves \cup others
  <2>1. OneLeafEach(tree)
    BY ChallengesAssumption, FS_Union DEF ChallengesInv, OneLeafEach
  <2> HIDE DEF tree
  <2>2. ASSUME NEW leaf \in tree PROVE VerifyScore(Root(tree), leaf, Proof(tree, leaf))
    BY <2>1, TreesBindScores
  <2>3. ASSUME NEW leaf \in tree, NEW other \in tree,
               VerifyScore(Root(tree), [leaf EXCEPT !.score = leaf.score + 1], Proof(tree, other))
        PROVE  FALSE
    <3>1. Len(Proof(tree, other)) \in Nat
      BY <2>1, TreesBindScores
    <3>2. leaf.score + 1 = leaf.score
      BY <2>1, <2>3, <3>1, TreesBindScores
    <3>3. leaf.score \in Nat
      BY <2>1 DEF OneLeafEach
    <3> QED BY <3>2, <3>3
  <2> QED BY <2>2, <2>3 DEF tree
<1> QED BY <1>1, ChallengesInductive, PTL
=============================================================================
