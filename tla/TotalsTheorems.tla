--------------------------- MODULE TotalsTheorems ---------------------------
(***************************************************************************)
(* Facts about Total: it is a natural number, it depends only on the       *)
(* amounts, and changing one amount changes it by the difference.          *)
(***************************************************************************)
EXTENDS Totals, Integers, FiniteSetTheorems, WellFoundedInduction, TLAPS

\* An amount function over a finite set has finitely many coins, so Total is a
\* natural number.
LEMMA CoinsFinite ==
  ASSUME NEW D, IsFiniteSet(D), NEW f, \A x \in D : f[x] \in Nat
  PROVE  IsFiniteSet(Coins(f, D)) /\ Total(f, D) \in Nat
<1> DEFINE row == [x \in D |-> {x} \X (1 .. f[x])]
           rows == { {x} \X (1 .. f[x]) : x \in D }
<1>1. row \in Surjection(D, rows)
  BY DEF Surjection
<1>2. IsFiniteSet(rows)
  BY <1>1, FS_Surjection
<1>3. \A r \in rows : IsFiniteSet(r)
  <2> TAKE r \in rows
  <2>1. PICK x \in D : r = {x} \X (1 .. f[x])
    OBVIOUS
  <2>2. IsFiniteSet({x})
    BY FS_Singleton
  <2>3. IsFiniteSet(1 .. f[x])
    BY FS_Interval
  <2> QED BY <2>1, <2>2, <2>3, FS_Product
<1>4. IsFiniteSet(Coins(f, D))
  BY <1>2, <1>3, FS_UNION DEF Coins
<1> QED BY <1>4, FS_CardinalityType DEF Total

\* Total depends only on the amounts over the set.
LEMMA TotalSame ==
  ASSUME NEW D, NEW f, NEW g, \A x \in D : g[x] = f[x]
  PROVE  Total(g, D) = Total(f, D)
<1>1. Coins(g, D) = Coins(f, D)
  BY DEF Coins
<1> QED BY <1>1 DEF Total

\* Nothing adds up to nothing.
LEMMA TotalZero ==
  ASSUME NEW D, NEW f, \A x \in D : f[x] = 0
  PROVE  Total(f, D) = 0
<1>1. Coins(f, D) = {}
  BY DEF Coins
<1> QED BY <1>1, FS_EmptySet DEF Total

\* One entry and the rest: the coins of k are those of the others plus its own.
LEMMA TotalSplit ==
  ASSUME NEW D, IsFiniteSet(D), NEW f, \A x \in D : f[x] \in Nat, NEW k \in D
  PROVE  Total(f, D) = Total(f, D \ {k}) + f[k]
<1> DEFINE rest == Coins(f, D \ {k})
           own  == {k} \X (1 .. f[k])
<1>1. IsFiniteSet(D \ {k})
  BY FS_RemoveElement
<1>2. IsFiniteSet(rest) /\ Cardinality(rest) \in Nat
  BY <1>1, CoinsFinite DEF Total
<1>3. IsFiniteSet(own) /\ Cardinality(own) = f[k]
  <2>1. IsFiniteSet({k}) /\ Cardinality({k}) = 1
    BY FS_Singleton
  <2>2. IsFiniteSet(1 .. f[k]) /\ Cardinality(1 .. f[k]) = f[k]
    BY FS_Interval
  <2>3. IsFiniteSet(own) /\ Cardinality(own) = Cardinality({k}) * Cardinality(1 .. f[k])
    BY <2>1, <2>2, FS_Product
  <2> QED BY <2>1, <2>2, <2>3
<1>4. Coins(f, D) = rest \cup own
  BY DEF Coins
<1>5. rest \cap own = {}
  BY DEF Coins
<1>6. Cardinality(rest \cap own) = 0
  BY <1>5, FS_EmptySet
<1>7. Cardinality(rest \cup own)
        = Cardinality(rest) + Cardinality(own) - Cardinality(rest \cap own)
  BY <1>2, <1>3, FS_Union
<1> QED BY <1>2, <1>3, <1>4, <1>6, <1>7 DEF Total

\* Changing one amount changes the total by the difference.
LEMMA TotalUpdate ==
  ASSUME NEW D, IsFiniteSet(D), NEW k \in D,
         NEW f, \A x \in D : f[x] \in Nat,
         NEW g, \A x \in D : g[x] \in Nat,
         \A x \in D \ {k} : g[x] = f[x]
  PROVE  Total(g, D) = Total(f, D) - f[k] + g[k]
<1>1. Total(f, D \ {k}) \in Nat
  BY FS_RemoveElement, CoinsFinite
<1>2. Total(g, D \ {k}) = Total(f, D \ {k})
  BY TotalSame
<1>3. Total(f, D) = Total(f, D \ {k}) + f[k] /\ Total(g, D) = Total(g, D \ {k}) + g[k]
  BY TotalSplit
<1> QED BY <1>1, <1>2, <1>3

\* Adding d to one entry adds d to the total.
LEMMA TotalShift ==
  ASSUME NEW D, IsFiniteSet(D), NEW k \in D, NEW d \in Int,
         NEW f \in [D -> Nat], NEW g \in [D -> Nat],
         g[k] = f[k] + d, \A x \in D \ {k} : g[x] = f[x]
  PROVE  Total(g, D) = Total(f, D) + d
<1>1. (\A x \in D : f[x] \in Nat) /\ (\A x \in D : g[x] \in Nat)
  OBVIOUS
<1>2. Total(g, D) = Total(f, D) - f[k] + g[k] /\ Total(f, D) \in Nat
  BY <1>1, TotalUpdate, CoinsFinite
<1> QED BY <1>1, <1>2

\* A total with one entry that may be more than nothing is that entry.
LEMMA TotalSingle ==
  ASSUME NEW D, IsFiniteSet(D), NEW k \in D, NEW f, f[k] \in Nat,
         \A x \in D \ {k} : f[x] = 0
  PROVE  Total(f, D) = f[k]
<1>1. \A x \in D : f[x] \in Nat
  OBVIOUS
<1>2. Total(f, D \ {k}) = 0
  BY TotalZero
<1> QED BY <1>1, <1>2, TotalSplit

\* Totals add up: the coins of h are those of f and, above them, those of g.
LEMMA TotalSum ==
  ASSUME NEW D, IsFiniteSet(D),
         NEW f, \A x \in D : f[x] \in Nat,
         NEW g, \A x \in D : g[x] \in Nat,
         NEW h, \A x \in D : h[x] = f[x] + g[x]
  PROVE  Total(h, D) = Total(f, D) + Total(g, D)
<1> DEFINE Above == UNION { {x} \X (f[x] + 1 .. f[x] + g[x]) : x \in D }
           lift  == [c \in Coins(g, D) |-> <<c[1], f[c[1]] + c[2]>>]
<1>1. \A x, j : <<x, j>> \in Coins(g, D) <=> x \in D /\ j \in 1 .. g[x]
  BY DEF Coins
<1>2. \A x, j : <<x, j>> \in Above <=> x \in D /\ j \in f[x] + 1 .. f[x] + g[x]
  OBVIOUS
<1>3. \A c \in Coins(g, D) : c = <<c[1], c[2]>>
  BY DEF Coins
<1>4. \A c \in Above : c = <<c[1], c[2]>>
  OBVIOUS
<1> HIDE DEF Above
<1>5. lift \in [Coins(g, D) -> Above]
  <2> SUFFICES ASSUME NEW c \in Coins(g, D) PROVE <<c[1], f[c[1]] + c[2]>> \in Above
    OBVIOUS
  <2>1. c[1] \in D /\ c[2] \in 1 .. g[c[1]]
    BY <1>1, <1>3
  <2>2. f[c[1]] + c[2] \in f[c[1]] + 1 .. f[c[1]] + g[c[1]]
    BY <2>1
  <2> QED BY <1>2, <2>1, <2>2
<1>6. ASSUME NEW c \in Coins(g, D), NEW d \in Coins(g, D), lift[c] = lift[d] PROVE c = d
  <2>1. c[1] \in D /\ c[2] \in Nat /\ d[1] \in D /\ d[2] \in Nat
    BY <1>1, <1>3
  <2>2. c[1] = d[1] /\ f[c[1]] + c[2] = f[c[1]] + d[2]
    BY <1>6
  <2>3. c[2] = d[2]
    BY <2>1, <2>2
  <2> QED BY <1>3, <2>2, <2>3
<1>7. ASSUME NEW c \in Above PROVE \E d \in Coins(g, D) : lift[d] = c
  <2>1. c[1] \in D /\ c[2] \in f[c[1]] + 1 .. f[c[1]] + g[c[1]]
    BY <1>2, <1>4
  <2>2. c[2] - f[c[1]] \in 1 .. g[c[1]] /\ f[c[1]] + (c[2] - f[c[1]]) = c[2]
    BY <2>1
  <2>3. <<c[1], c[2] - f[c[1]]>> \in Coins(g, D)
    BY <1>1, <2>1, <2>2
  <2>4. lift[<<c[1], c[2] - f[c[1]]>>] = <<c[1], c[2]>>
    BY <2>2, <2>3
  <2> QED BY <1>4, <2>3, <2>4
<1>8. lift \in Bijection(Coins(g, D), Above)
  <2>1. lift \in Injection(Coins(g, D), Above)
    BY <1>5, <1>6 DEF Injection, IsInjective
  <2>2. lift \in Surjection(Coins(g, D), Above)
    BY <1>5, <1>7 DEF Surjection
  <2> QED BY <2>1, <2>2 DEF Bijection
<1>9. IsFiniteSet(Coins(g, D)) /\ IsFiniteSet(Coins(f, D))
      /\ Total(f, D) \in Nat /\ Total(g, D) \in Nat
  BY CoinsFinite
<1>10. IsFiniteSet(Above) /\ Cardinality(Above) = Total(g, D)
  BY <1>8, <1>9, FS_Bijection, FS_Surjection DEF Total, Bijection
<1>11. Coins(h, D) = Coins(f, D) \cup Above
  <2>1. \A x \in D : 1 .. h[x] = (1 .. f[x]) \cup (f[x] + 1 .. f[x] + g[x])
    OBVIOUS
  <2> QED BY <2>1 DEF Coins, Above
<1>12. Coins(f, D) \cap Above = {}
  <2>1. \A x \in D : (1 .. f[x]) \cap (f[x] + 1 .. f[x] + g[x]) = {}
    OBVIOUS
  <2> QED BY <2>1 DEF Coins, Above
<1>13. Cardinality(Coins(f, D) \cap Above) = 0
  BY <1>12, FS_EmptySet
<1>14. Cardinality(Coins(f, D) \cup Above)
         = Cardinality(Coins(f, D)) + Cardinality(Above) - Cardinality(Coins(f, D) \cap Above)
  BY <1>9, <1>10, FS_Union
<1> QED BY <1>9, <1>10, <1>11, <1>13, <1>14 DEF Total

\* No entry exceeds the total, and the others fit in what remains.
LEMMA TotalAtLeast ==
  ASSUME NEW D, IsFiniteSet(D), NEW f, \A x \in D : f[x] \in Nat, NEW k \in D
  PROVE  f[k] <= Total(f, D)
<1>1. Total(f, D \ {k}) \in Nat
  BY FS_RemoveElement, CoinsFinite
<1> QED BY <1>1, TotalSplit

\* A part adds up to at most the whole.
LEMMA TotalMonotone ==
  ASSUME NEW D, IsFiniteSet(D), NEW f, \A x \in D : f[x] \in Nat, NEW E \in SUBSET D
  PROVE  /\ Total(f, E) \in Nat
         /\ Total(f, D) \in Nat
         /\ Total(f, E) <= Total(f, D)
<1>1. Coins(f, E) \subseteq Coins(f, D)
  BY DEF Coins
<1>2. IsFiniteSet(E)
  BY FS_Subset
<1> QED BY <1>1, <1>2, CoinsFinite, FS_Subset DEF Total

\* Larger amounts have a larger total.
LEMMA TotalPointwise ==
  ASSUME NEW D, IsFiniteSet(D), NEW f, \A x \in D : f[x] \in Nat,
         NEW g, \A x \in D : g[x] \in Nat /\ f[x] <= g[x]
  PROVE  Total(f, D) <= Total(g, D)
<1> DEFINE more == [x \in D |-> g[x] - f[x]]
<1>1. \A x \in D : more[x] \in Nat /\ g[x] = f[x] + more[x]
  OBVIOUS
<1> HIDE DEF more
<1>2. Total(g, D) = Total(f, D) + Total(more, D)
  BY <1>1, TotalSum
<1>3. Total(f, D) \in Nat /\ Total(more, D) \in Nat
  BY <1>1, CoinsFinite
<1> QED BY <1>2, <1>3

\* A part and the rest add up to the whole.
LEMMA TotalParts ==
  ASSUME NEW D, IsFiniteSet(D), NEW f, \A x \in D : f[x] \in Nat, NEW E \in SUBSET D
  PROVE  Total(f, D) = Total(f, E) + Total(f, D \ E)
<1>1. Coins(f, D) = Coins(f, E) \cup Coins(f, D \ E)
  BY DEF Coins
<1>2. Coins(f, E) \cap Coins(f, D \ E) = {}
  BY DEF Coins
<1>3. IsFiniteSet(Coins(f, D))
  BY CoinsFinite
<1>4. /\ IsFiniteSet(Coins(f, E)) /\ Cardinality(Coins(f, E)) \in Nat
      /\ IsFiniteSet(Coins(f, D \ E)) /\ Cardinality(Coins(f, D \ E)) \in Nat
  BY <1>1, <1>3, FS_Subset, FS_CardinalityType
<1>5. Cardinality(Coins(f, E) \cap Coins(f, D \ E)) = 0
  BY <1>2, FS_EmptySet
<1>6. Cardinality(Coins(f, E) \cup Coins(f, D \ E))
        = Cardinality(Coins(f, E)) + Cardinality(Coins(f, D \ E))
            - Cardinality(Coins(f, E) \cap Coins(f, D \ E))
  BY <1>4, FS_Union
<1> QED BY <1>1, <1>4, <1>5, <1>6 DEF Total

\* Floor division: the quotient is a natural number and multiplies back to at
\* most the dividend, less than one divisor short of it.
LEMMA FloorDivision ==
  ASSUME NEW a \in Nat, NEW b \in Nat \ {0}
  PROVE  /\ a \div b \in Nat
         /\ (a \div b) * b <= a
         /\ a < (a \div b) * b + b
  BY SMT

\* A pro-rata part of an amount is at most the amount, and all of it for all
\* the shares.
LEMMA ProRata ==
  ASSUME NEW s \in Nat, NEW S \in Nat \ {0}, NEW A \in Nat, s <= S
  PROVE  /\ (s * A) \div S \in Nat
         /\ (s * A) \div S <= A
         /\ s = S => (s * A) \div S = A
<1> DEFINE q == (s * A) \div S
<1>1. s * A \in Nat /\ s * A <= S * A
  OBVIOUS
<1>2. q \in Nat /\ q * S <= s * A /\ s * A < q * S + S
  BY <1>1, FloorDivision
<1>3. q <= A
  <2>1. q * S <= A * S
    BY <1>1, <1>2
  <2> QED BY <2>1, <1>2
<1>4. ASSUME s = S PROVE q = A
  <2>1. A * S < (q + 1) * S
    BY <1>2, <1>4
  <2>2. A < q + 1
    BY <2>1, <1>2
  <2> QED BY <2>2, <1>2, <1>3
<1> QED BY <1>2, <1>3, <1>4
\* A set of natural numbers that is not empty has a least element.
LEMMA LeastNumber ==
  ASSUME NEW T \in SUBSET Nat, T # {}
  PROVE  \E s \in T : \A t \in T : s <= t
<1>1. PICK s \in T : \A t \in T : ~ <<t, s>> \in OpToRel(<, Nat)
  BY NatLessThanWellFounded, WFMin
<1>2. \A t \in T : ~ (t < s)
  BY <1>1 DEF OpToRel
<1> QED BY <1>2

\* A finite set of natural numbers that is not empty has a greatest element: the
\* least of its bounds, of which its sum is one.
LEMMA GreatestNumber ==
  ASSUME NEW T \in SUBSET Nat, T # {}, IsFiniteSet(T)
  PROVE  \E s \in T : \A t \in T : t <= s
<1> DEFINE itself == [t \in T |-> t]
           bounds == {n \in Nat : \A t \in T : t <= n}
<1>1. Total(itself, T) \in bounds
  <2>1. \A t \in T : itself[t] \in Nat
    OBVIOUS
  <2>2. \A t \in T : itself[t] <= Total(itself, T)
    BY <2>1, TotalAtLeast
  <2>3. Total(itself, T) \in Nat
    BY <2>1, CoinsFinite
  <2> QED BY <2>2, <2>3
<1>2. PICK n \in bounds : \A k \in bounds : n <= k
  BY <1>1, LeastNumber
<1>3. n \in T
  <2> SUFFICES ASSUME n \notin T PROVE FALSE
    OBVIOUS
  <2>1. \A t \in T : t \in Nat /\ t <= n /\ t # n
    OBVIOUS
  <2>2. n # 0 /\ n - 1 \in Nat
    <3>1. PICK t \in T : TRUE
      OBVIOUS
    <3>2. t \in Nat /\ n \in Nat /\ t <= n /\ t # n
      BY <2>1
    <3> QED BY <3>2
  <2>3. n - 1 \in bounds
    BY <2>1, <2>2
  <2> QED BY <1>2, <2>3
<1> QED BY <1>3

\* Adding up c times every amount gives c times the sum.
LEMMA TotalScale ==
  ASSUME NEW D, IsFiniteSet(D), NEW f, \A x \in D : f[x] \in Nat, NEW c \in Nat
  PROVE  Total([x \in D |-> c * f[x]], D) = c * Total(f, D)
<1> DEFINE times(n) == [x \in D |-> n * f[x]]
           wrong == {n \in Nat : Total(times(n), D) # n * Total(f, D)}
<1>1. Total(f, D) \in Nat
  BY CoinsFinite
<1>2. ASSUME NEW n \in wrong, \A k \in wrong : n <= k PROVE FALSE
  <2>1. n # 0
    <3>1. \A x \in D : times(0)[x] = 0
      OBVIOUS
    <3>2. Total(times(0), D) = 0
      BY <3>1, TotalZero
    <3> QED BY <1>1, <1>2, <3>2
  <2>2. n - 1 \in Nat /\ n - 1 \notin wrong
    BY <1>2, <2>1
  <2>3. Total(times(n - 1), D) = (n - 1) * Total(f, D)
    BY <2>2
  <2>4. \A x \in D : times(n - 1)[x] \in Nat /\ times(n)[x] = times(n - 1)[x] + f[x]
    <3> SUFFICES ASSUME NEW x \in D
                 PROVE  (n - 1) * f[x] \in Nat /\ n * f[x] = (n - 1) * f[x] + f[x]
      OBVIOUS
    <3>1. f[x] \in Nat /\ n - 1 \in Nat /\ n \in Nat
      BY <2>2
    <3> QED BY <3>1
  <2> HIDE DEF times
  <2>5. Total(times(n), D) = Total(times(n - 1), D) + Total(f, D)
    BY <2>4, TotalSum
  <2>6. Total(times(n), D) = n * Total(f, D)
    BY <1>1, <2>3, <2>5
  <2> QED BY <2>6
<1>3. wrong = {}
  <2> SUFFICES ASSUME wrong # {} PROVE FALSE
    OBVIOUS
  <2>1. \E n \in wrong : \A k \in wrong : n <= k
    <3> HIDE DEF times
    <3> QED BY LeastNumber
  <2> QED BY <1>2, <2>1
<1> QED BY <1>3

\* Ones add up to their number.
LEMMA TotalOnes ==
  ASSUME NEW D, IsFiniteSet(D), NEW f, \A x \in D : f[x] = 1
  PROVE  Total(f, D) = Cardinality(D)
<1> DEFINE coin == [x \in D |-> <<x, 1>>]
<1>1. Coins(f, D) = {<<x, 1>> : x \in D}
  <2>1. \A x \in D : 1 .. f[x] = {1}
    OBVIOUS
  <2>2. Coins(f, D) = UNION {{x} \X {1} : x \in D}
    BY <2>1 DEF Coins
  <2> QED BY <2>2
<1>2. coin \in Bijection(D, Coins(f, D))
  BY <1>1 DEF Bijection, Injection, IsInjective, Surjection
<1> QED BY <1>2, FS_Bijection DEF Total, ExistsBijection

\* A sum does not depend on what the entries are called.
LEMMA TotalRename ==
  ASSUME NEW D, NEW E, IsFiniteSet(E), NEW h \in Bijection(E, D),
         NEW f, NEW g, \A x \in E : g[x] \in Nat /\ f[h[x]] = g[x]
  PROVE  Total(f, D) = Total(g, E)
<1> DEFINE move == [c \in Coins(g, E) |-> <<h[c[1]], c[2]>>]
<1>1. \A x, j : <<x, j>> \in Coins(g, E) <=> x \in E /\ j \in 1 .. g[x]
  BY DEF Coins
<1>2. \A x, j : <<x, j>> \in Coins(f, D) <=> x \in D /\ j \in 1 .. f[x]
  BY DEF Coins
<1>3. \A c \in Coins(g, E) : c = <<c[1], c[2]>> /\ c[1] \in E /\ c[2] \in 1 .. g[c[1]]
  BY DEF Coins
<1>4. \A c \in Coins(f, D) : c = <<c[1], c[2]>> /\ c[1] \in D /\ c[2] \in 1 .. f[c[1]]
  BY DEF Coins
<1>5. /\ h \in [E -> D] /\ \A y \in D : \E x \in E : h[x] = y
      /\ \A x, y \in E : h[x] = h[y] => x = y
  BY DEF Bijection, Injection, IsInjective, Surjection
<1>6. move \in [Coins(g, E) -> Coins(f, D)]
  BY <1>2, <1>3, <1>5
<1>7. \A c, d \in Coins(g, E) : move[c] = move[d] => c = d
  BY <1>3, <1>5
<1>8. \A d \in Coins(f, D) : \E c \in Coins(g, E) : move[c] = d
  <2> TAKE d \in Coins(f, D)
  <2>1. PICK x \in E : h[x] = d[1]
    BY <1>4, <1>5
  <2>2. <<x, d[2]>> \in Coins(g, E)
    BY <1>1, <1>4, <2>1
  <2>3. move[<<x, d[2]>>] = d
    BY <1>4, <2>1, <2>2
  <2> QED BY <2>2, <2>3
<1>9. move \in Bijection(Coins(g, E), Coins(f, D))
  BY <1>6, <1>7, <1>8 DEF Bijection, Injection, IsInjective, Surjection
<1>10. IsFiniteSet(Coins(g, E))
  BY CoinsFinite
<1> QED BY <1>9, <1>10, FS_Bijection DEF Total, ExistsBijection
=============================================================================
