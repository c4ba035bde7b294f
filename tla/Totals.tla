------------------------------- MODULE Totals -------------------------------
(***************************************************************************)
(* The sum of an amount function over a finite set, as the number of its   *)
(* unit coins: an entry x of amount n owns the n coins <<x, 1>>, ...,      *)
(* <<x, n>>.  Counting coins needs no recursion, so the facts about totals *)
(* that the contracts' bookkeeping rests on are provable from the theorems *)
(* about the cardinality of finite sets (module TotalsTheorems).           *)
(***************************************************************************)
EXTENDS Naturals, FiniteSets

Coins(f, D) == UNION { {x} \X (1 .. f[x]) : x \in D }

\* The sum of f[x] over the x in D, for f with values in Nat.
Total(f, D) == Cardinality(Coins(f, D))
=============================================================================
