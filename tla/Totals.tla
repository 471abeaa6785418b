------------------------------- MODULE Totals -------------------------------
(***************************************************************************)
(* Totals of amounts held by a finite set of holders.  A total is the      *)
(* number of coins: holder x with f[x] ulps holds the coins <<x, 1>> ..    *)
(* <<x, f[x]>>.  Written this way, and not as a fold, the facts of         *)
(* TotalsProofs follow from facts about cardinalities alone.               *)
(***************************************************************************)
EXTENDS Naturals, FiniteSets

Coins(f) == UNION {{x} \X (1 .. f[x]) : x \in DOMAIN f}

Sum(f) == Cardinality(Coins(f))

Plus(f, g)  == [x \in DOMAIN f |-> f[x] + g[x]]
Minus(f, g) == [x \in DOMAIN f |-> f[x] - g[x]]
=============================================================================
