------------------------------- MODULE MCPool -------------------------------
(***************************************************************************)
(* Small pools for TLC.  Ten ulps make a unit, so that every rounding of   *)
(* the code happens within amounts of a few units.                         *)
(***************************************************************************)
EXTENDS Pool, TLC

CONSTANTS t1, t2, s1, s2, s3

(* The slices of a side: a in slot s1, b in slot s2, and empty slots. *)
Of(a, b) == [x \in Slots |-> CASE x = s1 -> a [] x = s2 -> b [] OTHER -> 0]
Holding(base, quote, lp) == [i \in Instruments |->
  CASE i = "base" -> base [] i = "quote" -> quote [] OTHER -> lp]

(* Two uneven slices on each side; t1 owns the pool. *)
FundedSlices == [s \in Sides |-> IF s = "base" THEN Of(30, 11) ELSE Of(23, 14)]
FundedFree   == [a \in Accounts |->
  CASE a = t1 -> Holding(10, 10, 33) [] a = t2 -> Holding(17, 10, 0)
    [] OTHER -> Nothing]

(* t2 can afford TurningOffer, once. *)
DepositorFree == [a \in Accounts |->
  CASE a = t1 -> Holding(10, 10, 33) [] a = t2 -> Holding(20, 30, 0)
    [] OTHER -> Nothing]

(* One slice on each side, and room for another. *)
SingleSlices == [s \in Sides |-> IF s = "base" THEN Of(41, 0) ELSE Of(37, 0)]

OneOffer   == {[s \in Sides |-> IF s = "base" THEN 8 ELSE 10]}
(* Long on the base side, and short of it once somebody has swapped base for quote. *)
TurningOffer == {[s \in Sides |-> IF s = "base" THEN 20 ELSE 17]}

Symmetric == Permutations(Flows) \cup Permutations(Slots)
=============================================================================
