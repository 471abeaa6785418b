-------------------------------- MODULE Amm --------------------------------
(***************************************************************************)
(* What the pool promises to the people whose money is in it, with no      *)
(* slices, allocations, requests or registries: two reserves, one LP       *)
(* supply, and the inequalities every trade, deposit and redemption has to *)
(* satisfy.  Pool implements it (Pool!ImplementsAmm).                      *)
(***************************************************************************)
EXTENDS Integers

CONSTANTS
  Scale,        \* ulps in one unit of Decimal
  Dust          \* LP mint tolerance, in ulps

VARIABLES
  status,       \* "Unfunded", "Active" or "Paused"
  reserve,      \* ulps of each side
  supply        \* LP tokens outstanding

vars == <<status, reserve, supply>>

Sides == {"base", "quote"}
Opposite(s) == IF s = "base" THEN "quote" ELSE "base"

Init ==
  /\ status \in {"Unfunded", "Active"}
  /\ reserve \in [Sides -> Nat]
  /\ supply \in Nat
  /\ status = "Active" => \A s \in Sides : reserve[s] > 0

(***************************************************************************)
(* A trade never lowers the product of the reserves and never empties one. *)
(***************************************************************************)
Swap ==
  /\ status = "Active"
  /\ \E s \in Sides :
       /\ reserve'[s] > reserve[s]
       /\ 0 < reserve'[Opposite(s)]
       /\ reserve'[Opposite(s)] < reserve[Opposite(s)]
  /\ reserve'["base"] * reserve'["quote"] >= reserve["base"] * reserve["quote"]
  /\ UNCHANGED <<status, supply>>

(***************************************************************************)
(* A deposit that is not the first one is priced on the side s that is     *)
(* short: the LP tokens minted are at most the share of s deposited, up to *)
(* half an ulp per rounding and the dust tolerance, and the other side is  *)
(* the least amount that matches it.                                       *)
(***************************************************************************)
PricedOn(s, used, minted) ==
  LET o == Opposite(s)
  IN  /\ 2 * (minted - Dust) * reserve[s] <= 2 * used[s] * supply + Scale + reserve[s]
      /\ used[o] * reserve[s] >= used[s] * reserve[o]
      /\ used[o] * reserve[s] < used[s] * reserve[o] + reserve[s]

Deposit ==
  LET used   == [s \in Sides |-> reserve'[s] - reserve[s]]
      minted == supply' - supply
  IN  /\ status # "Paused"
      /\ reserve' = [s \in Sides |-> reserve'[s]]
      /\ \A s \in Sides : used[s] > 0
      /\ minted > 0
      /\ supply > 0 => \E s \in Sides : PricedOn(s, used, minted)
      /\ status' = "Active"

(***************************************************************************)
(* A redemption of r of the supply pays at most the fraction r / supply of *)
(* each reserve, so the remaining LP tokens are worth no less than before, *)
(* and less than one ulp and one ulp of the share too little.              *)
(***************************************************************************)
Redeem ==
  LET burnt == supply - supply'
      out   == [s \in Sides |-> reserve[s] - reserve'[s]]
  IN  /\ status = "Active"
      /\ 0 < burnt /\ 0 <= supply'
      /\ reserve' = [s \in Sides |-> reserve'[s]]
      /\ \A s \in Sides :
           /\ 0 < out[s]
           /\ reserve'[s] * supply >= reserve[s] * supply'
           /\ (reserve[s] * burnt - out[s] * supply) * Scale
                < supply * (reserve[s] + Scale)
      /\ status' = IF \A s \in Sides : reserve'[s] = 0 THEN "Unfunded" ELSE "Active"

Pause ==
  /\ status = "Active"
  /\ status' = "Paused"
  /\ UNCHANGED <<reserve, supply>>

Resume ==
  /\ status = "Paused"
  /\ status' = "Active"
  /\ UNCHANGED <<reserve, supply>>

Next == Swap \/ Deposit \/ Redeem \/ Pause \/ Resume

Spec == Init /\ [][Next]_vars
=============================================================================
