------------------------------- MODULE Funding -------------------------------
(***************************************************************************)
(* How the web client picks the holdings that fund an order, a swap, a     *)
(* deposit or a redemption: planSwapFunding, pickExactHoldingCids,         *)
(* pickCoveringHoldingCids and normalizeSwapFunding, with the discovery of *)
(* holdings that they read through the wallet.                             *)
(*                                                                         *)
(* A wallet through which the registry co-signs can split and merge        *)
(* holdings first; its answers may omit what was created, and its reads    *)
(* may lag behind what it has just done.  Amounts are whole units.         *)
(***************************************************************************)
EXTENDS Totals, Sequences

CONSTANTS
  Purses,    \* the unlocked holdings at first: sequences of units
  Amounts,   \* the amounts to be funded
  MaxBumps   \* bound: poor reads, refusals, and moves of others

ASSUME FundingAssumption ==
  /\ Purses \subseteq Seq(Nat \ {0})
  /\ Amounts \subseteq Nat \ {0}
  /\ MaxBumps \in Nat

VARIABLES
  worth,    \* units of every holding there has ever been, by contract id
  alive,    \* the holdings that are there
  before,   \* those that were there before the last change
  amount,   \* what is to be funded
  cosigns,  \* does the registry co-sign through this wallet?
  step,     \* "read", "merge", "resolve", "split", "reread" or "over"
  main,     \* the holding that is merged into, then split
  rest,     \* the holdings still to be merged
  reached,  \* the units merged so far
  consumed, \* contract ids not to be taken for the result of a merge
  chosen,   \* the inputs for the allocation; none when it cannot be funded
  used,     \* history: the holdings that merges and splits have consumed
  bumps

FundingVars == <<worth, alive, before, amount, cosigns, step, main, rest, reached,
                 consumed, chosen, used, bumps>>
Plan == <<main, rest, reached, consumed>>

SumOf(hs) == Sum([h \in hs |-> worth[h]])

FundingInit ==
  /\ worth \in Purses /\ alive = DOMAIN worth /\ before = DOMAIN worth
  /\ amount \in Amounts /\ cosigns \in BOOLEAN
  /\ step = "read" /\ main = 0 /\ rest = {} /\ reached = 0
  /\ consumed = {} /\ chosen = {} /\ used = {} /\ bumps = 0

Bump == bumps < MaxBumps /\ bumps' = bumps + 1

-----------------------------------------------------------------------------
(* Selection from the holdings a read has seen *)

Smallest(hs) == {h \in hs : \A g \in hs : worth[h] <= worth[g]}
Largest(hs)  == {h \in hs : \A g \in hs : worth[h] >= worth[g]}

Exact(seen) == {hs \in SUBSET seen : SumOf(hs) = amount}

\* The largest, one after the other, until they cover the amount.
LargestFirst(seen) ==
  {hs \in SUBSET seen :
     /\ SumOf(hs) >= amount
     /\ \A h \in hs, g \in seen \ hs : worth[h] >= worth[g]
     /\ \A h \in Smallest(hs) : SumOf(hs \ {h}) < amount}

\* The smallest first.
BuggyCovering(seen) ==
  {hs \in SUBSET seen :
     /\ SumOf(hs) >= amount
     /\ \A h \in hs, g \in seen \ hs : worth[h] <= worth[g]
     /\ \A h \in Largest(hs) : SumOf(hs \ {h}) < amount}

\* The smallest that covers the amount alone, or else the largest together.
Covering(seen) ==
  LET alone == {h \in seen : worth[h] >= amount}
  IN IF alone # {} THEN {{h} : h \in Smallest(alone)} ELSE LargestFirst(seen)

Oversized(seen) == Smallest({h \in seen : worth[h] > amount})

-----------------------------------------------------------------------------
(* Reads.  Discovery asks for the holdings in three ways and joins what it is *)
(* answered; a way that fails is missing from that, and a view may be old.    *)

Views == IF bumps < MaxBumps THEN {before} \cup SUBSET alive ELSE {alive}
Sees(seen) == bumps' = IF seen = alive THEN bumps ELSE bumps + 1

Chooses(hs) == step' = "over" /\ chosen' = hs /\ UNCHANGED Plan

\* One of the alternatives, or nothing where there is none.
ChoosesOne(choices) == IF choices = {} THEN Chooses({}) ELSE \E hs \in choices : Chooses(hs)

Plans(seen) ==
  /\ UNCHANGED chosen
  /\ IF Oversized(seen) # {}
     THEN /\ step' = "split" /\ main' \in Oversized(seen)
          /\ UNCHANGED <<rest, reached, consumed>>
     ELSE \E hs \in LargestFirst(seen) :
            /\ step' = "merge" /\ main' \in Largest(hs) /\ rest' = hs \ {main'}
            /\ reached' = worth[main'] /\ consumed' = hs

\* An exact choice needs nobody's consent.  Without the registry's, the allocation
\* takes more than it needs and returns the change.
ReadFunds ==
  /\ step = "read"
  /\ \E seen \in Views :
       /\ Sees(seen)
       /\ IF Exact(seen) # {} THEN ChoosesOne(Exact(seen))
          ELSE IF ~cosigns THEN ChoosesOne(Covering(seen))
          ELSE IF SumOf(seen) < amount THEN Chooses({})
          ELSE Plans(seen)
  /\ UNCHANGED <<worth, alive, before, amount, cosigns, used>>

-----------------------------------------------------------------------------
(* Merges and splits *)

\* The wallet replaces old holdings by new ones, if all of the old are there.
Replace(old, new) ==
  /\ old \subseteq alive
  /\ worth' = worth \o new
  /\ alive' = (alive \ old) \cup (Len(worth) + 1 .. Len(worth) + Len(new))
  /\ before' = alive /\ used' = used \cup old

\* It declines, or the registry refuses; the flow ends with an error.
Declined == Chooses({}) /\ Bump /\ UNCHANGED <<worth, alive, before, amount, cosigns, used>>

AfterMerge(h, left) ==
  /\ main' = h /\ consumed' = consumed \cup {h}
  /\ step' = IF left = {} THEN "split" ELSE "merge"

Merge ==
  /\ step = "merge"
  /\ \E h \in Largest(rest) :
       /\ Replace({main, h}, <<worth[main] + worth[h]>>)
       /\ rest' = rest \ {h} /\ reached' = reached + worth[h]
       /\ \/ AfterMerge(Len(worth) + 1, rest \ {h})
          \/ step' = "resolve" /\ UNCHANGED <<main, consumed>>
  /\ UNCHANGED <<amount, cosigns, chosen, bumps>>

\* A result that was not exactly named is looked for.
Candidates(seen) == seen \ consumed

Resolve ==
  /\ step = "resolve"
  /\ \E seen \in Views :
       LET exact == {h \in Candidates(seen) : worth[h] = reached}
           found == IF exact # {} THEN exact ELSE Largest(Candidates(seen))
       IN /\ Sees(seen)
          /\ IF found = {} THEN Chooses({})
             ELSE /\ \E h \in found : AfterMerge(h, rest)
                  /\ UNCHANGED <<rest, reached, chosen>>
  /\ UNCHANGED <<worth, alive, before, amount, cosigns, used>>

Split ==
  /\ step = "split" /\ worth[main] > amount
  /\ Replace({main}, <<amount, worth[main] - amount>>)
  /\ step' = "reread"
  /\ UNCHANGED <<Plan, amount, cosigns, chosen, bumps>>

Reread ==
  /\ step = "reread"
  /\ \E seen \in Views : Sees(seen) /\ ChoosesOne(Exact(seen))
  /\ UNCHANGED <<worth, alive, before, amount, cosigns, used>>

\* What the wallet cannot do, because of a poor read or a move of others.
Impossible ==
  \/ step = "merge" /\ ~({main} \cup Largest(rest) \subseteq alive)
  \/ step = "split" /\ (main \notin alive \/ worth[main] <= amount)

Fail ==
  \/ step \in {"merge", "split"} /\ Declined
  \/ /\ Impossible /\ Chooses({})
     /\ UNCHANGED <<worth, alive, before, amount, cosigns, used, bumps>>

\* Another tab spends a holding, or one arrives.
Others ==
  /\ step # "over" /\ Bump
  /\ \/ \E h \in alive : alive' = alive \ {h} /\ UNCHANGED worth
     \/ worth' = Append(worth, 1) /\ alive' = alive \cup {Len(worth) + 1}
  /\ before' = alive
  /\ UNCHANGED <<amount, cosigns, step, Plan, chosen, used>>

FundingNext == ReadFunds \/ Merge \/ Resolve \/ Split \/ Reread \/ Fail \/ Others

FundingSpec == FundingInit /\ [][FundingNext]_FundingVars

-----------------------------------------------------------------------------
\* What is chosen is the amount to the unit where the registry co-signs, and
\* elsewhere covers it without a holding to spare.  Where nothing intervenes, a
\* choice is found whenever the holdings suffice.  A holding that a merge has
\* consumed is not handed to the wallet again, although the reads that name the
\* next one may still show it.
FundsFound ==
  /\ step \in {"merge", "split"} => ({main} \cup rest) \cap used = {}
  /\ step = "over" =>
      /\ chosen # {} => \/ SumOf(chosen) = amount
                        \/ /\ ~cosigns /\ SumOf(chosen) > amount
                           /\ \A h \in chosen : SumOf(chosen \ {h}) < amount
      /\ bumps = 0 => (chosen # {} <=> SumOf(alive) >= amount)
=============================================================================
