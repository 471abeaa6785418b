----------------------------- MODULE PoolProofs -----------------------------
(***************************************************************************)
(* The safety of the pool for every number of traders, slices and requests *)
(* and for every scale, fee, tolerance and set of amounts.                 *)
(***************************************************************************)
EXTENDS Pool, TotalsProofs, PoolMathProofs

(* The inductive invariant.  Each conjunct needs the others: a trade keeps *)
(* the reserves natural because slices cover the output, the sum of the    *)
(* slices follows the reserve because both are typed, and a price exists   *)
(* only where the reserves are positive.                                   *)
Inv == TypeOK /\ ReservesBacked /\ SliceBacked /\ Lifecycle

-----------------------------------------------------------------------------
LEMMA SidesFacts ==
  /\ \A s \in Sides : s \in Instruments /\ s # "lp"
  /\ \A s \in Sides : Opposite(s) \in Sides /\ Opposite(s) # s
                      /\ Opposite(Opposite(s)) = s
  /\ \A s, r \in Sides : r = s \/ r = Opposite(s)
  /\ Sides = {"base", "quote"}
BY DEF Sides, Instruments, Opposite

LEMMA AccountsFinite == IsFiniteSet(Accounts)
BY PoolAssumption, FS_AddElement DEF Accounts

(* Drawing an amount from the slices takes exactly that amount, and from   *)
(* no slice more than it holds.                                            *)
LEMMA DrawTakesAmount ==
  ASSUME NEW held \in [Slots -> Nat], NEW amount \in Nat, NEW o \in Draws(held, amount)
  PROVE  /\ Drawn(held, o, amount) \in [Slots -> Nat]
         /\ \A s \in Slots : Drawn(held, o, amount)[s] <= held[s]
         /\ Sum(Drawn(held, o, amount)) = amount
         /\ LegAmounts(held, o, amount) \in Seq(Nat)
<1> DEFINE full == FullyConsumed(held, o)
           last == LastOf(o)
           rest == Rest(held, o, amount)
           d    == Drawn(held, o, amount)
<1>1. IsFiniteSet(Slots)
  BY PoolAssumption
<1>2. o \in Orders /\ CanDraw(held, o, amount)
  BY DEF Draws
<1>3. PICK n \in 1 .. Cardinality(Slots) : o \in [1 .. n -> Slots]
  BY <1>2 DEF Orders
<1>4. n \in Nat /\ n >= 1 /\ Len(o) = n /\ o \in Seq(Slots)
  <2>1. Cardinality(Slots) \in Nat
    BY <1>1, FS_CardinalityType
  <2> QED
    BY <1>3, <2>1
<1>5. last \in Slots
  BY <1>3, <1>4 DEF LastOf
<1>6. full \in [Slots -> Nat] /\ \A s \in Slots : full[s] <= held[s] /\ full[last] = 0
  BY <1>5 DEF FullyConsumed
<1>7. Sum(full) \in Nat
  BY <1>1, <1>6, SumNat
<1>8. rest = amount - Sum(full) /\ 0 < rest /\ rest <= held[last]
  BY <1>2 DEF Rest, CanDraw
<1>9. d = [full EXCEPT ![last] = rest]
  BY DEF Drawn
<1> HIDE DEF full, last, rest, d
<1>10. rest \in Nat
  BY <1>7, <1>8
<1>11. d \in [Slots -> Nat] /\ Sum(d) = Sum(full) - full[last] + rest
  <2>1. d \in [Slots -> Nat] /\ d[last] = rest
        /\ \A s \in Slots : s # last => d[s] = full[s]
    BY <1>5, <1>6, <1>9, <1>10
  <2> QED
    BY <1>1, <1>5, <1>6, <2>1, SumUpdate
<1>12. Sum(d) = amount
  BY <1>5, <1>6, <1>7, <1>8, <1>11
<1>13. \A s \in Slots : d[s] <= held[s]
  BY <1>5, <1>6, <1>8, <1>9
<1>14. LegAmounts(held, o, amount) \in Seq(Nat)
  <2>1. LegAmounts(held, o, amount) = [i \in 1 .. n |-> d[o[i]]]
    BY <1>4 DEF LegAmounts, d
  <2>2. \A i \in 1 .. n : d[o[i]] \in Nat
    BY <1>3, <1>11
  <2>3. LegAmounts(held, o, amount) \in [1 .. n -> Nat]
    BY <2>1, <2>2
  <2> QED
    BY <1>4, <2>3
<1> QED
  BY <1>11, <1>12, <1>13, <1>14 DEF d

(* What a side looks like after a draw: the slices hold the amount less,   *)
(* the allocations that replace the drawn ones back them, and what the     *)
(* operator gets back is a natural number.                                 *)
LEMMA DrawFromSide ==
  ASSUME TypeOK, ReservesBacked, SliceBacked,
         NEW s \in Sides, NEW amount \in Nat, NEW o \in Draws(slices[s], amount),
         DrawCovered(s, Drawn(slices[s], o, amount))
  PROVE  LET drawn == Drawn(slices[s], o, amount)
             next  == Minus(slices[s], drawn)
             lock  == AfterDraw(s, drawn)
         IN  /\ next \in [Slots -> Nat]
             /\ Sum(next) = pool.reserve[s] - amount
             /\ pool.reserve[s] - amount \in Nat
             /\ lock \in [Slots -> Nat]
             /\ \A slot \in Slots : \/ lock[slot] = next[slot]
                                    \/ CancelsAllowed /\ lock[slot] = 0
             /\ Surplus(s, drawn) \in Nat
<1> DEFINE drawn == Drawn(slices[s], o, amount)
           next  == Minus(slices[s], drawn)
           lock  == AfterDraw(s, drawn)
           extra == [slot \in Slots |->
                       IF drawn[slot] > 0 THEN backing[s][slot] - slices[s][slot] ELSE 0]
<1>1. /\ slices[s] \in [Slots -> Nat] /\ backing[s] \in [Slots -> Nat]
      /\ pool.reserve[s] = Sum(slices[s])
      /\ IsFiniteSet(Slots)
  BY PoolAssumption DEF TypeOK, ReservesBacked
<1>2. /\ drawn \in [Slots -> Nat]
      /\ \A slot \in Slots : drawn[slot] <= slices[s][slot]
      /\ Sum(drawn) = amount
  <2> HIDE DEF drawn
  <2> QED
    BY <1>1, DrawTakesAmount DEF drawn
<1>3. \A slot \in Slots : drawn[slot] > 0 =>
         drawn[slot] + (slices[s][slot] - drawn[slot]) <= backing[s][slot] + 0
  BY DEF DrawCovered, Covers
<1>4. /\ lock = [slot \in Slots |-> IF drawn[slot] > 0
                    THEN slices[s][slot] - drawn[slot] ELSE backing[s][slot]]
      /\ Surplus(s, drawn) = Sum(extra)
  BY DEF AfterDraw, Surplus
<1> HIDE DEF drawn
<1>5. next \in [Slots -> Nat] /\ Sum(next) = Sum(slices[s]) - amount
      /\ amount <= Sum(slices[s])
  BY <1>1, <1>2, SumMinus
<1>6. Sum(slices[s]) \in Nat
  BY <1>1, SumNat
<1>7. \A slot \in Slots : next[slot] = slices[s][slot] - drawn[slot]
  BY <1>1 DEF Minus
<1>8. extra \in [Slots -> Nat]
  BY <1>1, <1>2, <1>3
<1>9. Sum(extra) \in Nat
  <2> HIDE DEF extra
  <2> QED
    BY <1>1, <1>8, SumNat
<1> HIDE DEF next, lock, extra
<1>10. lock \in [Slots -> Nat]
  BY <1>1, <1>2, <1>4
<1>11. ASSUME NEW slot \in Slots
       PROVE  \/ lock[slot] = next[slot]
              \/ CancelsAllowed /\ lock[slot] = 0
  <2>1. CASE drawn[slot] > 0
    BY <1>4, <1>7, <2>1
  <2>2. CASE ~(drawn[slot] > 0)
    <3>1. lock[slot] = backing[s][slot] /\ next[slot] = slices[s][slot]
      BY <1>1, <1>2, <1>4, <1>7, <2>2
    <3> QED
      BY <3>1 DEF SliceBacked
  <2> QED
    BY <2>1, <2>2
<1>12. pool.reserve[s] - amount \in Nat
  BY <1>1, <1>5, <1>6
<1> QED
  BY <1>1, <1>4, <1>5, <1>9, <1>10, <1>11, <1>12 DEF next, lock, drawn

(* Updating one slot of a side and the whole of the other. *)
Updated(m, side, slot, v, w) == [m EXCEPT ![side][slot] = v, ![Opposite(side)] = w]

LEMMA UpdateBothSides ==
  ASSUME NEW m \in [Sides -> [Slots -> Nat]], NEW side \in Sides, NEW slot \in Slots,
         NEW v \in Nat, NEW w \in [Slots -> Nat]
  PROVE  LET n == Updated(m, side, slot, v, w)
         IN  /\ n \in [Sides -> [Slots -> Nat]]
             /\ n[side] \in [Slots -> Nat]
             /\ n[side][slot] = v
             /\ \A x \in Slots : x # slot => n[side][x] = m[side][x]
             /\ n[Opposite(side)] = w
<1> DEFINE n == Updated(m, side, slot, v, w)
           o == Opposite(side)
           a == [m[side] EXCEPT ![slot] = v]
           k == [m EXCEPT ![side] = a]
<1>1. o \in Sides /\ o # side /\ \A s \in Sides : s = side \/ s = o
  BY SidesFacts
<1>2. n = [k EXCEPT ![o] = w]
  BY DEF Updated
<1>3. a \in [Slots -> Nat] /\ a[slot] = v /\ \A x \in Slots : x # slot => a[x] = m[side][x]
  OBVIOUS
<1> HIDE DEF a, o, n
<1>4. k \in [Sides -> [Slots -> Nat]] /\ k[side] = a
  BY <1>3
<1> HIDE DEF k
<1>5. n \in [Sides -> [Slots -> Nat]] /\ n[side] = a /\ n[o] = w
  BY <1>1, <1>2, <1>4
<1> QED
  BY <1>3, <1>5 DEF o, n

(* A settlement credits accounts and consumes allocations. *)
LEMMA CreditType ==
  ASSUME TypeOK, NEW p \in Accounts, NEW amounts \in [Instruments -> Nat]
  PROVE  Credit(p, amounts) \in [Instruments -> Nat]
BY DEF TypeOK, Credit

LEMMA ConsumedType ==
  ASSUME TypeOK, NEW src
  PROVE  Consumed(src) \in [Flows -> SUBSET SUBSET Instruments]
BY DEF TypeOK, Consumed

(* A pool that is not unfunded has something on both sides, and a trade    *)
(* against it leaves something of the side it takes from.                  *)
LEMMA TradeOutput ==
  ASSUME Inv, pool.status # "Unfunded", NEW side \in Sides, NEW amount \in Nat
  PROVE  LET o   == Opposite(side)
             out == AmountOut(side, amount)
         IN  /\ pool.reserve[side] \in Nat \ {0}
             /\ pool.reserve[o] \in Nat \ {0}
             /\ out \in Nat
             /\ out < pool.reserve[o]
             /\ (pool.reserve[side] + amount) * (pool.reserve[o] - out)
                  >= pool.reserve[side] * pool.reserve[o]
<1> DEFINE o == Opposite(side)
<1>1. o \in Sides
  BY SidesFacts
<1>2. pool.reserve \in [Sides -> Nat]
  BY DEF Inv, TypeOK
<1>3. pool.reserve[side] \in Nat \ {0} /\ pool.reserve[o] \in Nat \ {0}
  BY <1>1, <1>2 DEF Inv, Lifecycle
<1>4. FeeBps \in Nat /\ FeeBps <= 9999
  BY PoolAssumption
<1> HIDE DEF o
<1> DEFINE rIn == pool.reserve[side]  rOut == pool.reserve[o]
           out == constantProductOut(rIn, rOut, FeeBps, amount)
<1>5. AmountOut(side, amount) = out
  BY DEF AmountOut, o
<1> HIDE DEF rIn, rOut
<1>6. rIn \in Nat \ {0} /\ rOut \in Nat \ {0}
  BY <1>3 DEF rIn, rOut
<1>7. out \in Nat /\ out < rOut /\ (rIn + amount) * (rOut - out) >= rIn * rOut
  BY <1>4, <1>6, ConstantProduct
<1> HIDE DEF out
<1> QED
  BY <1>3, <1>5, <1>7 DEF rIn, rOut, o

(* What one request pays for the legs of another is a swap.                *)
LEMMA SwapOfType ==
  ASSUME TypeOK, NEW side \in Sides, NEW t \in SwapsOf(side)
  PROVE  t \in Terms /\ t.kind = "swap"
<1>1. PICK g \in Flows, h \in Flows : t = SwapOf(side, g, h)
  BY DEF SwapsOf
<1>2. terms[g] \in Terms /\ terms[h] \in Terms
  BY DEF TypeOK
<1> DEFINE p == terms[g].party  amount == terms[g].pays[side]
           legs == terms[h].gets[Opposite(side)]
<1>3. p \in Accounts /\ amount \in Nat /\ legs \in Seq(Nat) /\ <<>> \in Seq(Nat)
  BY <1>2, SidesFacts DEF Terms
<1>4. t = SwapTerms(p, side, amount, legs)
  BY <1>1 DEF SwapOf
<1> HIDE DEF p, amount, legs
<1> QED
  BY <1>3, <1>4 DEF SwapTerms, Terms, Only

(* PoolRules_Swap keeps the invariant, and pays out of the pool at most    *)
(* what keeps the product of the reserves.                                 *)
LEMMA SwapKeepsInv ==
  ASSUME Inv, NEW t \in Terms, NEW side \in Sides, NEW src, NEW closed,
         SettleSwap(t, side, src, closed)
  PROVE  Inv'
<1> DEFINE o   == Opposite(side)
           in  == t.pays[side]
           out == AmountOut(side, in)
<1>1. TypeOK /\ ReservesBacked /\ SliceBacked /\ Lifecycle
  BY DEF Inv
<1>2. t \in Terms /\ t.party \in Accounts /\ in \in Nat
  BY DEF Terms, Sides, Instruments
<1>3. in > 0 /\ pool.status = "Active" /\ out > 0
  BY DEF SettleSwap
<1>4. /\ out \in Nat /\ out < pool.reserve[o]
      /\ pool.reserve[side] \in Nat \ {0} /\ pool.reserve[o] \in Nat \ {0}
  <2> HIDE DEF o, in
  <2> QED
    BY <1>2, <1>3, TradeOutput DEF o
<1>5. PICK slot \in Slots, order \in Draws(slices[o], out) :
         LET drawn == Drawn(slices[o], order, out)
         IN  /\ slices[side][slot] > 0
             /\ Covers(backing[side][slot], in, 0, slices[side][slot] + in)
             /\ DrawCovered(o, drawn)
             /\ slices' = [slices EXCEPT ![side][slot] = @ + in,
                                         ![o] = Minus(slices[o], drawn)]
             /\ backing' = [backing EXCEPT ![side][slot] = slices[side][slot] + in,
                                           ![o] = AfterDraw(o, drawn)]
             /\ free' = [free EXCEPT
                           ![t.party] = Credit(t.party, Only(o, out, 0)),
                           ![Operator] = Credit(Operator, [i \in Instruments |->
                             CASE i = side -> backing[side][slot] - slices[side][slot]
                               [] i = o    -> Surplus(o, drawn)
                               [] OTHER    -> 0])]
  BY DEF SettleSwap
<1> DEFINE drawn == Drawn(slices[o], order, out)
           next  == Minus(slices[o], drawn)
           lock  == AfterDraw(o, drawn)
           back  == [i \in Instruments |->
                       CASE i = side -> backing[side][slot] - slices[side][slot]
                         [] i = o    -> Surplus(o, drawn)
                         [] OTHER    -> 0]
<1>6. o \in Sides /\ o # side /\ side \in Instruments /\ o \in Instruments
      /\ \A s \in Sides : s = side \/ s = o
  BY SidesFacts
<1>7. /\ next \in [Slots -> Nat]
      /\ Sum(next) = pool.reserve[o] - out
      /\ lock \in [Slots -> Nat]
      /\ \A x \in Slots : lock[x] = next[x] \/ (CancelsAllowed /\ lock[x] = 0)
      /\ Surplus(o, drawn) \in Nat
  <2>1. DrawCovered(o, drawn)
    BY <1>5
  <2> HIDE DEF o, out
  <2> QED
    BY <1>1, <1>4, <1>6, <2>1, DrawFromSide
<1>8. /\ slices[side] \in [Slots -> Nat] /\ backing[side] \in [Slots -> Nat]
      /\ slices \in [Sides -> [Slots -> Nat]] /\ backing \in [Sides -> [Slots -> Nat]]
      /\ IsFiniteSet(Slots)
  BY <1>1, PoolAssumption DEF TypeOK
<1>9. backing[side][slot] - slices[side][slot] \in Nat
  <2>1. slices[side][slot] + in <= backing[side][slot] + in
    BY <1>5, <1>8, <1>2 DEF Covers
  <2> HIDE DEF in
  <2> QED
    BY <1>2, <1>8, <2>1
<1>10. /\ slices' = [slices EXCEPT ![side][slot] = @ + in, ![o] = next]
       /\ backing' = [backing EXCEPT ![side][slot] = slices[side][slot] + in, ![o] = lock]
       /\ free' = [free EXCEPT ![t.party] = Credit(t.party, Only(o, out, 0)),
                               ![Operator] = Credit(Operator, back)]
  BY <1>5
<1>11. /\ pool' = [pool EXCEPT !.reserve = [s \in Sides |->
                     IF s = side THEN pool.reserve[s] + in ELSE pool.reserve[s] - out]]
       /\ authored' = Consumed(src)
       /\ request' = [g \in Flows |-> IF g \in closed THEN "gone" ELSE request[g]]
       /\ UNCHANGED <<policy, late, terms>>
  BY DEF SettleSwap
<1>12. back \in [Instruments -> Nat] /\ Only(o, out, 0) \in [Instruments -> Nat]
  <2> HIDE DEF out, drawn
  <2> QED
    BY <1>4, <1>7, <1>9 DEF Only
<1>13. Operator \in Accounts
  BY DEF Accounts
<1>14. free' \in [Accounts -> [Instruments -> Nat]]
  <2>1. /\ Credit(t.party, Only(o, out, 0)) \in [Instruments -> Nat]
        /\ Credit(Operator, back) \in [Instruments -> Nat]
    <3> HIDE DEF o, out, back
    <3> QED
      BY <1>1, <1>2, <1>12, <1>13, CreditType
  <2>2. free \in [Accounts -> [Instruments -> Nat]]
    BY <1>1 DEF TypeOK
  <2> HIDE DEF o, out, back
  <2> QED
    BY <1>10, <2>1, <2>2
<1> HIDE DEF o, in, out, drawn, next, lock, back
<1>15. slices[side][slot] + in \in Nat
  BY <1>2, <1>8
<1>16. /\ slices'[side] \in [Slots -> Nat]
       /\ slices'[side][slot] = slices[side][slot] + in
       /\ \A x \in Slots : x # slot => slices'[side][x] = slices[side][x]
       /\ slices'[o] = next
       /\ slices' \in [Sides -> [Slots -> Nat]]
  <2> DEFINE v == slices[side][slot] + in  n == slices'
  <2>1. n = Updated(slices, side, slot, v, next)
    BY <1>8, <1>10 DEF o, Updated
  <2> QED
    <3>1. v \in Nat
      BY <1>15
    <3> HIDE DEF v, n
    <3>2. /\ n \in [Sides -> [Slots -> Nat]]
          /\ n[side] \in [Slots -> Nat]
          /\ n[side][slot] = v
          /\ \A x \in Slots : x # slot => n[side][x] = slices[side][x]
          /\ n[Opposite(side)] = next
      <4>1. slices \in [Sides -> [Slots -> Nat]] /\ next \in [Slots -> Nat]
        BY <1>7, <1>8
      <4> QED
        BY <2>1, <3>1, <4>1, UpdateBothSides
    <3> QED
      BY <3>2 DEF v, n, o
<1>17. /\ backing'[side][slot] = slices[side][slot] + in
       /\ \A x \in Slots : x # slot => backing'[side][x] = backing[side][x]
       /\ backing'[o] = lock
       /\ backing' \in [Sides -> [Slots -> Nat]]
  <2> DEFINE v == slices[side][slot] + in  n == backing'
  <2>1. n = Updated(backing, side, slot, v, lock)
    BY <1>10 DEF o, Updated
  <2> QED
    <3>1. v \in Nat
      BY <1>15
    <3> HIDE DEF v, n
    <3>2. /\ n \in [Sides -> [Slots -> Nat]]
          /\ n[side] \in [Slots -> Nat]
          /\ n[side][slot] = v
          /\ \A x \in Slots : x # slot => n[side][x] = backing[side][x]
          /\ n[Opposite(side)] = lock
      <4>1. backing \in [Sides -> [Slots -> Nat]] /\ lock \in [Slots -> Nat]
        BY <1>7, <1>8
      <4> QED
        BY <2>1, <3>1, <4>1, UpdateBothSides
    <3> QED
      BY <3>2 DEF v, n, o
<1>18. /\ pool'.status = "Active" /\ pool'.supply = pool.supply
       /\ pool'.reserve \in [Sides -> Nat]
       /\ pool'.reserve[side] = pool.reserve[side] + in
       /\ pool'.reserve[o] = pool.reserve[o] - out
       /\ pool' \in [status : {"Unfunded", "Active", "Paused"},
                    reserve : [Sides -> Nat], supply : Nat]
  <2>1. pool \in [status : {"Unfunded", "Active", "Paused"},
                  reserve : [Sides -> Nat], supply : Nat]
    BY <1>1 DEF TypeOK
  <2> DEFINE r == [s \in Sides |->
                     IF s = side THEN pool.reserve[s] + in ELSE pool.reserve[s] - out]
  <2>2. r \in [Sides -> Nat] /\ r[side] = pool.reserve[side] + in
        /\ r[o] = pool.reserve[o] - out
    BY <1>2, <1>4, <1>6, <2>1
  <2>3. pool' = [pool EXCEPT !.reserve = r]
    BY <1>11
  <2> HIDE DEF r
  <2> QED
    BY <1>3, <2>1, <2>2, <2>3
<1>19. TypeOK'
  <2>1. authored' \in [Flows -> SUBSET SUBSET Instruments]
    BY <1>1, <1>11, ConsumedType
  <2>2. request' \in [Flows -> {"none", "live", "accepted", "gone"}]
    BY <1>1, <1>11 DEF TypeOK
  <2> QED
    BY <1>1, <1>11, <1>14, <1>16, <1>17, <1>18, <2>1, <2>2 DEF TypeOK
<1>20. ReservesBacked'
  <2>1. Sum(slices'[side]) = Sum(slices[side]) - slices[side][slot] + slices'[side][slot]
    <3> DEFINE before == slices[side]  after == slices'[side]
    <3>1. /\ before \in [Slots -> Nat] /\ after \in [Slots -> Nat]
          /\ \A x \in Slots : x # slot => after[x] = before[x]
      BY <1>8, <1>16
    <3> HIDE DEF before, after
    <3>2. Sum(after) = Sum(before) - before[slot] + after[slot]
      BY SMTT(30), <1>8, <3>1, SumUpdate
    <3> QED
      BY <3>2 DEF before, after
  <2>2. Sum(slices[side]) = pool.reserve[side]
    BY <1>1 DEF ReservesBacked
  <2>3. Sum(slices'[side]) = pool.reserve[side] + in
    BY <1>2, <1>4, <1>8, <1>16, <2>1, <2>2
  <2>4. \A s \in Sides : pool'.reserve[s] = Sum(slices'[s])
    BY <1>6, <1>7, <1>16, <1>18, <2>3
  <2> QED
    BY <2>4 DEF ReservesBacked
<1>21. SliceBacked'
  <2>1. \A x \in Slots : \/ backing'[side][x] = slices'[side][x]
                         \/ CancelsAllowed /\ backing'[side][x] = 0
    BY <1>1, <1>16, <1>17 DEF SliceBacked
  <2>2. \A x \in Slots : \/ backing'[o][x] = slices'[o][x]
                         \/ CancelsAllowed /\ backing'[o][x] = 0
    BY <1>7, <1>16, <1>17
  <2> QED
    BY <1>6, <2>1, <2>2 DEF SliceBacked
<1>22. Lifecycle'
  <2>1. \A s \in Sides : pool'.reserve[s] > 0
    BY <1>2, <1>4, <1>6, <1>18
  <2> QED
    BY <1>18, <2>1 DEF Lifecycle
<1> QED
  BY <1>19, <1>20, <1>21, <1>22 DEF Inv

(* What a deposit takes of each side is at most what is offered. *)
LEMMA UsedType ==
  ASSUME Inv, NEW offer \in [Sides -> Nat], Priceable(offer), NEW s \in Sides
  PROVE  Used(offer)[s] \in Nat /\ Used(offer)[s] <= offer[s]
<1>1. CASE pool.supply = 0
  BY <1>1 DEF Used
<1>2. CASE pool.supply # 0
  <2>1. pool.reserve \in [{"base", "quote"} -> Nat \ {0}]
    <3>1. \A r \in Sides : pool.reserve[r] > 0
      BY <1>2 DEF Priceable
    <3>2. pool.reserve \in [Sides -> Nat]
      BY DEF Inv, TypeOK
    <3> QED
      BY <3>1, <3>2 DEF Sides
  <2>2. offer \in [{"base", "quote"} -> Nat] /\ s \in {"base", "quote"}
    BY DEF Sides
  <2>3. Used(offer) = ratioMatchedDeposit(pool.reserve, offer)
    BY <1>2 DEF Used
  <2> DEFINE r == pool.reserve
  <2> HIDE DEF r
  <2>4. /\ ratioMatchedDeposit(r, offer)[s] \in Nat
        /\ ratioMatchedDeposit(r, offer)[s] <= offer[s]
    <3>1. r \in [{"base", "quote"} -> Nat \ {0}]
      BY <2>1 DEF r
    <3> QED
      BY <2>2, <3>1, RatioMatched
  <2> QED
    BY <2>3, <2>4 DEF r
<1> QED
  BY <1>1, <1>2

(* PoolLiquidityRules_SettleAddLiquidity keeps the invariant. *)
LEMMA AddKeepsInv ==
  ASSUME Inv, NEW f \in Flows, NEW src, NEW slot \in [Sides -> Slots], SettleAdd(f, src, slot)
  PROVE  Inv'
<1> DEFINE t     == terms[f]
           offer == [s \in Sides |-> t.pays[s]]
           lp    == t.gets["lp"][1]
           used  == Used(offer)
           back  == [i \in Instruments |-> IF i = "lp" THEN lp ELSE offer[i] - used[i]]
<1>1. TypeOK /\ ReservesBacked /\ SliceBacked /\ Lifecycle
  BY DEF Inv
<1>2. /\ t.kind = "add" /\ Priceable(offer)
      /\ \A s \in Sides : used[s] > 0
      /\ \A s \in Sides : slices[s][slot[s]] = 0
      /\ slices' = [s \in Sides |-> [slices[s] EXCEPT ![slot[s]] = used[s]]]
      /\ backing' = [s \in Sides |-> [backing[s] EXCEPT ![slot[s]] = used[s]]]
      /\ pool' = [status  |-> "Active",
                  reserve |-> [s \in Sides |-> pool.reserve[s] + used[s]],
                  supply  |-> pool.supply + lp]
      /\ policy' = [policy EXCEPT !.supply = @ + lp]
      /\ free' = [free EXCEPT ![t.party] = Credit(t.party, back)]
      /\ authored' = Consumed(src)
      /\ request' = [request EXCEPT ![f] = "gone"]
      /\ UNCHANGED <<late, terms>>
  BY DEF SettleAdd
<1>3. t \in Terms /\ t.party \in Accounts
  BY <1>1 DEF TypeOK, Terms
<1>4. lp \in Nat
  <2>1. t.gets["lp"] \in Seq(Nat) /\ Len(t.gets["lp"]) = 1
    BY <1>1, <1>2, <1>3 DEF TypeOK, Terms, Instruments
  <2> HIDE DEF t
  <2> QED
    BY <2>1
<1>5. offer \in [Sides -> Nat]
  BY <1>3 DEF Terms, Instruments
<1>6. \A s \in Sides : used[s] \in Nat /\ used[s] <= offer[s]
  <2> HIDE DEF offer
  <2> QED
    BY <1>2, <1>5, UsedType
<1> HIDE DEF offer, used, lp
<1>7. back \in [Instruments -> Nat]
  <2>1. \A i \in Instruments : i = "lp" \/ i \in Sides
    BY DEF Instruments
  <2> QED
    BY <1>4, <1>5, <1>6, <2>1
<1> HIDE DEF t, back
<1>8. Credit(t.party, back) \in [Instruments -> Nat]
  BY <1>1, <1>3, <1>7, CreditType
<1>9. /\ pool \in [status : {"Unfunded", "Active", "Paused"},
                   reserve : [Sides -> Nat], supply : Nat]
      /\ slices \in [Sides -> [Slots -> Nat]]
      /\ backing \in [Sides -> [Slots -> Nat]]
      /\ IsFiniteSet(Slots)
  BY <1>1, PoolAssumption DEF TypeOK
<1>10. /\ pool' \in [status : {"Unfunded", "Active", "Paused"},
                     reserve : [Sides -> Nat], supply : Nat]
       /\ pool'.status = "Active"
       /\ \A s \in Sides : pool'.reserve[s] = pool.reserve[s] + used[s]
  BY <1>2, <1>4, <1>6, <1>9
<1>11. ASSUME NEW s \in Sides
       PROVE  /\ slices'[s] \in [Slots -> Nat]
              /\ slices'[s][slot[s]] = used[s]
              /\ \A x \in Slots : x # slot[s] => slices'[s][x] = slices[s][x]
              /\ backing'[s] \in [Slots -> Nat]
              /\ backing'[s][slot[s]] = used[s]
              /\ \A x \in Slots : x # slot[s] => backing'[s][x] = backing[s][x]
  BY <1>2, <1>6, <1>9
<1>12. TypeOK'
  <2>1. authored' \in [Flows -> SUBSET SUBSET Instruments]
    BY <1>1, <1>2, ConsumedType
  <2>2. request' \in [Flows -> {"none", "live", "accepted", "gone"}]
    BY <1>1, <1>2 DEF TypeOK
  <2>3. free' \in [Accounts -> [Instruments -> Nat]]
    BY <1>1, <1>2, <1>3, <1>8 DEF TypeOK
  <2>4. policy' \in [supply : Nat, active : BOOLEAN]
    <3>1. policy \in [supply : Nat, active : BOOLEAN]
      BY <1>1 DEF TypeOK
    <3>2. policy' = [policy EXCEPT !.supply = policy.supply + lp]
      BY <1>2
    <3>3. policy.supply + lp \in Nat
      BY <1>4, <3>1
    <3> QED
      BY <3>1, <3>2, <3>3
  <2>5. slices' \in [Sides -> [Slots -> Nat]] /\ backing' \in [Sides -> [Slots -> Nat]]
    BY <1>2, <1>11
  <2>6. /\ late' \in [Flows -> BOOLEAN] /\ terms' \in [Flows -> Terms]
        /\ \A g \in Flows : terms'[g].kind = "add" => Len(terms'[g].gets["lp"]) = 1
    BY <1>1, <1>2 DEF TypeOK
  <2> QED
    BY <1>10, <2>1, <2>2, <2>3, <2>4, <2>5, <2>6 DEF TypeOK
<1>13. ReservesBacked'
  <2>1. SUFFICES ASSUME NEW s \in Sides
                 PROVE  pool'.reserve[s] = Sum(slices'[s])
    BY DEF ReservesBacked
  <2> DEFINE before == slices[s]  after == slices'[s]  here == slot[s]
  <2>2. /\ before \in [Slots -> Nat] /\ after \in [Slots -> Nat]
        /\ here \in Slots
        /\ \A x \in Slots : x # here => after[x] = before[x]
        /\ before[here] = 0 /\ after[here] = used[s]
    BY <1>2, <1>9, <1>11
  <2> HIDE DEF before, after, here
  <2>3. Sum(after) = Sum(before) - before[here] + after[here]
    <3>1. IsFiniteSet(Slots)
      BY PoolAssumption
    <3> QED
      BY <2>2, <3>1, SumUpdate
  <2>4. Sum(before) = pool.reserve[s]
    BY <1>1 DEF ReservesBacked, before
  <2>5. Sum(after) = pool.reserve[s] + used[s]
    BY <1>6, <1>9, <2>2, <2>3, <2>4
  <2> QED
    BY <1>10, <2>5 DEF after
<1>14. SliceBacked'
  <2>1. SUFFICES ASSUME NEW s \in Sides, NEW x \in Slots
                 PROVE  \/ backing'[s][x] = slices'[s][x]
                        \/ CancelsAllowed /\ backing'[s][x] = 0
    BY DEF SliceBacked
  <2>2. CASE x = slot[s]
    BY <1>11, <2>2
  <2>3. CASE x # slot[s]
    <3>1. slices'[s][x] = slices[s][x] /\ backing'[s][x] = backing[s][x]
      BY <1>11, <2>3
    <3> QED
      BY <1>1, <3>1 DEF SliceBacked
  <2> QED
    BY <2>2, <2>3
<1>15. Lifecycle'
  <2>1. \A s \in Sides : pool'.reserve[s] # 0
    BY <1>2, <1>6, <1>9, <1>10
  <2> QED
    BY <1>10, <2>1 DEF Lifecycle
<1> QED
  BY <1>12, <1>13, <1>14, <1>15 DEF Inv

(* What a redemption takes of each side: no more than the reserve, and     *)
(* all of it only when no LP token remains.                                *)
LEMMA RedeemedType ==
  ASSUME Inv, NEW lp \in Nat, pool.supply > 0, NEW s \in Sides
  PROVE  /\ Redeemed(lp)[s] \in Nat
         /\ lp <= pool.supply /\ pool.reserve[s] > 0 =>
              (Redeemed(lp)[s] = pool.reserve[s] <=> lp = pool.supply)
<1> DEFINE r == pool.reserve[s]  supply == pool.supply  share == floorDiv(lp, supply)
<1>1. r \in Nat /\ supply \in Nat \ {0}
  BY DEF Inv, TypeOK
<1>2. Redeemed(lp)[s] = floorMul(r, share)
  BY DEF Redeemed, ShareOf
<1> HIDE DEF r, supply
<1>3. share \in Nat
  BY <1>1, FloorDivBounds
<1>4. floorMul(r, share) \in Nat
  <2> HIDE DEF share
  <2> QED
    BY <1>1, <1>3, FloorMulBounds
<1>5. ASSUME lp <= supply, r > 0
      PROVE  floorMul(r, share) = r <=> lp = supply
  BY <1>1, <1>5, ShareOfReserve
<1> HIDE DEF share
<1> QED
  BY <1>2, <1>4, <1>5 DEF r, supply

(* PoolLiquidityRules_SettleRemoveLiquidity keeps the invariant. *)
LEMMA RemoveKeepsInv ==
  ASSUME Inv, NEW f \in Flows, NEW src, SettleRemove(f, src)
  PROVE  Inv'
<1> DEFINE t    == terms[f]
           lp   == t.pays["lp"]
           out  == Redeemed(lp)
           left == [s \in Sides |-> pool.reserve[s] - out[s]]
<1>1. TypeOK /\ ReservesBacked /\ SliceBacked /\ Lifecycle
  BY DEF Inv
<1>2. /\ pool.status = "Active"
      /\ lp > 0 /\ lp <= pool.supply
      /\ pool' = [status  |-> IF \A s \in Sides : left[s] = 0 THEN "Unfunded" ELSE "Active",
                  reserve |-> left,
                  supply  |-> pool.supply - lp]
      /\ policy' = [policy EXCEPT !.supply = @ - lp]
      /\ policy.supply = pool.supply
      /\ authored' = Consumed(src)
      /\ request' = [request EXCEPT ![f] = "gone"]
      /\ UNCHANGED <<late, terms>>
  BY DEF SettleRemove, SupplyAgrees
<1>3. PICK base \in Draws(slices["base"], out["base"]),
           quote \in Draws(slices["quote"], out["quote"]) :
         LET order    == [s \in Sides |-> IF s = "base" THEN base ELSE quote]
             drawn(s) == Drawn(slices[s], order[s], out[s])
         IN  /\ \A s \in Sides : DrawCovered(s, drawn(s))
             /\ slices' = [s \in Sides |-> Minus(slices[s], drawn(s))]
             /\ backing' = [s \in Sides |-> AfterDraw(s, drawn(s))]
             /\ free' = [free EXCEPT
                  ![t.party] = Credit(t.party, [i \in Instruments |->
                                 IF i = "lp" THEN 0 ELSE out[i]]),
                  ![Operator] = Credit(Operator, [i \in Instruments |->
                                 IF i = "lp" THEN 0 ELSE Surplus(i, drawn(i))])]
  BY DEF SettleRemove
<1> DEFINE order    == [s \in Sides |-> IF s = "base" THEN base ELSE quote]
           drawn(s) == Drawn(slices[s], order[s], out[s])
           paid     == [i \in Instruments |-> IF i = "lp" THEN 0 ELSE out[i]]
           back     == [i \in Instruments |-> IF i = "lp" THEN 0 ELSE Surplus(i, drawn(i))]
<1>4. t \in Terms /\ t.party \in Accounts /\ lp \in Nat
  <2>1. t \in Terms
    BY <1>1 DEF TypeOK
  <2>2. "lp" \in Instruments
    BY DEF Instruments
  <2> HIDE DEF t
  <2> QED
    BY <2>1, <2>2 DEF Terms
<1>5. pool \in [status : {"Unfunded", "Active", "Paused"},
                reserve : [Sides -> Nat], supply : Nat]
      /\ policy \in [supply : Nat, active : BOOLEAN]
  BY <1>1 DEF TypeOK
<1>6. pool.supply > 0
  BY <1>2, <1>4, <1>5
<1>7. \A s \in Sides :
         /\ out[s] \in Nat
         /\ pool.reserve[s] > 0 => (out[s] = pool.reserve[s] <=> lp = pool.supply)
  <2> HIDE DEF lp
  <2> QED
    BY <1>2, <1>4, <1>6, RedeemedType
<1>8. \A s \in Sides : order[s] \in Draws(slices[s], out[s])
  BY DEF Sides
<1>9. /\ \A s \in Sides : DrawCovered(s, drawn(s))
      /\ slices' = [s \in Sides |-> Minus(slices[s], drawn(s))]
      /\ backing' = [s \in Sides |-> AfterDraw(s, drawn(s))]
      /\ free' = [free EXCEPT ![t.party] = Credit(t.party, paid),
                              ![Operator] = Credit(Operator, back)]
  BY <1>3
<1> HIDE DEF order, out, lp, t
<1>10. ASSUME NEW s \in Sides
       PROVE  /\ slices'[s] \in [Slots -> Nat]
              /\ Sum(slices'[s]) = pool.reserve[s] - out[s]
              /\ pool.reserve[s] - out[s] \in Nat
              /\ backing'[s] \in [Slots -> Nat]
              /\ \A slot \in Slots : \/ backing'[s][slot] = slices'[s][slot]
                                     \/ CancelsAllowed /\ backing'[s][slot] = 0
              /\ Surplus(s, drawn(s)) \in Nat
  <2> DEFINE amount == out[s]  o == order[s]
  <2>1. amount \in Nat /\ o \in Draws(slices[s], amount)
    BY <1>7, <1>8
  <2>2. DrawCovered(s, Drawn(slices[s], o, amount))
    BY <1>9
  <2>3. /\ slices'[s] = Minus(slices[s], Drawn(slices[s], o, amount))
        /\ backing'[s] = AfterDraw(s, Drawn(slices[s], o, amount))
    BY <1>9
  <2> HIDE DEF amount, o
  <2>4. LET d    == Drawn(slices[s], o, amount)
            next == Minus(slices[s], d)
            lock == AfterDraw(s, d)
        IN  /\ next \in [Slots -> Nat]
            /\ Sum(next) = pool.reserve[s] - amount
            /\ pool.reserve[s] - amount \in Nat
            /\ lock \in [Slots -> Nat]
            /\ \A slot \in Slots : \/ lock[slot] = next[slot]
                                   \/ CancelsAllowed /\ lock[slot] = 0
            /\ Surplus(s, d) \in Nat
    BY <1>1, <2>1, <2>2, DrawFromSide
  <2> QED
    BY <2>3, <2>4 DEF amount, o
<1>11. free' \in [Accounts -> [Instruments -> Nat]]
  <2>1. \A i \in Instruments : i = "lp" \/ i \in Sides
    BY DEF Instruments
  <2>2. \A s \in Sides : Surplus(s, drawn(s)) \in Nat
    BY <1>10
  <2> HIDE DEF drawn
  <2>3. paid \in [Instruments -> Nat] /\ back \in [Instruments -> Nat]
    BY <1>7, <2>1, <2>2
  <2>4. Operator \in Accounts
    BY DEF Accounts
  <2> HIDE DEF paid, back
  <2>5. /\ Credit(t.party, paid) \in [Instruments -> Nat]
        /\ Credit(Operator, back) \in [Instruments -> Nat]
    BY <1>1, <1>4, <2>3, <2>4, CreditType
  <2> QED
    BY <1>1, <1>9, <2>5 DEF TypeOK
<1> HIDE DEF drawn, paid, back
<1>12. /\ left \in [Sides -> Nat]
       /\ \A s \in Sides : left[s] = pool.reserve[s] - out[s]
  BY <1>10
<1>13. pool.supply - lp \in Nat
  BY <1>2, <1>4, <1>5
<1> HIDE DEF left
<1>14. /\ pool' \in [status : {"Unfunded", "Active", "Paused"},
                     reserve : [Sides -> Nat], supply : Nat]
       /\ pool'.reserve = left
       /\ pool'.status = IF \A s \in Sides : left[s] = 0 THEN "Unfunded" ELSE "Active"
  BY <1>2, <1>12, <1>13
<1>15. TypeOK'
  <2>1. authored' \in [Flows -> SUBSET SUBSET Instruments]
    BY <1>1, <1>2, ConsumedType
  <2>2. request' \in [Flows -> {"none", "live", "accepted", "gone"}]
    BY <1>1, <1>2 DEF TypeOK
  <2>3. policy' \in [supply : Nat, active : BOOLEAN]
    <3>1. policy' = [policy EXCEPT !.supply = pool.supply - lp]
      BY <1>2
    <3> QED
      BY <1>5, <1>13, <3>1
  <2>4. slices' \in [Sides -> [Slots -> Nat]] /\ backing' \in [Sides -> [Slots -> Nat]]
    BY <1>9, <1>10
  <2>5. /\ late' \in [Flows -> BOOLEAN] /\ terms' \in [Flows -> Terms]
        /\ \A g \in Flows : terms'[g].kind = "add" => Len(terms'[g].gets["lp"]) = 1
    BY <1>1, <1>2 DEF TypeOK
  <2> QED
    BY <1>11, <1>14, <2>1, <2>2, <2>3, <2>4, <2>5 DEF TypeOK
<1>16. ReservesBacked'
  <2>1. \A s \in Sides : pool'.reserve[s] = Sum(slices'[s])
    BY <1>10, <1>12, <1>14
  <2> QED
    BY <2>1 DEF ReservesBacked
<1>17. SliceBacked'
  BY <1>10 DEF SliceBacked
<1>18. Lifecycle'
  <2>1. \A s \in Sides : pool.reserve[s] \in Nat /\ pool.reserve[s] > 0
    BY <1>1, <1>2, <1>5 DEF Lifecycle
  <2>2. \A s \in Sides : left[s] = 0 <=> lp = pool.supply
    BY <1>7, <1>12, <2>1
  <2>3. \A s \in Sides : (\A r \in Sides : left[r] = 0) <=> left[s] = 0
    BY <2>2 DEF Sides
  <2> QED
    BY <1>14, <2>3 DEF Lifecycle
<1> QED
  BY <1>15, <1>16, <1>17, <1>18 DEF Inv

-----------------------------------------------------------------------------
(* A new request carries well-formed terms and moves nothing. *)
LEMMA PostKeepsInv ==
  ASSUME Inv, NEW f \in Flows, NEW t \in Terms,
         t.kind = "add" => Len(t.gets["lp"]) = 1, Post(f, t)
  PROVE  Inv'
<1>1. /\ request' = [request EXCEPT ![f] = "live"]
      /\ terms' = [terms EXCEPT ![f] = t]
      /\ UNCHANGED <<pool, slices, backing, policy, free, late, authored>>
  BY DEF Post
<1>2. TypeOK'
  BY <1>1 DEF Inv, TypeOK
<1>3. ReservesBacked' /\ SliceBacked' /\ Lifecycle'
  BY <1>1 DEF Inv, ReservesBacked, SliceBacked, Lifecycle
<1> QED
  BY <1>2, <1>3 DEF Inv

LEMMA RequestSwapKeepsInv ==
  ASSUME Inv, NEW f \in Flows, NEW p \in Traders, NEW side \in Sides,
         NEW amount \in SwapInputs, RequestSwap(f, p, side, amount)
  PROVE  Inv'
<1> DEFINE out == AmountOut(side, amount)
           o   == Opposite(side)
<1>1. /\ pool.status = "Active"
      /\ \E order \in Draws(slices[o], out) :
           Post(f, SwapTerms(p, side, amount, LegAmounts(slices[o], order, out)))
  BY DEF RequestSwap
<1>2. PICK order \in Draws(slices[o], out) :
         Post(f, SwapTerms(p, side, amount, LegAmounts(slices[o], order, out)))
  BY <1>1
<1>3. amount \in Nat
  BY PoolAssumption
<1>4. out \in Nat
  BY <1>1, <1>3, TradeOutput
<1>5. o \in Sides /\ slices[o] \in [Slots -> Nat]
  BY SidesFacts DEF Inv, TypeOK
<1> HIDE DEF out, o
<1> DEFINE legs == LegAmounts(slices[o], order, out)
<1>6. legs \in Seq(Nat)
  BY <1>4, <1>5, DrawTakesAmount
<1> HIDE DEF legs
<1>7. SwapTerms(p, side, amount, legs) \in Terms
  <2>1. p \in Accounts /\ <<>> \in Seq(Nat)
    BY DEF Accounts
  <2> QED
    BY <1>3, <1>6, <2>1 DEF SwapTerms, Terms, Only
<1>8. SwapTerms(p, side, amount, legs).kind = "swap"
  BY DEF SwapTerms
<1>9. Post(f, SwapTerms(p, side, amount, legs))
  BY <1>2 DEF legs, out, o
<1> QED
  BY <1>7, <1>8, <1>9, PostKeepsInv

LEMMA RequestAddKeepsInv ==
  ASSUME Inv, NEW f \in Flows, NEW p \in Traders, NEW offer \in Offers,
         RequestAdd(f, p, offer)
  PROVE  Inv'
<1>1. PICK lp \in FairLp(offer) - Dust .. FairLp(offer) + Dust :
         lp > 0 /\ Post(f, AddTerms(p, offer, lp))
  BY DEF RequestAdd
<1>2. lp \in Nat
  BY <1>1
<1>3. offer \in [Sides -> Nat]
  BY PoolAssumption
<1>4. AddTerms(p, offer, lp) \in Terms
  <2>1. p \in Accounts /\ <<>> \in Seq(Nat) /\ <<lp>> \in Seq(Nat)
    BY <1>2 DEF Accounts
  <2>2. \A i \in Instruments : i = "lp" \/ i \in Sides
    BY DEF Instruments
  <2> QED
    BY <1>3, <2>1, <2>2 DEF AddTerms, Terms, Only
<1>5. AddTerms(p, offer, lp).gets["lp"] = <<lp>>
  BY DEF AddTerms, Only, Instruments
<1>6. Len(AddTerms(p, offer, lp).gets["lp"]) = 1
  BY <1>5
<1> QED
  BY <1>1, <1>4, <1>6, PostKeepsInv

LEMMA RequestRemoveKeepsInv ==
  ASSUME Inv, NEW f \in Flows, NEW p \in Traders, NEW lp \in Redemptions,
         RequestRemove(f, p, lp)
  PROVE  Inv'
<1> DEFINE out == Redeemed(lp)
<1>1. pool.supply > 0
  BY DEF RequestRemove
<1>2. PICK base \in Draws(slices["base"], out["base"]),
           quote \in Draws(slices["quote"], out["quote"]) :
         Post(f, RemoveTerms(p, lp,
           [s \in Sides |-> LegAmounts(slices[s], IF s = "base" THEN base ELSE quote, out[s])]))
  BY DEF RequestRemove
<1>3. lp \in Nat
  BY PoolAssumption
<1>4. \A s \in Sides : out[s] \in Nat
  BY <1>1, <1>3, RedeemedType
<1> DEFINE legs == [s \in Sides |->
                     LegAmounts(slices[s], IF s = "base" THEN base ELSE quote, out[s])]
<1>5. ASSUME NEW s \in Sides
      PROVE  legs[s] \in Seq(Nat)
  <2> DEFINE held == slices[s]  amount == out[s]
             order == IF s = "base" THEN base ELSE quote
  <2>1. held \in [Slots -> Nat]
    BY DEF Inv, TypeOK
  <2>2. amount \in Nat /\ order \in Draws(held, amount)
    BY <1>4 DEF Sides
  <2>3. legs[s] = LegAmounts(held, order, amount)
    OBVIOUS
  <2> HIDE DEF held, amount, order, legs
  <2> QED
    BY <2>1, <2>2, <2>3, DrawTakesAmount
<1> HIDE DEF legs
<1>6. RemoveTerms(p, lp, legs) \in Terms
  <2>1. p \in Accounts /\ <<>> \in Seq(Nat)
    BY DEF Accounts
  <2>2. \A i \in Instruments : i = "lp" \/ i \in Sides
    BY DEF Instruments
  <2> QED
    BY <1>3, <1>5, <2>1, <2>2 DEF RemoveTerms, Terms, Only
<1>7. RemoveTerms(p, lp, legs).kind = "remove"
  BY DEF RemoveTerms
<1>8. Post(f, RemoveTerms(p, lp, legs))
  BY <1>2 DEF legs, out
<1> QED
  BY <1>6, <1>7, <1>8, PostKeepsInv

(* What is taken back from the allocations that are given up.              *)
LEMMA RetakenType ==
  ASSUME TypeOK, NEW taken, NEW i \in Instruments
  PROVE  Retaken(taken, i) \in Nat
<1> DEFINE back == [g \in Flows |->
                     IF \E a \in taken : a[1] = g /\ i \in a[2] THEN terms[g].pays[i] ELSE 0]
<1>1. \A g \in Flows : terms[g].pays[i] \in Nat
  BY DEF TypeOK, Terms
<1>2. back \in [Flows -> Nat]
  BY <1>1
<1> HIDE DEF back
<1>3. Sum(back) \in Nat
  BY <1>2, PoolAssumption, SumNat
<1> QED
  BY <1>3 DEF Retaken, back

(* Accepting, closing or expiring a request, authoring an allocation and   *)
(* releasing one leave the pool and its slices as they are.                *)
LEMMA AuthorizationKeepsInv ==
  ASSUME Inv, Authorization
  PROVE  Inv'
<1>1. PICK f \in Flows :
         \/ Accept(f) \/ CloseRequest(f) \/ DeadlinePasses(f)
         \/ \E spec \in SUBSET Instruments :
              Authorize(f, spec) \/ WithdrawAllocation(f, spec) \/ CancelAllocation(f, spec)
  BY DEF Authorization
<1>2. TypeOK
  BY DEF Inv
<1>3. UNCHANGED <<pool, slices, backing, policy, terms>>
  BY <1>1 DEF Accept, CloseRequest, DeadlinePasses, Authorize, WithdrawAllocation,
              CancelAllocation, Release
<1>4. CASE Accept(f) \/ CloseRequest(f) \/ DeadlinePasses(f)
  <2>1. TypeOK'
    BY <1>2, <1>3, <1>4 DEF TypeOK, Accept, CloseRequest, DeadlinePasses
  <2> QED
    BY <1>3, <2>1 DEF Inv, ReservesBacked, SliceBacked, Lifecycle
<1>5. ASSUME NEW spec \in SUBSET Instruments, Authorize(f, spec) \/ Release(f, spec)
      PROVE  Inv'
  <2> DEFINE t == terms[f]
             plus  == [i \in Instruments |-> free[t.party][i] + Locks(t, spec, i)]
  <2>1. t \in Terms /\ t.party \in Accounts /\ t.pays \in [Instruments -> Nat]
    <3>1. t \in Terms
      BY <1>2 DEF TypeOK
    <3> HIDE DEF t
    <3> QED
      BY <3>1 DEF Terms
  <2>2. free[t.party] \in [Instruments -> Nat]
    BY <1>2, <2>1 DEF TypeOK
  <2>3. \A i \in Instruments : Locks(t, spec, i) \in Nat
    <3> HIDE DEF t
    <3> QED
      BY <2>1 DEF Locks
  <2>4. CASE Authorize(f, spec)
    <3>1. PICK taken \in Retakes(t, spec) :
            /\ Funded(t, spec, taken)
            /\ free' = [free EXCEPT ![t.party] = [i \in Instruments |->
                          free[t.party][i] + Retaken(taken, i) - Locks(t, spec, i)]]
            /\ authored' = [g \in Flows |->
                 IF g = f THEN Left(g, taken) \cup {spec} ELSE Left(g, taken)]
      BY <2>4 DEF Authorize
    <3> DEFINE minus == [i \in Instruments |->
                          free[t.party][i] + Retaken(taken, i) - Locks(t, spec, i)]
    <3>2. \A i \in Instruments : Retaken(taken, i) \in Nat
      BY <1>2, RetakenType
    <3>3. /\ \A i \in Instruments : Locks(t, spec, i) <= free[t.party][i] + Retaken(taken, i)
          /\ free' = [free EXCEPT ![t.party] = minus]
          /\ UNCHANGED <<request, late>>
      BY <2>4, <3>1 DEF Authorize, Funded
    <3> HIDE DEF t
    <3>4. minus \in [Instruments -> Nat]
      BY <2>2, <2>3, <3>2, <3>3
    <3> HIDE DEF minus
    <3>5. free' \in [Accounts -> [Instruments -> Nat]]
      BY <1>2, <2>1, <3>3, <3>4 DEF TypeOK
    <3>6. authored' \in [Flows -> SUBSET SUBSET Instruments]
      BY <1>2, <3>1 DEF TypeOK, Left
    <3>7. TypeOK'
      BY <1>2, <1>3, <3>3, <3>5, <3>6 DEF TypeOK
    <3> QED
      BY <1>3, <3>7 DEF Inv, ReservesBacked, SliceBacked, Lifecycle
  <2>5. CASE Release(f, spec)
    <3>1. /\ free' = [free EXCEPT ![t.party] = plus]
          /\ authored' = [authored EXCEPT ![f] = authored[f] \ {spec}]
          /\ UNCHANGED <<request, late>>
      BY <2>5 DEF Release
    <3> HIDE DEF t
    <3>2. plus \in [Instruments -> Nat]
      BY <2>2, <2>3
    <3> HIDE DEF plus
    <3>3. TypeOK'
      BY <1>2, <1>3, <3>1, <3>2 DEF TypeOK
    <3> QED
      BY <1>3, <3>3 DEF Inv, ReservesBacked, SliceBacked, Lifecycle
  <2> QED
    BY <1>5, <2>4, <2>5
<1> QED
  BY <1>1, <1>4, <1>5 DEF WithdrawAllocation, CancelAllocation

(* Pausing, cancelling custody, and the registrar's own choices. *)
LEMMA AdministrationKeepsInv ==
  ASSUME Inv, Administration
  PROVE  Inv'
<1>1. TypeOK /\ ReservesBacked /\ SliceBacked /\ Lifecycle
  BY DEF Inv
<1>2. CASE Pause \/ Resume
  <2>1. /\ UNCHANGED <<slices, backing, policy, free, request, late, terms, authored>>
        /\ pool.status # "Unfunded" /\ pool'.status # "Unfunded"
        /\ pool'.reserve = pool.reserve
        /\ pool' \in [status : {"Unfunded", "Active", "Paused"},
                      reserve : [Sides -> Nat], supply : Nat]
    BY <1>1, <1>2 DEF Pause, Resume, TypeOK
  <2>2. TypeOK'
    BY <1>1, <2>1 DEF TypeOK
  <2> QED
    BY <1>1, <2>1, <2>2 DEF Inv, ReservesBacked, SliceBacked, Lifecycle
<1>3. CASE Deactivate
  <2>1. /\ UNCHANGED <<pool, slices, backing, free, request, late, terms, authored>>
        /\ policy' \in [supply : Nat, active : BOOLEAN]
    BY <1>1, <1>3 DEF Deactivate, TypeOK
  <2> QED
    BY <1>1, <2>1 DEF Inv, TypeOK, ReservesBacked, SliceBacked, Lifecycle
<1>4. ASSUME NEW side \in Sides, NEW slot \in Slots, CancelCustody(side, slot)
      PROVE  Inv'
  <2>1. /\ CancelsAllowed
        /\ free' = [free EXCEPT ![Operator][side] = @ + backing[side][slot]]
        /\ backing' = [backing EXCEPT ![side][slot] = 0]
        /\ UNCHANGED <<pool, slices, policy, request, late, terms, authored>>
    BY <1>4 DEF CancelCustody
  <2>2. /\ free \in [Accounts -> [Instruments -> Nat]]
        /\ backing \in [Sides -> [Slots -> Nat]]
        /\ Operator \in Accounts /\ side \in Instruments
    BY <1>1, SidesFacts DEF TypeOK, Accounts
  <2>3. free' \in [Accounts -> [Instruments -> Nat]]
    BY <2>1, <2>2
  <2>4. backing' \in [Sides -> [Slots -> Nat]]
        /\ \A s \in Sides, x \in Slots : backing'[s][x] = backing[s][x] \/ backing'[s][x] = 0
    BY <2>1, <2>2
  <2>5. TypeOK'
    BY <1>1, <2>1, <2>3, <2>4 DEF TypeOK
  <2>6. SliceBacked'
    BY <1>1, <2>1, <2>4 DEF SliceBacked
  <2> QED
    BY <1>1, <2>1, <2>5, <2>6 DEF Inv, ReservesBacked, Lifecycle
<1>5. ASSUME NEW n \in Overrides, RecordLPSupply(n) \/ RecordPolicySupply(n)
      PROVE  Inv'
  <2>1. n \in Nat
    BY PoolAssumption
  <2>2. CASE RecordLPSupply(n)
    <3>1. /\ pool' = [pool EXCEPT !.supply = n]
          /\ UNCHANGED <<slices, backing, policy, free, request, late, terms, authored>>
      BY <2>2 DEF RecordLPSupply
    <3>2. /\ pool' \in [status : {"Unfunded", "Active", "Paused"},
                        reserve : [Sides -> Nat], supply : Nat]
          /\ pool'.status = pool.status /\ pool'.reserve = pool.reserve
      BY <1>1, <2>1, <3>1 DEF TypeOK
    <3> QED
      BY <1>1, <3>1, <3>2 DEF Inv, TypeOK, ReservesBacked, SliceBacked, Lifecycle
  <2>3. CASE RecordPolicySupply(n)
    <3>1. /\ policy' = [policy EXCEPT !.supply = n]
          /\ UNCHANGED <<pool, slices, backing, free, request, late, terms, authored>>
      BY <2>3 DEF RecordPolicySupply
    <3>2. policy' \in [supply : Nat, active : BOOLEAN]
      BY <1>1, <2>1, <3>1 DEF TypeOK
    <3> QED
      BY <1>1, <3>1, <3>2 DEF Inv, TypeOK, ReservesBacked, SliceBacked, Lifecycle
  <2> QED
    BY <1>5, <2>2, <2>3
<1> QED
  BY <1>2, <1>3, <1>4, <1>5 DEF Administration

-----------------------------------------------------------------------------
LEMMA InitInv == Init => Inv
<1> SUFFICES ASSUME Init PROVE Inv
  OBVIOUS
<1>1. /\ pool = [status  |-> IF \E s \in Sides : Sum(InitialSlices[s]) > 0
                             THEN "Active" ELSE "Unfunded",
                 reserve |-> [s \in Sides |-> Sum(InitialSlices[s])],
                 supply  |-> InitialLp]
      /\ slices = InitialSlices
      /\ backing = InitialSlices
      /\ policy = [supply |-> InitialLp, active |-> TRUE]
      /\ free = InitialFree
      /\ request = [f \in Flows |-> "none"]
      /\ late = [f \in Flows |-> FALSE]
      /\ terms = [f \in Flows |-> NoTerms]
      /\ authored = [f \in Flows |-> {}]
  BY DEF Init
<1>2. InitialLp \in Nat
  <2> DEFINE lp == [a \in Accounts |-> InitialFree[a]["lp"]]
  <2>1. lp \in [Accounts -> Nat]
    BY PoolAssumption DEF Instruments
  <2> HIDE DEF lp
  <2>2. Sum(lp) \in Nat
    BY <2>1, AccountsFinite, SumNat
  <2> QED
    BY <2>2 DEF InitialLp, lp
<1>3. ASSUME NEW s \in Sides
      PROVE  Sum(InitialSlices[s]) \in Nat
  <2> DEFINE amounts == InitialSlices[s]
  <2>1. amounts \in [Slots -> Nat] /\ IsFiniteSet(Slots)
    BY PoolAssumption
  <2> HIDE DEF amounts
  <2>2. Sum(amounts) \in Nat
    BY <2>1, SumNat
  <2> QED
    BY <2>2 DEF amounts
<1>4. NoTerms \in Terms /\ NoTerms.kind # "add"
  <2>1. Operator \in Accounts /\ <<>> \in Seq(Nat)
    BY DEF Accounts
  <2> QED
    BY <2>1 DEF NoTerms, Terms, Nothing, NoLegs
<1>5. TypeOK
  BY <1>1, <1>2, <1>3, <1>4, PoolAssumption DEF TypeOK
<1>6. ReservesBacked /\ SliceBacked
  BY <1>1 DEF ReservesBacked, SliceBacked
<1>7. Lifecycle
  <2>1. \A s \in Sides : Sum(InitialSlices[s]) = 0 <=> Sum(InitialSlices[Opposite(s)]) = 0
    BY PoolAssumption
  <2>2. \A s, r \in Sides : Sum(InitialSlices[s]) = 0 <=> Sum(InitialSlices[r]) = 0
    BY <2>1, SidesFacts
  <2>3. \A s \in Sides : pool.reserve[s] = Sum(InitialSlices[s])
    BY <1>1
  <2>4. pool.status = "Unfunded" <=> ~ \E s \in Sides : Sum(InitialSlices[s]) > 0
    BY <1>1
  <2> QED
    BY <1>3, <2>2, <2>3, <2>4 DEF Lifecycle
<1> QED
  BY <1>5, <1>6, <1>7 DEF Inv

LEMMA NextInv == Inv /\ [Next]_vars => Inv'
<1> SUFFICES ASSUME Inv, [Next]_vars PROVE Inv'
  OBVIOUS
<1>1. CASE Swaps
  <2>1. PICK side \in Sides :
          \/ \E f \in Flows, p \in Traders, amount \in SwapInputs :
               RequestSwap(f, p, side, amount)
          \/ \E t \in SwapsOf(side) :
               \E src \in Supplies(t), closed \in SUBSET Matching(t) :
                 SettleSwap(t, side, src, closed)
    BY <1>1 DEF Swaps
  <2>2. \A t \in SwapsOf(side) : t \in Terms
    BY SwapOfType DEF Inv
  <2> QED
    BY <2>1, <2>2, RequestSwapKeepsInv, SwapKeepsInv
<1>2. CASE Liquidity
  <2>1. PICK f \in Flows :
          \/ \E p \in Traders, offer \in Offers : RequestAdd(f, p, offer)
          \/ \E p \in Traders, lp \in Redemptions : RequestRemove(f, p, lp)
          \/ \E src \in Supplies(terms[f]) :
               \/ \E slot \in [Sides -> Slots] : SettleAdd(f, src, slot)
               \/ SettleRemove(f, src)
    BY <1>2 DEF Liquidity
  <2> QED
    BY <2>1, RequestAddKeepsInv, RequestRemoveKeepsInv, AddKeepsInv, RemoveKeepsInv
<1>3. CASE Authorization
  BY <1>3, AuthorizationKeepsInv
<1>4. CASE Administration
  BY <1>4, AdministrationKeepsInv
<1>5. CASE UNCHANGED vars
  BY <1>5 DEF vars, Inv, TypeOK, ReservesBacked, SliceBacked, Lifecycle
<1> QED
  BY <1>1, <1>2, <1>3, <1>4, <1>5 DEF Next

THEOREM InvHolds == Spec => []Inv
BY InitInv, NextInv, PTL DEF Spec

(* Every amount the pool, its slices, its policy and its accounts record   *)
(* stays a natural number: no settlement takes more than there is.         *)
THEOREM TypeCorrect == Spec => []TypeOK
<1>1. Inv => TypeOK
  BY DEF Inv
<1> QED
  BY <1>1, InvHolds, PTL

(* The reserves that price every trade are the sums of the slices that     *)
(* hold the funds, whatever slices the settlements name.                   *)
THEOREM ReservesAreBacked == Spec => []ReservesBacked
<1>1. Inv => ReservesBacked
  BY DEF Inv
<1> QED
  BY <1>1, InvHolds, PTL

(* A slice's amount is what its allocation locks, unless the operator has  *)
(* cancelled that allocation.                                              *)
THEOREM SlicesAreBacked == Spec => []SliceBacked
<1>1. Inv => SliceBacked
  BY DEF Inv
<1> QED
  BY <1>1, InvHolds, PTL

(* No side of a pool that still trades is ever empty.                      *)
THEOREM NeverOneSided == Spec => []Lifecycle
<1>1. Inv => Lifecycle
  BY DEF Inv
<1> QED
  BY <1>1, InvHolds, PTL
=============================================================================
