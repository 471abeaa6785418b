---------------------------- MODULE PoolPromises ----------------------------
(***************************************************************************)
(* What the pool promises to its users, for every number of traders,       *)
(* slices and requests and for every scale, fee, tolerance and set of      *)
(* amounts: nothing is lost, LP tokens are counted once and own the        *)
(* reserves, a trader's holdings change only as it authorised, and the     *)
(* whole is the market maker of Amm.                                       *)
(***************************************************************************)
EXTENDS PoolProofs

(***************************************************************************)
(* Requests as the ledger has them.  Terms say who pays what in one of     *)
(* three shapes, a request that was never made has none, and allocations   *)
(* are authored for specifications of the request they belong to.  The     *)
(* settlements rely on it: they look at one side of a swap's payments, and *)
(* consume the allocations of the specifications they expect.              *)
(***************************************************************************)
Shaped(t) ==
  /\ t.kind # "none" => t.party \in Traders
  /\ t.kind = "swap" => \E s \in Sides :
       /\ t.pays = Only(s, t.pays[s], 0)
       /\ t.gets[s] = <<>> /\ t.gets["lp"] = <<>>
  /\ t.kind = "add" =>
       /\ t.pays["lp"] = 0 /\ t.gets["lp"][1] > 0
       /\ \A s \in Sides : t.gets[s] = <<>>
  /\ t.kind = "remove" =>
       /\ t.gets["lp"] = <<>>
       /\ \A s \in Sides : t.pays[s] = 0

Orderly ==
  \A f \in Flows :
    /\ Shaped(terms[f])
    /\ request[f] = "none" => terms[f] = NoTerms
    /\ authored[f] \subseteq Specs(terms[f])

-----------------------------------------------------------------------------
LEMMA PostOrderly ==
  ASSUME Inv, Orderly, NEW f \in Flows, NEW t, Shaped(t), Post(f, t)
  PROVE  Orderly'
<1>1. /\ request[f] = "none"
      /\ request' = [request EXCEPT ![f] = "live"]
      /\ terms' = [terms EXCEPT ![f] = t]
      /\ authored' = authored
  BY DEF Post
<1>2. authored[f] = {}
  BY <1>1 DEF Orderly, Specs, NoTerms
<1> QED
  BY <1>1, <1>2 DEF Orderly, Inv, TypeOK

LEMMA SwapTermsShaped ==
  ASSUME NEW p \in Traders, NEW side \in Sides, NEW amount, NEW legs
  PROVE  Shaped(SwapTerms(p, side, amount, legs))
<1> DEFINE t == SwapTerms(p, side, amount, legs)
<1>1. /\ t.kind = "swap" /\ t.party = p
      /\ t.pays = Only(side, amount, 0) /\ t.gets = Only(Opposite(side), legs, <<>>)
  BY DEF SwapTerms
<1>2. side \in Instruments /\ "lp" \in Instruments
      /\ side # Opposite(side) /\ "lp" # Opposite(side)
  BY SidesFacts DEF Instruments
<1>3. t.pays[side] = amount /\ t.gets[side] = <<>> /\ t.gets["lp"] = <<>>
  BY <1>1, <1>2 DEF Only
<1> HIDE DEF t
<1>4. \E s \in Sides : /\ t.pays = Only(s, t.pays[s], 0)
                       /\ t.gets[s] = <<>> /\ t.gets["lp"] = <<>>
  BY <1>1, <1>3
<1>5. Shaped(t)
  BY <1>1, <1>4 DEF Shaped
<1> QED
  BY <1>5 DEF t

LEMMA AddTermsShaped ==
  ASSUME NEW p \in Traders, NEW offer, NEW lp \in Nat, lp > 0
  PROVE  Shaped(AddTerms(p, offer, lp))
<1> DEFINE t == AddTerms(p, offer, lp)
<1>1. /\ t.kind = "add" /\ t.party = p
      /\ t.pays["lp"] = 0 /\ t.gets = Only("lp", <<lp>>, <<>>)
  BY DEF AddTerms, Instruments
<1>2. t.gets["lp"] = <<lp>> /\ \A s \in Sides : t.gets[s] = <<>>
  BY <1>1, SidesFacts DEF Only, Instruments
<1> HIDE DEF t
<1>3. Shaped(t)
  BY <1>1, <1>2 DEF Shaped
<1> QED
  BY <1>3 DEF t

LEMMA RemoveTermsShaped ==
  ASSUME NEW p \in Traders, NEW lp, NEW legs
  PROVE  Shaped(RemoveTerms(p, lp, legs))
<1> DEFINE t == RemoveTerms(p, lp, legs)
<1>1. /\ t.kind = "remove" /\ t.party = p
      /\ t.gets["lp"] = <<>> /\ t.pays = Only("lp", lp, 0)
  BY DEF RemoveTerms, Instruments
<1>2. \A s \in Sides : t.pays[s] = 0
  BY <1>1, SidesFacts DEF Only
<1> HIDE DEF t
<1>3. Shaped(t)
  BY <1>1, <1>2 DEF Shaped
<1> QED
  BY <1>3 DEF t

(* A settlement only takes allocations away. *)
LEMMA ConsumedOrderly ==
  ASSUME Inv, Orderly, NEW src, authored' = Consumed(src), terms' = terms,
         \A g \in Flows : request'[g] = "none" => request[g] = "none"
  PROVE  Orderly'
BY DEF Orderly, Consumed

LEMMA InitOrderly == Init => Orderly
<1> SUFFICES ASSUME Init PROVE Orderly
  OBVIOUS
<1>1. /\ terms = [f \in Flows |-> NoTerms] /\ authored = [f \in Flows |-> {}]
  BY DEF Init
<1>2. Shaped(NoTerms)
  BY DEF Shaped, NoTerms
<1> QED
  BY <1>1, <1>2 DEF Orderly

LEMMA NextOrderly ==
  ASSUME Inv, Orderly, [Next]_vars
  PROVE  Orderly'
<1>1. CASE Swaps
  <2>1. PICK side \in Sides :
          \/ \E f \in Flows, p \in Traders, amount \in SwapInputs :
               RequestSwap(f, p, side, amount)
          \/ \E t \in SwapsOf(side) :
               \E src \in Supplies(t), closed \in SUBSET Matching(t) :
                 SettleSwap(t, side, src, closed)
    BY <1>1 DEF Swaps
  <2>2. ASSUME NEW f \in Flows, NEW p \in Traders, NEW amount \in SwapInputs,
               RequestSwap(f, p, side, amount)
        PROVE  Orderly'
    <3>1. \E legs : Post(f, SwapTerms(p, side, amount, legs))
      BY <2>2 DEF RequestSwap
    <3> QED
      BY <3>1, SwapTermsShaped, PostOrderly
  <2>3. ASSUME NEW t, NEW src, NEW closed, SettleSwap(t, side, src, closed)
        PROVE  Orderly'
    <3>1. /\ authored' = Consumed(src) /\ terms' = terms
          /\ request' = [g \in Flows |-> IF g \in closed THEN "gone" ELSE request[g]]
      BY <2>3 DEF SettleSwap
    <3>2. \A g \in Flows : request'[g] = "none" => request[g] = "none"
      BY <3>1
    <3> QED
      BY <3>1, <3>2, ConsumedOrderly
  <2> QED
    BY <2>1, <2>2, <2>3
<1>2. CASE Liquidity
  <2>1. PICK f \in Flows :
          \/ \E p \in Traders, offer \in Offers : RequestAdd(f, p, offer)
          \/ \E p \in Traders, lp \in Redemptions : RequestRemove(f, p, lp)
          \/ \E src \in Supplies(terms[f]) :
               \/ \E slot \in [Sides -> Slots] : SettleAdd(f, src, slot)
               \/ SettleRemove(f, src)
    BY <1>2 DEF Liquidity
  <2>2. ASSUME NEW p \in Traders, NEW offer \in Offers, RequestAdd(f, p, offer)
        PROVE  Orderly'
    <3>1. PICK lp \in FairLp(offer) - Dust .. FairLp(offer) + Dust :
             lp > 0 /\ Post(f, AddTerms(p, offer, lp))
      BY <2>2 DEF RequestAdd
    <3>2. lp \in Nat
      BY <3>1
    <3> QED
      BY <3>1, <3>2, AddTermsShaped, PostOrderly
  <2>3. ASSUME NEW p \in Traders, NEW lp \in Redemptions, RequestRemove(f, p, lp)
        PROVE  Orderly'
    <3>1. \E legs : Post(f, RemoveTerms(p, lp, legs))
      BY <2>3 DEF RequestRemove
    <3> QED
      BY <3>1, RemoveTermsShaped, PostOrderly
  <2>4. ASSUME NEW src,
               (\E slot \in [Sides -> Slots] : SettleAdd(f, src, slot)) \/ SettleRemove(f, src)
        PROVE  Orderly'
    <3>1. /\ authored' = Consumed(src) /\ terms' = terms
          /\ request' = [request EXCEPT ![f] = "gone"]
      BY <2>4 DEF SettleAdd, SettleRemove
    <3>2. \A g \in Flows : request'[g] = "none" => request[g] = "none"
      BY <3>1 DEF Inv, TypeOK
    <3> QED
      BY <3>1, <3>2, ConsumedOrderly
  <2> QED
    BY <2>1, <2>2, <2>3, <2>4
<1>3. CASE Authorization
  <2>1. PICK f \in Flows :
           \/ Accept(f) \/ CloseRequest(f) \/ DeadlinePasses(f)
           \/ \E spec \in SUBSET Instruments :
                Authorize(f, spec) \/ WithdrawAllocation(f, spec) \/ CancelAllocation(f, spec)
    BY <1>3 DEF Authorization
  <2>2. CASE Accept(f) \/ CloseRequest(f) \/ DeadlinePasses(f)
    <3>1. /\ UNCHANGED <<terms, authored>>
          /\ \A g \in Flows : request'[g] = "none" => request[g] = "none"
      BY <2>2 DEF Accept, CloseRequest, DeadlinePasses, Inv, TypeOK
    <3> QED
      BY <3>1 DEF Orderly
  <2>3. ASSUME NEW spec \in SUBSET Instruments, Authorize(f, spec)
        PROVE  Orderly'
    <3>1. /\ UNCHANGED <<terms, request>> /\ spec \in Specs(terms[f])
          /\ \A g \in Flows :
               authored'[g] \subseteq authored[g] \cup (IF g = f THEN {spec} ELSE {})
      BY <2>3 DEF Authorize, Left
    <3> QED
      BY <3>1 DEF Orderly
  <2>4. ASSUME NEW spec \in SUBSET Instruments, Release(f, spec)
        PROVE  Orderly'
    <3>1. /\ UNCHANGED <<terms, request>>
          /\ authored' = [authored EXCEPT ![f] = authored[f] \ {spec}]
      BY <2>4 DEF Release
    <3> QED
      BY <3>1 DEF Orderly, Inv, TypeOK
  <2> QED
    BY <2>1, <2>2, <2>3, <2>4 DEF WithdrawAllocation, CancelAllocation
<1>4. CASE Administration \/ UNCHANGED vars
  <2>1. UNCHANGED <<terms, authored, request>>
    BY <1>4 DEF Administration, Pause, Resume, Deactivate, CancelCustody,
                RecordLPSupply, RecordPolicySupply, vars
  <2> QED
    BY <2>1 DEF Orderly
<1> QED
  BY <1>1, <1>2, <1>3, <1>4 DEF Next

(* A swap that has all its allocations is one of a trader.                 *)
LEMMA SwapDealShaped ==
  ASSUME Inv, Orderly, NEW side \in Sides, NEW t \in SwapsOf(side), NEW src \in Supplies(t)
  PROVE  Shaped(t)
<1>1. PICK g \in Flows, h \in Flows : t = SwapOf(side, g, h)
  BY DEF SwapsOf
<1> DEFINE p == terms[g].party  amount == terms[g].pays[side]
           legs == terms[h].gets[Opposite(side)]
<1>2. t = SwapTerms(p, side, amount, legs)
  BY <1>1 DEF SwapOf
<1>3. t.kind = "swap" /\ t.party = p
  BY <1>2 DEF SwapTerms
<1>4. PICK x : x \in Specs(t)
  BY <1>3 DEF Specs, Sides
<1>5. /\ src[x] \in Flows /\ terms[src[x]].kind = t.kind /\ terms[src[x]].party = t.party
  BY <1>4 DEF Supplies, Same
<1>6. p \in Traders
  BY <1>3, <1>5 DEF Orderly, Shaped
<1> HIDE DEF p, amount, legs
<1> QED
  BY <1>2, <1>6, SwapTermsShaped

-----------------------------------------------------------------------------
(***************************************************************************)
(* What an account has locked, request by request, and what it holds.      *)
(***************************************************************************)
Held(p, i) == [f \in Flows |-> IF terms[f].party = p THEN LockedIn(f, i) ELSE 0]

LEMMA TermsTyped ==
  ASSUME TypeOK, NEW f \in Flows
  PROVE  /\ terms[f] \in Terms
         /\ terms[f].party \in Accounts
         /\ terms[f].pays \in [Instruments -> Nat]
         /\ terms[f].gets \in [Instruments -> Seq(Nat)]
         /\ terms[f].kind \in {"none", "swap", "add", "remove"}
<1> DEFINE t == terms[f]
<1>1. t \in Terms
  BY DEF TypeOK
<1> HIDE DEF t
<1>2. /\ t.party \in Accounts /\ t.pays \in [Instruments -> Nat]
      /\ t.gets \in [Instruments -> Seq(Nat)]
      /\ t.kind \in {"none", "swap", "add", "remove"}
  BY <1>1 DEF Terms
<1> QED
  BY <1>1, <1>2 DEF t

LEMMA HeldType ==
  ASSUME TypeOK, NEW p, NEW i \in Instruments
  PROVE  /\ Held(p, i) \in [Flows -> Nat]
         /\ Sum(Held(p, i)) \in Nat
<1>1. \A f \in Flows : LockedIn(f, i) \in Nat
  BY TermsTyped DEF LockedIn
<1>2. Held(p, i) \in [Flows -> Nat]
  BY <1>1 DEF Held
<1> QED
  BY <1>2, SumNat, PoolAssumption

LEMMA WealthType ==
  ASSUME TypeOK, NEW p \in Accounts, NEW i \in Instruments
  PROVE  Wealth(p, i) = free[p][i] + Sum(Held(p, i)) /\ Wealth(p, i) \in Nat
<1>1. free[p][i] \in Nat
  BY DEF TypeOK
<1> QED
  BY <1>1, HeldType DEF Wealth, Held

LEMMA WealthNext ==
  ASSUME TypeOK', NEW p \in Accounts, NEW i \in Instruments
  PROVE  Wealth(p, i)' \in Nat
<1> DEFINE held == [g \in Flows |-> IF terms'[g].party = p THEN LockedIn(g, i)' ELSE 0]
<1>1. ASSUME NEW g \in Flows
      PROVE  LockedIn(g, i)' \in Nat
  <2> DEFINE t == terms'[g]
  <2>1. t \in Terms
    BY DEF TypeOK
  <2> HIDE DEF t
  <2>2. t.pays[i] \in Nat
    BY <2>1 DEF Terms
  <2> QED
    BY <2>2 DEF LockedIn, t
<1>2. held \in [Flows -> Nat]
  BY <1>1
<1> HIDE DEF held
<1>3. Sum(held) \in Nat
  BY <1>2, SumNat, PoolAssumption
<1>4. free'[p][i] \in Nat
  BY DEF TypeOK
<1> QED
  BY <1>3, <1>4 DEF Wealth, held

(* The specifications of a request cover each instrument once, but for the *)
(* LP tokens, which a swap does not move.                                  *)
LEMMA SpecsCover ==
  ASSUME NEW t, Shaped(t), t.kind \in {"swap", "add", "remove"}, NEW i \in Instruments
  PROVE  /\ \A x, y \in Specs(t) : i \in x /\ i \in y => x = y
         /\ (\E x \in Specs(t) : i \in x) \/ t.pays[i] = 0
<1>1. CASE t.kind # "swap"
  BY <1>1 DEF Specs
<1>2. CASE t.kind = "swap"
  <2>1. PICK s \in Sides : t.pays = Only(s, t.pays[s], 0)
    BY <1>2 DEF Shaped
  <2>2. i \in Sides \/ i = "lp"
    BY DEF Instruments
  <2>3. s # "lp"
    BY DEF Sides
  <2>4. i = "lp" => t.pays[i] = 0
    BY <2>1, <2>3 DEF Only
  <2>5. Specs(t) = IF CrossAdmin THEN {{r} : r \in Sides} ELSE {Sides}
    BY <1>2 DEF Specs
  <2> QED
    BY <2>2, <2>4, <2>5
<1> QED
  BY <1>1, <1>2

(* A settlement takes what its party locked for it, once, from the         *)
(* requests its allocations were authored for, which may ask for other     *)
(* things besides; nobody else's locked holdings change.                   *)
LEMMA SettledLocks ==
  ASSUME Inv, Orderly, Inv', NEW t \in Terms, Shaped(t), NEW src \in Supplies(t),
         t.kind # "none", authored' = Consumed(src), terms' = terms,
         NEW p \in Accounts, NEW i \in Instruments
  PROVE  Sum(Held(p, i))' =
           Sum(Held(p, i)) - (IF p = t.party THEN t.pays[i] ELSE 0)
<1>1. TypeOK /\ TypeOK'
  BY DEF Inv
<1>2. t.kind \in {"swap", "add", "remove"} /\ t.pays \in [Instruments -> Nat]
  BY DEF Terms
<1>3. /\ \A x, y \in Specs(t) : i \in x /\ i \in y => x = y
      /\ (\E x \in Specs(t) : i \in x) \/ t.pays[i] = 0
  BY <1>2, SpecsCover
<1>4. /\ src \in [Specs(t) -> Flows]
      /\ \A x \in Specs(t) : Same(terms[src[x]], t, x) /\ x \in authored[src[x]]
  BY DEF Supplies
<1>5. \A g \in Flows : authored'[g] = {x \in authored[g] : ~(x \in Specs(t) /\ src[x] = g)}
  BY <1>4 DEF Consumed
<1>6. \A g \in Flows : authored[g] \subseteq Specs(terms[g])
  BY DEF Orderly
<1>7. ASSUME NEW g \in Flows, ~ \E x \in Specs(t) : i \in x /\ src[x] = g
      PROVE  LockedIn(g, i)' = LockedIn(g, i)
  <2>1. \A x \in authored[g] : i \in x => x \in authored'[g]
    BY <1>5, <1>7
  <2>2. \A x \in authored'[g] : x \in authored[g]
    BY <1>5
  <2> QED
    BY <2>1, <2>2 DEF LockedIn
<1> DEFINE before == Held(p, i)  after == Held(p, i)'
<1>8. before \in [Flows -> Nat] /\ Sum(before) \in Nat
      /\ after \in [Flows -> Nat] /\ IsFiniteSet(Flows)
  <2>1. after \in [Flows -> Nat]
    <3>1. \A g \in Flows : LockedIn(g, i)' \in Nat
      BY <1>1, TermsTyped DEF LockedIn
    <3> QED
      BY <3>1 DEF Held
  <2> QED
    BY <1>1, <2>1, HeldType, PoolAssumption
<1>9. \A g \in Flows :
        /\ before[g] = IF terms[g].party = p THEN LockedIn(g, i) ELSE 0
        /\ after[g] = IF terms[g].party = p THEN LockedIn(g, i)' ELSE 0
  BY DEF Held
<1> HIDE DEF before, after
<1>10. CASE ~ \E x \in Specs(t) : i \in x
  <2>1. t.pays[i] = 0
    BY <1>3, <1>10
  <2>2. \A g \in Flows : after[g] = before[g]
    BY <1>7, <1>9, <1>10
  <2>3. after = before
    BY <1>8, <2>2
  <2> QED
    BY <1>8, <2>1, <2>3 DEF before, after
<1>11. ASSUME NEW x \in Specs(t), i \in x
       PROVE  Sum(after) = Sum(before) - (IF p = t.party THEN t.pays[i] ELSE 0)
  <2> DEFINE g == src[x]
  <2>1. /\ g \in Flows /\ x \in authored[g]
        /\ terms[g].kind = t.kind /\ terms[g].party = t.party /\ terms[g].pays[i] = t.pays[i]
    BY <1>4, <1>11 DEF Same
  <2>2. LockedIn(g, i) = t.pays[i]
    BY <1>11, <2>1 DEF LockedIn
  <2>3. LockedIn(g, i)' = 0
    <3>1. ASSUME NEW y \in authored'[g], i \in y
          PROVE  FALSE
      <4>1. y \in authored[g] /\ ~(y \in Specs(t) /\ src[y] = g)
        BY <1>5, <2>1, <3>1
      <4>2. y \in Specs(t)
        BY <1>6, <2>1, <4>1 DEF Specs
      <4>3. y = x
        BY <1>3, <1>11, <3>1, <4>2
      <4> QED
        BY <4>1, <4>2, <4>3
    <3> QED
      BY <3>1 DEF LockedIn
  <2>4. ASSUME NEW h \in Flows, h # g
        PROVE  after[h] = before[h]
    <3>1. ~ \E y \in Specs(t) : i \in y /\ src[y] = h
      BY <1>3, <1>11, <2>4
    <3> QED
      BY <1>7, <1>9, <3>1
  <2> HIDE DEF g
  <2>5. Sum(after) = Sum(before) - before[g] + after[g]
    BY <1>8, <2>1, <2>4, SumUpdate
  <2>6. before[g] = (IF p = t.party THEN t.pays[i] ELSE 0) /\ after[g] = 0
    BY <1>9, <2>1, <2>2, <2>3
  <2>7. t.pays[i] \in Nat
    BY <1>2
  <2> QED
    BY <1>8, <2>5, <2>6, <2>7
<1> QED
  BY <1>10, <1>11 DEF before, after

(* Releasing an allocation moves holdings from locked to free.             *)
LEMMA HeldAt ==
  ASSUME TypeOK, TypeOK', terms' = terms, NEW f \in Flows,
         \A g \in Flows : g # f => authored'[g] = authored[g],
         NEW p \in Accounts, NEW i \in Instruments
  PROVE  /\ LockedIn(f, i) \in Nat /\ LockedIn(f, i)' \in Nat
         /\ Sum(Held(p, i))' = Sum(Held(p, i)) +
              (IF p = terms[f].party THEN LockedIn(f, i)' - LockedIn(f, i) ELSE 0)
<1> DEFINE before == Held(p, i)  after == Held(p, i)'
<1>1. \A g \in Flows : LockedIn(g, i) \in Nat /\ LockedIn(g, i)' \in Nat
  BY TermsTyped DEF LockedIn
<1>2. /\ before \in [Flows -> Nat] /\ after \in [Flows -> Nat] /\ IsFiniteSet(Flows)
      /\ \A g \in Flows :
           /\ before[g] = IF terms[g].party = p THEN LockedIn(g, i) ELSE 0
           /\ after[g] = IF terms[g].party = p THEN LockedIn(g, i)' ELSE 0
  BY <1>1, PoolAssumption DEF Held
<1>3. \A g \in Flows : g # f => LockedIn(g, i)' = LockedIn(g, i)
  BY DEF LockedIn
<1>4. \A g \in Flows : g # f => after[g] = before[g]
  BY <1>2, <1>3
<1> HIDE DEF before, after
<1>5. Sum(after) = Sum(before) - before[f] + after[f] /\ Sum(before) \in Nat
  BY <1>2, <1>4, SumUpdate, SumNat
<1>6. Sum(after) = Sum(before) +
        (IF p = terms[f].party THEN LockedIn(f, i)' - LockedIn(f, i) ELSE 0)
  BY <1>1, <1>2, <1>5
<1> QED
  BY <1>1, <1>6 DEF before, after

LEMMA ReleasingKeepsWealth ==
  ASSUME Inv, Orderly, TypeOK', NEW f \in Flows, NEW spec, Release(f, spec),
         NEW p \in Accounts, NEW i \in Instruments
  PROVE  Wealth(p, i)' = Wealth(p, i)
<1> DEFINE t == terms[f]  locked == Locks(t, spec, i)
<1>1. /\ TypeOK /\ terms' = terms /\ spec \in authored[f]
      /\ authored' = [authored EXCEPT ![f] = authored[f] \ {spec}]
      /\ free' = [free EXCEPT ![t.party] =
                    [j \in Instruments |-> free[t.party][j] + Locks(t, spec, j)]]
  BY DEF Inv, Release
<1>2. /\ t.party \in Accounts /\ t.pays \in [Instruments -> Nat]
      /\ Shaped(t) /\ authored[f] \subseteq Specs(t)
  BY <1>1, TermsTyped DEF Orderly
<1>3. \A x, y \in Specs(t) : i \in x /\ i \in y => x = y
  <2>1. t.kind \in {"swap", "add", "remove"}
    BY <1>1, <1>2, TermsTyped DEF Specs
  <2> HIDE DEF t
  <2> QED
    BY <1>2, <2>1, SpecsCover
<1>4. locked \in Nat /\ free \in [Accounts -> [Instruments -> Nat]]
  BY <1>1, <1>2 DEF Locks, TypeOK
<1>5. \A g \in Flows : g # f => authored'[g] = authored[g]
  BY <1>1 DEF TypeOK
<1>6. /\ LockedIn(f, i) \in Nat /\ LockedIn(f, i)' \in Nat
      /\ Sum(Held(p, i))' = Sum(Held(p, i)) +
           (IF p = t.party THEN LockedIn(f, i)' - LockedIn(f, i) ELSE 0)
  BY <1>1, <1>5, HeldAt
<1>7. LockedIn(f, i)' - LockedIn(f, i) = 0 - locked
  <2>1. terms'[f] = t /\ authored'[f] = authored[f] \ {spec}
    BY <1>1 DEF TypeOK
  <2> QED
    BY <1>1, <1>2, <1>3, <1>4, <1>6, <2>1 DEF LockedIn, Locks
<1>8. free'[p][i] = free[p][i] + (IF p = t.party THEN locked ELSE 0)
  <2> HIDE DEF t
  <2>1. free[p][i] \in Nat
    BY <1>4
  <2> QED
    BY <1>1, <1>2, <1>4, <2>1
<1> HIDE DEF t, locked
<1>9. /\ Wealth(p, i) = free[p][i] + Sum(Held(p, i)) /\ Sum(Held(p, i)) \in Nat
      /\ Wealth(p, i)' = free'[p][i] + Sum(Held(p, i))'
  BY <1>1, WealthType, HeldType DEF Wealth, Held
<1>10. free[p][i] \in Nat
  BY <1>4
<1> QED
  BY <1>4, <1>6, <1>7, <1>8, <1>9, <1>10

(* Authoring one locks free holdings, and holdings of allocations that are *)
(* given up for it: what those locked and it does not is free again.       *)
LEMMA AuthorizingKeepsWealth ==
  ASSUME Inv, Orderly, TypeOK', NEW f \in Flows, NEW spec, Authorize(f, spec),
         NEW p \in Accounts, NEW i \in Instruments
  PROVE  Wealth(p, i)' = Wealth(p, i)
<1> DEFINE t == terms[f]  locked == Locks(t, spec, i)
<1>1. TypeOK /\ terms' = terms /\ spec \in Specs(t) \ authored[f]
  BY DEF Inv, Authorize
<1>2. PICK taken \in Retakes(t, spec) :
        /\ free' = [free EXCEPT ![t.party] = [j \in Instruments |->
                      free[t.party][j] + Retaken(taken, j) - Locks(t, spec, j)]]
        /\ authored' = [g \in Flows |->
             IF g = f THEN Left(g, taken) \cup {spec} ELSE Left(g, taken)]
  BY DEF Authorize
<1>3. /\ t.party \in Accounts /\ t.pays \in [Instruments -> Nat] /\ Shaped(t)
      /\ authored[f] \subseteq Specs(t) /\ t.kind \in {"swap", "add", "remove"}
  <2>1. authored[f] \subseteq Specs(t) /\ Shaped(t)
    BY DEF Orderly
  <2>2. t.kind # "none"
    BY <1>1 DEF Specs
  <2> QED
    BY <1>1, <2>1, <2>2, TermsTyped
<1>4. \A a \in taken : /\ a[1] \in Flows /\ a[2] \in authored[a[1]] /\ a = <<a[1], a[2]>>
                       /\ terms[a[1]].party = t.party
  BY DEF Retakes, Reusable
<1>5. ASSUME NEW g \in Flows, NEW x, NEW y, x \in authored[g], y \in authored[g],
             i \in x, i \in y
      PROVE  x = y
  <2> DEFINE u == terms[g]
  <2>1. x \in Specs(u) /\ y \in Specs(u) /\ Shaped(u)
    BY <1>5 DEF Orderly
  <2>2. u.kind \in {"swap", "add", "remove"}
    BY <1>1, <2>1, TermsTyped DEF Specs
  <2> HIDE DEF u
  <2> QED
    BY <1>5, <2>1, <2>2, SpecsCover
<1>6. locked \in Nat /\ free \in [Accounts -> [Instruments -> Nat]]
      /\ Retaken(taken, i) \in Nat
  BY <1>1, <1>3, RetakenType DEF Locks, TypeOK
<1> DEFINE back   == [g \in Flows |-> IF \E a \in taken : a[1] = g /\ i \in a[2]
                                        THEN terms[g].pays[i] ELSE 0]
           new    == [g \in Flows |-> IF g = f THEN locked ELSE 0]
           before == Held(p, i)  after == Held(p, i)'
<1>7. \A g \in Flows : LockedIn(g, i) \in Nat /\ LockedIn(g, i)' \in Nat
                       /\ terms[g].pays[i] \in Nat
  BY <1>1, TermsTyped DEF LockedIn
<1>8. ASSUME NEW g \in Flows
      PROVE  LockedIn(g, i)' + back[g] = LockedIn(g, i) + new[g]
  <2>1. authored'[g] = IF g = f THEN Left(g, taken) \cup {spec} ELSE Left(g, taken)
    BY <1>2
  <2>2. terms'[g] = terms[g]
    BY <1>1
  <2>3. g = f /\ i \in spec => ~ \E x \in authored[g] : i \in x
    <3> SUFFICES ASSUME i \in spec, NEW x \in authored[f], i \in x
                 PROVE  FALSE
      OBVIOUS
    <3>1. x \in Specs(t) /\ spec \in Specs(t) /\ x # spec
      BY <1>1, <1>3
    <3> HIDE DEF t
    <3> QED
      BY <1>3, <3>1, SpecsCover
  <2>4. (\E a \in taken : a[1] = g /\ i \in a[2])
          <=> \E x \in authored[g] : i \in x /\ <<g, x>> \in taken
    BY <1>4
  <2>5. (\E x \in authored[g] : i \in x /\ <<g, x>> \in taken)
          => ~ \E x \in Left(g, taken) : i \in x
    BY <1>5 DEF Left
  <2>6. ~(\E x \in authored[g] : i \in x /\ <<g, x>> \in taken)
          => ((\E x \in Left(g, taken) : i \in x) <=> \E x \in authored[g] : i \in x)
    BY DEF Left
  <2>7. \A x \in Left(g, taken) : x \in authored[g]
    BY DEF Left
  <2>8. new[g] = IF g = f /\ i \in spec THEN terms[g].pays[i] ELSE 0
    BY DEF Locks
  <2>9. back[g] = IF \E x \in authored[g] : i \in x /\ <<g, x>> \in taken
                    THEN terms[g].pays[i] ELSE 0
    BY <2>4
  <2> DEFINE L == \E x \in Left(g, taken) : i \in x
             A == \E x \in authored[g] : i \in x
             T == \E x \in authored[g] : i \in x /\ <<g, x>> \in taken
             N == g = f /\ i \in spec
             n == terms[g].pays[i]
  <2>10. /\ LockedIn(g, i) = (IF A THEN n ELSE 0)
         /\ LockedIn(g, i)' = (IF L \/ N THEN n ELSE 0)
         /\ back[g] = (IF T THEN n ELSE 0) /\ new[g] = (IF N THEN n ELSE 0)
    BY <2>1, <2>2, <2>8, <2>9 DEF LockedIn
  <2>11. /\ T => ~L /\ A
         /\ ~T => (L <=> A)
         /\ N => ~A
         /\ L => A
         /\ n \in Nat
    BY <1>7, <2>3, <2>5, <2>6, <2>7
  <2> HIDE DEF L, A, T, N, n, back, new
  <2> QED
    BY <2>10, <2>11
<1>9. Retaken(taken, i) = Sum(back)
  BY DEF Retaken
<1>10. /\ before \in [Flows -> Nat] /\ after \in [Flows -> Nat]
       /\ back \in [Flows -> Nat] /\ new \in [Flows -> Nat] /\ IsFiniteSet(Flows)
       /\ \A g \in Flows :
            /\ before[g] = IF terms[g].party = p THEN LockedIn(g, i) ELSE 0
            /\ after[g] = IF terms[g].party = p THEN LockedIn(g, i)' ELSE 0
  BY <1>1, <1>6, <1>7, PoolAssumption DEF Held
<1>11. \A g \in Flows : terms[g].party # t.party => back[g] = 0 /\ new[g] = 0
  BY <1>4
<1>12. Sum(new) = locked
  <2> HIDE DEF locked
  <2> QED
    BY <1>6, <1>10, SumSingle
<1>13. /\ Wealth(p, i) = free[p][i] + Sum(before) /\ Sum(before) \in Nat
       /\ Wealth(p, i)' = free'[p][i] + Sum(after)
  BY <1>1, WealthType, HeldType DEF Wealth, Held
<1>14. free[p][i] \in Nat
  BY <1>6
<1>15. free'[p][i] = IF p = t.party THEN free[p][i] + Retaken(taken, i) - locked ELSE free[p][i]
  <2> DEFINE row == [j \in Instruments |->
                      free[t.party][j] + Retaken(taken, j) - Locks(t, spec, j)]
  <2>1. free' = [free EXCEPT ![t.party] = row] /\ row[i] = free[t.party][i] + Retaken(taken, i) - locked
    BY <1>2
  <2> HIDE DEF row, t, locked
  <2> QED
    BY <1>6, <2>1
<1> HIDE DEF back, new, before, after, t, locked
<1>16. CASE p = t.party
  <2>1. \A g \in Flows : after[g] + back[g] = before[g] + new[g]
    <3> TAKE g \in Flows
    <3>1. CASE terms[g].party = p
      BY <1>8, <1>10, <3>1
    <3>2. CASE terms[g].party # p
      BY <1>10, <1>11, <1>16, <3>2
    <3> QED
      BY <3>1, <3>2
  <2>2. Plus(after, back) = Plus(before, new)
    BY <1>10, <2>1 DEF Plus
  <2>3. Sum(Plus(after, back)) = Sum(after) + Sum(back)
    BY <1>10, SumPlus
  <2>4. Sum(Plus(before, new)) = Sum(before) + Sum(new)
    BY <1>10, SumPlus
  <2>5. Sum(after) \in Nat /\ Sum(back) \in Nat
    BY <1>10, SumNat
  <2>6. Sum(after) + Retaken(taken, i) = Sum(before) + locked
    BY <1>9, <1>12, <2>2, <2>3, <2>4
  <2> QED
    BY <1>6, <1>13, <1>14, <1>15, <1>16, <2>5, <2>6, <1>9
<1>17. CASE p # t.party
  <2>1. \A g \in Flows : after[g] = before[g]
    <3> TAKE g \in Flows
    <3>1. CASE terms[g].party = p
      BY <1>7, <1>8, <1>10, <1>11, <1>17, <3>1
    <3>2. CASE terms[g].party # p
      BY <1>10, <3>2
    <3> QED
      BY <3>1, <3>2
  <2>2. after = before
    BY <1>10, <2>1
  <2> QED
    BY <1>13, <1>15, <1>17, <2>2
<1> QED
  BY <1>16, <1>17

(* What an account holds does not depend on the pool, and a new request    *)
(* has no allocations yet.                                                 *)
LEMMA SameWealth ==
  ASSUME Inv, Orderly, free' = free, authored' = authored,
         terms' = terms \/ \E f \in Flows : \E t : Post(f, t),
         NEW p \in Accounts, NEW i \in Instruments
  PROVE  Wealth(p, i)' = Wealth(p, i)
<1>1. ASSUME NEW g \in Flows
      PROVE  (IF terms'[g].party = p THEN LockedIn(g, i)' ELSE 0)
               = IF terms[g].party = p THEN LockedIn(g, i) ELSE 0
  <2>1. CASE terms'[g] = terms[g]
    BY <2>1 DEF LockedIn
  <2>2. CASE terms'[g] # terms[g]
    <3>1. PICK f \in Flows : \E t : Post(f, t)
      BY <2>2
    <3>2. PICK t : Post(f, t)
      BY <3>1
    <3>3. request[f] = "none" /\ terms' = [terms EXCEPT ![f] = t]
      BY <3>2 DEF Post
    <3>4. g = f
      BY <2>2, <3>3 DEF Inv, TypeOK
    <3>5. authored[g] = {}
      BY <3>3, <3>4 DEF Orderly, Specs, NoTerms
    <3> QED
      BY <3>5 DEF LockedIn
  <2> QED
    BY <2>1, <2>2
<1>2. [g \in Flows |-> IF terms'[g].party = p THEN LockedIn(g, i)' ELSE 0]
        = [g \in Flows |-> IF terms[g].party = p THEN LockedIn(g, i) ELSE 0]
  BY <1>1
<1> QED
  BY <1>2 DEF Wealth

-----------------------------------------------------------------------------
(* The legs of a draw pay what is drawn, and empty legs pay nothing. *)
LEMMA LegsPay ==
  ASSUME NEW held \in [Slots -> Nat], NEW amount \in Nat, NEW o \in Draws(held, amount)
  PROVE  Sum(LegAmounts(held, o, amount)) = amount /\ amount > 0
<1> DEFINE d == Drawn(held, o, amount)
<1>1. d \in [Slots -> Nat] /\ Sum(d) = amount
  BY DrawTakesAmount
<1>2. o \in Orders /\ CanDraw(held, o, amount)
  BY DEF Draws
<1>3. IsFiniteSet(Slots) /\ Cardinality(Slots) \in Nat
  BY PoolAssumption, FS_CardinalityType
<1>4. PICK n \in 1 .. Cardinality(Slots) : o \in [1 .. n -> Slots]
  BY <1>2 DEF Orders
<1>5. n \in Nat /\ n >= 1 /\ Len(o) = n /\ DOMAIN o = 1 .. n
  BY <1>3, <1>4
<1>6. \A i, j \in 1 .. n : o[i] = o[j] => i = j
  BY <1>2, <1>5 DEF Orders
<1>7. \A x \in Slots : d[x] # 0 => \E i \in 1 .. n : o[i] = x
  <2>1. LastOf(o) = o[n]
    BY <1>5 DEF LastOf
  <2>2. n \in 1 .. n
    BY <1>5
  <2> QED
    BY <1>5, <2>1, <2>2 DEF Drawn, FullyConsumed
<1>8. LegAmounts(held, o, amount) = [i \in 1 .. n |-> d[o[i]]]
  BY <1>5 DEF LegAmounts
<1>9. amount > 0
  <2>1. FullyConsumed(held, o) \in [Slots -> Nat]
    BY DEF FullyConsumed
  <2>2. Sum(FullyConsumed(held, o)) \in Nat
    BY <1>3, <2>1, SumNat
  <2> QED
    BY <1>2, <2>2 DEF CanDraw, Rest
<1> DEFINE T == 1 .. n
<1> HIDE DEF d
<1>10. Sum([i \in T |-> d[o[i]]]) = Sum(d)
  <2>1. o \in [T -> Slots]
    BY <1>4
  <2>2. /\ \A i, j \in T : o[i] = o[j] => i = j
        /\ \A x \in Slots : d[x] # 0 => \E i \in T : o[i] = x
    BY <1>6, <1>7
  <2> HIDE DEF T
  <2> QED
    BY <1>1, <1>3, <2>1, <2>2, SumReindex
<1> QED
  BY <1>1, <1>8, <1>9, <1>10

LEMMA NoLegsPay == Sum(<<>>) = 0
<1>1. Coins(<<>>) = {}
  BY DEF Coins
<1> QED
  BY <1>1, FS_EmptySet DEF Sum

LEMMA OneLegPays ==
  ASSUME NEW legs \in Seq(Nat), Len(legs) = 1
  PROVE  Sum(legs) = legs[1] /\ legs[1] \in Nat
<1> DEFINE n == legs[1]
<1>1. legs = [x \in {1} |-> IF x = 1 THEN n ELSE 0] /\ n \in Nat
  BY SMTT(30)
<1> HIDE DEF n
<1>2. Sum([x \in {1} |-> IF x = 1 THEN n ELSE 0]) = n
  <2>1. IsFiniteSet({1}) /\ 1 \in {1}
    BY FS_Singleton
  <2> QED
    BY ZenonT(30), <1>1, <2>1, SumSingle
<1>3. Sum(legs) = n
  BY <1>1, <1>2
<1> QED
  BY <1>1, <1>3 DEF n

(* What the allocations of a side back after a draw: what is drawn has left *)
(* the pool, and the surplus has gone back to the operator.                 *)
LEMMA DrawnBacking ==
  ASSUME TypeOK, NEW s \in Sides, NEW amount \in Nat, NEW o \in Draws(slices[s], amount),
         DrawCovered(s, Drawn(slices[s], o, amount))
  PROVE  LET drawn == Drawn(slices[s], o, amount)
         IN  Sum(AfterDraw(s, drawn)) + Surplus(s, drawn) = Sum(backing[s]) - amount
<1> DEFINE drawn == Drawn(slices[s], o, amount)
           lock  == AfterDraw(s, drawn)
           extra == [slot \in Slots |->
                       IF drawn[slot] > 0 THEN backing[s][slot] - slices[s][slot] ELSE 0]
           back  == backing[s]
           kept  == Plus(lock, extra)
<1>1. /\ slices[s] \in [Slots -> Nat] /\ back \in [Slots -> Nat] /\ IsFiniteSet(Slots)
  BY PoolAssumption DEF TypeOK
<1>2. /\ drawn \in [Slots -> Nat]
      /\ \A slot \in Slots : drawn[slot] <= slices[s][slot]
      /\ Sum(drawn) = amount
  <2> HIDE DEF drawn
  <2> QED
    BY <1>1, DrawTakesAmount DEF drawn
<1>3. \A slot \in Slots : drawn[slot] > 0 =>
         drawn[slot] + (slices[s][slot] - drawn[slot]) <= back[slot] + 0
  BY DEF DrawCovered, Covers
<1>4. /\ lock = [slot \in Slots |-> IF drawn[slot] > 0
                    THEN slices[s][slot] - drawn[slot] ELSE back[slot]]
      /\ Surplus(s, drawn) = Sum(extra)
  BY DEF AfterDraw, Surplus
<1> HIDE DEF drawn
<1>5. lock \in [Slots -> Nat]
  BY <1>1, <1>2, <1>4
<1>6. extra \in [Slots -> Nat]
  BY <1>1, <1>2, <1>3
<1>7. \A slot \in Slots : lock[slot] + extra[slot] + drawn[slot] = back[slot]
  BY <1>1, <1>2, <1>3, <1>4
<1> HIDE DEF back, lock, extra
<1>8. kept \in [Slots -> Nat] /\ Sum(kept) = Sum(lock) + Sum(extra)
      /\ \A slot \in Slots : kept[slot] = lock[slot] + extra[slot]
  <2>1. \A slot \in Slots : kept[slot] = lock[slot] + extra[slot]
    BY <1>5 DEF Plus
  <2> HIDE DEF kept
  <2> QED
    BY <1>1, <1>5, <1>6, <2>1, SumPlus DEF kept
<1> HIDE DEF kept
<1>9. Sum(Plus(kept, drawn)) = Sum(kept) + Sum(drawn)
  BY <1>1, <1>2, <1>8, SumPlus
<1>10. Plus(kept, drawn) = back
  <2>1. Plus(kept, drawn) = [x \in Slots |-> kept[x] + drawn[x]]
    BY <1>8 DEF Plus
  <2>2. \A x \in Slots : kept[x] + drawn[x] = back[x]
    BY <1>7, <1>8
  <2> QED
    BY <1>1, <2>1, <2>2
<1>11. Sum(lock) \in Nat /\ Sum(extra) \in Nat /\ Sum(drawn) \in Nat /\ Sum(back) \in Nat
  BY <1>1, <1>2, <1>5, <1>6, SumNat
<1>12. Sum(lock) + Sum(extra) = Sum(back) - amount
  BY <1>2, <1>8, <1>9, <1>10, <1>11
<1> QED
  BY <1>4, <1>12 DEF lock, back, drawn

(***************************************************************************)
(* A settlement of t from outside: the party pays its terms and gains, the *)
(* operator gets back what the slices no longer back, the slices hold what *)
(* was paid less what was gained, and the LP supply follows the LP tokens. *)
(***************************************************************************)
Settles(t, src, gain, back) ==
  /\ gain \in [Instruments -> Nat] /\ back \in [Instruments -> Nat]
  /\ back["lp"] = 0
  /\ t \in Terms /\ Shaped(t) /\ t.kind # "none"
  /\ src \in Supplies(t) /\ authored' = Consumed(src) /\ terms' = terms
  /\ \A p \in Accounts, i \in Instruments :
       free'[p][i] = free[p][i] + (IF p = t.party THEN gain[i]
                                   ELSE IF p = Operator THEN back[i] ELSE 0)
  /\ \A i \in Instruments :
       IF t.kind = "add" /\ i # "lp" THEN gain[i] <= t.pays[i]
                                     ELSE gain[i] = Sum(t.gets[i])
  /\ \A s \in Sides :
       /\ Sum(slices'[s]) = Sum(slices[s]) + t.pays[s] - gain[s]
       /\ Sum(backing'[s]) + back[s] = Sum(backing[s]) + t.pays[s] - gain[s]
  /\ pool'.supply = pool.supply + gain["lp"] - t.pays["lp"]
  /\ policy'.supply = policy.supply + gain["lp"] - t.pays["lp"]

(* Crediting a party and the operator. *)
LEMMA TwoCredits ==
  ASSUME TypeOK, NEW party \in Accounts, party # Operator,
         NEW gain \in [Instruments -> Nat], NEW back \in [Instruments -> Nat],
         free' = [free EXCEPT ![party] = Credit(party, gain),
                              ![Operator] = Credit(Operator, back)]
  PROVE  \A p \in Accounts, i \in Instruments :
           free'[p][i] = free[p][i] + (IF p = party THEN gain[i]
                                       ELSE IF p = Operator THEN back[i] ELSE 0)
<1> DEFINE paid == Credit(party, gain)  kept == Credit(Operator, back)
<1>1. free \in [Accounts -> [Instruments -> Nat]] /\ Operator \in Accounts
  BY DEF TypeOK, Accounts
<1>2. free' = [free EXCEPT ![party] = paid, ![Operator] = kept]
  OBVIOUS
<1>3. \A i \in Instruments : /\ paid[i] = free[party][i] + gain[i]
                             /\ kept[i] = free[Operator][i] + back[i]
  BY DEF Credit
<1> HIDE DEF paid, kept
<1>4. SUFFICES ASSUME NEW p \in Accounts, NEW i \in Instruments
               PROVE  free'[p][i] = free[p][i] + (IF p = party THEN gain[i]
                                     ELSE IF p = Operator THEN back[i] ELSE 0)
  OBVIOUS
<1>5. free'[p] = IF p = party THEN paid ELSE IF p = Operator THEN kept ELSE free[p]
  BY <1>1, <1>2
<1>6. free[p][i] \in Nat
  BY <1>1
<1>7. CASE p = party
  BY <1>3, <1>5, <1>7
<1>8. CASE p # party /\ p = Operator
  BY <1>3, <1>5, <1>8
<1>9. CASE p # party /\ p # Operator
  BY <1>5, <1>6, <1>9
<1> QED
  BY <1>7, <1>8, <1>9

(* PoolRules_Swap: the input goes to one slice, the authorised legs are paid. *)
LEMMA SwapSettles ==
  ASSUME Inv, Orderly, NEW side \in Sides, NEW t \in SwapsOf(side), NEW src \in Supplies(t),
         NEW closed, SettleSwap(t, side, src, closed)
  PROVE  \E gain, back : Settles(t, src, gain, back)
<1> DEFINE o   == Opposite(side)
           in  == t.pays[side]
           out == AmountOut(side, in)
<1>1. TypeOK /\ ReservesBacked /\ SliceBacked
  BY DEF Inv
<1>2. /\ t.kind = "swap" /\ in > 0 /\ pool.status = "Active"
      /\ pool' = [pool EXCEPT !.reserve = [s \in Sides |->
                     IF s = side THEN pool.reserve[s] + in ELSE pool.reserve[s] - out]]
      /\ authored' = Consumed(src) /\ policy' = policy /\ terms' = terms
  BY DEF SettleSwap
<1>3. /\ t.party \in Accounts /\ t.pays \in [Instruments -> Nat]
      /\ t.gets \in [Instruments -> Seq(Nat)] /\ Shaped(t) /\ t \in Terms
  <2>1. t \in Terms
    BY <1>1, SwapOfType
  <2> QED
    BY <2>1, SwapDealShaped DEF Terms
<1>4. /\ o \in Sides /\ o # side /\ side \in Instruments /\ o \in Instruments
      /\ side # "lp" /\ o # "lp" /\ "lp" \in Instruments
      /\ \A s \in Sides : s = side \/ s = o
      /\ \A i \in Instruments : i = side \/ i = o \/ i = "lp"
  BY SidesFacts DEF Instruments
<1>5. /\ t.pays = Only(side, in, 0) /\ t.gets[side] = <<>> /\ t.gets["lp"] = <<>>
      /\ t.pays[o] = 0 /\ t.pays["lp"] = 0 /\ in \in Nat /\ t.party # Operator
  <2>1. PICK s \in Sides : /\ t.pays = Only(s, t.pays[s], 0)
                           /\ t.gets[s] = <<>> /\ t.gets["lp"] = <<>>
    BY <1>2, <1>3 DEF Shaped
  <2>2. t.pays[side] = IF side = s THEN t.pays[s] ELSE 0
    BY <1>4, <2>1 DEF Only
  <2>3. s = side
    BY <1>2, <2>2
  <2>4. t.pays[o] = 0 /\ t.pays["lp"] = 0
    BY <1>4, <2>1, <2>3 DEF Only
  <2> QED
    BY <1>2, <1>3, <1>4, <2>1, <2>3, <2>4, PoolAssumption DEF Shaped
<1>6. out \in Nat
  <2> HIDE DEF o, in
  <2> QED
    BY <1>2, <1>5, TradeOutput
<1>7. PICK slot \in Slots, order \in Draws(slices[o], out) :
         LET drawn == Drawn(slices[o], order, out)
         IN  /\ slices[side][slot] > 0
             /\ Authorised(t, o, LegAmounts(slices[o], order, out))
             /\ Covers(backing[side][slot], in, 0, slices[side][slot] + in)
             /\ DrawCovered(o, drawn)
             /\ slices' = [slices EXCEPT ![side][slot] = @ + in,
                                         ![o] = Minus(slices[o], drawn)]
             /\ backing' = [backing EXCEPT ![side][slot] = slices[side][slot] + in,
                                           ![o] = AfterDraw(o, drawn)]
             /\ free' = [free EXCEPT
                           ![t.party] = Credit(t.party, Only(o, out, 0)),
                           ![Operator] = Credit(Operator, [i \in Instruments |->
                             CASE i = side -> backing[side][slot] - slices[side][slot]
                               [] i = o    -> Surplus(o, drawn)
                               [] OTHER    -> 0])]
  BY DEF SettleSwap
<1> DEFINE drawn == Drawn(slices[o], order, out)
           next  == Minus(slices[o], drawn)
           lock  == AfterDraw(o, drawn)
           gain  == Only(o, out, 0)
           back  == [i \in Instruments |->
                       CASE i = side -> backing[side][slot] - slices[side][slot]
                         [] i = o    -> Surplus(o, drawn)
                         [] OTHER    -> 0]
<1>8. /\ slices \in [Sides -> [Slots -> Nat]] /\ backing \in [Sides -> [Slots -> Nat]]
      /\ slices[side] \in [Slots -> Nat] /\ backing[side] \in [Slots -> Nat]
      /\ slices[o] \in [Slots -> Nat] /\ backing[o] \in [Slots -> Nat]
      /\ IsFiniteSet(Slots)
  BY <1>1, <1>4, PoolAssumption DEF TypeOK
<1>9. /\ next \in [Slots -> Nat] /\ lock \in [Slots -> Nat]
      /\ Sum(next) = Sum(slices[o]) - out
      /\ Surplus(o, drawn) \in Nat
      /\ Sum(lock) + Surplus(o, drawn) = Sum(backing[o]) - out
      /\ Sum(t.gets[o]) = out
  <2>1. DrawCovered(o, drawn) /\ t.gets[o] = LegAmounts(slices[o], order, out)
    BY <1>7 DEF Authorised
  <2>2. Sum(slices[o]) = pool.reserve[o]
    BY <1>1, <1>4 DEF ReservesBacked
  <2> HIDE DEF o, out
  <2> QED
    BY <1>1, <1>4, <1>6, <1>8, <2>1, <2>2, DrawFromSide, DrawnBacking, LegsPay
<1>10. backing[side][slot] - slices[side][slot] \in Nat
  <2>1. slices[side][slot] + in <= backing[side][slot] + in
    BY <1>5, <1>7, <1>8 DEF Covers
  <2> HIDE DEF in
  <2> QED
    BY <1>5, <1>8, <2>1
<1>11. /\ slices' = Updated(slices, side, slot, slices[side][slot] + in, next)
       /\ backing' = Updated(backing, side, slot, slices[side][slot] + in, lock)
       /\ free' = [free EXCEPT ![t.party] = Credit(t.party, gain),
                               ![Operator] = Credit(Operator, back)]
  BY <1>7, <1>8 DEF Updated
<1> HIDE DEF drawn, next, lock
<1>12. /\ gain \in [Instruments -> Nat] /\ back \in [Instruments -> Nat]
       /\ gain[side] = 0 /\ gain[o] = out /\ gain["lp"] = 0
       /\ back[side] = backing[side][slot] - slices[side][slot]
       /\ back[o] = Surplus(o, drawn) /\ back["lp"] = 0
  <2> HIDE DEF o, out
  <2> QED
    BY <1>4, <1>6, <1>9, <1>10 DEF Only
<1> HIDE DEF o, out, in, gain, back
<1>13. /\ Sum(slices'[o]) = Sum(slices[o]) - out
       /\ Sum(backing'[o]) = Sum(lock)
       /\ Sum(slices'[side]) = Sum(slices[side]) + in
       /\ Sum(backing'[side]) =
            Sum(backing[side]) - backing[side][slot] + slices[side][slot] + in
  <2> DEFINE v == slices[side][slot] + in
             s0 == slices[side]  s1 == slices'[side]
             b0 == backing[side] b1 == backing'[side]
  <2>1. v \in Nat
    BY <1>5, <1>8
  <2>2. /\ s1 \in [Slots -> Nat] /\ s1[slot] = v /\ slices'[o] = next
        /\ \A x \in Slots : x # slot => s1[x] = s0[x]
        /\ b1 \in [Slots -> Nat] /\ b1[slot] = v /\ backing'[o] = lock
        /\ \A x \in Slots : x # slot => b1[x] = b0[x]
    <3> HIDE DEF v
    <3>1. /\ slices' = Updated(slices, side, slot, v, next)
          /\ backing' = Updated(backing, side, slot, v, lock)
      BY <1>11 DEF v
    <3>2. /\ slices'[side] \in [Slots -> Nat] /\ slices'[side][slot] = v
          /\ slices'[Opposite(side)] = next
          /\ \A x \in Slots : x # slot => slices'[side][x] = slices[side][x]
      <4>1. slices \in [Sides -> [Slots -> Nat]] /\ next \in [Slots -> Nat]
            /\ slices' = Updated(slices, side, slot, v, next)
        BY <1>8, <1>9, <3>1
      <4> QED
        BY <2>1, <4>1, UpdateBothSides
    <3>3. /\ backing'[side] \in [Slots -> Nat] /\ backing'[side][slot] = v
          /\ backing'[Opposite(side)] = lock
          /\ \A x \in Slots : x # slot => backing'[side][x] = backing[side][x]
      <4>1. backing \in [Sides -> [Slots -> Nat]] /\ lock \in [Slots -> Nat]
            /\ backing' = Updated(backing, side, slot, v, lock)
        BY <1>8, <1>9, <3>1
      <4> QED
        BY <2>1, <4>1, UpdateBothSides
    <3> QED
      BY <3>2, <3>3 DEF o
  <2>3. s0 \in [Slots -> Nat] /\ b0 \in [Slots -> Nat]
    BY <1>8
  <2> HIDE DEF s0, s1, b0, b1, v
  <2>4. Sum(s1) = Sum(s0) - s0[slot] + s1[slot] /\ Sum(s0) \in Nat /\ s0[slot] \in Nat
    BY <1>8, <2>2, <2>3, SumUpdate, SumNat
  <2>5. Sum(b1) = Sum(b0) - b0[slot] + b1[slot] /\ Sum(b0) \in Nat /\ b0[slot] \in Nat
    BY <1>8, <2>2, <2>3, SumUpdate, SumNat
  <2>6. Sum(s1) = Sum(s0) + in /\ Sum(b1) = Sum(b0) - b0[slot] + s0[slot] + in
    BY <1>5, <2>2, <2>4, <2>5 DEF v, s0
  <2> QED
    BY <1>9, <2>2, <2>6 DEF s0, s1, b0, b1
<1>14. /\ Sum(slices[side]) \in Nat /\ Sum(slices[o]) \in Nat
       /\ Sum(backing[side]) \in Nat /\ Sum(backing[o]) \in Nat /\ Sum(lock) \in Nat
       /\ slices[side][slot] \in Nat /\ backing[side][slot] \in Nat
  BY <1>8, <1>9, SumNat
<1>15. \A s \in Sides :
         /\ Sum(slices'[s]) = Sum(slices[s]) + t.pays[s] - gain[s]
         /\ Sum(backing'[s]) + back[s] = Sum(backing[s]) + t.pays[s] - gain[s]
  <2>1. /\ Sum(slices'[side]) = Sum(slices[side]) + t.pays[side] - gain[side]
        /\ Sum(backing'[side]) + back[side] = Sum(backing[side]) + t.pays[side] - gain[side]
    <3>1. t.pays[side] = in /\ in \in Nat
      BY <1>5 DEF in
    <3>2. gain[side] = 0 /\ back[side] = backing[side][slot] - slices[side][slot]
      BY <1>12
    <3> QED
      BY <1>13, <1>14, <3>1, <3>2
  <2>2. /\ Sum(slices'[o]) = Sum(slices[o]) + t.pays[o] - gain[o]
        /\ Sum(backing'[o]) + back[o] = Sum(backing[o]) + t.pays[o] - gain[o]
    <3>1. t.pays[o] = 0 /\ gain[o] = out /\ out \in Nat /\ back[o] = Surplus(o, drawn)
      BY <1>5, <1>6, <1>12
    <3>2. Surplus(o, drawn) \in Nat /\ Sum(lock) + Surplus(o, drawn) = Sum(backing[o]) - out
      BY <1>9
    <3> QED
      BY <1>13, <1>14, <3>1, <3>2
  <2> QED
    BY <1>4, <2>1, <2>2
<1>16. \A p \in Accounts, i \in Instruments :
         free'[p][i] = free[p][i] + (IF p = t.party THEN gain[i]
                                     ELSE IF p = Operator THEN back[i] ELSE 0)
  <2>1. t.party \in Accounts /\ t.party # Operator
    BY <1>3, <1>5
  <2> QED
    BY ZenonT(30), <1>1, <1>11, <1>12, <2>1, TwoCredits
<1>17. \A i \in Instruments : gain[i] = Sum(t.gets[i])
  BY <1>4, <1>5, <1>9, <1>12, NoLegsPay
<1>18. /\ pool'.supply = pool.supply + gain["lp"] - t.pays["lp"]
       /\ policy'.supply = policy.supply + gain["lp"] - t.pays["lp"]
  <2>1. pool.supply \in Nat /\ policy.supply \in Nat /\ pool'.supply = pool.supply
    BY <1>1, <1>2 DEF TypeOK
  <2> QED
    BY <1>2, <1>5, <1>12, <2>1
<1>19. Settles(t, src, gain, back)
  BY <1>2, <1>3, <1>12, <1>15, <1>16, <1>17, <1>18 DEF Settles
<1> QED
  BY <1>19

(* PoolLiquidityRules_SettleAddLiquidity: the offer is refunded but for what *)
(* the two new slices hold, and the LP tokens of the one leg are minted.     *)
LEMMA AddSettles ==
  ASSUME Inv, Orderly, NEW f \in Flows, NEW src \in Supplies(terms[f]),
         NEW slot \in [Sides -> Slots], SettleAdd(f, src, slot)
  PROVE  \E gain, back : Settles(terms[f], src, gain, back)
<1> DEFINE t     == terms[f]
           offer == [s \in Sides |-> t.pays[s]]
           lp    == t.gets["lp"][1]
           used  == Used(offer)
           gain  == [i \in Instruments |-> IF i = "lp" THEN lp ELSE offer[i] - used[i]]
<1>1. TypeOK
  BY DEF Inv
<1>2. /\ t.kind = "add" /\ Priceable(offer)
      /\ \A s \in Sides : slices[s][slot[s]] = 0
      /\ slices' = [s \in Sides |-> [slices[s] EXCEPT ![slot[s]] = used[s]]]
      /\ backing' = [s \in Sides |-> [backing[s] EXCEPT ![slot[s]] = used[s]]]
      /\ pool'.supply = pool.supply + lp
      /\ policy' = [policy EXCEPT !.supply = @ + lp]
      /\ free' = [free EXCEPT ![t.party] = Credit(t.party, gain)]
      /\ authored' = Consumed(src) /\ terms' = terms
  BY DEF SettleAdd
<1>3. /\ t.party \in Accounts /\ t.pays \in [Instruments -> Nat]
      /\ t.gets \in [Instruments -> Seq(Nat)] /\ Shaped(t) /\ t \in Terms
  BY <1>1, TermsTyped DEF Orderly
<1>4. /\ "lp" \in Instruments /\ \A s \in Sides : s \in Instruments /\ s # "lp"
      /\ \A i \in Instruments : i = "lp" \/ i \in Sides
  BY SidesFacts DEF Instruments
<1>5. lp \in Nat /\ Sum(t.gets["lp"]) = lp
  <2>1. t.gets["lp"] \in Seq(Nat) /\ Len(t.gets["lp"]) = 1
    BY <1>1, <1>2, <1>3, <1>4 DEF TypeOK
  <2> HIDE DEF t
  <2> QED
    BY <2>1, OneLegPays
<1>6. t.pays["lp"] = 0 /\ t.party # Operator /\ \A s \in Sides : t.pays[s] \in Nat
  BY <1>2, <1>3, <1>4, PoolAssumption DEF Shaped
<1>7. offer \in [Sides -> Nat] /\ \A s \in Sides : offer[s] = t.pays[s]
  BY <1>6
<1>8. \A s \in Sides : used[s] \in Nat /\ used[s] <= offer[s]
  <2> HIDE DEF offer
  <2> QED
    BY <1>2, <1>7, UsedType
<1> HIDE DEF offer, used, lp, t
<1>9. /\ gain \in [Instruments -> Nat] /\ gain["lp"] = lp
      /\ \A s \in Sides : gain[s] = t.pays[s] - used[s]
  BY <1>4, <1>5, <1>6, <1>7, <1>8
<1> HIDE DEF gain
<1>10. ASSUME NEW s \in Sides
       PROVE  /\ Sum(slices'[s]) = Sum(slices[s]) + t.pays[s] - gain[s]
              /\ Sum(backing'[s]) + Nothing[s] = Sum(backing[s]) + t.pays[s] - gain[s]
  <2> DEFINE here == slot[s]
             s0 == slices[s]  s1 == slices'[s]
             b0 == backing[s] b1 == backing'[s]
  <2>1. /\ s0 \in [Slots -> Nat] /\ b0 \in [Slots -> Nat] /\ here \in Slots
        /\ IsFiniteSet(Slots)
    BY <1>1, PoolAssumption DEF TypeOK
  <2>2. /\ s1 = [s0 EXCEPT ![here] = used[s]] /\ b1 = [b0 EXCEPT ![here] = used[s]]
    BY <1>2
  <2>3. s0[here] = 0 /\ b0[here] = 0
    BY <1>2, <2>1 DEF Inv, SliceBacked
  <2> HIDE DEF here, s0, s1, b0, b1
  <2>4. /\ s1 \in [Slots -> Nat] /\ s1[here] = used[s]
        /\ b1 \in [Slots -> Nat] /\ b1[here] = used[s]
        /\ \A x \in Slots : x # here => s1[x] = s0[x] /\ b1[x] = b0[x]
    BY <1>8, <2>1, <2>2
  <2>5. Sum(s1) = Sum(s0) - s0[here] + s1[here] /\ Sum(b1) = Sum(b0) - b0[here] + b1[here]
    BY <2>1, <2>4, SumUpdate
  <2>6. Sum(s0) \in Nat /\ Sum(b0) \in Nat
    BY <2>1, SumNat
  <2>7. /\ t.pays[s] \in Nat /\ used[s] \in Nat /\ gain[s] = t.pays[s] - used[s]
        /\ Nothing[s] = 0
    BY <1>4, <1>6, <1>8, <1>9 DEF Nothing
  <2>8. Sum(s1) = Sum(s0) + used[s] /\ Sum(b1) = Sum(b0) + used[s]
    BY <2>3, <2>4, <2>5, <2>6, <2>7
  <2>9. /\ Sum(s1) = Sum(s0) + t.pays[s] - gain[s]
        /\ Sum(b1) + Nothing[s] = Sum(b0) + t.pays[s] - gain[s]
    BY <2>6, <2>7, <2>8
  <2> QED
    BY <2>9 DEF s0, s1, b0, b1
<1>11. \A p \in Accounts, i \in Instruments :
         free'[p][i] = free[p][i] + (IF p = t.party THEN gain[i]
                                     ELSE IF p = Operator THEN Nothing[i] ELSE 0)
  <2> DEFINE party == t.party  paid == Credit(party, gain)
  <2>1. free \in [Accounts -> [Instruments -> Nat]] /\ party \in Accounts
    BY <1>1, <1>3 DEF TypeOK
  <2>2. free' = [free EXCEPT ![party] = paid]
    BY <1>2
  <2>3. \A i \in Instruments : paid[i] = free[party][i] + gain[i] /\ Nothing[i] = 0
    BY DEF Credit, Nothing
  <2>4. \A p \in Accounts, i \in Instruments : free[p][i] \in Nat
    BY <2>1
  <2> HIDE DEF party, paid
  <2>5. \A p \in Accounts : free'[p] = IF p = party THEN paid ELSE free[p]
    BY <2>1, <2>2
  <2> QED
    BY <2>3, <2>4, <2>5 DEF party
<1>12. \A i \in Instruments : IF t.kind = "add" /\ i # "lp" THEN gain[i] <= t.pays[i]
                                                            ELSE gain[i] = Sum(t.gets[i])
  BY <1>2, <1>4, <1>5, <1>6, <1>8, <1>9 DEF t
<1>13. /\ pool'.supply = pool.supply + gain["lp"] - t.pays["lp"]
       /\ policy'.supply = policy.supply + gain["lp"] - t.pays["lp"]
  <2>1. pool.supply \in Nat /\ policy \in [supply : Nat, active : BOOLEAN]
    BY <1>1 DEF TypeOK
  <2>2. policy'.supply = policy.supply + lp
    BY <1>2, <2>1
  <2> QED
    BY <1>2, <1>5, <1>6, <1>9, <2>1, <2>2
<1>14. Nothing \in [Instruments -> Nat] /\ Nothing["lp"] = 0 /\ t.kind # "none"
  BY <1>2, <1>4 DEF Nothing, t
<1>15. Settles(t, src, gain, Nothing)
  BY <1>2, <1>3, <1>9, <1>10, <1>11, <1>12, <1>13, <1>14 DEF Settles, t
<1> QED
  BY <1>15 DEF t

(* PoolLiquidityRules_SettleRemoveLiquidity: the LP tokens are burnt and     *)
(* the authorised legs paid.                                                 *)
LEMMA RemoveSettles ==
  ASSUME Inv, Orderly, NEW f \in Flows, NEW src \in Supplies(terms[f]), SettleRemove(f, src)
  PROVE  \E gain, back : Settles(terms[f], src, gain, back)
<1> DEFINE t    == terms[f]
           lp   == t.pays["lp"]
           out  == Redeemed(lp)
<1>1. TypeOK /\ ReservesBacked /\ SliceBacked
  BY DEF Inv
<1>2. /\ t.kind = "remove"
      /\ lp > 0 /\ lp <= pool.supply
      /\ pool'.supply = pool.supply - lp
      /\ policy' = [policy EXCEPT !.supply = @ - lp]
      /\ authored' = Consumed(src) /\ terms' = terms
  BY DEF SettleRemove
<1>3. PICK base \in Draws(slices["base"], out["base"]),
           quote \in Draws(slices["quote"], out["quote"]) :
         LET order    == [s \in Sides |-> IF s = "base" THEN base ELSE quote]
             drawn(s) == Drawn(slices[s], order[s], out[s])
         IN  /\ \A s \in Sides :
                  /\ Authorised(t, s, LegAmounts(slices[s], order[s], out[s]))
                  /\ DrawCovered(s, drawn(s))
             /\ slices' = [s \in Sides |-> Minus(slices[s], drawn(s))]
             /\ backing' = [s \in Sides |-> AfterDraw(s, drawn(s))]
             /\ free' = [free EXCEPT
                  ![t.party] = Credit(t.party, [i \in Instruments |->
                                 IF i = "lp" THEN 0 ELSE out[i]]),
                  ![Operator] = Credit(Operator, [i \in Instruments |->
                                 IF i = "lp" THEN 0 ELSE Surplus(i, drawn(i))])]
  BY DEF SettleRemove
<1> DEFINE order    == [s \in Sides |-> IF s = "base" THEN base ELSE quote]
           drawn(s) == Drawn(slices[s], order[s], out[s])
           gain     == [i \in Instruments |-> IF i = "lp" THEN 0 ELSE out[i]]
           back     == [i \in Instruments |-> IF i = "lp" THEN 0 ELSE Surplus(i, drawn(i))]
<1>4. /\ t.party \in Accounts /\ t.pays \in [Instruments -> Nat]
      /\ t.gets \in [Instruments -> Seq(Nat)] /\ Shaped(t) /\ t \in Terms
  BY <1>1, TermsTyped DEF Orderly
<1>5. /\ "lp" \in Instruments /\ \A s \in Sides : s \in Instruments /\ s # "lp"
      /\ \A i \in Instruments : i = "lp" \/ i \in Sides
  BY SidesFacts DEF Instruments
<1>6. /\ lp \in Nat /\ t.party # Operator /\ t.gets["lp"] = <<>>
      /\ \A s \in Sides : t.pays[s] = 0
  BY <1>2, <1>4, <1>5, PoolAssumption DEF Shaped
<1>7. pool \in [status : {"Unfunded", "Active", "Paused"},
                reserve : [Sides -> Nat], supply : Nat]
      /\ policy \in [supply : Nat, active : BOOLEAN] /\ pool.supply > 0
  <2>1. pool.supply \in Nat
    BY <1>1 DEF TypeOK
  <2> HIDE DEF lp
  <2> QED
    BY <1>1, <1>2, <1>6, <2>1 DEF TypeOK
<1>8. \A s \in Sides : out[s] \in Nat
  <2> HIDE DEF lp
  <2> QED
    BY <1>6, <1>7, RedeemedType
<1>9. \A s \in Sides : order[s] \in Draws(slices[s], out[s])
  BY DEF Sides
<1>10. /\ \A s \in Sides : /\ t.gets[s] = LegAmounts(slices[s], order[s], out[s])
                           /\ DrawCovered(s, drawn(s))
       /\ slices' = [s \in Sides |-> Minus(slices[s], drawn(s))]
       /\ backing' = [s \in Sides |-> AfterDraw(s, drawn(s))]
       /\ free' = [free EXCEPT ![t.party] = Credit(t.party, gain),
                               ![Operator] = Credit(Operator, back)]
  BY <1>3 DEF Authorised
<1> HIDE DEF order, out, lp, t
<1>11. ASSUME NEW s \in Sides
       PROVE  /\ Sum(slices'[s]) = Sum(slices[s]) - out[s]
              /\ Sum(backing'[s]) + Surplus(s, drawn(s)) = Sum(backing[s]) - out[s]
              /\ Surplus(s, drawn(s)) \in Nat
              /\ Sum(t.gets[s]) = out[s]
              /\ Sum(slices[s]) \in Nat /\ Sum(backing[s]) \in Nat
  <2> DEFINE amount == out[s]  o == order[s]  d == Drawn(slices[s], o, amount)
  <2>1. amount \in Nat /\ o \in Draws(slices[s], amount)
    BY <1>8, <1>9
  <2>2. /\ DrawCovered(s, d) /\ t.gets[s] = LegAmounts(slices[s], o, amount)
        /\ slices'[s] = Minus(slices[s], d) /\ backing'[s] = AfterDraw(s, d)
    BY <1>10
  <2>3. Sum(slices[s]) = pool.reserve[s]
    BY <1>1 DEF ReservesBacked
  <2>4. slices[s] \in [Slots -> Nat] /\ backing[s] \in [Slots -> Nat] /\ IsFiniteSet(Slots)
    BY <1>1, PoolAssumption DEF TypeOK
  <2> HIDE DEF amount, o
  <2>5. Sum(Minus(slices[s], d)) = pool.reserve[s] - amount /\ Surplus(s, d) \in Nat
    BY <1>1, <2>1, <2>2, DrawFromSide
  <2>6. Sum(AfterDraw(s, d)) + Surplus(s, d) = Sum(backing[s]) - amount
    BY <1>1, <2>1, <2>2, DrawnBacking
  <2>7. Sum(t.gets[s]) = amount
    BY <2>1, <2>2, <2>4, LegsPay
  <2>8. Sum(slices[s]) \in Nat /\ Sum(backing[s]) \in Nat
    BY <2>4, SumNat
  <2> HIDE DEF d
  <2>9. /\ Sum(slices'[s]) = Sum(slices[s]) - amount
        /\ Sum(backing'[s]) + Surplus(s, d) = Sum(backing[s]) - amount
    BY <2>2, <2>3, <2>5, <2>6
  <2> QED
    BY <2>5, <2>7, <2>8, <2>9 DEF amount, o, d
<1> HIDE DEF drawn
<1>12. /\ gain \in [Instruments -> Nat] /\ back \in [Instruments -> Nat]
       /\ gain["lp"] = 0 /\ back["lp"] = 0
       /\ \A s \in Sides : gain[s] = out[s] /\ back[s] = Surplus(s, drawn(s))
  BY <1>5, <1>8, <1>11
<1>13. \A p \in Accounts, i \in Instruments :
         free'[p][i] = free[p][i] + (IF p = t.party THEN gain[i]
                                     ELSE IF p = Operator THEN back[i] ELSE 0)
  <2> HIDE DEF gain, back
  <2>1. t.party \in Accounts /\ t.party # Operator
    BY <1>4, <1>6
  <2> QED
    BY ZenonT(30), <1>1, <1>10, <1>12, <2>1, TwoCredits
<1> HIDE DEF gain, back
<1>14. ASSUME NEW s \in Sides
       PROVE  /\ Sum(slices'[s]) = Sum(slices[s]) + t.pays[s] - gain[s]
              /\ Sum(backing'[s]) + back[s] = Sum(backing[s]) + t.pays[s] - gain[s]
  <2>1. t.pays[s] = 0 /\ gain[s] = out[s] /\ back[s] = Surplus(s, drawn(s)) /\ out[s] \in Nat
    BY <1>6, <1>8, <1>12
  <2> QED
    BY <1>11, <2>1
<1>15. \A i \in Instruments : gain[i] = Sum(t.gets[i])
  BY <1>5, <1>6, <1>11, <1>12, NoLegsPay
<1>16. /\ pool'.supply = pool.supply + gain["lp"] - t.pays["lp"]
       /\ policy'.supply = policy.supply + gain["lp"] - t.pays["lp"]
  <2>1. policy'.supply = policy.supply - lp /\ t.pays["lp"] = lp
    BY <1>2, <1>7 DEF lp
  <2> QED
    BY <1>2, <1>6, <1>7, <1>12, <2>1
<1>17. t.kind # "none" /\ t.kind # "add"
  BY <1>2 DEF t
<1>18. Settles(t, src, gain, back)
  BY <1>2, <1>4, <1>12, <1>13, <1>14, <1>15, <1>16, <1>17 DEF Settles, t
<1> QED
  BY <1>18 DEF t

(***************************************************************************)
(* Every other step leaves the slices and what traders hold as they are,   *)
(* and the pool too but for pausing and resuming it; the operator may take *)
(* an allocation of a slice back into its free holdings.                   *)
(***************************************************************************)
Quiet ==
  /\ slices' = slices
  /\ \A p \in Accounts, i \in Instruments :
       p # Operator \/ i = "lp" => Wealth(p, i)' = Wealth(p, i)
  /\ \A s \in Sides :
       /\ Wealth(Operator, s)' + Sum(backing'[s]) = Wealth(Operator, s) + Sum(backing[s])
       /\ free'[Operator][s] + Sum(backing'[s]) = free[Operator][s] + Sum(backing[s])
  /\ Overrides = {} => /\ pool' = pool \/ Pause \/ Resume
                       /\ policy'.supply = policy.supply

LEMMA AllocatingIsQuiet ==
  ASSUME Inv, Orderly, TypeOK', NEW f \in Flows, NEW spec,
         Authorize(f, spec) \/ Release(f, spec)
  PROVE  Quiet
<1>1. \A p \in Accounts, i \in Instruments : Wealth(p, i)' = Wealth(p, i)
  BY ReleasingKeepsWealth, AuthorizingKeepsWealth
<1>2. UNCHANGED <<pool, slices, backing, policy>>
  BY DEF Authorize, Release
<1>3. terms[f].party \in Traders
  <2>1. spec \in Specs(terms[f])
    BY DEF Authorize, Release, Orderly
  <2>2. terms[f].kind # "none"
    BY <2>1 DEF Specs
  <2> QED
    BY <2>2 DEF Orderly, Shaped
<1>4. free'[Operator] = free[Operator]
  <2>1. \E row : free' = [free EXCEPT ![terms[f].party] = row]
    BY DEF Authorize, Release
  <2>2. Operator # terms[f].party /\ Operator \in Accounts
    BY <1>3, PoolAssumption DEF Accounts
  <2> QED
    BY <2>1, <2>2 DEF Inv, TypeOK
<1>5. Operator \in Accounts /\ \A s \in Sides : s \in Instruments
  BY SidesFacts DEF Accounts
<1> QED
  BY <1>1, <1>2, <1>4, <1>5 DEF Quiet

LEMMA CancelCustodyIsQuiet ==
  ASSUME Inv, Orderly, TypeOK', NEW side \in Sides, NEW slot \in Slots,
         CancelCustody(side, slot)
  PROVE  Quiet
<1>1. TypeOK
  BY DEF Inv
<1>2. /\ free' = [free EXCEPT ![Operator][side] = @ + backing[side][slot]]
      /\ backing' = [backing EXCEPT ![side][slot] = 0]
      /\ UNCHANGED <<pool, slices, policy, terms, authored>>
  BY DEF CancelCustody
<1>3. /\ free \in [Accounts -> [Instruments -> Nat]] /\ Operator \in Accounts
      /\ backing \in [Sides -> [Slots -> Nat]] /\ IsFiniteSet(Slots)
      /\ side \in Instruments /\ side # "lp"
      /\ \A s \in Sides : s \in Instruments
  BY <1>1, SidesFacts, PoolAssumption DEF TypeOK, Accounts
<1>4. ASSUME NEW p \in Accounts, NEW i \in Instruments
      PROVE  /\ free'[p][i] = free[p][i] +
                  (IF p = Operator /\ i = side THEN backing[side][slot] ELSE 0)
             /\ Wealth(p, i)' = Wealth(p, i) +
                  (IF p = Operator /\ i = side THEN backing[side][slot] ELSE 0)
  <2>1. free'[p][i] = free[p][i] +
          (IF p = Operator /\ i = side THEN backing[side][slot] ELSE 0)
    <3>1. free[p][i] \in Nat
      BY <1>3
    <3> QED
      BY <1>2, <1>3, <3>1
  <2>2. \A g \in Flows : LockedIn(g, i)' = LockedIn(g, i)
    BY <1>2 DEF LockedIn
  <2>3. Wealth(p, i)' = free'[p][i] + Sum(Held(p, i))
    <3>1. [g \in Flows |-> IF terms'[g].party = p THEN LockedIn(g, i)' ELSE 0] = Held(p, i)
      BY <1>2, <2>2 DEF Held
    <3> QED
      BY <3>1 DEF Wealth
  <2>4. /\ Wealth(p, i) = free[p][i] + Sum(Held(p, i)) /\ free[p][i] \in Nat
        /\ Sum(Held(p, i)) \in Nat
    BY <1>1, <1>3, WealthType, HeldType
  <2>5. backing[side][slot] \in Nat
    BY <1>3
  <2> QED
    BY <2>1, <2>3, <2>4, <2>5
<1>5. ASSUME NEW s \in Sides
      PROVE  /\ Sum(backing'[s]) = Sum(backing[s]) - (IF s = side THEN backing[s][slot] ELSE 0)
             /\ Sum(backing[s]) \in Nat
  <2> DEFINE b0 == backing[s]  b1 == backing'[s]
  <2>1. /\ b0 \in [Slots -> Nat] /\ b1 \in [Slots -> Nat]
        /\ \A x \in Slots : x # slot => b1[x] = b0[x]
        /\ b1[slot] = IF s = side THEN 0 ELSE b0[slot]
    BY <1>2, <1>3
  <2> HIDE DEF b0, b1
  <2>2. Sum(b1) = Sum(b0) - b0[slot] + b1[slot] /\ Sum(b0) \in Nat /\ b0[slot] \in Nat
    BY <1>3, <2>1, SumUpdate, SumNat
  <2>3. Sum(b1) = Sum(b0) - (IF s = side THEN b0[slot] ELSE 0)
    BY <2>1, <2>2
  <2> QED
    BY <2>2, <2>3 DEF b0, b1
<1>6. ASSUME NEW s \in Sides
      PROVE  /\ Wealth(Operator, s)' + Sum(backing'[s]) = Wealth(Operator, s) + Sum(backing[s])
             /\ free'[Operator][s] + Sum(backing'[s]) = free[Operator][s] + Sum(backing[s])
  <2>1. Wealth(Operator, s) \in Nat /\ free[Operator][s] \in Nat /\ backing[s][slot] \in Nat
    BY <1>1, <1>3, WealthType
  <2>2. CASE s = side
    <3>1. /\ Wealth(Operator, s)' = Wealth(Operator, s) + backing[s][slot]
          /\ free'[Operator][s] = free[Operator][s] + backing[s][slot]
      BY <1>3, <1>4, <2>2
    <3>2. Sum(backing'[s]) = Sum(backing[s]) - backing[s][slot] /\ Sum(backing[s]) \in Nat
      BY <1>5, <2>2
    <3> QED
      BY <2>1, <3>1, <3>2
  <2>3. CASE s # side
    <3>1. Wealth(Operator, s)' = Wealth(Operator, s) /\ free'[Operator][s] = free[Operator][s]
      BY <1>3, <1>4, <2>1, <2>3
    <3>2. Sum(backing'[s]) = Sum(backing[s])
      BY <1>5, <2>3
    <3> QED
      BY <3>1, <3>2
  <2> QED
    BY <2>2, <2>3
<1>7. \A p \in Accounts, i \in Instruments :
        p # Operator \/ i = "lp" => Wealth(p, i)' = Wealth(p, i)
  <2>1. \A p \in Accounts, i \in Instruments : Wealth(p, i) \in Nat
    BY <1>1, WealthType
  <2> QED
    BY <1>3, <1>4, <2>1
<1> QED
  BY <1>2, <1>6, <1>7 DEF Quiet

(* Every step of the pool is a settlement or is quiet. *)
Settlement(t, src) ==
  /\ t \in Deals /\ src \in Supplies(t)
  /\ \/ \E side \in Sides, closed \in SUBSET Flows :
            t \in SwapsOf(side) /\ SettleSwap(t, side, src, closed)
     \/ \E f \in Flows :
            /\ t = terms[f]
            /\ (\E slot \in [Sides -> Slots] : SettleAdd(f, src, slot)) \/ SettleRemove(f, src)

LEMMA SettlementSettles ==
  ASSUME Inv, Orderly, NEW t, NEW src, Settlement(t, src)
  PROVE  \E gain, back : Settles(t, src, gain, back)
BY SwapSettles, AddSettles, RemoveSettles DEF Settlement

LEMMA StepShape ==
  ASSUME Inv, Orderly, Inv', [Next]_vars
  PROVE  Quiet \/ \E t, src : Settlement(t, src)
<1>1. TypeOK'
  BY DEF Inv
<1>2. ASSUME free' = free, authored' = authored, slices' = slices, backing' = backing,
             terms' = terms \/ \E f \in Flows : \E t : Post(f, t),
             Overrides = {} => /\ pool' = pool \/ Pause \/ Resume
                               /\ policy'.supply = policy.supply
      PROVE  Quiet
  <2>1. \A p \in Accounts, i \in Instruments : Wealth(p, i)' = Wealth(p, i)
    BY <1>2, SameWealth
  <2>2. Operator \in Accounts /\ \A s \in Sides : s \in Instruments
    BY SidesFacts DEF Accounts
  <2> QED
    BY <1>2, <2>1, <2>2 DEF Quiet
<1>3. ASSUME NEW f \in Flows, NEW t, Post(f, t)
      PROVE  Quiet
  <2>1. UNCHANGED <<pool, slices, backing, policy, free, authored>>
    BY <1>3 DEF Post
  <2> QED
    BY <1>2, <1>3, <2>1
<1>4. CASE Swaps
  <2>1. PICK side \in Sides :
          \/ \E f \in Flows, p \in Traders, amount \in SwapInputs :
               RequestSwap(f, p, side, amount)
          \/ \E t \in SwapsOf(side) :
               \E src \in Supplies(t), closed \in SUBSET Matching(t) :
                 SettleSwap(t, side, src, closed)
    BY <1>4 DEF Swaps
  <2>2. ASSUME NEW f \in Flows, NEW p \in Traders, NEW amount \in SwapInputs,
               RequestSwap(f, p, side, amount)
        PROVE  \E t : Post(f, t)
    BY <2>2 DEF RequestSwap
  <2>3. \A t \in SwapsOf(side) : t \in Deals
    BY DEF Deals
  <2>4. \A t : SUBSET Matching(t) \subseteq SUBSET Flows
    BY DEF Matching
  <2> QED
    BY <1>3, <2>1, <2>2, <2>3, <2>4 DEF Settlement
<1>5. CASE Liquidity
  <2>1. PICK f \in Flows :
          \/ \E p \in Traders, offer \in Offers : RequestAdd(f, p, offer)
          \/ \E p \in Traders, lp \in Redemptions : RequestRemove(f, p, lp)
          \/ \E src \in Supplies(terms[f]) :
               \/ \E slot \in [Sides -> Slots] : SettleAdd(f, src, slot)
               \/ SettleRemove(f, src)
    BY <1>5 DEF Liquidity
  <2>2. ASSUME NEW p \in Traders, NEW offer \in Offers, RequestAdd(f, p, offer)
        PROVE  \E t : Post(f, t)
    BY <2>2 DEF RequestAdd
  <2>3. ASSUME NEW p \in Traders, NEW lp \in Redemptions, RequestRemove(f, p, lp)
        PROVE  \E t : Post(f, t)
    BY <2>3 DEF RequestRemove
  <2>4. terms[f] \in Deals
    BY DEF Deals
  <2> QED
    BY <1>3, <2>1, <2>2, <2>3, <2>4 DEF Settlement
<1>6. CASE Authorization
  <2>1. PICK f \in Flows :
           \/ Accept(f) \/ CloseRequest(f) \/ DeadlinePasses(f)
           \/ \E spec \in SUBSET Instruments :
                Authorize(f, spec) \/ WithdrawAllocation(f, spec) \/ CancelAllocation(f, spec)
    BY <1>6 DEF Authorization
  <2>2. CASE Accept(f) \/ CloseRequest(f) \/ DeadlinePasses(f)
    <3>1. UNCHANGED <<pool, slices, backing, policy, free, terms, authored>>
      BY <2>2 DEF Accept, CloseRequest, DeadlinePasses
    <3> QED
      BY <1>2, <3>1
  <2>3. ASSUME NEW spec \in SUBSET Instruments, Authorize(f, spec) \/ Release(f, spec)
        PROVE  Quiet
    BY <1>1, <2>3, AllocatingIsQuiet
  <2> QED
    BY <2>1, <2>2, <2>3 DEF WithdrawAllocation, CancelAllocation
<1>7. CASE Administration
  <2>1. CASE Pause \/ Resume \/ Deactivate
    <3>1. /\ UNCHANGED <<slices, backing, free, terms, authored>>
          /\ pool' = pool \/ Pause \/ Resume
          /\ policy'.supply = policy.supply
      BY <2>1 DEF Pause, Resume, Deactivate, Inv, TypeOK
    <3> QED
      BY <1>2, <3>1
  <2>2. ASSUME NEW side \in Sides, NEW slot \in Slots, CancelCustody(side, slot)
        PROVE  Quiet
    BY <1>1, <2>2, CancelCustodyIsQuiet
  <2>3. ASSUME NEW n \in Overrides, RecordLPSupply(n) \/ RecordPolicySupply(n)
        PROVE  Quiet
    <3>1. UNCHANGED <<slices, backing, free, terms, authored>> /\ Overrides # {}
      BY <2>3 DEF RecordLPSupply, RecordPolicySupply
    <3> QED
      BY <1>2, <3>1
  <2> QED
    BY <1>7, <2>1, <2>2, <2>3 DEF Administration
<1>8. CASE UNCHANGED vars
  BY <1>2, <1>8 DEF vars
<1> QED
  BY <1>4, <1>5, <1>6, <1>7, <1>8 DEF Next

-----------------------------------------------------------------------------
(* What a settlement does to what everybody holds. *)
LEMMA SettledWealth ==
  ASSUME Inv, Orderly, Inv', NEW t, NEW src, NEW gain, NEW back,
         Settles(t, src, gain, back), NEW p \in Accounts, NEW i \in Instruments
  PROVE  /\ Wealth(p, i)' = Wealth(p, i) +
              (IF p = t.party THEN gain[i] - t.pays[i]
               ELSE IF p = Operator THEN back[i] ELSE 0)
         /\ gain[i] \in Nat /\ back[i] \in Nat /\ t.pays[i] \in Nat
<1>1. TypeOK /\ TypeOK'
  BY DEF Inv
<1>2. /\ gain[i] \in Nat /\ back[i] \in Nat
      /\ free'[p][i] = free[p][i] + (IF p = t.party THEN gain[i]
                                     ELSE IF p = Operator THEN back[i] ELSE 0)
      /\ t \in Terms /\ Shaped(t) /\ src \in Supplies(t) /\ t.kind # "none"
      /\ authored' = Consumed(src) /\ terms' = terms
  BY DEF Settles
<1>3. Sum(Held(p, i))' = Sum(Held(p, i)) - (IF p = t.party THEN t.pays[i] ELSE 0)
  BY <1>2, SettledLocks
<1>4. t.pays[i] \in Nat
  BY <1>2 DEF Terms
<1>5. /\ Wealth(p, i) = free[p][i] + Sum(Held(p, i)) /\ Sum(Held(p, i)) \in Nat
      /\ Wealth(p, i)' = free'[p][i] + Sum(Held(p, i))'
  BY <1>1, WealthType, HeldType DEF Wealth, Held
<1>6. free[p][i] \in Nat
  BY <1>1 DEF TypeOK
<1>7. Wealth(p, i)' = Wealth(p, i) +
        (IF p = t.party THEN gain[i] - t.pays[i] ELSE IF p = Operator THEN back[i] ELSE 0)
  BY <1>2, <1>3, <1>4, <1>5, <1>6
<1> QED
  BY <1>2, <1>4, <1>7

Holdings(i) == [a \in Accounts |-> Wealth(a, i)]

LEMMA HoldingsType ==
  ASSUME TypeOK, NEW i \in Instruments
  PROVE  Holdings(i) \in [Accounts -> Nat] /\ Sum(Holdings(i)) \in Nat
<1>1. Holdings(i) \in [Accounts -> Nat]
  BY WealthType DEF Holdings
<1> QED
  BY <1>1, AccountsFinite, SumNat

(* The totals after a settlement. *)
LEMMA SettledTotals ==
  ASSUME Inv, Orderly, Inv', NEW t, NEW src, NEW gain, NEW back,
         Settles(t, src, gain, back), NEW i \in Instruments
  PROVE  Sum(Holdings(i))' = Sum(Holdings(i)) + gain[i] - t.pays[i] + back[i]
<1> DEFINE party == t.party
           before == Holdings(i)  after == Holdings(i)'
<1>1. TypeOK /\ TypeOK'
  BY DEF Inv
<1>2. party \in Accounts /\ Operator \in Accounts /\ party # Operator
  <2>1. t.kind # "none" /\ Shaped(t)
    BY DEF Settles
  <2> QED
    BY <2>1, PoolAssumption DEF Shaped, Accounts
<1>3. \A p \in Accounts :
        Wealth(p, i)' = Wealth(p, i) +
              (IF p = party THEN gain[i] - t.pays[i]
               ELSE IF p = Operator THEN back[i] ELSE 0)
  BY SettledWealth
<1>4. gain[i] \in Nat /\ back[i] \in Nat /\ t.pays[i] \in Nat
  BY <1>2, SettledWealth
<1>5. /\ before \in [Accounts -> Nat] /\ Sum(before) \in Nat
      /\ after \in [Accounts -> Nat]
  <2>1. \A p \in Accounts : Wealth(p, i)' \in Nat
    BY <1>1, WealthNext
  <2> QED
    BY <1>1, <2>1, HoldingsType DEF Holdings
<1>6. \A p \in Accounts : before[p] = Wealth(p, i) /\ after[p] = Wealth(p, i)'
  BY DEF Holdings
<1>7. \A p \in Accounts : Wealth(p, i) \in Nat
  BY <1>1, WealthType
<1> HIDE DEF party, before, after
<1>8. \A p \in Accounts : p # party /\ p # Operator => after[p] = before[p]
  BY <1>3, <1>6, <1>7
<1>9. Sum(after) = Sum(before) - before[party] - before[Operator] + after[party] + after[Operator]
  BY <1>2, <1>5, <1>8, AccountsFinite, SumUpdateTwo
<1>10. /\ after[party] = before[party] + gain[i] - t.pays[i]
       /\ after[Operator] = before[Operator] + back[i]
       /\ before[party] \in Nat /\ before[Operator] \in Nat
  BY <1>2, <1>3, <1>4, <1>6, <1>7
<1>11. Sum(after) = Sum(before) + gain[i] - t.pays[i] + back[i]
  BY <1>4, <1>5, <1>9, <1>10
<1> QED
  BY <1>11 DEF before, after

(* The totals after a quiet step. *)
LEMMA QuietTotals ==
  ASSUME Inv, Inv', Quiet
  PROVE  /\ Sum(Holdings("lp"))' = Sum(Holdings("lp"))
         /\ \A s \in Sides : Sum(Holdings(s))' + Sum(backing'[s])
                               = Sum(Holdings(s)) + Sum(backing[s])
<1>1. TypeOK /\ TypeOK'
  BY DEF Inv
<1>2. "lp" \in Instruments /\ Operator \in Accounts /\ \A s \in Sides : s \in Instruments
  BY SidesFacts DEF Instruments, Accounts
<1>3. Sum(Holdings("lp"))' = Sum(Holdings("lp"))
  <2>1. \A p \in Accounts : Wealth(p, "lp")' = Wealth(p, "lp")
    BY <1>2 DEF Quiet
  <2>2. [a \in Accounts |-> Wealth(a, "lp")'] = [a \in Accounts |-> Wealth(a, "lp")]
    BY <2>1
  <2> QED
    BY <2>2 DEF Holdings
<1>4. ASSUME NEW s \in Sides
      PROVE  Sum(Holdings(s))' + Sum(backing'[s]) = Sum(Holdings(s)) + Sum(backing[s])
  <2> DEFINE before == Holdings(s)  after == Holdings(s)'
  <2>1. /\ \A p \in Accounts : p # Operator => Wealth(p, s)' = Wealth(p, s)
        /\ Wealth(Operator, s)' + Sum(backing'[s]) = Wealth(Operator, s) + Sum(backing[s])
    BY <1>2 DEF Quiet
  <2>2. Sum(backing[s]) \in Nat /\ Sum(backing'[s]) \in Nat
    <3>1. backing[s] \in [Slots -> Nat] /\ backing'[s] \in [Slots -> Nat] /\ IsFiniteSet(Slots)
      BY <1>1, PoolAssumption DEF TypeOK
    <3> QED
      BY <3>1, SumNat
  <2>3. \A p \in Accounts : Wealth(p, s) \in Nat /\ Wealth(p, s)' \in Nat
    BY <1>1, <1>2, WealthType, WealthNext
  <2>4. /\ before \in [Accounts -> Nat] /\ after \in [Accounts -> Nat]
        /\ \A p \in Accounts : before[p] = Wealth(p, s) /\ after[p] = Wealth(p, s)'
    BY <2>3 DEF Holdings
  <2> HIDE DEF before, after
  <2>5. Sum(after) = Sum(before) - before[Operator] + after[Operator]
        /\ Sum(before) \in Nat
    BY <1>2, <2>1, <2>4, AccountsFinite, SumUpdate, SumNat
  <2>6. after[Operator] + Sum(backing'[s]) = before[Operator] + Sum(backing[s])
        /\ after[Operator] \in Nat /\ before[Operator] \in Nat
    BY <1>2, <2>1, <2>4
  <2>7. Sum(after) + Sum(backing'[s]) = Sum(before) + Sum(backing[s])
    BY <2>2, <2>5, <2>6
  <2> QED
    BY <2>7 DEF before, after
<1> QED
  BY <1>3, <1>4

-----------------------------------------------------------------------------
(***************************************************************************)
(* The inductive invariant of the promises.                                *)
(***************************************************************************)
Kept == Inv /\ Orderly /\ CustodyAccounted /\ Conservation /\ LpSupplyAgrees /\ OwnedByLps

LEMMA SidesTyped ==
  ASSUME TypeOK, NEW s \in Sides
  PROVE  Sum(slices[s]) \in Nat /\ Sum(backing[s]) \in Nat /\ free[Operator][s] \in Nat
<1>1. slices[s] \in [Slots -> Nat] /\ backing[s] \in [Slots -> Nat] /\ IsFiniteSet(Slots)
  BY PoolAssumption DEF TypeOK
<1>2. free[Operator][s] \in Nat
  BY SidesFacts DEF TypeOK, Accounts
<1> QED
  BY <1>1, <1>2, SumNat

LEMMA SidesTypedNext ==
  ASSUME TypeOK', NEW s \in Sides
  PROVE  Sum(slices'[s]) \in Nat /\ Sum(backing'[s]) \in Nat /\ free'[Operator][s] \in Nat
<1>1. slices'[s] \in [Slots -> Nat] /\ backing'[s] \in [Slots -> Nat] /\ IsFiniteSet(Slots)
  BY PoolAssumption DEF TypeOK
<1>2. free'[Operator][s] \in Nat
  BY SidesFacts DEF TypeOK, Accounts
<1> QED
  BY <1>1, <1>2, SumNat

LEMMA CustodyStep ==
  ASSUME Inv, Orderly, Inv', CustodyAccounted,
         Quiet \/ \E t, src, gain, back : Settles(t, src, gain, back)
  PROVE  CustodyAccounted'
<1> SUFFICES ASSUME NEW s \in Sides
             PROVE  free'[Operator][s] + Sum(backing'[s])
                      = InitialFree[Operator][s] + Sum(slices'[s])
  BY DEF CustodyAccounted
<1>1. free[Operator][s] + Sum(backing[s]) = InitialFree[Operator][s] + Sum(slices[s])
  BY DEF CustodyAccounted
<1>2. /\ Sum(slices[s]) \in Nat /\ Sum(backing[s]) \in Nat /\ free[Operator][s] \in Nat
      /\ Sum(slices'[s]) \in Nat /\ Sum(backing'[s]) \in Nat
      /\ InitialFree[Operator][s] \in Nat
  <2>1. InitialFree[Operator][s] \in Nat
    BY SidesFacts, PoolAssumption DEF Accounts
  <2> QED
    BY <2>1, SidesTyped, SidesTypedNext DEF Inv
<1>3. CASE Quiet
  <2>1. /\ free'[Operator][s] + Sum(backing'[s]) = free[Operator][s] + Sum(backing[s])
        /\ slices' = slices
    BY <1>3 DEF Quiet
  <2> QED
    BY <1>1, <2>1
<1>4. ASSUME NEW t, NEW src, NEW gain, NEW back, Settles(t, src, gain, back)
      PROVE  free'[Operator][s] + Sum(backing'[s])
               = InitialFree[Operator][s] + Sum(slices'[s])
  <2>1. t.party # Operator /\ Operator \in Accounts /\ s \in Instruments
    BY <1>4, PoolAssumption, SidesFacts DEF Settles, Shaped, Accounts
  <2>2. free'[Operator][s] = free[Operator][s] + back[s]
    BY <1>4, <2>1 DEF Settles
  <2>3. /\ Sum(slices'[s]) = Sum(slices[s]) + t.pays[s] - gain[s]
        /\ Sum(backing'[s]) + back[s] = Sum(backing[s]) + t.pays[s] - gain[s]
    BY <1>4 DEF Settles
  <2>4. gain[s] \in Nat /\ back[s] \in Nat /\ t.pays[s] \in Nat
    BY <1>4, <2>1, SettledWealth
  <2> QED
    BY <1>1, <1>2, <2>2, <2>3, <2>4
<1> QED
  BY <1>3, <1>4

LEMMA ConservationStep ==
  ASSUME Inv, Orderly, Inv', Conservation,
         Quiet \/ \E t, src, gain, back : Settles(t, src, gain, back)
  PROVE  Conservation'
<1> DEFINE issued(s) == Sum([a \in Accounts |-> InitialFree[a][s]]) + Sum(InitialSlices[s])
<1> SUFFICES ASSUME NEW s \in Sides
             PROVE  Sum(Holdings(s))' + Sum(backing'[s]) = issued(s)
  BY DEF Conservation, Holdings
<1>1. Sum(Holdings(s)) + Sum(backing[s]) = issued(s)
  BY DEF Conservation, Holdings
<1>2. s \in Instruments
  BY SidesFacts
<1>3. Sum(Holdings(s)) \in Nat /\ Sum(backing[s]) \in Nat /\ Sum(backing'[s]) \in Nat
  BY <1>2, HoldingsType, SidesTyped, SidesTypedNext DEF Inv
<1> HIDE DEF issued
<1>4. CASE Quiet
  BY <1>1, <1>4, QuietTotals
<1>5. ASSUME NEW t, NEW src, NEW gain, NEW back, Settles(t, src, gain, back)
      PROVE  Sum(Holdings(s))' + Sum(backing'[s]) = issued(s)
  <2>1. Sum(Holdings(s))' = Sum(Holdings(s)) + gain[s] - t.pays[s] + back[s]
    BY <1>2, <1>5, SettledTotals
  <2>2. Sum(backing'[s]) + back[s] = Sum(backing[s]) + t.pays[s] - gain[s]
    BY <1>5 DEF Settles
  <2>3. gain[s] \in Nat /\ back[s] \in Nat /\ t.pays[s] \in Nat
    BY <1>2, <1>5, SettledWealth DEF Accounts
  <2> DEFINE before == Sum(Holdings(s))  after == Sum(Holdings(s))'
  <2>4. /\ before + Sum(backing[s]) = issued(s) /\ before \in Nat
        /\ after = before + gain[s] - t.pays[s] + back[s]
    BY <1>1, <1>3, <2>1
  <2> HIDE DEF before, after
  <2>5. after + Sum(backing'[s]) = issued(s)
    BY <1>3, <2>2, <2>3, <2>4
  <2> QED
    BY <2>5 DEF after
<1> QED
  BY <1>4, <1>5

LEMMA LpSupplyStep ==
  ASSUME Inv, Orderly, Inv', LpSupplyAgrees,
         Quiet \/ \E t, src, gain, back : Settles(t, src, gain, back)
  PROVE  LpSupplyAgrees'
<1> SUFFICES ASSUME Overrides = {}
             PROVE  /\ pool'.supply = policy'.supply
                    /\ pool'.supply = Sum(Holdings("lp"))'
  BY DEF LpSupplyAgrees, Holdings
<1>1. pool.supply = policy.supply /\ pool.supply = Sum(Holdings("lp"))
  BY DEF LpSupplyAgrees, Holdings
<1>2. CASE Quiet
  <2>1. Sum(Holdings("lp"))' = Sum(Holdings("lp"))
    BY <1>2, QuietTotals
  <2>2. pool'.supply = pool.supply /\ policy'.supply = policy.supply
    BY <1>2 DEF Quiet, Pause, Resume, Inv, TypeOK
  <2> QED
    BY <1>1, <2>1, <2>2
<1>3. ASSUME NEW t, NEW src, NEW gain, NEW back, Settles(t, src, gain, back)
      PROVE  pool'.supply = policy'.supply /\ pool'.supply = Sum(Holdings("lp"))'
  <2>1. "lp" \in Instruments
    BY DEF Instruments
  <2>2. Sum(Holdings("lp"))' =
          Sum(Holdings("lp")) + gain["lp"] - t.pays["lp"] + back["lp"]
    BY <1>3, <2>1, SettledTotals
  <2>3. /\ pool'.supply = pool.supply + gain["lp"] - t.pays["lp"]
        /\ policy'.supply = policy.supply + gain["lp"] - t.pays["lp"]
        /\ back["lp"] = 0
    BY <1>3 DEF Settles
  <2>4. gain["lp"] \in Nat /\ t.pays["lp"] \in Nat /\ Sum(Holdings("lp")) \in Nat
    BY <1>3, <2>1, SettledWealth, HoldingsType DEF Accounts, Inv
  <2> DEFINE before == Sum(Holdings("lp"))  after == Sum(Holdings("lp"))'
             minted == gain["lp"]  burnt == t.pays["lp"]  returned == back["lp"]
  <2>5. after = before + minted - burnt + returned
    BY <2>2
  <2>6. /\ pool.supply = before /\ policy.supply = before
        /\ before \in Nat /\ minted \in Nat /\ burnt \in Nat /\ returned = 0
    BY <1>1, <2>3, <2>4
  <2>7. /\ pool'.supply = pool.supply + minted - burnt
        /\ policy'.supply = policy.supply + minted - burnt
    BY <2>3
  <2> HIDE DEF before, after, minted, burnt, returned
  <2>8. pool'.supply = policy'.supply /\ pool'.supply = after
    BY <2>5, <2>6, <2>7
  <2> QED
    BY <2>8 DEF after
<1> QED
  BY <1>2, <1>3

LEMMA OwnedStep ==
  ASSUME Inv, Orderly, Inv', OwnedByLps,
         Quiet \/ \E t, src : Settlement(t, src)
  PROVE  OwnedByLps'
<1> SUFFICES ASSUME Overrides = {}, NEW s \in Sides
             PROVE  pool'.reserve[s] = 0 <=> pool'.supply = 0
  BY DEF OwnedByLps
<1>1. pool.reserve[s] = 0 <=> pool.supply = 0
  BY DEF OwnedByLps
<1>2. pool.reserve \in [Sides -> Nat] /\ pool.supply \in Nat
  BY DEF Inv, TypeOK
<1>3. CASE Quiet
  BY <1>1, <1>3 DEF Quiet, Pause, Resume, Inv, TypeOK
<1>4. ASSUME NEW t, NEW side, NEW src, NEW closed, SettleSwap(t, side, src, closed)
      PROVE  pool'.reserve[s] = 0 <=> pool'.supply = 0
  <2>1. pool.status = "Active" /\ pool'.status = "Active" /\ pool'.supply = pool.supply
    BY <1>4 DEF SettleSwap, Inv, TypeOK
  <2>2. pool.reserve[s] # 0 /\ pool'.reserve[s] # 0
    BY <2>1 DEF Inv, Lifecycle
  <2> QED
    BY <1>1, <2>1, <2>2
<1>5. ASSUME NEW f \in Flows, NEW src, NEW slot \in [Sides -> Slots],
             SettleAdd(f, src, slot)
      PROVE  pool'.reserve[s] = 0 <=> pool'.supply = 0
  <2> DEFINE lp == terms[f].gets["lp"][1]
  <2>1. pool'.status = "Active" /\ pool'.supply = pool.supply + lp /\ terms[f].kind = "add"
    BY <1>5 DEF SettleAdd
  <2>2. lp > 0 /\ lp \in Nat
    <3>1. lp > 0
      BY <2>1 DEF Orderly, Shaped
    <3>2. terms[f].gets["lp"] \in Seq(Nat) /\ Len(terms[f].gets["lp"]) = 1
      BY <2>1, TermsTyped DEF Inv, TypeOK, Instruments
    <3>3. lp \in Nat
      BY <3>2, OneLegPays
    <3> QED
      BY <3>1, <3>3
  <2>3. pool'.reserve[s] # 0
    BY <2>1 DEF Inv, Lifecycle
  <2> HIDE DEF lp
  <2> QED
    BY <1>2, <2>1, <2>2, <2>3
<1>6. ASSUME NEW f \in Flows, NEW src, SettleRemove(f, src)
      PROVE  pool'.reserve[s] = 0 <=> pool'.supply = 0
  <2> DEFINE lp == terms[f].pays["lp"]  out == Redeemed(lp)
  <2>1. /\ pool.status = "Active" /\ lp > 0 /\ lp <= pool.supply
        /\ pool'.supply = pool.supply - lp
        /\ pool'.reserve[s] = pool.reserve[s] - out[s]
    BY <1>6 DEF SettleRemove
  <2>2. lp \in Nat
    BY TermsTyped DEF Inv, Instruments
  <2>3. pool.reserve[s] > 0 /\ pool.reserve[s] \in Nat
    BY <1>2, <2>1 DEF Inv, Lifecycle
  <2>4. out[s] \in Nat /\ (out[s] = pool.reserve[s] <=> lp = pool.supply)
    <3>1. pool.supply > 0
      BY <1>2, <2>1, <2>2
    <3> HIDE DEF lp
    <3> QED
      BY <2>1, <2>2, <2>3, <3>1, RedeemedType
  <2> HIDE DEF lp, out
  <2> QED
    BY <1>2, <2>1, <2>2, <2>3, <2>4
<1> QED
  BY <1>3, <1>4, <1>5, <1>6 DEF Settlement

LEMMA InitKept == Init => Kept
<1> SUFFICES ASSUME Init PROVE Kept
  OBVIOUS
<1>1. Inv /\ Orderly /\ TypeOK
  BY InitInv, InitOrderly DEF Inv
<1>2. /\ slices = InitialSlices /\ backing = InitialSlices /\ free = InitialFree
      /\ terms = [f \in Flows |-> NoTerms] /\ authored = [f \in Flows |-> {}]
      /\ pool.reserve = [s \in Sides |-> Sum(InitialSlices[s])]
      /\ pool.supply = InitialLp /\ policy.supply = InitialLp
  BY DEF Init
<1>3. \A a \in Accounts, i \in Instruments : Wealth(a, i) = InitialFree[a][i]
  <2> SUFFICES ASSUME NEW a \in Accounts, NEW i \in Instruments
               PROVE  Wealth(a, i) = InitialFree[a][i]
    OBVIOUS
  <2>1. \A f \in Flows : Held(a, i)[f] = 0
    BY <1>2 DEF Held, LockedIn
  <2>2. Held(a, i) \in [Flows -> Nat] /\ IsFiniteSet(Flows)
    BY <1>1, HeldType, PoolAssumption
  <2>3. Sum(Held(a, i)) = 0
    BY <2>1, <2>2, SumZero
  <2>4. Wealth(a, i) = free[a][i] + Sum(Held(a, i)) /\ free[a][i] \in Nat
    BY <1>1, WealthType DEF TypeOK
  <2> QED
    BY <1>2, <2>3, <2>4
<1>4. \A i \in Instruments : Holdings(i) = [a \in Accounts |-> InitialFree[a][i]]
  BY <1>3 DEF Holdings
<1>5. CustodyAccounted
  BY <1>2 DEF CustodyAccounted
<1>6. Conservation
  BY <1>2, <1>4, SidesFacts DEF Conservation, Holdings
<1>7. LpSupplyAgrees
  BY <1>2, <1>4 DEF LpSupplyAgrees, Holdings, InitialLp, Instruments
<1>8. OwnedByLps
  BY <1>2, OwnedAssumption DEF OwnedByLps
<1> QED
  BY <1>1, <1>5, <1>6, <1>7, <1>8 DEF Kept

LEMMA NextKept == Kept /\ [Next]_vars => Kept'
<1> SUFFICES ASSUME Kept, [Next]_vars PROVE Kept'
  OBVIOUS
<1>1. /\ Inv /\ Orderly
      /\ CustodyAccounted /\ Conservation /\ LpSupplyAgrees /\ OwnedByLps
  BY DEF Kept
<1>2. Inv' /\ Orderly'
  BY <1>1, NextInv, NextOrderly
<1>3. Quiet \/ \E t, src : Settlement(t, src)
  BY <1>1, <1>2, StepShape
<1>4. Quiet \/ \E t, src, gain, back : Settles(t, src, gain, back)
  BY <1>1, <1>3, SettlementSettles
<1>5. CustodyAccounted' /\ Conservation' /\ LpSupplyAgrees' /\ OwnedByLps'
  BY <1>1, <1>2, <1>3, <1>4, CustodyStep, ConservationStep, LpSupplyStep, OwnedStep
<1> QED
  BY <1>2, <1>5 DEF Kept

THEOREM KeptHolds == Spec => []Kept
BY InitKept, NextKept, PTL DEF Spec

(* Nothing is lost, to the ulp: what leaves the traders is in the slices,  *)
(* and the operator, through whose hands it goes, keeps none of it.        *)
THEOREM NothingIsLost == Spec => []NothingLost
<1>1. Kept => NothingLost
  BY DEF Kept, NothingLost
<1> QED
  BY <1>1, KeptHolds, PTL

(* As long as the registrar does not record a supply out of band, the LP   *)
(* tokens in circulation, the policy's supply and the pool's are one.      *)
THEOREM LpTokensCounted == Spec => []LpSupplyAgrees
<1>1. Kept => LpSupplyAgrees
  BY DEF Kept
<1> QED
  BY <1>1, KeptHolds, PTL

(* And reserves never lie in a pool whose LP tokens are all redeemed, nor  *)
(* are there LP tokens of an empty pool.                                   *)
THEOREM LpsOwnTheReserves == Spec => []OwnedByLps
<1>1. Kept => OwnedByLps
  BY DEF Kept
<1> QED
  BY <1>1, KeptHolds, PTL

-----------------------------------------------------------------------------
(***************************************************************************)
(* Traders.                                                                *)
(***************************************************************************)
LEMMA ChangeIsAuthorised ==
  ASSUME Inv, Orderly, [Next]_vars, NEW p \in Traders,
         \E i \in Instruments : Wealth(p, i)' # Wealth(p, i)
  PROVE  \E t \in Deals :
           /\ t.party = p
           /\ \A x \in Specs(t) : UsedUp(t, x)
           /\ ChangesBy(p, t)
<1>1. Inv'
  BY NextInv
<1>2. p \in Accounts /\ p # Operator
  BY PoolAssumption DEF Accounts
<1>3. ~Quiet
  BY <1>2 DEF Quiet
<1>4. PICK t, src : Settlement(t, src)
  BY <1>1, <1>3, StepShape
<1>5. PICK gain, back : Settles(t, src, gain, back)
  BY <1>4, SettlementSettles
<1>6. t \in Deals
  BY <1>4 DEF Settlement
<1>7. ASSUME NEW i \in Instruments
      PROVE  /\ Wealth(p, i)' = Wealth(p, i) +
                  (IF p = t.party THEN gain[i] - t.pays[i] ELSE 0)
             /\ gain[i] \in Nat /\ t.pays[i] \in Nat /\ Wealth(p, i) \in Nat
  <2>1. TypeOK
    BY DEF Inv
  <2> QED
    BY <1>1, <1>2, <1>5, <2>1, SettledWealth, WealthType
<1>8. t.party = p
  BY <1>7
<1>9. ASSUME NEW x \in Specs(t)
      PROVE  UsedUp(t, x)
  <2>1. /\ src \in [Specs(t) -> Flows]
        /\ Same(terms[src[x]], t, x) /\ x \in authored[src[x]]
        /\ authored' = Consumed(src)
    BY <1>5 DEF Settles, Supplies
  <2>2. src[x] \in Flows /\ x \notin authored'[src[x]]
    BY <2>1 DEF Consumed
  <2> QED
    BY <2>1, <2>2 DEF UsedUp
<1>10. ChangesBy(p, t)
  <2> SUFFICES ASSUME NEW i \in Instruments
               PROVE  LET received == Sum(t.gets[i])
                          change   == Wealth(p, i)' - Wealth(p, i)
                      IN  IF t.kind = "add" /\ i # "lp"
                            THEN - t.pays[i] <= change /\ change <= 0
                            ELSE change = received - t.pays[i]
    BY DEF ChangesBy
  <2>1. IF t.kind = "add" /\ i # "lp" THEN gain[i] <= t.pays[i]
                                      ELSE gain[i] = Sum(t.gets[i])
    BY <1>5 DEF Settles
  <2>2. /\ Wealth(p, i)' - Wealth(p, i) = gain[i] - t.pays[i]
        /\ gain[i] \in Nat /\ t.pays[i] \in Nat
    <3> DEFINE before == Wealth(p, i)  after == Wealth(p, i)'
    <3>1. /\ after = before + (gain[i] - t.pays[i])
          /\ before \in Nat /\ gain[i] \in Nat /\ t.pays[i] \in Nat
      BY <1>7, <1>8
    <3> HIDE DEF before, after
    <3>2. after - before = gain[i] - t.pays[i]
      BY <3>1
    <3> QED
      BY <3>1, <3>2 DEF before, after
  <2> QED
    BY <2>1, <2>2
<1> QED
  BY <1>6, <1>8, <1>9, <1>10

(* Nobody moves a trader's holdings but by what the trader authorised, in  *)
(* allocations that the step uses up: a swap or a redemption pays exactly  *)
(* the authorised legs, whatever the pool did between the request and the  *)
(* settlement, and a deposit takes at most what was offered and mints what *)
(* was authorised.  The allocations may come from several requests.        *)
THEOREM AuthorisedOnly == Spec => OnlyAsAuthorised
<1>1. Kept /\ [Next]_vars =>
        [\A p \in Traders :
           (\E i \in Instruments : Wealth(p, i)' # Wealth(p, i)) =>
             \E t \in Deals :
               /\ t.party = p
               /\ \A x \in Specs(t) : UsedUp(t, x)
               /\ ChangesBy(p, t)]_vars
  BY ChangeIsAuthorised DEF Kept
<1> QED
  BY <1>1, KeptHolds, PTL DEF Spec, OnlyAsAuthorised

-----------------------------------------------------------------------------
(***************************************************************************)
(* The market maker.                                                       *)
(***************************************************************************)
LEMMA Scaled ==
  ASSUME NEW x \in Int, NEW y \in Int, NEW r \in Nat
  PROVE  /\ x <= y => x * r <= y * r
         /\ x < y /\ r > 0 => x * r < y * r
<1>1. ASSUME x <= y PROVE x * r <= y * r
  <2>1. PICK d \in Nat : y = x + d
    BY <1>1
  <2>2. d * r \in Nat /\ y * r = x * r + d * r
    BY <2>1
  <2> QED
    BY <2>2
<1>2. ASSUME x < y, r > 0 PROVE x * r < y * r
  <2>1. PICK d \in Nat : y = x + 1 + d
    <3>1. y - x - 1 \in Nat /\ y = x + 1 + (y - x - 1)
      BY <1>2
    <3> QED
      BY <3>1
  <2>2. d * r \in Nat /\ y * r = x * r + r + d * r
    BY <2>1
  <2> QED
    BY <1>2, <2>2
<1> QED
  BY <1>1, <1>2

(* A deposit's share of one side, in LP tokens: each of the two roundings  *)
(* adds at most half an ulp.                                               *)
LEMMA ShareBySide ==
  ASSUME NEW x \in Nat, NEW supply \in Nat, NEW r \in Nat \ {0}
  PROVE  LET q == Div(Mul(x, supply), r)
         IN  q \in Nat /\ 2 * (q * r) <= 2 * (x * supply) + Scale + r
<1> DEFINE m == Mul(x, supply)
           q == Div(m, r)
<1>1. m \in Nat /\ 2 * (m * Scale) <= 2 * (x * supply) + Scale
  BY HalfEvenBounds, ScaleAssumption DEF Mul
<1> HIDE DEF m
<1>2. q \in Nat /\ 2 * (q * r) <= 2 * (m * Scale) + r
  <2>1. m * Scale \in Nat
    BY <1>1, ScaleAssumption
  <2> QED
    BY <2>1, HalfEvenBounds DEF Div
<1> HIDE DEF q
<1>3. x * supply \in Nat /\ q * r \in Nat /\ m * Scale \in Nat /\ Scale \in Nat
  BY <1>1, <1>2, ScaleAssumption
<1>4. 2 * (q * r) <= 2 * (x * supply) + Scale + r
  BY <1>1, <1>2, <1>3
<1> QED
  BY <1>2, <1>4 DEF m, q

(* The side that is not short is matched to the least amount that covers   *)
(* the reserve ratio.                                                      *)
LEMMA Matched ==
  ASSUME NEW x \in Nat \ {0}, NEW y \in Nat, NEW r \in Nat \ {0}, NEW o \in Nat \ {0},
         x * o <= y * r
  PROVE  LET u == AtMost(ceilMulDiv(x, o, r), y)
         IN  u \in Nat /\ u * r >= x * o /\ u * r < x * o + r
<1> DEFINE c == ceilMulDiv(x, o, r)
           u == AtMost(c, y)
<1>1. c \in Nat /\ c * r >= x * o /\ c * r < x * o + r
  BY CeilMulDivBounds
<1> HIDE DEF c
<1>2. u = IF c <= y THEN c ELSE y
  BY DEF AtMost
<1> HIDE DEF u
<1>3. x * o \in Nat /\ y * r \in Nat /\ c * r \in Nat /\ u \in Nat
  BY <1>1, <1>2
<1>4. u * r >= x * o
  BY <1>1, <1>2, <1>3
<1>5. u * r < x * o + r
  <2>1. CASE u = c
    BY <1>1, <2>1
  <2>2. CASE u # c
    <3>1. u = y /\ y <= c
      BY <1>1, <1>2, <2>2
    <3>2. y * r <= c * r
      BY <1>1, <3>1, Scaled
    <3>3. y * r < x * o + r
      BY <1>1, <1>3, <3>2
    <3> QED
      BY <3>1, <3>3
  <2> QED
    BY <2>1, <2>2
<1> QED
  BY <1>3, <1>4, <1>5 DEF c, u

(* What a redemption pays of a reserve, against the exact share of it.     *)
LEMMA ShareRedeemed ==
  ASSUME NEW lp \in Nat, NEW supply \in Nat \ {0}, lp <= supply, NEW r \in Nat \ {0}
  PROVE  LET out == floorMul(r, floorDiv(lp, supply))
         IN  /\ out \in Nat
             /\ (r - out) * supply >= r * (supply - lp)
             /\ (r * lp - out * supply) * Scale < supply * (r + Scale)
<1> DEFINE share == floorDiv(lp, supply)
           out   == floorMul(r, share)
<1>1. Scale \in Nat \ {0}
  BY ScaleAssumption
<1>2. /\ share \in Nat /\ share * supply <= lp * Scale
      /\ lp * Scale < share * supply + supply
  BY FloorDivBounds
<1> HIDE DEF share
<1>3. /\ out \in Nat /\ out * Scale <= r * share
      /\ r * share < out * Scale + Scale
  BY <1>2, FloorMulBounds
<1> HIDE DEF out
<1>4. (out * Scale) * supply <= (r * share) * supply
      /\ (r * share) * supply < (out * Scale + Scale) * supply
  BY <1>1, <1>2, <1>3, Scaled
<1>5. (share * supply) * r <= (lp * Scale) * r
      /\ (lp * Scale) * r < (share * supply + supply) * r
  BY <1>1, <1>2, Scaled
<1>6. /\ (out * supply) * Scale = (out * Scale) * supply
      /\ (r * share) * supply = (share * supply) * r
      /\ (lp * Scale) * r = (r * lp) * Scale
      /\ (out * Scale + Scale) * supply = (out * supply) * Scale + Scale * supply
      /\ (share * supply + supply) * r = (share * supply) * r + supply * r
  BY <1>1, <1>2, <1>3
<1> DEFINE A == (out * supply) * Scale  B == (share * supply) * r  C == (r * lp) * Scale
           D == Scale * supply  F == supply * r
<1>7. /\ A \in Nat /\ B \in Nat /\ C \in Nat /\ D \in Nat /\ F \in Nat
      /\ A <= B /\ B < A + D /\ B <= C /\ C < B + F
  BY <1>1, <1>2, <1>3, <1>4, <1>5, <1>6
<1>8. out * supply <= r * lp
  <2>1. A <= C
    BY <1>7
  <2>2. out * supply \in Nat /\ r * lp \in Nat
    BY <1>3
  <2> QED
    BY <1>1, <2>1, <2>2, CancelFactor
<1>9. (r - out) * supply >= r * (supply - lp)
  <2> DEFINE P == r * supply  Q == out * supply  T == r * lp
  <2>1. P \in Nat /\ Q \in Nat /\ T \in Nat /\ Q <= T
    BY <1>3, <1>8
  <2>2. (r - out) * supply = P - Q /\ r * (supply - lp) = P - T
    BY <1>3
  <2> HIDE DEF P, Q, T
  <2>3. P - Q >= P - T
    BY <2>1
  <2> QED
    BY <2>2, <2>3
<1>10. (r * lp - out * supply) * Scale < supply * (r + Scale)
  <2>1. /\ (r * lp - out * supply) * Scale = C - A
        /\ supply * (r + Scale) = F + D
    BY <1>1, <1>3
  <2> HIDE DEF A, B, C, D, F
  <2>2. C - A < F + D
    BY <1>7
  <2> QED
    BY <2>1, <2>2
<1> QED
  BY <1>3, <1>9, <1>10 DEF share, out

LEMMA SwapIsTrade ==
  ASSUME Inv, NEW t \in Terms, NEW side \in Sides, NEW src, NEW closed,
         SettleSwap(t, side, src, closed)
  PROVE  Market!Swap
<1> DEFINE in  == t.pays[side]
           o   == Opposite(side)
           out == AmountOut(side, in)
           R   == pool.reserve
<1>1. /\ pool.status = "Active" /\ in > 0 /\ out > 0
      /\ pool' = [pool EXCEPT !.reserve = [s \in Sides |->
                    IF s = side THEN R[s] + in ELSE R[s] - out]]
  BY DEF SettleSwap
<1>2. in \in Nat /\ o \in Sides /\ o # side /\ side \in Sides
  BY SidesFacts DEF Terms
<1>3. /\ R[side] \in Nat \ {0} /\ R[o] \in Nat \ {0} /\ out \in Nat /\ out < R[o]
      /\ (R[side] + in) * (R[o] - out) >= R[side] * R[o]
  BY <1>1, <1>2, TradeOutput
<1>4. /\ pool'.status = pool.status /\ pool'.supply = pool.supply
      /\ pool'.reserve = [s \in Sides |-> IF s = side THEN R[s] + in ELSE R[s] - out]
  BY <1>1 DEF Inv, TypeOK
<1>5. pool'.reserve[side] = R[side] + in /\ pool'.reserve[o] = R[o] - out
  BY <1>2, <1>4
<1> HIDE DEF in, out
<1>6. /\ pool'.reserve[side] > R[side] /\ 0 < pool'.reserve[o] /\ pool'.reserve[o] < R[o]
  BY <1>1, <1>2, <1>3, <1>5
<1>7. pool'.reserve["base"] * pool'.reserve["quote"] >= R["base"] * R["quote"]
  <2>1. pool'.reserve[side] * pool'.reserve[o] >= R[side] * R[o]
    BY <1>3, <1>5
  <2>2. /\ pool'.reserve[side] * pool'.reserve[o] = pool'.reserve[o] * pool'.reserve[side]
        /\ R[side] * R[o] = R[o] * R[side]
    BY <1>1, <1>2, <1>3, <1>5
  <2>3. (side = "base" /\ o = "quote") \/ (side = "quote" /\ o = "base")
    BY <1>2, SidesFacts
  <2> QED
    BY <2>1, <2>2, <2>3
<1>8. Market!Sides = Sides /\ Market!Opposite(side) = o
  BY DEF Market!Sides, Market!Opposite, Sides, Opposite
<1>9. /\ pool.status = "Active"
      /\ \E s \in Market!Sides : /\ pool'.reserve[s] > pool.reserve[s]
                                 /\ 0 < pool'.reserve[Market!Opposite(s)]
                                 /\ pool'.reserve[Market!Opposite(s)]
                                      < pool.reserve[Market!Opposite(s)]
      /\ pool'.reserve["base"] * pool'.reserve["quote"]
           >= pool.reserve["base"] * pool.reserve["quote"]
      /\ pool'.status = pool.status /\ pool'.supply = pool.supply
  BY <1>1, <1>2, <1>4, <1>6, <1>7, <1>8
<1> HIDE DEF R
<1> QED
  BY <1>9 DEF Market!Swap

LEMMA AddIsDeposit ==
  ASSUME Inv, Orderly, NEW f \in Flows, NEW src, NEW slot, SettleAdd(f, src, slot)
  PROVE  Market!Deposit
<1> DEFINE t     == terms[f]
           offer == [s \in Sides |-> t.pays[s]]
           lp    == t.gets["lp"][1]
           used  == Used(offer)
           R     == pool.reserve
           S     == pool.supply
<1>1. /\ t.kind = "add" /\ pool.status # "Paused"
      /\ Priceable(offer) /\ WithinDust(offer, lp)
      /\ \A s \in Sides : used[s] > 0
      /\ pool' = [status  |-> "Active",
                  reserve |-> [s \in Sides |-> R[s] + used[s]],
                  supply  |-> S + lp]
  BY DEF SettleAdd
<1>2. /\ R \in [Sides -> Nat] /\ S \in Nat /\ Dust \in Nat
      /\ "base" \in Sides /\ "quote" \in Sides
  BY SidesFacts, PoolAssumption DEF Inv, TypeOK
<1>3. offer \in [Sides -> Nat]
  BY TermsTyped, SidesFacts DEF Inv
<1>4. lp \in Nat /\ lp > 0
  <2>1. lp > 0
    BY <1>1 DEF Orderly, Shaped
  <2>2. t.gets["lp"] \in Seq(Nat) /\ Len(t.gets["lp"]) = 1
    BY <1>1, TermsTyped DEF Inv, TypeOK, Instruments
  <2>3. lp \in Nat
    BY <2>2, OneLegPays
  <2> QED
    BY <2>1, <2>3
<1>5. \A s \in Sides : used[s] \in Nat /\ used[s] <= offer[s]
  BY <1>1, <1>3, UsedType
<1> HIDE DEF lp, offer
<1>6. ASSUME S > 0
      PROVE  \E s \in Sides :
               /\ 2 * (lp - Dust) * R[s] <= 2 * used[s] * S + Scale + R[s]
               /\ used[Opposite(s)] * R[s] >= used[s] * R[Opposite(s)]
               /\ used[Opposite(s)] * R[s] < used[s] * R[Opposite(s)] + R[s]
  <2>1. \A s \in Sides : R[s] \in Nat \ {0}
    BY <1>1, <1>2, <1>6 DEF Priceable
  <2>2. used = ratioMatchedDeposit(R, offer)
    BY <1>6 DEF Used
  <2>3. \A s \in Sides : offer[s] \in Nat \ {0}
    BY <1>1, <1>3, <1>5
  <2> DEFINE q(s) == Div(Mul(offer[s], S), R[s])
  <2>4. \A s \in Sides : q(s) \in Nat /\ 2 * (q(s) * R[s]) <= 2 * (offer[s] * S) + Scale + R[s]
    BY <1>2, <1>3, <2>1, ShareBySide
  <2>5. FairLp(offer) = AtMost(q("base"), q("quote")) /\ lp - FairLp(offer) <= Dust
    BY <1>1, <1>6 DEF FairLp, WithinDust
  <2> HIDE DEF q, R, S, used
  <2>6. \A s \in Sides : lp - Dust <= q(s)
    <3>1. q("base") \in Nat /\ q("quote") \in Nat
      BY <1>2, <2>4
    <3>2. lp - Dust <= q("base") /\ lp - Dust <= q("quote")
      BY <1>2, <1>4, <2>5, <3>1 DEF AtMost
    <3> QED
      BY <3>2, SidesFacts
  <2>7. ASSUME NEW s \in Sides
        PROVE  2 * (lp - Dust) * R[s] <= 2 * offer[s] * S + Scale + R[s]
    <3> DEFINE x == lp - Dust  y == q(s)  r == R[s]  d == offer[s]
    <3>1. /\ x \in Int /\ y \in Nat /\ r \in Nat /\ d \in Nat /\ S \in Nat /\ Scale \in Nat
          /\ x <= y /\ 2 * (y * r) <= 2 * (d * S) + Scale + r
      BY <1>2, <1>3, <1>4, <2>1, <2>4, <2>6, ScaleAssumption
    <3> HIDE DEF x, y, r, d
    <3>2. x * r <= y * r
      BY <3>1, Scaled
    <3>3. 2 * x * r = 2 * (x * r) /\ 2 * d * S = 2 * (d * S)
          /\ x * r \in Int /\ y * r \in Nat /\ d * S \in Nat
      BY <3>1
    <3>4. 2 * x * r <= 2 * d * S + Scale + r
      BY <3>1, <3>2, <3>3
    <3> QED
      BY <3>4 DEF x, y, r, d
  <2>8. ASSUME NEW s \in Sides, used[s] = offer[s],
               offer[s] * R[Opposite(s)] <= offer[Opposite(s)] * R[s],
               used[Opposite(s)] = AtMost(ceilMulDiv(offer[s], R[Opposite(s)], R[s]),
                                          offer[Opposite(s)])
        PROVE  /\ 2 * (lp - Dust) * R[s] <= 2 * used[s] * S + Scale + R[s]
               /\ used[Opposite(s)] * R[s] >= used[s] * R[Opposite(s)]
               /\ used[Opposite(s)] * R[s] < used[s] * R[Opposite(s)] + R[s]
    <3>1. Opposite(s) \in Sides
      BY SidesFacts
    <3>2. 2 * (lp - Dust) * R[s] <= 2 * used[s] * S + Scale + R[s]
      BY <2>7, <2>8
    <3>3. /\ used[Opposite(s)] * R[s] >= used[s] * R[Opposite(s)]
          /\ used[Opposite(s)] * R[s] < used[s] * R[Opposite(s)] + R[s]
      BY <2>1, <2>3, <2>8, <3>1, Matched
    <3> QED
      BY <3>2, <3>3
  <2> DEFINE gt == compareProducts(offer["base"], R["quote"], offer["quote"], R["base"]) = "GT"
  <2>9. gt <=> offer["base"] * R["quote"] > offer["quote"] * R["base"]
    BY <1>2, <2>1, <2>3, CompareExact
  <2>10. /\ offer["base"] * R["quote"] \in Nat /\ offer["quote"] * R["base"] \in Nat
    BY <1>2, <2>1, <2>3
  <2>11. Opposite("base") = "quote" /\ Opposite("quote") = "base"
    BY DEF Opposite
  <2>12. CASE gt
    <3>1. /\ used["quote"] = offer["quote"]
          /\ used["base"] = AtMost(ceilMulDiv(offer["quote"], R["base"], R["quote"]),
                                   offer["base"])
      BY <2>2, <2>12 DEF ratioMatchedDeposit
    <3>2. offer["quote"] * R["base"] <= offer["base"] * R["quote"]
      BY <2>9, <2>10, <2>12
    <3> QED
      BY <1>2, <2>8, <2>11, <3>1, <3>2
  <2>13. CASE ~gt
    <3>1. /\ used["base"] = offer["base"]
          /\ used["quote"] = AtMost(ceilMulDiv(offer["base"], R["quote"], R["base"]),
                                    offer["quote"])
      BY <2>2, <2>13 DEF ratioMatchedDeposit
    <3>2. offer["base"] * R["quote"] <= offer["quote"] * R["base"]
      BY <2>9, <2>10, <2>13
    <3> QED
      BY <1>2, <2>8, <2>11, <3>1, <3>2
  <2> QED
    BY <2>12, <2>13
<1> DEFINE took == [s \in Sides |-> pool'.reserve[s] - R[s]]
<1>7. /\ pool'.status = "Active" /\ pool'.supply = S + lp
      /\ pool'.reserve = [s \in Sides |-> R[s] + used[s]]
  BY <1>1
<1> HIDE DEF used
<1>8. /\ \A s \in Sides : took[s] = used[s]
      /\ pool'.supply - S = lp
      /\ pool'.reserve = [s \in Sides |-> pool'.reserve[s]]
  BY <1>2, <1>4, <1>5, <1>7
<1>9. ASSUME S > 0
      PROVE  \E s \in Market!Sides : Market!PricedOn(s, took, pool'.supply - S)
  <2>1. PICK s \in Sides :
               /\ 2 * (lp - Dust) * R[s] <= 2 * used[s] * S + Scale + R[s]
               /\ used[Opposite(s)] * R[s] >= used[s] * R[Opposite(s)]
               /\ used[Opposite(s)] * R[s] < used[s] * R[Opposite(s)] + R[s]
    BY <1>6, <1>9
  <2>2. Opposite(s) \in Sides /\ Market!Sides = Sides /\ Market!Opposite(s) = Opposite(s)
    BY SidesFacts DEF Market!Sides, Market!Opposite, Sides, Opposite
  <2>3. took[s] = used[s] /\ took[Opposite(s)] = used[Opposite(s)]
    BY <1>8, <2>2
  <2> HIDE DEF took
  <2>4. Market!PricedOn(s, took, lp)
    BY <2>1, <2>2, <2>3 DEF Market!PricedOn
  <2> QED
    BY <1>8, <2>2, <2>4
<1>10. Market!Sides = Sides
  BY DEF Market!Sides, Sides
<1> QED
  BY <1>1, <1>4, <1>7, <1>8, <1>9, <1>10 DEF Market!Deposit

LEMMA RemoveIsRedemption ==
  ASSUME Inv, NEW f \in Flows, NEW src, SettleRemove(f, src)
  PROVE  Market!Redeem
<1> DEFINE lp   == terms[f].pays["lp"]
           out  == Redeemed(lp)
           left == [s \in Sides |-> pool.reserve[s] - out[s]]
           R    == pool.reserve
           S    == pool.supply
<1>1. /\ pool.status = "Active" /\ lp > 0 /\ lp <= S
      /\ \E base \in Draws(slices["base"], out["base"]),
            quote \in Draws(slices["quote"], out["quote"]) : TRUE
      /\ pool' = [status  |-> IF \A s \in Sides : left[s] = 0 THEN "Unfunded" ELSE "Active",
                  reserve |-> left,
                  supply  |-> S - lp]
  BY DEF SettleRemove
<1>2. /\ R \in [Sides -> Nat] /\ S \in Nat /\ lp \in Nat
      /\ slices["base"] \in [Slots -> Nat] /\ slices["quote"] \in [Slots -> Nat]
  BY TermsTyped, SidesFacts DEF Inv, TypeOK, Instruments
<1>3. \A s \in Sides : R[s] \in Nat \ {0}
  BY <1>1, <1>2 DEF Inv, Lifecycle
<1>4. S \in Nat \ {0}
  BY <1>1, <1>2
<1>5. \A s \in Sides : out[s] \in Nat /\ out[s] > 0
  <2>1. \A s \in Sides : out[s] \in Nat
    BY <1>2, <1>4, RedeemedType
  <2> HIDE DEF out
  <2>2. out["base"] > 0 /\ out["quote"] > 0
    BY <1>1, <1>2, <2>1, SidesFacts, LegsPay
  <2> QED
    BY <2>1, <2>2, SidesFacts
<1>6. ASSUME NEW s \in Sides
      PROVE  /\ (R[s] - out[s]) * S >= R[s] * (S - lp)
             /\ (R[s] * lp - out[s] * S) * Scale < S * (R[s] + Scale)
  <2>1. out[s] = floorMul(R[s], floorDiv(lp, S))
    BY DEF Redeemed, ShareOf
  <2> HIDE DEF out, lp, R, S
  <2> QED
    BY <1>1, <1>2, <1>3, <1>4, <2>1, ShareRedeemed
<1>7. /\ pool'.reserve = left /\ pool'.supply = S - lp
      /\ pool'.status = IF \A s \in Sides : left[s] = 0 THEN "Unfunded" ELSE "Active"
  BY <1>1
<1> HIDE DEF out, lp
<1> DEFINE paid == [s \in Sides |-> R[s] - pool'.reserve[s]]
<1>8. /\ \A s \in Sides : paid[s] = out[s] /\ pool'.reserve[s] = R[s] - out[s]
      /\ S - pool'.supply = lp /\ 0 <= pool'.supply
      /\ pool'.reserve = [s \in Sides |-> pool'.reserve[s]]
  BY <1>1, <1>2, <1>3, <1>5, <1>7
<1>9. pool'.status = IF \A s \in Sides : pool'.reserve[s] = 0 THEN "Unfunded" ELSE "Active"
  BY <1>7
<1>10. Market!Sides = Sides
  BY DEF Market!Sides, Sides
<1>11. ASSUME NEW s \in Sides
       PROVE  /\ 0 < paid[s]
              /\ pool'.reserve[s] * S >= R[s] * pool'.supply
              /\ (R[s] * (S - pool'.supply) - paid[s] * S) * Scale < S * (R[s] + Scale)
  <2> HIDE DEF paid, R, S, left
  <2> QED
    BY <1>5, <1>6, <1>7, <1>8
<1> QED
  BY <1>1, <1>8, <1>9, <1>10, <1>11 DEF Market!Redeem

(* The pool is the market maker: whatever the slices, the requests, the    *)
(* allocations and the registries do in between, every change of its       *)
(* reserves and its supply is a trade that does not lower x * y, a deposit *)
(* that mints at most its share or a redemption that dilutes nobody, as    *)
(* long as the registrar does not record a supply out of band.             *)
THEOREM MarketMaker ==
  ASSUME Overrides = {}
  PROVE  Spec => ImplementsAmm
<1>1. Init => Market!Init
  <2> SUFFICES ASSUME Init PROVE Market!Init
    OBVIOUS
  <2>1. Inv
    BY InitInv
  <2>2. /\ pool.status \in {"Unfunded", "Active"}
        /\ pool.reserve \in [Sides -> Nat] /\ pool.supply \in Nat
    BY <2>1 DEF Init, Inv, TypeOK
  <2>3. pool.status = "Active" => \A s \in Sides : pool.reserve[s] > 0
    BY <2>1, <2>2 DEF Inv, Lifecycle
  <2>4. Market!Sides = Sides
    BY DEF Market!Sides, Sides
  <2> QED
    BY <2>2, <2>3, <2>4 DEF Market!Init
<1>2. Kept /\ [Next]_vars => [Market!Next]_(Market!vars)
  <2> SUFFICES ASSUME Inv, Orderly, [Next]_vars
               PROVE  Market!Next \/ UNCHANGED Market!vars
    BY DEF Kept
  <2>1. Inv'
    BY NextInv
  <2>2. CASE Quiet
    <3>1. CASE pool' = pool
      BY <3>1 DEF Market!vars
    <3>2. CASE Pause
      <4>1. /\ pool.status = "Active" /\ pool'.status = "Paused"
            /\ pool'.reserve = pool.reserve /\ pool'.supply = pool.supply
        BY <3>2 DEF Pause, Inv, TypeOK
      <4> QED
        BY <4>1 DEF Market!Next, Market!Pause
    <3>3. CASE Resume
      <4>1. /\ pool.status = "Paused" /\ pool'.status = "Active"
            /\ pool'.reserve = pool.reserve /\ pool'.supply = pool.supply
        BY <3>3 DEF Resume, Inv, TypeOK
      <4> QED
        BY <4>1 DEF Market!Next, Market!Resume
    <3> QED
      BY <2>2, <3>1, <3>2, <3>3 DEF Quiet
  <2>3. ASSUME NEW t, NEW src, Settlement(t, src)
        PROVE  Market!Next
    <3>1. \A side \in Sides : t \in SwapsOf(side) => t \in Terms
      BY SwapOfType DEF Inv
    <3> QED
      BY <2>3, <3>1, SwapIsTrade, AddIsDeposit, RemoveIsRedemption DEF Settlement, Market!Next
  <2> QED
    BY <2>1, <2>2, <2>3, StepShape
<1> QED
  BY <1>1, <1>2, KeptHolds, PTL DEF Spec, ImplementsAmm, Market!Spec
=============================================================================
