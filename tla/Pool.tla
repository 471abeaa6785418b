-------------------------------- MODULE Pool --------------------------------
(***************************************************************************)
(* One constant-product pool of the DEX: PoolState (the contract that      *)
(* prices), its PoolSlices (the funds, one committed allocation each), the *)
(* LP policy, and the requests and allocations through which traders and   *)
(* liquidity providers authorise what the operator settles.                *)
(*                                                                         *)
(* An action is one ledger transaction: Daml applies a choice and          *)
(* everything it exercises atomically, or nothing of it.  What the actors  *)
(* do between two transactions is what interleaves.                        *)
(*                                                                         *)
(* A contract is identified by where it lives: a slice by its slot, an     *)
(* allocation by the request it was authored for and the instruments its   *)
(* specification covers; it may be settled under another request all the   *)
(* same.  PoolState, PoolSlice and policy contracts are replaced by every  *)
(* update, so reading one is reading the current one.                      *)
(***************************************************************************)
EXTENDS PoolMath, Totals, Sequences

(* A definition called Buggy... is the one after it with a plausible bug.  *)
(* Nothing uses it; PROJECT.json names the property that tells them apart. *)

CONSTANTS
  Traders,        \* parties that swap and provide liquidity
  Operator,       \* the venue: executes every settlement, owns the slices
  Flows,          \* request contracts that may be created (bound)
  Slots,          \* slices a side may hold at a time (bound)
  FeeBps,         \* the pool's fee in basis points
  Dust,           \* lpMintDustTolerance in ulps
  CrossAdmin,     \* TRUE: base and quote are issued by two registries
  InitialSlices,  \* the slices the pool is picked up with
  InitialFree,    \* the unlocked holdings of every account at that time
  SwapInputs,     \* input amounts traders try (bound)
  Offers,         \* two-sided deposits LPs offer (bound)
  Redemptions,    \* LP amounts holders redeem (bound)
  CancelsAllowed, \* TRUE: the operator uses its right to cancel allocations
  Overrides       \* supplies the registrar may record out of band (bound)

Sides       == {"base", "quote"}
Instruments == Sides \cup {"lp"}
Accounts    == Traders \cup {Operator}
Opposite(s) == IF s = "base" THEN "quote" ELSE "base"

ASSUME PoolAssumption ==
  /\ Operator \notin Traders
  /\ IsFiniteSet(Traders) /\ IsFiniteSet(Flows) /\ IsFiniteSet(Slots)
  /\ FeeBps \in Nat /\ FeeBps < 10000
  /\ Dust \in Nat
  /\ CrossAdmin \in BOOLEAN /\ CancelsAllowed \in BOOLEAN
  /\ InitialSlices \in [Sides -> [Slots -> Nat]]
  /\ \A s \in Sides : Sum(InitialSlices[s]) = 0 <=> Sum(InitialSlices[Opposite(s)]) = 0
  /\ InitialFree \in [Accounts -> [Instruments -> Nat]]
  /\ SwapInputs \subseteq Nat \ {0}
  /\ Offers \subseteq [Sides -> Nat \ {0}]
  /\ Redemptions \subseteq Nat \ {0}
  /\ Overrides \subseteq Nat

VARIABLES
  pool,       \* PoolState: status, reserve of each side, recorded LP supply
  slices,     \* PoolSlice.amount in each slot of a side, 0: no slice there
  backing,    \* what the slice's allocation locks, 0: no such allocation
  policy,     \* LPTokenPolicy: supply, active
  free,       \* unlocked holdings
  request,    \* status of each request contract
  late,       \* whether the request's settleAt has passed
  terms,      \* what the request asks its party to authorise
  authored    \* the allocations authored for the request that can be settled

vars == <<pool, slices, backing, policy, free, request, late, terms, authored>>

-----------------------------------------------------------------------------
(***************************************************************************)
(* Terms and allocation specifications.  pays[i] is what the party sends   *)
(* of instrument i; gets[i] the amounts of the legs that pay it, one leg   *)
(* per slice drawn, in order.  There is one specification per registry,    *)
(* that is, per instrument, but for a single-registry swap, whose one      *)
(* specification covers both sides.                                        *)
(***************************************************************************)
Terms == [kind  : {"none", "swap", "add", "remove"},
          party : Accounts,
          pays  : [Instruments -> Nat],
          gets  : [Instruments -> Seq(Nat)]]

Nothing == [i \in Instruments |-> 0]
NoLegs  == [i \in Instruments |-> <<>>]
NoTerms == [kind |-> "none", party |-> Operator, pays |-> Nothing, gets |-> NoLegs]

Only(i, x, otherwise) == [j \in Instruments |-> IF j = i THEN x ELSE otherwise]

SwapTerms(p, side, amount, legs) ==
  [kind |-> "swap", party |-> p,
   pays |-> Only(side, amount, 0), gets |-> Only(Opposite(side), legs, <<>>)]

AddTerms(p, offer, lp) ==
  [kind |-> "add", party |-> p,
   pays |-> [i \in Instruments |-> IF i = "lp" THEN 0 ELSE offer[i]],
   gets |-> Only("lp", <<lp>>, <<>>)]

RemoveTerms(p, lp, legs) ==
  [kind |-> "remove", party |-> p,
   pays |-> Only("lp", lp, 0),
   gets |-> [i \in Instruments |-> IF i = "lp" THEN <<>> ELSE legs[i]]]

Specs(t) ==
  IF t.kind = "none" THEN {}
  ELSE IF t.kind # "swap" THEN {{i} : i \in Instruments}
  ELSE IF CrossAdmin THEN {{s} : s \in Sides} ELSE {Sides}

(* Deposits and burns are committed: their author cannot withdraw them. *)
Committed(t, spec) ==
  \/ t.kind = "add" /\ "lp" \notin spec
  \/ t.kind = "remove" /\ "lp" \in spec

(* A specification needs at least one leg, and every leg a positive amount. *)
HasLegs(t, spec) ==
  /\ \E i \in spec : t.pays[i] > 0 \/ t.gets[i] # <<>>
  /\ \A i \in spec : \A n \in 1 .. Len(t.gets[i]) : t.gets[i][n] > 0

-----------------------------------------------------------------------------
(***************************************************************************)
(* drawFromSlices: consume the slices in the order given, each in full but *)
(* for the last, which covers the rest.  An order lists the slots whose    *)
(* slice is drawn; a longer list supplied to the code has the same effect. *)
(***************************************************************************)
Orders == {o \in UNION {[1 .. n -> Slots] : n \in 1 .. Cardinality(Slots)} :
             \A i, j \in DOMAIN o : o[i] = o[j] => i = j}

LastOf(o) == o[Len(o)]

FullyConsumed(held, o) ==
  [s \in Slots |-> IF s # LastOf(o) /\ \E i \in 1 .. Len(o) : o[i] = s THEN held[s] ELSE 0]

Rest(held, o, amount) == amount - Sum(FullyConsumed(held, o))

CanDraw(held, o, amount) ==
  /\ \A i \in 1 .. Len(o) : held[o[i]] > 0
  /\ 0 < Rest(held, o, amount)
  /\ Rest(held, o, amount) <= held[LastOf(o)]

BuggyDrawn(held, o, amount) ==
  [FullyConsumed(held, o) EXCEPT ![LastOf(o)] = held[LastOf(o)]]

Drawn(held, o, amount) ==
  [FullyConsumed(held, o) EXCEPT ![LastOf(o)] = Rest(held, o, amount)]

Draws(held, amount) == {o \in Orders : CanDraw(held, o, amount)}

LegAmounts(held, o, amount) == [i \in 1 .. Len(o) |-> Drawn(held, o, amount)[o[i]]]

(***************************************************************************)
(* The registry settles a slice's allocation when what it sends and what   *)
(* it carries forward is covered by what it locks and what it receives,    *)
(* and returns the rest to the operator, unlocked.                         *)
(***************************************************************************)
Covers(locked, received, sent, next) == locked > 0 /\ sent + next <= locked + received

BuggyDrawCovered(side, drawn) == TRUE

DrawCovered(side, drawn) ==
  \A s \in Slots : drawn[s] > 0 =>
    Covers(backing[side][s], 0, drawn[s], slices[side][s] - drawn[s])

BuggyAfterDraw(side, drawn) == backing[side]

AfterDraw(side, drawn) ==
  [s \in Slots |-> IF drawn[s] > 0 THEN slices[side][s] - drawn[s] ELSE backing[side][s]]

Surplus(side, drawn) ==
  Sum([s \in Slots |-> IF drawn[s] > 0 THEN backing[side][s] - slices[side][s] ELSE 0])

-----------------------------------------------------------------------------
(***************************************************************************)
(* Pricing against the current PoolState.                                  *)
(***************************************************************************)
AmountOut(side, amount) ==
  constantProductOut(pool.reserve[side], pool.reserve[Opposite(side)], FeeBps, amount)

ShareOf(lp) == floorDiv(lp, pool.supply)

BuggyRedeemed(lp) ==
  [s \in Sides |-> ceilMul(pool.reserve[s], ceilDiv(lp, pool.supply))]

Redeemed(lp) == [s \in Sides |-> floorMul(pool.reserve[s], ShareOf(lp))]

(* Division by an empty reserve, or Newton's by a zero guess, aborts. *)
Priceable(offer) ==
  IF pool.supply = 0
    THEN LET target == Mul(offer["base"], offer["quote"])
         IN  target = 0 \/ sqrtDecimal(target) > 0
    ELSE \A s \in Sides : pool.reserve[s] > 0

BuggyFairLp(offer) ==
  IF pool.supply = 0
    THEN sqrtDecimal(Mul(offer["base"], offer["quote"]))
    ELSE Div(Mul(offer["base"], pool.supply), pool.reserve["base"])

FairLp(offer) ==
  IF pool.supply = 0
    THEN sqrtDecimal(Mul(offer["base"], offer["quote"]))
    ELSE LET shareBy(s) == Div(Mul(offer[s], pool.supply), pool.reserve[s])
         IN  AtMost(shareBy("base"), shareBy("quote"))

WithinDust(offer, lp) == lp - FairLp(offer) <= Dust /\ FairLp(offer) - lp <= Dust

Used(offer) == IF pool.supply = 0 THEN offer ELSE ratioMatchedDeposit(pool.reserve, offer)

-----------------------------------------------------------------------------
(***************************************************************************)
(* Initial states: the pool as it is found, with its slices backed and its *)
(* LP tokens in the hands of their holders.                                *)
(***************************************************************************)
InitialLp == Sum([a \in Accounts |-> InitialFree[a]["lp"]])

\* It is new, or has reserves and LP tokens that own them.
ASSUME OwnedAssumption == \A s \in Sides : Sum(InitialSlices[s]) = 0 <=> InitialLp = 0

Init ==
  /\ pool = [status  |-> IF \E s \in Sides : Sum(InitialSlices[s]) > 0
                           THEN "Active" ELSE "Unfunded",
             reserve |-> [s \in Sides |-> Sum(InitialSlices[s])],
             supply  |-> InitialLp]
  /\ slices = InitialSlices
  /\ backing = InitialSlices
  /\ policy = [supply |-> InitialLp, active |-> TRUE]
  /\ free = InitialFree
  /\ request = [f \in Flows |-> "none"]
  /\ late = [f \in Flows |-> FALSE]
  /\ terms = [f \in Flows |-> NoTerms]
  /\ authored = [f \in Flows |-> {}]

-----------------------------------------------------------------------------
(***************************************************************************)
(* Requests.  A swap request is built by PoolRules_RequestSwap, which      *)
(* prices it and draws its output legs; liquidity requests carry what the  *)
(* backend derived from the state it read, and the ledger checks nothing.  *)
(***************************************************************************)
Post(f, t) ==
  /\ request[f] = "none"
  /\ request' = [request EXCEPT ![f] = "live"]
  /\ terms' = [terms EXCEPT ![f] = t]
  /\ UNCHANGED <<pool, slices, backing, policy, free, late, authored>>

RequestSwap(f, p, side, amount) ==
  LET out == AmountOut(side, amount)
      o   == Opposite(side)
  IN  /\ pool.status = "Active"
      /\ out > 0
      /\ \E slot \in Slots : slices[side][slot] > 0
      /\ \E order \in Draws(slices[o], out) :
           Post(f, SwapTerms(p, side, amount, LegAmounts(slices[o], order, out)))

RequestAdd(f, p, offer) ==
  /\ pool.status # "Paused"
  /\ Priceable(offer)
  /\ \E lp \in FairLp(offer) - Dust .. FairLp(offer) + Dust :
       lp > 0 /\ Post(f, AddTerms(p, offer, lp))

RequestRemove(f, p, lp) ==
  /\ pool.status # "Paused"
  /\ pool.supply > 0
  /\ LET out == Redeemed(lp)
     IN  \E base \in Draws(slices["base"], out["base"]),
            quote \in Draws(slices["quote"], out["quote"]) :
           Post(f, RemoveTerms(p, lp,
             [s \in Sides |-> LegAmounts(slices[s], IF s = "base" THEN base ELSE quote, out[s])]))

(* AllocationRequest_Accept: consumes the request; liquidity keeps a receipt. *)
Accept(f) ==
  /\ request[f] = "live"
  /\ request' = [request EXCEPT ![f] = "accepted"]
  /\ UNCHANGED <<pool, slices, backing, policy, free, late, terms, authored>>

(* AllocationRequest_Reject by the party, or _Withdraw by the operator. *)
CloseRequest(f) ==
  /\ request[f] = "live"
  /\ request' = [request EXCEPT ![f] = "gone"]
  /\ UNCHANGED <<pool, slices, backing, policy, free, late, terms, authored>>

(* The settleAt of a liquidity request passes. *)
DeadlinePasses(f) ==
  /\ request[f] \in {"live", "accepted"}
  /\ terms[f].kind # "swap"
  /\ ~late[f]
  /\ late' = [late EXCEPT ![f] = TRUE]
  /\ UNCHANGED <<pool, slices, backing, policy, free, request, terms, authored>>

-----------------------------------------------------------------------------
(***************************************************************************)
(* Allocations.  The wallet authors one per specification, locking what    *)
(* the specification pays; it may stop half-way.                           *)
(***************************************************************************)
Locks(t, spec, i) == IF i \in spec THEN t.pays[i] ELSE 0

(***************************************************************************)
(* The registry does not ask whether a holding handed over is locked: the  *)
(* party may put what one of its allocations <<g, x>> locks behind a new   *)
(* one, and the old one can no longer be settled, withdrawn or cancelled.  *)
(* Holdings are consumed until they suffice, those after that are left     *)
(* alone, and the change is unlocked.                                      *)
(***************************************************************************)
Reusable(t, spec) ==
  {a \in Flows \X SUBSET Instruments :
     /\ a[2] \in authored[a[1]]
     /\ terms[a[1]].party = t.party
     /\ \E i \in spec \cap a[2] : t.pays[i] > 0 /\ terms[a[1]].pays[i] > 0}

Retaken(taken, i) ==
  Sum([g \in Flows |-> IF \E a \in taken : a[1] = g /\ i \in a[2] THEN terms[g].pays[i] ELSE 0])

Retakes(t, spec) ==
  {taken \in SUBSET Reusable(t, spec) :
     taken # {} => \E last \in taken, i \in spec : Retaken(taken \ {last}, i) < t.pays[i]}

(* The holdings handed over have to add up to what is locked. *)
BuggyFunded(t, spec, taken) ==
  \A i \in Instruments : Locks(t, spec, i) > 0 => free[t.party][i] + Retaken(taken, i) > 0

Funded(t, spec, taken) ==
  \A i \in Instruments : Locks(t, spec, i) <= free[t.party][i] + Retaken(taken, i)

Left(g, taken) == {x \in authored[g] : <<g, x>> \notin taken}

Authorize(f, spec) ==
  LET t == terms[f]
  IN  /\ request[f] \in {"live", "accepted"}
      /\ spec \in Specs(t) \ authored[f]
      /\ HasLegs(t, spec)
      /\ \E taken \in Retakes(t, spec) :
           /\ Funded(t, spec, taken)
           /\ free' = [free EXCEPT ![t.party] = [i \in Instruments |->
                         free[t.party][i] + Retaken(taken, i) - Locks(t, spec, i)]]
           /\ authored' = [g \in Flows |->
                IF g = f THEN Left(g, taken) \cup {spec} ELSE Left(g, taken)]
      /\ UNCHANGED <<pool, slices, backing, policy, request, late, terms>>

Release(f, spec) ==
  LET t == terms[f]
  IN  /\ spec \in authored[f]
      /\ free' = [free EXCEPT ![t.party] =
                    [i \in Instruments |-> free[t.party][i] + Locks(t, spec, i)]]
      /\ authored' = [authored EXCEPT ![f] = authored[f] \ {spec}]
      /\ UNCHANGED <<pool, slices, backing, policy, request, late, terms>>

(* Allocation_Withdraw by the author: refused while committed. *)
WithdrawAllocation(f, spec) == ~Committed(terms[f], spec) /\ Release(f, spec)

(* Allocation_Cancel by the executor, which may cancel any allocation. *)
CancelAllocation(f, spec) == CancelsAllowed /\ Release(f, spec)

(* The same right over the operator's own custody: the slice contract stays. *)
CancelCustody(side, slot) ==
  /\ CancelsAllowed
  /\ backing[side][slot] > 0
  /\ free' = [free EXCEPT ![Operator][side] = @ + backing[side][slot]]
  /\ backing' = [backing EXCEPT ![side][slot] = 0]
  /\ UNCHANGED <<pool, slices, policy, request, late, terms, authored>>

(***************************************************************************)
(* The allocations a settlement consumes, one for every specification of   *)
(* what it settles.  An allocation is matched by its specification, and    *)
(* all requests of a pool name the same settlement: one that was authored  *)
(* for another request will do, whatever that request asks besides.        *)
(***************************************************************************)
Same(t, u, spec) ==
  /\ t.kind = u.kind /\ t.party = u.party
  /\ \A i \in spec : t.pays[i] = u.pays[i] /\ t.gets[i] = u.gets[i]

Supplies(t) ==
  {src \in [Specs(t) -> Flows] :
     \A x \in DOMAIN src : Same(terms[src[x]], t, x) /\ x \in authored[src[x]]}

(* A swap of what one request pays for the legs of another.                *)
SwapOf(side, g, h) ==
  SwapTerms(terms[g].party, side, terms[g].pays[side], terms[h].gets[Opposite(side)])

SwapsOf(side) == {SwapOf(side, g, h) : g \in Flows, h \in Flows}

BuggyConsumed(src) ==
  [g \in Flows |-> {x \in authored[g] : ~(x \in DOMAIN src \ {{"lp"}} /\ src[x] = g)}]

Consumed(src) ==
  [g \in Flows |-> {x \in authored[g] : ~(x \in DOMAIN src /\ src[x] = g)}]

Credit(p, amounts) == [i \in Instruments |-> free[p][i] + amounts[i]]

(* The legs recomputed at settlement have to be the authorised ones. *)
BuggyAuthorised(t, i, legs) == Len(t.gets[i]) = Len(legs)

Authorised(t, i, legs) == t.gets[i] = legs

-----------------------------------------------------------------------------
(***************************************************************************)
(* PoolRules_Swap.  Requests of these very terms may be closed with it, or *)
(* none; what binds the trader are the legs of its allocations, which have *)
(* to equal the ones recomputed from the current state.                    *)
(***************************************************************************)
Matching(t) == {g \in Flows : request[g] = "live" /\ terms[g] = t}

SettleSwap(t, side, src, closed) ==
  LET o   == Opposite(side)
      in  == t.pays[side]
      out == AmountOut(side, in)
  IN  /\ t.kind = "swap" /\ in > 0
      /\ pool.status = "Active"
      /\ out > 0
      /\ \E slot \in Slots, order \in Draws(slices[o], out) :
           LET drawn == Drawn(slices[o], order, out)
           IN  /\ slices[side][slot] > 0
               /\ Authorised(t, o, LegAmounts(slices[o], order, out))
               /\ Covers(backing[side][slot], in, 0, slices[side][slot] + in)
               /\ DrawCovered(o, drawn)
               /\ slices' = [slices EXCEPT ![side][slot] = @ + in,
                                           ![o] = Minus(slices[o], drawn)]
               /\ backing' = [backing EXCEPT ![side][slot] = slices[side][slot] + in,
                                             ![o] = AfterDraw(o, drawn)]
               /\ free' = [free EXCEPT
                             ![t.party] = Credit(t.party, Only(o, out, 0)),
                             ![Operator] = Credit(Operator, [i \in Instruments |->
                               CASE i = side -> backing[side][slot] - slices[side][slot]
                                 [] i = o    -> Surplus(o, drawn)
                                 [] OTHER    -> 0])]
      /\ pool' = [pool EXCEPT !.reserve = [s \in Sides |->
                    IF s = side THEN pool.reserve[s] + in ELSE pool.reserve[s] - out]]
      /\ authored' = Consumed(src)
      /\ request' = [g \in Flows |-> IF g \in closed THEN "gone" ELSE request[g]]
      /\ UNCHANGED <<policy, late, terms>>

(* A live request or an acceptance receipt, before its settleAt. *)
Bound(f) == request[f] \in {"live", "accepted"} /\ ~late[f]

SupplyAgrees == policy.supply = pool.supply

(***************************************************************************)
(* PoolLiquidityRules_SettleAddLiquidity: the deposit is matched to the    *)
(* current ratio, the rest refunded from the same allocations, and one new *)
(* slice per side is created with what was taken.                          *)
(***************************************************************************)
SettleAdd(f, src, slot) ==
  LET t     == terms[f]
      offer == [s \in Sides |-> t.pays[s]]
      lp    == t.gets["lp"][1]
      used  == Used(offer)
  IN  /\ t.kind = "add"
      /\ Bound(f)
      /\ pool.status # "Paused"
      /\ SupplyAgrees
      /\ policy.active
      /\ Priceable(offer) /\ WithinDust(offer, lp)
      /\ \A s \in Sides : used[s] > 0
      /\ \A s \in Sides : slices[s][slot[s]] = 0
      /\ slices' = [s \in Sides |-> [slices[s] EXCEPT ![slot[s]] = used[s]]]
      /\ backing' = [s \in Sides |-> [backing[s] EXCEPT ![slot[s]] = used[s]]]
      /\ pool' = [status  |-> "Active",
                  reserve |-> [s \in Sides |-> pool.reserve[s] + used[s]],
                  supply  |-> pool.supply + lp]
      /\ policy' = [policy EXCEPT !.supply = @ + lp]
      /\ free' = [free EXCEPT ![t.party] = Credit(t.party, [i \in Instruments |->
                    IF i = "lp" THEN lp ELSE offer[i] - used[i]])]
      /\ authored' = Consumed(src)
      /\ request' = [request EXCEPT ![f] = "gone"]
      /\ UNCHANGED <<late, terms>>

(***************************************************************************)
(* PoolLiquidityRules_SettleRemoveLiquidity.                               *)
(***************************************************************************)
SettleRemove(f, src) ==
  LET t    == terms[f]
      lp   == t.pays["lp"]
      out  == Redeemed(lp)
      left == [s \in Sides |-> pool.reserve[s] - out[s]]
  IN  /\ t.kind = "remove"
      /\ Bound(f)
      /\ pool.status = "Active"
      /\ lp > 0 /\ lp <= pool.supply
      /\ SupplyAgrees
      /\ policy.active
      /\ \E base \in Draws(slices["base"], out["base"]),
            quote \in Draws(slices["quote"], out["quote"]) :
           LET order    == [s \in Sides |-> IF s = "base" THEN base ELSE quote]
               drawn(s) == Drawn(slices[s], order[s], out[s])
           IN  /\ \A s \in Sides :
                    /\ Authorised(t, s, LegAmounts(slices[s], order[s], out[s]))
                    /\ DrawCovered(s, drawn(s))
               /\ slices' = [s \in Sides |-> Minus(slices[s], drawn(s))]
               /\ backing' = [s \in Sides |-> AfterDraw(s, drawn(s))]
               /\ free' = [free EXCEPT
                    ![t.party] = Credit(t.party, [i \in Instruments |->
                                   IF i = "lp" THEN 0 ELSE out[i]]),
                    ![Operator] = Credit(Operator, [i \in Instruments |->
                                   IF i = "lp" THEN 0 ELSE Surplus(i, drawn(i))])]
      /\ pool' = [status  |-> IF \A s \in Sides : left[s] = 0 THEN "Unfunded" ELSE "Active",
                  reserve |-> left,
                  supply  |-> pool.supply - lp]
      /\ policy' = [policy EXCEPT !.supply = @ - lp]
      /\ authored' = Consumed(src)
      /\ request' = [request EXCEPT ![f] = "gone"]
      /\ UNCHANGED <<late, terms>>

-----------------------------------------------------------------------------
BuggyPause ==
  /\ pool.status # "Paused"
  /\ pool' = [pool EXCEPT !.status = "Paused"]
  /\ UNCHANGED <<slices, backing, policy, free, request, late, terms, authored>>

Pause ==
  /\ pool.status = "Active"
  /\ pool' = [pool EXCEPT !.status = "Paused"]
  /\ UNCHANGED <<slices, backing, policy, free, request, late, terms, authored>>

Resume ==
  /\ pool.status = "Paused"
  /\ pool' = [pool EXCEPT !.status = "Active"]
  /\ UNCHANGED <<slices, backing, policy, free, request, late, terms, authored>>

(* The registrar's choices outside a settlement. *)
RecordLPSupply(n) ==
  /\ pool' = [pool EXCEPT !.supply = n]
  /\ UNCHANGED <<slices, backing, policy, free, request, late, terms, authored>>

RecordPolicySupply(n) ==
  /\ policy.active
  /\ n # policy.supply
  /\ policy' = [policy EXCEPT !.supply = n]
  /\ UNCHANGED <<pool, slices, backing, free, request, late, terms, authored>>

Deactivate ==
  /\ policy.supply = 0
  /\ policy' = [policy EXCEPT !.active = FALSE]
  /\ UNCHANGED <<pool, slices, backing, free, request, late, terms, authored>>

-----------------------------------------------------------------------------
Swaps ==
  \E side \in Sides :
    \/ \E f \in Flows, p \in Traders, amount \in SwapInputs :
         RequestSwap(f, p, side, amount)
    \/ \E t \in SwapsOf(side) :
         \E src \in Supplies(t), closed \in SUBSET Matching(t) :
           SettleSwap(t, side, src, closed)

Liquidity ==
  \E f \in Flows :
    \/ \E p \in Traders, offer \in Offers : RequestAdd(f, p, offer)
    \/ \E p \in Traders, lp \in Redemptions : RequestRemove(f, p, lp)
    \/ \E src \in Supplies(terms[f]) :
         \/ \E slot \in [Sides -> Slots] : SettleAdd(f, src, slot)
         \/ SettleRemove(f, src)

Authorization ==
  \E f \in Flows :
    \/ Accept(f) \/ CloseRequest(f) \/ DeadlinePasses(f)
    \/ \E spec \in SUBSET Instruments :
         Authorize(f, spec) \/ WithdrawAllocation(f, spec) \/ CancelAllocation(f, spec)

Administration ==
  \/ Pause \/ Resume \/ Deactivate
  \/ \E side \in Sides, slot \in Slots : CancelCustody(side, slot)
  \/ \E n \in Overrides : RecordLPSupply(n) \/ RecordPolicySupply(n)

Next == Swaps \/ Liquidity \/ Authorization \/ Administration

Spec == Init /\ [][Next]_vars
-----------------------------------------------------------------------------
(***************************************************************************)
(* Properties.                                                             *)
(***************************************************************************)

(* Every variable holds a value of its type; the terms of a deposit have   *)
(* one leg that mints.                                                     *)
TypeOK ==
  /\ pool \in [status : {"Unfunded", "Active", "Paused"},
               reserve : [Sides -> Nat], supply : Nat]
  /\ slices \in [Sides -> [Slots -> Nat]]
  /\ backing \in [Sides -> [Slots -> Nat]]
  /\ policy \in [supply : Nat, active : BOOLEAN]
  /\ free \in [Accounts -> [Instruments -> Nat]]
  /\ request \in [Flows -> {"none", "live", "accepted", "gone"}]
  /\ late \in [Flows -> BOOLEAN]
  /\ terms \in [Flows -> Terms]
  /\ \A f \in Flows : terms[f].kind = "add" => Len(terms[f].gets["lp"]) = 1
  /\ authored \in [Flows -> SUBSET SUBSET Instruments]

(* The aggregate a swap is priced against is the sum of the slices that    *)
(* hold the funds, on each side (the module invariant of PoolState).       *)
ReservesBacked == \A s \in Sides : pool.reserve[s] = Sum(slices[s])

(* PoolSlice.amount is a cache of what the slice's allocation locks: it is *)
(* exact as long as the allocation exists, and only a cancellation by the  *)
(* operator leaves a slice without one.                                    *)
SliceBacked ==
  \A s \in Sides, slot \in Slots :
    \/ backing[s][slot] = slices[s][slot]
    \/ CancelsAllowed /\ backing[s][slot] = 0

(* The operator moves pool funds in every settlement and keeps none: what  *)
(* it holds unlocked beyond its initial holdings is what the slices no     *)
(* longer back, to the ulp.                                                *)
CustodyAccounted ==
  \A s \in Sides :
    free[Operator][s] + Sum(backing[s]) = InitialFree[Operator][s] + Sum(slices[s])

(* The pool is unfunded exactly when both reserves are zero, and otherwise *)
(* both are positive: no sequence of swaps and redemptions drains one side *)
(* of a pool that still trades.                                            *)
Lifecycle ==
  \A s \in Sides : pool.status = "Unfunded" <=> pool.reserve[s] = 0

(* What the party of request f has locked in the allocations it authored,  *)
(* and what an account holds, unlocked or locked, over all requests.       *)
LockedIn(f, i) == IF \E spec \in authored[f] : i \in spec THEN terms[f].pays[i] ELSE 0

Wealth(p, i) ==
  free[p][i] + Sum([f \in Flows |-> IF terms[f].party = p THEN LockedIn(f, i) ELSE 0])

(* Base and quote are conserved: settlements, refunds, cancellations and   *)
(* withdrawals move holdings between traders, operator and slices, and     *)
(* create or destroy none.                                                 *)
Conservation ==
  \A s \in Sides :
    Sum([a \in Accounts |-> Wealth(a, s)]) + Sum(backing[s])
      = Sum([a \in Accounts |-> InitialFree[a][s]]) + Sum(InitialSlices[s])

(* Nothing is lost, to anybody: both of the above.                         *)
NothingLost == CustodyAccounted /\ Conservation

(* LP tokens in circulation, the supply the policy records and the supply  *)
(* the pool prices redemptions with are the same number, whatever requests *)
(* were replayed, crossed or abandoned.  The registrar's out-of-band       *)
(* choices can break it, hence the condition.                              *)
LpSupplyAgrees ==
  Overrides = {} =>
    /\ pool.supply = policy.supply
    /\ pool.supply = Sum([a \in Accounts |-> Wealth(a, "lp")])

(* A pool with reserves has LP tokens that own them, and the other way     *)
(* round: nothing is left for a first depositor to take.                   *)
OwnedByLps ==
  Overrides = {} => \A s \in Sides : pool.reserve[s] = 0 <=> pool.supply = 0

(* A trader's holdings change only by a deal every specification of which  *)
(* the trader authorised, in an allocation the step uses up, so that it    *)
(* counts once: a swap or a redemption pays exactly the legs that were     *)
(* authorised however the pool moved meanwhile; a deposit mints exactly    *)
(* the authorised LP tokens and takes no more than was offered.  The       *)
(* allocations may have been authored for several requests: this is what   *)
(* the ledger guarantees, and not that a request is settled as a whole.    *)
ChangesBy(p, t) ==
  \A i \in Instruments :
    LET received == Sum(t.gets[i])
        change   == Wealth(p, i)' - Wealth(p, i)
    IN  IF t.kind = "add" /\ i # "lp"
          THEN - t.pays[i] <= change /\ change <= 0
          ELSE change = received - t.pays[i]

UsedUp(t, x) ==
  \E g \in Flows : Same(terms[g], t, x) /\ x \in authored[g] /\ x \notin authored'[g]

Deals == {terms[f] : f \in Flows} \cup UNION {SwapsOf(s) : s \in Sides}

OnlyAsAuthorised ==
  [][\A p \in Traders :
       (\E i \in Instruments : Wealth(p, i)' # Wealth(p, i)) =>
         \E t \in Deals :
           /\ t.party = p
           /\ \A x \in Specs(t) : UsedUp(t, x)
           /\ ChangesBy(p, t)]_vars

(* The pool with its slices, allocations and requests implements the       *)
(* abstract market maker: trades never lower x * y, deposits mint at most  *)
(* their share, redemptions never dilute the LPs that stay.                *)
Market == INSTANCE Amm WITH
  status <- pool.status, reserve <- pool.reserve, supply <- pool.supply

ImplementsAmm == Market!Spec
=============================================================================
