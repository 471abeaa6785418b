-------------------------- MODULE OrderBookProofs ---------------------------
(***************************************************************************)
(* The safety of the order book for any orders, traders, terms, matching   *)
(* runs and scale, and any number of lost requests and answers; and what   *)
(* the matching loop proposes for any book, by an invariant of its turns.  *)
(***************************************************************************)
EXTENDS OrderBook, TotalsProofs, PoolMathProofs

OrderType == [status : Statuses, cid : Nat, since : Nat, remaining : Nat]
AllocationType == [live : SUBSET Kinds, funding : Nat, locked : Nat]
BoundType == UNION {[K -> Orders] : K \in SUBSET Kinds}

Entering == {"none", "intent", "Pending"}

(* Until it is funded, an order asks what its terms say. *)
Unspent ==
  \A o \in Orders : order[o].status \in Entering =>
    /\ order[o].cid = 0
    /\ order[o].remaining = Terms[o].quantity

(* What an allocation locks is what its view says, or nothing; an order is *)
(* bound to allocations of its trader and side, and to no empty lock.      *)
Linked ==
  /\ \A a \in Orders : allocation[a].locked \in {0, allocation[a].funding}
  /\ \A o \in Orders : \A k \in DOMAIN bound[o] :
       /\ Terms[bound[o][k]].trader = Terms[o].trader
       /\ Bid(bound[o][k]) = Bid(o)
       /\ k = "lock" => allocation[bound[o][k]].locked # 0

(* The store knows the arguments of every trade, and a trade has consumed  *)
(* the contract of the bid that it names.                                  *)
Recorded ==
  \A t \in trades :
    /\ [match |-> t.match, buyCid |-> t.buyCid, sellCid |-> t.sellCid] \in sent
    /\ t.match.buy \in Orders /\ t.buyCid \in Nat
    /\ order[t.match.buy].status \notin Entering
    /\ Funded(t.match.buy) => t.buyCid < order[t.match.buy].cid

(* The store holds one set of arguments for a cross. *)
OneRow == \A c, d \in sent : c.match = d.match =>
                               c.buyCid = d.buyCid /\ c.sellCid = d.sellCid

Inv == TypeOK /\ FundingCovers /\ Unspent /\ Linked

Once == Recorded /\ OneRow /\ SettledOnce
-----------------------------------------------------------------------------
LEMMA TermFacts ==
  ASSUME NEW o \in Orders
  PROVE  /\ Terms[o].trader \in Traders
         /\ Terms[o].side \in {"Bid", "Ask"}
         /\ Terms[o].quantity \in Nat \ {0}
         /\ Limit(o) \in Nat \ {0}
         /\ LockInstrument(o) \in Instruments
BY BookAssumption DEF Term, Limit, LockInstrument, Instruments

(* A rounded product is half an ulp off at most. *)
LEMMA MulBounds ==
  ASSUME NEW q \in Nat, NEW p \in Nat
  PROVE  /\ Mul(q, p) \in Nat
         /\ 2 * (Mul(q, p) * Scale) <= 2 * (q * p) + Scale
         /\ 2 * (q * p) <= 2 * (Mul(q, p) * Scale) + Scale
<1>1. q * p \in Nat /\ Scale \in Nat \ {0}
  BY ScaleAssumption
<1> QED
  BY <1>1, HalfEvenBounds DEF Mul

LEMMA LockNat ==
  ASSUME NEW o \in Orders
  PROVE  LockAmount(o) \in Nat
BY TermFacts, MulBounds DEF LockAmount

LEMMA StatusFacts ==
  ASSUME NEW o \in Orders
  PROVE  Funded(o) <=> order[o].status \in {"Funded", "PartiallyFilled"}
BY DEF Funded

(* A bound order names allocations, and a backed one a lock. *)
LEMMA BoundFacts ==
  ASSUME TypeOK, NEW o \in Orders
  PROVE  /\ bound[o] \in BoundType /\ DOMAIN bound[o] \subseteq Kinds
         /\ \A k \in DOMAIN bound[o] : bound[o][k] \in Orders
         /\ Backed(o) => "lock" \in DOMAIN bound[o]
<1>1. bound[o] \in BoundType
  BY DEF TypeOK, BoundType
<1>2. PICK K \in SUBSET Kinds : bound[o] \in [K -> Orders]
  BY <1>1 DEF BoundType
<1> QED
  BY <1>1, <1>2 DEF Backed, Kinds

(* Orders that lose allocations keep the others. *)
LEMMA UnboundFacts ==
  ASSUME TypeOK, NEW gone
  PROVE  /\ Unbound(gone) \in [Orders -> BoundType]
         /\ \A p \in Orders : \A k : k \in DOMAIN Unbound(gone)[p] <=>
                k \in DOMAIN bound[p] /\ <<k, bound[p][k]>> \notin gone
         /\ \A p \in Orders : \A k \in DOMAIN Unbound(gone)[p] :
              Unbound(gone)[p][k] = bound[p][k]
<1> DEFINE kept(p) == {k \in DOMAIN bound[p] : <<k, bound[p][k]>> \notin gone}
<1>1. Unbound(gone) = [p \in Orders |-> [k \in kept(p) |-> bound[p][k]]]
  BY DEF Unbound, Restrict
<1>2. ASSUME NEW p \in Orders
      PROVE  [k \in kept(p) |-> bound[p][k]] \in BoundType
  <2>1. kept(p) \in SUBSET Kinds /\ \A k \in kept(p) : bound[p][k] \in Orders
    BY BoundFacts
  <2> HIDE DEF kept
  <2>2. [k \in kept(p) |-> bound[p][k]] \in [kept(p) -> Orders]
    BY <2>1
  <2> QED
    BY <2>1, <2>2 DEF BoundType
<1> QED
  BY <1>1, <1>2

(* What a fill makes of one of its two orders. *)
LEMMA RolledSide ==
  ASSUME TypeOK, NEW o \in Orders, Funded(o), "lock" \in DOMAIN bound[o],
         NEW filled \in Nat, filled <= order[o].remaining,
         NEW spent \in Nat, spent <= Budget(o),
         now \in Nat
  PROVE  /\ RolledOrder(o, filled, spent) \in OrderType
         /\ Change(o, filled, spent) \in Nat
         /\ RolledOrder(o, filled, spent).status \in {"PartiallyFilled", "closed"}
         /\ RolledOrder(o, filled, spent).status = "PartiallyFilled"
              <=> StaysOpen(o, filled, spent)
         /\ StaysOpen(o, filled, spent) =>
              /\ RolledOrder(o, filled, spent).cid = order[o].cid + 1
              /\ RolledOrder(o, filled, spent).remaining
                   = order[o].remaining - filled
              /\ Residual(o, spent) # 0
         /\ Residual(o, spent) \in Nat /\ Residual(o, spent) = Budget(o) - spent
<1> DEFINE rest == Residual(o, spent)
<1>1. order[o] \in OrderType /\ allocation[bound[o]["lock"]] \in AllocationType
  BY BoundFacts DEF TypeOK, OrderType, AllocationType
<1>2. rest \in Nat /\ rest = Budget(o) - spent
  BY <1>1 DEF Residual, AllocationType, Budget
<1>3. order[o].remaining - filled \in Nat /\ order[o].cid + 1 \in Nat
  BY <1>1 DEF OrderType
<1> HIDE DEF rest
<1>4. CASE StaysOpen(o, filled, spent)
  BY <1>1, <1>2, <1>3, <1>4
     DEF RolledOrder, Change, OrderType, Statuses, StaysOpen, rest
<1>5. CASE ~ StaysOpen(o, filled, spent)
  BY <1>1, <1>2, <1>3, <1>5
     DEF RolledOrder, Change, OrderType, Statuses, rest
<1> QED
  BY <1>4, <1>5

(* What is left in the lock of an order of a fill. *)
Left(o, filled, spent) ==
  IF StaysOpen(o, filled, spent) THEN Residual(o, spent) ELSE 0

(* An allocation after a fill of order o. *)
LEMMA RolledParts ==
  ASSUME TypeOK, NEW o \in Orders, "lock" \in DOMAIN bound[o], NEW filled, NEW spent,
         Residual(o, spent) \in Nat, NEW a \in Orders
  PROVE  /\ RolledAllocation(o, filled, spent, a) \in AllocationType
         /\ a = bound[o]["lock"] =>
              /\ RolledAllocation(o, filled, spent, a).locked = Left(o, filled, spent)
              /\ RolledAllocation(o, filled, spent, a).funding = Left(o, filled, spent)
         /\ a # bound[o]["lock"] =>
              /\ RolledAllocation(o, filled, spent, a).locked = allocation[a].locked
              /\ RolledAllocation(o, filled, spent, a).funding = allocation[a].funding
<1> DEFINE mine == {k \in DOMAIN bound[o] : bound[o][k] = a}
           left == IF StaysOpen(o, filled, spent) THEN Residual(o, spent) ELSE 0
<1>1. allocation[a] \in AllocationType
  BY DEF TypeOK, AllocationType
<1>2. "lock" \in mine <=> a = bound[o]["lock"]
  OBVIOUS
<1>3. left \in Nat
  OBVIOUS
<1>4. RolledAllocation(o, filled, spent, a) =
        [live    |-> IF StaysOpen(o, filled, spent) THEN allocation[a].live
                     ELSE allocation[a].live \ mine,
         funding |-> IF "lock" \in mine THEN left ELSE allocation[a].funding,
         locked  |-> IF "lock" \in mine THEN left ELSE allocation[a].locked]
  BY DEF RolledAllocation
<1> HIDE DEF mine, left
<1>5. RolledAllocation(o, filled, spent, a) \in AllocationType
  BY <1>1, <1>3, <1>4 DEF AllocationType
<1> QED
  BY <1>2, <1>4, <1>5 DEF left, Left

(* The arithmetic of a fill: a payment at a price within the limit spends  *)
(* the lock half an ulp faster than the quantity at most.                  *)
LEMMA Isotone ==
  ASSUME NEW q \in Nat, NEW p \in Nat, NEW limit \in Nat, p <= limit
  PROVE  q * p <= q * limit
<1>1. limit = p + (limit - p) /\ limit - p \in Nat
  OBVIOUS
<1>2. q * limit = q * p + q * (limit - p)
  BY <1>1
<1>3. q * (limit - p) \in Nat /\ q * p \in Nat
  BY <1>1
<1> QED
  BY <1>2, <1>3

LEMMA BidPays ==
  ASSUME NEW locked \in Nat, NEW remaining \in Nat, NEW cid \in Nat,
         NEW limit \in Nat, NEW q \in Nat, NEW p \in Nat,
         q <= remaining, p <= limit, Mul(q, p) <= locked,
         2 * Scale * locked + Scale * cid >= 2 * remaining * limit
  PROVE  2 * Scale * (locked - Mul(q, p)) + Scale * (cid + 1)
           >= 2 * (remaining - q) * limit
<1> DEFINE pay == Mul(q, p)
<1>0. Scale \in Nat
  BY ScaleAssumption
<1>1. pay \in Nat /\ 2 * (pay * Scale) <= 2 * (q * p) + Scale
  BY MulBounds
<1> HIDE DEF pay
<1>2. q * p <= q * limit
  BY Isotone
<1>3. q * limit \in Nat /\ q * p \in Nat /\ remaining * limit \in Nat
      /\ pay * Scale \in Nat /\ Scale * locked \in Nat /\ Scale * cid \in Nat
  BY <1>0, <1>1
<1>4. (remaining - q) * limit = remaining * limit - q * limit
  OBVIOUS
<1>5. Scale * (locked - pay) = Scale * locked - pay * Scale
  BY <1>0, <1>1
<1>6. Scale * (cid + 1) = Scale * cid + Scale
  BY <1>0
<1>7. 2 * (Scale * locked) + Scale * cid >= 2 * (remaining * limit)
  BY <1>0, <1>3
<1>8. 2 * (Scale * (locked - pay)) + Scale * (cid + 1)
        >= 2 * ((remaining - q) * limit)
  BY <1>0, <1>1, <1>2, <1>3, <1>4, <1>5, <1>6, <1>7
<1>9. locked - pay \in Nat /\ remaining - q \in Nat
  BY <1>1 DEF pay
<1> QED
  BY <1>0, <1>8, <1>9 DEF pay
-----------------------------------------------------------------------------
(* One cell of the unlocked holdings changes. *)
LEMMA FreeCell ==
  ASSUME free \in [Traders -> [Instruments -> Nat]],
         NEW t \in Traders, NEW i \in Instruments, NEW n \in Nat
  PROVE  [free EXCEPT ![t][i] = n]
           \in [Traders -> [Instruments -> Nat]]
<1>1. free[t] \in [Instruments -> Nat]
  OBVIOUS
<1>2. [free[t] EXCEPT ![i] = n] \in [Instruments -> Nat]
  BY <1>1
<1> QED
  BY <1>2

LEMMA ReleasedType ==
  ASSUME TypeOK, NEW a \in Orders
  PROVE  Released(a) \in [Traders -> [Instruments -> Nat]]
<1> DEFINE t == Terms[a].trader
           i == LockInstrument(a)
           n == free[t][i] + allocation[a].locked
<1>1. t \in Traders /\ i \in Instruments
  BY TermFacts
<1>2. free \in [Traders -> [Instruments -> Nat]] /\ allocation[a].locked \in Nat
  BY DEF TypeOK
<1>3. n \in Nat
  BY <1>1, <1>2
<1>4. Released(a) = [free EXCEPT ![t][i] = n]
  BY DEF Released
<1> HIDE DEF t, i, n
<1> QED
  BY <1>1, <1>2, <1>3, <1>4, FreeCell

LEMMA WithStatus ==
  ASSUME NEW r \in OrderType, NEW s \in Statuses
  PROVE  LET q == [r EXCEPT !.status = s]
         IN  /\ q \in OrderType
             /\ q.status = s /\ q.cid = r.cid /\ q.remaining = r.remaining
BY DEF OrderType

(* Orders may close, and lose allocations, but those they keep lock what   *)
(* they did.                                                               *)
LEMMA NarrowingStep ==
  ASSUME Inv, order' \in [Orders -> OrderType], allocation' \in [Orders -> AllocationType],
         bound' \in [Orders -> BoundType], free' \in [Traders -> [Instruments -> Nat]],
         UNCHANGED <<expired, now>>,
         \A a \in Orders : allocation'[a].locked \in {0, allocation'[a].funding},
         \A o \in Orders : \A k \in DOMAIN bound'[o] :
           /\ k \in DOMAIN bound[o] /\ bound'[o][k] = bound[o][k]
           /\ k = "lock" => allocation'[bound[o][k]].locked = allocation[bound[o][k]].locked,
         \A o \in Orders :
           /\ Funded(o)' => Funded(o) /\ order'[o].cid = order[o].cid
                                       /\ order'[o].remaining = order[o].remaining
           /\ order'[o].status \in Entering =>
                /\ order[o].status \in Entering
                /\ order'[o].cid = order[o].cid /\ order'[o].remaining = order[o].remaining
  PROVE  Inv'
<1>1. TypeOK'
  BY DEF Inv, TypeOK, OrderType, AllocationType, BoundType
<1>2. FundingCovers'
  <2> SUFFICES ASSUME NEW o \in Orders, Funded(o)', "lock" \in DOMAIN bound'[o]
               PROVE  IF Bid(o)
                      THEN 2 * Scale * allocation'[bound'[o]["lock"]].locked
                             + Scale * order'[o].cid >= 2 * order'[o].remaining * Limit(o)
                      ELSE allocation'[bound'[o]["lock"]].locked = order'[o].remaining
    BY DEF FundingCovers, Bid, Limit, Budget
  <2>1. allocation'[bound'[o]["lock"]].locked = Budget(o) /\ "lock" \in DOMAIN bound[o]
    BY DEF Budget
  <2> QED
    BY <2>1 DEF Inv, FundingCovers
<1>3. Linked'
  BY DEF Inv, Linked, Bid
<1>4. Unspent'
  BY DEF Inv, Unspent
<1> QED
  BY <1>1, <1>2, <1>3, <1>4 DEF Inv

(* Orders whose status alone changes, to one that is not funded. *)
LEMMA StatusRecord ==
  ASSUME TypeOK, NEW o \in Orders, NEW s \in {"intent", "Pending", "closed"}, SetStatus(o, s)
  PROVE  /\ order' \in [Orders -> OrderType]
         /\ order'[o].status = s /\ order'[o].cid = order[o].cid
         /\ order'[o].remaining = order[o].remaining
         /\ \A p \in Orders : p # o => order'[p] = order[p]
<1> DEFINE q == [order[o] EXCEPT !.status = s]
<1>1. order \in [Orders -> OrderType] /\ order[o] \in OrderType /\ s \in Statuses
  BY DEF TypeOK, OrderType, Statuses
<1>2. q \in OrderType /\ q.status = s /\ q.cid = order[o].cid
      /\ q.remaining = order[o].remaining
  BY <1>1, WithStatus
<1>3. order' = [order EXCEPT ![o] = q]
  BY DEF SetStatus
<1> HIDE DEF q
<1> QED
  BY <1>1, <1>2, <1>3

LEMMA StatusStep ==
  ASSUME Inv, NEW o \in Orders, NEW s \in {"intent", "Pending", "closed"},
         SetStatus(o, s), s \in Entering => order[o].status \in Entering,
         UNCHANGED <<allocation, bound, free, expired, now>>
  PROVE  Inv'
<1>1. /\ order' \in [Orders -> OrderType]
      /\ order'[o].status = s /\ order'[o].cid = order[o].cid
      /\ order'[o].remaining = order[o].remaining
      /\ \A p \in Orders : p # o => order'[p] = order[p]
  BY StatusRecord DEF Inv
<1>2. /\ allocation \in [Orders -> AllocationType] /\ bound \in [Orders -> BoundType]
      /\ free \in [Traders -> [Instruments -> Nat]]
      /\ \A a \in Orders : allocation[a].locked \in {0, allocation[a].funding}
  BY DEF Inv, TypeOK, AllocationType, BoundType, Linked
<1>3. \A p \in Orders :
        /\ Funded(p)' => Funded(p) /\ order'[p].cid = order[p].cid
                                    /\ order'[p].remaining = order[p].remaining
        /\ order'[p].status \in Entering =>
             /\ order[p].status \in Entering
             /\ order'[p].cid = order[p].cid /\ order'[p].remaining = order[p].remaining
  BY <1>1 DEF Funded
<1> QED
  BY <1>1, <1>2, <1>3, NarrowingStep

(* The orders stay; an allocation that changes is bound to no order then.  *)
LEMMA AllocationStep ==
  ASSUME Inv, allocation' \in [Orders -> AllocationType],
         NEW gone, bound' = Unbound(gone),
         free' \in [Traders -> [Instruments -> Nat]],
         UNCHANGED <<order, expired, now>>,
         \A a \in Orders : allocation'[a].locked \in {0, allocation'[a].funding},
         \A a \in Orders : \/ allocation'[a].locked = allocation[a].locked
                           \/ allocation[a].locked = 0
                           \/ <<"lock", a>> \in gone
  PROVE  Inv'
<1>1. /\ bound' \in [Orders -> BoundType]
      /\ \A p \in Orders : \A k : k \in DOMAIN bound'[p] <=>
             k \in DOMAIN bound[p] /\ <<k, bound[p][k]>> \notin gone
      /\ \A p \in Orders : \A k \in DOMAIN bound'[p] : bound'[p][k] = bound[p][k]
  BY UnboundFacts DEF Inv
<1>2. ASSUME NEW p \in Orders, NEW k \in DOMAIN bound'[p]
      PROVE  /\ k \in DOMAIN bound[p] /\ bound'[p][k] = bound[p][k]
             /\ k = "lock" => allocation'[bound[p][k]].locked = allocation[bound[p][k]].locked
  <2>1. k \in DOMAIN bound[p] /\ <<k, bound[p][k]>> \notin gone /\ bound[p][k] \in Orders
    BY <1>1, <1>2, BoundFacts DEF Inv
  <2>2. k = "lock" => allocation[bound[p][k]].locked # 0
    BY <2>1 DEF Inv, Linked
  <2> QED
    BY <1>1, <2>1, <2>2
<1>3. order' \in [Orders -> OrderType]
  BY DEF Inv, TypeOK, OrderType
<1>4. \A p \in Orders : Funded(p)' <=> Funded(p)
  BY DEF Funded
<1> QED
  BY <1>1, <1>2, <1>3, <1>4, NarrowingStep

LEMMA RetakenNat ==
  ASSUME TypeOK, NEW taken \in SUBSET Orders
  PROVE  Retaken(taken) \in Nat
<1>1. IsFiniteSet(taken) /\ [a \in taken |-> allocation[a].locked] \in [taken -> Nat]
  BY BookAssumption, FS_Subset DEF TypeOK
<1> QED
  BY <1>1, SumNat DEF Retaken

(* What authoring a lock does to the allocations. *)
LEMMA AuthorParts ==
  ASSUME TypeOK, NEW o \in Orders, AuthorLock(o)
  PROVE  \E taken \in SUBSET Reusable(o) :
           /\ LockAmount(o) <= free[Terms[o].trader][LockInstrument(o)] + Retaken(taken)
           /\ free' = [free EXCEPT ![Terms[o].trader][LockInstrument(o)]
                         = @ + Retaken(taken) - LockAmount(o)]
           /\ bound' = Unbound({"lock"} \X taken)
           /\ allocation' \in [Orders -> AllocationType]
           /\ allocation'[o].locked = LockAmount(o) /\ allocation'[o].funding = LockAmount(o)
           /\ \A a \in taken : /\ allocation'[a].locked = 0
                                /\ allocation'[a].funding = allocation[a].funding
           /\ \A a \in Orders : a # o /\ a \notin taken => allocation'[a] = allocation[a]
<1> DEFINE made == [live |-> allocation[o].live \cup {"lock"},
                    funding |-> LockAmount(o), locked |-> LockAmount(o)]
           spent(a) == [allocation[a] EXCEPT !.locked = 0]
<1>1. PICK taken \in Retakes(o) :
        /\ LockAmount(o) <= free[Terms[o].trader][LockInstrument(o)] + Retaken(taken)
        /\ free' = [free EXCEPT ![Terms[o].trader][LockInstrument(o)]
                      = @ + Retaken(taken) - LockAmount(o)]
        /\ allocation' = [a \in Orders |-> IF a = o THEN made
                           ELSE IF a \in taken THEN spent(a) ELSE allocation[a]]
        /\ bound' = Unbound({"lock"} \X taken)
  BY DEF AuthorLock
<1>2. \A a \in Orders : allocation[a] \in AllocationType
  BY DEF TypeOK, AllocationType
<1>3. taken \in SUBSET Reusable(o) /\ taken \subseteq Orders \ {o}
  BY DEF Retakes, Reusable
<1>4. made \in AllocationType /\ made.locked = LockAmount(o) /\ made.funding = LockAmount(o)
  BY <1>2, LockNat DEF AllocationType, Kinds
<1>5. \A a \in Orders : /\ spent(a) \in AllocationType /\ spent(a).locked = 0
                         /\ spent(a).funding = allocation[a].funding
  BY <1>2 DEF AllocationType
<1> HIDE DEF made, spent
<1>6. /\ allocation' \in [Orders -> AllocationType] /\ allocation'[o] = made
      /\ \A a \in taken : allocation'[a] = spent(a)
      /\ \A a \in Orders : a # o /\ a \notin taken => allocation'[a] = allocation[a]
  BY <1>1, <1>2, <1>3, <1>4, <1>5
<1> QED
  BY <1>1, <1>3, <1>4, <1>5, <1>6

LEMMA AuthorKeepsInv ==
  ASSUME Inv, NEW o \in Orders, AuthorLock(o)
  PROVE  Inv'
<1> DEFINE t == Terms[o].trader
           i == LockInstrument(o)
<1>1. TypeOK
  BY DEF Inv
<1>2. PICK taken \in SUBSET Reusable(o) :
        /\ LockAmount(o) <= free[t][i] + Retaken(taken)
        /\ free' = [free EXCEPT ![t][i] = @ + Retaken(taken) - LockAmount(o)]
        /\ bound' = Unbound({"lock"} \X taken)
        /\ allocation' \in [Orders -> AllocationType]
        /\ allocation'[o].locked = LockAmount(o) /\ allocation'[o].funding = LockAmount(o)
        /\ \A a \in taken : /\ allocation'[a].locked = 0
                             /\ allocation'[a].funding = allocation[a].funding
        /\ \A a \in Orders : a # o /\ a \notin taken => allocation'[a] = allocation[a]
  BY <1>1, AuthorParts
<1> DEFINE rest == free[t][i] + Retaken(taken) - LockAmount(o)
<1>3. t \in Traders /\ i \in Instruments /\ LockAmount(o) \in Nat
      /\ Retaken(taken) \in Nat /\ free \in [Traders -> [Instruments -> Nat]]
  BY <1>1, TermFacts, LockNat, RetakenNat DEF Reusable, TypeOK
<1>4. free' \in [Traders -> [Instruments -> Nat]]
  <2>1. rest \in Nat
    BY <1>2, <1>3
  <2>2. free' = [free EXCEPT ![t][i] = rest]
    BY <1>2
  <2> HIDE DEF rest, t, i
  <2> QED
    BY <1>3, <2>1, <2>2, FreeCell
<1>5. \A a \in Orders : allocation'[a].locked \in {0, allocation'[a].funding}
  BY <1>2 DEF Inv, Linked
<1>6. UNCHANGED <<order, expired, now>> /\ allocation[o].locked = 0
  BY DEF AuthorLock
<1>7. \A a \in Orders : \/ allocation'[a].locked = allocation[a].locked
                        \/ allocation[a].locked = 0
                        \/ <<"lock", a>> \in {"lock"} \X taken
  BY <1>2, <1>6
<1> QED
  BY <1>2, <1>4, <1>5, <1>6, <1>7, AllocationStep

LEMMA ReceiptKeepsInv ==
  ASSUME Inv, NEW o \in Orders, AuthorReceipt(o)
  PROVE  Inv'
<1> DEFINE made == [allocation[o] EXCEPT !.live = @ \cup {"receipt"}]
<1>1. allocation \in [Orders -> AllocationType] /\ bound \in [Orders -> BoundType]
      /\ order \in [Orders -> OrderType]
  BY DEF Inv, TypeOK, AllocationType, BoundType, OrderType
<1>2. /\ made \in AllocationType /\ made.locked = allocation[o].locked
      /\ made.funding = allocation[o].funding
  BY <1>1 DEF AuthorReceipt, AllocationType, Kinds
<1>3. /\ allocation' = [allocation EXCEPT ![o] = made]
      /\ UNCHANGED <<order, bound, free, expired, now>>
  BY DEF AuthorReceipt
<1> HIDE DEF made
<1>4. /\ allocation' \in [Orders -> AllocationType]
      /\ \A a \in Orders : /\ allocation'[a].locked = allocation[a].locked
                            /\ allocation'[a].funding = allocation[a].funding
  BY <1>1, <1>2, <1>3
<1>5. \A a \in Orders : allocation'[a].locked \in {0, allocation'[a].funding}
  BY <1>4 DEF Inv, Linked
<1>6. \A p \in Orders : \A k \in DOMAIN bound'[p] :
        /\ k \in DOMAIN bound[p] /\ bound'[p][k] = bound[p][k] /\ bound[p][k] \in Orders
  BY <1>3, BoundFacts DEF Inv
<1>7. free' \in [Traders -> [Instruments -> Nat]] /\ \A p \in Orders : Funded(p)' <=> Funded(p)
  BY <1>3 DEF Inv, TypeOK, Funded
<1> QED
  BY <1>1, <1>3, <1>4, <1>5, <1>6, <1>7, NarrowingStep

(* What the end of some allocations does to all of them. *)
LEMMA ArchiveParts ==
  ASSUME TypeOK, NEW gone, Archive(gone)
  PROVE  /\ allocation' \in [Orders -> AllocationType]
         /\ bound' = Unbound(gone)
         /\ \A a \in Orders :
              /\ <<"lock", a>> \in gone => allocation'[a].locked = 0
              /\ <<"lock", a>> \notin gone => /\ allocation'[a].locked = allocation[a].locked
                                             /\ allocation'[a].funding = allocation[a].funding
<1> DEFINE x(a) == [live    |-> {k \in allocation[a].live : <<k, a>> \notin gone},
                    funding |-> IF <<"lock", a>> \in gone THEN 0 ELSE allocation[a].funding,
                    locked  |-> IF <<"lock", a>> \in gone THEN 0 ELSE allocation[a].locked]
<1>1. allocation' = [a \in Orders |-> x(a)] /\ bound' = Unbound(gone)
  BY DEF Archive
<1>2. \A a \in Orders : allocation[a] \in AllocationType
  BY DEF TypeOK, AllocationType
<1>3. \A a \in Orders : x(a) \in AllocationType
  BY <1>2 DEF AllocationType
<1>4. \A a \in Orders :
        /\ <<"lock", a>> \in gone => x(a).locked = 0
        /\ <<"lock", a>> \notin gone => /\ x(a).locked = allocation[a].locked
                                       /\ x(a).funding = allocation[a].funding
  OBVIOUS
<1> HIDE DEF x
<1> QED
  BY <1>1, <1>3, <1>4

LEMMA WithdrawKeepsInv ==
  ASSUME Inv, NEW a \in Orders, NEW k \in Kinds, Withdraw(a, k)
  PROVE  Inv'
<1> DEFINE gone == {<<k, a>>}
<1>1. TypeOK /\ Archive(gone) /\ UNCHANGED <<order, expired, now>>
  BY DEF Inv, Withdraw
<1>2. free' \in [Traders -> [Instruments -> Nat]]
  BY <1>1, ReleasedType DEF Withdraw, TypeOK
<1> HIDE DEF gone
<1>3. /\ allocation' \in [Orders -> AllocationType]
      /\ bound' = Unbound(gone)
      /\ \A x \in Orders :
           /\ <<"lock", x>> \in gone => allocation'[x].locked = 0
           /\ <<"lock", x>> \notin gone => /\ allocation'[x].locked = allocation[x].locked
                                          /\ allocation'[x].funding = allocation[x].funding
  BY <1>1, ArchiveParts
<1>4. \A x \in Orders : allocation'[x].locked \in {0, allocation'[x].funding}
  BY <1>3 DEF Inv, Linked
<1> QED
  BY <1>1, <1>2, <1>3, <1>4, AllocationStep

(* A lock covers the order it was made for, up to half an ulp. *)
LEMMA LockCovers ==
  ASSUME NEW o \in Orders, Bid(o)
  PROVE  2 * Scale * LockAmount(o) + Scale * 1 >= 2 * Terms[o].quantity * Limit(o)
<1> DEFINE q == Terms[o].quantity
           l == Limit(o)
           n == LockAmount(o)
<1>1. q \in Nat /\ l \in Nat /\ Scale \in Nat
  BY TermFacts, ScaleAssumption
<1>2. n = Mul(q, l)
  BY DEF LockAmount
<1>3. n \in Nat /\ 2 * (q * l) <= 2 * (n * Scale) + Scale
  BY <1>1, <1>2, MulBounds
<1> HIDE DEF q, l, n
<1>4. q * l \in Nat /\ n * Scale \in Nat /\ n * Scale = Scale * n
  BY <1>1, <1>3
<1>5. 2 * Scale * n = 2 * (Scale * n) /\ 2 * q * l = 2 * (q * l)
  BY <1>1, <1>3
<1>6. 2 * Scale * n + Scale * 1 >= 2 * q * l
  BY <1>1, <1>3, <1>4, <1>5
<1> QED
  BY <1>6 DEF q, l, n

LEMMA FundParts ==
  ASSUME TypeOK, NEW o \in Orders, Fund(o)
  PROVE  \E c :
           /\ bound' = [bound EXCEPT ![o] = c] /\ c \in BoundType
           /\ \A k \in DOMAIN c : k \in Kinds /\ c[k] \in Orders /\ Fits(o, k, c[k])
                                /\ ~ Spent(k, c[k])
<1>1. PICK chosen \in [Kinds -> Orders] :
        /\ \A k \in Kinds : Fits(o, k, chosen[k])
        /\ bound' = [bound EXCEPT
             ![o] = Restrict(chosen, {k \in Kinds : ~ Spent(k, chosen[k])})]
  BY DEF Fund
<1> DEFINE K == {k \in Kinds : ~ Spent(k, chosen[k])}
           c == [k \in K |-> chosen[k]]
<1>2. bound' = [bound EXCEPT ![o] = c]
  BY <1>1 DEF Restrict
<1>3. K \in SUBSET Kinds /\ c \in [K -> Orders]
  OBVIOUS
<1>4. c \in BoundType
  <2> HIDE DEF K, c
  <2> QED
    BY <1>3 DEF BoundType
<1>5. \A k \in DOMAIN c : k \in Kinds /\ c[k] \in Orders /\ Fits(o, k, c[k]) /\ ~ Spent(k, c[k])
  BY <1>1
<1> HIDE DEF c
<1> QED
  BY <1>2, <1>4, <1>5

LEMMA FundKeepsInv ==
  ASSUME Inv, NEW o \in Orders, Fund(o)
  PROVE  Inv'
<1> DEFINE q == [status |-> "Funded", remaining |-> order[o].remaining,
                 cid |-> order[o].cid + 1, since |-> now]
<1>0. PICK c : /\ bound' = [bound EXCEPT ![o] = c] /\ c \in BoundType
               /\ \A k \in DOMAIN c : k \in Kinds /\ c[k] \in Orders /\ Fits(o, k, c[k])
                                    /\ ~ Spent(k, c[k])
  BY FundParts DEF Inv
<1>1. /\ order' = [order EXCEPT ![o] = q]
      /\ now' = now + 1
      /\ UNCHANGED <<allocation, free, expired>>
      /\ order[o].status = "Pending"
  BY DEF Fund
<1>2. order \in [Orders -> OrderType] /\ order[o] \in OrderType /\ now \in Nat
      /\ bound \in [Orders -> BoundType]
  BY DEF Inv, TypeOK, OrderType, BoundType
<1>3. q \in OrderType
  BY <1>2 DEF OrderType, Statuses
<1>4. q.cid = 1 /\ q.remaining = Terms[o].quantity /\ q.status = "Funded"
  BY <1>1 DEF Inv, Unspent, Entering
<1> HIDE DEF q
<1>5. /\ order' \in [Orders -> OrderType] /\ bound' \in [Orders -> BoundType]
      /\ order'[o] = q /\ bound'[o] = c
      /\ \A p \in Orders : p # o => order'[p] = order[p] /\ bound'[p] = bound[p]
  BY <1>0, <1>1, <1>2, <1>3
<1>6. TypeOK'
  <2>1. now' \in Nat
    BY <1>1, <1>2
  <2> QED
    BY <1>1, <1>5, <2>1 DEF Inv, TypeOK, OrderType, BoundType
<1>7. "lock" \in DOMAIN c => allocation[c["lock"]].locked = LockAmount(o)
                            /\ allocation[c["lock"]].locked # 0
  BY <1>0 DEF Fits, Spent, Inv, Linked
<1>8. FundingCovers'
  <2> SUFFICES ASSUME NEW p \in Orders, Funded(p)', "lock" \in DOMAIN bound'[p]
               PROVE  IF Bid(p)
                      THEN 2 * Scale * allocation[bound'[p]["lock"]].locked
                             + Scale * order'[p].cid >= 2 * order'[p].remaining * Limit(p)
                      ELSE allocation[bound'[p]["lock"]].locked = order'[p].remaining
    BY <1>1 DEF FundingCovers, Bid, Limit, Budget
  <2>1. CASE p = o
    BY <1>4, <1>5, <1>7, <2>1, LockCovers DEF LockAmount
  <2>2. CASE p # o
    BY <1>5, <2>2 DEF Inv, FundingCovers, Funded, Budget
  <2> QED
    BY <2>1, <2>2
<1>9. Unspent'
  BY <1>1, <1>4, <1>5 DEF Inv, Unspent, Entering
<1>10. Linked'
  <2>1. \A a \in Orders : allocation'[a].locked \in {0, allocation'[a].funding}
    BY <1>1 DEF Inv, Linked
  <2>2. ASSUME NEW p \in Orders, NEW k \in DOMAIN bound'[p]
        PROVE  /\ Terms[bound'[p][k]].trader = Terms[p].trader
               /\ Bid(bound'[p][k]) = Bid(p)
               /\ k = "lock" => allocation[bound'[p][k]].locked # 0
    <3>1. CASE p = o
      BY <1>0, <1>5, <1>7, <2>2, <3>1 DEF Fits
    <3>2. CASE p # o
      BY <1>5, <2>2, <3>2 DEF Inv, Linked
    <3> QED
      BY <3>1, <3>2
  <2> QED
    BY <1>1, <2>1, <2>2 DEF Linked, Bid
<1> QED
  BY <1>6, <1>8, <1>9, <1>10 DEF Inv

LEMMA CancelKeepsInv ==
  ASSUME Inv, NEW o \in Orders, Cancel(o)
  PROVE  Inv'
<1>1. SetStatus(o, "closed") /\ UNCHANGED <<expired, now>> /\ TypeOK
  BY DEF Cancel, Inv
<1>2. CASE UNCHANGED <<allocation, bound, free>>
  BY <1>1, <1>2, StatusStep DEF Entering
<1>3. CASE /\ Backed(o)
           /\ free' = Released(bound[o]["lock"])
           /\ Archive(Uses(o))
  <2>1. /\ order' \in [Orders -> OrderType]
        /\ order'[o].status = "closed"
        /\ \A p \in Orders : p # o => order'[p] = order[p]
    BY <1>1, StatusRecord
  <2> DEFINE gone == Uses(o)
  <2>2. /\ allocation' \in [Orders -> AllocationType]
        /\ bound' = Unbound(gone)
        /\ \A x \in Orders :
             /\ <<"lock", x>> \in gone => allocation'[x].locked = 0
             /\ <<"lock", x>> \notin gone => /\ allocation'[x].locked = allocation[x].locked
                                            /\ allocation'[x].funding = allocation[x].funding
    <3>1. Archive(gone)
      BY <1>3
    <3> HIDE DEF gone
    <3> QED
      BY <1>1, <3>1, ArchiveParts
  <2>3. free' \in [Traders -> [Instruments -> Nat]]
    BY <1>1, <1>3, BoundFacts, ReleasedType
  <2> HIDE DEF gone
  <2>4. /\ bound' \in [Orders -> BoundType]
        /\ \A p \in Orders : \A k \in DOMAIN bound'[p] :
             /\ k \in DOMAIN bound[p] /\ <<k, bound[p][k]>> \notin gone
             /\ bound'[p][k] = bound[p][k]
    BY <1>1, <2>2, UnboundFacts
  <2>5. \A p \in Orders : \A k \in DOMAIN bound'[p] :
          /\ k \in DOMAIN bound[p] /\ bound'[p][k] = bound[p][k]
          /\ k = "lock" => allocation'[bound[p][k]].locked = allocation[bound[p][k]].locked
    BY <1>1, <2>2, <2>4, BoundFacts
  <2>6. \A x \in Orders : allocation'[x].locked \in {0, allocation'[x].funding}
    BY <2>2 DEF Inv, Linked
  <2>7. \A p \in Orders :
          /\ Funded(p)' => Funded(p) /\ order'[p] = order[p]
          /\ order'[p].status \in Entering => order'[p] = order[p]
    BY <2>1 DEF Funded, Entering
  <2> QED
    BY <1>1, <2>1, <2>2, <2>3, <2>4, <2>5, <2>6, <2>7, NarrowingStep
<1> QED
  BY <1>2, <1>3 DEF Cancel

(* The amounts and orders of a fill, from what Accepted and Covered require. *)
LEMMA FillFacts ==
  ASSUME TypeOK, NEW m, NEW cb, NEW cs, Accepted(m, cb, cs), Covered(m)
  PROVE  /\ m.buy \in Orders /\ m.sell \in Orders /\ m.buy # m.sell
         /\ Funded(m.buy) /\ Funded(m.sell) /\ Bid(m.buy) /\ ~ Bid(m.sell)
         /\ Terms[m.buy].trader # Terms[m.sell].trader
         /\ Terms[m.buy].trader \in Traders /\ Terms[m.sell].trader \in Traders
         /\ "lock" \in DOMAIN bound[m.buy] /\ "lock" \in DOMAIN bound[m.sell]
         /\ bound[m.buy]["lock"] \in Orders /\ bound[m.sell]["lock"] \in Orders
         /\ Budget(m.buy) \in Nat /\ Budget(m.sell) \in Nat
         /\ m.quantity \in Nat \ {0}
         /\ m.quantity <= order[m.buy].remaining /\ m.quantity <= order[m.sell].remaining
         /\ m.price \in Nat /\ m.price <= Limit(m.buy)
         /\ QuoteAmount(m) \in Nat /\ QuoteAmount(m) <= Budget(m.buy)
         /\ m.quantity <= Budget(m.sell)
<1>1. /\ m.buy \in Orders /\ m.sell \in Orders /\ m.buy # m.sell
      /\ Funded(m.buy) /\ Funded(m.sell) /\ Bid(m.buy) /\ ~ Bid(m.sell)
      /\ Terms[m.buy].trader # Terms[m.sell].trader
      /\ Backed(m.buy) /\ Backed(m.sell)
  BY DEF Accepted
<1>2. /\ Terms[m.buy].trader \in Traders /\ Terms[m.sell].trader \in Traders
      /\ Limit(m.buy) \in Nat /\ Limit(m.sell) \in Nat
  BY <1>1, TermFacts
<1>3. /\ "lock" \in DOMAIN bound[m.buy] /\ "lock" \in DOMAIN bound[m.sell]
      /\ bound[m.buy]["lock"] \in Orders /\ bound[m.sell]["lock"] \in Orders
  BY <1>1, BoundFacts
<1>4. \A a \in Orders : allocation[a].locked \in Nat /\ order[a].remaining \in Nat
  BY DEF TypeOK
<1>5. Budget(m.buy) \in Nat /\ Budget(m.sell) \in Nat
  BY <1>3, <1>4 DEF Budget
<1>6. /\ m.quantity \in 1 .. order[m.buy].remaining /\ m.quantity <= order[m.sell].remaining
      /\ m.price \in Limit(m.sell) .. Limit(m.buy)
      /\ QuoteAmount(m) \in 1 .. Budget(m.buy) /\ m.quantity <= Budget(m.sell)
  BY DEF Accepted, Covered
<1>7. /\ m.quantity \in Nat \ {0} /\ m.quantity <= order[m.buy].remaining
      /\ m.price \in Nat /\ m.price <= Limit(m.buy)
      /\ QuoteAmount(m) \in Nat /\ QuoteAmount(m) <= Budget(m.buy)
  BY <1>1, <1>2, <1>4, <1>5, <1>6
<1> QED
  BY <1>1, <1>2, <1>3, <1>5, <1>6, <1>7

(* A fill changes the two locks that its orders are bound to, and takes    *)
(* them from every other order that is bound to one of them.               *)
LEMMA SettleLinks ==
  ASSUME Inv, NEW m, NEW cb, NEW cs, NEW answered \in BOOLEAN,
         Accepted(m, cb, cs), Covered(m), Settle(m, answered)
  PROVE  LET b  == bound[m.buy]["lock"]
             s  == bound[m.sell]["lock"]
             lb == Left(m.buy, m.quantity, QuoteAmount(m))
             ls == Left(m.sell, m.quantity, m.quantity)
         IN  /\ b \in Orders /\ s \in Orders /\ b # s
             /\ Terms[b].trader = Terms[m.buy].trader /\ Bid(b)
             /\ Terms[s].trader = Terms[m.sell].trader /\ ~ Bid(s)
             /\ lb \in Nat /\ ls \in Nat
             /\ allocation' \in [Orders -> AllocationType]
             /\ allocation'[b].locked = lb /\ allocation'[b].funding = lb
             /\ allocation'[s].locked = ls /\ allocation'[s].funding = ls
             /\ \A a \in Orders \ {b, s} : /\ allocation'[a].locked = allocation[a].locked
                                          /\ allocation'[a].funding = allocation[a].funding
             /\ bound' \in [Orders -> BoundType]
             /\ \A p \in Orders : \A k \in DOMAIN bound'[p] :
                  k \in DOMAIN bound[p] /\ bound'[p][k] = bound[p][k]
             /\ \A p \in Orders : "lock" \in DOMAIN bound'[p] =>
                  \/ p = m.buy /\ StaysOpen(p, m.quantity, QuoteAmount(m))
                  \/ p = m.sell /\ StaysOpen(p, m.quantity, m.quantity)
                  \/ bound[p]["lock"] \notin {b, s}
             /\ \A p \in Orders \ {m.buy, m.sell} : \A k \in DOMAIN bound'[p] :
                  /\ k \in DOMAIN bound[m.buy] => bound[p][k] # bound[m.buy][k]
                  /\ k \in DOMAIN bound[m.sell] => bound[p][k] # bound[m.sell][k]
<1> DEFINE B == m.buy  S == m.sell  q == m.quantity  pay == QuoteAmount(m)
           b == bound[B]["lock"]  s == bound[S]["lock"]
           lb == Left(B, q, pay)  ls == Left(S, q, q)
           gone == Uses(B) \cup Uses(S)
           open == {o \in {B, S} : StaysOpen(o, q, IF o = B THEN pay ELSE q)}
           rb(a) == RolledAllocation(B, q, pay, a)
           rs(a) == RolledAllocation(S, q, q, a)
<1>1. /\ TypeOK /\ B \in Orders /\ S \in Orders /\ B # S
      /\ "lock" \in DOMAIN bound[B] /\ "lock" \in DOMAIN bound[S]
      /\ Bid(B) /\ ~ Bid(S) /\ Terms[B].trader # Terms[S].trader
      /\ b \in Orders /\ s \in Orders
  BY FillFacts DEF Inv
<1>2. /\ Terms[b].trader = Terms[B].trader /\ Bid(b)
      /\ Terms[s].trader = Terms[S].trader /\ ~ Bid(s)
      /\ b # s
  BY <1>1 DEF Inv, Linked
<1>3. Residual(B, pay) \in Nat /\ Residual(S, q) \in Nat
  BY FillFacts, <1>1 DEF Residual
<1>4. lb \in Nat /\ ls \in Nat
  BY <1>3 DEF Left
<1>5. /\ allocation' = [a \in Orders |-> IF Terms[a].trader = Terms[B].trader
                                         THEN rb(a) ELSE rs(a)]
      /\ bound' = [o \in Orders |-> IF o \in open THEN bound[o] ELSE Unbound(gone)[o]]
  BY DEF Settle
<1>6. ASSUME NEW a \in Orders
      PROVE  /\ rb(a) \in AllocationType
             /\ a = b => rb(a).locked = lb /\ rb(a).funding = lb
             /\ a # b => /\ rb(a).locked = allocation[a].locked
                         /\ rb(a).funding = allocation[a].funding
  <2>1. TypeOK /\ B \in Orders /\ "lock" \in DOMAIN bound[B] /\ Residual(B, pay) \in Nat
    BY <1>1, <1>3
  <2> HIDE DEF B, q, pay
  <2> QED
    BY <2>1, RolledParts
<1>7. ASSUME NEW a \in Orders
      PROVE  /\ rs(a) \in AllocationType
             /\ a = s => rs(a).locked = ls /\ rs(a).funding = ls
             /\ a # s => /\ rs(a).locked = allocation[a].locked
                         /\ rs(a).funding = allocation[a].funding
  <2>1. TypeOK /\ S \in Orders /\ "lock" \in DOMAIN bound[S] /\ Residual(S, q) \in Nat
    BY <1>1, <1>3
  <2> HIDE DEF S, q
  <2> QED
    BY <2>1, RolledParts
<1>8. /\ Unbound(gone) \in [Orders -> BoundType]
      /\ \A p \in Orders : \A k : k \in DOMAIN Unbound(gone)[p] <=>
             k \in DOMAIN bound[p] /\ <<k, bound[p][k]>> \notin gone
      /\ \A p \in Orders : \A k \in DOMAIN Unbound(gone)[p] :
           Unbound(gone)[p][k] = bound[p][k]
  <2> HIDE DEF gone
  <2> QED
    BY <1>1, UnboundFacts
<1>9. \A k : /\ k \in DOMAIN bound[B] => <<k, bound[B][k]>> \in gone
             /\ k \in DOMAIN bound[S] => <<k, bound[S][k]>> \in gone
  BY DEF Uses
<1>10. bound \in [Orders -> BoundType]
  BY <1>1 DEF TypeOK, BoundType
<1>11. open \subseteq {B, S} /\ (B \in open <=> StaysOpen(B, q, pay))
       /\ (S \in open <=> StaysOpen(S, q, q))
  BY <1>1
<1> HIDE DEF rb, rs, gone, open, lb, ls, B, S, q, pay, b, s
<1>12. /\ allocation' \in [Orders -> AllocationType]
       /\ allocation'[b] = rb(b) /\ allocation'[s] = rs(s)
       /\ \A a \in Orders \ {b, s} : allocation'[a] \in {rb(a), rs(a)}
  BY <1>1, <1>2, <1>5, <1>6, <1>7
<1>13. /\ allocation'[b].locked = lb /\ allocation'[b].funding = lb
       /\ allocation'[s].locked = ls /\ allocation'[s].funding = ls
       /\ \A a \in Orders \ {b, s} : /\ allocation'[a].locked = allocation[a].locked
                                    /\ allocation'[a].funding = allocation[a].funding
  BY <1>1, <1>6, <1>7, <1>12
<1>14. /\ bound' \in [Orders -> BoundType]
       /\ \A p \in Orders : \A k \in DOMAIN bound'[p] :
            k \in DOMAIN bound[p] /\ bound'[p][k] = bound[p][k]
       /\ \A p \in Orders \ open : \A k \in DOMAIN bound'[p] : <<k, bound[p][k]>> \notin gone
  BY <1>5, <1>8, <1>10
<1>15. \A p \in Orders : "lock" \in DOMAIN bound'[p] =>
         \/ p = B /\ StaysOpen(p, q, pay)
         \/ p = S /\ StaysOpen(p, q, q)
         \/ bound[p]["lock"] \notin {b, s}
  BY <1>1, <1>9, <1>11, <1>14 DEF b, s
<1>16. \A p \in Orders \ {B, S} : \A k \in DOMAIN bound'[p] :
         /\ k \in DOMAIN bound[B] => bound[p][k] # bound[B][k]
         /\ k \in DOMAIN bound[S] => bound[p][k] # bound[S][k]
  BY <1>9, <1>11, <1>14
<1> QED
  BY <1>1, <1>2, <1>4, <1>12, <1>13, <1>14, <1>15, <1>16 DEF B, S, q, pay, b, s, lb, ls

(* A fill: what Accepted and Covered require is what its two orders need.  *)
LEMMA SettleKeepsInv ==
  ASSUME Inv, NEW m, NEW cb, NEW cs, NEW answered \in BOOLEAN,
         Accepted(m, cb, cs), Covered(m), Settle(m, answered)
  PROVE  Inv'
<1> DEFINE b == m.buy
           s == m.sell
           x == bound[b]["lock"]
           y == bound[s]["lock"]
           q == m.quantity
           pay == QuoteAmount(m)
           ob == RolledOrder(b, q, pay)
           os == RolledOrder(s, q, q)
           buyer == Terms[b].trader
           seller == Terms[s].trader
<1>1. /\ b \in Orders /\ s \in Orders /\ b # s
      /\ Funded(b) /\ Funded(s) /\ Bid(b) /\ ~ Bid(s)
      /\ buyer # seller /\ buyer \in Traders /\ seller \in Traders
      /\ "lock" \in DOMAIN bound[b] /\ "lock" \in DOMAIN bound[s]
  BY FillFacts DEF Inv
<1>2. /\ order \in [Orders -> OrderType]
      /\ free \in [Traders -> [Instruments -> Nat]] /\ now \in Nat
  BY DEF Inv, TypeOK, OrderType
<1>3. /\ q \in Nat /\ q <= order[b].remaining /\ q <= order[s].remaining
      /\ m.price \in Nat /\ m.price <= Limit(b)
      /\ pay \in Nat /\ pay <= Budget(b) /\ q <= Budget(s)
      /\ Budget(b) \in Nat /\ Budget(s) \in Nat
  BY FillFacts DEF Inv
<1>4. /\ ob \in OrderType /\ Change(b, q, pay) \in Nat
      /\ ob.status \in {"PartiallyFilled", "closed"}
      /\ ob.status = "PartiallyFilled" <=> StaysOpen(b, q, pay)
      /\ StaysOpen(b, q, pay) =>
           /\ ob.cid = order[b].cid + 1
           /\ ob.remaining = order[b].remaining - q
           /\ Residual(b, pay) # 0
      /\ Residual(b, pay) = Budget(b) - pay
  BY <1>1, <1>2, <1>3, RolledSide DEF Inv
<1>5. /\ os \in OrderType /\ Change(s, q, q) \in Nat
      /\ os.status \in {"PartiallyFilled", "closed"}
      /\ os.status = "PartiallyFilled" <=> StaysOpen(s, q, q)
      /\ StaysOpen(s, q, q) =>
           /\ os.remaining = order[s].remaining - q
           /\ Residual(s, q) # 0
      /\ Residual(s, q) = Budget(s) - q
  BY <1>1, <1>2, <1>3, RolledSide DEF Inv
<1>6. /\ order' = [order EXCEPT ![b] = ob, ![s] = os]
      /\ now' = now + 1 /\ expired' = expired
  BY DEF Settle
<1>7. free' \in [Traders -> [Instruments -> Nat]]
  <2> DEFINE fb == [base |-> free[buyer]["base"] + q,
                    quote |-> free[buyer]["quote"] + Change(b, q, pay)]
             fs == [base |-> free[seller]["base"] + Change(s, q, q),
                    quote |-> free[seller]["quote"] + pay]
  <2>1. free' = [free EXCEPT ![buyer] = fb, ![seller] = fs]
    BY <1>1 DEF Settle
  <2>2. \A t \in Traders : free[t]["base"] \in Nat /\ free[t]["quote"] \in Nat
    BY <1>2 DEF Instruments
  <2>3. fb \in [Instruments -> Nat] /\ fs \in [Instruments -> Nat]
    BY <1>1, <1>3, <1>4, <1>5, <2>2 DEF Instruments
  <2> HIDE DEF fb, fs
  <2> QED
    BY <1>1, <1>2, <2>1, <2>3
<1>8. /\ x \in Orders /\ y \in Orders /\ x # y
      /\ allocation' \in [Orders -> AllocationType]
      /\ allocation'[x].locked = Left(b, q, pay) /\ allocation'[x].funding = Left(b, q, pay)
      /\ allocation'[y].locked = Left(s, q, q) /\ allocation'[y].funding = Left(s, q, q)
      /\ \A a \in Orders \ {x, y} : /\ allocation'[a].locked = allocation[a].locked
                                   /\ allocation'[a].funding = allocation[a].funding
      /\ bound' \in [Orders -> BoundType]
      /\ \A p \in Orders : \A k \in DOMAIN bound'[p] :
           k \in DOMAIN bound[p] /\ bound'[p][k] = bound[p][k]
      /\ \A p \in Orders : "lock" \in DOMAIN bound'[p] =>
           \/ p = b /\ StaysOpen(p, q, pay)
           \/ p = s /\ StaysOpen(p, q, q)
           \/ bound[p]["lock"] \notin {x, y}
  BY SettleLinks
<1> HIDE DEF ob, os
<1>9. /\ order' \in [Orders -> OrderType]
      /\ order'[b] = ob /\ order'[s] = os
      /\ \A p \in Orders \ {b, s} : order'[p] = order[p]
  BY <1>1, <1>2, <1>4, <1>5, <1>6
<1>10. TypeOK'
  <2>1. now' \in Nat /\ expired' \in SUBSET Orders
    BY <1>2, <1>6 DEF Inv, TypeOK
  <2> QED
    BY <1>7, <1>8, <1>9, <2>1 DEF TypeOK, OrderType, AllocationType, BoundType
<1>11. FundingCovers'
  <2> SUFFICES ASSUME NEW p \in Orders, Funded(p)', "lock" \in DOMAIN bound'[p]
               PROVE  IF Bid(p)
                      THEN 2 * Scale * allocation'[bound'[p]["lock"]].locked
                             + Scale * order'[p].cid >= 2 * order'[p].remaining * Limit(p)
                      ELSE allocation'[bound'[p]["lock"]].locked = order'[p].remaining
    BY DEF FundingCovers, Bid, Limit, Budget
  <2>1. /\ "lock" \in DOMAIN bound[p] /\ bound'[p]["lock"] = bound[p]["lock"]
        /\ bound[p]["lock"] \in Orders
    BY <1>8, BoundFacts DEF Inv
  <2>2. CASE p = b
    <3> DEFINE L == Budget(b)
               R == order[b].remaining
               c == order[b].cid
               l == Limit(b)
    <3>1. L \in Nat /\ R \in Nat /\ c \in Nat /\ l \in Nat
      BY <1>1, <1>2, <1>3, TermFacts DEF OrderType
    <3>2. 2 * Scale * L + Scale * c >= 2 * R * l
      BY <1>1 DEF Inv, FundingCovers
    <3>3. pay = Mul(q, m.price)
      BY DEF QuoteAmount
    <3>4. StaysOpen(b, q, pay)
      BY <1>4, <1>9, <2>2 DEF Funded
    <3>5. allocation'[bound'[p]["lock"]].locked = L - pay
      BY <1>4, <1>8, <2>1, <2>2, <3>4 DEF Left
    <3> HIDE DEF L, R, c, l, q, pay
    <3>6. 2 * Scale * (L - pay) + Scale * (c + 1) >= 2 * (R - q) * l
      BY <1>3, <3>1, <3>2, <3>3, BidPays DEF l, L, R
    <3> QED
      BY <1>1, <1>4, <1>9, <2>2, <3>4, <3>5, <3>6 DEF L, R, c, l
  <2>3. CASE p = s
    <3>1. StaysOpen(s, q, q)
      BY <1>5, <1>9, <2>3 DEF Funded
    <3>2. Budget(s) = order[s].remaining
      BY <1>1 DEF Inv, FundingCovers
    <3>3. allocation'[bound'[p]["lock"]].locked = Budget(s) - q
      BY <1>5, <1>8, <2>1, <2>3, <3>1 DEF Left
    <3> QED
      BY <1>1, <1>5, <1>9, <2>3, <3>1, <3>2, <3>3
  <2>4. CASE p \in Orders \ {b, s}
    <3>1. allocation'[bound[p]["lock"]].locked = Budget(p)
      BY <1>8, <2>1, <2>4 DEF Budget
    <3> QED
      BY <1>9, <2>1, <2>4, <3>1 DEF Inv, FundingCovers, Funded
  <2> QED
    BY <2>2, <2>3, <2>4
<1>12. Unspent'
  BY <1>4, <1>5, <1>9 DEF Inv, Unspent, Entering
<1>13. Linked'
  <2>1. \A a \in Orders : allocation'[a].locked \in {0, allocation'[a].funding}
    BY <1>8 DEF Inv, Linked
  <2>2. ASSUME NEW p \in Orders, NEW k \in DOMAIN bound'[p]
        PROVE  /\ Terms[bound'[p][k]].trader = Terms[p].trader
               /\ Bid(bound'[p][k]) = Bid(p)
               /\ k = "lock" => allocation'[bound'[p][k]].locked # 0
    <3>1. /\ k \in DOMAIN bound[p] /\ bound'[p][k] = bound[p][k] /\ bound[p][k] \in Orders
      BY <1>8, <2>2, BoundFacts DEF Inv
    <3>2. /\ Terms[bound[p][k]].trader = Terms[p].trader /\ Bid(bound[p][k]) = Bid(p)
          /\ k = "lock" => allocation[bound[p][k]].locked # 0
      BY <3>1 DEF Inv, Linked
    <3>3. k = "lock" => allocation'[bound[p][k]].locked # 0
      BY <1>4, <1>5, <1>8, <2>2, <3>1, <3>2 DEF Left
    <3> QED
      BY <3>1, <3>2, <3>3
  <2> QED
    BY <2>1, <2>2 DEF Linked, Bid
<1> QED
  BY <1>10, <1>11, <1>12, <1>13 DEF Inv

LEMMA StillKeepsInv ==
  ASSUME Inv, UNCHANGED <<order, allocation, bound, free, now>>, expired' \in SUBSET Orders
  PROVE  Inv'
<1>1. TypeOK'
  BY DEF Inv, TypeOK
<1>2. FundingCovers'
  BY DEF Inv, FundingCovers, Funded, Bid, Limit, Budget
<1>3. Unspent' /\ Linked'
  BY DEF Inv, Unspent, Linked, Bid
<1> QED
  BY <1>1, <1>2, <1>3 DEF Inv

LEMMA InitInv == Init => Inv
<1> SUFFICES ASSUME Init PROVE Inv
  OBVIOUS
<1>1. \A o \in Orders : bound[o] \in [{} -> Orders] /\ DOMAIN bound[o] = {}
  BY DEF Init
<1>2. bound \in [Orders -> UNION {[K -> Orders] : K \in SUBSET Kinds}]
  <2>1. \A o \in Orders : bound[o] \in UNION {[K -> Orders] : K \in SUBSET Kinds}
    BY <1>1
  <2>2. bound = [o \in Orders |-> bound[o]]
    BY DEF Init
  <2> QED
    BY <2>1, <2>2
<1>3. TypeOK
  BY <1>2, BookAssumption DEF Init, TypeOK, Term, Statuses, NoAllocation
<1>4. FundingCovers
  BY DEF Init, FundingCovers, Funded
<1>5. Unspent /\ Linked
  BY <1>1 DEF Init, Unspent, Linked, NoAllocation
<1> QED
  BY <1>3, <1>4, <1>5 DEF Inv

LEMMA OrderStepKeepsInv ==
  ASSUME Inv, NEW o \in Orders,
         \/ Place(o) \/ CloseIntent(o) \/ Bind(o) \/ Fund(o) \/ Cancel(o)
         \/ DeadlinePasses(o) \/ AuthorLock(o) \/ AuthorReceipt(o)
         \/ \E k \in Kinds : Withdraw(o, k)
  PROVE  Inv'
<1>1. CASE Place(o)
  BY <1>1, StatusStep DEF Place, Entering
<1>2. CASE CloseIntent(o)
  BY <1>2, StatusStep DEF CloseIntent, Entering
<1>3. CASE Bind(o)
  BY <1>3, StatusStep DEF Bind, Entering
<1>4. CASE Fund(o)
  BY <1>4, FundKeepsInv
<1>5. CASE Cancel(o)
  BY <1>5, CancelKeepsInv
<1>6. CASE DeadlinePasses(o)
  <2>1. expired' \in SUBSET Orders /\ UNCHANGED <<order, allocation, bound, free, now>>
    BY <1>6 DEF DeadlinePasses, Inv, TypeOK
  <2> QED
    BY <2>1, StillKeepsInv
<1>7. CASE AuthorLock(o) \/ AuthorReceipt(o)
  BY <1>7, AuthorKeepsInv, ReceiptKeepsInv
<1>8. CASE \E k \in Kinds : Withdraw(o, k)
  BY <1>8, WithdrawKeepsInv
<1> QED
  BY <1>1, <1>2, <1>3, <1>4, <1>5, <1>6, <1>7, <1>8

LEMMA RunStepKeepsInv ==
  ASSUME Inv, NEW r \in Runs,
         StartRun(r) \/ RunStep(r) \/ Unreachable(r) \/ LoseAnswer(r)
  PROVE  Inv'
<1> DEFINE m == Current(r)
           cb == run[r].live[m.buy]
           cs == run[r].live[m.sell]
<1>1. ASSUME NEW answered \in BOOLEAN, Acceptable(r), Covered(m), Settle(m, answered)
      PROVE  Inv'
  <2>1. Accepted(m, cb, cs)
    BY <1>1 DEF Acceptable
  <2> HIDE DEF m, cb, cs
  <2> QED
    BY <1>1, <2>1, SettleKeepsInv
<1>2. CASE UNCHANGED ledger
  BY <1>2, StillKeepsInv DEF ledger, Inv, TypeOK
<1>3. CASE Execute(r)
  BY <1>1, <1>3 DEF Execute
<1>4. CASE LoseAnswer(r)
  BY <1>1, <1>4 DEF LoseAnswer
<1>5. CASE StartRun(r) \/ Skip(r) \/ Replay(r) \/ Refused(r) \/ Unreachable(r)
  BY <1>2, <1>5 DEF StartRun, Skip, Replay, Refused, Unreachable
<1> QED
  BY <1>3, <1>4, <1>5 DEF RunStep

LEMMA NextInv == Inv /\ [Next]_vars => Inv'
<1> SUFFICES ASSUME Inv, [Next]_vars PROVE Inv'
  OBVIOUS
<1>1. CASE UNCHANGED vars
  BY <1>1, StillKeepsInv DEF vars, ledger, Inv, TypeOK
<1>2. CASE Next
  BY <1>2, OrderStepKeepsInv, RunStepKeepsInv DEF Next
<1> QED
  BY <1>1, <1>2

(* The collateral invariant and the types, in every reachable state. *)
THEOREM BookInv == Spec => []Inv
BY InitInv, NextInv, PTL DEF Spec

(* No step of any interleaving takes an unlocked holding, a lock or a      *)
(* remaining quantity below zero.                                          *)
THEOREM BookTypes == Spec => []TypeOK
<1>1. Inv => TypeOK
  BY DEF Inv
<1> QED
  BY <1>1, BookInv, PTL

(* What an open order can still spend covers what it may have to deliver,  *)
(* whatever its trader spends elsewhere and whichever orders are bound to  *)
(* the same allocation: an ask exactly, a bid up to half an ulp for its    *)
(* lock and for each fill.                                                 *)
THEOREM CollateralCovers == Spec => []FundingCovers
<1>1. Inv => FundingCovers
  BY DEF Inv
<1> QED
  BY <1>1, BookInv, PTL
-----------------------------------------------------------------------------
(***************************************************************************)
(* No cross settles twice.  The store admits one set of arguments for a    *)
(* cross (OneRow), and the ledger accepts arguments only once, since the   *)
(* contract of the bid that they name is consumed (Recorded).              *)
(***************************************************************************)
LEMMA InitOnce == Init => Once
BY DEF Init, Once, Recorded, OneRow, SettledOnce

(* Steps that trade nothing, and fund nothing that has traded. *)
LEMMA QuietKeepsRecorded ==
  ASSUME Recorded, UNCHANGED trades, sent \subseteq sent',
         \A o \in Orders : order[o].status \notin Entering =>
           /\ order'[o].status \notin Entering
           /\ Funded(o)' => Funded(o) /\ order'[o].cid = order[o].cid
  PROVE  Recorded'
<1> SUFFICES ASSUME NEW t \in trades
             PROVE  /\ [match |-> t.match, buyCid |-> t.buyCid,
                         sellCid |-> t.sellCid] \in sent'
                    /\ t.match.buy \in Orders /\ t.buyCid \in Nat
                    /\ order'[t.match.buy].status \notin Entering
                    /\ Funded(t.match.buy)' => t.buyCid < order'[t.match.buy].cid
  BY DEF Recorded
<1>1. /\ [match |-> t.match, buyCid |-> t.buyCid, sellCid |-> t.sellCid] \in sent
      /\ t.match.buy \in Orders /\ t.buyCid \in Nat
      /\ order[t.match.buy].status \notin Entering
      /\ Funded(t.match.buy) => t.buyCid < order[t.match.buy].cid
  BY DEF Recorded
<1> QED
  BY <1>1

LEMMA StatusMoves ==
  ASSUME TypeOK, NEW o \in Orders, NEW s \in {"intent", "Pending", "closed"},
         SetStatus(o, s), s \in Entering => order[o].status \in Entering,
         NEW p \in Orders, order[p].status \notin Entering
  PROVE  /\ order'[p].status \notin Entering
         /\ Funded(p)' => Funded(p) /\ order'[p].cid = order[p].cid
<1> DEFINE q == [order[o] EXCEPT !.status = s]
<1>1. order \in [Orders -> OrderType] /\ order[o] \in OrderType /\ s \in Statuses
  BY DEF TypeOK, OrderType, Statuses
<1>2. q \in OrderType /\ q.status = s
  BY <1>1, WithStatus
<1>3. order' = [order EXCEPT ![o] = q]
  BY DEF SetStatus
<1> HIDE DEF q
<1>4. order'[p] = IF p = o THEN q ELSE order[p]
  BY <1>1, <1>3
<1>5. CASE p = o
  BY <1>2, <1>4, <1>5 DEF Entering, Funded
<1>6. CASE p # o
  BY <1>4, <1>6 DEF Funded
<1> QED
  BY <1>5, <1>6

LEMMA OrderStepKeepsOnce ==
  ASSUME TypeOK, Once, NEW o \in Orders,
         \/ Place(o) \/ CloseIntent(o) \/ Bind(o) \/ Fund(o) \/ Cancel(o)
         \/ DeadlinePasses(o) \/ AuthorLock(o) \/ AuthorReceipt(o)
         \/ \E k \in Kinds : Withdraw(o, k)
  PROVE  Once'
<1>1. UNCHANGED <<trades, sent>>
  BY DEF Place, CloseIntent, Bind, Fund, Cancel, DeadlinePasses, AuthorLock,
         AuthorReceipt, Withdraw
<1>2. OneRow' /\ SettledOnce'
  BY <1>1 DEF Once, OneRow, SettledOnce
<1>3. \A p \in Orders : order[p].status \notin Entering =>
        /\ order'[p].status \notin Entering
        /\ Funded(p)' => Funded(p) /\ order'[p].cid = order[p].cid
  <2> SUFFICES ASSUME NEW p \in Orders, order[p].status \notin Entering
               PROVE  /\ order'[p].status \notin Entering
                      /\ Funded(p)' => Funded(p) /\ order'[p].cid = order[p].cid
    OBVIOUS
  <2>1. CASE Place(o)
    BY <2>1, StatusMoves DEF Place, Entering
  <2>2. CASE CloseIntent(o)
    BY <2>2, StatusMoves DEF CloseIntent, Entering
  <2>3. CASE Bind(o)
    BY <2>3, StatusMoves DEF Bind, Entering
  <2>4. CASE Fund(o)
    <3>1. p # o
      BY <2>4 DEF Fund, Entering
    <3>2. order'[p] = order[p]
      BY <2>4, <3>1 DEF Fund, TypeOK
    <3> QED
      BY <3>2 DEF Funded
  <2>5. CASE Cancel(o)
    BY <2>5, StatusMoves DEF Cancel, Entering
  <2>6. CASE UNCHANGED order
    BY <2>6 DEF Funded
  <2> QED
    BY <2>1, <2>2, <2>3, <2>4, <2>5, <2>6 
       DEF DeadlinePasses, AuthorLock, AuthorReceipt, Withdraw
<1>4. Recorded'
  BY <1>1, <1>3, QuietKeepsRecorded DEF Once
<1> QED
  BY <1>2, <1>4 DEF Once

(* The store adds a row only where it has none for the same cross. *)
LEMMA ForwardsKeepsOneRow ==
  ASSUME OneRow, NEW r \in Runs, Forwards(r)
  PROVE  OneRow'
<1> DEFINE new == [match |-> Current(r),
                   buyCid |-> run[r].live[Current(r).buy],
                   sellCid |-> run[r].live[Current(r).sell]]
<1>1. sent' = sent \cup {new}
  BY DEF Forwards
<1>2. \A c \in sent : c.match = new.match =>
                        c.buyCid = new.buyCid /\ c.sellCid = new.sellCid
  BY DEF Forwards, Differs, Names
<1> HIDE DEF new
<1> QED
  BY <1>1, <1>2 DEF OneRow

(* A cross that the store forwards and the orders accept has not settled:   *)
(* its trade would have consumed the contract that the store names.        *)
LEMMA FreshCross ==
  ASSUME TypeOK, Once, NEW r \in Runs, Forwards(r), Acceptable(r)
  PROVE  \A u \in trades : u.match # Current(r)
<1> DEFINE b == Current(r).buy
<1>1. b \in Orders /\ Funded(b) /\ order[b].cid = run[r].live[b]
  BY DEF Acceptable, Accepted
<1> SUFFICES ASSUME NEW u \in trades, u.match = Current(r) PROVE FALSE
  OBVIOUS
<1>2. [match |-> u.match, buyCid |-> u.buyCid, sellCid |-> u.sellCid] \in sent
      /\ u.buyCid < order[b].cid /\ u.buyCid \in Nat
  BY <1>1 DEF Once, Recorded
<1>3. u.buyCid = run[r].live[b]
  BY <1>2 DEF Forwards, Differs, Names
<1> QED
  BY <1>1, <1>2, <1>3 DEF TypeOK

LEMMA FillKeepsOnce ==
  ASSUME TypeOK, Once, NEW r \in Runs, NEW answered \in BOOLEAN,
         Forwards(r), Acceptable(r), Covered(Current(r)), Settle(Current(r), answered)
  PROVE  Once'
<1> DEFINE m == Current(r)
           b == m.buy
           s == m.sell
           q == m.quantity
           pay == QuoteAmount(m)
           ob == RolledOrder(b, q, pay)
           os == RolledOrder(s, q, q)
           new == [match |-> m, buyCid |-> run[r].live[b], sellCid |-> run[r].live[s]]
           T == Trade(m, answered)
<1>1. /\ b \in Orders /\ s \in Orders /\ b # s
      /\ Funded(b) /\ Funded(s)
      /\ order[b].cid = run[r].live[b] /\ order[s].cid = run[r].live[s]
  BY DEF Acceptable, Accepted
<1>2. /\ T.match = m /\ T.buyCid = order[b].cid /\ T.sellCid = order[s].cid
      /\ [match |-> T.match, buyCid |-> T.buyCid, sellCid |-> T.sellCid] = new
  BY <1>1 DEF Trade
<1>3. sent' = sent \cup {new} /\ trades' = trades \cup {T}
  BY DEF Forwards, Settle
<1>4. order[b] \in OrderType /\ order[s] \in OrderType
      /\ order \in [Orders -> OrderType] /\ now \in Nat
  BY <1>1 DEF TypeOK, OrderType
<1>5. /\ q \in Nat /\ q <= order[b].remaining /\ q <= order[s].remaining
      /\ pay \in Nat /\ pay <= Budget(b) /\ q <= Budget(s)
      /\ "lock" \in DOMAIN bound[b] /\ "lock" \in DOMAIN bound[s]
  BY FillFacts DEF Acceptable
<1>6. /\ ob.status \in {"PartiallyFilled", "closed"}
      /\ ob.status = "PartiallyFilled" => ob.cid = order[b].cid + 1
  BY <1>1, <1>4, <1>5, RolledSide
<1>7. /\ os.status \in {"PartiallyFilled", "closed"}
      /\ os.status = "PartiallyFilled" => os.cid = order[s].cid + 1
  BY <1>1, <1>4, <1>5, RolledSide
<1>8. order' = [order EXCEPT ![b] = ob, ![s] = os]
  BY DEF Settle
<1> HIDE DEF ob, os, T, new, q, pay
<1>9. \A p \in Orders : order'[p] = IF p = s THEN os ELSE IF p = b THEN ob ELSE order[p]
  BY <1>1, <1>4, <1>8
<1>10. \A p \in Orders : order[p].status \notin Entering =>
         /\ order'[p].status \notin Entering
         /\ Funded(p)' => Funded(p) /\ order'[p].cid >= order[p].cid
  <2> SUFFICES ASSUME NEW p \in Orders, order[p].status \notin Entering
               PROVE  /\ order'[p].status \notin Entering
                      /\ Funded(p)' => Funded(p) /\ order'[p].cid >= order[p].cid
    OBVIOUS
  <2>1. order[p].cid \in Nat
    BY <1>4 DEF OrderType
  <2>2. CASE p = s
    BY <1>1, <1>7, <1>9, <2>1, <2>2 DEF Entering, Funded
  <2>3. CASE p = b
    BY <1>1, <1>6, <1>9, <2>1, <2>3 DEF Entering, Funded
  <2>4. CASE p # s /\ p # b
    BY <1>9, <2>1, <2>4 DEF Funded
  <2> QED
    BY <2>2, <2>3, <2>4
<1>11. Recorded'
  <2> SUFFICES ASSUME NEW t \in trades'
               PROVE  /\ [match |-> t.match, buyCid |-> t.buyCid,
                           sellCid |-> t.sellCid] \in sent'
                      /\ t.match.buy \in Orders /\ t.buyCid \in Nat
                      /\ order'[t.match.buy].status \notin Entering
                      /\ Funded(t.match.buy)' => t.buyCid < order'[t.match.buy].cid
    BY DEF Recorded
  <2>1. CASE t = T
    <3>1. order[b].cid \in Nat /\ order'[b] = ob
      BY <1>1, <1>4, <1>9 DEF OrderType
    <3> QED
      BY <1>1, <1>2, <1>3, <1>6, <2>1, <3>1 DEF Entering, Funded
  <2>2. CASE t \in trades
    <3> DEFINE p == t.match.buy
    <3>1. /\ [match |-> t.match, buyCid |-> t.buyCid, sellCid |-> t.sellCid] \in sent
          /\ p \in Orders /\ t.buyCid \in Nat /\ order[p].status \notin Entering
          /\ Funded(p) => t.buyCid < order[p].cid
      BY <2>2 DEF Once, Recorded
    <3>2. order'[p].status \notin Entering
          /\ (Funded(p)' => Funded(p) /\ order'[p].cid >= order[p].cid)
      BY <1>10, <3>1
    <3>3. ASSUME Funded(p)' PROVE t.buyCid < order'[p].cid
      <4>1. order[p].cid \in Nat /\ order'[p].cid \in Nat
        <5>1. ob.status = "PartiallyFilled" => ob.cid \in Nat
          BY <1>4, <1>6 DEF OrderType
        <5>2. os.status = "PartiallyFilled" => os.cid \in Nat
          BY <1>4, <1>7 DEF OrderType
        <5> QED
          BY <1>4, <1>6, <1>7, <1>9, <3>1, <3>3, <5>1, <5>2 DEF OrderType, Funded
      <4> QED
        BY <3>1, <3>2, <3>3, <4>1
    <3> QED
      BY <1>3, <3>1, <3>2, <3>3
  <2> QED
    BY <1>3, <2>1, <2>2
<1>12. \A u \in trades : u.match # m
  BY FreshCross
<1>13. SettledOnce'
  BY <1>2, <1>3, <1>12 DEF Once, SettledOnce
<1>14. OneRow'
  BY ForwardsKeepsOneRow DEF Once
<1> QED
  BY <1>11, <1>13, <1>14 DEF Once

LEMMA RunStepKeepsOnce ==
  ASSUME TypeOK, Once, NEW r \in Runs,
         StartRun(r) \/ RunStep(r) \/ Unreachable(r) \/ LoseAnswer(r)
  PROVE  Once'
<1>1. CASE Execute(r)
  BY <1>1, FillKeepsOnce DEF Execute
<1>2. CASE LoseAnswer(r)
  BY <1>2, FillKeepsOnce DEF LoseAnswer
<1>3. ASSUME UNCHANGED <<order, trades>>, UNCHANGED sent \/ Forwards(r)
      PROVE  Once'
  <2>1. sent \subseteq sent'
    BY <1>3 DEF Forwards
  <2>2. OneRow'
    BY <1>3, ForwardsKeepsOneRow DEF Once, OneRow
  <2>3. SettledOnce'
    BY <1>3 DEF Once, SettledOnce
  <2>4. \A o \in Orders : order[o].status \notin Entering =>
          /\ order'[o].status \notin Entering
          /\ Funded(o)' => Funded(o) /\ order'[o].cid = order[o].cid
    BY <1>3 DEF Funded
  <2>5. Recorded'
    BY <1>3, <2>1, <2>4, QuietKeepsRecorded DEF Once
  <2> QED
    BY <2>2, <2>3, <2>5 DEF Once
<1>4. CASE StartRun(r) \/ Skip(r) \/ Replay(r) \/ Refused(r) \/ Unreachable(r)
  BY <1>3, <1>4 DEF StartRun, Skip, Replay, Refused, Unreachable, ledger
<1> QED
  BY <1>1, <1>2, <1>4 DEF RunStep

LEMMA NextOnce == TypeOK /\ Once /\ [Next]_vars => Once'
<1> SUFFICES ASSUME TypeOK, Once, [Next]_vars PROVE Once'
  OBVIOUS
<1>1. CASE UNCHANGED vars
  <2>1. UNCHANGED <<order, trades, sent>>
    BY <1>1 DEF vars, ledger
  <2>2. Recorded'
    BY <2>1 DEF Once, Recorded, Funded
  <2> QED
    BY <2>1, <2>2 DEF Once, OneRow, SettledOnce
<1>2. CASE Next
  BY <1>2, OrderStepKeepsOnce, RunStepKeepsOnce DEF Next
<1> QED
  BY <1>1, <1>2

(* However many runs overlap and however many answers are lost, a cross    *)
(* that was found in one snapshot settles at most once.                    *)
THEOREM NoCrossTwice == Spec => []SettledOnce
<1>1. Once => SettledOnce
  BY DEF Once
<1> QED
  BY <1>1, BookTypes, InitOnce, NextOnce, PTL DEF Spec


-----------------------------------------------------------------------------
(***************************************************************************)
(* Every holding is explained by the trades.  A lock moves between free    *)
(* and locked holdings, a trade is new and its fill moves what it records. *)
(***************************************************************************)
Explained ==
  /\ IsFiniteSet(trades)
  /\ \A x \in trades : /\ x.match.buy \in Orders /\ x.match.sell \in Orders
                       /\ x.match.quantity \in Nat /\ QuoteAmount(x.match) \in Nat
  /\ TradesExplainHoldings

(* The order locks trader t's instrument i. *)
LocksCell(o, t, i) == Terms[o].trader = t /\ LockInstrument(o) = i

LEMMA LockedType ==
  ASSUME TypeOK, NEW t, NEW i
  PROVE  LockedOf(t, i) \in Nat
<1> DEFINE P == {p \in Orders : Terms[p].trader = t /\ LockInstrument(p) = i}
           f == [o \in P |-> allocation[o].locked]
<1>1. IsFiniteSet(P) /\ f \in [P -> Nat]
  BY BookAssumption, FS_Subset DEF TypeOK
<1>2. LockedOf(t, i) = Sum(f)
  BY DEF LockedOf
<1> HIDE DEF P, f
<1> QED
  BY <1>1, <1>2, SumNat

(* Of the orders that lock a cell, the locks of one change at most. *)
LEMMA LockedStep ==
  ASSUME TypeOK, TypeOK', NEW o \in Orders, NEW t, NEW i,
         \A p \in Orders : p # o /\ LocksCell(p, t, i) =>
                            allocation'[p].locked = allocation[p].locked
  PROVE  LockedOf(t, i)' = LockedOf(t, i) +
           (IF LocksCell(o, t, i) THEN allocation'[o].locked - allocation[o].locked ELSE 0)
<1> DEFINE P == {p \in Orders : Terms[p].trader = t /\ LockInstrument(p) = i}
           f == [p \in P |-> allocation[p].locked]
           g == [p \in P |-> allocation'[p].locked]
<1>1. IsFiniteSet(P) /\ f \in [P -> Nat] /\ g \in [P -> Nat]
  BY BookAssumption, FS_Subset DEF TypeOK
<1>2. LockedOf(t, i) = Sum(f) /\ LockedOf(t, i)' = Sum(g)
  BY DEF LockedOf, LockInstrument, Bid
<1>3. \A p \in P : f[p] = allocation[p].locked /\ g[p] = allocation'[p].locked
                   /\ (p # o => f[p] = g[p])
  BY DEF LocksCell
<1>4. o \in P <=> LocksCell(o, t, i)
  BY DEF LocksCell
<1> HIDE DEF P, f, g
<1>5. CASE LocksCell(o, t, i)
  <2>1. Sum(g) = Sum(f) - f[o] + g[o] /\ Sum(f) \in Nat /\ f[o] \in Nat /\ g[o] \in Nat
    BY <1>1, <1>3, <1>4, <1>5, SumUpdate, SumNat
  <2>2. f[o] = allocation[o].locked /\ g[o] = allocation'[o].locked
    BY <1>3, <1>4, <1>5
  <2>3. Sum(g) = Sum(f) + (g[o] - f[o])
    BY <2>1
  <2> QED
    BY <1>2, <1>5, <2>2, <2>3
<1>6. CASE ~LocksCell(o, t, i)
  <2>1. \A p \in P : f[p] = g[p]
    BY <1>3, <1>4, <1>6
  <2>2. f = g
    BY <1>1, <2>1
  <2>3. Sum(g) = Sum(f) + 0
    BY <1>1, <2>2, SumNat
  <2> QED
    BY <1>2, <1>6, <2>3
<1> QED
  BY <1>5, <1>6

(* The totals of what trades paid and received, as numbers. *)
LEMMA TradedType ==
  ASSUME Explained, NEW t, NEW i
  PROVE  Received(t, i) \in Nat /\ Paid(t, i) \in Nat
<1> DEFINE amount == [x \in trades |-> IF i = "base" THEN x.match.quantity
                                                     ELSE QuoteAmount(x.match)]
<1>1. IsFiniteSet(trades) /\ amount \in [trades -> Nat]
  BY DEF Explained
<1>2. ASSUME NEW of \in SUBSET trades
      PROVE  Sum([x \in of |-> amount[x]]) \in Nat
  <2>1. IsFiniteSet(of)
    BY <1>1, FS_Subset
  <2> QED
    BY <1>1, <2>1, SumNat
<1>3. ASSUME NEW of \in SUBSET trades
      PROVE  [x \in of |-> amount[x]]
               = [x \in of |-> IF i = "base" THEN x.match.quantity ELSE QuoteAmount(x.match)]
  OBVIOUS
<1> HIDE DEF amount
<1> QED
  BY <1>2, <1>3 DEF Received, Paid

LEMMA TradedStep ==
  ASSUME Explained, NEW new, new \notin trades, trades' = trades \cup {new},
         new.match.quantity \in Nat, QuoteAmount(new.match) \in Nat, NEW t, NEW i
  PROVE  LET amount == IF i = "base" THEN new.match.quantity ELSE QuoteAmount(new.match)
             m == new.match
         IN  /\ Received(t, i)' = Received(t, i) +
                  (IF Terms[IF i = "base" THEN m.buy ELSE m.sell].trader = t
                     THEN amount ELSE 0)
             /\ Paid(t, i)' = Paid(t, i) +
                  (IF Terms[IF i = "base" THEN m.sell ELSE m.buy].trader = t
                     THEN amount ELSE 0)
<1> DEFINE U == trades \cup {new}
           size(x) == IF i = "base" THEN x.match.quantity ELSE QuoteAmount(x.match)
           amount == [x \in U |-> size(x)]
           taker == [x \in U |-> Terms[IF i = "base" THEN x.match.buy ELSE x.match.sell].trader]
           giver == [x \in U |-> Terms[IF i = "base" THEN x.match.sell ELSE x.match.buy].trader]
<1>1. IsFiniteSet(trades) /\ amount \in [U -> Nat]
  BY DEF Explained
<1>2. /\ Received(t, i) = Sum([x \in {y \in trades : taker[y] = t} |-> amount[x]])
      /\ Paid(t, i) = Sum([x \in {y \in trades : giver[y] = t} |-> amount[x]])
  <2>1. /\ {y \in trades : taker[y] = t} = {x \in trades :
               Terms[IF i = "base" THEN x.match.buy ELSE x.match.sell].trader = t}
        /\ {y \in trades : giver[y] = t} = {x \in trades :
               Terms[IF i = "base" THEN x.match.sell ELSE x.match.buy].trader = t}
    OBVIOUS
  <2>2. ASSUME NEW of \in SUBSET trades
        PROVE  [x \in of |-> amount[x]] = [x \in of |-> size(x)]
    OBVIOUS
  <2> QED
    BY <2>1, <2>2 DEF Received, Paid
<1>3. /\ Received(t, i)' = Sum([x \in {y \in U : taker[y] = t} |-> amount[x]])
      /\ Paid(t, i)' = Sum([x \in {y \in U : giver[y] = t} |-> amount[x]])
  <2>1. /\ {y \in U : taker[y] = t} = {x \in U :
               Terms[IF i = "base" THEN x.match.buy ELSE x.match.sell].trader = t}
        /\ {y \in U : giver[y] = t} = {x \in U :
               Terms[IF i = "base" THEN x.match.sell ELSE x.match.buy].trader = t}
    OBVIOUS
  <2>2. ASSUME NEW of \in SUBSET U
        PROVE  [x \in of |-> amount[x]] = [x \in of |-> size(x)]
    OBVIOUS
  <2>3. \A x : QuoteAmount(x)' = QuoteAmount(x)
    BY DEF QuoteAmount, Mul
  <2> QED
    BY <2>1, <2>2, <2>3 DEF Received, Paid
<1>4. /\ new \in U /\ amount[new] = size(new)
      /\ taker[new] = Terms[IF i = "base" THEN new.match.buy ELSE new.match.sell].trader
      /\ giver[new] = Terms[IF i = "base" THEN new.match.sell ELSE new.match.buy].trader
  OBVIOUS
<1> HIDE DEF amount, taker, giver
<1>5. Received(t, i)' = Received(t, i) + (IF taker[new] = t THEN amount[new] ELSE 0)
  <2> DEFINE before == {y \in trades : taker[y] = t}
             after  == {y \in trades \cup {new} : taker[y] = t}
  <2>1. /\ before \in SUBSET trades /\ (after = before \/ after = before \cup {new})
        /\ new \in after <=> taker[new] = t
    OBVIOUS
  <2>2. Received(t, i) = Sum([x \in before |-> amount[x]])
        /\ Received(t, i)' = Sum([x \in after |-> amount[x]])
    BY <1>2, <1>3
  <2> HIDE DEF before, after
  <2>3. Sum([x \in after |-> amount[x]]) = Sum([x \in before |-> amount[x]])
          + (IF new \in after THEN amount[new] ELSE 0)
    BY <1>1, <2>1, SumEntries
  <2> QED
    BY <2>1, <2>2, <2>3
<1>6. Paid(t, i)' = Paid(t, i) + (IF giver[new] = t THEN amount[new] ELSE 0)
  <2> DEFINE before == {y \in trades : giver[y] = t}
             after  == {y \in trades \cup {new} : giver[y] = t}
  <2>1. /\ before \in SUBSET trades /\ (after = before \/ after = before \cup {new})
        /\ new \in after <=> giver[new] = t
    OBVIOUS
  <2>2. Paid(t, i) = Sum([x \in before |-> amount[x]])
        /\ Paid(t, i)' = Sum([x \in after |-> amount[x]])
    BY <1>2, <1>3
  <2> HIDE DEF before, after
  <2>3. Sum([x \in after |-> amount[x]]) = Sum([x \in before |-> amount[x]])
          + (IF new \in after THEN amount[new] ELSE 0)
    BY <1>1, <2>1, SumEntries
  <2> QED
    BY <2>1, <2>2, <2>3
<1> QED
  BY <1>4, <1>5, <1>6

LEMMA InitExplained == Init => Explained
<1> SUFFICES ASSUME Init PROVE Explained
  OBVIOUS
<1>1. trades = {} /\ free = InitialFree /\ \A o \in Orders : allocation[o].locked = 0
  BY DEF Init, NoAllocation
<1>2. ASSUME NEW t, NEW i PROVE LockedOf(t, i) = 0
  <2> DEFINE P == {p \in Orders : Terms[p].trader = t /\ LockInstrument(p) = i}
             f == [o \in P |-> allocation[o].locked]
  <2>1. IsFiniteSet(P) /\ f \in [P -> Nat] /\ \A o \in P : f[o] = 0
    BY <1>1, BookAssumption, FS_Subset
  <2>2. LockedOf(t, i) = Sum(f)
    BY DEF LockedOf
  <2> HIDE DEF P, f
  <2> QED
    BY <2>1, <2>2, SumZero
<1>3. ASSUME NEW f, DOMAIN f = {} PROVE Sum(f) = 0
  <2>1. Coins(f) = {}
    BY <1>3 DEF Coins
  <2> QED
    BY <2>1, FS_EmptySet DEF Sum
<1>4. ASSUME NEW t, NEW i PROVE Received(t, i) = 0 /\ Paid(t, i) = 0
  BY <1>1, <1>3 DEF Received, Paid
<1>5. ASSUME NEW t \in Traders, NEW i \in Instruments
      PROVE  free[t][i] + LockedOf(t, i) + Paid(t, i) = InitialFree[t][i] + Received(t, i)
  <2>1. free[t][i] \in Nat /\ free[t][i] = InitialFree[t][i]
    BY <1>1, BookAssumption
  <2> QED
    BY <1>2, <1>4, <2>1
<1> QED
  BY <1>1, <1>5, FS_EmptySet DEF Explained, TradesExplainHoldings

(* Steps that leave every trader what it has, free and locked together. *)
LEMMA HoldingsKeepExplained ==
  ASSUME TypeOK, TypeOK', Explained, UNCHANGED trades,
         \A t \in Traders, i \in Instruments :
           free'[t][i] + LockedOf(t, i)' = free[t][i] + LockedOf(t, i)
  PROVE  Explained'
<1>1. \A t, i : Received(t, i)' = Received(t, i) /\ Paid(t, i)' = Paid(t, i)
  BY DEF Received, Paid, QuoteAmount, Mul
<1>2. TradesExplainHoldings'
  BY <1>1 DEF Explained, TradesExplainHoldings
<1> QED
  BY <1>2 DEF Explained, QuoteAmount, Mul

(* Steps that move one lock between free and locked holdings. *)
LEMMA LockKeepsExplained ==
  ASSUME TypeOK, TypeOK', Explained, NEW o \in Orders, UNCHANGED trades,
         \A p \in Orders : p # o => allocation'[p].locked = allocation[p].locked,
         \A t \in Traders, i \in Instruments :
           free'[t][i] = free[t][i] + (IF LocksCell(o, t, i)
                         THEN allocation[o].locked - allocation'[o].locked ELSE 0)
  PROVE  Explained'
<1>1. ASSUME NEW t \in Traders, NEW i \in Instruments
      PROVE  free'[t][i] + LockedOf(t, i)' = free[t][i] + LockedOf(t, i)
  <2>1. LockedOf(t, i)' = LockedOf(t, i) + (IF LocksCell(o, t, i)
           THEN allocation'[o].locked - allocation[o].locked ELSE 0)
    BY LockedStep
  <2>2. /\ LockedOf(t, i) \in Nat /\ free[t][i] \in Nat
        /\ allocation[o].locked \in Nat /\ allocation'[o].locked \in Nat
    BY LockedType DEF TypeOK
  <2>3. free'[t][i] = free[t][i] + (IF LocksCell(o, t, i)
                        THEN allocation[o].locked - allocation'[o].locked ELSE 0)
    OBVIOUS
  <2>4. CASE LocksCell(o, t, i)
    BY <2>1, <2>2, <2>3, <2>4
  <2>5. CASE ~ LocksCell(o, t, i)
    BY <2>1, <2>2, <2>3, <2>5
  <2> QED
    BY <2>4, <2>5
<1> QED
  BY <1>1, HoldingsKeepExplained

(* Nothing that holds, locks or pays changes. *)
LEMMA StillExplained ==
  ASSUME Explained, UNCHANGED <<allocation, free, trades>>
  PROVE  Explained'
<1>1. TradesExplainHoldings'
  BY DEF Explained, TradesExplainHoldings, LockedOf, LockInstrument, Bid, Received,
         Paid, QuoteAmount, Mul
<1> QED
  BY <1>1 DEF Explained, QuoteAmount, Mul

(* What a cell of the unlocked holdings is after one cell has changed. *)
LEMMA FreeAfter ==
  ASSUME free \in [Traders -> [Instruments -> Nat]], NEW o \in Orders, NEW n,
         free' = [free EXCEPT ![Terms[o].trader][LockInstrument(o)] = n],
         NEW t \in Traders, NEW i \in Instruments
  PROVE  free'[t][i] = IF LocksCell(o, t, i) THEN n ELSE free[t][i]
BY DEF LocksCell

(* A lock that ends comes back to its author. *)
LEMMA ReleaseKeepsExplained ==
  ASSUME TypeOK, TypeOK', Explained, NEW a \in Orders, UNCHANGED trades,
         free' = Released(a), allocation'[a].locked = 0,
         \A p \in Orders : p # a => allocation'[p].locked = allocation[p].locked
  PROVE  Explained'
<1>1. /\ free \in [Traders -> [Instruments -> Nat]] /\ allocation[a].locked \in Nat
      /\ Terms[a].trader \in Traders /\ LockInstrument(a) \in Instruments
  BY TermFacts DEF TypeOK
<1>2. ASSUME NEW t \in Traders, NEW i \in Instruments
      PROVE  free'[t][i] = free[t][i] + (IF LocksCell(a, t, i)
                           THEN allocation[a].locked - allocation'[a].locked ELSE 0)
  <2>1. free'[t][i] = IF LocksCell(a, t, i)
                      THEN free[Terms[a].trader][LockInstrument(a)] + allocation[a].locked
                      ELSE free[t][i]
    BY <1>1, FreeAfter DEF Released
  <2>2. free[t][i] \in Nat
    BY <1>1
  <2> QED
    BY <1>1, <2>1, <2>2 DEF LocksCell
<1> QED
  BY <1>2, LockKeepsExplained

(* Authoring a lock: what is taken from other locks and from the unlocked  *)
(* holdings together is what it locks.                                     *)
LEMMA AuthorKeepsExplained ==
  ASSUME TypeOK, TypeOK', Explained, NEW o \in Orders, AuthorLock(o)
  PROVE  Explained'
<1> DEFINE n == LockAmount(o)
<1>1. PICK taken \in SUBSET Reusable(o) :
        /\ free' = [free EXCEPT ![Terms[o].trader][LockInstrument(o)]
                      = @ + Retaken(taken) - LockAmount(o)]
        /\ allocation'[o].locked = LockAmount(o)
        /\ \A a \in taken : allocation'[a].locked = 0
        /\ \A a \in Orders : a # o /\ a \notin taken => allocation'[a] = allocation[a]
  BY AuthorParts
<1>2. allocation[o].locked = 0 /\ UNCHANGED trades
  BY DEF AuthorLock
<1>3. taken \subseteq Orders \ {o}
      /\ \A a \in taken : /\ Terms[a].trader = Terms[o].trader
                           /\ LockInstrument(a) = LockInstrument(o)
  BY DEF Reusable
<1>4. n \in Nat /\ Retaken(taken) \in Nat
      /\ free \in [Traders -> [Instruments -> Nat]]
  BY <1>3, LockNat, RetakenNat DEF TypeOK
<1>5. ASSUME NEW t \in Traders, NEW i \in Instruments
      PROVE  free'[t][i] + LockedOf(t, i)' = free[t][i] + LockedOf(t, i)
  <2> DEFINE P == {p \in Orders : Terms[p].trader = t /\ LockInstrument(p) = i}
             f == [p \in P |-> allocation[p].locked]
             g == [p \in P |-> allocation'[p].locked]
             back == [p \in P |-> IF p \in taken THEN allocation[p].locked ELSE 0]
             new == [p \in P |-> IF p = o THEN n ELSE 0]
  <2>1. IsFiniteSet(P) /\ f \in [P -> Nat] /\ g \in [P -> Nat]
        /\ back \in [P -> Nat] /\ new \in [P -> Nat]
    BY <1>4, BookAssumption, FS_Subset DEF TypeOK
  <2>2. LockedOf(t, i) = Sum(f) /\ LockedOf(t, i)' = Sum(g)
    BY DEF LockedOf, LockInstrument, Bid
  <2>3. free'[t][i] = IF LocksCell(o, t, i) THEN free[t][i] + Retaken(taken) - n
                      ELSE free[t][i]
    BY <1>1, <1>4, FreeAfter DEF LocksCell
  <2>4. free[t][i] \in Nat /\ Sum(f) \in Nat /\ Sum(g) \in Nat
    BY <1>4, <2>1, SumNat
  <2>5. CASE LocksCell(o, t, i)
    <3>1. o \in P /\ taken \subseteq P
      BY <1>3, <2>5 DEF LocksCell
    <3>2. Sum(new) = n
      <4> HIDE DEF n, P
      <4> QED
        BY <1>4, <2>1, <3>1, SumSingle
    <3>3. Sum(back) = Retaken(taken)
      <4> DEFINE same == [a \in taken |-> a]
      <4>1. same \in [taken -> P] /\ (\A a, c \in taken : same[a] = same[c] => a = c)
            /\ \A p \in P : back[p] # 0 => \E a \in taken : same[a] = p
        BY <3>1
      <4>2. [a \in taken |-> back[same[a]]] = [a \in taken |-> allocation[a].locked]
        BY <3>1
      <4> HIDE DEF same, back, P
      <4>3. Sum([a \in taken |-> back[same[a]]]) = Sum(back)
        BY <2>1, <4>1, SumReindex
      <4> QED
        BY <4>2, <4>3 DEF Retaken
    <3>4. \A p \in P : g[p] + back[p] = f[p] + new[p]
      <4> SUFFICES ASSUME NEW p \in P PROVE g[p] + back[p] = f[p] + new[p]
        OBVIOUS
      <4>1. allocation[p].locked \in Nat
        BY DEF TypeOK
      <4>2. CASE p = o
        BY <1>1, <1>2, <1>3, <1>4, <4>1, <4>2
      <4>3. CASE p \in taken
        BY <1>1, <1>3, <4>1, <4>3
      <4>4. CASE p # o /\ p \notin taken
        BY <1>1, <4>1, <4>4
      <4> QED
        BY <4>2, <4>3, <4>4
    <3> HIDE DEF P, f, g, back, new, n
    <3>5. Plus(g, back) = Plus(f, new)
      BY <2>1, <3>4 DEF Plus
    <3>6. Sum(Plus(g, back)) = Sum(g) + Sum(back) /\ Sum(Plus(f, new)) = Sum(f) + Sum(new)
      BY <2>1, SumPlus
    <3>7. Sum(g) + Retaken(taken) = Sum(f) + n
      BY <3>2, <3>3, <3>5, <3>6
    <3> QED
      BY <1>4, <2>2, <2>3, <2>4, <2>5, <3>7
  <2>6. CASE ~ LocksCell(o, t, i)
    <3>1. \A p \in P : g[p] = f[p]
      BY <1>1, <1>3, <2>6 DEF LocksCell
    <3>2. g = f
      BY <2>1, <3>1
    <3> QED
      BY <2>2, <2>3, <2>6, <3>2
  <2> QED
    BY <2>5, <2>6
<1> QED
  BY <1>2, <1>5, HoldingsKeepExplained

LEMMA OrderStepKeepsExplained ==
  ASSUME Inv, TypeOK', Explained, NEW o \in Orders,
         \/ Place(o) \/ CloseIntent(o) \/ Bind(o) \/ Fund(o) \/ Cancel(o)
         \/ DeadlinePasses(o) \/ AuthorLock(o) \/ AuthorReceipt(o)
         \/ \E k \in Kinds : Withdraw(o, k)
  PROVE  Explained'
<1>0. TypeOK /\ allocation \in [Orders -> AllocationType]
  BY DEF Inv, TypeOK, AllocationType
<1>1. CASE UNCHANGED <<allocation, free, trades>>
  BY <1>1, StillExplained
<1>2. CASE Cancel(o) /\ free' = Released(bound[o]["lock"]) /\ Archive(Uses(o))
            /\ Backed(o)
  <2> DEFINE a == bound[o]["lock"]
  <2>1. a \in Orders /\ <<"lock", a>> \in Uses(o)
        /\ \A p \in Orders : p # a => <<"lock", p>> \notin Uses(o)
    BY <1>0, <1>2, BoundFacts DEF Uses
  <2>2. allocation'[a].locked = 0
        /\ \A p \in Orders : p # a => allocation'[p].locked = allocation[p].locked
    BY <1>2, <2>1 DEF Archive
  <2>3. UNCHANGED trades /\ free' = Released(a)
    BY <1>2 DEF Cancel
  <2> HIDE DEF a
  <2> QED
    BY <1>0, <2>1, <2>2, <2>3, ReleaseKeepsExplained
<1>3. CASE AuthorLock(o)
  BY <1>0, <1>3, AuthorKeepsExplained
<1>4. CASE AuthorReceipt(o)
  <2>1. /\ \A p \in Orders : allocation'[p].locked = allocation[p].locked
        /\ UNCHANGED <<free, trades>>
    BY <1>0, <1>4 DEF AuthorReceipt, AllocationType
  <2>2. \A t \in Traders, i \in Instruments : free'[t][i] = free[t][i] +
          (IF LocksCell(o, t, i) THEN allocation[o].locked - allocation'[o].locked ELSE 0)
    BY <1>0, <2>1 DEF TypeOK
  <2> QED
    BY <1>0, <2>1, <2>2, LockKeepsExplained
<1>5. ASSUME NEW k \in Kinds, Withdraw(o, k)
      PROVE  Explained'
  <2>1. Archive({<<k, o>>}) /\ UNCHANGED trades
        /\ free' = IF k = "lock" THEN Released(o) ELSE free
    BY <1>5 DEF Withdraw
  <2>2. CASE k = "lock"
    <3>1. allocation'[o].locked = 0
          /\ \A p \in Orders : p # o => allocation'[p].locked = allocation[p].locked
      BY <2>1, <2>2 DEF Archive
    <3> QED
      BY <1>0, <2>1, <2>2, <3>1, ReleaseKeepsExplained
  <2>3. CASE k # "lock"
    <3>1. \A p \in Orders : allocation'[p].locked = allocation[p].locked
      BY <2>1, <2>3 DEF Archive
    <3>2. \A t \in Traders, i \in Instruments : free'[t][i] = free[t][i] +
            (IF LocksCell(o, t, i) THEN allocation[o].locked - allocation'[o].locked ELSE 0)
      BY <1>0, <2>1, <2>3, <3>1 DEF TypeOK
    <3> QED
      BY <1>0, <2>1, <3>1, <3>2, LockKeepsExplained
  <2> QED
    BY <2>2, <2>3
<1>6. CASE Cancel(o)
  BY <1>1, <1>2, <1>6 DEF Cancel
<1>7. CASE Place(o) \/ CloseIntent(o) \/ Bind(o) \/ Fund(o) \/ DeadlinePasses(o)
  BY <1>1, <1>7 DEF Place, CloseIntent, Bind, Fund, DeadlinePasses
<1> QED
  BY <1>3, <1>4, <1>5, <1>6, <1>7

(* What a settled order could spend is what its lock still holds, what it  *)
(* gets back, and what it spent.                                           *)
LEMMA LockSplit ==
  ASSUME NEW o, Budget(o) \in Nat, NEW filled, NEW spent \in Nat, spent <= Budget(o)
  PROVE  /\ Left(o, filled, spent) \in Nat
         /\ Change(o, filled, spent) \in Nat
         /\ Left(o, filled, spent) + Change(o, filled, spent) + spent = Budget(o)
BY DEF Left, Change, Residual

(* What a settled lock gives back and pays is what it no longer holds. *)
LEMMA Rebalance ==
  ASSUME NEW held \in Nat, NEW locked \in Nat, NEW paid \in Nat,
         NEW initial \in Nat, NEW received \in Nat,
         NEW back \in Nat, NEW spent \in Nat, NEW rest \in Nat, NEW had \in Nat,
         held + locked + paid = initial + received, rest + back + spent = had
  PROVE  (held + back) + (locked + (rest - had)) + (paid + spent)
           = initial + (received + 0)
OBVIOUS

(***************************************************************************)
(* A fill.  In base the buyer receives what the seller's lock paid; in     *)
(* quote the seller receives what the buyer's lock paid; the rest of       *)
(* either lock rolls on or comes back.                                     *)
(***************************************************************************)
LEMMA FillKeepsExplained ==
  ASSUME Inv, TypeOK', Explained, NEW m, NEW cb, NEW cs, NEW answered \in BOOLEAN,
         Accepted(m, cb, cs), Covered(m), Settle(m, answered),
         \A u \in trades : u.match # m
  PROVE  Explained'
<1> DEFINE b == m.buy
           s == m.sell
           q == m.quantity
           pay == QuoteAmount(m)
           x == bound[b]["lock"]
           y == bound[s]["lock"]
           ab == Left(b, q, pay)
           as == Left(s, q, q)
           cgb == Change(b, q, pay)
           cgs == Change(s, q, q)
           buyer == Terms[b].trader
           seller == Terms[s].trader
           T == Trade(m, answered)
<1>1. /\ b \in Orders /\ s \in Orders /\ b # s
      /\ buyer # seller /\ buyer \in Traders /\ seller \in Traders
  BY FillFacts DEF Inv
<1>2. /\ allocation[x].locked \in Nat /\ allocation[y].locked \in Nat
      /\ free \in [Traders -> [Instruments -> Nat]]
      /\ allocation[x].locked = Budget(b) /\ allocation[y].locked = Budget(s)
  BY <1>1, FillFacts DEF Inv, TypeOK, Budget
<1>3. /\ q \in Nat /\ pay \in Nat
      /\ pay <= allocation[x].locked /\ q <= allocation[y].locked
  BY <1>2, FillFacts DEF Inv
<1>4. ab \in Nat /\ cgb \in Nat /\ ab + cgb + pay = allocation[x].locked
  BY <1>2, <1>3, LockSplit
<1>5. as \in Nat /\ cgs \in Nat /\ as + cgs + q = allocation[y].locked
  BY <1>2, <1>3, LockSplit
<1>6. /\ free' = [free EXCEPT
           ![buyer] = [base |-> @["base"] + q, quote |-> @["quote"] + cgb],
           ![seller] = [base |-> @["base"] + cgs, quote |-> @["quote"] + pay]]
      /\ trades' = trades \cup {T}
  BY DEF Settle
<1>7. T.match = m /\ T \notin trades
  BY DEF Trade
<1>9. /\ x \in Orders /\ y \in Orders /\ x # y
      /\ Terms[x].trader = buyer /\ LockInstrument(x) = "quote"
      /\ Terms[y].trader = seller /\ LockInstrument(y) = "base"
      /\ allocation'[x].locked = ab /\ allocation'[y].locked = as
      /\ \A p \in Orders \ {x, y} : allocation'[p].locked = allocation[p].locked
  BY SettleLinks DEF LockInstrument
<1> HIDE DEF ab, as, cgb, cgs, pay, q, T, x, y
<1>10. \A t \in Traders :
         /\ free'[t]["base"] = free[t]["base"] + (IF t = buyer THEN q ELSE 0)
                                 + (IF t = seller THEN cgs ELSE 0)
         /\ free'[t]["quote"] = free[t]["quote"] + (IF t = buyer THEN cgb ELSE 0)
                                  + (IF t = seller THEN pay ELSE 0)
  <2> SUFFICES ASSUME NEW t \in Traders
      PROVE  /\ free'[t]["base"] = free[t]["base"] + (IF t = buyer THEN q ELSE 0)
                                 + (IF t = seller THEN cgs ELSE 0)
             /\ free'[t]["quote"] = free[t]["quote"] + (IF t = buyer THEN cgb ELSE 0)
                                  + (IF t = seller THEN pay ELSE 0)
    OBVIOUS
  <2>1. free[t]["base"] \in Nat /\ free[t]["quote"] \in Nat
    BY <1>2 DEF Instruments
  <2>2. CASE t = buyer
    <3>1. free'[t] = [base |-> free[t]["base"] + q, quote |-> free[t]["quote"] + cgb]
      BY <1>1, <1>2, <1>6, <2>2
    <3> QED
      BY <1>1, <1>3, <1>4, <2>1, <2>2, <3>1
  <2>3. CASE t = seller
    <3>1. free'[t] = [base |-> free[t]["base"] + cgs, quote |-> free[t]["quote"] + pay]
      BY <1>1, <1>2, <1>6, <2>3
    <3> QED
      BY <1>1, <1>3, <1>5, <2>1, <2>3, <3>1
  <2>4. CASE t # buyer /\ t # seller
    <3>1. free'[t] = free[t]
      BY <1>1, <1>2, <1>6, <2>4
    <3> QED
      BY <2>1, <2>4, <3>1
  <2> QED
    BY <2>2, <2>3, <2>4
<1>11. q = T.match.quantity /\ pay = QuoteAmount(T.match)
       /\ b = T.match.buy /\ s = T.match.sell
  BY <1>7 DEF q, pay
<1>12. ASSUME NEW t \in Traders
       PROVE  \A i \in Instruments : free'[t][i] + LockedOf(t, i)' + Paid(t, i)'
                                       = InitialFree[t][i] + Received(t, i)'
  <2>12. /\ Received(t, "base")' = Received(t, "base") + (IF t = buyer THEN q ELSE 0)
                /\ Paid(t, "base")' = Paid(t, "base") + (IF t = seller THEN q ELSE 0)
                /\ Received(t, "quote")' = Received(t, "quote")
                                             + (IF t = seller THEN pay ELSE 0)
                /\ Paid(t, "quote")' = Paid(t, "quote") + (IF t = buyer THEN pay ELSE 0)
    <3>1. /\ T.match.quantity \in Nat /\ QuoteAmount(T.match) \in Nat
          /\ T \notin trades /\ trades' = trades \cup {T}
      BY <1>3, <1>6, <1>7, <1>11
    <3>2. /\ Received(t, "base")' = Received(t, "base") +
               (IF Terms[T.match.buy].trader = t THEN T.match.quantity ELSE 0)
          /\ Paid(t, "base")' = Paid(t, "base") +
               (IF Terms[T.match.sell].trader = t THEN T.match.quantity ELSE 0)
      BY <3>1, TradedStep
    <3>3. /\ Received(t, "quote")' = Received(t, "quote") +
               (IF Terms[T.match.sell].trader = t THEN QuoteAmount(T.match) ELSE 0)
          /\ Paid(t, "quote")' = Paid(t, "quote") +
               (IF Terms[T.match.buy].trader = t THEN QuoteAmount(T.match) ELSE 0)
      BY <3>1, TradedStep
    <3> QED
      BY <1>11, <3>2, <3>3
  <2>13. /\ LockedOf(t, "base")' = LockedOf(t, "base")
                     + (IF t = seller THEN as - allocation[y].locked ELSE 0)
                /\ LockedOf(t, "quote")' = LockedOf(t, "quote")
                     + (IF t = buyer THEN ab - allocation[x].locked ELSE 0)
    <3>1. /\ \A p \in Orders : p # y /\ LocksCell(p, t, "base") =>
                                allocation'[p].locked = allocation[p].locked
          /\ LocksCell(y, t, "base") <=> t = seller
      BY <1>1, <1>9 DEF LocksCell
    <3>2. /\ \A p \in Orders : p # x /\ LocksCell(p, t, "quote") =>
                                allocation'[p].locked = allocation[p].locked
          /\ LocksCell(x, t, "quote") <=> t = buyer
      BY <1>1, <1>9 DEF LocksCell
    <3>3. LockedOf(t, "base")' = LockedOf(t, "base") +
            (IF LocksCell(y, t, "base") THEN allocation'[y].locked - allocation[y].locked
             ELSE 0)
      BY <1>9, <3>1, LockedStep DEF Inv
    <3>4. LockedOf(t, "quote")' = LockedOf(t, "quote") +
            (IF LocksCell(x, t, "quote") THEN allocation'[x].locked - allocation[x].locked
             ELSE 0)
      BY <1>9, <3>2, LockedStep DEF Inv
    <3> QED
      BY <1>9, <3>1, <3>2, <3>3, <3>4
  <2>1. /\ \A i \in Instruments :
             /\ LockedOf(t, i) \in Nat /\ Paid(t, i) \in Nat /\ Received(t, i) \in Nat
             /\ free[t][i] \in Nat /\ InitialFree[t][i] \in Nat
             /\ free[t][i] + LockedOf(t, i) + Paid(t, i)
                  = InitialFree[t][i] + Received(t, i)
    BY <1>2, LockedType, TradedType, BookAssumption DEF Inv, Explained, TradesExplainHoldings
  <2>2. free'[t]["base"] + LockedOf(t, "base")' + Paid(t, "base")'
          = InitialFree[t]["base"] + Received(t, "base")'
    <3>1. /\ LockedOf(t, "base") \in Nat /\ Paid(t, "base") \in Nat
          /\ Received(t, "base") \in Nat
          /\ free[t]["base"] \in Nat /\ InitialFree[t]["base"] \in Nat
          /\ free[t]["base"] + LockedOf(t, "base") + Paid(t, "base")
               = InitialFree[t]["base"] + Received(t, "base")
      BY <2>1 DEF Instruments
    <3>2. CASE t = buyer
      <4>1. /\ free'[t]["base"] = free[t]["base"] + q
            /\ LockedOf(t, "base")' = LockedOf(t, "base")
            /\ Received(t, "base")' = Received(t, "base") + q
            /\ Paid(t, "base")' = Paid(t, "base")
        BY <1>1, <1>3, <1>4, <1>5, <1>10, <2>12, <2>13, <3>1, <3>2
      <4>2. q \in Nat
        BY <1>2, <1>3, <1>5
      <4> QED
        BY <3>1, <4>1, <4>2
    <3>3. CASE t = seller
      <4> DEFINE rest == as
                 had == allocation[y].locked
      <4>1. free'[t]["base"] = free[t]["base"] + cgs
        <5>1. free'[t]["base"] = free[t]["base"] + 0 + cgs
          BY <1>1, <1>10, <3>3
        <5> QED
          BY <1>5, <3>1, <5>1
      <4>2. LockedOf(t, "base")' = LockedOf(t, "base") + (rest - had)
        BY <2>13, <3>3
      <4>3. Received(t, "base")' = Received(t, "base") + 0
        BY <1>1, <2>12, <3>3
      <4>4. Paid(t, "base")' = Paid(t, "base") + q
        BY <2>12, <3>3
      <4>5. /\ q \in Nat /\ cgs \in Nat /\ rest \in Nat /\ had \in Nat
            /\ rest + cgs + q = had
        BY <1>2, <1>3, <1>5
      <4> HIDE DEF rest, had
      <4>6. (free[t]["base"] + cgs) + (LockedOf(t, "base") + (rest - had))
              + (Paid(t, "base") + q) = InitialFree[t]["base"] + (Received(t, "base") + 0)
        BY <3>1, <4>5, Rebalance
      <4> QED
        BY <4>1, <4>2, <4>3, <4>4, <4>6
    <3>4. CASE t # buyer /\ t # seller
      <4>1. /\ free'[t]["base"] = free[t]["base"]
            /\ LockedOf(t, "base")' = LockedOf(t, "base")
            /\ Received(t, "base")' = Received(t, "base")
            /\ Paid(t, "base")' = Paid(t, "base")
        BY <1>10, <2>12, <2>13, <3>1, <3>4
      <4> QED
        BY <3>1, <4>1
    <3> QED
      BY <3>2, <3>3, <3>4
  <2>3. free'[t]["quote"] + LockedOf(t, "quote")' + Paid(t, "quote")'
          = InitialFree[t]["quote"] + Received(t, "quote")'
    <3>1. /\ LockedOf(t, "quote") \in Nat /\ Paid(t, "quote") \in Nat
          /\ Received(t, "quote") \in Nat
          /\ free[t]["quote"] \in Nat /\ InitialFree[t]["quote"] \in Nat
          /\ free[t]["quote"] + LockedOf(t, "quote") + Paid(t, "quote")
               = InitialFree[t]["quote"] + Received(t, "quote")
      BY <2>1 DEF Instruments
    <3>2. CASE t = buyer
      <4>1. /\ free'[t]["quote"] = free[t]["quote"] + cgb
            /\ LockedOf(t, "quote")' = LockedOf(t, "quote") + (ab - allocation[x].locked)
            /\ Received(t, "quote")' = Received(t, "quote")
            /\ Paid(t, "quote")' = Paid(t, "quote") + pay
        BY <1>1, <1>3, <1>4, <1>5, <1>10, <2>12, <2>13, <3>1, <3>2
      <4>2. /\ pay \in Nat /\ cgb \in Nat /\ ab \in Nat /\ allocation[x].locked \in Nat
            /\ ab + cgb + pay = allocation[x].locked
        BY <1>2, <1>3, <1>4
      <4> QED
        BY <3>1, <4>1, <4>2
    <3>3. CASE t = seller
      <4>1. /\ free'[t]["quote"] = free[t]["quote"] + pay
            /\ LockedOf(t, "quote")' = LockedOf(t, "quote")
            /\ Received(t, "quote")' = Received(t, "quote") + pay
            /\ Paid(t, "quote")' = Paid(t, "quote")
        BY <1>1, <1>3, <1>4, <1>5, <1>10, <2>12, <2>13, <3>1, <3>3
      <4>2. pay \in Nat
        BY <1>2, <1>3, <1>4
      <4> QED
        BY <3>1, <4>1, <4>2
    <3>4. CASE t # buyer /\ t # seller
      <4>1. /\ free'[t]["quote"] = free[t]["quote"]
            /\ LockedOf(t, "quote")' = LockedOf(t, "quote")
            /\ Received(t, "quote")' = Received(t, "quote")
            /\ Paid(t, "quote")' = Paid(t, "quote")
        BY <1>10, <2>12, <2>13, <3>1, <3>4
      <4> QED
        BY <3>1, <4>1
    <3> QED
      BY <3>2, <3>3, <3>4
  <2> QED
    BY <2>2, <2>3 DEF Instruments
<1>13. TradesExplainHoldings'
  BY <1>12 DEF TradesExplainHoldings
<1>15. IsFiniteSet(trades')
  BY <1>6, FS_AddElement DEF Explained
<1>16. \A z \in trades' : /\ z.match.buy \in Orders /\ z.match.sell \in Orders
                          /\ z.match.quantity \in Nat /\ QuoteAmount(z.match)' \in Nat
  <2>1. \A z : QuoteAmount(z)' = QuoteAmount(z)
    BY DEF QuoteAmount, Mul
  <2> QED
    BY <1>1, <1>3, <1>6, <1>11, <2>1 DEF Explained
<1> QED
  BY <1>13, <1>15, <1>16 DEF Explained

LEMMA RunStepKeepsExplained ==
  ASSUME Inv, TypeOK', Once, Explained, NEW r \in Runs,
         StartRun(r) \/ RunStep(r) \/ Unreachable(r) \/ LoseAnswer(r)
  PROVE  Explained'
<1> DEFINE m == Current(r)
           cb == run[r].live[m.buy]
           cs == run[r].live[m.sell]
<1>1. ASSUME NEW answered \in BOOLEAN, Forwards(r), Acceptable(r), Covered(m),
             Settle(m, answered)
      PROVE  Explained'
  <2>1. Accepted(m, cb, cs) /\ \A u \in trades : u.match # m
    BY <1>1, FreshCross DEF Acceptable, Inv
  <2> HIDE DEF m, cb, cs
  <2> QED
    BY <1>1, <2>1, FillKeepsExplained
<1>2. CASE Execute(r)
  BY <1>1, <1>2 DEF Execute
<1>3. CASE LoseAnswer(r)
  BY <1>1, <1>3 DEF LoseAnswer
<1>4. CASE StartRun(r) \/ Skip(r) \/ Replay(r) \/ Refused(r) \/ Unreachable(r)
  BY <1>4, StillExplained DEF StartRun, Skip, Replay, Refused, Unreachable, ledger
<1> QED
  BY <1>2, <1>3, <1>4 DEF RunStep

LEMMA NextExplained == Inv /\ TypeOK' /\ Once /\ Explained /\ [Next]_vars => Explained'
<1> SUFFICES ASSUME Inv, TypeOK', Once, Explained, [Next]_vars PROVE Explained'
  OBVIOUS
<1>1. CASE UNCHANGED vars
  BY <1>1, StillExplained DEF vars, ledger
<1>2. CASE Next
  BY <1>2, OrderStepKeepsExplained, RunStepKeepsExplained DEF Next
<1> QED
  BY <1>1, <1>2

(* Every holding, free or locked, is what its trader began with and what   *)
(* the recorded trades moved, in every interleaving of placements, fills,  *)
(* withdrawals, cancellations and lost answers.                            *)
THEOREM TradesExplain == Spec => []TradesExplainHoldings
<1>1. Spec => []Once
  BY BookTypes, InitOnce, NextOnce, PTL DEF Spec
<1>2. Explained => TradesExplainHoldings
  BY DEF Explained
<1> QED
  BY <1>1, <1>2, BookTypes, BookInv, InitExplained, NextExplained, PTL DEF Spec
-----------------------------------------------------------------------------
(* What the matcher is given: finitely many rows, one for an order.        *)
Row == [id : Orders, cid : Nat, trader : Traders, side : {"Bid", "Ask"},
        limit : Nat \ {0}, remaining : Nat \ {0}, since : Nat \cup {Unknown}]

Rows(E) ==
  E \in SUBSET Row /\ IsFiniteSet(E) /\ \A o, p \in E : o.id = p.id => o = p

(* Time priority is a strict total order. *)
LEMMA RestingOrder ==
  ASSUME NEW E, Rows(E), NEW o \in E, NEW p \in E, NEW q \in E
  PROVE  /\ o # p => byRestingTime(o, p) \/ byRestingTime(p, o)
         /\ ~ (byRestingTime(o, p) /\ byRestingTime(p, o))
         /\ byRestingTime(o, p) /\ byRestingTime(p, q) => byRestingTime(o, q)
<1>1. /\ o.since \in Nat \cup {-1} /\ p.since \in Nat \cup {-1} /\ q.since \in Nat \cup {-1}
      /\ o.id \in Orders /\ p.id \in Orders /\ q.id \in Orders
      /\ o # p => o.id # p.id
  BY DEF Rows, Row, Unknown
<1>2. /\ CidRank[o.id] \in Int /\ CidRank[p.id] \in Int /\ CidRank[q.id] \in Int
      /\ o # p => CidRank[o.id] # CidRank[p.id]
  BY <1>1, BookAssumption
<1> QED
  BY <1>1, <1>2 DEF byRestingTime, Dated, Unknown

LEMMA FirstBid ==
  ASSUME NEW E, Rows(E), NEW S \in SUBSET E, S # {}
  PROVE  /\ First(S, BidBefore) \in S
         /\ \A p \in S \ {First(S, BidBefore)} : BidBefore(First(S, BidBefore), p)
<1> DEFINE R == {c \in S \X S : BidBefore(c[1], c[2])}
<1>1. IsFiniteSet(S)
  BY FS_Subset DEF Rows
<1>2. \A o \in S : o \in E /\ o.limit \in Nat
  BY DEF Rows, Row
<1>3. \A o, p \in S : <<o, p>> \in R <=> BidBefore(o, p)
  OBVIOUS
<1>4. ASSUME NEW o \in S, NEW p \in S, NEW q \in S
      PROVE  /\ BidBefore(o, p) /\ BidBefore(p, q) => BidBefore(o, q)
             /\ o # p => BidBefore(o, p) \/ BidBefore(p, o)
  BY <1>2, RestingOrder DEF BidBefore
<1> HIDE DEF R
<1>5. \E o \in S : \A p \in S \ {o} : <<o, p>> \in R
  BY <1>1, <1>3, <1>4, FirstExists
<1>6. \E o \in S : \A p \in S \ {o} : BidBefore(o, p)
  BY <1>3, <1>5
<1> QED
  BY <1>6 DEF First

LEMMA FirstAsk ==
  ASSUME NEW E, Rows(E), NEW S \in SUBSET E, S # {}
  PROVE  /\ First(S, AskBefore) \in S
         /\ \A p \in S \ {First(S, AskBefore)} : AskBefore(First(S, AskBefore), p)
<1> DEFINE R == {c \in S \X S : AskBefore(c[1], c[2])}
<1>1. IsFiniteSet(S)
  BY FS_Subset DEF Rows
<1>2. \A o \in S : o \in E /\ o.limit \in Nat
  BY DEF Rows, Row
<1>3. \A o, p \in S : <<o, p>> \in R <=> AskBefore(o, p)
  OBVIOUS
<1>4. ASSUME NEW o \in S, NEW p \in S, NEW q \in S
      PROVE  /\ AskBefore(o, p) /\ AskBefore(p, q) => AskBefore(o, q)
             /\ o # p => AskBefore(o, p) \/ AskBefore(p, o)
  BY <1>2, RestingOrder DEF AskBefore
<1> HIDE DEF R
<1>5. \E o \in S : \A p \in S \ {o} : <<o, p>> \in R
  BY <1>1, <1>3, <1>4, FirstExists
<1>6. \E o \in S : \A p \in S \ {o} : AskBefore(o, p)
  BY <1>3, <1>5
<1> QED
  BY <1>6 DEF First

(* The loop is well defined: its turns follow one another. *)
LEMMA LoopRuns ==
  ASSUME NEW E, IsFiniteSet(E)
  PROVE  \E after : /\ after[0] = Opening(E)
                    /\ \A n \in 1 .. Cardinality(E) : after[n] = Turn(after[n - 1])
                    /\ matchOrdersForPair(E) = after[Cardinality(E)].plan
<1> DEFINE Follows(f, k) ==
             f = [n \in 0 .. k |-> IF n = 0 THEN Opening(E)
                                   ELSE CHOOSE t \in {Turn(s) : s \in {f[n - 1]}} : TRUE]
           T == {k \in Nat : \E f : Follows(f, k)}
<1>1. 0 \in T
  <2>1. Follows([n \in 0 .. 0 |-> Opening(E)], 0)
    OBVIOUS
  <2> QED
    BY <2>1
<1>2. ASSUME NEW k \in Nat, k \in T
      PROVE  k + 1 \in T
  <2>1. PICK f : Follows(f, k)
    BY <1>2
  <2> DEFINE g == [n \in 0 .. (k + 1) |->
                    IF n = k + 1 THEN CHOOSE t \in {Turn(s) : s \in {f[k]}} : TRUE ELSE f[n]]
  <2>2. ASSUME NEW n \in 0 .. (k + 1)
        PROVE  g[n] = IF n = 0 THEN Opening(E)
                      ELSE CHOOSE t \in {Turn(s) : s \in {g[n - 1]}} : TRUE
    <3>1. CASE n = k + 1
      <4>1. k \in 0 .. (k + 1) /\ k # k + 1 /\ n - 1 = k /\ n # 0
        BY <3>1
      <4>2. g[k] = f[k]
        BY <4>1
      <4> QED
        BY <3>1, <4>1, <4>2
    <3>2. CASE n # k + 1 /\ n # 0
      <4>1. n \in 0 .. k /\ n - 1 \in 0 .. (k + 1) /\ n - 1 # k + 1
        BY <3>2
      <4>2. g[n] = f[n] /\ g[n - 1] = f[n - 1]
        BY <3>2, <4>1
      <4>3. f[n] = CHOOSE t \in {Turn(s) : s \in {f[n - 1]}} : TRUE
        BY <2>1, <3>2, <4>1
      <4> QED
        BY <3>2, <4>2, <4>3
    <3>3. CASE n = 0
      <4>1. g[0] = f[0] /\ 0 \in 0 .. k
        OBVIOUS
      <4>2. f[0] = Opening(E)
        BY <2>1, <4>1
      <4> QED
        BY <3>3, <4>1, <4>2
    <3> QED
      BY <3>1, <3>2, <3>3
  <2>3. Follows(g, k + 1)
    <3>1. g = [n \in 0 .. (k + 1) |-> g[n]]
      OBVIOUS
    <3> HIDE DEF g
    <3> QED
      BY <2>2, <3>1
  <2> HIDE DEF g
  <2> QED
    BY <2>3
<1>3. \A k \in Nat : k \in T
  <2> HIDE DEF T
  <2> QED
    BY <1>1, <1>2, Induction
<1> DEFINE N == Cardinality(E)
           loop == CHOOSE f : f = [n \in 0 .. N |->
                     IF n = 0 THEN Opening(E)
                     ELSE CHOOSE t \in {Turn(s) : s \in {f[n - 1]}} : TRUE]
<1>4. N \in Nat
  BY FS_CardinalityType
<1>5. matchOrdersForPair(E) = loop[N].plan
  BY DEF matchOrdersForPair
<1> HIDE DEF N
<1>6. PICK f : Follows(f, N)
  BY <1>3, <1>4
<1>7. Follows(loop, N)
  BY <1>6
<1> HIDE DEF loop
<1>8. loop[0] = Opening(E)
  BY <1>4, <1>7
<1>9. ASSUME NEW n \in 1 .. N
      PROVE  loop[n] = Turn(loop[n - 1])
  <2>1. loop[n] = CHOOSE t \in {Turn(s) : s \in {loop[n - 1]}} : TRUE
    <3>1. n \in 0 .. N /\ n # 0
      BY <1>4
    <3> QED
      BY <1>7, <3>1
  <2>2. {Turn(s) : s \in {loop[n - 1]}} = {Turn(loop[n - 1])}
    OBVIOUS
  <2> QED
    BY <2>1, <2>2
<1> QED
  BY <1>5, <1>8, <1>9 DEF N

-----------------------------------------------------------------------------
(* What a plan gives an order. *)
Filled(plan, o) ==
  Sum([n \in {k \in 1 .. Len(plan) : o \in {plan[k].buy, plan[k].sell}} |->
        plan[n].quantity])

Cross == [buy : Orders, buyCid : Nat, sell : Orders, sellCid : Nat, price : Nat,
          quantity : Nat \ {0}]

LEMMA FilledNat ==
  ASSUME NEW plan \in Seq(Cross), NEW o
  PROVE  Filled(plan, o) \in Nat
<1> DEFINE K == {k \in 1 .. Len(plan) : o \in {plan[k].buy, plan[k].sell}}
<1>1. Len(plan) \in Nat /\ \A k \in 1 .. Len(plan) : plan[k] \in Cross
  OBVIOUS
<1>2. [n \in K |-> plan[n].quantity] \in [K -> Nat]
  BY <1>1 DEF Cross
<1>3. IsFiniteSet(K)
  <2>1. IsFiniteSet(1 .. Len(plan)) /\ K \subseteq 1 .. Len(plan)
    BY <1>1, FS_Interval
  <2> QED
    BY <2>1, FS_Subset
<1> QED
  BY <1>2, <1>3, SumNat DEF Filled

LEMMA FilledEmpty == \A o : Filled(<< >>, o) = 0
<1> SUFFICES ASSUME NEW o PROVE Filled(<< >>, o) = 0
  OBVIOUS
<1>1. {k \in 1 .. Len(<< >>) : o \in {<< >>[k].buy, << >>[k].sell}} = {}
  OBVIOUS
<1>2. Coins([n \in {} |-> << >>[n].quantity]) = {}
  BY DEF Coins
<1> QED
  BY <1>1, <1>2, FS_EmptySet DEF Filled, Sum

LEMMA FilledNone ==
  ASSUME NEW plan \in Seq(Cross), NEW o,
         \A k \in 1 .. Len(plan) : o \notin {plan[k].buy, plan[k].sell}
  PROVE  Filled(plan, o) = 0
<1>1. {k \in 1 .. Len(plan) : o \in {plan[k].buy, plan[k].sell}} = {}
  OBVIOUS
<1>2. Coins([n \in {} |-> plan[n].quantity]) = {}
  BY DEF Coins
<1> QED
  BY <1>1, <1>2, FS_EmptySet DEF Filled, Sum

LEMMA FilledAppend ==
  ASSUME NEW plan \in Seq(Cross), NEW m \in Cross, NEW o
  PROVE  Filled(Append(plan, m), o)
           = Filled(plan, o) + (IF o \in {m.buy, m.sell} THEN m.quantity ELSE 0)
<1> DEFINE S == 1 .. Len(plan)
           x == Len(plan) + 1
           longer == Append(plan, m)
           before == {k \in S : o \in {plan[k].buy, plan[k].sell}}
           after  == {k \in 1 .. x : o \in {longer[k].buy, longer[k].sell}}
<1>1. /\ Len(plan) \in Nat /\ Len(longer) = x /\ longer \in Seq(Cross)
      /\ \A k \in S : longer[k] = plan[k]
      /\ longer[x] = m
  OBVIOUS
<1>2. \A k \in 1 .. x : longer[k] \in Cross
  BY <1>1
<1> HIDE DEF longer
<1>3. IsFiniteSet(S) /\ x \notin S /\ S \cup {x} = 1 .. x
  <2>1. IsFiniteSet(S)
    BY <1>1, FS_Interval
  <2>2. x \notin S /\ S \cup {x} = 1 .. x
    BY <1>1
  <2> QED
    BY <2>1, <2>2
<1>5. /\ before \in SUBSET S
      /\ after = IF o \in {m.buy, m.sell} THEN before \cup {x} ELSE before
  <2>1. \A k \in S : k \in after <=> k \in before
    BY <1>1, <1>3
  <2>2. x \in after <=> o \in {m.buy, m.sell}
    BY <1>1, <1>3
  <2>3. after \subseteq S \cup {x}
    BY <1>3
  <2> HIDE DEF after
  <2> QED
    BY <2>1, <2>2, <2>3
<1> DEFINE f == [n \in after |-> longer[n].quantity]
<1>6. Filled(plan, o) = Sum([n \in before |-> plan[n].quantity]) /\ Filled(longer, o) = Sum(f)
  BY <1>1 DEF Filled
<1>7. CASE o \in {m.buy, m.sell}
  <2>1. f \in [before \cup {x} -> Nat] /\ f[x] = m.quantity
    BY <1>1, <1>2, <1>3, <1>5, <1>7 DEF Cross
  <2>2. [n \in before |-> f[n]] = [n \in before |-> plan[n].quantity]
    BY <1>1, <1>5, <1>7
  <2>3. IsFiniteSet(before) /\ x \notin before
    BY <1>3, FS_Subset
  <2> HIDE DEF f, before, x
  <2>4. Sum(f) = Sum([n \in before |-> f[n]]) + f[x]
    BY <2>1, <2>3, SumAdd
  <2> QED
    BY <1>6, <1>7, <2>1, <2>2, <2>4 DEF longer
<1>8. CASE o \notin {m.buy, m.sell}
  <2>1. f = [n \in before |-> plan[n].quantity]
    BY <1>1, <1>5, <1>8
  <2>2. Filled(longer, o) = Filled(plan, o) /\ Filled(plan, o) \in Nat
    BY <1>6, <2>1, FilledNat
  <2> QED
    BY <1>8, <2>2 DEF longer
<1> QED
  BY <1>7, <1>8

(* The price of a cross is between the limits that cross. *)
LEMMA PriceBetween ==
  ASSUME NEW b, NEW a, b.limit \in Nat, a.limit \in Nat, a.limit <= b.limit
  PROVE  /\ clearingPrice(b, a) \in Nat
         /\ a.limit <= clearingPrice(b, a)
         /\ clearingPrice(b, a) <= b.limit
<1>1. PICK l \in Nat, h \in Nat : l = a.limit /\ h = b.limit
  OBVIOUS
<1> DEFINE p == Div(h + l, 2 * Scale)
<1>2. p \in Nat /\ l <= p /\ p <= h
  <2>1. PICK d \in Nat \ {0}, n \in Nat : d = 2 * Scale /\ n = (h + l) * Scale
    BY ScaleAssumption
  <2>2. /\ HalfEven(n, d) \in Nat
        /\ 2 * (HalfEven(n, d) * d) <= 2 * n + d
        /\ 2 * n <= 2 * (HalfEven(n, d) * d) + d
    BY HalfEvenBounds
  <2>3. p = HalfEven(n, d)
    BY <2>1 DEF Div
  <2> HIDE DEF p
  <2>4. 2 * (p * (2 * Scale)) = (4 * p) * Scale /\ 2 * ((h + l) * Scale) = (2 * (h + l)) * Scale
    BY <2>2, <2>3, ScaleAssumption
  <2>5. /\ (4 * p) * Scale <= (2 * (h + l) + 2) * Scale
        /\ (2 * (h + l)) * Scale <= (4 * p + 2) * Scale
    BY <2>1, <2>2, <2>3, <2>4, ScaleAssumption
  <2>6. 4 * p <= 2 * (h + l) + 2 /\ 2 * (h + l) <= 4 * p + 2
    <3>1. 4 * p \in Nat /\ 2 * (h + l) + 2 \in Nat /\ 2 * (h + l) \in Nat /\ 4 * p + 2 \in Nat
      BY <2>2, <2>3
    <3> QED
      BY <2>5, <3>1, CancelFactor, ScaleAssumption
  <2> QED
    BY <1>1, <2>2, <2>3, <2>6
<1> QED
  BY <1>1, <1>2 DEF clearingPrice

LEMMA FilledTail ==
  ASSUME NEW plan \in Seq(Cross), plan # << >>, NEW o
  PROVE  Filled(plan, o)
           = Filled(Tail(plan), o)
               + (IF o \in {Head(plan).buy, Head(plan).sell} THEN Head(plan).quantity ELSE 0)
<1> DEFINE S == 1 .. Len(plan)
           K == {k \in S : o \in {plan[k].buy, plan[k].sell}}
           f == [n \in K |-> plan[n].quantity]
           U == K \ {1}
           g == [n \in U |-> plan[n].quantity]
           T == {k \in 1 .. Len(Tail(plan)) : o \in {Tail(plan)[k].buy, Tail(plan)[k].sell}}
           up == [k \in T |-> k + 1]
<1>1. /\ Len(plan) \in Nat \ {0} /\ Len(Tail(plan)) = Len(plan) - 1
      /\ \A k \in 1 .. Len(plan) - 1 : Tail(plan)[k] = plan[k + 1]
      /\ Head(plan) = plan[1] /\ \A k \in S : plan[k] \in Cross
  OBVIOUS
<1>2. IsFiniteSet(K) /\ IsFiniteSet(U)
  <2>1. IsFiniteSet(S) /\ K \subseteq S /\ U \subseteq S
    BY <1>1, FS_Interval
  <2> QED
    BY <2>1, FS_Subset
<1>3. f \in [K -> Nat] /\ g \in [U -> Nat] /\ \A n \in U : g[n] = f[n]
  BY <1>1 DEF Cross
<1>4. \A k : k \in T <=> k \in Nat /\ k + 1 \in U
  BY <1>1
<1>5. up \in [T -> U] /\ (\A i, j \in T : up[i] = up[j] => i = j)
      /\ \A n \in U : \E k \in T : up[k] = n
  <2>1. \A k \in T : up[k] = k + 1 /\ k \in Nat
    BY <1>4
  <2>2. \A n \in U : n - 1 \in Nat /\ (n - 1) + 1 = n
    BY <1>1
  <2>3. \A n \in U : n - 1 \in T
    BY <1>4, <2>2
  <2>4. up \in [T -> U]
    BY <1>4
  <2> HIDE DEF T, U, up
  <2> QED
    BY <2>1, <2>2, <2>3, <2>4
<1>6. \A k \in T : g[up[k]] = Tail(plan)[k].quantity
  <2>1. \A k \in T : up[k] = k + 1 /\ k + 1 \in U
    BY <1>4
  <2>2. \A k \in T : Tail(plan)[k] = plan[k + 1]
    BY <1>1
  <2>3. \A n \in U : g[n] = plan[n].quantity
    OBVIOUS
  <2> QED
    BY <2>1, <2>2, <2>3
<1>7. Filled(plan, o) = Sum(f) /\ Filled(Tail(plan), o) = Sum([k \in T |-> g[up[k]]])
  <2>1. [k \in T |-> g[up[k]]] = [k \in T |-> Tail(plan)[k].quantity]
    <3> HIDE DEF T, g, up
    <3> QED
      BY <1>6
  <2> QED
    BY <2>1 DEF Filled
<1>8. 1 \in K <=> o \in {Head(plan).buy, Head(plan).sell}
  BY <1>1
<1>9. 1 \in K => f[1] = Head(plan).quantity /\ K = U \cup {1}
  BY <1>1
<1>10. 1 \notin K => f = g
  OBVIOUS
<1>11. 1 \notin U /\ [n \in U |-> f[n]] = g
  BY <1>3
<1> HIDE DEF f, g, up, T, U, K
<1>12. Sum([k \in T |-> g[up[k]]]) = Sum(g)
  <2>1. IsFiniteSet(U) /\ g \in [U -> Nat] /\ up \in [T -> U]
    BY <1>2, <1>3, <1>5
  <2>2. \A n \in U : g[n] # 0 => \E k \in T : up[k] = n
    BY <1>5
  <2>3. \A i, j \in T : up[i] = up[j] => i = j
    BY <1>5
  <2> QED
    BY <2>1, <2>2, <2>3, SumReindex
<1>13. CASE 1 \in K
  <2>1. f \in [U \cup {1} -> Nat]
    BY <1>3, <1>9, <1>13
  <2>2. Sum(f) = Sum([n \in U |-> f[n]]) + f[1]
    BY <1>2, <1>11, <2>1, SumAdd
  <2> QED
    BY <1>7, <1>8, <1>9, <1>11, <1>12, <1>13, <2>2
<1>14. CASE 1 \notin K
  <2>1. Sum(g) \in Nat
    BY <1>2, <1>3, SumNat
  <2> QED
    BY <1>7, <1>8, <1>10, <1>12, <1>14, <2>1
<1> QED
  BY <1>13, <1>14

-----------------------------------------------------------------------------
(* A cross joins a bid and an ask of two traders at a price both admit. *)
FairCross(E, m) ==
  \E b, a \in E :
    /\ b.side = "Bid" /\ a.side = "Ask" /\ b.trader # a.trader
    /\ m.buy = b.id /\ m.buyCid = b.cid /\ m.sell = a.id /\ m.sellCid = a.cid
    /\ a.limit <= m.price /\ m.price <= b.limit

OwnCrossed(E, a) ==
  \E b \in E : b.side = "Bid" /\ b.trader = a.trader /\ a.limit <= b.limit

LoopState(E) ==
  [bids : SUBSET {o \in E : o.side = "Bid"}, asks : SUBSET {o \in E : o.side = "Ask"},
   left : [{o.id : o \in E} -> Nat], plan : Seq(Cross), done : BOOLEAN]

LoopType(E, s) ==
  /\ s \in LoopState(E)
  /\ \A k \in 1 .. Len(s.plan) : FairCross(E, s.plan[k])

(* What is left of an order is what the plan does not give it, and the     *)
(* cursors have passed what is exhausted, and asks that cross a bid of     *)
(* their own trader.                                                       *)
Cursors(E, s) ==
  /\ \A o \in E : Filled(s.plan, o.id) + s.left[o.id] = o.remaining
  /\ \A o \in E : o \in s.bids \cup s.asks => s.left[o.id] > 0
  /\ \A b \in E : b.side = "Bid" => b \in s.bids \/ s.left[b.id] = 0
  /\ \A a \in E : a.side = "Ask" => a \in s.asks \/ s.left[a.id] = 0 \/ OwnCrossed(E, a)

(* Nobody is filled while an order that goes first is still to come. *)
InTurn(E, s) ==
  \A o, p \in E : o # p /\ Filled(s.plan, p.id) > 0 =>
    /\ o.side = "Bid" /\ p.side = "Bid" /\ BidBefore(o, p) => o \notin s.bids
    /\ o.side = "Ask" /\ p.side = "Ask" /\ AskBefore(o, p) => o \notin s.asks

Apart(s) == s.done => \A b \in s.bids, a \in s.asks : b.limit < a.limit

LoopInv(E, s) == LoopType(E, s) /\ Cursors(E, s) /\ InTurn(E, s) /\ Apart(s)

Stays(s) == s.done \/ s.bids = {} \/ s.asks = {}

LEMMA OpeningOK ==
  ASSUME NEW E, Rows(E)
  PROVE  LoopInv(E, Opening(E))
<1> DEFINE s == Opening(E)
<1>1. ASSUME NEW o \in E
      PROVE  s.left[o.id] = o.remaining
  <2>1. o.id \in {p.id : p \in E}
    OBVIOUS
  <2>2. (CHOOSE p \in E : p.id = o.id) = o
    BY DEF Rows
  <2> QED
    BY <2>1, <2>2 DEF Opening
<1>2. LoopType(E, s)
  <2>1. s.left \in [{o.id : o \in E} -> Nat]
    <3>1. s.left \in [{o.id : o \in E} -> Nat] <=> \A i \in {o.id : o \in E} : s.left[i] \in Nat
      BY DEF Opening
    <3>2. \A o \in E : s.left[o.id] \in Nat
      BY <1>1 DEF Rows, Row
    <3> QED
      BY <3>1, <3>2
  <2>2. << >> \in Seq(Cross) /\ Len(<< >>) = 0
    OBVIOUS
  <2> QED
    BY <2>1, <2>2 DEF LoopType, LoopState, Opening
<1>3. \A o \in E : o.remaining \in Nat /\ o.remaining > 0 /\ o.side \in {"Bid", "Ask"}
  BY DEF Rows, Row
<1>4. /\ s.bids = {o \in E : o.side = "Bid"} /\ s.asks = {o \in E : o.side = "Ask"}
      /\ s.plan = << >> /\ s.done = FALSE
  BY DEF Opening
<1>5. \A o : Filled(s.plan, o) = 0
  BY <1>4, FilledEmpty
<1> HIDE DEF s
<1>6. Cursors(E, s)
  BY <1>1, <1>3, <1>4, <1>5 DEF Cursors
<1>7. InTurn(E, s) /\ Apart(s)
  BY <1>4, <1>5 DEF InTurn, Apart
<1> QED
  BY <1>2, <1>6, <1>7 DEF LoopInv, s

(* What is still to come, which a turn that goes on makes fewer. *)
ToCome(s) == Cardinality(s.bids) + Cardinality(s.asks)

LEMMA ToComeFalls ==
  ASSUME NEW E, Rows(E), NEW s, LoopType(E, s), NEW t, LoopType(E, t),
         t.bids \subseteq s.bids, t.asks \subseteq s.asks,
         t.bids # s.bids \/ t.asks # s.asks
  PROVE  ToCome(t) < ToCome(s)
<1>1. /\ IsFiniteSet(s.bids) /\ IsFiniteSet(s.asks)
      /\ IsFiniteSet(t.bids) /\ IsFiniteSet(t.asks)
  <2>1. IsFiniteSet(E) /\ s.bids \subseteq E /\ s.asks \subseteq E
        /\ t.bids \subseteq E /\ t.asks \subseteq E
    BY DEF LoopType, LoopState, Rows
  <2> QED
    BY <2>1, FS_Subset
<1>2. /\ Cardinality(s.bids) \in Nat /\ Cardinality(s.asks) \in Nat
      /\ Cardinality(t.bids) \in Nat /\ Cardinality(t.asks) \in Nat
  BY <1>1, FS_CardinalityType
<1>3. /\ Cardinality(t.bids) <= Cardinality(s.bids)
      /\ Cardinality(t.asks) <= Cardinality(s.asks)
  BY <1>1, FS_Subset
<1>4. /\ t.bids # s.bids => Cardinality(t.bids) < Cardinality(s.bids)
      /\ t.asks # s.asks => Cardinality(t.asks) < Cardinality(s.asks)
  <2>1. /\ Cardinality(s.bids) = Cardinality(t.bids) => s.bids = t.bids
        /\ Cardinality(s.asks) = Cardinality(t.asks) => s.asks = t.asks
    BY <1>1, FS_Subset
  <2> QED
    BY <1>2, <1>3, <2>1
<1> QED
  BY <1>2, <1>3, <1>4 DEF ToCome

(* The best bid and the best ask of what is to come. *)
Best(E, s, b, a) ==
  /\ b \in s.bids /\ a \in s.asks
  /\ b \in E /\ b.side = "Bid" /\ a \in E /\ a.side = "Ask" /\ b.id # a.id
  /\ \A p \in s.bids \ {b} : BidBefore(b, p)
  /\ \A p \in s.asks \ {a} : AskBefore(a, p)

LEMMA BestExist ==
  ASSUME NEW E, Rows(E), NEW s, LoopType(E, s), ~ Stays(s)
  PROVE  Best(E, s, First(s.bids, BidBefore), First(s.asks, AskBefore))
<1>1. /\ s.bids \in SUBSET E /\ s.bids # {} /\ s.asks \in SUBSET E /\ s.asks # {}
      /\ \A b \in s.bids : b.side = "Bid"
      /\ \A a \in s.asks : a.side = "Ask"
  BY DEF LoopType, LoopState, Stays
<1>2. /\ First(s.bids, BidBefore) \in s.bids /\ First(s.asks, AskBefore) \in s.asks
      /\ \A p \in s.bids \ {First(s.bids, BidBefore)} : BidBefore(First(s.bids, BidBefore), p)
      /\ \A p \in s.asks \ {First(s.asks, AskBefore)} : AskBefore(First(s.asks, AskBefore), p)
  BY <1>1, FirstBid, FirstAsk
<1> DEFINE b == First(s.bids, BidBefore)
           a == First(s.asks, AskBefore)
<1> HIDE DEF b, a
<1>3. b \in s.bids /\ a \in s.asks
  BY <1>2 DEF b, a
<1>4. b \in E /\ b.side = "Bid" /\ a \in E /\ a.side = "Ask"
  BY <1>1, <1>3
<1>5. b.id # a.id
  BY <1>4 DEF Rows
<1> QED
  BY <1>2, <1>3, <1>4, <1>5 DEF Best, a, b

LEMMA LoopRecord ==
  ASSUME NEW A, NEW B, NEW C, NEW D, NEW F,
         NEW s \in [bids : A, asks : B, left : C, plan : D, done : F],
         NEW b \in A, NEW a \in B, NEW l \in C, NEW p \in D
  PROVE  LET t == [s EXCEPT !.plan = p, !.left = l, !.bids = b, !.asks = a]
         IN  /\ t \in [bids : A, asks : B, left : C, plan : D, done : F]
             /\ t.bids = b /\ t.asks = a /\ t.left = l /\ t.plan = p /\ t.done = s.done
<1> DEFINE t == [s EXCEPT !.plan = p, !.left = l, !.bids = b, !.asks = a]
<1>1. t \in [bids : A, asks : B, left : C, plan : D, done : F]
  OBVIOUS
<1>2. t.bids = b /\ t.asks = a /\ t.left = l /\ t.plan = p /\ t.done = s.done
  OBVIOUS
<1> QED
  BY <1>1, <1>2

(* The three turns of a loop that goes on. *)
Ends(s, b, a) == b.limit < a.limit /\ Turn(s) = [s EXCEPT !.done = TRUE]

Passes(s, b, a) ==
  /\ a.limit <= b.limit /\ b.trader = a.trader
  /\ Turn(s) = [s EXCEPT !.asks = s.asks \ {a}]

CrossOf(s, b, a) ==
  [buy |-> b.id, buyCid |-> b.cid, sell |-> a.id, sellCid |-> a.cid,
   price |-> clearingPrice(b, a),
   quantity |-> IF s.left[b.id] < s.left[a.id] THEN s.left[b.id] ELSE s.left[a.id]]

Fills(s, b, a, q) ==
  /\ a.limit <= b.limit /\ b.trader # a.trader
  /\ q = CrossOf(s, b, a).quantity
  /\ Turn(s).bids = IF s.left[b.id] = q THEN s.bids \ {b} ELSE s.bids
  /\ Turn(s).asks = IF s.left[a.id] = q THEN s.asks \ {a} ELSE s.asks
  /\ Turn(s).left = [s.left EXCEPT ![b.id] = @ - q, ![a.id] = @ - q]
  /\ Turn(s).plan = Append(s.plan, CrossOf(s, b, a))
  /\ Turn(s).done = s.done

LEMMA TurnCases ==
  ASSUME NEW E, Rows(E), NEW s, LoopInv(E, s), ~ Stays(s)
  PROVE  \E b, a : /\ Best(E, s, b, a)
                   /\ Ends(s, b, a) \/ Passes(s, b, a) \/ \E q : Fills(s, b, a, q)
                   /\ a.limit <= b.limit => CrossOf(s, b, a) \in Cross
                   /\ Turn(s) \in LoopState(E)
<1>0. LoopType(E, s) /\ Cursors(E, s)
  BY DEF LoopInv
<1> DEFINE b == First(s.bids, BidBefore)
           a == First(s.asks, AskBefore)
           qty == IF s.left[b.id] < s.left[a.id] THEN s.left[b.id] ELSE s.left[a.id]
           m == [buy |-> b.id, buyCid |-> b.cid, sell |-> a.id, sellCid |-> a.cid,
                 price |-> clearingPrice(b, a), quantity |-> qty]
           bids == s.bids \ {o \in {b} : Exhausted(s.left[o.id], qty)}
           asks == s.asks \ {o \in {a} : Exhausted(s.left[o.id], qty)}
           left == [s.left EXCEPT ![b.id] = @ - qty, ![a.id] = @ - qty]
<1>1. Best(E, s, b, a)
  BY <1>0, BestExist
<1>2. /\ b \in E /\ a \in E /\ b.id # a.id /\ b \in s.bids /\ a \in s.asks
      /\ b.limit \in Nat /\ a.limit \in Nat
      /\ s.left[b.id] \in Nat \ {0} /\ s.left[a.id] \in Nat \ {0}
      /\ b.id \in Orders /\ a.id \in Orders /\ b.cid \in Nat /\ a.cid \in Nat
  <2>1. b \in E /\ a \in E /\ b.id # a.id /\ b \in s.bids /\ a \in s.asks
    BY <1>1 DEF Best
  <2> HIDE DEF b, a
  <2>2. s.left[b.id] \in Nat /\ s.left[a.id] \in Nat
    BY <1>0, <2>1 DEF LoopType, LoopState
  <2> QED
    BY <1>0, <2>1, <2>2 DEF Rows, Row, Cursors
<1>3. Turn(s) =
        IF b.limit < a.limit THEN [s EXCEPT !.done = TRUE]
        ELSE IF b.trader = a.trader THEN [s EXCEPT !.asks = s.asks \ {a}]
        ELSE [s EXCEPT !.plan = Append(s.plan, m),
                       !.left = [s.left EXCEPT ![b.id] = @ - qty, ![a.id] = @ - qty],
                       !.bids = s.bids \ {o \in {b} : Exhausted(s.left[o.id], qty)},
                       !.asks = s.asks \ {o \in {a} : Exhausted(s.left[o.id], qty)}]
  BY DEF Turn, Stays
<1>4. m = CrossOf(s, b, a) /\ qty = m.quantity
  BY DEF CrossOf
<1> HIDE DEF b, a
<1>5. qty \in Nat \ {0} /\ s.left[b.id] - qty \in Nat /\ s.left[a.id] - qty \in Nat
  BY <1>2
<1> HIDE DEF qty
<1>6. a.limit <= b.limit => CrossOf(s, b, a) \in Cross
  <2>1. SUFFICES ASSUME a.limit <= b.limit PROVE m \in Cross
    BY <1>4
  <2>2. clearingPrice(b, a) \in Nat
    BY <1>2, <2>1, PriceBetween
  <2> QED
    BY <1>2, <1>5, <2>2 DEF Cross
<1>7. s \in LoopState(E)
  BY <1>0 DEF LoopType
<1>8. CASE b.limit < a.limit
  <2>1. Turn(s) = [s EXCEPT !.done = TRUE]
    BY <1>3, <1>8
  <2>2. Turn(s) \in LoopState(E)
    BY <1>7, <2>1 DEF LoopState
  <2> QED
    BY <1>1, <1>6, <1>8, <2>1, <2>2 DEF Ends
<1>9. CASE ~ (b.limit < a.limit) /\ b.trader = a.trader
  <2>1. Turn(s) = [s EXCEPT !.asks = s.asks \ {a}]
    BY <1>3, <1>9
  <2>2. Turn(s) \in LoopState(E)
    BY <1>7, <2>1 DEF LoopState
  <2> QED
    BY <1>1, <1>2, <1>6, <1>9, <2>1, <2>2 DEF Passes
<1>10. CASE ~ (b.limit < a.limit) /\ b.trader # a.trader
  <2>1. a.limit <= b.limit /\ m \in Cross
    BY <1>2, <1>4, <1>6, <1>10
  <2>2. Turn(s) = [s EXCEPT !.plan = Append(s.plan, m), !.left = left, !.bids = bids,
                            !.asks = asks]
    <3>1. Turn(s) =
            [s EXCEPT !.plan = Append(s.plan, m),
                       !.left = [s.left EXCEPT ![b.id] = @ - qty, ![a.id] = @ - qty],
                       !.bids = s.bids \ {o \in {b} : Exhausted(s.left[o.id], qty)},
                       !.asks = s.asks \ {o \in {a} : Exhausted(s.left[o.id], qty)}]
      BY <1>3, <1>10
    <3> HIDE DEF m
    <3> QED
      BY <3>1, <1>7 DEF LoopState
  <2>3. /\ bids = IF s.left[b.id] = qty THEN s.bids \ {b} ELSE s.bids
        /\ asks = IF s.left[a.id] = qty THEN s.asks \ {a} ELSE s.asks
    BY <1>2, <1>5 DEF Exhausted
  <2>4. left \in [{o.id : o \in E} -> Nat]
    BY <1>2, <1>5, <1>7 DEF LoopState
  <2>5. /\ bids \in SUBSET {o \in E : o.side = "Bid"}
        /\ asks \in SUBSET {o \in E : o.side = "Ask"}
        /\ Append(s.plan, m) \in Seq(Cross)
    <3>1. s.plan \in Seq(Cross) /\ s.bids \in SUBSET {o \in E : o.side = "Bid"}
          /\ s.asks \in SUBSET {o \in E : o.side = "Ask"}
      BY <1>7 DEF LoopState
    <3> HIDE DEF m
    <3> QED
      BY <2>1, <3>1
  <2> HIDE DEF bids, asks, left, m
  <2>6. /\ Turn(s) \in LoopState(E)
        /\ Turn(s).bids = bids /\ Turn(s).asks = asks /\ Turn(s).left = left
        /\ Turn(s).plan = Append(s.plan, m) /\ Turn(s).done = s.done
    <3>1. PICK x \in LoopState(E), p \in Seq(Cross), l \in [{o.id : o \in E} -> Nat],
               bb \in SUBSET {o \in E : o.side = "Bid"},
               aa \in SUBSET {o \in E : o.side = "Ask"} :
             x = s /\ p = Append(s.plan, m) /\ l = left /\ bb = bids /\ aa = asks
      BY <1>7, <2>4, <2>5
    <3>2. Turn(s) = [x EXCEPT !.plan = p, !.left = l, !.bids = bb, !.asks = aa]
      BY <2>2, <3>1
    <3> DEFINE t == [x EXCEPT !.plan = p, !.left = l, !.bids = bb, !.asks = aa]
    <3>3. /\ t \in LoopState(E)
          /\ t.bids = bb /\ t.asks = aa /\ t.left = l /\ t.plan = p /\ t.done = x.done
      BY LoopRecord DEF LoopState
    <3> HIDE DEF t
    <3> QED
      BY <3>1, <3>2, <3>3 DEF t
  <2>7. Fills(s, b, a, qty)
    BY <1>4, <1>10, <2>1, <2>3, <2>6 DEF Fills, left
  <2> QED
    BY <1>1, <1>6, <2>6, <2>7
<1> QED
  BY <1>2, <1>8, <1>9, <1>10

LEMMA PassKeepsLoop ==
  ASSUME NEW E, Rows(E), NEW s, LoopInv(E, s), ~ Stays(s), Turn(s) \in LoopState(E),
         NEW b, NEW a, Best(E, s, b, a), Ends(s, b, a) \/ Passes(s, b, a)
  PROVE  LoopInv(E, Turn(s)) /\ (Stays(Turn(s)) \/ ToCome(Turn(s)) < ToCome(s))
<1> DEFINE t == Turn(s)
<1>1. /\ LoopType(E, s) /\ Cursors(E, s) /\ InTurn(E, s) /\ ~ s.done /\ s \in LoopState(E)
  BY DEF LoopInv, LoopType, Stays
<1>2. /\ t.plan = s.plan /\ t.left = s.left /\ t.bids = s.bids /\ t.asks \subseteq s.asks
      /\ t.asks = (IF b.limit < a.limit THEN s.asks ELSE s.asks \ {a})
      /\ t.done <=> b.limit < a.limit
      /\ ~ (b.limit < a.limit) => b.trader = a.trader /\ a.limit <= b.limit
  <2>1. b.limit \in Nat /\ a.limit \in Nat
    BY DEF Best, Rows, Row
  <2>2. CASE Ends(s, b, a)
    BY <1>1, <2>1, <2>2 DEF Ends, LoopState
  <2>3. CASE Passes(s, b, a)
    BY <1>1, <2>1, <2>3 DEF Passes, LoopState
  <2> QED
    BY <2>2, <2>3
<1>3. b \in E /\ a \in E /\ b.side = "Bid" /\ a.side = "Ask" /\ a \in s.asks
  BY DEF Best
<1> HIDE DEF t
<1>4. LoopType(E, t)
  BY <1>1, <1>2 DEF LoopType, t
<1>5. Cursors(E, t)
  <2>1. ~ (b.limit < a.limit) => OwnCrossed(E, a)
    BY <1>2, <1>3 DEF OwnCrossed
  <2> QED
    BY <1>1, <1>2, <1>3, <2>1 DEF Cursors
<1>6. InTurn(E, t)
  BY <1>1, <1>2 DEF InTurn
<1>7. Apart(t)
  <2> SUFFICES ASSUME b.limit < a.limit, NEW p \in t.bids, NEW q \in t.asks
               PROVE  p.limit < q.limit
    BY <1>2 DEF Apart
  <2>1. p \in s.bids /\ q \in s.asks
    BY <1>2
  <2>2. p \in E /\ q \in E
    BY <1>1, <2>1 DEF LoopState
  <2>3. /\ b.limit \in Nat /\ a.limit \in Nat /\ p.limit \in Nat /\ q.limit \in Nat
    BY <1>3, <2>2 DEF Rows, Row
  <2>4. p.limit <= b.limit /\ a.limit <= q.limit
    BY <2>1, <2>3 DEF Best, BidBefore, AskBefore
  <2> QED
    BY <2>3, <2>4
<1>8. Stays(t) \/ ToCome(t) < ToCome(s)
  <2>1. CASE b.limit < a.limit
    BY <1>2, <2>1 DEF Stays
  <2>2. CASE ~ (b.limit < a.limit)
    <3>1. t.bids \subseteq s.bids /\ t.asks \subseteq s.asks /\ t.asks # s.asks
      BY <1>2, <1>3, <2>2
    <3> QED
      BY <1>1, <1>4, <3>1, ToComeFalls
  <2> QED
    BY <2>1, <2>2
<1> QED
  BY <1>4, <1>5, <1>6, <1>7, <1>8 DEF LoopInv, t

LEMMA FillKeepsLoop ==
  ASSUME NEW E, Rows(E), NEW s, LoopInv(E, s), ~ Stays(s), Turn(s) \in LoopState(E),
         NEW b, NEW a, Best(E, s, b, a), NEW q, Fills(s, b, a, q),
         CrossOf(s, b, a) \in Cross
  PROVE  LoopInv(E, Turn(s)) /\ ToCome(Turn(s)) < ToCome(s)
<1> DEFINE t == Turn(s)
           m == CrossOf(s, b, a)
<1>1. /\ LoopType(E, s) /\ Cursors(E, s) /\ InTurn(E, s) /\ ~ s.done /\ s \in LoopState(E)
  BY DEF LoopInv, LoopType, Stays
<1>2. /\ b \in E /\ a \in E /\ b.side = "Bid" /\ a.side = "Ask" /\ b.id # a.id
      /\ b \in s.bids /\ a \in s.asks
  BY DEF Best
<1>3. /\ m.buy = b.id /\ m.buyCid = b.cid /\ m.sell = a.id /\ m.sellCid = a.cid
      /\ m.price = clearingPrice(b, a) /\ m.quantity = q
      /\ q = IF s.left[b.id] < s.left[a.id] THEN s.left[b.id] ELSE s.left[a.id]
  BY DEF CrossOf, Fills
<1>4. \A o \in E : s.left[o.id] \in Nat
  BY <1>1 DEF LoopState
<1>5. q \in Nat \ {0} /\ q <= s.left[b.id] /\ q <= s.left[a.id]
      /\ (q = s.left[b.id] \/ q = s.left[a.id])
  BY <1>1, <1>2, <1>3, <1>4 DEF Cursors
<1>6. /\ t.bids = IF s.left[b.id] = q THEN s.bids \ {b} ELSE s.bids
      /\ t.asks = IF s.left[a.id] = q THEN s.asks \ {a} ELSE s.asks
      /\ t.left = [s.left EXCEPT ![b.id] = @ - q, ![a.id] = @ - q]
      /\ t.plan = Append(s.plan, m) /\ ~ t.done
      /\ a.limit <= b.limit /\ b.trader # a.trader
  BY <1>1 DEF Fills
<1>7. s.plan \in Seq(Cross) /\ m \in Cross /\ t \in LoopState(E)
  BY <1>1 DEF LoopState
<1> HIDE DEF t, m
<1>8. FairCross(E, m)
  <2>1. a.limit \in Nat /\ b.limit \in Nat
    BY <1>2 DEF Rows, Row
  <2>2. a.limit <= m.price /\ m.price <= b.limit
    BY <1>3, <1>6, <2>1, PriceBetween
  <2> QED
    BY <1>2, <1>3, <1>6, <2>2 DEF FairCross
<1>9. LoopType(E, t)
  <2>1. ASSUME NEW k \in 1 .. Len(t.plan)
        PROVE  FairCross(E, t.plan[k])
    <3>1. k \in 1 .. Len(s.plan) \/ k = Len(s.plan) + 1
      BY <1>6, <1>7
    <3>2. /\ k \in 1 .. Len(s.plan) => t.plan[k] = s.plan[k]
          /\ t.plan[Len(s.plan) + 1] = m
      BY <1>6, <1>7
    <3> QED
      BY <1>1, <1>8, <3>1, <3>2 DEF LoopType
  <2> QED
    BY <1>7, <2>1 DEF LoopType
<1>10. ASSUME NEW o \in E
       PROVE  /\ o.id = b.id <=> o = b
              /\ o.id = a.id <=> o = a
              /\ t.left[o.id] = s.left[o.id] - (IF o \in {b, a} THEN q ELSE 0)
              /\ Filled(t.plan, o.id)
                   = Filled(s.plan, o.id) + (IF o \in {b, a} THEN q ELSE 0)
              /\ Filled(s.plan, o.id) \in Nat
  <2>1. (o.id = b.id <=> o = b) /\ (o.id = a.id <=> o = a)
    BY <1>2 DEF Rows
  <2>2. s.left \in [{p.id : p \in E} -> Nat] /\ o.id \in {p.id : p \in E}
    BY <1>1 DEF LoopState
  <2>3. t.left[o.id] = s.left[o.id] - (IF o \in {b, a} THEN q ELSE 0)
    BY <1>2, <1>4, <1>6, <2>1, <2>2
  <2>4. Filled(t.plan, o.id)
          = Filled(s.plan, o.id) + (IF o.id \in {m.buy, m.sell} THEN m.quantity ELSE 0)
    BY <1>6, <1>7, FilledAppend
  <2>5. Filled(s.plan, o.id) \in Nat
    BY <1>7, FilledNat
  <2> QED
    BY <1>3, <2>1, <2>3, <2>4, <2>5
<1>11. Cursors(E, t)
  <2>1. ASSUME NEW o \in E
        PROVE  Filled(t.plan, o.id) + t.left[o.id] = o.remaining
    <3>1. Filled(s.plan, o.id) + s.left[o.id] = o.remaining
      BY <1>1 DEF Cursors
    <3> QED
      BY <1>4, <1>5, <1>10, <3>1
  <2>2. ASSUME NEW o \in E, o \in t.bids \cup t.asks
        PROVE  t.left[o.id] > 0
    <3>1. o \in s.bids \cup s.asks
      BY <1>6, <2>2
    <3>2. s.left[o.id] > 0
      BY <1>1, <3>1 DEF Cursors
    <3>3. o = b => s.left[b.id] # q
      <4>1. b \notin s.asks
        BY <1>1, <1>2 DEF LoopState
      <4> QED
        BY <1>6, <2>2, <4>1
    <3>4. o = a => s.left[a.id] # q
      <4>1. a \notin s.bids
        BY <1>1, <1>2 DEF LoopState
      <4> QED
        BY <1>6, <2>2, <4>1
    <3> QED
      BY <1>4, <1>5, <1>10, <3>2, <3>3, <3>4
  <2>3. ASSUME NEW o \in E, o.side = "Bid", o \notin t.bids
        PROVE  t.left[o.id] = 0
    <3>1. CASE o = b
      <4>1. s.left[o.id] = q
        BY <1>2, <1>6, <2>3, <3>1
      <4>2. t.left[o.id] = s.left[o.id] - q
        BY <1>10, <3>1
      <4> QED
        BY <1>5, <4>1, <4>2
    <3>2. CASE o # b
      <4>1. o # a /\ o \notin s.bids
        BY <1>2, <1>6, <2>3, <3>2
      <4>2. s.left[o.id] = 0
        BY <1>1, <2>3, <4>1 DEF Cursors
      <4> QED
        BY <1>10, <3>2, <4>1, <4>2
    <3> QED
      BY <3>1, <3>2
  <2>4. ASSUME NEW o \in E, o.side = "Ask", o \notin t.asks, t.left[o.id] # 0
        PROVE  OwnCrossed(E, o)
    <3>1. CASE o = a
      <4>1. s.left[o.id] = q
        BY <1>2, <1>6, <2>4, <3>1
      <4>2. t.left[o.id] = s.left[o.id] - q
        BY <1>10, <3>1
      <4> QED
        BY <1>5, <2>4, <4>1, <4>2
    <3>2. CASE o # a
      <4>1. o # b /\ o \notin s.asks
        BY <1>2, <1>6, <2>4, <3>2
      <4>2. s.left[o.id] = t.left[o.id]
        BY <1>4, <1>10, <3>2, <4>1
      <4> QED
        BY <1>1, <2>4, <4>1, <4>2 DEF Cursors
    <3> QED
      BY <3>1, <3>2
  <2> QED
    BY <2>1, <2>2, <2>3, <2>4 DEF Cursors
<1>12. InTurn(E, t)
  <2> SUFFICES ASSUME NEW o \in E, NEW p \in E, o # p, Filled(t.plan, p.id) > 0
               PROVE  /\ o.side = "Bid" /\ p.side = "Bid" /\ BidBefore(o, p) => o \notin t.bids
                      /\ o.side = "Ask" /\ p.side = "Ask" /\ AskBefore(o, p) => o \notin t.asks
    BY DEF InTurn
  <2>1. t.bids \subseteq s.bids /\ t.asks \subseteq s.asks
    BY <1>6
  <2>2. CASE p \notin {b, a}
    <3>1. Filled(s.plan, p.id) > 0
      BY <1>10, <2>2
    <3> QED
      BY <1>1, <2>1, <3>1 DEF InTurn
  <2>3. CASE p \in {b, a}
    <3>1. /\ o.limit \in Nat /\ p.limit \in Nat
          /\ ~ (byRestingTime(o, p) /\ byRestingTime(p, o))
      BY RestingOrder DEF Rows, Row
    <3>2. ~ (BidBefore(o, p) /\ BidBefore(p, o)) /\ ~ (AskBefore(o, p) /\ AskBefore(p, o))
      BY <3>1 DEF BidBefore, AskBefore
    <3>3. p = b /\ o \in s.bids => BidBefore(p, o)
      BY DEF Best
    <3>4. p = a /\ o \in s.asks => AskBefore(p, o)
      BY DEF Best
    <3> QED
      BY <1>2, <2>1, <2>3, <3>2, <3>3, <3>4
  <2> QED
    BY <2>2, <2>3
<1>13. Apart(t)
  BY <1>6 DEF Apart
<1>14. ToCome(t) < ToCome(s)
  <2>1. t.bids \subseteq s.bids /\ t.asks \subseteq s.asks
        /\ (t.bids # s.bids \/ t.asks # s.asks)
    BY <1>2, <1>5, <1>6
  <2> QED
    BY <1>1, <1>9, <2>1, ToComeFalls
<1> QED
  BY <1>9, <1>11, <1>12, <1>13, <1>14 DEF LoopInv, t

LEMMA TurnKeepsLoop ==
  ASSUME NEW E, Rows(E), NEW s, LoopInv(E, s)
  PROVE  /\ LoopInv(E, Turn(s))
         /\ Stays(s) => Turn(s) = s
         /\ ~ Stays(s) => Stays(Turn(s)) \/ ToCome(Turn(s)) < ToCome(s)
<1>1. CASE Stays(s)
  BY <1>1 DEF Stays, Turn
<1>2. CASE ~ Stays(s)
  <2>1. PICK b, a : /\ Best(E, s, b, a)
                    /\ Ends(s, b, a) \/ Passes(s, b, a) \/ \E q : Fills(s, b, a, q)
                    /\ a.limit <= b.limit => CrossOf(s, b, a) \in Cross
                    /\ Turn(s) \in LoopState(E)
    BY <1>2, TurnCases
  <2>2. CASE Ends(s, b, a) \/ Passes(s, b, a)
    BY <1>2, <2>1, <2>2, PassKeepsLoop
  <2>3. ASSUME NEW q, Fills(s, b, a, q)
        PROVE  LoopInv(E, Turn(s)) /\ ToCome(Turn(s)) < ToCome(s)
    <3>1. CrossOf(s, b, a) \in Cross
      BY <2>1, <2>3 DEF Fills
    <3> QED
      BY <1>2, <2>1, <2>3, <3>1, FillKeepsLoop
  <2> QED
    BY <1>2, <2>1, <2>2, <2>3
<1> QED
  BY <1>1, <1>2

(* The loop ends with a state that keeps its invariant and stays. *)
LEMMA Matched ==
  ASSUME NEW E, Rows(E)
  PROVE  \E s : LoopInv(E, s) /\ Stays(s) /\ matchOrdersForPair(E) = s.plan
<1> DEFINE N == Cardinality(E)
<1>1. IsFiniteSet(E) /\ N \in Nat
  BY FS_CardinalityType DEF Rows
<1>2. PICK after : /\ after[0] = Opening(E)
                   /\ \A n \in 1 .. N : after[n] = Turn(after[n - 1])
                   /\ matchOrdersForPair(E) = after[N].plan
  BY <1>1, LoopRuns
<1> DEFINE Good(n) == /\ LoopInv(E, after[n])
                      /\ Stays(after[n]) \/ ToCome(after[n]) + n <= N
           T == {n \in Nat : n <= N => Good(n)}
<1>3. ASSUME NEW s, LoopInv(E, s)
      PROVE  /\ Cardinality(s.bids) \in Nat /\ Cardinality(s.asks) \in Nat
             /\ IsFiniteSet(s.bids) /\ IsFiniteSet(s.asks)
  <2>1. s.bids \subseteq E /\ s.asks \subseteq E
    BY <1>3 DEF LoopInv, LoopType, LoopState
  <2>2. IsFiniteSet(s.bids) /\ IsFiniteSet(s.asks)
    BY <1>1, <2>1, FS_Subset
  <2> QED
    BY <2>2, FS_CardinalityType
<1> HIDE DEF N
<1>4. 0 \in T
  <2>1. LoopInv(E, Opening(E))
    BY OpeningOK
  <2> DEFINE bids == Opening(E).bids
             asks == Opening(E).asks
  <2>2. bids \cap asks = {} /\ bids \cup asks \subseteq E
    BY DEF Opening
  <2>3. IsFiniteSet(bids) /\ IsFiniteSet(asks)
        /\ Cardinality(bids) \in Nat /\ Cardinality(asks) \in Nat
    BY <1>3, <2>1
  <2> HIDE DEF bids, asks
  <2>4. Cardinality(bids \cup asks) = Cardinality(bids) + Cardinality(asks)
    <3>1. Cardinality(bids \cup asks)
            = Cardinality(bids) + Cardinality(asks) - Cardinality(bids \cap asks)
      BY <2>3, FS_Union
    <3>2. Cardinality(bids \cap asks) = 0
      BY <2>2, FS_EmptySet
    <3> QED
      BY <2>3, <3>1, <3>2
  <2>5. Cardinality(bids \cup asks) <= N
    BY <1>1, <2>2, FS_Subset DEF N
  <2>6. ToCome(Opening(E)) + 0 <= N
    BY <2>3, <2>4, <2>5, <1>1 DEF ToCome, bids, asks
  <2> QED
    BY <1>2, <2>1, <2>6
<1>5. ASSUME NEW n \in Nat, n \in T
      PROVE  n + 1 \in T
  <2> SUFFICES ASSUME n + 1 <= N
               PROVE  Good(n + 1)
    OBVIOUS
  <2>1. Good(n) /\ after[n + 1] = Turn(after[n])
    <3>1. n <= N /\ n + 1 \in 1 .. N /\ (n + 1) - 1 = n
      BY <1>1
    <3> QED
      BY <1>2, <1>5, <3>1
  <2>2. PICK s, t : s = after[n] /\ t = after[n + 1]
    OBVIOUS
  <2>3. /\ LoopInv(E, s) /\ t = Turn(s)
        /\ Stays(s) \/ ToCome(s) + n <= N
    BY <2>1, <2>2
  <2>4. /\ LoopInv(E, t)
        /\ Stays(s) => t = s
        /\ ~ Stays(s) => Stays(t) \/ ToCome(t) < ToCome(s)
    BY <2>3, TurnKeepsLoop
  <2>5. ToCome(s) \in Nat /\ ToCome(t) \in Nat
    BY <1>3, <2>3, <2>4 DEF ToCome
  <2>6. Stays(t) \/ ToCome(t) + (n + 1) <= N
    BY <1>1, <2>3, <2>4, <2>5
  <2> QED
    BY <2>2, <2>4, <2>6
<1>6. \A n \in Nat : n \in T
  <2> HIDE DEF T
  <2> QED
    BY <1>4, <1>5, Induction
<1>7. Good(N)
  BY <1>1, <1>6
<1>8. PICK s : s = after[N]
  OBVIOUS
<1>9. Stays(s)
  <2> SUFFICES ASSUME ToCome(s) + N <= N
               PROVE  s.bids = {}
    BY <1>7, <1>8 DEF Stays
  <2>1. Cardinality(s.bids) = 0
    BY <1>1, <1>3, <1>7, <1>8 DEF ToCome
  <2> QED
    BY <1>3, <1>7, <1>8, <2>1, FS_EmptySet
<1> QED
  BY <1>2, <1>7, <1>8, <1>9

-----------------------------------------------------------------------------
(* What a run is given: the rows of the eligible orders. *)
RowOf(o) ==
  [id |-> o, cid |-> order[o].cid, trader |-> Terms[o].trader, side |-> Terms[o].side,
   limit |-> Limit(o), remaining |-> order[o].remaining,
   since |-> IF Dates THEN order[o].since ELSE Unknown]

LEMMA SnapshotRows ==
  ASSUME TypeOK
  PROVE  /\ Rows(Snapshot) /\ Snapshot = {RowOf(o) : o \in Eligible}
         /\ Eligible \subseteq Orders
         /\ \A o \in Eligible : RowOf(o) \in Row /\ order[o].remaining \in Nat \ {0}
<1>1. Snapshot = {RowOf(o) : o \in Eligible} /\ Eligible \subseteq Orders
  BY DEF Snapshot, RowOf, Eligible
<1>2. ASSUME NEW o \in Eligible
      PROVE  RowOf(o) \in Row /\ order[o].remaining \in Nat \ {0}
  <2>1. /\ o \in Orders /\ Terms[o] \in Term
        /\ order[o].cid \in Nat /\ order[o].since \in Nat
    BY <1>1, BookAssumption DEF TypeOK
  <2>2. order[o].remaining \in Nat \ {0}
    BY <2>1 DEF Eligible, TypeOK
  <2>3. (IF Dates THEN order[o].since ELSE Unknown) \in Nat \cup {Unknown}
    BY <2>1
  <2>4. /\ Terms[o].trader \in Traders /\ Terms[o].side \in {"Bid", "Ask"}
        /\ Limit(o) \in Nat \ {0}
    BY <2>1 DEF Term, Limit
  <2> QED
    BY <2>1, <2>2, <2>3, <2>4 DEF RowOf, Row
<1>3. IsFiniteSet(Snapshot)
  <2>1. IsFiniteSet(Eligible)
    BY <1>1, FS_Subset, BookAssumption
  <2> DEFINE rows == [o \in Eligible |-> RowOf(o)]
  <2>2. rows \in Surjection(Eligible, {RowOf(o) : o \in Eligible})
    BY DEF Surjection
  <2> HIDE DEF rows
  <2> QED
    BY <1>1, <2>1, <2>2, FS_Surjection
<1>4. \A o \in Eligible : RowOf(o).id = o
  BY DEF RowOf
<1> QED
  BY <1>1, <1>2, <1>3, <1>4 DEF Rows

LEMMA OrderedFills == TypeOK => FillsInOrder
<1> SUFFICES ASSUME TypeOK PROVE FillsInOrder
  OBVIOUS
<1> DEFINE E == Snapshot
<1>1. /\ Rows(E) /\ E = {RowOf(o) : o \in Eligible} /\ Eligible \subseteq Orders
      /\ \A o \in Eligible : RowOf(o) \in Row /\ order[o].remaining \in Nat \ {0}
  BY SnapshotRows
<1>2. PICK s : LoopInv(E, s) /\ Stays(s) /\ Proposals = s.plan
  BY <1>1, Matched DEF Proposals
<1> HIDE DEF E
<1>3. \A o \in Orders : Planned[o] = Filled(s.plan, o)
  BY <1>2 DEF Planned, Filled
<1>4. LoopType(E, s) /\ Cursors(E, s) /\ InTurn(E, s) /\ Apart(s) /\ s \in LoopState(E)
  BY <1>2 DEF LoopInv, LoopType
<1>5. ASSUME NEW o \in Eligible
      PROVE  /\ RowOf(o) \in E /\ RowOf(o).id = o /\ RowOf(o).side = Terms[o].side
             /\ RowOf(o).limit = Limit(o) /\ RowOf(o).remaining = order[o].remaining
             /\ RowOf(o).trader = Terms[o].trader
             /\ RowOf(o).since = (IF Dates THEN order[o].since ELSE Unknown)
             /\ Limit(o) \in Nat /\ Terms[o].side \in {"Bid", "Ask"} /\ order[o].since \in Nat
             /\ s.left[o] \in Nat /\ Filled(s.plan, o) \in Nat
             /\ Filled(s.plan, o) + s.left[o] = order[o].remaining
  <2>1. /\ RowOf(o) \in E /\ RowOf(o).id = o /\ RowOf(o).side = Terms[o].side
        /\ RowOf(o).limit = Limit(o) /\ RowOf(o).remaining = order[o].remaining
        /\ RowOf(o).trader = Terms[o].trader
        /\ RowOf(o).since = (IF Dates THEN order[o].since ELSE Unknown)
    BY <1>1 DEF RowOf
  <2>2. Limit(o) \in Nat /\ Terms[o].side \in {"Bid", "Ask"}
    <3>1. RowOf(o) \in Row
      BY <1>1
    <3> QED
      BY <2>1, <3>1 DEF Row
  <2>3. order[o].since \in Nat
    BY <1>1 DEF TypeOK
  <2>4. s.left[o] \in Nat
    BY <1>4, <2>1 DEF LoopState
  <2>5. Filled(s.plan, o) \in Nat
    BY <1>4, FilledNat DEF LoopState
  <2>6. Filled(s.plan, o) + s.left[o] = order[o].remaining
    BY <1>4, <2>1 DEF Cursors
  <2> QED
    BY <2>1, <2>2, <2>3, <2>4, <2>5, <2>6
<1> HIDE DEF E
<1>6. \A o \in Eligible : order[o].remaining \in Nat
  BY <1>1
<1>7. ASSUME NEW a \in Eligible, OwnCrossed(E, RowOf(a)), ~ Bid(a)
      PROVE  SelfCrossed(a)
  <2>1. PICK r \in E : r.side = "Bid" /\ r.trader = RowOf(a).trader /\ RowOf(a).limit <= r.limit
    BY <1>7 DEF OwnCrossed
  <2>2. PICK b \in Eligible : r = RowOf(b)
    BY <1>1, <2>1
  <2>3. /\ Terms[b].side = "Bid" /\ Terms[b].trader = Terms[a].trader
        /\ Limit(a) <= Limit(b) /\ b \in Orders
    BY <1>1, <1>5, <2>1, <2>2
  <2>4. Crossing(b, a)
    BY <1>5, <1>7, <2>3 DEF Crossing, Bid
  <2> QED
    BY <2>3, <2>4 DEF SelfCrossed
<1>8. PriorityKept
  <2> SUFFICES ASSUME NEW o \in Eligible, NEW p \in Eligible, AheadOf(o, p), Planned[p] > 0
               PROVE  Planned[o] = order[o].remaining \/ (~ Bid(o) /\ SelfCrossed(o))
    BY DEF PriorityKept
  <2>1. Filled(s.plan, RowOf(p).id) > 0 /\ o \in Orders
    BY <1>1, <1>3, <1>5
  <2>2. RowOf(o) # RowOf(p)
    BY <1>5 DEF AheadOf
  <2>3. /\ Bid(o) => Bid(p) /\ BidBefore(RowOf(o), RowOf(p))
        /\ ~ Bid(o) => ~ Bid(p) /\ AskBefore(RowOf(o), RowOf(p))
    <3>1. /\ o \in Eligible /\ p \in Eligible
          /\ AheadOf(o, p)
      OBVIOUS
    <3> QED
      BY <1>5, <3>1 DEF AheadOf, Bid, BidBefore, AskBefore, byRestingTime, Dated, Unknown
  <2>4. CASE Bid(o)
    <3>1. RowOf(o) \notin s.bids
      BY <1>4, <1>5, <2>1, <2>2, <2>3, <2>4 DEF InTurn, Bid
    <3>2. s.left[o] = 0
      BY <1>4, <1>5, <2>4, <3>1 DEF Cursors, Bid
    <3> QED
      BY <1>3, <1>5, <1>6, <2>1, <3>2
  <2>5. CASE ~ Bid(o)
    <3>1. RowOf(o).side = "Ask" /\ RowOf(p).side = "Ask"
      BY <1>5, <2>3, <2>5 DEF Bid
    <3>2. RowOf(o) \notin s.asks
      BY <1>4, <1>5, <2>1, <2>2, <2>3, <2>5, <3>1 DEF InTurn
    <3>3. s.left[o] = 0 \/ OwnCrossed(E, RowOf(o))
      BY <1>4, <1>5, <3>1, <3>2 DEF Cursors
    <3> QED
      BY <1>3, <1>5, <1>6, <1>7, <2>1, <2>5, <3>3
  <2> QED
    BY <2>4, <2>5
<1>9. NothingElseMissed
  <2> SUFFICES ASSUME NEW b \in Eligible, NEW a \in Eligible
               PROVE  /\ Planned[b] <= order[b].remaining
                      /\ Planned[a] <= order[a].remaining
                      /\ Crossing(b, a) /\ Terms[b].trader # Terms[a].trader
                           => \/ Planned[b] = order[b].remaining
                              \/ Planned[a] = order[a].remaining
                              \/ SelfCrossed(a)
    BY DEF NothingElseMissed
  <2>1. /\ Planned[b] = Filled(s.plan, b) /\ Planned[a] = Filled(s.plan, a)
    BY <1>1, <1>3
  <2>2. Planned[b] <= order[b].remaining /\ Planned[a] <= order[a].remaining
    BY <1>5, <1>6, <2>1
  <2>3. ASSUME Crossing(b, a), ~ SelfCrossed(a), s.left[b] # 0, s.left[a] # 0
        PROVE  FALSE
    <3>1. /\ RowOf(b).side = "Bid" /\ RowOf(a).side = "Ask" /\ ~ Bid(a)
          /\ RowOf(a).limit <= RowOf(b).limit
          /\ RowOf(a).limit \in Nat /\ RowOf(b).limit \in Nat
      BY <1>5, <2>3 DEF Crossing, Bid
    <3>2. RowOf(b) \in s.bids
      BY <1>4, <1>5, <2>3, <3>1 DEF Cursors
    <3>3. RowOf(a) \in s.asks
      BY <1>4, <1>5, <1>7, <2>3, <3>1 DEF Cursors
    <3> QED
      BY <1>2, <1>4, <3>1, <3>2, <3>3 DEF Stays, Apart
  <2>4. /\ s.left[b] = 0 => Planned[b] = order[b].remaining
        /\ s.left[a] = 0 => Planned[a] = order[a].remaining
    BY <1>5, <1>6, <2>1
  <2> QED
    BY <2>2, <2>3, <2>4
<1> QED
  BY <1>8, <1>9 DEF FillsInOrder
-----------------------------------------------------------------------------
RunType == [plan : Seq(Cross), live : [Orders -> Nat], closed : SUBSET Orders]

RunShape ==
  /\ run \in [Runs -> RunType]
  /\ \A t \in trades : t.buyNext \in Nat /\ t.sellNext \in Nat

(* The orders that a run still has to settle, and those among them that    *)
(* are bound to none of the allocations of order o.                        *)
Named(r) ==
  {p \in Orders \ run[r].closed :
     \E k \in 1 .. Len(run[r].plan) : p \in {run[r].plan[k].buy, run[r].plan[k].sell}}

SharesNone(p, o) == \A k \in DOMAIN bound[p] : k \in DOMAIN bound[o] => bound[p][k] # bound[o][k]

(* The run has noted that the order is closed, or names its live contract; *)
(* once the run has filled it, the order is backed, and shares nothing any *)
(* more with the orders that the run goes on to fill.                      *)
Followed(r, o, cid) ==
  o \notin run[r].closed =>
    /\ Funded(o) /\ o \notin expired /\ order[o].cid = run[r].live[o]
    /\ \/ order[o].cid = cid
       \/ Backed(o) /\ \A p \in Named(r) \ {o} : SharesNone(p, o)

AsFound(r, m) ==
  /\ Bid(m.buy) /\ ~ Bid(m.sell) /\ Terms[m.buy].trader # Terms[m.sell].trader
  /\ Limit(m.sell) <= m.price /\ m.price <= Limit(m.buy)
  /\ Followed(r, m.buy, m.buyCid) /\ Followed(r, m.sell, m.sellCid)

(* What a run still has to settle is what the orders it follows can give. *)
OnBook(r) ==
  /\ \A k \in 1 .. Len(run[r].plan) : AsFound(r, run[r].plan[k])
  /\ \A o \in Orders \ run[r].closed : Filled(run[r].plan, o) <= order[o].remaining

RunsFollow == \A r \in Running \ disturbed : OnBook(r)

LEMMA FollowsBook == TypeOK /\ RunShape /\ RunsFollow => RunFollowsBook
<1> SUFFICES ASSUME TypeOK, RunShape, RunsFollow, NEW r \in Running \ disturbed,
                    ~ Closed(r), ~ GoneUnfilled(r)
             PROVE  Acceptable(r)
  BY DEF RunFollowsBook
<1> DEFINE plan == run[r].plan
           m == Current(r)
<1>1. plan \in Seq(Cross) /\ plan # << >> /\ r \in Runs
  BY DEF RunShape, RunType, Running
<1>2. m = plan[1] /\ 1 \in 1 .. Len(plan) /\ m \in Cross /\ m = Head(plan)
  BY <1>1 DEF Current
<1>3. AsFound(r, m) /\ \A o \in Orders \ run[r].closed : Filled(plan, o) <= order[o].remaining
  BY <1>2 DEF RunsFollow, OnBook
<1>4. m.buy \in Orders /\ m.sell \in Orders /\ m.quantity \in Nat \ {0} /\ m.price \in Nat
  BY <1>2 DEF Cross
<1>5. m.buy \notin run[r].closed /\ m.sell \notin run[r].closed
  BY DEF Closed
<1>6. ASSUME NEW o \in {m.buy, m.sell}
      PROVE  m.quantity <= order[o].remaining
  <2>1. /\ Filled(plan, o) = Filled(Tail(plan), o) + m.quantity
        /\ Filled(Tail(plan), o) \in Nat
    <3>1. Tail(plan) \in Seq(Cross)
      BY <1>1
    <3> QED
      BY <1>1, <1>2, <1>6, <3>1, FilledTail, FilledNat
  <2>2. Filled(plan, o) <= order[o].remaining /\ order[o].remaining \in Nat
    BY <1>3, <1>4, <1>5, <1>6 DEF TypeOK
  <2> QED
    BY <1>4, <2>1, <2>2
<1>7. /\ Followed(r, m.buy, m.buyCid) /\ Followed(r, m.sell, m.sellCid)
      /\ Bid(m.buy) /\ ~ Bid(m.sell) /\ Terms[m.buy].trader # Terms[m.sell].trader
      /\ Limit(m.sell) <= m.price /\ m.price <= Limit(m.buy)
  BY <1>3 DEF AsFound
<1> HIDE DEF m
<1>8. /\ Funded(m.buy) /\ order[m.buy].cid = run[r].live[m.buy] /\ m.buy \notin expired
      /\ Backed(m.buy) \/ order[m.buy].cid = m.buyCid
      /\ Funded(m.sell) /\ order[m.sell].cid = run[r].live[m.sell] /\ m.sell \notin expired
      /\ Backed(m.sell) \/ order[m.sell].cid = m.sellCid
  BY <1>5, <1>7 DEF Followed
<1>9. Backed(m.buy) /\ Backed(m.sell)
  BY <1>8 DEF GoneUnfilled, m
<1>10. m.price \in Limit(m.sell) .. Limit(m.buy)
  <2>1. Limit(m.sell) \in Int /\ Limit(m.buy) \in Int
    BY <1>4, TermFacts DEF Limit
  <2> QED
    BY <1>4, <1>7, <2>1
<1>11. m.quantity \in 1 .. order[m.buy].remaining /\ m.quantity <= order[m.sell].remaining
  BY <1>4, <1>6 DEF TypeOK
<1> QED
  BY <1>4, <1>7, <1>8, <1>9, <1>10, <1>11 DEF Acceptable, Accepted, m

(* What a run has still to settle is funded. *)
LEMMA NamedFunded ==
  ASSUME NEW r \in Runs, OnBook(r), NEW p \in Named(r)
  PROVE  Funded(p)
BY DEF OnBook, Named, AsFound, Followed

(* The orders a run follows are funded: what happens to others, and what   *)
(* leaves a funded order alone, does not concern it.                       *)
LEMMA OnBookStays ==
  ASSUME NEW r \in Runs, RunShape, run'[r] = run[r], OnBook(r), UNCHANGED expired,
         \A o \in Orders : /\ order'[o].remaining = order[o].remaining
                           /\ Funded(o) => order'[o] = order[o] /\ bound'[o] = bound[o]
  PROVE  OnBook(r)'
<1>1. Named(r)' = Named(r)
  BY DEF Named
<1>2. \A p \in Named(r) : p \in Orders /\ bound'[p] = bound[p]
  BY NamedFunded DEF Named
<1>3. ASSUME NEW o \in Orders, NEW cid, Followed(r, o, cid)
      PROVE  Followed(r, o, cid)'
  <2> SUFFICES ASSUME o \notin run[r].closed
               PROVE  /\ Funded(o)' /\ o \notin expired' /\ order'[o].cid = run'[r].live[o]
                      /\ \/ order'[o].cid = cid
                         \/ Backed(o)' /\ \A p \in Named(r) \ {o} : SharesNone(p, o)'
    BY <1>1 DEF Followed
  <2>1. /\ Funded(o) /\ o \notin expired /\ order[o].cid = run[r].live[o]
        /\ \/ order[o].cid = cid
           \/ Backed(o) /\ \A p \in Named(r) \ {o} : SharesNone(p, o)
    BY <1>3 DEF Followed
  <2>2. order'[o] = order[o] /\ bound'[o] = bound[o]
    BY <2>1
  <2> QED
    BY <1>2, <2>1, <2>2 DEF Funded, Backed, Kinds, SharesNone
<1>4. ASSUME NEW k \in 1 .. Len(run[r].plan)
      PROVE  AsFound(r, run[r].plan[k])'
  <2>1. run[r].plan[k] \in Cross
    BY DEF RunShape, RunType
  <2>2. PICK m \in Cross : m = run[r].plan[k] /\ m = run'[r].plan[k] /\ AsFound(r, m)
    BY <2>1 DEF OnBook
  <2>3. Followed(r, m.buy, m.buyCid)' /\ Followed(r, m.sell, m.sellCid)'
    BY <1>3, <2>2 DEF AsFound, Cross
  <2>4. AsFound(r, m)'
    BY <2>2, <2>3 DEF AsFound, Bid, Limit
  <2> QED
    BY <2>2, <2>4
<1> QED
  BY <1>4 DEF OnBook

LEMMA InitFollow == Init => RunShape /\ RunsFollow
<1> SUFFICES ASSUME Init PROVE RunShape /\ RunsFollow
  OBVIOUS
<1>1. << >> \in Seq(Cross)
  OBVIOUS
<1>2. RunShape
  BY <1>1 DEF Init, RunShape, RunType
<1>3. Running = {}
  BY DEF Init, Running
<1> QED
  BY <1>2, <1>3 DEF RunsFollow

LEMMA OrderStepKeepsFollow ==
  ASSUME TypeOK, RunShape, RunsFollow, NEW o \in Orders,
         \/ Place(o) \/ CloseIntent(o) \/ Bind(o) \/ Fund(o) \/ Cancel(o)
         \/ DeadlinePasses(o) \/ AuthorLock(o) \/ AuthorReceipt(o)
         \/ \E k \in Kinds : Withdraw(o, k)
  PROVE  RunShape' /\ RunsFollow'
<1>1. UNCHANGED <<run, trades>>
  BY DEF Place, CloseIntent, Bind, Fund, Cancel, DeadlinePasses, AuthorLock,
         AuthorReceipt, Withdraw
<1>2. RunShape' /\ Running' = Running
  BY <1>1 DEF RunShape, Running
<1>3. CASE Disturbs
  BY <1>2, <1>3 DEF Disturbs, RunsFollow
<1>4. ASSUME UNCHANGED <<expired, disturbed>>,
             \A p \in Orders : /\ order'[p].remaining = order[p].remaining
                               /\ Funded(p) => order'[p] = order[p] /\ bound'[p] = bound[p]
      PROVE  RunsFollow'
  <2> SUFFICES ASSUME NEW r \in Running \ disturbed
               PROVE  OnBook(r)'
    BY <1>2, <1>4 DEF RunsFollow
  <2>1. r \in Runs /\ OnBook(r) /\ run'[r] = run[r]
    BY <1>1 DEF RunsFollow, Running
  <2> QED
    BY <1>4, <2>1, OnBookStays
<1>5. ASSUME NEW s \in {"intent", "Pending", "closed"}, SetStatus(o, s), ~ Funded(o),
             UNCHANGED <<bound, expired, disturbed>>
      PROVE  RunsFollow'
  <2>1. order \in [Orders -> OrderType]
    BY DEF TypeOK, OrderType
  <2>2. s \in Statuses /\ order[o] \in OrderType
    BY <2>1 DEF Statuses
  <2> DEFINE q == [order[o] EXCEPT !.status = s]
  <2>3. q.remaining = order[o].remaining
    BY <2>2, WithStatus
  <2>4. order' = [order EXCEPT ![o] = q]
    BY <1>5 DEF SetStatus
  <2> HIDE DEF q
  <2>5. \A p \in Orders : /\ order'[p].remaining = order[p].remaining
                          /\ p # o => order'[p] = order[p]
    BY <2>1, <2>3, <2>4
  <2> QED
    BY <1>4, <1>5, <2>5
<1>6. CASE Place(o)
  <2>1. SetStatus(o, "intent") /\ ~ Funded(o) /\ UNCHANGED <<bound, expired, disturbed>>
    BY <1>6 DEF Place, Funded
  <2> QED
    BY <1>2, <1>5, <2>1
<1>7. CASE CloseIntent(o)
  <2>1. SetStatus(o, "closed") /\ ~ Funded(o) /\ UNCHANGED <<bound, expired, disturbed>>
    BY <1>7 DEF CloseIntent, Funded
  <2> QED
    BY <1>2, <1>5, <2>1
<1>8. CASE Bind(o)
  <2>1. SetStatus(o, "Pending") /\ ~ Funded(o) /\ UNCHANGED <<bound, expired, disturbed>>
    BY <1>8 DEF Bind, Funded
  <2> QED
    BY <1>2, <1>5, <2>1
<1>9. CASE Fund(o)
  <2>1. /\ order \in [Orders -> OrderType] /\ ~ Funded(o)
        /\ bound \in [Orders -> BoundType]
    BY <1>9 DEF TypeOK, OrderType, BoundType, Fund, Funded
  <2>2. \A p \in Orders : /\ order'[p].remaining = order[p].remaining
                          /\ p # o => order'[p] = order[p] /\ bound'[p] = bound[p]
    BY <1>9, <2>1 DEF Fund
  <2>3. UNCHANGED <<expired, disturbed>>
    BY <1>9 DEF Fund
  <2>4. \A p \in Orders : /\ order'[p].remaining = order[p].remaining
                          /\ Funded(p) => order'[p] = order[p] /\ bound'[p] = bound[p]
    BY <2>1, <2>2
  <2> QED
    BY <1>2, <1>4, <2>3, <2>4
<1>10. CASE AuthorLock(o) \/ AuthorReceipt(o)
  <2>1. UNCHANGED <<order, expired>> /\ (Disturbs \/ UNCHANGED <<bound, disturbed>>)
    BY <1>10 DEF AuthorLock, AuthorReceipt
  <2>2. CASE UNCHANGED <<bound, disturbed>>
    BY <1>2, <1>4, <2>1, <2>2
  <2> QED
    BY <1>3, <2>1, <2>2
<1>11. CASE Cancel(o) \/ DeadlinePasses(o) \/ \E k \in Kinds : Withdraw(o, k)
  BY <1>3, <1>11 DEF Cancel, DeadlinePasses, Withdraw
<1> QED
  BY <1>2, <1>6, <1>7, <1>8, <1>9, <1>10, <1>11

(* A run takes the head of its plan off, and everything else stands. *)
LEMMA TailOnBook ==
  ASSUME TypeOK, RunShape, NEW r \in Runs, run[r].plan # << >>, OnBook(r),
         run'[r].plan = Tail(run[r].plan), run'[r].live = run[r].live,
         run'[r].closed = run[r].closed, UNCHANGED <<order, bound, expired>>
  PROVE  OnBook(r)'
<1> DEFINE plan == run[r].plan
<1>1. plan \in Seq(Cross)
  BY DEF RunShape, RunType
<1>2. /\ Tail(plan) \in Seq(Cross) /\ Head(plan) \in Cross
      /\ \A k \in 1 .. Len(Tail(plan)) : k + 1 \in 1 .. Len(plan) /\ Tail(plan)[k] = plan[k + 1]
  BY <1>1
<1>3. ASSUME NEW k \in 1 .. Len(run[r].plan)'
      PROVE  AsFound(r, run[r].plan[k])'
  <2>1. PICK m \in Cross : m = plan[k + 1] /\ AsFound(r, m)
    BY <1>1, <1>2 DEF OnBook
  <2>2. Named(r)' \subseteq Named(r)
    BY <1>1, <1>2 DEF Named
  <2>3. AsFound(r, m)'
    <3>1. ASSUME NEW o, NEW cid, Followed(r, o, cid)
          PROVE  Followed(r, o, cid)'
      BY <2>2, <3>1 DEF Followed, Funded, Backed, Kinds, SharesNone
    <3> QED
      BY <2>1, <3>1 DEF AsFound, Bid, Limit
  <2>4. run'[r].plan[k] = m
    BY <1>2, <2>1
  <2> QED
    BY <2>3, <2>4
<1>4. ASSUME NEW o \in Orders, o \notin run'[r].closed
      PROVE  Filled(run'[r].plan, o) <= order'[o].remaining
  <2>1. /\ Filled(plan, o) = Filled(Tail(plan), o)
             + (IF o \in {Head(plan).buy, Head(plan).sell} THEN Head(plan).quantity ELSE 0)
        /\ Filled(Tail(plan), o) \in Nat /\ Head(plan).quantity \in Nat
    <3>1. Head(plan).quantity \in Nat
      BY <1>2 DEF Cross
    <3> QED
      BY <1>1, <1>2, <3>1, FilledTail, FilledNat
  <2>2. Filled(plan, o) <= order[o].remaining /\ order[o].remaining \in Nat
    BY <1>4 DEF OnBook, TypeOK
  <2> QED
    BY <2>1, <2>2
<1> QED
  BY <1>3, <1>4 DEF OnBook

LEMMA MoveOnKeepsFollow ==
  ASSUME TypeOK, RunShape, RunsFollow, NEW r \in Runs, run[r].plan # << >>, MoveOn(r),
         UNCHANGED <<order, bound, expired, trades, disturbed>>
  PROVE  RunShape' /\ RunsFollow'
<1> DEFINE plan == run[r].plan
           moved == [run[r] EXCEPT !.plan = Tail(plan)]
<1>1. plan \in Seq(Cross) /\ Tail(plan) \in Seq(Cross) /\ run[r] \in RunType
  BY DEF RunShape, RunType
<1>2. /\ moved \in RunType /\ moved.plan = Tail(plan)
      /\ moved.live = run[r].live /\ moved.closed = run[r].closed
  BY <1>1 DEF RunType
<1>3. run' = [run EXCEPT ![r] = moved]
  BY DEF MoveOn
<1> HIDE DEF moved
<1>4. /\ run' \in [Runs -> RunType] /\ run'[r] = moved
      /\ \A q \in Runs : q # r => run'[q] = run[q]
  BY <1>2, <1>3 DEF RunShape
<1>5. RunShape'
  BY <1>4 DEF RunShape
<1>6. ASSUME NEW q \in Runs, q \in Running' \ disturbed'
      PROVE  OnBook(q)'
  <2>1. q \in Running \ disturbed
    BY <1>4, <1>6 DEF Running
  <2>2. OnBook(q)
    BY <2>1 DEF RunsFollow
  <2>3. CASE q = r
    <3>1. /\ run'[r].plan = Tail(run[r].plan) /\ run'[r].live = run[r].live
          /\ run'[r].closed = run[r].closed /\ OnBook(r)
      BY <1>2, <1>4, <2>2, <2>3
    <3>2. OnBook(r)'
      BY <3>1, TailOnBook
    <3> QED
      BY <2>3, <3>2
  <2>4. CASE q # r
    BY <1>4, <2>1, <2>2, <2>4, OnBookStays
  <2> QED
    BY <2>3, <2>4
<1> QED
  BY <1>5, <1>6 DEF RunsFollow, Running

(* A run that begins has on its plan what its snapshot can give. *)
LEMMA StartKeepsFollow ==
  ASSUME TypeOK, RunShape, RunsFollow, NEW r \in Runs, StartRun(r)
  PROVE  RunShape' /\ RunsFollow'
<1> DEFINE E == Snapshot
           begun == [plan |-> Proposals, closed |-> {}, live |-> [o \in Orders |-> order[o].cid]]
<1>1. /\ Rows(E) /\ E = {RowOf(o) : o \in Eligible} /\ Eligible \subseteq Orders
      /\ \A o \in Eligible : RowOf(o) \in Row /\ order[o].remaining \in Nat \ {0}
  BY SnapshotRows
<1>2. PICK s : LoopInv(E, s) /\ Stays(s) /\ Proposals = s.plan
  BY <1>1, Matched DEF Proposals
<1> HIDE DEF E
<1>3. LoopType(E, s) /\ Cursors(E, s) /\ s \in LoopState(E) /\ s.plan \in Seq(Cross)
  BY <1>2 DEF LoopInv, LoopType, LoopState
<1>4. /\ begun \in RunType
      /\ begun.plan = s.plan /\ begun.closed = {}
      /\ \A o \in Orders : begun.live[o] = order[o].cid
  BY <1>2, <1>3 DEF RunType, TypeOK
<1>5. /\ run' = [run EXCEPT ![r] = begun] /\ disturbed' = disturbed \ {r}
      /\ UNCHANGED <<order, bound, expired, trades>>
  BY DEF StartRun, ledger
<1> HIDE DEF begun
<1>6. /\ run' \in [Runs -> RunType] /\ run'[r] = begun
      /\ \A q \in Runs : q # r => run'[q] = run[q]
  BY <1>4, <1>5 DEF RunShape
<1>7. RunShape'
  BY <1>5, <1>6 DEF RunShape
<1>8. OnBook(r)'
  <2>1. ASSUME NEW k \in 1 .. Len(run[r].plan)'
        PROVE  AsFound(r, run[r].plan[k])'
    <3>1. PICK m \in Cross : m = s.plan[k] /\ m = run'[r].plan[k] /\ FairCross(E, m)
      BY <1>3, <1>4, <1>6 DEF LoopType
    <3>2. PICK x \in E, y \in E :
            /\ x.side = "Bid" /\ y.side = "Ask" /\ x.trader # y.trader
            /\ m.buy = x.id /\ m.buyCid = x.cid /\ m.sell = y.id /\ m.sellCid = y.cid
            /\ y.limit <= m.price /\ m.price <= x.limit
      BY <3>1 DEF FairCross
    <3>3. PICK b \in Eligible, a \in Eligible : x = RowOf(b) /\ y = RowOf(a)
      BY <1>1, <3>2
    <3>4. /\ m.buy = b /\ m.buyCid = order[b].cid /\ m.sell = a /\ m.sellCid = order[a].cid
          /\ Terms[b].side = "Bid" /\ Terms[a].side = "Ask"
          /\ Terms[b].trader # Terms[a].trader
          /\ Limit(a) <= m.price /\ m.price <= Limit(b)
      BY <3>2, <3>3 DEF RowOf
    <3>5. /\ Funded(b) /\ b \notin expired /\ b \in Orders
          /\ Funded(a) /\ a \notin expired /\ a \in Orders
      BY DEF Eligible
    <3>6. Followed(r, b, m.buyCid)' /\ Followed(r, a, m.sellCid)'
      BY <1>4, <1>5, <1>6, <3>4, <3>5 DEF Followed, Funded
    <3>7. AsFound(r, m)'
      BY <3>4, <3>6 DEF AsFound, Bid, Limit
    <3> QED
      BY <3>1, <3>7
  <2>2. ASSUME NEW o \in Orders
        PROVE  Filled(s.plan, o) <= order[o].remaining
    <3>1. Filled(s.plan, o) \in Nat /\ order[o].remaining \in Nat
      BY <1>3, FilledNat DEF TypeOK
    <3>2. CASE o \in Eligible
      <4>1. RowOf(o) \in E /\ RowOf(o).id = o /\ RowOf(o).remaining = order[o].remaining
        BY <1>1, <3>2 DEF RowOf
      <4>2. Filled(s.plan, o) + s.left[o] = order[o].remaining /\ s.left[o] \in Nat
        BY <1>3, <4>1 DEF Cursors, LoopState
      <4> QED
        BY <3>1, <4>2
    <3>3. CASE o \notin Eligible
      <4>1. ASSUME NEW k \in 1 .. Len(s.plan)
            PROVE  o \notin {s.plan[k].buy, s.plan[k].sell}
        <5>1. PICK x \in E, y \in E : s.plan[k].buy = x.id /\ s.plan[k].sell = y.id
          BY <1>3 DEF LoopType, FairCross
        <5>2. x.id \in Eligible /\ y.id \in Eligible
          BY <1>1, <5>1 DEF RowOf
        <5> QED
          BY <3>3, <5>1, <5>2
      <4>2. Filled(s.plan, o) = 0
        BY <1>3, <4>1, FilledNone
      <4> QED
        BY <3>1, <4>2
    <3> QED
      BY <3>2, <3>3
  <2> QED
    BY <1>4, <1>5, <1>6, <2>1, <2>2 DEF OnBook
<1>9. ASSUME NEW q \in Runs, q # r, q \in Running' \ disturbed'
      PROVE  OnBook(q)'
  <2>1. q \in Running \ disturbed /\ run'[q] = run[q]
    BY <1>5, <1>6, <1>9 DEF Running
  <2>2. OnBook(q)
    BY <2>1 DEF RunsFollow
  <2> QED
    BY <1>5, <1>9, <2>1, <2>2, OnBookStays
<1> QED
  BY <1>7, <1>8, <1>9 DEF RunsFollow, Running

(* A run that nobody disturbed is answered nothing old: the store knows    *)
(* the contract of the bid that the trade of an older answer consumed.     *)
LEMMA NoOldAnswer ==
  ASSUME TypeOK, RunShape, RunsFollow, Once, NEW r \in Running \ disturbed, Replay(r)
  PROVE  FALSE
<1> DEFINE m == Current(r)
<1>1. PICK t \in trades : t.match = m /\ ~ Differs(r) /\ ~ Closed(r) /\ run[r].plan # << >>
  BY DEF Replay, Submits, Answered
<1>2. r \in Runs /\ run[r].plan \in Seq(Cross)
  BY DEF Running, RunShape, RunType
<1>3. m = run[r].plan[1] /\ 1 \in 1 .. Len(run[r].plan)
  BY <1>1, <1>2 DEF Current
<1>4. Followed(r, m.buy, m.buyCid)
  BY <1>3 DEF RunsFollow, OnBook, AsFound
<1> HIDE DEF m
<1>5. Funded(m.buy) /\ order[m.buy].cid = run[r].live[m.buy]
  BY <1>1, <1>4 DEF Followed, Closed, m
<1>6. /\ [match |-> t.match, buyCid |-> t.buyCid, sellCid |-> t.sellCid] \in sent
      /\ t.buyCid < order[m.buy].cid /\ t.buyCid \in Nat /\ m.buy \in Orders
  BY <1>1, <1>5 DEF Once, Recorded
<1>7. t.buyCid = run[r].live[m.buy]
  BY <1>1, <1>6 DEF Differs, Names, m
<1>8. order[m.buy].cid \in Nat
  BY <1>6 DEF TypeOK
<1> QED
  BY <1>5, <1>6, <1>7, <1>8

(* The record a run is left with by an answer. *)
LEMMA FollowType ==
  ASSUME RunShape, NEW r \in Runs, run[r].plan # << >>,
         NEW buyNext \in Nat, NEW sellNext \in Nat, Follow(r, Current(r), buyNext, sellNext)
  PROVE  LET m == Current(r)
             next(o) == IF o = m.buy THEN buyNext ELSE sellNext
         IN  /\ run' \in [Runs -> RunType]
             /\ \A q \in Runs : q # r => run'[q] = run[q]
             /\ run'[r].plan = Tail(run[r].plan)
             /\ m.buy # m.sell => \A o \in Orders : run'[r].live[o] =
                     IF o \in {m.buy, m.sell} THEN next(o) ELSE run[r].live[o]
             /\ run'[r].closed = run[r].closed \cup {o \in {m.buy, m.sell} : next(o) = 0}
<1> DEFINE m == Current(r)
           plan == Tail(run[r].plan)
           live == [run[r].live EXCEPT ![m.buy] = buyNext, ![m.sell] = sellNext]
           shut == run[r].closed \cup {o \in {m.buy, m.sell} :
                                        (IF o = m.buy THEN buyNext ELSE sellNext) = 0}
           after == [run[r] EXCEPT !.plan = plan, !.live = live, !.closed = shut]
<1>1. run[r] \in RunType /\ run[r].plan \in Seq(Cross) /\ run[r].live \in [Orders -> Nat]
      /\ run[r].closed \subseteq Orders /\ run \in [Runs -> RunType]
  BY DEF RunShape, RunType
<1>2. m \in Cross /\ plan \in Seq(Cross)
  BY <1>1 DEF Current
<1>3. m.buy \in Orders /\ m.sell \in Orders
  BY <1>2 DEF Cross
<1>4. run' = [run EXCEPT ![r] = after]
  BY DEF Follow
<1> HIDE DEF m
<1>5. live \in [Orders -> Nat] /\ shut \in SUBSET Orders
  BY <1>1, <1>3
<1>6. m.buy # m.sell => \A o \in Orders : live[o] =
         IF o \in {m.buy, m.sell} THEN (IF o = m.buy THEN buyNext ELSE sellNext)
         ELSE run[r].live[o]
  BY <1>1, <1>3
<1> HIDE DEF plan, live, shut
<1>7. /\ after \in RunType
      /\ after.plan = plan /\ after.live = live /\ after.closed = shut
  BY <1>1, <1>2, <1>5 DEF RunType
<1> HIDE DEF after
<1>8. /\ run' \in [Runs -> RunType] /\ run'[r] = after
      /\ \A q \in Runs : q # r => run'[q] = run[q]
  BY <1>1, <1>4, <1>7
<1> QED
  BY <1>6, <1>7, <1>8 DEF plan, shut, m

LEMMA ReplayKeepsFollow ==
  ASSUME TypeOK, RunShape, RunsFollow, Once, NEW r \in Runs, Replay(r)
  PROVE  RunShape' /\ RunsFollow'
<1>1. /\ run[r].plan # << >> /\ UNCHANGED <<order, bound, expired, trades, disturbed>>
      /\ \E t \in trades : Follow(r, Current(r), t.buyNext, t.sellNext)
  BY DEF Replay, Submits, Answered, ledger
<1>2. PICK t \in trades : Follow(r, Current(r), t.buyNext, t.sellNext)
  BY <1>1
<1>3. t.buyNext \in Nat /\ t.sellNext \in Nat
  BY DEF RunShape
<1>4. run' \in [Runs -> RunType] /\ \A q \in Runs : q # r => run'[q] = run[q]
  BY <1>1, <1>2, <1>3, FollowType
<1>5. r \notin Running \ disturbed
  BY NoOldAnswer
<1>6. ASSUME NEW q \in Runs, q \in Running' \ disturbed'
      PROVE  OnBook(q)'
  <2>1. r \in Running
    BY <1>1 DEF Running
  <2>2. q # r
    BY <1>1, <1>5, <1>6, <2>1
  <2>3. q \in Running \ disturbed /\ run'[q] = run[q]
    BY <1>1, <1>4, <1>6, <2>2 DEF Running
  <2>4. OnBook(q)
    BY <2>3 DEF RunsFollow
  <2> QED
    BY <1>1, <1>6, <2>3, <2>4, OnBookStays
<1> QED
  BY <1>1, <1>4, <1>6 DEF RunShape, RunsFollow, Running

(* What the fill of a cross makes of its orders, for the run that made it. *)
LEMMA SettleFollowed ==
  ASSUME TypeOK, NEW r \in Runs, NEW answered \in BOOLEAN, Acceptable(r),
         Covered(Current(r)), Settle(Current(r), answered)
  PROVE  LET m == Current(r)
             t == Trade(m, answered)
         IN  /\ m.buy \in Orders /\ m.sell \in Orders /\ m.buy # m.sell
             /\ t.buyNext \in Nat /\ t.sellNext \in Nat
             /\ \A o \in Orders \ {m.buy, m.sell} : order'[o] = order[o]
             /\ \A o \in {m.buy, m.sell} :
                  /\ order'[o].remaining = order[o].remaining - m.quantity
                  /\ (IF o = m.buy THEN t.buyNext ELSE t.sellNext) # 0 =>
                       /\ Funded(o)' /\ bound'[o] = bound[o]
                       /\ order'[o].cid = IF o = m.buy THEN t.buyNext ELSE t.sellNext
<1> DEFINE m == Current(r)
           b == m.buy
           s == m.sell
           q == m.quantity
           pay == QuoteAmount(m)
           ob == RolledOrder(b, q, pay)
           os == RolledOrder(s, q, q)
           open == {o \in {b, s} : StaysOpen(o, q, IF o = b THEN pay ELSE q)}
           t == Trade(m, answered)
<1>1. /\ b \in Orders /\ s \in Orders /\ b # s
  BY DEF Acceptable, Accepted
<1>2. order \in [Orders -> OrderType] /\ order[b].cid \in Nat /\ order[s].cid \in Nat
  BY <1>1 DEF TypeOK, OrderType
<1>3. /\ order' = [order EXCEPT ![b] = ob, ![s] = os]
      /\ \A o \in open : bound'[o] = bound[o]
  <2>1. \A o \in open : o \in Orders
    BY <1>1
  <2> QED
    BY <2>1 DEF Settle
<1>4. t.buyNext = NextCid(b, q, pay) /\ t.sellNext = NextCid(s, q, q)
  BY DEF Trade
<1>5. (b \in open <=> StaysOpen(b, q, pay)) /\ (s \in open <=> StaysOpen(s, q, q))
  BY <1>1
<1> HIDE DEF ob, os, t, open
<1>6. \A o \in Orders : order'[o] = IF o = s THEN os ELSE IF o = b THEN ob ELSE order[o]
  BY <1>1, <1>2, <1>3
<1>7. ASSUME NEW o \in Orders, NEW filled, NEW spent
      PROVE  /\ NextCid(o, filled, spent) \in Nat
             /\ RolledOrder(o, filled, spent).remaining = order[o].remaining - filled
             /\ NextCid(o, filled, spent) # 0 =>
                  /\ RolledOrder(o, filled, spent).status = "PartiallyFilled"
                  /\ RolledOrder(o, filled, spent).cid = NextCid(o, filled, spent)
                  /\ StaysOpen(o, filled, spent)
  <2>1. order[o].cid \in Nat
    BY DEF TypeOK
  <2> QED
    BY <2>1 DEF NextCid, RolledOrder
<1>8. /\ t.buyNext \in Nat /\ ob.remaining = order[b].remaining - q
      /\ t.buyNext # 0 => /\ ob.status = "PartiallyFilled" /\ ob.cid = t.buyNext
                          /\ b \in open
  BY <1>1, <1>4, <1>5, <1>7 DEF ob
<1>9. /\ t.sellNext \in Nat /\ os.remaining = order[s].remaining - q
      /\ t.sellNext # 0 => /\ os.status = "PartiallyFilled" /\ os.cid = t.sellNext
                           /\ s \in open
  BY <1>1, <1>4, <1>5, <1>7 DEF os
<1> QED
  BY <1>1, <1>3, <1>6, <1>8, <1>9 DEF Funded, t

(* An order keeps what no order of a fill is bound to. *)
LEMMA SettleSpares ==
  ASSUME TypeOK, NEW m, m.buy \in Orders, m.sell \in Orders, NEW answered,
         Settle(m, answered), NEW o \in Orders, SharesNone(m.buy, o), SharesNone(m.sell, o)
  PROVE  bound'[o] = bound[o]
<1> DEFINE gone == Uses(m.buy) \cup Uses(m.sell)
           kept == Unbound(gone)[o]
<1>1. bound'[o] \in {bound[o], kept}
  BY DEF Settle
<1>2. \A k \in DOMAIN bound[o] : <<k, bound[o][k]>> \notin gone
  BY DEF Uses, SharesNone
<1>3. kept = [k \in {n \in DOMAIN bound[o] : <<n, bound[o][n]>> \notin gone} |-> bound[o][k]]
  BY DEF Unbound, Restrict
<1> HIDE DEF gone
<1>4. {n \in DOMAIN bound[o] : <<n, bound[o][n]>> \notin gone} = DOMAIN bound[o]
  BY <1>2
<1>5. bound[o] \in BoundType
  BY BoundFacts
<1>6. PICK K \in SUBSET Kinds : bound[o] \in [K -> Orders]
  BY <1>5 DEF BoundType
<1>7. kept = bound[o]
  BY <1>3, <1>4, <1>6
<1> QED
  BY <1>1, <1>7

LEMMA TradesNamed ==
  ASSUME TypeOK, RunShape, NEW r \in Runs, NEW answered \in BOOLEAN, Acceptable(r),
         Covered(Current(r)), Settle(Current(r), answered)
  PROVE  \A t \in trades' : t.buyNext \in Nat /\ t.sellNext \in Nat
<1>1. /\ Trade(Current(r), answered).buyNext \in Nat
      /\ Trade(Current(r), answered).sellNext \in Nat
  BY SettleFollowed
<1>2. trades' = trades \cup {Trade(Current(r), answered)}
  BY DEF Settle
<1> QED
  BY <1>1, <1>2 DEF RunShape

LEMMA ExecuteKeepsFollow ==
  ASSUME Inv, RunShape, RunsFollow, NEW r \in Runs, Execute(r)
  PROVE  RunShape' /\ RunsFollow'
<1> DEFINE m == Current(r)
           plan == run[r].plan
           t == Trade(m, TRUE)
           next(o) == IF o = m.buy THEN t.buyNext ELSE t.sellNext
           mine == {m.buy, m.sell}
<1>1. /\ plan # << >> /\ ~ Closed(r) /\ Acceptable(r) /\ Covered(m) /\ Settle(m, TRUE)
      /\ Follow(r, m, t.buyNext, t.sellNext) /\ disturbed' = disturbed \cup (Running \ {r})
  BY DEF Execute, Forwards, Submits
<1>2. UNCHANGED expired
  BY <1>1 DEF Settle
<1>3. plan \in Seq(Cross)
  BY DEF RunShape, RunType
<1>4. m = Head(plan) /\ m \in Cross
  BY <1>1, <1>3 DEF Current
<1>5. /\ m.buy \in Orders /\ m.sell \in Orders /\ m.buy # m.sell
      /\ t.buyNext \in Nat /\ t.sellNext \in Nat
      /\ \A o \in Orders \ mine : order'[o] = order[o]
      /\ \A o \in mine :
           /\ order'[o].remaining = order[o].remaining - m.quantity
           /\ next(o) # 0 => /\ Funded(o)' /\ bound'[o] = bound[o]
                             /\ order'[o].cid = next(o)
  BY <1>1, SettleFollowed DEF Inv
<1>6. /\ \A p \in Orders : \A k \in DOMAIN bound'[p] :
            k \in DOMAIN bound[p] /\ bound'[p][k] = bound[p][k]
      /\ \A p \in Orders \ mine : \A k \in DOMAIN bound'[p] :
           /\ k \in DOMAIN bound[m.buy] => bound[p][k] # bound[m.buy][k]
           /\ k \in DOMAIN bound[m.sell] => bound[p][k] # bound[m.sell][k]
      /\ Backed(m.buy) /\ Backed(m.sell)
      /\ Terms[m.buy].trader # Terms[m.sell].trader
  <2>1. PICK cb, cs : Accepted(m, cb, cs)
    BY <1>1 DEF Acceptable
  <2>2. Backed(m.buy) /\ Backed(m.sell) /\ Terms[m.buy].trader # Terms[m.sell].trader
    BY <2>1 DEF Accepted
  <2> HIDE DEF m, mine
  <2>3. Covered(m) /\ Settle(m, TRUE) /\ TRUE \in BOOLEAN
    BY <1>1
  <2>4. /\ \A p \in Orders : \A k \in DOMAIN bound'[p] :
             k \in DOMAIN bound[p] /\ bound'[p][k] = bound[p][k]
        /\ \A p \in Orders \ {m.buy, m.sell} : \A k \in DOMAIN bound'[p] :
            /\ k \in DOMAIN bound[m.buy] => bound[p][k] # bound[m.buy][k]
            /\ k \in DOMAIN bound[m.sell] => bound[p][k] # bound[m.sell][k]
    BY <2>1, <2>3, SettleLinks
  <2> QED
    BY <2>2, <2>4 DEF mine
<1>7. m.buy \notin run[r].closed /\ m.sell \notin run[r].closed
  BY <1>1 DEF Closed
<1>8. /\ run' \in [Runs -> RunType]
      /\ \A q \in Runs : q # r => run'[q] = run[q]
      /\ run'[r].plan = Tail(plan)
      /\ \A o \in Orders : run'[r].live[o] = IF o \in mine THEN next(o) ELSE run[r].live[o]
      /\ run'[r].closed = run[r].closed \cup {o \in mine : next(o) = 0}
  <2>1. PICK b \in Nat, s \in Nat : b = t.buyNext /\ s = t.sellNext
    BY <1>5
  <2>2. Follow(r, Current(r), b, s) /\ run[r].plan # << >>
    BY <1>1, <2>1
  <2>3. /\ run' \in [Runs -> RunType]
        /\ \A q \in Runs : q # r => run'[q] = run[q]
        /\ run'[r].plan = Tail(plan)
        /\ \A o \in Orders : run'[r].live[o] =
             IF o \in mine THEN (IF o = m.buy THEN b ELSE s) ELSE run[r].live[o]
        /\ run'[r].closed = run[r].closed
                             \cup {o \in mine : (IF o = m.buy THEN b ELSE s) = 0}
    BY <1>5, <2>2, FollowType
  <2> QED
    BY <2>1, <2>3
<1> HIDE DEF m, t, mine
<1>9. RunShape'
  BY <1>1, <1>8, TradesNamed DEF RunShape, m, Inv
<1>10. Running' \ disturbed' \subseteq {r}
  BY <1>1, <1>8 DEF Running
<1>11. ASSUME r \in Running \ disturbed
      PROVE  OnBook(r)'
  <2>1. /\ \A k \in 1 .. Len(plan) : AsFound(r, plan[k])
        /\ \A o \in Orders \ run[r].closed : Filled(plan, o) <= order[o].remaining
    BY <1>11 DEF RunsFollow, OnBook
  <2>2. /\ Tail(plan) \in Seq(Cross)
        /\ \A k \in 1 .. Len(Tail(plan)) : k + 1 \in 1 .. Len(plan) /\ Tail(plan)[k] = plan[k + 1]
        /\ 1 \in 1 .. Len(plan) /\ m = plan[1]
    BY <1>1, <1>3, <1>4
  <2>3. /\ Named(r)' \subseteq Named(r) /\ Named(r) \subseteq Orders
        /\ m.buy \in Named(r) /\ m.sell \in Named(r)
    <3>1. run[r].closed \subseteq run'[r].closed /\ run'[r].plan = Tail(plan)
      BY <1>8
    <3> QED
      BY <1>5, <1>7, <2>2, <3>1 DEF Named
  <2>4. \A o, p \in Orders : SharesNone(p, o) => SharesNone(p, o)'
    BY <1>6 DEF SharesNone
  <2>5. ASSUME NEW o \in Orders, NEW cid, Followed(r, o, cid)
        PROVE  Followed(r, o, cid)'
    <3>1. SUFFICES ASSUME o \notin run'[r].closed
                   PROVE  /\ Funded(o)' /\ o \notin expired'
                          /\ order'[o].cid = run'[r].live[o]
                          /\ \/ order'[o].cid = cid
                             \/ Backed(o)' /\ \A p \in Named(r)' \ {o} : SharesNone(p, o)'
      BY DEF Followed
    <3>2. /\ Funded(o) /\ o \notin expired /\ order[o].cid = run[r].live[o]
          /\ \/ order[o].cid = cid
             \/ Backed(o) /\ \A p \in Named(r) \ {o} : SharesNone(p, o)
      BY <1>8, <2>5, <3>1 DEF Followed
    <3>3. CASE o \in mine
      <4>1. /\ Funded(o)' /\ bound'[o] = bound[o] /\ order'[o].cid = run'[r].live[o]
        BY <1>5, <1>8, <3>1, <3>3
      <4>2. Backed(o)'
        <5>1. Backed(o)
          BY <1>6, <3>3 DEF mine
        <5> QED
          BY <4>1, <5>1 DEF Backed, Kinds
      <4>3. ASSUME NEW p \in Orders, p # o PROVE SharesNone(p, o)'
        <5>1. CASE p \in mine
          <6>1. Terms[p].trader # Terms[o].trader
            <7>1. (p = m.buy /\ o = m.sell) \/ (p = m.sell /\ o = m.buy)
              BY <3>3, <4>3, <5>1 DEF mine
            <7> QED
              BY <1>6, <7>1
          <6>2. SharesNone(p, o)
            BY <6>1 DEF Inv, Linked, SharesNone
          <6> QED
            BY <2>4, <6>2
        <5>2. CASE p \notin mine
          <6>1. \A k \in DOMAIN bound'[p] : k \in DOMAIN bound[o] =>
                   bound'[p][k] # bound[o][k]
            BY <1>6, <3>3, <5>2 DEF mine
          <6> QED
            BY <4>1, <6>1 DEF SharesNone
        <5> QED
          BY <5>1, <5>2
      <4> QED
        BY <1>2, <2>3, <3>2, <4>1, <4>2, <4>3
    <3>4. CASE o \notin mine
      <4>1. /\ Funded(o)' /\ order'[o].cid = run'[r].live[o] /\ order'[o].cid = order[o].cid
        BY <1>5, <1>8, <3>2, <3>4 DEF Funded
      <4>2. CASE order[o].cid = cid
        BY <1>2, <3>2, <4>1, <4>2
      <4>3. CASE Backed(o) /\ \A p \in Named(r) \ {o} : SharesNone(p, o)
        <5>1. SharesNone(m.buy, o) /\ SharesNone(m.sell, o)
          BY <2>3, <3>4, <4>3 DEF mine
        <5>2. bound'[o] = bound[o]
          BY <1>1, <1>5, <5>1, SettleSpares DEF Inv
        <5>3. Backed(o)'
          BY <4>3, <5>2 DEF Backed, Kinds
        <5> QED
          BY <1>2, <2>3, <2>4, <3>2, <4>1, <4>3, <5>3
      <4> QED
        BY <3>2, <4>2, <4>3
    <3> QED
      BY <3>3, <3>4
  <2>6. ASSUME NEW k \in 1 .. Len(run[r].plan)'
        PROVE  AsFound(r, run[r].plan[k])'
    <3>1. PICK c \in Cross : c = plan[k + 1] /\ AsFound(r, c)
      BY <1>3, <1>8, <2>1, <2>2
    <3>2. Followed(r, c.buy, c.buyCid)' /\ Followed(r, c.sell, c.sellCid)'
      BY <2>5, <3>1 DEF AsFound, Cross
    <3>3. AsFound(r, c)'
      BY <3>1, <3>2 DEF AsFound, Bid, Limit
    <3>4. run'[r].plan[k] = c
      BY <1>8, <2>2, <3>1
    <3> QED
      BY <3>3, <3>4
  <2>7. ASSUME NEW o \in Orders, o \notin run'[r].closed
        PROVE  Filled(Tail(plan), o) <= order'[o].remaining
    <3>1. /\ Filled(plan, o)
               = Filled(Tail(plan), o) + (IF o \in mine THEN m.quantity ELSE 0)
          /\ Filled(Tail(plan), o) \in Nat
      BY <1>1, <1>3, <1>4, <2>2, FilledTail, FilledNat DEF mine
    <3>2. Filled(plan, o) <= order[o].remaining /\ order[o].remaining \in Nat
      BY <1>8, <2>1, <2>7 DEF Inv, TypeOK
    <3>3. order'[o].remaining
            = IF o \in mine THEN order[o].remaining - m.quantity ELSE order[o].remaining
      BY <1>5
    <3>4. m.quantity \in Nat
      BY <1>4 DEF Cross
    <3> QED
      BY <3>1, <3>2, <3>3, <3>4
  <2> QED
    BY <1>8, <2>6, <2>7 DEF OnBook
<1> QED
  BY <1>1, <1>9, <1>10, <1>11 DEF RunsFollow, Running

LEMMA RunStepKeepsFollow ==
  ASSUME Inv, TypeOK, RunShape, RunsFollow, Once, NEW r \in Runs,
         StartRun(r) \/ RunStep(r) \/ Unreachable(r) \/ LoseAnswer(r)
  PROVE  RunShape' /\ RunsFollow'
<1>1. CASE StartRun(r)
  BY <1>1, StartKeepsFollow
<1>2. CASE Execute(r)
  BY <1>2, ExecuteKeepsFollow
<1>3. CASE Replay(r)
  BY <1>3, ReplayKeepsFollow
<1>4. CASE Skip(r) \/ Refused(r) \/ Unreachable(r)
  <2>1. /\ run[r].plan # << >> /\ MoveOn(r)
        /\ UNCHANGED <<order, bound, expired, trades, disturbed>>
    BY <1>4 DEF Skip, Refused, Unreachable, Forwards, Submits, ledger
  <2> QED
    BY <2>1, MoveOnKeepsFollow
<1>5. CASE LoseAnswer(r)
  <2> DEFINE moved == [run[r] EXCEPT !.plan = Tail(run[r].plan)]
  <2>1. /\ run[r].plan # << >> /\ run' = [run EXCEPT ![r] = moved]
        /\ Acceptable(r) /\ Covered(Current(r)) /\ Settle(Current(r), FALSE)
        /\ disturbed' = disturbed \cup Running
    BY <1>5 DEF LoseAnswer, Forwards, Submits, MoveOn, Disturbs
  <2>2. moved \in RunType
    <3>1. run[r] \in RunType /\ Tail(run[r].plan) \in Seq(Cross)
      BY <2>1 DEF RunShape, RunType
    <3> QED
      BY <3>1 DEF RunType
  <2> HIDE DEF moved
  <2>3. run' \in [Runs -> RunType] /\ \A q \in Runs : q # r => run'[q] = run[q]
    BY <2>1, <2>2 DEF RunShape
  <2>4. RunShape'
    BY <2>1, <2>3, TradesNamed DEF RunShape
  <2>5. Running' \ disturbed' = {}
    BY <2>1, <2>3 DEF Running
  <2> QED
    BY <2>4, <2>5 DEF RunsFollow
<1> QED
  BY <1>1, <1>2, <1>3, <1>4, <1>5 DEF RunStep

LEMMA NextFollow ==
  Inv /\ Once /\ RunShape /\ RunsFollow /\ [Next]_vars => (RunShape /\ RunsFollow)'
<1> SUFFICES ASSUME Inv, TypeOK, Once, RunShape, RunsFollow, [Next]_vars
             PROVE  (RunShape /\ RunsFollow)'
  BY DEF Inv
<1>1. CASE UNCHANGED vars
  <2>1. UNCHANGED <<order, bound, expired, trades, run, disturbed>>
    BY <1>1 DEF vars, ledger
  <2>2. RunShape' /\ Running' = Running
    BY <2>1 DEF RunShape, Running
  <2>3. \A r \in Running \ disturbed : OnBook(r)'
    BY <2>1, OnBookStays DEF RunsFollow, Running
  <2> QED
    BY <2>1, <2>2, <2>3 DEF RunsFollow
<1>2. CASE Next
  BY <1>2, OrderStepKeepsFollow, RunStepKeepsFollow DEF Next
<1> QED
  BY <1>1, <1>2

(* A run proposes all it should and in the order it should, whatever the   *)
(* book, however many orders it holds and however old they are.            *)
THEOREM ProposesInOrder == Spec => []FillsInOrder
BY BookTypes, OrderedFills, PTL

(* As long as nobody else touches the ledger, a run names live contracts   *)
(* and proposes what the orders admit, after any number of its own fills.  *)
THEOREM RunKeepsUp == Spec => []RunFollowsBook
<1>1. Once /\ TypeOK /\ RunShape /\ RunsFollow => RunFollowsBook
  BY FollowsBook
<1> QED
  BY <1>1, BookTypes, BookInv, InitOnce, NextOnce, InitFollow, NextFollow, PTL DEF Spec
=============================================================================
