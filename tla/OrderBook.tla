----------------------------- MODULE OrderBook ------------------------------
(***************************************************************************)
(* The order book of one pair: orders and the allocations that fund them   *)
(* (Dex/Order, Dex/OrderFundingRequest, Dex/OrderMatchExecution, and       *)
(* Registry/V2 where they call it), traders who may withdraw their funds,  *)
(* and the operator's matching runs (order/index.ts), which settle crosses *)
(* found in a snapshot while the ledger moves on.                          *)
(*                                                                         *)
(* Every action is one ledger transaction, or one step of a run.           *)
(***************************************************************************)
EXTENDS Matching, Totals, Functions

CONSTANTS
  Orders,          \* the orders that may be placed
  Traders,
  Terms,           \* what each order asks: [trader, side, limit, quantity, expiry]
  InitialFree,     \* unlocked holdings: [Traders -> [Instruments -> Nat]]
  CrossAdmin,      \* do base and quote live in two registries?
  Dates,           \* does the ledger driver report create times?
  CancelsAllowed,  \* may the operator cancel allocations one by one?
  Runs,            \* matching runs that may overlap
  MaxFaults        \* bound on lost requests and lost answers

Instruments == {"base", "quote"}

Term == [trader : Traders, side : {"Bid", "Ask"},
         limit : Nat \ {0}, quantity : Nat \ {0}, expiry : Nat]

ASSUME BookAssumption ==
  /\ IsFiniteSet(Orders)
  /\ IsFiniteSet(Traders)
  /\ Terms \in [Orders -> Term]
  /\ InitialFree \in [Traders -> [Instruments -> Nat]]
  /\ CidRank \in [Orders -> Int]
  /\ \A o, p \in Orders : CidRank[o] = CidRank[p] => o = p
  /\ CrossAdmin \in BOOLEAN /\ Dates \in BOOLEAN /\ CancelsAllowed \in BOOLEAN
  /\ MaxFaults \in Nat

VARIABLES
  order,       \* status, remaining quantity, contract id and create time
  allocation,  \* per order, what its trader authored for it
  bound,       \* per order, the allocations it is bound to and can still use
  free,        \* unlocked holdings
  expired,     \* orders whose deadline has passed
  now,         \* ledger time, advanced by every order that is created
  trades,      \* SettledTrade contracts, and whether the answer arrived
  run,         \* per run: the crosses still to settle and what it knows
  sent,        \* the submission store: the contracts a cross first named
  faults,
  entered,     \* history: when each order was funded
  disturbed    \* history: runs that somebody else's step overlapped

ledger == <<order, allocation, bound, free, expired, now, trades, entered>>
vars   == <<ledger, run, sent, faults, disturbed>>
-----------------------------------------------------------------------------
(***************************************************************************)
(* Orders.  The contract id of an order is a number that every archive and *)
(* create advances.  Allocations are named by kind and by the order they   *)
(* were authored for, of which one of a kind lives at a time; any order    *)
(* whose terms give the same view may be bound to one.                     *)
(***************************************************************************)
Bid(o) == Terms[o].side = "Bid"
Limit(o) == Terms[o].limit

(* An order is good till cancelled, or until a deadline. *)
GoodTillCancelled(o) == Terms[o].expiry = 0

(* orderLockTerms: what an order locks, and of which instrument. *)
LockInstrument(o) == IF Bid(o) THEN "quote" ELSE "base"
LockAmount(o) == IF Bid(o) THEN Mul(Terms[o].quantity, Limit(o))
                           ELSE Terms[o].quantity

(* One allocation per registry: the lock, and a receipt under the other.   *)
Kinds == IF CrossAdmin THEN {"lock", "receipt"} ELSE {"lock"}

Funded(o) == order[o].status \in {"Funded", "PartiallyFilled"}
Backed(o) == DOMAIN bound[o] = Kinds

(* The view of an allocation says what it locks; the holding behind it may *)
(* have been spent since. *)
NoAllocation == [live |-> {}, funding |-> 0, locked |-> 0]

(* What an order is bound to, and what it can spend. *)
Uses(o) == {<<k, bound[o][k]>> : k \in DOMAIN bound[o]}
Budget(o) == allocation[bound[o]["lock"]].locked

(* Orders lose the allocations gone. *)
Unbound(gone) ==
  [p \in Orders |-> Restrict(bound[p], {k \in DOMAIN bound[p] : <<k, bound[p][k]>> \notin gone})]

(* The allocations gone end. *)
Archive(gone) ==
  /\ allocation' = [a \in Orders |->
       [live    |-> {k \in allocation[a].live : <<k, a>> \notin gone},
        funding |-> IF <<"lock", a>> \in gone THEN 0 ELSE allocation[a].funding,
        locked  |-> IF <<"lock", a>> \in gone THEN 0 ELSE allocation[a].locked]]
  /\ bound' = Unbound(gone)

(* A lock that ends gives what it holds back to its author. *)
Released(a) ==
  [free EXCEPT ![Terms[a].trader][LockInstrument(a)] = @ + allocation[a].locked]

Init ==
  /\ order = [o \in Orders |-> [status |-> "none", cid |-> 0, since |-> 0,
                                remaining |-> Terms[o].quantity]]
  /\ allocation = [o \in Orders |-> NoAllocation]
  /\ bound = [o \in Orders |-> [k \in {} |-> o]]
  /\ free = InitialFree
  /\ expired = {}
  /\ now = 1
  /\ trades = {}
  /\ run = [r \in Runs |-> [plan |-> << >>, live |-> [o \in Orders |-> 0],
                            closed |-> {}]]
  /\ sent = {}
  /\ faults = 0
  /\ entered = [o \in Orders |-> 0]
  /\ disturbed = {}

SetStatus(o, s) == order' = [order EXCEPT ![o].status = s]

(* A run is under way while it has crosses to settle; a step of somebody   *)
(* else may then contradict what its snapshot says.                        *)
Running == {r \in Runs : run[r].plan # << >>}
Disturbs == disturbed' = disturbed \cup Running

(* The trader signs an intent. *)
Place(o) ==
  /\ order[o].status = "none"
  /\ SetStatus(o, "intent")
  /\ UNCHANGED <<allocation, bound, free, expired, now, trades, run, sent, faults,
                 entered, disturbed>>

(* The trader cancels the intent, or the operator rejects it. *)
CloseIntent(o) ==
  /\ order[o].status = "intent"
  /\ SetStatus(o, "closed")
  /\ UNCHANGED <<allocation, bound, free, expired, now, trades, run, sent, faults,
                 entered, disturbed>>

(* OrderFundingRequest_Bind: the request for funds must be well formed. *)
Bind(o) ==
  /\ order[o].status = "intent"
  /\ LockAmount(o) > 0
  /\ o \notin expired
  /\ SetStatus(o, "Pending")
  /\ UNCHANGED <<allocation, bound, free, expired, now, trades, run, sent, faults,
                 entered, disturbed>>

(***************************************************************************)
(* The trader authors an allocation for a pending order.  The factory asks *)
(* that the holdings it is given are the trader's and suffice, and not     *)
(* that they are unlocked: those behind other allocations may be spent,    *)
(* which leaves the allocations with nothing.                              *)
(***************************************************************************)
Reusable(o) ==
  {a \in Orders \ {o} : /\ Terms[a].trader = Terms[o].trader
                        /\ LockInstrument(a) = LockInstrument(o)
                        /\ allocation[a].locked > 0}

Retaken(taken) == Sum([a \in taken |-> allocation[a].locked])

(* Holdings that are not needed any more are left as they are. *)
Retakes(o) ==
  {taken \in SUBSET Reusable(o) :
     taken # {} => \E last \in taken : Retaken(taken \ {last}) < LockAmount(o)}

AuthorLock(o) ==
  LET t == Terms[o].trader
      i == LockInstrument(o)
  IN  /\ order[o].status = "Pending"
      /\ allocation[o].locked = 0
      /\ \E taken \in Retakes(o) :
           /\ LockAmount(o) <= free[t][i] + Retaken(taken)
           /\ free' = [free EXCEPT ![t][i] = @ + Retaken(taken) - LockAmount(o)]
           /\ allocation' = [a \in Orders |->
                IF a = o THEN [live    |-> allocation[o].live \cup {"lock"},
                               funding |-> LockAmount(o), locked |-> LockAmount(o)]
                ELSE IF a \in taken THEN [allocation[a] EXCEPT !.locked = 0]
                ELSE allocation[a]]
           /\ bound' = Unbound({"lock"} \X taken)
      /\ IF bound' = bound THEN UNCHANGED disturbed ELSE Disturbs
      /\ UNCHANGED <<order, expired, now, trades, run, sent, faults, entered>>

AuthorReceipt(o) ==
  /\ order[o].status = "Pending"
  /\ "receipt" \in Kinds \ allocation[o].live
  /\ allocation' = [allocation EXCEPT ![o].live = @ \cup {"receipt"}]
  /\ UNCHANGED <<order, bound, free, expired, now, trades, run, sent, faults,
                 entered, disturbed>>

(***************************************************************************)
(* Order_Fund binds exactly one allocation per registry, whose view is the *)
(* one that the terms of the order give.  It consumes none of them.        *)
(***************************************************************************)
Fits(o, k, a) ==
  /\ k \in allocation[a].live
  /\ Terms[a].trader = Terms[o].trader
  /\ Bid(a) = Bid(o)
  /\ Terms[a].expiry = Terms[o].expiry
  /\ k = "lock" => allocation[a].funding = LockAmount(o)

Spent(k, a) == k = "lock" /\ allocation[a].locked = 0

Fund(o) ==
  /\ order[o].status = "Pending"
  /\ \E chosen \in [Kinds -> Orders] :
       /\ \A k \in Kinds : Fits(o, k, chosen[k])
       /\ bound' = [bound EXCEPT
            ![o] = Restrict(chosen, {k \in Kinds : ~ Spent(k, chosen[k])})]
  /\ order' = [order EXCEPT
       ![o] = [status |-> "Funded", remaining |-> order[o].remaining,
               cid |-> order[o].cid + 1, since |-> now]]
  /\ now' = now + 1
  /\ entered' = [entered EXCEPT ![o] = now]
  /\ UNCHANGED <<allocation, free, expired, trades, run, sent, faults, disturbed>>

(***************************************************************************)
(* Order_Cancel cancels every allocation the order is bound to, or fails.  *)
(* A pending order is bound to none, whatever its trader has authored.     *)
(***************************************************************************)
Cancel(o) ==
  /\ \/ /\ order[o].status = "Pending"
        /\ UNCHANGED <<allocation, bound, free>>
     \/ /\ Funded(o) /\ Backed(o)
        /\ free' = Released(bound[o]["lock"])
        /\ Archive(Uses(o))
  /\ SetStatus(o, "closed")
  /\ Disturbs
  /\ UNCHANGED <<expired, now, trades, run, sent, faults, entered>>

(***************************************************************************)
(* Allocation_Withdraw by the author: at any time when the order is good   *)
(* till cancelled, and after the deadline otherwise.  Allocation_Cancel by *)
(* the operator has the same effect.  Both need the holding that was       *)
(* locked; the order contract does not change.                             *)
(***************************************************************************)
Withdraw(a, k) ==
  /\ k \in allocation[a].live
  /\ ~ Spent(k, a)
  /\ GoodTillCancelled(a) \/ a \in expired \/ CancelsAllowed
  /\ free' = IF k = "lock" THEN Released(a) ELSE free
  /\ Archive({<<k, a>>})
  /\ Disturbs
  /\ UNCHANGED <<order, expired, now, trades, run, sent, faults, entered>>

DeadlinePasses(o) ==
  /\ ~ GoodTillCancelled(o)
  /\ o \notin expired
  /\ order[o].status # "none"
  /\ expired' = expired \cup {p \in Orders : Terms[p].expiry = Terms[o].expiry}
  /\ Disturbs
  /\ UNCHANGED <<order, allocation, bound, free, now, trades, run, sent, faults,
                 entered>>
-----------------------------------------------------------------------------
(***************************************************************************)
(* OrderMatchExecution_Execute: what prepareOrderMatch asserts of a cross  *)
(* m that names the contracts cb and cs, and what the registries require.  *)
(***************************************************************************)
QuoteAmount(m) == Mul(m.quantity, m.price)

BuggyAccepted(m, cb, cs) ==
  /\ Funded(m.buy) /\ Bid(m.buy) /\ Funded(m.sell) /\ ~ Bid(m.sell)
  /\ m.quantity \in 1 .. order[m.buy].remaining
  /\ m.quantity <= order[m.sell].remaining
  /\ m.price \in Limit(m.sell) .. Limit(m.buy)
  /\ Backed(m.buy) /\ Backed(m.sell)

Accepted(m, cb, cs) ==
  /\ {m.buy, m.sell} \subseteq Orders
  /\ Funded(m.buy) /\ Bid(m.buy) /\ order[m.buy].cid = cb
  /\ Funded(m.sell) /\ ~ Bid(m.sell) /\ order[m.sell].cid = cs
  /\ Terms[m.buy].trader # Terms[m.sell].trader
  /\ m.quantity \in 1 .. order[m.buy].remaining
  /\ m.quantity <= order[m.sell].remaining
  /\ m.price \in Limit(m.sell) .. Limit(m.buy)
  /\ Backed(m.buy) /\ Backed(m.sell)
  /\ {m.buy, m.sell} \cap expired = {}

BuggyCovered(m) ==
  QuoteAmount(m) > 0 /\ m.quantity <= Budget(m.sell)

(* A leg has a positive amount, and both legs are covered by what is locked. *)
Covered(m) ==
  /\ QuoteAmount(m) \in 1 .. Budget(m.buy)
  /\ m.quantity <= Budget(m.sell)

Settleable(m, cb, cs) == Accepted(m, cb, cs) /\ Covered(m)

Residual(o, spent) == Budget(o) - spent

(* An order stays open while quantity and budget remain. *)
StaysOpen(o, filled, spent) ==
  filled < order[o].remaining /\ Residual(o, spent) > 0

BuggyRolledOrder(o, filled, spent) ==
  [status |-> IF StaysOpen(o, filled, spent) THEN "PartiallyFilled" ELSE "closed",
   remaining |-> order[o].remaining, cid |-> order[o].cid + 1, since |-> now]

RolledOrder(o, filled, spent) ==
  IF StaysOpen(o, filled, spent)
  THEN [status |-> "PartiallyFilled", remaining |-> order[o].remaining - filled,
        cid |-> order[o].cid + 1, since |-> now]
  ELSE [status |-> "closed", remaining |-> order[o].remaining - filled,
        cid |-> order[o].cid, since |-> order[o].since]

(* An allocation a after a fill of order o: it rolls on with what is left, *)
(* or ends with the order; what o is not bound to stays.                   *)
RolledAllocation(o, filled, spent, a) ==
  LET mine == {k \in DOMAIN bound[o] : bound[o][k] = a}
      left == IF StaysOpen(o, filled, spent) THEN Residual(o, spent) ELSE 0
  IN  [live    |-> IF StaysOpen(o, filled, spent) THEN allocation[a].live
                   ELSE allocation[a].live \ mine,
       funding |-> IF "lock" \in mine THEN left ELSE allocation[a].funding,
       locked  |-> IF "lock" \in mine THEN left ELSE allocation[a].locked]

BuggyChange(o, filled, spent) == 0

(* What a settled allocation returns unlocked: nothing while it rolls on. *)
Change(o, filled, spent) ==
  IF StaysOpen(o, filled, spent) THEN 0 ELSE Residual(o, spent)

NextCid(o, filled, spent) ==
  IF StaysOpen(o, filled, spent) THEN order[o].cid + 1 ELSE 0

(* The transaction: both registries settle, both orders roll, and the      *)
(* trade is recorded.                                                      *)
Trade(m, answered) ==
  [match |-> m, buyCid |-> order[m.buy].cid, sellCid |-> order[m.sell].cid,
   buyNext |-> NextCid(m.buy, m.quantity, QuoteAmount(m)),
   sellNext |-> NextCid(m.sell, m.quantity, m.quantity),
   answered |-> answered]

Settle(m, answered) ==
  LET quote  == QuoteAmount(m)
      buyer  == Terms[m.buy].trader
      seller == Terms[m.sell].trader
      open   == {o \in {m.buy, m.sell} :
                  StaysOpen(o, m.quantity, IF o = m.buy THEN quote ELSE m.quantity)}
  IN  /\ order' = [order EXCEPT
           ![m.buy]  = RolledOrder(m.buy, m.quantity, quote),
           ![m.sell] = RolledOrder(m.sell, m.quantity, m.quantity)]
      /\ allocation' = [a \in Orders |->
           IF Terms[a].trader = buyer
           THEN RolledAllocation(m.buy, m.quantity, quote, a)
           ELSE RolledAllocation(m.sell, m.quantity, m.quantity, a)]
      /\ bound' = [o \in Orders |->
           IF o \in open THEN bound[o] ELSE Unbound(Uses(m.buy) \cup Uses(m.sell))[o]]
      /\ free' = [free EXCEPT
           ![buyer] = [base |-> @["base"] + m.quantity,
                       quote |-> @["quote"] + Change(m.buy, m.quantity, quote)],
           ![seller] = [base |-> @["base"] + Change(m.sell, m.quantity, m.quantity),
                        quote |-> @["quote"] + quote]]
      /\ trades' = trades \cup {Trade(m, answered)}
      /\ now' = now + 1
      /\ UNCHANGED <<expired, entered>>
-----------------------------------------------------------------------------
(***************************************************************************)
(* Matching runs.                                                          *)
(***************************************************************************)
(* isOpenAt and the filter of matchOrdersForPair, on what listOpen reads. *)
Eligible == {o \in Orders :
              Funded(o) /\ o \notin expired /\ order[o].remaining > 0}

Snapshot ==
  {[id |-> o, cid |-> order[o].cid, trader |-> Terms[o].trader,
    side |-> Terms[o].side, limit |-> Limit(o),
    remaining |-> order[o].remaining,
    since |-> IF Dates THEN order[o].since ELSE Unknown] : o \in Eligible}

Proposals == matchOrdersForPair(Snapshot)

StartRun(r) ==
  /\ run[r].plan = << >>
  /\ Proposals # << >>
  /\ run' = [run EXCEPT ![r] = [plan |-> Proposals, closed |-> {},
                                live |-> [o \in Orders |-> order[o].cid]]]
  /\ disturbed' = disturbed \ {r}
  /\ UNCHANGED <<ledger, sent, faults>>

(* The run goes on without what the last submission would have told it. *)
MoveOn(r) == run' = [run EXCEPT ![r].plan = Tail(@)]

BuggyFollow(r, m, buyNext, sellNext) ==
  run' = [run EXCEPT
    ![r].plan = Tail(@),
    ![r].closed = @ \cup {o \in {m.buy, m.sell} :
                           (IF o = m.buy THEN buyNext ELSE sellNext) = 0}]

(* advance: follow each order to its remainder, or note that it is closed. *)
Follow(r, m, buyNext, sellNext) ==
  run' = [run EXCEPT
    ![r].plan = Tail(@),
    ![r].live = [@ EXCEPT ![m.buy] = buyNext, ![m.sell] = sellNext],
    ![r].closed = @ \cup {o \in {m.buy, m.sell} :
                           (IF o = m.buy THEN buyNext ELSE sellNext) = 0}]

Current(r) == Head(run[r].plan)
Closed(r)  == {Current(r).buy, Current(r).sell} \cap run[r].closed # {}
Names(r, c) == c.buyCid = run[r].live[Current(r).buy]
                 /\ c.sellCid = run[r].live[Current(r).sell]
Acceptable(r) == Accepted(Current(r), run[r].live[Current(r).buy],
                          run[r].live[Current(r).sell])

(***************************************************************************)
(* A cross is submitted under a command id made of what was matched.  The  *)
(* store answers a command that was answered before, and refuses one whose *)
(* arguments differ from the first it saw, even when that one failed.      *)
(***************************************************************************)
Submits(r)  == run[r].plan # << >> /\ ~ Closed(r)
Answered(r) == {t \in trades : t.match = Current(r) /\ t.answered}
Differs(r)  == \E c \in sent : c.match = Current(r) /\ ~ Names(r, c)
InFlight(r) == \E q \in Running \ {r} : Current(q) = Current(r)

Forwards(r) ==
  /\ Submits(r)
  /\ ~ Differs(r)
  /\ sent' = sent \cup {[match |-> Current(r),
                         buyCid |-> run[r].live[Current(r).buy],
                         sellCid |-> run[r].live[Current(r).sell]]}

Skip(r) ==
  /\ run[r].plan # << >>
  /\ Closed(r)
  /\ MoveOn(r)
  /\ UNCHANGED <<ledger, sent, faults, disturbed>>

Execute(r) ==
  /\ Forwards(r) /\ Answered(r) = {}
  /\ Acceptable(r) /\ Covered(Current(r))
  /\ Settle(Current(r), TRUE)
  /\ LET t == Trade(Current(r), TRUE)
     IN  Follow(r, Current(r), t.buyNext, t.sellNext)
  /\ disturbed' = disturbed \cup (Running \ {r})
  /\ UNCHANGED faults

(* The store answers what the same submission answered before. *)
Replay(r) ==
  /\ Submits(r) /\ ~ Differs(r)
  /\ \E t \in Answered(r) : Follow(r, Current(r), t.buyNext, t.sellNext)
  /\ UNCHANGED <<ledger, sent, faults, disturbed>>

(* The ledger refuses, or the store does: other arguments, or in flight. *)
Refused(r) ==
  /\ \/ /\ Forwards(r) /\ Answered(r) = {}
        /\ ~ (Acceptable(r) /\ Covered(Current(r)))
     \/ Submits(r) /\ (Differs(r) \/ InFlight(r)) /\ UNCHANGED sent
  /\ MoveOn(r)
  /\ UNCHANGED <<ledger, faults, disturbed>>

(* The request is lost, a registry does not answer, a retry gives up. *)
Unreachable(r) ==
  /\ Forwards(r)
  /\ faults < MaxFaults
  /\ faults' = faults + 1
  /\ MoveOn(r)
  /\ UNCHANGED <<ledger, disturbed>>

(* The cross settles and the answer is lost: the run notes a failure. *)
LoseAnswer(r) ==
  /\ Forwards(r) /\ Answered(r) = {}
  /\ Acceptable(r) /\ Covered(Current(r))
  /\ faults < MaxFaults
  /\ faults' = faults + 1
  /\ Settle(Current(r), FALSE)
  /\ MoveOn(r)
  /\ Disturbs

RunStep(r) == Skip(r) \/ Execute(r) \/ Replay(r) \/ Refused(r)

Next ==
  \/ \E o \in Orders : \/ Place(o) \/ CloseIntent(o) \/ Bind(o) \/ Fund(o)
                       \/ Cancel(o) \/ DeadlinePasses(o)
                       \/ AuthorLock(o) \/ AuthorReceipt(o)
                       \/ \E k \in Kinds : Withdraw(o, k)
  \/ \E r \in Runs : \/ StartRun(r) \/ RunStep(r)
                     \/ Unreachable(r) \/ LoseAnswer(r)

Spec == Init /\ [][Next]_vars
-----------------------------------------------------------------------------
(***************************************************************************)
(* Properties.                                                             *)
(***************************************************************************)
Statuses == {"none", "intent", "Pending", "Funded", "PartiallyFilled", "closed"}

(* Every part of the ledger stays in its type. *)
TypeOK ==
  /\ order \in [Orders -> [status : Statuses, cid : Nat, since : Nat,
                           remaining : Nat]]
  /\ allocation \in [Orders -> [live : SUBSET Kinds, funding : Nat, locked : Nat]]
  /\ bound \in [Orders -> UNION {[K -> Orders] : K \in SUBSET Kinds}]
  /\ free \in [Traders -> [Instruments -> Nat]]
  /\ expired \in SUBSET Orders
  /\ now \in Nat

(* What an open order can still spend is what it may have to deliver: an   *)
(* ask all of its remaining quantity; a bid its remaining quantity at its  *)
(* limit, up to half an ulp for the lock and half an ulp for each fill     *)
(* (the contract id counts them).  Rounded payments may leave a bid short  *)
(* by that much, never by more.  An order whose lock was withdrawn, spent  *)
(* on another order or consumed by a twin that was bound to the same       *)
(* allocation can spend nothing; none is left with a part of its lock.     *)
FundingCovers ==
  \A o \in Orders : Funded(o) /\ "lock" \in DOMAIN bound[o] =>
    IF Bid(o)
    THEN 2 * Scale * Budget(o) + Scale * order[o].cid
           >= 2 * order[o].remaining * Limit(o)
    ELSE Budget(o) = order[o].remaining

(* The SettledTrade records explain every holding: what a trader has, free *)
(* and locked, is what it began with, plus what trades say it received,    *)
(* less what they say it paid.  The fill, both roll-forwards, refunds and  *)
(* the record agree, whatever was withdrawn, cancelled or lost on the way. *)
Received(t, i) ==
  LET of == {x \in trades :
               Terms[IF i = "base" THEN x.match.buy ELSE x.match.sell].trader = t}
  IN  Sum([x \in of |-> IF i = "base" THEN x.match.quantity
                                     ELSE QuoteAmount(x.match)])
Paid(t, i) ==
  LET of == {x \in trades :
               Terms[IF i = "base" THEN x.match.sell ELSE x.match.buy].trader = t}
  IN  Sum([x \in of |-> IF i = "base" THEN x.match.quantity
                                     ELSE QuoteAmount(x.match)])
LockedOf(t, i) ==
  Sum([o \in {p \in Orders : Terms[p].trader = t /\ LockInstrument(p) = i} |->
        allocation[o].locked])

TradesExplainHoldings ==
  \A t \in Traders, i \in Instruments :
    free[t][i] + LockedOf(t, i) + Paid(t, i)
      = InitialFree[t][i] + Received(t, i)

(* A cross that was found in one snapshot settles at most once, although   *)
(* runs overlap and a run that lost the answer reports a failure.          *)
SettledOnce == \A t, u \in trades : t.match = u.match => t = u

(* As long as nobody else touches the ledger, a run names live contracts:  *)
(* each cross it submits is one that the orders themselves admit, after    *)
(* any number of its own fills and refusals.  What is refused then is a    *)
(* matter of rounding, or of an order it has not filled yet whose funds    *)
(* were gone before, or went with its fill of a twin.                      *)
GoneUnfilled(r) ==
  LET m == Current(r)
  IN  \/ ~ Backed(m.buy) /\ order[m.buy].cid = m.buyCid
      \/ ~ Backed(m.sell) /\ order[m.sell].cid = m.sellCid

RunFollowsBook ==
  \A r \in Running \ disturbed : Closed(r) \/ Acceptable(r) \/ GoneUnfilled(r)

(* What the next run would do, by order. *)
Planned ==
  LET plan == Proposals
      of(o) == {k \in 1 .. Len(plan) : o \in {plan[k].buy, plan[k].sell}}
  IN  [o \in Orders |-> Sum([n \in of(o) |-> plan[n].quantity])]

Crossing(b, a) ==
  /\ b \in Eligible /\ a \in Eligible
  /\ Bid(b) /\ ~ Bid(a) /\ Limit(b) >= Limit(a)
SelfCrossed(a) ==
  \E b \in Orders : Crossing(b, a) /\ Terms[b].trader = Terms[a].trader

(* Price-time priority: an order is only proposed for a fill once every    *)
(* eligible order of its side with a better price, or with the same price  *)
(* and an older contract, is exhausted; an ask may also have been passed   *)
(* over because it crosses a bid of its own trader.                        *)
AheadOf(o, p) ==
  /\ Bid(o) = Bid(p)
  /\ \/ IF Bid(o) THEN Limit(o) > Limit(p) ELSE Limit(o) < Limit(p)
     \/ Limit(o) = Limit(p) /\ Dates /\ order[o].since < order[p].since

PriorityKept ==
  LET planned == Planned
  IN  \A o, p \in Eligible :
        AheadOf(o, p) /\ planned[p] > 0 =>
          planned[o] = order[o].remaining \/ (~ Bid(o) /\ SelfCrossed(o))

(* A run proposes every cross there is between different traders, but for  *)
(* asks that cross a bid of their own trader; nothing is over-filled.      *)
NothingElseMissed ==
  LET planned == Planned
      full(o) == planned[o] = order[o].remaining
  IN  \A b, a \in Eligible :
        /\ planned[b] <= order[b].remaining
        /\ planned[a] <= order[a].remaining
        /\ Crossing(b, a) /\ Terms[b].trader # Terms[a].trader
             => full(b) \/ full(a) \/ SelfCrossed(a)

(* A run proposes all it should and in the order it should: both.          *)
FillsInOrder == PriorityKept /\ NothingElseMissed

(* "A legitimate cross with a different maker is picked up here or on a    *)
(* later run": when a run would propose nothing, and so would every later  *)
(* run on this book, no two orders of different traders cross.             *)
CrossesPickedUp ==
  Running = {} /\ Proposals = << >> =>
    ~ \E b, a \in Orders : Crossing(b, a) /\ Terms[b].trader # Terms[a].trader

(* "Fills older orders first at equal price": of two orders of one side    *)
(* and limit, the one that was funded first is exhausted first by the run  *)
(* that comes next.                                                        *)
OlderFirst ==
  LET planned == Planned
  IN  Running = {} => \A o, p \in Eligible :
        Bid(o) = Bid(p) /\ Limit(o) = Limit(p) /\ entered[o] < entered[p] =>
          planned[p] = 0 \/ planned[o] = order[o].remaining \/ SelfCrossed(o)
=============================================================================
