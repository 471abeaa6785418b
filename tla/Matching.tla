------------------------------ MODULE Matching ------------------------------
(***************************************************************************)
(* The off-ledger matcher of order/matching.ts: greedy price-time matching *)
(* over a snapshot of the book.  It proposes crosses and settles nothing.  *)
(*                                                                         *)
(* An order of a snapshot is a record with the fields id, cid, trader,     *)
(* side, limit, remaining and since, the time its contract was created.    *)
(***************************************************************************)
EXTENDS PoolMath, Sequences, FiniteSets

CONSTANT CidRank       \* how contract ids compare as texts, by order

Unknown == -1          \* since, when the driver reports no create time

(***************************************************************************)
(* Time priority.  Orders of unknown age queue behind the others, and the  *)
(* contract id breaks exact ties only.                                     *)
(***************************************************************************)
Dated(o, p) == o.since # Unknown /\ p.since # Unknown /\ o.since # p.since

byRestingTime(o, p) ==
  IF Dated(o, p) THEN o.since < p.since
  ELSE IF (o.since = Unknown) # (p.since = Unknown) THEN p.since = Unknown
  ELSE CidRank[o.id] < CidRank[p.id]

BidBefore(o, p) ==
  o.limit > p.limit \/ (o.limit = p.limit /\ byRestingTime(o, p))

AskBefore(o, p) ==
  o.limit < p.limit \/ (o.limit = p.limit /\ byRestingTime(o, p))

First(S, Before(_, _)) == CHOOSE o \in S : \A p \in S \ {o} : Before(o, p)

(***************************************************************************)
(* The aggressor crosses at the limit of the order that rests longer; when *)
(* neither does, the trade clears at the midpoint.                         *)
(***************************************************************************)
clearingPrice(buy, sell) ==
  IF Dated(buy, sell)
  THEN IF buy.since < sell.since THEN buy.limit ELSE sell.limit
  ELSE Div(buy.limit + sell.limit, 2 * Scale)

BuggyExhausted(left, qty) == TRUE

(* A fill that takes all that is left of an order moves its cursor on. *)
Exhausted(left, qty) == left - qty <= 0

(***************************************************************************)
(* One turn of the loop.  The two cursors of the code are the sets of bids *)
(* and asks they have not passed; left is what remains of each order.      *)
(***************************************************************************)
Turn(s) ==
  IF s.done \/ s.bids = {} \/ s.asks = {} THEN s ELSE
  LET buy  == First(s.bids, BidBefore)
      sell == First(s.asks, AskBefore)
      qty  == IF s.left[buy.id] < s.left[sell.id]
              THEN s.left[buy.id] ELSE s.left[sell.id]
      cross == [buy |-> buy.id, buyCid |-> buy.cid,
                sell |-> sell.id, sellCid |-> sell.cid,
                price |-> clearingPrice(buy, sell), quantity |-> qty]
  IN  IF buy.limit < sell.limit THEN [s EXCEPT !.done = TRUE]
      ELSE IF buy.trader = sell.trader THEN [s EXCEPT !.asks = s.asks \ {sell}]
      ELSE [s EXCEPT
             !.plan = Append(s.plan, cross),
             !.left = [s.left EXCEPT ![buy.id] = @ - qty, ![sell.id] = @ - qty],
             !.bids = s.bids \ {o \in {buy} : Exhausted(s.left[o.id], qty)},
             !.asks = s.asks \ {o \in {sell} : Exhausted(s.left[o.id], qty)}]

(* Before the loop: both cursors are at the start. *)
Opening(eligible) ==
  [bids |-> {o \in eligible : o.side = "Bid"},
   asks |-> {o \in eligible : o.side = "Ask"},
   left |-> [i \in {o.id : o \in eligible} |->
              (CHOOSE o \in eligible : o.id = i).remaining],
   plan |-> << >>, done |-> FALSE]

(***************************************************************************)
(* The crosses proposed for the eligible orders of one pair.  Every turn   *)
(* but the last passes a bid or an ask.  The state before a turn is bound  *)
(* by a singleton so that TLC evaluates it once.                           *)
(***************************************************************************)
matchOrdersForPair(eligible) ==
  LET after[n \in 0 .. Cardinality(eligible)] ==
        IF n = 0 THEN Opening(eligible)
        ELSE CHOOSE t \in {Turn(s) : s \in {after[n - 1]}} : TRUE
  IN  after[Cardinality(eligible)].plan
=============================================================================
