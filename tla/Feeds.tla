-------------------------------- MODULE Feeds --------------------------------
(***************************************************************************)
(* What the operator backend serves of the rotations that its indexer has  *)
(* recorded (http/index.ts), and what pages show of it: recent swaps, the  *)
(* day's volume, price and price change, and the price of a pair now.  All *)
(* rows are within the day and within the limit of a request.              *)
(***************************************************************************)
EXTENDS Indexer, Totals

\* A price is a fraction, quote over base, or none.
Price(s) == IF s.base > 0 THEN <<s.quote, s.base>> ELSE <<0, 1>>
priceAfter(m) == Price(states[m.new])

\* The static price of the pair, where there is no pool to derive it from.
Static == <<1, 1>>
PoolPrice == IF states # <<>> /\ Now.base > 0 THEN <<Price(Now)>> ELSE <<>>
quoteOf == IF PoolPrice # <<>> THEN PoolPrice[1] ELSE Static

\* The rows of a kind, by their place in the feed.
RowsOf(kind_) == {i \in DOMAIN feed : feed[i].kind = kind_}
Magnitude(d) == IF d < 0 THEN -d ELSE d

\* A swap is shown as what the trader sent and received: the reserve that grew is the
\* one it sent to.
SentBase(m) == m.base > 0
Shown(m) ==
  LET in  == IF SentBase(m) THEN "base" ELSE "quote"
      out == IF SentBase(m) THEN "quote" ELSE "base"
  IN [sent |-> in, received |-> out, paid |-> Magnitude(m[in]), got |-> Magnitude(m[out])]

\* The newest first: ticks are seconds apart, so rows of a pair are stamped apart.
Newest(n, rows_) == CHOOSE i \in rows_ : Cardinality({j \in rows_ : j >= i}) = n
RecentSwaps ==
  [n \in 1 .. Cardinality(RowsOf("swap")) |-> Shown(feed[Newest(n, RowsOf("swap"))])]

pricePoints == [i \in DOMAIN feed |-> priceAfter(feed[i])]
Volume(rows_) == Sum([i \in rows_ |-> Magnitude(feed[i].base)])
stats24h ==
  [change |-> IF Len(feed) < 2 THEN <<>> ELSE <<pricePoints[1], pricePoints[Len(feed)]>>,
   volume |-> Volume(RowsOf("swap")), count |-> Cardinality(RowsOf("swap"))]

-----------------------------------------------------------------------------
Neighbours(m) == m.new = m.old + 1
Complete == \A i \in DOMAIN feed : Neighbours(feed[i])
Swaps == {v \in 2 .. Len(states) : states[v].by = "swap"}
Noticed == {v \in Swaps : \E i \in DOMAIN feed : feed[i].new = v}

\* A swap that a tick has seen by itself is shown as it was, whichever way it went and
\* even if a side of it rounded to nothing.
SwapsTold == \A i \in DOMAIN feed :
  (Neighbours(feed[i]) /\ feed[i].kind = "swap") =>
    LET shown == Shown(feed[i]) IN
    /\ shown.paid > 0
    /\ states[feed[i].new][shown.sent] = states[feed[i].old][shown.sent] + shown.paid
    /\ states[feed[i].new][shown.received] = states[feed[i].old][shown.received] - shown.got

\* What a rotation moved.
Step(v) == [base  |-> states[v].base - states[v - 1].base,
            quote |-> states[v].quote - states[v - 1].quote]

\* With no rotation missed, the day's figures are those of the swaps there were, the
\* swaps are listed as they were, the newest first, and the last price point is the
\* price of the pool that is known.
FiguresTrue ==
  /\ Complete =>
       /\ stats24h.count = Cardinality(Noticed)
       /\ stats24h.volume = Sum([v \in Noticed |-> Magnitude(Step(v).base)])
       /\ Len(RecentSwaps) = Cardinality(Noticed)
       /\ \A v \in Noticed :
            RecentSwaps[Cardinality({w \in Noticed : w >= v})] = Shown(Step(v))
  /\ \A v \in Known : feed # <<>> => pricePoints[Len(feed)] = Price(states[v])
  /\ (Known = {Len(states)} /\ PoolPrice # <<>> /\ feed # <<>>) =>
       quoteOf = pricePoints[Len(feed)]

\* What clients read of swaps and RFQs is so: the feed adds up, the history never says
\* more than the ledger, and swaps and the figures drawn from them are shown as they were;
\* each until its task writes for a tick that has lost its flag.
FeedTrue ==
  /\ "pools" \notin belated => FeedReconciles /\ SwapsTold /\ FiguresTrue
  /\ "rfqs" \notin belated => HistoryTrue
=============================================================================
