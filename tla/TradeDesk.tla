----------------------------- MODULE TradeDesk -----------------------------
(***************************************************************************)
(* One RFQ from its quotes to the settlement of its trade: the templates   *)
(* Rfq, RfqQuote, MatchedTrade and TradeAllocationRequest, the RFQ, policy *)
(* and matched-trade services of the operator backend, and the web         *)
(* client's settleMatchedTrade with the wallet that authors allocations.   *)
(*                                                                         *)
(* The trader buys; selling swaps the legs.  Prices and sizes are left     *)
(* out: no choice compares them.                                           *)
(***************************************************************************)
EXTENDS Integers, FiniteSets

CONSTANTS
  Dealer,      \* the whitelisted dealers, as numbers: party text is ordered
  MaxQuotes,   \* bound: quotes posted for the RFQ
  Deadline,    \* expiresAt of the RFQ, and settlementDeadline of its trade
  MaxTime,     \* bound: the last instant
  Milli,       \* instants to the millisecond
  Admins,      \* the registries of the two legs
  MaxFundings  \* bound: times each side has its wallet author allocations

ASSUME TradeDeskAssumption ==
  /\ Dealer \subseteq Nat /\ MaxQuotes \in Nat /\ MaxFundings \in Nat
  /\ Deadline \in Nat /\ MaxTime \in Nat /\ Milli \in Nat \ {0}
  /\ IsFiniteSet(Admins) /\ Admins # {}

Side  == {"trader", "dealer"}
Quote == 1 .. MaxQuotes        \* in the order of the active contract set
Funding == 0 .. MaxFundings    \* 0: this side is left out

\* What the operator names to settle: for each side one of its fundings, and the
\* registries it sends a batch for.
Picks == [of : [Side -> Funding], admins : SUBSET Admins]

VARIABLES
  clock,
  rfqIs,     \* "none", "open", "accepted", "cancelled" or "expired"
  quote,     \* the quotes
  accepting, \* the call to RfqService.accept in flight
  tradeIs,   \* "none", "live", "settled" or "cancelled"
  receipt,   \* of the trade: the ranks stated and signed
  asked,     \* the TradeAllocationRequests: "none", "live" or "gone", by side
  session,   \* settleMatchedTrade in the browser of each side
  alloc,     \* the allocations, by side, registry and funding
  preview,   \* the row of mt-settle-preview: its arguments, and what the answer is for
  settling   \* the call to MatchedTradeService.settle in flight

DeskVars == <<clock, rfqIs, quote, accepting, tradeIs, receipt, asked, session,
              alloc, preview, settling>>
RfqVars  == <<rfqIs, quote, accepting>>
FundVars == <<asked, session, alloc>>

NoQuote  == [status |-> "none", dealer |-> 0, tier |-> 0, posted |-> 0, expires |-> 0]
NoAccept == [considered |-> {}, picked |-> 0, at |-> 0]
NoReceipt == [considered |-> {}, picked |-> 0, rank |-> 0, signed |-> 0]
AtRest   == [phase |-> "idle", multi |-> FALSE, nth |-> 0]
Nothing  == [of |-> [p \in Side |-> 0], admins |-> {}]
NoPreview == [is |-> "none", args |-> Nothing, answer |-> Nothing]
NoSettle == [phase |-> "idle", pick |-> Nothing, context |-> Nothing]

DeskInit ==
  /\ clock = 0
  /\ rfqIs = "none" /\ quote = [q \in Quote |-> NoQuote] /\ accepting = NoAccept
  /\ tradeIs = "none" /\ receipt = NoReceipt
  /\ asked = [p \in Side |-> "none"] /\ session = [p \in Side |-> AtRest]
  /\ alloc = [a \in Side \X Admins \X (Funding \ {0}) |-> "none"]
  /\ preview = NoPreview /\ settling = NoSettle

Pass ==
  /\ clock < MaxTime /\ clock' = clock + 1
  /\ UNCHANGED <<RfqVars, tradeIs, receipt, FundVars, preview, settling>>

-----------------------------------------------------------------------------
(* RFQ and quotes *)

CreateRfq ==
  /\ rfqIs = "none" /\ clock < Deadline
  /\ rfqIs' = "open"
  /\ UNCHANGED <<clock, quote, accepting, tradeIs, receipt, FundVars, preview, settling>>

\* Trader's cancel, or the operator's sweep once the deadline has passed.
CloseRfq ==
  /\ rfqIs = "open"
  /\ \/ rfqIs' = "cancelled"
     \/ clock >= Deadline /\ rfqIs' = "expired"
  /\ UNCHANGED <<clock, quote, accepting, tradeIs, receipt, FundVars, preview, settling>>

\* A dealer signs a quote; nothing keeps it to one.  Tier 0 is trusted.
PostQuote(q) ==
  /\ rfqIs = "open" /\ quote[q] = NoQuote
  /\ \A r \in Quote : r < q => quote[r] # NoQuote
  /\ \E d \in Dealer, t \in {0, 1}, e \in (clock + 1) .. (MaxTime + 1) :
       quote' = [quote EXCEPT ![q] =
         [status |-> "live", dealer |-> d, tier |-> t, posted |-> clock, expires |-> e]]
  /\ UNCHANGED <<clock, rfqIs, accepting, tradeIs, receipt, FundVars, preview, settling>>

WithdrawQuote(q) ==
  /\ quote[q].status = "live"
  /\ quote' = [quote EXCEPT ![q].status = "withdrawn"]
  /\ UNCHANGED <<clock, rfqIs, accepting, tradeIs, receipt, FundVars, preview, settling>>

\* policyCmp: trusted first, then the later expiry, then the earlier posting,
\* then the dealer; the sort is stable.  A unit of time is what the side
\* that compares can tell apart.
Earlier(a, b, unit) ==
  LET x == quote[a]
      y == quote[b]
      at(t) == t \div unit
  IN \/ x.tier < y.tier
     \/ x.tier = y.tier /\ at(x.expires) > at(y.expires)
     \/ x.tier = y.tier /\ at(x.expires) = at(y.expires)
        /\ \/ at(x.posted) < at(y.posted)
           \/ at(x.posted) = at(y.posted)
              /\ (x.dealer < y.dealer \/ (x.dealer = y.dealer /\ a < b))

Place(q, quotes, unit) == 1 + Cardinality({r \in quotes : Earlier(r, q, unit)})

\* The ledger ranks contracts at its own resolution ...
LedgerRank(q, quotes) == Place(q, quotes, 1)

\* The quotes are left in the order they were found.
BuggyReceiptRank(q, quotes) == 1 + Cardinality({r \in quotes : r < q})

\* ... rankQuotes at the millisecond, and buildReceipt then looks the accepted
\* quote up by its dealer: the first that has the name.
ReceiptRank(q, quotes) ==
  LET places == {Place(r, quotes, Milli) : r \in {s \in quotes : quote[s].dealer = quote[q].dealer}}
  IN CHOOSE n \in places : \A m \in places : n <= m

Valid(quotes, at) == {q \in quotes : quote[q].expires \div Milli > at \div Milli}

\* The page posts what it shows and its own clock; the service reads the RFQ and
\* the quotes and keeps those it finds valid.
StartAccept(q, quotes) ==
  /\ accepting = NoAccept /\ rfqIs = "open"
  /\ q \in Valid(quotes, clock) /\ \A r \in quotes : quote[r].status = "live"
  /\ accepting' = [considered |-> Valid(quotes, clock), picked |-> q, at |-> clock]
  /\ UNCHANGED <<clock, rfqIs, quote, tradeIs, receipt, FundVars, preview, settling>>

\* Rfq_Accept at last, with the time and the digest fixed when the call came in.
\* The RFQ and every considered quote are consumed with the trade's creation.
Accept ==
  /\ accepting # NoAccept
  /\ rfqIs = "open" /\ accepting.at < Deadline
  /\ \A q \in accepting.considered :
       quote[q].status = "live" /\ accepting.at < quote[q].expires
  /\ rfqIs' = "accepted" /\ tradeIs' = "live"
  /\ quote' = [q \in Quote |-> IF q \in accepting.considered
                               THEN [quote[q] EXCEPT !.status = "consumed"] ELSE quote[q]]
  /\ receipt' = [considered |-> accepting.considered, picked |-> accepting.picked,
                 rank |-> LedgerRank(accepting.picked, accepting.considered),
                 signed |-> ReceiptRank(accepting.picked, accepting.considered)]
  /\ accepting' = NoAccept
  /\ UNCHANGED <<clock, FundVars, preview, settling>>

\* The ledger refuses, or the call is lost before it gets there.
GiveUpAccept ==
  /\ accepting # NoAccept
  /\ accepting' = NoAccept
  /\ UNCHANGED <<clock, rfqIs, quote, tradeIs, receipt, FundVars, preview, settling>>

-----------------------------------------------------------------------------
(* Requests and allocations *)

\* mt-req creates a request for each side the first time it is called; every
\* later call answers with the same two, and throws unless both are still live.
RequestAllocations(p, multi) ==
  /\ session[p].phase = "idle" /\ session[p].nth < MaxFundings
  /\ \/ /\ \A s \in Side : asked[s] = "none"
        /\ tradeIs = "live"
        /\ asked' = [s \in Side |-> "live"]
     \/ (\A s \in Side : asked[s] = "live") /\ UNCHANGED asked
  /\ session' = [session EXCEPT ![p] =
       [phase |-> "authoring", multi |-> multi, nth |-> session[p].nth + 1]]
  /\ UNCHANGED <<clock, RfqVars, tradeIs, receipt, alloc, preview, settling>>

Unsigned(p) == {a \in Admins : alloc[<<p, a, session[p].nth>>] = "none"}

\* The wallet signs: one allocation for each registry, all in one transaction or
\* one request after the other.
AuthorAllocations(p) ==
  /\ session[p].phase = "authoring"
  /\ \E now \in SUBSET Unsigned(p) :
       /\ now # {}
       /\ IF session[p].multi THEN now = Unsigned(p) ELSE Cardinality(now) = 1
       /\ alloc' = [x \in DOMAIN alloc |->
            IF x[1] = p /\ x[2] \in now /\ x[3] = session[p].nth THEN "locked" ELSE alloc[x]]
       /\ session' = [session EXCEPT ![p].phase =
            IF now = Unsigned(p) THEN "idle" ELSE "authoring"]
  /\ UNCHANGED <<clock, RfqVars, tradeIs, receipt, asked, preview, settling>>

\* The wallet refuses or the browser is closed: what was signed stays locked.
AbandonSession(p) ==
  /\ session[p].phase = "authoring"
  /\ session' = [session EXCEPT ![p].phase = "idle"]
  /\ UNCHANGED <<clock, RfqVars, tradeIs, receipt, asked, alloc, preview, settling>>

\* A party accepts or rejects its request directly; either archives it.
ConsumeRequest(p) ==
  /\ asked[p] = "live"
  /\ asked' = [asked EXCEPT ![p] = "gone"]
  /\ UNCHANGED <<clock, RfqVars, tradeIs, receipt, session, alloc, preview, settling>>

\* Allocations of a trade are not committed: their owner may take them back.
WithdrawLock(x) ==
  /\ alloc[x] = "locked"
  /\ alloc' = [alloc EXCEPT ![x] = "released"]
  /\ UNCHANGED <<clock, RfqVars, tradeIs, receipt, asked, session, preview, settling>>

-----------------------------------------------------------------------------
(* Settlement *)

Named(pick) == {p \in Side : pick.of[p] # 0}

\* MatchedTrade_PreviewSettlement answers while the trade is there and every
\* registry has a batch; it does not look at the allocations.
Previewable(pick) == tradeIs = "live" /\ pick.admins = Admins

\* once() under the preview's command id, which names the trade alone.  A row that is
\* answered or pending refuses other batches; one that has failed is taken over, and so
\* is a pending one whose call is gone, after a minute.
PreviewAdmits(pick) == preview.is \in {"none", "error"} \/ preview.args = pick

\* The row that is taken over keeps its arguments.
BuggyClaimedFor(pick) ==
  [is |-> "pending", args |-> IF preview = NoPreview THEN pick ELSE preview.args,
   answer |-> Nothing]
ClaimedFor(pick) == [is |-> "pending", args |-> pick, answer |-> Nothing]

\* The operator settles with allocations of both sides, or with those of the one
\* whose updateId it was given.  It asks for a preview first, or has one in the store.
StartSettle(pick) ==
  /\ settling = NoSettle
  /\ Named(pick) # {} /\ \A p \in Named(pick) : pick.of[p] <= session[p].nth
  /\ PreviewAdmits(pick)
  /\ IF preview.is = "ok"
     THEN /\ settling' = [phase |-> "submit", pick |-> pick, context |-> preview.answer]
          /\ UNCHANGED preview
     ELSE /\ settling' = [phase |-> "preview", pick |-> pick, context |-> Nothing]
          /\ preview' = ClaimedFor(pick)
  /\ UNCHANGED <<clock, RfqVars, tradeIs, receipt, FundVars>>

\* Registry context follows from the answer.
PreviewAnswers ==
  /\ settling.phase = "preview" /\ Previewable(settling.pick)
  /\ preview' = [preview EXCEPT !.is = "ok", !.answer = settling.pick]
  /\ settling' = [settling EXCEPT !.phase = "submit", !.context = settling.pick]
  /\ UNCHANGED <<clock, RfqVars, tradeIs, receipt, FundVars>>
PreviewFails ==
  /\ settling.phase = "preview"
  /\ preview' = [preview EXCEPT !.is = "error"] /\ settling' = NoSettle
  /\ UNCHANGED <<clock, RfqVars, tradeIs, receipt, FundVars>>

\* What is named is looked at, and who is not named is forgotten.
BuggyBatchCovers(pick, a) ==
  \A p \in Named(pick) : alloc[<<p, a, pick.of[p]>>] = "locked"

\* Each registry wants every side of its legs authorised by exactly the batch.
BatchCovers(pick, a) ==
  Named(pick) = Side /\ \A p \in Side : alloc[<<p, a, pick.of[p]>>] = "locked"

\* MatchedTrade_Settle: one batch for each registry of the trade, or none of it.  The
\* requests the caller names are fetched and archived with it.
Settle(requests) ==
  /\ settling.phase = "submit"
  /\ \A p \in requests : asked[p] = "live"
  /\ tradeIs = "live" /\ clock <= Deadline
  /\ \A a \in Admins : a \in settling.pick.admins /\ BatchCovers(settling.pick, a)
  /\ tradeIs' = "settled"
  /\ alloc' = [x \in DOMAIN alloc |->
       IF x[3] = settling.pick.of[x[1]] THEN "settled" ELSE alloc[x]]
  /\ asked' = [p \in Side |-> IF p \in requests THEN "gone" ELSE asked[p]]
  /\ settling' = NoSettle
  /\ UNCHANGED <<clock, RfqVars, receipt, session, preview>>

\* The ledger or a registry refuses, or the backend dies, at once or behind a preview.
GiveUpSettle ==
  /\ settling # NoSettle /\ settling' = NoSettle
  /\ UNCHANGED <<clock, RfqVars, tradeIs, receipt, FundVars, preview>>

\* MatchedTrade_Cancel: the named requests are archived and the named locks freed.
CancelTrade(requests, locks) ==
  /\ tradeIs = "live"
  /\ \A p \in requests : asked[p] = "live"
  /\ \A x \in locks : alloc[x] = "locked"
  /\ tradeIs' = "cancelled"
  /\ asked' = [p \in Side |-> IF p \in requests THEN "gone" ELSE asked[p]]
  /\ alloc' = [x \in DOMAIN alloc |-> IF x \in locks THEN "released" ELSE alloc[x]]
  /\ UNCHANGED <<clock, RfqVars, receipt, session, preview, settling>>

\* The operator cancels what it knows of: all of it, or none.
CancelKnown ==
  \E all \in BOOLEAN :
    CancelTrade(IF all THEN {p \in Side : asked[p] = "live"} ELSE {},
                IF all THEN {x \in DOMAIN alloc : alloc[x] = "locked"} ELSE {})

-----------------------------------------------------------------------------
Quoting ==
  \/ CreateRfq \/ CloseRfq
  \/ \E q \in Quote : PostQuote(q) \/ WithdrawQuote(q)
  \/ \E quotes \in SUBSET {q \in Quote : quote[q] # NoQuote} :
       \E q \in quotes : StartAccept(q, quotes)
  \/ Accept \/ GiveUpAccept

Settling ==
  \/ \E p \in Side :
       \/ \E multi \in BOOLEAN : RequestAllocations(p, multi)
       \/ AuthorAllocations(p) \/ AbandonSession(p) \/ ConsumeRequest(p)
  \/ \E x \in DOMAIN alloc : WithdrawLock(x)
  \/ \E pick \in Picks : StartSettle(pick)
  \/ PreviewAnswers \/ PreviewFails \/ GiveUpSettle \/ CancelKnown
  \/ \E requests \in SUBSET Side : Settle(requests)

DeskNext == Pass \/ Quoting \/ Settling

DeskSpec == DeskInit /\ [][DeskNext]_DeskVars

-----------------------------------------------------------------------------
\* Money moves for both sides on every registry or for nobody: a settled trade
\* has used exactly one allocation of each side at each registry, however often
\* the sides funded it, took locks back or raced a cancel; any other trade none.
SettledAt(p, a) == {n \in Funding \ {0} : alloc[<<p, a, n>>] = "settled"}
BothLegsOrNone ==
  \A p \in Side, a \in Admins :
    Cardinality(SettledAt(p, a)) = IF tradeIs = "settled" THEN 1 ELSE 0

\* "Built once and threaded into both the preview and the final settle": a
\* settlement never carries registry context obtained for other allocations, though
\* the preview is cached under the trade's name and its row is taken over by calls
\* with other allocations once it has failed.
ContextFits == settling.phase = "submit" => settling.context = settling.pick

\* The receipt the service signs and the one the ledger computes state the same
\* rank, over any set of quotes, as long as the dealer had one quote considered and
\* times that differ do so by the millisecond.
Rivals(q, quotes) == {r \in quotes \ {q} : quote[r].dealer = quote[q].dealer}
ToldApart(quotes) == \A q, r \in quotes : \A field \in {"posted", "expires"} :
  quote[q][field] \div Milli = quote[r][field] \div Milli => quote[q][field] = quote[r][field]
RankingsAgree ==
  (receipt # NoReceipt /\ Rivals(receipt.picked, receipt.considered) = {}
     /\ ToldApart(receipt.considered))
    => receipt.rank = receipt.signed
=============================================================================
