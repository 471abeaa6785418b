------------------------------- MODULE Screens -------------------------------
(***************************************************************************)
(* What a trader is shown of a pool and what comes of acting on it: the    *)
(* swap card with its quote, the panels that add and remove liquidity,     *)
(* the calls they make, and the checks of PoolService and of the ledger.   *)
(*                                                                         *)
(* The page computes with what it fetched last; the request is priced for  *)
(* the pool the backend reads then; the settlement is priced for the pool  *)
(* that is active in the end.  Others trade, deposit, pause and resume in  *)
(* between.  How a settlement's commands are submitted and retried is      *)
(* module PoolDesk; here the one that is priced takes effect or does not.  *)
(***************************************************************************)
EXTENDS Quotes

CONSTANTS
  Markets,      \* the pools as they may be found: reserves and supply
  FeeBps,     \* the pool's fee in basis points
  Dust,       \* lpMintDustTolerance, in ulps
  OffRatioBps, \* the limit of a client that sets one to what a deposit gives back
  SlipPermille, \* the slippage the trader accepts: 1, 5 or 10 in the code
  Display,    \* ulps of the last decimal that an amount is filled in with
  Typed,      \* amounts that are typed in
  Percents,   \* what the removal slider is set to
  MaxMoves    \* bound: states of the pool that others change, or a click meets

ASSUME ScreensAssumption ==
  /\ FeeBps \in 0 .. 9999 /\ SlipPermille \in 0 .. 1000 /\ OffRatioBps \in 0 .. 10000
  /\ Dust \in Nat /\ Display \in Nat \ {0} /\ MaxMoves \in Nat
  /\ Typed \subseteq Nat \ {0} /\ Percents \subseteq 1 .. 100
  /\ Markets \subseteq [reserve : [{"base", "quote"} -> Nat], supply : Nat, held : Nat]
  /\ \A p \in Markets :
       /\ p.held <= p.supply
       /\ \A s \in {"base", "quote"} : p.reserve[s] = 0 <=> p.supply = 0

VARIABLES
  market,  \* the pool: number of its PoolState, status, reserves, supply
  view,    \* the pool as the page has it, or NoMarket
  form,    \* what is typed in, and the quote shown for it
  trip,    \* the submission under way: its step, what was asked and promised
  lpHeld   \* LP tokens of the trader

ScreensVars == <<market, view, form, trip, lpHeld>>

Zero     == [base |-> 0, quote |-> 0, lp |-> 0]
NoMarket == [nth |-> 0, status |-> "Paused", reserve |-> [base |-> 0, quote |-> 0], supply |-> 0]
NoQuoteYet == [out |-> 0, impact |-> 0, nth |-> 0]
Empty    == [what |-> "nothing", side |-> "base", offer |-> Zero, shown |-> NoQuoteYet]
Home     == [step |-> "none", form |-> Empty, min |-> Zero, told |-> Zero, got |-> Zero,
             supply |-> 0, at |-> 0, end |-> 0]

Listed == market.status # "Paused"

ScreensInit ==
  /\ \E p \in Markets :
       /\ market = [nth |-> 1, reserve |-> p.reserve, supply |-> p.supply,
                    status |-> IF p.supply = 0 THEN "Unfunded" ELSE "Active"]
       /\ lpHeld = p.held
  /\ view = NoMarket /\ form = Empty /\ trip = Home

-----------------------------------------------------------------------------
(* Everybody else *)

Becomes(reserve, supply, status) ==
  market' = [nth |-> market.nth + 1, status |-> status, reserve |-> reserve, supply |-> supply]

OthersMove ==
  /\ market.nth <= MaxMoves
  /\ \/ \E s \in {"base", "quote"}, x \in Typed :
          LET out == swapOutput(market, s, FeeBps, x)
          IN /\ market.status = "Active" /\ out > 0
             /\ Becomes([market.reserve EXCEPT ![s] = @ + x, ![Other(s)] = @ - out],
                        market.supply, "Active")
     \/ \E x \in Typed :
          LET offer == [base |-> x, quote |-> x]
              in == kept(market, offer)
          IN /\ Listed /\ fairLp(market, offer) > 0 /\ in.base > 0 /\ in.quote > 0
             /\ Becomes([s \in {"base", "quote"} |-> market.reserve[s] + in[s]],
                        market.supply + fairLp(market, offer), "Active")
     \/ /\ market.status = "Active"
        /\ Becomes(market.reserve, market.supply, "Paused")
     \/ /\ market.status = "Paused"
        /\ Becomes(market.reserve, market.supply, "Active")
  /\ UNCHANGED <<view, form, trip, lpHeld>>

-----------------------------------------------------------------------------
(* The page *)

\* The list of pools is fetched: one that is paused is not on it.
RefreshPools ==
  /\ view' = IF Listed THEN market ELSE NoMarket
  /\ view' # view
  /\ UNCHANGED <<market, form, trip, lpHeld>>

Idles == trip.step \in {"none", "settled", "refused"}

\* Typing an amount, or turning the swap round, is another quote's key.
TypeSwap ==
  /\ Idles /\ view # NoMarket
  /\ \E s \in {"base", "quote"}, x \in Typed :
       form' = [Empty EXCEPT !.what = "swap", !.side = s, !.offer[s] = x]
  /\ UNCHANGED <<market, view, trip, lpHeld>>

\* The quote is computed for the pool of the moment, every five seconds while the
\* card shows it; a quote that cannot be had any more leaves the last one there.
QuoteArrives ==
  /\ form.what = "swap" /\ Listed
  /\ \E s \in {"base", "quote"} : market.reserve[s] > 0
  /\ LET quote == computeQuoteDetailed(market, form.side, FeeBps, form.offer[form.side])
     IN form' = [form EXCEPT !.shown =
          [out |-> quote.outputAmount, impact |-> quote.priceImpact, nth |-> market.nth]]
  /\ UNCHANGED <<market, view, trip, lpHeld>>

\* Numbers are shown and sent with so many decimals, rounded to the nearest.
toFixed(n, d, unit) == {k \in {(n \div (d * unit)) * unit, (n \div (d * unit) + 1) * unit} :
                          LET off == k * d - n IN 2 * off <= d * unit /\ -2 * off <= d * unit}

Slipped(n, d) == toFixed(n * (1000 - SlipPermille), d * 1000, 1)

isFirstDeposit == view.supply <= 0

\* The other side of a deposit is filled in at the ratio the page knows; the first
\* deposit sets the ratio.
TypeAdd ==
  /\ Idles /\ view # NoMarket
  /\ \E s \in {"base", "quote"}, x \in Typed :
       \E y \in IF isFirstDeposit THEN Typed
                ELSE toFixed(x * view.reserve[Other(s)], view.reserve[s], Display) :
         form' = [Empty EXCEPT !.what = "add", !.side = s, !.offer[s] = x, !.offer[Other(s)] = y]
  /\ UNCHANGED <<market, view, trip, lpHeld>>

\* A redemption is a share of what the trader holds, in percent.
lpAmount(pct) == toFixed(lpHeld * pct, 100, 1)
SetRemove ==
  /\ Idles /\ view # NoMarket /\ view.supply > 0 /\ lpHeld > 0
  /\ \E pct \in Percents : \E lp \in lpAmount(pct) :
       form' = [Empty EXCEPT !.what = "remove", !.offer.lp = lp]
  /\ UNCHANGED <<market, view, trip, lpHeld>>

\* What the page lets the trader promise itself: the least output of a swap; the
\* least LP tokens of a deposit, by its base side alone; the least of either side of
\* a redemption.
minReceived == {[Zero EXCEPT ![Other(form.side)] = m] : m \in Slipped(form.shown.out, 1)}
minLpTokens ==
  {[Zero EXCEPT !.lp = m] : m \in
     IF isFirstDeposit THEN Slipped(sqrt(mul(form.offer.base, form.offer.quote)), 1)
     ELSE Slipped(form.offer.base * view.supply, view.reserve.base)}
minOutputs ==
  {[base |-> b, quote |-> q, lp |-> 0] :
     b \in Slipped(form.offer.lp * view.reserve.base, view.supply),
     q \in Slipped(form.offer.lp * view.reserve.quote, view.supply)}

Ready ==
  \/ form.what = "swap" /\ form.shown.out > 0
  \/ form.what = "add" /\ form.offer.base > 0 /\ form.offer.quote > 0
  \/ form.what = "remove" /\ view.supply > 0

Click ==
  /\ Idles /\ Ready /\ view # NoMarket /\ market.nth <= MaxMoves
  /\ \E m \in CASE form.what = "swap" -> minReceived
                [] form.what = "add" -> minLpTokens
                [] OTHER -> minOutputs :
       trip' = [Home EXCEPT !.step = "clicked", !.form = form, !.min = m]
  /\ UNCHANGED <<market, view, form, lpHeld>>

-----------------------------------------------------------------------------
(* The backend and the ledger *)

TurnedDown(at) == trip' = [trip EXCEPT !.step = "refused", !.at = at, !.end = market.nth]
Asked(told) == trip' = [trip EXCEPT !.step = "asked", !.told = told, !.at = market.nth,
                                    !.supply = market.supply]
Settled(got) == trip' = [trip EXCEPT !.step = "settled", !.got = got, !.end = market.nth]

\* requestSwap checks the output it computes, and the ledger the one of its own.
RequestsSwap ==
  /\ trip.step = "clicked" /\ trip.form.what = "swap"
  /\ LET s   == trip.form.side
         in  == trip.form.offer[s]
         min == trip.min[Other(s)]
         out == swapOutput(market, s, FeeBps, in)
     IN IF /\ market.status = "Active"
           /\ computeQuote(market, s, FeeBps, in) > 0
           /\ computeQuote(market, s, FeeBps, in) >= min
           /\ out > 0 /\ out >= min
        THEN Asked([Zero EXCEPT ![Other(s)] = out])
        ELSE TurnedDown(0)
  /\ UNCHANGED <<market, view, form, lpHeld>>

\* A swap settles for the PoolState it was asked for, or not at all.
SettlesSwap ==
  /\ trip.step = "asked" /\ trip.form.what = "swap"
  /\ LET s   == trip.form.side
         in  == trip.form.offer[s]
         out == swapOutput(market, s, FeeBps, in)
     IN IF trip.at = market.nth /\ out >= trip.min[Other(s)] /\ out = trip.told[Other(s)]
        THEN /\ Settled([Zero EXCEPT ![Other(s)] = out])
             /\ Becomes([market.reserve EXCEPT ![s] = @ + in, ![Other(s)] = @ - out],
                        market.supply, "Active")
             /\ form' = Empty
        ELSE TurnedDown(trip.at) /\ UNCHANGED <<market, form>>
  /\ UNCHANGED <<view, lpHeld>>

\* A deposit is matched against the pool of the moment; another client than the page
\* may set a limit to what comes back.  The page's least LP amount is not asked for here.
RequestsAdd ==
  /\ trip.step = "clicked" /\ trip.form.what = "add"
  /\ \E limited \in BOOLEAN :
       LET match == matchLiquidity(market, trip.form.offer)
       IN IF /\ Listed /\ match.lp > 0
             /\ limited => enforceOffRatioTolerance(market, trip.form.offer, OffRatioBps)
          THEN Asked(match) ELSE TurnedDown(0)
  /\ UNCHANGED <<market, view, form, lpHeld>>

SettlesAdd ==
  /\ trip.step = "asked" /\ trip.form.what = "add"
  /\ LET offer == trip.form.offer
         lp == trip.told.lp
         in == kept(market, offer)
     IN IF /\ Listed /\ trip.supply = market.supply
           /\ lp >= trip.min.lp
           /\ lp - fairLp(market, offer) <= Dust /\ fairLp(market, offer) - lp <= Dust
           /\ in.base > 0 /\ in.quote > 0
        THEN /\ Settled([base |-> in.base, quote |-> in.quote, lp |-> lp])
             /\ Becomes([s \in {"base", "quote"} |-> market.reserve[s] + in[s]],
                        market.supply + lp, "Active")
             /\ lpHeld' = lpHeld + lp
             /\ form' = Empty
        ELSE TurnedDown(trip.at) /\ UNCHANGED <<market, form, lpHeld>>
  /\ UNCHANGED view

\* The holder's LP tokens are found first.  A redemption's minimums are not asked for
\* before it settles; what it pays is derived anew, and has to be what the wallet's receipts say.
RequestsRemove ==
  /\ trip.step = "clicked" /\ trip.form.what = "remove"
  /\ IF Listed /\ market.supply > 0 /\ trip.form.offer.lp \in 1 .. lpHeld
     THEN LET plan == removePlan(market, trip.form.offer.lp)
          IN Asked([base |-> plan.base, quote |-> plan.quote, lp |-> 0])
     ELSE TurnedDown(0)
  /\ UNCHANGED <<market, view, form, lpHeld>>

SettlesRemove ==
  /\ trip.step = "asked" /\ trip.form.what = "remove"
  /\ LET lp  == trip.form.offer.lp
         out == redeemed(market, lp)
         left == [s \in {"base", "quote"} |-> market.reserve[s] - out[s]]
     IN IF /\ market.status = "Active" /\ trip.supply = market.supply
           /\ 0 < lp /\ lp <= market.supply
           /\ \A s \in {"base", "quote"} : out[s] >= trip.min[s] /\ out[s] = trip.told[s]
        THEN /\ Settled([base |-> out.base, quote |-> out.quote, lp |-> 0])
             /\ Becomes(left, market.supply - lp,
                        IF market.supply = lp THEN "Unfunded" ELSE "Active")
             /\ lpHeld' = lpHeld - lp
        ELSE TurnedDown(trip.at) /\ UNCHANGED <<market, lpHeld>>
  /\ UNCHANGED <<view, form>>

ScreensNext ==
  \/ OthersMove
  \/ RefreshPools \/ TypeSwap \/ QuoteArrives \/ TypeAdd \/ SetRemove \/ Click
  \/ RequestsSwap \/ SettlesSwap
  \/ RequestsAdd \/ SettlesAdd
  \/ RequestsRemove \/ SettlesRemove

ScreensSpec == ScreensInit /\ [][ScreensNext]_ScreensVars

-----------------------------------------------------------------------------
TripOver == trip.step \in {"settled", "refused"}

\* A swap pays at least what the card promised, and while the pool rests it pays the
\* quote that was shown, and is not refused; the price is never shown better than the
\* pool's own.
SwapAsShown == (TripOver /\ trip.form.what = "swap") =>
  LET o == Other(trip.form.side) IN
  /\ trip.step = "settled" => trip.got[o] >= trip.min[o]
  /\ trip.form.shown.impact >= 0
  /\ trip.form.shown.nth = trip.end => trip.step = "settled" /\ trip.got[o] = trip.form.shown.out

\* A deposit or a redemption gives at least what the page asked for.  While the pool
\* rests between request and settlement it gives what the request said, to the ulp,
\* refunds included, and only the page's own minimum can have it refused.
LiquidityAsTold == (TripOver /\ trip.form.what \in {"add", "remove"}) =>
  /\ trip.step = "settled" => \A i \in DOMAIN Zero : trip.got[i] >= trip.min[i]
  /\ trip.at = trip.end =>
       IF trip.step = "settled" THEN trip.got = trip.told
       ELSE \E i \in DOMAIN Zero : trip.told[i] < trip.min[i]

\* What the trader is told is what the trader gets, of every form.
AsShown == SwapAsShown /\ LiquidityAsTold
=============================================================================
