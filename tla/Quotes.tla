------------------------------- MODULE Quotes -------------------------------
(***************************************************************************)
(* The off-ledger arithmetic of pools: pool/decimal.ts on BigInts, and the *)
(* quotes that PoolService computes with it for swaps, deposits and        *)
(* redemptions, next to what PoolRules and PoolLiquidityRules compute for  *)
(* the same request on the ledger.                                         *)
(*                                                                         *)
(* Both sides work on ulps (PoolMath).  A pool is a record of its reserves *)
(* by side and its LP supply.                                              *)
(***************************************************************************)
EXTENDS PoolMath

Other(side) == IF side = "base" THEN "quote" ELSE "base"

-----------------------------------------------------------------------------
(* decimal.ts *)

mul(a, b)      == HalfEven(a * b, Scale)
div(a, b)      == HalfEven(a * Scale, b)
mulFloor(a, b) == (a * b) \div Scale
divFloor(a, b) == (a * Scale) \div b

\* Newton's iteration on integers, from above: it stops where it no longer falls.
isqrt(n) ==
  LET from[x \in Nat \ {0}] == LET y == (x + n \div x) \div 2 IN IF y < x THEN from[y] ELSE x
  IN  IF n < 2 THEN n ELSE from[n]
sqrt(a) == isqrt(a * Scale)

-----------------------------------------------------------------------------
(* PoolService *)

computeQuote(pool, side, feeBps, amount) ==
  LET dx == divFloor(mulFloor(amount, (10000 - feeBps) * One), 10000 * One)
  IN  divFloor(mulFloor(pool.reserve[Other(side)], dx), pool.reserve[side] + dx)

\* The fields beside the output: fee, price paid, price before, and the difference
\* as a fraction of the latter.
computeQuoteDetailed(pool, side, feeBps, amount) ==
  LET out  == computeQuote(pool, side, feeBps, amount)
      paid == IF amount > 0 THEN div(out, amount) ELSE 0
      spot == IF pool.reserve[side] > 0 THEN div(pool.reserve[Other(side)], pool.reserve[side]) ELSE 0
  IN  [outputAmount |-> out,
       feeAmount    |-> div(mul(amount, feeBps * One), 10000 * One),
       priceImpact  |-> IF spot > 0 THEN div(spot - paid, spot) ELSE 0]

bpsOf(refunded, supplied) ==
  IF supplied = 0 THEN 0 ELSE div(mul(refunded, 10000 * One), supplied)

\* What the pool keeps is derived from the LP amount, itself rounded.
BuggyMatchLiquidity(pool, offer) ==
  LET by(s) == div(mul(offer[s], pool.supply), pool.reserve[s])
      lp    == AtMost(by("base"), by("quote"))
      kept(s) == AtMost(div(mul(lp, pool.reserve[s]), pool.supply), offer[s])
  IN  IF pool.supply = 0
        THEN [lp |-> sqrt(mul(offer.base, offer.quote)), base |-> offer.base, quote |-> offer.quote]
        ELSE [lp |-> lp, base |-> kept("base"), quote |-> kept("quote")]

\* A deposit: the LP tokens it is worth and the part of either side the pool keeps.
matchLiquidity(pool, offer) ==
  LET by(s)   == div(mul(offer[s], pool.supply), pool.reserve[s])
      long    == offer.base * pool.reserve.quote > offer.quote * pool.reserve.base
      paired(s) == ceilMulDiv(offer[Other(s)], pool.reserve[s], pool.reserve[Other(s)])
  IN  IF pool.supply = 0
        THEN [lp |-> sqrt(mul(offer.base, offer.quote)), base |-> offer.base, quote |-> offer.quote]
        ELSE [lp    |-> AtMost(by("base"), by("quote")),
              base  |-> IF long THEN AtMost(offer.base, paired("base")) ELSE offer.base,
              quote |-> IF long THEN offer.quote ELSE AtMost(offer.quote, paired("quote"))]

\* The larger share of a side that would come back, against the caller's limit.
offRatioBps(offer, match) ==
  LET b == bpsOf(offer.base - match.base, offer.base)
      q == bpsOf(offer.quote - match.quote, offer.quote)
  IN  IF b > q THEN b ELSE q
enforceOffRatioTolerance(pool, offer, maxOffRatioBps) ==
  offRatioBps(offer, matchLiquidity(pool, offer)) <= maxOffRatioBps * One

\* What a redemption pays.
removePlan(pool, lp) ==
  LET share == divFloor(lp, pool.supply)
  IN  [s \in {"base", "quote"} |-> mulFloor(pool.reserve[s], share)]

-----------------------------------------------------------------------------
(* The ledger's side of the same *)

swapOutput(pool, side, feeBps, amount) ==
  constantProductOut(pool.reserve[side], pool.reserve[Other(side)], feeBps, amount)

fairLp(pool, offer) ==
  LET by(s) == Div(Mul(offer[s], pool.supply), pool.reserve[s])
  IN  IF pool.supply = 0 THEN sqrtDecimal(Mul(offer.base, offer.quote))
      ELSE AtMost(by("base"), by("quote"))

kept(pool, offer) ==
  IF pool.supply = 0 THEN [s \in {"base", "quote"} |-> offer[s]]
  ELSE ratioMatchedDeposit(pool.reserve, offer)

redeemed(pool, lp) ==
  LET share == floorDiv(lp, pool.supply)
  IN  [s \in {"base", "quote"} |-> floorMul(pool.reserve[s], share)]
=============================================================================
