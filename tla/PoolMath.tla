------------------------------ MODULE PoolMath ------------------------------
(***************************************************************************)
(* The fixed-point arithmetic of CantonDex.Dex.PoolModel.  A Decimal is    *)
(* its number of ulps: the value v stands for v / Scale units, and Scale   *)
(* is 10^10 in the code.  All amounts are non-negative.                    *)
(***************************************************************************)
EXTENDS Integers

CONSTANT Scale          \* ulps in one unit of Decimal

ASSUME ScaleAssumption == Scale \in Nat \ {0}

One == Scale            \* the Decimal 1.0

(***************************************************************************)
(* Decimal multiplication and division: the exact result rounded half even *)
(* to a whole number of ulps.                                              *)
(***************************************************************************)
HalfEven(n, d) ==
  LET q == n \div d
      r == n % d
  IN  IF 2 * r > d \/ (2 * r = d /\ q % 2 = 1) THEN q + 1 ELSE q

Mul(x, y) == HalfEven(x * y, Scale)
Div(n, d) == HalfEven(n * Scale, d)

(***************************************************************************)
(* compareProducts orders a * b and c * d without rounding either: whole   *)
(* parts and cross terms are exact in a Decimal (hi), and the product of   *)
(* the two fractions is compared separately, scaled up (lo).               *)
(***************************************************************************)
Whole(v)    == v \div Scale
Fraction(v) == v % Scale

HighPart(a, b) == Whole(a) * Whole(b) * Scale
                    + Whole(a) * Fraction(b) + Fraction(a) * Whole(b)
LowPart(a, b)  == Fraction(a) * Fraction(b)

compareProducts(a, b, c, d) ==
  LET hi   == HighPart(a, b) - HighPart(c, d)
      left == hi * Scale + LowPart(a, b)
  IN  IF hi >= One THEN "GT"
      ELSE IF hi <= -One THEN "LT"
      ELSE IF left > LowPart(c, d) THEN "GT"
      ELSE IF left < LowPart(c, d) THEN "LT" ELSE "EQ"

(***************************************************************************)
(* Directed rounding: correct the half-even result by one ulp when the     *)
(* exact comparison says that it is on the wrong side.                     *)
(***************************************************************************)
floorMul(x, y) ==
  LET p == Mul(x, y) IN IF compareProducts(x, y, p, One) = "LT" THEN p - 1 ELSE p

floorDiv(n, d) ==
  LET q == Div(n, d) IN IF compareProducts(q, d, n, One) = "GT" THEN q - 1 ELSE q

ceilMul(x, y) ==
  LET p == Mul(x, y) IN IF compareProducts(x, y, p, One) = "GT" THEN p + 1 ELSE p

ceilDiv(n, d) ==
  LET q == Div(n, d) IN IF compareProducts(q, d, n, One) = "LT" THEN q + 1 ELSE q

(***************************************************************************)
(* The least q with q * d >= x * y.  The code finds it by a bracketing     *)
(* search (stepDownTo, halveTo), which PoolSearch models step by step.     *)
(***************************************************************************)
ceilMulDiv(x, y, d) == IF x <= 0 \/ y <= 0 THEN 0 ELSE (x * y + d - 1) \div d

(***************************************************************************)
(* Constant-product output: the fee is taken off the input, both products  *)
(* and both quotients round down.                                          *)
(***************************************************************************)
afterFee(feeBps, amount) ==
  floorDiv(floorMul(amount, (10000 - feeBps) * One), 10000 * One)

BuggyConstantProductOut(reserveIn, reserveOut, feeBps, amount) ==
  LET dx == afterFee(feeBps, amount)
  IN  ceilDiv(ceilMul(dx, reserveOut), reserveIn + dx)

constantProductOut(reserveIn, reserveOut, feeBps, amount) ==
  LET dx == afterFee(feeBps, amount)
  IN  floorDiv(floorMul(dx, reserveOut), reserveIn + dx)

(***************************************************************************)
(* The part of a two-sided deposit that the pool keeps: the side that is   *)
(* short against the reserve ratio goes in whole.                          *)
(***************************************************************************)
AtMost(x, bound) == IF x <= bound THEN x ELSE bound

ratioMatchedDeposit(reserve, offer) ==
  IF compareProducts(offer["base"], reserve["quote"],
                     offer["quote"], reserve["base"]) = "GT"
    THEN [base  |-> AtMost(ceilMulDiv(offer["quote"], reserve["base"], reserve["quote"]),
                           offer["base"]),
          quote |-> offer["quote"]]
    ELSE [base  |-> offer["base"],
          quote |-> AtMost(ceilMulDiv(offer["base"], reserve["quote"], reserve["base"]),
                           offer["quote"])]

(***************************************************************************)
(* Newton's iteration, at most 50 steps.  It stops when the square rounds  *)
(* to the target; a guess of zero divides by zero and aborts the caller,   *)
(* which is the result 0 here (no LP leg of amount 0 can be authored).     *)
(***************************************************************************)
Iterations == 50

sqrtDecimal(x) ==
  LET guess[i \in 0 .. Iterations] ==
        IF i = 0 THEN Div(x, 2 * One)
        ELSE LET g == guess[i - 1]
             IN IF g = 0 \/ Mul(g, g) = x THEN g
                ELSE Div(g + Div(x, g), 2 * One)
  IN  IF x <= 0 THEN 0 ELSE guess[Iterations]
=============================================================================
