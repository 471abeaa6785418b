--------------------------- MODULE PoolMathProofs ---------------------------
(***************************************************************************)
(* What the fixed-point operators return, for every amount and every       *)
(* Scale.                                                                  *)
(***************************************************************************)
EXTENDS PoolMath, TLAPS

(* Division with remainder. *)
LEMMA Division ==
  ASSUME NEW n \in Nat, NEW d \in Nat \ {0}
  PROVE  /\ n \div d \in Nat
         /\ n % d \in 0 .. (d - 1)
         /\ n = d * (n \div d) + (n % d)
OBVIOUS

(* Half-even rounding is off by at most half a divisor. *)
LEMMA HalfEvenBounds ==
  ASSUME NEW n \in Nat, NEW d \in Nat \ {0}
  PROVE  /\ HalfEven(n, d) \in Nat
         /\ HalfEven(n, d) \in {n \div d, n \div d + 1}
         /\ 2 * (HalfEven(n, d) * d) <= 2 * n + d
         /\ 2 * n <= 2 * (HalfEven(n, d) * d) + d
<1> DEFINE q == n \div d
           r == n % d
<1>1. q \in Nat /\ r \in 0 .. (d - 1) /\ n = d * q + r
  BY Division
<1>2. HalfEven(n, d) = IF 2 * r > d \/ (2 * r = d /\ q % 2 = 1) THEN q + 1 ELSE q
  BY DEF HalfEven
<1> HIDE DEF q, r
<1>3. (q + 1) * d = d * q + d /\ q * d = d * q
  BY <1>1
<1>4. CASE 2 * r > d \/ (2 * r = d /\ q % 2 = 1)
  <2>1. HalfEven(n, d) = q + 1 /\ 2 * r >= d
    BY <1>1, <1>2, <1>4
  <2> QED
    BY <1>1, <1>3, <2>1 DEF q
<1>5. CASE ~(2 * r > d \/ (2 * r = d /\ q % 2 = 1))
  <2>1. HalfEven(n, d) = q /\ 2 * r <= d
    BY <1>1, <1>2, <1>5
  <2> QED
    BY <1>1, <1>3, <2>1 DEF q
<1> QED
  BY <1>4, <1>5

(* The exact product, split as compareProducts splits it. *)
LEMMA ProductSplit ==
  ASSUME NEW a \in Nat, NEW b \in Nat
  PROVE  /\ HighPart(a, b) \in Nat
         /\ LowPart(a, b) \in 0 .. (Scale * Scale - 1)
         /\ a * b = Scale * HighPart(a, b) + LowPart(a, b)
<1> DEFINE A == Whole(a)  x == Fraction(a)  B == Whole(b)  y == Fraction(b)
<1>1. /\ A \in Nat /\ x \in 0 .. (Scale - 1) /\ a = Scale * A + x
      /\ B \in Nat /\ y \in 0 .. (Scale - 1) /\ b = Scale * B + y
  BY ScaleAssumption, Division DEF Whole, Fraction
<1>2. /\ HighPart(a, b) = A * B * Scale + A * y + x * B
      /\ LowPart(a, b) = x * y
  BY DEF HighPart, LowPart
<1> HIDE DEF A, B, x, y
<1>3. Scale \in Nat /\ Scale > 0
  BY ScaleAssumption
<1>4. x * y \in Nat /\ x * y <= (Scale - 1) * (Scale - 1)
  BY <1>1, <1>3
<1>5. (Scale - 1) * (Scale - 1) <= Scale * Scale - 1
  BY <1>3
<1>6. A * B * Scale + A * y + x * B \in Nat
  BY <1>1, <1>3
<1>7. (Scale * A + x) * (Scale * B + y)
        = Scale * (A * B * Scale + A * y + x * B) + x * y
  BY <1>1, <1>3
<1>8. a * b = Scale * HighPart(a, b) + LowPart(a, b)
  BY <1>1, <1>2, <1>7
<1>9. LowPart(a, b) \in 0 .. (Scale * Scale - 1)
  <2>1. Scale * Scale \in Nat /\ (Scale - 1) * (Scale - 1) \in Int
    BY <1>3
  <2> HIDE DEF HighPart, LowPart
  <2>2. LowPart(a, b) \in Nat /\ LowPart(a, b) <= (Scale - 1) * (Scale - 1)
    BY <1>2, <1>4
  <2> DEFINE top == (Scale - 1) * (Scale - 1)  square == Scale * Scale
  <2>3. top <= square - 1 /\ top \in Int /\ square \in Int /\ LowPart(a, b) <= top
    BY <1>5, <2>1, <2>2
  <2> HIDE DEF top, square
  <2>4. LowPart(a, b) \in 0 .. (square - 1)
    BY <2>2, <2>3
  <2> QED
    BY <2>4 DEF square
<1>10. HighPart(a, b) \in Nat
  BY <1>2, <1>6
<1> QED
  BY <1>8, <1>9, <1>10

(* compareProducts orders the exact products a * b and c * d: no pair of   *)
(* Decimals, however close their products, is ordered wrongly.             *)
THEOREM CompareExact ==
  ASSUME NEW a \in Nat, NEW b \in Nat, NEW c \in Nat, NEW d \in Nat
  PROVE  /\ compareProducts(a, b, c, d) = "GT" <=> a * b > c * d
         /\ compareProducts(a, b, c, d) = "LT" <=> a * b < c * d
         /\ compareProducts(a, b, c, d) = "EQ" <=> a * b = c * d
<1> DEFINE h1 == HighPart(a, b)  l1 == LowPart(a, b)
           h2 == HighPart(c, d)  l2 == LowPart(c, d)
           hi == h1 - h2
           left == hi * Scale + l1
<1>1. /\ h1 \in Nat /\ l1 \in 0 .. (Scale * Scale - 1) /\ a * b = Scale * h1 + l1
      /\ h2 \in Nat /\ l2 \in 0 .. (Scale * Scale - 1) /\ c * d = Scale * h2 + l2
  BY ProductSplit
<1>2. compareProducts(a, b, c, d) =
        IF hi >= Scale THEN "GT"
        ELSE IF hi <= -Scale THEN "LT"
        ELSE IF left > l2 THEN "GT"
        ELSE IF left < l2 THEN "LT" ELSE "EQ"
  BY DEF compareProducts, One
<1>3. Scale \in Nat /\ Scale > 0 /\ Scale * Scale \in Nat
  BY ScaleAssumption
<1> HIDE DEF h1, h2, l1, l2
<1>4. a * b - c * d = left - l2 /\ left \in Int
  <2>1. hi * Scale = Scale * h1 - Scale * h2 /\ hi * Scale \in Int
    BY <1>1, <1>3
  <2>2. l1 \in Nat /\ l2 \in Nat /\ Scale * h1 \in Nat /\ Scale * h2 \in Nat
    BY <1>1, <1>3
  <2> DEFINE s1 == Scale * h1  s2 == Scale * h2  shift == hi * Scale
  <2>3. /\ shift = s1 - s2 /\ s1 \in Nat /\ s2 \in Nat
        /\ a * b = s1 + l1 /\ c * d = s2 + l2 /\ left = shift + l1
    BY <1>1, <2>1, <2>2
  <2> HIDE DEF s1, s2, shift, left, hi
  <2> QED
    BY <2>2, <2>3
<1>5. a * b \in Nat /\ c * d \in Nat /\ l2 \in Nat /\ hi \in Int
  BY <1>1, <1>3
<1>6. CASE hi >= Scale
  <2>1. hi * Scale >= Scale * Scale
    BY <1>1, <1>3, <1>6
  <2>2. left > l2
    BY <1>1, <1>3, <2>1
  <2> QED
    BY <1>2, <1>4, <1>5, <1>6, <2>2
<1>7. CASE hi <= -Scale
  <2>1. hi * Scale <= -(Scale * Scale)
    BY <1>1, <1>3, <1>7
  <2>2. left < l2
    BY <1>1, <1>3, <2>1
  <2>3. ~(hi >= Scale)
    BY <1>3, <1>5, <1>7
  <2> QED
    BY <1>2, <1>4, <1>5, <1>7, <2>2, <2>3
<1>8. CASE ~(hi >= Scale) /\ ~(hi <= -Scale)
  BY <1>2, <1>4, <1>5, <1>8
<1> QED
  BY <1>6, <1>7, <1>8

(* Rounding down: the largest number of ulps not above the exact product.  *)
LEMMA FloorMulBounds ==
  ASSUME NEW x \in Nat, NEW y \in Nat
  PROVE  /\ floorMul(x, y) \in Nat
         /\ floorMul(x, y) * Scale <= x * y
         /\ x * y < floorMul(x, y) * Scale + Scale
<1> DEFINE n == x * y
           p == Mul(x, y)
           q == n \div Scale
<1>1. n \in Nat /\ Scale \in Nat \ {0}
  BY ScaleAssumption
<1>2. q \in Nat /\ n % Scale \in 0 .. (Scale - 1) /\ n = Scale * q + (n % Scale)
  BY <1>1, Division
<1>3. p \in {q, q + 1} /\ p \in Nat
  BY <1>1, HalfEvenBounds DEF Mul
<1>4. floorMul(x, y) = IF n < p * Scale THEN p - 1 ELSE p
  <2>1. compareProducts(x, y, p, Scale) = "LT" <=> n < p * Scale
    BY <1>1, <1>3, CompareExact
  <2> QED
    BY <2>1 DEF floorMul, One
<1> HIDE DEF n, p, q
<1>5. Scale * q = q * Scale /\ (q + 1) * Scale = q * Scale + Scale /\ q * Scale \in Nat
  BY <1>1, <1>2
<1>6. q * Scale <= n /\ n < (q + 1) * Scale
  BY <1>1, <1>2, <1>5
<1>7. floorMul(x, y) = q
  <2>1. CASE p = q
    BY <1>1, <1>4, <1>5, <1>6, <2>1
  <2>2. CASE p = q + 1
    BY <1>1, <1>2, <1>4, <1>5, <1>6, <2>2
  <2> QED
    BY <1>3, <2>1, <2>2
<1> QED
  BY <1>2, <1>5, <1>6, <1>7 DEF n

(* The same for a quotient. *)
LEMMA FloorDivBounds ==
  ASSUME NEW n \in Nat, NEW d \in Nat \ {0}
  PROVE  /\ floorDiv(n, d) \in Nat
         /\ floorDiv(n, d) * d <= n * Scale
         /\ n * Scale < floorDiv(n, d) * d + d
<1> DEFINE m == n * Scale
           p == Div(n, d)
           q == m \div d
<1>1. m \in Nat /\ Scale \in Nat \ {0} /\ d \in Nat \ {0}
  BY ScaleAssumption
<1>2. q \in Nat /\ m % d \in 0 .. (d - 1) /\ m = d * q + (m % d)
  BY <1>1, Division
<1>3. p \in {q, q + 1} /\ p \in Nat
  BY <1>1, HalfEvenBounds DEF Div
<1>4. floorDiv(n, d) = IF p * d > m THEN p - 1 ELSE p
  <2>1. compareProducts(p, d, n, Scale) = "GT" <=> p * d > m
    BY <1>1, <1>3, CompareExact
  <2> QED
    BY <2>1 DEF floorDiv, One
<1> HIDE DEF m, p, q
<1>5. d * q = q * d /\ (q + 1) * d = q * d + d /\ q * d \in Nat
  BY <1>1, <1>2
<1>6. q * d <= m /\ m < (q + 1) * d
  BY <1>1, <1>2, <1>5
<1>7. floorDiv(n, d) = q
  <2>1. CASE p = q
    BY <1>1, <1>4, <1>5, <1>6, <2>1
  <2>2. CASE p = q + 1
    BY <1>1, <1>2, <1>4, <1>5, <1>6, <2>2
  <2> QED
    BY <1>3, <2>1, <2>2
<1> QED
  BY <1>2, <1>5, <1>6, <1>7 DEF m

(* Rounding up a quotient of a product: the least amount whose product     *)
(* with d reaches x * y.                                                   *)
LEMMA CeilMulDivBounds ==
  ASSUME NEW x \in Nat \ {0}, NEW y \in Nat \ {0}, NEW d \in Nat \ {0}
  PROVE  /\ ceilMulDiv(x, y, d) \in Nat
         /\ ceilMulDiv(x, y, d) * d >= x * y
         /\ ceilMulDiv(x, y, d) * d < x * y + d
<1> DEFINE n == x * y
           m == n + d - 1
           q == m \div d
<1>1. n \in Nat /\ m \in Nat /\ d \in Nat \ {0}
  <2>1. n \in Nat
    OBVIOUS
  <2> HIDE DEF n
  <2> QED
    BY <2>1
<1>2. ceilMulDiv(x, y, d) = q
  BY DEF ceilMulDiv
<1> HIDE DEF m
<1>3. q \in Nat /\ m % d \in 0 .. (d - 1) /\ m = d * q + (m % d)
  BY <1>1, Division
<1> HIDE DEF n, q
<1>4. d * q = q * d /\ q * d \in Nat
  BY <1>1, <1>3
<1>5. m = n + d - 1
  BY DEF m
<1>6. q * d >= n /\ q * d < n + d
  BY <1>1, <1>3, <1>4, <1>5
<1> QED
  BY <1>2, <1>3, <1>6 DEF n

(* The fee only ever takes from the input. *)
LEMMA AfterFeeBounds ==
  ASSUME NEW feeBps \in Nat, feeBps <= 9999, NEW amount \in Nat
  PROVE  /\ afterFee(feeBps, amount) \in Nat
         /\ afterFee(feeBps, amount) <= amount
<1> DEFINE k == (10000 - feeBps) * Scale
           w == 10000 * Scale
           m == floorMul(amount, k)
           dx == floorDiv(m, w)
<1>1. Scale \in Nat \ {0} /\ k \in Nat /\ w \in Nat \ {0} /\ k <= w
  BY ScaleAssumption
<1>2. m \in Nat /\ m * Scale <= amount * k
  BY <1>1, FloorMulBounds
<1>3. dx \in Nat /\ dx * w <= m * Scale
  <2> HIDE DEF m, w
  <2> QED
    BY <1>1, <1>2, FloorDivBounds
<1>4. afterFee(feeBps, amount) = dx
  BY DEF afterFee, One
<1> HIDE DEF k, w, m, dx
<1>5. amount * k <= amount * w
  BY <1>1
<1>6. dx * w <= amount * w
  <2>1. dx * w \in Nat /\ m * Scale \in Nat /\ amount * k \in Nat /\ amount * w \in Nat
    BY <1>1, <1>2, <1>3
  <2> QED
    BY <1>2, <1>3, <1>5, <2>1
<1>7. dx <= amount
  <2>1. SUFFICES ASSUME dx >= amount + 1 PROVE FALSE
    BY <1>3
  <2>2. dx * w >= (amount + 1) * w
    BY <1>1, <1>3, <2>1
  <2>3. (amount + 1) * w = amount * w + w
    BY <1>1
  <2>4. dx * w \in Nat /\ amount * w \in Nat
    BY <1>1, <1>3
  <2> QED
    BY <1>1, <1>6, <2>2, <2>3, <2>4
<1> QED
  BY <1>3, <1>4, <1>7

(* A trade against positive reserves leaves some of the output side, and   *)
(* the product of the reserves is not lower after it.                      *)
THEOREM ConstantProduct ==
  ASSUME NEW rIn \in Nat \ {0}, NEW rOut \in Nat \ {0},
         NEW feeBps \in Nat, feeBps <= 9999, NEW amount \in Nat
  PROVE  LET out == constantProductOut(rIn, rOut, feeBps, amount)
         IN  /\ out \in Nat
             /\ out < rOut
             /\ (rIn + amount) * (rOut - out) >= rIn * rOut
<1> DEFINE dx  == afterFee(feeBps, amount)
           m   == floorMul(dx, rOut)
           e   == rIn + dx
           out == floorDiv(m, e)
<1>1. dx \in Nat /\ dx <= amount
  BY AfterFeeBounds
<1>2. Scale \in Nat \ {0}
  BY ScaleAssumption
<1>3. m \in Nat /\ m * Scale <= dx * rOut
  <2> HIDE DEF dx
  <2> QED
    BY <1>1, FloorMulBounds
<1>4. e \in Nat \ {0}
  BY <1>1
<1>5. out \in Nat /\ out * e <= m * Scale
  <2> HIDE DEF m, e
  <2> QED
    BY <1>3, <1>4, FloorDivBounds
<1>6. constantProductOut(rIn, rOut, feeBps, amount) = out
  BY DEF constantProductOut
<1>7. e = rIn + dx
  OBVIOUS
<1> HIDE DEF dx, m, e, out
<1>8. out * e <= dx * rOut
  <2>1. out * e \in Nat /\ m * Scale \in Nat /\ dx * rOut \in Nat
    BY <1>1, <1>2, <1>3, <1>4, <1>5
  <2> QED
    BY <1>3, <1>5, <2>1
<1>9. out < rOut
  <2>1. SUFFICES ASSUME out >= rOut PROVE FALSE
    BY <1>5
  <2>2. out * e >= rOut * e
    BY <1>4, <1>5, <2>1
  <2>3. rOut * e = rOut * rIn + dx * rOut
    BY <1>1, <1>7
  <2>4. rOut * rIn > 0 /\ rOut * rIn \in Nat /\ dx * rOut \in Nat /\ out * e \in Nat
    BY <1>1, <1>4, <1>5
  <2> QED
    BY <1>8, <2>2, <2>3, <2>4
<1>10. (rIn + amount) * (rOut - out) >= e * (rOut - out)
  BY <1>1, <1>4, <1>5, <1>7, <1>9
<1>11. e * (rOut - out) = rIn * rOut + (dx * rOut - out * e)
  BY <1>1, <1>4, <1>5, <1>7
<1>12. (rIn + amount) * (rOut - out) >= rIn * rOut
  <2>1. /\ rIn * rOut \in Nat /\ dx * rOut \in Nat /\ out * e \in Nat
        /\ (rIn + amount) * (rOut - out) \in Int /\ e * (rOut - out) \in Int
    BY <1>1, <1>4, <1>5
  <2> QED
    BY <1>8, <1>10, <1>11, <2>1
<1> QED
  BY <1>5, <1>6, <1>9, <1>12

(* Cancelling a positive factor. *)
LEMMA CancelFactor ==
  ASSUME NEW x \in Nat, NEW y \in Nat, NEW d \in Nat \ {0}
  PROVE  /\ x * d < y * d => x < y
         /\ x * d <= y * d => x <= y
<1>1. ASSUME x >= y PROVE x * d >= y * d
  BY <1>1
<1>2. ASSUME x >= y + 1 PROVE x * d > y * d
  <2>1. x * d >= (y + 1) * d
    BY <1>2
  <2>2. (y + 1) * d = y * d + d
    OBVIOUS
  <2>3. x * d \in Nat /\ y * d \in Nat
    OBVIOUS
  <2> QED
    BY <2>1, <2>2, <2>3
<1>3. x * d \in Nat /\ y * d \in Nat
  OBVIOUS
<1> QED
  BY <1>1, <1>2, <1>3

(* Redeeming lp of the supply pays at most the exact share of a reserve r, *)
(* whatever the two roundings do, and the whole of it exactly when lp is   *)
(* the whole supply: rounding the share first cannot empty a side while LP *)
(* tokens remain.                                                          *)
THEOREM ShareOfReserve ==
  ASSUME NEW lp \in Nat, NEW supply \in Nat \ {0}, lp <= supply, NEW r \in Nat \ {0}
  PROVE  LET out == floorMul(r, floorDiv(lp, supply))
         IN  /\ out \in Nat
             /\ out * supply <= r * lp
             /\ out <= r
             /\ out = r <=> lp = supply
<1> DEFINE share == floorDiv(lp, supply)
           out   == floorMul(r, share)
<1>1. Scale \in Nat \ {0}
  BY ScaleAssumption
<1>2. /\ share \in Nat
      /\ share * supply <= lp * Scale
      /\ lp * Scale < share * supply + supply
  BY FloorDivBounds
<1>3. /\ out \in Nat
      /\ out * Scale <= r * share
      /\ r * share < out * Scale + Scale
  <2> HIDE DEF share
  <2> QED
    BY <1>2, FloorMulBounds
<1> HIDE DEF share, out
<1>a. out * supply <= r * lp
  <2>1. /\ out * supply \in Nat /\ r * lp \in Nat /\ share * supply \in Nat
        /\ (out * supply) * Scale = (out * Scale) * supply
        /\ (r * lp) * Scale = r * (lp * Scale)
    BY <1>1, <1>2, <1>3
  <2>2. (out * Scale) * supply <= (r * share) * supply
    BY <1>1, <1>2, <1>3
  <2>3. (r * share) * supply = r * (share * supply)
    BY <1>2
  <2>4. r * (share * supply) <= r * (lp * Scale)
    BY <1>1, <1>2
  <2>5. (out * supply) * Scale <= (r * lp) * Scale
    <3>1. (r * share) * supply \in Nat /\ (out * Scale) * supply \in Nat /\ r * (lp * Scale) \in Nat
      BY <1>1, <1>2, <1>3
    <3> HIDE DEF share, out
    <3> QED
      BY <2>1, <2>2, <2>3, <2>4, <3>1
  <2> QED
    BY <1>1, <2>1, <2>5, CancelFactor
<1>4. CASE lp = supply
  <2>1. share * supply + supply = (share + 1) * supply /\ lp * Scale = Scale * supply
    BY <1>1, <1>2, <1>4
  <2>2. Scale * supply < (share + 1) * supply /\ share * supply <= Scale * supply
    BY <1>2, <2>1
  <2>3. share + 1 \in Nat
    BY <1>2
  <2>4. Scale < share + 1
    BY <1>1, <2>2, <2>3, CancelFactor
  <2>5. share <= Scale
    BY <1>1, <1>2, <2>2, CancelFactor
  <2>6. share = Scale
    BY <1>1, <1>2, <2>4, <2>5
  <2>7. r * Scale < (out + 1) * Scale /\ out * Scale <= r * Scale
    <3>1. out * Scale + Scale = (out + 1) * Scale
      BY <1>1, <1>3
    <3> QED
      BY <1>3, <2>6, <3>1
  <2>8. out + 1 \in Nat
    BY <1>3
  <2>9. r < out + 1
    BY <1>1, <2>7, <2>8, CancelFactor
  <2>10. out <= r
    BY <1>1, <1>3, <2>7, CancelFactor
  <2> QED
    BY <1>a, <1>3, <1>4, <2>9, <2>10 DEF out, share
<1>5. CASE lp < supply
  <2>1. lp * Scale < supply * Scale
    <3>1. (lp + 1) * Scale <= supply * Scale
      BY <1>1, <1>5
    <3>2. (lp + 1) * Scale = lp * Scale + Scale /\ lp * Scale \in Nat
      BY <1>1
    <3>3. supply * Scale \in Nat
      BY <1>1
    <3> QED
      BY <1>1, <3>1, <3>2, <3>3
  <2>2. share * supply < Scale * supply
    <3>1. /\ share * supply \in Nat /\ lp * Scale \in Nat
          /\ Scale * supply = supply * Scale /\ supply * Scale \in Nat
      BY <1>1, <1>2
    <3> QED
      BY <1>2, <2>1, <3>1
  <2>3. share < Scale
    BY <1>1, <1>2, <2>2, CancelFactor
  <2>4. r * share < r * Scale
    <3>1. r * (share + 1) <= r * Scale
      BY <1>1, <1>2, <2>3
    <3>2. r * (share + 1) = r * share + r /\ r * share \in Nat /\ r * Scale \in Nat
      BY <1>1, <1>2
    <3> QED
      BY <3>1, <3>2
  <2>5. out * Scale < r * Scale
    <3>1. out * Scale \in Nat /\ r * share \in Nat /\ r * Scale \in Nat
      BY <1>1, <1>2, <1>3
    <3> QED
      BY <1>3, <2>4, <3>1
  <2>6. out < r
    BY <1>1, <1>3, <2>5, CancelFactor
  <2> QED
    BY <1>a, <1>3, <1>5, <2>6 DEF out, share
<1> QED
  BY <1>4, <1>5

(* A ratio-matched deposit takes no more than is offered of either side.   *)
LEMMA RatioMatched ==
  ASSUME NEW reserve \in [{"base", "quote"} -> Nat \ {0}],
         NEW offer \in [{"base", "quote"} -> Nat],
         NEW s \in {"base", "quote"}
  PROVE  LET used == ratioMatchedDeposit(reserve, offer)
         IN  used[s] \in Nat /\ used[s] <= offer[s]
<1> DEFINE b == ceilMulDiv(offer["quote"], reserve["base"], reserve["quote"])
           q == ceilMulDiv(offer["base"], reserve["quote"], reserve["base"])
<1>1. ASSUME NEW x \in Nat, NEW y \in Nat \ {0}, NEW d \in Nat \ {0}
      PROVE  ceilMulDiv(x, y, d) \in Nat
  <2>1. CASE x = 0
    BY <2>1 DEF ceilMulDiv
  <2>2. CASE x # 0
    BY <2>2, CeilMulDivBounds
  <2> QED
    BY <2>1, <2>2
<1>2. /\ offer["base"] \in Nat /\ offer["quote"] \in Nat
      /\ reserve["base"] \in Nat \ {0} /\ reserve["quote"] \in Nat \ {0}
  OBVIOUS
<1>3. b \in Nat /\ q \in Nat
  BY <1>1, <1>2
<1> HIDE DEF b, q
<1>4. /\ AtMost(b, offer["base"]) \in Nat /\ AtMost(b, offer["base"]) <= offer["base"]
      /\ AtMost(q, offer["quote"]) \in Nat /\ AtMost(q, offer["quote"]) <= offer["quote"]
  BY <1>2, <1>3 DEF AtMost
<1>5. ratioMatchedDeposit(reserve, offer) \in
        {[base |-> AtMost(b, offer["base"]), quote |-> offer["quote"]],
         [base |-> offer["base"], quote |-> AtMost(q, offer["quote"])]}
  BY DEF ratioMatchedDeposit, b, q
<1> QED
  BY <1>2, <1>4, <1>5
=============================================================================
