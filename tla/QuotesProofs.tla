---------------------------- MODULE QuotesProofs ----------------------------
(***************************************************************************)
(* What the backend quotes is what the ledger computes, to the ulp, for    *)
(* every pool, fee, amount and scale: its integer divisions truncate where *)
(* the Daml code rounds half even and then corrects the result.  Then what *)
(* the two square roots compute, and that a trader gets what the screens   *)
(* tell, whatever the others do in between.                                *)
(***************************************************************************)
EXTENDS Screens, PoolMathProofs, TotalsProofs

LEMMA FloorUnique ==
  ASSUME NEW n \in Nat, NEW d \in Nat \ {0}, NEW a \in Nat,
         a * d <= n, n < a * d + d
  PROVE  a = n \div d
<1> DEFINE q == n \div d
<1>1. q \in Nat /\ q * d <= n /\ n < q * d + d
  BY Division
<1> HIDE DEF q
<1>2. a * d < (q + 1) * d /\ q * d < (a + 1) * d
  BY <1>1
<1>3. a < q + 1 /\ q < a + 1
  BY <1>1, <1>2, CancelFactor
<1> QED
  BY <1>1, <1>3 DEF q

LEMMA SameFloorMul ==
  ASSUME NEW x \in Nat, NEW y \in Nat
  PROVE  mulFloor(x, y) = floorMul(x, y)
<1>1. x * y \in Nat /\ Scale \in Nat \ {0}
  BY ScaleAssumption
<1>2. /\ floorMul(x, y) \in Nat
      /\ floorMul(x, y) * Scale <= x * y
      /\ x * y < floorMul(x, y) * Scale + Scale
  BY FloorMulBounds
<1> QED
  BY <1>1, <1>2, FloorUnique DEF mulFloor

LEMMA SameFloorDiv ==
  ASSUME NEW n \in Nat, NEW d \in Nat \ {0}
  PROVE  divFloor(n, d) = floorDiv(n, d)
<1>1. n * Scale \in Nat
  BY ScaleAssumption
<1>2. /\ floorDiv(n, d) \in Nat
      /\ floorDiv(n, d) * d <= n * Scale
      /\ n * Scale < floorDiv(n, d) * d + d
  BY FloorDivBounds
<1> QED
  BY <1>1, <1>2, FloorUnique DEF divFloor

IsPool(pool) == pool.reserve \in [{"base", "quote"} -> Nat \ {0}] /\ pool.supply \in Nat

(* The quote that is shown, and checked against the caller's minimum, is the  *)
(* output PoolRules_Swap computes for the same reserves, for every fee below  *)
(* the whole input.                                                           *)
THEOREM QuoteIsSettled ==
  ASSUME NEW pool, IsPool(pool), NEW s \in {"base", "quote"},
         NEW feeBps \in Nat, feeBps <= 9999, NEW amount \in Nat
  PROVE  computeQuote(pool, s, feeBps, amount) = swapOutput(pool, s, feeBps, amount)
<1> DEFINE rIn == pool.reserve[s]
           rOut == pool.reserve[Other(s)]
           k == (10000 - feeBps) * One
           dx == afterFee(feeBps, amount)
<1>1. rIn \in Nat \ {0} /\ rOut \in Nat \ {0}
  BY DEF IsPool, Other
<1>2. k \in Nat /\ 10000 * One \in Nat \ {0}
  BY ScaleAssumption DEF One
<1>3. floorMul(amount, k) \in Nat /\ mulFloor(amount, k) = floorMul(amount, k)
  <2>1. ASSUME NEW y \in Nat
        PROVE  floorMul(amount, y) \in Nat /\ mulFloor(amount, y) = floorMul(amount, y)
    <3>1. floorMul(amount, y) \in Nat
      BY FloorMulBounds
    <3> QED
      BY <3>1, SameFloorMul
  <2> QED
    BY <1>2, <2>1
<1>4. divFloor(mulFloor(amount, k), 10000 * One) = dx
  BY <1>2, <1>3, SameFloorDiv DEF afterFee
<1>5. dx \in Nat
  BY AfterFeeBounds
<1> HIDE DEF rIn, rOut, k, dx
<1>6. mulFloor(rOut, dx) = floorMul(dx, rOut)
  <2>1. rOut * dx = dx * rOut
    BY <1>1, <1>5
  <2>2. mulFloor(rOut, dx) = mulFloor(dx, rOut)
    BY <2>1 DEF mulFloor
  <2> QED
    BY <1>1, <1>5, <2>2, SameFloorMul
<1>7. floorMul(dx, rOut) \in Nat /\ rIn + dx \in Nat \ {0}
  BY <1>1, <1>5, FloorMulBounds
<1>8. divFloor(mulFloor(rOut, dx), rIn + dx) = floorDiv(floorMul(dx, rOut), rIn + dx)
  BY <1>6, <1>7, SameFloorDiv
<1> QED
  BY <1>4, <1>8 DEF computeQuote, swapOutput, constantProductOut, rIn, rOut, k, dx

(* What a deposit of any pool that has a ratio is told the pool will keep is  *)
(* what it keeps, and so is what it is told to get back.                      *)
THEOREM RefundIsSettled ==
  ASSUME NEW pool, IsPool(pool), pool.supply # 0,
         NEW offer \in [base : Nat, quote : Nat, lp : Nat]
  PROVE  /\ matchLiquidity(pool, offer).base = kept(pool, offer).base
         /\ matchLiquidity(pool, offer).quote = kept(pool, offer).quote
<1> DEFINE B == offer.base  Q == offer.quote
           rB == pool.reserve.base  rQ == pool.reserve.quote
<1>1. B \in Nat /\ Q \in Nat /\ rB \in Nat /\ rQ \in Nat
  BY DEF IsPool
<1>2. compareProducts(B, rQ, Q, rB) = "GT" <=> B * rQ > Q * rB
  BY <1>1, CompareExact
<1> DEFINE b == ceilMulDiv(Q, rB, rQ)
           q == ceilMulDiv(B, rQ, rB)
<1>3. b \in Nat /\ q \in Nat
  <2>1. rB \in Nat \ {0} /\ rQ \in Nat \ {0}
    BY DEF IsPool
  <2>2. ASSUME NEW x \in Nat, NEW y \in Nat \ {0}, NEW d \in Nat \ {0}
        PROVE  ceilMulDiv(x, y, d) \in Nat
    <3>1. CASE x = 0
      BY <3>1 DEF ceilMulDiv
    <3>2. CASE x # 0
      BY <3>2, CeilMulDivBounds
    <3> QED
      BY <3>1, <3>2
  <2> HIDE DEF B, Q, rB, rQ
  <2> QED
    BY <1>1, <2>1, <2>2
<1>4. AtMost(B, b) = AtMost(b, B) /\ AtMost(Q, q) = AtMost(q, Q)
  BY <1>1, <1>3 DEF AtMost
<1> HIDE DEF b, q
<1>5. /\ matchLiquidity(pool, offer).base = IF B * rQ > Q * rB THEN AtMost(B, b) ELSE B
      /\ matchLiquidity(pool, offer).quote = IF B * rQ > Q * rB THEN Q ELSE AtMost(Q, q)
  BY DEF matchLiquidity, Other, b, q
<1>6. /\ kept(pool, offer).base = IF B * rQ > Q * rB THEN AtMost(b, B) ELSE B
      /\ kept(pool, offer).quote = IF B * rQ > Q * rB THEN Q ELSE AtMost(q, Q)
  BY <1>2 DEF kept, ratioMatchedDeposit, b, q
<1> QED
  BY <1>4, <1>5, <1>6

(* The outputs a redemption is prepared with, slice by slice, add up to what  *)
(* the ledger pays for it.                                                    *)
THEOREM RedemptionIsSettled ==
  ASSUME NEW pool, IsPool(pool), pool.supply # 0, NEW lp \in Nat
  PROVE  removePlan(pool, lp) = redeemed(pool, lp)
<1>1. pool.supply \in Nat \ {0} /\ \A s \in {"base", "quote"} : pool.reserve[s] \in Nat
  BY DEF IsPool
<1>2. /\ divFloor(lp, pool.supply) = floorDiv(lp, pool.supply)
      /\ floorDiv(lp, pool.supply) \in Nat
  BY <1>1, SameFloorDiv, FloorDivBounds
<1>3. \A s \in {"base", "quote"} :
        mulFloor(pool.reserve[s], divFloor(lp, pool.supply))
          = floorMul(pool.reserve[s], floorDiv(lp, pool.supply))
  BY <1>1, <1>2, SameFloorMul
<1> QED
  BY <1>3 DEF removePlan, redeemed

-----------------------------------------------------------------------------
(* The two square roots, both of them recursive functions. *)

(* A step repeated any number of times. *)
LEMMA Iterated ==
  ASSUME NEW a \in Nat, NEW step \in [Nat -> Nat]
  PROVE  \A n \in Nat : \E f \in [0 .. n -> Nat] :
           f[0] = a /\ \A i \in 1 .. n : f[i] = step[f[i - 1]]
<1>0. \A g \in Nat : step[g] \in Nat
  OBVIOUS
<1> DEFINE Runs(n, f) == f[0] = a /\ \A i \in 1 .. n : f[i] = step[f[i - 1]]
           T == {n \in Nat : \E f \in [0 .. n -> Nat] : Runs(n, f)}
<1>1. 0 \in T
  <2>1. [i \in 0 .. 0 |-> a] \in [0 .. 0 -> Nat] /\ Runs(0, [i \in 0 .. 0 |-> a])
    OBVIOUS
  <2> QED
    BY <2>1
<1>2. ASSUME NEW n \in Nat, n \in T
      PROVE  n + 1 \in T
  <2>1. PICK f \in [0 .. n -> Nat] : Runs(n, f)
    BY <1>2
  <2> DEFINE g == [i \in 0 .. n + 1 |-> IF i = n + 1 THEN step[f[n]] ELSE f[i]]
  <2>2. n \in 0 .. n /\ f[n] \in Nat /\ step[f[n]] \in Nat
    <3>1. n \in 0 .. n
      OBVIOUS
    <3> QED
      BY <1>0, <2>1, <3>1
  <2>3. /\ g \in [0 .. n + 1 -> Nat] /\ g[n + 1] = step[f[n]]
        /\ \A i \in 0 .. n : g[i] = f[i]
    <3>1. \A i \in 0 .. n + 1 : i # n + 1 => i \in 0 .. n
      OBVIOUS
    <3>2. \A i \in 0 .. n : i \in 0 .. n + 1 /\ i # n + 1
      OBVIOUS
    <3> DEFINE last == step[f[n]]
    <3> HIDE DEF last, Runs
    <3>3. /\ g = [i \in 0 .. n + 1 |-> IF i = n + 1 THEN last ELSE f[i]]
          /\ last \in Nat
      BY <2>2 DEF last
    <3>4. g[n + 1] = last /\ \A i \in 0 .. n : g[i] = f[i]
      BY <3>2, <3>3
    <3>5. g \in [0 .. n + 1 -> Nat]
      BY <2>1, <3>1, <3>3
    <3> QED
      BY <3>4, <3>5 DEF last
  <2> HIDE DEF g
  <2>4. ASSUME NEW i \in 1 .. n + 1
        PROVE  g[i] = step[g[i - 1]]
    <3>1. CASE i = n + 1
      BY <2>2, <2>3, <3>1
    <3>2. CASE i # n + 1
      <4>1. i \in 1 .. n /\ i \in 0 .. n /\ i - 1 \in 0 .. n
        BY <3>2
      <4> QED
        BY <2>1, <2>3, <4>1
    <3> QED
      BY <3>1, <3>2
  <2>5. g[0] = a
    BY <2>1, <2>3
  <2>6. Runs(n + 1, g)
    BY <2>4, <2>5
  <2> HIDE DEF Runs
  <2>7. n + 1 \in Nat
    OBVIOUS
  <2> QED
    BY <2>3, <2>6, <2>7
<1> HIDE DEF T
<1>3. \A n \in Nat : n \in T
  BY <1>1, <1>2, Induction
<1> QED
  BY <1>3 DEF T

(* Following a map as long as it goes down. *)
LEMMA Descended ==
  ASSUME NEW next \in [Nat \ {0} -> Nat \ {0}]
  PROVE  \E f \in [Nat \ {0} -> Nat \ {0}] :
           \A x \in Nat \ {0} : f[x] = IF next[x] < x THEN f[next[x]] ELSE x
<1> DEFINE P == Nat \ {0}
           Ends(f, x) == f[x] = IF next[x] < x THEN f[next[x]] ELSE x
           Part(n, f) == f \in [1 .. n -> P] /\ \A x \in 1 .. n : Ends(f, x)
           T == {n \in Nat : \E f : Part(n, f)}
<1>0. \A x \in P : next[x] \in P
  OBVIOUS
<1>1. 0 \in T
  <2>1. [x \in 1 .. 0 |-> 1] \in [1 .. 0 -> P]
    OBVIOUS
  <2>2. Part(0, [x \in 1 .. 0 |-> 1])
    BY <2>1
  <2> QED
    BY <2>2
<1>2. ASSUME NEW n \in Nat, n \in T
      PROVE  n + 1 \in T
  <2>1. PICK f : Part(n, f)
    BY <1>2
  <2> DEFINE m == n + 1
             end == IF next[m] < m THEN f[next[m]] ELSE m
             g == [x \in 1 .. m |-> IF x = m THEN end ELSE f[x]]
  <2>2. m \in P /\ next[m] \in P /\ end \in P
    <3>1. m \in P /\ next[m] \in P
      OBVIOUS
    <3>2. next[m] < m => next[m] \in 1 .. n
      BY <3>1
    <3> QED
      BY <2>1, <3>1, <3>2
  <2>3. g \in [1 .. m -> P] /\ g[m] = end /\ \A x \in 1 .. n : g[x] = f[x]
    <3>1. \A x \in 1 .. m : x # m => x \in 1 .. n
      OBVIOUS
    <3> HIDE DEF end
    <3>2. g \in [1 .. m -> P]
      BY <2>1, <2>2, <3>1
    <3> QED
      BY <2>2, <3>2
  <2>4. ASSUME NEW x \in 1 .. m
        PROVE  Ends(g, x)
    <3>1. x \in P /\ next[x] \in P
      OBVIOUS
    <3>2. next[x] < x => next[x] \in 1 .. n
      BY <3>1
    <3>3. next[x] < x => g[next[x]] = f[next[x]]
      BY <2>3, <3>2
    <3>4. CASE x = m
      BY <2>3, <3>3, <3>4
    <3>5. CASE x # m
      <4>1. x \in 1 .. n
        BY <3>5
      <4>2. g[x] = f[x] /\ Ends(f, x)
        BY <2>1, <2>3, <4>1
      <4> QED
        BY <3>3, <4>2
    <3> QED
      BY <3>4, <3>5
  <2> HIDE DEF g
  <2>5. Part(m, g) /\ n + 1 \in Nat
    BY <2>3, <2>4
  <2> HIDE DEF Part
  <2> QED
    BY <2>5
<1> HIDE DEF T
<1>3. \A n \in Nat : n \in T
  BY <1>1, <1>2, Induction
<1>4. ASSUME NEW m \in Nat, NEW n \in Nat, NEW f, NEW g, Part(m, f), Part(n, g),
             NEW x \in 1 .. m, x <= n
      PROVE  f[x] = g[x]
  <2> DEFINE D == {y \in Nat : y \in 1 .. m /\ y <= n /\ f[y] # g[y]}
  <2>1. SUFFICES ASSUME D # {} PROVE FALSE
    <3>1. x \in Nat /\ (f[x] # g[x] => x \in D)
      BY <1>4
    <3> QED
      BY <3>1
  <2>2. D \subseteq Nat
    OBVIOUS
  <2> HIDE DEF D
  <2>3. PICK y \in D : \A z \in D : y <= z
    BY <2>1, <2>2, LeastOf
  <2>4. y \in 1 .. m /\ y <= n /\ f[y] # g[y]
    BY <2>3 DEF D
  <2>5. y \in 1 .. n /\ next[y] \in P
    BY <1>0, <2>4
  <2>6. Ends(f, y) /\ Ends(g, y)
    BY <1>4, <2>4, <2>5
  <2>7. next[y] < y /\ f[next[y]] # g[next[y]]
    BY <2>4, <2>6
  <2>8. next[y] \in D /\ ~ (y <= next[y])
    BY <2>4, <2>5, <2>7 DEF D
  <2> QED
    BY <2>3, <2>8
<1> DEFINE part(n) == CHOOSE f : Part(n, f)
           F == [x \in P |-> part(x)[x]]
<1>5. ASSUME NEW n \in P PROVE Part(n, part(n))
  <2>1. \E f : Part(n, f)
    <3>1. n \in Nat /\ n \in T
      BY <1>3
    <3> HIDE DEF Part
    <3> QED
      BY <3>1 DEF T
  <2> HIDE DEF Part
  <2> QED
    BY <2>1
<1>6. ASSUME NEW x \in P PROVE F[x] \in P /\ Ends(F, x)
  <2> DEFINE f == part(x)
  <2>1. Part(x, f) /\ x \in 1 .. x /\ F[x] = f[x]
    <3>1. x \in 1 .. x
      OBVIOUS
    <3> HIDE DEF Part, part
    <3>2. Part(x, part(x))
      BY <1>5
    <3> QED
      BY <3>1, <3>2
  <2> HIDE DEF f, F, part
  <2>2. F[x] \in P /\ Ends(f, x)
    BY <2>1
  <2>3. CASE next[x] < x
    <3> DEFINE y == next[x]
    <3>1. y \in P /\ y \in 1 .. x /\ y <= y /\ y \in 1 .. y
      BY <1>0, <2>3
    <3> HIDE DEF y
    <3>2. Part(y, part(y)) /\ F[y] = part(y)[y]
      BY <1>5, <3>1 DEF F
    <3> HIDE DEF Part
    <3>3. f[y] = part(y)[y]
      BY <1>4, <2>1, <3>1, <3>2
    <3> QED
      BY <2>1, <2>2, <2>3, <3>2, <3>3 DEF y
  <2>4. CASE ~ (next[x] < x)
    BY <2>1, <2>2, <2>4
  <2> QED
    BY <2>2, <2>3, <2>4
<1>7. F \in [P -> P]
  BY <1>6
<1> QED
  BY <1>6, <1>7

(* Newton's iteration of the ledger stays with decimals. *)
LEMMA SqrtDecimalNat ==
  ASSUME NEW x \in Nat
  PROVE  sqrtDecimal(x) \in Nat
<1> DEFINE N == 0 .. Iterations
           Next(g) == IF g = 0 \/ Mul(g, g) = x THEN g ELSE Div(g + Div(x, g), 2 * One)
           Eq(f) == f = [i \in N |-> IF i = 0 THEN Div(x, 2 * One) ELSE Next(f[i - 1])]
           guess == CHOOSE f : Eq(f)
           step == [g \in Nat |-> Next(g)]
<1>1. ASSUME NEW a \in Nat, NEW d \in Nat \ {0} PROVE Div(a, d) \in Nat
  <2>1. a * Scale \in Nat
    BY ScaleAssumption
  <2> QED
    BY <2>1, HalfEvenBounds DEF Div
<1>2. 2 * One \in Nat \ {0}
  BY ScaleAssumption DEF One
<1>3. ASSUME NEW g \in Nat PROVE Next(g) \in Nat
  <2>1. CASE g = 0
    BY <2>1
  <2>2. CASE g # 0
    <3>1. Div(x, g) \in Nat
      BY <1>1, <2>2
    <3>2. g + Div(x, g) \in Nat
      BY <3>1
    <3>3. Div(g + Div(x, g), 2 * One) \in Nat
      BY <1>1, <1>2, <3>2
    <3> QED
      BY <3>3
  <2> QED
    BY <2>1, <2>2
<1>4. Div(x, 2 * One) \in Nat
  BY <1>1, <1>2
<1> HIDE DEF Next
<1>5. step \in [Nat -> Nat] /\ \A g \in Nat : step[g] = Next(g)
  BY <1>3
<1> HIDE DEF step
<1>6. \E f \in [N -> Nat] :
        f[0] = Div(x, 2 * One) /\ \A i \in 1 .. Iterations : f[i] = step[f[i - 1]]
  <2>1. ASSUME NEW a \in Nat
        PROVE  \A n \in Nat : \E f \in [0 .. n -> Nat] :
                 f[0] = a /\ \A i \in 1 .. n : f[i] = step[f[i - 1]]
    <3>1. step \in [Nat -> Nat]
      BY <1>5
    <3> QED
      BY <3>1, Iterated
  <2>2. Iterations \in Nat
    BY DEF Iterations
  <2> QED
    BY <1>4, <2>1, <2>2
<1>7. \E f : f \in [N -> Nat] /\ Eq(f)
  <2>1. PICK f \in [N -> Nat] :
          f[0] = Div(x, 2 * One) /\ \A i \in 1 .. Iterations : f[i] = step[f[i - 1]]
    BY <1>6
  <2>2. ASSUME NEW i \in N, i # 0
        PROVE  i \in 1 .. Iterations /\ i - 1 \in N /\ f[i] = Next(f[i - 1])
    <3>1. i \in 1 .. Iterations /\ i - 1 \in N
      BY <2>2 DEF Iterations
    <3> QED
      BY <1>5, <2>1, <3>1
  <2>3. Eq(f)
    BY <2>1, <2>2
  <2> HIDE DEF Eq
  <2> QED
    BY <2>3
<1>8. Eq(guess)
  <2> HIDE DEF Eq
  <2> QED
    BY <1>7
<1> HIDE DEF guess
<1> DEFINE T == {i \in Nat : i <= Iterations => guess[i] \in Nat}
<1>9. 0 \in T
  BY <1>4, <1>8 DEF Iterations
<1>10. ASSUME NEW i \in Nat, i \in T PROVE i + 1 \in T
  <2>1. SUFFICES ASSUME i + 1 <= Iterations PROVE guess[i + 1] \in Nat
    OBVIOUS
  <2>2. i + 1 \in N /\ i + 1 # 0 /\ (i + 1) - 1 = i /\ guess[i] \in Nat
    BY <1>10, <2>1 DEF Iterations
  <2> QED
    BY <1>3, <1>8, <2>2
<1> HIDE DEF T
<1>11. \A i \in Nat : i \in T
  BY <1>9, <1>10, Induction
<1>12. guess[Iterations] \in Nat
  BY <1>11 DEF T, Iterations
<1>13. sqrtDecimal(x) = IF x <= 0 THEN 0 ELSE guess[Iterations]
  BY DEF sqrtDecimal, guess, Next
<1> QED
  BY <1>12, <1>13

(* One step of Newton's iteration, from anywhere above the root or at it.     *)
LEMMA NewtonStep ==
  ASSUME NEW n \in Nat, n >= 2, NEW x \in Nat \ {0}
  PROVE  LET y == (x + n \div x) \div 2
         IN  /\ y \in Nat \ {0}
             /\ n < (y + 1) * (y + 1)
             /\ y >= x => x * x <= n
<1> DEFINE k == n \div x
           y == (x + k) \div 2
<1>1. k \in Nat /\ x * k <= n /\ n < x * (k + 1) /\ (x = 1 => k = n)
  <2>1. k \in Nat /\ n % x \in 0 .. (x - 1) /\ n = x * k + (n % x)
    BY Division
  <2>2. x * (k + 1) = x * k + x
    BY <2>1
  <2> QED
    BY <2>1, <2>2
<1> HIDE DEF k
<1>2. y \in Nat /\ 2 * y <= x + k /\ x + k <= 2 * y + 1
  <2>1. x + k \in Nat
    BY <1>1
  <2> QED
    BY <2>1
<1>3. x + k >= 2
  BY <1>1
<1> HIDE DEF y
<1>4. y # 0
  BY <1>1, <1>2, <1>3
<1>5. n < (y + 1) * (y + 1)
  <2> DEFINE a == x  b == k + 1  m == a + b  h == 2 * (y + 1)
  <2>1. m * m = 4 * (a * b) + (a - b) * (a - b)
    BY <1>1
  <2>2. (a - b) * (a - b) >= 0
    <3>1. a - b \in Int
      BY <1>1
    <3> HIDE DEF a, b
    <3> DEFINE d == a - b
    <3>2. d \in Int
      BY <3>1
    <3> HIDE DEF d
    <3>3. d * d >= 0
      BY <3>2
    <3> QED
      BY <3>3 DEF d
  <2>3. a * b > n /\ a * b \in Nat
    BY <1>1
  <2>4. m \in Nat /\ h \in Nat /\ m <= h
    BY <1>1, <1>2
  <2>5. h * h = 4 * ((y + 1) * (y + 1)) /\ (y + 1) * (y + 1) \in Nat
    BY <1>2
  <2>6. m * m <= h * h /\ m * m \in Nat
    <3> HIDE DEF m, h
    <3>1. m * m <= m * h /\ m * h <= h * h
      BY <2>4
    <3>2. m * m \in Nat /\ m * h \in Nat /\ h * h \in Nat
      BY <2>4
    <3> QED
      BY <3>1, <3>2
  <2> DEFINE sq == (a - b) * (a - b)  ab == a * b  yy == (y + 1) * (y + 1)  mm == m * m  hh == h * h
  <2>7. /\ mm = 4 * ab + sq /\ sq >= 0 /\ ab > n /\ ab \in Nat /\ hh = 4 * yy /\ yy \in Nat
        /\ mm <= hh /\ mm \in Nat /\ sq \in Int
    BY <1>1, <2>1, <2>2, <2>3, <2>5, <2>6
  <2> HIDE DEF sq, ab, yy, mm, hh, m, h, a, b
  <2>8. n < yy
    BY <2>7
  <2> QED
    BY <2>8 DEF yy
<1>6. ASSUME y >= x PROVE x * x <= n
  <2>1. x <= k
    BY <1>1, <1>2, <1>6
  <2>2. x * x <= x * k /\ x * k \in Nat /\ x * x \in Nat
    BY <1>1, <2>1
  <2> QED
    BY <1>1, <2>2
<1> QED
  BY <1>2, <1>4, <1>5, <1>6 DEF y, k

(* The backend's square root is the integer one, of every number of ulps: the *)
(* iteration of decimal.ts, from above, ends with it.                         *)
THEOREM IntegerRoot ==
  ASSUME NEW n \in Nat
  PROVE  /\ isqrt(n) \in Nat
         /\ isqrt(n) * isqrt(n) <= n
         /\ n < (isqrt(n) + 1) * (isqrt(n) + 1)
<1> DEFINE P == Nat \ {0}
           Root(r) == r \in Nat /\ r * r <= n /\ n < (r + 1) * (r + 1)
           next == [x \in P |-> (x + n \div x) \div 2]
           Eq(f) == f = [x \in P |-> LET y == (x + n \div x) \div 2
                                     IN IF y < x THEN f[y] ELSE x]
           from == CHOOSE f : Eq(f)
<1>1. CASE n < 2
  <2>1. isqrt(n) = n /\ n \in {0, 1}
    BY <1>1 DEF isqrt
  <2> QED
    BY <2>1
<1>2. CASE n >= 2
  <2>1. \A x \in P : (x + n \div x) \div 2 \in P
    BY <1>2, NewtonStep
  <2>2. next \in [P -> P] /\ \A x \in P : next[x] = (x + n \div x) \div 2
    BY <2>1
  <2> HIDE DEF next
  <2>3. PICK f \in [P -> P] : \A x \in P : f[x] = IF next[x] < x THEN f[next[x]] ELSE x
    BY <2>2, Descended
  <2>4. Eq(f)
    BY <2>2, <2>3
  <2>5. Eq(from)
    <3> HIDE DEF Eq
    <3> QED
      BY <2>4
  <2> HIDE DEF from
  <2>6. \A x \in P : from[x] = IF next[x] < x THEN from[next[x]] ELSE x
    BY <2>2, <2>5
  <2>7. ASSUME NEW x \in P
        PROVE  n < (next[x] + 1) * (next[x] + 1) /\ (next[x] >= x => x * x <= n)
    BY <1>2, <2>2, NewtonStep
  <2> DEFINE Above(x) == n < (x + 1) * (x + 1)
             Bad == {x \in P : Above(x) /\ ~Root(from[x])}
  <2>8. Bad = {}
    <3> SUFFICES ASSUME Bad # {} PROVE FALSE
      OBVIOUS
    <3>1. Bad \subseteq Nat
      OBVIOUS
    <3> HIDE DEF Bad
    <3>2. PICK x \in Bad : \A y \in Bad : x <= y
      BY <3>1, LeastOf
    <3> HIDE DEF Root, Above
    <3>3. x \in P /\ Above(x) /\ ~Root(from[x]) /\ next[x] \in P
      BY <2>2, <3>2 DEF Bad
    <3>4. CASE next[x] < x
      <4>1. from[next[x]] = from[x]
        BY <2>6, <3>3, <3>4
      <4>2. Above(next[x])
        BY <2>7, <3>3 DEF Above
      <4>3. next[x] \in Bad
        BY <3>3, <4>1, <4>2 DEF Bad
      <4> QED
        BY <3>2, <3>3, <3>4, <4>3
    <3>5. CASE ~(next[x] < x)
      <4>1. from[x] = x
        BY <2>6, <3>3, <3>5
      <4>2. x * x <= n
        BY <2>7, <3>3, <3>5
      <4>3. Root(x)
        BY <3>3, <4>2 DEF Root, Above
      <4> QED
        BY <3>3, <4>1, <4>3
    <3> QED
      BY <3>4, <3>5
  <2>9. n \in P /\ Above(n)
    <3>1. (n + 1) * (n + 1) = n * n + 2 * n + 1 /\ n * n \in Nat
      OBVIOUS
    <3> QED
      BY <1>2, <3>1
  <2> HIDE DEF Root, Above
  <2>10. Root(from[n])
    BY <2>8, <2>9
  <2>11. isqrt(n) = from[n]
    BY <1>2 DEF isqrt, from
  <2> QED
    BY <2>10, <2>11 DEF Root
<1> QED
  BY <1>1, <1>2

(* The parameters of the page and of the pool. *)
LEMMA Parameters ==
  /\ FeeBps \in Nat /\ FeeBps <= 9999 /\ SlipPermille \in 0 .. 1000
  /\ Dust \in Nat /\ Display \in Nat \ {0}
  /\ Typed \subseteq Nat \ {0} /\ Percents \subseteq Nat
BY ScreensAssumption

(* Rounding half even keeps the order of fractions. *)
LEMMA HalfEvenOrder ==
  ASSUME NEW n1 \in Nat, NEW d1 \in Nat \ {0}, NEW n2 \in Nat, NEW d2 \in Nat \ {0},
         n1 * d2 <= n2 * d1
  PROVE  HalfEven(n1, d1) <= HalfEven(n2, d2)
<1> DEFINE q1 == n1 \div d1  r1 == n1 % d1
           q2 == n2 \div d2  r2 == n2 % d2
           Up(q, r, d) == 2 * r > d \/ (2 * r = d /\ q % 2 = 1)
<1>1. /\ q1 \in Nat /\ r1 \in 0 .. (d1 - 1) /\ n1 = d1 * q1 + r1
      /\ q2 \in Nat /\ r2 \in 0 .. (d2 - 1) /\ n2 = d2 * q2 + r2
  BY Division
<1>2. /\ HalfEven(n1, d1) = IF Up(q1, r1, d1) THEN q1 + 1 ELSE q1
      /\ HalfEven(n2, d2) = IF Up(q2, r2, d2) THEN q2 + 1 ELSE q2
  BY DEF HalfEven
<1> HIDE DEF q1, r1, q2, r2
<1> DEFINE d == d1 * d2
<1>3. d \in Nat \ {0} /\ r1 * d2 \in Nat /\ r2 * d1 \in Nat
  BY <1>1
<1>4. n1 * d2 = q1 * d + r1 * d2 /\ n2 * d1 = q2 * d + r2 * d1
  BY <1>1
<1>5. r2 * d1 < d
  <2>1. r2 * d1 <= (d2 - 1) * d1
    BY <1>1
  <2>2. (d2 - 1) * d1 = d - d1
    OBVIOUS
  <2> QED
    BY <1>3, <2>1, <2>2
<1>6. q1 <= q2
  <2> HIDE DEF d
  <2>1. q1 * d < q2 * d + d
    BY <1>1, <1>3, <1>4, <1>5
  <2>2. q2 * d + d = (q2 + 1) * d
    BY <1>1, <1>3
  <2>3. q1 < q2 + 1
    BY <1>1, <1>3, <2>1, <2>2, CancelFactor
  <2> QED
    BY <1>1, <2>3
<1>7. CASE q1 < q2
  BY <1>1, <1>2, <1>7
<1>8. CASE q1 = q2
  <2>1. r1 * d2 <= r2 * d1
    BY <1>1, <1>3, <1>4, <1>8
  <2>2. 2 * r1 > d1 => 2 * r2 > d2
    <3> SUFFICES ASSUME 2 * r1 > d1 PROVE 2 * r2 > d2
      OBVIOUS
    <3>1. (2 * r1) * d2 > d1 * d2
      BY <1>1
    <3>2. d2 * d1 < (2 * r2) * d1
      BY <1>1, <2>1, <3>1
    <3> QED
      BY <1>1, <3>2, CancelFactor
  <2>3. 2 * r1 = d1 => 2 * r2 >= d2
    <3> SUFFICES ASSUME 2 * r1 = d1 PROVE 2 * r2 >= d2
      OBVIOUS
    <3>1. (2 * r1) * d2 = d1 * d2
      OBVIOUS
    <3>2. d2 * d1 <= (2 * r2) * d1
      BY <1>1, <2>1, <3>1
    <3> QED
      BY <1>1, <3>2, CancelFactor
  <2>4. Up(q1, r1, d1) => Up(q2, r2, d2)
    BY <1>1, <1>8, <2>2, <2>3
  <2> QED
    BY <1>1, <1>2, <1>8, <2>4
<1> QED
  BY <1>1, <1>6, <1>7, <1>8

(* A number as it is filled in or sent is a number of ulps. *)
LEMMA FixedNat ==
  ASSUME NEW n \in Nat, NEW d \in Nat \ {0}, NEW unit \in Nat \ {0}
  PROVE  toFixed(n, d, unit) \subseteq Nat
<1> DEFINE k == n \div (d * unit)
<1>1. d * unit \in Nat \ {0}
  OBVIOUS
<1>2. k \in Nat
  BY <1>1, Division
<1> HIDE DEF k
<1>3. k * unit \in Nat /\ (k + 1) * unit \in Nat
  BY <1>2
<1> QED
  BY <1>3 DEF toFixed, k

LEMMA SlippedNat ==
  ASSUME NEW n \in Nat, NEW d \in Nat \ {0}
  PROVE  Slipped(n, d) \subseteq Nat
<1>1. n * (1000 - SlipPermille) \in Nat /\ d * 1000 \in Nat \ {0}
  BY Parameters
<1> QED
  BY <1>1, FixedNat DEF Slipped

(* What is accepted of a whole number, after slippage, is no more than it. *)
LEMMA SlippedDown ==
  ASSUME NEW n \in Nat, NEW m \in Slipped(n, 1)
  PROVE  m \in Nat /\ m <= n
<1>1. m \in Nat
  BY SlippedNat
<1> DEFINE cut == n * SlipPermille
           off == m * (1 * 1000) - n * (1000 - SlipPermille)
<1>2. cut \in Nat /\ n * (1000 - SlipPermille) = 1000 * n - cut
  BY Parameters
<1>3. 2 * off <= (1 * 1000) * 1
  BY DEF Slipped, toFixed
<1> HIDE DEF cut
<1> QED
  BY <1>1, <1>2, <1>3

(* Neither side of the arithmetic leaves the natural numbers. *)
LEMMA QuotientNat ==
  ASSUME NEW n \in Nat, NEW d \in Nat \ {0}
  PROVE  div(n, d) \in Nat /\ Div(n, d) = div(n, d)
<1>1. n * Scale \in Nat
  BY ScaleAssumption
<1> QED
  BY <1>1, HalfEvenBounds DEF div, Div

LEMMA ProductNat ==
  ASSUME NEW a \in Nat, NEW b \in Nat
  PROVE  mul(a, b) \in Nat /\ Mul(a, b) = mul(a, b)
<1>1. a * b \in Nat
  OBVIOUS
<1> QED
  BY <1>1, ScaleAssumption, HalfEvenBounds DEF mul, Mul

LEMMA RootNat ==
  ASSUME NEW n \in Nat
  PROVE  sqrt(n) \in Nat
<1>1. n * Scale \in Nat
  BY ScaleAssumption
<1> QED
  BY <1>1, IntegerRoot DEF sqrt

-----------------------------------------------------------------------------
(* What the computations for a pool return. *)

Sides  == {"base", "quote"}
Offers == [base : Nat, quote : Nat, lp : Nat]

(* A swap's output leaves something in the pool, and is what was quoted. *)
LEMMA SwapPays ==
  ASSUME NEW pool, IsPool(pool), NEW s \in Sides, NEW x \in Nat
  PROVE  LET out == swapOutput(pool, s, FeeBps, x)
         IN  /\ out \in Nat /\ out < pool.reserve[Other(s)]
             /\ out = computeQuote(pool, s, FeeBps, x)
             /\ out * pool.reserve[s] <= x * pool.reserve[Other(s)]
<1> DEFINE rIn == pool.reserve[s]
           rOut == pool.reserve[Other(s)]
           out == constantProductOut(rIn, rOut, FeeBps, x)
<1>1. rIn \in Nat \ {0} /\ rOut \in Nat \ {0} /\ FeeBps \in Nat /\ FeeBps <= 9999
  <2>1. Other(s) \in Sides
    BY DEF Other, Sides
  <2>2. \A t \in Sides : pool.reserve[t] \in Nat \ {0}
    BY DEF IsPool, Sides
  <2> QED
    BY <2>1, <2>2, Parameters
<1>2. swapOutput(pool, s, FeeBps, x) = out
  BY DEF swapOutput
<1>3. computeQuote(pool, s, FeeBps, x) = out
  BY <1>1, <1>2, QuoteIsSettled DEF Sides
<1> HIDE DEF rIn, rOut
<1>4. out \in Nat /\ out < rOut /\ (rIn + x) * (rOut - out) >= rIn * rOut
  BY <1>1, ConstantProduct
<1> HIDE DEF out
<1>5. out * rIn <= x * rOut
  <2>1. (rIn + x) * (rOut - out) = rIn * rOut - out * rIn + x * rOut - x * out
    BY <1>1, <1>4
  <2>2. /\ rIn * rOut \in Nat /\ out * rIn \in Nat /\ x * rOut \in Nat /\ x * out \in Nat
    BY <1>1, <1>4
  <2> QED
    BY <1>4, <2>1, <2>2
<1> QED
  BY <1>2, <1>3, <1>4, <1>5 DEF rIn, rOut

(* The price is never shown better than the pool's own before the swap. *)
LEMMA QuoteHonest ==
  ASSUME NEW pool, IsPool(pool), NEW s \in Sides, NEW x \in Nat
  PROVE  LET quote == computeQuoteDetailed(pool, s, FeeBps, x)
         IN  /\ quote.outputAmount = computeQuote(pool, s, FeeBps, x)
             /\ quote.outputAmount \in Nat
             /\ quote.priceImpact \in Nat
<1> DEFINE rIn == pool.reserve[s]
           rOut == pool.reserve[Other(s)]
           out == computeQuote(pool, s, FeeBps, x)
           paid == IF x > 0 THEN div(out, x) ELSE 0
           spot == div(rOut, rIn)
           impact == IF spot > 0 THEN div(spot - paid, spot) ELSE 0
<1>1. rIn \in Nat \ {0} /\ rOut \in Nat \ {0}
  BY DEF IsPool, Other, Sides
<1>2. out \in Nat /\ out * rIn <= x * rOut
  BY SwapPays
<1>3. /\ computeQuoteDetailed(pool, s, FeeBps, x).outputAmount = out
      /\ computeQuoteDetailed(pool, s, FeeBps, x).priceImpact = impact
  BY <1>1 DEF computeQuoteDetailed
<1> HIDE DEF out, rIn, rOut
<1>4. spot \in Nat /\ paid \in Nat /\ paid <= spot
  <2>1. spot \in Nat
    BY <1>1, QuotientNat
  <2>2. CASE x = 0
    BY <2>1, <2>2
  <2>3. CASE x # 0
    <3>1. x \in Nat \ {0} /\ out * Scale \in Nat /\ rOut * Scale \in Nat
      BY <1>1, <1>2, <2>3, ScaleAssumption
    <3>2. (out * Scale) * rIn <= (rOut * Scale) * x
      <4>1. /\ (out * Scale) * rIn = (out * rIn) * Scale
            /\ (rOut * Scale) * x = (x * rOut) * Scale
        BY <1>1, <1>2, ScaleAssumption
      <4>2. out * rIn \in Nat /\ x * rOut \in Nat
        BY <1>1, <1>2
      <4>3. \A a, b \in Nat : a <= b => a * Scale <= b * Scale
        BY ScaleAssumption
      <4> QED
        BY <1>2, <4>1, <4>2, <4>3
    <3>3. HalfEven(out * Scale, x) <= HalfEven(rOut * Scale, rIn)
      BY <1>1, <3>1, <3>2, HalfEvenOrder
    <3>4. paid = div(out, x) /\ paid \in Nat
      BY <1>2, <3>1, QuotientNat
    <3> QED
      BY <2>1, <3>3, <3>4 DEF div
  <2> QED
    BY <2>2, <2>3
<1> HIDE DEF spot, paid
<1>5. impact \in Nat
  BY <1>4, QuotientNat
<1> QED
  BY <1>2, <1>3, <1>5 DEF out

(* The part of a deposit that the pool keeps. *)
LEMMA KeepsSome ==
  ASSUME NEW pool, IsPool(pool), pool.supply # 0,
         NEW offer, offer.base \in Nat \ {0}, offer.quote \in Nat \ {0}
  PROVE  \A s \in Sides : kept(pool, offer)[s] \in Nat \ {0}
<1> DEFINE B == offer.base  Q == offer.quote
           rB == pool.reserve.base  rQ == pool.reserve.quote
           b == ceilMulDiv(Q, rB, rQ)
           q == ceilMulDiv(B, rQ, rB)
<1>1. B \in Nat \ {0} /\ Q \in Nat \ {0} /\ rB \in Nat \ {0} /\ rQ \in Nat \ {0}
  BY DEF IsPool
<1>2. ASSUME NEW x \in Nat \ {0}, NEW y \in Nat \ {0}, NEW d \in Nat \ {0}
      PROVE  ceilMulDiv(x, y, d) \in Nat \ {0}
  <2>1. x * y \in Nat \ {0}
    BY <1>2
  <2> DEFINE c == ceilMulDiv(x, y, d)
  <2>2. c \in Nat /\ c * d >= x * y
    BY CeilMulDivBounds
  <2> HIDE DEF c
  <2>3. c # 0
    BY <2>1, <2>2
  <2> QED
    BY <2>2, <2>3 DEF c
<1>3. b \in Nat \ {0} /\ q \in Nat \ {0}
  <2> HIDE DEF B, Q, rB, rQ
  <2> QED
    BY <1>1, <1>2
<1>4. \/ kept(pool, offer) = [base |-> AtMost(b, B), quote |-> Q]
      \/ kept(pool, offer) = [base |-> B, quote |-> AtMost(q, Q)]
  BY DEF kept, ratioMatchedDeposit
<1> HIDE DEF B, Q, b, q
<1>5. AtMost(b, B) \in Nat \ {0} /\ AtMost(q, Q) \in Nat \ {0}
  BY <1>1, <1>3 DEF AtMost
<1>6. CASE kept(pool, offer) = [base |-> AtMost(b, B), quote |-> Q]
  BY <1>1, <1>5, <1>6 DEF Sides
<1>7. CASE kept(pool, offer) = [base |-> B, quote |-> AtMost(q, Q)]
  BY <1>1, <1>5, <1>7 DEF Sides
<1> QED
  BY <1>4, <1>6, <1>7

(* What a deposit is told, of a pool that has a ratio, is what it gets. *)
LEMMA MatchIsFair ==
  ASSUME NEW pool, IsPool(pool), pool.supply # 0,
         NEW offer \in Offers, offer.base # 0, offer.quote # 0
  PROVE  /\ matchLiquidity(pool, offer)
              = [lp |-> fairLp(pool, offer), base |-> kept(pool, offer).base,
                 quote |-> kept(pool, offer).quote]
         /\ fairLp(pool, offer) \in Nat
<1>1. /\ matchLiquidity(pool, offer).base = kept(pool, offer).base
      /\ matchLiquidity(pool, offer).quote = kept(pool, offer).quote
  BY RefundIsSettled DEF Offers
<1> DEFINE by(s) == div(mul(offer[s], pool.supply), pool.reserve[s])
<1>2. matchLiquidity(pool, offer).lp = AtMost(by("base"), by("quote"))
  BY DEF matchLiquidity
<1>3. fairLp(pool, offer) = AtMost(by("base"), by("quote"))
  BY DEF fairLp, Div, Mul, div, mul
<1>4. /\ offer["base"] \in Nat /\ offer["quote"] \in Nat /\ pool.supply \in Nat
      /\ pool.reserve["base"] \in Nat \ {0} /\ pool.reserve["quote"] \in Nat \ {0}
  BY DEF IsPool, Offers
<1>5. by("base") \in Nat /\ by("quote") \in Nat
  <2>1. mul(offer["base"], pool.supply) \in Nat /\ mul(offer["quote"], pool.supply) \in Nat
    BY <1>4, ProductNat
  <2> QED
    BY <1>4, <2>1, QuotientNat
<1> HIDE DEF by
<1>6. AtMost(by("base"), by("quote")) \in Nat
  BY <1>5 DEF AtMost
<1>7. \E l, b, q : matchLiquidity(pool, offer) = [lp |-> l, base |-> b, quote |-> q]
  BY DEF matchLiquidity
<1> QED
  BY <1>1, <1>2, <1>3, <1>6, <1>7

(* The same of a pool without a supply, as far as the two square roots agree. *)
LEMMA FirstDeposit ==
  ASSUME NEW pool, pool.supply = 0, NEW offer \in Offers
  PROVE  LET product == mul(offer.base, offer.quote)
         IN  /\ matchLiquidity(pool, offer)
                  = [lp |-> sqrt(product), base |-> offer.base, quote |-> offer.quote]
             /\ fairLp(pool, offer) = sqrtDecimal(product)
             /\ sqrt(product) \in Nat /\ sqrtDecimal(product) \in Nat
             /\ kept(pool, offer) = [s \in Sides |-> offer[s]]
<1>1. offer.base \in Nat /\ offer.quote \in Nat
  BY DEF Offers
<1>2. /\ mul(offer.base, offer.quote) \in Nat
      /\ Mul(offer.base, offer.quote) = mul(offer.base, offer.quote)
  BY <1>1, ProductNat
<1>3. /\ sqrt(mul(offer.base, offer.quote)) \in Nat
      /\ sqrtDecimal(mul(offer.base, offer.quote)) \in Nat
  BY <1>2, RootNat, SqrtDecimalNat
<1> QED
  BY <1>2, <1>3 DEF matchLiquidity, fairLp, kept, Sides

(* A redemption of part of the supply leaves part of either reserve. *)
LEMMA RedeemsShare ==
  ASSUME NEW pool, IsPool(pool), NEW lp \in Nat, lp <= pool.supply, pool.supply # 0
  PROVE  /\ removePlan(pool, lp) = redeemed(pool, lp)
         /\ \A s \in Sides : /\ redeemed(pool, lp)[s] \in Nat
                             /\ redeemed(pool, lp)[s] <= pool.reserve[s]
                             /\ redeemed(pool, lp)[s] = pool.reserve[s] <=> lp = pool.supply
<1>1. removePlan(pool, lp) = redeemed(pool, lp)
  BY RedemptionIsSettled
<1>2. pool.supply \in Nat \ {0} /\ \A s \in Sides : pool.reserve[s] \in Nat \ {0}
  BY DEF IsPool, Sides
<1>3. ASSUME NEW s \in Sides
      PROVE  redeemed(pool, lp)[s] = floorMul(pool.reserve[s], floorDiv(lp, pool.supply))
  BY DEF redeemed, Sides
<1>4. ASSUME NEW s \in Sides
      PROVE  /\ redeemed(pool, lp)[s] \in Nat
             /\ redeemed(pool, lp)[s] <= pool.reserve[s]
             /\ redeemed(pool, lp)[s] = pool.reserve[s] <=> lp = pool.supply
  <2> DEFINE r == pool.reserve[s]
             n == pool.supply
             out == floorMul(r, floorDiv(lp, n))
  <2>1. r \in Nat \ {0} /\ n \in Nat \ {0} /\ lp <= n
    BY <1>2
  <2>2. out \in Nat /\ out <= r /\ (out = r <=> lp = n)
    <3> HIDE DEF r, n
    <3> QED
      BY <2>1, ShareOfReserve
  <2>3. redeemed(pool, lp)[s] = out
    BY <1>3
  <2> QED
    BY <2>2, <2>3
<1> QED
  BY <1>1, <1>4

-----------------------------------------------------------------------------
(* What the trader is shown.  A quote knows the number of the PoolState it is *)
(* for, and so does the answer to a request: either tells the truth as long   *)
(* as that PoolState is the active one.                                       *)

Quotations == [out : Nat, impact : Nat, nth : Nat]
Forms == [what : {"nothing", "swap", "add", "remove"}, side : Sides, offer : Offers,
          shown : Quotations]
Trips == [step : {"none", "clicked", "asked", "settled", "refused"}, form : Forms,
          min : Offers, told : Offers, got : Offers, supply : Nat, at : Nat, end : Nat]

IsMarket(m) ==
  /\ m \in [nth : Nat, status : {"Unfunded", "Active", "Paused"},
            reserve : [Sides -> Nat], supply : Nat]
  /\ \A s \in Sides : m.reserve[s] = 0 <=> m.supply = 0

MarketInv ==
  /\ IsMarket(market) /\ market.nth >= 1
  /\ market.status = "Unfunded" <=> market.supply = 0
  /\ lpHeld \in Int /\ lpHeld <= market.supply

Quoted(f) ==
  /\ f.shown.nth <= market.nth
  /\ (f.what = "swap" /\ f.shown.nth = market.nth) =>
       /\ market.status = "Active"
       /\ f.shown.out = computeQuote(market, f.side, FeeBps, f.offer[f.side])

Promised == trip.step # "none" =>
  /\ trip.form.what = "swap" => /\ trip.form.shown.out > 0
                                /\ trip.min[Other(trip.form.side)] <= trip.form.shown.out
  /\ trip.form.what = "add" => /\ trip.form.offer.base > 0 /\ trip.form.offer.quote > 0
                               /\ trip.min.base = 0 /\ trip.min.quote = 0
  /\ trip.form.what = "remove" => trip.min.lp = 0

SwapStands == LET o == Other(trip.form.side) IN
  /\ market.status = "Active"
  /\ trip.told[o] = swapOutput(market, trip.form.side, FeeBps, trip.form.offer[trip.form.side])
  /\ trip.told[o] >= trip.min[o]
AddStands == Listed /\ trip.told = matchLiquidity(market, trip.form.offer)
RemoveStands == LET out == redeemed(market, trip.form.offer.lp) IN
  /\ market.status = "Active" /\ trip.form.offer.lp <= market.supply
  /\ trip.told = [base |-> out.base, quote |-> out.quote, lp |-> 0]

Stands == trip.step = "asked" =>
  /\ trip.form.shown.nth <= trip.at /\ trip.at <= market.nth
  /\ trip.form.what = "add" => trip.told.lp > 0
  /\ trip.form.what = "remove" => trip.form.offer.lp > 0
  /\ trip.at = market.nth =>
       /\ trip.supply = market.supply
       /\ trip.form.what = "swap" => SwapStands
       /\ trip.form.what = "add" => AddStands
       /\ trip.form.what = "remove" => RemoveStands

ScreensInv ==
  /\ MarketInv /\ IsMarket(view) /\ form \in Forms /\ trip \in Trips
  /\ Quoted(form) /\ Quoted(trip.form) /\ Promised /\ Stands /\ AsShown

(* For a first deposit the backend takes the integer root and the ledger its  *)
(* own iteration in decimals: they are to agree within the ledger's tolerance. *)
RootsAgree == (trip.step = "asked" /\ trip.form.what = "add" /\ market.supply = 0) =>
  LET product == mul(trip.form.offer.base, trip.form.offer.quote)
  IN  /\ sqrt(product) - sqrtDecimal(product) <= Dust
      /\ sqrtDecimal(product) - sqrt(product) <= Dust

LEMMA MarketIsPool ==
  ASSUME NEW m, IsMarket(m), m.supply # 0
  PROVE  IsPool(m)
BY DEF IsMarket, IsPool, Sides

LEMMA OfferSides ==
  ASSUME NEW offer \in Offers, NEW s \in Sides
  PROVE  offer[s] \in Nat /\ Other(s) \in Sides /\ Other(s) # s /\ Other(Other(s)) = s
BY DEF Offers, Sides, Other

LEMMA OneSide ==
  ASSUME NEW s \in Sides, NEW n \in Nat
  PROVE  /\ [Zero EXCEPT ![s] = n] \in Offers
         /\ [Zero EXCEPT ![s] = n][s] = n
         /\ [Zero EXCEPT ![s] = n].lp = 0
<1>1. Zero = [base |-> 0, quote |-> 0, lp |-> 0]
  BY DEF Zero
<1>2. CASE s = "base"
  <2>1. [Zero EXCEPT ![s] = n] = [base |-> n, quote |-> 0, lp |-> 0]
    BY <1>1, <1>2
  <2> QED
    BY <1>2, <2>1 DEF Offers
<1>3. CASE s = "quote"
  <2>1. [Zero EXCEPT ![s] = n] = [base |-> 0, quote |-> n, lp |-> 0]
    BY <1>1, <1>3
  <2> QED
    BY <1>3, <2>1 DEF Offers
<1> QED
  BY <1>2, <1>3 DEF Sides

LEMMA BothSides ==
  ASSUME NEW s \in Sides, NEW x \in Nat, NEW y \in Nat
  PROVE  [Zero EXCEPT ![s] = x, ![Other(s)] = y] \in Offers
<1>1. Zero = [base |-> 0, quote |-> 0, lp |-> 0]
  BY DEF Zero
<1>2. CASE s = "base"
  <2>1. [Zero EXCEPT ![s] = x, ![Other(s)] = y] = [base |-> x, quote |-> y, lp |-> 0]
    BY <1>1, <1>2 DEF Other
  <2> QED
    BY <2>1 DEF Offers
<1>3. CASE s = "quote"
  <2>1. [Zero EXCEPT ![s] = x, ![Other(s)] = y] = [base |-> y, quote |-> x, lp |-> 0]
    BY <1>1, <1>3 DEF Other
  <2> QED
    BY <2>1 DEF Offers
<1> QED
  BY <1>2, <1>3 DEF Sides

(* A deposit of something on either side leaves something on either side. *)
LEMMA KeptSome ==
  ASSUME NEW m, IsMarket(m),
         NEW offer, offer.base \in Nat \ {0}, offer.quote \in Nat \ {0}
  PROVE  \A s \in Sides : kept(m, offer)[s] \in Nat \ {0}
<1>1. CASE m.supply = 0
  <2>1. kept(m, offer) = [s \in Sides |-> offer[s]]
    BY <1>1 DEF kept, Sides
  <2> QED
    BY <2>1 DEF Sides
<1>2. CASE m.supply # 0
  BY <1>2, MarketIsPool, KeepsSome
<1> QED
  BY <1>1, <1>2

LEMMA FairNat ==
  ASSUME NEW m, IsMarket(m), NEW offer \in Offers, offer.base # 0, offer.quote # 0
  PROVE  fairLp(m, offer) \in Nat /\ matchLiquidity(m, offer) \in Offers
<1>1. CASE m.supply = 0
  BY <1>1, FirstDeposit DEF Offers
<1>2. CASE m.supply # 0
  <2>1. IsPool(m)
    BY <1>2, MarketIsPool
  <2>2. /\ matchLiquidity(m, offer)
              = [lp |-> fairLp(m, offer), base |-> kept(m, offer).base,
                 quote |-> kept(m, offer).quote]
        /\ fairLp(m, offer) \in Nat
    BY <1>2, <2>1, MatchIsFair
  <2>3. kept(m, offer).base \in Nat /\ kept(m, offer).quote \in Nat
    <3>1. offer.base \in Nat \ {0} /\ offer.quote \in Nat \ {0}
      BY DEF Offers
    <3> QED
      BY <3>1, KeptSome DEF Sides
  <2> QED
    BY <2>2, <2>3 DEF Offers
<1> QED
  BY <1>1, <1>2

(* The pool's next state. *)
LEMMA PoolMoves ==
  ASSUME MarketInv, NEW reserve \in [Sides -> Nat], NEW supply \in Nat,
         NEW status \in {"Unfunded", "Active", "Paused"},
         \A s \in Sides : reserve[s] = 0 <=> supply = 0,
         status = "Unfunded" <=> supply = 0,
         Becomes(reserve, supply, status),
         lpHeld' \in Int, lpHeld' <= supply
  PROVE  MarketInv' /\ market'.nth = market.nth + 1
BY DEF MarketInv, IsMarket, Becomes

LEMMA QuotedStill ==
  ASSUME MarketInv, form \in Forms, trip \in Trips, Quoted(form), Quoted(trip.form),
         market'.nth = market.nth + 1
  PROVE  /\ form' = form => Quoted(form)'
         /\ trip'.form = trip.form => Quoted(trip.form)'
<1>1. market.nth \in Nat
  BY DEF MarketInv, IsMarket
<1>2. form.shown.nth \in Nat /\ trip.form.shown.nth \in Nat
  BY DEF Forms, Trips, Quotations
<1> QED
  BY <1>1, <1>2 DEF Quoted

LEMMA NewForm ==
  ASSUME ScreensInv, UNCHANGED <<market, view, trip, lpHeld>>, form' \in Forms, Quoted(form)'
  PROVE  ScreensInv'
<1> USE DEF ScreensInv
<1>1. MarketInv' /\ IsMarket(view)' /\ (trip \in Trips)'
  BY DEF MarketInv
<1>2. Quoted(trip.form)' /\ Promised' /\ Stands' /\ AsShown'
  BY DEF Quoted, Promised, Stands, SwapStands, AddStands, RemoveStands, Listed, AsShown,
         SwapAsShown, LiquidityAsTold, TripOver
<1> QED
  BY <1>1, <1>2

LEMMA NewTrip ==
  ASSUME ScreensInv, UNCHANGED <<market, view, form, lpHeld>>, trip' \in Trips,
         Quoted(trip.form)', Promised', Stands', AsShown'
  PROVE  ScreensInv'
BY DEF ScreensInv, MarketInv, Quoted

LEMMA OthersLeaveIt ==
  ASSUME ScreensInv, UNCHANGED <<view, form, trip>>, MarketInv', market'.nth = market.nth + 1
  PROVE  ScreensInv'
<1>1. Quoted(form)' /\ Quoted(trip.form)'
  BY QuotedStill DEF ScreensInv
<1>2. Promised' /\ AsShown'
  BY DEF ScreensInv, Promised, AsShown, SwapAsShown, LiquidityAsTold, TripOver
<1>3. Stands'
  <2>1. market.nth \in Nat /\ trip.at \in Nat
    BY DEF ScreensInv, MarketInv, IsMarket, Trips
  <2>2. Stands
    BY DEF ScreensInv
  <2>3. trip.step = "asked" => trip.at # market'.nth /\ trip.at <= market'.nth
    BY <2>1, <2>2 DEF Stands
  <2> QED
    BY <2>2, <2>3 DEF Stands
<1> QED
  BY <1>1, <1>2, <1>3 DEF ScreensInv

LEMMA ScreensTyped ==
  ASSUME ScreensInv
  PROVE  /\ market.nth \in Nat /\ market.supply \in Nat /\ lpHeld \in Int
         /\ \A s \in Sides : market.reserve[s] \in Nat
         /\ market.status \in {"Unfunded", "Active", "Paused"}
         /\ market.status = "Active" => IsPool(market) /\ market.supply # 0
         /\ Typed \subseteq Nat \ {0}
<1>1. MarketInv
  BY DEF ScreensInv
<1>2. market.supply # 0 => IsPool(market)
  BY <1>1, MarketIsPool DEF MarketInv
<1> QED
  BY <1>1, <1>2, Parameters DEF MarketInv, IsMarket

(* A swap leaves something of either side. *)
LEMMA AfterSwap ==
  ASSUME ScreensInv, market.status = "Active", NEW s \in Sides, NEW x \in Nat,
         NEW out, out = swapOutput(market, s, FeeBps, x),
         Becomes([market.reserve EXCEPT ![s] = @ + x, ![Other(s)] = @ - out],
                 market.supply, "Active"),
         lpHeld' = lpHeld
  PROVE  MarketInv' /\ market'.nth = market.nth + 1
<1> DEFINE reserve == [market.reserve EXCEPT ![s] = @ + x, ![Other(s)] = @ - out]
<1>1. IsPool(market) /\ market.supply \in Nat \ {0}
  BY ScreensTyped
<1>2. out \in Nat /\ out < market.reserve[Other(s)]
  BY <1>1, SwapPays
<1>3. /\ market.reserve \in [Sides -> Nat \ {0}]
      /\ Other(s) \in Sides /\ Other(s) # s
  BY <1>1 DEF IsPool, Sides, Other
<1>4. reserve \in [Sides -> Nat] /\ \A t \in Sides : reserve[t] # 0
  <2>1. /\ reserve[s] = market.reserve[s] + x
        /\ reserve[Other(s)] = market.reserve[Other(s)] - out
    BY <1>3
  <2>2. reserve[s] \in Nat \ {0} /\ reserve[Other(s)] \in Nat \ {0}
    BY <1>2, <1>3, <2>1
  <2>3. \A t \in Sides : t = s \/ t = Other(s)
    BY DEF Sides, Other
  <2>4. reserve = [t \in Sides |-> reserve[t]]
    BY <1>3
  <2> HIDE DEF reserve
  <2> QED
    BY <2>2, <2>3, <2>4
<1> HIDE DEF reserve
<1>5. Becomes(reserve, market.supply, "Active")
  BY DEF reserve
<1>6. MarketInv /\ lpHeld' \in Int /\ lpHeld' <= market.supply
  BY DEF ScreensInv, MarketInv
<1> QED
  BY <1>1, <1>4, <1>5, <1>6, PoolMoves

(* A deposit leaves a pool with a supply and with either side. *)
LEMMA AfterAdd ==
  ASSUME ScreensInv, NEW in, \A s \in Sides : in[s] \in Nat \ {0}, NEW lp \in Nat \ {0},
         Becomes([s \in {"base", "quote"} |-> market.reserve[s] + in[s]],
                 market.supply + lp, "Active"),
         lpHeld' \in {lpHeld, lpHeld + lp}
  PROVE  MarketInv' /\ market'.nth = market.nth + 1
<1> DEFINE reserve == [s \in {"base", "quote"} |-> market.reserve[s] + in[s]]
           supply == market.supply + lp
<1>1. market.supply \in Nat /\ \A s \in Sides : market.reserve[s] \in Nat
  BY ScreensTyped
<1>2. supply \in Nat \ {0}
  BY <1>1
<1>3. reserve \in [Sides -> Nat] /\ \A s \in Sides : reserve[s] # 0
  BY <1>1 DEF Sides
<1>4. MarketInv /\ lpHeld' \in Int /\ lpHeld' <= supply
  BY <1>1 DEF ScreensInv, MarketInv
<1>5. Becomes(reserve, supply, "Active")
  OBVIOUS
<1> HIDE DEF reserve, supply
<1> QED
  BY <1>2, <1>3, <1>4, <1>5, PoolMoves

(* A redemption takes both sides and the supply to zero together. *)
LEMMA AfterRemove ==
  ASSUME ScreensInv, market.status = "Active", NEW lp \in Nat \ {0}, lp <= market.supply,
         NEW out, out = redeemed(market, lp),
         Becomes([s \in {"base", "quote"} |-> market.reserve[s] - out[s]], market.supply - lp,
                 IF market.supply = lp THEN "Unfunded" ELSE "Active"),
         lpHeld' = lpHeld - lp
  PROVE  MarketInv' /\ market'.nth = market.nth + 1
<1> DEFINE reserve == [s \in {"base", "quote"} |-> market.reserve[s] - out[s]]
           supply == market.supply - lp
           status == IF market.supply = lp THEN "Unfunded" ELSE "Active"
<1>1. IsPool(market) /\ market.supply \in Nat \ {0} /\ \A s \in Sides : market.reserve[s] \in Nat
  BY ScreensTyped
<1>2. ASSUME NEW s \in Sides
      PROVE  /\ out[s] \in Nat /\ out[s] <= market.reserve[s]
             /\ out[s] = market.reserve[s] <=> lp = market.supply
  BY <1>1, RedeemsShare
<1>3. supply \in Nat /\ (supply = 0 <=> lp = market.supply)
  BY <1>1
<1>4. reserve \in [Sides -> Nat] /\ \A s \in Sides : reserve[s] = 0 <=> supply = 0
  <2>1. ASSUME NEW s \in Sides
        PROVE  /\ market.reserve[s] - out[s] \in Nat
               /\ market.reserve[s] - out[s] = 0 <=> supply = 0
    BY <1>1, <1>2, <1>3
  <2> QED
    BY <2>1 DEF Sides
<1>5. MarketInv /\ lpHeld' \in Int /\ lpHeld' <= supply
  BY <1>1 DEF ScreensInv, MarketInv
<1>6. status \in {"Unfunded", "Active", "Paused"} /\ (status = "Unfunded" <=> supply = 0)
  BY <1>3
<1>7. Becomes(reserve, supply, status)
  OBVIOUS
<1> HIDE DEF reserve, supply, status
<1> QED
  BY <1>3, <1>4, <1>5, <1>6, <1>7, PoolMoves

LEMMA OthersKeep ==
  ASSUME ScreensInv, OthersMove
  PROVE  ScreensInv'
<1>1. UNCHANGED <<view, form, trip>> /\ lpHeld' = lpHeld
  BY DEF OthersMove
<1>2. SUFFICES MarketInv' /\ market'.nth = market.nth + 1
  BY <1>1, OthersLeaveIt
<1>3. CASE \E s \in {"base", "quote"}, x \in Typed :
             LET out == swapOutput(market, s, FeeBps, x)
             IN /\ market.status = "Active" /\ out > 0
                /\ Becomes([market.reserve EXCEPT ![s] = @ + x, ![Other(s)] = @ - out],
                           market.supply, "Active")
  <2>1. PICK s \in Sides, x \in Typed :
          /\ market.status = "Active"
          /\ Becomes([market.reserve EXCEPT ![s] = @ + x,
                        ![Other(s)] = @ - swapOutput(market, s, FeeBps, x)],
                     market.supply, "Active")
    BY <1>3 DEF Sides
  <2>2. x \in Nat
    BY ScreensTyped
  <2> QED
    BY <1>1, <2>1, <2>2, AfterSwap
<1>4. CASE \E x \in Typed :
             LET offer == [base |-> x, quote |-> x]
                 in == kept(market, offer)
             IN /\ Listed /\ fairLp(market, offer) > 0 /\ in.base > 0 /\ in.quote > 0
                /\ Becomes([s \in {"base", "quote"} |-> market.reserve[s] + in[s]],
                           market.supply + fairLp(market, offer), "Active")
  <2>1. PICK x \in Typed :
          LET offer == [base |-> x, quote |-> x]
          IN /\ fairLp(market, offer) > 0
             /\ Becomes([s \in {"base", "quote"} |-> market.reserve[s] + kept(market, offer)[s]],
                        market.supply + fairLp(market, offer), "Active")
    BY <1>4
  <2> DEFINE offer == [base |-> x, quote |-> x]
             full == [base |-> x, quote |-> x, lp |-> 0]
             in == kept(market, offer)
             lp == fairLp(market, offer)
  <2>2. x \in Nat \ {0} /\ offer.base = x /\ offer.quote = x
    BY ScreensTyped
  <2>3. IsMarket(market)
    BY DEF ScreensInv, MarketInv
  <2>4. \A s \in Sides : in[s] \in Nat \ {0}
    BY <2>2, <2>3, KeptSome
  <2>5. full \in Offers /\ full.base # 0 /\ full.quote # 0
    BY <2>2 DEF Offers
  <2>6. fairLp(market, full) = lp
    BY DEF fairLp
  <2> HIDE DEF full
  <2>7. lp \in Nat \ {0}
    BY <2>1, <2>3, <2>5, <2>6, FairNat
  <2>8. Becomes([s \in {"base", "quote"} |-> market.reserve[s] + in[s]], market.supply + lp,
                "Active")
    BY <2>1
  <2> HIDE DEF in, lp
  <2> QED
    BY <1>1, <2>4, <2>7, <2>8, AfterAdd
<1>5. CASE market.status = "Active" /\ Becomes(market.reserve, market.supply, "Paused")
  BY <1>1, <1>5 DEF ScreensInv, MarketInv, IsMarket, Becomes
<1>6. CASE market.status = "Paused" /\ Becomes(market.reserve, market.supply, "Active")
  BY <1>1, <1>6 DEF ScreensInv, MarketInv, IsMarket, Becomes
<1> QED
  BY <1>3, <1>4, <1>5, <1>6 DEF OthersMove

-----------------------------------------------------------------------------
(* The page *)

LEMMA RefreshKeeps ==
  ASSUME ScreensInv, RefreshPools
  PROVE  ScreensInv'
<1>1. IsMarket(NoMarket)
  BY DEF IsMarket, NoMarket, Sides
<1>2. IsMarket(view)'
  BY <1>1 DEF RefreshPools, ScreensInv, MarketInv, IsMarket
<1>3. MarketInv' /\ (form \in Forms)' /\ (trip \in Trips)'
  BY DEF RefreshPools, ScreensInv, MarketInv
<1>4. Quoted(form)' /\ Quoted(trip.form)' /\ Promised' /\ Stands' /\ AsShown'
  BY DEF RefreshPools, ScreensInv, Quoted, Promised, Stands, SwapStands, AddStands, RemoveStands,
         Listed, AsShown, SwapAsShown, LiquidityAsTold, TripOver
<1> QED
  BY <1>2, <1>3, <1>4 DEF ScreensInv

(* A form that was just filled in shows no quote yet. *)
LEMMA FreshForm ==
  ASSUME ScreensInv, UNCHANGED <<market, view, trip, lpHeld>>,
         NEW what \in {"nothing", "swap", "add", "remove"}, NEW s \in Sides, NEW offer \in Offers,
         form' = [what |-> what, side |-> s, offer |-> offer, shown |-> NoQuoteYet]
  PROVE  ScreensInv'
<1>1. form' \in Forms
  BY DEF Forms, Quotations, NoQuoteYet
<1>2. market.nth \in Nat /\ market.nth >= 1
  BY DEF ScreensInv, MarketInv, IsMarket
<1>3. Quoted(form)'
  BY <1>2 DEF Quoted, NoQuoteYet
<1> QED
  BY <1>1, <1>3, NewForm

LEMMA TypesKeep ==
  ASSUME ScreensInv, TypeSwap \/ TypeAdd \/ SetRemove
  PROVE  ScreensInv'
<1>1. UNCHANGED <<market, view, trip, lpHeld>>
  BY DEF TypeSwap, TypeAdd, SetRemove
<1>2. Empty = [what |-> "nothing", side |-> "base", offer |-> Zero, shown |-> NoQuoteYet]
  BY DEF Empty
<1>3. IsMarket(view)
  BY DEF ScreensInv
<1>4. CASE TypeSwap
  <2>1. PICK s \in Sides, x \in Typed :
          form' = [Empty EXCEPT !.what = "swap", !.side = s, !.offer[s] = x]
    BY <1>4 DEF TypeSwap, Sides
  <2> DEFINE offer == [Zero EXCEPT ![s] = x]
  <2>2. form' = [what |-> "swap", side |-> s, offer |-> offer, shown |-> NoQuoteYet]
    BY <1>2, <2>1
  <2>3. offer \in Offers
    BY ScreensTyped, OneSide
  <2> HIDE DEF offer
  <2> QED
    BY <1>1, <2>2, <2>3, FreshForm
<1>5. CASE TypeAdd
  <2>1. PICK s \in Sides, x \in Typed :
          \E y \in IF isFirstDeposit THEN Typed
                   ELSE toFixed(x * view.reserve[Other(s)], view.reserve[s], Display) :
            form' = [Empty EXCEPT !.what = "add", !.side = s, !.offer[s] = x,
                                  !.offer[Other(s)] = y]
    BY <1>5 DEF TypeAdd, Sides
  <2>2. PICK y \in IF isFirstDeposit THEN Typed
                   ELSE toFixed(x * view.reserve[Other(s)], view.reserve[s], Display) :
            form' = [Empty EXCEPT !.what = "add", !.side = s, !.offer[s] = x,
                                  !.offer[Other(s)] = y]
    BY <2>1
  <2>3. x \in Nat
    BY ScreensTyped
  <2>4. y \in Nat
    <3>1. CASE isFirstDeposit
      BY <2>2, <3>1, ScreensTyped
    <3>2. CASE ~isFirstDeposit
      <4>1. /\ view.reserve[s] \in Nat \ {0} /\ view.reserve[Other(s)] \in Nat
            /\ Display \in Nat \ {0}
        BY <1>3, <3>2, Parameters DEF isFirstDeposit, IsMarket, Sides, Other
      <4>2. x * view.reserve[Other(s)] \in Nat
        BY <2>3, <4>1
      <4> QED
        BY <2>2, <3>2, <4>1, <4>2, FixedNat
    <3> QED
      BY <3>1, <3>2
  <2> DEFINE offer == [Zero EXCEPT ![s] = x, ![Other(s)] = y]
  <2>5. form' = [what |-> "add", side |-> s, offer |-> offer, shown |-> NoQuoteYet]
    BY <1>2, <2>2
  <2>6. offer \in Offers
    BY <2>3, <2>4, BothSides
  <2> HIDE DEF offer
  <2> QED
    BY <1>1, <2>5, <2>6, FreshForm
<1>6. CASE SetRemove
  <2>1. lpHeld > 0 /\ \E pct \in Percents : \E lp \in lpAmount(pct) :
          form' = [Empty EXCEPT !.what = "remove", !.offer.lp = lp]
    BY <1>6 DEF SetRemove
  <2>2. PICK pct \in Percents : \E lp \in lpAmount(pct) :
          form' = [Empty EXCEPT !.what = "remove", !.offer.lp = lp]
    BY <2>1
  <2>3. PICK lp \in lpAmount(pct) : form' = [Empty EXCEPT !.what = "remove", !.offer.lp = lp]
    BY <2>2
  <2>4. lp \in Nat
    <3>1. pct \in Nat /\ lpHeld \in Nat
      BY <2>1, ScreensTyped, Parameters
    <3>2. lpHeld * pct \in Nat
      BY <3>1
    <3> QED
      BY <3>2, FixedNat DEF lpAmount
  <2> DEFINE offer == [base |-> 0, quote |-> 0, lp |-> lp]
  <2>5. form' = [what |-> "remove", side |-> "base", offer |-> offer, shown |-> NoQuoteYet]
    BY <1>2, <2>3 DEF Zero
  <2>6. offer \in Offers /\ "base" \in Sides
    BY <2>4 DEF Offers, Sides
  <2> HIDE DEF offer
  <2> QED
    BY <1>1, <2>5, <2>6, FreshForm
<1> QED
  BY <1>4, <1>5, <1>6

LEMMA QuoteKeeps ==
  ASSUME ScreensInv, QuoteArrives
  PROVE  ScreensInv'
<1>1. form \in Forms /\ form.side \in Sides /\ form.offer \in Offers
  BY DEF ScreensInv, Forms
<1>2. form.offer[form.side] \in Nat
  BY <1>1, OfferSides
<1>3. market.status = "Active" /\ IsPool(market)
  <2>1. PICK s \in Sides : market.reserve[s] > 0
    BY DEF QuoteArrives, Sides
  <2>2. market.supply # 0
    BY <2>1 DEF ScreensInv, MarketInv, IsMarket
  <2> QED
    BY <2>2, ScreensTyped DEF QuoteArrives, Listed, ScreensInv, MarketInv
<1> DEFINE quote == computeQuoteDetailed(market, form.side, FeeBps, form.offer[form.side])
           shown == [out |-> quote.outputAmount, impact |-> quote.priceImpact, nth |-> market.nth]
<1>4. /\ quote.outputAmount = computeQuote(market, form.side, FeeBps, form.offer[form.side])
      /\ quote.outputAmount \in Nat /\ quote.priceImpact \in Nat
  BY <1>1, <1>2, <1>3, QuoteHonest
<1>5. form' = [form EXCEPT !.shown = shown] /\ UNCHANGED <<market, view, trip, lpHeld>>
  BY DEF QuoteArrives
<1>6. shown \in Quotations
  BY <1>4, ScreensTyped DEF Quotations
<1>7. /\ form'.what = form.what /\ form'.side = form.side /\ form'.offer = form.offer
      /\ form'.shown = shown /\ form' \in Forms
  <2> HIDE DEF shown
  <2> QED
    BY <1>1, <1>5, <1>6 DEF Forms
<1>8. shown.nth = market.nth /\ shown.out = quote.outputAmount
  OBVIOUS
<1> HIDE DEF shown, quote
<1>9. Quoted(form)'
  BY <1>3, <1>4, <1>5, <1>7, <1>8, ScreensTyped DEF Quoted
<1> QED
  BY <1>5, <1>7, <1>9, NewForm

(* What the page promises itself of a swap is no more than the quote shows. *)
LEMMA ClickKeeps ==
  ASSUME ScreensInv, Click
  PROVE  ScreensInv'
<1> DEFINE mins == CASE form.what = "swap" -> minReceived
                     [] form.what = "add" -> minLpTokens
                     [] OTHER -> minOutputs
<1>1. PICK m \in mins : trip' = [Home EXCEPT !.step = "clicked", !.form = form, !.min = m]
  BY DEF Click
<1>2. UNCHANGED <<market, view, form, lpHeld>> /\ Ready
  BY DEF Click
<1>3. form \in Forms /\ form.side \in Sides /\ form.offer \in Offers /\ form.shown.out \in Nat
  BY DEF ScreensInv, Forms, Quotations
<1>4. form.offer.base \in Nat /\ form.offer.quote \in Nat /\ form.offer.lp \in Nat
  BY <1>3 DEF Offers
<1>5. /\ view.supply \in Nat /\ \A s \in Sides : view.reserve[s] \in Nat
      /\ \A s \in Sides : view.reserve[s] = 0 <=> view.supply = 0
  BY DEF ScreensInv, IsMarket
<1>6. /\ m \in Offers
      /\ form.what = "swap" => m[Other(form.side)] <= form.shown.out /\ form.shown.out > 0
      /\ form.what = "add" => /\ m.base = 0 /\ m.quote = 0
                              /\ form.offer.base > 0 /\ form.offer.quote > 0
      /\ form.what = "remove" => m.lp = 0
  <2>1. CASE form.what = "swap"
    <3>1. PICK n \in Slipped(form.shown.out, 1) : m = [Zero EXCEPT ![Other(form.side)] = n]
      BY <1>1, <2>1 DEF minReceived
    <3>2. n \in Nat /\ n <= form.shown.out
      BY <1>3, SlippedDown
    <3>3. Other(form.side) \in Sides
      BY <1>3, OfferSides
    <3>4. m \in Offers /\ m[Other(form.side)] = n
      BY <3>1, <3>2, <3>3, OneSide
    <3> QED
      BY <1>2, <2>1, <3>2, <3>4 DEF Ready
  <2>2. CASE form.what = "add"
    <3>1. PICK n \in IF isFirstDeposit
                     THEN Slipped(sqrt(mul(form.offer.base, form.offer.quote)), 1)
                     ELSE Slipped(form.offer.base * view.supply, view.reserve.base) :
            m = [Zero EXCEPT !.lp = n]
      BY <1>1, <2>2 DEF minLpTokens
    <3>2. n \in Nat
      <4>1. sqrt(mul(form.offer.base, form.offer.quote)) \in Nat
        BY <1>4, ProductNat, RootNat
      <4>2. CASE isFirstDeposit
        BY <3>1, <4>1, <4>2, SlippedNat
      <4>3. CASE ~isFirstDeposit
        <5>1. view.reserve.base \in Nat \ {0} /\ form.offer.base * view.supply \in Nat
          BY <1>4, <1>5, <4>3 DEF isFirstDeposit, Sides
        <5> QED
          BY <3>1, <4>3, <5>1, SlippedNat
      <4> QED
        BY <4>2, <4>3
    <3>3. m = [base |-> 0, quote |-> 0, lp |-> n]
      BY <3>1 DEF Zero
    <3> QED
      BY <1>2, <2>2, <3>2, <3>3 DEF Ready, Offers
  <2>3. CASE form.what \notin {"swap", "add"}
    <3>1. view.supply > 0
      BY <1>2, <2>3 DEF Ready
    <3>2. mins = minOutputs
      BY <2>3
    <3>3. PICK b \in Slipped(form.offer.lp * view.reserve.base, view.supply),
               q \in Slipped(form.offer.lp * view.reserve.quote, view.supply) :
            m = [base |-> b, quote |-> q, lp |-> 0]
      BY <1>1, <3>2 DEF minOutputs
    <3>4. /\ view.supply \in Nat \ {0}
          /\ form.offer.lp * view.reserve.base \in Nat
          /\ form.offer.lp * view.reserve.quote \in Nat
      BY <1>4, <1>5, <3>1 DEF Sides
    <3>5. b \in Nat /\ q \in Nat
      BY <3>4, SlippedNat
    <3> QED
      BY <2>3, <3>3, <3>5 DEF Offers
  <2> QED
    BY <2>1, <2>2, <2>3
<1>7. trip' = [step |-> "clicked", form |-> form, min |-> m, told |-> Zero, got |-> Zero,
               supply |-> 0, at |-> 0, end |-> 0]
  BY <1>1 DEF Home
<1>8. trip' \in Trips
  <2>1. Zero \in Offers
    BY DEF Zero, Offers
  <2> QED
    BY <1>3, <1>6, <1>7, <2>1 DEF Trips
<1>9. Quoted(trip.form)'
  BY <1>2, <1>7 DEF ScreensInv, Quoted
<1>10. Promised'
  BY <1>6, <1>7 DEF Promised
<1>11. Stands' /\ AsShown'
  BY <1>7 DEF Stands, AsShown, SwapAsShown, LiquidityAsTold, TripOver
<1> QED
  BY <1>2, <1>8, <1>9, <1>10, <1>11, NewTrip

-----------------------------------------------------------------------------
(* The backend and the ledger *)

LEMMA TripTyped ==
  ASSUME ScreensInv
  PROVE  /\ trip \in Trips /\ trip.form \in Forms /\ trip.form.side \in Sides
         /\ trip.form.offer \in Offers /\ trip.form.shown \in Quotations
         /\ trip.min \in Offers /\ trip.told \in Offers /\ trip.at \in Nat
         /\ trip.form.offer[trip.form.side] \in Nat
         /\ trip.form.shown.out \in Nat /\ trip.form.shown.nth \in Nat
         /\ Quoted(trip.form) /\ Promised /\ Stands
<1>1. /\ trip \in Trips /\ trip.form \in Forms /\ trip.form.side \in Sides
      /\ trip.form.offer \in Offers /\ trip.form.shown \in Quotations
      /\ trip.min \in Offers /\ trip.told \in Offers /\ trip.at \in Nat
      /\ Quoted(trip.form) /\ Promised /\ Stands
  BY DEF ScreensInv, Trips, Forms
<1>2. trip.form.shown.out \in Nat /\ trip.form.shown.nth \in Nat
  BY <1>1 DEF Quotations
<1> QED
  BY <1>1, <1>2, OfferSides

(* A refusal before the ledger is asked. *)
LEMMA TurnedAway ==
  ASSUME ScreensInv, UNCHANGED <<market, view, form, lpHeld>>, TurnedDown(0),
         trip.step # "none",
         trip.form.what = "swap" => trip.form.shown.nth # market.nth
  PROVE  ScreensInv'
<1>1. market.nth \in Nat /\ market.nth >= 1
  BY DEF ScreensInv, MarketInv, IsMarket
<1>2. trip \in Trips
  BY TripTyped
<1>3. trip' = [trip EXCEPT !.step = "refused", !.at = 0, !.end = market.nth]
  BY DEF TurnedDown
<1>4. /\ trip' \in Trips /\ trip'.form = trip.form /\ trip'.min = trip.min
      /\ trip'.step = "refused" /\ trip'.at = 0 /\ trip'.end = market.nth
  BY <1>1, <1>2, <1>3 DEF Trips
<1>5. Quoted(trip.form)' /\ Promised'
  BY <1>4, TripTyped DEF Quoted, Promised
<1>6. Stands'
  BY <1>4 DEF Stands
<1>7. trip.form.shown.impact >= 0
  BY TripTyped DEF Quotations
<1>8. AsShown'
  BY <1>1, <1>4, <1>7 DEF AsShown, SwapAsShown, LiquidityAsTold, TripOver
<1> QED
  BY <1>4, <1>5, <1>6, <1>8, NewTrip

(* A request that was answered. *)
LEMMA Answered ==
  ASSUME ScreensInv, UNCHANGED <<market, view, form, lpHeld>>, trip.step # "none",
         NEW told \in Offers, Asked(told),
         trip.form.what = "add" => told.lp > 0,
         trip.form.what = "remove" => trip.form.offer.lp > 0,
         trip.form.what = "swap" => SwapStands',
         trip.form.what = "add" => AddStands',
         trip.form.what = "remove" => RemoveStands'
  PROVE  ScreensInv'
<1>1. market.nth \in Nat /\ market.supply \in Nat
  BY ScreensTyped
<1>2. trip \in Trips
  BY TripTyped
<1>3. trip' = [trip EXCEPT !.step = "asked", !.told = told, !.at = market.nth,
                           !.supply = market.supply]
  BY DEF Asked
<1>4. /\ trip' \in Trips /\ trip'.form = trip.form /\ trip'.min = trip.min
      /\ trip'.step = "asked" /\ trip'.at = market.nth /\ trip'.told = told
      /\ trip'.supply = market.supply
  BY <1>1, <1>2, <1>3 DEF Trips
<1>5. Quoted(trip.form)' /\ Promised'
  BY <1>4, TripTyped DEF Quoted, Promised
<1>6. trip.form.shown.nth <= market.nth
  BY TripTyped DEF Quoted
<1>7. Stands'
  BY <1>1, <1>4, <1>6 DEF Stands
<1>8. AsShown'
  BY <1>4 DEF AsShown, SwapAsShown, LiquidityAsTold, TripOver
<1> QED
  BY <1>4, <1>5, <1>7, <1>8, NewTrip

LEMMA RequestsSwapKeeps ==
  ASSUME ScreensInv, RequestsSwap
  PROVE  ScreensInv'
<1> DEFINE s == trip.form.side
           x == trip.form.offer[s]
           min == trip.min[Other(s)]
           out == swapOutput(market, s, FeeBps, x)
           quote == computeQuote(market, s, FeeBps, x)
           told == [Zero EXCEPT ![Other(s)] = out]
           Passes == /\ market.status = "Active" /\ quote > 0 /\ quote >= min
                     /\ out > 0 /\ out >= min
<1>1. /\ trip.step = "clicked" /\ trip.form.what = "swap"
      /\ UNCHANGED <<market, view, form, lpHeld>>
      /\ IF Passes THEN Asked(told) ELSE TurnedDown(0)
  BY DEF RequestsSwap
<1>2. /\ s \in Sides /\ x \in Nat /\ Quoted(trip.form) /\ Promised /\ trip \in Trips
      /\ Other(s) \in Sides
  BY TripTyped, OfferSides
<1> HIDE DEF s, x
<1>3. market.status = "Active" => out \in Nat /\ quote = out
  BY <1>2, ScreensTyped, SwapPays
<1>4. CASE Passes
  <2>1. Asked(told)
    BY <1>1, <1>4
  <2>2. told \in Offers /\ told[Other(s)] = out
    BY <1>2, <1>3, <1>4, OneSide
  <2>3. trip' = [trip EXCEPT !.step = "asked", !.told = told, !.at = market.nth,
                             !.supply = market.supply]
    BY <2>1 DEF Asked
  <2>4. trip'.form = trip.form /\ trip'.min = trip.min /\ trip'.told = told
    BY <1>2, <2>3 DEF Trips
  <2>5. SwapStands'
    <3>1. market' = market /\ out >= min /\ market.status = "Active"
      BY <1>1, <1>4
    <3> HIDE DEF told
    <3> QED
      BY <2>2, <2>4, <3>1 DEF SwapStands, s, x
  <2> HIDE DEF told, Passes
  <2> QED
    BY <1>1, <2>1, <2>2, <2>5, Answered
<1>5. CASE ~Passes
  <2>1. trip.form.shown.nth # market.nth
    <3> SUFFICES ASSUME trip.form.shown.nth = market.nth PROVE FALSE
      OBVIOUS
    <3>1. market.status = "Active" /\ trip.form.shown.out = quote
      BY <1>1, <1>2 DEF Quoted, s, x
    <3>2. trip.form.shown.out > 0 /\ min <= trip.form.shown.out
      BY <1>1, <1>2 DEF Promised, s
    <3>3. min \in Nat
      BY <1>2, TripTyped, OfferSides
    <3> QED
      BY <1>3, <1>5, <3>1, <3>2, <3>3
  <2> HIDE DEF Passes, told
  <2> QED
    BY <1>1, <1>5, <2>1, TurnedAway
<1> QED
  BY <1>4, <1>5

LEMMA RequestsAddKeeps ==
  ASSUME ScreensInv, RequestsAdd
  PROVE  ScreensInv'
<1> DEFINE match == matchLiquidity(market, trip.form.offer)
<1>1. /\ trip.step = "clicked" /\ trip.form.what = "add"
      /\ UNCHANGED <<market, view, form, lpHeld>>
      /\ (Listed /\ match.lp > 0 /\ Asked(match)) \/ TurnedDown(0)
  BY DEF RequestsAdd
<1>2. trip \in Trips /\ trip.form.offer \in Offers /\ Promised
  BY TripTyped
<1>3. trip.form.offer.base # 0 /\ trip.form.offer.quote # 0
  BY <1>1, <1>2 DEF Promised, Offers
<1>4. match \in Offers
  BY <1>2, <1>3, FairNat DEF ScreensInv, MarketInv
<1>5. CASE Listed /\ match.lp > 0 /\ Asked(match)
  <2>1. trip' = [trip EXCEPT !.step = "asked", !.told = match, !.at = market.nth,
                             !.supply = market.supply]
    BY <1>5 DEF Asked
  <2>2. trip'.form = trip.form /\ trip'.told = match
    BY <1>2, <2>1 DEF Trips
  <2>3. AddStands'
    BY <1>1, <1>5, <2>2 DEF AddStands, Listed
  <2> HIDE DEF match
  <2> QED
    BY <1>1, <1>4, <1>5, <2>3, Answered
<1>6. CASE TurnedDown(0)
  BY <1>1, <1>6, TurnedAway
<1> QED
  BY <1>1, <1>5, <1>6

LEMMA RequestsRemoveKeeps ==
  ASSUME ScreensInv, RequestsRemove
  PROVE  ScreensInv'
<1> DEFINE lp == trip.form.offer.lp
           plan == removePlan(market, lp)
           told == [base |-> plan.base, quote |-> plan.quote, lp |-> 0]
           Passes == Listed /\ market.supply > 0 /\ lp \in 1 .. lpHeld
<1>1. /\ trip.step = "clicked" /\ trip.form.what = "remove"
      /\ UNCHANGED <<market, view, form, lpHeld>>
      /\ IF Passes THEN Asked(told) ELSE TurnedDown(0)
  BY DEF RequestsRemove
<1>2. trip \in Trips
  BY TripTyped
<1>3. CASE Passes
  <2>1. Asked(told)
    BY <1>1, <1>3
  <2>2. /\ market.status = "Active" /\ IsPool(market) /\ lp \in Nat \ {0} /\ lp <= market.supply
        /\ market.supply # 0
    <3>1. /\ market.supply # 0 /\ lpHeld \in Int /\ lpHeld <= market.supply
          /\ market.supply \in Nat /\ market.status = "Active"
      BY <1>3, ScreensTyped DEF ScreensInv, MarketInv, Listed
    <3>2. lp \in Int /\ 1 <= lp /\ lp <= lpHeld
      BY <1>3, <3>1
    <3> QED
      BY <3>1, <3>2, ScreensTyped
  <2>3. plan = redeemed(market, lp) /\ \A s \in Sides : plan[s] \in Nat
    BY <2>2, RedeemsShare
  <2>4. told \in Offers
    BY <2>3 DEF Offers, Sides
  <2>5. trip' = [trip EXCEPT !.step = "asked", !.told = told, !.at = market.nth,
                             !.supply = market.supply]
    BY <2>1 DEF Asked
  <2>6. trip'.form = trip.form /\ trip'.told = told
    BY <1>2, <2>5 DEF Trips
  <2>7. RemoveStands'
    BY <1>1, <2>2, <2>3, <2>6 DEF RemoveStands
  <2>8. trip.form.offer.lp > 0
    BY <2>2
  <2> HIDE DEF told, Passes
  <2> QED
    BY <1>1, <2>1, <2>4, <2>7, <2>8, Answered
<1>4. CASE ~Passes
  <2> HIDE DEF told, Passes
  <2> QED
    BY <1>1, <1>4, TurnedAway
<1> QED
  BY <1>3, <1>4

(* A refusal by the ledger. *)
LEMMA RefusedInTheEnd ==
  ASSUME ScreensInv, UNCHANGED <<market, view, form, lpHeld>>, TurnedDown(trip.at),
         trip.step = "asked",
         trip.form.what = "swap" => trip.at # market.nth,
         (trip.form.what \in {"add", "remove"} /\ trip.at = market.nth) =>
           \E i \in DOMAIN Zero : trip.told[i] < trip.min[i]
  PROVE  ScreensInv'
<1>1. market.nth \in Nat
  BY ScreensTyped
<1>2. trip \in Trips /\ trip.at \in Nat /\ trip.form.shown.nth \in Nat
  BY TripTyped
<1>3. trip' = [trip EXCEPT !.step = "refused", !.at = trip.at, !.end = market.nth]
  BY DEF TurnedDown
<1>4. /\ trip' \in Trips /\ trip'.form = trip.form /\ trip'.min = trip.min
      /\ trip'.told = trip.told
      /\ trip'.step = "refused" /\ trip'.at = trip.at /\ trip'.end = market.nth
  BY <1>1, <1>2, <1>3 DEF Trips
<1>5. Quoted(trip.form)' /\ Promised'
  BY <1>4, TripTyped DEF Quoted, Promised
<1>6. Stands'
  BY <1>4 DEF Stands
<1>7. trip.form.shown.impact >= 0
  BY TripTyped DEF Quotations
<1>8. trip.form.shown.nth <= trip.at /\ trip.at <= market.nth
  BY TripTyped DEF Stands
<1>9. SwapAsShown'
  BY <1>1, <1>2, <1>4, <1>7, <1>8 DEF SwapAsShown, TripOver
<1>10. LiquidityAsTold'
  BY <1>4 DEF LiquidityAsTold, TripOver
<1> QED
  BY <1>4, <1>5, <1>6, <1>9, <1>10, NewTrip DEF AsShown

(* What the ledger settles. *)
LEMMA SettledInTheEnd ==
  ASSUME ScreensInv, UNCHANGED view, form' \in {form, Empty},
         MarketInv', market'.nth = market.nth + 1,
         trip.step = "asked", NEW got \in Offers, Settled(got),
         \A i \in DOMAIN Zero : trip.form.what \in {"add", "remove"} => got[i] >= trip.min[i],
         (trip.form.what \in {"add", "remove"} /\ trip.at = market.nth) => got = trip.told,
         trip.form.what = "swap" =>
           LET o == Other(trip.form.side) IN
           /\ got[o] >= trip.min[o]
           /\ trip.form.shown.nth = market.nth => got[o] = trip.form.shown.out
  PROVE  ScreensInv'
<1>1. market.nth \in Nat
  BY ScreensTyped
<1>2. trip \in Trips
  BY TripTyped
<1>3. trip' = [trip EXCEPT !.step = "settled", !.got = got, !.end = market.nth]
  BY DEF Settled
<1>4. /\ trip' \in Trips /\ trip'.form = trip.form /\ trip'.min = trip.min
      /\ trip'.told = trip.told /\ trip'.got = got
      /\ trip'.step = "settled" /\ trip'.at = trip.at /\ trip'.end = market.nth
  BY <1>1, <1>2, <1>3 DEF Trips
<1>5. Quoted(trip.form)'
  BY <1>4, QuotedStill DEF ScreensInv
<1>6. form' \in Forms /\ Quoted(form)'
  <2>1. CASE form' = form
    BY <2>1, QuotedStill DEF ScreensInv
  <2>2. CASE form' = Empty
    <3>1. Empty \in Forms /\ Empty.what = "nothing" /\ Empty.shown.nth = 0
      BY DEF Empty, Forms, Quotations, NoQuoteYet, Offers, Zero, Sides
    <3>2. market'.nth \in Nat /\ 0 <= market'.nth
      BY <1>1
    <3> QED
      BY <2>2, <3>1, <3>2 DEF Quoted
  <2> QED
    BY <2>1, <2>2
<1>7. Promised' /\ Stands'
  BY <1>4, TripTyped DEF Promised, Stands
<1>8. trip.form.shown.impact >= 0
  BY TripTyped DEF Quotations
<1>9. SwapAsShown'
  BY <1>4, <1>8 DEF SwapAsShown, TripOver
<1>10. LiquidityAsTold'
  BY <1>4 DEF LiquidityAsTold, TripOver
<1>11. IsMarket(view)'
  BY DEF ScreensInv
<1> QED
  BY <1>4, <1>5, <1>6, <1>7, <1>9, <1>10, <1>11 DEF ScreensInv, AsShown

LEMMA SettlesSwapKeeps ==
  ASSUME ScreensInv, SettlesSwap
  PROVE  ScreensInv'
<1> DEFINE s == trip.form.side
           x == trip.form.offer[s]
           o == Other(s)
           out == swapOutput(market, s, FeeBps, x)
           got == [Zero EXCEPT ![o] = out]
           Stays == trip.at = market.nth /\ out >= trip.min[o] /\ out = trip.told[o]
           next == [market.reserve EXCEPT ![s] = @ + x, ![o] = @ - out]
<1>1. /\ trip.step = "asked" /\ trip.form.what = "swap" /\ UNCHANGED <<view, lpHeld>>
      /\ IF Stays
         THEN Settled(got) /\ Becomes(next, market.supply, "Active") /\ form' = Empty
         ELSE TurnedDown(trip.at) /\ UNCHANGED <<market, form>>
  BY DEF SettlesSwap
<1>2. trip.at = market.nth => market.status = "Active" /\ out = trip.told[o] /\ out >= trip.min[o]
  BY <1>1, TripTyped DEF Stands, SwapStands
<1>3. s \in Sides /\ x \in Nat /\ o \in Sides
  BY TripTyped, OfferSides
<1>4. CASE Stays
  <2>1. market.status = "Active" /\ out >= trip.min[o]
    BY <1>2, <1>4
  <2>2. IsPool(market)
    BY <2>1, ScreensTyped
  <2> HIDE DEF s, x
  <2>3. out \in Nat /\ out = computeQuote(market, s, FeeBps, x)
    BY <1>3, <2>2, SwapPays
  <2>4. MarketInv' /\ market'.nth = market.nth + 1
    BY <1>1, <1>3, <1>4, <2>1, AfterSwap
  <2>5. got \in Offers /\ got[o] = out
    BY <1>3, <2>3, OneSide
  <2>6. trip.form.shown.nth = market.nth => trip.form.shown.out = out
    BY <1>1, <2>3, TripTyped DEF Quoted, s, x
  <2>7. /\ UNCHANGED view /\ form' \in {form, Empty} /\ Settled(got)
        /\ trip.step = "asked" /\ trip.form.what = "swap"
    BY <1>1, <1>4
  <2>8. LET oo == Other(trip.form.side) IN
        /\ got[oo] >= trip.min[oo]
        /\ trip.form.shown.nth = market.nth => got[oo] = trip.form.shown.out
    BY <2>1, <2>5, <2>6 DEF s
  <2> HIDE DEF got, Stays, next, out, o
  <2> QED
    BY <2>4, <2>5, <2>7, <2>8, SettledInTheEnd
<1>5. CASE ~Stays
  <2>1. trip.at # market.nth
    BY <1>2, <1>5
  <2>2. TurnedDown(trip.at) /\ UNCHANGED <<market, view, form, lpHeld>>
    BY <1>1, <1>5
  <2> HIDE DEF Stays, next, got, out, o
  <2> QED
    BY <1>1, <2>1, <2>2, RefusedInTheEnd
<1> QED
  BY <1>4, <1>5

LEMMA SettlesAddKeeps ==
  ASSUME ScreensInv, SettlesAdd, RootsAgree
  PROVE  ScreensInv'
<1> DEFINE offer == trip.form.offer
           lp == trip.told.lp
           in == kept(market, offer)
           fair == fairLp(market, offer)
           got == [base |-> in.base, quote |-> in.quote, lp |-> lp]
           next == [s \in {"base", "quote"} |-> market.reserve[s] + in[s]]
           Passes == /\ Listed /\ trip.supply = market.supply
                     /\ lp >= trip.min.lp
                     /\ lp - fair <= Dust /\ fair - lp <= Dust
                     /\ in.base > 0 /\ in.quote > 0
<1>1. /\ trip.step = "asked" /\ trip.form.what = "add" /\ UNCHANGED view
      /\ IF Passes
         THEN /\ Settled(got) /\ Becomes(next, market.supply + lp, "Active")
              /\ lpHeld' = lpHeld + lp /\ form' = Empty
         ELSE TurnedDown(trip.at) /\ UNCHANGED <<market, form, lpHeld>>
  BY DEF SettlesAdd
<1>2. /\ offer \in Offers /\ trip.min \in Offers /\ trip.told \in Offers /\ Promised /\ Stands
  BY TripTyped
<1>3. /\ offer.base \in Nat \ {0} /\ offer.quote \in Nat \ {0}
      /\ trip.min.base = 0 /\ trip.min.quote = 0 /\ trip.min.lp \in Nat
      /\ lp \in Nat \ {0}
  BY <1>1, <1>2 DEF Promised, Stands, Offers
<1>4. IsMarket(market)
  BY DEF ScreensInv, MarketInv
<1>5. \A s \in Sides : in[s] \in Nat \ {0}
  BY <1>3, <1>4, KeptSome
<1>6. fair \in Nat
  BY <1>2, <1>3, <1>4, FairNat
<1>7. ASSUME trip.at = market.nth
      PROVE  /\ Listed /\ trip.supply = market.supply /\ got = trip.told
             /\ lp - fair <= Dust /\ fair - lp <= Dust
  <2>1. Listed /\ trip.supply = market.supply /\ trip.told = matchLiquidity(market, offer)
    BY <1>1, <1>2, <1>7 DEF Stands, AddStands
  <2>2. CASE market.supply = 0
    <3>1. /\ trip.told = [lp |-> sqrt(mul(offer.base, offer.quote)),
                          base |-> offer.base, quote |-> offer.quote]
          /\ fair = sqrtDecimal(mul(offer.base, offer.quote))
          /\ in = [s \in Sides |-> offer[s]]
      BY <1>2, <2>1, <2>2, FirstDeposit
    <3>2. in.base = offer.base /\ in.quote = offer.quote
      BY <3>1 DEF Sides
    <3>3. lp = sqrt(mul(offer.base, offer.quote))
      BY <3>1
    <3>4. lp - fair <= Dust /\ fair - lp <= Dust
      BY <1>1, <2>2, <3>1, <3>3 DEF RootsAgree
    <3> QED
      BY <2>1, <3>1, <3>2, <3>3, <3>4
  <2>3. CASE market.supply # 0
    <3>1. IsPool(market)
      BY <1>4, <2>3, MarketIsPool
    <3>2. trip.told = [lp |-> fair, base |-> in.base, quote |-> in.quote]
      BY <1>2, <1>3, <2>1, <2>3, <3>1, MatchIsFair
    <3>3. lp = fair /\ got = trip.told
      BY <3>2
    <3> HIDE DEF lp, fair
    <3> QED
      BY <1>6, <2>1, <3>3, Parameters
  <2> QED
    BY <2>2, <2>3
<1>8. CASE Passes
  <2>1. /\ Settled(got) /\ Becomes(next, market.supply + lp, "Active")
        /\ lpHeld' = lpHeld + lp /\ form' \in {form, Empty} /\ lp >= trip.min.lp
    BY <1>1, <1>8
  <2>2. MarketInv' /\ market'.nth = market.nth + 1
    <3> HIDE DEF in, lp, Passes, got
    <3> QED
      BY <1>3, <1>5, <2>1, AfterAdd
  <2>3. got \in Offers
    BY <1>3, <1>5 DEF Offers, Sides
  <2>4. \A i \in DOMAIN Zero : got[i] >= trip.min[i]
    <3>1. DOMAIN Zero = {"base", "quote", "lp"}
      BY DEF Zero
    <3>2. in.base \in Nat /\ in.quote \in Nat
      BY <1>5 DEF Sides
    <3>3. got.base >= trip.min.base /\ got.quote >= trip.min.quote /\ got.lp >= trip.min.lp
      BY <1>3, <2>1, <3>2
    <3> QED
      BY <3>1, <3>3
  <2>5. trip.at = market.nth => got = trip.told
    BY <1>7
  <2> HIDE DEF got, Passes, next, in, lp
  <2> QED
    BY <1>1, <2>1, <2>2, <2>3, <2>4, <2>5, SettledInTheEnd
<1>9. CASE ~Passes
  <2>1. TurnedDown(trip.at) /\ UNCHANGED <<market, view, form, lpHeld>>
    BY <1>1, <1>9
  <2>2. ASSUME trip.at = market.nth PROVE \E i \in DOMAIN Zero : trip.told[i] < trip.min[i]
    <3>1. in.base > 0 /\ in.quote > 0
      BY <1>5 DEF Sides
    <3>2. ~(lp >= trip.min.lp)
      BY <1>7, <1>9, <2>2, <3>1
    <3>3. trip.told.lp < trip.min.lp /\ "lp" \in DOMAIN Zero
      BY <1>3, <3>2 DEF Zero
    <3> QED
      BY <3>3
  <2> HIDE DEF Passes, got, next, in, lp
  <2> QED
    BY <1>1, <2>1, <2>2, RefusedInTheEnd
<1> QED
  BY <1>8, <1>9

LEMMA SettlesRemoveKeeps ==
  ASSUME ScreensInv, SettlesRemove
  PROVE  ScreensInv'
<1> DEFINE lp == trip.form.offer.lp
           out == redeemed(market, lp)
           got == [base |-> out.base, quote |-> out.quote, lp |-> 0]
           left == [s \in {"base", "quote"} |-> market.reserve[s] - out[s]]
           status == IF market.supply = lp THEN "Unfunded" ELSE "Active"
           Passes == /\ market.status = "Active" /\ trip.supply = market.supply
                     /\ 0 < lp /\ lp <= market.supply
                     /\ \A s \in {"base", "quote"} : out[s] >= trip.min[s] /\ out[s] = trip.told[s]
<1>1. /\ trip.step = "asked" /\ trip.form.what = "remove" /\ UNCHANGED <<view, form>>
      /\ IF Passes
         THEN /\ Settled(got) /\ Becomes(left, market.supply - lp, status)
              /\ lpHeld' = lpHeld - lp
         ELSE TurnedDown(trip.at) /\ UNCHANGED <<market, lpHeld>>
  BY DEF SettlesRemove
<1>2. /\ trip.form.offer \in Offers /\ trip.min \in Offers /\ trip.told \in Offers
      /\ Promised /\ Stands
  BY TripTyped
<1>3. lp \in Nat \ {0} /\ trip.min.lp = 0 /\ \A s \in Sides : trip.min[s] \in Nat
  BY <1>1, <1>2 DEF Promised, Stands, Offers, Sides
<1>4. ASSUME market.status = "Active", lp <= market.supply
      PROVE  /\ \A s \in Sides : out[s] \in Nat
             /\ got \in Offers
  <2>1. \A s \in Sides : out[s] \in Nat
    BY <1>3, <1>4, ScreensTyped, RedeemsShare
  <2> QED
    BY <2>1 DEF Offers, Sides
<1>5. ASSUME trip.at = market.nth
      PROVE  /\ market.status = "Active" /\ trip.supply = market.supply
             /\ lp <= market.supply /\ trip.told = got
  BY <1>1, <1>2, <1>5 DEF Stands, RemoveStands
<1>6. CASE Passes
  <2>1. /\ Settled(got) /\ Becomes(left, market.supply - lp, status) /\ lpHeld' = lpHeld - lp
        /\ market.status = "Active" /\ lp <= market.supply
        /\ \A s \in Sides : out[s] >= trip.min[s]
    BY <1>1, <1>6 DEF Sides
  <2>2. MarketInv' /\ market'.nth = market.nth + 1
    <3> HIDE DEF lp, Passes, got, out
    <3>1. out = redeemed(market, lp)
      BY DEF out
    <3> QED
      BY <1>3, <2>1, <3>1, AfterRemove
  <2>3. got \in Offers
    BY <1>4, <2>1
  <2>4. \A i \in DOMAIN Zero : got[i] >= trip.min[i]
    <3>1. DOMAIN Zero = {"base", "quote", "lp"}
      BY DEF Zero
    <3>2. got.base >= trip.min.base /\ got.quote >= trip.min.quote /\ got.lp >= trip.min.lp
      BY <1>3, <2>1 DEF Sides
    <3> QED
      BY <3>1, <3>2
  <2>5. trip.at = market.nth => got = trip.told
    BY <1>5
  <2>6. UNCHANGED view /\ form' \in {form, Empty}
    BY <1>1
  <2> HIDE DEF got, Passes, left, status
  <2> QED
    BY <1>1, <2>1, <2>2, <2>3, <2>4, <2>5, <2>6, SettledInTheEnd
<1>7. CASE ~Passes
  <2>1. TurnedDown(trip.at) /\ UNCHANGED <<market, view, form, lpHeld>>
    BY <1>1, <1>7
  <2>2. ASSUME trip.at = market.nth PROVE \E i \in DOMAIN Zero : trip.told[i] < trip.min[i]
    <3>1. PICK s \in Sides : ~(out[s] >= trip.min[s] /\ out[s] = trip.told[s])
      BY <1>3, <1>5, <1>7, <2>2 DEF Sides
    <3>2. out[s] = trip.told[s] /\ out[s] \in Nat /\ trip.min[s] \in Nat /\ s \in DOMAIN Zero
      BY <1>3, <1>4, <1>5, <2>2 DEF Sides, Zero
    <3> QED
      BY <3>1, <3>2
  <2> HIDE DEF Passes, got, left, status
  <2> QED
    BY <1>1, <2>1, <2>2, RefusedInTheEnd
<1> QED
  BY <1>6, <1>7

(* What the trader is told of a swap, a deposit or a redemption is what comes *)
(* of it, for every pool, fee, amount and order of steps of everybody else,   *)
(* as long as the two square roots of first deposits agree.                   *)
THEOREM TellsWhatIsGot ==
  ScreensSpec /\ []RootsAgree => []AsShown
<1>1. ScreensInit => ScreensInv
  <2> SUFFICES ASSUME ScreensInit PROVE ScreensInv
    OBVIOUS
  <2>1. PICK p \in Markets :
          /\ market = [nth |-> 1, reserve |-> p.reserve, supply |-> p.supply,
                       status |-> IF p.supply = 0 THEN "Unfunded" ELSE "Active"]
          /\ lpHeld = p.held
    BY DEF ScreensInit
  <2>2. view = NoMarket /\ form = Empty /\ trip = Home
    BY DEF ScreensInit
  <2>3. /\ p.reserve \in [Sides -> Nat] /\ p.supply \in Nat /\ p.held \in Nat
        /\ p.held <= p.supply
        /\ \A s \in Sides : p.reserve[s] = 0 <=> p.supply = 0
    BY ScreensAssumption DEF Sides
  <2>4. MarketInv
    BY <2>1, <2>3 DEF MarketInv, IsMarket
  <2>5. IsMarket(view)
    BY <2>2 DEF IsMarket, NoMarket, Sides
  <2>6. Zero \in Offers /\ Empty \in Forms /\ Empty.shown.nth = 0 /\ Empty.what = "nothing"
    BY DEF Zero, Offers, Empty, Forms, Quotations, NoQuoteYet, Sides
  <2>7. Home \in Trips /\ Home.form = Empty /\ Home.step = "none"
    BY <2>6 DEF Home, Trips
  <2>8. Quoted(form) /\ Quoted(trip.form)
    BY <2>2, <2>4, <2>6, <2>7 DEF Quoted, MarketInv, IsMarket
  <2>9. Promised /\ Stands /\ AsShown
    BY <2>2, <2>7 DEF Promised, Stands, AsShown, SwapAsShown, LiquidityAsTold, TripOver
  <2> QED
    BY <2>2, <2>4, <2>5, <2>6, <2>7, <2>8, <2>9 DEF ScreensInv
<1>2. ScreensInv /\ RootsAgree /\ [ScreensNext]_ScreensVars => ScreensInv'
  <2> SUFFICES ASSUME ScreensInv, RootsAgree, [ScreensNext]_ScreensVars PROVE ScreensInv'
    OBVIOUS
  <2>1. CASE OthersMove
    BY <2>1, OthersKeep
  <2>2. CASE RefreshPools
    BY <2>2, RefreshKeeps
  <2>3. CASE TypeSwap \/ TypeAdd \/ SetRemove
    BY <2>3, TypesKeep
  <2>4. CASE QuoteArrives
    BY <2>4, QuoteKeeps
  <2>5. CASE Click
    BY <2>5, ClickKeeps
  <2>6. CASE RequestsSwap
    BY <2>6, RequestsSwapKeeps
  <2>7. CASE SettlesSwap
    BY <2>7, SettlesSwapKeeps
  <2>8. CASE RequestsAdd
    BY <2>8, RequestsAddKeeps
  <2>9. CASE SettlesAdd
    BY <2>9, SettlesAddKeeps
  <2>10. CASE RequestsRemove
    BY <2>10, RequestsRemoveKeeps
  <2>11. CASE SettlesRemove
    BY <2>11, SettlesRemoveKeeps
  <2>12. CASE UNCHANGED ScreensVars
    <3>1. UNCHANGED <<market, view, trip, lpHeld>> /\ form' = form
      BY <2>12 DEF ScreensVars
    <3>2. form' \in Forms /\ Quoted(form)'
      BY <3>1 DEF ScreensInv, Quoted
    <3> QED
      BY <3>1, <3>2, NewForm
  <2> QED
    BY <2>1, <2>2, <2>3, <2>4, <2>5, <2>6, <2>7, <2>8, <2>9, <2>10, <2>11, <2>12
    DEF ScreensNext
<1>3. ScreensInv => AsShown
  BY DEF ScreensInv
<1> QED
  BY <1>1, <1>2, <1>3, PTL DEF ScreensSpec
=============================================================================
