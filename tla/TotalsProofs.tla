---------------------------- MODULE TotalsProofs ----------------------------
(***************************************************************************)
(* How a total changes when amounts change: the facts every proof about    *)
(* reserves and slices rests on.  They are proved by counting coins, with  *)
(* no induction over the set of holders.  The last part states induction   *)
(* and the existence of a first element for sets, not for formulas.        *)
(***************************************************************************)
EXTENDS Totals, Integers, FiniteSetTheorems, FunctionTheorems, TLAPS

LEMMA CoinsMember ==
  ASSUME NEW S, NEW f \in [S -> Nat]
  PROVE  \A c : c \in Coins(f) <=> \E x \in S : \E i \in 1 .. f[x] : c = <<x, i>>
BY DEF Coins

(* One holder's coins. *)
LEMMA OwnCoins ==
  ASSUME NEW x, NEW n \in Nat
  PROVE  /\ IsFiniteSet({x} \X (1 .. n))
         /\ Cardinality({x} \X (1 .. n)) = n
<1>1. IsFiniteSet({x}) /\ Cardinality({x}) = 1
  BY FS_Singleton
<1>2. IsFiniteSet(1 .. n) /\ Cardinality(1 .. n) = n
  BY FS_Interval
<1>3. IsFiniteSet({x} \X (1 .. n))
      /\ Cardinality({x} \X (1 .. n)) = Cardinality({x}) * Cardinality(1 .. n)
  BY <1>1, <1>2, FS_Product
<1> QED
  BY <1>1, <1>2, <1>3

LEMMA CoinsFinite ==
  ASSUME NEW S, IsFiniteSet(S), NEW f \in [S -> Nat]
  PROVE  IsFiniteSet(Coins(f))
<1> DEFINE own == [x \in S |-> {x} \X (1 .. f[x])]
           all == {{x} \X (1 .. f[x]) : x \in S}
<1>1. own \in Surjection(S, all)
  BY DEF Surjection
<1>2. IsFiniteSet(all)
  BY <1>1, FS_Surjection
<1>3. ASSUME NEW T \in all
      PROVE  IsFiniteSet(T)
  <2>1. PICK x \in S : T = {x} \X (1 .. f[x])
    OBVIOUS
  <2>2. f[x] \in Nat
    OBVIOUS
  <2> QED
    BY <2>1, <2>2, OwnCoins
<1>4. Coins(f) = UNION all
  BY DEF Coins
<1> HIDE DEF all, own
<1> QED
  BY <1>2, <1>3, <1>4, FS_UNION

(* A total of natural numbers is a natural number. *)
LEMMA SumNat ==
  ASSUME NEW S, IsFiniteSet(S), NEW f \in [S -> Nat]
  PROVE  Sum(f) \in Nat
BY CoinsFinite, FS_CardinalityType DEF Sum

(* A total is zero exactly when nobody holds anything. *)
LEMMA SumZero ==
  ASSUME NEW S, IsFiniteSet(S), NEW f \in [S -> Nat]
  PROVE  Sum(f) = 0 <=> \A x \in S : f[x] = 0
<1>1. Sum(f) = 0 <=> Coins(f) = {}
  BY CoinsFinite, FS_EmptySet DEF Sum
<1>2. ASSUME NEW x \in S, f[x] # 0
      PROVE  Coins(f) # {}
  <2>1. 1 \in 1 .. f[x]
    BY <1>2
  <2>2. <<x, 1>> \in Coins(f)
    BY <2>1, CoinsMember
  <2> QED
    BY <2>2
<1>3. ASSUME \A x \in S : f[x] = 0
      PROVE  Coins(f) = {}
  <2>1. \A x \in S : 1 .. f[x] = {}
    BY <1>3
  <2> QED
    BY <2>1, CoinsMember
<1> QED
  BY <1>1, <1>2, <1>3

(* The coins of the first f[x] and of the next g[x] of every x. *)
LEMMA SumPlus ==
  ASSUME NEW S, IsFiniteSet(S), NEW f \in [S -> Nat], NEW g \in [S -> Nat]
  PROVE  /\ Plus(f, g) \in [S -> Nat]
         /\ Sum(Plus(f, g)) = Sum(f) + Sum(g)
<1> DEFINE h == Plus(f, g)
           moved == [c \in Coins(g) |-> <<c[1], c[2] + f[c[1]]>>]
           new == {<<c[1], c[2] + f[c[1]]>> : c \in Coins(g)}
<1>1. h \in [S -> Nat] /\ \A x \in S : h[x] = f[x] + g[x]
  BY DEF Plus
<1>2. \A c \in Coins(g) : c[1] \in S /\ c[2] \in 1 .. g[c[1]] /\ c = <<c[1], c[2]>>
  BY CoinsMember
<1>3. moved \in Bijection(Coins(g), new)
  <2>1. moved \in [Coins(g) -> new]
    OBVIOUS
  <2>2. ASSUME NEW c \in Coins(g), NEW d \in Coins(g), moved[c] = moved[d]
        PROVE  c = d
    <3>1. c[1] = d[1] /\ c[2] + f[c[1]] = d[2] + f[d[1]]
      BY <2>2
    <3>2. c[2] \in Nat /\ d[2] \in Nat /\ f[c[1]] \in Nat
      BY <1>2
    <3>3. c[2] = d[2]
      BY <3>1, <3>2
    <3> QED
      BY <1>2, <3>1, <3>3
  <2>3. \A t \in new : \E c \in Coins(g) : moved[c] = t
    OBVIOUS
  <2> QED
    BY <2>1, <2>2, <2>3, Fun_IsBij
<1>4. IsFiniteSet(new) /\ Cardinality(new) = Cardinality(Coins(g))
  BY <1>3, CoinsFinite, FS_Bijection DEF ExistsBijection
<1>5. Coins(f) \cap new = {}
  <2>1. SUFFICES ASSUME NEW c \in Coins(f), NEW d \in Coins(g),
                        c = <<d[1], d[2] + f[d[1]]>>
                 PROVE  FALSE
    OBVIOUS
  <2>2. PICK x \in S : \E i \in 1 .. f[x] : c = <<x, i>>
    BY CoinsMember
  <2>3. PICK i \in 1 .. f[x] : c = <<x, i>>
    BY <2>2
  <2>4. d[1] = x /\ i = d[2] + f[x]
    BY <2>1, <2>3
  <2>5. d[2] \in 1 .. g[x] /\ f[x] \in Nat /\ g[x] \in Nat
    BY <1>2, <2>4
  <2> QED
    BY <2>3, <2>4, <2>5
<1>6. Coins(h) = Coins(f) \cup new
  <2>1. ASSUME NEW c \in Coins(h)
        PROVE  c \in Coins(f) \cup new
    <3>1. PICK x \in S : \E i \in 1 .. h[x] : c = <<x, i>>
      BY <1>1, CoinsMember
    <3>2. PICK i \in 1 .. h[x] : c = <<x, i>>
      BY <3>1
    <3>3. f[x] \in Nat /\ g[x] \in Nat /\ h[x] = f[x] + g[x]
      BY <1>1
    <3>4. CASE i <= f[x]
      <4>1. i \in 1 .. f[x]
        BY <3>2, <3>3, <3>4
      <4> QED
        BY <4>1, <3>2, CoinsMember
    <3>5. CASE i > f[x]
      <4>1. i - f[x] \in 1 .. g[x] /\ (i - f[x]) + f[x] = i
        BY <3>2, <3>3, <3>5
      <4>2. <<x, i - f[x]>> \in Coins(g)
        BY <4>1, CoinsMember
      <4> QED
        BY <4>1, <4>2, <3>2
    <3> QED
      BY <3>2, <3>3, <3>4, <3>5
  <2>2. ASSUME NEW c \in Coins(f)
        PROVE  c \in Coins(h)
    <3>1. PICK x \in S : \E i \in 1 .. f[x] : c = <<x, i>>
      BY CoinsMember
    <3>2. PICK i \in 1 .. f[x] : c = <<x, i>>
      BY <3>1
    <3>3. i \in 1 .. h[x]
      BY <1>1, <3>2
    <3> QED
      BY <1>1, <3>2, <3>3, CoinsMember
  <2>3. ASSUME NEW d \in Coins(g)
        PROVE  <<d[1], d[2] + f[d[1]]>> \in Coins(h)
    <3>1. d[1] \in S /\ d[2] + f[d[1]] \in 1 .. h[d[1]]
      BY <1>1, <1>2
    <3> QED
      BY <1>1, <3>1, CoinsMember
  <2> QED
    BY <2>1, <2>2, <2>3
<1>7. Cardinality(Coins(h)) = Cardinality(Coins(f)) + Cardinality(new) - Cardinality({})
  BY <1>4, <1>5, <1>6, CoinsFinite, FS_Union
<1>8. Cardinality({}) = 0 /\ Cardinality(Coins(f)) \in Nat /\ Cardinality(Coins(g)) \in Nat
  BY FS_EmptySet, CoinsFinite, FS_CardinalityType
<1> QED
  BY <1>1, <1>4, <1>7, <1>8 DEF Sum

(* Taking g from f, where g is covered by f. *)
LEMMA SumMinus ==
  ASSUME NEW S, IsFiniteSet(S), NEW f \in [S -> Nat], NEW g \in [S -> Nat],
         \A x \in S : g[x] <= f[x]
  PROVE  /\ Minus(f, g) \in [S -> Nat]
         /\ Sum(Minus(f, g)) = Sum(f) - Sum(g)
         /\ Sum(g) <= Sum(f)
<1> DEFINE d == Minus(f, g)
<1>1. d \in [S -> Nat] /\ \A x \in S : d[x] = f[x] - g[x]
  BY DEF Minus
<1>2. Plus(d, g) = f
  BY <1>1 DEF Plus
<1>3. Sum(f) = Sum(d) + Sum(g)
  BY <1>1, <1>2, SumPlus
<1>4. Sum(d) \in Nat /\ Sum(g) \in Nat
  BY <1>1, SumNat
<1> HIDE DEF d
<1> QED
  BY <1>1, <1>3, <1>4 DEF d

(* The total of one holder. *)
LEMMA SumSingle ==
  ASSUME NEW S, IsFiniteSet(S), NEW x \in S, NEW n \in Nat
  PROVE  Sum([y \in S |-> IF y = x THEN n ELSE 0]) = n
<1> DEFINE f == [y \in S |-> IF y = x THEN n ELSE 0]
<1>1. f \in [S -> Nat]
  OBVIOUS
<1>2. Coins(f) = {x} \X (1 .. n)
  <2>1. ASSUME NEW c \in Coins(f)
        PROVE  c \in {x} \X (1 .. n)
    <3>1. PICK y \in S : \E i \in 1 .. f[y] : c = <<y, i>>
      BY <1>1, CoinsMember
    <3>2. PICK i \in 1 .. f[y] : c = <<y, i>>
      BY <3>1
    <3>3. y = x
      BY <3>2
    <3> QED
      BY <3>2, <3>3
  <2>2. ASSUME NEW c \in {x} \X (1 .. n)
        PROVE  c \in Coins(f)
    <3>1. \E i \in 1 .. f[x] : c = <<x, i>>
      OBVIOUS
    <3> QED
      BY <1>1, <3>1, CoinsMember
  <2> QED
    BY <2>1, <2>2
<1> QED
  BY <1>2, OwnCoins DEF Sum

(* Two distributions that differ in one holder's amount. *)
LEMMA SumUpdate ==
  ASSUME NEW S, IsFiniteSet(S), NEW f \in [S -> Nat], NEW g \in [S -> Nat],
         NEW x \in S, \A y \in S : y # x => g[y] = f[y]
  PROVE  Sum(g) = Sum(f) - f[x] + g[x]
<1> DEFINE only(n) == [y \in S |-> IF y = x THEN n ELSE 0]
           rest    == [y \in S |-> IF y = x THEN 0 ELSE f[y]]
<1>1. rest \in [S -> Nat] /\ only(f[x]) \in [S -> Nat] /\ only(g[x]) \in [S -> Nat]
  OBVIOUS
<1>2. f = Plus(rest, only(f[x]))
  BY DEF Plus
<1>3. g = Plus(rest, only(g[x]))
  BY DEF Plus
<1>4. Sum(only(f[x])) = f[x] /\ Sum(only(g[x])) = g[x]
  <2>1. ASSUME NEW n \in Nat
        PROVE  Sum(only(n)) = n
    BY SumSingle
  <2>2. f[x] \in Nat /\ g[x] \in Nat
    OBVIOUS
  <2> HIDE DEF only
  <2> QED
    BY <2>1, <2>2
<1> HIDE DEF rest, only
<1>5. Sum(f) = Sum(rest) + Sum(only(f[x]))
  BY <1>1, <1>2, SumPlus
<1>6. Sum(g) = Sum(rest) + Sum(only(g[x]))
  BY <1>1, <1>3, SumPlus
<1>7. Sum(rest) \in Nat /\ f[x] \in Nat /\ g[x] \in Nat
  BY <1>1, SumNat
<1> QED
  BY <1>4, <1>5, <1>6, <1>7

(* Two distributions that differ in the amounts of two holders. *)
LEMMA SumUpdateTwo ==
  ASSUME NEW S, IsFiniteSet(S), NEW f \in [S -> Nat], NEW g \in [S -> Nat],
         NEW x \in S, NEW y \in S, x # y,
         \A z \in S : z # x /\ z # y => g[z] = f[z]
  PROVE  Sum(g) = Sum(f) - f[x] - f[y] + g[x] + g[y]
<1> DEFINE h == [f EXCEPT ![x] = g[x]]
<1>1. h \in [S -> Nat] /\ h[x] = g[x] /\ \A z \in S : z # x => h[z] = f[z]
  OBVIOUS
<1>2. \A z \in S : z # y => g[z] = h[z]
  BY <1>1
<1> HIDE DEF h
<1>3. Sum(h) = Sum(f) - f[x] + h[x]
  BY <1>1, SumUpdate
<1>4. Sum(g) = Sum(h) - h[y] + g[y]
  BY <1>1, <1>2, SumUpdate
<1>5. Sum(f) \in Nat /\ f[x] \in Nat /\ f[y] \in Nat /\ g[x] \in Nat /\ g[y] \in Nat
  BY SumNat
<1> QED
  BY <1>1, <1>3, <1>4, <1>5

(* The total does not depend on what the holders are called, and those who *)
(* hold nothing may be left out: T lists the others, each once.            *)
LEMMA SumReindex ==
  ASSUME NEW S, IsFiniteSet(S), NEW f \in [S -> Nat],
         NEW T, NEW o \in [T -> S], \A i, j \in T : o[i] = o[j] => i = j,
         \A x \in S : f[x] # 0 => \E i \in T : o[i] = x
  PROVE  Sum([i \in T |-> f[o[i]]]) = Sum(f)
<1> DEFINE g     == [i \in T |-> f[o[i]]]
           named == [c \in Coins(g) |-> <<o[c[1]], c[2]>>]
<1>1. g \in [T -> Nat] /\ \A i \in T : g[i] = f[o[i]]
  OBVIOUS
<1> HIDE DEF g
<1>2. ASSUME NEW c \in Coins(g)
      PROVE  /\ c[1] \in T /\ c[2] \in 1 .. f[o[c[1]]] /\ c = <<c[1], c[2]>>
             /\ <<o[c[1]], c[2]>> \in Coins(f)
  <2>1. PICK i \in T : \E n \in 1 .. g[i] : c = <<i, n>>
    BY <1>1, CoinsMember
  <2>2. PICK n \in 1 .. g[i] : c = <<i, n>>
    BY <2>1
  <2>3. o[i] \in S /\ n \in 1 .. f[o[i]] /\ c[1] = i /\ c[2] = n
    BY <1>1, <2>2
  <2>4. <<o[i], n>> \in Coins(f)
    BY <2>3, CoinsMember
  <2> QED
    BY <2>2, <2>3, <2>4
<1>3. named \in [Coins(g) -> Coins(f)]
  BY <1>2
<1>4. ASSUME NEW c \in Coins(g), NEW d \in Coins(g), named[c] = named[d]
      PROVE  c = d
  <2>1. o[c[1]] = o[d[1]] /\ c[2] = d[2]
    BY <1>4
  <2>2. c[1] \in T /\ d[1] \in T /\ c = <<c[1], c[2]>> /\ d = <<d[1], d[2]>>
    BY <1>2
  <2>3. c[1] = d[1]
    BY <2>1, <2>2
  <2> QED
    BY <2>1, <2>2, <2>3
<1>5. ASSUME NEW t \in Coins(f)
      PROVE  \E c \in Coins(g) : named[c] = t
  <2>1. PICK x \in S : \E n \in 1 .. f[x] : t = <<x, n>>
    BY CoinsMember
  <2>2. PICK n \in 1 .. f[x] : t = <<x, n>>
    BY <2>1
  <2>3. f[x] # 0
    BY <2>2
  <2>4. PICK i \in T : o[i] = x
    BY <2>3
  <2>5. <<i, n>> \in Coins(g)
    <3>1. n \in 1 .. g[i]
      BY <1>1, <2>2, <2>4
    <3> QED
      BY <1>1, <3>1, CoinsMember
  <2>6. named[<<i, n>>] = t
    BY <2>2, <2>4, <2>5
  <2> QED
    BY <2>5, <2>6
<1>6. named \in Bijection(Coins(g), Coins(f))
  BY <1>3, <1>4, <1>5, Fun_IsBij
<1>7. named \in Bijection(Coins(g), Coins(f)) => ExistsBijection(Coins(g), Coins(f))
  BY DEF ExistsBijection
<1>8. IsFiniteSet(Coins(f))
  BY CoinsFinite
<1>9. ExistsBijection(Coins(f), Coins(g))
  BY <1>6, <1>7, Fun_ExistsBijSymmetric
<1>10. Cardinality(Coins(g)) = Cardinality(Coins(f))
  BY <1>8, <1>9, FS_Bijection
<1> QED
  BY <1>10 DEF Sum, g

(* One more holder. *)
LEMMA SumAdd ==
  ASSUME NEW S, IsFiniteSet(S), NEW x, x \notin S, NEW f \in [S \cup {x} -> Nat]
  PROVE  Sum(f) = Sum([y \in S |-> f[y]]) + f[x]
<1> DEFINE U == S \cup {x}
           g == [y \in U |-> IF y = x THEN 0 ELSE f[y]]
           o == [y \in S |-> y]
<1>1. IsFiniteSet(U) /\ x \in U
  BY FS_AddElement
<1>2. g \in [U -> Nat] /\ o \in [S -> U] /\ \A y \in U : y # x => f[y] = g[y]
  OBVIOUS
<1>3. g[x] = 0 /\ f[x] \in Nat
  BY <1>1
<1>4. \A y \in S : g[o[y]] = f[y]
  OBVIOUS
<1>5. /\ \A i, j \in S : o[i] = o[j] => i = j
      /\ \A y \in U : g[y] # 0 => \E i \in S : o[i] = y
  <2>1. \A y \in U : y # x => y \in S /\ o[y] = y
    OBVIOUS
  <2> QED
    BY <1>3, <2>1
<1>6. [y \in S |-> g[o[y]]] = [y \in S |-> f[y]]
  BY <1>4
<1> HIDE DEF g, o
<1>7. f \in [U -> Nat]
  OBVIOUS
<1> HIDE DEF U
<1>8. Sum([y \in S |-> g[o[y]]]) = Sum(g)
  BY <1>1, <1>2, <1>5, SumReindex
<1>9. Sum(f) = Sum(g) - g[x] + f[x] /\ Sum(g) \in Nat
  BY <1>1, <1>2, <1>7, SumUpdate, SumNat
<1>10. Sum(f) = Sum(g) + f[x] /\ Sum(g) = Sum([y \in S |-> f[y]])
  BY <1>3, <1>6, <1>8, <1>9
<1> QED
  BY <1>10

(* What some entries of a ledger add up to when an entry is added to it,   *)
(* which is one of them or is not.                                         *)
LEMMA SumEntries ==
  ASSUME NEW S, IsFiniteSet(S), NEW x, x \notin S,
         NEW amount \in [S \cup {x} -> Nat],
         NEW before \in SUBSET S, NEW after,
         after = before \/ after = before \cup {x}
  PROVE  /\ Sum([y \in before |-> amount[y]]) \in Nat
         /\ Sum([y \in after |-> amount[y]])
              = Sum([y \in before |-> amount[y]])
                  + (IF x \in after THEN amount[x] ELSE 0)
<1> DEFINE f == [y \in after |-> amount[y]]
<1>1. IsFiniteSet(before) /\ x \notin before
  BY FS_Subset
<1>2. [y \in before |-> amount[y]] \in [before -> Nat]
  OBVIOUS
<1>3. Sum([y \in before |-> amount[y]]) \in Nat
  BY <1>1, <1>2, SumNat
<1>4. CASE after = before \cup {x}
  <2>1. f \in [before \cup {x} -> Nat] /\ f[x] = amount[x] /\ x \in after
    BY <1>4
  <2>2. [y \in before |-> f[y]] = [y \in before |-> amount[y]]
    BY <1>4
  <2> HIDE DEF f
  <2>3. Sum(f) = Sum([y \in before |-> f[y]]) + f[x]
    BY <1>1, <2>1, SumAdd
  <2>4. Sum(f) = Sum([y \in before |-> amount[y]]) + amount[x]
    BY <2>1, <2>2, <2>3
  <2> QED
    BY <1>3, <2>1, <2>4 DEF f
<1>5. CASE after = before
  <2>1. Sum([y \in after |-> amount[y]]) = Sum([y \in before |-> amount[y]]) + 0
    BY <1>3, <1>5
  <2> QED
    BY <1>1, <1>3, <1>5, <2>1
<1> QED
  BY <1>4, <1>5
-----------------------------------------------------------------------------
(* A set of numbers that has a member has a least one. *)
LEMMA LeastOf ==
  ASSUME NEW T, T \subseteq Nat, T # {}
  PROVE  \E x \in T : \A y \in T : x <= y
<1> DEFINE R == {ss \in Nat \X Nat : ss[1] < ss[2]}
<1>1. IsWellFoundedOn(R, Nat)
  BY NatLessThanWellFounded DEF OpToRel
<1>2. \A x, y \in Nat : y < x => <<y, x>> \in R
  OBVIOUS
<1> HIDE DEF R
<1>3. PICK x \in T : \A y \in T : <<y, x>> \notin R
  BY <1>1, WFMin
<1>4. ASSUME NEW y \in T
      PROVE  x <= y
  <2>1. x \in Nat /\ y \in Nat /\ ~ (y < x)
    BY <1>2, <1>3
  <2> QED
    BY <2>1
<1> QED
  BY <1>4

(* A set of numbers with 0 and the successors of its members is all there  *)
(* is.                                                                     *)
LEMMA Induction ==
  ASSUME NEW T, 0 \in T, \A n \in Nat : n \in T => n + 1 \in T
  PROVE  \A n \in Nat : n \in T
<1> SUFFICES ASSUME NEW n \in Nat, n \notin T PROVE FALSE
  OBVIOUS
<1> DEFINE U == Nat \ T
<1>1. U \subseteq Nat /\ U # {}
  OBVIOUS
<1> HIDE DEF U
<1>2. PICK x \in U : \A y \in U : x <= y
  BY <1>1, LeastOf
<1>3. x \in Nat \ {0} /\ x \notin T
  BY DEF U
<1>4. x - 1 \in Nat /\ ~ (x <= x - 1) /\ (x - 1) + 1 = x
  BY <1>3
<1>5. x - 1 \in T
  BY <1>2, <1>4 DEF U
<1> QED
  BY <1>3, <1>4, <1>5

(* A finite set with members has a first one in a total order. *)
LEMMA FirstExists ==
  ASSUME NEW S, IsFiniteSet(S), S # {}, NEW R,
         \A x, y, z \in S : <<x, y>> \in R /\ <<y, z>> \in R => <<x, z>> \in R,
         \A x, y \in S : x # y => <<x, y>> \in R \/ <<y, x>> \in R
  PROVE  \E x \in S : \A y \in S \ {x} : <<x, y>> \in R
<1> DEFINE Led(X) == \E x \in X : \A y \in X \ {x} : <<x, y>> \in R
           T == {n \in Nat : \A X \in SUBSET S : Cardinality(X) = n /\ X # {} => Led(X)}
<1>1. 0 \in T
  BY FS_Subset, FS_EmptySet
<1>2. ASSUME NEW n \in Nat, n \in T
      PROVE  n + 1 \in T
  <2>1. SUFFICES ASSUME NEW X \in SUBSET S, Cardinality(X) = n + 1
                 PROVE  Led(X)
    BY <1>2
  <2>2. IsFiniteSet(X)
    BY FS_Subset
  <2>3. PICK x \in X : TRUE
    BY <2>1, FS_EmptySet
  <2>4. Cardinality(X \ {x}) = n
    <3>1. Cardinality(X \ {x}) = Cardinality(X) - 1
      BY <2>2, <2>3, FS_RemoveElement
    <3> QED
      BY <2>1, <3>1
  <2>5. CASE X \ {x} = {}
    BY <2>3, <2>5
  <2>6. CASE X \ {x} # {}
    <3>1. Led(X \ {x})
      BY <1>2, <2>4, <2>6
    <3>2. PICK y \in X \ {x} : \A z \in (X \ {x}) \ {y} : <<y, z>> \in R
      BY <3>1
    <3>3. CASE <<y, x>> \in R
      BY <3>2, <3>3
    <3>4. CASE <<x, y>> \in R
      BY <2>3, <3>2, <3>4
    <3> QED
      BY <2>3, <3>2, <3>3, <3>4
  <2> QED
    BY <2>5, <2>6
<1> HIDE DEF T
<1>3. \A n \in Nat : n \in T
  BY <1>1, <1>2, Induction
<1>4. Cardinality(S) \in Nat
  BY FS_CardinalityType
<1> QED
  BY <1>3, <1>4 DEF T
=============================================================================
