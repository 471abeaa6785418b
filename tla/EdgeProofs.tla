----------------------------- MODULE EdgeProofs ------------------------------
(***************************************************************************)
(* What the edge of the venue promises, for every value of the constants:  *)
(* the HTTP gateway, sessions, hosted wallets, what a page authors, the    *)
(* link to a wallet, the page of requests, the choice of holdings and what *)
(* is recovered of a transaction, one section each.  They share no state,  *)
(* so each has an inductive invariant of its own.                          *)
(***************************************************************************)
EXTENDS Gateway, Sessions, HostedWallet, Authoring, WalletLink, RfqScreen, Funding, Recovery,
        TotalsProofs

-----------------------------------------------------------------------------
(***************************************************************************)
(* The limiter.  What a handle has been admitted beyond its refill and     *)
(* what its bucket would grant now never exceed a full bucket together; a  *)
(* bucket that a sweep drops is full again.                                *)
(***************************************************************************)
Buckets == {NoBucket} \cup [parts : Nat, age : Int]

Budgeted ==
  /\ bucket \in [Handle -> Buckets]
  /\ drawn \in [Handle -> Nat]
  /\ \A h \in Handle : drawn[h] + Refilled(bucket[h]) <= Full

LEMMA FullBucket ==
  /\ Full \in Nat \ {0} /\ PerRequest \in Nat \ {0} /\ MaxIdle \in Nat
  /\ MaxIdle >= Full
BY GatewayAssumption DEF Full

\* A refill is at least what is there, and at most a full bucket.
LEMMA RefillRange ==
  ASSUME NEW b \in Buckets
  PROVE  Refilled(b) \in Nat /\ Refilled(b) <= Full
BY FullBucket DEF Buckets, NoBucket, Refilled, Smaller, Larger

\* What has been idle for longer than the limit is full again.
LEMMA DisusedIsFull ==
  ASSUME NEW b \in Buckets, Disused(b)
  PROVE  Refilled(b) = Full
BY FullBucket DEF Buckets, NoBucket, Refilled, Smaller, Larger, Disused

LEMMA SweepKeeps ==
  ASSUME bucket \in [Handle -> Buckets], NEW h \in Handle
  PROVE  Swept \in [Handle -> Buckets] /\ Refilled(Swept[h]) = Refilled(bucket[h])
<1>1. Refilled(NoBucket) = Full
  BY DEF Refilled
<1>2. CASE takes + 1 < SweepEvery
  BY <1>2 DEF Swept
<1>3. CASE ~(takes + 1 < SweepEvery)
  <2>1. Swept = [k \in Handle |-> IF Disused(bucket[k]) THEN NoBucket ELSE bucket[k]]
    BY <1>3 DEF Swept
  <2>2. bucket[h] \in Buckets /\ NoBucket \in Buckets
    BY DEF Buckets
  <2> QED
    BY <1>1, <2>1, <2>2, DisusedIsFull
<1> QED
  BY <1>2, <1>3

LEMMA TakeKeepsBudget ==
  ASSUME Budgeted, NEW h \in Handle, Take(h)
  PROVE  Budgeted'
<1> DEFINE had == Refilled(Swept[h])
           new == [parts |-> IF Admits(h) THEN had - PerRequest ELSE had, age |-> 0]
<1>1. /\ bucket' = [Swept EXCEPT ![h] = new]
      /\ drawn' = [drawn EXCEPT ![h] = IF Admits(h) THEN @ + PerRequest ELSE @]
  BY DEF Take
<1>2. /\ Swept \in [Handle -> Buckets]
      /\ \A k \in Handle : Refilled(Swept[k]) = Refilled(bucket[k])
  BY SweepKeeps DEF Budgeted
<1>3. had \in Nat /\ had <= Full /\ PerRequest \in Nat /\ (Admits(h) => had >= PerRequest)
  BY <1>2, RefillRange, FullBucket DEF Admits
<1>4. new \in Buckets /\ Refilled(new) = IF Admits(h) THEN had - PerRequest ELSE had
  <2>1. new.parts \in Nat /\ new.parts <= Full /\ new.age = 0
    BY <1>3, FullBucket
  <2>2. new \in Buckets /\ new # NoBucket
    BY <2>1 DEF Buckets, NoBucket
  <2>3. Refilled(new) = new.parts
    BY <2>1, <2>2, FullBucket DEF Refilled, Smaller, Larger
  <2> QED
    BY <2>2, <2>3
<1> HIDE DEF had, new
<1>5. bucket' \in [Handle -> Buckets] /\ drawn' \in [Handle -> Nat]
  BY <1>1, <1>2, <1>3, <1>4 DEF Budgeted
<1>6. ASSUME NEW k \in Handle
      PROVE  drawn'[k] + Refilled(bucket'[k]) <= Full
  <2>1. drawn[k] + Refilled(bucket[k]) <= Full /\ drawn[k] \in Nat
        /\ Refilled(bucket[k]) \in Nat /\ Full \in Nat
    BY RefillRange, FullBucket DEF Budgeted
  <2>2. CASE k = h
    <3>1. bucket'[k] = new /\ Refilled(bucket[k]) = had
          /\ drawn'[k] = IF Admits(h) THEN drawn[k] + PerRequest ELSE drawn[k]
      BY <1>1, <1>2, <2>2 DEF Budgeted, had
    <3> QED
      BY <1>3, <1>4, <2>1, <3>1
  <2>3. CASE k # h
    BY <1>1, <1>2, <2>1, <2>3 DEF Budgeted
  <2> QED
    BY <2>2, <2>3
<1>7. \A k \in Handle : drawn'[k] + Refilled(bucket[k])' <= Full
  BY <1>6 DEF Refilled, Smaller, Larger, NoBucket, Full
<1> QED
  BY <1>5, <1>7 DEF Budgeted, Full

\* A bucket regains at most what a tick takes off the history.
LEMMA AgeByOne ==
  ASSUME NEW b \in [parts : Nat, age : Int],
         NEW c, c = [b EXCEPT !.age = Smaller(@ + 1, MaxIdle + 1)]
  PROVE  c \in Buckets /\ (Refilled(c) <= Refilled(b) + 1 \/ Refilled(b) = Full)
<1>1. c \in [parts : Nat, age : Int] /\ c.parts = b.parts
      /\ c.age = Smaller(b.age + 1, MaxIdle + 1)
  BY FullBucket DEF Smaller
<1>2. b # NoBucket /\ c # NoBucket
  BY <1>1 DEF NoBucket
<1> QED
  BY <1>1, <1>2, FullBucket DEF Refilled, Smaller, Larger, Buckets

LEMMA AgeBack ==
  ASSUME NEW b \in [parts : Nat, age : Int],
         NEW c, c = [b EXCEPT !.age = Smaller(@ + -1, MaxIdle + 1)]
  PROVE  c \in Buckets /\ Refilled(c) <= Refilled(b)
<1>1. c \in [parts : Nat, age : Int] /\ c.parts = b.parts
      /\ c.age = Smaller(b.age + -1, MaxIdle + 1)
  BY FullBucket DEF Smaller
<1>2. b # NoBucket /\ c # NoBucket
  BY <1>1 DEF NoBucket
<1> QED
  BY <1>1, <1>2, FullBucket DEF Refilled, Smaller, Larger, Buckets

LEMMA ClockKeepsBudget ==
  ASSUME Budgeted, ClockMoves \/ ClockSetBack
  PROVE  Budgeted'
<1>1. CASE ClockMoves
  <2>1. /\ bucket' = Aged(1)
        /\ drawn' = [h \in Handle |-> Larger(0, drawn[h] - 1)]
    BY <1>1 DEF ClockMoves
  <2>2. ASSUME NEW h \in Handle
        PROVE  /\ bucket'[h] \in Buckets /\ drawn'[h] \in Nat
               /\ drawn'[h] + Refilled(bucket'[h]) <= Full
    <3>1. /\ drawn[h] \in Nat /\ drawn[h] + Refilled(bucket[h]) <= Full
          /\ bucket[h] \in Buckets /\ Refilled(bucket[h]) \in Nat /\ Full \in Nat
          /\ Refilled(bucket[h]) <= Full
      BY RefillRange, FullBucket DEF Budgeted
    <3>2. drawn'[h] = Larger(0, drawn[h] - 1)
      BY <2>1
    <3>3. CASE bucket[h] = NoBucket
      <4>1. bucket'[h] = bucket[h]
        BY <2>1, <3>3 DEF Aged
      <4> QED
        BY <3>1, <3>2, <4>1 DEF Larger
    <3>4. CASE bucket[h] # NoBucket
      <4>1. bucket'[h] = [bucket[h] EXCEPT !.age = Smaller(@ + 1, MaxIdle + 1)]
        BY <2>1, <3>4 DEF Aged
      <4>2. bucket[h] \in [parts : Nat, age : Int]
        BY <3>1, <3>4 DEF Buckets
      <4>3. /\ bucket'[h] \in Buckets
            /\ Refilled(bucket'[h]) <= Refilled(bucket[h]) + 1 \/ Refilled(bucket[h]) = Full
        BY <4>1, <4>2, AgeByOne
      <4>4. Refilled(bucket'[h]) \in Nat /\ Refilled(bucket'[h]) <= Full
        BY <4>3, RefillRange
      <4> QED
        BY <3>1, <3>2, <4>3, <4>4 DEF Larger
    <3> QED
      BY <3>3, <3>4
  <2>3. bucket' \in [Handle -> Buckets] /\ drawn' \in [Handle -> Nat]
    BY <2>1, <2>2 DEF Aged
  <2>4. \A h \in Handle : drawn'[h] + Refilled(bucket[h])' <= Full
    BY <2>2 DEF Refilled, Smaller, Larger, NoBucket, Full
  <2> QED
    BY <2>3, <2>4 DEF Budgeted, Full
<1>2. CASE ClockSetBack
  <2>1. bucket' = Aged(-1) /\ drawn' = drawn
    BY <1>2 DEF ClockSetBack
  <2>2. ASSUME NEW h \in Handle
        PROVE  bucket'[h] \in Buckets /\ drawn'[h] + Refilled(bucket'[h]) <= Full
    <3>1. /\ drawn[h] \in Nat /\ drawn[h] + Refilled(bucket[h]) <= Full
          /\ bucket[h] \in Buckets /\ Refilled(bucket[h]) \in Nat /\ Full \in Nat
      BY RefillRange, FullBucket DEF Budgeted
    <3>2. CASE bucket[h] = NoBucket
      <4>1. bucket'[h] = bucket[h]
        BY <2>1, <3>2 DEF Aged
      <4> QED
        BY <2>1, <3>1, <4>1
    <3>3. CASE bucket[h] # NoBucket
      <4>1. bucket'[h] = [bucket[h] EXCEPT !.age = Smaller(@ + -1, MaxIdle + 1)]
        BY <2>1, <3>3 DEF Aged
      <4>2. bucket[h] \in [parts : Nat, age : Int]
        BY <3>1, <3>3 DEF Buckets
      <4>3. bucket'[h] \in Buckets /\ Refilled(bucket'[h]) <= Refilled(bucket[h])
        BY <4>1, <4>2, AgeBack
      <4>4. Refilled(bucket'[h]) \in Nat
        BY <4>3, RefillRange
      <4> QED
        BY <2>1, <3>1, <4>3, <4>4
    <3> QED
      BY <3>2, <3>3
  <2>3. bucket' \in [Handle -> Buckets] /\ drawn' \in [Handle -> Nat]
    BY <2>1, <2>2 DEF Aged, Budgeted
  <2>4. \A h \in Handle : drawn'[h] + Refilled(bucket[h])' <= Full
    BY <2>2 DEF Refilled, Smaller, Larger, NoBucket, Full
  <2> QED
    BY <2>3, <2>4 DEF Budgeted, Full
<1> QED
  BY <1>1, <1>2

\* No handle is admitted more than a full bucket and its refill over any stretch of
\* time, for any rate, any sweeping and any adjustments of the clock.
THEOREM RateHolds == GatewaySpec => []WithinRate
<1>1. GatewayInit => Budgeted
  <2> SUFFICES ASSUME GatewayInit PROVE Budgeted
    OBVIOUS
  <2>1. Refilled(NoBucket) = Full /\ NoBucket \in Buckets
    BY DEF Refilled, Buckets
  <2> QED
    BY <2>1, FullBucket DEF GatewayInit, Budgeted
<1>2. Budgeted /\ [GatewayNext]_GatewayVars => Budgeted'
  <2> SUFFICES ASSUME Budgeted, [GatewayNext]_GatewayVars PROVE Budgeted'
    OBVIOUS
  <2>1. CASE UNCHANGED <<bucket, drawn>>
    BY <2>1 DEF Budgeted, Refilled, Smaller, Larger, NoBucket, Full
  <2>2. CASE LimitNext
    <3>1. "source" \in Handle /\ "token" \in Handle
      BY DEF Handle
    <3> QED
      BY <2>2, <3>1, TakeKeepsBudget, ClockKeepsBudget DEF LimitNext, Meter, MeterToken
  <2>3. CASE GateNext \/ RelayNext \/ StatusNext
    BY <2>1, <2>3
       DEF GateNext, Receive, ReadBody, Fetched, Gone, TokenExpires, RelayNext, Forward,
           Submitted, Rejected, SubmitFails, NotYet, TreeArrives, TakesEffect, StatusNext,
           CountUp, EndMoves, pollSlot, ParticipantAnswers, ProbeReturns, Limiter
  <2> QED
    BY <2>1, <2>2, <2>3 DEF GatewayNext, GatewayVars
<1>3. Budgeted => WithinRate
  BY RefillRange, FullBucket DEF Budgeted, WithinRate
<1> QED
  BY <1>1, <1>2, <1>3, PTL DEF GatewaySpec

-----------------------------------------------------------------------------
(***************************************************************************)
(* The gates.  A request that waits has passed the gates of its route, as  *)
(* whoever its token proved; the token may expire, and is never replaced.  *)
(***************************************************************************)
Writes == OperatorWrites \cup AdminWrites

\* What the gates have established of a request that is being handled.
PastTheGates(r) ==
  /\ r \in [route : Writes, subject : Somebody, caller : Somebody, proved : Somebody,
            required : Somebody, bearer : {"none", "operator", "admin"},
            at : {"body", "fetch"}]
  /\ r.caller \in {r.proved, "nobody"}
  /\ r.route \in AdminWrites => AdminToken(r)
  /\ r.route \in OperatorWrites =>
       \/ IF site.operator THEN r.bearer = "operator" ELSE site.devOpen
       \/ site.binds /\ r.route = "rfq"
  /\ r.at = "fetch" => r.route \in FetchBound
  /\ site.binds /\ (r.at = "fetch" \/ r.route \in InPath) =>
       r.required # "nobody" /\ r.required = r.proved

Guarded ==
  /\ inbound = NoInbound \/ PastTheGates(inbound)
  /\ ServedProperly

LEMMA RouteFacts ==
  /\ FetchBound \subseteq OperatorWrites /\ InPath \subseteq FetchBound
  /\ "rfq" \in OperatorWrites \ FetchBound /\ "relay" \in OperatorWrites \ FetchBound
  /\ (OwnReads \cup Feeds) \cap Writes = {}
  /\ OperatorWrites \cap AdminWrites = {}
BY DEF OwnReads, Feeds, FetchBound, InPath, TradeWrites, OperatorWrites, AdminWrites, Writes

\* Every step that hands a request to the services, or shows rows, does so properly.
LEMMA GrantsProperly ==
  ASSUME NEW r, Grants(r), UNCHANGED site, NoService # served',
         r.route \in FetchBound \cup {"rfq"} => (site.binds => r.proved = r.subject),
         r.route \in OwnReads \cup Feeds =>
           (site.binds => r.proved = r.subject) \/ AdminToken(r),
         r.route \in OperatorWrites =>
           \/ IF site.operator THEN r.bearer = "operator" ELSE site.devOpen
           \/ site.binds /\ r.route = "rfq",
         r.route \in AdminWrites => AdminToken(r),
         r.route = "relay" => r.subject \in site.allowed
  PROVE  ServedProperly'
<1>1. /\ served'.route = r.route /\ served'.subject = r.subject
      /\ served'.caller = r.proved /\ served'.bearer = r.bearer
  BY DEF Grants
<1> QED
  BY <1>1 DEF ServedProperly, OwnWord, AdminToken

LEMMA GateKeepsGuarded ==
  ASSUME Guarded, GateNext
  PROVE  Guarded'
<1>0. UNCHANGED site
  BY DEF GateNext, Receive, ReadBody, Fetched, Gone, TokenExpires
<1>1. ASSUME NEW r, PastTheGates(r) PROVE PastTheGates(r)'
  BY <1>0, <1>1 DEF PastTheGates, AdminToken
<1>2. Turned => ServedProperly'
  BY DEF Turned, ServedProperly
<1>3. ASSUME NEW r \in RequestOf, Receive(r) PROVE Guarded'
  <2>1. /\ r.route \in OwnReads \cup Feeds \cup OperatorWrites \cup AdminWrites
        /\ r.caller = r.proved /\ r.required = "nobody" /\ r.at = "body"
        /\ r.subject \in Somebody /\ r.caller \in Somebody
        /\ r.bearer \in {"none", "operator", "admin"}
    BY DEF RequestOf, RequestSet
  <2>2. CASE r.route \in OwnReads \cup Feeds
    <3>1. inbound' = NoInbound /\ (IF mayRead(r) THEN Grants(r) ELSE Turned)
      BY <1>3, <2>2 DEF Receive
    <3>2. CASE mayRead(r)
      <4>1. (site.binds => r.proved = r.subject) \/ AdminToken(r)
        BY <2>1, <3>2 DEF mayRead, requireCallerForPrivateRead, callerParty
      <4>2. r.route \notin Writes
        BY <2>2, RouteFacts
      <4>3. ServedProperly'
        BY <1>0, <2>2, <3>1, <3>2, <4>1, <4>2, RouteFacts, GrantsProperly
           DEF Writes, ServedProperly
      <4> QED
        BY <3>1, <4>3 DEF Guarded
    <3>3. CASE ~mayRead(r)
      BY <1>2, <3>1, <3>3 DEF Guarded
    <3> QED
      BY <3>2, <3>3
  <2>3. CASE r.route \notin OwnReads \cup Feeds
    <3> DEFINE asked == IF r.route \in InPath THEN callerParty(r) ELSE "nobody"
               passes == /\ checkAdminAuth(r)
                         /\ (callerAuthorizes(r) \/ checkOperatorAuth(r))
                         /\ hostedRfqEnabled(r) /\ walletRelayEnabled(r)
                         /\ r.route \notin InPath \/ requireCallerForFetchBoundRoute(r)
               q == [r EXCEPT !.required = asked]
    <3>1. /\ Turned
          /\ inbound' = IF ~passes THEN NoInbound ELSE q
      BY <1>3, <2>3 DEF Receive
    <3>2. CASE ~passes
      BY <1>2, <3>1, <3>2 DEF Guarded
    <3>3. CASE passes
      <4>1. /\ q.route = r.route /\ q.subject = r.subject /\ q.caller = r.caller
            /\ q.proved = r.proved /\ q.bearer = r.bearer /\ q.at = "body"
            /\ q.required = asked
            /\ q \in [route : Writes, subject : Somebody, caller : Somebody,
                      proved : Somebody, required : Somebody,
                      bearer : {"none", "operator", "admin"}, at : {"body", "fetch"}]
        <5>1. asked \in Somebody
          BY <2>1 DEF callerParty, Somebody
        <5>2. r.route \in Writes
          BY <2>1, <2>3 DEF Writes
        <5> QED
          BY <2>1, <5>1, <5>2 DEF RequestOf, RequestSet
      <4> HIDE DEF q
      <4>2. /\ r.route \in AdminWrites => AdminToken(q)
            /\ r.route \in OperatorWrites =>
                 \/ IF site.operator THEN q.bearer = "operator" ELSE site.devOpen
                 \/ site.binds /\ q.route = "rfq"
        BY <3>3, <4>1 DEF checkAdminAuth, AdminToken, callerAuthorizes, callerParty,
                          checkOperatorAuth
      <4>3. site.binds /\ q.route \in InPath => q.required # "nobody" /\ q.required = q.proved
        BY <2>1, <3>3, <4>1 DEF requireCallerForFetchBoundRoute, callerParty
      <4>4. PastTheGates(q)
        BY <2>1, <4>1, <4>2, <4>3 DEF PastTheGates
      <4> QED
        BY <1>1, <1>2, <3>1, <3>3, <4>4 DEF Guarded, PastTheGates, AdminToken
    <3> QED
      BY <3>2, <3>3
  <2> QED
    BY <2>2, <2>3
<1>4. CASE ReadBody
  <2> DEFINE r == inbound
             walletRelay == r.route = "relay" => r.subject \in site.allowed
  <2>1. PastTheGates(r) /\ r.at = "body"
    BY <1>4 DEF Guarded, ReadBody, NoInbound
  <2>2. CASE ~checkCallerBinding(r) \/ ~walletRelay
    BY <1>2, <1>4, <2>2 DEF Guarded, ReadBody
  <2>3. CASE checkCallerBinding(r) /\ walletRelay /\ r.route \in InPath
    <3>1. Turned /\ inbound' = [r EXCEPT !.at = "fetch"]
      BY <1>4, <2>3 DEF ReadBody
    <3>2. PastTheGates([r EXCEPT !.at = "fetch"])
      BY <2>1, <2>3, RouteFacts DEF PastTheGates, AdminToken
    <3> QED
      BY <1>1, <1>2, <3>1, <3>2 DEF Guarded, PastTheGates, AdminToken
  <2>4. CASE checkCallerBinding(r) /\ walletRelay /\ r.route \notin InPath
             /\ r.route \in FetchBound
    <3> DEFINE q == [r EXCEPT !.at = "fetch", !.required = callerParty(r)]
    <3>1. /\ Turned
          /\ inbound' = IF ~requireCallerForFetchBoundRoute(r) THEN NoInbound ELSE q
      BY <1>4, <2>4 DEF ReadBody
    <3>2. ASSUME requireCallerForFetchBoundRoute(r) PROVE PastTheGates(q)
      <4>1. /\ q.route = r.route /\ q.subject = r.subject /\ q.caller = r.caller
            /\ q.proved = r.proved /\ q.bearer = r.bearer /\ q.at = "fetch"
            /\ q.required = callerParty(r)
            /\ q \in [route : Writes, subject : Somebody, caller : Somebody,
                      proved : Somebody, required : Somebody,
                      bearer : {"none", "operator", "admin"}, at : {"body", "fetch"}]
        <5>1. callerParty(r) \in Somebody
          BY <2>1 DEF callerParty, Somebody, PastTheGates
        <5> QED
          BY <2>1, <5>1 DEF PastTheGates
      <4> HIDE DEF q
      <4>2. site.binds => q.required # "nobody" /\ q.required = q.proved
        BY <2>1, <3>2, <4>1 DEF requireCallerForFetchBoundRoute, callerParty, PastTheGates
      <4> QED
        BY <2>1, <2>4, <4>1, <4>2 DEF PastTheGates, AdminToken
    <3> HIDE DEF q
    <3> QED
      BY <1>1, <1>2, <3>1, <3>2 DEF Guarded, PastTheGates, AdminToken
  <2>5. CASE checkCallerBinding(r) /\ walletRelay /\ r.route \notin InPath
             /\ r.route \notin FetchBound
    <3>1. inbound' = NoInbound /\ Grants(r)
      BY <1>4, <2>5 DEF ReadBody
    <3>2. r.route = "rfq" => (site.binds => r.proved = r.subject)
      BY <2>1, <2>5 DEF checkCallerBinding, callerParty, PastTheGates
    <3>3. r.route \in Writes
      BY <2>1 DEF PastTheGates
    <3>4. r.route \notin OwnReads \cup Feeds
      BY <3>3, RouteFacts
    <3>5. /\ r.route \in OperatorWrites =>
               \/ IF site.operator THEN r.bearer = "operator" ELSE site.devOpen
               \/ site.binds /\ r.route = "rfq"
          /\ r.route \in AdminWrites => AdminToken(r)
          /\ r.route = "relay" => r.subject \in site.allowed
      BY <2>1, <2>5 DEF PastTheGates
    <3>6. ServedProperly'
      BY <1>0, <2>5, <3>1, <3>2, <3>4, <3>5, GrantsProperly DEF ServedProperly
    <3> QED
      BY <3>1, <3>6 DEF Guarded
  <2> QED
    BY <2>2, <2>3, <2>4, <2>5
<1>5. CASE Fetched
  <2>1. PastTheGates(inbound) /\ inbound.at = "fetch"
    BY <1>5 DEF Guarded, Fetched, NoInbound
  <2>2. inbound' = NoInbound /\ (IF requiredTrader(inbound) THEN Grants(inbound) ELSE Turned)
    BY <1>5 DEF Fetched
  <2>3. CASE requiredTrader(inbound)
    <3>1. /\ inbound.route \in FetchBound
          /\ site.binds => inbound.proved = inbound.subject
          /\ inbound.route \in OperatorWrites =>
               \/ IF site.operator THEN inbound.bearer = "operator" ELSE site.devOpen
               \/ site.binds /\ inbound.route = "rfq"
      BY <2>1, <2>3 DEF PastTheGates, requiredTrader
    <3>2. inbound.route \notin OwnReads \cup Feeds /\ inbound.route \notin AdminWrites
          /\ inbound.route # "relay"
      BY <3>1, RouteFacts DEF Writes
    <3>3. ServedProperly'
      BY <1>0, <2>2, <2>3, <3>1, <3>2, GrantsProperly DEF ServedProperly
    <3> QED
      BY <2>2, <3>3 DEF Guarded
  <2>4. CASE ~requiredTrader(inbound)
    BY <1>2, <2>2, <2>4 DEF Guarded
  <2> QED
    BY <2>3, <2>4
<1>6. CASE Gone
  BY <1>2, <1>6 DEF Gone, Guarded
<1>7. CASE TokenExpires
  <2>1. /\ inbound # NoInbound /\ inbound' = [inbound EXCEPT !.caller = "nobody"]
        /\ UNCHANGED <<site, served>>
    BY <1>7 DEF TokenExpires
  <2>2. PastTheGates([inbound EXCEPT !.caller = "nobody"])
    BY <2>1 DEF Guarded, PastTheGates, AdminToken, Somebody
  <2>3. ServedProperly'
    BY <2>1 DEF Guarded, ServedProperly, OwnWord, AdminToken
  <2> QED
    BY <1>1, <2>1, <2>2, <2>3 DEF Guarded, PastTheGates, AdminToken
<1> QED
  BY <1>3, <1>4, <1>5, <1>6, <1>7 DEF GateNext

\* Whatever waits and expires in between, what is done for a trader is done on that
\* trader's word, and every other route on the word its gate asks for.
THEOREM GatesHold == GatewaySpec => []ServedProperly
<1>1. GatewayInit => Guarded
  BY DEF GatewayInit, Guarded, ServedProperly
<1>2. Guarded /\ [GatewayNext]_GatewayVars => Guarded'
  <2> SUFFICES ASSUME Guarded, [GatewayNext]_GatewayVars PROVE Guarded'
    OBVIOUS
  <2>1. CASE UNCHANGED <<site, inbound, served>>
    BY <2>1 DEF Guarded, PastTheGates, ServedProperly, OwnWord, AdminToken
  <2>2. CASE LimitNext \/ RelayNext \/ StatusNext
    BY <2>1, <2>2
       DEF LimitNext, Meter, MeterToken, ClockMoves, ClockSetBack, RelayNext, Forward,
           Submitted, Rejected, SubmitFails, NotYet, TreeArrives, TakesEffect, StatusNext,
           CountUp, EndMoves, pollSlot, ParticipantAnswers, ProbeReturns
  <2> QED
    BY <2>1, <2>2, GateKeepsGuarded DEF GatewayNext, GatewayVars
<1>3. Guarded => ServedProperly
  BY DEF Guarded
<1> QED
  BY <1>1, <1>2, <1>3, PTL DEF GatewaySpec

-----------------------------------------------------------------------------
(***************************************************************************)
(* The relay and the status.  A relay that reads the tree, or knows the    *)
(* command as its own, knows that it has landed; a poll that is out brings *)
(* an offset that was once the end.                                        *)
(***************************************************************************)
RelaySet ==
  [at : {"idle", "submit", "tree"}, sent : BOOLEAN, mine : BOOLEAN, tries : Nat,
   reply : [status : {"none", "ok", "treeFailed", "refused", "proxyFailed"}, events : Nat]]

Candid(r, n) ==
  /\ r \in RelaySet /\ n \in Nat
  /\ r.mine \/ r.at = "tree" => n > 0
  /\ r.reply.status \in {"ok", "treeFailed"} => n > 0
  /\ r.reply.status = "ok" => r.reply.events = n

Informed ==
  /\ Candid(relay, landed)
  /\ end \in Nat /\ probe \in [Poll -> Int] /\ slot \in Int
  /\ site.participant => slot <= end /\ \A p \in Poll : probe[p] <= end

LEMMA InformedAnswers == Informed => AnswersTrue
BY DEF Informed, Candid, AnswersTrue

LEMMA ReplyIsCandid ==
  ASSUME Candid(relay, landed), NEW status, NEW events, Replies(status, events),
         \/ status \in {"refused", "proxyFailed"} /\ events = 0
         \/ relay.at = "tree" /\ status = "treeFailed" /\ events = 0
         \/ relay.at = "tree" /\ status = "ok" /\ events = landed
  PROVE  Candid(relay', landed)
<1>1. /\ relay'.at = "idle" /\ relay'.mine = FALSE
      /\ relay'.reply.status = status /\ relay'.reply.events = events
  BY DEF Replies, Idling
<1>2. events \in Nat /\ status \in {"ok", "treeFailed", "refused", "proxyFailed"}
  BY DEF Candid
<1>3. relay' \in RelaySet
  BY <1>2 DEF Replies, Idling, RelaySet
<1> QED
  BY <1>1, <1>3 DEF Candid

LEMMA RelayKeepsInformed ==
  ASSUME Informed, RelayNext
  PROVE  Informed'
<1>0. Candid(relay, landed)
  BY DEF Informed
<1>1. UNCHANGED <<site, end, probe, slot>>
  BY DEF RelayNext, Forward, Submitted, Rejected, SubmitFails, NotYet, TreeArrives,
         TakesEffect, Status
<1>2. Candid(relay', landed')
  <2>1. CASE Forward
    <3>1. relay' = [Idling EXCEPT !.at = "submit", !.sent = TRUE] /\ UNCHANGED landed
      BY <2>1 DEF Forward
    <3> QED
      BY <1>0, <3>1 DEF Idling, NoReply, Candid, RelaySet
  <2>2. ASSUME NEW n \in 1 .. 2, TakesEffect(n) PROVE Candid(relay', landed')
    <3>1. /\ landed = 0 /\ landed' = n
          /\ relay' = [relay EXCEPT !.mine = relay.at = "submit"]
      BY <2>2 DEF TakesEffect
    <3> DEFINE own == relay.at = "submit"
    <3>2. own \in BOOLEAN /\ relay' = [relay EXCEPT !.mine = own]
      BY <3>1
    <3> HIDE DEF own
    <3>3. /\ relay' \in RelaySet /\ relay'.reply = relay.reply
      BY <1>0, <3>2 DEF Candid, RelaySet
    <3>4. landed' > 0 /\ landed' \in Nat
      BY <3>1
    <3>5. relay'.reply.status \notin {"ok", "treeFailed"}
      BY <1>0, <3>1, <3>3 DEF Candid
    <3> QED
      BY <3>3, <3>4, <3>5 DEF Candid
  <2>3. CASE Submitted
    <3>1. relay.mine /\ relay' = [relay EXCEPT !.at = "tree"] /\ UNCHANGED landed
      BY <2>3 DEF Submitted
    <3> QED
      BY <1>0, <3>1 DEF Candid, RelaySet
  <2>4. CASE Rejected \/ SubmitFails \/ TreeArrives
    BY <1>0, <2>4, ReplyIsCandid DEF Rejected, SubmitFails, TreeArrives
  <2>5. CASE NotYet
    <3>1. CASE AfterLastTry
      BY <1>0, <2>5, <3>1, ReplyIsCandid DEF NotYet, AfterLastTry
    <3>2. CASE relay' = [relay EXCEPT !.tries = @ + 1]
      BY <1>0, <2>5, <3>2 DEF NotYet, Candid, RelaySet
    <3> QED
      BY <2>5, <3>1, <3>2 DEF NotYet
  <2> QED
    BY <2>1, <2>2, <2>3, <2>4, <2>5 DEF RelayNext
<1> QED
  BY <1>1, <1>2 DEF Informed, Candid, RelaySet

LEMMA StatusKeepsInformed ==
  ASSUME Informed, StatusNext
  PROVE  Informed'
<1>1. UNCHANGED <<site, relay, landed>>
  BY DEF StatusNext, CountUp, EndMoves, pollSlot, ParticipantAnswers, ProbeReturns, Relayed
<1>2. /\ end' \in Nat /\ end' >= end /\ probe' \in [Poll -> Int]
      /\ site.participant => \A p \in Poll : probe'[p] <= end'
  BY DEF Informed, StatusNext, CountUp, EndMoves, pollSlot, ParticipantAnswers, ProbeReturns,
         Asking, NoPoll, Unanswering
<1>3. slot' \in Int /\ (site.participant => slot' <= end')
  BY DEF Informed, StatusNext, CountUp, EndMoves, pollSlot, ParticipantAnswers,
         ProbeReturns
<1> QED
  BY <1>1, <1>2, <1>3 DEF Informed, Candid, RelaySet

\* The relay never says of a command what is not so, and the offset shown is never
\* ahead of the participant.
THEOREM RelayTellsTruth == GatewaySpec => []AnswersTrue
<1>1. GatewayInit => Informed
  BY GatewayAssumption DEF GatewayInit, Informed, Candid, RelaySet, Idling, NoReply, NoPoll
<1>2. Informed /\ [GatewayNext]_GatewayVars => Informed'
  <2> SUFFICES ASSUME Informed, [GatewayNext]_GatewayVars PROVE Informed'
    OBVIOUS
  <2>1. CASE UNCHANGED <<site, relay, landed, end, probe, slot>>
    BY <2>1 DEF Informed, Candid, RelaySet
  <2>2. CASE LimitNext \/ GateNext
    BY <2>1, <2>2
       DEF LimitNext, Meter, MeterToken, ClockMoves, ClockSetBack, GateNext, Receive, ReadBody,
           Fetched, Gone, TokenExpires, Relayed, Status
  <2> QED
    BY <2>1, <2>2, RelayKeepsInformed, StatusKeepsInformed DEF GatewayNext, GatewayVars
<1> QED
  BY <1>1, <1>2, InformedAnswers, PTL DEF GatewaySpec

-----------------------------------------------------------------------------
(***************************************************************************)
(* Tokens.  A challenge that is pending has brought no token, and one that *)
(* is spent never becomes pending again; a bootstrap that has brought one  *)
(* is used up for all others, or forgotten for good.                       *)
(***************************************************************************)
SignInSet == [for : Party \cup {"nobody"},
              stage : {"none", "bootstrap", "challenge", "sign", "verify", "done"},
              nonce : Nat, by : Party \cup {"nobody"}]
EntrySet  == [status : {"none", "open", "used"}, party : Party \cup {"nobody"}]
TokenSet  == [sub : Party, by : {"signature", "allocation"}, id : Nat]
DealSet   == [party : Party \cup {"nobody"}, binding : Nat,
              stage : {"none", "requested", "settled", "dropped"}]
TabSet    == [party : Party \cup {"nobody"}, boot : Nat, token : Party \cup {"nobody"},
              crossed : BOOLEAN]

SessionsTypes ==
  /\ challenge \in [Nonce -> Party \cup {"nobody"}]
  /\ entry \in [Bootstrap -> EntrySet]
  /\ nonces \in 0 .. MaxIssued /\ boots \in 0 .. MaxIssued /\ connects \in 0 .. MaxConnects
  /\ signIn \in [SignIn -> SignInSet]
  /\ tokens \in SUBSET TokenSet
  /\ deal \in [Deal -> DealSet]
  /\ tab \in TabSet /\ tab.boot <= boots

\* A sign-in to verify has been signed, over a challenge for its party.
SignedFor == \A i \in SignIn :
  /\ signIn[i].stage = "verify" => <<signIn[i].by, signIn[i].nonce>> \in signed
  /\ signIn[i].stage \in {"sign", "verify"} => signIn[i].nonce \in Nonce
  /\ signIn[i].stage \in {"bootstrap", "challenge", "sign", "verify"} => signIn[i].for \in Party

\* A challenge is pending under a nonce that was issued.
IssuedOnly == \A n \in Nonce : challenge[n] # "nobody" => n <= nonces

\* Nonces and bootstraps are new when they are issued, and serve one party each.
ServesWell(k) ==
  /\ k.by = "signature" =>
       k.id \in Nonce /\ k.id <= nonces /\ challenge[k.id] = "nobody"
  /\ k.by = "allocation" =>
       /\ k.id \in Bootstrap /\ k.id <= boots
       /\ entry[k.id].status # "open"
       /\ entry[k.id].status = "used" => entry[k.id].party = k.sub
ServesOne == \A k \in tokens : ServesWell(k)

SessionsInv == SessionsTypes /\ SignedFor /\ IssuedOnly /\ ServesOne /\ TokensTrue

LEMMA RestTypes ==
  /\ NoEntry \in EntrySet /\ LoggedOff \in TabSet /\ NoSignIn \in SignInSet
  /\ NoDeal \in DealSet /\ \A p \in Party : Cleared(p) \in TabSet
  /\ "nobody" \notin Party /\ MaxIssued \in Nat /\ MaxConnects \in Nat
BY SessionsAssumption DEF NoEntry, EntrySet, LoggedOff, TabSet, NoSignIn, SignInSet, NoDeal,
   DealSet, Cleared, NoToken

\* What minting needs: a bootstrap of the backend's, open or used by the same party.
LEMMA MintedFor ==
  ASSUME SessionsTypes, NEW t \in Deal,
         Minted(tab.boot, deal[t].party, deal[t].binding) # NoToken
  PROVE  /\ Minted(tab.boot, deal[t].party, deal[t].binding) = deal[t].party
         /\ deal[t].party \in Party
         /\ tab.boot \in Bootstrap /\ tab.boot <= boots /\ deal[t].binding = tab.boot
         /\ entry[tab.boot].status = "open" \/
              (entry[tab.boot].status = "used" /\ entry[tab.boot].party = deal[t].party)
<1>1. /\ tab.boot \in Nat /\ tab.boot <= boots /\ boots \in 0 .. MaxIssued
      /\ deal[t].party \in Party \cup {"nobody"}
  BY DEF SessionsTypes, TabSet, DealSet
<1>2. /\ Unexpired(tab.boot) /\ deal[t].binding = tab.boot
      /\ entry[tab.boot].status # "none"
      /\ entry[tab.boot].status = "open" \/ entry[tab.boot].party = deal[t].party
      /\ Minted(tab.boot, deal[t].party, deal[t].binding) = deal[t].party
  BY DEF Minted
<1>3. tab.boot \in Bootstrap /\ deal[t].party \in Party
  BY <1>1, <1>2, RestTypes DEF Unexpired, Bootstrap, NoToken
<1>4. entry[tab.boot] \in EntrySet
  BY <1>3 DEF SessionsTypes
<1> QED
  BY <1>1, <1>2, <1>3, <1>4 DEF EntrySet

LEMMA SessionsTypesKept ==
  ASSUME SessionsInv, SessionsNext
  PROVE  SessionsTypes'
<1> USE RestTypes
<1>0. SessionsTypes
  BY DEF SessionsInv
<1>1. ASSUME NEW p \in Party, Connect(p) PROVE SessionsTypes'
  <2>1. connects' \in SignIn /\ connects' \in 0 .. MaxConnects
    BY <1>0, <1>1 DEF Connect, SessionsTypes, SignIn
  <2>2. [for |-> p, stage |-> "bootstrap", nonce |-> 0, by |-> "nobody"] \in SignInSet
    BY DEF SignInSet
  <2>3. signIn' \in [SignIn -> SignInSet]
    BY <1>0, <1>1, <2>1, <2>2 DEF Connect, SessionsTypes
  <2>4. tab' \in TabSet /\ tab'.boot <= boots
    BY <1>0, <1>1 DEF Connect, Cleared, SessionsTypes
  <2> QED
    BY <1>0, <1>1, <2>1, <2>3, <2>4 DEF Connect, SessionsTypes, IssuedVars
<1>2. CASE Disconnect
  BY <1>0, <1>2 DEF Disconnect, SessionsTypes, IssuedVars, LoggedOff
<1>3. CASE Reboot
  BY <1>0, <1>3 DEF Reboot, SessionsTypes, IssuedVars
<1>4. ASSUME NEW i \in SignIn, NEW next \in {"challenge", "done"}, MovedOn(i, next)
      PROVE  signIn' \in [SignIn -> SignInSet]
  <2>1. signIn[i] \in SignInSet
    BY <1>0 DEF SessionsTypes
  <2>2. [signIn[i] EXCEPT !.stage = next] \in SignInSet
    BY <2>1 DEF SignInSet
  <2> QED
    BY <1>0, <1>4, <2>2 DEF MovedOn, SessionsTypes
<1>5. ASSUME NEW i \in SignIn, FetchBootstrap(i) PROVE SessionsTypes'
  <2>1. signIn' \in [SignIn -> SignInSet]
    BY <1>4, <1>5 DEF FetchBootstrap
  <2>2. CASE UNCHANGED <<boots, entry, tab>>
    BY <1>0, <1>5, <2>1, <2>2 DEF FetchBootstrap, SessionsTypes
  <2>3. CASE /\ boots < MaxIssued /\ boots' = boots + 1
             /\ entry' = [entry EXCEPT ![boots'] = [status |-> "open", party |-> "nobody"]]
             /\ tab' = [tab EXCEPT !.boot = boots']
    <3>1. boots' \in 0 .. MaxIssued /\ boots' \in Nat
      BY <1>0, <2>3 DEF SessionsTypes
    <3>2. entry' \in [Bootstrap -> EntrySet]
      BY <1>0, <2>3 DEF SessionsTypes, EntrySet
    <3>3. tab' \in TabSet /\ tab'.boot <= boots'
      BY <1>0, <2>3, <3>1 DEF SessionsTypes, TabSet
    <3> QED
      BY <1>0, <1>5, <2>1, <3>1, <3>2, <3>3 DEF FetchBootstrap, SessionsTypes
  <2> QED
    BY <1>5, <2>2, <2>3 DEF FetchBootstrap
<1>6. ASSUME NEW i \in SignIn, FetchChallenge(i) PROVE SessionsTypes'
  <2>1. CASE MovedOn(i, "done") /\ UNCHANGED <<nonces, challenge>>
    BY <1>0, <1>4, <1>6, <2>1 DEF FetchChallenge, SessionsTypes
  <2>2. CASE /\ nonces < MaxIssued /\ nonces' = nonces + 1
             /\ challenge' = [challenge EXCEPT ![nonces'] = signIn[i].for]
             /\ signIn' = [signIn EXCEPT ![i].stage = "sign", ![i].nonce = nonces']
    <3>1. nonces' \in 0 .. MaxIssued /\ nonces' \in Nat
      BY <1>0, <2>2 DEF SessionsTypes
    <3>2. signIn[i] \in SignInSet
      BY <1>0 DEF SessionsTypes
    <3>3. [signIn[i] EXCEPT !.stage = "sign", !.nonce = nonces'] \in SignInSet
      BY <3>1, <3>2 DEF SignInSet
    <3>4. signIn' = [signIn EXCEPT ![i] = [signIn[i] EXCEPT !.stage = "sign", !.nonce = nonces']]
      BY <1>0, <2>2 DEF SessionsTypes
    <3>5. signIn' \in [SignIn -> SignInSet]
      BY <1>0, <3>3, <3>4 DEF SessionsTypes
    <3>6. challenge' \in [Nonce -> Party \cup {"nobody"}]
      BY <1>0, <2>2, <3>2 DEF SessionsTypes, SignInSet
    <3> QED
      BY <1>0, <1>6, <3>1, <3>5, <3>6 DEF FetchChallenge, SessionsTypes
  <2> QED
    BY <1>6, <2>1, <2>2 DEF FetchChallenge
<1>7. ASSUME NEW i \in SignIn, Sign(i) PROVE SessionsTypes'
  <2>1. signIn' \in [SignIn -> SignInSet]
    <3>1. CASE MovedOn(i, "done")
      BY <1>4, <3>1
    <3>2. ASSUME NEW p \in Party, signIn' = [signIn EXCEPT ![i].stage = "verify", ![i].by = p]
          PROVE  signIn' \in [SignIn -> SignInSet]
      <4>1. signIn[i] \in SignInSet
        BY <1>0 DEF SessionsTypes
      <4>2. [signIn[i] EXCEPT !.stage = "verify", !.by = p] \in SignInSet
        BY <4>1 DEF SignInSet
      <4>3. signIn' = [signIn EXCEPT ![i] = [signIn[i] EXCEPT !.stage = "verify", !.by = p]]
        BY <1>0, <3>2 DEF SessionsTypes
      <4> QED
        BY <1>0, <4>2, <4>3 DEF SessionsTypes
    <3> QED
      BY <1>7, <3>1, <3>2 DEF Sign
  <2> QED
    BY <1>0, <1>7, <2>1 DEF Sign, SessionsTypes, IssuedVars
<1>8. ASSUME NEW i \in SignIn, Verify(i) PROVE SessionsTypes'
  <2> DEFINE p == signIn[i].for
             n == signIn[i].nonce
             spent == [challenge EXCEPT ![n] = "nobody"]
  <2>1. signIn' \in [SignIn -> SignInSet]
    BY <1>4, <1>8 DEF Verify
  <2>2. p \in Party /\ n \in Nonce /\ n \in Nat
    <3>1. signIn[i].stage = "verify"
      BY <1>8 DEF Verify
    <3>2. p \in Party /\ n \in Nonce
      BY <3>1 DEF SessionsInv, SignedFor
    <3> QED
      BY <3>2 DEF Nonce
  <2>3. spent \in [Nonce -> Party \cup {"nobody"}] /\ challenge \in [Nonce -> Party \cup {"nobody"}]
    BY <1>0, <2>2 DEF SessionsTypes
  <2>4. challenge' \in [Nonce -> Party \cup {"nobody"}]
    BY <1>8, <2>3 DEF Verify
  <2>5. tokens' \in SUBSET TokenSet
    BY <1>0, <1>8, <2>2 DEF Verify, SessionsTypes, TokenSet
  <2>6. tab' \in TabSet /\ tab'.boot <= boots
    <3>1. CASE UNCHANGED tab
      BY <1>0, <3>1 DEF SessionsTypes
    <3>2. CASE Stored(p, p)
      BY <1>0, <2>2, <3>2 DEF SessionsTypes, Stored, TabSet
    <3> QED
      BY <1>8, <3>1, <3>2 DEF Verify
  <2> QED
    BY <1>0, <1>8, <2>1, <2>4, <2>5, <2>6 DEF Verify, SessionsTypes
<1>9. ASSUME NEW t \in Deal, RequestDeal(t) PROVE SessionsTypes'
  <2>1. [party |-> tab.party, stage |-> "requested",
         binding |-> IF Unexpired(tab.boot) THEN tab.boot ELSE 0] \in DealSet
    BY <1>0 DEF SessionsTypes, TabSet, DealSet
  <2> QED
    BY <1>0, <1>9, <2>1 DEF RequestDeal, SessionsTypes, IssuedVars
<1>10. ASSUME NEW t \in Deal, SettleDeal(t) PROVE SessionsTypes'
  <2> DEFINE b == tab.boot
             subject == Minted(b, deal[t].party, deal[t].binding)
  <2>1. deal' \in [Deal -> DealSet]
    <3>1. deal[t] \in DealSet
      BY <1>0 DEF SessionsTypes
    <3>2. [deal[t] EXCEPT !.stage = "settled"] \in DealSet
      BY <3>1 DEF DealSet
    <3> QED
      BY <1>0, <1>10, <3>2 DEF SettleDeal, SessionsTypes
  <2>2. CASE subject = NoToken
    BY <1>0, <1>10, <2>1, <2>2 DEF SettleDeal, SessionsTypes
  <2>3. CASE subject # NoToken
    <3>1. subject \in Party /\ b \in Bootstrap /\ b \in Nat
      BY <1>0, <2>3, MintedFor DEF Bootstrap
    <3>2. tokens' \in SUBSET TokenSet
      BY <1>0, <1>10, <2>3, <3>1 DEF SettleDeal, SessionsTypes, TokenSet
    <3>3. entry' \in [Bootstrap -> EntrySet]
      BY <1>0, <1>10, <2>3, <3>1 DEF SettleDeal, SessionsTypes, EntrySet
    <3>4. tab' \in TabSet /\ tab'.boot <= boots
      <4>1. tab' = [tab EXCEPT !.token = subject,
                               !.crossed = tab.crossed \/ deal[t].party # tab.party]
        BY <1>10, <2>3 DEF SettleDeal, Stored
      <4> HIDE DEF subject
      <4> QED
        BY <1>0, <3>1, <4>1 DEF SessionsTypes, TabSet
    <3> QED
      BY <1>0, <1>10, <2>1, <3>2, <3>3, <3>4 DEF SettleDeal, SessionsTypes
  <2> QED
    BY <2>2, <2>3
<1>11. ASSUME NEW t \in Deal, DropTrade(t) PROVE SessionsTypes'
  <2>1. deal[t] \in DealSet
    BY <1>0 DEF SessionsTypes
  <2>2. [deal[t] EXCEPT !.stage = "dropped"] \in DealSet
    BY <2>1 DEF DealSet
  <2> QED
    BY <1>0, <1>11, <2>2 DEF DropTrade, SessionsTypes, IssuedVars
<1>12. ASSUME NEW n \in Nonce, ExpireChallenge(n) PROVE SessionsTypes'
  BY <1>0, <1>12 DEF ExpireChallenge, SessionsTypes, IssuedVars
<1>13. ASSUME NEW b \in Bootstrap, ExpireBootstrap(b) PROVE SessionsTypes'
  BY <1>0, <1>13 DEF ExpireBootstrap, SessionsTypes, IssuedVars
<1> QED
  BY <1>1, <1>2, <1>3, <1>5, <1>6, <1>7, <1>8, <1>9, <1>10, <1>11, <1>12, <1>13
     DEF SessionsNext

LEMMA SignedForKept ==
  ASSUME SessionsInv, SessionsNext
  PROVE  SignedFor'
<1>0. /\ signIn \in [SignIn -> SignInSet] /\ SignedFor
  BY DEF SessionsInv, SessionsTypes
<1>1. CASE UNCHANGED <<signIn, signed>>
  BY <1>0, <1>1 DEF SignedFor
<1>2. ASSUME NEW p \in Party, Connect(p) PROVE SignedFor'
  BY <1>0, <1>2 DEF Connect, SignedFor
<1>3. ASSUME NEW i \in SignIn, NEW next \in {"challenge", "done"}, MovedOn(i, next),
             signed \subseteq signed', next = "challenge" => signIn[i].for \in Party
      PROVE  SignedFor'
  <2>1. /\ signIn'[i].stage = next /\ signIn'[i].for = signIn[i].for
        /\ \A j \in SignIn : j # i => signIn'[j] = signIn[j]
    BY <1>0, <1>3 DEF MovedOn, SignInSet
  <2> QED
    BY <1>0, <1>3, <2>1 DEF SignedFor
<1>4. ASSUME NEW i \in SignIn, FetchBootstrap(i) PROVE SignedFor'
  <2>1. /\ MovedOn(i, "challenge") /\ signed' = signed /\ signIn[i].stage = "bootstrap"
    BY <1>4 DEF FetchBootstrap
  <2>2. signIn[i].for \in Party
    BY <1>0, <2>1 DEF SignedFor
  <2> QED
    BY <1>3, <2>1, <2>2
<1>5. ASSUME NEW i \in SignIn, FetchChallenge(i) PROVE SignedFor'
  <2>1. signed' = signed /\ signIn[i].stage = "challenge"
    BY <1>5 DEF FetchChallenge
  <2>2. CASE MovedOn(i, "done")
    BY <1>3, <2>1, <2>2
  <2>3. CASE /\ nonces < MaxIssued /\ nonces' = nonces + 1
             /\ signIn' = [signIn EXCEPT ![i].stage = "sign", ![i].nonce = nonces']
    <3>1. nonces' \in Nonce
      BY <2>3, RestTypes DEF SessionsInv, SessionsTypes, Nonce
    <3>2. /\ signIn'[i].stage = "sign" /\ signIn'[i].nonce = nonces'
          /\ signIn'[i].for = signIn[i].for
          /\ \A j \in SignIn : j # i => signIn'[j] = signIn[j]
      BY <1>0, <2>3 DEF SignInSet
    <3> QED
      BY <1>0, <2>1, <3>1, <3>2 DEF SignedFor
  <2> QED
    BY <1>5, <2>2, <2>3 DEF FetchChallenge
<1>6. ASSUME NEW i \in SignIn, Sign(i) PROVE SignedFor'
  <2>1. CASE MovedOn(i, "done") /\ UNCHANGED signed
    BY <1>3, <2>1
  <2>2. ASSUME NEW p \in Party, signed' = signed \cup {<<p, signIn[i].nonce>>},
               signIn' = [signIn EXCEPT ![i].stage = "verify", ![i].by = p]
        PROVE  SignedFor'
    <3>1. /\ signIn'[i].stage = "verify" /\ signIn'[i].nonce = signIn[i].nonce
          /\ signIn'[i].for = signIn[i].for /\ signIn'[i].by = p
          /\ \A j \in SignIn : j # i => signIn'[j] = signIn[j]
      BY <1>0, <2>2 DEF SignInSet
    <3>2. signIn[i].nonce \in Nonce /\ signIn[i].for \in Party
      BY <1>0, <1>6 DEF Sign, SignedFor
    <3> QED
      BY <1>0, <2>2, <3>1, <3>2 DEF SignedFor
  <2> QED
    BY <1>6, <2>1, <2>2 DEF Sign
<1>7. ASSUME NEW i \in SignIn, Verify(i) PROVE SignedFor'
  <2>1. MovedOn(i, "done") /\ signed' = signed
    BY <1>7 DEF Verify
  <2> QED
    BY <1>3, <2>1
<1>8. ASSUME Disconnect \/ Reboot \/ (\E t \in Deal : RequestDeal(t) \/ SettleDeal(t) \/ DropTrade(t))
             \/ (\E n \in Nonce : ExpireChallenge(n)) \/ (\E b \in Bootstrap : ExpireBootstrap(b))
      PROVE  UNCHANGED <<signIn, signed>>
  BY <1>8 DEF Disconnect, Reboot, RequestDeal, SettleDeal, DropTrade, ExpireChallenge,
              ExpireBootstrap
<1> QED
  BY <1>1, <1>2, <1>4, <1>5, <1>6, <1>7, <1>8 DEF SessionsNext

LEMMA IssuedOnlyKept ==
  ASSUME SessionsInv, SessionsNext
  PROVE  IssuedOnly'
<1>1. /\ IssuedOnly /\ nonces \in Nat
      /\ challenge \in [Nonce -> Party \cup {"nobody"}]
  BY DEF SessionsInv, SessionsTypes
<1>2. ASSUME NEW i \in SignIn, FetchChallenge(i) PROVE IssuedOnly'
  <2>1. CASE UNCHANGED <<nonces, challenge>>
    BY <1>1, <2>1 DEF IssuedOnly
  <2>2. CASE /\ nonces' = nonces + 1
             /\ challenge' = [challenge EXCEPT ![nonces'] = signIn[i].for]
    BY <1>1, <2>2 DEF IssuedOnly, Nonce
  <2> QED
    BY <1>2, <2>1, <2>2 DEF FetchChallenge
<1>3. ASSUME NEW i \in SignIn, Verify(i) PROVE IssuedOnly'
  <2>1. nonces' = nonces /\ challenge' \in {challenge, [challenge EXCEPT ![signIn[i].nonce] = "nobody"]}
    BY <1>3 DEF Verify
  <2> QED
    BY <1>1, <2>1 DEF IssuedOnly
<1>4. ASSUME Reboot \/ \E n \in Nonce : ExpireChallenge(n) PROVE IssuedOnly'
  BY <1>1, <1>4 DEF Reboot, ExpireChallenge, IssuedVars, IssuedOnly
<1>5. ASSUME Disconnect \/ (\E p \in Party : Connect(p))
             \/ (\E i \in SignIn : FetchBootstrap(i) \/ Sign(i))
             \/ (\E t \in Deal : RequestDeal(t) \/ SettleDeal(t) \/ DropTrade(t))
             \/ (\E b \in Bootstrap : ExpireBootstrap(b))
      PROVE  IssuedOnly'
  BY <1>1, <1>5 DEF Disconnect, Connect, FetchBootstrap, Sign, RequestDeal, SettleDeal, DropTrade,
                    ExpireBootstrap, IssuedVars, IssuedOnly
<1> QED
  BY <1>2, <1>3, <1>4, <1>5 DEF SessionsNext

\* A token stays proven: what is signed stays signed, what settled stays settled.
LEMMA ProofsLast ==
  ASSUME SessionsInv, SessionsNext
  PROVE  \A k \in tokens : Proved(k) => Proved(k)'
<1>1. signed \subseteq signed'
  BY DEF SessionsNext, Connect, Disconnect, Reboot, FetchBootstrap, FetchChallenge, Sign, Verify,
         RequestDeal, SettleDeal, DropTrade, ExpireChallenge, ExpireBootstrap
<1>2. \A t \in Deal : deal[t].stage = "settled" => deal'[t] = deal[t]
  <2>1. CASE deal' = deal
    BY <2>1
  <2>2. ASSUME NEW t \in Deal, deal[t].stage # "settled",
               \A u \in Deal : u # t => deal'[u] = deal[u]
        PROVE  \A u \in Deal : deal[u].stage = "settled" => deal'[u] = deal[u]
    BY <2>2
  <2>3. ASSUME NEW t \in Deal, RequestDeal(t) \/ SettleDeal(t) \/ DropTrade(t)
        PROVE  deal[t].stage # "settled" /\ \A u \in Deal : u # t => deal'[u] = deal[u]
    BY <2>3 DEF SessionsInv, SessionsTypes, RequestDeal, SettleDeal, DropTrade
  <2>4. ASSUME Disconnect \/ Reboot \/ (\E p \in Party : Connect(p))
               \/ (\E i \in SignIn : FetchBootstrap(i) \/ FetchChallenge(i) \/ Sign(i) \/ Verify(i))
               \/ (\E n \in Nonce : ExpireChallenge(n)) \/ (\E b \in Bootstrap : ExpireBootstrap(b))
        PROVE  deal' = deal
    BY <2>4 DEF Connect, Disconnect, Reboot, FetchBootstrap, FetchChallenge, Sign, Verify,
                ExpireChallenge, ExpireBootstrap
  <2> QED
    BY <2>1, <2>2, <2>3, <2>4 DEF SessionsNext
<1> QED
  BY <1>1, <1>2 DEF Proved

\* A step that issues no token and makes none of the spent ones good again.
LEMMA QuietKeepsTokens ==
  ASSUME SessionsInv, SessionsNext, tokens' = tokens,
         nonces' >= nonces, boots' >= boots,
         \A n \in Nonce : n <= nonces /\ challenge[n] = "nobody" => challenge'[n] = "nobody",
         \A b \in Bootstrap : b <= boots =>
           entry'[b] = entry[b] \/ entry'[b].status = "none"
  PROVE  ServesOne' /\ TokenProven'
<1>1. ServesOne'
  <2> SUFFICES ASSUME NEW k \in tokens PROVE ServesWell(k)'
    BY DEF ServesOne
  <2>1. /\ k.id \in Nat /\ nonces \in Nat /\ boots \in Nat
    BY DEF SessionsInv, SessionsTypes, TokenSet
  <2>2. nonces' \in Nat /\ boots' \in Nat
    BY SessionsTypesKept DEF SessionsTypes
  <2>3. CASE k.by = "signature"
    BY <2>1, <2>2, <2>3 DEF SessionsInv, ServesOne, ServesWell
  <2>4. CASE k.by = "allocation"
    BY <2>1, <2>2, <2>4 DEF SessionsInv, ServesOne, ServesWell
  <2>5. k.by \in {"signature", "allocation"}
    BY DEF SessionsInv, SessionsTypes, TokenSet
  <2> QED
    BY <2>3, <2>4, <2>5
<1>2. \A k \in tokens : Proved(k)'
  BY ProofsLast DEF SessionsInv, TokensTrue, TokenProven
<1>3. TokenProven'
  BY <1>2 DEF SessionsInv, TokensTrue, TokenProven
<1> QED
  BY <1>1, <1>3

LEMMA VerifyKeepsTokens ==
  ASSUME SessionsInv, SessionsNext, NEW i \in SignIn, Verify(i),
         NEW p, p = signIn[i].for, NEW n, n = signIn[i].nonce
  PROVE  ServesOne' /\ TokenProven'
<1> DEFINE new == [sub |-> p, by |-> "signature", id |-> n]
<1>1. /\ signIn[i].stage = "verify" /\ p \in Party /\ n \in Nonce
      /\ <<signIn[i].by, n>> \in signed
  <2>1. signIn[i].stage = "verify"
    BY DEF Verify
  <2> QED
    BY <2>1 DEF SessionsInv, SignedFor
<1>2. /\ nonces' = nonces /\ boots' = boots /\ entry' = entry /\ signed' = signed
      /\ deal' = deal
  BY DEF Verify
<1>3. challenge' \in {challenge, [challenge EXCEPT ![n] = "nobody"]}
  BY DEF Verify
<1>4. \A m \in Nonce : challenge[m] = "nobody" => challenge'[m] = "nobody"
  BY <1>1, <1>3 DEF SessionsInv, SessionsTypes
<1>5. nonces \in Nat /\ boots \in Nat
  BY DEF SessionsInv, SessionsTypes
<1>6. CASE tokens' = tokens
  BY <1>2, <1>4, <1>5, <1>6, QuietKeepsTokens
<1>7. CASE /\ Pending(p, n) /\ KeyFits(p, signIn[i].by)
           /\ challenge' = [challenge EXCEPT ![n] = "nobody"]
           /\ tokens' = tokens \cup {new}
  <2>1. challenge[n] = p /\ p # "nobody" /\ <<p, n>> \in signed
    BY <1>1, <1>7, RestTypes DEF Pending, KeyFits
  <2>2. n <= nonces /\ challenge'[n] = "nobody"
    <3>1. \A m \in Nonce : challenge[m] # "nobody" => m <= nonces
      BY DEF SessionsInv, IssuedOnly
    <3> QED
      BY <1>1, <1>7, <2>1, <3>1 DEF SessionsInv, SessionsTypes
  <2>3. \A k \in tokens : ~(k.by = "signature" /\ k.id = n)
    BY <2>1, RestTypes DEF SessionsInv, ServesOne, ServesWell
  <2>4. ServesOne'
    <3>1. \A k \in tokens : ServesWell(k)'
      BY <1>2, <1>4, <2>3 DEF SessionsInv, ServesOne, ServesWell
    <3>2. ServesWell(new)'
      BY <1>1, <1>2, <2>2 DEF ServesWell
    <3> QED
      BY <1>7, <3>1, <3>2 DEF ServesOne, ServesWell
  <2>5. TokenProven'
    <3>1. \A k \in tokens : Proved(k)'
      BY ProofsLast DEF SessionsInv, TokensTrue, TokenProven
    <3>2. Proved(new)'
      BY <1>2, <2>1 DEF Proved
    <3>3. \A k, l \in tokens' : l.by = k.by /\ l.id = k.id => l.sub = k.sub
      BY <1>7, <2>3 DEF SessionsInv, TokensTrue, TokenProven
    <3> QED
      BY <1>7, <3>1, <3>2, <3>3 DEF TokenProven, Proved
  <2> QED
    BY <2>4, <2>5
<1> QED
  BY <1>6, <1>7 DEF Verify

LEMMA SettleKeepsTokens ==
  ASSUME SessionsInv, SessionsNext, NEW t \in Deal, SettleDeal(t),
         NEW b, b = tab.boot, NEW p, p = deal[t].party
  PROVE  ServesOne' /\ TokenProven'
<1> DEFINE subject == Minted(b, p, deal[t].binding)
           new == [sub |-> p, by |-> "allocation", id |-> b]
<1>1. SessionsTypes /\ nonces \in Nat /\ boots \in Nat
  BY DEF SessionsInv, SessionsTypes
<1>2. /\ nonces' = nonces /\ boots' = boots /\ challenge' = challenge
      /\ deal' = [deal EXCEPT ![t].stage = "settled"]
  BY DEF SettleDeal
<1>3. CASE subject = NoToken
  BY <1>1, <1>2, <1>3, QuietKeepsTokens DEF SettleDeal
<1>4. CASE subject # NoToken
  <2>1. /\ subject = p /\ p \in Party /\ b \in Bootstrap /\ b <= boots
        /\ deal[t].binding = b
        /\ entry[b].status = "open" \/ (entry[b].status = "used" /\ entry[b].party = p)
    BY <1>1, <1>4, MintedFor
  <2>2. /\ tokens' = tokens \cup {new}
        /\ entry' = [entry EXCEPT ![b] = [status |-> "used", party |-> p]]
    BY <1>4, <2>1 DEF SettleDeal
  <2>3. \A k \in tokens : k.by = "allocation" /\ k.id = b => k.sub = p
    BY <2>1 DEF SessionsInv, ServesOne, ServesWell
  <2>4. /\ entry'[b].status = "used" /\ entry'[b].party = p
        /\ \A c \in Bootstrap : c # b => entry'[c] = entry[c]
    BY <1>1, <2>1, <2>2 DEF SessionsTypes
  <2>5. ServesOne'
    <3>1. \A k \in tokens : ServesWell(k)'
      BY <1>2, <2>3, <2>4 DEF SessionsInv, ServesOne, ServesWell
    <3>2. ServesWell(new)'
      BY <1>2, <2>1, <2>4 DEF ServesWell
    <3> QED
      BY <2>2, <3>1, <3>2 DEF ServesOne, ServesWell
  <2>6. TokenProven'
    <3>1. \A k \in tokens : Proved(k)'
      BY ProofsLast DEF SessionsInv, TokensTrue, TokenProven
    <3>2. deal'[t] = [party |-> p, binding |-> b, stage |-> "settled"]
      BY <1>1, <1>2, <2>1 DEF SessionsTypes, DealSet
    <3>3. Proved(new)'
      BY <3>2 DEF Proved
    <3>4. \A k, l \in tokens' : l.by = k.by /\ l.id = k.id => l.sub = k.sub
      BY <2>2, <2>3 DEF SessionsInv, TokensTrue, TokenProven
    <3> QED
      BY <2>2, <3>1, <3>3, <3>4 DEF TokenProven, Proved
  <2> QED
    BY <2>5, <2>6
<1> QED
  BY <1>3, <1>4

LEMMA TokensKept ==
  ASSUME SessionsInv, SessionsNext
  PROVE  ServesOne' /\ TokenProven'
<1>1. /\ nonces \in Nat /\ boots \in Nat
      /\ challenge \in [Nonce -> Party \cup {"nobody"}] /\ entry \in [Bootstrap -> EntrySet]
  BY DEF SessionsInv, SessionsTypes
<1>2. ASSUME Disconnect \/ (\E p \in Party : Connect(p)) \/ (\E i \in SignIn : Sign(i))
             \/ (\E t \in Deal : RequestDeal(t) \/ DropTrade(t))
      PROVE  UNCHANGED <<tokens, nonces, boots, challenge, entry>>
  BY <1>2 DEF Disconnect, Connect, Sign, RequestDeal, DropTrade, IssuedVars
<1>3. CASE UNCHANGED <<tokens, nonces, boots, challenge, entry>>
  BY <1>1, <1>3, QuietKeepsTokens
<1>4. CASE Reboot
  <2>1. /\ tokens' = tokens /\ nonces' = nonces /\ boots' = boots
        /\ \A n \in Nonce : challenge'[n] = "nobody"
        /\ \A b \in Bootstrap : entry'[b].status = "none"
    BY <1>4 DEF Reboot, IssuedVars, NoEntry
  <2> QED
    BY <1>1, <2>1, QuietKeepsTokens
<1>5. ASSUME NEW i \in SignIn, FetchBootstrap(i) PROVE ServesOne' /\ TokenProven'
  <2>1. tokens' = tokens /\ nonces' = nonces /\ challenge' = challenge
    BY <1>5 DEF FetchBootstrap
  <2>2. boots' >= boots /\ \A b \in Bootstrap : b <= boots => entry'[b] = entry[b]
    <3>1. CASE UNCHANGED <<boots, entry, tab>>
      BY <1>1, <3>1
    <3>2. CASE /\ boots' = boots + 1
               /\ entry' = [entry EXCEPT ![boots'] = [status |-> "open", party |-> "nobody"]]
      BY <1>1, <3>2 DEF Bootstrap
    <3> QED
      BY <1>5, <3>1, <3>2 DEF FetchBootstrap
  <2> QED
    BY <1>1, <2>1, <2>2, QuietKeepsTokens
<1>6. ASSUME NEW i \in SignIn, FetchChallenge(i) PROVE ServesOne' /\ TokenProven'
  <2>1. tokens' = tokens /\ boots' = boots /\ entry' = entry
    BY <1>6 DEF FetchChallenge
  <2>2. nonces' >= nonces /\ \A n \in Nonce : n <= nonces => challenge'[n] = challenge[n]
    <3>1. CASE UNCHANGED <<nonces, challenge>>
      BY <1>1, <3>1
    <3>2. CASE /\ nonces' = nonces + 1
               /\ challenge' = [challenge EXCEPT ![nonces'] = signIn[i].for]
      BY <1>1, <3>2 DEF Nonce
    <3> QED
      BY <1>6, <3>1, <3>2 DEF FetchChallenge
  <2> QED
    BY <1>1, <2>1, <2>2, QuietKeepsTokens
<1>7. ASSUME NEW n \in Nonce, ExpireChallenge(n) PROVE ServesOne' /\ TokenProven'
  <2>1. /\ tokens' = tokens /\ nonces' = nonces /\ boots' = boots /\ entry' = entry
        /\ challenge' = [challenge EXCEPT ![n] = "nobody"]
    BY <1>7 DEF ExpireChallenge, IssuedVars
  <2> QED
    BY <1>1, <2>1, QuietKeepsTokens
<1>8. ASSUME NEW b \in Bootstrap, ExpireBootstrap(b) PROVE ServesOne' /\ TokenProven'
  <2>1. /\ tokens' = tokens /\ nonces' = nonces /\ boots' = boots /\ challenge' = challenge
        /\ \A c \in Bootstrap : entry'[c] = entry[c] \/ entry'[c].status = "none"
    BY <1>1, <1>8 DEF ExpireBootstrap, IssuedVars, NoEntry
  <2> QED
    BY <1>1, <2>1, QuietKeepsTokens
<1> QED
  BY <1>2, <1>3, <1>4, <1>5, <1>6, <1>7, <1>8, VerifyKeepsTokens, SettleKeepsTokens
     DEF SessionsNext

\* The tab changes hands empty, and marks what came in for somebody else.
LEMMA TabStaysOwn ==
  ASSUME SessionsInv, SessionsNext
  PROVE  TabOwn'
<1>1. TabOwn /\ tab \in TabSet /\ SessionsTypes
  BY DEF SessionsInv, TokensTrue, SessionsTypes
<1>2. CASE UNCHANGED <<tab.token, tab.crossed, tab.party>>
  BY <1>1, <1>2 DEF TabOwn
<1>3. CASE tab'.token = NoToken
  BY <1>3 DEF TabOwn
<1>4. ASSUME NEW p \in Party, Stored(p, p) PROVE TabOwn'
  <2>1. /\ tab'.token = p /\ tab'.party = tab.party
        /\ tab'.crossed = (tab.crossed \/ p # tab.party)
    BY <1>1, <1>4 DEF Stored, TabSet
  <2> QED
    BY <2>1 DEF TabOwn
<1>5. ASSUME NEW i \in SignIn, FetchBootstrap(i)
      PROVE  UNCHANGED <<tab.token, tab.crossed, tab.party>>
  BY <1>1, <1>5 DEF FetchBootstrap, TabSet
<1>6. ASSUME NEW i \in SignIn, Verify(i) PROVE Stored(signIn[i].for, signIn[i].for) \/ tab' = tab
  BY <1>6 DEF Verify
<1>7. ASSUME NEW i \in SignIn, Verify(i) PROVE signIn[i].for \in Party
  <2>1. signIn[i].stage = "verify"
    BY <1>7 DEF Verify
  <2> QED
    BY <2>1 DEF SessionsInv, SignedFor
<1>8. ASSUME NEW t \in Deal, SettleDeal(t)
      PROVE  tab' = tab \/ (deal[t].party \in Party /\ Stored(deal[t].party, deal[t].party))
  <2>1. CASE Minted(tab.boot, deal[t].party, deal[t].binding) = NoToken
    BY <1>8, <2>1 DEF SettleDeal
  <2>2. CASE Minted(tab.boot, deal[t].party, deal[t].binding) # NoToken
    BY <1>1, <1>8, <2>2, MintedFor DEF SettleDeal
  <2> QED
    BY <2>1, <2>2
<1>9. CASE Disconnect \/ \E p \in Party : Connect(p)
  BY <1>3, <1>9 DEF Disconnect, Connect, LoggedOff, Cleared
<1>10. ASSUME Reboot \/ (\E i \in SignIn : FetchChallenge(i) \/ Sign(i))
              \/ (\E t \in Deal : RequestDeal(t) \/ DropTrade(t))
              \/ (\E n \in Nonce : ExpireChallenge(n)) \/ (\E b \in Bootstrap : ExpireBootstrap(b))
       PROVE  tab' = tab
  BY <1>10 DEF Reboot, FetchChallenge, Sign, RequestDeal, DropTrade, ExpireChallenge,
               ExpireBootstrap
<1> QED
  BY <1>2, <1>4, <1>5, <1>6, <1>7, <1>8, <1>9, <1>10 DEF SessionsNext

\* SessionService never issues a token to a party that has not proved itself
\* under that challenge or bootstrap, and the tab shows whom its token is for
\* (session/index.ts, services/session.ts).
THEOREM TokensHold == SessionsSpec => []TokensTrue
<1>1. SessionsInit => SessionsInv
  <2> SUFFICES ASSUME SessionsInit PROVE SessionsInv
    OBVIOUS
  <2>1. SessionsTypes
    BY RestTypes DEF SessionsInit, SessionsTypes, LoggedOff
  <2>2. SignedFor
    BY DEF SessionsInit, SignedFor, NoSignIn
  <2>3. IssuedOnly
    BY DEF SessionsInit, IssuedOnly
  <2>4. ServesOne /\ TokensTrue
    BY DEF SessionsInit, ServesOne, TokensTrue, TokenProven, TabOwn, LoggedOff
  <2> QED
    BY <2>1, <2>2, <2>3, <2>4 DEF SessionsInv
<1>2. SessionsInv /\ [SessionsNext]_SessionsVars => SessionsInv'
  <2> SUFFICES ASSUME SessionsInv, [SessionsNext]_SessionsVars PROVE SessionsInv'
    OBVIOUS
  <2>1. CASE UNCHANGED SessionsVars
    BY <2>1 DEF SessionsVars, IssuedVars, SessionsInv, SessionsTypes, SignedFor, IssuedOnly,
                ServesOne, ServesWell, TokensTrue, TokenProven, Proved, TabOwn
  <2>2. CASE SessionsNext
    BY <2>2, SessionsTypesKept, SignedForKept, IssuedOnlyKept, TokensKept, TabStaysOwn
       DEF SessionsInv, TokensTrue
  <2> QED
    BY <2>1, <2>2
<1> QED
  BY <1>1, <1>2, PTL DEF SessionsSpec, SessionsInv

-----------------------------------------------------------------------------
(***************************************************************************)
(* Commands of a hosted wallet.  What the participant has in hand was sent *)
(* on before its row expired, and a row lives shorter than the             *)
(* deduplication period: a second execution meets the first.               *)
(***************************************************************************)
WishSet  == [action : {"none", "topology", "allocate", "prepare", "execute"},
                stage : {"idle", "challenged", "generating", "allocating", "granting",
                         "executing"},
                id : Prepared \cup {0}]
PreparedSet == [since : Nat, kept : BOOLEAN, result : BOOLEAN]
ActSet      == [times : Nat, last : Nat]

RequestsFit ==
  /\ request \in [Tab -> WishSet]
  /\ \A t \in Tab : (request[t].stage = "executing" \/ request[t].action = "execute") =>
       request[t].id \in Prepared

WalletTypes ==
  /\ RequestsFit
  /\ hour \in Nat /\ hour >= 1
  /\ prepared \in [Prepared -> PreparedSet]
  /\ acts \in [Prepared -> ActSet]
  /\ loose \in [Prepared -> Nat]

Executing(i) == \E t \in Tab : request[t].stage = "executing" /\ request[t].id = i
InHand(i)    == loose[i] > 0 \/ Executing(i)

RowInv(i) ==
  /\ prepared[i].since <= hour
  /\ prepared[i].kept => prepared[i].since >= 1
  /\ acts[i].times <= 1
  /\ acts[i].times = 1 =>
       1 <= prepared[i].since /\ prepared[i].since <= acts[i].last /\ acts[i].last <= hour
  /\ prepared[i].result => acts[i].times = 1
  /\ InHand(i) => 1 <= prepared[i].since /\ hour <= prepared[i].since + Lifetime

WalletInv == WalletTypes /\ \A i \in Prepared : RowInv(i)

LEMMA RequestMoves ==
  ASSUME RequestsFit, NEW t \in Tab,
         \/ Over(t)
         \/ \E s \in {"generating", "allocating", "granting"} : Goes(t, s)
         \/ Goes(t, "executing") /\ request[t].action = "execute"
         \/ \E a \in {"topology", "allocate", "prepare"} : Waits(t, a, 0)
         \/ \E i \in Prepared : Waits(t, "execute", i)
  PROVE  /\ RequestsFit'
         /\ \A u \in Tab : u # t => request'[u] = request[u]
         /\ request'[t].stage = "executing" => Goes(t, "executing")
<1>1. /\ request \in [Tab -> WishSet] /\ request[t] \in WishSet
      /\ request[t].action = "execute" => request[t].id \in Prepared
  BY DEF RequestsFit
<1>2. CASE Over(t)
  <2>1. NoRequest \in WishSet
    BY DEF NoRequest, WishSet
  <2> QED
    BY <1>1, <1>2, <2>1 DEF Over, NoRequest, RequestsFit
<1>3. ASSUME NEW s \in {"generating", "allocating", "granting", "executing"}, Goes(t, s),
             s = "executing" => request[t].action = "execute"
      PROVE  /\ RequestsFit'
             /\ \A u \in Tab : u # t => request'[u] = request[u]
             /\ request'[t].stage = s
  <2>1. /\ [request[t] EXCEPT !.stage = s] \in WishSet
        /\ [request[t] EXCEPT !.stage = s].id = request[t].id
        /\ [request[t] EXCEPT !.stage = s].action = request[t].action
        /\ [request[t] EXCEPT !.stage = s].stage = s
    BY <1>1 DEF WishSet
  <2>2. request' = [request EXCEPT ![t] = [request[t] EXCEPT !.stage = s]]
    BY <1>1, <1>3 DEF Goes
  <2> HIDE DEF Goes
  <2> QED
    BY <1>1, <1>3, <2>1, <2>2 DEF RequestsFit
<1>4. ASSUME NEW a \in {"topology", "allocate", "prepare", "execute"},
             NEW i \in Prepared \cup {0}, Waits(t, a, i), a = "execute" => i \in Prepared
      PROVE  /\ RequestsFit'
             /\ \A u \in Tab : u # t => request'[u] = request[u]
             /\ request'[t].stage = "challenged"
  <2>1. [action |-> a, stage |-> "challenged", id |-> i] \in WishSet
    BY DEF WishSet
  <2> QED
    BY <1>1, <1>4, <2>1 DEF Waits, RequestsFit
<1>5. ASSUME NEW s \in {"generating", "allocating", "granting"}, Goes(t, s)
      PROVE  /\ RequestsFit'
             /\ \A u \in Tab : u # t => request'[u] = request[u]
             /\ request'[t].stage # "executing"
  BY <1>3, <1>5
<1> QED
  BY <1>2, <1>3, <1>4, <1>5

\* Where no row, no act and nothing in hand changes, the rows are as they were.
LEMMA QuietKeepsRows ==
  ASSUME WalletInv, UNCHANGED <<hour, prepared, acts, loose>>,
         \A i \in Prepared : Executing(i)' => Executing(i)
  PROVE  \A i \in Prepared : RowInv(i)'
<1> SUFFICES ASSUME NEW i \in Prepared PROVE RowInv(i)'
  OBVIOUS
<1>1. RowInv(i) /\ (Executing(i)' => Executing(i))
  BY DEF WalletInv
<1> QED
  BY <1>1 DEF RowInv, InHand

\* The participant decides about an execution it has in hand: the first takes
\* effect, a later one falls into the deduplication period of the first.
LEMMA AppliedOnce ==
  ASSUME WalletInv, NEW i \in Prepared, InHand(i), Applied(i)
  PROVE  /\ acts' \in [Prepared -> ActSet]
         /\ \A j \in Prepared : j # i => acts'[j] = acts[j]
         /\ acts'[i].times = 1
         /\ acts'[i].last <= hour /\ prepared[i].since <= acts'[i].last
         /\ 1 <= prepared[i].since
<1>1. /\ RowInv(i) /\ acts \in [Prepared -> ActSet] /\ acts[i] \in ActSet
      /\ hour \in Nat /\ prepared[i] \in PreparedSet
  BY DEF WalletInv, WalletTypes
<1>2. /\ acts[i].times \in Nat /\ acts[i].last \in Nat /\ prepared[i].since \in Nat
      /\ Lifetime \in Nat /\ Window \in Nat /\ Lifetime < Window
  BY <1>1, HostedWalletAssumption DEF ActSet, PreparedSet
<1>3. CASE acts[i].times = 1
  <2>1. Duplicate(i)
    BY <1>1, <1>2, <1>3 DEF RowInv, Duplicate
  <2> QED
    BY <1>1, <1>3, <2>1 DEF Applied, RowInv
<1>4. CASE acts[i].times = 0
  <2>1. acts' = [acts EXCEPT ![i] = [times |-> acts[i].times + 1, last |-> hour]]
    BY <1>4 DEF Applied, Duplicate
  <2>2. [times |-> acts[i].times + 1, last |-> hour] \in ActSet
    BY <1>1, <1>2 DEF ActSet
  <2> QED
    BY <1>1, <1>2, <1>4, <2>1, <2>2 DEF RowInv
<1> QED
  BY <1>1, <1>2, <1>3, <1>4 DEF RowInv

LEMMA WalletTypesKept ==
  ASSUME WalletInv, WalletNext
  PROVE  WalletTypes'
<1>0. WalletTypes /\ RequestsFit
  BY DEF WalletInv, WalletTypes
<1>1. CASE Elapse
  BY <1>0, <1>1 DEF Elapse, Participant, WalletTypes, RequestsFit
<1>2. ASSUME NEW t \in Tab, Prepare(t) PROVE WalletTypes'
  <2>1. RequestsFit'
    BY <1>0, <1>2, RequestMoves DEF Prepare
  <2>2. Purged \in [Prepared -> PreparedSet]
    BY <1>0 DEF Purged, WalletTypes, PreparedSet
  <2>3. [since |-> hour, kept |-> TRUE, result |-> FALSE] \in PreparedSet
    BY <1>0 DEF WalletTypes, PreparedSet
  <2>4. prepared' \in [Prepared -> PreparedSet]
    BY <1>0, <1>2, <2>2, <2>3 DEF Prepare, WalletTypes
  <2> QED
    BY <1>0, <1>2, <2>1, <2>4 DEF Prepare, Participant, WalletTypes
<1>3. ASSUME NEW t \in Tab, Executed(t) PROVE WalletTypes'
  <2>1. RequestsFit'
    BY <1>0, <1>3, RequestMoves DEF Executed
  <2>2. request[t].id \in Prepared /\ InHand(request[t].id) /\ Applied(request[t].id)
    BY <1>0, <1>3 DEF Executed, RequestsFit, InHand, Executing
  <2>3. acts' \in [Prepared -> ActSet]
    BY <2>2, AppliedOnce
  <2>4. prepared' \in [Prepared -> PreparedSet]
    BY <1>0, <1>3 DEF Executed, WalletTypes, PreparedSet
  <2> QED
    BY <1>0, <1>3, <2>1, <2>3, <2>4 DEF Executed, WalletTypes
<1>4. ASSUME NEW i \in Prepared, Late(i) PROVE WalletTypes'
  <2>1. acts' \in [Prepared -> ActSet]
    BY <1>4, AppliedOnce DEF Late, InHand
  <2>2. loose' \in [Prepared -> Nat]
    BY <1>0, <1>4 DEF Late, WalletTypes
  <2> QED
    BY <1>0, <1>4, <2>1, <2>2 DEF Late, WalletTypes, RequestsFit
<1>5. ASSUME NEW t \in Tab, Lose(t) PROVE WalletTypes'
  <2>1. RequestsFit'
    BY <1>0, <1>5, RequestMoves DEF Lose
  <2>2. loose' \in [Prepared -> Nat] /\ acts' = acts
    BY <1>0, <1>5 DEF Lose, Participant, WalletTypes
  <2> QED
    BY <1>0, <1>5, <2>1, <2>2 DEF Lose, WalletTypes
<1>6. ASSUME NEW t \in Tab, Onboard(t) \/ Use(t) \/ TurnAway(t) \/ Topology(t) \/ Generated(t)
                           \/ Allocate(t) \/ Allocated(t) \/ Refused(t) \/ Granted(t)
                           \/ Forbid(t) \/ Execute(t)
      PROVE  WalletTypes'
  <2>1. UNCHANGED <<hour, prepared, acts, loose>>
    BY <1>6 DEF Onboard, Use, TurnAway, Topology, Generated, Allocate, Allocated, Refused, Granted,
                Forbid, Execute, Participant
  <2>2. RequestsFit'
    BY <1>0, <1>6, RequestMoves
       DEF Onboard, Use, TurnAway, Topology, Generated, Allocate, Allocated, Refused, Granted,
           Forbid, Execute, Admitted, Resumed
  <2> QED
    BY <1>0, <2>1, <2>2 DEF WalletTypes
<1>7. ASSUME NEW t \in Tab, Leave(t) PROVE WalletTypes'
  BY <1>0, <1>7 DEF Leave, Participant, WalletTypes, RequestsFit
<1> QED
  BY <1>1, <1>2, <1>3, <1>4, <1>5, <1>6, <1>7 DEF WalletNext, Serve

LEMMA RowsKept ==
  ASSUME WalletInv, WalletNext
  PROVE  \A i \in Prepared : RowInv(i)'
<1>0. /\ RequestsFit /\ WalletTypes
      /\ request \in [Tab -> WishSet] /\ hour \in Nat /\ hour >= 1
      /\ Lifetime \in Nat
      /\ \A j \in Prepared : /\ RowInv(j) /\ prepared[j] \in PreparedSet
                             /\ prepared[j].since \in Nat
                             /\ acts[j].times \in Nat /\ acts[j].last \in Nat /\ loose[j] \in Nat
  BY HostedWalletAssumption DEF WalletInv, WalletTypes, RequestsFit, ActSet, PreparedSet
<1>1. ASSUME Elapse, NEW i \in Prepared PROVE RowInv(i)'
  <2>1. /\ hour' = hour + 1 /\ loose[i] = 0
        /\ UNCHANGED <<acts, loose, prepared, request>>
        /\ \A t \in Tab : request[t].stage # "executing"
    BY <1>1 DEF Elapse, Participant
  <2>2. ~InHand(i)' /\ RowInv(i)
    BY <1>0, <2>1 DEF InHand, Executing
  <2> QED
    BY <1>0, <2>1, <2>2 DEF RowInv
<1>2. ASSUME NEW t \in Tab, Prepare(t), NEW i \in Prepared PROVE RowInv(i)'
  <2>1. /\ UNCHANGED <<hour, acts, loose>> /\ Over(t)
    BY <1>2 DEF Prepare, Participant
  <2>2. \A j \in Prepared : Executing(j)' => Executing(j)
    BY <1>0, <2>1 DEF Over, Executing, NoRequest, RequestsFit
  <2>3. CASE prepared' = prepared
    BY <2>1, <2>2, <2>3, QuietKeepsRows
  <2>4. ASSUME NEW n \in Prepared, prepared[n] = NoPrepared,
               prepared' = [Purged EXCEPT ![n] = [since |-> hour, kept |-> TRUE, result |-> FALSE]]
        PROVE  RowInv(i)'
    <3>1. RowInv(i) /\ (InHand(i)' => InHand(i))
      BY <1>0, <2>1, <2>2 DEF InHand
    <3>2. CASE i = n
      <4>1. prepared[i].since = 0
        BY <2>4, <3>2 DEF NoPrepared
      <4>2. ~InHand(i) /\ acts[i].times # 1
        BY <1>0, <3>1, <4>1 DEF RowInv
      <4>3. prepared'[i] = [since |-> hour, kept |-> TRUE, result |-> FALSE]
        BY <2>4, <3>2 DEF Purged
      <4> QED
        BY <1>0, <2>1, <3>1, <4>2, <4>3 DEF RowInv
    <3>3. CASE i # n
      <4>1. /\ prepared'[i].since = prepared[i].since
            /\ prepared'[i].result = prepared[i].result
            /\ prepared'[i].kept => prepared[i].kept
        BY <1>0, <2>4, <3>3 DEF Purged, PreparedSet
      <4> QED
        BY <2>1, <3>1, <4>1 DEF RowInv
    <3> QED
      BY <3>2, <3>3
  <2> QED
    BY <1>2, <2>3, <2>4 DEF Prepare
<1>3. ASSUME NEW t \in Tab, Execute(t) PROVE \A i \in Prepared : RowInv(i)'
  <2>1. /\ UNCHANGED <<hour, acts, loose, prepared>> /\ request[t].id \in Prepared
        /\ request[t].action = "execute"
    BY <1>0, <1>3 DEF Execute, Participant, Admitted, RequestsFit
  <2>2. CASE Over(t)
    <3>1. \A j \in Prepared : Executing(j)' => Executing(j)
      BY <1>0, <2>2 DEF Over, Executing, NoRequest, RequestsFit
    <3> QED
      BY <2>1, <3>1, QuietKeepsRows
  <2>3. CASE Executable(request[t].id) /\ Goes(t, "executing")
    <3> SUFFICES ASSUME NEW i \in Prepared PROVE RowInv(i)'
      OBVIOUS
    <3>1. Executing(i)' => Executing(i) \/ i = request[t].id
      <4>1. request'[t].id = request[t].id /\ \A u \in Tab : u # t => request'[u] = request[u]
        BY <1>0, <2>3 DEF Goes
      <4> QED
        BY <4>1 DEF Executing
    <3>2. RowInv(i)
      BY <1>0
    <3>3. CASE i = request[t].id
      <4>1. prepared[i].since >= 1 /\ hour <= prepared[i].since + Lifetime
        BY <1>0, <2>3, <3>2, <3>3 DEF Executable, Expires, RowInv
      <4> QED
        BY <2>1, <3>2, <4>1 DEF RowInv
    <3>4. CASE i # request[t].id
      BY <2>1, <3>1, <3>2, <3>4 DEF RowInv, InHand
    <3> QED
      BY <3>3, <3>4
  <2> QED
    BY <1>3, <2>2, <2>3 DEF Execute
<1>4. ASSUME NEW n \in Prepared, InHand(n), Applied(n), hour' = hour,
             \A j \in Prepared : InHand(j)' => InHand(j),
             \/ prepared' = prepared
             \/ prepared' = [prepared EXCEPT ![n].result = TRUE]
      PROVE  \A i \in Prepared : RowInv(i)'
  <2> SUFFICES ASSUME NEW i \in Prepared PROVE RowInv(i)'
    OBVIOUS
  <2>1. /\ \A j \in Prepared : j # n => acts'[j] = acts[j]
        /\ acts'[n].times = 1 /\ acts'[n].last <= hour
        /\ prepared[n].since <= acts'[n].last /\ 1 <= prepared[n].since
    BY <1>4, AppliedOnce
  <2>2. /\ prepared'[i].since = prepared[i].since /\ prepared'[i].kept = prepared[i].kept
        /\ i # n => prepared'[i] = prepared[i]
    BY <1>0, <1>4 DEF WalletTypes, PreparedSet
  <2>3. RowInv(i) /\ (InHand(i)' => InHand(i))
    BY <1>0, <1>4
  <2>4. CASE i = n
    BY <1>0, <1>4, <2>1, <2>2, <2>3, <2>4 DEF RowInv
  <2>5. CASE i # n
    BY <1>4, <2>1, <2>2, <2>3, <2>5 DEF RowInv
  <2> QED
    BY <2>4, <2>5
<1>5. ASSUME NEW t \in Tab, Executed(t) PROVE \A i \in Prepared : RowInv(i)'
  <2>1. /\ request[t].id \in Prepared /\ Applied(request[t].id) /\ hour' = hour
        /\ loose' = loose /\ Over(t)
        /\ \/ prepared' = prepared
           \/ prepared' = [prepared EXCEPT ![request[t].id].result = TRUE]
    BY <1>0, <1>5 DEF Executed, RequestsFit
  <2>2. InHand(request[t].id)
    BY <1>5 DEF Executed, InHand, Executing
  <2>3. \A j \in Prepared : InHand(j)' => InHand(j)
    BY <1>0, <2>1 DEF Over, InHand, Executing, NoRequest, RequestsFit
  <2> QED
    BY <1>4, <2>1, <2>2, <2>3
<1>6. ASSUME NEW n \in Prepared, Late(n) PROVE \A i \in Prepared : RowInv(i)'
  <2>1. /\ Applied(n) /\ UNCHANGED <<hour, prepared, request>> /\ InHand(n)
        /\ loose' = [loose EXCEPT ![n] = loose[n] - 1]
    BY <1>6 DEF Late, InHand
  <2>2. \A j \in Prepared : InHand(j)' => InHand(j)
    BY <1>0, <2>1 DEF InHand, Executing, WalletTypes
  <2> QED
    BY <1>4, <2>1, <2>2
<1>7. ASSUME NEW t \in Tab, Lose(t) PROVE \A i \in Prepared : RowInv(i)'
  <2>1. /\ UNCHANGED <<hour, acts, prepared>> /\ Over(t)
        /\ \/ loose' = loose
           \/ /\ request[t].stage = "executing"
              /\ loose' = [loose EXCEPT ![request[t].id] = loose[request[t].id] + 1]
    BY <1>7 DEF Lose, Participant
  <2>2. \A j \in Prepared : Executing(j)' => Executing(j)
    BY <1>0, <2>1 DEF Over, Executing, NoRequest, RequestsFit
  <2>3. \A j \in Prepared : InHand(j)' => InHand(j)
    BY <1>0, <2>1, <2>2 DEF InHand, Executing, WalletTypes
  <2> QED
    BY <1>0, <2>1, <2>3 DEF RowInv
<1>8. ASSUME NEW t \in Tab, Onboard(t) \/ Use(t) \/ TurnAway(t) \/ Topology(t) \/ Generated(t)
                           \/ Allocate(t) \/ Allocated(t) \/ Refused(t) \/ Granted(t)
                           \/ Forbid(t)
      PROVE  \A i \in Prepared : RowInv(i)'
  <2>1. UNCHANGED <<hour, prepared, acts, loose>>
    BY <1>8 DEF Onboard, Use, TurnAway, Topology, Generated, Allocate, Allocated, Refused, Granted,
                Forbid, Participant
  <2>2. \/ Over(t)
        \/ \E s \in {"generating", "allocating", "granting"} : Goes(t, s)
        \/ \E a \in {"topology", "allocate", "prepare"} : Waits(t, a, 0)
        \/ \E i \in Prepared : Waits(t, "execute", i)
    BY <1>8 DEF Onboard, Use, TurnAway, Topology, Generated, Allocate, Allocated, Refused, Granted,
                Forbid, Resumed
  <2>3. /\ \A u \in Tab : u # t => request'[u] = request[u]
        /\ request'[t].stage # "executing"
    BY <1>0, <2>2 DEF Over, Goes, Waits, NoRequest, RequestsFit, WishSet
  <2>4. \A j \in Prepared : Executing(j)' => Executing(j)
    BY <2>3 DEF Executing
  <2> QED
    BY <2>1, <2>4, QuietKeepsRows
<1>9. ASSUME NEW t \in Tab, Leave(t) PROVE \A i \in Prepared : RowInv(i)'
  <2>1. UNCHANGED <<hour, prepared, acts, loose, request>>
    BY <1>9 DEF Leave, Participant
  <2> QED
    BY <2>1, QuietKeepsRows DEF Executing
<1> QED
  BY <1>1, <1>2, <1>3, <1>5, <1>6, <1>7, <1>8, <1>9 DEF WalletNext, Serve

\* What the user has signed takes effect at most once, and a result is kept only
\* for what did, whatever the tabs repeat and the connection loses
\* (hosted-wallet/index.ts).
THEOREM SignedOnce == WalletSpec => []ActsOnce
<1>1. WalletInit => WalletInv
  <2> SUFFICES ASSUME WalletInit PROVE WalletInv
    OBVIOUS
  <2>1. WalletTypes
    BY DEF WalletInit, WalletTypes, RequestsFit, WishSet, PreparedSet, ActSet, NoRequest, NoPrepared
  <2>2. \A i \in Prepared : RowInv(i)
    BY DEF WalletInit, RowInv, InHand, Executing, NoRequest, NoPrepared
  <2> QED
    BY <2>1, <2>2 DEF WalletInv
<1>2. WalletInv /\ [WalletNext]_WalletVars => WalletInv'
  <2> SUFFICES ASSUME WalletInv, [WalletNext]_WalletVars PROVE WalletInv'
    OBVIOUS
  <2>1. CASE UNCHANGED WalletVars
    BY <2>1 DEF WalletVars, Participant, WalletInv, WalletTypes, RequestsFit, RowInv, InHand,
                Executing
  <2>2. CASE WalletNext
    BY <2>2, WalletTypesKept, RowsKept DEF WalletInv
  <2> QED
    BY <2>1, <2>2
<1>3. WalletInv => ActsOnce
  BY DEF WalletInv, RowInv, ActsOnce
<1> QED
  BY <1>1, <1>2, <1>3, PTL DEF WalletSpec

-----------------------------------------------------------------------------
(***************************************************************************)
(* What a trader's wallet authors, and what the pages name, for any number *)
(* of pages, accounts, holdings and requests.                              *)
(*                                                                         *)
(* The argument: every errand is of a request of its own, a wallet authors *)
(* the allocations of a request from the first to the last, and an errand  *)
(* that may still author has all that is made for its request behind it.   *)
(***************************************************************************)
CoinSet == ({"first", "second"} \X (1 .. MaxCoins)) \cup {NoCoin}

ErrandSet ==
  [step : {"asked", "signing", "recovering", "signed"}, lp : BOOLEAN,
   specs : Seq({"first", "second", "nothing"}),
   coins : [first : CoinSet, second : CoinSet], make : {"venue", "other"},
   round : Nat, owner : Account, by : Account,
   next : Nat, cids : Seq(Nat), update : Seq(Nat)]

ContractSet ==
  [for : Nat, slot : Nat, coin : CoinSet, by : Account, is : {"held", "spent", "free"}]

\* A contract is what slot i of the errand's request asks for.
Fits(e, i, c) ==
  /\ c \in DOMAIN made
  /\ made[c].for = e.round /\ made[c].slot = i
  /\ made[c].by = e.owner /\ made[c].coin = HoldingFor(e, i)

Filled(e, k, cids) == Len(cids) = k /\ \A i \in 1 .. k : Fits(e, i, cids[i])

\* Nothing is made for slot k of the errand's request, or a later one.
FreeFrom(e, k) == \A m \in DOMAIN made : made[m].for = e.round => made[m].slot < k

Sound(e) ==
  /\ e \in ErrandSet /\ e.round <= rounds /\ Len(e.specs) >= 1
  /\ e.step \in {"asked", "signing"} =>
       /\ e.next \in 1 .. Len(e.specs) /\ FreeFrom(e, e.next)
       /\ Filled(e, e.next - 1, e.cids) /\ e.update = << >>
       /\ provider # "stepwise" => e.next = 1
  /\ e.step = "recovering" =>
       /\ e.next \in 1 .. Len(e.specs) /\ FreeFrom(e, e.next + 1)
       /\ Filled(e, e.next - 1, e.cids)
       /\ Len(e.update) = 1 /\ Fits(e, e.next, e.update[1])
       /\ provider = "stepwise"
  /\ e.step = "signed" => Filled(e, Len(e.specs), NamedBy(e))

AuthoringShape ==
  /\ provider \in {"relay", "stepwise", "own"} /\ signer \in Account
  /\ rounds \in Nat /\ made \in Seq(ContractSet)
  /\ errand \in [Page -> ErrandSet \cup {NoErrand}]
  /\ \A m \in DOMAIN made : made[m].for <= rounds

OneEach == \A p, q \in Page :
  (p # q /\ errand[p] # NoErrand /\ errand[q] # NoErrand) => errand[p].round # errand[q].round

AuthoringInv ==
  /\ AuthoringShape /\ OneEach /\ AuthoredOnce
  /\ \A p \in Page : errand[p] # NoErrand => Sound(errand[p])

\* What is made keeps its place and its terms.
MadeStays ==
  /\ DOMAIN made \subseteq DOMAIN made'
  /\ \A m \in DOMAIN made :
       /\ made'[m].for = made[m].for /\ made'[m].slot = made[m].slot
       /\ made'[m].by = made[m].by /\ made'[m].coin = made[m].coin

\* What is made new is for that request.
NewIsFor(round) == \A m \in DOMAIN made' \ DOMAIN made : made'[m].for = round

LEMMA HoldingKnown ==
  ASSUME NEW e \in ErrandSet, NEW i \in DOMAIN e.specs
  PROVE  HoldingFor(e, i) \in CoinSet
<1>1. e.specs[i] \in {"first", "second", "nothing"} /\ e.coins \in [first : CoinSet, second : CoinSet]
  BY DEF ErrandSet
<1>2. NoCoin \in CoinSet
  BY DEF CoinSet
<1>3. e.coins["first"] \in CoinSet /\ e.coins["second"] \in CoinSet
  BY <1>1
<1> QED
  BY <1>1, <1>2, <1>3 DEF HoldingFor, FundsHoldings

LEMMA SoundStays ==
  ASSUME NEW e, Sound(e), MadeStays, rounds \in Nat, rounds' \in Nat, rounds' >= rounds,
         provider' = provider,
         \A m \in DOMAIN made' \ DOMAIN made : made'[m].for # e.round
  PROVE  Sound(e)'
<1>1. /\ e \in ErrandSet /\ e.round \in Nat /\ e.round <= rounds'
  BY DEF Sound, ErrandSet
<1>2. ASSUME NEW i, NEW c, Fits(e, i, c) PROVE Fits(e, i, c)'
  BY <1>2 DEF Fits, MadeStays, HoldingFor, FundsHoldings
<1>3. ASSUME NEW k, NEW cids, Filled(e, k, cids) PROVE Filled(e, k, cids)'
  BY <1>2, <1>3 DEF Filled
<1>4. ASSUME NEW k, FreeFrom(e, k) PROVE FreeFrom(e, k)'
  BY <1>4 DEF FreeFrom, MadeStays
<1> QED
  BY <1>1, <1>2, <1>3, <1>4 DEF Sound, NamedBy

LEMMA NoErrandIsNone == NoErrand.step = "away" /\ \A e \in ErrandSet : e # NoErrand /\ e.step # "away"
BY DEF NoErrand, ErrandSet

\* A step of one page: what it goes on with is sound, the rest stays so.
LEMMA ErrandStep ==
  ASSUME AuthoringInv, NEW p \in Page, NEW f, errand' = [errand EXCEPT ![p] = f],
         f # NoErrand => Sound(f)',
         f # NoErrand => \A q \in Page \ {p} :
                           errand[q] # NoErrand => errand[q].round # f.round,
         MadeStays, made' \in Seq(ContractSet), provider' = provider, signer' \in Account,
         rounds' \in Nat, rounds' >= rounds, AuthoredOnce',
         \A m \in DOMAIN made' : made'[m].for <= rounds',
         errand[p] # NoErrand => NewIsFor(errand[p].round),
         errand[p] = NoErrand => DOMAIN made' = DOMAIN made
  PROVE  AuthoringInv'
<1>1. /\ AuthoringShape /\ errand'[p] = f
      /\ \A q \in Page \ {p} : errand'[q] = errand[q]
  BY DEF AuthoringInv, AuthoringShape
<1>2. f # NoErrand => f \in ErrandSet
  BY DEF Sound
<1>3. AuthoringShape'
  BY <1>1, <1>2 DEF AuthoringShape
<1>4. OneEach'
  BY <1>1 DEF AuthoringInv, OneEach
<1>5. ASSUME NEW q \in Page, errand'[q] # NoErrand PROVE Sound(errand[q])'
  <2>1. CASE q = p
    <3>1. errand'[q] = f /\ f # NoErrand
      BY <1>1, <1>5, <2>1
    <3> QED
      BY <3>1
  <2>2. CASE q # p
    <3>1. PICK e : e = errand[q]
      OBVIOUS
    <3>2. errand'[q] = e /\ e # NoErrand /\ Sound(e)
      BY <1>1, <1>5, <2>2, <3>1 DEF AuthoringInv
    <3>3. \A m \in DOMAIN made' \ DOMAIN made : made'[m].for # e.round
      BY <2>2, <3>1, <3>2 DEF AuthoringInv, OneEach, NewIsFor
    <3>4. Sound(e)'
      BY <1>1, <3>2, <3>3, SoundStays DEF AuthoringShape
    <3> QED
      BY <3>2, <3>4
  <2> QED
    BY <2>1, <2>2
<1> QED
  BY <1>3, <1>4, <1>5 DEF AuthoringInv

\* Nothing has been made for a request that is new.
LEMMA FreshIsSound ==
  ASSUME AuthoringInv, NEW f \in ErrandSet, f.step \in {"asked", "signing"},
         f.round = rounds + 1, rounds' = rounds + 1, UNCHANGED <<provider, made>>,
         f.next = 1, f.cids = << >>, f.update = << >>, Len(f.specs) >= 1
  PROVE  Sound(f)'
<1>1. rounds \in Nat /\ \A m \in DOMAIN made : made[m].for \in Nat /\ made[m].for <= rounds
  <2>1. rounds \in Nat /\ made \in Seq(ContractSet) /\ \A m \in DOMAIN made : made[m].for <= rounds
    BY DEF AuthoringInv, AuthoringShape
  <2>2. \A m \in DOMAIN made : made[m] \in ContractSet
    BY <2>1
  <2> QED
    BY <2>1, <2>2 DEF ContractSet
<1>2. FreeFrom(f, 1)'
  BY <1>1 DEF FreeFrom
<1>3. Len(f.specs) \in Nat
  BY DEF ErrandSet
<1>4. Filled(f, 0, << >>)'
  BY DEF Filled
<1>5. 1 \in 1 .. Len(f.specs) /\ 1 - 1 = 0
  BY <1>3
<1> QED
  BY <1>1, <1>2, <1>4, <1>5 DEF Sound

\* The slots of a batch are slots of the request, from the next one on.
LEMMA BatchSlots ==
  ASSUME NEW e, Sound(e), e.step = "signing", NEW b, b = Batch(e)
  PROVE  /\ b \in Seq(Nat) /\ Len(b) >= 1
         /\ \A i \in DOMAIN b : b[i] \in DOMAIN e.specs /\ b[i] >= e.next
         /\ \A i, j \in DOMAIN b : b[i] = b[j] => i = j
         /\ IF provider = "stepwise" THEN Len(b) = 1 /\ b[1] = e.next
            ELSE /\ e.next = 1 /\ Len(b) = Len(e.specs)
                 /\ \A i \in DOMAIN e.specs : b[i] = i
<1>1. /\ e.specs \in Seq({"first", "second", "nothing"}) /\ e.next \in 1 .. Len(e.specs)
      /\ Len(e.specs) \in Nat /\ DOMAIN e.specs = 1 .. Len(e.specs)
      /\ Len(e.specs) >= 1
      /\ provider # "stepwise" => e.next = 1
  BY DEF Sound, ErrandSet
<1>2. CASE provider = "stepwise"
  <2>1. b = <<e.next>>
    BY <1>2 DEF Batch
  <2> QED
    BY <1>1, <1>2, <2>1
<1>3. CASE provider # "stepwise"
  <2>1. b = [i \in 1 .. Len(e.specs) |-> i]
    BY <1>1, <1>3 DEF Batch
  <2>2. b \in Seq(Nat) /\ Len(b) = Len(e.specs) /\ DOMAIN b = 1 .. Len(e.specs)
    BY <1>1, <2>1
  <2> QED
    BY <1>1, <1>3, <2>1, <2>2
<1> QED
  BY <1>2, <1>3

LEMMA Transacted ==
  ASSUME AuthoringInv, NEW p \in Page, NEW e, e = errand[p], e.step = "signing",
         Allocable(e), Transacts(e), UNCHANGED <<provider, rounds>>,
         NEW b, b = Batch(e), NEW cids, cids = NewCids(e)
  PROVE  /\ made' \in Seq(ContractSet) /\ MadeStays /\ NewIsFor(e.round) /\ AuthoredOnce'
         /\ \A m \in DOMAIN made' : made'[m].for <= rounds'
         /\ cids \in Seq(Nat) /\ Len(cids) = Len(b)
         /\ \A k \in 1 .. Len(b) : Fits(e, b[k], cids[k])'
         /\ \A m \in DOMAIN made' \ DOMAIN made : \E k \in 1 .. Len(b) : made'[m].slot = b[k]
<1>1. /\ e # NoErrand /\ Sound(e) /\ e \in ErrandSet /\ e.round <= rounds
      /\ made \in Seq(ContractSet) /\ e.next \in Nat
      /\ FreeFrom(e, e.next) /\ e.by = e.owner
  <2>1. e # NoErrand
    BY DEF NoErrand
  <2> QED
    BY <2>1 DEF AuthoringInv, AuthoringShape, Sound, Allocable, ErrandSet
<1>2. /\ b \in Seq(Nat) /\ Len(b) >= 1
      /\ \A i \in DOMAIN b : b[i] \in DOMAIN e.specs /\ b[i] >= e.next
      /\ \A i, j \in DOMAIN b : b[i] = b[j] => i = j
  BY <1>1, BatchSlots
<1>3. PICK n : n = Len(made)
  OBVIOUS
<1>4. n \in Nat /\ DOMAIN made = 1 .. n /\ Len(b) \in Nat /\ DOMAIN b = 1 .. Len(b)
  BY <1>1, <1>2, <1>3
<1>5. PICK new : new = [i \in 1 .. Len(b) |-> Exercise(e, b[i])]
  OBVIOUS
<1>6. ASSUME NEW i \in 1 .. Len(b)
      PROVE  /\ Exercise(e, b[i]) \in ContractSet
             /\ Exercise(e, b[i]).for = e.round /\ Exercise(e, b[i]).slot = b[i]
             /\ Exercise(e, b[i]).by = e.owner /\ Exercise(e, b[i]).coin = HoldingFor(e, b[i])
  <2>1. HoldingFor(e, b[i]) \in CoinSet
    BY <1>1, <1>2, <1>4, HoldingKnown
  <2>2. b[i] \in Nat /\ e.round \in Nat /\ e.by \in Account
    BY <1>1, <1>2, <1>4 DEF ErrandSet
  <2> QED
    BY <1>1, <2>1, <2>2 DEF Exercise, ContractSet
<1>7. new \in Seq(ContractSet) /\ Len(new) = Len(b)
  BY <1>4, <1>5, <1>6
<1>8. made' = made \o new
  BY <1>4, <1>5 DEF Transacts
<1>9. /\ made' \in Seq(ContractSet) /\ Len(made') = n + Len(b)
      /\ \A m \in 1 .. n + Len(b) : made'[m] = IF m <= n THEN made[m] ELSE new[m - n]
  <2>1. /\ made \o new \in Seq(ContractSet)
        /\ Len(made \o new) = Len(made) + Len(new)
        /\ \A m \in 1 .. Len(made) + Len(new) :
             (made \o new)[m] = IF m <= Len(made) THEN made[m] ELSE new[m - Len(made)]
    BY <1>1, <1>7
  <2> QED
    BY <1>3, <1>4, <1>7, <1>8, <2>1
<1>10. /\ DOMAIN made' = 1 .. n + Len(b)
       /\ \A m \in 1 .. n : m \in DOMAIN made' /\ made'[m] = made[m]
  BY <1>4, <1>9
<1>11. ASSUME NEW m \in DOMAIN made' \ DOMAIN made
       PROVE  /\ m - n \in 1 .. Len(b)
              /\ made'[m].for = e.round /\ made'[m].slot = b[m - n]
  <2>1. m - n \in 1 .. Len(b) /\ ~(m <= n) /\ m \in 1 .. n + Len(b)
    BY <1>4, <1>10
  <2>2. made'[m] = Exercise(e, b[m - n])
    BY <1>5, <1>9, <2>1
  <2> QED
    BY <1>6, <2>1, <2>2
<1>12. MadeStays /\ NewIsFor(e.round)
  BY <1>4, <1>10, <1>11 DEF MadeStays, NewIsFor
<1>13. \A m \in DOMAIN made' : made'[m].for <= rounds'
  BY <1>1, <1>4, <1>10, <1>11 DEF AuthoringInv, AuthoringShape
<1>14. AuthoredOnce'
  <2> SUFFICES ASSUME NEW i \in DOMAIN made', NEW j \in DOMAIN made',
                      made'[i].for = made'[j].for, made'[i].slot = made'[j].slot
               PROVE  i = j
    BY DEF AuthoredOnce
  <2>1. CASE i \in DOMAIN made /\ j \in DOMAIN made
    BY <1>4, <1>10, <2>1 DEF AuthoringInv, AuthoredOnce
  <2>2. ASSUME NEW k \in DOMAIN made, NEW l \in DOMAIN made' \ DOMAIN made,
               made'[k].for = made'[l].for, made'[k].slot = made'[l].slot
        PROVE  FALSE
    <3>1. made[k].for = e.round /\ made[k].slot = b[l - n] /\ l - n \in DOMAIN b
      BY <1>4, <1>10, <1>11, <2>2
    <3>2. made[k].slot < e.next /\ made[k].slot >= e.next
      BY <1>1, <1>2, <3>1 DEF FreeFrom
    <3>3. b[l - n] \in Nat
      BY <1>2, <3>1
    <3> QED
      BY <1>1, <3>1, <3>2, <3>3
  <2>3. CASE i \notin DOMAIN made /\ j \notin DOMAIN made
    <3>1. i - n = j - n
      BY <1>2, <1>4, <1>11, <2>3
    <3> QED
      BY <1>4, <1>10, <3>1
  <2> QED
    BY <2>1, <2>2, <2>3
<1>15. /\ cids = [i \in 1 .. Len(b) |-> n + i]
       /\ cids \in Seq(Nat) /\ Len(cids) = Len(b)
  BY <1>3, <1>4 DEF NewCids
<1>16. ASSUME NEW k \in 1 .. Len(b) PROVE Fits(e, b[k], cids[k])'
  <2>1. PICK m, i : m = cids[k] /\ i = b[k]
    OBVIOUS
  <2>2. m = n + k /\ m \in 1 .. n + Len(b) /\ ~(m <= n) /\ m - n = k
    BY <1>4, <1>15, <2>1
  <2>3. made'[m] = Exercise(e, i)
    BY <1>5, <1>9, <2>1, <2>2
  <2>4. HoldingFor(e, i)' = HoldingFor(e, i)
    BY DEF HoldingFor, FundsHoldings
  <2>5. Fits(e, i, m)'
    BY <1>6, <1>10, <2>1, <2>2, <2>3, <2>4 DEF Fits
  <2> QED
    BY <2>1, <2>5
<1> QED
  BY <1>9, <1>11, <1>12, <1>13, <1>14, <1>15, <1>16

\* A page starts on a request.
LEMMA StartKeeps ==
  ASSUME AuthoringInv, NEW p \in Page, errand[p].step = "away", NEW f \in ErrandSet,
         f.step \in {"asked", "signing"}, f.round = rounds + 1, rounds' = rounds + 1,
         f.next = 1, f.cids = << >>, f.update = << >>, Len(f.specs) >= 1,
         errand' = [errand EXCEPT ![p] = f], UNCHANGED <<provider, signer, made>>
  PROVE  AuthoringInv'
<1>1. /\ AuthoringShape /\ AuthoredOnce
      /\ rounds \in Nat /\ made \in Seq(ContractSet) /\ signer \in Account
      /\ \A m \in DOMAIN made : made[m].for <= rounds
  BY DEF AuthoringInv, AuthoringShape
<1>2. errand[p] = NoErrand
  BY <1>1, NoErrandIsNone DEF AuthoringShape
<1>3. Sound(f)'
  BY FreshIsSound
<1>4. \A q \in Page : errand[q] # NoErrand => errand[q].round # f.round
  <2>1. \A q \in Page : errand[q] # NoErrand =>
          errand[q].round \in Nat /\ errand[q].round <= rounds
    BY DEF AuthoringInv, Sound, ErrandSet
  <2> QED
    BY <1>1, <2>1
<1>5. MadeStays /\ AuthoredOnce' /\ DOMAIN made' = DOMAIN made
  BY <1>1 DEF MadeStays, AuthoredOnce
<1>6. \A m \in DOMAIN made' : made'[m].for <= rounds'
  <2>1. \A m \in DOMAIN made : made[m] \in ContractSet
    BY <1>1
  <2> QED
    BY <1>1, <2>1 DEF ContractSet
<1>7. /\ made' \in Seq(ContractSet) /\ signer' \in Account /\ rounds' \in Nat /\ rounds' >= rounds
      /\ errand[p] # NoErrand => NewIsFor(errand[p].round)
      /\ \A q \in Page \ {p} : errand[q] # NoErrand => errand[q].round # f.round
  BY <1>1, <1>2, <1>4
<1> QED
  BY <1>3, <1>5, <1>6, <1>7, ErrandStep

\* A page goes on, and nothing is made.
LEMMA GoesOn ==
  ASSUME AuthoringInv, NEW p \in Page, NEW f, errand[p] # NoErrand,
         errand' = [errand EXCEPT ![p] = f],
         UNCHANGED <<provider, signer, made, rounds>>,
         f # NoErrand => Sound(f) /\ f.round = errand[p].round
  PROVE  AuthoringInv'
<1>1. /\ AuthoringShape /\ AuthoredOnce /\ rounds \in Nat
  BY DEF AuthoringInv, AuthoringShape
<1>2. MadeStays /\ AuthoredOnce' /\ DOMAIN made' = DOMAIN made /\ NewIsFor(errand[p].round)
  BY <1>1 DEF MadeStays, AuthoredOnce, NewIsFor
<1>3. f # NoErrand => Sound(f)'
  BY <1>1, <1>2, SoundStays
<1>4. f # NoErrand => \A q \in Page \ {p} : errand[q] # NoErrand => errand[q].round # f.round
  BY DEF AuthoringInv, OneEach
<1>5. /\ made' \in Seq(ContractSet) /\ signer' \in Account /\ rounds' \in Nat /\ rounds' >= rounds
      /\ \A m \in DOMAIN made' : made'[m].for <= rounds'
  BY <1>1 DEF AuthoringShape
<1> QED
  BY <1>2, <1>3, <1>4, <1>5, ErrandStep

\* What a page starts with.
LEMMA ErrandForKnown ==
  ASSUME AuthoringInv,
         NEW f, NEW at, NEW s, NEW one, NEW two, NEW make, NEW lp \in BOOLEAN,
         at \in {"asked", "signing"}, s \in Seq({"first", "second", "nothing"}),
         one \in CoinSet, two \in CoinSet, make \in {"venue", "other"},
         f = [step |-> at, lp |-> lp, specs |-> s, coins |-> [first |-> one, second |-> two],
              make |-> make, round |-> rounds + 1, owner |-> signer, by |-> signer,
              next |-> 1, cids |-> << >>, update |-> << >>]
  PROVE  /\ f \in ErrandSet /\ f.step = at /\ f.round = rounds + 1 /\ f.next = 1
         /\ f.cids = << >> /\ f.update = << >> /\ f.specs = s
<1>1. rounds + 1 \in Nat /\ signer \in Account
  BY DEF AuthoringInv, AuthoringShape
<1>2. [first |-> one, second |-> two] \in [first : CoinSet, second : CoinSet]
  OBVIOUS
<1>3. << >> \in Seq(Nat)
  OBVIOUS
<1> QED
  BY <1>1, <1>2, <1>3 DEF ErrandSet

LEMMA SpecsKnown ==
  ASSUME NEW k \in {"fund", "trade", "swap"} \cup Liquidity, NEW s \in SpecsFor(k)
  PROVE  s \in Seq({"first", "second", "nothing"}) /\ Len(s) >= 1
<1>1. \/ s = <<"first">> \/ s = <<"first", "nothing">> \/ s = <<"nothing", "first">>
      \/ s = <<"first", "second", "nothing">> \/ s = <<"nothing", "nothing", "first">>
  BY DEF SpecsFor, Liquidity
<1>2. CASE s = <<"first">>
  BY <1>2
<1>3. CASE s = <<"first", "nothing">>
  BY <1>3
<1>4. CASE s = <<"nothing", "first">>
  BY <1>4
<1>5. CASE s = <<"first", "second", "nothing">>
  BY <1>5
<1>6. CASE s = <<"nothing", "nothing", "first">>
  BY <1>6
<1> QED
  BY <1>1, <1>2, <1>3, <1>4, <1>5, <1>6

LEMMA StartErrandKeeps == ASSUME AuthoringInv, NEW p \in Page, StartErrand(p) PROVE AuthoringInv'
<1>1. /\ rounds' = rounds + 1 /\ errand[p].step = "away"
      /\ UNCHANGED <<provider, signer, made>>
  BY DEF StartErrand
<1>2. ASSUME NEW k \in {"fund", "trade", "swap"} \cup Liquidity, NEW s \in SpecsFor(k),
             NEW one \in Spendable("first") \cup {NoCoin},
             NEW two \in Spendable("second") \cup {NoCoin}, NEW make \in {"venue", "other"},
             errand' = [errand EXCEPT ![p] = ErrandFor(k, "asked", s, one, two, make)]
      PROVE  AuthoringInv'
  <2>1. one \in CoinSet /\ two \in CoinSet
    BY DEF Spendable, CoinSet
  <2>2. s \in Seq({"first", "second", "nothing"}) /\ Len(s) >= 1
    BY SpecsKnown
  <2>3. PICK f : f = ErrandFor(k, "asked", s, one, two, make)
    OBVIOUS
  <2>4. PICK lp \in BOOLEAN :
          f = [step |-> "asked", lp |-> lp, specs |-> s, coins |-> [first |-> one, second |-> two],
               make |-> make, round |-> rounds + 1, owner |-> signer, by |-> signer,
               next |-> 1, cids |-> << >>, update |-> << >>]
    <3>1. PICK lp \in BOOLEAN : lp <=> (k \in Liquidity)
      <4>1. CASE k \in Liquidity
        BY <4>1
      <4>2. CASE k \notin Liquidity
        BY <4>2
      <4> QED
        BY <4>1, <4>2
    <3> QED
      BY <2>3, <3>1 DEF ErrandFor
  <2>5. /\ f \in ErrandSet /\ f.step = "asked" /\ f.round = rounds + 1 /\ f.next = 1
        /\ f.cids = << >> /\ f.update = << >> /\ f.specs = s
    BY <2>1, <2>2, <2>4, ErrandForKnown
  <2> QED
    BY <1>1, <1>2, <2>2, <2>3, <2>5, StartKeeps
<1>3. PICK k \in {"fund", "trade", "swap"} \cup Liquidity :
        \E s \in SpecsFor(k) :
          \E one \in Spendable("first") \cup {NoCoin}, two \in Spendable("second") \cup {NoCoin},
             make \in {"venue", "other"} :
            errand' = [errand EXCEPT ![p] = ErrandFor(k, "asked", s, one, two, make)]
  BY Zenon DEF StartErrand
<1> QED
  <2>1. PICK s \in SpecsFor(k) :
          \E one \in Spendable("first") \cup {NoCoin}, two \in Spendable("second") \cup {NoCoin},
             make \in {"venue", "other"} :
            errand' = [errand EXCEPT ![p] = ErrandFor(k, "asked", s, one, two, make)]
    BY <1>3
  <2>2. PICK one \in Spendable("first") \cup {NoCoin}, two \in Spendable("second") \cup {NoCoin},
             make \in {"venue", "other"} :
          errand' = [errand EXCEPT ![p] = ErrandFor(k, "asked", s, one, two, make)]
    BY <2>1
  <2> QED
    BY <1>2, <2>2

LEMMA StartPlacingKeeps == ASSUME AuthoringInv, NEW p \in Page, StartPlacing(p) PROVE AuthoringInv'
<1>1. NoCoin \in CoinSet /\ <<"nothing">> \in Seq({"first", "second", "nothing"})
  BY DEF CoinSet
<1>2. PICK f : f = ErrandFor("place", "signing", <<"nothing">>, NoCoin, NoCoin, "venue")
  OBVIOUS
<1>3. f = [step |-> "signing", lp |-> FALSE, specs |-> <<"nothing">>,
           coins |-> [first |-> NoCoin, second |-> NoCoin],
           make |-> "venue", round |-> rounds + 1, owner |-> signer, by |-> signer,
           next |-> 1, cids |-> << >>, update |-> << >>]
  <2>1. ("place" \in Liquidity) = FALSE
    BY DEF Liquidity
  <2> QED
    BY <1>2, <2>1 DEF ErrandFor
<1>4. /\ f \in ErrandSet /\ f.step = "signing" /\ f.round = rounds + 1 /\ f.next = 1
      /\ f.cids = << >> /\ f.update = << >> /\ f.specs = <<"nothing">>
  BY <1>1, <1>3, ErrandForKnown
<1>5. Len(f.specs) >= 1
  BY <1>4
<1> QED
  BY <1>2, <1>4, <1>5, StartKeeps DEF StartPlacing

LEMMA ComposeErrandKeeps == ASSUME AuthoringInv, NEW p \in Page, ComposeErrand(p) PROVE AuthoringInv'
<1>1. PICK e : e = errand[p]
  OBVIOUS
<1>2. /\ e.step = "asked" /\ e # NoErrand /\ Sound(e) /\ e \in ErrandSet /\ signer \in Account
      /\ UNCHANGED <<provider, signer, made, rounds>>
  BY <1>1 DEF ComposeErrand, NoErrand, AuthoringInv, AuthoringShape, Sound
<1>3. PICK f : f = IF Composable(e) THEN [e EXCEPT !.step = "signing", !.by = signer] ELSE NoErrand
  OBVIOUS
<1>4. errand' = [errand EXCEPT ![p] = f]
  BY <1>1, <1>3 DEF ComposeErrand
<1>5. ASSUME f # NoErrand PROVE Sound(f) /\ f.round = e.round
  <2>1. /\ f \in ErrandSet /\ f.step = "signing"
        /\ f.specs = e.specs /\ f.coins = e.coins /\ f.round = e.round /\ f.owner = e.owner
        /\ f.next = e.next /\ f.cids = e.cids /\ f.update = e.update
    BY <1>2, <1>3, <1>5 DEF ErrandSet
  <2> QED
    BY <1>2, <2>1 DEF Sound, Fits, Filled, FreeFrom, HoldingFor, FundsHoldings
<1> QED
  BY <1>1, <1>2, <1>4, <1>5, GoesOn

LEMMA RefusalKeeps == ASSUME AuthoringInv, NEW p \in Page, Refusal(p) PROVE AuthoringInv'
<1>1. errand[p] # NoErrand
  BY DEF Refusal, NoErrand
<1> QED
  BY <1>1, GoesOn DEF Refusal

\* Done with what was authored in full: by contract ids, or by the update id.
LEMMA SignedIsSound ==
  ASSUME NEW e, Sound(e), e.step = "signing", e.next = 1, rounds' = rounds,
         NEW cids \in Seq(Nat), Len(cids) = Len(e.specs),
         \A i \in 1 .. Len(e.specs) : Fits(e, i, cids[i])',
         NEW f \in {SignedBy(e, cids), LeftTo(e, cids)}
  PROVE  Sound(f)' /\ f.round = e.round
<1>1. /\ e \in ErrandSet /\ e.round <= rounds /\ Len(e.specs) >= 1 /\ Len(e.specs) \in Nat
      /\ Len(e.cids) = 0 /\ e.cids \in Seq(Nat)
  BY DEF Sound, Filled, ErrandSet
<1>2. e.cids = << >> /\ cids # << >>
  BY <1>1
<1>3. /\ f \in ErrandSet /\ f.step = "signed"
      /\ f.specs = e.specs /\ f.coins = e.coins /\ f.round = e.round /\ f.owner = e.owner
      /\ (f.cids = cids) \/ (f.cids = << >> /\ f.update = cids)
  <2>1. CASE f = SignedBy(e, cids)
    BY <1>1, <2>1 DEF SignedBy, ErrandSet
  <2>2. CASE f = LeftTo(e, cids)
    BY <1>1, <1>2, <2>2 DEF LeftTo, ErrandSet
  <2> QED
    BY <2>1, <2>2
<1>4. NamedBy(f) = cids
  BY <1>2, <1>3 DEF NamedBy
<1>5. \A i \in 1 .. Len(f.specs) : Fits(f, i, cids[i])'
  <2> TAKE i \in 1 .. Len(f.specs)
  <2>1. PICK c : c = cids[i]
    OBVIOUS
  <2>2. Fits(e, i, c)'
    BY <1>3, <2>1
  <2>3. Fits(f, i, c)'
    BY <1>3, <2>2 DEF Fits, HoldingFor, FundsHoldings
  <2> QED
    BY <2>1, <2>3
<1>6. Filled(f, Len(f.specs), NamedBy(f))'
  BY <1>3, <1>4, <1>5 DEF Filled, NamedBy
<1> QED
  BY <1>1, <1>3, <1>6 DEF Sound

\* One of several allocations is authored: its contract id is to be found.
LEMMA RecoveringIsSound ==
  ASSUME NEW e, Sound(e), e.step = "signing", provider = "stepwise", provider' = provider,
         rounds' = rounds, MadeStays,
         made \in Seq(ContractSet), NEW cids \in Seq(Nat), Len(cids) = 1, Fits(e, e.next, cids[1])',
         \A m \in DOMAIN made' \ DOMAIN made : made'[m].slot = e.next,
         NEW f, f = [e EXCEPT !.step = "recovering", !.update = cids]
  PROVE  Sound(f)' /\ f.round = e.round
<1>1. /\ e \in ErrandSet /\ e.round <= rounds /\ Len(e.specs) >= 1 /\ Len(e.specs) \in Nat
      /\ e.next \in 1 .. Len(e.specs) /\ FreeFrom(e, e.next)
      /\ Filled(e, e.next - 1, e.cids)
  BY DEF Sound, ErrandSet
<1>2. /\ f \in ErrandSet /\ f.step = "recovering" /\ f.update = cids
      /\ f.specs = e.specs /\ f.coins = e.coins /\ f.round = e.round /\ f.owner = e.owner
      /\ f.next = e.next /\ f.cids = e.cids
  BY <1>1 DEF ErrandSet
<1>3. FreeFrom(f, e.next + 1)'
  <2> SUFFICES ASSUME NEW m \in DOMAIN made', made'[m].for = f.round
               PROVE  made'[m].slot < e.next + 1
    BY DEF FreeFrom
  <2>1. CASE m \in DOMAIN made
    <3>1. made[m].for = e.round /\ made'[m].slot = made[m].slot
      BY <1>2, <2>1 DEF MadeStays
    <3>2. made[m].slot < e.next
      BY <1>1, <2>1, <3>1 DEF FreeFrom
    <3>3. made[m].slot \in Nat
      <4>1. made[m] \in ContractSet
        BY <2>1
      <4> QED
        BY <4>1 DEF ContractSet
    <3> QED
      BY <1>1, <3>1, <3>2, <3>3
  <2>2. CASE m \notin DOMAIN made
    BY <1>1, <2>2
  <2> QED
    BY <2>1, <2>2
<1>4. ASSUME NEW i, NEW c, Fits(e, i, c) PROVE Fits(f, i, c)'
  BY <1>2, <1>4 DEF Fits, MadeStays, HoldingFor, FundsHoldings
<1>5. Filled(f, f.next - 1, f.cids)'
  BY <1>1, <1>2, <1>4 DEF Filled
<1>6. Fits(f, f.next, f.update[1])'
  <2>1. PICK c : c = cids[1]
    OBVIOUS
  <2>2. Fits(e, e.next, c)'
    BY <2>1
  <2>3. Fits(f, e.next, c)'
    BY <1>2, <2>2 DEF Fits, HoldingFor, FundsHoldings
  <2> QED
    BY <1>2, <2>1, <2>3
<1> QED
  BY <1>1, <1>2, <1>3, <1>5, <1>6 DEF Sound

LEMMA AuthorOfKeeps == ASSUME AuthoringInv, NEW p \in Page, AuthorOf(p) PROVE AuthoringInv'
<1>1. PICK e : e = errand[p]
  OBVIOUS
<1>2. PICK b, cids : b = Batch(e) /\ cids = NewCids(e)
  OBVIOUS
<1>3. /\ e.step = "signing" /\ Allocable(e) /\ Transacts(e)
      /\ UNCHANGED <<provider, signer, rounds>>
  BY <1>1 DEF AuthorOf
<1>4. /\ AuthoringShape /\ rounds \in Nat /\ signer \in Account /\ made \in Seq(ContractSet)
      /\ provider \in {"relay", "stepwise", "own"}
  BY DEF AuthoringInv, AuthoringShape
<1>5. /\ e # NoErrand /\ Sound(e) /\ Len(e.specs) \in Nat /\ Len(e.specs) >= 1
      /\ e.next \in 1 .. Len(e.specs)
  <2>1. e # NoErrand
    BY <1>3 DEF NoErrand
  <2> QED
    BY <1>1, <1>3, <2>1 DEF AuthoringInv, Sound, ErrandSet
<1>6. /\ b \in Seq(Nat) /\ Len(b) >= 1
      /\ IF provider = "stepwise" THEN Len(b) = 1 /\ b[1] = e.next
         ELSE /\ e.next = 1 /\ Len(b) = Len(e.specs)
              /\ \A i \in DOMAIN e.specs : b[i] = i
  BY <1>2, <1>3, <1>5, BatchSlots
<1>7. /\ made' \in Seq(ContractSet) /\ MadeStays /\ NewIsFor(e.round) /\ AuthoredOnce'
      /\ \A m \in DOMAIN made' : made'[m].for <= rounds'
      /\ cids \in Seq(Nat) /\ Len(cids) = Len(b)
      /\ \A k \in 1 .. Len(b) : Fits(e, b[k], cids[k])'
      /\ \A m \in DOMAIN made' \ DOMAIN made : \E k \in 1 .. Len(b) : made'[m].slot = b[k]
  BY <1>1, <1>2, <1>3, Transacted
<1>8. PICK f : errand' = [errand EXCEPT ![p] = f] /\ f \in AnswersOf(e) \cup {NoErrand}
  BY <1>1 DEF AuthorOf
<1>9. ASSUME e.next = 1, Len(b) = Len(e.specs), \A i \in 1 .. Len(b) : b[i] = i,
             f \in {SignedBy(e, cids), LeftTo(e, cids)}
      PROVE  Sound(f)' /\ f.round = e.round
  <2>1. \A i \in 1 .. Len(e.specs) : Fits(e, i, cids[i])'
    <3> TAKE i \in 1 .. Len(e.specs)
    <3>1. PICK j, c : j = b[i] /\ c = cids[i]
      OBVIOUS
    <3>2. Fits(e, j, c)' /\ j = i
      BY <1>7, <1>9, <3>1
    <3> QED
      BY <3>1, <3>2
  <2> QED
    BY <1>3, <1>5, <1>7, <1>9, <2>1, SignedIsSound
<1>10. ASSUME f # NoErrand PROVE Sound(f)' /\ f.round = e.round
  <2>1. f \in AnswersOf(e)
    BY <1>8, <1>10
  <2>2. CASE provider = "relay"
    <3>1. f \in FromRelay(e)
      BY <2>1, <2>2 DEF AnswersOf
    <3>2. f = SignedBy(e, cids)
      BY <1>2, <1>10, <3>1 DEF FromRelay
    <3> QED
      BY <1>5, <1>6, <1>9, <2>2, <3>2
  <2>3. CASE provider = "own"
    <3>1. f \in FromOwn(e)
      BY <2>1, <2>3 DEF AnswersOf
    <3>2. f \in {SignedBy(e, cids), LeftTo(e, cids)}
      BY <1>2, <1>10, <3>1 DEF FromOwn
    <3> QED
      BY <1>5, <1>6, <1>9, <2>3, <3>2
  <2>4. CASE provider = "stepwise"
    <3>1. f \in FromSteps(e)
      BY <2>1, <2>4 DEF AnswersOf
    <3>2. CASE Len(e.specs) = 1
      <4>1. f \in {SignedBy(e, cids), LeftTo(e, cids)}
        BY <1>2, <3>1, <3>2 DEF FromSteps
      <4>2. e.next = 1
        BY <1>5, <3>2
      <4>3. Len(b) = Len(e.specs) /\ \A i \in 1 .. Len(b) : b[i] = i
        <5>1. Len(b) = 1 /\ b[1] = 1
          BY <1>6, <2>4, <4>2
        <5>2. \A i \in 1 .. 1 : i = 1
          OBVIOUS
        <5> QED
          BY <3>2, <5>1, <5>2
      <4> QED
        BY <1>9, <4>1, <4>2, <4>3
    <3>3. CASE Len(e.specs) # 1
      <4>1. f = [e EXCEPT !.step = "recovering", !.update = cids]
        BY <1>2, <3>1, <3>3 DEF FromSteps
      <4>2. Len(cids) = 1 /\ \A m \in DOMAIN made' \ DOMAIN made : made'[m].slot = e.next
        BY <1>6, <1>7, <2>4
      <4>3. Fits(e, e.next, cids[1])'
        <5>1. PICK j, c : j = b[1] /\ c = cids[1]
          OBVIOUS
        <5>2. Fits(e, j, c)' /\ j = e.next
          BY <1>6, <1>7, <2>4, <5>1
        <5> QED
          BY <5>1, <5>2
      <4> QED
        BY <1>3, <1>4, <1>5, <1>7, <2>4, <4>1, <4>2, <4>3, RecoveringIsSound
    <3> QED
      BY <3>2, <3>3
  <2> QED
    BY <1>4, <2>2, <2>3, <2>4
<1>11. f # NoErrand => \A q \in Page \ {p} : errand[q] # NoErrand => errand[q].round # f.round
  BY <1>1, <1>5, <1>10 DEF AuthoringInv, OneEach
<1>12. errand' = [errand EXCEPT ![p] = f] /\ (f # NoErrand => Sound(f)')
  BY <1>8, <1>10
<1>13. /\ signer' \in Account /\ rounds' \in Nat /\ rounds' >= rounds /\ provider' = provider
       /\ errand[p] # NoErrand => NewIsFor(errand[p].round)
       /\ errand[p] = NoErrand => DOMAIN made' = DOMAIN made
  BY <1>1, <1>3, <1>4, <1>5, <1>7
<1> QED
  BY <1>7, <1>11, <1>12, <1>13, ErrandStep

LEMMA RecoverCidKeeps == ASSUME AuthoringInv, NEW p \in Page, RecoverCid(p) PROVE AuthoringInv'
<1>1. PICK e : e = errand[p]
  OBVIOUS
<1>2. /\ e.step = "recovering" /\ e # NoErrand /\ Sound(e) /\ e \in ErrandSet
      /\ UNCHANGED <<provider, signer, made, rounds>>
  <2>1. e.step = "recovering" /\ e # NoErrand
    BY <1>1 DEF RecoverCid, NoErrand
  <2> QED
    BY <1>1, <2>1 DEF RecoverCid, AuthoringInv, Sound
<1>3. /\ e.specs \in Seq({"first", "second", "nothing"})
      /\ e.next \in 1 .. Len(e.specs) /\ Len(e.specs) \in Nat /\ FreeFrom(e, e.next + 1)
      /\ Filled(e, e.next - 1, e.cids) /\ provider = "stepwise"
      /\ e.cids \in Seq(Nat) /\ e.update \in Seq(Nat)
      /\ Len(e.update) = 1 /\ Fits(e, e.next, e.update[1])
  BY <1>2 DEF Sound, ErrandSet
<1>4. PICK more : more = Append(e.cids, e.update[1])
  OBVIOUS
<1>5. more \in Seq(Nat) /\ Len(more) = e.next /\ Filled(e, e.next, more)
  <2>1. more \in Seq(Nat) /\ Len(more) = e.next /\ Len(e.cids) = e.next - 1
    BY <1>3, <1>4 DEF Filled
  <2>2. \A i \in 1 .. e.next : Fits(e, i, more[i])
    BY <1>3, <1>4, <2>1 DEF Filled
  <2> QED
    BY <2>1, <2>2 DEF Filled
<1>6. PICK g : g = [e EXCEPT !.cids = more, !.update = << >>]
  OBVIOUS
<1>7. /\ g \in ErrandSet /\ g.cids = more /\ g.update = << >> /\ g.next = e.next
      /\ g.specs = e.specs /\ g.coins = e.coins /\ g.round = e.round /\ g.owner = e.owner
  <2>1. << >> \in Seq(Nat)
    OBVIOUS
  <2> QED
    BY <1>2, <1>5, <1>6, <2>1 DEF ErrandSet
<1>8. PICK f : /\ errand' = [errand EXCEPT ![p] = f]
               /\ f \in {IF e.next = Len(e.specs) THEN [g EXCEPT !.step = "signed"]
                         ELSE [g EXCEPT !.step = "signing", !.next = @ + 1], NoErrand}
  <2>1. g = [errand[p] EXCEPT !.cids = Append(@, RecoveredCid(errand[p])), !.update = << >>]
    BY <1>1, <1>4, <1>6 DEF RecoveredCid
  <2>2. \/ errand' = [errand EXCEPT ![p] =
             IF e.next = Len(e.specs) THEN [g EXCEPT !.step = "signed"]
             ELSE [g EXCEPT !.step = "signing", !.next = @ + 1]]
        \/ errand' = [errand EXCEPT ![p] = NoErrand]
    <3>1. errand[p].next = e.next /\ errand[p].specs = e.specs
      BY <1>1
    <3> QED
      BY <1>1, <2>1 DEF RecoverCid
  <2> QED
    BY <2>2
<1>9. ASSUME f # NoErrand PROVE Sound(f) /\ f.round = e.round
  <2>1. e.round <= rounds /\ Len(e.specs) >= 1
    BY <1>2 DEF Sound
  <2>2. CASE e.next = Len(e.specs)
    <3>1. f = [g EXCEPT !.step = "signed"]
      BY <1>8, <1>9, <2>2
    <3>2. /\ f \in ErrandSet /\ f.step = "signed" /\ f.cids = more
          /\ f.specs = e.specs /\ f.coins = e.coins /\ f.round = e.round /\ f.owner = e.owner
      BY <1>7, <3>1 DEF ErrandSet
    <3>3. more # << >>
      BY <1>3, <1>5
    <3>4. Filled(f, Len(f.specs), more)
      BY <1>5, <2>2, <3>2 DEF Filled, Fits, HoldingFor, FundsHoldings
    <3> QED
      BY <2>1, <3>2, <3>3, <3>4 DEF Sound, NamedBy
  <2>3. CASE e.next # Len(e.specs)
    <3>1. f = [g EXCEPT !.step = "signing", !.next = e.next + 1]
      BY <1>7, <1>8, <1>9, <2>3
    <3>2. /\ f \in ErrandSet /\ f.step = "signing" /\ f.next = e.next + 1
          /\ f.cids = more /\ f.update = << >>
          /\ f.specs = e.specs /\ f.coins = e.coins /\ f.round = e.round /\ f.owner = e.owner
      <4>1. PICK h : h = [g EXCEPT !.step = "signing"]
        OBVIOUS
      <4>2. /\ h \in ErrandSet /\ h.step = "signing" /\ h.cids = more /\ h.update = << >>
            /\ h.specs = e.specs /\ h.coins = e.coins /\ h.round = e.round /\ h.owner = e.owner
        BY <1>7, <4>1 DEF ErrandSet
      <4>3. f = [h EXCEPT !.next = e.next + 1] /\ e.next + 1 \in Nat
        BY <1>3, <3>1, <4>1
      <4> QED
        BY <4>2, <4>3 DEF ErrandSet
    <3>3. f.next \in 1 .. Len(f.specs) /\ f.next - 1 = e.next
      <4>1. PICK n, k : n = Len(e.specs) /\ k = e.next
        OBVIOUS
      <4>2. n \in Nat /\ k \in 1 .. n /\ k # n
        BY <1>3, <2>3, <4>1
      <4>3. Len(f.specs) = n /\ f.next = k + 1
        BY <3>2, <4>1
      <4> QED
        BY <4>1, <4>2, <4>3
    <3>4. Filled(f, f.next - 1, f.cids)
      BY <1>5, <3>2, <3>3 DEF Filled, Fits, HoldingFor, FundsHoldings
    <3>5. FreeFrom(f, f.next)
      BY <1>3, <3>2 DEF FreeFrom
    <3> QED
      BY <1>3, <2>1, <3>2, <3>3, <3>4, <3>5 DEF Sound
  <2> QED
    BY <2>2, <2>3
<1> QED
  BY <1>1, <1>2, <1>8, <1>9, GoesOn

LEMMA SettleErrandKeeps == ASSUME AuthoringInv, NEW p \in Page, SettleErrand(p) PROVE AuthoringInv'
<1>1. /\ errand[p] # NoErrand /\ UNCHANGED <<provider, signer, rounds>>
      /\ errand' = [errand EXCEPT ![p] = NoErrand]
  BY DEF SettleErrand, NoErrand
<1>2. /\ AuthoringShape /\ AuthoredOnce /\ rounds \in Nat /\ signer \in Account
      /\ made \in Seq(ContractSet) /\ \A m \in DOMAIN made : made[m].for <= rounds
  BY DEF AuthoringInv, AuthoringShape
<1>3. PICK named : \/ made' = [i \in DOMAIN made |->
                        IF i \in named THEN [made[i] EXCEPT !.is = "spent"] ELSE made[i]]
                   \/ made' = made
  BY DEF SettleErrand
<1>4. /\ made' \in Seq(ContractSet) /\ MadeStays /\ DOMAIN made' = DOMAIN made
  <2>1. CASE made' = made
    BY <1>2, <2>1 DEF MadeStays
  <2>2. CASE made' = [i \in DOMAIN made |->
                        IF i \in named THEN [made[i] EXCEPT !.is = "spent"] ELSE made[i]]
    <3>1. ASSUME NEW i \in DOMAIN made
          PROVE  /\ made[i] \in ContractSet
                 /\ made'[i] \in ContractSet
                 /\ made'[i].for = made[i].for /\ made'[i].slot = made[i].slot
                 /\ made'[i].by = made[i].by /\ made'[i].coin = made[i].coin
      <4>1. made[i] \in ContractSet
        BY <1>2
      <4> QED
        BY <2>2, <4>1 DEF ContractSet
    <3>2. DOMAIN made' = DOMAIN made /\ DOMAIN made = 1 .. Len(made) /\ Len(made) \in Nat
      BY <1>2, <2>2
    <3>3. made' \in [1 .. Len(made) -> ContractSet]
      BY <2>2, <3>1, <3>2
    <3>4. made' \in Seq(ContractSet)
      BY <3>2, <3>3
    <3> QED
      BY <3>1, <3>2, <3>4 DEF MadeStays
  <2> QED
    BY <1>3, <2>1, <2>2
<1>5. /\ AuthoredOnce' /\ NewIsFor(errand[p].round)
      /\ \A m \in DOMAIN made' : made'[m].for <= rounds'
  BY <1>1, <1>2, <1>4 DEF AuthoredOnce, MadeStays, NewIsFor
<1>6. PICK f : f = NoErrand
  OBVIOUS
<1>7. /\ errand' = [errand EXCEPT ![p] = f] /\ (f # NoErrand => Sound(f)')
      /\ f # NoErrand => \A q \in Page \ {p} : errand[q] # NoErrand => errand[q].round # f.round
      /\ signer' \in Account /\ rounds' \in Nat /\ rounds' >= rounds /\ provider' = provider
      /\ errand[p] # NoErrand => NewIsFor(errand[p].round)
  BY <1>1, <1>2, <1>5, <1>6
<1> QED
  BY <1>4, <1>5, <1>7, ErrandStep

\* No page moves, and what is made stays in its place.
LEMMA PagesWait ==
  ASSUME AuthoringInv, MadeStays, made' \in Seq(ContractSet), DOMAIN made' = DOMAIN made,
         signer' \in Account, UNCHANGED <<provider, errand, rounds>>
  PROVE  AuthoringInv'
<1>1. /\ AuthoringShape /\ AuthoredOnce /\ rounds \in Nat
  BY DEF AuthoringInv, AuthoringShape
<1>2. AuthoringShape' /\ OneEach' /\ AuthoredOnce'
  BY <1>1 DEF AuthoringInv, AuthoringShape, OneEach, AuthoredOnce, MadeStays
<1>3. ASSUME NEW q \in Page, errand'[q] # NoErrand PROVE Sound(errand[q])'
  <2>1. PICK e : e = errand[q]
    OBVIOUS
  <2>2. Sound(e)
    BY <1>3, <2>1 DEF AuthoringInv
  <2>3. Sound(e)'
    BY <1>1, <2>2, SoundStays
  <2> QED
    BY <2>1, <2>3
<1> QED
  BY <1>2, <1>3 DEF AuthoringInv

LEMMA ReleaseMadeKeeps ==
  ASSUME AuthoringInv, NEW i \in DOMAIN made, ReleaseMade(i) PROVE AuthoringInv'
<1>1. /\ made \in Seq(ContractSet) /\ signer \in Account
  BY DEF AuthoringInv, AuthoringShape
<1>2. /\ made' = [made EXCEPT ![i] = [made[i] EXCEPT !.is = "free"]]
      /\ UNCHANGED <<provider, signer, errand, rounds>>
  BY DEF ReleaseMade
<1>3. /\ made[i] \in ContractSet
      /\ [made[i] EXCEPT !.is = "free"] \in ContractSet
  <2>1. made[i] \in ContractSet
    BY <1>1
  <2> QED
    BY <2>1 DEF ContractSet
<1>4. made' \in Seq(ContractSet) /\ DOMAIN made' = DOMAIN made
  BY <1>1, <1>2, <1>3
<1>5. MadeStays
  BY <1>1, <1>2, <1>3 DEF MadeStays, ContractSet
<1> QED
  BY <1>1, <1>2, <1>4, <1>5, PagesWait

LEMMA AuthoringKept == AuthoringInv /\ [AuthoringNext]_AuthoringVars => AuthoringInv'
<1> SUFFICES ASSUME AuthoringInv, [AuthoringNext]_AuthoringVars PROVE AuthoringInv'
  OBVIOUS
<1>1. /\ made \in Seq(ContractSet) /\ signer \in Account
  BY DEF AuthoringInv, AuthoringShape
<1>2. ASSUME NEW p \in Page, StartErrand(p) PROVE AuthoringInv'
  BY <1>2, StartErrandKeeps
<1>3. ASSUME NEW p \in Page, StartPlacing(p) PROVE AuthoringInv'
  BY <1>3, StartPlacingKeeps
<1>4. ASSUME NEW p \in Page, ComposeErrand(p) PROVE AuthoringInv'
  BY <1>4, ComposeErrandKeeps
<1>5. ASSUME NEW p \in Page, AuthorOf(p) PROVE AuthoringInv'
  BY <1>5, AuthorOfKeeps
<1>6. ASSUME NEW p \in Page, Refusal(p) PROVE AuthoringInv'
  BY <1>6, RefusalKeeps
<1>7. ASSUME NEW p \in Page, RecoverCid(p) PROVE AuthoringInv'
  BY <1>7, RecoverCidKeeps
<1>8. ASSUME NEW p \in Page, SettleErrand(p) PROVE AuthoringInv'
  BY <1>8, SettleErrandKeeps
<1>9. CASE SwitchAccount
  <2>1. signer' \in Account /\ UNCHANGED <<provider, errand, made, rounds>>
    BY <1>9 DEF SwitchAccount
  <2>2. MadeStays
    BY <2>1 DEF MadeStays
  <2> QED
    BY <1>1, <2>1, <2>2, PagesWait
<1>10. ASSUME NEW i \in DOMAIN made, ReleaseMade(i) PROVE AuthoringInv'
  BY <1>10, ReleaseMadeKeeps
<1>11. CASE UNCHANGED AuthoringVars
  <2>1. UNCHANGED <<provider, signer, errand, made, rounds>>
    BY <1>11 DEF AuthoringVars
  <2>2. MadeStays
    BY <2>1 DEF MadeStays
  <2> QED
    BY <1>1, <2>1, <2>2, PagesWait
<1> QED
  BY <1>2, <1>3, <1>4, <1>5, <1>6, <1>7, <1>8, <1>9, <1>10, <1>11, Zenon DEF AuthoringNext

\* Whatever pages, requests, recoveries and lost answers interleave, a page names to
\* the operator one contract for each allocation its request asks for, in order,
\* authored by its owner with the holding chosen for it; and nothing a request asks
\* for is authored twice (SettlesItsOwn), for any number of pages and accounts.
THEOREM NamesWhatItMade == AuthoringSpec => []SettlesItsOwn
<1>1. AuthoringInit => AuthoringInv
  <2> SUFFICES ASSUME AuthoringInit PROVE AuthoringInv
    OBVIOUS
  <2>1. \A p \in Page : errand[p] = NoErrand
    BY DEF AuthoringInit
  <2> QED
    BY <2>1 DEF AuthoringInit, AuthoringInv, AuthoringShape, OneEach, AuthoredOnce
<1>2. AuthoringInv => SettlesItsOwn
  <2> SUFFICES ASSUME AuthoringInv PROVE NamesItsOwn
    BY DEF SettlesItsOwn, AuthoringInv
  <2>1. ASSUME NEW p \in Page, errand[p].step = "signed"
        PROVE  /\ Len(NamedBy(errand[p])) = Len(errand[p].specs)
               /\ \A i \in DOMAIN errand[p].specs :
                    LET m == made[NamedBy(errand[p])[i]]
                    IN /\ m.for = errand[p].round /\ m.slot = i
                       /\ m.by = errand[p].owner /\ m.coin = HoldingFor(errand[p], i)
    <3>1. PICK e : e = errand[p]
      OBVIOUS
    <3>2. Sound(e) /\ e \in ErrandSet /\ e.step = "signed"
      BY <2>1, <3>1 DEF AuthoringInv, NoErrand, Sound
    <3>3. Filled(e, Len(e.specs), NamedBy(e)) /\ DOMAIN e.specs = 1 .. Len(e.specs)
      BY <3>2 DEF Sound, ErrandSet
    <3>4. /\ Len(NamedBy(e)) = Len(e.specs)
          /\ \A i \in DOMAIN e.specs :
               LET m == made[NamedBy(e)[i]]
               IN m.for = e.round /\ m.slot = i /\ m.by = e.owner /\ m.coin = HoldingFor(e, i)
      BY <3>3 DEF Filled, Fits
    <3> QED
      BY <3>1, <3>4
  <2> QED
    BY <2>1 DEF NamesItsOwn
<1> QED
  BY <1>1, <1>2, AuthoringKept, PTL DEF AuthoringSpec

-----------------------------------------------------------------------------
(***************************************************************************)
(* The connection between page and wallet.  A user who has not been hasty  *)
(* is in one of four situations: away, connecting, connected, or leaving;  *)
(* in each of them at most one call is between two awaits.                 *)
(***************************************************************************)
Statuses   == {"off", "busy", "on", "failed"}
AccountSet == ({"none"} \cup Reached) \X (0 .. 2)
AdapterSet == [status : Statuses, account : AccountSet]
LinkCalls  == [step : {"none", "linking", "reading", "done"}, to : {"none", "sdk", "single"}]
CloseCalls == [step : {"none", "leaving", "tearing", "done"}, to : {"none", "sdk", "single"}]

LinkShape ==
  /\ store \in [active : {"none", "sdk", "single"}, status : Statuses, account : AccountSet]
  /\ listener \in {"none", "sdk", "single"}
  /\ adapter \in [Provider -> AdapterSet]
  /\ wired \in [kept : BOOLEAN, called : BOOLEAN]
  /\ linked \in {"none"} \cup Reached
  /\ main_ \in [Reached -> {1, 2}] /\ there \subseteq Reached
  /\ linking \in [1 .. MaxLinks -> LinkCalls]
  /\ closing \in [1 .. MaxUnlinks -> CloseCalls]
  /\ adapter["single"].status = "on" => adapter["single"].account[1] = "loop"

\* However hasty the user: the provider that is listened to is the active one, if there is
\* one, and none is active when a connection is offered.
Offerable ==
  /\ listener # "none" => store.active \in {listener, "none"}
  /\ Offered => store.active = "none"

Wired == wired.kept => wired.called

AwayFrom ==
  /\ Under(linking) = {} /\ Under(closing) = {} /\ Wired
  /\ store.active = "none" /\ store.status \in {"off", "failed"} /\ store.account = Nobody
  /\ listener = "none"

Connecting ==
  /\ Under(closing) = {} /\ Wired
  /\ \E i \in 1 .. MaxLinks :
       /\ Under(linking) = {i} /\ linking[i].to = store.active
       /\ linking[i].step = "linking" /\ store.active = "sdk" => pending = picked
       /\ linking[i].step = "reading" =>
            store.active = "sdk" /\ wired.kept /\ linked \in {"none", picked}
  /\ store.active \in Provider /\ store.status = "busy" /\ store.account = Nobody
  /\ listener = store.active /\ adapter[store.active].status = "busy"
  /\ picked \in Reached /\ ProviderOf(picked) = store.active

Connected ==
  /\ Under(linking) = {} /\ Under(closing) = {} /\ Wired
  /\ store.active \in Provider /\ store.status = "on" /\ store.account[1] = picked
  /\ listener = store.active
  /\ adapter[store.active].status = "on" /\ adapter[store.active].account = store.account
  /\ store.active = "sdk" => wired.kept /\ linked \in {"none", picked}

Leaving ==
  /\ Under(linking) = {} /\ store.status = "on" /\ listener = "none"
  /\ \E i \in 1 .. MaxUnlinks :
       /\ Under(closing) = {i}
       /\ Wired \/ closing[i].step = "tearing"

LinkInv ==
  /\ LinkShape /\ Offerable
  /\ hasty \in BOOLEAN
  /\ hasty \/ AwayFrom \/ Connecting \/ Connected \/ Leaving

LEMMA LinkNames ==
  /\ Nobody \in AccountSet /\ Nobody # <<"loop", 1>> /\ Off \in AdapterSet
  /\ NoCall \in LinkCalls /\ NoCall \in CloseCalls /\ NoCall.step = "none" /\ NoCall.to = "none"
  /\ \A w \in Reached, n \in {1, 2} :
       /\ <<w, n>> \in AccountSet /\ <<w, n>> # Nobody /\ <<w, n>>[1] = w
       /\ w # "none" /\ ProviderOf(w) \in Provider
  /\ ProviderOf("loop") = "single" /\ \A w \in Reached : ProviderOf(w) = "single" => w = "loop"
BY DEF Nobody, AccountSet, Off, AdapterSet, NoCall, LinkCalls, CloseCalls, Reached, ProviderOf,
       Provider, Statuses

LEMMA UnderMoves ==
  ASSUME NEW n, NEW calls_, DOMAIN calls_ = n, NEW i \in n, NEW c
  PROVE  Under([calls_ EXCEPT ![i] = c])
           = IF c.step \in {"none", "done"} THEN Under(calls_) \ {i} ELSE Under(calls_) \cup {i}
BY DEF Under

LEMMA LinkShapeStarts == LinkInit => LinkInv
<1> SUFFICES ASSUME LinkInit PROVE LinkInv
  OBVIOUS
<1>1. PICK s \in {Off, [status |-> "on", account |-> <<"loop", 1>>]} :
        adapter = [sdk |-> Off, single |-> s]
  BY DEF LinkInit
<1>2. s \in AdapterSet /\ (s.status = "on" => s.account = <<"loop", 1>>)
  BY DEF Off, AdapterSet, Statuses, AccountSet, Reached, Nobody
<1>3. adapter \in [Provider -> AdapterSet] /\ adapter["single"] = s
  BY <1>1, <1>2, LinkNames DEF Provider
<1>4. linking \in [1 .. MaxLinks -> LinkCalls] /\ closing \in [1 .. MaxUnlinks -> CloseCalls]
  BY LinkNames DEF LinkInit
<1>5. LinkShape
  BY <1>2, <1>3, <1>4, LinkNames DEF LinkInit, LinkShape, Statuses, Reached
<1>6. Under(linking) = {} /\ Under(closing) = {}
  BY LinkNames DEF LinkInit, Under
<1> QED
  BY <1>5, <1>6 DEF LinkInit, LinkInv, Offerable, Offered, AwayFrom, Wired

\* The page and the calls rest; wallets come, go or drop the session.
LEMMA LinkRests ==
  ASSUME LinkInv, LinkShape', linked' \in {linked, "none"},
         UNCHANGED <<store, listener, adapter, wired, pending, picked, linking, closing, hasty>>
  PROVE  LinkInv'
<1>1. Under(linking)' = Under(linking) /\ Under(closing)' = Under(closing)
  BY DEF Under
<1>2. AwayFrom => AwayFrom'
  BY <1>1 DEF AwayFrom, Wired
<1>3. Connecting => Connecting'
  BY <1>1 DEF Connecting, Wired
<1>4. Connected => Connected'
  BY <1>1 DEF Connected, Wired
<1>5. Leaving => Leaving'
  BY <1>1 DEF Leaving, Wired
<1> QED
  BY <1>2, <1>3, <1>4, <1>5 DEF LinkInv, Offerable, Offered

\* A connection is begun, or a relay that remembers one is asked.
LEMMA ChooseRowKeeps ==
  ASSUME LinkInv, NEW w \in Reached, ChooseRow(w) PROVE LinkInv'
<1>0. PICK p : p = ProviderOf(w)
  OBVIOUS
<1>1. PICK i \in NextCall(linking) :
        /\ IF p = "single" /\ adapter[p].status = "on"
           THEN /\ store' = [active |-> p, status |-> "on", account |-> adapter[p].account]
                /\ linking' = [linking EXCEPT ![i].step = "done"]
                /\ UNCHANGED <<adapter, pending>>
           ELSE /\ store' = [active |-> p, status |-> "busy", account |-> Nobody]
                /\ adapter' = [adapter EXCEPT ![p] = [status |-> "busy", account |-> Nobody]]
                /\ pending' = IF p = "sdk" THEN w ELSE pending
                /\ linking' = [linking EXCEPT ![i] = [step |-> "linking", to |-> p]]
  BY <1>0 DEF ChooseRow
<1>2. /\ Offered /\ picked' = w /\ listener' = p
      /\ UNCHANGED <<wired, linked, main_, there, closing, hasty>>
  BY <1>0 DEF ChooseRow
<1>3. /\ LinkShape /\ p \in Provider /\ i \in 1 .. MaxLinks
      /\ linking \in [1 .. MaxLinks -> LinkCalls] /\ adapter \in [Provider -> AdapterSet]
  BY <1>0, <1>1, LinkNames DEF LinkInv, LinkShape, NextCall
<1>4. CASE p = "single" /\ adapter[p].status = "on"
  <2>1. /\ store' = [active |-> p, status |-> "on", account |-> adapter[p].account]
        /\ linking' = [linking EXCEPT ![i] = [linking[i] EXCEPT !.step = "done"]]
        /\ UNCHANGED <<adapter, pending>>
    BY <1>1, <1>4
  <2>2. /\ [linking[i] EXCEPT !.step = "done"] \in LinkCalls
        /\ [linking[i] EXCEPT !.step = "done"].step = "done"
    BY <1>3 DEF LinkCalls
  <2>3. LinkShape'
    BY <1>2, <1>3, <1>4, <2>1, <2>2 DEF LinkShape, Provider, AdapterSet, Statuses
  <2>4. Offerable'
    BY <1>2, <1>4, <2>1 DEF Offerable, Offered
  <2>5. ASSUME ~hasty PROVE Connected'
    <3>1. AwayFrom
      BY <1>2, <2>5 DEF LinkInv, AwayFrom, Connecting, Connected, Leaving, Offered
    <3>2. Under(linking)' = {} /\ Under(closing)' = {}
      BY <1>2, <1>3, <2>1, <2>2, <3>1, UnderMoves DEF AwayFrom, Under
    <3>3. adapter[p].account[1] = w
      BY <1>0, <1>3, <1>4, LinkNames DEF LinkShape
    <3> QED
      BY <1>2, <1>3, <1>4, <2>1, <3>1, <3>2, <3>3 DEF Connected, AwayFrom, Wired
  <2> QED
    BY <1>2, <2>3, <2>4, <2>5 DEF LinkInv
<1>5. CASE ~(p = "single" /\ adapter[p].status = "on")
  <2>1. /\ store' = [active |-> p, status |-> "busy", account |-> Nobody]
        /\ adapter' = [adapter EXCEPT ![p] = [status |-> "busy", account |-> Nobody]]
        /\ pending' = IF p = "sdk" THEN w ELSE pending
        /\ linking' = [linking EXCEPT ![i] = [step |-> "linking", to |-> p]]
    BY <1>1, <1>5
  <2>2. /\ [step |-> "linking", to |-> p] \in LinkCalls
        /\ [status |-> "busy", account |-> Nobody] \in AdapterSet
    BY <1>3, LinkNames DEF LinkCalls, Provider, AdapterSet, Statuses
  <2>3. /\ adapter' \in [Provider -> AdapterSet] /\ linking' \in [1 .. MaxLinks -> LinkCalls]
        /\ adapter'[p].status = "busy" /\ linking'[i] = [step |-> "linking", to |-> p]
        /\ \A q \in Provider \ {p} : adapter'[q] = adapter[q]
    BY <1>3, <2>1, <2>2
  <2>4. LinkShape'
    BY <1>2, <1>3, <2>1, <2>3, LinkNames DEF LinkShape, Provider, Statuses
  <2>5. Offerable'
    BY <1>2, <2>1 DEF Offerable, Offered
  <2>6. ASSUME ~hasty PROVE Connecting'
    <3>1. AwayFrom
      BY <1>2, <2>6 DEF LinkInv, AwayFrom, Connecting, Connected, Leaving, Offered
    <3>2. Under(linking)' = {i} /\ Under(closing)' = {}
      BY <1>2, <1>3, <2>1, <3>1, UnderMoves DEF AwayFrom, Under
    <3> QED
      BY <1>0, <1>2, <1>3, <2>1, <2>3, <3>1, <3>2 DEF Connecting, AwayFrom, Wired
  <2> QED
    BY <1>2, <2>4, <2>5, <2>6 DEF LinkInv
<1> QED
  BY <1>4, <1>5

LEMMA ClickDisconnectKeeps == ASSUME LinkInv, ClickDisconnect PROVE LinkInv'
<1>1. PICK i \in NextCall(closing) :
        closing' = [closing EXCEPT ![i] =
          [step |-> IF store.active = "none" THEN "done" ELSE "leaving", to |-> store.active]]
  BY DEF ClickDisconnect
<1>2. /\ store.status = "on" /\ hasty' = (hasty \/ Under(closing) # {}) /\ listener' = "none"
      /\ UNCHANGED <<store, adapter, wired, pending, linked, main_, there, picked, linking>>
  BY DEF ClickDisconnect
<1>3. /\ LinkShape /\ i \in 1 .. MaxUnlinks /\ closing \in [1 .. MaxUnlinks -> CloseCalls]
      /\ store.active \in {"none", "sdk", "single"} /\ hasty \in BOOLEAN
  BY <1>1 DEF LinkInv, LinkShape, NextCall
<1>4. PICK c \in CloseCalls :
        /\ c = [step |-> IF store.active = "none" THEN "done" ELSE "leaving", to |-> store.active]
        /\ closing' = [closing EXCEPT ![i] = c]
  BY <1>1, <1>3 DEF CloseCalls
<1>5. closing' \in [1 .. MaxUnlinks -> CloseCalls]
  BY <1>3, <1>4
<1>6. LinkShape' /\ Offerable'
  BY <1>2, <1>3, <1>5 DEF LinkShape, Offerable, Offered
<1>7. ASSUME ~hasty' PROVE Leaving'
  <2>1. ~hasty /\ Under(closing) = {}
    BY <1>2, <1>3, <1>7
  <2>2. Connected
    BY <1>2, <2>1 DEF LinkInv, AwayFrom, Connecting, Leaving
  <2>3. c.step = "leaving"
    BY <1>4, <2>2 DEF Connected, Provider
  <2>4. Under(closing)' = {i} /\ Under(linking)' = {}
    BY <1>2, <1>3, <1>4, <2>1, <2>2, <2>3, UnderMoves DEF Connected, Under
  <2> QED
    BY <1>2, <1>3, <2>2, <2>4 DEF Leaving, Connected, Wired
<1>8. hasty' \in BOOLEAN
  BY <1>2, <1>3
<1> QED
  BY <1>6, <1>7, <1>8 DEF LinkInv

\* A connection fails.
LEMMA FailsKeeps ==
  ASSUME LinkInv, NEW i \in 1 .. MaxLinks, NEW p \in Provider,
         linking[i].step \in {"linking", "reading"}, linking[i].to = p, Fails(i, p),
         UNCHANGED <<wired, linked, main_, there, picked, closing, hasty>>
  PROVE  LinkInv'
<1>1. /\ LinkShape /\ linking \in [1 .. MaxLinks -> LinkCalls] /\ adapter \in [Provider -> AdapterSet]
      /\ store \in [active : {"none", "sdk", "single"}, status : Statuses, account : AccountSet]
      /\ i \in Under(linking)
  BY DEF LinkInv, LinkShape, Under
<1>2. PICK c \in LinkCalls : c.step = "done" /\ linking' = [linking EXCEPT ![i] = c]
  <2>1. [linking[i] EXCEPT !.step = "done"] \in LinkCalls
    BY <1>1 DEF LinkCalls
  <2>2. [linking[i] EXCEPT !.step = "done"].step = "done"
    BY <1>1 DEF LinkCalls
  <2> QED
    BY <2>1, <2>2 DEF Fails
<1>3. /\ [status |-> "failed", account |-> Nobody] \in AdapterSet
      /\ adapter' = [adapter EXCEPT ![p] = [status |-> "failed", account |-> Nobody]]
      /\ listener' = "none"
  BY LinkNames DEF AdapterSet, Statuses, Fails
<1>4. /\ store' \in [active : {"none", "sdk", "single"}, status : Statuses, account : AccountSet]
      /\ store'.active = "none"
      /\ listener = p => store'.status = "failed" /\ store'.account = Nobody
  <2>1. PICK s : s = IF listener = p THEN OnStatus(store, p, "failed", Nobody) ELSE store
    OBVIOUS
  <2>2. /\ s \in [active : {"none", "sdk", "single"}, status : Statuses, account : AccountSet]
        /\ listener = p => s.status = "failed" /\ s.account = Nobody
    BY <1>1, <2>1, LinkNames DEF OnStatus, Statuses
  <2>3. store' = [s EXCEPT !.active = "none"]
    BY <2>1 DEF Fails
  <2> QED
    BY <2>2, <2>3
<1>5. /\ adapter' \in [Provider -> AdapterSet] /\ linking' \in [1 .. MaxLinks -> LinkCalls]
      /\ adapter'["single"].status = "on" => adapter'["single"] = adapter["single"]
  BY <1>1, <1>2, <1>3 DEF Provider
<1>6. LinkShape' /\ Offerable'
  BY <1>1, <1>3, <1>4, <1>5 DEF LinkShape, Offerable, Offered
<1>7. ASSUME ~hasty' PROVE AwayFrom'
  <2>1. Connecting
    BY <1>1, <1>7 DEF LinkInv, AwayFrom, Connected, Leaving
  <2>2. Under(linking) = {i} /\ listener = p
    BY <1>1, <2>1 DEF Connecting
  <2>3. Under(linking)' = {} /\ Under(closing)' = {}
    BY <1>1, <1>2, <2>1, <2>2, UnderMoves DEF Connecting, Under
  <2> QED
    BY <1>3, <1>4, <2>1, <2>2, <2>3 DEF AwayFrom, Connecting, Wired
<1> QED
  BY <1>6, <1>7 DEF LinkInv

\* A connection succeeds.
LEMMA ConnectsKeeps ==
  ASSUME LinkInv, NEW i \in 1 .. MaxLinks, NEW p \in Provider, NEW w \in Reached, NEW a,
         a = <<w, main_[w]>>, Connects(i, p, a),
         \/ linking[i] = [step |-> "linking", to |-> "single"] /\ p = "single" /\ w = "loop"
         \/ linking[i].step = "reading" /\ p = "sdk" /\ w = linked,
         UNCHANGED <<wired, linked, main_, there, picked, closing, hasty>>
  PROVE  LinkInv'
<1>1. /\ LinkShape /\ linking \in [1 .. MaxLinks -> LinkCalls] /\ adapter \in [Provider -> AdapterSet]
      /\ store \in [active : {"none", "sdk", "single"}, status : Statuses, account : AccountSet]
      /\ i \in Under(linking) /\ main_[w] \in {1, 2}
  BY DEF LinkInv, LinkShape, Under
<1>10. a \in AccountSet /\ a[1] = w
  BY <1>1, LinkNames
<1>2. PICK c \in LinkCalls : c.step = "done" /\ linking' = [linking EXCEPT ![i] = c]
  <2>1. [linking[i] EXCEPT !.step = "done"] \in LinkCalls
    BY <1>1 DEF LinkCalls
  <2>2. [linking[i] EXCEPT !.step = "done"].step = "done"
    BY <1>1 DEF LinkCalls
  <2> QED
    BY <2>1, <2>2 DEF Connects
<1>3. /\ [status |-> "on", account |-> a] \in AdapterSet
      /\ adapter' = [adapter EXCEPT ![p] = [status |-> "on", account |-> a]]
      /\ listener' = listener
  BY <1>10 DEF AdapterSet, Statuses, Connects
<1>4. /\ store' \in [active : {"none", "sdk", "single"}, status : Statuses, account : AccountSet]
      /\ store'.active = store.active /\ store'.status = "on" /\ store'.account = a
  <2>1. PICK s : s = [store EXCEPT !.status = "on"]
    OBVIOUS
  <2>2. /\ s \in [active : {"none", "sdk", "single"}, status : Statuses, account : AccountSet]
        /\ s.active = store.active /\ s.status = "on"
    BY <1>1, <2>1 DEF Statuses
  <2>3. store' = [s EXCEPT !.account = a]
    BY <2>1 DEF Connects
  <2> QED
    BY <1>10, <2>2, <2>3
<1>5. /\ adapter' \in [Provider -> AdapterSet] /\ linking' \in [1 .. MaxLinks -> LinkCalls]
      /\ adapter'[p].status = "on" /\ adapter'[p].account = a
      /\ p # "single" => adapter'["single"] = adapter["single"]
  BY <1>1, <1>2, <1>3 DEF Provider
<1>6. ASSUME ~hasty PROVE Connecting /\ p = store.active /\ w = picked
  <2>1. Connecting
    BY <1>1, <1>6 DEF LinkInv, AwayFrom, Connected, Leaving
  <2>2. /\ linking[i].to = store.active
        /\ linking[i].step = "reading" => store.active = "sdk" /\ linked \in {"none", picked}
    BY <1>1, <2>1 DEF Connecting
  <2>3. p = store.active /\ picked \in Reached /\ ProviderOf(picked) = p
    BY <2>1, <2>2 DEF Connecting
  <2> QED
    BY <2>1, <2>2, <2>3, LinkNames
<1>7. p = "single" => a[1] = "loop"
  BY <1>10
<1>8. LinkShape' /\ Offerable'
  BY <1>1, <1>3, <1>4, <1>5, <1>7 DEF LinkShape, Offerable, Offered, LinkInv, Provider
<1>9. ASSUME ~hasty' PROVE Connected'
  <2>1. Connecting /\ p = store.active /\ w = picked
    BY <1>6, <1>9
  <2>2. Under(linking) = {i}
    BY <1>1, <2>1 DEF Connecting
  <2>3. Under(linking)' = {} /\ Under(closing)' = {}
    BY <1>1, <1>2, <2>1, <2>2, UnderMoves DEF Connecting, Under
  <2>4. p = "sdk" => wired.kept /\ linked \in {"none", picked}
    BY <2>1, <2>2 DEF Connecting
  <2> QED
    BY <1>10, <1>3, <1>4, <1>5, <2>1, <2>3, <2>4 DEF Connected, Connecting, Wired
<1> QED
  BY <1>8, <1>9 DEF LinkInv

\* A provider has been left.
LEMMA LeftKeeps ==
  ASSUME LinkInv, NEW i \in 1 .. MaxUnlinks, NEW p \in Provider,
         closing[i].step \in {"leaving", "tearing"}, Left(i, p),
         wired' \in [kept : BOOLEAN, called : BOOLEAN], wired' = wired \/ ~wired'.kept,
         closing[i].step = "tearing" => ~wired'.kept,
         main_' = main_, there' = there, linked' \in {linked, "none"},
         UNCHANGED <<picked, linking, hasty>>
  PROVE  LinkInv'
<1>1. /\ LinkShape /\ closing \in [1 .. MaxUnlinks -> CloseCalls] /\ adapter \in [Provider -> AdapterSet]
      /\ i \in Under(closing) /\ Off \in AdapterSet /\ Off.status = "off"
  BY LinkNames DEF LinkInv, LinkShape, Under, Off
<1>2. PICK c \in CloseCalls : c.step = "done" /\ closing' = [closing EXCEPT ![i] = c]
  <2>1. [closing[i] EXCEPT !.step = "done"] \in CloseCalls
    BY <1>1 DEF CloseCalls
  <2>2. [closing[i] EXCEPT !.step = "done"].step = "done"
    BY <1>1 DEF CloseCalls
  <2> QED
    BY <2>1, <2>2 DEF Left
<1>3. /\ adapter' \in [Provider -> AdapterSet] /\ closing' \in [1 .. MaxUnlinks -> CloseCalls]
      /\ adapter'["single"].status = "on" => adapter'["single"] = adapter["single"]
      /\ listener' = IF listener = p THEN "none" ELSE listener
      /\ store' = [active |-> "none", status |-> "off", account |-> Nobody]
  BY <1>1, <1>2 DEF Provider, Left
<1>4. LinkShape' /\ Offerable'
  BY <1>1, <1>3, LinkNames DEF LinkShape, Offerable, Offered, Statuses
<1>5. ASSUME ~hasty' PROVE AwayFrom'
  <2>1. Leaving
    BY <1>1, <1>5 DEF LinkInv, AwayFrom, Connecting, Connected
  <2>2. Under(closing) = {i} /\ listener = "none" /\ (Wired \/ closing[i].step = "tearing")
    BY <1>1, <2>1 DEF Leaving
  <2>3. Under(linking)' = {} /\ Under(closing)' = {}
    BY <1>1, <1>2, <2>1, <2>2, UnderMoves DEF Leaving, Under
  <2> QED
    BY <1>1, <1>3, <2>2, <2>3 DEF AwayFrom, Wired
<1> QED
  BY <1>4, <1>5 DEF LinkInv

LEMMA SdkLeavesKeeps ==
  ASSUME LinkInv, NEW i \in 1 .. MaxUnlinks, SdkLeaves(i) PROVE LinkInv'
<1>1. /\ LinkShape /\ closing \in [1 .. MaxUnlinks -> CloseCalls]
      /\ wired \in [kept : BOOLEAN, called : BOOLEAN]
      /\ closing[i].step = "leaving" /\ i \in Under(closing)
      /\ UNCHANGED <<store, listener, adapter, pending, main_, there, picked, linking, hasty>>
      /\ linked' \in {linked, "none"}
  BY DEF LinkInv, LinkShape, Under, SdkLeaves
<1>2. PICK c \in CloseCalls : c.step = "tearing" /\ closing' = [closing EXCEPT ![i] = c]
  <2>1. [closing[i] EXCEPT !.step = "tearing"] \in CloseCalls
    BY <1>1 DEF CloseCalls
  <2>2. [closing[i] EXCEPT !.step = "tearing"].step = "tearing"
    BY <1>1 DEF CloseCalls
  <2> QED
    BY <2>1, <2>2 DEF SdkLeaves
<1>3. closing' \in [1 .. MaxUnlinks -> CloseCalls] /\ closing'[i].step = "tearing"
  BY <1>1, <1>2
<1>4. wired' \in [kept : BOOLEAN, called : BOOLEAN]
  BY <1>1 DEF SdkLeaves
<1>5. LinkShape' /\ Offerable'
  BY <1>1, <1>3, <1>4 DEF LinkInv, LinkShape, Offerable, Offered
<1>6. ASSUME ~hasty' PROVE Leaving'
  <2>1. Leaving
    BY <1>1, <1>6 DEF LinkInv, AwayFrom, Connecting, Connected
  <2>2. Under(closing) = {i}
    BY <1>1, <2>1 DEF Leaving
  <2>3. Under(linking)' = {} /\ Under(closing)' = {i}
    BY <1>1, <1>2, <2>1, <2>2, UnderMoves DEF Leaving, Under
  <2> QED
    BY <1>1, <1>3, <2>1, <2>3 DEF Leaving
<1> QED
  BY <1>1, <1>5, <1>6 DEF LinkInv

LEMMA SdkConnectsKeeps ==
  ASSUME LinkInv, NEW i \in 1 .. MaxLinks, SdkConnects(i) PROVE LinkInv'
<1>1. /\ LinkShape /\ linking \in [1 .. MaxLinks -> LinkCalls]
      /\ wired \in [kept : BOOLEAN, called : BOOLEAN]
      /\ linking[i] = [step |-> "linking", to |-> "sdk"] /\ i \in Under(linking)
      /\ UNCHANGED <<store, listener, adapter, pending, main_, there, picked, closing, hasty>>
      /\ wired' = IF wired.kept THEN wired ELSE [kept |-> TRUE, called |-> TRUE]
      /\ linked' \in PickWallet(pending)
  BY DEF LinkInv, LinkShape, Under, SdkConnects
<1>2. PICK c \in LinkCalls : /\ c.step = "reading" /\ c.to = "sdk"
                             /\ linking' = [linking EXCEPT ![i] = c]
  <2>1. [linking[i] EXCEPT !.step = "reading"] = [step |-> "reading", to |-> "sdk"]
    BY <1>1
  <2>2. [step |-> "reading", to |-> "sdk"] \in LinkCalls
    BY DEF LinkCalls
  <2> QED
    BY <2>1, <2>2 DEF SdkConnects
<1>3. /\ linking' \in [1 .. MaxLinks -> LinkCalls]
      /\ linking'[i].step = "reading" /\ linking'[i].to = "sdk"
  BY <1>1, <1>2
<1>4. wired' \in [kept : BOOLEAN, called : BOOLEAN] /\ wired'.kept /\ (Wired => Wired')
  BY <1>1 DEF Wired
<1>5. linked' \in Reached
  BY <1>1 DEF LinkShape, SdkConnects
<1>6. LinkShape' /\ Offerable'
  BY <1>1, <1>3, <1>4, <1>5 DEF LinkInv, LinkShape, Offerable, Offered
<1>7. ASSUME ~hasty' PROVE Connecting'
  <2>1. Connecting
    BY <1>1, <1>7 DEF LinkInv, AwayFrom, Connected, Leaving
  <2>2. Under(linking) = {i} /\ store.active = "sdk" /\ pending = picked /\ picked \in Reached
    BY <1>1, <2>1 DEF Connecting
  <2>3. Under(linking)' = {i} /\ Under(closing)' = {}
    BY <1>1, <1>2, <2>1, <2>2, UnderMoves DEF Connecting, Under
  <2>4. linked' = picked
    BY <1>1, <2>2 DEF PickWallet, Reached
  <2> QED
    BY <1>1, <1>3, <1>4, <2>1, <2>2, <2>3, <2>4 DEF Connecting
<1> QED
  BY <1>1, <1>6, <1>7 DEF LinkInv

\* Whoever listens to the client is told.
LEMMA SetsKeeps ==
  ASSUME LinkInv, Told, NEW st \in {"on", "off"}, NEW a \in AccountSet, Sets("sdk", st, a),
         st = "on" => a[1] = linked /\ linked \in Reached,
         linked' \in {linked, "none"}, main_' \in [Reached -> {1, 2}],
         UNCHANGED <<wired, pending, there, picked, linking, closing, hasty>>
  PROVE  LinkInv'
<1>1. /\ LinkShape /\ adapter \in [Provider -> AdapterSet]
      /\ adapter["sdk"].status = "on" /\ wired.kept
      /\ store \in [active : {"none", "sdk", "single"}, status : Statuses, account : AccountSet]
      /\ linking \in [1 .. MaxLinks -> LinkCalls] /\ closing \in [1 .. MaxUnlinks -> CloseCalls]
  BY DEF LinkInv, LinkShape, Told
<1>2. PICK b \in AccountSet : /\ b = IF st = "on" THEN a ELSE Nobody
                             /\ adapter' = [adapter EXCEPT !["sdk"] = [status |-> st, account |-> b]]
  BY LinkNames DEF Sets
<1>3. /\ adapter' \in [Provider -> AdapterSet] /\ adapter'["single"] = adapter["single"]
      /\ adapter'["sdk"].status = st /\ adapter'["sdk"].account = b
  <2>1. [status |-> st, account |-> b] \in AdapterSet
    BY DEF AdapterSet, Statuses
  <2> QED
    BY <1>1, <1>2, <2>1 DEF Provider
<1>4. CASE listener = "sdk"
  <2>1. /\ store' = OnStatus(store, "sdk", st, a)
        /\ listener' = IF st = "off" THEN "none" ELSE listener
    BY <1>4 DEF Sets
  <2>2. /\ store' \in [active : {"none", "sdk", "single"}, status : Statuses, account : AccountSet]
        /\ store'.status = st /\ store'.account = b
        /\ store'.active = IF st = "off" /\ store.active = "sdk" THEN "none" ELSE store.active
    BY <1>1, <1>2, <2>1, LinkNames DEF OnStatus, Statuses
  <2>3. LinkShape' /\ Offerable'
    BY <1>1, <1>3, <1>4, <2>1, <2>2 DEF LinkInv, LinkShape, Offerable, Offered
  <2>4. ASSUME ~hasty' PROVE AwayFrom' \/ Connected'
    <3>1. Connected /\ store.active = "sdk"
      BY <1>1, <1>4, <2>4 DEF LinkInv, AwayFrom, Connecting, Connected, Leaving
    <3>2. Under(linking)' = {} /\ Under(closing)' = {} /\ Wired'
      BY <1>1, <3>1 DEF Connected, Under, Wired
    <3>3. CASE st = "off"
      BY <1>2, <2>1, <2>2, <3>1, <3>2, <3>3 DEF AwayFrom
    <3>4. CASE st = "on"
      <4>1. linked = picked /\ linked \in Reached /\ b = a
        BY <1>2, <3>1, <3>4, LinkNames DEF Connected
      <4> QED
        BY <1>2, <1>3, <2>1, <2>2, <3>1, <3>2, <3>4, <4>1 DEF Connected, Provider
    <3> QED
      BY <3>3, <3>4
  <2> QED
    BY <2>3, <2>4 DEF LinkInv
<1>5. CASE listener # "sdk"
  <2>1. UNCHANGED <<store, listener>>
    BY <1>5 DEF Sets
  <2>2. LinkShape' /\ Offerable'
    BY <1>1, <1>3, <2>1 DEF LinkInv, LinkShape, Offerable, Offered
  <2>3. Under(linking)' = Under(linking) /\ Under(closing)' = Under(closing) /\ (Wired => Wired')
    BY <1>1 DEF Under, Wired
  <2>4. AwayFrom => AwayFrom'
    BY <2>1, <2>3 DEF AwayFrom
  <2>5. Leaving => Leaving'
    BY <2>1, <2>3 DEF Leaving
  <2>6. Connecting => Connecting'
    <3> SUFFICES ASSUME Connecting PROVE Connecting'
      OBVIOUS
    <3>1. store.active = "single"
      BY <1>5 DEF Connecting, Provider
    <3> QED
      BY <1>3, <2>1, <2>3, <3>1 DEF Connecting
  <2>7. Connected => Connected'
    <3> SUFFICES ASSUME Connected PROVE Connected'
      OBVIOUS
    <3>1. store.active = "single"
      BY <1>5 DEF Connected, Provider
    <3> QED
      BY <1>3, <2>1, <2>3, <3>1 DEF Connected
  <2> QED
    BY <2>2, <2>4, <2>5, <2>6, <2>7 DEF LinkInv
<1> QED
  BY <1>4, <1>5

LEMMA LinkKept == LinkInv /\ [LinkNext]_LinkVars => LinkInv'
<1> SUFFICES ASSUME LinkInv, [LinkNext]_LinkVars PROVE LinkInv'
  OBVIOUS
<1>1. /\ LinkShape /\ wired \in [kept : BOOLEAN, called : BOOLEAN]
      /\ main_ \in [Reached -> {1, 2}] /\ linked \in {"none"} \cup Reached
  BY DEF LinkInv, LinkShape
<1>2. CASE OpenPicker \/ ClosePicker \/ UNCHANGED LinkVars
  BY <1>1, <1>2, LinkRests DEF OpenPicker, ClosePicker, LinkVars, LinkShape
<1>3. ASSUME NEW w \in Reached, ChooseRow(w) PROVE LinkInv'
  BY <1>3, ChooseRowKeeps
<1>4. CASE ClickDisconnect
  BY <1>4, ClickDisconnectKeeps
<1>5. ASSUME NEW i \in 1 .. MaxLinks, SdkFails(i) PROVE LinkInv'
  BY <1>5, FailsKeeps DEF SdkFails, Provider
<1>6. ASSUME NEW i \in 1 .. MaxLinks, SingleFails(i) PROVE LinkInv'
  BY <1>6, FailsKeeps DEF SingleFails, Provider
<1>7. ASSUME NEW i \in 1 .. MaxLinks, SdkConnects(i) PROVE LinkInv'
  BY <1>7, SdkConnectsKeeps
<1>8. ASSUME NEW i \in 1 .. MaxLinks, AccountsRead(i) PROVE LinkInv'
  <2>1. linked \in Reached /\ linking[i].step = "reading"
    BY <1>1, <1>8 DEF AccountsRead
  <2>2. /\ Connects(i, "sdk", <<linked, main_[linked]>>)
        /\ UNCHANGED <<wired, linked, main_, there, picked, closing, hasty>>
    BY <1>8 DEF AccountsRead
  <2> QED
    BY <2>1, <2>2, ConnectsKeeps DEF Provider
<1>9. ASSUME NEW i \in 1 .. MaxLinks, SingleConnects(i) PROVE LinkInv'
  <2>1. /\ Connects(i, "single", <<"loop", main_["loop"]>>)
        /\ linking[i] = [step |-> "linking", to |-> "single"]
        /\ UNCHANGED <<wired, linked, main_, there, picked, closing, hasty>>
    BY <1>9 DEF SingleConnects
  <2> QED
    BY <2>1, ConnectsKeeps DEF Provider, Reached
<1>10. ASSUME NEW i \in 1 .. MaxUnlinks, SdkLeaves(i) PROVE LinkInv'
  BY <1>10, SdkLeavesKeeps
<1>11. ASSUME NEW i \in 1 .. MaxUnlinks, TeardownEvents(i) PROVE LinkInv'
  <2>1. wired' = [kept |-> FALSE, called |-> FALSE]
    BY <1>11 DEF TeardownEvents
  <2> QED
    BY <1>11, <2>1, LeftKeeps DEF TeardownEvents, Provider
<1>12. ASSUME NEW i \in 1 .. MaxUnlinks, SingleLeaves(i) PROVE LinkInv'
  BY <1>1, <1>12, LeftKeeps DEF SingleLeaves, Provider
<1>13. ASSUME NEW w \in Reached, AccountsChange(w) PROVE LinkInv'
  <2>1. main_' = [main_ EXCEPT ![w] = 3 - main_[w]]
    BY <1>13 DEF AccountsChange
  <2>2. main_' \in [Reached -> {1, 2}]
    BY <1>1, <2>1
  <2>3. /\ UNCHANGED <<wired, pending, linked, there, picked, linking, closing, hasty>>
        /\ IF linked = w /\ Told THEN Sets("sdk", "on", <<w, main_'[w]>>)
           ELSE UNCHANGED <<adapter, store, listener>>
    BY <1>13 DEF AccountsChange
  <2>4. CASE linked = w /\ Told
    <3>1. PICK a : a = <<w, main_'[w]>>
      OBVIOUS
    <3>2. Sets("sdk", "on", a) /\ a \in AccountSet /\ a[1] = w
      BY <2>2, <2>3, <2>4, <3>1, LinkNames
    <3> QED
      BY <2>2, <2>3, <2>4, <3>2, SetsKeeps
  <2>5. CASE ~(linked = w /\ Told)
    <3>1. UNCHANGED <<adapter, store, listener>>
      BY <2>3, <2>5
    <3>2. LinkShape'
      BY <1>1, <2>2, <2>3, <3>1 DEF LinkShape
    <3> QED
      BY <2>3, <3>1, <3>2, LinkRests
  <2> QED
    BY <2>4, <2>5
<1>14. ASSUME NEW w \in Reached, ComesOrGoes(w) PROVE LinkInv'
  BY <1>1, <1>14, LinkRests DEF ComesOrGoes, LinkShape
<1>15. CASE SessionDrops
  <2>1. /\ linked' = "none" /\ UNCHANGED <<wired, pending, main_, there, picked, linking, closing, hasty>>
        /\ IF Told THEN Sets("sdk", "off", Nobody) ELSE UNCHANGED <<adapter, store, listener>>
    BY <1>15 DEF SessionDrops
  <2>2. CASE Told
    BY <1>1, <2>1, <2>2, LinkNames, SetsKeeps
  <2>3. CASE ~Told
    <3>1. UNCHANGED <<adapter, store, listener>>
      BY <2>1, <2>3
    <3>2. LinkShape'
      BY <1>1, <2>1, <3>1 DEF LinkShape
    <3> QED
      BY <2>1, <3>1, <3>2, LinkRests
  <2> QED
    BY <2>2, <2>3
<1> QED
  BY <1>2, <1>3, <1>4, <1>5, <1>6, <1>7, <1>8, <1>9, <1>10, <1>11, <1>12, <1>13, <1>14, <1>15,
     Zenon DEF LinkNext

\* No connection is offered on top of another, and to a user who clicks Disconnect once
\* the page shows the account that signs, on a subscription that still tells, however
\* connections, sessions, accounts and wallets come and go (app/web/src/wallet/store.ts).
THEOREM ShowsWhoSigns == LinkSpec => []LinkTrue
<1>1. LinkInv => LinkTrue
  <2> SUFFICES ASSUME LinkInv PROVE LinkTrue
    OBVIOUS
  <2>1. Offered => store.active = "none"
    BY DEF LinkInv, Offerable
  <2>2. /\ LinkShape
        /\ store \in [active : {"none", "sdk", "single"}, status : Statuses, account : AccountSet]
        /\ adapter \in [Provider -> AdapterSet]
    BY DEF LinkInv, LinkShape
  <2>3. CASE AwayFrom
    BY <2>1, <2>3 DEF AwayFrom, LinkTrue, PageAgrees, SignsAsShown
  <2>4. CASE Connecting
    <3>1. Under(linking) # {} /\ store.account = Nobody
      BY <2>4 DEF Connecting
    <3> QED
      BY <2>1, <3>1 DEF LinkTrue, PageAgrees, SignsAsShown, Quiet
  <2>5. CASE Connected
    <3>1. adapter[store.active] = [status |-> "on", account |-> store.account]
      BY <2>2, <2>5 DEF Connected, AdapterSet
    <3> QED
      BY <2>1, <2>5, <3>1 DEF Connected, LinkTrue, PageAgrees, SignsAsShown, Wired, Provider
  <2>6. CASE Leaving
    <3>1. Under(closing) # {}
      BY <2>6 DEF Leaving
    <3> QED
      BY <2>1, <3>1 DEF LinkTrue, PageAgrees, SignsAsShown, Quiet
  <2>7. CASE hasty
    BY <2>1, <2>7 DEF LinkTrue
  <2> QED
    BY <2>3, <2>4, <2>5, <2>6, <2>7 DEF LinkInv
<1> QED
  BY <1>1, LinkShapeStarts, LinkKept, PTL DEF LinkSpec

-----------------------------------------------------------------------------
(***************************************************************************)
(* The RFQ page.  The requests do not meet: each has an invariant of its   *)
(* own, and shares with the others only whose wallet is connected, and the *)
(* lists.                                                                  *)
(***************************************************************************)
Stages   == {"none", "open", "closed", "accepted"}
Requests == [is : Stages, quotes : Nat, age : {"young", "nearly", "late"}]
Lists    == [is : {"idle"}, quotes : Nat] \cup {Absent}
Rows     == [is : {"idle", "accepting", "accepted"}, quotes : Nat] \cup {Absent}
Snapshot == [Rfq -> Lists]
Polls    == [step : {"idle", "asked", "read"}, saw : Snapshot \cup {Unfetched}]
Nothing  == [r \in Rfq |-> Absent]

RfqShape ==
  /\ rfqAt \in [Rfq -> Requests]
  /\ tradeAt \in [Rfq -> {"none", "live", "settled"}]
  /\ viewer \in Viewer
  /\ fetched \in [Viewer -> Snapshot \cup {Unfetched}]
  /\ poll \in [Viewer -> Polls]
  /\ openTab \in [Rfq -> [Spot -> Rows]]
  /\ acceptedTab \in [Rfq -> Nat]
  /\ badge \in [Rfq -> {"none", "settling", "settled", "failed"}]
  /\ accepts \in [Rfq -> {"no", "barred", "sent", "took", "moving", "done", "failed"}]
  /\ withdraws \in [Rfq -> {"no", "barred", "sent", "took"}]
  /\ creates \in [Rfq -> {"no", "sent", "took"}]
  /\ settles \in [Rfq -> {"no", "sent", "took", "done"}]
  /\ unheard \subseteq Rfq /\ early \subseteq Rfq /\ astray \subseteq Rfq
  /\ aside \subseteq Rfq /\ expiredTab \subseteq Rfq

\* What has been read is a list, and the other wallet's is empty.
Read ==
  /\ \A v \in Viewer : poll[v].step = "read" => poll[v].saw \in Snapshot
  /\ poll["other"].step = "read" => poll["other"].saw = Nothing
  /\ fetched["other"] \in {Nothing, Unfetched}

\* What the ledger, the calls and the tabs say of an accepted request and its trade.
Accepting(r) ==
  /\ creates[r] = "sent" => rfqAt[r].is = "none"
  /\ accepts[r] \in {"took", "moving", "done"} => rfqAt[r].is = "accepted"
  /\ rfqAt[r].is # "accepted" => tradeAt[r] = "none" /\ acceptedTab[r] = 0
  /\ accepts[r] \in {"took", "moving"} => acceptedTab[r] = 0
  /\ acceptedTab[r] \in {0, 1}
  /\ \A i \in Drawn(openTab[r]) : openTab[r][i].is = "accepted" => rfqAt[r].is = "accepted"
  /\ settles[r] = "took" \/ badge[r] = "settled" => tradeAt[r] = "settled"

\* A request that the page has come to know by a list is on the ledger, and a list that
\* does not name it any more was read after it was closed or accepted.
Known(r) ==
  \/ fetched["trader"][r].is = "idle" \/ accepts[r] # "no"
  \/ \E i \in Drawn(openTab[r]) : openTab[r][i].quotes > 0
Misses(r) == poll["trader"].step = "read" /\ poll["trader"].saw[r] = Absent
Brings(r) == poll["trader"].step = "read" /\ poll["trader"].saw[r] # Absent
Onward(r) ==
  /\ Brings(r) => rfqAt[r].is # "none"
  /\ Known(r) => rfqAt[r].is # "none" /\ (Misses(r) => rfqAt[r].is # "open")

\* While a request is being accepted all its rows are under acceptance, and no list that
\* is still to come brings another.
Held(r) ==
  /\ accepts[r] \in {"no", "done"} => Kept(r) = {}
  /\ r \notin astray /\ accepts[r] \notin {"no", "done"} =>
       /\ NotMarked(openTab[r]) = {}
       /\ accepts[r] \in {"sent", "took", "moving"} => viewer = "trader"
       /\ viewer = "trader" /\ Drawn(openTab[r]) = {} =>
            rfqAt[r].is \notin {"none", "open"} /\ ~Brings(r)

\* The page knows of an acceptance, or its answer was lost, or a swap interfered.
Accounted(r) ==
  /\ rfqAt[r].is = "accepted" =>
       \/ r \in unheard \cup astray
       \/ accepts[r] \in {"took", "moving"}
       \/ accepts[r] = "done" /\ Drawn(openTab[r]) = {} /\ ~Brings(r)
  /\ r \in expiredTab =>
       \/ r \in unheard \cup early \cup astray
       \/ rfqAt[r].is # "accepted" /\ rfqAt[r].age = "late"

\* The rows are those of the list, unless something is under way.
Listed(r) ==
  fetched[viewer] # Unfetched /\ r \notin expiredTab \cup aside /\ accepts[r] \in {"no", "done"} =>
    \/ openTab[r] = Listing(fetched[viewer][r])
    \/ accepts[r] = "done" /\ openTab[r] = NoRows

OfRequest(r) == Accepting(r) /\ Onward(r) /\ Held(r) /\ Accounted(r) /\ Listed(r)
RfqInv == RfqShape /\ Read /\ \A r \in Rfq : OfRequest(r)

LEMMA RowFacts ==
  ASSUME NEW rows_ \in [Spot -> Rows]
  PROVE  /\ Drawn(rows_) \subseteq Spot /\ NotMarked(rows_) \subseteq Drawn(rows_)
         /\ \A i \in Spot \ Drawn(rows_) : rows_[i] = Absent
         /\ \A i \in Drawn(rows_) : rows_[i] # Absent /\ rows_[i].quotes \in Nat
         /\ \A i \in Drawn(rows_) : (i \in NotMarked(rows_)) = (rows_[i].is = "idle")
         /\ \A i \in Drawn(rows_) \ NotMarked(rows_) : rows_[i].is \in {"accepting", "accepted"}
BY DEF Drawn, NotMarked, Rows, Absent

LEMMA RowsTurn ==
  ASSUME NEW rows_ \in [Spot -> Rows], NEW is_ \in {"idle", "accepting", "accepted"}
  PROVE  /\ RowsAs(rows_, is_) \in [Spot -> Rows]
         /\ Drawn(RowsAs(rows_, is_)) = Drawn(rows_)
         /\ \A i \in Drawn(rows_) : /\ RowsAs(rows_, is_)[i].is = is_
                                    /\ RowsAs(rows_, is_)[i].quotes = rows_[i].quotes
         /\ NotMarked(RowsAs(rows_, is_)) = IF is_ = "idle" THEN Drawn(rows_) ELSE {}
<1>1. \A i \in Drawn(rows_) : rows_[i] \in [is : {"idle", "accepting", "accepted"}, quotes : Nat]
  BY DEF Drawn, Rows, Absent
<1>2. \A i \in Drawn(rows_) : /\ RowsAs(rows_, is_)[i] = [rows_[i] EXCEPT !.is = is_]
                              /\ RowsAs(rows_, is_)[i].is = is_
                              /\ RowsAs(rows_, is_)[i].quotes = rows_[i].quotes
                              /\ RowsAs(rows_, is_)[i] \in Rows
  BY <1>1 DEF RowsAs, Drawn, Rows
<1>3. \A i \in Spot \ Drawn(rows_) : RowsAs(rows_, is_)[i] = rows_[i] /\ rows_[i] = Absent
  BY RowFacts DEF RowsAs
<1>4. RowsAs(rows_, is_) \in [Spot -> Rows]
  BY <1>2, <1>3 DEF RowsAs, Rows
<1>5. Drawn(RowsAs(rows_, is_)) = Drawn(rows_)
  BY <1>2, <1>3 DEF Drawn, Absent
<1> QED
  BY <1>2, <1>4, <1>5, RowFacts DEF NotMarked

LEMMA RowsLeft ==
  ASSUME NEW rows_ \in [Spot -> Rows]
  PROVE  /\ WithoutIdle(rows_) \in [Spot -> Rows] /\ NotMarked(WithoutIdle(rows_)) = {}
         /\ Drawn(WithoutIdle(rows_)) = Drawn(rows_) \ NotMarked(rows_)
         /\ \A i \in Drawn(WithoutIdle(rows_)) : WithoutIdle(rows_)[i] = rows_[i]
<1>1. \A i \in NotMarked(rows_) : WithoutIdle(rows_)[i] = Absent
  BY DEF WithoutIdle, NotMarked, Drawn
<1>2. \A i \in Spot \ NotMarked(rows_) : WithoutIdle(rows_)[i] = rows_[i]
  BY DEF WithoutIdle
<1>3. WithoutIdle(rows_) \in [Spot -> Rows]
  BY <1>1, <1>2 DEF WithoutIdle, Rows
<1>4. Drawn(WithoutIdle(rows_)) = Drawn(rows_) \ NotMarked(rows_)
  BY <1>1, <1>2 DEF Drawn, Absent, NotMarked
<1> QED
  BY <1>2, <1>3, <1>4 DEF NotMarked, Drawn

LEMMA ListingRows ==
  ASSUME NEW row \in Rows
  PROVE  /\ Listing(row) \in [Spot -> Rows] /\ Listing(row)["listed"] = row
         /\ Drawn(Listing(row)) = IF row = Absent THEN {} ELSE {"listed"}
         /\ NotMarked(Listing(row)) = IF row.is = "idle" THEN {"listed"} ELSE {}
<1>1. Listing(row) \in [Spot -> Rows] /\ Listing(row)["listed"] = row /\ Listing(row)["put"] = Absent
  BY DEF Listing, Rows, Spot
<1>2. row.is = "absent" <=> row = Absent
  BY DEF Rows, Absent
<1> QED
  BY <1>1, <1>2 DEF Drawn, NotMarked, Spot, Absent

LEMMA PutRows ==
  ASSUME NEW rows_ \in [Spot -> Rows]
  PROVE  /\ [rows_ EXCEPT !["put"] = Line(0)] \in [Spot -> Rows]
         /\ Drawn([rows_ EXCEPT !["put"] = Line(0)]) = Drawn(rows_) \cup {"put"}
         /\ NotMarked([rows_ EXCEPT !["put"] = Line(0)]) = NotMarked(rows_) \cup {"put"}
         /\ [rows_ EXCEPT !["put"] = Line(0)]["put"] = Line(0)
         /\ \A i \in Spot \ {"put"} : [rows_ EXCEPT !["put"] = Line(0)][i] = rows_[i]
<1>1. Line(0) \in Rows /\ Line(0).is = "idle"
  BY DEF Line, Rows
<1> QED
  BY <1>1 DEF Drawn, NotMarked, Spot

LEMMA ListNames ==
  /\ Absent \in Lists /\ Absent \in Rows /\ Lists \subseteq Rows /\ Absent.is = "absent"
  /\ \A n \in Nat : Line(n) \in Lists /\ Line(n) # Absent /\ Line(n).quotes = n
  /\ \A l \in Lists : l # Absent => l.is = "idle"
  /\ Nothing \in Snapshot /\ NoRows \in [Spot -> Rows] /\ Drawn(NoRows) = {} /\ NotMarked(NoRows) = {}
  /\ \A r \in Rfq : Unfetched[r].is # "idle" /\ Unfetched[r] # Absent /\ Nothing[r].is # "idle"
<1>1. Absent \in Lists /\ Absent \in Rows /\ Lists \subseteq Rows /\ Absent.is = "absent"
  BY DEF Lists, Rows, Absent
<1>2. \A n \in Nat : Line(n) \in Lists /\ Line(n) # Absent /\ Line(n).quotes = n
  BY DEF Line, Lists, Absent
<1>3. NoRows \in [Spot -> Rows] /\ Drawn(NoRows) = {} /\ NotMarked(NoRows) = {}
  BY <1>1, ListingRows DEF NoRows
<1> QED
  BY <1>1, <1>2, <1>3 DEF Lists, Nothing, Snapshot, Unfetched, Absent

LEMMA RfqStarts == RfqScreenInit => RfqInv
<1> SUFFICES ASSUME RfqScreenInit PROVE RfqInv
  OBVIOUS
<1>1. openTab \in [Rfq -> [Spot -> Rows]] /\ \A r \in Rfq : openTab[r] = NoRows
  BY ListNames DEF RfqScreenInit
<1>2. fetched \in [Viewer -> Snapshot \cup {Unfetched}] /\ \A v \in Viewer : fetched[v] = Unfetched
  BY DEF RfqScreenInit
<1>3. /\ poll \in [Viewer -> Polls]
      /\ \A v \in Viewer : poll[v].step = "idle"
  BY DEF RfqScreenInit, Polls
<1>4. RfqShape
  BY <1>1, <1>2, <1>3 DEF RfqScreenInit, RfqShape, Requests, Stages, Viewer
<1>5. Read
  BY <1>2, <1>3 DEF Read, Viewer
<1>6. ASSUME NEW r \in Rfq PROVE OfRequest(r)
  <2>1. Accepting(r)
    BY <1>1, ListNames DEF RfqScreenInit, Accepting
  <2>2. Onward(r)
    BY <1>1, <1>2, <1>3, ListNames DEF RfqScreenInit, Onward, Known, Brings, Misses, Viewer
  <2>3. Held(r)
    BY <1>1, ListNames DEF RfqScreenInit, Held, Kept
  <2>4. Accounted(r)
    BY DEF RfqScreenInit, Accounted
  <2>5. Listed(r)
    BY <1>2 DEF RfqScreenInit, Listed, Viewer
  <2> QED
    BY <2>1, <2>2, <2>3, <2>4, <2>5 DEF OfRequest
<1> QED
  BY <1>4, <1>5, <1>6 DEF RfqInv

\* A request that a step leaves alone, while a poll may be given up.
PollRests == \A v \in Viewer : poll'[v] = poll[v] \/ poll'[v].step # "read"
Untouched(r) ==
  /\ rfqAt'[r] = rfqAt[r] /\ tradeAt'[r] = tradeAt[r] /\ openTab'[r] = openTab[r]
  /\ acceptedTab'[r] = acceptedTab[r] /\ badge'[r] = badge[r] /\ accepts'[r] = accepts[r]
  /\ creates'[r] = creates[r] /\ settles'[r] = settles[r]
  /\ (r \in unheard') = (r \in unheard) /\ (r \in early') = (r \in early)
  /\ (r \in astray') = (r \in astray) /\ (r \in aside') = (r \in aside)
  /\ (r \in expiredTab') = (r \in expiredTab)

LEMMA UntouchedKeeps ==
  ASSUME NEW r \in Rfq, OfRequest(r), UNCHANGED <<viewer, fetched>>, PollRests, Untouched(r)
  PROVE  OfRequest(r)'
<1>0. "trader" \in Viewer
  BY DEF Viewer
<1>1. Brings(r)' => Brings(r)
  BY <1>0 DEF PollRests, Brings
<1>2. Misses(r)' => Misses(r)
  BY <1>0 DEF PollRests, Misses
<1>3. /\ Kept(r)' = Kept(r)
      /\ Drawn(openTab[r])' = Drawn(openTab[r]) /\ NotMarked(openTab[r])' = NotMarked(openTab[r])
  BY DEF Untouched, Kept, Drawn, NotMarked
<1>4. Known(r)' => Known(r)
  BY <1>3 DEF Untouched, Known
<1>5. Accepting(r)'
  BY <1>3 DEF OfRequest, Accepting, Untouched
<1>6. Onward(r)'
  BY <1>1, <1>2, <1>4 DEF OfRequest, Onward, Untouched
<1>7. Held(r)'
  BY <1>1, <1>3 DEF OfRequest, Held, Untouched
<1>8. Accounted(r)'
  BY <1>1, <1>3 DEF OfRequest, Accounted, Untouched
<1>9. Listed(r)'
  BY DEF OfRequest, Listed, Untouched
<1> QED
  BY <1>5, <1>6, <1>7, <1>8, <1>9 DEF OfRequest

\* A step that is about one request.
LEMMA AboutOne ==
  ASSUME RfqInv, NEW q \in Rfq, UNCHANGED <<viewer, fetched>>, PollRests, RfqShape',
         \A r \in Rfq \ {q} : Untouched(r), OfRequest(q)'
  PROVE  RfqInv'
<1>1. ASSUME NEW r \in Rfq PROVE OfRequest(r)'
  <2>1. CASE r = q
    BY <2>1
  <2>2. CASE r # q
    BY <2>2, UntouchedKeeps DEF RfqInv
  <2> QED
    BY <2>1, <2>2
<1>2. Read'
  BY DEF RfqInv, Read, PollRests, Viewer
<1> QED
  BY <1>1, <1>2 DEF RfqInv

\* A poll that is given up, or asked again.
LEMMA PollGivenUp ==
  ASSUME RfqShape, NEW v \in Viewer, NEW s \in {"idle", "asked"},
         poll' = [poll EXCEPT ![v] = [step |-> s, saw |-> Unfetched]]
  PROVE  /\ PollRests
         /\ poll' \in [Viewer -> Polls]
<1>1. [step |-> s, saw |-> Unfetched] \in Polls
  BY DEF Polls
<1> QED
  BY <1>1 DEF RfqShape, PollRests

LEMMA RfqMoves ==
  ASSUME NEW q \in Requests
  PROVE  /\ \A s \in Stages : [q EXCEPT !.is = s] \in Requests
         /\ \A n \in Nat : [q EXCEPT !.quotes = n] \in Requests
         /\ \A a \in {"young", "nearly", "late"} : [q EXCEPT !.age = a] \in Requests
BY DEF Requests

\* On the ledger.
LEMMA QuotedKeeps ==
  ASSUME RfqInv, NEW r \in Rfq, Quoted(r) PROVE RfqInv'
<1>0. RfqShape /\ OfRequest(r)
  BY DEF RfqInv
<1>1. rfqAt[r] \in Requests
  BY <1>0 DEF RfqShape
<1>2. 0 .. MaxPosted \subseteq Nat
  BY RfqScreenAssumption
<1>3. \A n \in 0 .. MaxPosted : [rfqAt[r] EXCEPT !.quotes = n] \in Requests
  BY <1>1, <1>2, RfqMoves
<1>4. RfqShape'
  BY <1>0, <1>1, <1>2, <1>3 DEF Quoted, OnPage, RfqShape
<1>5. /\ UNCHANGED <<viewer, fetched>> /\ PollRests
      /\ \A p \in Rfq \ {r} : Untouched(p)
  BY <1>0, <1>1, <1>2, <1>3 DEF Quoted, OnPage, RfqShape, PollRests, Untouched
<1>6. Accepting(r)'
  BY <1>0, <1>1, <1>2, <1>3 DEF Quoted, OnPage, RfqShape, OfRequest, Accepting
<1>7. Onward(r)'
  BY <1>0, <1>1, <1>2, <1>3 DEF Quoted, OnPage, RfqShape, OfRequest, Onward, Known, Misses, Brings,
     Accepting
<1>8. Held(r)'
  BY <1>0, <1>1, <1>2, <1>3 DEF Quoted, OnPage, RfqShape, OfRequest, Held, Kept, Brings, Accepting
<1>9. Accounted(r)'
  BY <1>0, <1>1, <1>2, <1>3 DEF Quoted, OnPage, RfqShape, OfRequest, Accounted, Brings, Accepting
<1>10. Listed(r)'
  BY <1>0, <1>1, <1>2, <1>3 DEF Quoted, OnPage, RfqShape, OfRequest, Listed
<1> QED
  BY <1>4, <1>5, <1>6, <1>7, <1>8, <1>9, <1>10, AboutOne DEF OfRequest

LEMMA AgesKeeps ==
  ASSUME RfqInv, NEW r \in Rfq, Ages(r) PROVE RfqInv'
<1>0. RfqShape /\ OfRequest(r)
  BY DEF RfqInv
<1>1. rfqAt[r] \in Requests
  BY <1>0 DEF RfqShape
<1>2. \A a \in {"nearly", "late"} : [rfqAt[r] EXCEPT !.age = a] \in Requests
  BY <1>1, RfqMoves
<1>3. RfqShape'
  BY <1>0, <1>1, <1>2 DEF Ages, OnPage, RfqShape
<1>4. /\ UNCHANGED <<viewer, fetched>> /\ PollRests
      /\ \A p \in Rfq \ {r} : Untouched(p)
  BY <1>0, <1>1, <1>2 DEF Ages, OnPage, RfqShape, PollRests, Untouched
<1>5. Accepting(r)'
  BY <1>0, <1>1, <1>2 DEF Ages, OnPage, RfqShape, OfRequest, Accepting
<1>6. Onward(r)'
  BY <1>0, <1>1, <1>2 DEF Ages, OnPage, RfqShape, OfRequest, Onward, Known, Misses, Brings,
     Accepting
<1>7. Held(r)'
  BY <1>0, <1>1, <1>2 DEF Ages, OnPage, RfqShape, OfRequest, Held, Kept, Brings, Accepting
<1>8. Accounted(r)'
  BY <1>0, <1>1, <1>2 DEF Ages, OnPage, RfqShape, OfRequest, Accounted, Brings, Accepting
<1>9. Listed(r)'
  BY <1>0, <1>1, <1>2 DEF Ages, OnPage, RfqShape, OfRequest, Listed
<1> QED
  BY <1>3, <1>4, <1>5, <1>6, <1>7, <1>8, <1>9, AboutOne DEF OfRequest

LEMMA ClosedKeeps ==
  ASSUME RfqInv, NEW r \in Rfq, Closed(r) PROVE RfqInv'
<1>0. RfqShape /\ OfRequest(r)
  BY DEF RfqInv
<1>1. rfqAt[r] \in Requests
  BY <1>0 DEF RfqShape
<1>2. [rfqAt[r] EXCEPT !.is = "closed"] \in Requests
  BY <1>1, RfqMoves DEF Stages
<1>3. RfqShape'
  BY <1>0, <1>1, <1>2 DEF Closed, OnPage, RfqShape
<1>4. /\ UNCHANGED <<viewer, fetched>> /\ PollRests
      /\ \A p \in Rfq \ {r} : Untouched(p)
  BY <1>0, <1>1, <1>2 DEF Closed, OnPage, RfqShape, PollRests, Untouched
<1>5. Accepting(r)'
  BY <1>0, <1>1, <1>2 DEF Closed, OnPage, RfqShape, OfRequest, Accepting
<1>6. Onward(r)'
  BY <1>0, <1>1, <1>2 DEF Closed, OnPage, RfqShape, OfRequest, Onward, Known, Misses, Brings,
     Accepting
<1>7. Held(r)'
  BY <1>0, <1>1, <1>2 DEF Closed, OnPage, RfqShape, OfRequest, Held, Kept, Brings, Accepting
<1>8. Accounted(r)'
  BY <1>0, <1>1, <1>2 DEF Closed, OnPage, RfqShape, OfRequest, Accounted, Brings, Accepting
<1>9. Listed(r)'
  BY <1>0, <1>1, <1>2 DEF Closed, OnPage, RfqShape, OfRequest, Listed
<1> QED
  BY <1>3, <1>4, <1>5, <1>6, <1>7, <1>8, <1>9, AboutOne DEF OfRequest

LEMMA SettledElsewhereKeeps ==
  ASSUME RfqInv, NEW r \in Rfq, SettledElsewhere(r) PROVE RfqInv'
<1>0. RfqShape /\ OfRequest(r)
  BY DEF RfqInv
<1>1. RfqShape'
  BY <1>0 DEF SettledElsewhere, OnPage, RfqShape
<1>2. /\ UNCHANGED <<viewer, fetched>> /\ PollRests
      /\ \A p \in Rfq \ {r} : Untouched(p)
  BY <1>0 DEF SettledElsewhere, OnPage, RfqShape, PollRests, Untouched
<1>3. Accepting(r)'
  BY <1>0 DEF SettledElsewhere, OnPage, RfqShape, OfRequest, Accepting
<1>4. Onward(r)'
  BY <1>0 DEF SettledElsewhere, OnPage, RfqShape, OfRequest, Onward, Known, Misses, Brings,
     Accepting
<1>5. Held(r)'
  BY <1>0 DEF SettledElsewhere, OnPage, RfqShape, OfRequest, Held, Kept, Brings, Accepting
<1>6. Accounted(r)'
  BY <1>0 DEF SettledElsewhere, OnPage, RfqShape, OfRequest, Accounted, Brings, Accepting
<1>7. Listed(r)'
  BY <1>0 DEF SettledElsewhere, OnPage, RfqShape, OfRequest, Listed
<1> QED
  BY <1>1, <1>2, <1>3, <1>4, <1>5, <1>6, <1>7, AboutOne DEF OfRequest

LEMMA SettleTakesKeeps ==
  ASSUME RfqInv, NEW r \in Rfq, SettleTakes(r) PROVE RfqInv'
<1>0. RfqShape /\ OfRequest(r)
  BY DEF RfqInv
<1>1. RfqShape'
  BY <1>0 DEF SettleTakes, RfqShape
<1>2. /\ UNCHANGED <<viewer, fetched>> /\ PollRests
      /\ \A p \in Rfq \ {r} : Untouched(p)
  BY <1>0 DEF SettleTakes, RfqShape, PollRests, Untouched
<1>3. Accepting(r)'
  BY <1>0 DEF SettleTakes, RfqShape, OfRequest, Accepting
<1>4. Onward(r)'
  BY <1>0 DEF SettleTakes, RfqShape, OfRequest, Onward, Known, Misses, Brings, Accepting
<1>5. Held(r)'
  BY <1>0 DEF SettleTakes, RfqShape, OfRequest, Held, Kept, Brings, Accepting
<1>6. Accounted(r)'
  BY <1>0 DEF SettleTakes, RfqShape, OfRequest, Accounted, Brings, Accepting
<1>7. Listed(r)'
  BY <1>0 DEF SettleTakes, RfqShape, OfRequest, Listed
<1> QED
  BY <1>1, <1>2, <1>3, <1>4, <1>5, <1>6, <1>7, AboutOne DEF OfRequest

LEMMA CancelTakesKeeps ==
  ASSUME RfqInv, NEW r \in Rfq, CancelTakes(r) PROVE RfqInv'
<1>0. RfqShape /\ OfRequest(r)
  BY DEF RfqInv
<1>1. rfqAt[r] \in Requests
  BY <1>0 DEF RfqShape
<1>2. [rfqAt[r] EXCEPT !.is = "closed"] \in Requests
  BY <1>1, RfqMoves DEF Stages
<1>3. RfqShape'
  BY <1>0, <1>1, <1>2 DEF CancelTakes, RfqShape
<1>4. /\ UNCHANGED <<viewer, fetched>> /\ PollRests
      /\ \A p \in Rfq \ {r} : Untouched(p)
  BY <1>0, <1>1, <1>2 DEF CancelTakes, RfqShape, PollRests, Untouched
<1>5. Accepting(r)'
  BY <1>0, <1>1, <1>2 DEF CancelTakes, RfqShape, OfRequest, Accepting
<1>6. Onward(r)'
  BY <1>0, <1>1, <1>2 DEF CancelTakes, RfqShape, OfRequest, Onward, Known, Misses, Brings, Accepting
<1>7. Held(r)'
  BY <1>0, <1>1, <1>2 DEF CancelTakes, RfqShape, OfRequest, Held, Kept, Brings, Accepting
<1>8. Accounted(r)'
  BY <1>0, <1>1, <1>2 DEF CancelTakes, RfqShape, OfRequest, Accounted, Brings, Accepting
<1>9. Listed(r)'
  BY <1>0, <1>1, <1>2 DEF CancelTakes, RfqShape, OfRequest, Listed
<1> QED
  BY <1>3, <1>4, <1>5, <1>6, <1>7, <1>8, <1>9, AboutOne DEF OfRequest

LEMMA CreateTakesKeeps ==
  ASSUME RfqInv, NEW r \in Rfq, CreateTakes(r) PROVE RfqInv'
<1>0. RfqShape /\ OfRequest(r)
  BY DEF RfqInv
<1>1. rfqAt[r] \in Requests
  BY <1>0 DEF RfqShape
<1>2. [rfqAt[r] EXCEPT !.is = "open"] \in Requests
  BY <1>1, RfqMoves DEF Stages
<1>3. RfqShape'
  BY <1>0, <1>1, <1>2 DEF CreateTakes, RfqShape
<1>4. /\ UNCHANGED <<viewer, fetched>> /\ PollRests
      /\ \A p \in Rfq \ {r} : Untouched(p)
  BY <1>0, <1>1, <1>2 DEF CreateTakes, RfqShape, PollRests, Untouched
<1>5. Accepting(r)'
  BY <1>0, <1>1, <1>2 DEF CreateTakes, RfqShape, OfRequest, Accepting
<1>6. Onward(r)'
  BY <1>0, <1>1, <1>2 DEF CreateTakes, RfqShape, OfRequest, Onward, Known, Misses, Brings, Accepting
<1>7. Held(r)'
  BY <1>0, <1>1, <1>2 DEF CreateTakes, RfqShape, OfRequest, Held, Kept, Brings, Accepting
<1>8. Accounted(r)'
  BY <1>0, <1>1, <1>2 DEF CreateTakes, RfqShape, OfRequest, Accounted, Brings, Accepting
<1>9. Listed(r)'
  BY <1>0, <1>1, <1>2 DEF CreateTakes, RfqShape, OfRequest, Listed
<1> QED
  BY <1>3, <1>4, <1>5, <1>6, <1>7, <1>8, <1>9, AboutOne DEF OfRequest

LEMMA AcceptTakesKeeps ==
  ASSUME RfqInv, NEW r \in Rfq, AcceptTakes(r) PROVE RfqInv'
<1>0. RfqShape /\ OfRequest(r)
  BY DEF RfqInv
<1>1. rfqAt[r] \in Requests
  BY <1>0 DEF RfqShape
<1>2. [rfqAt[r] EXCEPT !.is = "accepted"] \in Requests
  BY <1>1, RfqMoves DEF Stages
<1>3. RfqShape'
  BY <1>0, <1>1, <1>2 DEF AcceptTakes, RfqShape
<1>4. /\ UNCHANGED <<viewer, fetched>> /\ PollRests
      /\ \A p \in Rfq \ {r} : Untouched(p)
  BY <1>0, <1>1, <1>2 DEF AcceptTakes, RfqShape, PollRests, Untouched
<1>5. Accepting(r)'
  BY <1>0, <1>1, <1>2 DEF AcceptTakes, RfqShape, OfRequest, Accepting
<1>6. Onward(r)'
  BY <1>0, <1>1, <1>2 DEF AcceptTakes, RfqShape, OfRequest, Onward, Known, Misses, Brings, Accepting
<1>7. Held(r)'
  BY <1>0, <1>1, <1>2 DEF AcceptTakes, RfqShape, OfRequest, Held, Kept, Brings, Accepting
<1>8. Accounted(r)'
  BY <1>0, <1>1, <1>2 DEF AcceptTakes, RfqShape, OfRequest, Accounted, Brings, Accepting
<1>9. Listed(r)'
  BY <1>0, <1>1, <1>2 DEF AcceptTakes, RfqShape, OfRequest, Listed
<1> QED
  BY <1>3, <1>4, <1>5, <1>6, <1>7, <1>8, <1>9, AboutOne DEF OfRequest

\* Calls and their answers.
LEMMA AcceptRefusedKeeps ==
  ASSUME RfqInv, NEW r \in Rfq, AcceptRefused(r) PROVE RfqInv'
<1>0. RfqShape /\ OfRequest(r)
  BY DEF RfqInv
<1>1. RfqShape'
  BY <1>0 DEF AcceptRefused, OnLedger, RfqShape
<1>2. /\ UNCHANGED <<viewer, fetched>> /\ PollRests
      /\ \A p \in Rfq \ {r} : Untouched(p)
  BY <1>0 DEF AcceptRefused, OnLedger, RfqShape, PollRests, Untouched
<1>3. Accepting(r)'
  BY <1>0 DEF AcceptRefused, OnLedger, RfqShape, OfRequest, Accepting
<1>4. Onward(r)'
  BY <1>0 DEF AcceptRefused, OnLedger, RfqShape, OfRequest, Onward, Known, Misses, Brings, Accepting
<1>5. Held(r)'
  BY <1>0 DEF AcceptRefused, OnLedger, RfqShape, OfRequest, Held, Kept, Brings, Accepting
<1>6. Accounted(r)'
  BY <1>0 DEF AcceptRefused, OnLedger, RfqShape, OfRequest, Accounted, Brings, Accepting
<1>7. Listed(r)'
  BY <1>0 DEF AcceptRefused, OnLedger, RfqShape, OfRequest, Listed
<1> QED
  BY <1>1, <1>2, <1>3, <1>4, <1>5, <1>6, <1>7, AboutOne DEF OfRequest

LEMMA AcceptUnheardKeeps ==
  ASSUME RfqInv, NEW r \in Rfq, AcceptUnheard(r) PROVE RfqInv'
<1>0. RfqShape /\ OfRequest(r)
  BY DEF RfqInv
<1>1. RfqShape'
  BY <1>0 DEF AcceptUnheard, OnLedger, RfqShape
<1>2. /\ UNCHANGED <<viewer, fetched>> /\ PollRests
      /\ \A p \in Rfq \ {r} : Untouched(p)
  BY <1>0 DEF AcceptUnheard, OnLedger, RfqShape, PollRests, Untouched
<1>3. Accepting(r)'
  BY <1>0 DEF AcceptUnheard, OnLedger, RfqShape, OfRequest, Accepting
<1>4. Onward(r)'
  BY <1>0 DEF AcceptUnheard, OnLedger, RfqShape, OfRequest, Onward, Known, Misses, Brings, Accepting
<1>5. Held(r)'
  BY <1>0 DEF AcceptUnheard, OnLedger, RfqShape, OfRequest, Held, Kept, Brings, Accepting
<1>6. Accounted(r)'
  BY <1>0 DEF AcceptUnheard, OnLedger, RfqShape, OfRequest, Accounted, Brings, Accepting
<1>7. Listed(r)'
  BY <1>0 DEF AcceptUnheard, OnLedger, RfqShape, OfRequest, Listed
<1> QED
  BY <1>1, <1>2, <1>3, <1>4, <1>5, <1>6, <1>7, AboutOne DEF OfRequest

LEMMA SettleTellsKeeps ==
  ASSUME RfqInv, NEW r \in Rfq, SettleTells(r) PROVE RfqInv'
<1>0. RfqShape /\ OfRequest(r)
  BY DEF RfqInv
<1>1. RfqShape'
  BY <1>0 DEF SettleTells, OnLedger, RfqShape
<1>2. /\ UNCHANGED <<viewer, fetched>> /\ PollRests
      /\ \A p \in Rfq \ {r} : Untouched(p)
  BY <1>0 DEF SettleTells, OnLedger, RfqShape, PollRests, Untouched
<1>3. Accepting(r)'
  BY <1>0 DEF SettleTells, OnLedger, RfqShape, OfRequest, Accepting
<1>4. Onward(r)'
  BY <1>0 DEF SettleTells, OnLedger, RfqShape, OfRequest, Onward, Known, Misses, Brings, Accepting
<1>5. Held(r)'
  BY <1>0 DEF SettleTells, OnLedger, RfqShape, OfRequest, Held, Kept, Brings, Accepting
<1>6. Accounted(r)'
  BY <1>0 DEF SettleTells, OnLedger, RfqShape, OfRequest, Accounted, Brings, Accepting
<1>7. Listed(r)'
  BY <1>0 DEF SettleTells, OnLedger, RfqShape, OfRequest, Listed
<1> QED
  BY <1>1, <1>2, <1>3, <1>4, <1>5, <1>6, <1>7, AboutOne DEF OfRequest

LEMMA ComposeKeeps ==
  ASSUME RfqInv, NEW r \in Rfq, Compose(r) PROVE RfqInv'
<1>0. RfqShape /\ OfRequest(r)
  BY DEF RfqInv
<1>1. RfqShape'
  BY <1>0 DEF Compose, OnLedger, Tap, RfqShape
<1>2. /\ UNCHANGED <<viewer, fetched>> /\ PollRests
      /\ \A p \in Rfq \ {r} : Untouched(p)
  BY <1>0 DEF Compose, OnLedger, Tap, RfqShape, PollRests, Untouched
<1>3. Accepting(r)'
  BY <1>0 DEF Compose, OnLedger, Tap, RfqShape, OfRequest, Accepting
<1>4. Onward(r)'
  BY <1>0 DEF Compose, OnLedger, Tap, RfqShape, OfRequest, Onward, Known, Misses, Brings, Accepting
<1>5. Held(r)'
  BY <1>0 DEF Compose, OnLedger, Tap, RfqShape, OfRequest, Held, Kept, Brings, Accepting
<1>6. Accounted(r)'
  BY <1>0 DEF Compose, OnLedger, Tap, RfqShape, OfRequest, Accounted, Brings, Accepting
<1>7. Listed(r)'
  BY <1>0 DEF Compose, OnLedger, Tap, RfqShape, OfRequest, Listed
<1> QED
  BY <1>1, <1>2, <1>3, <1>4, <1>5, <1>6, <1>7, AboutOne DEF OfRequest

\* What changes the rows.
LEMMA RunsOutKeeps ==
  ASSUME RfqInv, NEW r \in Rfq, RunsOut(r) PROVE RfqInv'
<1>0. RfqShape /\ OfRequest(r)
  BY DEF RfqInv
<1>1. openTab[r] \in [Spot -> Rows] /\ r \in DOMAIN openTab
  BY <1>0 DEF RfqShape
<1>2. /\ Drawn(openTab[r]) \subseteq Spot /\ NotMarked(openTab[r]) \subseteq Drawn(openTab[r])
      /\ \A i \in Drawn(openTab[r]) : openTab[r][i].quotes \in Nat
  BY <1>1, RowFacts
<1>3. openTab' = [openTab EXCEPT ![r] = WithoutIdle(openTab[r])]
  BY DEF RunsOut
<1>4. /\ openTab'[r] \in [Spot -> Rows] /\ NotMarked(openTab'[r]) = {}
      /\ Drawn(openTab'[r]) = Drawn(openTab[r]) \ NotMarked(openTab[r])
      /\ \A i \in Drawn(openTab'[r]) : openTab'[r][i] = openTab[r][i]
  BY <1>1, <1>3, RowsLeft
<1>5. RfqShape'
  BY <1>0, <1>1, <1>2, <1>3, <1>4 DEF RunsOut, OnLedger, TradersCalls, RfqShape
<1>6. /\ UNCHANGED <<viewer, fetched>> /\ PollRests
      /\ \A p \in Rfq \ {r} : Untouched(p)
  BY <1>0, <1>1, <1>2, <1>3, <1>4 DEF RunsOut, OnLedger, TradersCalls, RfqShape, PollRests,
     Untouched
<1>7. Accepting(r)'
  BY <1>0, <1>1, <1>2, <1>3, <1>4 DEF RunsOut, OnLedger, TradersCalls, RfqShape, OfRequest,
     Accepting
<1>8. Onward(r)'
  BY <1>0, <1>1, <1>2, <1>3, <1>4 DEF RunsOut, OnLedger, TradersCalls, RfqShape, OfRequest, Onward,
     Known, Misses, Brings, Accepting
<1>9. Held(r)'
  BY <1>0, <1>1, <1>2, <1>3, <1>4 DEF RunsOut, OnLedger, TradersCalls, RfqShape, OfRequest, Held,
     Kept, Brings, Accepting
<1>10. Accounted(r)'
  BY <1>0, <1>1, <1>2, <1>3, <1>4 DEF RunsOut, OnLedger, TradersCalls, RfqShape, OfRequest,
     Accounted, Brings, Held, OffersCancel, Accepting
<1>11. Listed(r)'
  BY <1>0, <1>1, <1>2, <1>3, <1>4 DEF RunsOut, OnLedger, TradersCalls, RfqShape, OfRequest, Listed
<1> QED
  BY <1>5, <1>6, <1>7, <1>8, <1>9, <1>10, <1>11, AboutOne DEF OfRequest

LEMMA TapAcceptKeeps ==
  ASSUME RfqInv, NEW r \in Rfq, TapAccept(r) PROVE RfqInv'
<1>0. RfqShape /\ OfRequest(r)
  BY DEF RfqInv
<1>1. openTab[r] \in [Spot -> Rows] /\ r \in DOMAIN openTab
  BY <1>0 DEF RfqShape
<1>2. /\ Drawn(openTab[r]) \subseteq Spot /\ NotMarked(openTab[r]) \subseteq Drawn(openTab[r])
      /\ \A i \in Drawn(openTab[r]) : openTab[r][i].quotes \in Nat
  BY <1>1, RowFacts
<1>3. openTab' = [openTab EXCEPT ![r] = RowsAs(openTab[r], "accepting")]
  BY DEF TapAccept, Become
<1>4. /\ openTab'[r] \in [Spot -> Rows] /\ Drawn(openTab'[r]) = Drawn(openTab[r])
      /\ \A i \in Drawn(openTab[r]) : /\ openTab'[r][i].is = "accepting"
                                     /\ openTab'[r][i].quotes = openTab[r][i].quotes
      /\ NotMarked(openTab'[r]) = {}
  BY <1>1, <1>3, RowsTurn
<1>5. RfqShape'
  BY <1>0, <1>1, <1>2, <1>3, <1>4 DEF TapAccept, OnLedger, Tap, OffersAccept, RfqShape
<1>6. /\ UNCHANGED <<viewer, fetched>> /\ PollRests
      /\ \A p \in Rfq \ {r} : Untouched(p)
  BY <1>0, <1>1, <1>2, <1>3, <1>4 DEF TapAccept, OnLedger, Tap, OffersAccept, RfqShape, PollRests,
     Untouched
<1>7. Accepting(r)'
  BY <1>0, <1>1, <1>2, <1>3, <1>4 DEF TapAccept, OnLedger, Tap, OffersAccept, RfqShape, OfRequest,
     Accepting
<1>8. Onward(r)'
  BY <1>0, <1>1, <1>2, <1>3, <1>4 DEF TapAccept, OnLedger, Tap, OffersAccept, RfqShape, OfRequest,
     Onward, Known, Misses, Brings, Accepting
<1>9. Held(r)'
  BY <1>0, <1>1, <1>2, <1>3, <1>4 DEF TapAccept, OnLedger, Tap, OffersAccept, RfqShape, OfRequest,
     Held, Kept, Brings, Accepting
<1>10. Accounted(r)'
  BY <1>0, <1>1, <1>2, <1>3, <1>4 DEF TapAccept, OnLedger, Tap, OffersAccept, RfqShape, OfRequest,
     Accounted, Brings, Accepting
<1>11. Listed(r)'
  BY <1>0, <1>1, <1>2, <1>3, <1>4 DEF TapAccept, OnLedger, Tap, OffersAccept, RfqShape, OfRequest,
     Listed
<1> QED
  BY <1>5, <1>6, <1>7, <1>8, <1>9, <1>10, <1>11, AboutOne DEF OfRequest

LEMMA AcceptAnsweredKeeps ==
  ASSUME RfqInv, NEW r \in Rfq, AcceptAnswered(r) PROVE RfqInv'
<1>0. RfqShape /\ OfRequest(r)
  BY DEF RfqInv
<1>1. openTab[r] \in [Spot -> Rows] /\ r \in DOMAIN openTab
  BY <1>0 DEF RfqShape
<1>2. /\ Drawn(openTab[r]) \subseteq Spot /\ NotMarked(openTab[r]) \subseteq Drawn(openTab[r])
      /\ \A i \in Drawn(openTab[r]) : openTab[r][i].quotes \in Nat
  BY <1>1, RowFacts
<1>3. openTab' = [openTab EXCEPT ![r] = RowsAs(openTab[r], "accepted")]
  BY DEF AcceptAnswered, Become
<1>4. /\ openTab'[r] \in [Spot -> Rows] /\ Drawn(openTab'[r]) = Drawn(openTab[r])
      /\ \A i \in Drawn(openTab[r]) : /\ openTab'[r][i].is = "accepted"
                                     /\ openTab'[r][i].quotes = openTab[r][i].quotes
      /\ NotMarked(openTab'[r]) = {}
  BY <1>1, <1>3, RowsTurn
<1>5. RfqShape'
  BY <1>0, <1>1, <1>2, <1>3, <1>4 DEF AcceptAnswered, OnLedger, RfqShape
<1>6. /\ UNCHANGED <<viewer, fetched>> /\ PollRests
      /\ \A p \in Rfq \ {r} : Untouched(p)
  BY <1>0, <1>1, <1>2, <1>3, <1>4 DEF AcceptAnswered, OnLedger, RfqShape, PollRests, Untouched
<1>7. Accepting(r)'
  BY <1>0, <1>1, <1>2, <1>3, <1>4 DEF AcceptAnswered, OnLedger, RfqShape, OfRequest, Accepting
<1>8. Onward(r)'
  BY <1>0, <1>1, <1>2, <1>3, <1>4 DEF AcceptAnswered, OnLedger, RfqShape, OfRequest, Onward, Known,
     Misses, Brings, Accepting
<1>9. Held(r)'
  BY <1>0, <1>1, <1>2, <1>3, <1>4 DEF AcceptAnswered, OnLedger, RfqShape, OfRequest, Held, Kept,
     Brings, Accepting
<1>10. Accounted(r)'
  BY <1>0, <1>1, <1>2, <1>3, <1>4 DEF AcceptAnswered, OnLedger, RfqShape, OfRequest, Accounted,
     Brings, Accepting
<1>11. Listed(r)'
  BY <1>0, <1>1, <1>2, <1>3, <1>4 DEF AcceptAnswered, OnLedger, RfqShape, OfRequest, Listed
<1> QED
  BY <1>5, <1>6, <1>7, <1>8, <1>9, <1>10, <1>11, AboutOne DEF OfRequest

LEMMA AcceptFailedKeeps ==
  ASSUME RfqInv, NEW r \in Rfq, AcceptFailed(r) PROVE RfqInv'
<1>0. RfqShape /\ OfRequest(r)
  BY DEF RfqInv
<1>1. openTab[r] \in [Spot -> Rows] /\ r \in DOMAIN openTab
  BY <1>0 DEF RfqShape
<1>2. /\ Drawn(openTab[r]) \subseteq Spot /\ NotMarked(openTab[r]) \subseteq Drawn(openTab[r])
      /\ \A i \in Drawn(openTab[r]) : openTab[r][i].quotes \in Nat
  BY <1>1, RowFacts
<1>3. openTab' = [openTab EXCEPT ![r] = RowsAs(openTab[r], "idle")]
  BY DEF AcceptFailed, Become
<1>4. /\ openTab'[r] \in [Spot -> Rows] /\ Drawn(openTab'[r]) = Drawn(openTab[r])
      /\ \A i \in Drawn(openTab[r]) : /\ openTab'[r][i].is = "idle"
                                     /\ openTab'[r][i].quotes = openTab[r][i].quotes
      /\ NotMarked(openTab'[r]) = Drawn(openTab[r])
  BY <1>1, <1>3, RowsTurn
<1>5. RfqShape'
  BY <1>0, <1>1, <1>2, <1>3, <1>4 DEF AcceptFailed, OnLedger, RfqShape
<1>6. /\ UNCHANGED <<viewer, fetched>> /\ PollRests
      /\ \A p \in Rfq \ {r} : Untouched(p)
  BY <1>0, <1>1, <1>2, <1>3, <1>4 DEF AcceptFailed, OnLedger, RfqShape, PollRests, Untouched
<1>7. Accepting(r)'
  BY <1>0, <1>1, <1>2, <1>3, <1>4 DEF AcceptFailed, OnLedger, RfqShape, OfRequest, Accepting
<1>8. Onward(r)'
  BY <1>0, <1>1, <1>2, <1>3, <1>4 DEF AcceptFailed, OnLedger, RfqShape, OfRequest, Onward, Known,
     Misses, Brings, Accepting
<1>9. Held(r)'
  BY <1>0, <1>1, <1>2, <1>3, <1>4 DEF AcceptFailed, OnLedger, RfqShape, OfRequest, Held, Kept,
     Brings, Accepting
<1>10. Accounted(r)'
  BY <1>0, <1>1, <1>2, <1>3, <1>4 DEF AcceptFailed, OnLedger, RfqShape, OfRequest, Accounted,
     Brings, Accepting
<1>11. Listed(r)'
  BY <1>0, <1>1, <1>2, <1>3, <1>4 DEF AcceptFailed, OnLedger, RfqShape, OfRequest, Listed
<1> QED
  BY <1>5, <1>6, <1>7, <1>8, <1>9, <1>10, <1>11, AboutOne DEF OfRequest

LEMMA MovesToAcceptedKeeps ==
  ASSUME RfqInv, NEW r \in Rfq, MovesToAccepted(r) PROVE RfqInv'
<1>0. RfqShape /\ OfRequest(r)
  BY DEF RfqInv
<1>1. openTab[r] \in [Spot -> Rows] /\ r \in DOMAIN openTab
  BY <1>0 DEF RfqShape
<1>2. /\ Drawn(openTab[r]) \subseteq Spot /\ NotMarked(openTab[r]) \subseteq Drawn(openTab[r])
      /\ \A i \in Drawn(openTab[r]) : openTab[r][i].quotes \in Nat
  BY <1>1, RowFacts
<1>3. openTab' = [openTab EXCEPT ![r] = NoRows]
  BY DEF MovesToAccepted
<1>4. /\ openTab'[r] \in [Spot -> Rows] /\ openTab'[r] = NoRows
      /\ Drawn(openTab'[r]) = {} /\ NotMarked(openTab'[r]) = {}
  BY <1>1, <1>3, ListNames
<1>5. (Brings(r)' => Brings(r)) /\ (Misses(r)' => Misses(r))
  BY <1>0, PollGivenUp DEF MovesToAccepted, Refetch, RfqShape, PollRests, Viewer, Brings, Misses
<1>6. /\ PollRests
      /\ poll' \in [Viewer -> Polls]
      /\ poll'[viewer].step = "asked"
  BY <1>0, PollGivenUp DEF MovesToAccepted, Refetch, RfqShape
<1>7. RfqShape'
  BY <1>0, <1>1, <1>2, <1>3, <1>4, <1>5, <1>6 DEF MovesToAccepted, OnLedger, RfqShape
<1>8. /\ UNCHANGED <<viewer, fetched>> /\ PollRests
      /\ \A p \in Rfq \ {r} : Untouched(p)
  BY <1>0, <1>1, <1>2, <1>3, <1>4, <1>5, <1>6 DEF MovesToAccepted, OnLedger, RfqShape, PollRests,
     Untouched
<1>9. Accepting(r)'
  BY <1>0, <1>1, <1>2, <1>3, <1>4, <1>5, <1>6 DEF MovesToAccepted, OnLedger, RfqShape, OfRequest,
     Accepting
<1>10. Onward(r)'
  BY <1>0, <1>1, <1>2, <1>3, <1>4, <1>5, <1>6 DEF MovesToAccepted, OnLedger, RfqShape, OfRequest,
     Onward, Known, Accepting
<1>11. Held(r)'
  BY <1>0, <1>1, <1>2, <1>3, <1>4, <1>5, <1>6 DEF MovesToAccepted, OnLedger, RfqShape, OfRequest,
     Held, Kept, Accepting
<1>12. Accounted(r)'
  BY <1>0, <1>1, <1>2, <1>3, <1>4, <1>5, <1>6 DEF MovesToAccepted, OnLedger, RfqShape, OfRequest,
     Accounted, Held, Brings, Accepting
<1>13. Listed(r)'
  BY <1>0, <1>1, <1>2, <1>3, <1>4, <1>5, <1>6 DEF MovesToAccepted, OnLedger, RfqShape, OfRequest,
     Listed
<1> QED
  BY <1>7, <1>8, <1>9, <1>10, <1>11, <1>12, <1>13, AboutOne DEF OfRequest

LEMMA TapCancelKeeps ==
  ASSUME RfqInv, NEW r \in Rfq, TapCancel(r) PROVE RfqInv'
<1>0. RfqShape /\ OfRequest(r)
  BY DEF RfqInv
<1>1. openTab[r] \in [Spot -> Rows] /\ r \in DOMAIN openTab
  BY <1>0 DEF RfqShape
<1>2. /\ Drawn(openTab[r]) \subseteq Spot /\ NotMarked(openTab[r]) \subseteq Drawn(openTab[r])
      /\ \A i \in Drawn(openTab[r]) : openTab[r][i].quotes \in Nat
  BY <1>1, RowFacts
<1>3. openTab' = [openTab EXCEPT ![r] = NoRows]
  BY DEF TapCancel
<1>4. /\ openTab'[r] \in [Spot -> Rows] /\ openTab'[r] = NoRows
      /\ Drawn(openTab'[r]) = {} /\ NotMarked(openTab'[r]) = {}
  BY <1>1, <1>3, ListNames
<1>5. RfqShape'
  BY <1>0, <1>1, <1>2, <1>3, <1>4 DEF TapCancel, OnLedger, Tap, RfqShape
<1>6. /\ UNCHANGED <<viewer, fetched>> /\ PollRests
      /\ \A p \in Rfq \ {r} : Untouched(p)
  BY <1>0, <1>1, <1>2, <1>3, <1>4 DEF TapCancel, OnLedger, Tap, RfqShape, PollRests, Untouched
<1>7. Accepting(r)'
  BY <1>0, <1>1, <1>2, <1>3, <1>4 DEF TapCancel, OnLedger, Tap, RfqShape, OfRequest, Accepting
<1>8. Onward(r)'
  BY <1>0, <1>1, <1>2, <1>3, <1>4 DEF TapCancel, OnLedger, Tap, RfqShape, OfRequest, Onward, Known,
     Misses, Brings, Accepting
<1>9. Held(r)'
  BY <1>0, <1>1, <1>2, <1>3, <1>4 DEF TapCancel, OnLedger, Tap, RfqShape, OfRequest, Held, Kept,
     Brings, OffersCancel, Accepting
<1>10. Accounted(r)'
  BY <1>0, <1>1, <1>2, <1>3, <1>4 DEF TapCancel, OnLedger, Tap, RfqShape, OfRequest, Accounted,
     Brings, Accepting
<1>11. Listed(r)'
  BY <1>0, <1>1, <1>2, <1>3, <1>4 DEF TapCancel, OnLedger, Tap, RfqShape, OfRequest, Listed
<1> QED
  BY <1>5, <1>6, <1>7, <1>8, <1>9, <1>10, <1>11, AboutOne DEF OfRequest

\* Calls that return.
LEMMA CancelReturnsKeeps ==
  ASSUME RfqInv, NEW r \in Rfq, CancelReturns(r) PROVE RfqInv'
<1>0. RfqShape /\ OfRequest(r)
  BY DEF RfqInv
<1>1. (Brings(r)' => Brings(r)) /\ (Misses(r)' => Misses(r))
  BY <1>0, PollGivenUp DEF CancelReturns, Refetch, RfqShape, PollRests, Viewer, Brings, Misses
<1>2. /\ PollRests
      /\ poll' \in [Viewer -> Polls]
      /\ poll'[viewer].step = "asked"
  BY <1>0, PollGivenUp DEF CancelReturns, Refetch, RfqShape
<1>3. RfqShape'
  BY <1>0, <1>1, <1>2 DEF CancelReturns, OnLedger, RfqShape
<1>4. /\ UNCHANGED <<viewer, fetched>> /\ PollRests
      /\ \A p \in Rfq \ {r} : Untouched(p)
  BY <1>0, <1>1, <1>2 DEF CancelReturns, OnLedger, RfqShape, PollRests, Untouched
<1>5. Accepting(r)'
  BY <1>0, <1>1, <1>2 DEF CancelReturns, OnLedger, RfqShape, OfRequest, Accepting
<1>6. Onward(r)'
  BY <1>0, <1>1, <1>2 DEF CancelReturns, OnLedger, RfqShape, OfRequest, Onward, Known, Accepting
<1>7. Held(r)'
  BY <1>0, <1>1, <1>2 DEF CancelReturns, OnLedger, RfqShape, OfRequest, Held, Kept, Accepting
<1>8. Accounted(r)'
  BY <1>0, <1>1, <1>2 DEF CancelReturns, OnLedger, RfqShape, OfRequest, Accounted, Accepting
<1>9. Listed(r)'
  BY <1>0, <1>1, <1>2 DEF CancelReturns, OnLedger, RfqShape, OfRequest, Listed
<1> QED
  BY <1>3, <1>4, <1>5, <1>6, <1>7, <1>8, <1>9, AboutOne DEF OfRequest

LEMMA CreateFailedKeeps ==
  ASSUME RfqInv, NEW r \in Rfq, CreateFailed(r) PROVE RfqInv'
<1>0. RfqShape /\ OfRequest(r)
  BY DEF RfqInv
<1>1. (Brings(r)' => Brings(r)) /\ (Misses(r)' => Misses(r))
  BY <1>0, PollGivenUp DEF CreateFailed, Refetch, RfqShape, PollRests, Viewer, Brings, Misses
<1>2. /\ PollRests
      /\ poll' \in [Viewer -> Polls]
      /\ poll'[viewer].step = "asked"
  BY <1>0, PollGivenUp DEF CreateFailed, Refetch, RfqShape
<1>3. RfqShape'
  BY <1>0, <1>1, <1>2 DEF CreateFailed, OnLedger, RfqShape
<1>4. /\ UNCHANGED <<viewer, fetched>> /\ PollRests
      /\ \A p \in Rfq \ {r} : Untouched(p)
  BY <1>0, <1>1, <1>2 DEF CreateFailed, OnLedger, RfqShape, PollRests, Untouched
<1>5. Accepting(r)'
  BY <1>0, <1>1, <1>2 DEF CreateFailed, OnLedger, RfqShape, OfRequest, Accepting
<1>6. Onward(r)'
  BY <1>0, <1>1, <1>2 DEF CreateFailed, OnLedger, RfqShape, OfRequest, Onward, Known, Accepting
<1>7. Held(r)'
  BY <1>0, <1>1, <1>2 DEF CreateFailed, OnLedger, RfqShape, OfRequest, Held, Kept, Accepting
<1>8. Accounted(r)'
  BY <1>0, <1>1, <1>2 DEF CreateFailed, OnLedger, RfqShape, OfRequest, Accounted, Accepting
<1>9. Listed(r)'
  BY <1>0, <1>1, <1>2 DEF CreateFailed, OnLedger, RfqShape, OfRequest, Listed
<1> QED
  BY <1>3, <1>4, <1>5, <1>6, <1>7, <1>8, <1>9, AboutOne DEF OfRequest

LEMMA CreateAnsweredKeeps ==
  ASSUME RfqInv, NEW r \in Rfq, CreateAnswered(r) PROVE RfqInv'
<1>0. RfqShape /\ OfRequest(r)
  BY DEF RfqInv
<1>1. openTab[r] \in [Spot -> Rows] /\ r \in DOMAIN openTab
  BY <1>0 DEF RfqShape
<1>2. /\ Drawn(openTab[r]) \subseteq Spot /\ NotMarked(openTab[r]) \subseteq Drawn(openTab[r])
      /\ \A i \in Drawn(openTab[r]) : openTab[r][i].quotes \in Nat
  BY <1>1, RowFacts
<1>3. openTab' = [openTab EXCEPT ![r] = [openTab[r] EXCEPT !["put"] = Line(0)]]
  BY DEF CreateAnswered
<1>4. /\ openTab'[r] \in [Spot -> Rows] /\ Drawn(openTab'[r]) = Drawn(openTab[r]) \cup {"put"}
      /\ NotMarked(openTab'[r]) = NotMarked(openTab[r]) \cup {"put"} /\ openTab'[r]["put"] = Line(0)
      /\ \A i \in Spot \ {"put"} : openTab'[r][i] = openTab[r][i]
      /\ Line(0).is = "idle" /\ Line(0).quotes = 0 /\ "put" \in Spot
  BY <1>1, <1>3, PutRows DEF Line, Spot
<1>5. (\E i \in Drawn(openTab'[r]) : openTab'[r][i].quotes > 0)
       => \E i \in Drawn(openTab[r]) : openTab[r][i].quotes > 0
  BY <1>2, <1>4
<1>6. (\E i \in Drawn(openTab'[r]) : openTab'[r][i].is = "accepted")
       => \E i \in Drawn(openTab[r]) : openTab[r][i].is = "accepted"
  BY <1>2, <1>4
<1>7. (Brings(r)' => Brings(r)) /\ (Misses(r)' => Misses(r))
  BY <1>0, PollGivenUp DEF CreateAnswered, Refetch, RfqShape, PollRests, Viewer, Brings, Misses
<1>8. /\ PollRests
      /\ poll' \in [Viewer -> Polls]
      /\ poll'[viewer].step = "asked"
  BY <1>0, PollGivenUp DEF CreateAnswered, Refetch, RfqShape
<1>9. RfqShape'
  BY <1>0, <1>1, <1>2, <1>3, <1>4, <1>5, <1>6, <1>7, <1>8 DEF CreateAnswered, OnLedger, RfqShape
<1>10. /\ UNCHANGED <<viewer, fetched>> /\ PollRests
      /\ \A p \in Rfq \ {r} : Untouched(p)
  BY <1>0, <1>1, <1>2, <1>3, <1>4, <1>5, <1>6, <1>7, <1>8 DEF CreateAnswered, OnLedger, RfqShape,
     PollRests, Untouched
<1>11. Accepting(r)'
  BY <1>0, <1>1, <1>2, <1>3, <1>4, <1>5, <1>6, <1>7, <1>8 DEF CreateAnswered, OnLedger, RfqShape,
     OfRequest, Accepting
<1>12. Onward(r)'
  BY <1>0, <1>1, <1>2, <1>3, <1>4, <1>5, <1>6, <1>7, <1>8 DEF CreateAnswered, OnLedger, RfqShape,
     OfRequest, Onward, Known, Accepting
<1>13. Held(r)'
  BY <1>0, <1>1, <1>2, <1>3, <1>4, <1>5, <1>6, <1>7, <1>8 DEF CreateAnswered, OnLedger, RfqShape,
     OfRequest, Held, Kept, Accepting
<1>14. Accounted(r)'
  BY <1>0, <1>1, <1>2, <1>3, <1>4, <1>5, <1>6, <1>7, <1>8 DEF CreateAnswered, OnLedger, RfqShape,
     OfRequest, Accounted, Accepting
<1>15. Listed(r)'
  BY <1>0, <1>1, <1>2, <1>3, <1>4, <1>5, <1>6, <1>7, <1>8 DEF CreateAnswered, OnLedger, RfqShape,
     OfRequest, Listed
<1> QED
  BY <1>9, <1>10, <1>11, <1>12, <1>13, <1>14, <1>15, AboutOne DEF OfRequest

\* The polls.
LEMMA AllUntouched ==
  ASSUME RfqInv, UNCHANGED <<viewer, fetched>>, PollRests, RfqShape', \A r \in Rfq : Untouched(r)
  PROVE  RfqInv'
<1>1. ASSUME NEW r \in Rfq PROVE OfRequest(r)'
  BY <1>1, UntouchedKeeps DEF RfqInv
<1>2. Read'
  BY DEF RfqInv, Read, PollRests, Viewer
<1> QED
  BY <1>1, <1>2 DEF RfqInv

LEMMA PollAsksKeeps ==
  ASSUME RfqInv, NEW v \in Viewer, PollAsks(v) \/ PollFails(v) PROVE RfqInv'
<1>1. PollRests /\ poll' \in [Viewer -> Polls]
  <2>1. RfqShape
    BY DEF RfqInv
  <2>2. CASE PollFails(v)
    BY <2>1, <2>2, PollGivenUp DEF PollFails
  <2>3. CASE PollAsks(v)
    <3>1. poll[v] \in Polls
      BY <2>1 DEF RfqShape
    <3>2. /\ [poll[v] EXCEPT !.step = "asked"] \in Polls
          /\ [poll[v] EXCEPT !.step = "asked"].step = "asked"
      BY <3>1 DEF Polls
    <3>3. poll' = [poll EXCEPT ![v] = [poll[v] EXCEPT !.step = "asked"]]
      BY <2>3 DEF PollAsks
    <3> QED
      BY <2>1, <3>2, <3>3 DEF RfqShape, PollRests
  <2> QED
    BY <2>2, <2>3
<1>2. RfqShape'
  BY <1>1 DEF RfqInv, RfqShape, PollAsks, PollFails, OnLedger, TradersCalls
<1>3. UNCHANGED <<viewer, fetched>> /\ \A r \in Rfq : Untouched(r)
  BY DEF PollAsks, PollFails, OnLedger, TradersCalls, Untouched
<1> QED
  BY <1>1, <1>2, <1>3, AllUntouched

LEMMA PollReadsKeeps ==
  ASSUME RfqInv, NEW v \in Viewer, PollReads(v) PROVE RfqInv'
<1>0. RfqShape /\ Read
  BY DEF RfqInv
<1>1. ListedFor(v) \in Snapshot /\ (v = "other" => ListedFor(v) = Nothing)
  <2>1. \A r \in Rfq : rfqAt[r].quotes \in Nat
    BY <1>0 DEF RfqShape, Requests
  <2> QED
    BY <2>1, ListNames DEF ListedFor, Snapshot, Nothing
<1>2. /\ poll' \in [Viewer -> Polls]
      /\ poll'[v].step = "read" /\ poll'[v].saw = ListedFor(v)
      /\ \A w \in Viewer \ {v} : poll'[w] = poll[w]
  <2>1. [step |-> "read", saw |-> ListedFor(v)] \in Polls
    BY <1>1 DEF Polls
  <2> QED
    BY <1>0, <2>1 DEF PollReads, RfqShape
<1>3. /\ UNCHANGED <<rfqAt, tradeAt, viewer, fetched, openTab, acceptedTab, expiredTab, badge, accepts,
                     withdraws, creates, settles, unheard, early, astray, aside>>
  BY DEF PollReads, OnLedger, TradersCalls
<1>4. RfqShape'
  BY <1>0, <1>2, <1>3 DEF RfqShape
<1>5. Read'
  <2>1. ASSUME NEW w \in Viewer, poll'[w].step = "read"
        PROVE  poll'[w].saw \in Snapshot /\ (w = "other" => poll'[w].saw = Nothing)
    BY <1>0, <1>1, <1>2, <2>1 DEF Read
  <2> QED
    BY <1>0, <1>3, <2>1 DEF Read, Viewer
<1>6. ASSUME NEW r \in Rfq PROVE OfRequest(r)'
  <2>0. OfRequest(r) /\ "trader" \in Viewer
    BY DEF RfqInv, Viewer
  <2>1. /\ Brings(r)' => Brings(r) \/ rfqAt[r].is = "open"
        /\ Misses(r)' => Misses(r) \/ rfqAt[r].is # "open"
    <3>1. CASE v = "trader"
      <4>1. poll'["trader"].saw[r] = IF rfqAt[r].is # "open" THEN Absent ELSE Line(rfqAt[r].quotes)
        BY <1>2, <3>1 DEF ListedFor
      <4> QED
        BY <1>0, <4>1, ListNames DEF Brings, Misses, RfqShape, Requests
    <3>2. CASE v # "trader"
      BY <1>2, <2>0, <3>2 DEF Brings, Misses
    <3> QED
      BY <3>1, <3>2
  <2>2. Accepting(r)'
    BY <1>3, <2>0 DEF OfRequest, Accepting
  <2>3. Known(r)' = Known(r) /\ Kept(r)' = Kept(r)
    BY <1>3 DEF Known, Kept
  <2>4. Onward(r)'
    BY <1>3, <2>0, <2>1, <2>3 DEF OfRequest, Onward
  <2>5. Held(r)'
    BY <1>3, <2>0, <2>1, <2>3 DEF OfRequest, Held
  <2>6. Accounted(r)'
    BY <1>3, <2>0, <2>1 DEF OfRequest, Accounted
  <2>7. Listed(r)'
    BY <1>3, <2>0 DEF OfRequest, Listed
  <2> QED
    BY <2>2, <2>4, <2>5, <2>6, <2>7 DEF OfRequest
<1> QED
  BY <1>4, <1>5, <1>6 DEF RfqInv

\* A list replaces the rows, but for those under acceptance.
LEMMA ReconciledRows ==
  ASSUME RfqShape, NEW s \in Snapshot, NEW r \in Rfq
  PROVE  /\ Reconciled(s)[r] \in [Spot -> Rows]
         /\ s[r] = Absent => Reconciled(s)[r] = NoRows
         /\ Kept(r) = {} => Reconciled(s)[r] = Listing(s[r])
         /\ Kept(r) = {} \/ s[r] = Absent => NotMarked(Reconciled(s)[r]) = Drawn(Reconciled(s)[r])
         /\ Kept(r) # {} /\ s[r] # Absent =>
              Drawn(Reconciled(s)[r]) # {} /\ NotMarked(Reconciled(s)[r]) = {}
         /\ \A i \in Drawn(Reconciled(s)[r]) :
              \/ s[r] # Absent /\ Kept(r) = {} /\ Reconciled(s)[r][i] = s[r]
              \/ s[r] # Absent /\ \E j \in Kept(r) : Reconciled(s)[r][i] = openTab[r][j]
<1>0. openTab[r] \in [Spot -> Rows] /\ s[r] \in Lists /\ s[r] \in Rows
  BY ListNames DEF RfqShape, Snapshot
<1>1. CASE s[r] = Absent \/ Kept(r) = {}
  <2>1. Reconciled(s)[r] = Listing(s[r])
    BY <1>1 DEF Reconciled
  <2>2. /\ Listing(s[r]) \in [Spot -> Rows] /\ Listing(s[r])["listed"] = s[r]
        /\ Drawn(Listing(s[r])) = IF s[r] = Absent THEN {} ELSE {"listed"}
        /\ NotMarked(Listing(s[r])) = IF s[r].is = "idle" THEN {"listed"} ELSE {}
    BY <1>0, ListingRows
  <2>3. s[r] # Absent => s[r].is = "idle"
    BY <1>0, ListNames
  <2>4. s[r] = Absent => s[r].is = "absent" /\ Listing(s[r]) = NoRows
    BY ListNames DEF NoRows
  <2> QED
    BY <1>1, <2>1, <2>2, <2>3, <2>4
<1>2. CASE s[r] # Absent /\ Kept(r) # {}
  <2>1. PICK j \in Kept(r) : Reconciled(s)[r] = Listing(openTab[r][j])
    <3>1. Kept(r) \subseteq {"listed", "put"}
      BY <1>0, RowFacts DEF Kept, Spot
    <3>2. (IF "listed" \in Kept(r) THEN "listed" ELSE "put") \in Kept(r)
      BY <1>2, <3>1
    <3> QED
      BY <1>2, <3>2 DEF Reconciled
  <2>2. PICK row \in Rows : row = openTab[r][j] /\ row # Absent /\ row.is \in {"accepting", "accepted"}
    <3>1. j \in Spot /\ j \in Drawn(openTab[r]) \ NotMarked(openTab[r])
      BY <1>0, RowFacts DEF Kept
    <3> QED
      BY <1>0, <3>1, RowFacts
  <2>3. /\ Listing(row) \in [Spot -> Rows] /\ Listing(row)["listed"] = row
        /\ Drawn(Listing(row)) = {"listed"} /\ NotMarked(Listing(row)) = {}
    BY <2>2, ListingRows
  <2> QED
    BY <1>2, <2>1, <2>2, <2>3
<1> QED
  BY <1>1, <1>2

LEMMA PollLandsKeeps ==
  ASSUME RfqInv, NEW v \in Viewer, PollLands(v) PROVE RfqInv'
<1>0. RfqShape /\ Read /\ v \in {"trader", "other"} /\ viewer \in {"trader", "other"}
  BY DEF RfqInv, RfqShape, Viewer
<1>1. PICK s \in Snapshot : s = poll[v].saw /\ (v = "other" => s = Nothing)
  BY <1>0 DEF PollLands, Read
<1>2. /\ PollRests
      /\ poll' \in [Viewer -> Polls]
      /\ poll'[v].step = "idle" /\ \A w \in Viewer \ {v} : poll'[w] = poll[w]
  BY <1>0, PollGivenUp DEF PollLands, RfqShape
<1>3. /\ fetched' \in [Viewer -> Snapshot \cup {Unfetched}]
      /\ fetched'[v] = s /\ \A w \in Viewer \ {v} : fetched'[w] = fetched[w]
  BY <1>0, <1>1 DEF PollLands, RfqShape
<1>4. /\ UNCHANGED <<rfqAt, tradeAt, viewer, acceptedTab, expiredTab, badge, accepts, withdraws,
                     creates, settles, unheard, early, astray>>
      /\ poll[v].step = "read"
  BY DEF PollLands, OnLedger, TradersCalls
<1>5. \/ v = viewer /\ openTab' = Reconciled(s) /\ aside' = {}
      \/ openTab' = openTab /\ aside' = aside /\ (v = viewer => fetched[v] = s)
  BY <1>1 DEF PollLands
<1>6. RfqShape'
  <2>1. Reconciled(s) \in [Rfq -> [Spot -> Rows]]
    BY <1>0, ReconciledRows DEF Reconciled
  <2> QED
    BY <1>0, <1>2, <1>3, <1>4, <1>5, <2>1 DEF RfqShape
<1>7. Read'
  <2>1. ASSUME NEW w \in Viewer, poll'[w].step = "read" PROVE poll'[w] = poll[w]
    BY <1>2, <2>1
  <2>2. fetched'["other"] \in {Nothing, Unfetched}
    BY <1>0, <1>1, <1>3 DEF Read, Viewer
  <2> QED
    BY <1>0, <2>1, <2>2 DEF Read, Viewer
<1>8. ASSUME NEW r \in Rfq PROVE OfRequest(r)'
  <2>0. OfRequest(r) /\ "trader" \in Viewer /\ s[r] \in Lists /\ openTab[r] \in [Spot -> Rows]
    BY <1>0 DEF RfqInv, Viewer, Snapshot, RfqShape
  <2>1. (Brings(r)' => Brings(r)) /\ (Misses(r)' => Misses(r))
    BY <1>2, <2>0 DEF Brings, Misses, PollRests
  <2>2. v = "trader" => /\ ~Brings(r)' /\ ~Misses(r)'
                        /\ (s[r] = Absent <=> Misses(r)) /\ (s[r] # Absent <=> Brings(r))
    BY <1>1, <1>2, <1>4 DEF Brings, Misses
  <2>3. s[r] # Absent => v = "trader"
    BY <1>0, <1>1 DEF Nothing
  <2>4. fetched'["trader"][r].is = "idle" =>
          fetched["trader"][r].is = "idle" \/ (v = "trader" /\ Brings(r))
    <3>1. CASE v = "trader"
      BY <1>3, <2>2, <3>1, ListNames
    <3>2. CASE v # "trader"
      BY <1>3, <2>0, <3>2
    <3> QED
      BY <3>1, <3>2
  <2>5. CASE v = viewer /\ openTab' = Reconciled(s) /\ aside' = {}
    <3>1. /\ s[r] = Absent => openTab'[r] = NoRows
          /\ Kept(r) = {} => openTab'[r] = Listing(s[r])
          /\ Kept(r) = {} \/ s[r] = Absent => NotMarked(openTab'[r]) = Drawn(openTab'[r])
          /\ Kept(r) # {} /\ s[r] # Absent =>
               Drawn(openTab'[r]) # {} /\ NotMarked(openTab'[r]) = {}
          /\ \A i \in Drawn(openTab'[r]) :
               \/ s[r] # Absent /\ Kept(r) = {} /\ openTab'[r][i] = s[r]
               \/ s[r] # Absent /\ \E j \in Kept(r) : openTab'[r][i] = openTab[r][j]
      BY <1>0, <2>5, ReconciledRows
    <3>2. Kept(r) \subseteq Drawn(openTab[r]) /\ Kept(r)' \subseteq Drawn(openTab'[r])
      BY DEF Kept
    <3>3. Accepting(r)'
      BY <1>4, <2>0, <3>1, <3>2, ListNames DEF OfRequest, Accepting
    <3>4. Known(r)' => Known(r) \/ (v = "trader" /\ Brings(r))
      BY <1>4, <2>0, <2>2, <2>3, <2>4, <3>1, <3>2 DEF OfRequest, Held, Known
    <3>5. Onward(r)'
      BY <1>4, <2>0, <2>1, <2>2, <3>4 DEF OfRequest, Onward
    <3>6. Kept(r) = {} \/ s[r] = Absent => Kept(r)' = {}
      BY <3>1 DEF Kept
    <3>7. Held(r)'
      <4>1. ASSUME r \notin astray, accepts[r] \notin {"no", "done"}, viewer = "trader",
                   Drawn(openTab'[r]) = {}
            PROVE  rfqAt[r].is \notin {"none", "open"}
        <5>1. CASE s[r] = Absent
          BY <2>0, <2>2, <2>5, <4>1, <5>1 DEF OfRequest, Onward, Known
        <5>2. CASE s[r] # Absent
          <6>1. Kept(r) = {} /\ NotMarked(openTab[r]) = {}
            BY <2>0, <3>1, <4>1, <5>2 DEF OfRequest, Held
          <6>2. Drawn(openTab[r]) = {}
            BY <2>0, <6>1, RowFacts DEF Kept
          <6> QED
            BY <2>0, <2>2, <2>5, <4>1, <5>2, <6>2 DEF OfRequest, Held
        <5> QED
          BY <5>1, <5>2
      <4>2. ASSUME r \notin astray, accepts[r] \notin {"no", "done"} PROVE NotMarked(openTab'[r]) = {}
        <5>1. CASE s[r] = Absent
          BY <3>1, <5>1, ListNames
        <5>2. CASE s[r] # Absent /\ Kept(r) # {}
          BY <3>1, <5>2
        <5>3. CASE s[r] # Absent /\ Kept(r) = {}
          <6>1. Drawn(openTab[r]) = {}
            BY <2>0, <4>2, <5>3, RowFacts DEF Kept, OfRequest, Held
          <6> QED
            BY <2>0, <2>2, <2>3, <2>5, <4>2, <5>3, <6>1 DEF OfRequest, Held
        <5> QED
          BY <5>1, <5>2, <5>3
      <4> QED
        BY <1>4, <2>0, <2>2, <2>5, <3>6, <4>1, <4>2, <2>1 DEF OfRequest, Held
    <3>8. Accounted(r)'
      BY <1>4, <2>0, <2>1, <2>2, <2>3, <3>1, ListNames DEF OfRequest, Accounted
    <3>9. Listed(r)'
      BY <1>3, <1>4, <2>0, <2>5, <3>1 DEF OfRequest, Held, Listed
    <3> QED
      BY <3>3, <3>5, <3>7, <3>8, <3>9 DEF OfRequest
  <2>6. CASE openTab' = openTab /\ aside' = aside /\ (v = viewer => fetched[v] = s)
    <3>1. Accepting(r)'
      BY <1>4, <2>0, <2>6 DEF OfRequest, Accepting
    <3>2. Known(r)' => Known(r) \/ (v = "trader" /\ Brings(r))
      BY <1>4, <2>4, <2>6 DEF Known
    <3>3. Onward(r)'
      BY <1>4, <2>0, <2>1, <2>2, <3>2 DEF OfRequest, Onward
    <3>4. Held(r)' /\ Accounted(r)'
      BY <1>4, <2>0, <2>1, <2>6 DEF OfRequest, Held, Kept, Accounted
    <3>5. fetched'[viewer] = fetched[viewer]
      BY <1>0, <1>3, <2>6 DEF Viewer
    <3>6. Listed(r)'
      BY <1>4, <2>0, <2>6, <3>5 DEF OfRequest, Listed
    <3> QED
      BY <3>1, <3>3, <3>4, <3>6 DEF OfRequest
  <2> QED
    BY <1>5, <2>5, <2>6
<1> QED
  BY <1>6, <1>7, <1>8 DEF RfqInv

\* Another wallet.
LEMMA SwapKeeps ==
  ASSUME RfqInv, Swap PROVE RfqInv'
<1>0. RfqShape /\ Read
  BY DEF RfqInv
<1>1. PICK w \in Viewer : viewer' = w
  BY DEF Swap, Viewer
<1>2. /\ UNCHANGED <<rfqAt, tradeAt, fetched, poll, acceptedTab, expiredTab, badge, accepts, withdraws,
                     creates, settles, unheard, early>>
      /\ \/ fetched[w] = Unfetched /\ openTab' = openTab /\ aside' = aside
         \/ fetched[w] # Unfetched /\ openTab' = Reconciled(fetched[w]) /\ aside' = {}
  BY <1>1 DEF Swap, OnLedger, TradersCalls
<1>3. astray' \subseteq Rfq /\ \A r \in Rfq : r \in astray' <=>
        \/ r \in astray \/ accepts[r] \notin {"no", "done"}
        \/ (Drawn(openTab'[r]) # {} /\ rfqAt[r].is # "open")
  BY <1>0 DEF Swap, RfqShape
<1>4. fetched[w] \in Snapshot \cup {Unfetched}
  BY <1>0 DEF RfqShape
<1>5. RfqShape'
  <2>1. fetched[w] # Unfetched => Reconciled(fetched[w]) \in [Rfq -> [Spot -> Rows]]
    BY <1>0, <1>4, ReconciledRows DEF Reconciled
  <2> QED
    BY <1>0, <1>1, <1>2, <1>3, <2>1 DEF RfqShape
<1>6. Read'
  BY <1>0, <1>2 DEF Read
<1>7. ASSUME NEW r \in Rfq PROVE OfRequest(r)'
  <2>0. OfRequest(r) /\ openTab[r] \in [Spot -> Rows]
    BY <1>0 DEF RfqInv, RfqShape
  <2>1. Brings(r)' = Brings(r) /\ Misses(r)' = Misses(r)
    BY <1>2 DEF Brings, Misses
  <2>2. accepts[r] \in {"no", "done"} => Kept(r) = {}
    BY <2>0 DEF OfRequest, Held
  <2>3. CASE fetched[w] # Unfetched /\ openTab' = Reconciled(fetched[w]) /\ aside' = {}
    <3>0. PICK s \in Snapshot : s = fetched[w] /\ s[r] \in Lists
      BY <1>4, <2>3 DEF Snapshot
    <3>1. /\ Kept(r) = {} => openTab'[r] = Listing(s[r]) /\ NotMarked(openTab'[r]) = Drawn(openTab'[r])
          /\ \A i \in Drawn(openTab'[r]) :
               \/ s[r] # Absent /\ Kept(r) = {} /\ openTab'[r][i] = s[r]
               \/ s[r] # Absent /\ \E j \in Kept(r) : openTab'[r][i] = openTab[r][j]
      BY <1>0, <2>3, <3>0, ReconciledRows
    <3>2. Kept(r) \subseteq Drawn(openTab[r])
      BY DEF Kept
    <3>3. s[r] # Absent => s[r].is = "idle" /\ fetched["trader"][r].is = "idle"
      BY <1>0, <3>0, ListNames DEF Read, Viewer, Nothing
    <3>4. Accepting(r)'
      BY <1>2, <2>0, <3>1, <3>2, <3>3 DEF OfRequest, Accepting
    <3>5. Known(r)' => Known(r)
      BY <1>2, <2>2, <3>1, <3>2, <3>3 DEF Known
    <3>6. Onward(r)'
      BY <1>2, <2>0, <2>1, <3>5 DEF OfRequest, Onward
    <3>7. Held(r)'
      BY <1>2, <1>3, <2>2, <3>1 DEF Held, Kept
    <3>8. Accounted(r)'
      BY <1>2, <1>3, <2>0, <2>1 DEF OfRequest, Accounted
    <3>9. Listed(r)'
      BY <1>1, <1>2, <2>2, <3>0, <3>1 DEF Listed
    <3> QED
      BY <3>4, <3>6, <3>7, <3>8, <3>9 DEF OfRequest
  <2>4. CASE fetched[w] = Unfetched /\ openTab' = openTab /\ aside' = aside
    <3>1. Accepting(r)'
      BY <1>2, <2>0, <2>4 DEF OfRequest, Accepting
    <3>2. Onward(r)'
      BY <1>2, <2>0, <2>1, <2>4 DEF OfRequest, Onward, Known
    <3>3. Held(r)'
      BY <1>2, <1>3, <2>2, <2>4 DEF Held, Kept
    <3>4. Accounted(r)'
      BY <1>2, <1>3, <2>0, <2>1, <2>4 DEF OfRequest, Accounted
    <3>5. Listed(r)'
      BY <1>1, <1>2, <2>4 DEF Listed
    <3> QED
      BY <3>1, <3>2, <3>3, <3>4, <3>5 DEF OfRequest
  <2> QED
    BY <1>2, <2>3, <2>4
<1> QED
  BY <1>5, <1>6, <1>7 DEF RfqInv

LEMMA RfqNextKeeps ==
  ASSUME RfqInv, [RfqScreenNext]_RfqScreenVars PROVE RfqInv'
<1>1. CASE UNCHANGED RfqScreenVars
  <2>1. RfqShape' /\ PollRests /\ UNCHANGED <<viewer, fetched>> /\ \A r \in Rfq : Untouched(r)
    BY <1>1 DEF RfqInv, RfqShape, RfqScreenVars, PollRests, Untouched
  <2> QED
    BY <2>1, AllUntouched
<1>2. CASE \E v \in Viewer : PollAsks(v) \/ PollReads(v) \/ PollLands(v) \/ PollFails(v)
  BY <1>2, PollAsksKeeps, PollReadsKeeps, PollLandsKeeps
<1>3. CASE Swap
  BY <1>3, SwapKeeps
<1>4. ASSUME NEW r \in Rfq, Quoted(r) \/ Ages(r) \/ Closed(r) \/ SettledElsewhere(r) \/ RunsOut(r)
      PROVE  RfqInv'
  BY <1>4, QuotedKeeps, AgesKeeps, ClosedKeeps, SettledElsewhereKeeps, RunsOutKeeps
<1>5. ASSUME NEW r \in Rfq,
             \/ TapAccept(r) \/ AcceptTakes(r) \/ AcceptRefused(r) \/ AcceptUnheard(r)
             \/ AcceptAnswered(r) \/ AcceptFailed(r) \/ MovesToAccepted(r)
      PROVE  RfqInv'
  BY <1>5, TapAcceptKeeps, AcceptTakesKeeps, AcceptRefusedKeeps, AcceptUnheardKeeps,
     AcceptAnsweredKeeps, AcceptFailedKeeps, MovesToAcceptedKeeps
<1>6. ASSUME NEW r \in Rfq,
             \/ SettleTakes(r) \/ SettleTells(r) \/ TapCancel(r) \/ CancelTakes(r) \/ CancelReturns(r)
             \/ Compose(r) \/ CreateTakes(r) \/ CreateAnswered(r) \/ CreateFailed(r)
      PROVE  RfqInv'
  BY <1>6, SettleTakesKeeps, SettleTellsKeeps, TapCancelKeeps, CancelTakesKeeps, CancelReturnsKeeps,
     ComposeKeeps, CreateTakesKeeps, CreateAnsweredKeeps, CreateFailedKeeps
<1> QED
  BY <1>1, <1>2, <1>3, <1>4, <1>5, <1>6 DEF RfqScreenNext

LEMMA RfqTells == RfqInv => RfqShown
<1> SUFFICES ASSUME RfqInv PROVE RfqShown
  OBVIOUS
<1>0. RfqShape /\ Read /\ \A r \in Rfq : OfRequest(r) /\ openTab[r] \in [Spot -> Rows]
  BY DEF RfqInv, RfqShape
<1>1. OffersOnce
  BY <1>0 DEF OffersOnce, OffersAccept, OfRequest, Held
<1>2. RfqTold
  BY <1>0 DEF RfqTold, ShowsAccepted, ShowsSettled, ShowsExpired, OfRequest, Accepting, Accounted
<1>3. ASSUME Unhurried, fetched[viewer] = ListedFor(viewer), NEW r \in Rfq \ (expiredTab \cup aside)
      PROVE  openTab[r] = Listing(fetched[viewer][r])
  <2>1. fetched[viewer] # Unfetched
    <3>1. fetched[viewer][r] # Unfetched[r]
      BY <1>3 DEF ListedFor, Unfetched, Absent, Line
    <3> QED
      BY <3>1
  <2>2. accepts[r] = "done" => fetched[viewer][r] = Absent
    BY <1>0, <1>3 DEF ListedFor, OfRequest, Accepting
  <2> QED
    BY <1>0, <1>3, <2>1, <2>2 DEF Unhurried, OfRequest, Listed, NoRows
<1> QED
  BY <1>1, <1>2, <1>3 DEF RfqShown, RowsExplained

\* What the page of requests shows is so: nobody is offered to accept what is being accepted;
\* an accepted request is shown once and is one, a trade shown as settled is; a request shown
\* as expired was not accepted, unless the page could not know; and the rows are the newest
\* list, but for those the page has changed by itself.  For any number of requests, quotes,
\* lost answers and swaps of the wallet (app/web/src/pages/RfqPage.tsx).
THEOREM PageTellsTruth == RfqScreenSpec => []RfqShown
<1>1. RfqInv /\ [RfqScreenNext]_RfqScreenVars => RfqInv'
  BY RfqNextKeeps
<1> QED
  BY <1>1, RfqStarts, RfqTells, PTL DEF RfqScreenSpec

-----------------------------------------------------------------------------
(***************************************************************************)
(* What the client picks to fund a request: sums of holdings, what they    *)
(* say of the selections, and an invariant of the merges and splits.       *)
(***************************************************************************)
Purse == Seq(Nat \ {0})
SumIn(w, hs) == Sum([h \in hs |-> w[h]])

LEMMA SumInFacts ==
  ASSUME NEW w \in Purse, NEW hs \in SUBSET DOMAIN w
  PROVE  /\ IsFiniteSet(hs) /\ SumIn(w, hs) \in Nat
         /\ SumIn(w, {}) = 0
         /\ \A h \in hs : SumIn(w, hs) = SumIn(w, hs \ {h}) + w[h]
         /\ \A gs \in SUBSET hs : SumIn(w, gs) <= SumIn(w, hs)
<1>1. DOMAIN w = 1 .. Len(w) /\ Len(w) \in Nat /\ \A h \in DOMAIN w : w[h] \in Nat \ {0}
  BY DEF Purse
<1>2. IsFiniteSet(hs)
  <2>1. IsFiniteSet(DOMAIN w)
    BY <1>1, FS_Interval
  <2> QED
    BY <2>1, FS_Subset
<1> DEFINE f == [h \in hs |-> w[h]]
<1>3. f \in [hs -> Nat]
  BY <1>1
<1>4. SumIn(w, hs) \in Nat
  BY <1>2, <1>3, SumNat DEF SumIn
<1>5. SumIn(w, {}) = 0
  <2>1. [h \in {} |-> w[h]] \in [{} -> Nat] /\ IsFiniteSet({})
    BY FS_EmptySet
  <2> QED
    BY <2>1, SumZero DEF SumIn
<1>6. ASSUME NEW h \in hs
      PROVE  SumIn(w, hs) = SumIn(w, hs \ {h}) + w[h]
  <2>1. IsFiniteSet(hs \ {h}) /\ h \notin hs \ {h} /\ (hs \ {h}) \cup {h} = hs
    BY <1>2, FS_RemoveElement
  <2>2. f \in [(hs \ {h}) \cup {h} -> Nat] /\ f[h] = w[h]
    BY <1>3, <2>1
  <2>3. [g \in hs \ {h} |-> f[g]] = [g \in hs \ {h} |-> w[g]]
    OBVIOUS
  <2> HIDE DEF f
  <2>4. Sum(f) = Sum([g \in hs \ {h} |-> f[g]]) + f[h]
    BY <2>1, <2>2, SumAdd
  <2> QED
    BY <2>2, <2>3, <2>4 DEF SumIn, f
<1>7. ASSUME NEW gs \in SUBSET hs
      PROVE  SumIn(w, gs) <= SumIn(w, hs)
  <2> DEFINE g == [h \in hs |-> IF h \in gs THEN w[h] ELSE 0]
             o == [h \in gs |-> h]
  <2>1. g \in [hs -> Nat] /\ \A h \in hs : g[h] <= f[h]
    BY <1>1
  <2>2. o \in [gs -> hs] /\ \A i, j \in gs : o[i] = o[j] => i = j
    OBVIOUS
  <2>3. \A h \in hs : g[h] # 0 => \E i \in gs : o[i] = h
    OBVIOUS
  <2>4. [i \in gs |-> g[o[i]]] = [i \in gs |-> w[i]]
    OBVIOUS
  <2> HIDE DEF g, o, f
  <2>5. Sum(g) <= Sum(f)
    BY <1>2, <1>3, <2>1, SumMinus
  <2>6. Sum([i \in gs |-> g[o[i]]]) = Sum(g)
    BY <1>2, <2>1, <2>2, <2>3, SumReindex
  <2> QED
    BY <2>4, <2>5, <2>6 DEF SumIn, f
<1> QED
  BY <1>2, <1>4, <1>5, <1>6, <1>7

(* Among holdings there is a smallest and a largest one. *)
LEMMA Extremes ==
  ASSUME NEW w \in Purse, NEW hs \in SUBSET DOMAIN w, hs # {}
  PROVE  /\ \E h \in hs : \A g \in hs : w[h] <= w[g]
         /\ \E h \in hs : \A g \in hs : w[h] >= w[g]
<1>1. IsFiniteSet(hs) /\ \A h \in hs : w[h] \in Nat
  BY SumInFacts DEF Purse
<1> DEFINE Below == {c \in hs \X hs : w[c[1]] <= w[c[2]]}
           Above == {c \in hs \X hs : w[c[1]] >= w[c[2]]}
<1>2. \A x, y \in hs : /\ <<x, y>> \in Below <=> w[x] <= w[y]
                       /\ <<x, y>> \in Above <=> w[x] >= w[y]
  OBVIOUS
<1>3. /\ \A x, y, z \in hs : <<x, y>> \in Below /\ <<y, z>> \in Below => <<x, z>> \in Below
      /\ \A x, y \in hs : x # y => <<x, y>> \in Below \/ <<y, x>> \in Below
  BY <1>1, <1>2
<1>4. /\ \A x, y, z \in hs : <<x, y>> \in Above /\ <<y, z>> \in Above => <<x, z>> \in Above
      /\ \A x, y \in hs : x # y => <<x, y>> \in Above \/ <<y, x>> \in Above
  BY <1>1, <1>2
<1> HIDE DEF Below, Above
<1>5. \E h \in hs : \A g \in hs \ {h} : <<h, g>> \in Below
  BY <1>1, <1>3, FirstExists
<1>6. \E h \in hs : \A g \in hs \ {h} : <<h, g>> \in Above
  BY <1>1, <1>4, FirstExists
<1>7. \A h \in hs : w[h] <= w[h] /\ w[h] >= w[h]
  BY <1>1
<1> QED
  BY <1>2, <1>5, <1>6, <1>7

-----------------------------------------------------------------------------
FundTypes ==
  /\ worth \in Purse /\ alive \subseteq DOMAIN worth /\ before \subseteq DOMAIN worth
  /\ amount \in Nat \ {0} /\ cosigns \in BOOLEAN /\ bumps \in Nat
  /\ reached \in Nat /\ rest \subseteq DOMAIN worth /\ consumed \subseteq DOMAIN worth
  /\ used \subseteq DOMAIN worth
  /\ step \in {"merge", "resolve", "split"} => main \in DOMAIN worth

(* What merges and splits have consumed is not among what they still use, *)
(* and a result is looked for among neither.                              *)
Unspent ==
  /\ step = "read" => used = {} /\ rest = {}
  /\ step \in {"merge", "resolve"} =>
       /\ main \notin rest /\ rest \cap used = {}
       /\ used \cup rest \cup {main} \subseteq consumed
  /\ step \in {"merge", "split"} => main \notin used
  /\ step = "split" => rest = {}

(* Where nothing intervenes, what there is left to merge or to split is    *)
(* there and covers the amount.                                            *)
OnTheWay ==
  bumps = 0 =>
    /\ step = "merge" => /\ {main} \cup rest \subseteq alive /\ worth[main] = reached
                         /\ reached + SumOf(rest) > amount
    /\ step = "resolve" => /\ rest \subseteq alive
                           /\ \E h \in alive \ consumed : worth[h] = reached
                           /\ reached + SumOf(rest) > amount
    /\ step = "split" => main \in alive /\ worth[main] > amount
    /\ step = "reread" => \E h \in alive : worth[h] = amount

Suits(hs) ==
  hs # {} => \/ SumOf(hs) = amount
             \/ /\ ~cosigns /\ SumOf(hs) > amount
                /\ \A h \in hs : SumOf(hs \ {h}) < amount

Ends ==
  step = "over" => Suits(chosen) /\ (bumps = 0 => (chosen # {} <=> SumOf(alive) >= amount))

FundInv == FundTypes /\ Unspent /\ OnTheWay /\ Ends

LEMMA FundInvEnough == FundInv => FundsFound
BY DEF FundInv, Unspent, Ends, Suits, FundsFound

LEMMA Sums ==
  ASSUME FundTypes
  PROVE  /\ SumOf({}) = 0
         /\ \A hs \in SUBSET DOMAIN worth :
              /\ SumOf(hs) \in Nat
              /\ \A h \in hs : SumOf(hs) = SumOf(hs \ {h}) + worth[h]
              /\ \A gs \in SUBSET hs : SumOf(gs) <= SumOf(hs)
         /\ \A h \in DOMAIN worth : SumOf({h}) = worth[h] /\ worth[h] \in Nat \ {0}
<1>1. \A hs : SumOf(hs) = SumIn(worth, hs)
  BY DEF SumOf, SumIn
<1>2. \A hs \in SUBSET DOMAIN worth :
        /\ SumOf(hs) \in Nat
        /\ \A h \in hs : SumOf(hs) = SumOf(hs \ {h}) + worth[h]
        /\ \A gs \in SUBSET hs : SumOf(gs) <= SumOf(hs)
  BY <1>1, SumInFacts DEF FundTypes
<1>3. SumOf({}) = 0
  BY <1>1, SumInFacts DEF FundTypes
<1>4. ASSUME NEW h \in DOMAIN worth
      PROVE  SumOf({h}) = worth[h] /\ worth[h] \in Nat \ {0}
  <2>1. worth[h] \in Nat \ {0}
    BY DEF FundTypes, Purse
  <2>2. SumOf({h}) = SumOf({h} \ {h}) + worth[h]
    BY <1>2
  <2>3. {h} \ {h} = {}
    OBVIOUS
  <2> QED
    BY <1>3, <2>1, <2>2, <2>3
<1> QED
  BY <1>2, <1>3, <1>4

(* Holdings that cover the amount together have a largest few that do. *)
LEMMA LargestFew ==
  ASSUME FundTypes, NEW seen \in SUBSET DOMAIN worth
  PROVE  LargestFirst(seen) # {} <=> SumOf(seen) >= amount
<1>1. amount \in Nat /\ \A hs \in SUBSET seen : SumOf(hs) \in Nat /\ SumOf(hs) <= SumOf(seen)
  BY Sums DEF FundTypes
<1>2. ASSUME SumOf(seen) >= amount
      PROVE  \E hs : hs \in LargestFirst(seen)
  <2> DEFINE Enough(hs) == /\ SumOf(hs) >= amount
                           /\ \A h \in hs, g \in seen \ hs : worth[h] >= worth[g]
             T == {Cardinality(hs) : hs \in {gs \in SUBSET seen : Enough(gs)}}
  <2>1. \A hs \in SUBSET seen : IsFiniteSet(hs) /\ Cardinality(hs) \in Nat
    BY SumInFacts, FS_CardinalityType DEF FundTypes
  <2>2. T \subseteq Nat /\ Cardinality(seen) \in T
    BY <1>2, <2>1
  <2>3. \A n : n \in T <=> \E hs \in SUBSET seen : Enough(hs) /\ Cardinality(hs) = n
    OBVIOUS
  <2> HIDE DEF T
  <2>4. PICK n \in T : \A m \in T : n <= m
    BY <2>2, LeastOf
  <2>5. PICK hs \in SUBSET seen : Enough(hs) /\ Cardinality(hs) = n
    BY <2>3, <2>4
  <2>6. ASSUME NEW h \in Smallest(hs), SumOf(hs \ {h}) >= amount
        PROVE  FALSE
    <3>1. h \in hs /\ \A g \in hs : worth[h] <= worth[g]
      BY <2>6 DEF Smallest
    <3>2. \A g \in DOMAIN worth : worth[g] \in Nat
      BY Sums
    <3>3. Enough(hs \ {h})
      <4>1. ASSUME NEW g \in hs \ {h}, NEW k \in seen \ (hs \ {h})
            PROVE  worth[g] >= worth[k]
        <5>1. CASE k = h
          BY <3>1, <3>2, <5>1
        <5>2. CASE k # h
          BY <2>5, <5>2
        <5> QED
          BY <5>1, <5>2
      <4> QED
        BY <2>6, <4>1
    <3>4. Cardinality(hs \ {h}) = n - 1 /\ n \in Nat
      BY <2>1, <2>5, <3>1, FS_RemoveElement
    <3>5. n - 1 \in T
      BY <2>3, <3>3, <3>4
    <3> QED
      BY <2>4, <3>4, <3>5
  <2>7. \A h \in Smallest(hs) : SumOf(hs \ {h}) < amount
    <3> SUFFICES ASSUME NEW h \in Smallest(hs)
                 PROVE  SumOf(hs \ {h}) < amount
      OBVIOUS
    <3>1. SumOf(hs \ {h}) \in Nat
      BY <1>1
    <3> QED
      BY <1>1, <2>6, <3>1
  <2> QED
    BY <2>5, <2>7 DEF LargestFirst
<1>3. ASSUME NEW hs \in LargestFirst(seen)
      PROVE  SumOf(seen) >= amount
  <2>1. hs \in SUBSET seen /\ SumOf(hs) >= amount
    BY DEF LargestFirst
  <2>2. SumOf(hs) \in Nat /\ SumOf(seen) \in Nat /\ SumOf(hs) <= SumOf(seen)
    BY <1>1, <2>1
  <2> QED
    BY <1>1, <2>1, <2>2
<1> QED
  BY <1>2, <1>3

(* Without the registry's consent, what is chosen covers the amount and    *)
(* spares nothing.                                                         *)
LEMMA CoveringFits ==
  ASSUME FundTypes, ~cosigns, NEW seen \in SUBSET DOMAIN worth
  PROVE  /\ \A hs \in Covering(seen) : hs # {} /\ hs \in SUBSET seen /\ Suits(hs)
         /\ Covering(seen) # {} <=> SumOf(seen) >= amount
<1> DEFINE alone == {h \in seen : worth[h] >= amount}
<1>1. /\ amount \in Nat \ {0} /\ \A h \in DOMAIN worth : SumOf({h}) = worth[h] /\ worth[h] \in Nat \ {0}
      /\ \A hs \in SUBSET seen : SumOf(hs) \in Nat /\ SumOf(hs) <= SumOf(seen)
      /\ \A hs \in SUBSET seen : \A h \in hs : SumOf(hs) = SumOf(hs \ {h}) + worth[h]
      /\ SumOf({}) = 0
  BY Sums DEF FundTypes
<1>2. ASSUME NEW hs \in LargestFirst(seen)
      PROVE  hs # {} /\ hs \in SUBSET seen /\ Suits(hs)
  <2>1. hs \in SUBSET seen /\ SumOf(hs) >= amount /\ \A h \in Smallest(hs) : SumOf(hs \ {h}) < amount
    BY DEF LargestFirst
  <2>2. hs # {}
    BY <1>1, <2>1
  <2>3. PICK h \in hs : \A g \in hs : worth[h] <= worth[g]
    BY <2>1, <2>2, Extremes DEF FundTypes
  <2>4. h \in Smallest(hs) /\ SumOf(hs \ {h}) < amount
    BY <2>1, <2>3 DEF Smallest
  <2>5. ASSUME NEW g \in hs
        PROVE  SumOf(hs \ {g}) < amount
    <3>1. /\ SumOf(hs) = SumOf(hs \ {g}) + worth[g] /\ SumOf(hs) = SumOf(hs \ {h}) + worth[h]
          /\ worth[h] <= worth[g] /\ worth[h] \in Nat /\ worth[g] \in Nat
          /\ SumOf(hs \ {g}) \in Nat /\ SumOf(hs \ {h}) \in Nat
      BY <1>1, <2>1, <2>3
    <3> QED
      BY <1>1, <2>4, <3>1
  <2>6. SumOf(hs) = amount \/ SumOf(hs) > amount
    BY <1>1, <2>1
  <2> QED
    BY <2>1, <2>2, <2>5, <2>6 DEF Suits
<1>3. CASE alone = {}
  <2>1. Covering(seen) = LargestFirst(seen)
    BY <1>3 DEF Covering
  <2> QED
    BY <1>2, <2>1, LargestFew
<1>4. CASE alone # {}
  <2>1. Covering(seen) = {{h} : h \in Smallest(alone)}
    BY <1>4 DEF Covering
  <2>2. Smallest(alone) # {}
    BY <1>4, Extremes DEF FundTypes, Smallest
  <2>3. ASSUME NEW h \in Smallest(alone)
        PROVE  {h} # {} /\ {h} \in SUBSET seen /\ Suits({h}) /\ SumOf({h}) >= amount
    <3>1. h \in seen /\ worth[h] >= amount /\ SumOf({h}) = worth[h] /\ worth[h] \in Nat
      BY <1>1 DEF Smallest
    <3>2. \A g \in {h} : {h} \ {g} = {}
      OBVIOUS
    <3>3. \A g \in {h} : SumOf({h} \ {g}) < amount
      BY <1>1, <3>2
    <3>4. SumOf({h}) = amount \/ SumOf({h}) > amount
      BY <1>1, <3>1
    <3> QED
      BY <3>1, <3>3, <3>4 DEF Suits
  <2>4. SumOf(seen) >= amount
    <3>1. PICK h \in Smallest(alone) : TRUE
      BY <2>2
    <3>2. {h} \in SUBSET seen /\ SumOf({h}) >= amount
      BY <2>3
    <3>3. SumOf({h}) <= SumOf(seen) /\ SumOf({h}) \in Nat /\ SumOf(seen) \in Nat
      BY <1>1, <3>2
    <3> QED
      BY <1>1, <3>2, <3>3
  <2> QED
    BY <2>1, <2>2, <2>3, <2>4
<1> QED
  BY <1>3, <1>4

-----------------------------------------------------------------------------
(* A choice that fits ends the flow well. *)
LEMMA EndsWell ==
  ASSUME FundInv, NEW hs, Chooses(hs), UNCHANGED <<worth, alive, before, amount, cosigns, used>>,
         bumps' \in Nat, Suits(hs), bumps' = 0 => (hs # {} <=> SumOf(alive) >= amount)
  PROVE  FundInv'
<1>1. step' = "over" /\ chosen' = hs /\ UNCHANGED <<main, rest, reached, consumed>>
  BY DEF Chooses, Plan
<1>2. FundTypes' /\ Unspent' /\ OnTheWay'
  BY <1>1 DEF FundInv, FundTypes, Unspent, OnTheWay
<1>3. \A gs : SumOf(gs)' = SumOf(gs)
  BY DEF SumOf
<1>4. Ends'
  BY <1>1, <1>3 DEF Ends, Suits
<1> QED
  BY <1>2, <1>4 DEF FundInv
LEMMA SeenIs ==
  ASSUME FundTypes, NEW seen \in Views, Sees(seen)
  PROVE  /\ seen \in SUBSET DOMAIN worth /\ bumps' \in Nat
         /\ bumps' = 0 => seen = alive /\ bumps = 0
BY DEF FundTypes, Views, Sees

LEMMA ReadKeepsFund ==
  ASSUME FundInv, ReadFunds
  PROVE  FundInv'
<1> USE DEF FundInv
<1>1. PICK seen \in Views :
        /\ Sees(seen)
        /\ IF Exact(seen) # {} THEN ChoosesOne(Exact(seen))
           ELSE IF ~cosigns THEN ChoosesOne(Covering(seen))
           ELSE IF SumOf(seen) < amount THEN Chooses({})
           ELSE Plans(seen)
  BY DEF ReadFunds
<1>2. /\ step = "read" /\ used = {} /\ rest = {}
      /\ UNCHANGED <<worth, alive, before, amount, cosigns, used>>
  BY DEF ReadFunds, Unspent
<1>3. /\ seen \in SUBSET DOMAIN worth /\ bumps' \in Nat
      /\ bumps' = 0 => seen = alive /\ bumps = 0
  BY <1>1, SeenIs
<1>4. /\ amount \in Nat \ {0} /\ SumOf(seen) \in Nat /\ SumOf({}) = 0
      /\ \A hs \in SUBSET seen : SumOf(hs) \in Nat /\ SumOf(hs) <= SumOf(seen)
      /\ \A hs \in SUBSET seen : \A h \in hs : SumOf(hs) = SumOf(hs \ {h}) + worth[h]
      /\ \A h \in DOMAIN worth : worth[h] \in Nat \ {0}
  BY <1>3, Sums DEF FundTypes
<1>5. CASE Exact(seen) # {}
  <2>1. PICK hs \in Exact(seen) : Chooses(hs)
    BY <1>1, <1>5 DEF ChoosesOne
  <2>2. hs \in SUBSET seen /\ SumOf(hs) = amount
    BY DEF Exact
  <2>3. hs # {} /\ SumOf(seen) >= amount
    BY <1>4, <2>2
  <2> QED
    BY <1>2, <1>3, <2>1, <2>2, <2>3, EndsWell DEF Suits
<1>6. CASE Exact(seen) = {} /\ ~cosigns
  <2>1. ChoosesOne(Covering(seen))
    BY <1>1, <1>6
  <2>2. /\ \A hs \in Covering(seen) : hs # {} /\ hs \in SUBSET seen /\ Suits(hs)
        /\ Covering(seen) # {} <=> SumOf(seen) >= amount
    BY <1>3, <1>6, CoveringFits
  <2>3. CASE Covering(seen) = {}
    <3>1. Chooses({})
      BY <2>1, <2>3 DEF ChoosesOne
    <3> QED
      BY <1>2, <1>3, <2>2, <2>3, <3>1, EndsWell DEF Suits
  <2>4. CASE Covering(seen) # {}
    <3>1. PICK hs \in Covering(seen) : Chooses(hs)
      BY <2>1, <2>4 DEF ChoosesOne
    <3> QED
      BY <1>2, <1>3, <2>2, <2>4, <3>1, EndsWell
  <2> QED
    BY <2>3, <2>4
<1>7. CASE Exact(seen) = {} /\ cosigns /\ SumOf(seen) < amount
  <2>1. Chooses({}) /\ Suits({}) /\ ~ (SumOf(seen) >= amount)
    BY <1>1, <1>4, <1>7 DEF Suits
  <2> QED
    BY <1>2, <1>3, <2>1, EndsWell
<1>8. CASE Exact(seen) = {} /\ cosigns /\ ~ (SumOf(seen) < amount)
  <2>1. Plans(seen) /\ UNCHANGED chosen
    BY <1>1, <1>8 DEF Plans
  <2>2. CASE Oversized(seen) # {}
    <3>1. /\ step' = "split" /\ main' \in Oversized(seen)
          /\ UNCHANGED <<rest, reached, consumed>>
      BY <2>1, <2>2 DEF Plans
    <3>2. main' \in seen /\ worth[main'] > amount
      BY <3>1 DEF Oversized, Smallest
    <3>3. FundTypes'
      BY <1>2, <1>3, <3>1, <3>2 DEF FundTypes
    <3>4. Unspent' /\ OnTheWay' /\ Ends'
      BY <1>2, <1>3, <3>1, <3>2 DEF Unspent, OnTheWay, Ends
    <3> QED
      BY <3>3, <3>4
  <2>3. CASE Oversized(seen) = {}
    <3>1. PICK hs \in LargestFirst(seen) :
            /\ step' = "merge" /\ main' \in Largest(hs) /\ rest' = hs \ {main'}
            /\ reached' = worth[main'] /\ consumed' = hs
      BY <2>1, <2>3 DEF Plans
    <3>2. hs \in SUBSET seen /\ SumOf(hs) >= amount /\ main' \in hs /\ main' \in DOMAIN worth
      BY <1>3, <3>1 DEF LargestFirst, Largest
    <3>3. SumOf(hs) # amount
      BY <1>8, <3>2 DEF Exact
    <3>4. reached' \in Nat /\ reached' + SumOf(rest') > amount
      <4>1. PICK h \in hs : h = main'
        BY <3>2
      <4>2. SumOf(hs) = SumOf(hs \ {h}) + worth[h] /\ SumOf(hs) \in Nat /\ worth[h] \in Nat
            /\ SumOf(hs \ {h}) \in Nat
        BY <1>3, <1>4, <3>2
      <4> QED
        BY <1>4, <3>1, <3>2, <3>3, <4>1, <4>2
    <3>5. FundTypes'
      BY <1>2, <1>3, <3>1, <3>2, <3>4 DEF FundTypes
    <3>6. Unspent' /\ Ends'
      BY <1>2, <3>1, <3>2 DEF Unspent, Ends
    <3>7. SumOf(rest)' = SumOf(rest')
      BY <1>2 DEF SumOf
    <3>8. OnTheWay'
      BY <1>2, <1>3, <3>1, <3>2, <3>4, <3>7 DEF OnTheWay
    <3> QED
      BY <3>5, <3>6, <3>8
  <2> QED
    BY <2>2, <2>3
<1> QED
  BY <1>5, <1>6, <1>7, <1>8

-----------------------------------------------------------------------------
LEMMA Replaced ==
  ASSUME FundTypes, NEW old \in SUBSET DOMAIN worth, NEW new \in Purse, Replace(old, new)
  PROVE  /\ worth' \in Purse /\ Len(worth') = Len(worth) + Len(new)
         /\ DOMAIN worth = 1 .. Len(worth) /\ DOMAIN worth \subseteq DOMAIN worth'
         /\ Len(worth) \in Nat /\ Len(new) \in Nat
         /\ \A h \in DOMAIN worth : worth'[h] = worth[h]
         /\ \A k \in 1 .. Len(new) : Len(worth) + k \in alive' /\ worth'[Len(worth) + k] = new[k]
         /\ alive \ old \subseteq alive' /\ alive' \subseteq DOMAIN worth'
         /\ alive' \cap DOMAIN worth \subseteq alive \ old
         /\ before' \subseteq DOMAIN worth' /\ used' = used \cup old
         /\ \A hs \in SUBSET DOMAIN worth : Sum([h \in hs |-> worth'[h]]) = SumOf(hs)
<1>1. /\ worth \in Purse /\ worth' = worth \o new
      /\ alive' = (alive \ old) \cup (Len(worth) + 1 .. Len(worth) + Len(new))
      /\ before' = alive /\ used' = used \cup old /\ alive \subseteq DOMAIN worth
  BY DEF Replace, FundTypes
<1>2. /\ worth' \in Purse /\ Len(worth') = Len(worth) + Len(new)
      /\ DOMAIN worth = 1 .. Len(worth) /\ DOMAIN worth' = 1 .. Len(worth')
      /\ Len(worth) \in Nat /\ Len(new) \in Nat
      /\ \A h \in 1 .. Len(worth) : worth'[h] = worth[h]
      /\ \A k \in 1 .. Len(new) : worth'[Len(worth) + k] = new[k]
  BY <1>1 DEF Purse
<1>3. ASSUME NEW hs \in SUBSET DOMAIN worth
      PROVE  Sum([h \in hs |-> worth'[h]]) = SumOf(hs)
  <2>1. [h \in hs |-> worth'[h]] = [h \in hs |-> worth[h]]
    BY <1>2
  <2> QED
    BY <2>1 DEF SumOf
<1> QED
  BY <1>1, <1>2, <1>3

LEMMA MergeKeepsFund ==
  ASSUME FundInv, Merge
  PROVE  FundInv'
<1> USE DEF FundInv
<1> DEFINE fresh == Len(worth) + 1
<1>1. PICK h \in Largest(rest) :
        /\ Replace({main, h}, <<worth[main] + worth[h]>>)
        /\ rest' = rest \ {h} /\ reached' = reached + worth[h]
        /\ \/ AfterMerge(fresh, rest \ {h})
           \/ step' = "resolve" /\ UNCHANGED <<main, consumed>>
  BY DEF Merge
<1>2. step = "merge" /\ UNCHANGED <<amount, cosigns, chosen, bumps>>
  BY DEF Merge
<1>3. /\ h \in rest /\ h \in DOMAIN worth /\ main \in DOMAIN worth
      /\ main \notin rest /\ rest \cap used = {} /\ used \cup rest \cup {main} \subseteq consumed
  BY <1>1, <1>2 DEF Largest, FundTypes, Unspent
<1>4. worth[main] \in Nat \ {0} /\ worth[h] \in Nat \ {0} /\ reached \in Nat /\ amount \in Nat
  BY <1>3 DEF FundTypes, Purse
<1>5. <<worth[main] + worth[h]>> \in Purse /\ Len(<<worth[main] + worth[h]>>) = 1
      /\ <<worth[main] + worth[h]>>[1] = worth[main] + worth[h]
  BY <1>4 DEF Purse
<1>6. /\ worth' \in Purse /\ Len(worth') = Len(worth) + 1
      /\ DOMAIN worth = 1 .. Len(worth) /\ DOMAIN worth \subseteq DOMAIN worth'
      /\ Len(worth) \in Nat
      /\ \A k \in DOMAIN worth : worth'[k] = worth[k]
      /\ fresh \in alive' /\ worth'[fresh] = worth[main] + worth[h]
      /\ alive \ {main, h} \subseteq alive' /\ alive' \subseteq DOMAIN worth'
      /\ before' \subseteq DOMAIN worth' /\ used' = used \cup {main, h}
      /\ \A hs \in SUBSET DOMAIN worth : Sum([k \in hs |-> worth'[k]]) = SumOf(hs)
  <2>1. {main, h} \in SUBSET DOMAIN worth /\ 1 \in 1 .. 1
    BY <1>3
  <2> HIDE DEF FundInv
  <2>2. FundTypes
    BY DEF FundInv
  <2>3. PICK got \in Purse : got = <<worth[main] + worth[h]>>
    BY <1>5
  <2>4. PICK old \in SUBSET DOMAIN worth : old = {main, h}
    BY <2>1
  <2>5. Replace(old, got)
    BY <1>1, <2>3, <2>4
  <2>6. /\ worth' \in Purse /\ Len(worth') = Len(worth) + Len(got)
        /\ DOMAIN worth = 1 .. Len(worth) /\ DOMAIN worth \subseteq DOMAIN worth'
        /\ Len(worth) \in Nat
        /\ \A k \in DOMAIN worth : worth'[k] = worth[k]
        /\ \A k \in 1 .. Len(got) : Len(worth) + k \in alive' /\ worth'[Len(worth) + k] = got[k]
        /\ alive \ old \subseteq alive' /\ alive' \subseteq DOMAIN worth'
        /\ before' \subseteq DOMAIN worth' /\ used' = used \cup old
        /\ \A hs \in SUBSET DOMAIN worth : Sum([k \in hs |-> worth'[k]]) = SumOf(hs)
    BY <2>2, <2>5, Replaced
  <2>7. Len(got) = 1 /\ got[1] = worth[main] + worth[h] /\ 1 \in 1 .. 1
    BY <1>5, <2>3
  <2>8. Len(worth) + 1 \in alive' /\ worth'[Len(worth) + 1] = got[1]
    BY <2>6, <2>7
  <2> QED
    BY <2>4, <2>6, <2>7, <2>8
<1>7. fresh \notin DOMAIN worth /\ fresh \in DOMAIN worth'
  BY <1>6
<1>8. /\ used' \subseteq consumed /\ rest' \subseteq consumed /\ main \in consumed
      /\ main \notin rest' /\ rest' \cap used' = {} /\ rest' \subseteq DOMAIN worth
      /\ used' \subseteq DOMAIN worth /\ consumed \subseteq DOMAIN worth
  BY <1>1, <1>3, <1>6 DEF FundTypes
<1>9. reached' \in Nat
  BY <1>1, <1>4
<1>10. bumps = 0 => /\ rest' \subseteq alive' /\ worth'[fresh] = reached'
                    /\ reached' + SumOf(rest)' > amount
  <2> SUFFICES ASSUME bumps = 0
               PROVE  /\ rest' \subseteq alive' /\ worth'[fresh] = reached'
                      /\ reached' + SumOf(rest)' > amount
    OBVIOUS
  <2>1. {main} \cup rest \subseteq alive /\ worth[main] = reached /\ reached + SumOf(rest) > amount
    BY <1>2 DEF OnTheWay
  <2>2. SumOf(rest) = SumOf(rest \ {h}) + worth[h] /\ SumOf(rest \ {h}) \in Nat
    BY <1>3, Sums DEF FundTypes
  <2>3. SumOf(rest)' = SumOf(rest \ {h})
    BY <1>1, <1>6, <1>8 DEF SumOf
  <2>4. rest' \subseteq alive'
    BY <1>1, <1>3, <1>6, <2>1
  <2>5. worth'[fresh] = reached'
    BY <1>1, <1>6, <2>1
  <2>6. reached' + SumOf(rest)' > amount
    BY <1>1, <1>4, <2>1, <2>2, <2>3
  <2> QED
    BY <2>4, <2>5, <2>6
<1>11. CASE AfterMerge(fresh, rest \ {h})
  <2>1. /\ main' = fresh /\ consumed' = consumed \cup {fresh}
        /\ step' = IF rest' = {} THEN "split" ELSE "merge"
    BY <1>1, <1>11 DEF AfterMerge
  <2>2. FundTypes'
    BY <1>2, <1>6, <1>7, <1>8, <1>9, <2>1 DEF FundTypes
  <2>3. Unspent' /\ Ends'
    BY <1>7, <1>8, <2>1 DEF Unspent, Ends
  <2>4. rest' = {} => SumOf(rest)' = 0
    <3>1. [k \in {} |-> worth'[k]] \in [{} -> Nat] /\ IsFiniteSet({})
      BY FS_EmptySet
    <3> QED
      BY <3>1, SumZero DEF SumOf
  <2>5. bumps = 0 /\ rest' = {} => main' \in alive' /\ worth'[main'] > amount'
    BY <1>2, <1>4, <1>6, <1>9, <1>10, <2>1, <2>4
  <2>6. bumps = 0 => /\ {main'} \cup rest' \subseteq alive' /\ worth'[main'] = reached'
                     /\ reached' + SumOf(rest)' > amount'
    BY <1>2, <1>6, <1>10, <2>1
  <2>7. OnTheWay'
    BY <1>2, <2>1, <2>5, <2>6 DEF OnTheWay
  <2> QED
    BY <2>2, <2>3, <2>7
<1>12. CASE step' = "resolve" /\ UNCHANGED <<main, consumed>>
  <2>1. FundTypes'
    BY <1>2, <1>3, <1>6, <1>8, <1>9, <1>12 DEF FundTypes
  <2>2. Unspent' /\ Ends'
    BY <1>8, <1>12 DEF Unspent, Ends
  <2>3. OnTheWay'
    BY <1>2, <1>6, <1>7, <1>8, <1>10, <1>12 DEF OnTheWay
  <2> QED
    BY <2>1, <2>2, <2>3
<1> QED
  BY <1>1, <1>11, <1>12

LEMMA ResolveKeepsFund ==
  ASSUME FundInv, Resolve
  PROVE  FundInv'
<1> USE DEF FundInv
<1>1. /\ step = "resolve" /\ UNCHANGED <<worth, alive, before, amount, cosigns, used>>
      /\ \E seen \in Views :
           LET exact == {h \in Candidates(seen) : worth[h] = reached}
               found == IF exact # {} THEN exact ELSE Largest(Candidates(seen))
           IN /\ Sees(seen)
              /\ IF found = {} THEN Chooses({})
                 ELSE /\ \E h \in found : AfterMerge(h, rest)
                      /\ UNCHANGED <<rest, reached, chosen>>
  BY DEF Resolve
<1>2. PICK seen \in Views :
        LET exact == {h \in Candidates(seen) : worth[h] = reached}
            found == IF exact # {} THEN exact ELSE Largest(Candidates(seen))
        IN /\ Sees(seen)
           /\ IF found = {} THEN Chooses({})
              ELSE /\ \E h \in found : AfterMerge(h, rest)
                   /\ UNCHANGED <<rest, reached, chosen>>
  BY <1>1
<1> DEFINE exact == {h \in Candidates(seen) : worth[h] = reached}
           found == IF exact # {} THEN exact ELSE Largest(Candidates(seen))
<1>3. /\ seen \in SUBSET DOMAIN worth /\ bumps' \in Nat
      /\ bumps' = 0 => seen = alive /\ bumps = 0
  BY <1>2, SeenIs
<1>4. bumps' = 0 => /\ exact # {} /\ rest \subseteq alive
                    /\ reached + SumOf(rest) > amount
  BY <1>1, <1>3 DEF OnTheWay, Candidates
<1>5. found \subseteq Candidates(seen) /\ (exact # {} => found = exact)
  BY DEF Largest
<1>6. CASE found = {}
  <2>1. Chooses({}) /\ Suits({}) /\ bumps' # 0
    BY <1>2, <1>4, <1>5, <1>6 DEF Suits
  <2> QED
    BY <1>1, <1>3, <2>1, EndsWell
<1>7. CASE found # {}
  <2>1. PICK h \in found : AfterMerge(h, rest)
    BY <1>2, <1>7
  <2>2. UNCHANGED <<rest, reached, chosen>>
    BY <1>2, <1>7
  <2>3. h \in seen /\ h \notin consumed /\ h \in DOMAIN worth
    BY <1>3, <1>5, <2>1 DEF Candidates
  <2>4. /\ main' = h /\ consumed' = consumed \cup {h}
        /\ step' = IF rest = {} THEN "split" ELSE "merge"
    BY <2>1 DEF AfterMerge
  <2>5. FundTypes'
    BY <1>1, <1>3, <2>2, <2>3, <2>4 DEF FundTypes
  <2>6. /\ main \notin rest /\ rest \cap used = {}
        /\ used \cup rest \cup {main} \subseteq consumed
    BY <1>1 DEF Unspent
  <2>7. Unspent' /\ Ends'
    BY <1>1, <2>2, <2>3, <2>4, <2>6 DEF Unspent, Ends
  <2>8. bumps' = 0 => h \in alive /\ worth[h] = reached
    BY <1>3, <1>4, <1>5, <2>1, <2>3
  <2>9. SumOf(rest)' = SumOf(rest) /\ SumOf({}) = 0 /\ reached \in Nat /\ amount \in Nat
    BY <1>1, <2>2, Sums DEF SumOf, FundTypes
  <2>10. bumps' = 0 /\ rest = {} => reached > amount
    BY <1>4, <2>9
  <2>11. OnTheWay'
    BY <1>1, <1>4, <2>2, <2>4, <2>8, <2>9, <2>10 DEF OnTheWay
  <2> QED
    BY <2>5, <2>7, <2>11
<1> QED
  BY <1>6, <1>7

LEMMA SplitKeepsFund ==
  ASSUME FundInv, Split
  PROVE  FundInv'
<1> USE DEF FundInv
<1> DEFINE new == <<amount, worth[main] - amount>>
<1>1. /\ step = "split" /\ worth[main] > amount /\ step' = "reread" /\ Replace({main}, new)
      /\ UNCHANGED <<main, rest, reached, consumed, amount, cosigns, chosen, bumps>>
  BY DEF Split, Plan
<1>2. main \in DOMAIN worth /\ worth[main] \in Nat /\ amount \in Nat \ {0}
  BY <1>1 DEF FundTypes, Purse
<1>3. new \in Purse /\ Len(new) = 2 /\ new[1] = amount
  BY <1>1, <1>2 DEF Purse
<1> HIDE DEF new
<1>4. /\ worth' \in Purse /\ DOMAIN worth \subseteq DOMAIN worth'
      /\ Len(worth) + 1 \in alive' /\ worth'[Len(worth) + 1] = amount
      /\ alive' \subseteq DOMAIN worth' /\ before' \subseteq DOMAIN worth'
      /\ used' = used \cup {main}
  <2>1. {main} \in SUBSET DOMAIN worth /\ 1 \in 1 .. 2 /\ FundTypes
    BY <1>2
  <2> HIDE DEF FundInv
  <2>2. FundTypes
    BY DEF FundInv
  <2>3. PICK got \in Purse : got = new
    BY <1>3
  <2>4. PICK old \in SUBSET DOMAIN worth : old = {main}
    BY <2>1
  <2>5. Replace(old, got)
    BY <1>1, <2>3, <2>4
  <2>6. /\ worth' \in Purse /\ Len(worth') = Len(worth) + Len(got)
        /\ DOMAIN worth = 1 .. Len(worth) /\ DOMAIN worth \subseteq DOMAIN worth'
        /\ Len(worth) \in Nat
        /\ \A k \in DOMAIN worth : worth'[k] = worth[k]
        /\ \A k \in 1 .. Len(got) : Len(worth) + k \in alive' /\ worth'[Len(worth) + k] = got[k]
        /\ alive \ old \subseteq alive' /\ alive' \subseteq DOMAIN worth'
        /\ before' \subseteq DOMAIN worth' /\ used' = used \cup old
        /\ \A hs \in SUBSET DOMAIN worth : Sum([k \in hs |-> worth'[k]]) = SumOf(hs)
    BY <2>2, <2>5, Replaced
  <2>7. Len(got) = 2 /\ got[1] = amount /\ 1 \in 1 .. 2
    BY <1>3, <2>3
  <2>8. Len(worth) + 1 \in alive' /\ worth'[Len(worth) + 1] = got[1]
    BY <2>6, <2>7
  <2> QED
    BY <2>4, <2>6, <2>7, <2>8
<1>5. FundTypes'
  BY <1>1, <1>2, <1>4 DEF FundTypes
<1>6. Unspent' /\ OnTheWay' /\ Ends'
  BY <1>1, <1>4 DEF Unspent, OnTheWay, Ends
<1> QED
  BY <1>5, <1>6

LEMMA RereadKeepsFund ==
  ASSUME FundInv, Reread
  PROVE  FundInv'
<1> USE DEF FundInv
<1>1. /\ step = "reread" /\ UNCHANGED <<worth, alive, before, amount, cosigns, used>>
      /\ \E seen \in Views : Sees(seen) /\ ChoosesOne(Exact(seen))
  BY DEF Reread
<1>2. PICK seen \in Views : Sees(seen) /\ ChoosesOne(Exact(seen))
  BY <1>1
<1>3. /\ seen \in SUBSET DOMAIN worth /\ bumps' \in Nat
      /\ bumps' = 0 => seen = alive /\ bumps = 0
  BY <1>2, SeenIs
<1>4. /\ amount \in Nat \ {0} /\ SumOf({}) = 0
      /\ \A h \in DOMAIN worth : SumOf({h}) = worth[h]
      /\ \A hs \in SUBSET seen : SumOf(hs) \in Nat /\ SumOf(hs) <= SumOf(seen)
  BY <1>3, Sums DEF FundTypes
<1>5. bumps' = 0 => Exact(seen) # {}
  <2> SUFFICES ASSUME bumps' = 0 PROVE Exact(seen) # {}
    OBVIOUS
  <2>1. PICK h \in alive : worth[h] = amount
    BY <1>1, <1>3 DEF OnTheWay
  <2>2. {h} \in SUBSET seen /\ SumOf({h}) = amount
    BY <1>3, <1>4, <2>1
  <2> QED
    BY <2>2 DEF Exact
<1>6. CASE Exact(seen) = {}
  <2>1. Chooses({}) /\ Suits({})
    BY <1>2, <1>6 DEF ChoosesOne, Suits
  <2> QED
    BY <1>1, <1>3, <1>5, <1>6, <2>1, EndsWell
<1>7. CASE Exact(seen) # {}
  <2>1. PICK hs \in Exact(seen) : Chooses(hs)
    BY <1>2, <1>7 DEF ChoosesOne
  <2>2. hs \in SUBSET seen /\ SumOf(hs) = amount
    BY DEF Exact
  <2>3. hs # {} /\ SumOf(seen) >= amount /\ Suits(hs)
    BY <1>4, <2>2 DEF Suits
  <2> QED
    BY <1>1, <1>3, <2>1, <2>3, EndsWell
<1> QED
  BY <1>6, <1>7

LEMMA FailKeepsFund ==
  ASSUME FundInv, Fail
  PROVE  FundInv'
<1>1. bumps \in Nat
  BY DEF FundInv, FundTypes
<1>2. CASE Declined
  <2>1. /\ Chooses({}) /\ Suits({}) /\ bumps' \in Nat /\ bumps' # 0
        /\ UNCHANGED <<worth, alive, before, amount, cosigns, used>>
    BY <1>1, <1>2 DEF Declined, Bump, Suits
  <2> QED
    BY <2>1, EndsWell
<1>3. CASE Impossible /\ Chooses({}) /\ UNCHANGED <<worth, alive, before, amount, cosigns, used, bumps>>
  <2>1. bumps # 0
    <3> SUFFICES ASSUME bumps = 0 PROVE FALSE
      OBVIOUS
    <3>1. CASE step = "merge"
      <4>1. {main} \cup rest \subseteq alive /\ Largest(rest) \subseteq rest
        BY <3>1 DEF FundInv, OnTheWay, Largest
      <4> QED
        BY <1>3, <3>1, <4>1 DEF Impossible
    <3>2. CASE step = "split"
      <4>1. main \in alive /\ worth[main] > amount /\ worth[main] \in Nat /\ amount \in Nat
        BY <3>2 DEF FundInv, OnTheWay, FundTypes, Purse
      <4> QED
        BY <1>3, <3>2, <4>1 DEF Impossible
    <3> QED
      BY <1>3, <3>1, <3>2 DEF Impossible
  <2>2. Suits({})
    BY DEF Suits
  <2> QED
    BY <1>1, <1>3, <2>1, <2>2, EndsWell
<1> QED
  BY <1>2, <1>3 DEF Fail

(* What others do is told apart from then on. *)
LEMMA OthersKeepFund ==
  ASSUME FundInv, Others
  PROVE  FundInv'
<1> USE DEF FundInv
<1>1. /\ step # "over" /\ bumps' = bumps + 1 /\ before' = alive
      /\ UNCHANGED <<amount, cosigns, step, main, rest, reached, consumed, chosen, used>>
      /\ \/ \E h \in alive : alive' = alive \ {h} /\ UNCHANGED worth
         \/ worth' = Append(worth, 1) /\ alive' = alive \cup {Len(worth) + 1}
  BY DEF Others, Bump, Plan
<1>2. /\ worth' \in Purse /\ DOMAIN worth \subseteq DOMAIN worth'
      /\ alive' \subseteq DOMAIN worth'
  <2>1. CASE \E h \in alive : alive' = alive \ {h} /\ UNCHANGED worth
    BY <2>1 DEF FundTypes
  <2>2. CASE worth' = Append(worth, 1) /\ alive' = alive \cup {Len(worth) + 1}
    <3>1. worth \in Seq(Nat \ {0}) /\ alive \subseteq DOMAIN worth
      BY DEF FundTypes, Purse
    <3>2. /\ worth' \in Seq(Nat \ {0}) /\ DOMAIN worth = 1 .. Len(worth)
          /\ DOMAIN worth' = 1 .. Len(worth) + 1 /\ Len(worth) \in Nat
      BY <2>2, <3>1
    <3> QED
      BY <2>2, <3>1, <3>2 DEF Purse
  <2> QED
    BY <1>1, <2>1, <2>2
<1>3. FundTypes'
  BY <1>1, <1>2 DEF FundTypes
<1>4. bumps' # 0
  BY <1>1 DEF FundTypes
<1>5. Unspent' /\ OnTheWay' /\ Ends'
  BY <1>1, <1>4 DEF Unspent, OnTheWay, Ends
<1> QED
  BY <1>3, <1>5

LEMMA NextFund == FundInv /\ [FundingNext]_FundingVars => FundInv'
<1> SUFFICES ASSUME FundInv, [FundingNext]_FundingVars PROVE FundInv'
  OBVIOUS
<1>1. CASE UNCHANGED FundingVars
  BY <1>1 DEF FundingVars, FundInv, FundTypes, Unspent, OnTheWay, Ends, Suits, SumOf
<1>2. CASE FundingNext
  BY <1>2, ReadKeepsFund, MergeKeepsFund, ResolveKeepsFund, SplitKeepsFund,
     RereadKeepsFund, FailKeepsFund, OthersKeepFund DEF FundingNext
<1> QED
  BY <1>1, <1>2

LEMMA InitFund == FundingInit => FundInv
<1> SUFFICES ASSUME FundingInit PROVE FundInv
  OBVIOUS
<1>1. FundTypes
  BY FundingAssumption DEF FundingInit, FundTypes, Purse
<1> QED
  BY <1>1 DEF FundingInit, FundInv, Unspent, OnTheWay, Ends

(* What is chosen is the amount, or covers it without a holding to spare;  *)
(* a choice is found whenever the holdings suffice and nothing intervenes; *)
(* and no holding is handed to the wallet a second time.                   *)
THEOREM FundsAreFound == FundingSpec => []FundsFound
BY InitFund, NextFund, FundInvEnough, PTL DEF FundingSpec

-----------------------------------------------------------------------------
(***************************************************************************)
(* The order of recovered allocations, for transactions of any length.     *)
(***************************************************************************)
(* What has distinct ranks can be put in their order. *)
LEMMA SortExists ==
  ASSUME NEW S, IsFiniteSet(S), NEW rank \in [S -> Nat],
         \A i, j \in S : i # j => rank[i] # rank[j]
  PROVE  \E s \in [1 .. Cardinality(S) -> S] :
           \A k, l \in DOMAIN s : k < l => rank[s[k]] < rank[s[l]]
<1> DEFINE Sorts(X, s) == \A k, l \in DOMAIN s : k < l => rank[s[k]] < rank[s[l]]
           T == {n \in Nat : \A X \in SUBSET S : Cardinality(X) = n =>
                               \E s \in [1 .. n -> X] : Sorts(X, s)}
           R == {c \in S \X S : rank[c[1]] > rank[c[2]]}
<1>1. 0 \in T
  <2> SUFFICES ASSUME NEW X \in SUBSET S
               PROVE  \E s \in [1 .. 0 -> X] : Sorts(X, s)
    OBVIOUS
  <2>1. [k \in 1 .. 0 |-> 0] \in [1 .. 0 -> X] /\ DOMAIN [k \in 1 .. 0 |-> 0] = {}
    OBVIOUS
  <2> QED
    BY <2>1
<1>2. ASSUME NEW n \in Nat, n \in T
      PROVE  n + 1 \in T
  <2> SUFFICES ASSUME NEW X \in SUBSET S, Cardinality(X) = n + 1
               PROVE  \E s \in [1 .. n + 1 -> X] : Sorts(X, s)
    OBVIOUS
  <2>1. IsFiniteSet(X) /\ X # {}
    BY FS_Subset, FS_EmptySet
  <2>2. PICK m \in X : \A i \in X \ {m} : rank[m] > rank[i]
    <3>1. /\ \A x, y, z \in X : <<x, y>> \in R /\ <<y, z>> \in R => <<x, z>> \in R
          /\ \A x, y \in X : x # y => <<x, y>> \in R \/ <<y, x>> \in R
      OBVIOUS
    <3>2. \A x, y \in X : <<x, y>> \in R <=> rank[x] > rank[y]
      OBVIOUS
    <3> HIDE DEF R
    <3>3. \E x \in X : \A y \in X \ {x} : <<x, y>> \in R
      BY <2>1, <3>1, FirstExists
    <3> QED
      BY <3>2, <3>3
  <2>3. Cardinality(X \ {m}) = n /\ X \ {m} \in SUBSET S
    <3>1. Cardinality(X \ {m}) = Cardinality(X) - 1
      BY <2>1, FS_RemoveElement
    <3> QED
      BY <3>1
  <2>4. PICK s \in [1 .. n -> X \ {m}] : Sorts(X \ {m}, s)
    BY <1>2, <2>3
  <2> DEFINE t == [k \in 1 .. n + 1 |-> IF k = n + 1 THEN m ELSE s[k]]
  <2>5. t \in [1 .. n + 1 -> X]
    OBVIOUS
  <2>6. ASSUME NEW k \in 1 .. n + 1, NEW l \in 1 .. n + 1, k < l
        PROVE  rank[t[k]] < rank[t[l]]
    <3>1. k \in 1 .. n /\ t[k] = s[k] /\ s[k] \in X \ {m}
      BY <2>6
    <3>2. CASE l = n + 1
      BY <2>2, <3>1, <3>2
    <3>3. CASE l # n + 1
      BY <2>4, <2>6, <3>1, <3>3
    <3> QED
      BY <3>2, <3>3
  <2> QED
    BY <2>5, <2>6
<1> HIDE DEF T
<1>3. Cardinality(S) \in T
  BY <1>1, <1>2, Induction, FS_CardinalityType
<1> QED
  BY <1>3 DEF T

RecoveryTypes ==
  /\ \E n \in Nat : commands \in [1 .. n -> CommandOf]
  /\ wanted \in Nat

(* An answer lists, in order, as many allocations as are wanted. *)
InCommandOrder ==
  answer \notin {Unanswered, Failure} =>
    \E is \in SUBSET Allocations : answer = Ordered(is) /\ Len(answer) = wanted

(* The nodes of later commands come later. *)
LEMMA NodesInOrder ==
  ASSUME NEW i \in Nat, NEW j \in Nat
  PROVE  NodeOf(i) \in Nat /\ (NodeOf(i) < NodeOf(j) => i <= j) /\ (i # j => NodeOf(i) # NodeOf(j))
BY DEF NodeOf

LEMMA OrderedIs ==
  ASSUME RecoveryTypes, NEW is \in SUBSET Allocations
  PROVE  /\ IsFiniteSet(is) /\ Cardinality(is) \in Nat
         /\ Ordered(is) \in [1 .. Cardinality(is) -> is]
         /\ \A k, l \in 1 .. Cardinality(is) : k < l => Ordered(is)[k] < Ordered(is)[l]
<1>1. PICK n \in Nat : DOMAIN commands = 1 .. n
  BY DEF RecoveryTypes
<1>2. is \subseteq Nat /\ is \in SUBSET (1 .. n)
  BY <1>1 DEF Allocations
<1>3. IsFiniteSet(is) /\ Cardinality(is) \in Nat
  <2>1. IsFiniteSet(1 .. n)
    BY FS_Interval
  <2> QED
    BY <1>2, <2>1, FS_Subset, FS_CardinalityType
<1> DEFINE rank == [i \in is |-> NodeOf(i)]
<1>4. rank \in [is -> Nat] /\ \A i, j \in is : i # j => rank[i] # rank[j]
  BY <1>2, NodesInOrder
<1>5. \A i \in is : rank[i] = NodeOf(i)
  OBVIOUS
<1> HIDE DEF rank
<1>6. \E s \in [1 .. Cardinality(is) -> is] :
        \A k, l \in DOMAIN s : k < l => rank[s[k]] < rank[s[l]]
  BY <1>3, <1>4, SortExists
<1>7. \E s \in [1 .. Cardinality(is) -> is] :
        \A k, l \in DOMAIN s : k < l => NodeOf(s[k]) < NodeOf(s[l])
  BY <1>5, <1>6
<1>8. /\ Ordered(is) \in [1 .. Cardinality(is) -> is]
      /\ \A k, l \in DOMAIN Ordered(is) : k < l => NodeOf(Ordered(is)[k]) < NodeOf(Ordered(is)[l])
  BY <1>7 DEF Ordered
<1>9. ASSUME NEW k \in 1 .. Cardinality(is), NEW l \in 1 .. Cardinality(is), k < l
      PROVE  Ordered(is)[k] < Ordered(is)[l]
  <2>1. PICK i \in is, j \in is : i = Ordered(is)[k] /\ j = Ordered(is)[l]
    BY <1>8
  <2>2. NodeOf(i) < NodeOf(j) /\ i \in Nat /\ j \in Nat /\ NodeOf(i) \in Nat /\ NodeOf(j) \in Nat
    BY <1>2, <1>8, <1>9, <2>1, NodesInOrder
  <2>3. i <= j /\ i # j
    BY <2>2, NodesInOrder
  <2> QED
    BY <2>1, <2>2, <2>3
<1> QED
  BY <1>3, <1>8, <1>9

LEMMA RecoveredIfInOrder == RecoveryTypes /\ InCommandOrder => RecoveredInOrder
<1> SUFFICES ASSUME RecoveryTypes, InCommandOrder, answer \notin {Unanswered, Failure},
                    wanted = Cardinality(Allocations)
             PROVE  /\ {answer[k] : k \in DOMAIN answer} = Allocations
                    /\ \A k, l \in DOMAIN answer : k < l => answer[k] < answer[l]
  BY DEF RecoveredInOrder
<1>1. PICK is \in SUBSET Allocations : answer = Ordered(is) /\ Len(answer) = wanted
  BY DEF InCommandOrder
<1> DEFINE c == Cardinality(is)
<1>2. /\ IsFiniteSet(is) /\ c \in Nat /\ answer \in [1 .. c -> is]
      /\ \A k, l \in 1 .. c : k < l => answer[k] < answer[l]
  BY <1>1, OrderedIs
<1>3. c = wanted
  BY <1>1, <1>2
<1>4. IsFiniteSet(Allocations)
  BY OrderedIs
<1>5. is = Allocations
  BY <1>3, <1>4, FS_Subset
<1>6. is \subseteq Nat
  BY DEF Allocations, RecoveryTypes
<1>7. \A k, l \in 1 .. c : answer[k] = answer[l] => k = l
  <2> SUFFICES ASSUME NEW k \in 1 .. c, NEW l \in 1 .. c, k # l
               PROVE  answer[k] # answer[l]
    OBVIOUS
  <2>1. answer[k] \in Nat /\ answer[l] \in Nat
    BY <1>2, <1>6
  <2> QED
    BY <1>2, <2>1
<1>8. answer \in Injection(1 .. c, is)
  BY <1>2, <1>7, Fun_IsInj
<1>9. IsFiniteSet(1 .. c) /\ Cardinality(1 .. c) = c
  BY <1>2, FS_Interval
<1>10. answer \in Surjection(1 .. c, is)
  BY <1>2, <1>8, <1>9, FS_Injection
<1>11. \A i \in is : \E k \in 1 .. c : answer[k] = i
  BY <1>10 DEF Surjection
<1> QED
  BY <1>2, <1>5, <1>11

LEMMA RecoveryStep ==
  RecoveryTypes /\ InCommandOrder /\ [RecoveryNext]_RecoveryVars => RecoveryTypes' /\ InCommandOrder'
<1> SUFFICES ASSUME RecoveryTypes, InCommandOrder, [RecoveryNext]_RecoveryVars
             PROVE  RecoveryTypes' /\ InCommandOrder'
  OBVIOUS
<1>1. CASE UNCHANGED RecoveryVars
  <2>1. UNCHANGED <<commands, wanted, answer>>
    BY <1>1 DEF RecoveryVars
  <2>2. Allocations' = Allocations /\ \A is : Ordered(is)' = Ordered(is)
    BY <2>1 DEF Allocations, Allocates, Ordered, NodeOf, Stated
  <2> QED
    BY <2>1, <2>2 DEF RecoveryTypes, InCommandOrder
<1>2. CASE Recover
  <2>1. UNCHANGED <<commands, wanted>>
    BY <1>2 DEF Recover
  <2>2. RecoveryTypes'
    BY <2>1 DEF RecoveryTypes
  <2>3. Stated \subseteq Allocations /\ Active \subseteq Allocations
    BY DEF Stated, Active, Allocations, Allocates
  <2>4. \E is \in SUBSET Allocations :
          answer' = IF Len(Ordered(is)) = wanted THEN Ordered(is) ELSE Failure
    <3>1. CASE driver # "created" /\ Suffice
      BY <1>2, <2>3, <3>1 DEF Recover, FromTree
    <3>2. CASE driver # "created" /\ ~ Suffice
      BY <1>2, <2>3, <3>2 DEF Recover, FromTree
    <3>3. CASE driver = "created"
      <4>1. {i \in DOMAIN commands : Allocates(i) /\ commands[i].own} \subseteq Allocations
        BY DEF Allocations
      <4> QED
        BY <1>2, <3>3, <4>1 DEF Recover, FromCreated
    <3> QED
      BY <3>1, <3>2, <3>3
  <2>5. PICK is \in SUBSET Allocations :
          answer' = IF Len(Ordered(is)) = wanted THEN Ordered(is) ELSE Failure
    BY <2>4
  <2>6. Allocations' = Allocations /\ \A i : Ordered(i)' = Ordered(i)
    BY <2>1 DEF Allocations, Allocates, Ordered, NodeOf, Stated
  <2>7. CASE Len(Ordered(is)) = wanted
    BY <2>1, <2>2, <2>5, <2>6, <2>7 DEF InCommandOrder
  <2>8. CASE Len(Ordered(is)) # wanted
    BY <2>2, <2>5, <2>8 DEF InCommandOrder
  <2> QED
    BY <2>2, <2>7, <2>8
<1> QED
  BY <1>1, <1>2 DEF RecoveryNext

(* What is recovered, when it is as many allocations as the transaction    *)
(* made, is all of them in the order of its commands.                      *)
THEOREM RecoversInOrder == RecoverySpec => []RecoveredInOrder
<1>1. RecoveryInit => RecoveryTypes /\ InCommandOrder
  <2> SUFFICES ASSUME RecoveryInit PROVE RecoveryTypes /\ InCommandOrder
    OBVIOUS
  <2>1. RecoveryTypes
    BY RecoveryAssumption DEF RecoveryInit, RecoveryTypes
  <2>2. InCommandOrder
    BY DEF RecoveryInit, InCommandOrder
  <2> QED
    BY <2>1, <2>2
<1> QED
  BY <1>1, RecoveryStep, RecoveredIfInOrder, PTL DEF RecoverySpec
=============================================================================
