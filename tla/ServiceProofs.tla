--------------------------- MODULE ServiceProofs ---------------------------
(***************************************************************************)
(* What the operator's services promise, for every value of the constants: *)
(* idempotent submission, the indexer, bilateral trades and the rest of    *)
(* the backend, one section each.  They share no state, so each has an     *)
(* inductive invariant of its own.                                         *)
(***************************************************************************)
EXTENDS Submissions, Feeds, TradeDesk, PoolDesk, OrderDesk, TotalsProofs

-----------------------------------------------------------------------------
(***************************************************************************)
(* What IdempotentLedger guarantees, for any number of handlers,           *)
(* arguments, retries, crashes, lost answers and answers that come too     *)
(* late.                                                                   *)
(*                                                                         *)
(* The argument for the repeats: whoever claims the row takes up the one   *)
(* opening there is, and an opening arises only where a handler gives its  *)
(* submission up, an outcome goes unrecorded, or the row is released       *)
(* before its answer comes (Spent).  For the answers: a row keeps its      *)
(* arguments while a handler is out with them, always for a create, and    *)
(* for an exercise as long as no row is released too early, for then the   *)
(* only handler that is out owns the row (OneOwner).                       *)
(***************************************************************************)
\* Those who are out, but for those with an acceptance to record.
Out == {p \in Caller : \/ call[p].phase = "sent"
                       \/ call[p].phase = "back" /\ call[p].reply # "ok"}

\* May the row be claimed, now or when its time is up?
Held == \E p \in Caller : p = row.owner /\ Busy(p)
Slot == IF \/ row.status \in {"none", "error"}
           \/ row.status = "pending" /\ (row.stale \/ ~Held)
        THEN 1 ELSE 0

Spent == effects + adrift + Cardinality(Out) + Slot <= 1 + gaps + overtaken

OneOwner == \A p \in Caller : Busy(p) =>
  row.status = "pending" /\ ~row.stale /\ row.owner = p

RowFits == \A p \in Caller : Busy(p) => row.status # "none" /\ row.args = call[p].args

CachedIsOwn == row.status = "ok" => row.answer = row.args

Bound == kind = "create" \/ overtaken = 0
AnswersOwn == (overtaken = 0 => OneOwner) /\ (Bound => RowFits /\ CachedIsOwn) /\ OwnAnswer

-----------------------------------------------------------------------------
\* Every value stays in its set.
THEOREM SubmissionsTyped == SubmissionsSpec => []SubmissionsTypes
<1> USE SubmissionsAssumption
<1>1. SubmissionsInit => SubmissionsTypes
  BY DEF SubmissionsInit, SubmissionsTypes, NoRow, Rows, Idle, Calls
<1>2. SubmissionsTypes /\ [SubmissionsNext]_SubmissionsVars => SubmissionsTypes'
  <2> SUFFICES ASSUME SubmissionsTypes, [SubmissionsNext]_SubmissionsVars
               PROVE  SubmissionsTypes'
    OBVIOUS
  <2> USE DEF SubmissionsTypes
  <2>0. NoRow \in Rows /\ Idle \in Calls
    BY DEF NoRow, Idle, Rows, Calls
  <2>1. ASSUME NEW p \in Caller, NEW a \in Argument, NEW n \in Nat, Enter(p, a, n)
        PROVE  row' \in Rows /\ call' \in [Caller -> Calls]
               /\ answered' \in SUBSET (Argument \X (Argument \cup {"none"}))
    <3>1. CASE Conflicts(a) \/ InFlight(a)
      BY <2>0, <2>1, <3>1 DEF Enter, Conflicts, InFlight, Cached, Claimable, Claimed, Rows, Calls, CountTry
    <3>2. CASE Cached(a)
      BY <2>0, <2>1, <3>2 DEF Enter, Cached, Conflicts, InFlight, Claimable, Rows
    <3>3. CASE Claimable(a)
      <4>1. Claimed(p, a) \in Rows
        BY DEF Claimed, Rows
      <4>2. [phase |-> "sent", args |-> a, tries |-> CountTry(n), reply |-> "none"] \in Calls
        BY DEF Calls, CountTry
      <4> QED
        BY <2>1, <3>3, <4>1, <4>2 DEF Enter, Claimable, Cached, InFlight
    <3> QED
      BY <3>1, <3>2, <3>3 DEF Claimable
  <2>2. ASSUME NEW p \in Caller, NEW a \in Argument, Call(p, a)
        PROVE  SubmissionsTypes'
    BY <2>1, <2>2 DEF Call
  <2>3. ASSUME NEW p \in Caller, Retry(p)
        PROVE  SubmissionsTypes'
    <3>1. call[p].args \in Argument /\ call[p].tries \in Nat
      BY <2>3 DEF Retry, Calls, Idle
    <3> QED
      BY <2>1, <2>3, <3>1 DEF Retry
  <2>4. ASSUME NEW p \in Caller, call[p].phase # "idle"
        PROVE  /\ call[p].args \in Argument
               /\ \A r \in {"none", "ok", "contention", "failed"} :
                    Replied(p, r) \in [Caller -> Calls]
    BY <2>4 DEF Replied, Calls, Idle
  <2>5. ASSUME NEW p \in Caller, Commit(p) \/ Refuse(p) \/ LoseAnswer(p)
        PROVE  SubmissionsTypes'
    <3>1. call[p].phase # "idle"
      BY <2>5 DEF Commit, Refuse, LoseAnswer
    <3>2. call' \in [Caller -> Calls]
      BY <2>4, <2>5, <3>1 DEF Commit, Refuse, LoseAnswer
    <3>3. CASE Commit(p)
      <4>1. live' \in BOOLEAN
        BY <3>3 DEF Commit, Takes
      <4>2. effects' \in Nat
        BY <3>3 DEF Commit, Takes
      <4> QED
        BY <3>2, <3>3, <4>1, <4>2 DEF Commit
    <3>4. CASE Refuse(p)
      BY <3>2, <3>4 DEF Refuse
    <3>5. CASE LoseAnswer(p)
      BY <3>2, <3>5 DEF LoseAnswer
    <3> QED
      BY <2>5, <3>3, <3>4, <3>5
  <2>6. ASSUME NEW p \in Caller, Answer(p)
        PROVE  SubmissionsTypes'
    <3>1. call[p].args \in Argument /\ call[p].tries \in Nat
      BY <2>6 DEF Answer, Calls, Idle
    <3>2. Recorded("ok", call[p].args) \in Rows /\ Recorded("error", "none") \in Rows
      BY <3>1 DEF Recorded, Rows
    <3>3. call' \in [Caller -> Calls]
      <4>1. [phase |-> "waiting", args |-> call[p].args, tries |-> call[p].tries,
             reply |-> "none"] \in Calls
        BY <3>1 DEF Calls
      <4> QED
        BY <2>0, <2>6, <4>1 DEF Answer
    <3> QED
      BY <2>6, <3>1, <3>2, <3>3 DEF Answer
  <2>7. ASSUME Drift \/ Rival \/ GoStale \/ Crash \/ Sweep
        PROVE  SubmissionsTypes'
    <3>1. CASE Drift
      <4>1. live' \in BOOLEAN
        <5>1. CASE Takes
          BY <5>1 DEF Takes
        <5> QED
          BY <3>1, <5>1 DEF Drift
      <4>2. effects' \in Nat
        BY <3>1 DEF Drift, Takes
      <4> QED
        BY <3>1, <4>1, <4>2 DEF Drift
    <3>2. CASE Rival
      BY <3>2 DEF Rival
    <3>3. CASE GoStale
      <4>1. row' \in Rows
        BY <3>3 DEF GoStale, Rows
      <4>2. overtaken' \in Nat
        BY <3>3 DEF GoStale
      <4> QED
        BY <3>3, <4>1, <4>2 DEF GoStale
    <3>4. CASE Crash
      <4>1. call' \in [Caller -> Calls]
        BY <2>0, <3>4 DEF Crash
      <4>2. adrift' \in Nat
        <5>1. Cardinality({p \in Caller : call[p].phase = "sent"}) \in Nat
          BY FS_Subset, FS_CardinalityType
        <5> QED
          BY <3>4, <5>1 DEF Crash
      <4> QED
        BY <3>4, <4>1, <4>2 DEF Crash
    <3>5. CASE Sweep
      BY <2>0, <3>5 DEF Sweep
    <3> QED
      BY <2>7, <3>1, <3>2, <3>3, <3>4, <3>5
  <2>8. CASE UNCHANGED SubmissionsVars
    BY <2>8 DEF SubmissionsVars
  <2> QED
    BY <2>2, <2>3, <2>5, <2>6, <2>7, <2>8 DEF SubmissionsNext, CallerStep
<1> QED
  BY <1>1, <1>2, PTL DEF SubmissionsSpec

-----------------------------------------------------------------------------
\* What a step of one handler does to those who are out.
LEMMA OutMoves ==
  ASSUME SubmissionsTypes, NEW p \in Caller, NEW c, call' = [call EXCEPT ![p] = c]
  PROVE  /\ Cardinality(Out) \in Nat /\ Cardinality(Out') \in Nat
         /\ p \in Out /\ p \in Out' => Cardinality(Out') = Cardinality(Out)
         /\ p \notin Out /\ p \notin Out' => Cardinality(Out') = Cardinality(Out)
         /\ p \in Out /\ p \notin Out' => Cardinality(Out') = Cardinality(Out) - 1
         /\ p \notin Out /\ p \in Out' => Cardinality(Out') = Cardinality(Out) + 1
<1>1. \A q \in Caller : q # p => (q \in Out <=> q \in Out')
  BY DEF SubmissionsTypes, Out
<1>2. Out \subseteq Caller /\ Out' \subseteq Caller
  BY DEF Out
<1>3. IsFiniteSet(Out) /\ IsFiniteSet(Out')
  BY <1>2, SubmissionsAssumption, FS_Subset
<1>4. Cardinality(Out) \in Nat /\ Cardinality(Out') \in Nat
  BY <1>3, FS_CardinalityType
<1>5. (p \in Out <=> p \in Out') => Out' = Out
  BY <1>1, <1>2
<1>6. p \in Out /\ p \notin Out' => Out' = Out \ {p}
  BY <1>1, <1>2
<1>7. p \notin Out /\ p \in Out' => Out' = Out \cup {p}
  BY <1>1, <1>2
<1>8. p \in Out => Cardinality(Out \ {p}) = Cardinality(Out) - 1
  BY <1>3, FS_RemoveElement
<1>9. p \notin Out => Cardinality(Out \cup {p}) = Cardinality(Out) + 1
  BY <1>3, FS_AddElement
<1> QED
  BY <1>4, <1>5, <1>6, <1>7, <1>8, <1>9

\* A pass through once() takes up the opening it finds.
LEMMA EnterSpends ==
  ASSUME SubmissionsTypes, Spent, NEW p \in Caller, NEW a \in Argument, NEW n \in Nat,
         ~Busy(p), Enter(p, a, n), UNCHANGED <<effects, adrift, gaps, overtaken>>
  PROVE  Spent'
<1>0. call \in [Caller -> Calls] /\ row \in Rows
      /\ effects \in Nat /\ adrift \in Nat /\ gaps \in Nat /\ overtaken \in Nat
  BY DEF SubmissionsTypes
<1>1. p \notin Out
  BY DEF Out, Busy
<1>2. CASE row' = row /\ call' = [call EXCEPT ![p] = Idle]
  <2>1. p \notin Out' /\ Slot' = Slot
    BY <1>0, <1>2 DEF Out, Slot, Held, Busy, Idle
  <2>2. Cardinality(Out') = Cardinality(Out)
    BY <1>1, <1>2, <2>1, OutMoves
  <2> QED
    BY <2>1, <2>2 DEF Spent
<1>3. CASE /\ Claimable(a) /\ row' = Claimed(p, a)
           /\ call' = [call EXCEPT ![p] =
                [phase |-> "sent", args |-> a, tries |-> CountTry(n), reply |-> "none"]]
  <2>1. p \in Out' /\ Busy(p)'
    BY <1>0, <1>3 DEF Out, Busy
  <2>2. Slot' = 0
    BY <1>3, <2>1 DEF Slot, Held, Claimed
  <2>3. Slot = 1
    BY <1>0, <1>3 DEF Rows, Slot, Claimable, Cached, InFlight
  <2>4. Cardinality(Out') = Cardinality(Out) + 1 /\ Cardinality(Out) \in Nat
    BY <1>1, <1>3, <2>1, OutMoves
  <2> QED
    BY <1>0, <2>2, <2>3, <2>4 DEF Spent
<1> QED
  BY <1>2, <1>3 DEF Enter, Claimable, Conflicts, InFlight, Cached

\* The steps in which one handler leaves the row alone.
LEMMA HandlerSpends ==
  ASSUME SubmissionsTypes, Spent, NEW p \in Caller, Commit(p) \/ Refuse(p) \/ LoseAnswer(p)
  PROVE  Spent'
<1>0. call \in [Caller -> Calls] /\ row \in Rows
      /\ effects \in Nat /\ adrift \in Nat /\ gaps \in Nat /\ overtaken \in Nat
  BY DEF SubmissionsTypes
<1>1. PICK r \in {"ok", "contention", "failed"} :
        /\ call' = Replied(p, r) /\ row' = row /\ overtaken' = overtaken
        /\ IF r = "ok" THEN Commit(p) ELSE Refuse(p) \/ LoseAnswer(p)
  <2>1. CASE Commit(p)
    BY <2>1 DEF Commit
  <2>2. CASE Refuse(p)
    BY <2>2 DEF Refuse
  <2>3. CASE LoseAnswer(p)
    BY <2>3 DEF LoseAnswer
  <2> QED
    BY <2>1, <2>2, <2>3
<1>2. Busy(p) /\ Busy(p)' /\ (p \in Out' <=> r # "ok")
  BY <1>0, <1>1 DEF Commit, Refuse, LoseAnswer, Replied, Busy, Out
<1>3. Slot' = Slot /\ Slot \in {0, 1}
  BY <1>0, <1>1, <1>2 DEF Slot, Held, Busy, Replied
<1>4. PICK c : call' = [call EXCEPT ![p] = c]
  BY <1>1 DEF Replied
<1>5. /\ Cardinality(Out) \in Nat /\ Cardinality(Out') \in Nat
      /\ p \in Out /\ p \in Out' => Cardinality(Out') = Cardinality(Out)
      /\ p \in Out /\ p \notin Out' => Cardinality(Out') = Cardinality(Out) - 1
      /\ p \notin Out /\ p \in Out' => Cardinality(Out') = Cardinality(Out) + 1
  BY <1>4, OutMoves
<1>6. CASE Commit(p) /\ r = "ok"
  <2>1. p \in Out /\ p \notin Out' /\ effects' = effects + 1 /\ UNCHANGED <<adrift, gaps>>
    BY <1>1, <1>2, <1>6 DEF Commit, Takes, Out
  <2> QED
    BY <1>0, <1>1, <1>3, <1>5, <2>1 DEF Spent
<1>7. CASE Refuse(p) /\ r # "ok"
  <2>1. p \in Out /\ p \in Out' /\ UNCHANGED <<effects, adrift, gaps>>
    BY <1>1, <1>2, <1>7 DEF Refuse, Out
  <2> QED
    BY <1>0, <1>1, <1>3, <1>5, <2>1 DEF Spent
<1>8. CASE LoseAnswer(p) /\ r # "ok"
  <2>1. p \in Out' /\ effects' = effects /\ gaps' = gaps + 1
    BY <1>1, <1>2, <1>8 DEF LoseAnswer
  <2>2. \/ p \in Out /\ adrift' = adrift + 1
        \/ p \notin Out /\ adrift' = adrift
    BY <1>8 DEF LoseAnswer, Out
  <2> QED
    BY <1>0, <1>1, <1>3, <1>5, <2>1, <2>2 DEF Spent
<1> QED
  BY <1>1, <1>6, <1>7, <1>8

\* An outcome is recorded: a refusal makes an opening of a submission given up.
LEMMA AnswerSpends ==
  ASSUME SubmissionsTypes, Spent, NEW p \in Caller, Answer(p)
  PROVE  Spent'
<1>0. call \in [Caller -> Calls] /\ row \in Rows
      /\ effects \in Nat /\ adrift \in Nat /\ gaps \in Nat /\ overtaken \in Nat
      /\ UNCHANGED <<effects, adrift, gaps, overtaken>>
  BY DEF SubmissionsTypes, Answer
<1>1. PICK c : call' = [call EXCEPT ![p] = c] /\ c.phase \in {"idle", "waiting"}
  <2> DEFINE w == [phase |-> "waiting", args |-> call[p].args, tries |-> call[p].tries,
                   reply |-> "none"]
  <2>1. call' = [call EXCEPT ![p] = Idle] \/ call' = [call EXCEPT ![p] = w]
    BY DEF Answer
  <2>2. Idle.phase = "idle" /\ w.phase = "waiting"
    BY DEF Idle
  <2> QED
    BY <2>1, <2>2
<1>2. p \notin Out'
  BY <1>0, <1>1 DEF Out
<1>3. /\ Cardinality(Out) \in Nat /\ Cardinality(Out') \in Nat
      /\ p \in Out => Cardinality(Out') = Cardinality(Out) - 1
      /\ p \notin Out => Cardinality(Out') = Cardinality(Out)
  BY <1>1, <1>2, OutMoves
<1>4. Slot \in {0, 1} /\ Slot' \in {0, 1}
  BY DEF Slot
<1>5. CASE call[p].reply = "ok"
  <2>1. p \notin Out
    BY <1>5 DEF Answer, Out
  <2>2. Slot' <= Slot
    <3>1. row' = Recorded("ok", call[p].args)
      BY <1>5 DEF Answer
    <3>2. CASE row.status = "none"
      BY <3>1, <3>2 DEF Recorded, Slot
    <3>3. CASE row.status # "none"
      BY <1>4, <3>1, <3>3 DEF Recorded, Slot
    <3> QED
      BY <3>2, <3>3
  <2> QED
    BY <1>0, <1>3, <1>4, <2>1, <2>2 DEF Spent
<1>6. CASE call[p].reply # "ok"
  <2>1. p \in Out
    BY <1>6 DEF Answer, Out
  <2> QED
    BY <1>0, <1>3, <1>4, <2>1 DEF Spent
<1> QED
  BY <1>5, <1>6

LEMMA OneMore ==
  ASSUME NEW e \in Nat, NEW a \in Nat, NEW k \in Nat, NEW z \in {0, 1}, NEW g \in Nat,
         NEW o \in Nat, e + a + k + z <= 1 + g + o,
         NEW a2 \in Nat, NEW k2 \in Nat, NEW z2 \in {0, 1}, a2 <= a + k2, k2 <= k
  PROVE  e + a2 + 0 + z2 <= 1 + (g + 1) + o
OBVIOUS

LEMMA OthersSpend ==
  ASSUME SubmissionsTypes, Spent, Drift \/ Rival \/ GoStale \/ Crash \/ Sweep
  PROVE  Spent'
<1>0. call \in [Caller -> Calls] /\ row \in Rows
      /\ effects \in Nat /\ adrift \in Nat /\ gaps \in Nat /\ overtaken \in Nat
  BY DEF SubmissionsTypes
<1>1. Slot \in {0, 1} /\ Slot' \in {0, 1}
  BY DEF Slot
<1>2. IsFiniteSet(Out) /\ Cardinality(Out) \in Nat
  <2>1. Out \subseteq Caller
    BY DEF Out
  <2> QED
    BY <2>1, SubmissionsAssumption, FS_Subset, FS_CardinalityType
<1>3. CASE Drift \/ Rival
  <2>0. UNCHANGED <<row, call, overtaken>>
    BY <1>3 DEF Drift, Rival
  <2>1. Out' = Out /\ Slot' = Slot
    BY <2>0 DEF Out, Slot, Held, Busy
  <2>2. /\ UNCHANGED <<gaps, overtaken>>
        /\ \/ effects' = effects /\ adrift' = adrift
           \/ effects' = effects /\ adrift' = adrift - 1
           \/ effects' = effects + 1 /\ adrift' = adrift - 1
    BY <1>3 DEF Drift, Takes, Rival
  <2> QED
    BY <1>0, <1>1, <1>2, <2>1, <2>2 DEF Spent
<1>4. CASE GoStale
  <2>1. Out' = Out /\ UNCHANGED <<effects, adrift, gaps>>
    BY <1>4 DEF GoStale, Out
  <2>2. \/ overtaken' = overtaken + 1
        \/ overtaken' = overtaken /\ Slot = 1
    BY <1>4 DEF GoStale, Slot, Held
  <2> QED
    BY <1>0, <1>1, <1>2, <2>1, <2>2 DEF Spent
<1>5. CASE Crash
  <2> DEFINE Delivering == {q \in Caller : call[q].phase = "sent"}
  <2>1. Delivering \subseteq Out
    BY DEF Out
  <2>2. Cardinality(Delivering) \in Nat /\ Cardinality(Delivering) <= Cardinality(Out)
    BY <1>2, <2>1, FS_Subset, FS_CardinalityType
  <2>3. adrift' <= adrift + Cardinality(Delivering) /\ adrift' \in Nat
    BY <1>0, <1>5, <2>2 DEF Crash
  <2>4. Out' = {}
    BY <1>5 DEF Crash, Out, Idle
  <2>5. Cardinality(Out') = 0
    BY <2>4, FS_EmptySet
  <2>6. gaps' = gaps + 1 /\ UNCHANGED <<effects, overtaken>>
    BY <1>5 DEF Crash
  <2>7. PICK k \in Nat, m \in Nat : k = Cardinality(Out) /\ m = Cardinality(Delivering)
    BY <1>2, <2>2
  <2> HIDE DEF Delivering
  <2>8. k \in Nat /\ m \in Nat /\ m <= k /\ adrift' <= adrift + m
    BY <1>2, <2>2, <2>3, <2>7
  <2>9. effects + adrift + k + Slot <= 1 + gaps + overtaken
    BY <2>7 DEF Spent
  <2>10. effects + adrift' + 0 + Slot' <= 1 + (gaps + 1) + overtaken
    BY <1>0, <1>1, <2>3, <2>8, <2>9, OneMore
  <2>11. effects' + adrift' + Cardinality(Out') + Slot' <= 1 + gaps' + overtaken'
    <3>1. effects' = effects /\ overtaken' = overtaken
      BY <2>6
    <3> QED
      BY <2>5, <2>6, <2>10, <3>1
  <2> QED
    BY <2>11 DEF Spent
<1>6. CASE Sweep
  <2>1. Out' = Out /\ UNCHANGED <<effects, adrift, overtaken>> /\ gaps' = gaps + 1
    BY <1>6 DEF Sweep, Out
  <2> QED
    BY <1>0, <1>1, <1>2, <2>1 DEF Spent
<1> QED
  BY <1>3, <1>4, <1>5, <1>6

-----------------------------------------------------------------------------
\* A pass through once() leaves a row that binds to the handlers it binds.
LEMMA EnterKeeps ==
  ASSUME SubmissionsTypes, AnswersOwn, NEW p \in Caller, NEW a \in Argument, NEW n \in Nat,
         ~Busy(p), Enter(p, a, n), UNCHANGED <<kind, overtaken>>
  PROVE  AnswersOwn'
<1>0. call \in [Caller -> Calls] /\ row \in Rows
  BY DEF SubmissionsTypes
<1>1. CASE Conflicts(a) \/ InFlight(a)
  <2>1. UNCHANGED <<row, answered>> /\ call' = [call EXCEPT ![p] = Idle]
    BY <1>1 DEF Enter, Conflicts, InFlight, Cached, Claimable
  <2> QED
    BY <1>0, <2>1 DEF AnswersOwn, Bound, OneOwner, RowFits, Busy, CachedIsOwn, Idle,
       OwnAnswer
<1>2. CASE Cached(a)
  <2>1. /\ UNCHANGED row /\ call' = [call EXCEPT ![p] = Idle]
        /\ answered' = answered \cup {<<a, row.answer>>}
    BY <1>2 DEF Enter, Conflicts, InFlight, Cached, Claimable
  <2>2. Bound => row.answer = a
    BY <1>2 DEF AnswersOwn, Cached, Conflicts, CachedIsOwn, RetryableError
  <2> QED
    BY <1>0, <2>1, <2>2 DEF AnswersOwn, Bound, OneOwner, RowFits, Busy, CachedIsOwn, Idle,
       OwnAnswer
<1>3. CASE Claimable(a)
  <2>1. /\ row' = Claimed(p, a) /\ UNCHANGED answered
        /\ call' = [call EXCEPT ![p] =
             [phase |-> "sent", args |-> a, tries |-> CountTry(n), reply |-> "none"]]
    BY <1>3 DEF Enter, Claimable, Cached, InFlight
  <2>2. overtaken = 0 => \A q \in Caller : ~Busy(q)
    BY <1>3 DEF Claimable, InFlight, AnswersOwn, OneOwner
  <2>3. \A q \in Caller \ {p} : Busy(q)' = Busy(q) /\ call'[q] = call[q]
    BY <1>0, <2>1 DEF Busy
  <2>4. call'[p].args = a /\ row'.args = a /\ row'.status = "pending" /\ row'.owner = p /\ ~row'.stale
    BY <1>0, <2>1 DEF Claimed
  <2>5. overtaken' = 0 => OneOwner'
    BY <2>2, <2>3, <2>4 DEF OneOwner
  <2>6. Bound' => RowFits'
    <3>1. ASSUME Bound, NEW q \in Caller, Busy(q)'
          PROVE  call'[q].args = a
      <4>1. CASE q = p
        BY <2>4, <4>1
      <4>2. CASE q # p /\ overtaken = 0
        BY <2>2, <2>3, <3>1, <4>2
      <4>3. CASE q # p /\ kind = "create"
        <5>1. row.status # "none" /\ row.args = call[q].args
          BY <2>3, <3>1, <4>3 DEF AnswersOwn, RowFits
        <5> QED
          BY <1>3, <2>3, <4>3, <5>1 DEF Claimable, Conflicts, RetryableError
      <4> QED
        BY <3>1, <4>1, <4>2, <4>3 DEF Bound
    <3> QED
      BY <2>4, <3>1 DEF RowFits, Bound
  <2>7. CachedIsOwn'
    BY <2>4 DEF CachedIsOwn
  <2> QED
    BY <2>1, <2>5, <2>6, <2>7 DEF AnswersOwn, OwnAnswer
<1> QED
  BY <1>1, <1>2, <1>3 DEF Claimable

LEMMA StaysOwn ==
  ASSUME SubmissionsTypes, AnswersOwn, [SubmissionsNext]_SubmissionsVars
  PROVE  AnswersOwn'
<1>0. /\ call \in [Caller -> Calls] /\ row \in Rows /\ overtaken \in Nat
  BY DEF SubmissionsTypes
<1>1. ASSUME NEW p \in Caller, NEW a \in Argument, Call(p, a) PROVE AnswersOwn'
  BY <1>1, EnterKeeps DEF Call, Busy
<1>2. ASSUME NEW p \in Caller, Retry(p) PROVE AnswersOwn'
  <2>1. call[p].args \in Argument /\ call[p].tries \in Nat
    BY <1>0, <1>2 DEF Retry, Calls, Idle
  <2> QED
    BY <1>2, <2>1, EnterKeeps DEF Retry, Busy
<1>3. ASSUME NEW p \in Caller, Commit(p) \/ Refuse(p) \/ LoseAnswer(p) PROVE AnswersOwn'
  <2>1. /\ Busy(p) /\ UNCHANGED <<kind, row, overtaken, answered>>
        /\ \E r : call' = Replied(p, r)
    BY <1>3 DEF Commit, Refuse, LoseAnswer, Busy
  <2>2. \A q \in Caller : Busy(q)' = Busy(q) /\ call'[q].args = call[q].args
    BY <1>0, <2>1 DEF Replied, Busy
  <2> QED
    BY <2>1, <2>2 DEF AnswersOwn, Bound, OneOwner, RowFits, CachedIsOwn, OwnAnswer
<1>4. ASSUME NEW p \in Caller, Answer(p) PROVE AnswersOwn'
  <2>1. Busy(p) /\ UNCHANGED <<kind, overtaken>>
    BY <1>4 DEF Answer, Busy
  <2>2. ~Busy(p)' /\ \A q \in Caller \ {p} : Busy(q)' = Busy(q) /\ call'[q] = call[q]
    BY <1>0, <1>4 DEF Answer, Busy, Idle
  <2>3. overtaken' = 0 => OneOwner'
    BY <2>1, <2>2 DEF AnswersOwn, OneOwner
  <2>4. Bound => row.status # "none" /\ row.args = call[p].args
    BY <2>1 DEF AnswersOwn, RowFits
  <2>5. row.status # "none" => row'.status # "none" /\ row'.args = row.args
    BY <1>4 DEF Answer, Recorded
  <2>6. Bound' => RowFits' /\ CachedIsOwn'
    <3>1. Bound => RowFits'
      BY <2>2, <2>5 DEF AnswersOwn, RowFits
    <3>2. Bound => CachedIsOwn'
      BY <1>4, <2>4 DEF Answer, Recorded, CachedIsOwn
    <3> QED
      BY <2>1, <3>1, <3>2 DEF Bound
  <2>7. OwnAnswer'
    BY <1>4, <2>1 DEF AnswersOwn, Answer, OwnAnswer
  <2> QED
    BY <2>3, <2>6, <2>7 DEF AnswersOwn
<1>5. ASSUME Drift \/ Rival \/ UNCHANGED SubmissionsVars PROVE AnswersOwn'
  BY <1>5 DEF Drift, Rival, SubmissionsVars, AnswersOwn, Bound, OneOwner, RowFits, Busy, CachedIsOwn,
              OwnAnswer
<1>6. ASSUME GoStale PROVE AnswersOwn'
  <2>1. /\ UNCHANGED <<kind, call, answered>>
        /\ row'.status = row.status /\ row'.args = row.args /\ row'.answer = row.answer
    BY <1>0, <1>6 DEF GoStale, Rows
  <2>2. overtaken' = 0 => overtaken = 0 /\ \A q \in Caller : ~Busy(q)
    BY <1>0, <1>6 DEF GoStale, AnswersOwn, OneOwner
  <2>3. \A q \in Caller : Busy(q)' = Busy(q)
    BY <2>1 DEF Busy
  <2> QED
    BY <2>1, <2>2, <2>3 DEF AnswersOwn, Bound, OneOwner, RowFits, CachedIsOwn, OwnAnswer
<1>7. ASSUME Crash PROVE AnswersOwn'
  <2>1. \A q \in Caller : ~Busy(q)'
    BY <1>7 DEF Crash, Busy, Idle
  <2> QED
    BY <1>7, <2>1 DEF Crash, AnswersOwn, Bound, OneOwner, RowFits, CachedIsOwn, OwnAnswer
<1>8. ASSUME Sweep PROVE AnswersOwn'
  <2>1. \A q \in Caller : ~Busy(q)'
    BY <1>8 DEF Sweep, Busy
  <2> QED
    BY <1>8, <2>1 DEF Sweep, AnswersOwn, Bound, OneOwner, RowFits, CachedIsOwn, OwnAnswer, NoRow
<1> QED
  BY <1>1, <1>2, <1>3, <1>4, <1>5, <1>6, <1>7, <1>8 DEF SubmissionsNext, CallerStep

\* The ledger takes a command again only after an outcome that was not recorded,
\* or that came after its row had been released, whatever the number of handlers
\* and however they crash, retry, lose answers and wait for them (once(), lines
\* 76-166).
THEOREM OnceEach == SubmissionsSpec => []RepeatsExplained
<1>1. SubmissionsInit => Spent
  <2> SUFFICES ASSUME SubmissionsInit PROVE Spent
    OBVIOUS
  <2>1. Out = {}
    BY DEF SubmissionsInit, Out, Idle
  <2>2. Cardinality(Out) = 0
    BY <2>1, FS_EmptySet
  <2>3. Slot = 1
    BY DEF SubmissionsInit, Slot, NoRow
  <2> QED
    BY <2>2, <2>3 DEF SubmissionsInit, Spent
<1>2. SubmissionsTypes /\ Spent /\ [SubmissionsNext]_SubmissionsVars => Spent'
  <2> SUFFICES ASSUME SubmissionsTypes, Spent, [SubmissionsNext]_SubmissionsVars
               PROVE  Spent'
    OBVIOUS
  <2>1. ASSUME NEW p \in Caller, NEW a \in Argument, Call(p, a) PROVE Spent'
    BY <2>1, EnterSpends DEF Call, Busy
  <2>2. ASSUME NEW p \in Caller, Retry(p) PROVE Spent'
    <3>1. call[p].args \in Argument /\ call[p].tries \in Nat
      BY <2>2 DEF SubmissionsTypes, Retry, Calls, Idle
    <3> QED
      BY <2>2, <3>1, EnterSpends DEF Retry, Busy
  <2>3. CASE UNCHANGED SubmissionsVars
    BY <2>3 DEF SubmissionsVars, Spent, Out, Slot, Held, Busy
  <2> QED
    BY <2>1, <2>2, <2>3, HandlerSpends, AnswerSpends, OthersSpend DEF SubmissionsNext, CallerStep
<1>3. SubmissionsTypes /\ Spent => RepeatsExplained
  <2> SUFFICES ASSUME SubmissionsTypes, Spent PROVE RepeatsExplained
    OBVIOUS
  <2>1. Out \subseteq Caller
    BY DEF Out
  <2>2. Cardinality(Out) \in Nat
    BY <2>1, SubmissionsAssumption, FS_Subset, FS_CardinalityType
  <2>3. Slot \in {0, 1}
    BY DEF Slot
  <2> QED
    BY <2>2, <2>3 DEF SubmissionsTypes, Spent, RepeatsExplained
<1> QED
  BY SubmissionsTyped, <1>1, <1>2, <1>3, PTL DEF SubmissionsSpec

\* Nobody is served the outcome of other arguments than its own (the hash
\* comparison of once()): never for a create, and for an exercise until a row has
\* been released before its answer came.
THEOREM AnswersItsOwn == SubmissionsSpec => []OwnAnswer
<1>1. SubmissionsInit => AnswersOwn
  BY DEF SubmissionsInit, AnswersOwn, OneOwner, RowFits, CachedIsOwn, OwnAnswer, Busy, Idle, NoRow
<1>2. SubmissionsTypes /\ AnswersOwn /\ [SubmissionsNext]_SubmissionsVars => AnswersOwn'
  BY StaysOwn
<1>3. AnswersOwn => OwnAnswer
  BY DEF AnswersOwn
<1> QED
  BY SubmissionsTyped, <1>1, <1>2, <1>3, PTL DEF SubmissionsSpec

-----------------------------------------------------------------------------
(***************************************************************************)
(* The projection marks no active PoolState archived, for any number of    *)
(* rotations, failed queries and restarts, until the pools of a tick that  *)
(* has lost its flag are written.                                          *)
(*                                                                         *)
(* The argument: what the tick that holds the flag has read of the pools   *)
(* is at least as new as every row written so far (ReadsForward), and it   *)
(* cannot have missed the configuration of a pool that has a row.  So a    *)
(* row it archives is older than the state it read.  Of the reads of a     *)
(* tick that has lost the flag nothing is known but their range.           *)
(***************************************************************************)
Reads == [phase : {"idle", "reading"}, config : Int, read : Int]

PoolRead(t) == task[t]["pools"]

\* The ledger and the tasks.
Shape == /\ task \in [Tick -> [Tasks -> Reads]]
         /\ \E S : states \in Seq(S)
         /\ listed \in BOOLEAN
         /\ Len(states) > 0 => listed

ReadSoFar == \A t \in Tick :
  /\ PoolRead(t).config \in {Unread, 0, 1}
  /\ PoolRead(t).read \in Nat \cup {Unread}
  /\ PoolRead(t).read # Unread => PoolRead(t).read <= Len(states)

ReadsForward == \A t \in Tick : t = running =>
  /\ PoolRead(t).config = 0 => seen = {}
  /\ PoolRead(t).read # Unread => \A v \in seen : v <= PoolRead(t).read

RowsKnown == seen \subseteq 1 .. Len(states) /\ archived \subseteq seen

InTurn == "pools" \notin belated
TickInv == Shape /\ ReadSoFar /\ RowsKnown /\ NeverAhead /\ (InTurn => ReadsForward)

LEMMA RestingTasks ==
  /\ Resting.config = Unread /\ Resting.read = Unread /\ Resting \in Reads
  /\ Started.config = Unread /\ Started.read = Unread /\ Started \in Reads
  /\ Unread = -1
BY DEF Resting, Started, Unread, Reads

LEMMA Appended ==
  ASSUME NEW S, NEW s \in Seq(S), NEW e
  PROVE  Append(s, e) \in Seq(S \cup {e}) /\ Len(Append(s, e)) = Len(s) + 1
         /\ Len(s) \in Nat
OBVIOUS

LEMMA TicksAre == "pools" \in Tasks /\ 0 \notin Tick /\ Tick \subseteq Int
BY DEF Tick, Tasks

LEMMA StartsAtRest == IndexerInit => TickInv
<1> SUFFICES ASSUME IndexerInit PROVE TickInv
  OBVIOUS
<1>2. \A t \in Tick : PoolRead(t) = Resting
  BY TicksAre DEF IndexerInit, PoolRead
<1>3. Shape
  <2>1. states \in Seq({})
    BY DEF IndexerInit
  <2>2. task \in [Tick -> [Tasks -> Reads]]
    BY RestingTasks DEF IndexerInit
  <2>3. Len(states) = 0 /\ listed \in BOOLEAN
    BY DEF IndexerInit
  <2>4. \E S : states \in Seq(S)
    BY <2>1, Zenon
  <2> QED
    BY <2>2, <2>3, <2>4 DEF Shape
<1>4. ReadSoFar /\ ReadsForward
  BY <1>2, RestingTasks DEF ReadSoFar, ReadsForward
<1> QED
  BY <1>3, <1>4 DEF IndexerInit, TickInv, RowsKnown, NeverAhead, ArchivedIsGone

\* Steps that leave the database and the pool's reads alone.
LEMMA QuietStep ==
  ASSUME TickInv, Shape', UNCHANGED <<seen, archived>>, Len(states') >= Len(states),
         InTurn' => InTurn,
         \A t \in Tick : \/ PoolRead(t)' = PoolRead(t) /\ (t = running' => t = running)
                         \/ PoolRead(t)' = Resting
                         \/ PoolRead(t)' = Started
  PROVE  TickInv'
<1>1. Len(states) \in Nat /\ Len(states') \in Nat
  BY DEF TickInv, Shape
<1>2. ReadSoFar'
  <2> SUFFICES ASSUME NEW t \in Tick
               PROVE  /\ PoolRead(t)'.config \in {Unread, 0, 1}
                      /\ PoolRead(t)'.read \in Nat \cup {Unread}
                      /\ PoolRead(t)'.read # Unread => PoolRead(t)'.read <= Len(states')
    BY DEF ReadSoFar, Tick
  <2> QED
    BY <1>1, RestingTasks DEF TickInv, ReadSoFar
<1>3. InTurn' => ReadsForward'
  <2> SUFFICES ASSUME InTurn, ReadsForward, NEW t \in Tick, t = running'
               PROVE  /\ PoolRead(t)'.config = 0 => seen' = {}
                      /\ PoolRead(t)'.read # Unread => \A v \in seen' : v <= PoolRead(t)'.read
    BY DEF TickInv, ReadsForward, Tick
  <2> QED
    BY RestingTasks DEF ReadsForward, Unread
<1> QED
  BY <1>1, <1>2, <1>3 DEF TickInv, RowsKnown, NeverAhead, ArchivedIsGone, InTurn

\* The ledger only moves forward; what was read stays behind it.
LEMMA LedgerForward ==
  ASSUME TickInv, LedgerMoves
  PROVE  TickInv'
<1>1. UNCHANGED <<task, running, belated, seen, archived>>
  BY DEF LedgerMoves, ListPool, OpenPool, Rotate, Ask, EndRfq, EndTrade, DatabaseVars
<1>2. PICK S : states \in Seq(S)
  BY DEF TickInv, Shape
<1>3. \/ UNCHANGED states /\ (listed' = listed \/ listed' = TRUE)
      \/ UNCHANGED listed /\ listed /\ \E e : states' = Append(states, e)
  <2>1. CASE ListPool
    BY <2>1 DEF ListPool
  <2>2. CASE OpenPool
    <3>1. <<State(2, 2, 2, "open")>> = Append(<<>>, State(2, 2, 2, "open"))
      OBVIOUS
    <3> QED
      BY <2>2, <3>1 DEF OpenPool
  <2>3. ASSUME NEW c \in {"swap", "dust", "back", "dustBack", "add", "remove", "pause"}, Rotate(c)
        PROVE  UNCHANGED listed /\ listed /\ \E e : states' = Append(states, e)
    <3>1. Len(states) > 0
      BY <1>2, <2>3 DEF Rotate
    <3> QED
      BY <2>3, <3>1 DEF Rotate, TickInv, Shape
  <2>4. CASE Ask \/ EndRfq \/ EndTrade
    BY <2>4 DEF Ask, EndRfq, EndTrade
  <2> QED
    BY <2>1, <2>2, <2>3, <2>4 DEF LedgerMoves
<1>4. Len(states') >= Len(states) /\ Shape'
  <2>1. CASE UNCHANGED states /\ (listed' = listed \/ listed' = TRUE)
    <3>1. states' = states /\ task' = task /\ listed' \in BOOLEAN
      BY <1>1, <2>1 DEF TickInv, Shape
    <3>2. Len(states') > 0 => listed'
      BY <2>1, <3>1 DEF TickInv, Shape
    <3>3. \E R : states' \in Seq(R)
      BY <1>2, <3>1, Zenon
    <3>4. Len(states') >= Len(states)
      BY <1>2, <3>1
    <3> QED
      BY <3>1, <3>2, <3>3, <3>4 DEF TickInv, Shape
  <2>2. ASSUME NEW e, UNCHANGED listed, listed, states' = Append(states, e)
        PROVE  Len(states') >= Len(states) /\ Shape'
    <3>1. states' \in Seq(S \cup {e}) /\ Len(states') = Len(states) + 1 /\ Len(states) \in Nat
      BY <1>2, <2>2, Appended
    <3>2. \E R : states' \in Seq(R)
      BY <3>1, Zenon
    <3> QED
      BY <1>1, <2>2, <3>1, <3>2 DEF TickInv, Shape
  <2> QED
    BY <1>3, <2>1, <2>2
<1>5. \A t \in Tick : PoolRead(t)' = PoolRead(t) /\ running' = running
  BY <1>1 DEF PoolRead
<1> QED
  BY <1>1, <1>4, <1>5, QuietStep DEF InTurn

LEMMA TasksForward ==
  ASSUME TickInv, NEW t \in Tick,
         Polls(t) \/ Restart \/ (\E k \in Tasks : FailTask(t, k))
  PROVE  TickInv'
<1>0. "pools" \in Tasks /\ 0 \notin Tick
  BY TicksAre
<1>a. task \in [Tick -> [Tasks -> Reads]] /\ Len(states) \in Nat
  BY DEF TickInv, Shape
<1>b. ASSUME UNCHANGED <<states, listed>>, task' \in [Tick -> [Tasks -> Reads]]
      PROVE  Shape' /\ Len(states') >= Len(states)
  BY <1>a, <1>b DEF TickInv, Shape
<1>1. ASSUME StartTick(t) \/ Restart PROVE TickInv'
  <2>1. UNCHANGED <<states, listed, belated, seen, archived>>
    BY <1>1 DEF StartTick, Restart, LedgerVars, DatabaseVars
  <2>2. task' \in [Tick -> [Tasks -> Reads]]
    BY <1>0, <1>a, <1>1, RestingTasks DEF StartTick, Restart
  <2>3. \A u \in Tick : \/ PoolRead(u)' = PoolRead(u) /\ (u = running' => u = running)
                        \/ PoolRead(u)' = Resting
                        \/ PoolRead(u)' = Started
    BY <1>0, <1>a, <1>1 DEF StartTick, Restart, PoolRead
  <2> QED
    BY <1>b, <2>1, <2>2, <2>3, QuietStep DEF InTurn
<1>2. ASSUME NEW k \in Tasks, Read(t, k) PROVE TickInv'
  <2>1. SeenState \in Int /\ SeenRfq \in Int /\ SeenTrade \in Int
    BY <1>a DEF SeenState, SeenRfq, SeenTrade
  <2>2. UNCHANGED <<states, listed, running, belated, seen, archived>>
    BY <1>2 DEF Read, LedgerVars, DatabaseVars
  <2>3. Seen(k) \in Int /\ task[t][k].config \in Int
    BY <1>a, <2>1 DEF Seen, Reads
  <2>4. task' = [task EXCEPT ![t][k] =
               [phase |-> "reading", config |-> task[t][k].config, read |-> Seen(k)]]
    BY <1>2 DEF Read, Noted
  <2>5. task' \in [Tick -> [Tasks -> Reads]]
    <3>1. [phase |-> "reading", config |-> task[t][k].config, read |-> Seen(k)] \in Reads
      BY <2>3 DEF Reads
    <3> QED
      BY <1>a, <2>4, <3>1
  <2>6. CASE k = "pools"
    <3>1. PoolRead(t)' = [phase |-> "reading", config |-> PoolRead(t).config, read |-> Len(states)]
      BY <1>0, <1>a, <2>4, <2>6 DEF PoolRead, Seen, SeenState
    <3>2. PoolRead(t)'.read = Len(states) /\ PoolRead(t)'.config = PoolRead(t).config
      BY <3>1
    <3>3. \A u \in Tick : u # t => PoolRead(u)' = PoolRead(u)
      BY <1>a, <2>4 DEF PoolRead
    <3>4. ReadSoFar'
      BY <1>a, <2>2, <3>2, <3>3 DEF TickInv, ReadSoFar
    <3>5. RowsKnown /\ InTurn' => ReadsForward'
      BY <1>a, <2>2, <3>2, <3>3 DEF TickInv, ReadsForward, RowsKnown, InTurn
    <3> QED
      BY <1>b, <2>2, <2>5, <3>4, <3>5 DEF TickInv, RowsKnown, NeverAhead, ArchivedIsGone
  <2>7. CASE k # "pools"
    <3>1. \A u \in Tick : PoolRead(u)' = PoolRead(u)
      BY <1>0, <1>a, <2>4, <2>7 DEF PoolRead
    <3> QED
      BY <1>b, <2>2, <2>5, <3>1, QuietStep DEF InTurn
  <2> QED
    BY <2>6, <2>7
<1>3. ASSUME ReadConfig(t) PROVE TickInv'
  <2>1. ~listed => seen = {}
    BY <1>a DEF TickInv, Shape, RowsKnown
  <2>2. UNCHANGED <<states, listed, running, belated, seen, archived>>
    BY <1>3 DEF ReadConfig, LedgerVars, DatabaseVars
  <2> DEFINE c == IF listed THEN 1 ELSE 0
  <2>a. c \in {0, 1} /\ (c = 0 => seen = {}) /\ PoolRead(t).read \in Int
    BY <2>1, <1>a, <1>0 DEF PoolRead, Reads
  <2>3. task' = [task EXCEPT ![t]["pools"] =
               [phase |-> "reading", config |-> c, read |-> PoolRead(t).read]]
    BY <1>0, <1>3 DEF ReadConfig, Noted, PoolRead
  <2> HIDE DEF c
  <2>b. [phase |-> "reading", config |-> c, read |-> PoolRead(t).read] \in Reads
    BY <2>a DEF Reads
  <2>c. /\ PoolRead(t)' = [phase |-> "reading", config |-> c, read |-> PoolRead(t).read]
        /\ \A u \in Tick : u # t => PoolRead(u)' = PoolRead(u)
    BY <1>0, <1>a, <2>3 DEF PoolRead
  <2>4. /\ task' \in [Tick -> [Tasks -> Reads]]
        /\ PoolRead(t)'.read = PoolRead(t).read
        /\ PoolRead(t)'.config = c
    BY <1>0, <1>a, <2>3, <2>b, <2>c
  <2>5. ReadSoFar'
    BY <2>a, <2>2, <2>4, <2>c DEF TickInv, ReadSoFar, Unread
  <2>6. InTurn' => ReadsForward'
    BY <2>a, <2>2, <2>4, <2>c DEF TickInv, ReadsForward, InTurn
  <2>7. Shape'
    BY <1>b, <2>2, <2>4
  <2> QED
    BY <2>2, <2>5, <2>6, <2>7 DEF TickInv, RowsKnown, NeverAhead, ArchivedIsGone
<1>4. ASSUME WritePools(t) PROVE TickInv'
  <2> DEFINE listing == LivePools(task[t]["pools"])
  <2>1. /\ UNCHANGED <<states, listed>>
        /\ archived' = archived \cup ((seen \ archived) \ listing)
        /\ seen' = seen \cup (listing \ (seen \ archived))
        /\ task' = [task EXCEPT ![t]["pools"] = Resting]
        /\ running' \in {running, 0}
        /\ belated' = IF running = t THEN belated ELSE belated \cup {"pools"}
    BY <1>0, <1>4 DEF WritePools, PoolsWritten, Known, Ended, LedgerVars
  <2>2. /\ task[t]["pools"].read # Unread /\ task[t]["pools"].config # Unread
    BY <1>0, <1>4 DEF WritePools
  <2>3. listing \subseteq 1 .. Len(states)
    BY <2>2 DEF LivePools, PoolRead, TickInv, ReadSoFar
  <2>5. task' \in [Tick -> [Tasks -> Reads]] /\ PoolRead(t)' = Resting
        /\ \A u \in Tick : u # t => PoolRead(u)' = PoolRead(u)
    BY <1>0, <1>a, <2>1, RestingTasks DEF PoolRead
  <2>6. RowsKnown'
    BY <2>1, <2>3 DEF TickInv, RowsKnown
  <2>7. ReadSoFar'
    BY <2>1, <2>5, RestingTasks DEF ReadSoFar, TickInv
  <2>8. Shape'
    BY <1>b, <2>1, <2>5
  <2>9. ASSUME InTurn' PROVE ReadsForward' /\ ArchivedIsGone'
    <3>1. running = t /\ InTurn
      BY <2>1, <2>9 DEF InTurn
    <3>2. \A v \in (seen \ archived) \ listing : v < Len(states)
      <4>1. CASE task[t]["pools"].config = 0
        BY <3>1, <4>1 DEF TickInv, ReadsForward, PoolRead
      <4>2. CASE task[t]["pools"].config = 1
        BY <1>a, <2>2, <3>1, <4>2 DEF LivePools, TickInv, ReadSoFar, ReadsForward, PoolRead, RowsKnown
      <4> QED
        BY <2>2, <4>1, <4>2 DEF TickInv, ReadSoFar, PoolRead
    <3>3. ArchivedIsGone'
      BY <2>1, <3>1, <3>2 DEF TickInv, NeverAhead, ArchivedIsGone, InTurn
    <3>4. ReadsForward'
      BY <1>0, <2>1, <2>5, <3>1, RestingTasks DEF ReadsForward
    <3> QED
      BY <3>3, <3>4
  <2> QED
    BY <2>6, <2>7, <2>8, <2>9 DEF TickInv, NeverAhead, InTurn
<1>5. ASSUME NEW k \in Tasks, WriteTrades(t) \/ WriteRfqs(t) \/ FailTask(t, k)
      PROVE  TickInv'
  <2>1. /\ \E j \in Tasks : task' = [task EXCEPT ![t][j] = Resting]
        /\ running' \in {running, 0}
        /\ belated \subseteq belated'
    BY <1>0, <1>5 DEF WriteTrades, WriteRfqs, FailTask, Ended, Tasks
  <2>2. UNCHANGED <<states, listed, seen, archived>>
    BY <1>5 DEF WriteTrades, WriteRfqs, FailTask, LedgerVars, DatabaseVars
  <2>3. /\ task' \in [Tick -> [Tasks -> Reads]]
        /\ \A u \in Tick : PoolRead(u)' = PoolRead(u) \/ PoolRead(u)' = Resting
    BY <1>0, <1>a, <2>1, RestingTasks DEF PoolRead
  <2>4. \A u \in Tick : u = running' => u = running
    BY <1>0, <2>1
  <2> QED
    BY <1>b, <2>1, <2>2, <2>3, <2>4, QuietStep DEF InTurn
<1> QED
  BY <1>0, <1>1, <1>2, <1>3, <1>4, <1>5 DEF Polls

LEMMA TickInvKept == TickInv /\ [IndexerNext]_IndexerVars => TickInv'
<1> SUFFICES ASSUME TickInv, [IndexerNext]_IndexerVars PROVE TickInv'
  OBVIOUS
<1>1. ASSUME NEW t \in Tick, Polls(t) \/ (\E k \in Tasks : FailTask(t, k)) PROVE TickInv'
  BY <1>1, TasksForward
<1>2. CASE Restart
  <2>1. 1 \in Tick
    BY DEF Tick
  <2> QED
    BY <1>2, <2>1, TasksForward
<1>3. CASE UNCHANGED IndexerVars
  BY <1>3, QuietStep
     DEF IndexerVars, LedgerVars, DatabaseVars, TickInv, Shape, PoolRead, InTurn
<1> QED
  BY <1>1, <1>2, <1>3, LedgerForward DEF IndexerNext

\* What a reader finds marked archived is gone from the ledger, until the pools of a tick
\* that has lost its flag are written (tick, lines 158-175; reconcilePools, 302-330).
THEOREM ProjectionNeverAhead == IndexerSpec => []NeverAhead
<1>1. TickInv /\ [IndexerNext]_IndexerVars => TickInv'
  BY TickInvKept
<1>2. TickInv => NeverAhead
  BY DEF TickInv
<1> QED
  BY StartsAtRest, <1>1, <1>2, PTL DEF IndexerSpec

-----------------------------------------------------------------------------
(***************************************************************************)
(* What clients read of swaps and of RFQs is so, for any number of         *)
(* rotations, missed ticks, failed queries and restarts, until the pools   *)
(* (or the RFQs) of a tick that has lost its flag are written.             *)
(*                                                                         *)
(* The argument: the states that have a row, in their order, form a path,  *)
(* and the rows of the feed are its steps (PathInv): a tick that finds a   *)
(* new state finds it after all known ones, with exactly one row live, so  *)
(* it lengthens the path by one.  The sums of the feed telescope along the *)
(* path; neighbouring states differ as one choice says (LedgerInv), which  *)
(* the numbers tell; and a feed without gaps has a row for each rotation,  *)
(* so the figures of the day are sums over the swaps themselves.  The      *)
(* history follows from what the tasks have read (HistoryInv).             *)
(***************************************************************************)
Choices == {"swap", "dust", "back", "dustBack", "add", "remove", "pause"}
StateSet == [base : Int, quote : Int, supply : Int,
             by : {"open", "swap", "add_liquidity", "remove_liquidity", "state_change"}]

\* What a rotation does to the numbers.
Swapped(s, t) ==
  /\ t.by = "swap" /\ t.supply = s.supply
  /\ \/ t.base = s.base + 2 /\ t.quote = s.quote - 1
     \/ t.base = s.base + 1 /\ t.quote = s.quote
     \/ t.base = s.base - 1 /\ t.quote = s.quote + 2
     \/ t.base = s.base /\ t.quote = s.quote + 1
Moved(s, t) ==
  \/ Swapped(s, t)
  \/ t.by = "add_liquidity" /\ t.supply = s.supply + 1
  \/ t.by = "remove_liquidity" /\ t.supply = s.supply - 1
  \/ t.by = "state_change" /\ t.supply = s.supply /\ t.base = s.base /\ t.quote = s.quote

LedgerInv ==
  /\ states \in Seq(StateSet)
  /\ \A v \in 2 .. Len(states) : Moved(states[v - 1], states[v])

\* The states that have a row, in their order, are the path that the feed describes.
PathOf(p) ==
  /\ p \in [0 .. Len(feed) -> 1 .. Len(states)]
  /\ \A i, j \in 0 .. Len(feed) : i < j => p[i] < p[j]
  /\ \A i \in 1 .. Len(feed) : feed[i] = Delta(p[i - 1], p[i])
  /\ seen = {p[i] : i \in 0 .. Len(feed)}
  /\ Known = {p[Len(feed)]}
PathInv ==
  /\ \E R : feed \in Seq(R)
  /\ seen = {} => feed = <<>>
  /\ seen # {} => \E p : PathOf(p)

Over == {"accepted", "gone"}
FoundOf(t) == task[t]["trades"].read
AskedOf(t) == task[t]["rfqs"].read
HistoryIs ==
  /\ \A t \in Tick : (t = running /\ AskedOf(t) = 0) => history = <<>> \/ rfq \in Over
  /\ \/ history = <<>>
     \/ history = <<"open">> /\ rfq # "none"
     \/ history = Append(<<"open">>, "closed") /\ rfq \in Over
     \/ history = Append(<<"open">>, "accepted") /\ rfq = "accepted" /\ trades # NoTrade
HistoryInv ==
  /\ side \in {"buy", "sell"} /\ rfq \in {"none", "open"} \cup Over
  /\ trade # "none" => rfq = "accepted"
  /\ \A t \in Tick :
       /\ AskedOf(t) \in {Unread, 0, 1} /\ FoundOf(t) \in {Unread, 0, 1}
       /\ AskedOf(t) = 1 => rfq # "none"
       /\ FoundOf(t) = 1 => rfq = "accepted"
  /\ trades # NoTrade => /\ rfq = "accepted"
                         /\ trades.trader = "trader" /\ trades.counterparty = "dealer"
  /\ "rfqs" \notin belated => HistoryIs

FeedInv == TickInv /\ LedgerInv /\ (InTurn => PathInv) /\ HistoryInv

LEMMA StartsUnfed == IndexerInit => FeedInv
<1> SUFFICES ASSUME IndexerInit PROVE FeedInv
  OBVIOUS
<1>1. TickInv
  BY StartsAtRest
<1>2. LedgerInv
  <2>1. states = <<>> /\ <<>> \in Seq(StateSet) /\ Len(<<>>) = 0
    BY DEF IndexerInit
  <2> QED
    BY <2>1 DEF LedgerInv
<1>3. PathInv
  <2>1. feed \in Seq({}) /\ seen = {}
    BY DEF IndexerInit
  <2>2. \E R : feed \in Seq(R)
    BY <2>1, Zenon
  <2> QED
    BY <2>1, <2>2 DEF PathInv, IndexerInit
<1>4. HistoryInv
  <2>1. \A t \in Tick : AskedOf(t) = Unread /\ FoundOf(t) = Unread
    BY RestingTasks DEF IndexerInit, Tasks, AskedOf, FoundOf
  <2> QED
    BY <2>1, RestingTasks DEF IndexerInit, HistoryInv, HistoryIs
<1> QED
  BY <1>1, <1>2, <1>3, <1>4 DEF FeedInv

(* The ledger appends a state that follows from the last. *)
LEMMA StatesFollow ==
  ASSUME LedgerInv, [IndexerNext]_IndexerVars
  PROVE  /\ LedgerInv'
         /\ Len(states) \in Nat /\ Len(states') \in Nat /\ Len(states') >= Len(states)
         /\ \A v \in 1 .. Len(states) : states'[v] = states[v]
<1>1. states \in Seq(StateSet) /\ Len(states) \in Nat
  BY DEF LedgerInv
<1>2. ASSUME NEW e \in StateSet, states' = Append(states, e),
             Len(states) >= 1 => Moved(states[Len(states)], e)
      PROVE  LedgerInv' /\ Len(states') = Len(states) + 1
             /\ \A v \in 1 .. Len(states) : states'[v] = states[v]
  <2>1. /\ states' \in Seq(StateSet) /\ Len(states') = Len(states) + 1
        /\ states'[Len(states) + 1] = e
        /\ \A v \in 1 .. Len(states) : states'[v] = states[v]
    BY <1>1, <1>2
  <2>2. ASSUME NEW v \in 2 .. Len(states')
        PROVE  Moved(states'[v - 1], states'[v])
    <3>1. CASE v = Len(states) + 1
      <4>1. v - 1 = Len(states) /\ Len(states) \in 1 .. Len(states)
        BY <1>1, <3>1
      <4> QED
        BY <1>2, <2>1, <3>1, <4>1
    <3>2. CASE v # Len(states) + 1
      <4>1. v \in 2 .. Len(states) /\ v \in 1 .. Len(states) /\ v - 1 \in 1 .. Len(states)
        BY <1>1, <2>1, <3>2
      <4> QED
        BY <2>1, <4>1 DEF LedgerInv
    <3> QED
      BY <3>1, <3>2
  <2> QED
    BY <2>1, <2>2 DEF LedgerInv
<1>3. CASE OpenPool
  <2>1. State(2, 2, 2, "open") \in StateSet
    BY DEF State, StateSet
  <2>2. states' = Append(states, State(2, 2, 2, "open")) /\ Len(states) = 0
    BY <1>3 DEF OpenPool
  <2> QED
    BY <1>1, <1>2, <2>1, <2>2
<1>4. ASSUME NEW c \in Choices, Rotate(c)
      PROVE  LedgerInv' /\ Len(states') = Len(states) + 1
             /\ \A v \in 1 .. Len(states) : states'[v] = states[v]
  <2>1. Len(states) >= 1 /\ Now \in StateSet
    BY <1>1, <1>4 DEF Rotate, Now
  <2>2. Now.base \in Int /\ Now.quote \in Int /\ Now.supply \in Int
    BY <2>1 DEF StateSet
  <2>3. After(c) \in StateSet /\ Moved(Now, After(c))
    <3>1. /\ Now.base + 1 \in Int /\ Now.base + 2 \in Int /\ Now.base - 1 \in Int
          /\ Now.quote + 1 \in Int /\ Now.quote + 2 \in Int /\ Now.quote - 1 \in Int
          /\ Now.supply + 1 \in Int /\ Now.supply - 1 \in Int
      BY <2>2
    <3>2. CASE c = "swap"
      BY <2>2, <3>1, <3>2 DEF After, State, StateSet, Moved, Swapped
    <3>3. CASE c = "dust"
      BY <2>2, <3>1, <3>3 DEF After, State, StateSet, Moved, Swapped
    <3>4. CASE c = "back"
      BY <2>2, <3>1, <3>4 DEF After, State, StateSet, Moved, Swapped
    <3>5. CASE c = "dustBack"
      BY <2>2, <3>1, <3>5 DEF After, State, StateSet, Moved, Swapped
    <3>6. CASE c = "add"
      BY <2>2, <3>1, <3>6 DEF After, State, StateSet, Moved
    <3>7. CASE c = "remove"
      BY <2>2, <3>1, <3>7 DEF After, State, StateSet, Moved
    <3>8. CASE c = "pause"
      BY <2>2, <3>1, <3>8 DEF After, State, StateSet, Moved
    <3> QED
      BY <3>2, <3>3, <3>4, <3>5, <3>6, <3>7, <3>8 DEF Choices
  <2>4. states' = Append(states, After(c))
    BY <1>4 DEF Rotate
  <2> QED
    BY <1>2, <2>3, <2>4 DEF Now
<1>5. CASE UNCHANGED states
  BY <1>1, <1>5 DEF LedgerInv
<1>6. OpenPool \/ (\E c \in Choices : Rotate(c)) \/ UNCHANGED states
  BY DEF IndexerNext, LedgerMoves, ListPool, Ask, EndRfq, EndTrade, Choices, Polls, StartTick,
         Read, ReadConfig, WritePools, WriteTrades, WriteRfqs, FailTask, Restart, LedgerVars,
         IndexerVars
<1> QED
  BY <1>1, <1>3, <1>4, <1>5, <1>6

(* A row is about the two states it names, whatever came after. *)
LEMMA DeltaStays ==
  ASSUME NEW a, NEW b, states'[a] = states[a], states'[b] = states[b]
  PROVE  Delta(a, b)' = Delta(a, b)
BY DEF Delta, KindOf

LEMMA PathStays ==
  ASSUME PathInv, UNCHANGED <<seen, archived, feed>>,
         Len(states) \in Nat, Len(states') \in Nat, Len(states') >= Len(states),
         \A v \in 1 .. Len(states) : states'[v] = states[v]
  PROVE  PathInv'
<1>1. PICK R : feed \in Seq(R)
  BY DEF PathInv
<1>2. \E T : feed' \in Seq(T)
  <2>1. feed' \in Seq(R)
    BY <1>1
  <2> QED
    BY <2>1, Zenon
<1>3. ASSUME seen # {} PROVE \E p : PathOf(p)'
  <2>1. PICK p : PathOf(p)
    BY <1>3 DEF PathInv
  <2>2. ASSUME NEW i \in 1 .. Len(feed)
        PROVE  feed'[i] = Delta(p[i - 1], p[i])'
    <3>1. i - 1 \in 0 .. Len(feed) /\ i \in 0 .. Len(feed) /\ feed[i] = Delta(p[i - 1], p[i])
      BY <1>1, <2>1 DEF PathOf
    <3>2. states'[p[i - 1]] = states[p[i - 1]] /\ states'[p[i]] = states[p[i]]
      BY <2>1, <3>1 DEF PathOf
    <3> QED
      BY <3>1, <3>2, DeltaStays
  <2>3. p \in [0 .. Len(feed) -> 1 .. Len(states')]
    BY <2>1 DEF PathOf
  <2>4. Known' = Known
    BY DEF Known
  <2>5. PathOf(p)'
    BY <2>1, <2>2, <2>3, <2>4 DEF PathOf
  <2> QED
    BY <2>5
<1> QED
  BY <1>2, <1>3 DEF PathInv

(* A tick that finds a state it does not know lengthens the path by it. *)
LEMMA PathGrows ==
  ASSUME PathInv, UNCHANGED states, NEW v \in 1 .. Len(states), Len(states) \in Nat,
         \A w \in seen : w <= v,
         PoolsWritten({v}), archived \subseteq seen
  PROVE  PathInv'
<1>1. PICK R : feed \in Seq(R)
  BY DEF PathInv
<1>2. CASE v \in Known
  <2>1. PICK p : PathOf(p)
    BY <1>2 DEF PathInv, Known
  <2>2. Known = {v}
    BY <1>2, <2>1 DEF PathOf
  <2>3. UNCHANGED <<seen, archived, feed>>
    BY <2>2 DEF PoolsWritten
  <2> QED
    BY <2>3, PathStays
<1>3. CASE v \notin Known /\ seen = {}
  <2>1. Known = {} /\ archived = {} /\ feed = <<>>
    BY <1>3 DEF Known, PathInv
  <2>2. {v} \ Known = {v} /\ Known \ {v} = {} /\ Cardinality({}) = 0
    BY <2>1, FS_EmptySet
  <2>3. archived' = {} /\ seen' = {v} /\ feed' = <<>>
    BY <1>3, <2>1, <2>2 DEF PoolsWritten
  <2> DEFINE p == [i \in 0 .. 0 |-> v]
  <2>4. Len(feed') = 0 /\ Known' = {v}
    BY <2>3 DEF Known
  <2>5. p \in [0 .. 0 -> 1 .. Len(states')] /\ p[0] = v /\ {p[i] : i \in 0 .. 0} = {v}
    OBVIOUS
  <2> HIDE DEF p
  <2>6. PathOf(p)'
    BY <2>3, <2>4, <2>5 DEF PathOf
  <2>7. \E T : feed' \in Seq(T)
    <3>1. feed' \in Seq({})
      BY <2>3
    <3> QED
      BY <3>1, Zenon
  <2> QED
    BY <2>3, <2>6, <2>7 DEF PathInv
<1>4. CASE v \notin Known /\ seen # {}
  <2>1. PICK p : PathOf(p)
    BY <1>4 DEF PathInv
  <2>a. PICK n \in Nat : n = Len(feed)
    BY <1>1
  <2>b. /\ p \in [0 .. n -> 1 .. Len(states)] /\ seen = {p[i] : i \in 0 .. n}
        /\ \A i, j \in 0 .. n : i < j => p[i] < p[j]
        /\ \A i \in 1 .. n : feed[i] = Delta(p[i - 1], p[i])
        /\ Known = {p[n]}
    BY <2>1, <2>a DEF PathOf
  <2> DEFINE entry == Delta(p[n], v)
             q == [i \in 0 .. n + 1 |-> IF i = n + 1 THEN v ELSE p[i]]
  <2>2. n \in 0 .. n /\ p[n] \in Known
    BY <2>b
  <2>3. {v} \ Known = {v} /\ Known \ {v} = {p[n]} /\ p[n] # v
    BY <1>4, <2>b
  <2>4. Cardinality({p[n]}) = 1
    BY FS_Singleton
  <2>5. (CHOOSE x \in {p[n]} : TRUE) = p[n] /\ (CHOOSE x \in {v} : TRUE) = v
    OBVIOUS
  <2>6. archived' = archived \cup {p[n]} /\ seen' = seen \cup {v} /\ feed' = Append(feed, entry)
    <3>1. feed' = Append(feed, Delta(CHOOSE x \in {p[n]} : TRUE, CHOOSE x \in {v} : TRUE))
      BY <2>3, <2>4 DEF PoolsWritten
    <3> QED
      BY <2>3, <2>5, <3>1 DEF PoolsWritten
  <2>7. \A i \in 0 .. n : p[i] \in seen /\ p[i] <= v /\ p[i] \in Nat
    BY <2>b, <2>2
  <2>8. \A i \in 0 .. n : p[i] < v
    <3>1. SUFFICES ASSUME NEW i \in 0 .. n, p[i] = v PROVE FALSE
      BY <2>7
    <3>2. i # n
      BY <2>3, <3>1
    <3>3. p[i] < p[n] /\ p[n] <= v
      BY <2>b, <2>2, <2>7, <3>2
    <3> QED
      BY <2>2, <2>7, <3>1, <3>3
  <2>9. /\ feed' \in Seq(R \cup {entry}) /\ Len(feed') = n + 1 /\ feed'[n + 1] = entry
        /\ \A i \in 1 .. n : feed'[i] = feed[i]
    <3> HIDE DEF entry
    <3> QED
      BY <1>1, <2>a, <2>6
  <2>10. v \notin archived
    BY <2>b, <2>7, <2>8, <1>4 DEF Known
  <2>11. Known' = {v}
    BY <2>b, <2>3, <2>6, <2>10 DEF Known
  <2>12. /\ q \in [0 .. n + 1 -> 1 .. Len(states')]
         /\ q[n + 1] = v /\ \A i \in 0 .. n : q[i] = p[i]
    BY <2>b, <2>2
  <2> HIDE DEF q
  <2>13. \A i, j \in 0 .. n + 1 : i < j => q[i] < q[j]
    <3>1. SUFFICES ASSUME NEW i \in 0 .. n + 1, NEW j \in 0 .. n + 1, i < j PROVE q[i] < q[j]
      OBVIOUS
    <3>2. i \in 0 .. n
      BY <3>1
    <3>3. CASE j = n + 1
      BY <2>8, <2>12, <3>2, <3>3
    <3>4. CASE j # n + 1
      <4>1. j \in 0 .. n
        BY <3>4
      <4> QED
        BY <2>b, <2>12, <3>1, <3>2, <4>1
    <3> QED
      BY <3>3, <3>4
  <2>14. ASSUME NEW i \in 1 .. n + 1
         PROVE  feed'[i] = Delta(q[i - 1], q[i])'
    <3>1. CASE i = n + 1
      BY <2>2, <2>9, <2>12, <3>1, DeltaStays
    <3>2. CASE i # n + 1
      <4>1. i \in 1 .. n /\ i - 1 \in 0 .. n /\ i \in 0 .. n
        BY <2>2, <3>2
      <4>2. feed[i] = Delta(p[i - 1], p[i])
        BY <2>b, <4>1
      <4> QED
        BY <2>9, <2>12, <4>1, <4>2, DeltaStays
    <3> QED
      BY <3>1, <3>2
  <2>15. seen' = {q[i] : i \in 0 .. n + 1}
    <3>1. 0 .. n + 1 = (0 .. n) \cup {n + 1}
      BY <2>2
    <3>2. {q[i] : i \in 0 .. n + 1} = {q[i] : i \in 0 .. n} \cup {q[n + 1]}
      BY <3>1
    <3>3. {q[i] : i \in 0 .. n} = {p[i] : i \in 0 .. n}
      BY <2>12
    <3> QED
      BY <2>b, <2>6, <2>12, <3>2, <3>3
  <2> HIDE DEF entry
  <2>16. PathOf(q)'
    BY <2>9, <2>11, <2>12, <2>13, <2>14, <2>15 DEF PathOf
  <2>17. \E T : feed' \in Seq(T)
    BY <2>9, Zenon
  <2>18. seen' # {}
    BY <2>6
  <2> QED
    BY <2>16, <2>17, <2>18 DEF PathInv
<1> QED
  BY <1>2, <1>3, <1>4

LEMMA PathStep ==
  ASSUME TickInv, LedgerInv, InTurn => PathInv, [IndexerNext]_IndexerVars, InTurn'
  PROVE  PathInv'
<1>1. /\ Len(states) \in Nat /\ Len(states') \in Nat /\ Len(states') >= Len(states)
      /\ \A v \in 1 .. Len(states) : states'[v] = states[v]
  BY StatesFollow
<1>a. InTurn /\ PathInv
  <2>1. belated \subseteq belated'
    BY DEF IndexerNext, LedgerMoves, ListPool, OpenPool, Rotate, Ask, EndRfq, EndTrade, Polls,
           StartTick, Read, ReadConfig, WritePools, WriteTrades, WriteRfqs, FailTask, Restart,
           Ended, IndexerVars
  <2> QED
    BY <2>1 DEF InTurn
<1>2. CASE UNCHANGED <<seen, archived, feed>>
  BY <1>1, <1>2, <1>a, PathStays
<1>3. ASSUME NEW t \in Tick, WritePools(t)
      PROVE  PathInv'
  <2>1. /\ PoolRead(t).read # Unread /\ PoolRead(t).config # Unread
        /\ PoolsWritten(LivePools(PoolRead(t))) /\ UNCHANGED states
    BY <1>3 DEF WritePools, PoolRead, LedgerVars
  <2>a. t = running /\ ReadsForward
    BY <1>3, <1>a DEF WritePools, Ended, InTurn, TickInv
  <2>2. PoolRead(t).read \in 0 .. Len(states) /\ \A w \in seen : w <= PoolRead(t).read
    BY <1>1, <2>1, <2>a DEF TickInv, ReadSoFar, ReadsForward
  <2>3. CASE PoolRead(t).config = 1 /\ PoolRead(t).read > 0
    <3>1. LivePools(PoolRead(t)) = {PoolRead(t).read} /\ PoolRead(t).read \in 1 .. Len(states)
      BY <1>1, <2>2, <2>3 DEF LivePools
    <3> QED
      BY <1>1, <1>a, <2>1, <2>2, <3>1, PathGrows DEF TickInv, RowsKnown
  <2>4. CASE ~ (PoolRead(t).config = 1 /\ PoolRead(t).read > 0)
    <3>1. LivePools(PoolRead(t)) = {} /\ seen = {}
      BY <1>1, <2>1, <2>2, <2>4, <2>a DEF LivePools, TickInv, ReadSoFar, ReadsForward, RowsKnown
    <3>2. UNCHANGED <<seen, archived, feed>>
      BY <2>1, <3>1 DEF PoolsWritten, Known
    <3> QED
      BY <1>1, <1>a, <3>2, PathStays
  <2> QED
    BY <2>3, <2>4
<1>4. (\E t \in Tick : WritePools(t)) \/ UNCHANGED <<seen, archived, feed>>
  BY DEF IndexerNext, LedgerMoves, ListPool, OpenPool, Rotate, Ask, EndRfq, EndTrade, Polls,
         StartTick, Read, ReadConfig, WriteTrades, WriteRfqs, FailTask, Restart,
         DatabaseVars, IndexerVars
<1> QED
  BY <1>2, <1>3, <1>4

(* What the tasks of the RFQ and of its trade have read changes by their   *)
(* own steps only; a tick has the flag from its start on.                  *)
LEMMA ReadsMove ==
  ASSUME TickInv, IndexerNext, ~LedgerMoves, NEW t \in Tick, NEW k \in Tasks
  PROVE  /\ task'[t][k].read \in {task[t][k].read, Unread, Seen(k)}
         /\ t = running' => t = running \/ task'[t][k].read = Unread
<1>0. task \in [Tick -> [Tasks -> Reads]] /\ "pools" \in Tasks /\ 0 \notin Tick
  BY TicksAre DEF TickInv, Shape
<1>1. ASSUME NEW u \in Tick, StartTick(u) \/ Restart
      PROVE  /\ task'[t][k].read \in {task[t][k].read, Unread}
             /\ t = running' => task'[t][k].read = Unread
  <2>1. \/ task'[t][k] = Started \/ task'[t][k] = Resting
        \/ task'[t][k] = task[t][k] /\ t # running'
    BY <1>0, <1>1 DEF StartTick, Restart
  <2> QED
    BY <2>1, RestingTasks
<1>2. ASSUME NEW u \in Tick, NEW j \in Tasks, Read(u, j)
      PROVE  task'[t][k].read \in {task[t][k].read, Seen(k)} /\ running' = running
  <2>1. /\ task' = [task EXCEPT ![u][j] =
               [phase |-> "reading", config |-> task[u][j].config, read |-> Seen(j)]]
        /\ running' = running
    BY <1>2 DEF Read, Noted
  <2>2. CASE u = t /\ j = k
    <3>1. task'[t][k] = [phase |-> "reading", config |-> task[u][j].config, read |-> Seen(k)]
      BY <1>0, <2>1, <2>2
    <3> QED
      BY <2>1, <3>1
  <2>3. CASE u # t \/ j # k
    BY <1>0, <2>1, <2>3
  <2> QED
    BY <2>2, <2>3
<1>3. ASSUME NEW u \in Tick, ReadConfig(u)
      PROVE  task'[t][k].read = task[t][k].read /\ running' = running
  <2>1. PICK c : task' = [task EXCEPT ![u]["pools"] =
               [phase |-> "reading", config |-> c, read |-> task[u]["pools"].read]]
    BY <1>3 DEF ReadConfig, Noted
  <2>2. CASE u = t /\ k = "pools"
    <3>1. task'[t][k] = [phase |-> "reading", config |-> c, read |-> task[t][k].read]
      BY <1>0, <2>1, <2>2
    <3> QED
      BY <1>3, <3>1 DEF ReadConfig
  <2>3. CASE u # t \/ k # "pools"
    BY <1>0, <1>3, <2>1, <2>3 DEF ReadConfig
  <2> QED
    BY <2>2, <2>3
<1>4. ASSUME NEW u \in Tick, NEW j \in Tasks, task' = [task EXCEPT ![u][j] = Resting]
      PROVE  task'[t][k].read \in {task[t][k].read, Unread}
  <2>1. CASE u = t /\ j = k
    <3>1. task'[t][k] = Resting
      BY <1>0, <1>4, <2>1
    <3> QED
      BY <3>1, RestingTasks
  <2>2. CASE u # t \/ j # k
    BY <1>0, <1>4, <2>2
  <2> QED
    BY <2>1, <2>2
<1>5. ASSUME NEW u \in Tick,
             WritePools(u) \/ WriteTrades(u) \/ WriteRfqs(u) \/ \E j \in Tasks : FailTask(u, j)
      PROVE  /\ task'[t][k].read \in {task[t][k].read, Unread}
             /\ running' \in {running, 0}
  <2>1. /\ \E j \in Tasks : task' = [task EXCEPT ![u][j] = Resting]
        /\ running' \in {running, 0}
    BY <1>5 DEF WritePools, WriteTrades, WriteRfqs, FailTask, Ended, Tasks
  <2> QED
    BY <1>4, <2>1
<1>6. 1 \in Tick
  BY DEF Tick
<1> QED
  BY <1>0, <1>1, <1>2, <1>3, <1>5, <1>6 DEF IndexerNext, Polls

(* A history that ends is told apart from one that goes on. *)
LEMMA Verdicts ==
  /\ \A v \in {"accepted", "closed"} :
       /\ Len(Append(<<"open">>, v)) = 2 /\ Append(<<"open">>, v)[2] = v
       /\ Append(<<"open">>, v) # <<"open">> /\ Append(<<"open">>, v) # <<>>
  /\ <<"open">> # <<>>
<1>1. Len(Append(<<"open">>, "closed")) = 2 /\ Append(<<"open">>, "closed")[2] = "closed"
  OBVIOUS
<1>2. Len(Append(<<"open">>, "accepted")) = 2 /\ Append(<<"open">>, "accepted")[2] = "accepted"
  OBVIOUS
<1>3. Len(<<"open">>) = 1 /\ Len(<<>>) = 0
  OBVIOUS
<1> QED
  BY <1>1, <1>2, <1>3

LEMMA HistoryStep ==
  ASSUME TickInv, HistoryInv, [IndexerNext]_IndexerVars
  PROVE  HistoryInv'
<1>1. CASE UNCHANGED IndexerVars
  BY <1>1 DEF IndexerVars, LedgerVars, DatabaseVars, HistoryInv, HistoryIs, AskedOf, FoundOf
<1>2. CASE LedgerMoves
  <2>1. UNCHANGED <<task, running, belated, side, trades, history>>
    BY <1>2 DEF LedgerMoves, ListPool, OpenPool, Rotate, Ask, EndRfq, EndTrade, DatabaseVars
  <2>a. \A t \in Tick : AskedOf(t)' = AskedOf(t) /\ FoundOf(t)' = FoundOf(t)
    BY <2>1 DEF AskedOf, FoundOf
  <2>2. CASE Ask \/ EndRfq \/ EndTrade
    <3>1. \/ rfq = "none" /\ rfq' = "open" /\ UNCHANGED trade
          \/ rfq = "open" /\ rfq' = "accepted" /\ trade' = "live"
          \/ rfq = "open" /\ rfq' = "gone" /\ UNCHANGED trade
          \/ trade = "live" /\ trade' = "archived" /\ UNCHANGED rfq
      BY <2>2 DEF Ask, EndRfq, EndTrade
    <3>2. HistoryIs => HistoryIs'
      BY <2>1, <2>a, <3>1 DEF HistoryIs, Over
    <3> HIDE DEF HistoryIs
    <3> QED
      BY <2>1, <2>a, <3>1, <3>2 DEF HistoryInv, Over
  <2>3. CASE UNCHANGED <<rfq, trade>>
    BY <2>1, <2>3, <2>a DEF HistoryInv, HistoryIs
  <2> QED
    BY <1>2, <2>2, <2>3 DEF LedgerMoves, ListPool, OpenPool, Rotate
<1>3. CASE IndexerNext /\ ~LedgerMoves
  <2>1. UNCHANGED <<side, rfq, trade>>
    BY <1>3 DEF IndexerNext, Polls, StartTick, Read, ReadConfig, WritePools, WriteTrades,
                WriteRfqs, FailTask, Restart, LedgerVars
  <2>2. "rfqs" \in Tasks /\ "trades" \in Tasks /\ 0 \notin Tick
    BY TicksAre DEF Tasks
  <2>3. \A t \in Tick :
          /\ AskedOf(t)' \in {AskedOf(t), Unread, SeenRfq}
          /\ FoundOf(t)' \in {FoundOf(t), Unread, SeenTrade}
          /\ t = running' => t = running \/ AskedOf(t)' = Unread
    BY <1>3, <2>2, ReadsMove DEF Seen, AskedOf, FoundOf
  <2>4. \A t \in Tick :
        /\ AskedOf(t)' \in {Unread, 0, 1} /\ FoundOf(t)' \in {Unread, 0, 1}
        /\ AskedOf(t)' = 1 => rfq # "none"
        /\ FoundOf(t)' = 1 => rfq = "accepted"
    BY <2>3 DEF HistoryInv, SeenRfq, SeenTrade, Unread
  <2>5. \A t \in Tick : (t = running' /\ AskedOf(t)' = 0) =>
          \/ t = running /\ AskedOf(t) = 0
          \/ rfq # "open"
    BY <2>3 DEF SeenRfq, Unread
  <2>b. "rfqs" \notin belated' => "rfqs" \notin belated
    BY <1>3 DEF IndexerNext, Polls, StartTick, Read, ReadConfig, WritePools, WriteTrades,
                WriteRfqs, FailTask, Restart, Ended
  <2>6. CASE UNCHANGED <<trades, history>>
    <3>1. HistoryIs => HistoryIs'
      <4> SUFFICES ASSUME HistoryIs PROVE HistoryIs'
        OBVIOUS
      <4>1. \A t \in Tick : (t = running' /\ AskedOf(t)' = 0) =>
              history = <<>> \/ rfq \in Over
        BY <2>5 DEF HistoryIs, HistoryInv
      <4> QED
        BY <2>1, <2>6, <4>1 DEF HistoryIs
    <3> QED
      BY <2>1, <2>4, <2>6, <2>b, <3>1 DEF HistoryInv
  <2>7. ASSUME NEW t \in Tick, WriteTrades(t)
        PROVE  HistoryInv'
    <3>1. UNCHANGED history
      BY <2>7 DEF WriteTrades
    <3>2. trades' # NoTrade => /\ rfq = "accepted"
                               /\ trades'.trader = "trader" /\ trades'.counterparty = "dealer"
      <4>1. CASE FoundOf(t) = 1 /\ trades = NoTrade
        <5>1. trades' = DeriveTradeParties(Legs, "dealer")
          BY <2>7, <4>1 DEF WriteTrades, FoundOf
        <5>2. DeriveTradeParties(Legs, "dealer").trader = "trader"
              /\ DeriveTradeParties(Legs, "dealer").counterparty = "dealer"
          <6>1. {Legs[1][1], Legs[1][2], Legs[2][1], Legs[2][2]} = {"trader", "dealer"}
            BY DEF Legs
          <6>2. (CHOOSE p \in {"trader", "dealer"} : p # "dealer") = "trader"
                /\ (CHOOSE p \in {"trader", "dealer"} : p # "trader") = "dealer"
            OBVIOUS
          <6> QED
            BY <6>1, <6>2 DEF DeriveTradeParties
        <5> QED
          BY <4>1, <5>1, <5>2 DEF HistoryInv
      <4>2. CASE ~ (FoundOf(t) = 1 /\ trades = NoTrade)
        BY <2>7, <4>2 DEF WriteTrades, HistoryInv, FoundOf
      <4> QED
        BY <4>1, <4>2
    <3>3. trades # NoTrade => trades' # NoTrade
      BY <2>7 DEF WriteTrades
    <3>4. HistoryIs => HistoryIs'
      <4> SUFFICES ASSUME HistoryIs PROVE HistoryIs'
        OBVIOUS
      <4>1. \A u \in Tick : (u = running' /\ AskedOf(u)' = 0) =>
              history = <<>> \/ rfq \in Over
        BY <2>5 DEF HistoryIs, HistoryInv
      <4> QED
        BY <2>1, <3>1, <3>3, <4>1 DEF HistoryIs
    <3> QED
      BY <2>1, <2>4, <2>b, <3>2, <3>4 DEF HistoryInv
  <2>8. ASSUME NEW t \in Tick, WriteRfqs(t)
        PROVE  HistoryInv'
    <3>1. /\ UNCHANGED trades /\ history' = HistoryAfter(AskedOf(t) = 1)
          /\ AskedOf(t) \in {0, 1}
          /\ running' \in {running, 0}
      BY <2>8 DEF WriteRfqs, HistoryInv, Ended, AskedOf
    <3>2. \A u \in Tick : AskedOf(u)' = IF u = t THEN Unread ELSE AskedOf(u)
      <4>1. /\ task' = [task EXCEPT ![t]["rfqs"] = Resting]
            /\ task \in [Tick -> [Tasks -> Reads]]
        BY <2>8 DEF WriteRfqs, Ended, TickInv, Shape
      <4>2. task'[t]["rfqs"] = Resting
        BY <2>2, <4>1
      <4>3. \A u \in Tick : u # t => task'[u] = task[u]
        BY <4>1
      <4> QED
        BY <4>2, <4>3, RestingTasks DEF AskedOf
    <3>3. ASSUME "rfqs" \notin belated' PROVE HistoryIs'
      <4>0. running = t /\ HistoryIs
        BY <2>8, <2>b, <3>3 DEF WriteRfqs, Ended, HistoryInv
      <4>1. /\ Append(<<"open">>, "closed") # <<"open">> /\ Append(<<"open">>, "closed") # <<>>
            /\ Append(<<"open">>, "accepted") # <<"open">> /\ Append(<<"open">>, "accepted") # <<>>
            /\ <<>> # <<"open">>
        BY Verdicts
      <4>a. \A u \in Tick : u = running' => AskedOf(u)' = Unread
        BY <2>2, <3>1, <3>2, <4>0
      <4>b. \/ history' = <<>>
            \/ history' = <<"open">> /\ rfq # "none"
            \/ history' = Append(<<"open">>, "closed") /\ rfq \in Over
            \/ history' = Append(<<"open">>, "accepted") /\ rfq = "accepted" /\ trades # NoTrade
        <5>2. CASE AskedOf(t) = 1 /\ history = <<>>
          BY <3>1, <4>1, <5>2 DEF HistoryAfter, HistoryInv
        <5>3. CASE AskedOf(t) = 0 /\ history = <<"open">>
          <6>1. rfq \in Over
            BY <4>0, <4>1, <5>3 DEF HistoryIs
          <6>2. history' = Append(<<"open">>, IF trades # NoTrade THEN "accepted" ELSE "closed")
            <7>1. (AskedOf(t) = 1) = FALSE
              BY <5>3
            <7>2. history' = HistoryAfter(FALSE)
              BY <3>1, <7>1
            <7> QED
              BY <4>1, <5>3, <7>2 DEF HistoryAfter
          <6> QED
            BY <6>1, <6>2 DEF HistoryInv
        <5>4. CASE ~ (AskedOf(t) = 1 /\ history = <<>>) /\ ~ (AskedOf(t) = 0 /\ history = <<"open">>)
          <6>1. history' = history
            BY <3>1, <5>4 DEF HistoryAfter
          <6> QED
            BY <4>0, <6>1 DEF HistoryIs
        <5> QED
          BY <5>2, <5>3, <5>4
      <4> QED
        BY <2>1, <3>1, <4>a, <4>b DEF HistoryIs, Unread
    <3> QED
      BY <2>1, <2>4, <3>1, <3>3 DEF HistoryInv
  <2> QED
    BY <1>3, <2>6, <2>7, <2>8
       DEF IndexerNext, Polls, StartTick, Read, ReadConfig, WritePools, FailTask, Restart,
           DatabaseVars
<1> QED
  BY <1>1, <1>2, <1>3

-----------------------------------------------------------------------------
(* What follows from the path. *)

LEMMA HistoryTold == HistoryInv /\ HistoryIs => HistoryTrue
<1>1. Len(<<"open">>) = 1 /\ Len(<<>>) = 0
  OBVIOUS
<1> QED
  BY <1>1, Verdicts DEF HistoryInv, HistoryIs, HistoryTrue, Over

(* The numbers of a row are those of its ends. *)
LEMMA RowOf ==
  ASSUME LedgerInv, NEW p, PathOf(p), NEW R, feed \in Seq(R), NEW i \in 1 .. Len(feed)
  PROVE  /\ i - 1 \in 0 .. Len(feed) /\ i \in 0 .. Len(feed)
         /\ feed[i].old = p[i - 1] /\ feed[i].new = p[i]
         /\ feed[i].base = states[p[i]].base - states[p[i - 1]].base
         /\ feed[i].quote = states[p[i]].quote - states[p[i - 1]].quote
         /\ feed[i].kind = KindOf(states[p[i - 1]], states[p[i]])
         /\ p[i - 1] \in 1 .. Len(states) /\ p[i] \in 1 .. Len(states) /\ p[i - 1] < p[i]
         /\ states[p[i - 1]] \in StateSet /\ states[p[i]] \in StateSet
<1>1. Len(feed) \in Nat
  OBVIOUS
<1>2. i - 1 \in 0 .. Len(feed) /\ i \in 0 .. Len(feed) /\ i - 1 < i
  BY <1>1
<1>3. p[i - 1] \in 1 .. Len(states) /\ p[i] \in 1 .. Len(states) /\ p[i - 1] < p[i]
  BY <1>2 DEF PathOf
<1>4. states[p[i - 1]] \in StateSet /\ states[p[i]] \in StateSet
  BY <1>3 DEF LedgerInv
<1>5. feed[i] = Delta(p[i - 1], p[i])
  BY DEF PathOf
<1> QED
  BY <1>2, <1>3, <1>4, <1>5 DEF Delta

(* The rows of the feed add up from one end of the path to the other. *)
LEMMA FeedAddsUp ==
  ASSUME LedgerInv, NEW p, PathOf(p), NEW R, feed \in Seq(R), NEW s \in {"base", "quote"}
  PROVE  states[p[0]][s] + Total(s) = states[p[Len(feed)]][s]
<1> DEFINE sum[i \in 0 .. Len(feed)] == IF i = 0 THEN 0 ELSE sum[i - 1] + feed[i][s]
           at(i) == states[p[i]][s]
           way == [i \in 0 .. Len(feed) |-> at(i) - at(0)]
<1>1. Len(feed) \in Nat /\ \A i \in 0 .. Len(feed) : at(i) \in Int
  <2>1. \A i \in 0 .. Len(feed) : states[p[i]] \in StateSet
    BY DEF PathOf, LedgerInv
  <2> QED
    BY <2>1 DEF StateSet
<1>2. ASSUME NEW i \in 1 .. Len(feed)
      PROVE  feed[i][s] = at(i) - at(i - 1)
  <2>1. feed[i].base = states[p[i]].base - states[p[i - 1]].base
        /\ feed[i].quote = states[p[i]].quote - states[p[i - 1]].quote
    BY RowOf
  <2> QED
    BY <2>1
<1> HIDE DEF at
<1>3. way = [i \in 0 .. Len(feed) |-> IF i = 0 THEN 0 ELSE way[i - 1] + feed[i][s]]
  <2> SUFFICES ASSUME NEW i \in 0 .. Len(feed)
               PROVE  way[i] = IF i = 0 THEN 0 ELSE way[i - 1] + feed[i][s]
    OBVIOUS
  <2>0. 0 \in 0 .. Len(feed)
    BY <1>1
  <2>1. CASE i = 0
    BY <1>1, <2>0, <2>1
  <2>2. CASE i # 0
    <3>1. i \in 1 .. Len(feed) /\ i - 1 \in 0 .. Len(feed)
      BY <1>1, <2>2
    <3>2. way[i] = at(i) - at(0) /\ way[i - 1] = at(i - 1) - at(0)
      BY <3>1
    <3>3. at(i) \in Int /\ at(i - 1) \in Int /\ at(0) \in Int
      BY <1>1, <2>0, <3>1
    <3> QED
      BY <1>2, <2>2, <3>1, <3>2, <3>3
  <2> QED
    BY <2>1, <2>2
<1>4. sum = CHOOSE f : f = [i \in 0 .. Len(feed) |-> IF i = 0 THEN 0 ELSE f[i - 1] + feed[i][s]]
  OBVIOUS
<1>5. Total(s) = sum[Len(feed)]
  BY DEF Total
<1> HIDE DEF sum, way
<1>6. sum = [i \in 0 .. Len(feed) |-> IF i = 0 THEN 0 ELSE sum[i - 1] + feed[i][s]]
  BY <1>3, <1>4
<1> DEFINE T == {n \in Nat : n \in 0 .. Len(feed) => sum[n] = at(n) - at(0)}
<1>7. 0 \in T
  <2>1. 0 \in 0 .. Len(feed)
    BY <1>1
  <2>2. sum[0] = 0 /\ at(0) \in Int
    BY <1>1, <1>6, <2>1
  <2> QED
    BY <2>2
<1>8. ASSUME NEW n \in Nat, n \in T
      PROVE  n + 1 \in T
  <2> SUFFICES ASSUME n + 1 \in 0 .. Len(feed) PROVE sum[n + 1] = at(n + 1) - at(0)
    OBVIOUS
  <2>1. n \in 0 .. Len(feed) /\ n + 1 \in 1 .. Len(feed) /\ (n + 1) - 1 = n /\ n + 1 # 0
    BY <1>1
  <2>2. sum[n + 1] = sum[n] + feed[n + 1][s]
    BY <1>6, <2>1
  <2>3. feed[n + 1][s] = at(n + 1) - at(n)
    BY <1>2, <2>1
  <2>4. sum[n] = at(n) - at(0)
    BY <1>8, <2>1
  <2>5. at(n) \in Int /\ at(n + 1) \in Int /\ at(0) \in Int
    BY <1>1, <2>1
  <2> QED
    BY <2>2, <2>3, <2>4, <2>5
<1>9. Len(feed) \in T
  <2> HIDE DEF T
  <2> QED
    BY <1>1, <1>7, <1>8, Induction
<1>10. at(Len(feed)) \in Int /\ at(0) \in Int /\ sum[Len(feed)] = at(Len(feed)) - at(0)
  BY <1>1, <1>9
<1>11. at(0) + sum[Len(feed)] = at(Len(feed))
  BY <1>10
<1> QED
  BY <1>5, <1>11 DEF at

(* The numbers tell which choice rotated a state. *)
LEMMA KindIsBy ==
  ASSUME NEW s \in StateSet, NEW t \in StateSet, Moved(s, t)
  PROVE  KindOf(s, t) = t.by /\ (t.by = "swap" => Swapped(s, t))
<1>1. /\ s.base \in Int /\ s.quote \in Int /\ s.supply \in Int
      /\ t.base \in Int /\ t.quote \in Int /\ t.supply \in Int
  BY DEF StateSet
<1>2. CASE Swapped(s, t)
  <2>1. t.base # s.base \/ t.quote # s.quote
    BY <1>1, <1>2 DEF Swapped
  <2> QED
    BY <1>1, <1>2, <2>1 DEF Swapped, KindOf
<1>3. CASE t.by = "add_liquidity" /\ t.supply = s.supply + 1
  <2>1. t.supply > s.supply /\ ~ (t.supply < s.supply) /\ t.supply # s.supply
    BY <1>1, <1>3
  <2>2. KindOf(s, t) = "add_liquidity"
    BY <2>1 DEF KindOf
  <2> QED
    BY <1>3, <2>2
<1>4. CASE t.by = "remove_liquidity" /\ t.supply = s.supply - 1
  <2>1. ~ (t.supply > s.supply) /\ t.supply < s.supply /\ t.supply # s.supply
    BY <1>1, <1>4
  <2>2. KindOf(s, t) = "remove_liquidity"
    BY <2>1 DEF KindOf
  <2> QED
    BY <1>4, <2>2
<1>5. CASE /\ t.by = "state_change"
           /\ t.supply = s.supply /\ t.base = s.base /\ t.quote = s.quote
  <2>1. ~ (t.supply > s.supply) /\ ~ (t.supply < s.supply)
    BY <1>1, <1>5
  <2> QED
    BY <1>5, <2>1 DEF KindOf
<1> QED
  BY <1>2, <1>3, <1>4, <1>5 DEF Moved

(* A row between neighbours is of the choice that rotated them. *)
LEMMA NeighbourRow ==
  ASSUME LedgerInv, NEW p, PathOf(p), NEW R, feed \in Seq(R), NEW i \in 1 .. Len(feed),
         Neighbours(feed[i])
  PROVE  /\ p[i] \in 2 .. Len(states) /\ p[i - 1] = p[i] - 1
         /\ feed[i].kind = states[p[i]].by
         /\ feed[i].kind = "swap" => Swapped(states[p[i - 1]], states[p[i]])
<1>1. /\ feed[i].old = p[i - 1] /\ feed[i].new = p[i]
      /\ p[i - 1] \in 1 .. Len(states) /\ p[i] \in 1 .. Len(states)
      /\ states[p[i - 1]] \in StateSet /\ states[p[i]] \in StateSet
      /\ feed[i].kind = KindOf(states[p[i - 1]], states[p[i]])
  BY RowOf
<1>2. p[i] = p[i - 1] + 1
  BY <1>1 DEF Neighbours
<1>3. p[i] \in 2 .. Len(states) /\ p[i - 1] = p[i] - 1
  BY <1>1, <1>2
<1>4. Moved(states[p[i - 1]], states[p[i]])
  BY <1>3 DEF LedgerInv
<1> QED
  BY <1>1, <1>3, <1>4, KindIsBy

LEMMA FeedEnds ==
  ASSUME LedgerInv, PathInv
  PROVE  FeedReconciles
<1>1. PICK R : feed \in Seq(R)
  BY DEF PathInv
<1>2. ASSUME NEW v \in Known
      PROVE  LET first == CHOOSE w \in seen : \A x \in seen : w <= x
             IN /\ states[first].base + Total("base") = states[v].base
                /\ states[first].quote + Total("quote") = states[v].quote
  <2>1. PICK p : PathOf(p)
    BY <1>2 DEF Known, PathInv
  <2>2. v = p[Len(feed)]
    BY <1>2, <2>1 DEF PathOf
  <2>3. (CHOOSE w \in seen : \A x \in seen : w <= x) = p[0]
    <3>1. 0 \in 0 .. Len(feed) /\ p[0] \in seen
      BY <1>1, <2>1 DEF PathOf
    <3>2. ASSUME NEW w \in seen
          PROVE  p[0] <= w /\ w \in Nat /\ p[0] \in Nat
      <4>1. PICK i \in 0 .. Len(feed) : w = p[i]
        BY <2>1 DEF PathOf
      <4>2. CASE i = 0
        BY <2>1, <3>1, <4>1, <4>2 DEF PathOf
      <4>3. CASE i # 0
        BY <1>1, <2>1, <3>1, <4>1, <4>3 DEF PathOf
      <4> QED
        BY <4>2, <4>3
    <3>3. ASSUME NEW w \in seen, \A x \in seen : w <= x
          PROVE  w = p[0]
      <4>1. w <= p[0]
        BY <3>1, <3>3
      <4> QED
        BY <3>2, <4>1
    <3> QED
      BY <3>1, <3>2, <3>3
  <2>4. /\ states[p[0]]["base"] + Total("base") = states[p[Len(feed)]]["base"]
        /\ states[p[0]]["quote"] + Total("quote") = states[p[Len(feed)]]["quote"]
    BY <1>1, <2>1, FeedAddsUp
  <2> QED
    BY <2>2, <2>3, <2>4
<1>3. ASSUME NEW i \in 1 .. Len(feed), feed[i].new = feed[i].old + 1
      PROVE  feed[i].kind = states[feed[i].new].by
  <2>1. Len(feed) # 0 /\ seen # {}
    BY <1>1, <1>3 DEF PathInv
  <2>2. PICK p : PathOf(p)
    BY <2>1 DEF PathInv
  <2>3. feed[i].new = p[i] /\ feed[i].kind = states[p[i]].by
    BY <1>1, <1>3, <2>2, RowOf, NeighbourRow DEF Neighbours
  <2> QED
    BY <2>3
<1> QED
  BY <1>2, <1>3 DEF FeedReconciles

(* What a swap is shown as, which side of it grew. *)
LEMMA SwapShown ==
  ASSUME NEW s \in StateSet, NEW t \in StateSet, Swapped(s, t),
         NEW m, m.base = t.base - s.base, m.quote = t.quote - s.quote
  PROVE  LET shown == Shown(m) IN
         /\ shown.paid > 0
         /\ t[shown.sent] = s[shown.sent] + shown.paid
         /\ t[shown.received] = s[shown.received] - shown.got
<1>1. s.base \in Int /\ s.quote \in Int /\ t.base \in Int /\ t.quote \in Int
  BY DEF StateSet
<1>2. m["base"] = m.base /\ m["quote"] = m.quote
  OBVIOUS
<1>3. CASE SentBase(m)
  <2>1. /\ Shown(m).sent = "base" /\ Shown(m).received = "quote"
        /\ Shown(m).paid = Magnitude(m.base) /\ Shown(m).got = Magnitude(m.quote)
    BY <1>3 DEF Shown
  <2>2. m.base > 0 /\ m.quote <= 0
    BY <1>1, <1>3 DEF Swapped, SentBase
  <2> QED
    BY <1>1, <2>1, <2>2 DEF Magnitude
<1>4. CASE ~SentBase(m)
  <2>1. /\ Shown(m).sent = "quote" /\ Shown(m).received = "base"
        /\ Shown(m).paid = Magnitude(m.quote) /\ Shown(m).got = Magnitude(m.base)
    BY <1>4 DEF Shown
  <2>2. m.quote > 0 /\ m.base <= 0
    BY <1>1, <1>4 DEF Swapped, SentBase
  <2> QED
    BY <1>1, <2>1, <2>2 DEF Magnitude
<1> QED
  BY <1>3, <1>4

LEMMA SwapsAreTold ==
  ASSUME LedgerInv, PathInv
  PROVE  SwapsTold
<1>1. PICK R : feed \in Seq(R)
  BY DEF PathInv
<1> SUFFICES ASSUME NEW i \in 1 .. Len(feed), Neighbours(feed[i]), feed[i].kind = "swap"
             PROVE  LET shown == Shown(feed[i]) IN
                    /\ shown.paid > 0
                    /\ states[feed[i].new][shown.sent] = states[feed[i].old][shown.sent] + shown.paid
                    /\ states[feed[i].new][shown.received]
                         = states[feed[i].old][shown.received] - shown.got
  BY <1>1 DEF SwapsTold
<1>2. PICK p : PathOf(p)
  <2>1. Len(feed) # 0 /\ seen # {}
    BY <1>1 DEF PathInv
  <2> QED
    BY <2>1 DEF PathInv
<1>3. /\ states[p[i - 1]] \in StateSet /\ states[p[i]] \in StateSet
      /\ feed[i].old = p[i - 1] /\ feed[i].new = p[i]
      /\ feed[i].base = states[p[i]].base - states[p[i - 1]].base
      /\ feed[i].quote = states[p[i]].quote - states[p[i - 1]].quote
  BY <1>1, <1>2, RowOf
<1>4. Swapped(states[p[i - 1]], states[p[i]])
  BY <1>1, <1>2, NeighbourRow
<1> QED
  BY <1>3, <1>4, SwapShown

-----------------------------------------------------------------------------
(* The figures of the day. *)

(* The n-th of a finite set of numbers, counted from the greatest. *)
LEMMA NewestIs ==
  ASSUME NEW T, T \subseteq Nat, IsFiniteSet(T), NEW i \in T
  PROVE  /\ Cardinality({j \in T : j >= i}) \in 1 .. Cardinality(T)
         /\ Newest(Cardinality({j \in T : j >= i}), T) = i
<1> DEFINE from(k) == {j \in T : j >= k}
<1>1. \A k \in T : from(k) \subseteq T /\ IsFiniteSet(from(k)) /\ Cardinality(from(k)) \in Nat
                   /\ Cardinality(from(k)) <= Cardinality(T)
  BY FS_Subset, FS_CardinalityType
<1>2. i \in from(i) /\ Cardinality(from(i)) # 0
  <2>1. i \in from(i)
    OBVIOUS
  <2> QED
    BY <1>1, <2>1, FS_EmptySet
<1>3. ASSUME NEW k \in T, NEW l \in T, k < l
      PROVE  Cardinality(from(k)) # Cardinality(from(l))
  <2>1. from(l) \subseteq from(k) /\ from(l) # from(k)
    <3>1. k \in from(k) /\ k \notin from(l)
      BY <1>3
    <3>2. ASSUME NEW j \in T, j >= l PROVE j >= k
      <4>1. k \in Nat /\ l \in Nat /\ j \in Nat
        OBVIOUS
      <4> QED
        BY <1>3, <3>2, <4>1
    <3>3. from(l) \subseteq from(k)
      BY <3>2
    <3> QED
      BY <3>1, <3>3
  <2> QED
    BY <1>1, <2>1, FS_Subset
<1>4. \A k \in T : Cardinality(from(k)) = Cardinality(from(i)) => k = i
  <2> HIDE DEF from
  <2> QED
    BY <1>3
<1>5. Newest(Cardinality(from(i)), T) = i
  BY <1>4 DEF Newest
<1>6. Cardinality(T) \in Nat
  BY FS_CardinalityType
<1> QED
  BY <1>1, <1>2, <1>5, <1>6

(* With no rotation missed, the rows of swaps stand for the swaps noticed, in their order. *)
LEMMA RowsStand ==
  ASSUME LedgerInv, NEW p, PathOf(p), NEW R, feed \in Seq(R), Complete,
         NEW o, o = [i \in RowsOf("swap") |-> p[i]]
  PROVE  /\ RowsOf("swap") \subseteq 1 .. Len(feed)
         /\ o \in Bijection(RowsOf("swap"), Noticed)
         /\ \A i, j \in RowsOf("swap") : i >= j <=> o[i] >= o[j]
<1>1. DOMAIN feed = 1 .. Len(feed) /\ Len(feed) \in Nat /\ RowsOf("swap") \subseteq 1 .. Len(feed)
  BY DEF RowsOf
<1>2. \A i \in 1 .. Len(feed) :
        /\ p[i] \in 2 .. Len(states) /\ feed[i].new = p[i] /\ feed[i].kind = states[p[i]].by
        /\ i \in 0 .. Len(feed)
  BY <1>1, RowOf, NeighbourRow DEF Complete
<1>3. \A i \in 1 .. Len(feed) : i \in RowsOf("swap") <=> p[i] \in Noticed
  BY <1>1, <1>2 DEF RowsOf, Noticed, Swaps
<1>4. \A v \in Noticed : \E i \in RowsOf("swap") : p[i] = v
  BY <1>1, <1>2, <1>3 DEF Noticed
<1>5. \A i, j \in RowsOf("swap") : i >= j <=> p[i] >= p[j]
  <2>1. SUFFICES ASSUME NEW i \in RowsOf("swap"), NEW j \in RowsOf("swap")
                 PROVE  i >= j <=> p[i] >= p[j]
    OBVIOUS
  <2>2. i \in 0 .. Len(feed) /\ j \in 0 .. Len(feed) /\ p[i] \in Nat /\ p[j] \in Nat
    BY <1>1, <1>2
  <2>3. (i < j => p[i] < p[j]) /\ (j < i => p[j] < p[i])
    BY <2>2 DEF PathOf
  <2> QED
    BY <2>2, <2>3
<1>6. o \in [RowsOf("swap") -> Noticed] /\ \A i \in RowsOf("swap") : o[i] = p[i]
  BY <1>1, <1>3
<1>7. \A i, j \in RowsOf("swap") : o[i] = o[j] => i = j
  <2>1. \A i, j \in RowsOf("swap") : i \in Nat /\ j \in Nat /\ o[i] \in Nat
    BY <1>1, <1>2, <1>6
  <2> QED
    BY <1>5, <1>6, <2>1
<1>8. \A v \in Noticed : \E i \in RowsOf("swap") : o[i] = v
  BY <1>4, <1>6
<1>9. o \in Bijection(RowsOf("swap"), Noticed)
  BY <1>6, <1>7, <1>8, Fun_IsBij
<1> QED
  BY <1>1, <1>5, <1>6, <1>9

LEMMA FiguresAreTrue ==
  ASSUME LedgerInv, PathInv
  PROVE  FiguresTrue
<1>1. PICK R : feed \in Seq(R)
  BY DEF PathInv
<1>2. Len(feed) \in Nat /\ DOMAIN feed = 1 .. Len(feed)
  BY <1>1
<1>3. ASSUME feed # <<>>
      PROVE  \E p : PathOf(p)
  BY <1>3 DEF PathInv
<1>4. ASSUME NEW v \in Known, feed # <<>>
      PROVE  pricePoints[Len(feed)] = Price(states[v])
  <2>1. PICK p : PathOf(p)
    BY <1>3, <1>4
  <2>2. Len(feed) \in 1 .. Len(feed)
    BY <1>1, <1>4
  <2>3. feed[Len(feed)].new = p[Len(feed)] /\ v = p[Len(feed)]
    <3>1. feed[Len(feed)].new = p[Len(feed)]
      BY <1>1, <2>1, <2>2, RowOf
    <3> QED
      BY <1>4, <2>1, <3>1 DEF PathOf
  <2> QED
    BY <1>2, <2>2, <2>3 DEF pricePoints, priceAfter
<1>5. ASSUME Known = {Len(states)}, PoolPrice # <<>>, feed # <<>>
      PROVE  quoteOf = pricePoints[Len(feed)]
  <2>1. PoolPrice = <<Price(states[Len(states)])>>
    BY <1>5 DEF PoolPrice, Now
  <2>2. pricePoints[Len(feed)] = Price(states[Len(states)])
    BY <1>4, <1>5
  <2> DEFINE price == Price(states[Len(states)])
  <2>3. PoolPrice # <<>> /\ PoolPrice[1] = price
    <3> HIDE DEF price
    <3>1. PoolPrice = <<price>>
      BY <2>1 DEF price
    <3> QED
      BY <1>5, <3>1
  <2> QED
    BY <2>2, <2>3 DEF quoteOf
<1>6. ASSUME Complete
      PROVE  /\ stats24h.count = Cardinality(Noticed)
             /\ stats24h.volume = Sum([v \in Noticed |-> Magnitude(Step(v).base)])
             /\ Len(RecentSwaps) = Cardinality(Noticed)
             /\ \A v \in Noticed :
                  RecentSwaps[Cardinality({w \in Noticed : w >= v})] = Shown(Step(v))
  <2> DEFINE rows_ == RowsOf("swap")
             moved == [v \in Noticed |-> Magnitude(Step(v).base)]
  <2>1. rows_ \subseteq 1 .. Len(feed) /\ rows_ \subseteq Nat /\ IsFiniteSet(rows_)
    <3>1. rows_ \subseteq 1 .. Len(feed)
      BY <1>2 DEF RowsOf
    <3>2. IsFiniteSet(1 .. Len(feed)) /\ \A i \in 1 .. Len(feed) : i \in Nat
      BY <1>2, FS_Interval
    <3> HIDE DEF rows_
    <3> QED
      BY <3>1, <3>2, FS_Subset
  <2>2. Cardinality(rows_) \in Nat
    BY <2>1, FS_CardinalityType
  <2>3. PICK o : /\ o \in Bijection(rows_, Noticed)
                 /\ \A i, j \in rows_ : i >= j <=> o[i] >= o[j]
                 /\ \A i \in rows_ : /\ Shown(feed[i]) = Shown(Step(o[i]))
                                    /\ feed[i].base = Step(o[i]).base
    <3>1. CASE feed = <<>>
      <4>1. rows_ = {} /\ Noticed = {}
        BY <3>1 DEF RowsOf, Noticed
      <4>2. [i \in {} |-> i] \in Bijection({}, {})
        BY DEF Bijection, Injection, Surjection, IsInjective
      <4> QED
        BY <4>1, <4>2
    <3>2. CASE feed # <<>>
      <4>1. PICK p : PathOf(p)
        BY <1>3, <3>2
      <4>2. PICK o : o = [i \in rows_ |-> p[i]]
        OBVIOUS
      <4>3. o \in Bijection(rows_, Noticed) /\ \A i, j \in rows_ : i >= j <=> o[i] >= o[j]
        BY <1>1, <1>6, <4>1, <4>2, RowsStand
      <4>4. ASSUME NEW i \in rows_
            PROVE  Shown(feed[i]) = Shown(Step(o[i])) /\ feed[i].base = Step(o[i]).base
        <5>1. i \in 1 .. Len(feed) /\ Neighbours(feed[i]) /\ o[i] = p[i]
          BY <1>2, <1>6, <2>1, <4>2 DEF Complete
        <5>2. /\ p[i - 1] = p[i] - 1
              /\ feed[i].base = states[p[i]].base - states[p[i - 1]].base
              /\ feed[i].quote = states[p[i]].quote - states[p[i - 1]].quote
          BY <1>1, <4>1, <5>1, RowOf, NeighbourRow
        <5>3. feed[i].base = Step(o[i]).base /\ feed[i].quote = Step(o[i]).quote
          BY <5>1, <5>2 DEF Step
        <5>4. Step(o[i])["base"] = Step(o[i]).base /\ Step(o[i])["quote"] = Step(o[i]).quote
              /\ feed[i]["base"] = feed[i].base /\ feed[i]["quote"] = feed[i].quote
          OBVIOUS
        <5> HIDE DEF rows_
        <5> QED
          BY <5>3, <5>4 DEF Shown, SentBase
      <4> QED
        BY <4>3, <4>4
    <3> QED
      BY <3>1, <3>2
  <2>4. /\ IsFiniteSet(Noticed) /\ Cardinality(Noticed) = Cardinality(rows_)
        /\ o \in [rows_ -> Noticed] /\ \A i, j \in rows_ : o[i] = o[j] => i = j
        /\ \A v \in Noticed : \E i \in rows_ : o[i] = v
    <3> HIDE DEF rows_
    <3>1. ExistsBijection(rows_, Noticed)
      BY <2>3 DEF ExistsBijection
    <3> QED
      BY <2>1, <2>3, <3>1, FS_Bijection, Fun_IsBij
         DEF Bijection, Injection, Surjection, IsInjective
  <2>5. Noticed \subseteq 2 .. Len(states) /\ Len(states) \in Nat
    BY DEF Noticed, Swaps, LedgerInv
  <2>6. moved \in [Noticed -> Nat]
    <3>1. ASSUME NEW v \in Noticed
          PROVE  Magnitude(Step(v).base) \in Nat
      <4>1. v \in 1 .. Len(states) /\ v - 1 \in 1 .. Len(states)
        BY <2>5
      <4>2. states[v] \in StateSet /\ states[v - 1] \in StateSet
        BY <4>1 DEF LedgerInv
      <4>3. Step(v).base \in Int
        BY <4>2 DEF Step, StateSet
      <4> QED
        BY <4>3 DEF Magnitude
    <3> QED
      BY <3>1
  <2>7. stats24h.volume = Sum(moved)
    <3>1. stats24h.volume = Sum([i \in rows_ |-> Magnitude(feed[i].base)])
      BY DEF stats24h, Volume
    <3>2. [i \in rows_ |-> Magnitude(feed[i].base)] = [i \in rows_ |-> moved[o[i]]]
      <4>1. \A i \in rows_ : Magnitude(feed[i].base) = moved[o[i]]
        BY <2>3, <2>4
      <4> QED
        BY <4>1
    <3> HIDE DEF rows_, moved
    <3>3. Sum([i \in rows_ |-> moved[o[i]]]) = Sum(moved)
      BY <2>4, <2>6, SumReindex
    <3> QED
      BY <3>1, <3>2, <3>3
  <2>8. stats24h.count = Cardinality(rows_)
    BY DEF stats24h
  <2>9. /\ Len(RecentSwaps) = Cardinality(rows_)
        /\ \A n \in 1 .. Cardinality(rows_) : RecentSwaps[n] = Shown(feed[Newest(n, rows_)])
    <3> HIDE DEF rows_
    <3> QED
      BY <2>2 DEF RecentSwaps, rows_
  <2>10. ASSUME NEW v \in Noticed
         PROVE  RecentSwaps[Cardinality({w \in Noticed : w >= v})] = Shown(Step(v))
    <3> DEFINE later == {w \in Noticed : w >= v}
    <3>1. PICK i \in rows_ : o[i] = v
      BY <2>4
    <3> DEFINE above == {j \in rows_ : j >= i}
               o2 == [j \in above |-> o[j]]
    <3>2. o2 \in Bijection(above, later)
      <4>1. o2 \in [above -> later]
        BY <2>3, <2>4, <3>1
      <4>2. \A j, k \in above : o2[j] = o2[k] => j = k
        BY <2>4
      <4>3. \A w \in later : \E j \in above : o2[j] = w
        BY <2>3, <2>4, <3>1
      <4> HIDE DEF above, later, o2
      <4> QED
        BY <4>1, <4>2, <4>3, Fun_IsBij
    <3>3. Cardinality(above) = Cardinality(later)
      <4>1. IsFiniteSet(above)
        BY <2>1, FS_Subset
      <4> HIDE DEF above, later, o2
      <4> QED
        BY <3>2, <4>1, FS_Bijection DEF ExistsBijection
    <3>4. /\ Cardinality(above) \in 1 .. Cardinality(rows_)
          /\ Newest(Cardinality(above), rows_) = i
      <4> HIDE DEF rows_
      <4> QED
        BY <2>1, <3>1, NewestIs
    <3>5. Shown(feed[i]) = Shown(Step(v))
      BY <2>3, <3>1
    <3> HIDE DEF rows_, above
    <3> QED
      BY <2>9, <3>3, <3>4, <3>5
  <2> HIDE DEF rows_
  <2> QED
    BY <2>4, <2>7, <2>8, <2>9, <2>10
<1> QED
  BY <1>4, <1>5, <1>6 DEF FiguresTrue

\* What clients read of swaps and RFQs is so, each until its task writes for a tick that
\* has lost its flag: the feed adds up, and what is drawn from it says what happened
\* (reconcilePools, lines 302-330, and the routes of swaps and figures).
THEOREM FeedTellsTruth == IndexerSpec => []FeedTrue
<1>1. IndexerInit => FeedInv
  BY StartsUnfed
<1>2. FeedInv /\ [IndexerNext]_IndexerVars => FeedInv'
  <2> SUFFICES ASSUME FeedInv, [IndexerNext]_IndexerVars PROVE FeedInv'
    OBVIOUS
  <2>1. TickInv'
    BY TickInvKept DEF FeedInv
  <2>2. LedgerInv'
    BY StatesFollow DEF FeedInv
  <2>3. InTurn' => PathInv'
    BY PathStep DEF FeedInv
  <2>4. HistoryInv'
    BY HistoryStep DEF FeedInv
  <2> QED
    BY <2>1, <2>2, <2>3, <2>4 DEF FeedInv
<1>3. FeedInv => FeedTrue
  BY FeedEnds, HistoryTold, SwapsAreTold, FiguresAreTrue
     DEF FeedInv, FeedTrue, InTurn, HistoryInv
<1> QED
  BY <1>1, <1>2, <1>3, PTL DEF IndexerSpec

-----------------------------------------------------------------------------
(***************************************************************************)
(* A trade settles for both sides at every registry, once, or not at all,  *)
(* for any dealers, registries, deadlines and number of fundings.          *)
(*                                                                         *)
(* The argument: allocations become settled in Settle alone, which needs a *)
(* live trade and ends it, and every other action changes an allocation    *)
(* only from "none" or "locked", to something that is not "settled".       *)
(***************************************************************************)
Locks == Side \X Admins \X (Funding \ {0})

\* The row of the preview is claimed for the batches of the call that waits for it, and
\* what it answers is for its arguments.
CallShape ==
  /\ settling \in [phase : {"idle", "preview", "submit"}, pick : Picks, context : Picks]
  /\ preview \in [is : {"none", "pending", "ok", "error"}, args : Picks, answer : Picks]
  /\ settling.phase = "preview" => preview.args = settling.pick
  /\ settling.phase = "submit" => settling.context = settling.pick
  /\ preview.is = "ok" => preview.answer = preview.args

DeskShape ==
  /\ alloc \in [Locks -> {"none", "locked", "settled", "released"}]
  /\ CallShape
  /\ rfqIs \in {"none", "open"} => tradeIs = "none"

\* Which allocations are settled: one each if the trade is, else none.
UsedOnce ==
  /\ tradeIs # "settled" => \A x \in Locks : alloc[x] # "settled"
  /\ tradeIs = "settled" => \A p \in Side, a \in Admins :
       \E n \in Funding \ {0} : SettledAt(p, a) = {n}

DeskInv == DeskShape /\ UsedOnce

LEMMA NothingIsAPick == Nothing \in Picks
BY TradeDeskAssumption DEF Nothing, Picks, Funding

LEMMA StartsEmpty == DeskInit => DeskInv
<1> SUFFICES ASSUME DeskInit PROVE DeskInv
  OBVIOUS
<1>1. DeskShape
  BY NothingIsAPick DEF DeskInit, DeskShape, CallShape, NoSettle, NoPreview, Locks
<1>2. UsedOnce
  BY DEF DeskInit, UsedOnce, Locks
<1> QED
  BY <1>1, <1>2 DEF DeskInv

\* A step that neither settles the trade nor an allocation.
LEMMA NothingSettled ==
  ASSUME DeskInv, DeskShape', (tradeIs' = "settled") <=> (tradeIs = "settled"),
         \A x \in Locks : (alloc'[x] = "settled") <=> (alloc[x] = "settled")
  PROVE  DeskInv'
<1>1. \A p \in Side, a \in Admins : SettledAt(p, a)' = SettledAt(p, a)
  BY DEF SettledAt, Locks
<1> QED
  BY <1>1 DEF DeskInv, UsedOnce

LEMMA QuotingKeeps == DeskInv /\ (Pass \/ Quoting) => DeskInv'
<1> SUFFICES ASSUME DeskInv, Pass \/ Quoting PROVE DeskInv'
  OBVIOUS
<1>1. UNCHANGED <<alloc, settling, preview>> /\ (CallShape => CallShape')
  BY DEF Pass, Quoting, CreateRfq, CloseRfq, PostQuote, WithdrawQuote, StartAccept, Accept,
         GiveUpAccept, FundVars, CallShape
<1>2. CASE Accept
  <2>1. tradeIs = "none" /\ tradeIs' = "live" /\ rfqIs' = "accepted"
    BY <1>2 DEF Accept, DeskInv, DeskShape
  <2>2. DeskShape'
    BY <1>1, <2>1 DEF DeskInv, DeskShape
  <2> QED
    BY <1>1, <2>1, <2>2, NothingSettled
<1>3. CASE ~Accept
  <2>1. UNCHANGED tradeIs /\ (rfqIs' \in {"none", "open"} => rfqIs \in {"none", "open"})
    BY <1>3 DEF Pass, Quoting, CreateRfq, CloseRfq, PostQuote, WithdrawQuote, StartAccept,
                GiveUpAccept, RfqVars
  <2>2. DeskShape'
    BY <1>1, <2>1 DEF DeskInv, DeskShape
  <2> QED
    BY <1>1, <2>1, <2>2, NothingSettled
<1> QED
  BY <1>2, <1>3

\* The sides fund and take back; the settle call comes and goes.
LEMMA FundingKeeps ==
  ASSUME DeskInv, NEW p \in Side,
         \/ \E multi \in BOOLEAN : RequestAllocations(p, multi)
         \/ AuthorAllocations(p) \/ AbandonSession(p) \/ ConsumeRequest(p)
         \/ \E x \in DOMAIN alloc : WithdrawLock(x)
  PROVE  DeskInv'
<1>1. UNCHANGED <<tradeIs, settling, rfqIs, preview>> /\ (CallShape => CallShape')
  BY DEF RequestAllocations, AuthorAllocations, AbandonSession, ConsumeRequest, WithdrawLock,
         RfqVars, CallShape
<1>2. DOMAIN alloc = Locks
  BY DEF DeskInv, DeskShape
<1>3. CASE AuthorAllocations(p)
  <2>1. PICK now \in SUBSET Unsigned(p) :
          alloc' = [y \in DOMAIN alloc |->
            IF y[1] = p /\ y[2] \in now /\ y[3] = session[p].nth THEN "locked" ELSE alloc[y]]
    BY <1>3 DEF AuthorAllocations
  <2>2. \A y \in Locks : y[1] = p /\ y[2] \in now /\ y[3] = session[p].nth => alloc[y] = "none"
    <3> SUFFICES ASSUME NEW s \in Side, NEW a \in Admins, NEW n \in Funding \ {0},
                        s = p, a \in now, n = session[p].nth
                 PROVE  alloc[<<s, a, n>>] = "none"
      BY DEF Locks
    <3> QED
      BY DEF Unsigned
  <2>3. alloc' \in [Locks -> {"none", "locked", "settled", "released"}]
    BY <1>2, <2>1 DEF DeskInv, DeskShape
  <2>4. \A y \in Locks : (alloc'[y] = "settled") <=> (alloc[y] = "settled")
    BY <1>2, <2>1, <2>2
  <2>5. DeskShape'
    BY <1>1, <2>3 DEF DeskInv, DeskShape
  <2> QED
    BY <1>1, <2>4, <2>5, NothingSettled
<1>4. CASE \E x \in DOMAIN alloc : WithdrawLock(x)
  <2>0. PICK x \in DOMAIN alloc : WithdrawLock(x)
    BY <1>4
  <2>1. alloc[x] = "locked" /\ alloc' = [alloc EXCEPT ![x] = "released"]
    BY <2>0 DEF WithdrawLock
  <2>2. /\ alloc' \in [Locks -> {"none", "locked", "settled", "released"}]
        /\ \A y \in Locks : (alloc'[y] = "settled") <=> (alloc[y] = "settled")
    BY <1>2, <2>1 DEF DeskInv, DeskShape
  <2>3. DeskShape'
    BY <1>1, <2>2 DEF DeskInv, DeskShape
  <2> QED
    BY <1>1, <2>2, <2>3, NothingSettled
<1>5. CASE ~AuthorAllocations(p) /\ ~(\E x \in DOMAIN alloc : WithdrawLock(x))
  <2>1. UNCHANGED alloc
    BY <1>5 DEF RequestAllocations, AbandonSession, ConsumeRequest
  <2>2. DeskShape'
    BY <1>1, <2>1 DEF DeskInv, DeskShape
  <2> QED
    BY <1>1, <2>1, <2>2, NothingSettled
<1> QED
  BY <1>3, <1>4, <1>5

LEMMA CallsKeep ==
  ASSUME DeskInv,
         \/ \E pick \in Picks : StartSettle(pick)
         \/ PreviewAnswers \/ PreviewFails \/ GiveUpSettle
  PROVE  DeskInv'
<1>1. UNCHANGED <<tradeIs, rfqIs, alloc>>
  BY DEF StartSettle, PreviewAnswers, PreviewFails, GiveUpSettle, RfqVars, FundVars
<1>2. CallShape
  BY DEF DeskInv, DeskShape
<1>3. CallShape'
  <2>1. CASE GiveUpSettle
    BY <1>2, <2>1, NothingIsAPick DEF GiveUpSettle, NoSettle, CallShape
  <2>2. CASE PreviewFails
    BY <1>2, <2>2, NothingIsAPick DEF PreviewFails, NoSettle, CallShape
  <2>3. CASE PreviewAnswers
    BY <1>2, <2>3 DEF PreviewAnswers, CallShape
  <2>4. CASE \E pick \in Picks : StartSettle(pick)
    <3>1. PICK pick \in Picks : StartSettle(pick)
      BY <2>4
    <3>2. CASE preview.is = "ok"
      BY <1>2, <3>1, <3>2 DEF StartSettle, PreviewAdmits, CallShape
    <3>3. CASE preview.is # "ok"
      BY <1>2, <3>1, <3>3, NothingIsAPick DEF StartSettle, ClaimedFor, CallShape
    <3> QED
      BY <3>2, <3>3
  <2> QED
    BY <2>1, <2>2, <2>3, <2>4
<1>4. DeskShape'
  BY <1>1, <1>3 DEF DeskInv, DeskShape
<1> QED
  BY <1>1, <1>4, NothingSettled

LEMMA CancelKeeps == DeskInv /\ CancelKnown => DeskInv'
<1> SUFFICES ASSUME DeskInv, CancelKnown PROVE DeskInv'
  OBVIOUS
<1>1. PICK requests, locks : CancelTrade(requests, locks)
  BY DEF CancelKnown
<1>2. /\ tradeIs = "live" /\ tradeIs' = "cancelled" /\ UNCHANGED <<rfqIs, settling, preview>>
      /\ \A x \in locks : alloc[x] = "locked"
      /\ alloc' = [x \in DOMAIN alloc |-> IF x \in locks THEN "released" ELSE alloc[x]]
  BY <1>1 DEF CancelTrade, RfqVars
<1>3. /\ alloc' \in [Locks -> {"none", "locked", "settled", "released"}]
      /\ \A y \in Locks : (alloc'[y] = "settled") <=> (alloc[y] = "settled")
  BY <1>2 DEF DeskInv, DeskShape
<1>4. DeskShape'
  BY <1>2, <1>3 DEF DeskInv, DeskShape, CallShape
<1> QED
  BY <1>2, <1>3, <1>4, NothingSettled

\* The one step that settles: each side's picked funding, at every registry.
LEMMA SettleKeeps == DeskInv /\ (\E requests \in SUBSET Side : Settle(requests)) => DeskInv'
<1> SUFFICES ASSUME DeskInv, NEW requests \in SUBSET Side, Settle(requests) PROVE DeskInv'
  OBVIOUS
<1> DEFINE of == settling.pick.of
<1>1. /\ tradeIs = "live" /\ tradeIs' = "settled" /\ UNCHANGED <<rfqIs, preview>>
      /\ settling' = NoSettle
      /\ \A a \in Admins : BatchCovers(settling.pick, a)
      /\ alloc' = [x \in DOMAIN alloc |->
           IF x[3] = of[x[1]] THEN "settled" ELSE alloc[x]]
  BY DEF Settle, RfqVars
<1>2. of \in [Side -> Funding]
  BY DEF DeskInv, DeskShape, CallShape, Picks
<1>3. \A p \in Side : of[p] # 0
  <2>1. PICK a : a \in Admins
    BY TradeDeskAssumption
  <2> QED
    BY <1>1, <2>1 DEF BatchCovers, Named
<1>4. DOMAIN alloc = Locks /\ alloc' \in [Locks -> {"none", "locked", "settled", "released"}]
  BY <1>1 DEF DeskInv, DeskShape
<1>5. DeskShape'
  BY <1>1, <1>4, NothingIsAPick DEF DeskInv, DeskShape, CallShape, NoSettle
<1>6. \A p \in Side, a \in Admins : SettledAt(p, a)' = {of[p]}
  <2> SUFFICES ASSUME NEW p \in Side, NEW a \in Admins PROVE SettledAt(p, a)' = {of[p]}
    OBVIOUS
  <2>1. \A n \in Funding \ {0} : (alloc'[<<p, a, n>>] = "settled") <=> (n = of[p])
    <3> SUFFICES ASSUME NEW n \in Funding \ {0}
                 PROVE  (alloc'[<<p, a, n>>] = "settled") <=> (n = of[p])
      OBVIOUS
    <3>1. <<p, a, n>> \in Locks /\ alloc[<<p, a, n>>] # "settled"
      BY <1>1 DEF Locks, DeskInv, UsedOnce
    <3> QED
      BY <1>1, <1>4, <3>1
  <2> QED
    BY <1>2, <1>3, <2>1 DEF SettledAt
<1>7. UsedOnce'
  BY <1>1, <1>2, <1>3, <1>6 DEF UsedOnce
<1> QED
  BY <1>5, <1>7 DEF DeskInv

LEMMA DeskInvSays == DeskInv => BothLegsOrNone /\ ContextFits
<1> SUFFICES ASSUME DeskInv PROVE BothLegsOrNone /\ ContextFits
  OBVIOUS
<1>1. ASSUME NEW p \in Side, NEW a \in Admins
      PROVE  Cardinality(SettledAt(p, a)) = IF tradeIs = "settled" THEN 1 ELSE 0
  <2>1. CASE tradeIs = "settled"
    <3>1. PICK n \in Funding \ {0} : SettledAt(p, a) = {n}
      BY <2>1 DEF DeskInv, UsedOnce
    <3>2. Cardinality({n}) = 1
      BY FS_Singleton
    <3> QED
      BY <2>1, <3>1, <3>2
  <2>2. CASE tradeIs # "settled"
    <3>1. SettledAt(p, a) = {}
      BY <2>2 DEF DeskInv, UsedOnce, SettledAt, Locks
    <3> QED
      BY <2>2, <3>1, FS_EmptySet
  <2> QED
    BY <2>1, <2>2
<1>2. BothLegsOrNone
  BY <1>1 DEF BothLegsOrNone
<1> QED
  BY <1>2 DEF DeskInv, DeskShape, CallShape, ContextFits

\* Money moves for both sides at every registry or for nobody, and a settlement
\* carries the registry context of its own allocations (MatchedTrade_Settle,
\* MatchedTradeService.settle), for every value of the constants.
THEOREM SettlesBothLegs == DeskSpec => [](BothLegsOrNone /\ ContextFits)
<1>1. DeskInv /\ [DeskNext]_DeskVars => DeskInv'
  <2> SUFFICES ASSUME DeskInv, [DeskNext]_DeskVars PROVE DeskInv'
    OBVIOUS
  <2>1. CASE Settling
    <3>1. "trader" \in Side
      BY DEF Side
    <3> QED
      BY <2>1, <3>1, FundingKeeps, CallsKeep, CancelKeeps, SettleKeeps DEF Settling
  <2>2. CASE UNCHANGED DeskVars
    <3>1. UNCHANGED <<alloc, settling, preview, rfqIs, tradeIs>>
      BY <2>2 DEF DeskVars
    <3>2. DeskShape'
      BY <3>1 DEF DeskInv, DeskShape, CallShape
    <3> QED
      BY <3>1, <3>2, NothingSettled
  <2> QED
    BY <2>1, <2>2, QuotingKeeps DEF DeskNext
<1> QED
  BY StartsEmpty, <1>1, DeskInvSays, PTL DEF DeskSpec

(* The context a settlement carries was read for the very allocations it   *)
(* names, although the preview is cached under the name of the trade and   *)
(* its row is taken over by calls with other allocations once it failed.   *)
THEOREM SettlesWithItsContext == DeskSpec => []ContextFits
BY SettlesBothLegs, PTL

-----------------------------------------------------------------------------
(***************************************************************************)
(* The rank of the accepted quote is computed twice, and agrees where the  *)
(* times of the considered quotes tell them apart at the millisecond.  The *)
(* receipt is written from the quotes as they are; later steps change no   *)
(* more of a posted quote than its status.                                 *)
(***************************************************************************)
Posted == {q \in Quote : quote[q].status # "none"}

QuoteSet == [status : {"none", "live", "withdrawn", "consumed"},
             dealer : Nat, tier : {0, 1}, posted : Nat, expires : Nat]

QuotesShape ==
  /\ clock \in Nat
  /\ quote \in [Quote -> QuoteSet]

Considers(x) == x.considered \subseteq Posted /\ x.picked \in x.considered

RanksInv ==
  /\ QuotesShape
  /\ accepting # NoAccept => Considers(accepting)
  /\ receipt # NoReceipt =>
       /\ Considers(receipt)
       /\ receipt.rank = LedgerRank(receipt.picked, receipt.considered)
       /\ receipt.signed = ReceiptRank(receipt.picked, receipt.considered)

LEMMA DivKeepsOrder ==
  ASSUME NEW a \in Nat, NEW b \in Nat, NEW m \in Nat \ {0},
         a \div m = b \div m => a = b
  PROVE  (a \div m > b \div m) <=> (a > b)
<1> DEFINE p == a \div m
           q == b \div m
<1>1. /\ p \in Nat /\ a = m * p + (a % m) /\ a % m \in 0 .. m - 1
      /\ q \in Nat /\ b = m * q + (b % m) /\ b % m \in 0 .. m - 1
  OBVIOUS
<1> DEFINE r == a % m
           s == b % m
<1> HIDE DEF p, q, r, s
<1>2. ASSUME NEW i \in Nat, NEW j \in Nat, i >= j + 1 PROVE m * i >= m * j + m
  <2>1. PICK k \in Nat : i = j + 1 + k
    <3>1. i - j - 1 \in Nat /\ i = j + 1 + (i - j - 1)
      BY <1>2
    <3> QED
      BY <3>1
  <2>2. m * (j + 1 + k) = m * j + m + m * k /\ m * k >= 0
    OBVIOUS
  <2> QED
    BY <2>1, <2>2
<1>3. /\ p >= q + 1 => a > b
      /\ q >= p + 1 => b > a
  <2>1. /\ p >= q + 1 => m * p >= m * q + m
        /\ q >= p + 1 => m * q >= m * p + m
    BY <1>1, <1>2
  <2> DEFINE mp == m * p
             mq == m * q
  <2>2. mp \in Nat /\ mq \in Nat /\ m \in Nat
    BY <1>1
  <2>3. r \in Nat /\ s \in Nat /\ r < m /\ s < m
    BY <1>1 DEF r, s
  <2>4. a = mp + r /\ b = mq + s
    BY <1>1 DEF r, s
  <2>5. /\ p >= q + 1 => mp >= mq + m
        /\ q >= p + 1 => mq >= mp + m
    BY <2>1
  <2> HIDE DEF mp, mq
  <2> QED
    BY <2>2, <2>3, <2>4, <2>5
<1>4. p = q => a = b
  BY DEF p, q
<1> QED
  BY <1>1, <1>2, <1>3, <1>4 DEF p, q

LEMMA DivByOne == ASSUME NEW a \in Nat PROVE a \div 1 = a
OBVIOUS

\* At either resolution the quotes come in the same order.
LEMMA SameOrder ==
  ASSUME QuotesShape, NEW quotes \in SUBSET Quote, ToldApart(quotes),
         NEW a \in quotes, NEW b \in quotes
  PROVE  Earlier(a, b, 1) <=> Earlier(a, b, Milli)
<1> DEFINE x == quote[a]
           y == quote[b]
<1>1. /\ x.posted \in Nat /\ x.expires \in Nat /\ y.posted \in Nat /\ y.expires \in Nat
      /\ Milli \in Nat \ {0}
  BY TradeDeskAssumption DEF QuotesShape, QuoteSet
<1>2. /\ x.posted \div Milli = y.posted \div Milli => x.posted = y.posted
      /\ x.expires \div Milli = y.expires \div Milli => x.expires = y.expires
  BY DEF ToldApart
<1>3. /\ (x.expires \div Milli > y.expires \div Milli) <=> x.expires > y.expires
      /\ (y.posted \div Milli > x.posted \div Milli) <=> y.posted > x.posted
  BY <1>1, <1>2, DivKeepsOrder
<1>4. /\ x.posted \div 1 = x.posted /\ x.expires \div 1 = x.expires
      /\ y.posted \div 1 = y.posted /\ y.expires \div 1 = y.expires
  BY <1>1, DivByOne
<1>5. /\ x.posted \div Milli \in Int /\ y.posted \div Milli \in Int
  BY <1>1
<1> DEFINE mx == x.expires \div Milli
           my == y.expires \div Milli
           nx == x.posted \div Milli
           ny == y.posted \div Milli
<1>6. Earlier(a, b, 1) <=>
        \/ x.tier < y.tier
        \/ x.tier = y.tier /\ x.expires > y.expires
        \/ x.tier = y.tier /\ x.expires = y.expires
           /\ \/ x.posted < y.posted
              \/ x.posted = y.posted /\ (x.dealer < y.dealer \/ (x.dealer = y.dealer /\ a < b))
  BY <1>4 DEF Earlier
<1>7. Earlier(a, b, Milli) <=>
        \/ x.tier < y.tier
        \/ x.tier = y.tier /\ mx > my
        \/ x.tier = y.tier /\ mx = my
           /\ \/ nx < ny
              \/ nx = ny /\ (x.dealer < y.dealer \/ (x.dealer = y.dealer /\ a < b))
  BY DEF Earlier
<1>8. /\ mx = my <=> x.expires = y.expires
      /\ nx = ny <=> x.posted = y.posted
      /\ mx > my <=> x.expires > y.expires
      /\ nx < ny <=> x.posted < y.posted
  BY <1>1, <1>2, <1>3, <1>5
<1> QED
  BY <1>6, <1>7, <1>8

LEMMA RanksAgreeNow ==
  ASSUME QuotesShape, NEW quotes \in SUBSET Quote, NEW q \in quotes,
         Rivals(q, quotes) = {}, ToldApart(quotes)
  PROVE  LedgerRank(q, quotes) = ReceiptRank(q, quotes)
<1>1. {s \in quotes : quote[s].dealer = quote[q].dealer} = {q}
  BY DEF Rivals
<1>2. {r \in quotes : Earlier(r, q, 1)} = {r \in quotes : Earlier(r, q, Milli)}
  BY SameOrder
<1>3. Place(q, quotes, 1) = Place(q, quotes, Milli)
  BY <1>2 DEF Place
<1>4. {Place(r, quotes, Milli) : r \in {q}} = {Place(q, quotes, Milli)}
  OBVIOUS
<1>5. IsFiniteSet(Quote)
  BY TradeDeskAssumption, FS_Interval DEF Quote
<1> DEFINE ahead == {r \in quotes : Earlier(r, q, Milli)}
<1>6. Place(q, quotes, Milli) \in Int
  <2>1. ahead \subseteq Quote
    OBVIOUS
  <2> HIDE DEF ahead
  <2>2. Cardinality(ahead) \in Nat
    BY <1>5, <2>1, FS_Subset, FS_CardinalityType
  <2> QED
    BY <2>2 DEF Place, ahead
<1>7. ReceiptRank(q, quotes) =
        CHOOSE n \in {Place(q, quotes, Milli)} : \A m \in {Place(q, quotes, Milli)} : n <= m
  BY <1>1, <1>4 DEF ReceiptRank
<1>8. ReceiptRank(q, quotes) = Place(q, quotes, Milli)
  BY <1>6, <1>7
<1> QED
  BY <1>3, <1>8 DEF LedgerRank

\* What was computed from quotes that stay as they were but for their status stands.
LEMMA RanksLast ==
  ASSUME NEW quotes \in SUBSET Quote, NEW q \in quotes,
         \A r \in quotes : /\ quote'[r].dealer = quote[r].dealer /\ quote'[r].tier = quote[r].tier
                           /\ quote'[r].posted = quote[r].posted
                           /\ quote'[r].expires = quote[r].expires
  PROVE  /\ LedgerRank(q, quotes)' = LedgerRank(q, quotes)
         /\ ReceiptRank(q, quotes)' = ReceiptRank(q, quotes)
<1>1. ASSUME NEW a \in quotes, NEW b \in quotes, NEW unit
      PROVE  Earlier(a, b, unit)' <=> Earlier(a, b, unit)
  BY DEF Earlier
<1>2. ASSUME NEW b \in quotes, NEW unit PROVE Place(b, quotes, unit)' = Place(b, quotes, unit)
  <2>1. {r \in quotes : Earlier(r, b, unit)'} = {r \in quotes : Earlier(r, b, unit)}
    BY <1>1
  <2> QED
    BY <2>1 DEF Place
<1>3. {s \in quotes : quote'[s].dealer = quote'[q].dealer}
        = {s \in quotes : quote[s].dealer = quote[q].dealer}
  OBVIOUS
<1>4. {Place(r, quotes, Milli)' : r \in {s \in quotes : quote'[s].dealer = quote'[q].dealer}}
        = {Place(r, quotes, Milli) : r \in {s \in quotes : quote[s].dealer = quote[q].dealer}}
  BY <1>2, <1>3
<1> QED
  BY <1>2, <1>4 DEF LedgerRank, ReceiptRank

\* What a step leaves of the quotes: everything but the status of those posted.
LEMMA QuotesLast ==
  ASSUME QuotesShape, [DeskNext]_DeskVars
  PROVE  /\ QuotesShape'
         /\ \A r \in Posted : /\ r \in Posted'
                              /\ quote'[r].dealer = quote[r].dealer
                              /\ quote'[r].tier = quote[r].tier
                              /\ quote'[r].posted = quote[r].posted
                              /\ quote'[r].expires = quote[r].expires
<1>1. clock' \in Nat
  BY DEF DeskNext, Pass, Quoting, Settling, CreateRfq, CloseRfq, PostQuote, WithdrawQuote,
         StartAccept, Accept, GiveUpAccept, RequestAllocations, AuthorAllocations, AbandonSession,
         ConsumeRequest, WithdrawLock, StartSettle, Settle, PreviewAnswers, PreviewFails, GiveUpSettle, CancelKnown, CancelTrade,
         DeskVars, QuotesShape
<1>2. CASE UNCHANGED quote
  BY <1>1, <1>2 DEF QuotesShape, Posted
<1>3. ASSUME NEW q \in Quote, PostQuote(q)
      PROVE  /\ quote' \in [Quote -> QuoteSet] /\ \A r \in Posted : quote'[r] = quote[r]
  <2>1. PICK d \in Dealer, t \in {0, 1}, e \in (clock + 1) .. (MaxTime + 1) :
          quote' = [quote EXCEPT ![q] =
            [status |-> "live", dealer |-> d, tier |-> t, posted |-> clock, expires |-> e]]
    BY <1>3 DEF PostQuote
  <2>2. [status |-> "live", dealer |-> d, tier |-> t, posted |-> clock, expires |-> e] \in QuoteSet
    BY TradeDeskAssumption DEF QuotesShape, QuoteSet
  <2>3. q \notin Posted
    BY <1>3 DEF PostQuote, Posted, NoQuote
  <2> HIDE DEF QuoteSet
  <2> QED
    BY <2>1, <2>2, <2>3 DEF QuotesShape, Posted
<1>4. ASSUME NEW marks \in [Quote -> {"none", "live", "withdrawn", "consumed"}],
             quote' = [q \in Quote |-> [quote[q] EXCEPT !.status = marks[q]]],
             \A q \in Posted : marks[q] # "none"
      PROVE  /\ quote' \in [Quote -> QuoteSet]
             /\ \A r \in Posted : /\ r \in Posted'
                                  /\ quote'[r].dealer = quote[r].dealer
                                  /\ quote'[r].tier = quote[r].tier
                                  /\ quote'[r].posted = quote[r].posted
                                  /\ quote'[r].expires = quote[r].expires
  BY <1>4 DEF QuotesShape, QuoteSet, Posted
<1>5. ASSUME NEW q \in Quote, WithdrawQuote(q)
      PROVE  \E marks \in [Quote -> {"none", "live", "withdrawn", "consumed"}] :
               /\ quote' = [r \in Quote |-> [quote[r] EXCEPT !.status = marks[r]]]
               /\ \A r \in Posted : marks[r] # "none"
  <2> DEFINE marks == [r \in Quote |-> IF r = q THEN "withdrawn" ELSE quote[r].status]
  <2>1. marks \in [Quote -> {"none", "live", "withdrawn", "consumed"}]
    BY DEF QuotesShape, QuoteSet
  <2>2. quote' = [r \in Quote |-> [quote[r] EXCEPT !.status = marks[r]]]
    BY <1>5 DEF WithdrawQuote, QuotesShape, QuoteSet
  <2> QED
    BY <2>1, <2>2 DEF Posted
<1>6. ASSUME Accept
      PROVE  \E marks \in [Quote -> {"none", "live", "withdrawn", "consumed"}] :
               /\ quote' = [r \in Quote |-> [quote[r] EXCEPT !.status = marks[r]]]
               /\ \A r \in Posted : marks[r] # "none"
  <2> DEFINE marks == [r \in Quote |-> IF r \in accepting.considered THEN "consumed"
                                       ELSE quote[r].status]
  <2>1. marks \in [Quote -> {"none", "live", "withdrawn", "consumed"}]
    BY DEF QuotesShape, QuoteSet
  <2>2. quote' = [r \in Quote |-> [quote[r] EXCEPT !.status = marks[r]]]
    BY <1>6 DEF Accept, QuotesShape, QuoteSet
  <2> QED
    BY <2>1, <2>2 DEF Posted
<1>7. \/ UNCHANGED quote \/ Accept
      \/ \E q \in Quote : PostQuote(q) \/ WithdrawQuote(q)
  BY DEF DeskNext, Pass, Quoting, Settling, CreateRfq, CloseRfq, StartAccept, GiveUpAccept,
         RequestAllocations, AuthorAllocations, AbandonSession, ConsumeRequest, WithdrawLock,
         StartSettle, Settle, PreviewAnswers, PreviewFails, GiveUpSettle, CancelKnown, CancelTrade, RfqVars, DeskVars
<1> QED
  BY <1>1, <1>2, <1>3, <1>4, <1>5, <1>6, <1>7 DEF QuotesShape, Posted

\* The rank in the receipt that the service signs is the one the ledger computes
\* (policy/index.ts, Rfq_Accept), over any quotes that their dealers and their
\* times at the millisecond tell apart.
THEOREM RanksAgree == DeskSpec => []RankingsAgree
<1>1. DeskInit => RanksInv
  <2> SUFFICES ASSUME DeskInit PROVE RanksInv
    OBVIOUS
  <2>1. NoQuote \in QuoteSet
    BY DEF NoQuote, QuoteSet
  <2> QED
    BY <2>1 DEF DeskInit, RanksInv, QuotesShape
<1>2. RanksInv /\ [DeskNext]_DeskVars => RanksInv'
  <2> SUFFICES ASSUME RanksInv, [DeskNext]_DeskVars PROVE RanksInv'
    OBVIOUS
  <2>1. /\ QuotesShape /\ QuotesShape' /\ Posted \subseteq Posted' /\ Posted \subseteq Quote
        /\ \A r \in Posted : /\ quote'[r].dealer = quote[r].dealer
                             /\ quote'[r].tier = quote[r].tier
                             /\ quote'[r].posted = quote[r].posted
                             /\ quote'[r].expires = quote[r].expires
    BY QuotesLast DEF RanksInv, Posted
  <2>2. accepting' # NoAccept => Considers(accepting)'
    <3>1. ASSUME NEW quotes \in SUBSET {q \in Quote : quote[q] # NoQuote}, NEW q \in quotes,
                 StartAccept(q, quotes)
          PROVE  Considers(accepting)'
      <4>1. /\ accepting'.considered = Valid(quotes, clock) /\ accepting'.picked = q
            /\ q \in Valid(quotes, clock) /\ \A r \in quotes : quote[r].status = "live"
        BY <3>1 DEF StartAccept
      <4>2. Valid(quotes, clock) \subseteq Posted
        BY <4>1 DEF Valid, Posted
      <4> QED
        BY <2>1, <4>1, <4>2 DEF Considers
    <3>2. \/ accepting' = NoAccept \/ accepting' = accepting
          \/ \E quotes \in SUBSET {q \in Quote : quote[q] # NoQuote} :
               \E q \in quotes : StartAccept(q, quotes)
      BY DEF DeskNext, Pass, Quoting, Settling, CreateRfq, CloseRfq, PostQuote, WithdrawQuote,
             Accept, GiveUpAccept, RequestAllocations, AuthorAllocations, AbandonSession,
             ConsumeRequest, WithdrawLock, StartSettle, Settle, PreviewAnswers, PreviewFails, GiveUpSettle, CancelKnown,
             CancelTrade, RfqVars, DeskVars
    <3> QED
      BY <2>1, <3>1, <3>2 DEF RanksInv, Considers
  <2>3. ASSUME NEW x, Considers(x)
        PROVE  /\ x.considered \subseteq Posted'
               /\ LedgerRank(x.picked, x.considered)' = LedgerRank(x.picked, x.considered)
               /\ ReceiptRank(x.picked, x.considered)' = ReceiptRank(x.picked, x.considered)
    BY <2>1, <2>3, RanksLast DEF Considers
  <2>4. CASE receipt' = receipt
    BY <2>1, <2>2, <2>3, <2>4 DEF RanksInv, Considers
  <2>5. CASE receipt' # receipt
    <3>1. Accept
      BY <2>5
         DEF DeskNext, Pass, Quoting, Settling, CreateRfq, CloseRfq, PostQuote, WithdrawQuote,
             StartAccept, GiveUpAccept, RequestAllocations, AuthorAllocations, AbandonSession,
             ConsumeRequest, WithdrawLock, StartSettle, Settle, PreviewAnswers, PreviewFails, GiveUpSettle, CancelKnown,
             CancelTrade, DeskVars
    <3>2. PICK considered, picked : considered = accepting.considered /\ picked = accepting.picked
      OBVIOUS
    <3>3. /\ receipt'.considered = considered /\ receipt'.picked = picked
          /\ receipt'.rank = LedgerRank(picked, considered)
          /\ receipt'.signed = ReceiptRank(picked, considered)
      BY <3>1, <3>2 DEF Accept
    <3>4. /\ considered \subseteq Posted' /\ picked \in considered
          /\ LedgerRank(picked, considered)' = LedgerRank(picked, considered)
          /\ ReceiptRank(picked, considered)' = ReceiptRank(picked, considered)
      BY <2>1, <3>1, <3>2, RanksLast DEF Accept, RanksInv, Considers
    <3> QED
      BY <2>1, <2>2, <3>3, <3>4 DEF RanksInv, Considers
  <2> QED
    BY <2>4, <2>5
<1>3. RanksInv => RankingsAgree
  <2> SUFFICES ASSUME RanksInv, receipt # NoReceipt, ToldApart(receipt.considered),
                      Rivals(receipt.picked, receipt.considered) = {}
               PROVE  receipt.rank = receipt.signed
    BY DEF RankingsAgree
  <2> QED
    BY RanksAgreeNow DEF RanksInv, Considers, Posted
<1> QED
  BY <1>1, <1>2, <1>3, PTL DEF DeskSpec

-----------------------------------------------------------------------------
(***************************************************************************)
(* The commands of one settlement answer for one state of the pool, for    *)
(* any number of calls, states and mishaps.                                *)
(*                                                                         *)
(* The argument: a row that is ok is never written again, and a call goes  *)
(* on to a stage only with the answers of all stages before it, for the    *)
(* state of the pool it has read.  So an ok row of a later stage says for  *)
(* which state the ok rows before it were answered, and the first stage,   *)
(* which has one command, for all of them.                                 *)
(***************************************************************************)
MemoSet   == [status : {"none", "pending", "stale", "ok", "error"}, at : Nat, context : Nat]
FlightSet == [by : Handler \cup {"nobody"}, at : Nat]
CallSet   == [at : Nat, next : Nat, due : SUBSET Command, failed : BOOLEAN]

FlowShape ==
  /\ flow \in Flow
  /\ pool \in [nth : Nat, fits : BOOLEAN]
  /\ context \in Nat
  /\ memo \in [Command -> MemoSet]
  /\ flying \in [Command -> FlightSet]
  /\ handler \in [Handler -> CallSet]

Steps == 1 .. Len(Chain(flow))
OkAt(d, at) == memo[d].status = "ok" /\ memo[d].at = at

\* The commands of the stages before step k are answered for that state.
DoneUpTo(k, at) == \A j \in Steps : j < k => \A d \in Chain(flow)[j] : OkAt(d, at)

CallInv(h) == handler[h] # Unused =>
  LET x == handler[h]
      k == x.next - 1
  IN /\ k \in Steps /\ x.due \subseteq Chain(flow)[k]
     /\ DoneUpTo(k, x.at)
     /\ ~x.failed => \A d \in Chain(flow)[k] \ x.due : OkAt(d, x.at)

FlightInv(c) == flying[c].by \in Handler =>
  /\ memo[c].status = "pending" /\ memo[c].at = flying[c].at
  /\ c \in handler[flying[c].by].due
  /\ handler[flying[c].by].at = flying[c].at

AnswerInv(c) == memo[c].status = "ok" =>
  \E k \in Steps : c \in Chain(flow)[k] /\ DoneUpTo(k, memo[c].at)

FlowInv ==
  /\ FlowShape
  /\ \A h \in Handler : CallInv(h)
  /\ \A c \in Command : FlightInv(c) /\ AnswerInv(c)

LEMMA ChainFacts ==
  ASSUME NEW f \in Flow
  PROVE  /\ Len(Chain(f)) \in Nat /\ Len(Chain(f)) >= 1
         /\ \A k \in 1 .. Len(Chain(f)) : Chain(f)[k] \subseteq Command /\ Chain(f)[k] # {}
         /\ \A j, k \in 1 .. Len(Chain(f)) : \A c \in Chain(f)[j] :
              c \in Chain(f)[k] => j = k
         /\ \A k \in 1 .. Len(Chain(f)) : "settle" \in Chain(f)[k] => Chain(f)[k] = {"settle"}
         /\ \A c, d \in Chain(f)[1] : c = d
<1>1. CASE f = "swap"
  <2>1. Chain(f) = <<{"preview"}, {"settle"}>>
    BY <1>1 DEF Chain
  <2>2. Len(Chain(f)) = 2 /\ Chain(f)[1] = {"preview"} /\ Chain(f)[2] = {"settle"}
    BY <2>1
  <2>3. \A k \in 1 .. 2 : k = 1 \/ k = 2
    OBVIOUS
  <2> HIDE DEF Chain
  <2> QED
    BY <2>2, <2>3 DEF Command
<1>2. CASE f = "add"
  <2>1. Chain(f) = <<{"plan"}, {"base", "quote", "mint"}, {"preview"}, {"settle"}>>
    BY <1>2 DEF Chain
  <2>2. /\ Len(Chain(f)) = 4 /\ Chain(f)[1] = {"plan"} /\ Chain(f)[2] = {"base", "quote", "mint"}
        /\ Chain(f)[3] = {"preview"} /\ Chain(f)[4] = {"settle"}
    BY <2>1
  <2>3. \A k \in 1 .. 4 : k = 1 \/ k = 2 \/ k = 3 \/ k = 4
    OBVIOUS
  <2> HIDE DEF Chain
  <2> QED
    BY <2>2, <2>3 DEF Command, Own
<1>3. CASE f = "remove"
  <2>1. Chain(f) = <<{"plan"}, {"burn"}, {"preview"}, {"settle"}>>
    BY <1>3 DEF Chain
  <2>2. /\ Len(Chain(f)) = 4 /\ Chain(f)[1] = {"plan"} /\ Chain(f)[2] = {"burn"}
        /\ Chain(f)[3] = {"preview"} /\ Chain(f)[4] = {"settle"}
    BY <2>1
  <2>3. \A k \in 1 .. 4 : k = 1 \/ k = 2 \/ k = 3 \/ k = 4
    OBVIOUS
  <2> HIDE DEF Chain
  <2> QED
    BY <2>2, <2>3 DEF Command, Own
<1> QED
  BY <1>1, <1>2, <1>3 DEF Flow

LEMMA FlowInvSays == FlowInv => OneSnapshot
<1> SUFFICES ASSUME FlowInv, NEW c \in Command, NEW d \in Command,
                    memo[c].status = "ok", memo[d].status = "ok"
             PROVE  memo[c].at = memo[d].at
  BY DEF OneSnapshot, Command
<1>1. PICK j \in Steps : c \in Chain(flow)[j] /\ DoneUpTo(j, memo[c].at)
  BY DEF FlowInv, AnswerInv
<1>2. PICK k \in Steps : d \in Chain(flow)[k] /\ DoneUpTo(k, memo[d].at)
  BY DEF FlowInv, AnswerInv
<1>3. /\ flow \in Flow /\ Len(Chain(flow)) \in Nat /\ Len(Chain(flow)) >= 1
      /\ Chain(flow)[1] # {} /\ \A a, b \in Chain(flow)[1] : a = b
  BY ChainFacts DEF FlowInv, FlowShape
<1>4. PICK first : first \in Chain(flow)[1]
  BY <1>3
<1>5. 1 \in Steps /\ j \in Nat /\ k \in Nat /\ j >= 1 /\ k >= 1
  BY <1>3 DEF Steps
<1>6. memo[first].at = memo[c].at
  <2>1. CASE j = 1
    BY <1>1, <1>3, <1>4, <2>1
  <2>2. CASE j > 1
    BY <1>1, <1>4, <1>5, <2>2 DEF DoneUpTo, OkAt
  <2> QED
    BY <1>5, <2>1, <2>2
<1>7. memo[first].at = memo[d].at
  <2>1. CASE k = 1
    BY <1>2, <1>3, <1>4, <2>1
  <2>2. CASE k > 1
    BY <1>2, <1>4, <1>5, <2>2 DEF DoneUpTo, OkAt
  <2> QED
    BY <1>5, <2>1, <2>2
<1> QED
  BY <1>6, <1>7

\* The rows that are ok stay so.
Lasting == \A d \in Command : memo[d].status = "ok" => memo'[d] = memo[d]

LEMMA DoneStays ==
  ASSUME FlowInv, Lasting, flow' = flow, NEW k \in Steps, NEW at, DoneUpTo(k, at)
  PROVE  DoneUpTo(k, at)'
<1>1. flow \in Flow
  BY DEF FlowInv, FlowShape
<1>2. \A j \in Steps : \A d \in Chain(flow)[j] : OkAt(d, at) => OkAt(d, at)'
  BY <1>1, ChainFacts DEF Lasting, OkAt, Steps
<1>3. Steps' = Steps /\ Chain(flow)' = Chain(flow)
  BY DEF Steps
<1> QED
  BY <1>2, <1>3 DEF DoneUpTo

LEMMA CallStays ==
  ASSUME FlowInv, Lasting, flow' = flow, NEW h \in Handler, handler'[h] = handler[h]
  PROVE  CallInv(h)'
<1> SUFFICES ASSUME handler[h] # Unused PROVE CallInv(h)'
  BY DEF CallInv
<1> DEFINE x == handler[h]
           k == x.next - 1
<1>1. /\ k \in Steps /\ x.due \subseteq Chain(flow)[k] /\ DoneUpTo(k, x.at)
      /\ ~x.failed => \A d \in Chain(flow)[k] \ x.due : OkAt(d, x.at)
      /\ flow \in Flow
  BY DEF FlowInv, CallInv, FlowShape
<1>2. PICK n, a : n = k /\ a = x.at
  OBVIOUS
<1>3. DoneUpTo(n, a)'
  BY <1>1, <1>2, DoneStays
<1>4. \A d \in Chain(flow)[k] : OkAt(d, a) => OkAt(d, a)'
  BY <1>1, ChainFacts DEF Lasting, OkAt, Steps
<1>5. Steps' = Steps /\ Chain(flow)' = Chain(flow)
  BY DEF Steps
<1> QED
  BY <1>1, <1>2, <1>3, <1>4, <1>5 DEF CallInv

\* A call goes on when its command has its answer.
LEMMA CallPasses ==
  ASSUME FlowInv, Lasting, flow' = flow, NEW h \in Handler, NEW c \in handler[h].due,
         NEW a, a = handler[h].at, OkAt(c, a)', handler'[h] = Without(h, c)
  PROVE  CallInv(h)' /\ handler'[h] \in CallSet
<1> DEFINE x == handler[h]
           k == x.next - 1
           rest == x.due \ {c}
<1>0. /\ flow \in Flow /\ x \in CallSet /\ x # Unused
  BY DEF FlowInv, FlowShape, Unused
<1>1. /\ k \in Steps /\ x.due \subseteq Chain(flow)[k] /\ DoneUpTo(k, x.at)
      /\ ~x.failed => \A d \in Chain(flow)[k] \ x.due : OkAt(d, x.at)
  BY <1>0 DEF FlowInv, CallInv
<1>2. /\ x.next \in Nat /\ x.due \subseteq Command /\ Len(Chain(flow)) \in Nat
      /\ \A j \in Steps : Chain(flow)[j] \subseteq Command
  BY <1>0, ChainFacts DEF CallSet, Steps
<1>3. PICK n : n = k /\ a = x.at
  OBVIOUS
<1>4. n \in Steps /\ DoneUpTo(n, a)'
  BY <1>1, <1>3, DoneStays
<1>5. Steps' = Steps /\ Chain(flow)' = Chain(flow)
  BY DEF Steps
<1>6. \A d \in Chain(flow)[n] : OkAt(d, a) => OkAt(d, a)'
  BY <1>2, <1>4 DEF Lasting, OkAt
<1>7. Unused \in CallSet
  BY DEF Unused, CallSet
<1>8. CASE rest # {}
  <2>1. handler'[h] = [x EXCEPT !.due = rest]
    BY <1>8 DEF Without
  <2>2. /\ handler'[h] \in CallSet /\ handler'[h].next - 1 = n /\ handler'[h].due = rest
        /\ handler'[h].at = a /\ handler'[h].failed = x.failed
    BY <1>0, <1>2, <1>3, <2>1 DEF CallSet
  <2>3. ~x.failed => \A d \in Chain(flow)[n] \ rest : OkAt(d, a)'
    BY <1>1, <1>3, <1>6
  <2> QED
    BY <1>1, <1>3, <1>4, <1>5, <2>2, <2>3 DEF CallInv
<1>9. CASE rest = {} /\ (x.failed \/ x.next > Len(Chain(flow)))
  BY <1>7, <1>9 DEF Without, CallInv
<1>10. CASE rest = {} /\ ~(x.failed \/ x.next > Len(Chain(flow)))
  <2>1. handler'[h] = [x EXCEPT !.due = Chain(flow)[x.next], !.next = x.next + 1]
    BY <1>10 DEF Without
  <2>2. x.next \in Steps /\ n \in Nat /\ x.next = n + 1
    BY <1>1, <1>2, <1>3, <1>10 DEF Steps
  <2>3. /\ handler'[h] \in CallSet /\ handler'[h].next - 1 = n + 1
        /\ handler'[h].due = Chain(flow)[n + 1]
        /\ handler'[h].at = a
    <3>1. PICK s, y : s = Chain(flow)[x.next] /\ y = x
      OBVIOUS
    <3>2. s \in SUBSET Command /\ s = Chain(flow)[n + 1] /\ y.next = n + 1
      BY <1>2, <2>2, <3>1
    <3>3. y \in CallSet /\ y.at = a /\ handler'[h] = [y EXCEPT !.due = s, !.next = y.next + 1]
      BY <1>0, <1>3, <2>1, <3>1
    <3>4. handler'[h] = [at |-> a, next |-> n + 2, due |-> s, failed |-> y.failed]
      <4>1. PICK z, m : z = [y EXCEPT !.due = s] /\ m = y.next + 1
        OBVIOUS
      <4>2. z = [at |-> a, next |-> y.next, due |-> s, failed |-> y.failed]
        BY <3>3, <4>1 DEF CallSet
      <4>3. handler'[h] = [z EXCEPT !.next = m]
        BY <3>3, <4>1
      <4>4. m = n + 2
        BY <2>2, <3>2, <4>1
      <4> QED
        BY <4>2, <4>3, <4>4
    <3>5. n + 2 \in Nat /\ (n + 2) - 1 = n + 1
      BY <2>2
    <3> HIDE DEF x
    <3> QED
      BY <3>2, <3>3, <3>4, <3>5 DEF CallSet
  <2>4. \A d \in Chain(flow)[n] : OkAt(d, a)'
    BY <1>1, <1>3, <1>6, <1>10
  <2>5. DoneUpTo(n + 1, a)'
    <3>1. \A j \in Steps : j < n + 1 => j < n \/ j = n
      BY <2>2 DEF Steps
    <3> QED
      BY <1>4, <1>5, <2>4, <3>1 DEF DoneUpTo
  <2> QED
    BY <1>5, <2>2, <2>3, <2>5 DEF CallInv
<1> QED
  BY <1>8, <1>9, <1>10

\* ... and breaks off, when it has none and nothing else is out.
LEMMA CallFails ==
  ASSUME FlowInv, Lasting, flow' = flow, NEW h \in Handler, NEW c \in handler[h].due,
         handler'[h] = IF handler[h].due \ {c} = {} THEN Unused
                       ELSE [handler[h] EXCEPT !.due = handler[h].due \ {c}, !.failed = TRUE]
  PROVE  CallInv(h)' /\ handler'[h] \in CallSet
<1> DEFINE x == handler[h]
           k == x.next - 1
           rest == x.due \ {c}
<1>0. /\ flow \in Flow /\ x \in CallSet /\ x # Unused
  BY DEF FlowInv, FlowShape, Unused
<1>1. k \in Steps /\ x.due \subseteq Chain(flow)[k] /\ DoneUpTo(k, x.at)
  BY <1>0 DEF FlowInv, CallInv
<1>2. PICK n, a : n = k /\ a = x.at
  OBVIOUS
<1>3. n \in Steps /\ DoneUpTo(n, a)'
  BY <1>1, <1>2, DoneStays
<1>4. Steps' = Steps /\ Chain(flow)' = Chain(flow)
  BY DEF Steps
<1>5. CASE rest = {}
  BY <1>5 DEF Unused, CallSet, CallInv
<1>6. CASE rest # {}
  <2>1. /\ handler'[h] \in CallSet /\ handler'[h].next - 1 = n /\ handler'[h].due = rest
        /\ handler'[h].at = a /\ handler'[h].failed = TRUE
    BY <1>0, <1>2, <1>6 DEF CallSet
  <2> QED
    BY <1>1, <1>2, <1>3, <1>4, <2>1 DEF CallInv
<1> QED
  BY <1>5, <1>6

\* The other submissions wait for the calls that they did wait for.
LEMMA FlightsStay ==
  ASSUME FlowInv, NEW h \in Handler, NEW c,
         \A g \in Handler \ {h} : handler'[g] = handler[g],
         handler[h].due \ {c} # {} =>
           /\ handler'[h].at = handler[h].at
           /\ handler'[h].due = handler[h].due \ {c},
         NEW d \in Command, d # c \/ flying[d].by # h,
         flying'[d] = flying[d], memo'[d] = memo[d]
  PROVE  FlightInv(d)'
BY DEF FlowInv, FlightInv

\* A row becomes ok with the answer to a call that has those of all stages
\* before; it says then for which state of the pool they were.
LEMMA AnswersStay ==
  ASSUME FlowInv, Lasting, flow' = flow, NEW c \in Command,
         memo'[c].status = "ok" => \/ memo[c].status = "ok"
                                   \/ \E h \in Handler : /\ c \in handler[h].due
                                                         /\ memo'[c].at = handler[h].at
  PROVE  AnswerInv(c)'
<1> SUFFICES ASSUME memo'[c].status = "ok" PROVE AnswerInv(c)'
  BY DEF AnswerInv
<1>1. Steps' = Steps /\ Chain(flow)' = Chain(flow)
  BY DEF Steps
<1>2. PICK at : at = memo'[c].at
  OBVIOUS
<1>3. PICK k \in Steps : c \in Chain(flow)[k] /\ DoneUpTo(k, at)
  <2>1. CASE memo[c].status = "ok"
    BY <1>2, <2>1 DEF FlowInv, AnswerInv, Lasting
  <2>2. CASE memo[c].status # "ok"
    <3>1. PICK h \in Handler : c \in handler[h].due /\ at = handler[h].at
      BY <1>2, <2>2
    <3>2. handler[h] # Unused
      BY <3>1 DEF Unused
    <3> QED
      BY <3>1, <3>2 DEF FlowInv, CallInv
  <2> QED
    BY <2>1, <2>2
<1>4. DoneUpTo(k, at)'
  BY <1>3, DoneStays
<1> QED
  BY <1>1, <1>2, <1>3, <1>4 DEF AnswerInv

\* The calls, submissions and rows that a command of one call leaves alone.
LEMMA FlowStep ==
  ASSUME FlowInv, Lasting, flow' = flow, context' = context, NEW h \in Handler,
         NEW c \in handler[h].due,
         pool' \in [nth : Nat, fits : BOOLEAN],
         handler' = [handler EXCEPT ![h] = handler'[h]],
         CallInv(h)', handler'[h] \in CallSet,
         handler[h].due \ {c} # {} =>
           /\ handler'[h].at = handler[h].at
           /\ handler'[h].due = handler[h].due \ {c},
         \/ /\ UNCHANGED <<memo, flying>>
            /\ flying[c].by # h
         \/ /\ \E status \in {"ok", "error"} : Marked(c, status)
            /\ Grounded(c)
            /\ flying[c].by = h
  PROVE  FlowInv'
<1>1. FlowShape /\ c \in Command /\ h # "nobody"
  BY PoolDeskAssumption DEF FlowInv, FlowShape, CallSet
<1>2. \A g \in Handler \ {h} : handler'[g] = handler[g]
  BY <1>1 DEF FlowShape
<1>3. FlowShape'
  <2>1. handler' \in [Handler -> CallSet]
    BY <1>1 DEF FlowShape
  <2>2. flying' \in [Command -> FlightSet]
    <3>1. Ground \in FlightSet
      BY DEF Ground, FlightSet
    <3> QED
      BY <1>1, <3>1 DEF FlowShape, Grounded
  <2>3. memo' \in [Command -> MemoSet]
    <3>1. ASSUME NEW status \in {"ok", "error"}, Marked(c, status)
          PROVE  memo' \in [Command -> MemoSet]
      <4>1. [status |-> status, at |-> memo[c].at, context |-> memo[c].context] \in MemoSet
        BY <1>1 DEF FlowShape, MemoSet
      <4> QED
        BY <1>1, <3>1, <4>1 DEF FlowShape, Marked
    <3> QED
      BY <1>1, <3>1 DEF FlowShape
  <2> QED
    BY <1>1, <2>1, <2>2, <2>3 DEF FlowShape
<1>4. ASSUME NEW g \in Handler PROVE CallInv(g)'
  BY <1>2, CallStays
<1>5. ASSUME NEW d \in Command PROVE FlightInv(d)'
  <2>1. CASE d # c \/ flying[d].by # h
    <3>1. flying'[d] = flying[d] /\ memo'[d] = memo[d]
      BY <1>1, <2>1 DEF FlowShape, Marked, Grounded
    <3> QED
      BY <1>2, <2>1, <3>1, FlightsStay
  <2>2. CASE d = c /\ flying[c].by = h
    BY <1>1, <2>2, PoolDeskAssumption DEF FlowShape, FlightInv, Grounded, Ground
  <2> QED
    BY <2>1, <2>2
<1>6. ASSUME NEW d \in Command PROVE AnswerInv(d)'
  <2>1. memo'[d].status = "ok" => \/ memo[d].status = "ok"
                                  \/ \E g \in Handler : /\ d \in handler[g].due
                                                        /\ memo'[d].at = handler[g].at
    BY <1>1 DEF FlowShape, MemoSet, FlowInv, FlightInv, Marked
  <2> QED
    BY <2>1, AnswersStay
<1> QED
  BY <1>3, <1>4, <1>5, <1>6 DEF FlowInv

\* The submissions are those of pending rows: what is written was not ok.
LEMMA FlightWrites ==
  ASSUME FlowInv, NEW c \in Command, flying[c].by \in Handler, NEW status, Marked(c, status)
  PROVE  /\ Lasting
         /\ c \in handler[flying[c].by].due
         /\ handler[flying[c].by] # Unused
         /\ memo'[c].status = status /\ memo'[c].at = handler[flying[c].by].at
BY DEF FlowInv, FlowShape, FlightInv, MemoSet, Marked, Lasting, Unused

\* What a settlement does to the pool leaves a pool.
LEMMA EffectOnPool ==
  ASSUME FlowInv, NEW c, Effect(c)
  PROVE  pool' \in [nth : Nat, fits : BOOLEAN]
<1>1. pool \in [nth : Nat, fits : BOOLEAN]
  BY DEF FlowInv, FlowShape
<1>2. \A n \in Nat : [nth |-> n + 1, fits |-> FALSE] \in [nth : Nat, fits : BOOLEAN]
  OBVIOUS
<1>3. pool' = [nth |-> pool.nth + 1, fits |-> FALSE] \/ pool' = pool
  BY DEF Effect
<1> QED
  BY <1>1, <1>2, <1>3

LEMMA PassesOn ==
  ASSUME FlowInv, NEW h \in Handler, NEW c \in handler[h].due, Passed(h, c)
  PROVE  /\ handler' = [handler EXCEPT ![h] = handler'[h]]
         /\ handler'[h] = Without(h, c)
         /\ handler[h].due \ {c} # {} =>
              /\ handler'[h].at = handler[h].at
              /\ handler'[h].due = handler[h].due \ {c}
<1>1. handler'[h] = Without(h, c) /\ handler' = [handler EXCEPT ![h] = handler'[h]]
  BY DEF FlowInv, FlowShape, Passed
<1>2. handler[h] \in CallSet
  BY DEF FlowInv, FlowShape
<1> QED
  BY <1>1, <1>2 DEF Without, CallSet

LEMMA BreaksOff ==
  ASSUME FlowInv, NEW h \in Handler, NEW c \in handler[h].due, Failed(h, c)
  PROVE  /\ handler' = [handler EXCEPT ![h] = handler'[h]]
         /\ handler'[h] = IF handler[h].due \ {c} = {} THEN Unused
                          ELSE [handler[h] EXCEPT !.due = handler[h].due \ {c}, !.failed = TRUE]
         /\ handler[h].due \ {c} # {} =>
              /\ handler'[h].at = handler[h].at
              /\ handler'[h].due = handler[h].due \ {c}
<1>1. handler[h] \in CallSet
  BY DEF FlowInv, FlowShape
<1> QED
  BY <1>1 DEF FlowInv, FlowShape, Failed, CallSet

\* An answer to a submission: its call goes on, or breaks off, or is not heard.
LEMMA AnsweredStep ==
  ASSUME FlowInv, flow' = flow, context' = context, NEW c \in Command, NEW h \in Handler,
         flying[c].by = h,
         pool' \in [nth : Nat, fits : BOOLEAN], Grounded(c),
         \/ Marked(c, "ok") /\ Passed(h, c)
         \/ Marked(c, "error") /\ Failed(h, c)
         \/ /\ c = "settle" /\ Marked(c, "ok")
            /\ handler' = [handler EXCEPT ![h] = Unused]
  PROVE  FlowInv'
<1>1. CASE Marked(c, "ok") /\ Passed(h, c)
  <2>1. /\ Lasting /\ c \in handler[h].due
        /\ memo'[c].status = "ok" /\ memo'[c].at = handler[h].at
    BY <1>1, FlightWrites
  <2>2. PICK a : a = handler[h].at
    OBVIOUS
  <2>3. OkAt(c, a)'
    BY <2>1, <2>2 DEF OkAt
  <2>4. CallInv(h)' /\ handler'[h] \in CallSet
    BY <1>1, <2>1, <2>2, <2>3, PassesOn, CallPasses
  <2>5. /\ handler' = [handler EXCEPT ![h] = handler'[h]]
        /\ handler[h].due \ {c} # {} =>
             /\ handler'[h].at = handler[h].at
             /\ handler'[h].due = handler[h].due \ {c}
    BY <1>1, <2>1, PassesOn
  <2> QED
    BY <1>1, <2>1, <2>4, <2>5, FlowStep
<1>2. CASE Marked(c, "error") /\ Failed(h, c)
  <2>1. Lasting /\ c \in handler[h].due
    BY <1>2, FlightWrites
  <2>2. CallInv(h)' /\ handler'[h] \in CallSet
    BY <1>2, <2>1, BreaksOff, CallFails
  <2>3. /\ handler' = [handler EXCEPT ![h] = handler'[h]]
        /\ handler[h].due \ {c} # {} =>
             /\ handler'[h].at = handler[h].at
             /\ handler'[h].due = handler[h].due \ {c}
    BY <1>2, <2>1, BreaksOff
  <2> QED
    BY <1>2, <2>1, <2>2, <2>3, FlowStep
<1>3. CASE /\ c = "settle" /\ Marked(c, "ok")
           /\ handler' = [handler EXCEPT ![h] = Unused]
  <2>1. Lasting /\ c \in handler[h].due /\ handler[h] # Unused
    BY <1>3, FlightWrites
  <2>2. handler[h].due \ {c} = {}
    <3>1. /\ handler[h].next - 1 \in Steps
          /\ handler[h].due \subseteq Chain(flow)[handler[h].next - 1] /\ flow \in Flow
      BY <2>1 DEF FlowInv, CallInv, FlowShape
    <3> QED
      BY <1>3, <2>1, <3>1, ChainFacts DEF Steps
  <2>3. handler'[h] = Unused /\ handler' = [handler EXCEPT ![h] = handler'[h]]
    BY <1>3 DEF FlowInv, FlowShape
  <2>4. CallInv(h)' /\ handler'[h] \in CallSet
    BY <2>3 DEF CallInv, Unused, CallSet
  <2> QED
    BY <1>3, <2>1, <2>2, <2>3, <2>4, FlowStep
<1> QED
  BY <1>1, <1>2, <1>3

LEMMA BeginKeeps ==
  ASSUME FlowInv, NEW h \in Handler, Begin(h)
  PROVE  FlowInv'
<1>0. PICK at \in {pool.nth, Apart} :
        handler' = [handler EXCEPT ![h] =
          [at |-> at, next |-> 2, due |-> Chain(flow)[1], failed |-> FALSE]]
  BY DEF Begin
<1> DEFINE new == [at |-> at, next |-> 2, due |-> Chain(flow)[1], failed |-> FALSE]
<1>1. /\ FlowShape /\ handler[h] = Unused /\ UNCHANGED <<flow, context, pool, memo, flying>>
      /\ Lasting /\ at \in Nat
  BY DEF FlowInv, FlowShape, Begin, Free, Lasting, Apart
<1>2. /\ flow \in Flow /\ 1 \in Steps /\ Chain(flow)[1] \subseteq Command
      /\ \A k \in Steps : k >= 1
  BY <1>1, ChainFacts DEF FlowShape, Steps
<1>3. new \in CallSet
  BY <1>1, <1>2 DEF FlowShape, CallSet
<1>4. handler' = [handler EXCEPT ![h] = new] /\ handler'[h] = new
  BY <1>0, <1>1 DEF FlowShape
<1>5. CallInv(h)'
  <2>1. Steps' = Steps /\ Chain(flow)' = Chain(flow)
    BY <1>1 DEF Steps
  <2>2. /\ handler'[h].next - 1 = 1 /\ handler'[h].due = Chain(flow)[1]
        /\ handler'[h].at = at
    BY <1>4
  <2>3. PICK a : a = at
    OBVIOUS
  <2>4. DoneUpTo(1, a)'
    <3>1. \A j \in Steps : ~(j < 1)
      BY <1>2 DEF Steps
    <3> QED
      BY <2>1, <3>1 DEF DoneUpTo
  <2> QED
    BY <1>2, <2>1, <2>2, <2>3, <2>4 DEF CallInv
<1>6. ASSUME NEW g \in Handler PROVE CallInv(g)'
  <2>1. CASE g = h
    BY <1>5, <2>1
  <2>2. CASE g # h
    BY <1>1, <1>4, <2>2, CallStays DEF FlowShape
  <2> QED
    BY <2>1, <2>2
<1>7. ASSUME NEW d \in Command PROVE FlightInv(d)' /\ AnswerInv(d)'
  <2>1. flying[d].by # h
    BY <1>1 DEF FlowInv, FlightInv, Unused
  <2>2. FlightInv(d)'
    BY <1>1, <1>4, <2>1 DEF FlowInv, FlowShape, FlightInv
  <2>3. AnswerInv(d)'
    BY <1>1, AnswersStay
  <2> QED
    BY <2>2, <2>3
<1>8. FlowShape'
  BY <1>1, <1>3, <1>4 DEF FlowShape
<1> QED
  BY <1>6, <1>7, <1>8 DEF FlowInv

LEMMA SubmitKeeps ==
  ASSUME FlowInv, NEW h \in Handler, NEW c \in Command, Submit(h, c)
  PROVE  FlowInv'
<1>1. /\ FlowShape /\ UNCHANGED <<flow, pool>> /\ flow' = flow /\ context' = context
      /\ c \in handler[h].due /\ flying[c].by # h
  BY DEF FlowInv, Submit
<1>2. PICK at : at = handler[h].at
  OBVIOUS
<1>3. CASE Failed(h, c) /\ UNCHANGED <<memo, flying>>
  <2>1. Lasting
    BY <1>3 DEF Lasting
  <2>2. CallInv(h)' /\ handler'[h] \in CallSet
    BY <1>1, <1>3, <2>1, BreaksOff, CallFails
  <2>3. /\ handler' = [handler EXCEPT ![h] = handler'[h]]
        /\ handler[h].due \ {c} # {} =>
             /\ handler'[h].at = handler[h].at
             /\ handler'[h].due = handler[h].due \ {c}
    BY <1>1, <1>3, BreaksOff
  <2>4. pool' \in [nth : Nat, fits : BOOLEAN]
    BY <1>1 DEF FlowShape
  <2> QED
    BY <1>1, <1>3, <2>1, <2>2, <2>3, <2>4, FlowStep
<1>4. CASE Answered(c, at) /\ Passed(h, c) /\ UNCHANGED <<memo, flying>>
  <2>1. Lasting
    BY <1>4 DEF Lasting
  <2>2. OkAt(c, at)'
    BY <1>4 DEF Answered, Replayed, Differs, OkAt
  <2>3. CallInv(h)' /\ handler'[h] \in CallSet
    BY <1>1, <1>2, <1>4, <2>1, <2>2, PassesOn, CallPasses
  <2>4. /\ handler' = [handler EXCEPT ![h] = handler'[h]]
        /\ handler[h].due \ {c} # {} =>
             /\ handler'[h].at = handler[h].at
             /\ handler'[h].due = handler[h].due \ {c}
    BY <1>1, <1>4, PassesOn
  <2>5. pool' \in [nth : Nat, fits : BOOLEAN]
    BY <1>1 DEF FlowShape
  <2> QED
    BY <1>1, <1>4, <2>1, <2>3, <2>4, <2>5, FlowStep
<1>5. CASE /\ ~Replayed(c, at) /\ ~Answered(c, at) /\ ~Taken(c, at)
           /\ memo' = [memo EXCEPT ![c] =
                [status |-> "pending", at |-> at, context |-> With(c)]]
           /\ flying' = [flying EXCEPT ![c] = [by |-> h, at |-> at]]
           /\ UNCHANGED handler
  <2>1. memo[c].status # "ok" /\ memo[c].status # "pending"
    BY <1>5 DEF Replayed, Differs, Answered, Taken
  <2>2. Lasting
    BY <1>1, <1>5, <2>1 DEF Lasting, FlowShape
  <2>3. at \in Nat /\ With(c) \in Nat
    BY <1>1, <1>2 DEF FlowShape, CallSet, With
  <2>4. /\ memo' \in [Command -> MemoSet]
        /\ memo'[c] = [status |-> "pending", at |-> at, context |-> With(c)]
    <3>1. [status |-> "pending", at |-> at, context |-> With(c)] \in MemoSet
      BY <2>3 DEF MemoSet
    <3> QED
      BY <1>1, <1>5, <3>1 DEF FlowShape
  <2>5. flying' \in [Command -> FlightSet] /\ flying'[c] = [by |-> h, at |-> at]
    <3>1. [by |-> h, at |-> at] \in FlightSet
      BY <2>3 DEF FlightSet
    <3> QED
      BY <1>1, <1>5, <3>1 DEF FlowShape
  <2>6. ASSUME NEW d \in Command PROVE FlightInv(d)' /\ AnswerInv(d)'
    <3>1. CASE d = c
      BY <1>1, <1>2, <1>5, <2>4, <2>5, <3>1 DEF FlightInv, AnswerInv
    <3>2. CASE d # c
      <4>1. memo'[d] = memo[d] /\ flying'[d] = flying[d]
        BY <1>1, <1>5, <3>2 DEF FlowShape
      <4>2. FlightInv(d)'
        BY <1>5, <4>1 DEF FlowInv, FlightInv
      <4>3. AnswerInv(d)'
        BY <1>1, <2>2, <4>1, AnswersStay
      <4> QED
        BY <4>2, <4>3
    <3> QED
      BY <3>1, <3>2
  <2>7. ASSUME NEW g \in Handler PROVE CallInv(g)'
    BY <1>1, <1>5, <2>2, CallStays
  <2> QED
    BY <1>1, <1>5, <2>4, <2>5, <2>6, <2>7 DEF FlowInv, FlowShape
<1> QED
  BY <1>2, <1>3, <1>4, <1>5 DEF Submit

LEMMA DieKeeps ==
  ASSUME FlowInv, Die
  PROVE  FlowInv'
<1>1. /\ FlowShape /\ flow' = flow /\ context' = context /\ memo' = memo /\ Lasting
      /\ handler' = [h \in Handler |-> Unused]
      /\ flying' = [c \in Command |-> Ground]
  BY DEF FlowInv, Die, Lasting
<1>2. Unused \in CallSet /\ Ground \in FlightSet /\ Ground.by \notin Handler
  BY PoolDeskAssumption DEF Unused, CallSet, Ground, FlightSet
<1>3. pool' \in [nth : Nat, fits : BOOLEAN]
  BY <1>1, EffectOnPool DEF Die, FlowShape
<1>4. FlowShape'
  BY <1>1, <1>2, <1>3 DEF FlowShape
<1>5. ASSUME NEW d \in Command PROVE FlightInv(d)' /\ AnswerInv(d)'
  <2>1. FlightInv(d)'
    BY <1>1, <1>2 DEF FlightInv
  <2>2. AnswerInv(d)'
    BY <1>1, AnswersStay
  <2> QED
    BY <2>1, <2>2
<1>6. ASSUME NEW h \in Handler PROVE CallInv(h)'
  BY <1>1 DEF CallInv
<1> QED
  BY <1>4, <1>5, <1>6 DEF FlowInv

LEMMA ExpireKeeps ==
  ASSUME FlowInv, NEW c \in Command, Expire(c)
  PROVE  FlowInv'
<1>1. /\ FlowShape /\ UNCHANGED <<flow, context, pool, flying, handler>> /\ Marked(c, "stale")
      /\ memo[c].status = "pending" /\ flying[c] = Ground
  BY DEF FlowInv, Expire
<1>2. memo' \in [Command -> MemoSet] /\ memo'[c].status = "stale"
  <2>1. [status |-> "stale", at |-> memo[c].at, context |-> memo[c].context] \in MemoSet
    BY <1>1 DEF FlowShape, MemoSet
  <2> QED
    BY <1>1, <2>1 DEF FlowShape, Marked
<1>3. \A d \in Command : d # c => memo'[d] = memo[d]
  BY <1>1 DEF FlowShape, Marked
<1>4. Lasting
  BY <1>1, <1>3 DEF Lasting
<1>5. ASSUME NEW d \in Command PROVE FlightInv(d)' /\ AnswerInv(d)'
  <2>1. FlightInv(d)'
    BY <1>1, <1>3, PoolDeskAssumption DEF FlowInv, FlightInv, Ground
  <2>2. AnswerInv(d)'
    BY <1>1, <1>2, <1>3, <1>4, AnswersStay
  <2> QED
    BY <2>1, <2>2
<1>6. ASSUME NEW h \in Handler PROVE CallInv(h)'
  BY <1>1, <1>4, CallStays
<1> QED
  BY <1>1, <1>2, <1>5, <1>6 DEF FlowInv, FlowShape

\* All the commands of one settlement are computed from one state of the pool
\* (pool/index.ts), whichever calls contributed their answers and whatever was
\* refused, lost or cut off in between.
THEOREM FromOneSnapshot == PoolDeskSpec => []OneSnapshot
<1>1. PoolDeskInit => FlowInv
  <2> SUFFICES ASSUME PoolDeskInit PROVE FlowInv
    OBVIOUS
  <2>1. Blank \in MemoSet /\ Ground \in FlightSet /\ Unused \in CallSet /\ Blank.status = "none"
    BY DEF Blank, MemoSet, Ground, FlightSet, Unused, CallSet
  <2>2. FlowShape
    BY <2>1 DEF PoolDeskInit, FlowShape
  <2>3. \A h \in Handler : CallInv(h)
    BY DEF PoolDeskInit, CallInv
  <2>4. \A c \in Command : FlightInv(c) /\ AnswerInv(c)
    BY <2>1, PoolDeskAssumption DEF PoolDeskInit, FlightInv, AnswerInv, Ground
  <2> QED
    BY <2>2, <2>3, <2>4 DEF FlowInv
<1>2. FlowInv /\ [PoolDeskNext]_PoolDeskVars => FlowInv'
  <2> SUFFICES ASSUME FlowInv, [PoolDeskNext]_PoolDeskVars PROVE FlowInv'
    OBVIOUS
  <2>1. CASE /\ UNCHANGED <<flow, memo, flying, handler>>
             /\ pool' \in [nth : Nat, fits : BOOLEAN] /\ context' \in Nat
    BY <2>1 DEF FlowInv, FlowShape, CallInv, FlightInv, AnswerInv, DoneUpTo, OkAt, Steps
  <2>2. CASE \/ Trade \/ AskPool \/ Author \/ PassDeadline \/ RegistryMoves
             \/ UNCHANGED PoolDeskVars
    <3>1. UNCHANGED <<flow, memo, flying, handler>> /\ context' \in Nat
      BY <2>2 DEF Trade, AskPool, Author, PassDeadline, RegistryMoves, PoolDeskVars,
                  FlowInv, FlowShape
    <3>2. pool' \in [nth : Nat, fits : BOOLEAN]
      <4>1. pool \in [nth : Nat, fits : BOOLEAN]
        BY DEF FlowInv, FlowShape
      <4>2. CASE Trade
        <5>1. PICK fits \in BOOLEAN : pool' = [nth |-> pool.nth + 1, fits |-> fits]
          <6>1. PICK still \in BOOLEAN : Rotated(pool.fits /\ still)
            BY <4>2 DEF Trade
          <6>2. (pool.fits /\ still) \in BOOLEAN
            OBVIOUS
          <6> QED
            BY <6>1, <6>2 DEF Rotated
        <5>2. pool.nth + 1 \in Nat
          BY <4>1
        <5> QED
          BY <5>1, <5>2
      <4>3. CASE AskPool
        BY <4>1, <4>3 DEF AskPool
      <4>4. CASE pool' = pool
        BY <4>1, <4>4
      <4> QED
        BY <2>2, <4>2, <4>3, <4>4 DEF Author, PassDeadline, RegistryMoves, PoolDeskVars
    <3> QED
      BY <2>1, <3>1, <3>2
  <2>3. ASSUME NEW c \in Command, Land(c) \/ Bounce(c) \/ Vanish(c) \/ Unheard(c)
        PROVE  FlowInv'
    <3>1. PICK h \in Handler : flying[c].by = h
      BY <2>3 DEF Land, Bounce, Vanish, Unheard
    <3>2. pool' \in [nth : Nat, fits : BOOLEAN]
      <4>1. Effect(c) \/ pool' = pool
        BY <2>3 DEF Land, Bounce, Vanish, Unheard
      <4> QED
        BY <4>1, EffectOnPool DEF FlowInv, FlowShape
    <3>3. flow' = flow /\ context' = context /\ Grounded(c)
      BY <2>3 DEF Land, Bounce, Vanish, Unheard
    <3>4. \/ Marked(c, "ok") /\ Passed(h, c)
          \/ Marked(c, "error") /\ Failed(h, c)
          \/ /\ c = "settle" /\ Marked(c, "ok")
             /\ handler' = [handler EXCEPT ![h] = Unused]
      BY <2>3, <3>1 DEF Land, Bounce, Vanish, Unheard
    <3> QED
      BY <3>1, <3>2, <3>3, <3>4, AnsweredStep
  <2>4. CASE \E h \in Handler : Serves(h)
    BY <2>4, BeginKeeps, SubmitKeeps DEF Serves
  <2>5. CASE \E c \in Command : Expire(c)
    BY <2>5, ExpireKeeps
  <2>6. CASE Die
    BY <2>6, DieKeeps
  <2> QED
    BY <2>2, <2>3, <2>4, <2>5, <2>6 DEF PoolDeskNext, Responds
<1> QED
  BY <1>1, <1>2, FlowInvSays, PTL DEF PoolDeskSpec

-----------------------------------------------------------------------------
(***************************************************************************)
(* What a trader is told of an order, for any number of fills, slips and   *)
(* clicks.                                                                 *)
(*                                                                         *)
(* The argument: an order is bound once, so its contract id only grows,    *)
(* and an order that is closed under an id, with no allocation bound,      *)
(* stays so.  A cancellation is recorded as done, and told, only of an     *)
(* order closed under the id it was asked for: the record that two         *)
(* cancellations share is no hearsay.                                      *)
(***************************************************************************)
OrderIds == 0 .. MaxFills + 2
VisitSet == [phase : {"away", "called", "found", "sent", "withdrawing"},
             cid : OrderIds, heard : BOOLEAN]
TicketSet == [step : {"form", "binding", "bound", "funding", "undoing", "over"},
              told : {"nothing", "failed", "open", "cancelled", "stuck"}]

OrderShape ==
  /\ order \in [cid : OrderIds, live : BOOLEAN]
  /\ ticket \in TicketSet
  /\ visit \in [Job -> VisitSet]
  /\ cancels \in [OrderIds -> {"none", "pending", "ok", "error"}]
  /\ stray \subseteq [choice : {"bind", "fund", "cancel"}, cid : OrderIds]
  /\ page \in [shown : OrderIds, told : {"nothing", "cancelled", "failed"}]

\* The intent is bound once.
BoundOnce ==
  /\ ticket.step = "form" => intent = "none"
  /\ intent # "gone" => order.cid = 0 /\ ~order.live
  /\ order.live => order.cid >= 1

\* An order that is closed under this contract id, and holds no funds.
ClosedAt(c) == c >= 1 /\ order.cid = c /\ ~order.live /\ lock # "bound"

Truthful ==
  /\ \A c \in OrderIds : cancels[c] = "ok" => ClosedAt(c)
  /\ visit["undo"].phase # "away" => visit["undo"].cid = 1
  /\ visit["undo"].phase = "withdrawing" => ClosedAt(1)
  /\ ticket.told = "open" => order.cid > 1
  /\ ticket.told = "cancelled" => ClosedAt(1)
  /\ page.told = "cancelled" => \E c \in OrderIds : ClosedAt(c)

OrderDeskInv == OrderShape /\ BoundOnce /\ Truthful

\* What may happen to the contracts.
Forward ==
  /\ order' \in [cid : OrderIds, live : BOOLEAN]
  /\ BoundOnce'
  /\ \A c \in OrderIds : ClosedAt(c) => ClosedAt(c)'
  /\ order.cid > 1 => order'.cid > 1

LEMMA DoneForward ==
  ASSUME OrderDeskInv, NEW choice \in {"bind", "fund", "cancel"}, NEW c \in OrderIds,
         Possible(choice, c), Done(choice),
         ticket'.step = "form" => ticket.step = "form"
  PROVE  /\ Forward
         /\ choice = "cancel" => ClosedAt(c)'
         /\ choice = "fund" => order'.cid > 1
<1>1. /\ MaxFills \in Nat /\ OrderIds \subseteq Nat /\ 1 \in OrderIds /\ 2 \in OrderIds
      /\ 0 \in OrderIds
  BY OrderDeskAssumption DEF OrderIds
<1>2. order \in [cid : OrderIds, live : BOOLEAN] /\ BoundOnce
  BY DEF OrderDeskInv, OrderShape
<1>3. CASE choice = "bind"
  <2>1. intent = "live" /\ intent' = "gone" /\ order' = [cid |-> 1, live |-> TRUE]
    BY <1>3 DEF Possible, Done
  <2>2. order.cid = 0 /\ ticket.step # "form"
    BY <1>2, <2>1 DEF BoundOnce
  <2>3. order' \in [cid : OrderIds, live : BOOLEAN] /\ order'.cid = 1
    BY <1>1, <2>1
  <2> QED
    BY <1>1, <1>3, <2>1, <2>2, <2>3 DEF Forward, BoundOnce, ClosedAt
<1>4. CASE choice = "fund"
  <2>1. order.live /\ order.cid = 1 /\ intent' = intent /\ order' = [order EXCEPT !.cid = @ + 1]
    BY <1>4 DEF Possible, Done
  <2>2. order' \in [cid : OrderIds, live : BOOLEAN] /\ order'.cid = 2
    BY <1>1, <1>2, <2>1
  <2> QED
    BY <1>1, <1>2, <1>4, <2>1, <2>2 DEF Forward, BoundOnce, ClosedAt
<1>5. CASE choice = "cancel"
  <2>1. /\ order.live /\ order.cid = c /\ intent' = intent
        /\ order' = [order EXCEPT !.live = FALSE]
        /\ lock' = IF lock = "bound" THEN "free" ELSE lock
    BY <1>5 DEF Possible, Done
  <2>2. order' \in [cid : OrderIds, live : BOOLEAN] /\ order'.cid = c /\ ~order'.live
    BY <1>1, <1>2, <2>1
  <2> QED
    BY <1>1, <1>2, <1>5, <2>1, <2>2 DEF Forward, BoundOnce, ClosedAt
<1> QED
  BY <1>3, <1>4, <1>5

\* What may happen to what the trader is told.
Tells(opened, undone, cancelled) ==
  /\ visit' \in [Job -> VisitSet] /\ ticket' \in TicketSet
  /\ page' \in [shown : OrderIds, told : {"nothing", "cancelled", "failed"}]
  /\ ticket'.step = "form" => ticket.step = "form"
  /\ visit'["undo"].phase # "away" => visit'["undo"].cid = 1
  /\ visit'["undo"].phase = "withdrawing" => visit["undo"].phase = "withdrawing"
  /\ ticket'.told = "open" => ticket.told = "open" \/ opened
  /\ ticket'.told = "cancelled" => ticket.told = "cancelled" \/ undone
  /\ page'.told = "cancelled" => page.told = "cancelled" \/ cancelled

\* What is said of the calls when one is behind its caller.
LEMMA FollowedTells ==
  ASSUME NEW j \in Job, NEW ok \in BOOLEAN, NEW v \in [Job -> VisitSet],
         v["undo"].phase # "away" => v["undo"].cid = 1,
         visit' = Followed(j, ok, v)
  PROVE  /\ visit' \in [Job -> VisitSet]
         /\ visit'["undo"].phase # "away" => visit'["undo"].cid = 1
         /\ visit'["undo"].phase = "withdrawing" => v["undo"].phase = "withdrawing"
<1> DEFINE undoing == [phase |-> "called", cid |-> 1, heard |-> TRUE]
<1>1. undoing \in VisitSet /\ "undo" \in Job
  BY OrderDeskAssumption DEF VisitSet, OrderIds, Job
<1>2. CASE visit' = v
  BY <1>2
<1>3. CASE visit' = [v EXCEPT !["undo"] = undoing]
  <2>1. visit' \in [Job -> VisitSet] /\ visit'["undo"] = undoing
    BY <1>1, <1>3
  <2> QED
    BY <2>1
<1> QED
  BY <1>2, <1>3 DEF Followed

LEMMA HeardTells ==
  ASSUME OrderDeskInv, NEW j \in Job, NEW ok \in BOOLEAN,
         UNCHANGED <<ticket, page>> \/ Heard(j, ok)
  PROVE  /\ ticket' \in TicketSet
         /\ page' \in [shown : OrderIds, told : {"nothing", "cancelled", "failed"}]
         /\ ticket'.step = "form" => ticket.step = "form"
         /\ ticket'.told = "open" => ticket.told = "open" \/ (j = "fund" /\ ok)
         /\ ticket'.told = "cancelled" => ticket.told = "cancelled" \/ (j = "undo" /\ ok)
         /\ page'.told = "cancelled" => page.told = "cancelled" \/ (j = "click" /\ ok)
<1>0. /\ ticket \in TicketSet
      /\ page \in [shown : OrderIds, told : {"nothing", "cancelled", "failed"}]
  BY DEF OrderDeskInv, OrderShape
<1>1. CASE UNCHANGED <<ticket, page>>
  BY <1>0, <1>1
<1>2. CASE Heard(j, ok) /\ j = "bind"
  <2>1. /\ page' = page
        /\ \/ ticket' = [ticket EXCEPT !.step = "bound"]
           \/ ticket' = [step |-> "over", told |-> "failed"]
    <3>1. CASE ok = TRUE
      BY <1>2, <3>1 DEF Heard
    <3>2. CASE ok = FALSE
      BY <1>2, <3>2 DEF Heard, Ends
    <3> QED
      BY <3>1, <3>2
  <2>2. \/ ticket' = [ticket EXCEPT !.step = "bound"]
        \/ ticket' = [step |-> "over", told |-> "failed"]
    BY <2>1
  <2>3. /\ ticket' \in TicketSet /\ ticket'.step # "form"
        /\ ticket'.told = ticket.told \/ ticket'.told = "failed"
    BY <1>0, <2>2 DEF TicketSet
  <2> QED
    BY <1>0, <2>1, <2>3
<1>3. CASE Heard(j, ok) /\ j = "fund"
  <2>1. /\ page' = page
        /\ \/ ticket' = [ticket EXCEPT !.step = "undoing"]
           \/ ok = TRUE /\ ticket' = [step |-> "over", told |-> "open"]
    <3>1. CASE ok = TRUE
      BY <1>3, <3>1 DEF Heard, Ends
    <3>2. CASE ok = FALSE
      BY <1>3, <3>2 DEF Heard
    <3> QED
      BY <3>1, <3>2
  <2>2. CASE ticket' = [ticket EXCEPT !.step = "undoing"]
    <3>1. ticket' \in TicketSet /\ ticket'.step # "form" /\ ticket'.told = ticket.told
      BY <1>0, <2>2 DEF TicketSet
    <3> QED
      BY <1>0, <2>1, <3>1
  <2>3. CASE ok = TRUE /\ ticket' = [step |-> "over", told |-> "open"]
    <3>1. ticket' \in TicketSet /\ ticket'.step # "form" /\ ticket'.told = "open"
      BY <2>3 DEF TicketSet
    <3> QED
      BY <1>0, <1>3, <2>1, <2>3, <3>1
  <2> QED
    BY <2>1, <2>2, <2>3
<1>4. CASE Heard(j, ok) /\ j = "undo"
  BY <1>0, <1>4 DEF Heard, Ends, TicketSet
<1>5. CASE Heard(j, ok) /\ j = "click"
  BY <1>0, <1>5 DEF Heard, Ends, TicketSet
<1> QED
  BY <1>1, <1>2, <1>3, <1>4, <1>5 DEF Job

LEMMA AnswersTell ==
  ASSUME OrderDeskInv, NEW j \in Job, NEW ok \in BOOLEAN, Answers(j, ok)
  PROVE  Tells(j = "fund" /\ ok, j = "undo" /\ ok, j = "click" /\ ok)
<1>1. /\ visit \in [Job -> VisitSet]
      /\ visit["undo"].phase # "away" => visit["undo"].cid = 1
  BY DEF OrderDeskInv, OrderShape, Truthful
<1>2. Away \in VisitSet /\ Away.phase = "away" /\ "undo" \in Job
  BY OrderDeskAssumption DEF Away, VisitSet, OrderIds, Job
<1>3. PICK idle : idle = [visit EXCEPT ![j] = Away]
  OBVIOUS
<1>4. /\ idle \in [Job -> VisitSet]
      /\ idle["undo"].phase # "away" => idle["undo"] = visit["undo"]
  BY <1>1, <1>2, <1>3
<1>5. visit' = idle \/ visit' = Followed(j, ok, idle)
  BY <1>3 DEF Answers
<1>6. /\ visit' \in [Job -> VisitSet]
      /\ visit'["undo"].phase # "away" => visit'["undo"].cid = 1
      /\ visit'["undo"].phase = "withdrawing" => visit["undo"].phase = "withdrawing"
  <2>1. CASE visit' = idle
    BY <1>1, <1>4, <2>1
  <2>2. CASE visit' = Followed(j, ok, idle)
    BY <1>1, <1>4, <2>2, FollowedTells
  <2> QED
    BY <1>5, <2>1, <2>2
<1>7. UNCHANGED <<ticket, page>> \/ Heard(j, ok)
  BY DEF Answers
<1> QED
  BY <1>6, <1>7, HeardTells DEF Tells

\* Every step moves the contracts forward, and tells nothing new that is not so.
LEMMA TruthStays ==
  ASSUME OrderDeskInv, Forward, NEW opened, NEW undone, NEW cancelled,
         Tells(opened, undone, cancelled),
         cancels' \in [OrderIds -> {"none", "pending", "ok", "error"}],
         stray' \subseteq [choice : {"bind", "fund", "cancel"}, cid : OrderIds],
         \A c \in OrderIds : cancels'[c] = "ok" => cancels[c] = "ok" \/ ClosedAt(c)',
         opened => order'.cid > 1,
         undone => ClosedAt(1)',
         cancelled => \E c \in OrderIds : ClosedAt(c)'
  PROVE  OrderDeskInv'
<1>1. 1 \in OrderIds
  BY OrderDeskAssumption DEF OrderIds
<1>2. OrderShape'
  BY DEF Forward, Tells, OrderShape
<1>3. Truthful'
  <2>1. \A c \in OrderIds : cancels'[c] = "ok" => ClosedAt(c)'
    BY DEF OrderDeskInv, Truthful, Forward
  <2>2. visit'["undo"].phase = "withdrawing" => ClosedAt(1)'
    BY <1>1 DEF OrderDeskInv, Truthful, Forward, Tells
  <2>3. ticket'.told = "open" => order'.cid > 1
    BY DEF OrderDeskInv, Truthful, Forward, Tells
  <2>4. ticket'.told = "cancelled" => ClosedAt(1)'
    BY <1>1 DEF OrderDeskInv, Truthful, Forward, Tells
  <2>5. page'.told = "cancelled" => \E c \in OrderIds : ClosedAt(c)'
    BY DEF OrderDeskInv, Truthful, Forward, Tells
  <2> QED
    BY <2>1, <2>2, <2>3, <2>4, <2>5 DEF Tells, Truthful
<1> QED
  BY <1>2, <1>3 DEF Forward, OrderDeskInv

\* The steps in which the contracts stay as they are.
LEMMA ContractsRest ==
  ASSUME OrderDeskInv, UNCHANGED Contracts, ticket'.step = "form" => ticket.step = "form"
  PROVE  Forward
BY DEF OrderDeskInv, OrderShape, BoundOnce, ClosedAt, Forward, Contracts

LEMMA OrderWebKeeps ==
  ASSUME OrderDeskInv,
         \/ PlaceIntent \/ CloseRequest \/ AuthorFunding \/ ListOrders \/ ClickCancel
         \/ Match \/ TakeBack \/ AcceptInvitation \/ TakesEffectLate
         \/ (\E j \in Job : HangUp(j)) \/ UNCHANGED OrderDeskVars
  PROVE  OrderDeskInv'
<1> USE OrderDeskAssumption
<1>1. /\ MaxFills \in Nat /\ OrderIds \subseteq Nat /\ 0 \in OrderIds /\ 1 \in OrderIds
      /\ OrderShape /\ BoundOnce /\ Truthful /\ "undo" \in Job
  BY DEF OrderIds, OrderDeskInv, Job
<1>2. ASSUME Forward, Tells(FALSE, FALSE, FALSE), UNCHANGED cancels,
             stray' \subseteq [choice : {"bind", "fund", "cancel"}, cid : OrderIds]
      PROVE  OrderDeskInv'
  BY <1>1, <1>2, TruthStays DEF OrderShape
<1>3. ASSUME NEW j \in Job, NEW c \in OrderIds, CallsFor(j, c), j = "undo" => c = 1
      PROVE  /\ visit' \in [Job -> VisitSet]
             /\ visit'["undo"].phase # "away" => visit'["undo"].cid = 1
             /\ visit'["undo"].phase = "withdrawing" => visit["undo"].phase = "withdrawing"
  <2>1. [phase |-> "called", cid |-> c, heard |-> TRUE] \in VisitSet
    BY DEF VisitSet
  <2>2. /\ visit' \in [Job -> VisitSet]
        /\ visit'["undo"] = visit["undo"]
           \/ (visit'["undo"] = [phase |-> "called", cid |-> c, heard |-> TRUE] /\ c = 1)
    BY <1>1, <1>3, <2>1 DEF CallsFor, OrderShape
  <2> QED
    BY <1>1, <2>2 DEF Truthful
<1>4. CASE PlaceIntent
  <2>1. ticket'.step # "form" /\ ticket' \in TicketSet /\ ticket'.told \in {ticket.told, "failed"}
    BY <1>1, <1>4 DEF PlaceIntent, Ends, OrderShape, TicketSet
  <2>2. (CallsFor("bind", 0) \/ UNCHANGED visit) /\ "bind" \in Job
    BY <1>4 DEF PlaceIntent, Job
  <2>3. Tells(FALSE, FALSE, FALSE)
    BY <1>1, <1>3, <1>4, <2>1, <2>2 DEF PlaceIntent, OrderShape, Truthful, Tells
  <2>4. Forward
    BY <1>1, <1>4, <2>1 DEF PlaceIntent, BoundOnce, ClosedAt, OrderShape, Forward
  <2> QED
    BY <1>1, <1>2, <1>4, <2>3, <2>4 DEF PlaceIntent, OrderShape
<1>5. CASE AuthorFunding
  <2>1. ticket'.step # "form" /\ ticket' \in TicketSet /\ ticket'.told = ticket.told
    BY <1>1, <1>5 DEF AuthorFunding, OrderShape, TicketSet
  <2>2. (CallsFor("fund", 1) \/ CallsFor("undo", 1)) /\ "fund" \in Job
    BY <1>5 DEF AuthorFunding, Job
  <2>3. Tells(FALSE, FALSE, FALSE)
    BY <1>1, <1>3, <1>5, <2>1, <2>2 DEF AuthorFunding, OrderShape, Truthful, Tells
  <2>4. Forward
    BY <1>1, <1>5, <2>1 DEF AuthorFunding, BoundOnce, ClosedAt, OrderShape, Forward
  <2> QED
    BY <1>1, <1>2, <1>5, <2>3, <2>4 DEF AuthorFunding, OrderShape
<1>6. CASE CloseRequest \/ Match \/ TakeBack \/ AcceptInvitation \/ UNCHANGED OrderDeskVars
  <2>1. UNCHANGED <<ticket, visit, cancels, stray, page>>
    BY <1>6 DEF CloseRequest, Match, TakeBack, AcceptInvitation, OrderDeskVars
  <2>2. Tells(FALSE, FALSE, FALSE)
    BY <1>1, <2>1 DEF OrderShape, Truthful, Tells
  <2>3. Forward
    <3>1. CASE Match
      <4>1. /\ order.live /\ intent' = intent
            /\ \/ order.cid < MaxFills + 2 /\ order' = [order EXCEPT !.cid = @ + 1]
               \/ order' = [order EXCEPT !.live = FALSE]
        BY <3>1 DEF Match
      <4>2. /\ order' \in [cid : OrderIds, live : BOOLEAN]
            /\ order'.cid \in {order.cid, order.cid + 1}
        <5>1. order \in [cid : OrderIds, live : BOOLEAN]
          BY <1>1 DEF OrderShape
        <5>2. CASE order' = [order EXCEPT !.live = FALSE]
          BY <5>1, <5>2
        <5>3. CASE order.cid < MaxFills + 2 /\ order' = [order EXCEPT !.cid = @ + 1]
          <6>1. order.cid + 1 \in OrderIds
            BY <5>1, <5>3 DEF OrderIds
          <6> QED
            BY <5>1, <5>3, <6>1
        <5> QED
          BY <4>1, <5>2, <5>3
      <4>3. order.cid \in Nat /\ order.cid >= 1 /\ intent = "gone"
        BY <1>1, <4>1 DEF BoundOnce, OrderShape
      <4>4. order'.cid >= 1 /\ (order.cid > 1 => order'.cid > 1)
        BY <4>2, <4>3
      <4>5. \A c \in OrderIds : ~ClosedAt(c)
        BY <4>1 DEF ClosedAt
      <4>6. BoundOnce'
        BY <1>1, <2>1, <4>1, <4>3, <4>4 DEF BoundOnce
      <4> QED
        BY <4>2, <4>4, <4>5, <4>6 DEF Forward
    <3>2. CASE ~Match
      BY <1>1, <1>6, <2>1, <3>2
         DEF CloseRequest, TakeBack, AcceptInvitation, OrderDeskVars,
             BoundOnce, ClosedAt, OrderShape, Forward
    <3> QED
      BY <3>1, <3>2
  <2> QED
    BY <1>1, <1>2, <2>1, <2>2, <2>3 DEF OrderShape
<1>7. CASE ListOrders
  <2>1. /\ UNCHANGED Contracts /\ UNCHANGED <<ticket, visit, cancels, stray>>
        /\ page' = [page EXCEPT !.shown = IF order.live THEN order.cid ELSE 0]
    BY <1>7 DEF ListOrders
  <2>2. /\ page' \in [shown : OrderIds, told : {"nothing", "cancelled", "failed"}]
        /\ page'.told = page.told
    BY <1>1, <2>1 DEF OrderShape
  <2> QED
    BY <1>1, <1>2, <2>1, <2>2, ContractsRest DEF OrderShape, Truthful, Tells
<1>8. CASE ClickCancel
  <2>1. /\ UNCHANGED Contracts /\ UNCHANGED <<ticket, cancels, stray>>
        /\ CallsFor("click", page.shown) /\ page' = [page EXCEPT !.told = "nothing"]
    BY <1>8 DEF ClickCancel
  <2>2. /\ page' \in [shown : OrderIds, told : {"nothing", "cancelled", "failed"}]
        /\ page'.told = "nothing" /\ page.shown \in OrderIds /\ "click" \in Job
    BY <1>1, <2>1 DEF OrderShape, Job
  <2> QED
    BY <1>1, <1>2, <1>3, <2>1, <2>2, ContractsRest DEF OrderShape, Tells
<1>9. CASE TakesEffectLate
  <2>1. PICK m \in stray : /\ stray' = stray \ {m}
                           /\ (Possible(m.choice, m.cid) /\ Done(m.choice)) \/ UNCHANGED Contracts
    BY <1>9 DEF TakesEffectLate
  <2>2. UNCHANGED <<ticket, visit, cancels, page>>
    BY <1>9 DEF TakesEffectLate
  <2>3. m.choice \in {"bind", "fund", "cancel"} /\ m.cid \in OrderIds
    BY <1>1 DEF OrderShape
  <2>4. Forward
    BY <2>1, <2>2, <2>3, DoneForward, ContractsRest
  <2> QED
    BY <1>1, <1>2, <2>1, <2>2, <2>4 DEF OrderShape, Truthful, Tells
<1>10. ASSUME NEW j \in Job, HangUp(j) PROVE OrderDeskInv'
  <2>1. PICK v : v = [visit EXCEPT ![j].heard = FALSE]
    OBVIOUS
  <2>2. v \in [Job -> VisitSet] /\ v["undo"].phase = visit["undo"].phase /\ v["undo"].cid = visit["undo"].cid
    BY <1>1, <2>1 DEF OrderShape, VisitSet
  <2>3. /\ visit' = Followed(j, FALSE, v) /\ Heard(j, FALSE)
        /\ UNCHANGED Contracts /\ UNCHANGED <<cancels, stray>>
    BY <1>10, <2>1 DEF HangUp
  <2>4. /\ visit' \in [Job -> VisitSet]
        /\ visit'["undo"].phase # "away" => visit'["undo"].cid = 1
        /\ visit'["undo"].phase = "withdrawing" => v["undo"].phase = "withdrawing"
    BY <1>1, <2>2, <2>3, FollowedTells DEF Truthful
  <2>5. Tells(FALSE, FALSE, FALSE)
    BY <2>2, <2>3, <2>4, HeardTells DEF Tells
  <2> QED
    BY <1>1, <1>2, <2>3, <2>5, ContractsRest DEF OrderShape, Tells
<1> QED
  BY <1>4, <1>5, <1>6, <1>7, <1>8, <1>9, <1>10

LEMMA OrderJobKeeps ==
  ASSUME OrderDeskInv, NEW j \in Job, NEW c, c = visit[j].cid,
         LookUp(j) \/ SubmitJob(j) \/ Lands(j) \/ Bounces(j) \/ GivesUp(j)
         \/ (j = "undo" /\ WithdrawInvitation)
  PROVE  OrderDeskInv'
<1>1. /\ OrderShape /\ BoundOnce /\ Truthful /\ "undo" \in Job
      /\ c \in OrderIds /\ visit[j].phase \in {"away", "called", "found", "sent", "withdrawing"}
      /\ 1 \in OrderIds /\ Choice(j) \in {"bind", "fund", "cancel"}
  BY OrderDeskAssumption DEF OrderDeskInv, OrderShape, OrderIds, VisitSet, Job, Choice
<1>2. /\ j = "undo" <=> Choice(j) = "cancel" /\ j # "click"
      /\ j = "click" => Choice(j) = "cancel"
      /\ j = "fund" <=> Choice(j) = "fund"
  BY DEF Job, Choice
<1>3. ASSUME NEW phase \in {"found", "sent", "withdrawing"}, phase = "withdrawing" => j = "undo",
             visit[j].phase # "away",
             visit' = [visit EXCEPT ![j].phase = phase], UNCHANGED <<ticket, page>>
      PROVE  /\ visit' \in [Job -> VisitSet]
             /\ visit'["undo"].phase # "away" => visit'["undo"].cid = 1
             /\ visit'["undo"].phase = "withdrawing" =>
                  visit["undo"].phase = "withdrawing" \/ phase = "withdrawing"
  <2>1. PICK v : v = visit[j]
    OBVIOUS
  <2>2. v \in VisitSet /\ visit' = [visit EXCEPT ![j] = [v EXCEPT !.phase = phase]]
    BY <1>1, <1>3, <2>1 DEF OrderShape
  <2>3. [v EXCEPT !.phase = phase] \in VisitSet
    BY <2>2 DEF VisitSet
  <2>4. /\ visit' \in [Job -> VisitSet]
        /\ visit'[j] = [v EXCEPT !.phase = phase]
        /\ \A i \in Job : i # j => visit'[i] = visit[i]
    BY <1>1, <2>2, <2>3 DEF OrderShape
  <2>5. visit'[j].phase = phase /\ visit'[j].cid = v.cid
    BY <2>2, <2>4 DEF VisitSet
  <2> QED
    BY <1>1, <1>3, <2>1, <2>4, <2>5 DEF Truthful
<1>4. ASSUME NEW status \in {"pending", "error", "ok"}, Row(j, status),
             status = "ok" => ClosedAt(c)' \/ Choice(j) # "cancel"
      PROVE  /\ cancels' \in [OrderIds -> {"none", "pending", "ok", "error"}]
             /\ \A d \in OrderIds : cancels'[d] = "ok" => cancels[d] = "ok" \/ ClosedAt(d)'
  <2>1. CASE Choice(j) # "cancel"
    BY <1>1, <1>4, <2>1 DEF Row, OrderShape
  <2>2. CASE Choice(j) = "cancel"
    <3>1. cancels' = [cancels EXCEPT ![c] = status]
      BY <1>4, <2>2 DEF Row
    <3>2. /\ cancels' \in [OrderIds -> {"none", "pending", "ok", "error"}]
          /\ cancels'[c] = status
          /\ \A d \in OrderIds : d # c => cancels'[d] = cancels[d]
      BY <1>1, <3>1 DEF OrderShape
    <3> QED
      BY <1>4, <2>2, <3>2
  <2> QED
    BY <2>1, <2>2
<1>5. ASSUME NEW ok \in BOOLEAN, Answers(j, ok), Forward, UNCHANGED stray \/ GivesUp(j),
             cancels' \in [OrderIds -> {"none", "pending", "ok", "error"}],
             \A d \in OrderIds : cancels'[d] = "ok" => cancels[d] = "ok" \/ ClosedAt(d)',
             ok => /\ j = "fund" => order'.cid > 1
                   /\ j = "undo" => ClosedAt(1)'
                   /\ j = "click" => ClosedAt(c)'
      PROVE  OrderDeskInv'
  <2>2. j = "click" /\ ok => \E d \in OrderIds : ClosedAt(d)'
    BY <1>1, <1>5
  <2>3. stray' \subseteq [choice : {"bind", "fund", "cancel"}, cid : OrderIds]
    <3>1. [choice |-> Choice(j), cid |-> c] \in [choice : {"bind", "fund", "cancel"}, cid : OrderIds]
      BY <1>1
    <3>2. \/ stray' = stray
          \/ stray' = stray \cup {[choice |-> Choice(j), cid |-> c]}
      BY <1>5 DEF GivesUp
    <3>3. stray \subseteq [choice : {"bind", "fund", "cancel"}, cid : OrderIds]
      BY <1>1 DEF OrderShape
    <3> QED
      BY <3>1, <3>2, <3>3
  <2>4. Tells(j = "fund" /\ ok, j = "undo" /\ ok, j = "click" /\ ok)
    BY <1>5, AnswersTell
  <2> QED
    BY <1>5, <2>2, <2>3, <2>4, TruthStays
<1>6. ASSUME NEW phase \in {"found", "sent", "withdrawing"}, visit[j].phase # "away",
             phase = "withdrawing" => j = "undo" /\ ClosedAt(1)',
             visit' = [visit EXCEPT ![j].phase = phase], UNCHANGED <<ticket, page, stray>>,
             Forward,
             cancels' \in [OrderIds -> {"none", "pending", "ok", "error"}],
             \A d \in OrderIds : cancels'[d] = "ok" => cancels[d] = "ok" \/ ClosedAt(d)'
      PROVE  OrderDeskInv'
  <2>1. /\ visit' \in [Job -> VisitSet]
        /\ visit'["undo"].phase # "away" => visit'["undo"].cid = 1
        /\ visit'["undo"].phase = "withdrawing" =>
             visit["undo"].phase = "withdrawing" \/ phase = "withdrawing"
    BY <1>3, <1>6
  <2>2. OrderShape'
    BY <1>1, <1>6, <2>1 DEF OrderShape, Forward
  <2>3. visit'["undo"].phase = "withdrawing" => ClosedAt(1)'
    BY <1>1, <1>6, <2>1 DEF Truthful, Forward
  <2>4. \A d \in OrderIds : cancels'[d] = "ok" => ClosedAt(d)'
    BY <1>1, <1>6 DEF Truthful, Forward
  <2>5. /\ ticket'.told = "open" => order'.cid > 1
        /\ ticket'.told = "cancelled" => ClosedAt(1)'
        /\ page'.told = "cancelled" => \E d \in OrderIds : ClosedAt(d)'
    BY <1>1, <1>6 DEF Truthful, Forward
  <2>6. Truthful'
    BY <2>1, <2>3, <2>4, <2>5 DEF Truthful
  <2> QED
    BY <1>6, <2>2, <2>6 DEF OrderDeskInv, Forward
<1>7. /\ cancels \in [OrderIds -> {"none", "pending", "ok", "error"}]
      /\ UNCHANGED cancels => \A d \in OrderIds : cancels'[d] = "ok" => cancels[d] = "ok"
  BY <1>1 DEF OrderShape
<1>8. ASSUME UNCHANGED Contracts, UNCHANGED ticket \/ \E ok \in BOOLEAN : Answers(j, ok)
      PROVE  Forward
  <2>1. ticket'.step = "form" => ticket.step = "form"
    BY <1>8, AnswersTell DEF Tells
  <2> QED
    BY <1>8, <2>1, ContractsRest
<1>9. CASE LookUp(j)
  <2>1. UNCHANGED Contracts /\ UNCHANGED <<cancels, stray>> /\ visit[j].phase = "called"
    BY <1>9 DEF LookUp
  <2>2. CASE Missing(j)
    BY <1>5, <1>7, <1>8, <2>1, <2>2 DEF Missing
  <2>3. CASE visit' = [visit EXCEPT ![j].phase = "found"] /\ UNCHANGED <<ticket, page>>
    BY <1>6, <1>7, <1>8, <2>1, <2>3
  <2> QED
    BY <1>9, <2>2, <2>3 DEF LookUp
<1>10. ASSUME Through(j), Forward, UNCHANGED stray, visit[j].phase # "away",
              cancels' \in [OrderIds -> {"none", "pending", "ok", "error"}],
              \A d \in OrderIds : cancels'[d] = "ok" => cancels[d] = "ok" \/ ClosedAt(d)',
              /\ j = "fund" => order'.cid > 1
              /\ j = "undo" => ClosedAt(1)'
              /\ j = "click" => ClosedAt(c)'
       PROVE  OrderDeskInv'
  <2>1. CASE j = "undo"
    BY <1>6, <1>10, <2>1 DEF Through
  <2>2. CASE j # "undo"
    BY <1>5, <1>10, <2>2 DEF Through
  <2> QED
    BY <2>1, <2>2
<1>11. CASE SubmitJob(j)
  <2>1. UNCHANGED Contracts /\ UNCHANGED stray /\ visit[j].phase = "found"
    BY <1>11 DEF SubmitJob
  <2>2. CASE Answers(j, FALSE) /\ UNCHANGED cancels
    BY <1>5, <1>7, <1>8, <2>1, <2>2
  <2>3. CASE Choice(j) = "cancel" /\ cancels[c] = "ok" /\ Through(j) /\ UNCHANGED cancels
    <3>1. Forward
      BY <1>8, <2>1, <2>3 DEF Through
    <3>2. ClosedAt(c)' /\ (j = "undo" => c = 1)
      <4>1. ClosedAt(c)
        BY <1>1, <2>3 DEF Truthful
      <4>2. ClosedAt(c)'
        BY <1>1, <3>1, <4>1 DEF Forward
      <4> QED
        BY <1>1, <2>1, <4>2 DEF Truthful
    <3> QED
      BY <1>2, <1>7, <1>10, <2>1, <2>3, <3>1, <3>2
  <2>4. CASE Row(j, "pending") /\ visit' = [visit EXCEPT ![j].phase = "sent"] /\ UNCHANGED <<ticket, page>>
    BY <1>4, <1>6, <1>8, <2>1, <2>4
  <2> QED
    BY <1>11, <2>2, <2>3, <2>4 DEF SubmitJob
<1>12. CASE Lands(j)
  <2>1. /\ Possible(Choice(j), c) /\ Done(Choice(j)) /\ Row(j, "ok") /\ Through(j)
        /\ UNCHANGED stray /\ visit[j].phase = "sent"
    BY <1>12 DEF Lands, Sent, Doable
  <2>2. PICK choice : choice = Choice(j)
    OBVIOUS
  <2>3. ticket'.step = "form" => ticket.step = "form"
    BY <2>1, AnswersTell DEF Through, Tells
  <2>4. /\ Forward
        /\ choice = "cancel" => ClosedAt(c)'
        /\ choice = "fund" => order'.cid > 1
    BY <1>1, <2>1, <2>2, <2>3, DoneForward
  <2>5. j = "undo" => c = 1
    BY <1>1, <2>1, <2>2 DEF Truthful
  <2>6. /\ cancels' \in [OrderIds -> {"none", "pending", "ok", "error"}]
        /\ \A d \in OrderIds : cancels'[d] = "ok" => cancels[d] = "ok" \/ ClosedAt(d)'
    BY <1>4, <2>1, <2>2, <2>4
  <2> QED
    BY <1>2, <1>10, <2>1, <2>2, <2>4, <2>5, <2>6
<1>13. CASE Bounces(j) \/ GivesUp(j)
  <2>1. /\ Row(j, "error") /\ Answers(j, FALSE) /\ UNCHANGED Contracts
        /\ UNCHANGED stray \/ GivesUp(j)
    BY <1>13 DEF Bounces, GivesUp
  <2> QED
    BY <1>4, <1>5, <1>8, <2>1
<1>14. CASE j = "undo" /\ WithdrawInvitation
  <2>1. /\ visit["undo"].phase = "withdrawing" /\ Answers("undo", TRUE)
        /\ UNCHANGED <<intent, order, lock, cancels, stray>>
    BY <1>14 DEF WithdrawInvitation
  <2>2. ticket'.step = "form" => ticket.step = "form"
    BY <1>14, <2>1, AnswersTell DEF Tells
  <2>3. Forward
    BY <1>1, <2>1, <2>2 DEF OrderShape, BoundOnce, ClosedAt, Forward
  <2>4. ClosedAt(1)'
    BY <1>1, <2>1, <2>3 DEF Truthful, Forward
  <2> QED
    BY <1>5, <1>7, <1>14, <2>1, <2>3, <2>4
<1> QED
  BY <1>9, <1>11, <1>12, <1>13, <1>14

\* What the trader is told of its order is so and stays so (order/index.ts,
\* placeOrder and cancelOrder of ledger.ts), whatever is still under way or was
\* given up on.
THEOREM TellsTheTruth == OrderDeskSpec => []ToldTrue
<1>1. OrderDeskInit => OrderDeskInv
  <2> SUFFICES ASSUME OrderDeskInit PROVE OrderDeskInv
    OBVIOUS
  <2>1. 0 \in OrderIds /\ "undo" \in Job
    BY OrderDeskAssumption DEF OrderIds, Job
  <2>2. Away \in VisitSet /\ Away.phase = "away"
    BY <2>1 DEF Away, VisitSet
  <2>3. OrderShape
    BY <2>1, <2>2 DEF OrderDeskInit, OrderShape, TicketSet, OrderIds
  <2>4. BoundOnce
    BY DEF OrderDeskInit, BoundOnce
  <2>5. Truthful
    BY <2>1, <2>2 DEF OrderDeskInit, Truthful, OrderIds
  <2> QED
    BY <2>3, <2>4, <2>5 DEF OrderDeskInv
<1>2. OrderDeskInv /\ [OrderDeskNext]_OrderDeskVars => OrderDeskInv'
  <2>1. "undo" \in Job
    BY DEF Job
  <2> QED
    BY <2>1, OrderWebKeeps, OrderJobKeeps DEF OrderDeskNext, Progresses
<1>3. OrderDeskInv => ToldTrue
  <2> SUFFICES ASSUME OrderDeskInv PROVE ToldTrue
    OBVIOUS
  <2> QED
    BY DEF OrderDeskInv, Truthful, ClosedAt, ToldTrue
<1> QED
  BY <1>1, <1>2, <1>3, PTL DEF OrderDeskSpec
=============================================================================
