---------------------------- MODULE Submissions ----------------------------
(***************************************************************************)
(* IdempotentLedger of the operator backend (indexer/idempotency.ts), the  *)
(* contention retry that every service wraps round it                      *)
(* (ledger/submit-with-retry.ts) and the JSON API driver below it          *)
(* (ledger/json-api.ts), for ONE command id: every statement on            *)
(* command_submissions is keyed by the command id, so rows of different    *)
(* ids never meet.                                                         *)
(*                                                                         *)
(* A caller is one HTTP handler.  It runs to its next await without being  *)
(* interrupted, so the SELECT and the INSERT of once() are one step; the   *)
(* participant, the network and the other handlers move in between.        *)
(***************************************************************************)
EXTENDS Naturals, FiniteSets

CONSTANTS
  Caller,       \* handlers that use the command id
  Argument,     \* what they ask for: the argsHash of once()
  MaxTries,     \* attempts of retryOnContention (5 in the code)
  MaxGaps,      \* bound: outcomes that go unrecorded
  MaxLate,      \* bound: answers that outlive PENDING_STALE_MS
  MaxCalls      \* bound: calls made by all the callers together

ASSUME SubmissionsAssumption ==
  /\ MaxTries \in Nat \ {0} /\ MaxGaps \in Nat /\ MaxLate \in Nat /\ MaxCalls \in Nat
  /\ IsFiniteSet(Caller)
  /\ "none" \notin Argument /\ "none" \notin Caller

\* What the command does on the ledger: create a contract (no template of the
\* venue declares a key); exercise a choice that consumes its contract; or
\* exercise a choice of a rules contract that stays, and leaves a request behind.
Kinds == {"create", "consume", "request"}

VARIABLES
  kind,      \* what this command does, fixed for the behaviour
  row,       \* the row of command_submissions
  call,      \* each handler
  effects,   \* transactions of this command the ledger has accepted
  live,      \* is the contract a consuming choice acts on still active?
  adrift,    \* submissions the participant still holds after their caller left
  gaps,      \* outcomes nobody recorded: lost answers, crashes, expired rows
  overtaken, \* answers for which the row was released before they came
  calls,     \* calls made so far
  answered   \* pairs <<what a caller asked, whose answer it was given>>

SubmissionsVars ==
  <<kind, row, call, effects, live, adrift, gaps, overtaken, calls, answered>>

NoRow == [status |-> "none", args |-> "none", answer |-> "none",
          owner |-> "none", stale |-> FALSE]
Idle  == [phase |-> "idle", args |-> "none", tries |-> 0, reply |-> "none"]

Rows == [status : {"none", "pending", "ok", "error"},
         args : Argument \cup {"none"}, answer : Argument \cup {"none"},
         owner : Caller \cup {"none"}, stale : BOOLEAN]
Calls == {Idle} \cup
  [phase : {"sent", "back", "waiting"}, args : Argument, tries : Nat,
   reply : {"none", "ok", "contention", "failed"}]

SubmissionsInit ==
  /\ kind \in Kinds
  /\ row = NoRow
  /\ call = [p \in Caller |-> Idle]
  /\ effects = 0 /\ live = TRUE /\ adrift = 0 /\ gaps = 0
  /\ overtaken = 0 /\ calls = 0
  /\ answered = {}

-----------------------------------------------------------------------------
(* The checks at the head of once(). *)

\* An errored exercise may be retried with other arguments; anything else may not.
RetryableError == row.status = "error" /\ kind # "create"

\* Only what is in flight is compared.
BuggyConflicts(a) == row.status = "pending" /\ row.args # a

Conflicts(a) == row.status # "none" /\ ~RetryableError /\ row.args # a
Cached(a)    == ~Conflicts(a) /\ row.status = "ok"
\* The age of the pending row is compared the wrong way round.
BuggyInFlight(a) == ~Conflicts(a) /\ row.status = "pending" /\ row.stale

InFlight(a)  == ~Conflicts(a) /\ row.status = "pending" /\ ~row.stale
Claimable(a) == ~Conflicts(a) /\ ~Cached(a) /\ ~InFlight(a)

\* The upsert: whatever the row said is overwritten.
Claimed(p, a) == [status |-> "pending", args |-> a, answer |-> "none",
                  owner |-> p, stale |-> FALSE]

\* The two UPDATEs are keyed by the command id alone: whoever comes back writes
\* its outcome over the row as it is now, and a row that is gone stays gone.
Recorded(status, a) ==
  IF row.status = "none" THEN row
  ELSE [status |-> status, args |-> row.args, answer |-> a,
        owner |-> row.owner, stale |-> FALSE]

CountTry(n) == n + 1

\* One pass through once() by p, up to its first await.
Enter(p, a, n) ==
  \/ /\ Conflicts(a) \/ InFlight(a)
     /\ call' = [call EXCEPT ![p] = Idle]
     /\ UNCHANGED <<row, answered>>
  \/ /\ Cached(a)
     /\ call' = [call EXCEPT ![p] = Idle]
     /\ answered' = answered \cup {<<a, row.answer>>}
     /\ UNCHANGED row
  \/ /\ Claimable(a)
     /\ row' = Claimed(p, a)
     /\ call' = [call EXCEPT ![p] =
          [phase |-> "sent", args |-> a, tries |-> CountTry(n), reply |-> "none"]]
     /\ UNCHANGED answered

\* A request reaches a handler.
Call(p, a) ==
  /\ call[p].phase = "idle"
  /\ calls < MaxCalls
  /\ calls' = calls + 1
  /\ Enter(p, a, 0)
  /\ UNCHANGED <<kind, effects, live, adrift, gaps, overtaken>>

\* The back-off of retryOnContention ends and the service submits again.
Retry(p) ==
  /\ call[p].phase = "waiting"
  /\ Enter(p, call[p].args, call[p].tries)
  /\ UNCHANGED <<kind, effects, live, adrift, gaps, calls, overtaken>>

-----------------------------------------------------------------------------
(* The participant. *)

Replied(p, r) == [call EXCEPT ![p] =
  [phase |-> "back", args |-> call[p].args, tries |-> call[p].tries, reply |-> r]]

\* The command commits.  A consuming choice commits once; the others always may.
Takes ==
  /\ kind = "consume" => live
  /\ live' = (live /\ kind # "consume")
  /\ effects' = effects + 1

Commit(p) ==
  /\ call[p].phase = "sent"
  /\ Takes
  /\ call' = Replied(p, "ok")
  /\ UNCHANGED <<kind, row, adrift, gaps, calls, answered, overtaken>>

\* It is refused: for contention, which is retried, or for any other reason.
Refuse(p) ==
  /\ call[p].phase = "sent"
  /\ \E r \in {"contention", "failed"} : call' = Replied(p, r)
  /\ UNCHANGED <<kind, row, effects, live, adrift, gaps, calls, answered, overtaken>>

\* The connection breaks while the participant still holds the command, or
\* after it committed (a failed look-up of the transaction's result counts).
LoseAnswer(p) ==
  /\ gaps < MaxGaps
  /\ \/ call[p].phase = "sent" /\ adrift' = adrift + 1
     \/ call[p].phase = "back" /\ call[p].reply = "ok" /\ UNCHANGED adrift
  /\ gaps' = gaps + 1
  /\ call' = Replied(p, "failed")
  /\ UNCHANGED <<kind, row, effects, live, calls, answered, overtaken>>

\* The participant gets to a command nobody waits for any more.
Drift ==
  /\ adrift > 0
  /\ adrift' = adrift - 1
  /\ Takes \/ UNCHANGED <<effects, live>>
  /\ UNCHANGED <<kind, row, call, gaps, calls, answered, overtaken>>

\* Somebody else consumes the contract the choice acts on.
Rival ==
  /\ kind = "consume" /\ live
  /\ live' = FALSE
  /\ UNCHANGED <<kind, row, call, effects, adrift, gaps, calls, answered, overtaken>>

-----------------------------------------------------------------------------
(* Back in the handler. *)

Answer(p) ==
  /\ call[p].phase = "back"
  /\ \/ /\ call[p].reply = "ok"
        /\ row' = Recorded("ok", call[p].args)
        /\ answered' = answered \cup {<<call[p].args, call[p].args>>}
        /\ call' = [call EXCEPT ![p] = Idle]
     \/ /\ call[p].reply # "ok"
        /\ row' = Recorded("error", "none")
        /\ UNCHANGED answered
        /\ IF call[p].reply = "contention" /\ call[p].tries < MaxTries
           THEN call' = [call EXCEPT ![p] =
             [phase |-> "waiting", args |-> call[p].args,
              tries |-> call[p].tries, reply |-> "none"]]
           ELSE call' = [call EXCEPT ![p] = Idle]
  /\ UNCHANGED <<kind, effects, live, adrift, gaps, calls, overtaken>>

Busy(p) == call[p].phase \in {"sent", "back"}

\* PENDING_STALE_MS pass.  That is 60 s, and nothing in submitAndWait ends a
\* submission by then: the handler that claimed the row may be waiting still.
GoStale ==
  /\ row.status = "pending" /\ ~row.stale
  /\ row' = [row EXCEPT !.stale = TRUE]
  /\ \/ /\ \E p \in Caller : p = row.owner /\ Busy(p)
        /\ overtaken < MaxLate /\ overtaken' = overtaken + 1
     \/ /\ \A p \in Caller : p = row.owner => ~Busy(p)
        /\ UNCHANGED overtaken
  /\ UNCHANGED <<kind, call, effects, live, adrift, gaps, calls, answered>>

\* The process dies: rows survive (SQLite), handlers do not.  What was sent may
\* or may not have reached the participant.
Crash ==
  /\ \E p \in Caller : Busy(p)
  /\ gaps < MaxGaps
  /\ gaps' = gaps + 1
  /\ adrift' \in adrift .. adrift + Cardinality({p \in Caller : call[p].phase = "sent"})
  /\ call' = [p \in Caller |-> Idle]
  /\ UNCHANGED <<kind, row, effects, live, calls, answered, overtaken>>

\* sweep(): a row older than TTL_MS is deleted.  TTL_MS is a day, so nobody is
\* working on the command.
Sweep ==
  /\ row.status # "none"
  /\ row.status = "pending" => row.stale
  /\ \A p \in Caller : call[p].phase = "idle"
  /\ gaps < MaxGaps
  /\ gaps' = gaps + 1
  /\ row' = NoRow
  /\ UNCHANGED <<kind, call, effects, live, adrift, calls, answered, overtaken>>

CallerStep(p) ==
  \/ \E a \in Argument : Call(p, a)
  \/ Retry(p) \/ Commit(p) \/ Refuse(p) \/ LoseAnswer(p) \/ Answer(p)

SubmissionsNext ==
  \/ \E p \in Caller : CallerStep(p)
  \/ Drift \/ Rival \/ GoStale \/ Crash \/ Sweep

SubmissionsSpec == SubmissionsInit /\ [][SubmissionsNext]_SubmissionsVars

-----------------------------------------------------------------------------
SubmissionsTypes ==
  /\ kind \in Kinds /\ row \in Rows /\ call \in [Caller -> Calls]
  /\ effects \in Nat /\ live \in BOOLEAN /\ adrift \in Nat
  /\ gaps \in Nat /\ overtaken \in Nat /\ calls \in Nat
  /\ answered \in SUBSET (Argument \X (Argument \cup {"none"}))

\* "A deterministic commandId must map to exactly one request": a caller is only
\* ever given the outcome of a submission of its own arguments, whatever was
\* cached, retried or lost before.  A create keeps to that always; an exercise,
\* whose errored row takes other arguments, until an answer comes so late that
\* its row has been released.
OwnAnswer ==
  (kind = "create" \/ overtaken = 0) => \A pair \in answered : pair[1] = pair[2]

\* "Reject rather than serving a stale cached result": the same of every command.
NeverAnothers == \A pair \in answered : pair[1] = pair[2]

\* "Run exec at most once per commandId": the ledger takes the command a second
\* time only where an earlier outcome went unrecorded (a lost answer, a crash, an
\* expired row) or came after its row had been released, once for each, whether
\* or not the ledger itself would refuse a repetition.
RepeatsExplained == effects + adrift <= 1 + gaps + overtaken
=============================================================================
