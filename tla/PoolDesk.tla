------------------------------ MODULE PoolDesk ------------------------------
(***************************************************************************)
(* One swap, deposit or redemption of a trader, from the browser to the    *)
(* ledger: executeSwap, addLiquidity and removeLiquidity of the web        *)
(* client, the request and settle routes of the HTTP layer, and            *)
(* PoolService, whose settlement is a chain of commands: previews, the     *)
(* venue's own allocations, the settlement itself.                         *)
(*                                                                         *)
(* Every command of the chain goes through IdempotentLedger under an id    *)
(* made of the flow's key, which is the same each time the flow is         *)
(* settled, with arguments read from the pool, which are not.  What the    *)
(* settlement does to the pool is module Pool; here it takes effect or is  *)
(* refused.                                                                *)
(***************************************************************************)
EXTENDS Integers, Sequences

CONSTANTS
  Handler,     \* calls of the settle route that can be open at once
  MaxStates,   \* bound: states of the pool
  MaxMishaps   \* bound: lost answers, passing refusals, crashes, new contexts, reads apart

ASSUME PoolDeskAssumption ==
  /\ MaxStates \in Nat \ {0} /\ MaxMishaps \in Nat
  /\ "nobody" \notin Handler

Flow == {"swap", "add", "remove"}

\* The commands of a settlement.  Those of one stage are submitted together
\* (Promise.all); a stage starts when the one before it is complete.
Own == {"base", "quote", "mint", "burn"}
Command == {"plan", "preview", "settle"} \cup Own
Chain(f) ==
  CASE f = "swap" -> <<{"preview"}, {"settle"}>>
    [] f = "add"  -> <<{"plan"}, {"base", "quote", "mint"}, {"preview"}, {"settle"}>>
    [] f = "remove" -> <<{"plan"}, {"burn"}, {"preview"}, {"settle"}>>

VARIABLES
  flow,     \* what the trader does, fixed for the behaviour
  pool,     \* which PoolState is active, and whether the flow's terms still fit it
  stage,    \* the flow: "none", "asked", "authored" or "settled"
  bound,    \* the PoolState the request was made for
  late,     \* has settleAt passed?
  context,  \* what the registries' answers say now, by number
  memo,     \* the rows of the flow's command ids: status and arguments
  flying,   \* the submissions the participant has: who waits, with what
  handler,  \* the calls of the settle route
  told,     \* has a caller been given the result?
  mishaps

PoolDeskVars ==
  <<flow, pool, stage, bound, late, context, memo, flying, handler, told, mishaps>>

Blank  == [status |-> "none", at |-> 0, context |-> 0]
Ground == [by |-> "nobody", at |-> 0]
Unused == [at |-> 0, next |-> 0, due |-> {}, failed |-> FALSE]

PoolDeskInit ==
  /\ flow \in Flow
  /\ pool = [nth |-> 1, fits |-> TRUE]
  /\ stage = "none" /\ bound = 0 /\ late = FALSE /\ context = 0
  /\ memo = [c \in Command |-> Blank]
  /\ flying = [c \in Command |-> Ground]
  /\ handler = [h \in Handler |-> Unused]
  /\ told = FALSE /\ mishaps = 0

-----------------------------------------------------------------------------
(* The pool, the browser and the wallet *)

\* Another command replaces the PoolState.  A pause and a resume leave the
\* flow's terms as they were; a trade does not.
Rotated(fits) ==
  /\ pool.nth < MaxStates
  /\ pool' = [nth |-> pool.nth + 1, fits |-> fits]

Trade ==
  /\ \E still \in BOOLEAN : Rotated(pool.fits /\ still)
  /\ UNCHANGED <<flow, context, stage, bound, late, memo, flying, handler, told, mishaps>>

\* The id of a swap's request is made of what is asked and of the PoolState,
\* its arguments hold the time too: asked again, the id is refused while the
\* pool has not moved.  The ids of the others hold the time as well.
AskPool ==
  /\ stage = "none"
  /\ flow = "swap" => bound # pool.nth
  /\ stage' = "asked" /\ bound' = pool.nth
  /\ pool' = [pool EXCEPT !.fits = TRUE]
  /\ UNCHANGED <<flow, context, late, memo, flying, handler, told, mishaps>>

\* The wallet authors every allocation of the request, or its user declines.
Author ==
  /\ stage = "asked"
  /\ stage' \in {"authored", "none"}
  /\ UNCHANGED <<flow, context, pool, bound, late, memo, flying, handler, told, mishaps>>

PassDeadline ==
  /\ stage = "authored" /\ ~late /\ late' = TRUE
  /\ UNCHANGED <<flow, context, pool, stage, bound, memo, flying, handler, told, mishaps>>

\* A registry answers with another factory or context than before.
RegistryMoves ==
  /\ mishaps < MaxMishaps /\ mishaps' = mishaps + 1
  /\ context' = context + 1
  /\ UNCHANGED <<flow, pool, stage, bound, late, memo, flying, handler, told>>

-----------------------------------------------------------------------------
(* A call of the settle route *)

Free(h) == handler[h] = Unused

\* The pool is read by one query for its states and one for its slices.  The
\* commands of a deposit carry the PoolState alone; those of a redemption carry
\* slices too, and Apart says that the pool changed between the two queries.  A
\* swap is refused on the spot unless it is the PoolState it was quoted for.
Apart == 0
Begin(h) ==
  /\ Free(h) /\ ~told
  /\ stage \in {"authored", "settled"}
  /\ flow = "swap" => bound = pool.nth
  /\ \E at \in {pool.nth, Apart} :
       /\ IF at # Apart THEN UNCHANGED mishaps
          ELSE /\ flow = "remove" /\ pool.nth > 1
               /\ mishaps < MaxMishaps /\ mishaps' = mishaps + 1
       /\ handler' = [handler EXCEPT ![h] =
            [at |-> at, next |-> 2, due |-> Chain(flow)[1], failed |-> FALSE]]
  /\ UNCHANGED <<flow, context, pool, stage, bound, late, memo, flying, told>>

\* A command is behind its handler: the next stage follows the last of its
\* stage, unless one of them failed and the caller has had its error.
Without(h, c) ==
  LET x == handler[h]
      rest == x.due \ {c}
  IN IF rest # {} THEN [x EXCEPT !.due = rest]
     ELSE IF x.failed \/ x.next > Len(Chain(flow)) THEN Unused
     ELSE [x EXCEPT !.due = Chain(flow)[x.next], !.next = x.next + 1]

Passed(h, c) ==
  /\ handler' = [handler EXCEPT ![h] = Without(h, c)]
  /\ told' = (told \/ (c = "settle" /\ ~handler[h].failed))

\* The first failure answers the caller; what else was started is not stopped.
Failed(h, c) ==
  LET rest == handler[h].due \ {c}
  IN handler' = [handler EXCEPT ![h] =
       IF rest = {} THEN Unused ELSE [@ EXCEPT !.due = rest, !.failed = TRUE]]

\* The venue's own allocations and the settlement carry what the registries
\* answer when the command is made.
With(c) == IF c \in Own \cup {"settle"} THEN context ELSE 0
Differs(c, at) == memo[c].at # at \/ memo[c].context # With(c)

\* An answered row serves whatever is asked now.
BuggyReplayed(c, at) == memo[c].status = "pending" /\ Differs(c, at)

\* An errored row binds the retry to its arguments, whatever the command.
BuggyErrorsReplayed(c, at) == memo[c].status # "none" /\ Differs(c, at)

\* The checks of once(), as in module Submissions.  What once() grants to an
\* exercise is not granted to the allocations, which exercise an interface.
Replayed(c, at) ==
  /\ memo[c].status # "none" /\ Differs(c, at)
  /\ memo[c].status = "error" => c \in Own
Answered(c, at) == ~Replayed(c, at) /\ memo[c].status = "ok"
Taken(c, at)    == ~Replayed(c, at) /\ memo[c].status = "pending"

Submit(h, c) ==
  /\ c \in handler[h].due /\ flying[c].by # h
  /\ LET at == handler[h].at
     IN \/ /\ Replayed(c, at) \/ Taken(c, at)
           /\ Failed(h, c)
           /\ UNCHANGED <<memo, flying, told>>
        \/ /\ Answered(c, at)
           /\ Passed(h, c)
           /\ UNCHANGED <<memo, flying>>
        \/ /\ ~Replayed(c, at) /\ ~Answered(c, at) /\ ~Taken(c, at)
           /\ memo' = [memo EXCEPT ![c] = [status |-> "pending", at |-> at, context |-> With(c)]]
           /\ flying' = [flying EXCEPT ![c] = [by |-> h, at |-> at]]
           /\ UNCHANGED <<handler, told>>
  /\ UNCHANGED <<flow, context, pool, stage, bound, late, mishaps>>

-----------------------------------------------------------------------------
(* The participant *)

\* What a command needs.  The venue's own allocations need nothing; the rest
\* prepares the settlement afresh.
Holds(c) ==
  c \notin Own =>
    /\ stage = "authored" /\ pool.fits /\ flying[c].at = pool.nth
    /\ flow # "swap" => ~late

\* Settling replaces the PoolState and archives the request; the previews and
\* the allocations leave the pool alone.
Effect(c) ==
  IF c = "settle"
  THEN stage' = "settled" /\ pool' = [nth |-> pool.nth + 1, fits |-> FALSE]
  ELSE UNCHANGED <<stage, pool>>

Marked(c, status) ==
  memo' = [memo EXCEPT ![c] = [status |-> status, at |-> memo[c].at, context |-> memo[c].context]]

Grounded(c) == flying' = [flying EXCEPT ![c] = Ground]

\* It takes effect and its handler hears of it.
Land(c) ==
  /\ flying[c].by \in Handler /\ Holds(c)
  /\ Effect(c) /\ Marked(c, "ok") /\ Grounded(c)
  /\ Passed(flying[c].by, c)
  /\ UNCHANGED <<flow, context, bound, late, mishaps>>

\* It is refused.
Bounce(c) ==
  /\ flying[c].by \in Handler
  /\ \/ ~Holds(c) /\ UNCHANGED mishaps
     \/ mishaps < MaxMishaps /\ mishaps' = mishaps + 1
  /\ Marked(c, "error") /\ Grounded(c)
  /\ Failed(flying[c].by, c)
  /\ UNCHANGED <<flow, context, pool, stage, bound, late, told>>

\* It takes effect, but the answer is lost.
Vanish(c) ==
  /\ flying[c].by \in Handler /\ Holds(c)
  /\ mishaps < MaxMishaps /\ mishaps' = mishaps + 1
  /\ Effect(c) /\ Marked(c, "error") /\ Grounded(c)
  /\ Failed(flying[c].by, c)
  /\ UNCHANGED <<flow, context, bound, late, told>>

\* The answer reaches the backend, but not the browser.
Unheard(c) ==
  /\ c = "settle" /\ flying[c].by \in Handler /\ Holds(c)
  /\ ~handler[flying[c].by].failed
  /\ mishaps < MaxMishaps /\ mishaps' = mishaps + 1
  /\ Effect(c) /\ Marked(c, "ok") /\ Grounded(c)
  /\ handler' = [handler EXCEPT ![flying[c].by] = Unused]
  /\ UNCHANGED <<flow, context, bound, late, told>>

\* The backend dies.  What the participant has, it may still carry out.
Die ==
  /\ \E h \in Handler : ~Free(h)
  /\ mishaps < MaxMishaps /\ mishaps' = mishaps + 1
  /\ handler' = [h \in Handler |-> Unused]
  /\ \/ UNCHANGED <<stage, pool>>
     \/ flying["settle"].by \in Handler /\ Holds("settle") /\ Effect("settle")
  /\ flying' = [c \in Command |-> Ground]
  /\ UNCHANGED <<flow, context, bound, late, memo, told>>

\* PENDING_STALE_MS after that, its rows may be overwritten.  What becomes of an
\* answer that is out for longer than that is module Submissions.
Expire(c) ==
  /\ memo[c].status = "pending" /\ flying[c] = Ground
  /\ Marked(c, "stale")
  /\ UNCHANGED <<flow, context, pool, stage, bound, late, flying, handler, told, mishaps>>

-----------------------------------------------------------------------------
Serves(h) == Begin(h) \/ \E c \in Command : Submit(h, c)
Responds(c) == Land(c) \/ Bounce(c)
Serving    == \E h \in Handler : Serves(h)
Responding == \E c \in Command : Responds(c) \/ Expire(c)

PoolDeskNext ==
  \/ Trade \/ AskPool \/ Author \/ PassDeadline \/ RegistryMoves \/ Die
  \/ \E h \in Handler : Serves(h)
  \/ \E c \in Command : Responds(c) \/ Vanish(c) \/ Unheard(c) \/ Expire(c)

\* Whoever wants the settlement calls until it is told, and the backend goes on with
\* some call that it has; some submission is answered, or some timer fires.
PoolDeskFairness == WF_PoolDeskVars(Serving) /\ WF_PoolDeskVars(Responding)

PoolDeskSpec == PoolDeskInit /\ [][PoolDeskNext]_PoolDeskVars /\ PoolDeskFairness

-----------------------------------------------------------------------------
\* Has the pool, or a registry, left behind what the flow's rows, or its quote,
\* were made for?  A row that failed holds up the venue's own allocations only.
Stranded ==
  IF flow = "swap" /\ bound # pool.nth THEN TRUE
  ELSE \E c \in Command : Differs(c, pool.nth) /\
         (memo[c].status \in {"ok", "stale"} \/ (memo[c].status = "error" /\ c \in Own))

\* A flow that is settled again and again settles, whatever gets lost and
\* however the calls interleave, as long as the pool still takes its terms and
\* the pool and the registries are as its commands were first answered for.
RetriesSettle ==
  stage = "authored" ~> (stage = "settled" \/ late \/ ~pool.fits \/ Stranded)

\* The steps of one settlement are computed from one state of the pool, although
\* several calls, at several moments, contribute their answers.
OneSnapshot == \A c, d \in {"plan", "preview", "settle"} \cup Own :
  (memo[c].status = "ok" /\ memo[d].status = "ok") => memo[c].at = memo[d].at

\* "Safe to retry": while a deposit or a redemption is authored, in time and still
\* taken by the pool, nothing that an earlier call left in the store has a new
\* call refused.
RetryAdmitted ==
  (flow # "swap" /\ stage = "authored" /\ ~late /\ pool.fits /\ \A h \in Handler : Free(h))
    => \A c \in {"plan", "preview", "settle"} : ~Replayed(c, pool.nth)
=============================================================================
