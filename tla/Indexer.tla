------------------------------ MODULE Indexer ------------------------------
(***************************************************************************)
(* The indexer of the operator backend (indexer/index.ts): a timer polls   *)
(* the participant's active contracts and projects them into SQLite.       *)
(*                                                                         *)
(* A tick runs three tasks at once.  Every query is a snapshot of the      *)
(* ledger at its own moment; what follows the last query of a task is      *)
(* synchronous (better-sqlite3), so a task writes in one step.  The ledger *)
(* moves in between, a query can fail and the process can die.             *)
(*                                                                         *)
(* One pool and one RFQ: rows of different pairs and of different RFQ ids  *)
(* do not meet, but those of two pools of one pair do: that case is left   *)
(* out. Settled order fills are read like matched trades and are never     *)
(* archived; they are left out, with the events log, which repeats what    *)
(* the other tables say.                                                   *)
(***************************************************************************)
EXTENDS Integers, FiniteSets, Sequences

CONSTANTS
  MaxRotations, \* bound: rotations of the pool's state
  MaxOutages    \* bound: failed queries and crashes

ASSUME IndexerAssumption == MaxRotations \in Nat /\ MaxOutages \in Nat

\* Bound: ticks that have tasks in flight at once.
Tick  == {1, 2}
Tasks == {"trades", "pools", "rfqs"}

VARIABLES
  \* the ledger
  listed,   \* has the Pool configuration been created?
  states,   \* every PoolState there has been, the last one active
  side,     \* is the RFQ's trader buying or selling?  Fixed for the behaviour
  rfq,      \* "none", "open", "accepted" or "gone"
  trade,    \* the MatchedTrade of its acceptance: "none", "live" or "archived"
  \* the process
  running,  \* the tick that holds the single-flight flag, 0 if none does
  task,     \* the tasks of each tick, with what they have read
  outages,
  belated,  \* history: the tasks that wrote when their tick's flag had fallen
  \* the database
  seen,     \* pool_states: the PoolStates that have a row
  archived, \* those whose row is marked archived
  feed,     \* swaps: one row per rotation seen
  trades,   \* the row of the trade, or none
  history   \* rfq_history: the statuses of the RFQ, oldest first

LedgerVars   == <<listed, states, side, rfq, trade>>
DatabaseVars == <<seen, archived, feed, trades, history>>
IndexerVars  == <<LedgerVars, running, task, outages, belated, DatabaseVars>>

Unread  == -1
Resting == [phase |-> "idle", config |-> Unread, read |-> Unread]
Started == [phase |-> "reading", config |-> Unread, read |-> Unread]
NoTrade == [trader |-> "none", dealer |-> "none", counterparty |-> "none"]

IndexerInit ==
  /\ listed = FALSE /\ states = <<>>
  /\ side \in {"buy", "sell"} /\ rfq = "none" /\ trade = "none"
  /\ running = 0
  /\ task = [t \in Tick |-> [k \in Tasks |-> Resting]]
  /\ outages = 0 /\ belated = {}
  /\ seen = {} /\ archived = {} /\ feed = <<>> /\ trades = NoTrade /\ history = <<>>

-----------------------------------------------------------------------------
(* The ledger, as the indexer sees it. *)

State(b, q, s, c) == [base |-> b, quote |-> q, supply |-> s, by |-> c]
Now == states[Len(states)]

\* createPool submits the configuration and the state one after the other.
ListPool ==
  /\ ~listed
  /\ listed' = TRUE
  /\ UNCHANGED <<states, side, rfq, trade, running, task, outages, belated, DatabaseVars>>

OpenPool ==
  /\ listed /\ states = <<>>
  /\ states' = <<State(2, 2, 2, "open")>>
  /\ UNCHANGED <<listed, side, rfq, trade, running, task, outages, belated, DatabaseVars>>

\* What each choice does to the numbers, a swap of either direction; a dust swap moves
\* one side only.
After(c) ==
  CASE c = "swap" -> State(Now.base + 2, Now.quote - 1, Now.supply, "swap")
    [] c = "dust" -> State(Now.base + 1, Now.quote, Now.supply, "swap")
    [] c = "back" -> State(Now.base - 1, Now.quote + 2, Now.supply, "swap")
    [] c = "dustBack" -> State(Now.base, Now.quote + 1, Now.supply, "swap")
    [] c = "add"  -> State(Now.base + 1, Now.quote + 1, Now.supply + 1, "add_liquidity")
    [] c = "remove" -> State(Now.base - 1, Now.quote - 1, Now.supply - 1, "remove_liquidity")
    [] c = "pause"  -> State(Now.base, Now.quote, Now.supply, "state_change")

Rotate(c) ==
  /\ states # <<>> /\ Len(states) <= MaxRotations
  /\ Now.base > 0 /\ Now.quote > 0 /\ Now.supply > 0
  /\ states' = Append(states, After(c))
  /\ UNCHANGED <<listed, side, rfq, trade, running, task, outages, belated, DatabaseVars>>

Ask ==
  /\ rfq = "none" /\ rfq' = "open"
  /\ UNCHANGED <<listed, states, side, trade, running, task, outages, belated, DatabaseVars>>

\* Accepting archives the RFQ and creates the trade in one transaction;
\* cancelling and expiring only archive.
EndRfq ==
  /\ rfq = "open"
  /\ \/ rfq' = "accepted" /\ trade' = "live"
     \/ rfq' = "gone" /\ UNCHANGED trade
  /\ UNCHANGED <<listed, states, side, running, task, outages, belated, DatabaseVars>>

\* The trade is settled or cancelled.
EndTrade ==
  /\ trade = "live" /\ trade' = "archived"
  /\ UNCHANGED <<listed, states, side, rfq, running, task, outages, belated, DatabaseVars>>

-----------------------------------------------------------------------------
(* tick() *)

StartTick(t) ==
  /\ running = 0
  /\ \A k \in Tasks : task[t][k].phase = "idle"
  /\ running' = t
  /\ task' = [task EXCEPT ![t] = [k \in Tasks |-> Started]]
  /\ UNCHANGED <<LedgerVars, outages, belated, DatabaseVars>>

Reading(t, k) == task[t][k].phase = "reading"

\* What a waiting task has got so far.
Noted(t, k, c, r) ==
  [task EXCEPT ![t][k] = [phase |-> "reading", config |-> c, read |-> r]]

\* The active PoolState, by its place in states; 0 if there is none.
SeenState == Len(states)
SeenRfq   == IF rfq = "open" THEN 1 ELSE 0
SeenTrade == IF trade = "live" THEN 1 ELSE 0
Seen(k) == IF k = "pools" THEN SeenState ELSE IF k = "rfqs" THEN SeenRfq ELSE SeenTrade

\* The query that decides what the task will write comes back.
Read(t, k) ==
  /\ Reading(t, k) /\ task[t][k].read = Unread
  /\ task' = Noted(t, k, task[t][k].config, Seen(k))
  /\ UNCHANGED <<LedgerVars, running, outages, belated, DatabaseVars>>

\* The other query of reconcilePools: the configurations.
ReadConfig(t) ==
  /\ Reading(t, "pools") /\ task[t]["pools"].config = Unread
  /\ task' = Noted(t, "pools", IF listed THEN 1 ELSE 0, task[t]["pools"].read)
  /\ UNCHANGED <<LedgerVars, running, outages, belated, DatabaseVars>>

\* The flag is dropped by the task of the pools alone.
BuggyEnded(t, k) ==
  /\ task' = [task EXCEPT ![t][k] = Resting]
  /\ running' = IF running = t /\ k = "pools"
                   /\ \A j \in Tasks \ {k} : task[t][j].phase = "idle"
                THEN 0 ELSE running
  /\ belated' = IF running = t THEN belated ELSE belated \cup {k}

\* A task has written and ends; the flag falls with the last task of the tick that holds it.
Ended(t, k) ==
  /\ task' = [task EXCEPT ![t][k] = Resting]
  /\ running' = IF running = t /\ \A j \in Tasks \ {k} : task[t][j].phase = "idle"
                THEN 0 ELSE running
  /\ belated' = IF running = t THEN belated ELSE belated \cup {k}

\* A query fails and Promise.all rejects at once: tick()'s finally drops the
\* flag while the other tasks of the tick may still be waiting for theirs.
FailTask(t, k) ==
  /\ Reading(t, k)
  /\ outages < MaxOutages /\ outages' = outages + 1
  /\ task' = [task EXCEPT ![t][k] = Resting]
  /\ running' = IF running = t THEN 0 ELSE running
  /\ UNCHANGED <<LedgerVars, belated, DatabaseVars>>

\* The process dies and starts again on the same database.
Restart ==
  /\ \E t \in Tick, k \in Tasks : Reading(t, k)
  /\ outages < MaxOutages /\ outages' = outages + 1
  /\ running' = 0
  /\ task' = [t \in Tick |-> [k \in Tasks |-> Resting]]
  /\ UNCHANGED <<LedgerVars, belated, DatabaseVars>>

-----------------------------------------------------------------------------
(* reconcilePools *)

Known == seen \ archived

\* The query result joined with the configurations: nothing without one.
LivePools(r) == IF r.config = 1 /\ r.read > 0 THEN {r.read} ELSE {}

\* Which choice rotated the state, told from the numbers alone.
KindOf(old, new) ==
  CASE new.supply > old.supply -> "add_liquidity"
    [] new.supply < old.supply -> "remove_liquidity"
    [] new.supply = old.supply /\ (new.base # old.base \/ new.quote # old.quote) -> "swap"
    [] OTHER -> "state_change"

\* The quote is counted as paid out.
BuggyDelta(from, to) ==
  [old |-> from, new |-> to,
   base |-> states[to].base - states[from].base,
   quote |-> states[from].quote - states[to].quote,
   kind |-> KindOf(states[from], states[to])]

Delta(from, to) ==
  [old |-> from, new |-> to,
   base |-> states[to].base - states[from].base,
   quote |-> states[to].quote - states[from].quote,
   kind |-> KindOf(states[from], states[to])]

\* What this tick does not insert is taken for vanished.
BuggyPoolsWritten(active) ==
  LET fresh    == active \ Known
      vanished == Known \ fresh
  IN /\ archived' = archived \cup vanished
     /\ seen' = seen \cup fresh
     /\ feed' = IF fresh # {} /\ Cardinality(vanished) = 1
                THEN Append(feed, Delta(CHOOSE v \in vanished : TRUE,
                                        CHOOSE v \in fresh : TRUE))
                ELSE feed

\* Rows whose contract is no longer active are archived.  A contract without a
\* live row gets one, unless an archived one is in its place (INSERT OR IGNORE),
\* and a row of the feed if exactly one contract vanished in this tick.
PoolsWritten(active) ==
  LET vanished == Known \ active
      fresh    == active \ Known
  IN /\ archived' = archived \cup vanished
     /\ seen' = seen \cup fresh
     /\ feed' = IF fresh # {} /\ Cardinality(vanished) = 1
                THEN Append(feed, Delta(CHOOSE v \in vanished : TRUE,
                                        CHOOSE v \in fresh : TRUE))
                ELSE feed

WritePools(t) ==
  /\ Reading(t, "pools") /\ task[t]["pools"].read # Unread
  /\ task[t]["pools"].config # Unread
  /\ PoolsWritten(LivePools(task[t]["pools"]))
  /\ Ended(t, "pools")
  /\ UNCHANGED <<LedgerVars, outages, trades, history>>

-----------------------------------------------------------------------------
(* reconcileTrades, and deriveTradeParties of trade-parties.ts *)

\* The legs of the trade, base first, as <<sender, receiver>>.
Legs == IF side = "buy"
        THEN <<<<"dealer", "trader">>, <<"trader", "dealer">>>>
        ELSE <<<<"trader", "dealer">>, <<"dealer", "trader">>>>

\* The dealer is the one the receipt accepted, the trader the other party of the
\* legs; which way the base leg goes says nothing about the roles.
DeriveTradeParties(legs, accepted) ==
  LET parties == {legs[1][1], legs[1][2], legs[2][1], legs[2][2]}
      trader  == CHOOSE p \in parties : p # accepted
  IN [trader |-> trader, dealer |-> accepted,
      counterparty |-> CHOOSE p \in parties : p # trader]

WriteTrades(t) ==
  /\ Reading(t, "trades") /\ task[t]["trades"].read # Unread
  /\ trades' = IF task[t]["trades"].read = 1 /\ trades = NoTrade
               THEN DeriveTradeParties(Legs, "dealer") ELSE trades
  /\ Ended(t, "trades")
  /\ UNCHANGED <<LedgerVars, outages, seen, archived, feed, history>>

-----------------------------------------------------------------------------
(* reconcileRfqs *)

\* An RFQ not seen before is written open, once; one that was open and has
\* vanished is accepted if its trade is known by now and closed otherwise.
HistoryAfter(open) ==
  CASE open /\ history = <<>> -> <<"open">>
    [] ~open /\ history = <<"open">> ->
         Append(history, IF trades # NoTrade THEN "accepted" ELSE "closed")
    [] OTHER -> history

WriteRfqs(t) ==
  /\ Reading(t, "rfqs") /\ task[t]["rfqs"].read # Unread
  /\ history' = HistoryAfter(task[t]["rfqs"].read = 1)
  /\ Ended(t, "rfqs")
  /\ UNCHANGED <<LedgerVars, outages, seen, archived, feed, trades>>

-----------------------------------------------------------------------------
Polls(t) ==
  \/ StartTick(t)
  \/ \E k \in Tasks : Read(t, k)
  \/ ReadConfig(t) \/ WritePools(t) \/ WriteTrades(t) \/ WriteRfqs(t)

LedgerMoves ==
  \/ ListPool \/ OpenPool
  \/ \E c \in {"swap", "dust", "back", "dustBack", "add", "remove", "pause"} : Rotate(c)
  \/ Ask \/ EndRfq \/ EndTrade

IndexerNext ==
  \/ LedgerMoves
  \/ \E t \in Tick : Polls(t) \/ \E k \in Tasks : FailTask(t, k)
  \/ Restart

\* setInterval keeps ticking and a query is answered or fails; nobody has to
\* trade, and outages need not happen.
IndexerFairness == \A t \in Tick : WF_IndexerVars(Polls(t))

IndexerSpec == IndexerInit /\ [][IndexerNext]_IndexerVars /\ IndexerFairness

-----------------------------------------------------------------------------
IndexerTypes ==
  /\ listed \in BOOLEAN /\ side \in {"buy", "sell"}
  /\ rfq \in {"none", "open", "accepted", "gone"}
  /\ trade \in {"none", "live", "archived"}
  /\ running \in Tick \cup {0} /\ outages \in 0 .. MaxOutages /\ belated \subseteq Tasks
  /\ seen \subseteq 1 .. Len(states) /\ archived \subseteq seen
  /\ history \in {<<>>, <<"open">>, <<"open", "accepted">>, <<"open", "closed">>}

\* "State is reconciled from current ACS on every tick": what a reader finds
\* marked archived is gone from the ledger, whatever was read when.
ArchivedIsGone == \A v \in archived : v < Len(states)

\* So it is until the pools of a tick that has lost its flag are written: rows in one
\* tick's order of writing, queries in another's of answering, pools seen before their
\* configuration and restarts do no harm.
NeverAhead == "pools" \notin belated => ArchivedIsGone

\* The feed is what clients reconcile against: from the first state recorded, its
\* deltas add up to the reserves of the live row, however many rotations a tick
\* missed.  A row between neighbouring states names the choice
\* that rotated them, dust and pauses included.
Total(side_) ==
  LET sum[i \in 0 .. Len(feed)] == IF i = 0 THEN 0 ELSE sum[i - 1] + feed[i][side_]
  IN  sum[Len(feed)]
FeedReconciles ==
  /\ \A v \in Known :
       LET first == CHOOSE w \in seen : \A x \in seen : w <= x
       IN /\ states[first].base + Total("base") = states[v].base
          /\ states[first].quote + Total("quote") = states[v].quote
  /\ \A i \in 1 .. Len(feed) :
       feed[i].new = feed[i].old + 1 => feed[i].kind = states[feed[i].new].by

\* The history never says more than the ledger: an RFQ is told accepted only with
\* its trade's row there to say by whom, and closed only when it is over; the
\* trade's row names the trader as the trader whichever side it took.
HistoryTrue ==
  /\ history # <<>> => rfq # "none"
  /\ Len(history) = 2 => rfq \in {"accepted", "gone"}
  /\ (Len(history) = 2 /\ history[2] = "accepted") => (rfq = "accepted" /\ trades # NoTrade)
  /\ trades # NoTrade => trades.trader = "trader" /\ trades.counterparty = "dealer"

\* Once the ledger rests, the projection comes to agree with it and stays so, but for
\* what a belated task has overwritten, which no later tick repairs.
Agrees ==
  /\ "pools" \notin belated => Known = IF states = <<>> THEN {} ELSE {Len(states)}
  /\ ("rfqs" \notin belated /\ history # <<>>) => (history = <<"open">> <=> rfq = "open")
  /\ trade = "live" => trades # NoTrade
Converges == <>[]Agrees
=============================================================================
