# Verification of the Canton DEX reference implementation

TLA+ models of the venue's core, checked with TLC on small instances and, where
noted, proved with TLAPS for every value of the constants. Paths below are
relative to the repository root (`src/` in `PROJECT.json`).

## The system

The venue is a set of Daml templates (`trading/CantonDex`) and a TypeScript
operator backend that drives them (`services/operator-backend`). A Daml choice is
a transaction: everything it exercises happens, or nothing does. Concurrency is
between transactions: contracts are consumed and replaced, so whoever holds an
old contract id, an old price or an old plan meets a ledger that has moved on.

| Component | State | Operations | What makes it correct |
|---|---|---|---|
| Pool arithmetic (`Dex/PoolModel`) | none | directed rounding, exact comparison, constant product, ratio matching, square root | every rounding favours the pool, by less than an ulp |
| Pool state, slices, rules (`Dex/Pool*`) | aggregate reserves, LP supply, status; one slice contract per committed allocation | request, swap, pause, resume, reconcile | the aggregate is the sum of the slices; x * y never falls; nobody is paid or charged otherwise than authorised |
| Pool liquidity (`Dex/PoolLiquidityRules`, `Dex/LiquidityAllocationRequest`) | requests, acceptance receipts | request, accept, reject, withdraw, settle add, settle remove | LPs are not diluted; the supply agrees with the tokens that exist |
| LP policy (`Lp/Policy`) | recorded supply, active | record mint, record burn, deactivate | agrees with the pool |
| Registry (`Registry/V2`) | holdings, allocations, transfer instructions | allocate, settle batch, cancel, withdraw, transfer, split, merge | conservation; locked holdings back exactly what was authorised |
| Settlement per admin (`Trading/AdminBatch`) | none | group, settle | all registries settle in one transaction, or none |
| Orders (`Dex/Order*`) | order, funding request, allocations per admin | bind, fund, match, cancel | remaining quantity never exceeds what is locked; fills respect limits |
| RFQ and trades (`Dex/Rfq`, `Dex/MatchedTrade`) | RFQ, quotes, trades, requests | quote, accept, expire, request, settle, cancel | one trade per RFQ; every leg of it or none |
| Matcher and order service (`order/`) | a snapshot of the book | match, preview, execute, roll forward | price-time priority; no fill twice |
| Idempotent submission (`indexer/idempotency.ts`) | a row per command id | once | at most one effect per command id; a failed flow can be retried |
| Indexer (`indexer/index.ts`) | SQL projections | tick | converges to the ledger; no lifecycle event lost |
| Sessions, hosted wallet | challenges, tokens, accounts, prepared transactions | challenge, verify, bootstrap, mint; topology, allocate, prepare, execute | single use; no double execution |
| HTTP layer (`http/`) | rate-limit buckets, the last answers of the participant | admit, relay a wallet's command, serve projections | nobody is served on another's word; what is said of a command is so |
| Web wallet (`app/web/src/wallet`, `services/ledger.ts`) | the active provider and its account; what a page has authored | connect, switch, disconnect; compose, author, recover, name to the operator | the account shown is the one that signs; a page names what its own request asked for |
| Web pages (`app/web/src/pages`, `components`) | forms, rows, what was fetched last | quote, click, poll, tell | what the trader is told is what happens |

`PROJECT.json` lists the components with their status, and under `hazards` the
places where the code is hard to test.

## Modules

`PoolMath` — the arithmetic of `Dex/PoolModel.daml`. A Decimal is its number of
ulps; `Scale` (10^10 in the code) is a constant. Products and quotients round
half even as Numeric does, and the code's corrections follow. `ceilMulDiv` is
defined by its result (the least q with q * d >= x * y), not by the search.

`Totals` — the sum of amounts over a finite set, as a count of coins, so that
facts about it follow from facts about cardinalities (tlapm cannot reason about
RECURSIVE sums or about folds over an operator).

`Amm` — what the pool promises, with two reserves, a supply and a status: a swap
never lowers the product; a deposit mints at most its share, up to the dust
tolerance and the half-ulp roundings, and takes the least amount of the long
side that matches the short one; a redemption pays at most its share and less
than one ulp (and one ulp of the share) below it.

`Pool` — one pool in full. State and code:

| Variable | Code |
|---|---|
| `pool` | `PoolState`: `status`, `reserves`, `totalLpSupply` |
| `slices` | `PoolSlice.amount`, by side and slot |
| `backing` | what the slice's `Allocation` locks; 0 when there is none |
| `policy` | `LPTokenPolicy`: `totalSupply`, `active` |
| `free` | unlocked `Holding`s, by owner and instrument |
| `request`, `late` | `SwapAllocationRequest` / `LiquidityAllocationRequest`, its acceptance receipt, and whether `settleAt` has passed |
| `terms`, `authored` | the specifications a request asks for, and the allocations authored for them that can be settled |

Actions: `RequestSwap` (`PoolRules_RequestSwap`), `RequestAdd`, `RequestRemove`
(the `PoolLiquidityRules_Request*` choices with the amounts the backend derives),
`Accept`, `CloseRequest`, `DeadlinePasses`, `Authorize`
(`AllocationFactory_Allocate`), `WithdrawAllocation`, `CancelAllocation`,
`CancelCustody`, `SettleSwap` (`PoolRules_Swap`), `SettleAdd`, `SettleRemove`
(`PoolLiquidityRules_Settle*`), `Pause`, `Resume`, `RecordLPSupply`,
`RecordPolicySupply`, `Deactivate`. A settlement includes everything its choice
does: pricing, slice draws, registry coverage checks, roll-forward of slice
allocations, refunds, mint or burn, the policy record, the status, and the
archiving of the request.

Four facts about the code shape the model:
- A swap's request need not be supplied at settlement, and its `settleAt` is not
  enforced. What binds the trader is the equality of the recomputed legs with the
  legs of its allocations (`Authorised`).
- A pool uses one settlement descriptor for everything, and each allocation is
  matched by its own specification; the registry keeps nothing of the request it
  was authored for. So an allocation may be settled under any request that asks
  for an equal specification, whatever else that request asks (`Same`,
  `Supplies`), and a swap may be put together from two requests (`SwapsOf`).
  `OnlyAsAuthorised` therefore speaks of specifications: every one of the deal is
  authorised in an allocation that the step uses up.
- The registry asks that the holdings it is given are the owner's and suffice, not
  that they are unlocked. What one allocation locks may be put behind another
  (`Retakes`), and the first can then no longer be settled, cancelled or withdrawn;
  the locked holdings of an allocation are taken as one. That the web wallet picks
  unlocked holdings only is not relied upon.
- The operator executes every allocation and may cancel it, its own custody
  included, and the registrar may record a supply out of band. Both are guarded
  by constants (`CancelsAllowed`, `Overrides`), so that each property says
  whether it needs them absent.

`MCPool` — instances for TLC: ten ulps per unit, pools with one or two slices a side.

`Matching` — `order/matching.ts` as operators: time priority
(`byRestingTime`), the order of bids and asks, `clearingPrice`, one turn of the
greedy loop, and `matchOrdersForPair`. The code's two cursors are the sets of
bids and asks they have not passed yet.

`OrderBook` — the orders of one pair with the allocations that fund them, and the
operator's matching runs over them.

| Variable | Code |
|---|---|
| `order` | `OrderFundingRequest`, then `Order`: `status` (`none` and `closed` when there is no contract), `remainingQty`, a number for the contract id and the create time, both renewed whenever the contract is re-created |
| `allocation` | the `Allocation`s authored for the order: which kinds are live (`lock`, and `receipt` when the pair spans two registries), what the view of the lock says it funds, and what is really locked behind it |
| `bound` | the allocations the order was bound to by `Order_Fund`, as far as they can still be used |
| `free` | unlocked `Holding`s, by trader and instrument |
| `expired`, `now` | orders whose deadline has passed; a clock that advances with every order contract |
| `trades` | `SettledTrade`s, with what the choice returned and whether the answer arrived |
| `run` | the locals of `runMatching`: the crosses still to submit, `live`, `closed` |
| `sent` | the rows of the submission store: with which contracts a cross was first submitted |
| `faults` | lost requests and answers so far |
| `entered`, `disturbed` | history, for properties only |

Actions: `Place`, `CloseIntent`, `Bind` (`OrderFundingRequest`), `AuthorLock` and
`AuthorReceipt` (`AllocationFactory_Allocate`), `Fund`, `Cancel` (`Order`), `Withdraw`
(the author's withdrawal and the operator's cancellation of one allocation),
`DeadlinePasses`; and of a run: `StartRun` (read the book, match), `Skip`,
`Execute` (`OrderMatchExecution_Execute`, with the settlement of every registry,
both roll-forwards and the trade record), `Replay`, `Refused` (by the ledger or
by the store), `Unreachable`, `LoseAnswer`. A run reads the book once and then
submits its crosses one by one; everything else may happen between two of its
steps, another run included.

Two things the code leaves open are part of the model. A lock may be made of holdings
that are behind another allocation already (`Retakes`), which leaves that one with
nothing. And `Order_Fund` compares the view of an allocation with what the order's terms
give and consumes none: two orders of equal terms may be bound to one allocation
(`Fits`), and the fill of one then ends what the other counts on.

The preview that precedes an execution changes nothing on the ledger and fails
where the execution would, so both are one step; its command id has a row of its
own in the store, which follows the same rule as the other. A sweep removes rows
after a day, which no run of the book lasts: rows stay here, and the sweep is part
of `Submissions`. Order contract ids are numbered per order; a filled
order's allocations are replaced in the same transaction, so that naming the
right order contract is naming the right allocations.

`MCOrderBook` — books for TLC: two bids and two asks at most.

The off-ledger components have a module each. They share no state: what one of
them needs of another is part of its module (the rows of the submission store that
belong to its own command ids, the ledger contracts it acts on).

`Submissions` — `IdempotentLedger.once` for one command id, with the contention
retry around it and the driver below.

| Variable | Code |
|---|---|
| `kind` | whether the command creates, consumes, or exercises without consuming |
| `row` | the row of `command_submissions`: status and `argsHash` |
| `call` | a handler between two awaits: its arguments, attempts, what it waits for |
| `effects`, `live` | transactions the ledger accepted; the contract a choice consumes |
| `adrift`, `gaps` | submissions whose caller has left; outcomes nobody recorded |
| `overtaken` | how often a row was released while its submission was still out |
| `calls` | calls made so far (a bound) |
| `answered` | history: what a caller asked and whose answer it was given |

A handler runs to its next await, so the SELECT and the INSERT of `once` are one
step; answers, contention, lost answers, staleness, crashes and the sweep come in
between. A pending row is stale after a minute, and nothing in `submitAndWait` ends a
submission by then: the handler that claimed the row may come back when others have
claimed it since, and writes its outcome over whatever is there.

`Indexer` — the timer with its single-flight flag, and the three tasks of a tick
(`task`), each of whose queries is a snapshot of its own moment. `states`, `rfq`,
`trade` are the ledger; `seen`, `archived`, `feed`, `trades`, `history` the tables.
A task writes in one step, because nothing is awaited behind its last query. The first
query that fails drops the flag while the others of the tick are still out, and the next
tick starts beside them; `belated` notes the tasks that have written for a tick without
its flag. The pool is swapped in both directions, dust included. `Feeds` adds what clients are served of
these tables: the swap rows, the price points, the day's statistics, the price of the
pair with its fallback.

`TradeDesk` — one RFQ from its quotes to the settlement of its trade over several
registries: `Rfq`, `RfqQuote`, `MatchedTrade`, `TradeAllocationRequest`, the RFQ,
policy and matched-trade services, and both sides' browsers (`session`). `preview` is the row under the
trade's preview id, with the allocations it was asked for and those its answer is about:
once answered it serves its own allocations and refuses others, once failed it is taken
over by whoever comes next. A settlement archives the requests its caller names. Times
matter twice: quotes expire against the ledger's clock, and the ranking is computed
at milliseconds by the service and at microseconds by Daml (`Milli`).

`PoolDesk` — one swap, deposit or redemption from the browser to the ledger. A
settlement is a chain of commands (`Chain`), each under an id made of the flow's
key, with arguments read from the pool when the call began; `memo` is their rows,
`flying` what the participant has, `handler` the calls of the settle route, `context` what
the registries answer at the moment, which is among the arguments of the venue's own
allocations and of the settlement. A redemption's handler reads states and slices by
separate queries, which may tell of different pools (`Apart`). A row that failed is taken
over with other arguments by an exercise, but not by the venue's own allocations, which
exercise an interface. What the settlement does to the pool is module `Pool`.

`Sessions` — challenges, bootstraps and tokens of the backend, and one tab with
overlapping sign-ins. `HostedWallet` — onboarding, preparation and execution for
one key and several tabs, with a handler's stale reads of its rows.

`OrderDesk` — one limit order from the form to the book: `placeOrder`,
`cancelOrder`, the order routes and service, and what the page then says
(`ticket`, `page`). A call that the browser or the backend has given up on may
still take effect (`stray`). `OrderBook` has the rest of the order's life.

`Funding` — which holdings the web client picks, and the merge and split that a
co-signing wallet does first; reads may lag behind what was just done. Amounts are
whole units. `Recovery` — the order in which allocations are recovered from the
transaction tree of an update: by the driver as the server deploys it, behind
`IdempotentLedger`, which drops the expected number of allocations; by the bare
`JsonApiLedger`; and by a driver that knows created contracts alone.

`Quotes` — the arithmetic of the pool service, which computes in truncating integers
(`pool/decimal.ts`) what the choices compute in corrected Decimals: `computeQuote`,
`matchLiquidity`, `deriveRemoveOutputs`, the LP amount of a deposit.

`Screens` — the swap card and the liquidity panels over one pool that others move:
`market` is the pool now, `view` what the browser fetched last, `form` what is typed and
filled in, with the quote it shows, `lpHeld` what the trader may redeem, and `trip` a
click's way over the request the service prices to the settlement: what was promised
next to what was given. What is typed, what is rounded for display and what goes into
the request are told apart. The settlement is that of `PoolMath`.

`RfqScreen` — the RFQ page: rows that a poll fetches (`fetched`, `poll`) and that the page
changes by itself (`openTab`, `acceptedTab`, `expiredTab`) while its calls (`accepts`,
`withdraws`, `creates`, `settles`) are out and wallets are swapped. `unheard`, `early`,
`astray` and `aside` are history, for the properties.

`Gateway` — the server before the services: which token admits which kind of route
(`inbound`, `served`), the rate limiter (`bucket`, `takes`, `open`), the wallet relay
(`relay`, `landed`), and the status poll (`end`, `probe`, `slot`, `synced`). A handler waits
for its body and for the ledger; tokens expire and clocks are set back meanwhile.

`Authoring` — the write flows of the browser over three kinds of wallet (`provider`): what
is composed for a request, which contracts the wallet makes of it (`made`), and which ids
a page recovers and names to the operator (`errand`), while answers get lost and the
wallet is switched to another account (`signer`).

`WalletLink` — the store with its one subscription (`store`, `listener`), two kinds of
provider behind it (`adapter`, `wired`, `pending`, `linked`), the picker (`rows`, `picked`), and
overlapping calls of connect and disconnect (`linking`, `closing`), while wallets come, go,
drop sessions and switch accounts.

`MCBackend` — the off-ledger modules side by side for TLC. A behaviour is one
component's, named by `focus`; the others rest. `MCProgress` — the same for those of
which something must eventually come: the indexer with its feeds, the settlement of pool
flows, and the hosted wallet.

Lemmas and theorems: `TotalsProofs` and `PoolMathProofs` (sums and arithmetic), `PoolProofs`
(the pool's custody) and `PoolPromises` (what it owes to whom, the refinement),
`OrderBookProofs`, `QuotesProofs` (`Quotes`, `Screens`), `ServiceProofs` (`Submissions`,
`Indexer`, `Feeds`, `TradeDesk`, `PoolDesk`, `OrderDesk`) and `EdgeProofs` (`Gateway`,
`Sessions`, `HostedWallet`, `Authoring`, `WalletLink`, `RfqScreen`, `Funding`, `Recovery`).

## Runs

| Run | Question | Properties |
|---|---|---|
| `swaps` | two traders race swaps over two uneven slices a side and two registries | `ReservesBacked`, `ImplementsAmm` |
| `liquidity` | deposits, redemptions of a part and of everything, a new bootstrap, swaps, deadlines, pauses | `OwnedByLps`, `TypeOK`, `Lifecycle`, `LpSupplyAgrees`, `OnlyAsAuthorised`, `ImplementsAmm` |
| `custody` | operator cancellations and registrar overrides at any point | `SliceBacked`, `NothingLost` |
| `fills` | one run at a time over two bids of one limit and two asks; prices that round; orders that share an allocation or retake a lock | `TypeOK`, `FundingCovers`, `TradesExplainHoldings`, `FillsInOrder`, `RunFollowsBook` |
| `races` | two overlapping runs, two registries, a lost request or answer, operator cancellations | `SettledOnce`, `RunFollowsBook` |
| `backend` | the off-ledger components under crashes, lost answers, expiries and overlapping calls | see below |
| `progress` | the indexer, pool flows and hosted wallets: what holds whatever overlaps and fails, and do they get there, under fairness? | see below |
| `owncross` | does a later run pick up what self-trade prevention skipped? It does not | `CrossesPickedUp` (violated) |
| `queue` | do older orders fill first at equal price? Not after a partial fill | `OlderFirst` (violated) |
| `overlap` | does the single-flight flag keep ticks apart? Not once a query has failed | `ArchivedIsGone` (violated) |
| `lateanswer` | is a conflict rejected rather than served another's result? Not by an exercise whose answer comes late | `NeverAnothers` (violated) |
| `stranded` | can a deposit be retried after a crash? Not once the pool has been touched | `RetryAdmitted` (violated) |

What `backend` and `progress` check, by component (the indexer, `PoolDesk` and `HostedWallet` are in `progress`). A property that is a
conjunction names its parts, each with a comment of its own in the module:

| Module | Property | In words |
|---|---|---|
| `Submissions` | `OwnAnswer` | a caller is given the outcome of its own arguments only: of a create always, of an exercise until a row has been released before its answer came |
| | `RepeatsExplained` | the ledger takes a command once more for each outcome that went unrecorded or came after its row had been released, no more |
| `Indexer` | `NeverAhead` | what is marked archived is gone from the ledger, until the pools of a tick that had lost its flag are written |
| | `Converges` | when the ledger rests, the tables come to agree with it, but for what a belated task has overwritten |
| `Feeds` | `FeedTrue` | until such a belated write: the swap feed adds up to the live reserves and names the choice behind each row (`FeedReconciles`); the RFQ history never says more than the ledger (`HistoryTrue`); swaps and the figures drawn from them are shown as they were (`SwapsTold`, `FiguresTrue`) |
| `TradeDesk` | `BothLegsOrNone` | a settled trade has used one allocation of each side at each registry, any other trade none |
| | `ContextFits` | registry context is used for the allocations it was obtained for, though the row it is kept in carries the trade's name alone |
| | `RankingsAgree` | the signed receipt and the ledger's state one rank, for quotes whose times the millisecond tells apart |
| `PoolDesk` | `OneSnapshot` | the steps of one settlement are computed from one state of the pool |
| | `RetriesSettle` | a flow that is retried settles, while the pool and the registries are as its commands were first answered for |
| `Sessions` | `TokensTrue` | a token goes to a party that proved itself for it, and a proof serves one party (`TokenProven`); a tab holds the token of the party it shows (`TabOwn`) |
| `HostedWallet` | `ActsOnce` | a signed command happens at most once, and a result is kept only for what happened |
| | `Onboards` | onboarding that is tried again ends in a working account |
| `OrderDesk` | `ToldTrue` | an order said to be open is funded, one said to be cancelled is closed and holds nothing |
| `Funding` | `FundsFound` | the choice covers the amount, is found if there is one, and no consumed holding is used again |
| `Recovery` | `RecoveredInOrder` | where all allocations of the transaction are expected, what is recovered is all of them, in command order |
| `Screens` | `AsShown` | a swap pays what the card promised, and the very quote it showed while the pool rests (`SwapAsShown`); a deposit or redemption gives what its request said, and only the page's own minimum refuses it (`LiquidityAsTold`) |
| `RfqScreen` | `RfqShown` | a request under acceptance is not offered again (`OffersOnce`); what the page says of requests is so, as far as it was told (`RfqTold`); its rows are those of the list, but for what the page did itself (`RowsExplained`) |
| `Gateway` | `WithinRate` | no handle is admitted more than a bucket and what it regains |
| | `ServedProperly` | what is done for a trader is done on that trader's word, or the operator's |
| | `AnswersTrue` | a relayed command said to be done is done, with all it created |
| `Authoring` | `SettlesItsOwn` | a page names the allocations of its own request, by its own account, in the order of the request (`NamesItsOwn`), and nothing is authored twice (`AuthoredOnce`) |
| `WalletLink` | `LinkTrue` | no connection is offered over another; the account shown is the one that signs (`PageAgrees`, `SignsAsShown`), unless the user was hasty |

Bounds. `Flows` bounds the requests ever created: two give every race between two
requests (replay, crossing, half authorisation), and a redemption of everything, at once
with a bootstrap behind it or in two steps. `Slots` bounds the slices of a side: two are
enough for a draw that spans slices and for one that ends exactly at a boundary. The
input amounts are chosen so that roundings bite: 9 at a fee of 3% leaves a fraction of
an ulp at each of the four roundings; the offer of a deposit is short of one side, and
of the other once a swap has moved the ratio; redemptions leave remainders. `Scale = 10`
makes amounts of a few units exercise every rounding; the arithmetic theorems hold for
every scale. Flows and slots are symmetric: no action or property tells two of them
apart. Deadlock is checked in these runs: pause and resume keep the pool able to move.

In the order book, two orders a side give every cross that shares an order with
another (`races` has two bids on one ask, so that the second cross names what the
first left), equal limits (`fills`), and an order that is filled twice. Quantities
and prices are such that 15 at 0.7 locks 10 ulps and a fill of 5 costs 4: what is
left is an ulp short of paying for the rest, and the registry's coverage check
has to refuse it. A bid of 6 at 0.7 locks 4, which a fill of 5 uses up: it closes with
quantity left, and the run skips what it still planned for it. One fault is enough to lose an answer and to meet it again in a
second run; `MaxFaults` bounds it. Runs that may overlap are symmetric. These runs
set `CHECK_DEADLOCK FALSE`: when every order is closed the book really is at rest.

`backend` and `progress` explore each component by itself: the sum of twenty small state
spaces in place of their product. A component with two concerns that do not meet (the
pools and the RFQs of the indexer; the quotes and the settlement of a trade; keys and deals of a
session; the four concerns of the gateway) is explored once for each, and a resting
component starts in one pinned state. Two handlers, two arguments, two attempts and two
unrecorded outcomes give every race on a command id, a third submission included, and one
answer may come after its row has been released (`MaxLate`), which four calls exploit; two
rotations of the pool and two outages let two ticks overlap with a state between them
that neither saw, and a behaviour is left after a belated write, as nothing is claimed
behind it; two quotes of two dealers at three instants, two of them in one
millisecond (`Milli = 2`), rank in every order, and differently where both share it; two registries and two fundings a side make
settlements that lack a leg, name a lock that was taken back, or mix two fundings; two
calls of a settle route and one mishap (a lost answer, a crash, a new registry context, a
reading apart) give every overlap of two chains. `Few` and
`OneQuote` leave to the trader what either side could do. Purses have up to four
holdings of one to three units, amounts run to eight: exact, oversized, split, merged
and insufficient funds all occur. Recovery sees transactions of up to three commands in
every combination of forms. A swap or a deposit is of 200 ulps, a redemption of half or
of all that is held, in a pool of 700 and 330 with 470 LP tokens or in an empty one, at
ten ulps to the unit and to the displayed digit, with a tolerated slippage of half a
percent and two moves of others: each figure rounds somewhere, and a move is enough for
every refusal. A bucket of two requests that regains one in two ticks, swept every three
takes, is drained, refilled and forgotten, by a public request whose body is still being read (`MaxOpen`: one at a time)
among others; the clock may be set back, and a correction forward again is not modelled: it
would grant what elapsed time does not; one request of any route, subject and bearer
meets every site; a command is read back twice. Two pages make a request each and one
thing goes wrong: an answer is lost, or the wallet is switched. Two connections, two
clicks on Disconnect and two things a wallet does by itself give every overlap of two
calls of the store. On the RFQ page one request with at most one quote sees three clicks
and changes of the wallet (`OneClick`), polls before, between and after them, and one
lost answer. These runs stop when nobody asks for anything: `CHECK_DEADLOCK FALSE`.

Fairness, in `progress`: the indexer's timer keeps ticking and its queries are answered or fail
(`Polls`; outages are bounded and not fair); whoever wants a pool flow settled calls
until it is told and the backend goes on with some call it has (`Serving`), and some
submission is answered or some timer fires (`Responding`); a hosted wallet's user who
wants to be connected tries again, and a handler that has started goes on. Nobody has
to trade, quote or sign. Of the order book nothing is said to happen eventually: the
repository starts no matching run by itself, and a committed order need not be filled even
if runs keep being started, since the funds behind it may be put behind another
allocation, and an order whose funds are gone stays at the top of the book and takes the
quantity of the other side in every plan.

## Findings

- `CrossesPickedUp`: `order/matching.ts` (139-142) says that a cross behind a
  skipped self-trade "is picked up here or on a later run". The skip advances the
  ask, so it is lost to all other bids, and later runs do the same again.
- `OlderFirst`: `docs/guides/operator-guide.md` (258) says that the matcher "fills
  older orders first at equal price". Age is the create time of the current
  contract, and a partial fill creates a new one, so it costs the order its place.
  `FillsInOrder` has what does hold (`PriorityKept`): priority by the age of contracts.
- `ArchivedIsGone`: `indexer/index.ts` (152) promises a single flight.
  `Promise.all` rejects with the first failed query and the `finally` drops the flag
  while other queries of the tick are still out; the next tick starts beside them, and
  a late answer marks a live pool state archived. Nothing revives it until the pool
  rotates. Until such a write the property holds (`NeverAhead`), and is proved.
- `NeverAnothers`: `idempotency.ts` (93-95) has a command id mean one request, and other
  arguments rejected "rather than serving a stale cached result". An outcome is recorded
  under the command id alone. A first call is out for longer than a minute; a second takes
  its row over and fails; a third, with other arguments, takes over the errored row, as an
  exercise may; the answer of the first is then written over the third's row, and served
  to the next who asks what the third did. `OwnAnswer` has what does hold.
- `RetryAdmitted`: `docs/guides/operator-guide.md` (336) calls a crash mid-submission
  "Safe to retry". The first preview of a deposit or redemption is stored under the
  flow's id with the pool state's contract id among its arguments; once anything has
  rotated the pool, the retry is refused as a replay with different arguments for the
  row's lifetime of a day, while the allocations' `settleAt` is five minutes away.

Smaller things met while modelling, which no run is about:
- Of an update whose results name some allocations, while others are only active, the
  deployed server recovers nothing: `IdempotentLedger.treeAllocationCids`
  (`idempotency.ts` 189-194) drops the expected number, the merge of `json-api.ts` (432),
  which `json-api-ledger.test.ts` (212) tests on the bare driver, never happens, and the
  named ones pass for all there is until they turn out too few.
- Two browsers settling a two-party trade never do: each one's `settleMatchedTrade`
  gives up unless it authored for both sides (`ledger.ts` 1217-1222), and the web path
  leaves the `TradeAllocationRequest` live although a comment in `http/index.ts`
  (1641) says that accepting it archived it. A cached `mt-req` row makes a second
  `requestAllocations` throw.
- A preview of a trade that answered is kept under the trade's id: settling with other
  allocations is refused until the sweep. One that failed is taken over, as `ContextFits`
  allows for.
- `Rfq_Accept` compares expiry with a time its caller supplies (`Rfq.daml` 111). With two
  quotes of one dealer, or quotes in one millisecond, the service's rank and the
  ledger's may differ; `RankingsAgree` says when they do not.
- A swap whose settlement answer is lost is reported as "pool changed after the quote"
  when it is retried. The comment on `settleAt` ("auto-releases", `ledger.ts` 68-73)
  is not what committed deposits do.
- Placing an order: when the answer to funding is lost the order is live and funded,
  while its trader is told that it is stuck and shown a contract id that is gone; when
  the answer to binding is lost a pending order stays that nobody cancels. Cancelling a
  pending order leaves the allocations that were authored for it, although the toast
  says that the funds are released.
- A hosted wallet whose execution's answer is lost gets an error when it repeats it,
  although the command took effect; on a participant that refuses to allocate a party
  twice, a lost answer to the allocation leaves the account unusable (`Wedged`).
- The buttons of the liquidity panels stay enabled while a request is being submitted, and
  a deposit's id is the browser's clock in milliseconds. The amount that the page fills in
  for the second side is rounded to the displayed digits, and may so be further from the
  pool's ratio than the tolerated slippage: the deposit is refused, after its funds were locked.
- The feed: rotations that fall between two ticks are one row with the net of their amounts. A
  swap and its reverse leave a `state_change`; two opposite swaps may leave both reserves
  larger, and then what the row says was received was not. A swap whose other side rounds to
  nothing has no finite effective rate on the trade page.
- The gateway: the relay's outer catch (`http/index.ts` 1277) answers "submit proxy failed"
  without an update id also for a failure behind the commit, which the comment at 1234-1238
  means to report. The status polls are not single-flight: an older answer that comes late sets
  slot and synced back. An expired bootstrap token is metered under a handle of its own.
- Authoring: the relay lists what a command created in the order of the keys of an object, and
  settles whatever the wallet's capability flag says. No command that the client composes
  accepts a liquidity request, so the acceptance's id comes from trees alone, and
  `discoverAcceptance` is unused. The relay recognises allocations of its own template only: those
  of another registry's make it throw after the commit.
- The wallet store: two clicks on Disconnect may let the second, late one reset the store while
  a new connection is under way. The page then shows no wallet, or an older account, with the
  newer provider active; Disconnect does nothing any more and handing commands to the wallet
  fails until the page is loaded again. `LinkTrue` excludes hasty users for this reason. The
  branches at `store.ts` 48-51, and the one for a provider that is still active in the connect
  button, are not reachable from the page.
- The RFQ page: a cancellation that fails leaves the request hidden until the list changes,
  because equal results of a poll are shared and the effect that shows them is not run again.
  A request that was polled before its creation was answered is listed twice; one that is
  closed elsewhere before it is ever listed leaves a row behind, which is later said to have
  expired. When the answer to an acceptance is lost, the page neither shows nor settles the
  trade. Swapping wallets shows the rows of the party before, and forgets what was under way.
  The comment at `onCompose` has the compose window show the error, which `finally` closes.

`SettleAdd` puts what it takes into free slots. With every slot taken it is
disabled, which is a bound of the model and not of the code.

## Proofs

`PoolProofs` shows `Spec => []Inv` with
`Inv == TypeOK /\ ReservesBacked /\ SliceBacked /\ Lifecycle`, and from it the
theorems `TypeCorrect`, `ReservesAreBacked`, `SlicesAreBacked` and
`NeverOneSided`, for any traders, slots, flows, amounts, fee below 100%, dust and
scale. The four parts need each other: that a reserve does not become negative
(`TypeOK`) follows from the draw being covered by the slices and the slices
summing to the reserve (`ReservesBacked`); that a swap does not drain the side it
pays from (`Lifecycle`) follows from `ConstantProduct` and needs both reserves
positive, which is `Lifecycle` before the step. There is one lemma per
settlement (`SwapKeepsInv`, `AddKeepsInv`, `RemoveKeepsInv`) and one per group of
the other actions; `NextInv` combines them.

`PoolMathProofs` shows that `compareProducts` orders exact products
(`CompareExact`), that floors are floors, that a swap's output keeps the product
(`ConstantProduct`), and that a redemption of `lp` out of `supply` pays at most the exact
share (`out * supply <= r * lp`), and the whole of a reserve only for the whole supply
(`ShareOfReserve`). `TotalsProofs` holds the facts about sums.

`OrderBookProofs` shows four inductive invariants of `OrderBook`, for any orders,
traders, terms, runs, scale and number of faults. `Inv == TypeOK /\
FundingCovers /\ Unspent /\ Linked` gives `BookTypes` and `CollateralCovers`: a fill at a
price within the limit spends a bid's lock at most half an ulp faster than its
quantity (`BidPays`, from the bounds of half-even rounding), an ask's lock exactly
as fast; `Unspent` says that an order which is not funded yet still has its full
quantity, and is what funding starts from; `Linked` says that the allocations an order is
bound to are its trader's, of its side and not spent, and that what is locked is all that
the view says or nothing. Locks that are retaken and allocations that several orders share
are part of it: the fill of one order consumes or replaces what the others were bound to,
which unbinds them. `Once == Recorded /\ OneRow /\
SettledOnce` gives `NoCrossTwice`: the store admits one set of arguments for a
cross, and the ledger accepts a set once, because the bid's contract that it names
is consumed. There is one lemma per action that does something to either.

The third invariant, `Explained`, gives `TradesExplain`: an order without a lock has
nothing locked, so a lock that is made, released or spent moves a trader's amount between
`free` and `locked`, and a recorded trade is new to the set whose sums it enters.

The last two parts are about the matcher, for any book. `LoopInv` is the invariant of the
loop in `matchOrdersForPair`: the orders a cursor has passed are exhausted, or cannot cross
what is left on the other side, or are asks that met a bid of their own trader; what remains
of an order and what the crosses so far take from it add up to what it asked (`Filled`); and
the crosses lie within the limits of both. `FillKeepsLoop` and `PassKeepsLoop` show that a
turn keeps it, `ToComeFalls` that every turn but the last shortens what is `ToCome`, and
`Matched` that after as many turns as there are orders the loop has ended. The turns are
counted by a recursive function; its values are typed and followed with `Induction` of
`TotalsProofs`, which states induction for the set of numbers where a fact holds, so that no
operator is passed. `OrderedFills` reads `FillsInOrder` off the ended loop, which gives
`ProposesInOrder`. `RunKeepsUp` then follows a run through its own settlements: `RunsFollow`
says that every order a run still has to fill is either noted as closed, or has the contract
the run knows and at least as much left as the rest of the plan takes from it. Once the run
itself has filled the order, the order shares no allocation any more with those the run goes
on to fill (`Followed`, `SharesNone`), so that no later fill of the run unbinds it. Contract ids
must rank as a strict order for this (`BookAssumption`), as `localeCompare` ranks distinct ones.

`PoolPromises` builds on `PoolProofs`: `Kept` adds to `Inv` that everything authored is a
specification of well-formed terms (`Orderly`), and the books `CustodyAccounted`,
`Conservation`, `LpSupplyAgrees` and `OwnedByLps`. They hold together or not at all: what
a settlement moves is what was authored, and is moved in sums over accounts, requests and
slices at once. Each action is either a settlement or leaves the amounts of everybody
alone; a settlement changes a sum at two places, which `SumUpdateTwo` of `TotalsProofs`
adds up. From `Kept` follow `NothingIsLost`, `LpTokensCounted`, `LpsOwnTheReserves`, the
action property `AuthorisedOnly`, and `MarketMaker`, the refinement of `Amm`: the initial
state maps to an initial state, and each settlement to the step of its name, with the
four roundings of a swap, the ratio match and the dust of a deposit, the floor of a
redemption. It assumes `Overrides = {}`, as the supply an override records is the
registrar's to choose.

`ServiceProofs` treats the services behind the routes, one inductive invariant each.
- `Submissions`: `OnceEach` (`RepeatsExplained`) and `AnswersItsOwn` (`OwnAnswer`), for any
  number of callers, arguments, attempts, crashes, sweeps and late answers. `Spent` counts:
  effects, submissions that are out, and the one opening that a claimable row is (`Slot`)
  never exceed one and the unrecorded and overtaken outcomes together. `AnswersOwn` has it
  that a row keeps its arguments while a handler is out with them (`RowFits`) and that an
  answered row is answered for its own (`CachedIsOwn`): for a create always, for an exercise
  while no row has been released too early, when the only handler that is out owns the row
  (`OneOwner`).
- `Indexer`: `ProjectionNeverAhead` (`NeverAhead`), with ticks that overlap. Before a belated
  write, what the pool task of the tick that holds the flag has read is no newer than the
  ledger and no older than what is recorded; tasks of a tick that lost its flag may have read
  anything, and have written nothing.
- `Feeds`: `FeedTellsTruth` (`FeedTrue`), likewise. The states that have a row
  are, in their order, a path from the first recorded to the one that is live, and the rows of
  the feed are its steps (`PathInv`); sums telescope along it (`FeedAddsUp`). Neighbouring
  states differ as one choice says (`LedgerInv`), which the numbers tell (`KindIsBy`), so a
  feed without gaps has one row for each swap noticed, newest first (`RowsStand`, `NewestIs`),
  and the day's volume is the same sum under other names (`SumReindex`). What the history says
  follows from what its task and the trades' task have read (`HistoryInv`).
- `TradeDesk`: `SettlesBothLegs` (`BothLegsOrNone`) and `SettlesWithItsContext`
  (`ContextFits`): while the trade is live nothing is settled; the settlement takes, for each
  side and registry, the one allocation the batches name, and the context it carries is of
  the allocations its row was claimed for, by this call or an earlier one. `RanksAgree` (`RankingsAgree`):
  where the millisecond tells the times of quotes apart, dividing by `Milli` keeps their order.
- `PoolDesk`: `FromOneSnapshot` (`OneSnapshot`). A call that has come to a stage has every
  command before it answered for its own reading of the pool (`CallInv`), what the participant
  works on has a pending row of that reading (`FlightInv`), and a command that is answered has
  the stages before it answered for the same state (`AnswerInv`).
- `OrderDesk`: `TellsTheTruth` (`ToldTrue`). A cancellation that is answered has closed the
  contract it named for good (`Truthful`): no late bind or funding revives it, as an intent is
  bound once (`BoundOnce`).

`EdgeProofs` treats what stands between the services and their callers, and their pages.
- `Gateway`: `RateHolds` (`WithinRate`) from `Budgeted`: what a handle has drawn and what its
  bucket would grant now never exceed a full bucket together; a forgotten bucket is full.
  `GatesHold` (`ServedProperly`) from `Guarded`: a request that waits has passed the gates of
  its route (`PastTheGates`), and a token that expires takes its word with it.
  `RelayTellsTruth` (`AnswersTrue`) from `Informed`: the tree is read only of what has landed.
- `Sessions`: `TokensHold` (`TokensTrue`). An entry that was used was used by the party of
  its tokens (`ServesOne`), what is signed is signed for whoever the tab shows (`SignedFor`),
  and nothing is presented that was not issued (`IssuedOnly`).
- `HostedWallet`: `SignedOnce` (`ActsOnce`). A handler that executes does so within the
  lifetime of what was prepared, and the participant remembers a command for its `Window`,
  which is longer (`RowInv`): that is where `Lifetime < Window` is needed.
- `Authoring`: `NamesWhatItMade` (`SettlesItsOwn`). Every page is about a request of its own
  (`OneEach`), the allocations of a request are authored from the first to the last, and a
  page that may still author has all that is made for its request behind it (`Sound`).
- `WalletLink`: `ShowsWhoSigns` (`LinkTrue`). A user who was never hasty is away, connecting,
  connected or leaving (`AwayFrom`, `Connecting`, `Connected`, `Leaving`), with at most one
  call between two awaits; each call that resumes finds the store in the situation it left.
- `RfqScreen`: `PageTellsTruth` (`RfqShown`). Each request has an invariant of its own. A list
  that does not name a request the page knows was read after the request was closed or
  accepted (`Onward`), so while it is being accepted no list that is still to come can put an
  idle row back (`Held`); an acceptance is accounted for on the page, in an answer that is to
  come, or in one that was lost (`Accounted`).

- `Funding`: `FundsAreFound` (`FundsFound`). The largest few holdings that cover an amount
  exist whenever all of them together cover it (`LargestFew`, from a least number of holdings
  that are enough). Where nothing intervenes, what is left to merge is there and comes to more
  than the amount (`OnTheWay`); what a merge has consumed is among what the search for its
  result passes over (`Unspent`).
- `Recovery`: `RecoversInOrder` (`RecoveredInOrder`), for each of the three drivers. Distinct
  ranks can be sorted (`SortExists`); nodes of later commands rank later; a sort with as many
  members as there are allocations has every one of them.

`QuotesProofs` shows that the service computes what the ledger settles, for every
amount, fee and scale: `QuoteIsSettled`, `RefundIsSettled`, `RedemptionIsSettled`. One
side divides integers and drops the rest, the other multiplies and divides half even and
then corrects: both are the unique floor of the exact quotient (`FloorUnique`).

`IntegerRoot`: the iteration of `decimal.ts` ends with the integer square root of every
number. The recursive function exists because the iteration only recurses downwards
(`Descended`, by pasting together its restrictions to `1 .. n`); one step stays above the
root, and where it does not fall it is there (`NewtonStep`); the least start for which the
result were wrong gives the contradiction. Of the ledger's own iteration it is shown that it
returns an amount (`SqrtDecimalNat`).

`TellsWhatIsGot` (`AsShown` of `Screens`). A quote and an answer carry the number of the
PoolState they were computed for. The inductive invariant `ScreensInv` says that each tells
the truth as long as that number is the active pool's (`Quoted`, `Stands`), that the page's
own minimum is no more than what it shows (`Promised`; `SlippedDown`), and that reserves and
supply of the pool are zero together (`MarketInv`): any step that changes the pool raises
its number (`PoolMoves`), so nothing about the quotes has to be shown again. What the card says
of the price is the half-even quotient of a smaller fraction (`HalfEvenOrder`). The theorem
assumes `[]RootsAgree`: of a first deposit under way, the backend's root and the ledger's
differ by no more than `lpMintDustTolerance`. That is needed: of a product of one ulp the
ledger's first guess rounds to zero and its next step divides by it, where the backend
quotes the root. Every state the run reaches satisfies it.

Assumptions: the named ones of the modules. They say that bounds are natural numbers and
sets finite where sums are taken, and besides: `BookAssumption` (terms with positive limit
and quantity, contract ids that differ in rank), `PoolAssumption` (a fee below 10000 basis
points, initial reserves both zero or both positive), `OwnedAssumption` (LP tokens exist to
begin with exactly if reserves do), `ScreensAssumption` (the same of the pools that are found,
and of them the trader holds no more than the supply), `ScaleAssumption`, `GatewayAssumption`
(a bucket is forgotten only after it would have filled up: after ten minutes in the code, and
the slowest one fills in less), `HostedWalletAssumption` (`Lifetime < Window`: a prepared
command is executed within two minutes, the participant remembers it for ten), and in several
modules that no party is called "nobody". TLC evaluates them in the runs. `Overrides = {}`
and `[]RootsAgree` are hypotheses of the theorems that need them.

Model-checked only:
- that the ledger's square root, fifty steps of an iteration in rounded decimals, agrees with
  the backend's (it does not for every number; `RootsAgree` above);
- the liveness properties `Converges`, `RetriesSettle`, `Onboards`: fairness is out of the
  prover's reach.

## Not modelled

Numeric overflow; privacy (observers, disclosure); authorisation by signature —
every action is taken by a party that may; several pools at a time (on the ledger they share
nothing but the traders' holdings and, of one pair, the indexer's guess which pool a swap was
of: two pools of a pair that rotate between the same two ticks are not modelled); the individual holding contracts behind
`free`; transfers, splits and merges at the registry. Of the off-ledger code: the
transports of the wallets, encodings, the shapes of bodies (`http/validate.ts`), the scan
for mining rounds, the admin page with pair, dealer and configuration records (each write
replaces one record), the registry client's cache, scripts, and presentation. What is left of
the TypeScript is mostly markup, input and output, and tooling. `PROJECT.json` lists every
component with its status.

## Plan

1. `PoolSearch`: the bracketing search of `ceilMulDiv` against its result.
2. `Registry`: holdings and allocations as contracts, `settleBatch`, transfer
   instructions; conservation and lock discipline, with proofs; `AdminBatch`.
3. Proofs: where the ledger's square root agrees with the backend's.
