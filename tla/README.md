# Formal models of CryptoXchange

TLA+ specifications of the exchange in `src/`, the TLC runs that check them on
small instances and the TLAPS proofs that hold for every instance. Paths below
are relative to `src/`; "the engine" is the service in `cmd/engine`.

* [1. The system](#1-the-system): components, state, operations, interactions, hazards
* [2. What is modelled](#2-what-is-modelled): module by module
* [3. Runs](#3-runs): what TLC checks, bounds, fairness
* [4. What the code does not do](#4-what-the-code-does-not-do): the runs that end in a violation
* [5. Proofs](#5-proofs)
* [6. What is not modelled](#6-what-is-not-modelled)
* [7. Plan](#7-plan)

## 1. The system

```
 browser --HTTP--> API --LPUSH messages--> [Redis list] --BRPOP--> ENGINE
    ^               ^  <----PUBLISH clientId (one reply)------------|  |  |
    |               |                                               |  |  +-- snapshot.json
    |               +-- Postgres (transfers, users, reads)          |  |
    |                        ^                                      |  +-- LPUSH db_processor
    |                        +---- DB WORKER <--BRPOP-- [Redis list]<--+
    +--WebSocket-- WS SERVICE <---- PUBLISH depth@M, trades@M ------+
                                             MARKET MAKER --HTTP--> API
```

| Component | State | Operations | Interacts through | What makes it correct |
|---|---|---|---|---|
| Order book, `cmd/engine/orderbook.go` | bids and asks of one market, last trade id | `AddOrder` (match, rest), `CancelBid`/`CancelAsk`, `removeFullyFilledOrders`, best prices | called by the engine only | price-time order; nothing crosses; priority respected; remaining quantities true |
| Engine, `cmd/engine/engine.go`, `user.go` | order books, balances (available, locked), names | one handler per command, under one mutex | replies, rows on `db_processor`, publications | money neither made nor lost; every lock has an order behind it; ledger adds up; rows tell the truth; refusals change nothing |
| Snapshot and lifecycle, `cmd/engine/main.go`, `SaveSnapshot`, `loadSnapshot`, `ensureMarkets` | memory, `snapshot.json`, its `.tmp` | tick, marshal, write, rename, SIGTERM, kill, boot | the engine's mutex, the file system | readable at all times; no command in it that is only half told to the database; never lost once written; sooner or later complete |
| Command bus, `cmd/api/redismanager.go`, `cmd/engine/redis.go` | a Redis list, one reply channel per request | send, wait, time out, retry reads, answer once | API to engine | the code sends a write once; a reply reaches the request it answers |
| Deposits, `cmd/api/balance.go`, `internal/store/transfer.go` | `transfers` rows: pending, confirmed, failed | claim the key, credit, mark, replay | Postgres, bus | one key credits at most once; the status says what happened |
| Database worker, `internal/kline/processor.go` | tables `orders`, `ledger`, `sol_prices` | one handler per row type | Redis list, Postgres | rows converge to what the engine did |
| Retention and reconcile, `cmd/api/cron.go`, `balance.go` | `ledger` | compact, prune, reconcile | Postgres, bus | sums do not change; seed rows stay |
| WebSocket fan-out, `internal/ws`, `cmd/websocket` | users, subscriptions both ways, the Redis subscription | connect, subscribe, unsubscribe, disconnect, broadcast | Redis pub/sub, goroutines per connection | the two maps agree; a live subscriber gets its stream; nothing leaks |
| Market maker, `cmd/marketmaker` | ladder ids, prices | tick: cancel, place, trade; start-up clean-up | HTTP | its ids cover what it has on the book |
| API handlers, auth, users, trades | Postgres tables | forward one command or read one table | HTTP, bus, Postgres | status codes tell what happened |
| Frontend streams, `frontend/app/utils` | socket, subscriptions and callbacks | subscribe, reconnect, resubscribe | WebSocket | every live callback is served again after a reconnect |
| Schema and views `internal/dbase`, seed script, market list, pages | - | - | - | not state machines of their own |

What is hard here, and hard to test (each one at its line under "hazards" in
`PROJECT.json`):

* *Long legal sequences.* A lock is taken once and given back in parts by fills,
  refunds, market remainders and cancels; the parts have to add up whatever the
  sequence. The same holds of the executed quantities, which travel as deltas.
* *Rounding.* Prices pass through eight decimals on some paths and not on
  others, and a remainder below 1e-9 counts as nothing on some paths only.
* *Two goroutines that save, one that processes, and kills.* The mutex covers
  marshalling but not the file operations.
* *Queues without acknowledgement.* `BRPOP` removes a message before it is
  handled; replies are published to whoever listens at that moment; the API
  stops waiting after 30 s.
* *Views assembled from several reads,* such as reconcile, and statements that have to select
  the same rows twice, such as the folding of old ledger rows.
* *Clients whose memory is shorter than the book's:* the market maker knows its orders only by the ids
  it was told and still holds.
* *Connections that end while they are being set up,* or twice under one id.

## 2. What is modelled

### Sums, Orderbook

`Orderbook` holds `orderbook.go` as operators on one side of one book, a
sequence of orders. Bids and asks are mirror images in the source and one
operator with the side as a parameter here. The matching loop appears as what
it computes: `FilledQty[i]` is the `filledQty` of iteration *i*, the part of
the taker's quantity that what the first *i* makers offer covers, less the part
the first *i - 1* covered. `InsertPosition` is the insertion loop,
`RemoveFullyFilled` the removal with its dust threshold, on `Kept`, which every loop that keeps a part of
a list is; `BestPrice` the price of `GetBestBidAsk`. `Sums` has the running sum the loops' accumulators become, as a
recursive function so that proofs can use it, and `SumOver`, the `SUM` of a query.

### Engine

| Variable | In the code |
|---|---|
| `book`, `lastTrade` | `Orderbooks[m].Bids`, `.Asks`, `.LastTradeID` |
| `bal`, `held` | `Balances`: amounts, and which entries exist |
| `named` | `Users` |
| `ledger` | the sum of the `LEDGER_ENTRY` deltas pushed, per account and asset |
| `orders` | the table the `ORDER_UPDATE` messages build, `handleOrderUpdate` applied |
| `volume` | the quantity on `TRADE_ADDED` rows, per market |
| `reply` | the last `sendToAPI` |

`Process` holds the engine mutex for a whole handler, so each handler is one
action: `CreateOrder` (with `Accept`, the part after the checks), `CancelOrder`,
`OnRamp`, `CreateUser`, `UnknownCommand`. The early returns are its other
disjuncts, in the order of the code, including the entry that
`CheckAndLockFunds` leaves in the balances of an account that cannot pay and the
lock taken and undone when the side is neither buy nor sell. Inputs are those a
client can send: any market (also one without a book), sides, limit and market
orders, zero for whatever is not a positive number, ids of any order ever
issued, and cancels of any order by anybody, as the handler has no owner check.

Quantities are integers in units of what a client orders. Prices are integers
in units of which `PriceTick`, a multiple of 20, makes the eighth decimal: so the
5% slippage is exact and `FormatNum` is the rounding of `formatNum`.
`Dust[a]` is `dustEpsilon` in units of asset *a*.

### Snapshot

The engine process around its memory. A command is opaque here: what counts is
whether memory, the snapshot and the database reflect it. `Pop`, `Apply`, `Push`, `PushFails`,
`Finish` are the message loop with the mutex held from `Apply` to `Finish`; a push that Redis refuses is
logged and the handler goes on with the next row (`engine.go:612`, `redis.go:53`), so `pushed` and `lost` count
what became of a command's rows, and the handler ends when it has come to the end of them;
`Marshal`, `Open`, `Write`, `Rename`, `SaveFails` are `SaveSnapshot` in either
goroutine (`ticker`, `signal`); `Sigterm`, `Exit`, `Kill`, `Boot` the process. A
file is absent, empty, torn or whole with an image. Files are modelled as the
operating system treats them: opening truncates, a rename takes the file along
for whoever has it open, and two writers of one file may leave it torn. A
`Poison` command is one that leaves a NaN or an Inf in a balance, of which
`json.Marshal` fails for the snapshot and for its own ledger rows.

### Deposits

A `POST /onramp` from the request to the engine and back, several at once.

| Variable | In the code |
|---|---|
| `stage`, `task`, `attempt` | where `onRampHandler` and the `SendAndAwait` in it are, the command it sends, the retry it is at |
| `inbox` | what arrived on the attempt's reply channel |
| `transfers` | the `status` of each row, or "none" |
| `queue` | the Redis list `messages` |
| `engine`, `current` | the engine's loop, and whether the mutex is held |
| `memory`, `saved`, `ledger` | how often each deposit is in the balances, in the snapshot, in the rows pushed |

`Claim` is the `INSERT ... ON CONFLICT DO NOTHING`: the request that gets the key sends
`ON_RAMP`, a replay `GET_BALANCE`. `ClaimFails` is an insert that reports an error, committed or
not. `Subscribe`, `Push`, `Receive`, `GiveUp` and `SendFails` are one attempt, `AttemptFailed`
the loop around it, `Mark` the status update with its ignored error. The deadline is not a clock: `GiveUp` may
come at any time of the wait, also when the answer is already there. `Answer` reaches
whoever listens at that moment. One push queues one message or none: that the Redis client does not send an
`LPUSH` again by itself is an assumption (section 6). `ApiCrash` and `EngineCrash` end a process; Redis and Postgres
keep what they have, and the engine boots from `saved`, which `Save` (the whole of `Snapshot` in one
step) renews. A key in `Refused` stands for an amount of "NaN": `amount <= 0` in the API and
the `NUMERIC` column take it, the engine does not. Commands of other handlers
use the same bus and follow the rules of one of these two.

### Transfers

The promise behind `Deposits`, on two variables: the status of each key and how often it is credited. Claim first, credit
once, confirm only what is credited or refused, settle once. `Deposits!DepositsKeepPromise` says that the
protocol implements it (`status <- transfers`, `booked <- ledger`); it is a property of `DepositsReplays` and a theorem.

### Ledger and Postings

The `ledger` table from the engine's memory to the reconcile endpoint.

| Variable | In the code |
|---|---|
| `holding`, `image` | `Available + Locked` per account (user and asset) in memory and in `snapshot.json` |
| `out` | the ledger rows the handler that holds the mutex, or `ensureMarkets`, has still to push |
| `list`, `hand` | the Redis list `db_processor`; the row `StartDataProcessor` has popped |
| `table`, `nextId`, `now` | the rows of `ledger`, its `BIGSERIAL`, the database's clock |
| `fold` | the transaction of `compactLedger`: when it began, what it inserted, what it deletes |
| `check` | the request in `reconcileHandler`: the sums it read, the totals it has asked for |
| `exact` | the accounts nothing has gone wrong for (no variable of the code) |

A command is the rows it pushes: one for a deposit, one for each account a fill changes. `Restart` boots from the
image or seeds again, and then tells the seed rows again, too; `Insert` has the unique index on seed rows;
`FoldInsert`, `FoldDelete`, `FoldCommit` are the statements of `compactLedger`, whose `now()` is the time the
transaction began while the worker inserts beside it; rows are lost by a failed push, a failed insert, or
the API process dying with a row in hand. There is one worker and one cron job, because both are goroutines of the
API process, and the deployment pins that to one container.

`Postings` is what the table promises: postings go in in the order they were told or are lost, each
at most once, an opening credit once per account, and a balance is the sum. `Ledger!ActsAsAppendOnly` says that table, list
and folding implement it, with `booked[a]` as the sum of the rows of `a`.

### MarketMaker

The bot against the book of one market (markets share nothing in it). One request after the other, so `plan` is
the requests of the current part of the code, the first of them under way; `ids` is what `placeLadder` collects, or `sellID`;
`resting` the ladder of the last tick. A request is `Answered`, `Refused` (400), or `Unanswered`: then it was executed, never
will be, or will be later (`late`), as the API waits three times as long as the bot. `Boot` reads
the open orders of both accounts and cancels them; `Crash` forgets everything but the book. `OthersTake` is everybody else's
trading. The book's side uses the matching of `Orderbook`. Prices are a few neighbouring points, so that a step reaches the
ladder's inner rung; an id nobody knows any more is used again, the least of them (`FreshIds`), as one stands for all.

### Subscriptions

The WebSocket service: every connection's goroutine, the maps they share, and the one goroutine that
sends what Redis publishes.

| Variable | In the code |
|---|---|
| `pc` | where a connection is between the upgrade and the end of its `onClose` |
| `alive` | the browser is there and reads |
| `left` | `userSubs`, the copy `UserLeft` works through |
| `users` | `UserManager.users` |
| `subscriptions`, `entries` | `subscriptions` and its keys |
| `reverse` | `reverseSubscriptions`, as how often a user stands in a stream's list |
| `channels`, `pubsub` | `subscribedChannels`, and what Redis was asked for |
| `dispatching`, `todo` | `redisCallbackHandler` and the users it has still to serve |
| `due`, `reached` | of the running message: who was to see it, and to whom it was written (no variables of the code) |

`Subscribe` and `Unsubscribe` hold the manager's mutex and are one step; `UserLeft` is three kinds of steps (`Copy`,
`Leave`, `Forget`), as it takes the mutex once for each. `AddUser` is `Accept` and `Register`, `removeUser` starts with
`RemoveUser`. `ReadEnds` is a close or the read deadline of a browser that is gone. A write to such a browser
(`Emit`) may seem to succeed or fail; a slow browser that misses the write deadline counts as gone. `IdOf` says which
connections share an id: a signed-in user's do, one without a token has an id of its own. The slot of a connection
that is over is used again by a later one, so there are arbitrarily many in a history.

### MCEngine, MCSnapshot, MCDeposits, MCLedger, MCMarketMaker, MCSubscriptions

The instances: names, symmetry sets and the seeds, prices and dust of each run.

### OperatorProofs, EngineProofs, EngineMoneyProofs, SnapshotProofs, DepositsProofs, LedgerProofs, SubscriptionsProofs, MarketMakerProofs

See [5. Proofs](#5-proofs).

Operators whose comment starts with "Mutant" are not part of any specification.
Each is a plausible bug in the operator that follows it; `PROJECT.json` says
which property finds it.

## 3. Runs

Every run is `tlc -config <cfg> <module>`.

| Run | Instance | Shows |
|---|---|---|
| `EngineTrading` | 2 traders, 1 market, prices 1 and 2, quantities 1 and 2, limit and market orders, 3 accepted orders, no deposits; 52,039 states | types, ledger, no negative balance, every lock has its order, price-time order, no crossed book, rows match the book, tape matches rows, trades conserve value, priority, refusals change nothing, cancels refund the lock |
| `EngineAccounts` | 2 ids, deposits, a new account, 2 markets sharing the quote currency, 2 accepted orders; 121,633 states | an id CREATE_USER hands out is nobody's yet; locks of two markets do not mix, cancels sent to the wrong market included |
| `SnapshotSaves` | 2 commands of 2 rows, 2 kills, failed pushes or failed file operations, 2 SIGTERMs, fair; 264,390 states | types, no command in the snapshot with rows still to push, memory never behind the snapshot, nothing saved is lost before the first SIGTERM, everything applied is saved in the end |
| `DepositsReplays` | 2 requests with one key beside a third whose amount the engine refuses, 2 attempts of reads, 2 crashes, fair; 249,460 states | types, one credit per key, a confirmed transfer is in the ledger, every reply is the request's own, a status settles once, every request ends, all of it implements `Transfers` |
| `LedgerRows` | 2 accounts, one of them seeded, 1 command, clock to 2 with a retention of 0, 3 faults, 1 reconcile; 541,957 states | types, holdings are the sums of the rows for whom nothing was lost, folding deletes what it summed, reconcile's answers can be trusted for accounts at rest, all of it implements `Postings`: a seed told again after it was folded would break that |
| `MarketMakerTicks` | 1 rung, 1 trade a tick, 2 prices, 12 ids, 1 unanswered request or failed read, any refusals and crashes; 1,892,144 states | types, every order of the bot's accounts is one it will pull, but for those a request or a read without an answer was about and the legs of finished trades, whose ids it drops |
| `Subscriptions` (`SubscriptionsAnonymous.cfg`) | 2 connections without a token, 3 streams, fair; 33,800 states | types, both maps and Redis agree, a message reaches everybody due, nothing is left of who is gone, who is gone is forgotten |

*Why these bounds are enough.* Three accepted orders are the least with which an
order rests, is partly filled, and is filled again or cancelled, and with which
one taker sweeps two makers; two quantities make partial fills, two prices make
price improvement and priority. Balances (`TradingSeed`) are small enough that
accounts run out of funds. The state bounds are `MaxOrders`, which stops only
the acceptance of new orders (cancels and refusals go on), `MaxHeld`, which caps
deposits, `MaxFaults` and `MaxSigterms`. Two faults allow a kill during a save
after an earlier one failed; two SIGTERMs a shutdown of two lives. Every property
is also broken by at least one mutant under the bounds of its own run. For deposits, two
requests with one key are a claim and its replay, the third is the stranger whose reply could be mistaken; two
crashes let the API and the engine die in one history, and a deposit is in one place at a time. Of connections two are
enough for one to leave while the other is set up or served, and the theorems about them hold for any number and for
shared ids; nothing in `Subscriptions` needs a bound. In `LedgerRows`
`MaxTime` lets a carry row be folded again, `MaxCommands` has a command with a row for each of two accounts, and
`MaxFaults` pays for a lost row and a lost snapshot with a restart; with one reconcile under way at a time, one is
enough. In `MarketMakerTicks` `MaxStrays` stops the bot from trading while an order is on the book that
it has given up, since those accumulate without end (they do in the code); `MaxFaults` counts requests without an
answer and reads that fail, whereas refusals and plain crashes are free. `Ids` is large enough that there is always an unused one.

*Deadlock* is checked in every run: in each model something can always happen.

*Symmetry* is used for interchangeable traders (`EngineTrading`) and markets (`EngineAccounts`), and in no run with a
liveness property.

*Fairness.* Only `SnapshotSaves` (and `SnapshotNaN`), `DepositsReplays` and `Subscriptions` assume any. In
`Subscriptions`: weak fairness of what a connection's goroutine and the dispatcher do by themselves, as goroutines are
scheduled, and reads and writes have deadlines (60 s, 10 s); none of browsers and Redis. In
`DepositsReplays`: weak fairness of the steps of a running handler, as each wait in it has a deadline (5 s for the
subscription, 30 s for the reply); none of the engine, which may never answer. One wait has none: `MarkStatus`
is a `db.Exec` without a deadline, so `EveryRequestEnds` takes it that the database answers or reports an error. In `Snapshot`: weak fairness of
`Apply`, `Push`, `Finish`: a handler that has started runs to its end, as the
goroutine is scheduled and Redis calls return. Weak fairness of the steps of a
save: the ticker's goroutine is scheduled. Strong fairness of `Marshal`, because
it needs the mutex, which the loop takes again and again: a Go mutex in
starvation mode hands itself over to a goroutine that has waited for a
millisecond. No fairness is assumed of commands, signals, kills or restarts; a
process that dies is an allowed way out of `EventuallySaved`. `Ledger` and `MarketMaker` have safety
properties only: rows may be lost for good, and the bot promises no progress when the API does not answer.

*Exact prices.* `NeverNegative`, `LocksCoverBook`, `CancelRefundsTheLock` and
`RowsMatchBook` are checked for prices and quantities with at most eight decimals
and without dust, and proved for those above it. Finer ones break the first three in the code, in the ways the
next section names. `Reconciles`, the order of the book and the conservation of value do not need that
restriction and are proved without it.

*One saver.* `SavedStays` is claimed until the first SIGTERM: with two saves at
once a torn file or an older image can replace the snapshot (`SnapshotRace`). Up to then
only the ticker saves, and kills and failures do not matter.

## 4. What the code does not do

Runs that check one statement of a comment, the documentation or a test and end
in a counterexample:

| Run | Statement | What happens |
|---|---|---|
| `EngineDust` | no lock is left without an order (`cmd/engine/orderbook.go:307`, `engine.go:546`) | a maker whose remainder is at most 1e-9 leaves the book (`orderbook.go:319`), its lock stays: the sweep runs for the taker and on a cancel, never for the maker |
| `EngineCancelReport` | a cancel reports what had executed (`reply_test.go:74`) | what an order executed on entry is not in its `Filled` (`orderbook.go:84`), so it is not in the report |
| `SnapshotRace` | "either the old snapshot or the new one" (`engine.go:128`) | SIGTERM during a tick: both saves use the same temporary file and one renames what the other has just truncated; if the process dies then, the next boot finds no snapshot |
| `SubscriptionsLeak` | the clean-up leaks nothing (`internal/ws/subscription.go:107`, `user.go:36`) | a reload or a second tab of a signed-in user: what the new session subscribes to while the old one's `UserLeft` is between its copy and its delete (`subscription.go:111`) stays in `reverseSubscriptions`, and Redis goes on sending it, with nobody connected |
| `SnapshotNaN` | a NaN must be rejected at the parse (`engine.go:361`), a snapshot every 5 seconds (`README.md:9`) | `CREATE_USER` with amount "NaN" passes `parsed < 0` (`user.go:29`): no later save succeeds |

Seen on the way, without a run:

* A price with more than eight decimals is locked exactly and settled rounded, and the difference stays
  locked. At a price of 1.4e-8 the best price reads 1e-8 and the 5% of a market order do not reach it: it executes
  nothing.
* A transfer marked `failed` may be credited afterwards, since the command stays on the list when the API stops
  waiting. One that the engine refuses is marked `confirmed`, as any reply counts. A row stays `pending` although the engine
  answered when `MarkStatus` fails, and reconcile, which never reads `transfers`, does not notice. A key whose command
  never left the API is used up, and a retry with it gets a balance without the deposit. A confirmed deposit is missing from the
  engine's balances when the engine dies before the next snapshot. `CreditedOnce` and `ConfirmedIsRecorded`
  hold in spite of these.
* On SIGTERM (`cmd/engine/main.go:30-38`) the loop goes on between the last marshal and `os.Exit`, so what is processed
  then is recorded in Postgres and in no snapshot.
* A restart from a snapshot takes back `LastTradeID`, so trade ids and the ledger's refs repeat, and ids of users made
  after the snapshot are minted again. Resting orders come back whose rows say filled or cancelled.
* `compactLedger`'s comment promises "exactly one carry row per (user, asset)" (`cron.go:77`); a carry row is folded again
  only after two days, so the hourly job leaves up to 48 of them.
* `pruneOldData` deletes the rows of orders older than two days that still rest; later increments for them change nothing.
* `handleOrderUpdate` expects an order id to be created twice after a restore (`processor.go:143`). No execution has that: the
  command was popped, and every accepted order gets a new UUID.
* Reconcile only asks about accounts the ledger has, and counts rows still on the list as drift, or hides
  a drift of the same size behind them. `AlarmsAreReal` says when it can be trusted.
* When the price has walked past the ladder's inner rung, the market maker's buy leg is filled by its own cheaper ask and the sell leg
  rests; with both legs placed its id is dropped (`cmd/marketmaker/main.go:160`), and so it stays until somebody crosses it or
  the bot restarts. `NothingPilesUp` exempts it. The "one permanent orphan per failure" that `main.go:164` mends is the other way to the same state.
* The Redis client may do what `SendAndAwait` takes care not to (`cmd/api/redismanager.go:49`): go-redis v8 sends a command again, up
  to three times, when its reply is lost or late, unless `MaxRetries` says otherwise, and `internal/rediscfg/rediscfg.go:28` leaves the
  default. A deposit can then be queued twice by one `LPUSH` and credited twice, and a ledger row be booked twice.
* Of two sessions under one id, the one that ends first takes the other out of the users map and off every
  stream (the code knows this of colliding ids, `usermanager.go:68`).

In `EngineDust` quantities are in tenths of the eighth decimal, where one unit is
`dustEpsilon`, and the quote asset has no dust, so the two thresholds of the run
are not mixed.

## 5. Proofs

`tlapm <module>.tla` checks each module; nothing is left unproved.

| Theorem | States | Along which argument |
|---|---|---|
| `EngineProofs!TypeCorrect` | `Spec => []TypeOK` | with the next one: `Inv == TypeOK /\ Reconciles` is inductive |
| `EngineProofs!LedgerReconciles` | `Spec => []Reconciles` | what an account holds, free plus locked, equals the sum of its ledger rows |
| `EngineProofs!BookInPriceTimeOrder` | `Spec => []PriceTimeOrder` | `BookInv` is inductive |
| `EngineProofs!BookUncrossed` | `Spec => []Uncrossed` | `BookInv` |
| `EngineProofs!TradesRespectPriority` | `Spec => PriorityRespected` | an action property, from `BookInv` |
| `EngineProofs!NewAccountsStartEmpty` | `Spec => NewAccountsAreFresh` | an action property of every CREATE_USER that is answered, from `BookInv` |
| `EngineProofs!TradingConservesValue` | `Spec => TradesConserveValue` | an action property, from `Reconciles` before and after the step |
| `EngineMoneyProofs!EveryLockHasItsOrder` | `AmountsAboveDust`: `Spec => []LocksCoverBook` | `MoneyInv` is inductive |
| `EngineMoneyProofs!NobodyOverdraws` | `AmountsAboveDust`: `Spec => []NeverNegative` | `MoneyInv` |
| `EngineMoneyProofs!RowsTellTheBooks` | `AmountsAboveDust`: `Spec => []RowsMatchBook` | `MoneyInv` |
| `EngineMoneyProofs!TapeTellsTheTrades` | `AmountsAboveDust`: `Spec => []TapeMatchesOrders` | `MoneyInv` |
| `EngineMoneyProofs!RefusalsLeaveNoTrace` | `AmountsAboveDust`: `Spec => RejectionChangesNothing` | an action property, from `MoneyInv` |
| `EngineMoneyProofs!CancelsRefund` | `AmountsAboveDust`: `Spec => CancelRefundsTheLock` | an action property, from `MoneyInv` |
| `SnapshotProofs!SnapshotTypes` | `Spec => []TypeOK` | one case per action |
| `SnapshotProofs!OnlyWholeCommands` | `Spec => []SnapshotHoldsWholeCommands` | `WholeInv` is inductive |
| `SnapshotProofs!MemoryCovers` | `Spec => []MemoryCoversSnapshot` | `CoveredInv` is inductive |
| `SnapshotProofs!SavedForGood` | `Spec => SavedStays` | an action property, from `AloneInv == CoveredInv /\ TickerAlone` |
| `DepositsProofs!DepositTypes` | `Spec => []TypeOK` | `ClaimInv == TypeOK /\ Claims` is inductive |
| `DepositsProofs!OneCreditPerKey` | `Spec => []CreditedOnce` | `Inv`, beside `ClaimInv` |
| `DepositsProofs!ConfirmationIsTrue` | `Spec => []ConfirmedIsRecorded` | the same |
| `DepositsProofs!RepliesAreOwn` | `Spec => []OwnReply` | the same |
| `DepositsProofs!SettledStays` | `Spec => StatusSettlesOnce` | an action property, from `ClaimInv` |
| `DepositsProofs!DepositsImplementTransfers` | `Spec => DepositsKeepPromise` | a refinement: initial states and every step, from `Inv` |
| `LedgerProofs!FoldDeletesWhatItSummed` | `Spec => []FoldIsExact` | `Inv == TableInv /\ FoldInv /\ OneSeedRow` is inductive |
| `LedgerProofs!LedgerTypes` | `Spec => []TypeOK` | part of `SumsInv` |
| `LedgerProofs!HoldingIsTheLedgersSum` | `Spec => []ExactUnlessLost` | `SumsInv`, with `Inv` in it, is inductive |
| `LedgerProofs!ReconcileTellsTheTruth` | `Spec => AlarmsAreReal` | an action property, from `CheckInv` beside `SumsInv` |
| `LedgerProofs!LedgerIsAppendOnly` | `Spec => ActsAsAppendOnly` | a refinement: initial states and every step, from `SumsInv` |
| `SubscriptionsProofs!SubscriptionTypes` | `Spec => []TypeOK` | first part of `Inv` |
| `SubscriptionsProofs!SubscribersAreServed` | `Spec => []RecordedAreServed` | inductive beside the types |
| `SubscriptionsProofs!MapsStayInStep` | `Spec => []MapsAgree` | `SessionInv` |
| `SubscriptionsProofs!GoneLeavesNothing` | `Spec => []NothingIsLeft` | `SessionInv` |
| `SubscriptionsProofs!FanoutIsComplete` | `Spec => []MessageReachesAll` | `DueIsServed`, from `RecordedAreServed` |
| `MarketMakerProofs!MarketMakerTypes` | `Spec => []TypeOK` | part of `Inv` |
| `MarketMakerProofs!NothingIsAbandoned` | `Spec => []NothingPilesUp` | `Inv`, one part for each phase of the bot, is inductive |

*Assumptions.* Only `ConstantsAssumption`, `SnapshotAssumption`, `DepositsAssumption`, `LedgerAssumption`, `MarketMakerAssumption` and
`SubscriptionsAssumption`, named where the
constants are declared and evaluated by TLC in every run. They fix kinds of
numbers, that the quote currency has no market of its own, and that users and markets are finitely many, without which
the sums in `LocksCoverBook` and `TradesConserveValue` mean nothing. Users, markets,
prices, ticks, dust and bounds are arbitrary otherwise.

The theorems of `EngineMoneyProofs` have a hypothesis besides, `AmountsAboveDust`: prices and quantities have at
most eight decimals, `dustEpsilon` is less than the eighth decimal of a quantity, and no more than what that least quantity
is worth at any price. In the units of the code, where `dustEpsilon` is 1e-9 (`cmd/engine/orderbook.go:312`), that is any quantity of whole
1e-8 and any price from 0.1 up; lower prices are outside of it (the lowest of the listed markets starts at 0.15, `internal/markets/markets.go:21`). The constants of `EngineTrading`
satisfy it. It is needed: `EngineDust` has quantities below it, and ends with a lock that no order backs; of a price with
more decimals a part stays locked (section 4).

*LedgerReconciles.* `Reconciles` is about total holdings, so locking, unlocking,
refunding and sweeping drop out (`SameTotals`: these only move value between the
two fields), deposits add to both sides, and what remains is the settlement of an
order: `SettlementTotals` shows that, for every account and asset, the change in
available plus locked is exactly `LedgerLegs`, with the taker also being one of its
makers included. Rounding and dust do not enter, because balance and ledger use
the same printed price. It needs the type invariant for the sums to be integers;
`OperatorProofs` has what that takes of the operators (matching, insertion and removal return
well-typed sides, filled quantities are integers) and of the sums.

*The operators.* `OperatorProofs` says of every operator of `Orderbook` and `Sums` what the invariants need: a filter keeps
the order of its list and every element it should (`KeptWhere`), insertion keeps a side in order, makers are filled from
the front and only the last of them in part, fills add up to what was executed, rounding leaves what has eight decimals
as it is; sums add, split, and do not care through which one-to-one map they are taken. All of it
is about recursively defined functions and is proved by contradiction: of the prefixes, or the subsets, that fail, a
least one (`LeastNumber`, `SubsetInduction`), since the library's induction theorems cannot be used here.

*The books.* `NextOutcome` first reduces a step of the engine to one of seven outcomes (`Outcome`: refused, refused for lack of funds, lock taken and
given back, order placed, order cancelled, deposit, new account), so that each invariant is shown over outcomes and not over every early return of
every handler. `BookInv` adds to types and ledger that each order is filed under its side with an issued id (`Filed`) and once (`OnceOnBook`), and
that whoever has an order has an entry in the balances, so that `nextUserID`, which passes every number with a name or an entry, hands out neither theirs nor anybody else's (`Fresh`). `PriceTimeOrder`
needs that new ids are larger than those on the book, which is `Filed`; `Uncrossed` needs `PriceTimeOrder` as it was
before the step: with a side in order, the makers that cross are the front of it, and the loop, which walks on past those that do not,
takes nothing behind them. `PriorityRespected` follows as makers are
filled from the front of an ordered side.

*The money.* `LocksCoverBook` is not inductive by itself. `MoneyInv` adds that what rests is a whole amount at a price a client sent, with something left
(`OrdersSound`); that rows and books tell the same (`RowsInv`, `TapeMatchesOrders`); and that what is available is not negative
(`AvailableOK`). The argument for a trade: the lock of the taker is what it pays at its own
price for all it ordered; what it gives to makers, what comes back to it as price improvement and what its remainder keeps
add up to that, and each maker's lock shrinks by what the maker gives. As amounts are whole, removal takes an order off the book exactly when
nothing is left of it, and no sweep of dust takes more than is there. A taker that trades with itself is one of its makers, in all of these.

*OnlyWholeCommands.* `SnapshotHoldsWholeCommands` alone is not inductive: it says nothing of images
that are not in the snapshot yet. `WholeInv` adds that the rows of everything in memory are
done, pushed or refused by Redis, except those of the command inside the mutex (`Accounted`), and so
are those of every image, in a saver's hands or in either file (`ImagesTold`). Marshalling needs the
mutex, so it sees only commands that are done; done is for ever; every other step
only moves images between places. What a failed push loses is lost: the theorem does not say that the database has all
rows of what is saved, which is false of the code (`Ledger!PushFails` is the ledger's side of it).

*MemoryCovers.* The delicate place is the temporary file, which may still hold the
image of an earlier life that died before its rename. `CoveredInv` says that what
savers hold is in memory, and the temporary file too from when a save of this life
has opened it, which truncates it; a rename only ever follows that. It holds with
both goroutines sharing the file.

*Deposits.* That a key is credited at most once is not visible in a state where the credit is
still to come, so `Inv` follows a deposit on its way: one request at most has claimed a key, and
the row is pending while it runs (`Claims`); a deposit is on the list or in the engine's hands at
most once, not before it is pushed and by a request that does not push again (`SentOnce`);
until the engine applies it there is no ledger row (`NotYetCredited`) and from then on there is
one, so also when an answer to it arrives (`CreditedBefore`); messages say truly who sent them
(`MessagesAreTrue`). TLC checked `Inv` first, on the instance of `DepositsReplays`. The number of
requests, keys, retries and crashes is arbitrary.

*DepositsImplementTransfers.* A step of `Deposits` changes at most one key, and status and credits never together, which
leaves the guards of the abstract actions. `Claims` gives that only the pending key's own request marks it;
`NotYetCredited` that a credit is the first and its row exists; `CreditedBefore` that a confirmation follows the credit.

*Ledger.* `FoldInv` says that while a fold is under way no row that it expires can still appear: rows the worker inserts
carry a creation time not before the fold began, and the carry rows are as young as the fold itself, so `DELETE`
selects exactly what `INSERT` had selected, for any retention. `OneSeedRow` is beside it because folding
never touches seed rows and `Insert` has the unique index. It would not notice a seed that was folded away and told again; that
an opening credit counts once is part of `ExactUnlessLost` and `ActsAsAppendOnly`. For the sums, `SumsInv` adds that rows are recognised by their number
(`RowIds`), that what is on its way is what the engine tells (`TellsSense`), and for each account nothing was lost
for that its holding is its rows in the table plus the moves on their way plus one opening credit, if that is still to come
(`AccountInv`). A commit of a fold then replaces rows by carry rows of the same sum. `LedgerIsAppendOnly` maps
`booked[a]` to the sum of the rows of `a` and `transit` to hand and list; a pop and a fold map to a stutter, an insert to `Book`, also
one that the unique index turns away. `CheckInv` follows reconcile: as long as nothing of an account stirred,
the sum and the total it has read are those of the moment.

*SavedForGood.* While there was no SIGTERM only the ticker saves, so the temporary file has one writer, and what it
renames is the image it marshalled from a memory that held all of the snapshot (`TickerAlone`).

*Market maker.* `NothingPilesUp` follows the bot through its phases. Between ticks every order is in `resting` or stray (`Quoting`);
while the ladder is placed, in the ids collected or still to be cancelled (`Climbing`: cancels come first in the plan, and with
the rungs to come the ids are no more than a ladder); while it trades, in `resting` or, for the sell leg, in hand until the buy leg
is answered (`Trading`); after a start, in an account that is still to be read or in the cancels of one that was (`Cleaning`). Others' orders only take
away from the book. A request without an answer makes its order a stray, at any point, as the failed read of an account does its orders, and
as the last answer of a trade does its two legs: the bot was told these ids (`cmd/marketmaker/main.go:157`) and drops them. The
theorem says nothing about strays, and so not that the book is free of them. Ladders, prices, ids and faults are arbitrary.

*Subscriptions.* `RecordedAreServed` holds for any sessions, as each step on the maps keeps it by itself: the delete at the
end of `UserLeft` only takes from the map whose content must be found in the other. That is also why the other
direction needs a single session: then what `UserLeft` has still to unsubscribe is what is left (`LeavingIsLeft`), so that
the delete takes nothing, and after `removeUser` nobody registers the id (`RemovedIsGone`). Both rest on
`OthersKeepOff`: no other goroutine touches an id that is not its own. For the fan-out, whoever the message is due for has it, has
it coming, or cannot be served (`DueIsServed`), from the moment the users are copied.

*What stays with TLC.* Every invariant and every action property that a passing run checks is a theorem, as are both refinements. Left are the three
liveness properties, `EventuallySaved`, `EveryRequestEnds` and `GoneIsForgotten`: they follow from fairness, and the provers at hand
decide no `ENABLED`. `EventuallySaved` is checked without poisoned commands, as `SnapshotNaN` shows it to fail with one. The five statements of section 4 are refuted by TLC.

## 6. What is not modelled

* Floating-point noise. Amounts are integers; rounding to eight decimals and the
  dust threshold are there.
* The empty user id: no deposit can reach it, so its orders end as those of any
  account without funds.
* NaN and Inf inside `Engine`: they concern the snapshot, and are in `Snapshot`.
* `GET_*` commands, depth and statistics (they change nothing), log lines, and what
  is published to the WebSocket service (nothing comes back).
* A ticker that is late, and the platform's grace period: a save may start at any
  time and a kill may come at any time.
* In `Deposits`, errors of Redis towards the engine (it ignores those of its pushes, as `Ledger` has it), replies that do not parse (the engine sends none), two API
  processes, and deposits without a key, which get one nobody else has.
* Retries inside the Redis client (section 4). `Deposits`, `Snapshot` and `Ledger` assume that one push puts one message on its list, or
  none: `CreditedOnce`, `ExactUnlessLost` and `ActsAsAppendOnly` rest on it.
* In `Snapshot`, the re-seeding of a boot without a snapshot, which is in `Ledger`.
* In `Ledger`, trade rows and order rows, and the rounding of a delta to 18 decimals.
* In `MarketMaker`, a restart of the engine under the running bot, whose snapshot brings back orders the bot has pulled; the drift
  of the accounts' funds, which the alternating sides are to balance; progress of the bot, which TLC can check only on far
  smaller instances than the ones here.
* Deletion of old order rows, refresh of the materialized views and TimescaleDB's own retention.
* The components with status `not_modelled` in `PROJECT.json`.

## 7. Plan

Done: `Sums`, `Orderbook`, `Engine`, `Snapshot`, `Deposits`, `Subscriptions`, `Ledger` (worker, folding, reconcile, lost rows, re-seeding) and
`MarketMaker`, with theorems for all of their safety properties; `Transfers` and `Postings` with their refinements, proved.
Left, in this order:

1. **`Recovery`**: composes a restart from the snapshot with order ids, trade ids, user ids and order rows: what a kill leaves different
   between memory and Postgres, and what later commands make of it.
2. **`Escrow`**: money moves between free and held, trades conserve; an abstract specification that `Engine` implements. Likewise an atomic
   snapshot, implemented by `Snapshot` with one saver.
3. **`Signaling`**: the browser's `SignalingManager` at the other end of `Subscriptions` (reconnects, reference-counted
   subscriptions, buffered frames). Every live callback is served again after a reconnect.
