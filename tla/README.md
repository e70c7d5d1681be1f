# Verification of botnest

TLA+ models of botnest (NestJS + CCXT trading bot, `src/`), the TLC runs that
check them and the theorems TLAPS proves about them.

## 1. The system

| part | state it keeps | operations | interacts with |
|---|---|---|---|
| `BalanceService` | tables `balances`, `balance_log` | `set`, `getBalance`, `income`, `outcome`, `saveBalance` | locks; called by the order services, `BotNest.checkBalance`, ExampleDaemon |
| locks (`helpers.ts`) | one process-wide `async-lock` | `acquire(key, fn)` | keys `Balance` and `Balance <account>` |
| `DaemonService` | timers, a cache key | `checkBalance`, `recalcCellSize`, `init`, `trade` | `BotNest`; listens to `buyOrder.created` |
| `BotNest` | `lastRates` | `checkBalance`, `checkRates`, `setRates`, facade of the rest | all services |
| `TradeService` | lists of strategies | `runBuyStrategies`, `runSellStrategies`, `checkLimitOrders` | order services |
| `BuyOrderService` | none | `create`, `check`, `rollback`, `checkAndImproveFeeBalance` | exchange, `orders`, balances, journal, events |
| `CloseOrderService` | none | `create`, `check`, `rollback` | the same, and the parent order |
| `OrderService` | table `orders` | `create`, `update`, `findOne`, `findAll`, sums | order services, strategies |
| `TradeCheckService` | journal file `_log/check.csv` | `open`, `close` | order services |
| `AwaitProfitStrategy` | its settings | `get` (one query) | reads orders, pairs, accounts, balances |
| `FillCellsStrategy` and its service | its settings, cell sizes | `get`, `calculateCellSize`, `recalcCellSize` | reads orders, pairs, balances |
| `FrozenService` | table of average purchase rates | `income`, `outcome`, four event listeners | order events |
| `FeeService`, `ApiService` | none / clients | `extractFee`; `createOrder`, `fetchOrder`, `fetchBalances` | exchange |
| `AccountService`, `ExchangeService`, `PairService` | tables, caches of accounts and clients | fetch-or-create, `getApiForAccount`, `actualize` | exchange, database |
| examples, console | none | trade loops; one-shot commands | `BotNest`, balances |

Everything runs in one Node process: tasks interleave at `await`s, and calls
between parts are awaited calls, event listeners included (`emitAsync`). The
exchange and PostgreSQL are outside. What is hard:

* **Read, change, save over awaits.** Balances are guarded by locks; orders and
  the frozen table are not. Order updates write values computed from rows read
  several awaits earlier.
* **Two settlers.** `CloseOrderService.create` checks the order it made;
  `checkLimitOrders` checks every active order, at the same time in
  `DaemonService.trade`, between the runs in the examples.
* **Partial failure.** Every await may throw and the process may die between two
  of them; there are no transactions. The order in which a handler writes decides
  what is lost and what is done twice.
* **The exchange.** It fills, cancels and forgets orders on its own, may accept an
  order whose answer never arrives, and may fail to answer a fetch.

What makes each part correct: balances - no lost update, one row per currency,
an unbroken log, no deadlock; orders - each movement posted once, a position sold
and closed exactly, figures (`preclosed`, `in_orders`, `closed_amount`) that
agree with the orders they sum up, every fill settled and every vanished order
refunded; frozen - an average over what is still held; rates - no margin lost.

## 2. Modules

| module | models |
|---|---|
| `BalanceRows` | the arithmetic of a balances row, `save` |
| `BalanceService` | `income`/`outcome` and `DaemonService.checkBalance` -> `BotNest.checkBalance` -> `set`, one action per await, with both locks; crashes and refused statements |
| `Ledger` | abstract: a book in which every call is one atomic movement |
| `BalanceService_proof`, `TradeService_proof`, `DaemonService_proof`, `AccountService_proof`, `FrozenService_proof` | theorems about the module they are named after |
| `TradePositions_proof` | theorems about the amounts in `TradeService`, and that it refines `Positions` |
| `TradeFaults_proof` | theorems about what faults repeat or put wrong in `TradeService` |
| `Sums` | lemmas about `SumFunctionOnSet` of the community modules, for proofs |
| `OrderStore` | what the order services share: exchange, `orders`, postings, tasks; the exchange's own actions |
| `BuyOrderService`, `CloseOrderService` | `create`, `check`, `rollback`, one action per await |
| `TradeService` | the two runs and `checkLimitOrders` over those services; faults; properties |
| `Positions` | abstract: positions bought, offered in parts, each part sold or withdrawn once |
| `FrozenService` | the cost of open positions, kept by listeners of order events |
| `PairRates` | `BotNest.checkRates` and `setRates`, `PairService.actualize` with the limits of a pair |
| `FillCells` | the query and the cell size of `FillCellsStrategy`, the buy orders as it sees them |
| `FeeTransfer` | `checkAndImproveFeeBalance` |
| `DaemonService` | `init` and the loop of `trade` over the three above, the buy runs it starts, crashes; properties |
| `AccountService` | the account's row, its cached copy, the listeners and calls that read and save it |
| `MCBalanceService`, `MCTradeService`, `MCFrozenService`, `MCDaemonService`, `MCAccountService` | instances for TLC |

Definitions called "Fault model of X" are plausible bugs in X. They are in no
next-state relation; substituting one for X makes TLC find a property violated.

### Correspondence: balances

`rows`, `log` are the tables, `queue[k]` the async-lock queue of a key (holder
first), `pc`/`job` a task's position and local variables.

| code | actions |
|---|---|
| `income` (129-175), `outcome` (177-193) | `Income` (asks for the lock), `GetBalance`, `SaveBalance`, `SaveLog` |
| `checkBalance` (daemon 40-50, botnest 43-50) | `CheckBalance`, `FetchBalances` or `FetchFails` |
| `set` (30-90) | `FindRows`, `SetRow` + `SetLine` per currency that differs, `SetDone` |

A row of `balances` is a sequence because no unique key forbids a second one.
`save` of an entity that was not found inserts; of one that was found updates.
Amounts are small integers: the decimals of the code add without error.

### Correspondence: orders

One account and one pair. An order has one number, on the exchange (`ext`) and in
the table (`row`); a sell order names its parent. `posted[i]` counts the lines of
`balance_log` of order i: outcome at placing, income at the fill, fee, refund.
Each posting is one step here: that is what `Ledger` promises and
`ImplementsLedger` checks. `InOrders` is computed from the postings as
`income` would; `OtherInOrders` is the share of other pairs with the same base
currency, which `in_orders` of the code includes.

| code | actions |
|---|---|
| buy `create` (44-142) | `BuyAccepted` / `BuyRefused` / `BuyLost`, `BuyRecord`, `BuyOutcome` |
| buy `check` (144-251) | `CheckBuy`, `CheckBuyUnanswered`, `BuyFilled`, `BuyIncome`, `BuyFee` |
| buy `rollback` (257-284) | `BuyRollback`, `BuyRollbackRow` |
| sell `create` (32-117) | `SellAccepted` / `SellRefused` / `SellLost`, `SellRecord`, `SellOutcome`, `SellPreclose` |
| sell `check` (147-296) | `CheckSell`, `CheckSellUnanswered`, `SellFilled`, `SellIncome`, `SellFee`, `SellFindParent`, `SellParent` |
| sell `rollback` (123-145) | `SellRollback`, `SellRollbackFind`, `SellRollbackParent`, `SellRollbackRow` |
| `runBuyStrategies`, `runSellStrategies`, `checkLimitOrders` | `RunBuyStrategies`, `RunSellStrategies`, `CheckLimitOrders`, `FetchNext` |

`job[t].todo` holds the rows as the query returned them: `preclosed` of the parent
is used stale, as in the code. `Continue` is the end of a handler: the next row of
the loop, or the end of the run. `Lost` is every way for `create` to end between the
exchange's acceptance and `orders.create`: the answer is lost, `createOrder`'s own fetch
fails, or, with the answer seen, `getLastPrice` fails, which is awaited there for quote
currencies other than USDT. Where it succeeds it is part of `Accepted`: meanwhile nobody
else can know of the order but the exchange. Left out: logging, prices, profit, the
fee transfer, the journal of `TradeCheckService`, listeners of order events (a
throwing listener is `Throws`). What a
strategy's price conditions select is open: any subset of what its conditions on
orders and `in_orders` allow. Exchanges are taken to be in `errorCodes.ts`.

Two loops: with `Overlap = FALSE` a check starts only when no run is under way
and no run starts during a check. That is the inline example, and ExampleDaemon
as long as a run does not outlast the minute the loop waits after another run was
rejected. With `Overlap = TRUE` any idle task may start: `DaemonService.trade`
starts the three together, and when a run rejects (its own query may fail)
`Promise.all` rejects and the next iteration starts beside what still runs.

### Correspondence: frozen

A task is an order service awaiting `emitAsync`, and the update of the order's row
that follows. `job[t].todo` are the calls of `income` and `outcome` its listener
still has to make, each a read (`GetBalance`) and a save (`SaveBalance`).

| code | actions |
|---|---|
| `buyOrderCreatedWithoutFee` (163-188), `buyOrderCreated` (190-206) | `BuyOrderCreated`, `FeeTransferred` |
| `buyOrderRolledBack` (143-161), `buyOrderClosed` (208-227) | `BuyOrderRolledBack`, `BuyOrderClosed`, both ending in `UpdateOrder` |
| `income` (69-101), `outcome` (103-134) | `GetBalance`, `SaveBalance`; `DividesByZero` when an outcome leaves nothing |
| the fill that replaces `amount2` and `fee1` (buyOrder 193-218) | `BuyOrderFilled` |

Of an order only what the listeners are told is kept: amount, cost when placed and
when filled, fee. Costs are in units of `avg_rate`, whose rounding is `Divide`.
Purchases are in USDT, so no rate is asked for. The module stands beside
`TradeService`, whose `Throws` covers a listener that rejects.

### Correspondence: the daemon's loop and its buy runs

`PairRates`, `FillCells`, `FeeTransfer` hold a part of the state each and define what
an operation does to it; `DaemonService` extends them and says when. `phase` is where
the loop is, `todo` the pairs a `for` has not come to, `mine` the buy run the loop
awaits; `pc`/`job` are the runs.

| code | actions |
|---|---|
| `init` (daemon 72-93), `actualize` (pair 61-108) | `ActualizePair`, `ActualizeFails` |
| `checkRates` (botnest 147-248), `setRates` (105-118) | `NextIteration`, `GetActualRates`, `GetActualRatesFails`, `SetRates`, `RatesThrow` |
| the rest of the iteration (daemon 116-151) | `StartRun`, `NoRunToStart`, `RunSettled`, `OtherRejected` |
| `runBuyStrategies` (trade 49-70), `get` (strategy 47-89) | `Get`, `RunEnds` |
| `create` (buyOrder 44-142) | `Create`, `CreateOrder`, `Refused`, `Record`, `OrderOutcome` |
| `checkAndImproveFeeBalance` (286-387) | `MarketOrder`, `TransferIn`, `TransferOut`, `TransferFee` |
| `recalcCellSize` (daemon 52-70, service 39-63) | `FindCells`; for each row `RecalcPair`, `RecalcCellSize` or `RecalcThrows`, `SaveCells`; `RecalcEnds` |

`recalcCellSize` is a listener that `create` awaits, so it is a part of the run. It reads
all rows of the account (`items`), then for each a pair (`row`) and the balance
(`balance`), an await each, and saves all `items` once per row: what other runs, the
loop or a fill do in between is not in what it saves.

A rejected sell run or check is `OtherRejected`: the loop goes on and a second buy run
may start beside the first. History variables count what no table shows: `clashes`
(orders placed in the cell of another), `unposted` and `spare` (market orders), and
`dropped` (changes of rate that were found and not stored).

Abstractions. One exchange and one account; all pairs have the same quote currency,
whose `available` is its `amount`. Rates and amounts are integers, `Quotient` rounds
as `divide` does to the last digit. The order book is one of `Quotes` whenever it is
asked. Whether the rows are fresh (three seconds), the flags of pair, account and
strategy, `maxRate`, and whether the cache still holds the key of `recalcCellSize` are
open choices. Amounts are sent in lots of `Lot` (`Precise`, ccxt's `amountToPrecision`),
and less than a lot is refused; rates come from the order book and have the exchange's
precision already. The market order costs its amount at the rate of the limit order.
An order
that fills or closes does so as `TradeService` allows; here it frees its cell, changes
its rate, and gives back its cost at that rate.

### Correspondence: accounts

A task is one call of `setNoErrors`, `handleApiError`, `setUserAccount` or
`getApiForAccount`. `copy` are the objects the cache holds or once held: the memory
store clones on `set` and hands out its own object on `get`, so that two listeners that
hit change one object, while the one that missed changes the original it found
(`job[t].seen`). `save` selects the row, compares, and updates what differs:
`Select`, `Update`.

| code | actions |
|---|---|
| `getAccount` (96-119) | `Begin` (hit or miss), `FindOne`, `Fill`, `Expires` |
| `setNoErrors` (41-50), `handleApiError` (52-74) | `SetNoErrors`, `HandleApiError`, `React`, `NothingToSet` |
| `fetchOrCreate` (76-83), `setAccount` (85-94) | `SetUserAccount`, `FetchOrCreate`, `Select`, `Update`, `Del` |
| `getApiForAccount` (121-154) | `GetApiForAccount`, `BuildApi`, `LoadMarkets`, `UnknownAccount` |
| another process writes the row | `Outside` |

A save that the two handlers start and nobody awaits may throw: `console.ts:12` logs the
unhandled rejection and the process lives on. `Throws` therefore ends any task at any of
its queries, a save before or after it has written, and leaves the objects and the cache
as they are: the cached object then keeps a change that the row has not. `Crash` is the
process that ends, for whatever reason, and starts again with an empty cache. `touched` is
a history variable: the columns that were set, in an object or from outside in the row,
since the account was last nowhere in the process, neither cached nor in a task's hands.
What a client does with the key it was built
with is not followed. The flags the owner or an operator sets (`isActive`,
`is_trading_allowed`) are saved and brought back like `connected`, and left out.

## 3. Runs

| run | instance | shows |
|---|---|---|
| `ledger` | 2 accounts, 1 currency, 2+2 tasks, 3 calls | types, `AvailableIdentity`, `NoDuplicateRow`, `AuditTrail`, `CallsReturn`, refinement of `Ledger` |
| `ledger_faults` | 1 account, 2 currencies, 2+1 tasks, 3 calls, 2 faults | one row still; at most one log line lost per fault (`GapsBounded`) |
| `orders` | 1 task of each kind, 3 orders, amount 2 | exact settlement, `preclosed`, `in_orders`, closing, no oversell, liveness, refinement of `Positions` |
| `orders_faults` | the same, amount 1, 2 faults | losses, repeats and wrong figures are bounded by faults; refunds complete |
| `orders_daemon` | `Overlap`, 3 orders | what survives: buy orders posted once, sell orders at most twice, liveness |
| `live_sell_rolled_back` | one fault | violated, see below |
| `settled_twice`, `preclosed_overwritten` | `Overlap` | violated, see below |
| `frozen` | 1 task, 2 orders, 1 transfer, 2 faults | frozen amount and cost agree with the active orders, up to one movement per fault |
| `closed_whole` | the same, no fault | violated, see below |
| `daemon` | 1 pair, 3 quotes, 2 runs, 2 orders, 1 overlap, 1 fault | stored rates within the margins of the last ones, cells apart, cells that make the balance last they were computed from, acceptable orders though cut to lots, base currency for fees bought once |
| `accounts` | 2 tasks, 2 keys | an error that forbids trading disables the row, or the shared object if the save fails; a save changes, and the cache differs in, only columns that were set while the account was in the process |

Bounds. Three calls let two tasks race for a row with a third arriving in between,
which is what the locks must order; two accounts are needed for tasks that hold
different outer locks to meet at the inner one; 0 is an amount callers pass and a
balance the exchange reports. In `orders`, three orders are a buy and two sells of
its parts, or two buys and a sell; an amount of 2 is the least that has parts;
`OtherInOrders = 2` lets the second part pass the strategy's filter on
`in_orders` (without it the rest of a lone position is never offered, because the
filter asks for the whole `amount1`). `orders_faults` gives up
the parts for faults: two allow a rollback and its repetition to be cut short, or one order
to be missed in `preclosed` and another to be taken off twice; the third order is offered
while the figure is wrong.

In `frozen`, two orders leave one position when the other is closed; amounts 1 and
2 and two costs tell an order's own cost from the average; the transfer is the
reserve fees are paid from. It has one task because the table has no lock: with
`Tasks = {t1, t2}` two purchases created at once violate `FrozenAmount`, each
inserting a row of its own.

In `daemon`, three quotes let a rate move by more and by less than the margin, in one
step and in two, separately for bid and ask (`MCDaemonService`); the least cost exceeds
what the least amount costs at the lowest ask only, so that `init` stores 27 and 9000 there
and 24 and 10800 at the others. Rates then move on, so that orders are made of minima of
another rate; amounts are cut to a lot of two. A balance of ten purchases, and orders that cost more than the cell
size assumes, reach the division by zero. `MaxOverlaps = 1` is two runs at once: the second
starts after another promise was rejected, which is also the one fault; so what a
failure does to a lone run and what two runs do to each other are both there, and a
failure in an overlapping run is not. Two orders are what a clash needs. Runs are alike
(`SYMMETRY`; the one temporal property is an action property). There is one pair, so that what
`BalanceLasts` says of the sizes of other pairs is shown by its theorem only.

In `accounts` nothing is bounded but the number of tasks: two are one that reads and
one that changes the row meanwhile, and what is left in the cache, also by a save that
failed, passes it on to a third. Failures and restarts are unbounded. `touched` is emptied
when neither the cache nor a task has anything of the account, so that the properties
demand equality again after every disturbance.

Fairness. `WF` on the steps of each call or run: the database and the exchange
answer, if only with an error. `SF` on `CheckLimitOrders`: the loop
starts a check in the first iteration after its 15 minutes, and iterations end
because runs do; in ExampleDaemon a rejected run skips the check, so there the
assumption includes that not every iteration has one. Failed fetches count as
faults, so they stop. Nothing is assumed of the exchange: orders need not fill. `daemon` and
`accounts` check safety only and assume no fairness.

### Disagreements found

* `closeOrder.service.ts:177` rolls back a sell order whenever the fetch failed;
  the comment at :120 says only one that vanished. The buy side leaves it alone.
* `closeOrder.service.ts:112` and `checkLimitOrders` settle the same order when
  `DaemonService.trade` runs them together: `closed_amount`, "how much really
  closed" (`order.entity.ts:107`), exceeds what was sold.
* `closeOrder.service.ts:108` writes `preclosed`, "how much in close orders put"
  (`order.entity.ts:100`), from a stale read over a concurrent rollback.
* `frozen.service.ts:122` divides by the amount left, which `income` guards at :88.
  When the only position of a currency is sold whole the listener throws and the
  parent is not updated; `closeOrder.service.create.spec.ts:94` expects it closed
  (with a frozen row seeded so that the division succeeds).

Met while modelling, and visible in what a property had to allow for:

* The repository's README says "If there is an already opened order with current rate
  step found, the purchase is not made". Two buy runs at once both find the cell free,
  and an order whose row was not written is not found: `CellsApart` bounds both.
* `calculateCellSize` assumes a purchase costs `orderAmount` or `minAmount2`;
  `prepareAmounts` raises it to `minAmount1`, so that the balance may end before the
  floor. With less than one purchase left the division throws and the cells stay.
* `checkAndImproveFeeBalance` does not reserve `for_fee` for orders that are open, and
  two runs both buy what one lacks (`spare`).
* A stale object can enable a disabled account or bring back an old key when a
  task overlaps another (`OnlySetColumns` allows it of columns set meanwhile): the cached
  copy is not dropped before the save but after it, and a copy read before may be cached
  after.
* When the save of `setNoErrors` or `handleApiError` fails (`account.service.ts:46`, `:61`,
  not awaited) the process only logs it: `del` is not reached, the shared cached object
  stays changed over an unchanged row for up to ten minutes, and a later `setNoErrors`
  saves `connected` with its own column. `CacheCoherent` and `OnlySetColumns` allow for both.
* Two parts of a position that are settled at the same time, by a sell run's own check
  and by `checkLimitOrders`, both compute `closed_amount` from the read before
  (`closeOrder.service.ts:237`), and one part is lost without any fault. TLC shows it for
  `LossesBounded` with the constants of `orders.cfg` and `Overlap = TRUE`.
* `TradeCheckService` writes a journal of orders whose row is not there yet, and the body of
  `checkAndClear`, which was to look at it, is commented out: an order lost between the
  exchange and the table stays lost. `LossesBounded` counts them.
* A client is built once and keeps its key when the owner chooses another.
* `error_code` is a column without default that is not nullable (`account.entity.ts:60`):
  in a schema that TypeORM synchronizes neither `fetchOrCreate` nor `setNoErrors`
  could save. The model takes the column to be nullable.
* `fillCellsStrategy.strategy.ts:79` needs a column `maxRate` that the entity does not
  declare.
* `inlineTrade.service.ts:63` stores the rates for a pair that is literally called
  `pairName`; `daemon.service.ts:145` does not await its `sleep(2)`.
* `available` of `ExampleDaemon.checkBalance` (`daemonTrade.service.ts:193`) ignores
  `for_fee`, unlike every other writer.

With two faults `orders_faults` also has behaviours in which one sell order is
refunded and then settled, which is why `RepeatsBounded` counts both together. A fault
before `SellPreclose` and a rollback of that order leave `preclosed` negative, and the next
sell order then asks for more than was bought; `PreclosedGapsBounded` therefore weighs each
gap with the amount of its own order. `LossesBounded` allows a fault to lose one buy order and
one sell order, since a crash meets both runs at once: an order without a row, a posting or
its place in `closed_amount`.

## 4. Proofs

One module of theorems per component, three for the order services. All hold for any values of the constants that
satisfy the component's assumption (`BalanceAssumption`, `OrderAssumption`, ...);
what a theorem assumes beyond that is in the third column.

| module | theorem: property | beyond the module's assumption |
|---|---|---|
| `BalanceService_proof` | `TypeCorrect`, `Exclusion`, `AvailableAlways`: `AvailableIdentity`, `OneRow`: `NoDuplicateRow`, `FewGaps`: `GapsBounded` | `FaultySpec`: crashes and refused statements included |
| | `NoLostUpdate`: `AuditTrail`, `LedgerImplemented`: `ImplementsLedger` | `Spec`: no faults, as in the runs |
| `TradeService_proof` | `SoundInvariant`, `TypeCorrect` | nothing: any overlap, any faults |
| | `OrdersPostedOnce`: `PostedOnce` | no faults, checks that wait for the runs |
| | `OverlapSettlesTwice`: `OverlapPostings` | no faults, one check at a time |
| `TradePositions_proof` | `ClosedOnlyIfSold`: `NeverOverclosed` | checks that wait, one sell run at a time; any faults |
| | `ClosedOnlyWhenSold`: `ClosedWhenSold`, `PreclosedIsExact`: `PreclosedExact`, `NothingOversold`: `NoOversell`, `InOrdersAreExact`: `InOrdersExact`, `PositionsImplemented`: `ImplementsPositions` | the same, no faults |
| `TradeFaults_proof` | `RepeatsAreBounded`: `RepeatsBounded` | checks that wait; any faults |
| | `PreclosedGapsAreBounded`: `PreclosedGapsBounded` | the same, one sell run at a time |
| `DaemonService_proof` | `TypeCorrect`, `StoredRates`: `StoredWithinMargin`, `TransfersAreBounded`: `TransfersBounded`, `CellsKeptApart`: `CellsApart` | nothing: any overlaps and faults |
| | `OrdersMeetLimits`: `OrdersAcceptable` | `Margin`: the least amount is so many lots, and a purchase is asked to cost more than the least cost by half a unit and a lot but one unit at any ask; any overlaps and faults |
| | `CellsInvariant`, `CellsMakeBalanceLast`: `BalanceLasts` | `Costly`, `Fine`: rates fine enough for the rounding; any pairs, overlaps and faults |
| `AccountService_proof` | `TypeCorrect`, `ErrorsDisable`: `ErrorDisables`, `CacheIsRow`: `CacheCoherent`, `SavesSetColumns`: `OnlySetColumns` | nothing |
| `FrozenService_proof` | `TypeCorrect` | nothing: any tasks and faults |
| | `FrozenAmountHeld`: `FrozenAmount`, `FrozenCostHeld`: `FrozenCost` | one task; finite sets of amounts and costs |

Assumptions that are there for proofs: `Runs`, `Pairs`, `Tasks` and `Copies` are finite,
because a bound is stated by a cardinality, and `AccountAssumption` gives as many objects in memory
as there are tasks, so that a task can always be handed one. Without finite
`Amounts` and `Costs` the bounds of `FrozenService` would have no greatest movement to
speak of. The hypotheses on faults and overlap are those of the runs that check the
property; with more, TLC violates it (section 3). That sell runs follow one another
(`OneSeller`) is what the inline example and ExampleDaemon do: an iteration calls
`runSellStrategies` once and the next one begins when it has returned. Two of them at a time
would both read `preclosed` before either writes it, and offer the same part twice. Buy runs
and checks may be any number.

None of the properties is inductive by itself. What carries them:

**Balances.** `Locked` says that a task waits in the queue of its account exactly
while it is in a call, that it heads the queue once it is past its read, and the
same for the key of `set`; so two tasks past their reads have different accounts
(`Exclusion`). It also says that what such a task has read is still what the table
holds: nobody else may write. A task that found no row therefore inserts the only one
(`OneRow`), and the total it is about to log is the last total plus its amount
(`NoLostUpdate`). For faults, `Traced` maps each gap of a log, and each save that
waits for its line, to one fault. `LedgerImplemented` needs `Inputs` besides: an amount
about to be posted is one that some caller passed or the exchange reported, so that the
step that posts it is a movement of the `Ledger`.

**Orders.** `Sound` says, step by step, what a task has in hand: a row of the table, or
an order it has placed itself and whose row is not written yet; and that each order has
one creator. It survives every fault and overlap. `Truthful` adds, without faults,
that what was posted agrees with what became of the order. For `PostedOnce` the
counters do not suffice, because a task that is about to post is as good as a posting:
`Dues` counts what was done with an order together with what its seller and a check may
still do, and `Closing`, `Alone` say who may. With overlap the sum is two, else one.

**Amounts of a position.** `closed_amount` and `preclosed` are figures in one row that
should equal a sum over other rows, and between the write of the one and of the other
they do not. So the invariants count an order from the write that enters it in the
figure to the write that takes it off. `Closed`: `closed_amount` is at most the filled
amounts of orders that have gone through `SellParent` (`Counted`), an order that is still
to be counted is in one task's hand or list (`Waiting`), and what `SellFindParent` read
still holds (`Seen`); a fault only makes it less. `Paid` follows an order through its
creation and its filling: which line of the log may still be missing, and who is about
to write it. `Offering`: `preclosed` is exactly the sum of the orders between `SellPreclose`
and `SellRollbackParent` (`Offered`), and what a sell run has read of the positions still on
its list is still true (`Fresh`), because checks wait and no other run sells. From these
`PreclosedExact` is the case in which nobody stands in between; `NoOversell` adds the order
in hand to what `preclosed` counts; and `InOrdersExact` sums `PreclosedExact` over all
positions, each sell order falling to exactly one of them (`SumByClass`).

`PositionsImplemented` takes the four steps that post a line the book shows - income of a
buy order, outcome, refund and income of a sell order - to `Buy`, `Offer`, `Withdraw` and
`Sell`, and shows that no other step changes what is mapped. The guard of `Offer`, that a
position is not offered beyond what was bought, comes from `Offered` and `Fresh`; that a part is
there to be sold or withdrawn, from `Paid` and `PostedOnce`. Parts are pairs in `Positions`
and rows here: `SumOfPairs` carries one sum to the other.

**Faults.** Neither bound of `TradeFaults_proof` is inductive: what a fault makes wrong shows
only later, when the order it cut short is rolled back or settled once more. So each is a sum
over the orders of what has gone wrong with an order or will, if nothing else happens
(`RepeatsOf`, `OffOf`). No step of the code raises a term of the sum, and a fault raises at most
one of them by one (`Frees`): a creation, or a check past its refund, is in hand for one order
only, because checks wait. For `RepeatsBounded` the term counts the
settlements and refunds of an order, one more while it has yet to be ended: while its row is
active, unless a task that has refunded it is on the way to close the row (`Endings`); what
exceeds one is repeated. For `PreclosedGapsBounded` a witness `e` says how often
`preclosed` holds each order (`Holds`): once for one that was entered, less than not at all for
one that was taken off without having been entered, or twice. `Off` is how far that is
from what it should be, with one more to come for an order whose rollback was cut short. The write of
`SellPreclose` and that of `SellRollbackParent` change `e` for the order in hand by one, since what they
write was read while nobody else could write (`Read`, `SeenOffer`).

**Daemon.** `RatesInv` for the loop, `RunsInv` for runs and orders, `FeesInv` for what
is bought to pay fees. What overlapping runs do twice is bounded by counting for each
pair and overlap what they may still do (`SpareBounded`, `ClashesBounded`): a run
that has read and not yet written counts like a clash that has happened.

`LimitsInv` follows an amount from the pair's row to the order: a pair that was actualized
keeps a least amount and a cost that some quote gave (`Priced`; `setRates` changes the rates
and leaves them), a request is of such a pair, and what a run is about to order is what
`prepareAmounts` makes of the two at the rate of the request (`Prepared`). Such an amount is
not below the least amount, and at its rate it pays the cost but for what `divide` rounds off,
half a unit (`PreparedMeets`). What is sent is that amount less what is no whole lot
(`Sendable`): it is still not below the least amount if that is a multiple of the lot, and it
pays the cost but for the half unit and a lot less one unit (`PreciseMeets`). Hence the
hypothesis `Margin`. Where the least amount of the exchange costs more than its least cost,
`actualize` adds a fifth to both, and the margin is there unless a lot is worth a fifth of the
least cost. Where it does not and `orderAmount` is near the least cost, an order may fall
short of it: TLC finds it with rates that do not divide the cost.

For `BalanceLasts` the balance needs a bound, since `k` cells make the way down only if rounding
each does not add up to a cell, which is so if `k * k` is at most twice the way (`EvenCells`). An
order may be refunded before its own outcome is posted, so the balance may exceed its start;
`AmountInv` says by no more than the closed orders gave back. `Fine(R)` asks this of the
greatest such balance, where `R` bounds the cost of an order (`Costly`), and that a hundredth
of a rate is not rounded to zero. `CellsInv(R)` is what a run holds between its awaits: the row it
read is one that `actualize` and `setRates` wrote, the cell it has computed is that of the row and
of the balance it read (`Computed`), the other sizes are those stored (`Unsaved`) as long as no
runs have overlapped, since then nobody else saves any, and the row is the pair's still
(`Current`) as long as the loop awaits the run, since it sets no rates meanwhile. So the save
of `SaveCells`, late as it is, makes last what was read, and undoes nothing unless runs
overlapped. The instance of `daemon.cfg` satisfies `Margin`, and `Costly` and `Fine` with
`R` = 16200.

**Accounts.** `Sound` says which object each task holds at each step and that nobody
holds one of a row that is not there; `Disabling` follows an error through the shared
object; `Agree` says that what is held, cached or about to be saved differs from the row
in columns of `touched` only. A save, a failure or a change from outside can only make them
differ in what it sets, which `touched` then has; and it is emptied when nothing is left to
differ.

**Frozen.** `Typed` says what a listener has yet to call: a purchase first, an order
that ends last, values at the average elsewhere. Between the save of a listener and the
update of its order's row the table and the orders disagree, so the bound at rest is not
inductive: `Balanced` states it of the difference (`Gap`) plus what the listener at work
has yet to enter (`Due`), and every step but a fault leaves that sum as it was. A fault
drops `Due`, one movement at the most. `CostBalanced` is the same for the costs. All
this needs `Known`, that a listener saves the row it read, hence one task: the table has
no lock.

The bounds of `FrozenService` and the amounts of positions are sums over orders. `Sums` proves
what is needed of `SumFunctionOnSet`: that the fold has a solution and one only, that an
element may be split off or changed, that zeros do not count. It does so by induction
stated with sets instead of operators (`SubsetSteps`), from the well-foundedness of
inclusion among finite sets.

Only model-checked are the liveness properties (`CallsReturn`, `FillsSettle`,
`CancelsRefunded`), which are out of the prover's reach, and `LossesBounded`. Every other
safety property and action property that a passing run checks is a theorem.

## 5. Not modelled

* Callers of `BalanceService` outside its locks: the console and ExampleDaemon run
  beside or before the loop; with any of them the lock orders nothing, and the lost
  update of section 1 is back. The full check of `BotNest.checkBalance` has no caller.
* `FrozenService` for quote currencies other than USDT, whose rate may change between a
  purchase and its rollback: the asymmetry is in the rate alone.
* A joint model of balances, orders and the exchange's balance, for an actualization
  between an order and its outcome: its parts each fill a run of their own.
* `ExchangeService` and `StrategyService`: find-or-create of rows nothing else writes.
* `TradeCheckService`: its journal is written and read by nobody.
* Logging, module wiring, migrations, mocks and the wording of console output: I/O,
  generated or test code.
