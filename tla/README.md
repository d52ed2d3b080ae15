# Verification of strategy_service

TLA+ models, TLC runs and TLAPS proofs for the Go service in this repository:
it runs *strategies* (smart orders and maker-only orders) on behalf of users,
against an exchange service that it reaches over HTTP and a MongoDB that tells
it what became of the orders.

Sources are given as `smartOrder.go:776`; unless a directory is named they are
in `src/service/strategies/smart_order/` of the repository's `src/`, the others
are `strategySingleton.go` (`src/service/`), `strategy.go`,
`smartOrderRuntime.go` and `makerOnlyRuntime.go` (`src/service/strategies/`) and
`connector.go` (`src/sources/mongodb/`).

## 1. Inventory

| Component | State | Operations | Hard part | Status |
|---|---|---|---|---|
| Order tracking (`waitOrder.go`, `connector.go`) | `OrdersMap`, `StatusByOrderId`, `OrderCallbacks`, `core_orders` | `waitForOrder`, `SubscribeToOrder`, `InitOrdersWatch`, `orderCallback` | a goroutine per change event and per order; duplicates, gaps, restart | modelled, proved |
| Smart order (`smartOrder.go`, `placeOrder.go`, `exit.go`, `entryTimeout.go`, `waitOrder.go`) | state machine, `Strategy.Model.State`, `IsWaitingForOrder`, `Lock`, `StopLock` | guards, entry actions, `PlaceOrder`, `Start`, `Stop`, `checkTimeouts` | five kinds of goroutines fire one state machine without a lock; sleeps; late answers | partly: see below; proved for the first iteration |
| Trailing (`trailing.go`) | `TrailingEntryPrice`, `TrailingExitPrices`, `TrailingCheckAt`, `Lock` | `checkTrailingEntry`, `checkTrailingProfit`, `placeTrailingOrder` | a goroutine per better price; replacing an order while it fills | modelled for long orders with one exit level, proved |
| Multi-entry averaging (`averaging.go`) | `SelectedEntryTarget`, `StopMux`, id lists of the document | `placeMultiEntryOrders`, `enterMultiEntry`, `getAveragingEntryAmount` | fills of two levels at once, `StopMux` on early return, restart | modelled on futures, without prices; mostly proved |
| Settlement (`strategy.go`, `strategySingleton.go`) | redis mutex, extending goroutine, `lastValidityCheckAt` | `Settle`, `Init`, `AddStrategy`, `Start`'s check | expiry, failed and late extensions, crash, two mutex names | modelled, proved |
| Maker-only orders (`makeronly_order/`, `strategySingleton.go`) | `EntryOrderId`, `OrdersMap`, `MakerOnlyOrder`, registry entry | `CreateOrder`, `Start`, `PlaceOrder`, `orderCallback`, `CancelOrder`, `Stop` | cancel and replace racing a fill; everything starts on goroutines after `CreateOrder` has answered | modelled, proved |
| Registry and watch (`strategySingleton.go`) | `strategies`, `pairs`, `full` | `AddStrategy`, `CreateOrder`, `CancelOrder`, `WatchStrategies`, `HotReload` | unsynchronised map, test-then-insert, full instances | partly, for one strategy |
| `EditConditions` (`strategySingleton.go`) | id lists of the model, `SelectedExitTarget`, the conditions last saved | `HotReload`, cancel and replace orders, `SaveStrategyConditions` | fills between cancel and replacement, edits while the entry is bought | modelled for futures with limit levels; mostly proved |
| Positions watch | - | disables strategies closed outside | order of two watches | not modelled |
| Hedging (`trailingHedge.go`) | `HedgeStrategyId` | `hedge`, `waitForHedge` | two strategies waiting for each other | not modelled |
| Spread hunter (`spreadHunter.go`) | - | `checkSpreadEntry` | none beyond the event loop | not modelled |
| Quantities (`getLastTargetAmount`, `toFixed`, PNL) | - | pure functions | rounding | the amounts of entry levels |
| Storage access (`connector.go`) | MongoDB documents | queries, updates | partial updates of one document | the parts above |
| Trading client, feeds, server, metrics, logging, MySQL | - | input and output | - | not modelled |

How they meet. `Init` settles the enabled strategies and starts each on a
goroutine of its own, then starts the watches. A strategy's runtime is a smart
order: `New` builds the state machine and places the entry, `Start` feeds it
prices, `PlaceOrder` talks to the exchange and hands the id to order tracking,
order tracking fires `CheckExistingOrders` when the order has ended. `Stop` is
called by the loop when it ends, and by `WatchStrategies` (through `HotReload`)
when the document was disabled. The settlement mutex is looked at by the loop
only.

What makes the components correct:

- *order tracking*: the end of an order reaches the state machine once, and
  with the step it was placed for; it does reach it; restarts duplicate nothing;
- *smart order*: the books (the position in the model) are the exchange's; a
  position is not left without an order that closes it; the machine ends only
  when the position is closed; one entry per iteration; one `Stop` at a time;
- *maker-only order*: never two orders open at the exchange, the open one is the
  one the next turn cancels, none is left when the runtime ends, one fill;
- *trailing*: until a fill of the entry is heard of no more than its amount is sent, and
  nothing after it (which the code does not keep: section 3); the edge only improves, an
  exit order is replaced without a gap and without a leftover;
- *averaging*: one take profit, for all that was bought, whatever order the levels'
  fills are heard in; whoever waits for `StopMux` waits for somebody who gives it back
  (which the code does not keep either);
- *edits*: once an edit is handled, the orders at the exchange are those it asks for, none
  of the ones before, and they cover the position;
- *settlement*: one runtime per strategy, or for how short a time two;
- *registry*: one runtime per id in an instance, none forgotten.

`PROJECT.json` lists the hazards, each at its line.

## 2. Modules

| Module | Models | Extends / composes |
|---|---|---|
| `OrderOutcome` | what a smart order may rely on about an order (abstract) | - |
| `OrderTracking` | how it comes about: maps, goroutines, stream, restart | refines `OrderOutcome` |
| `OrderTracking_proofs` | theorems | `OrderTracking` |
| `SmartOrder` | the life cycle of one smart order | relies on `OrderOutcome` for its notices (action `FireOnOrder`, at most once per order) |
| `SmartOrder_proofs` | theorems | `SmartOrder` |
| `Protected_proofs` | theorem that a position is protected | `SmartOrder_proofs` |
| `Trailing` | the path of a smart order with a trailing entry and a trailing exit | the same promise, in `Hears` |
| `Trailing_proofs` | theorems | `Trailing` |
| `Averaging` | the path of a smart order with entry levels | the same promise, in `Hears` |
| `Averaging_proofs` | theorems | `Averaging` |
| `Editing` | edits of a smart order that waits, enters or is being sold | the same promise, in `Hears` |
| `Editing_proofs` | theorems | `Editing` |
| `MakerOnly` | a maker-only order from `CreateOrder` to the end of its runtime | - |
| `MakerOnly_proofs` | theorems | `MakerOnly` |
| `Settlement` | which instance runs a strategy | - |
| `Settlement_proofs` | theorems | `Settlement` |
| `MC...` | small instances for TLC | the module they are named for |

### OrderTracking

The variables `ordersMap`, `statusByOrderId`, `orderCallbacks` are the key sets
of the three maps. Goroutines have no identity: those that stand at the same
place for the same order are counted (`events`, `calling`, `firing`). `placer`
and `waiter` say how far `PlaceOrder` and `waitForOrder` are. Every access to a
shared map is an action of its own. `orderCallback`'s critical section is one
action (`EnterCallback`): it holds `OrdersMux` throughout. `waiter` also notes what the
one lookup of `SubscribeToOrder` has seen: an order that had ended (`found`) or one that
the stream alone can bring (`waits`). `reported` and
`unknown` count the guards of `checkExistingOrders` that did, or did not, find
the step.

A restart (`Crash`) empties what is in memory; documents stay. The nil map of
`OrderCallbacks` before `InitOrdersWatch` ends the process
(`PanicOnNilCallbacks`), as a nil pointer in a goroutine does.

### SmartOrder

`machine` is `sm.State`; `model` is `Strategy.Model.State` with `Enabled`;
`sm` holds the flags of the struct; `ord` the orders the exchange took, in order;
`canceling` the orders a `go CancelOrder` is under way for; `world` the position
at the exchange, `enabled` in the storage, the mutex and the registry entry.
`todo[t]` is what goroutine `t` has still to do: a stack of frames whose first one
is next. A goroutine can be preempted at every frame boundary: at each call to
the exchange (`place`/`send` then `answer`), between a guard that passed and
the destination selector with its entry action (`move`), at each sleep, and
between the parts of `Stop`. `stateless` in its immediate mode holds no lock over
a transition, so two goroutines may both have passed a guard.

| Goroutine | Frames | Code |
|---|---|---|
| `loop` | `onStart`, `startRuntime`, `loop`, then `stop` | `New`, `Start`, `Stop` |
| `watch` | `stop`, `unregister` | `HotReload` on `WatchStrategies`' goroutine |
| `callback k` | `move` and what follows | `orderCallback` of order `k` |
| `Stoploss i`, `ForcedLoss i` | `place`, `send`, `answer` | `go sm.PlaceOrder` in `enterEntry` |
| `timer i` | `sleep`, `awaitEntry`, `cancelEntry`, `timeUp`, `markTimeout` | `checkTimeouts` of iteration `i` |
| `sweep`, `late` | themselves | the two five-second goroutines of `Stop` |

The guards (`CheckLoss`, `CheckProfit`, `CheckWaitEntry`, `Booked` for
`checkExistingOrders`) are functions from what they read to whether they pass and
the model they leave behind, since the guards of this program write.

What is abstracted:

- amounts are small natural numbers, the exit levels add up to the entry, no
  commission; prices are where they lie relative to the stop loss and the exit
  levels;
- an order fills as a whole or is canceled; on futures an exit is reduce-only
  and closes no more than the position;
- a guard is one step (the data race on `ExecutedAmount +=` is not modelled),
  and so is the chain of guards of one turn of the event loop;
- retries inside `PlaceOrder` are folded into the answer that ends them;
- a goroutine that an iteration starts twice runs the second job after the first;
- `longSleeps`: when TRUE, a sleep of seconds is over only when all other
  goroutines wait for the exchange or sleep. `DisabledAndSlow` sets it to FALSE.

The only constant is `Setups`: a set of records (`SetupType`), each with the
conditions of a strategy, what its surroundings may do (prices of the feed, errors of
the exchange service, the user, the mutex) and the bounds `orders`, `iterations`
and `errors`. `Init` picks one and `world.setup` keeps it, so that one run checks
its properties on several kinds of strategies.

Not in it: trailing and entry levels, which have modules of their own, and what
section 5 lists.

### Trailing

A long order of one unit with `ActivatePrice` for the entry and for its one exit
level, on futures, spot with limit orders or spot with market orders
(`setup.type`). `model`, `sm`, `ord`, `canceling` and `world` are as in
`SmartOrder`; `model.edge` is `TrailingEntryPrice`, `model.exits`
`TrailingExitPrices`, `model.checkAt` says which goroutine wrote
`TrailingCheckAt` last and `model.placed` is `ExecutedOrders`. `go[g].at` is where
a goroutine is: `nap` is the sleep of two seconds before it looks at the edge
again, `cancelFirst`, `send` and `answer` are `PlaceOrder`'s requests, `hold` is
the sleep of three seconds before `Lock` is given back, `move` and `stop` are the
loop's.

| Code | Actions |
|---|---|
| `checkWaitEntry`, `enterTrailingEntry` | `Activate` |
| `checkTrailingEntry` | `TrailEntry`, `EnterOnSpot` (a market entry on spot) |
| `checkTrailingProfit` | `ActivateExit`, `TrailExit`, `SellOnSpot`; `MoveOn` for the transition after it |
| `placeTrailingOrder` | `Wake`, `Release` |
| `PlaceOrder(-1, ...)` | `CancelFirst`, `AcceptOrder`, `RejectReduceOnly`, `RejectTriggered`, `Answer` |
| `checkExistingOrders`, `enterEntry`, `exit` | `HearEntry`, `HearNothing`, `HearExit` |
| `Stop` | `Stop`, `Sweep`, `PlaceCanceled` |
| the exchange, `go CancelOrder` | `Fill`, `CancelOrder` |

The sleeps are the mechanism by which this code keeps its goroutines apart, so the
model has to say what they order: checks wake up in the order in which they were
started (a turn of the loop lasts 60 ms at least), all that were started before a
`hold` of three seconds are awake before it is over, an order that filled at
once has been heard of within it, and every call of `PlaceOrder` is over by the sweep that
`Stop` does five seconds later (`FiveSecondsLater`). Nothing in the code makes sure of the last
one: the retries in `placeOrder.go` and `trading.go` can outlast five seconds, and an order that
is taken after the sweep stays open. `Lock` is tested and set in one step with
the waking up, since two checks do not wake within the same few instructions. A
`ReduceOnly Order is rejected` and an `immediately trigger` are the errors of the
exchange in this module; prices stay above the stop loss.

### Averaging

A long futures order with entry levels, a stop loss in per cent and one limit exit
level; `PlaceWithoutLoss`, `ForcedLoss`, `PlaceEntryAfterTAP` and
`CloseStrategyAfterFirstTAP` as a setup says. `model` is what the document holds,
with the id lists `TakeProfitOrderIds`, `WaitForEntryIds` and
`ForcedLossOrderIds`, `doc` what was saved last, `sm` the flags,
`callback[k].at` where `enterMultiEntry` is that the fill of order `k` has
started.

| Code | Actions |
|---|---|
| `New`, `placeMultiEntryOrders` | `Init`, `AcceptOrder` |
| a restart | `Crash`: another process begins with `doc` |
| `checkExistingOrders` | `HearEntry`, `HearTakeProfit`, `HearStop`, `HearWithoutLoss` |
| `enterMultiEntry` | `Enter`, `Panic` (an index out of range), `PlaceWithoutLoss`, `ReturnEarly`, `Replace`, `CancelTakeProfit`, `PlaceTakeProfit` |
| `getAveragingEntryAmount`, the amounts of `PlaceOrder` | `AveragingEntryAmount`, `LevelAmount` |
| the exchange, `go CancelOrder` | `Fill`, `CancelOrder` |

From a fresh start the machine stays in `WaitForEntry` when a level is bought
(`EntersOnFill` below); in `InMultiEntry` it is after a restart, so the setups have
one. `Panic` ends the following, as it ends the process. The
order is followed until the machine is in `End`, and `enterMultiEntry` to its return. A
`WithoutLoss` or take profit order without a position to reduce is refused, which disables the
strategy, and the properties leave disabled ones out (`Live`); the stop orders that `New`
places before there is a position are taken. `Stop`, other errors, and the gap
between an order being taken and being known are `SmartOrder`'s. An exchange that
fills the levels of a falling price from the top is assumed (`Above`), and
the requests of the goroutines arrive in the order in which these were started.

### Editing

A long futures order with a limit entry, limit exit levels, a stop loss and possibly a
forced loss, from its entry order being open. `setup.conditions` is the sequence of
conditions the user writes; `world.edits` says which one is in the storage,
`model.cond` is `Model.Conditions` and `model.saved` what `SaveStrategyConditions` has
noted. `target` is `SelectedExitTarget`, `model.tapIds` `TakeProfitOrderIds`. `todo` is
as in `SmartOrder`, for the goroutine of the watch, the transition that places the
exits (`entering`) and the two that place stops.

| Code | Actions |
|---|---|
| the user; `WatchStrategies`, `HotReload` | `Edit`; `WatchStrategies` (with what is in the storage by then) |
| `EditConditions`, entry / stop and forced loss / single level | `ReplaceEntry` / `ReplaceStop` / `ReplaceExit` |
| `EditConditions`, several levels | `SelectLevel`, `CancelLevel` (one request after the other), `ReplaceLevels` |
| `SaveStrategyConditions` | `SaveStrategyConditions` |
| `PlaceOrder` | `SkipOrder`, `AcceptOrder`, `Answer`, `RejectOrder`, `RejectTriggered` |
| `checkExistingOrders`, `exitWaitEntry`, `enterEntry`, `exit` | `HearEntry`, `HearExit`, `HearNothing` |
| the exchange, `go CancelOrder` | `Fill`, `CancelOrder` |

The guard of `EditConditions` is not in the module because it never returns here: the
state in the model is `""` while the first entry order waits. `early` tells the setups in
which an edit may come before the exits of the entry have been placed. The event loop is
left out: on futures it does no more than the orders at the exchange do. Prices are
numbers that tell one edit from another. `Sold` and `LevelAmount` are
`getLastTargetAmount`: edited levels may add up to more than the entry, the last one is
negative then, and the exchange rejects it as it rejects a reduce-only order without a
position (`RejectOrder`).

### MakerOnly

Two orders are told apart: `ord` are those at the exchange, one after the other;
`orderDoc` is the document that `CreateOrder` made for the user, and
`makerOnlyOrder` the copy of its status in `sm.MakerOnlyOrder`. `model` is the strategy
that runs (`Enabled`, `State.State`), `entryOrderId` its `State.EntryOrderId`,
`registry` which strategy `CancelOrder` will find. `going` holds the goroutines that
have one thing to do (`go ss.AddStrategy`, `go SaveOrder`, the read of the order in
`New`, ...), `task` where the loop, the requests of the user and the `go
CancelEntryOrder` of each `Stop` are.

| Code | Actions |
|---|---|
| `CreateOrder`, `AddStrategy`, `RunMakerOnlyOrder`, `New` | `SaveOrder`, `AddStrategy`, `RunMakerOnlyOrder`, `SetRuntime`, `GetOrder`, `CreateStrategy` |
| `Start`, `processEventLoop`, `PlaceOrder` | `BeginTurn`, `LeaveLoop`, `GiveUp`, `SendOrder`, `Answer`, `TryAgain`, `RejectOrder` |
| `CancelEntryOrder` | `ReadEntryOrderId`, `ExchangeCancels`, `ClearEntryOrderId` |
| `orderCallback`, `enterFilled` | `HearFill`, `CopyStatus`, `FireCheckExistingOrders` |
| `Stop` | `Stop`, `StopMarksCanceled`, `StopDisables`, `MarkCanceled`, `SaveWhenRead`, `DisableStrategy` |
| `CancelOrder` | `CancelOrder`, `HotReload`, `SaveCanceled` |
| `WatchStrategies`, cold start | `WatchStrategies` |
| nil dereferences (`connector.go:189`, `makeronlyOrder.go:79,96`) | `Panic`, after which the process does nothing |

Every turn places an order: `State.EntryPrice`, which `processEventLoop` compares
with the best prices, is written by a fill only. That an order is canceled and
replaced at the same price is left out, prices are not in the model.
An order fills as a whole, a cancel request is executed (it cancels an order that
is open), the callback of an order is called once (that is what `OrderOutcome`
promises, shown for smart orders), and the documents that `Stop` and the callback
write are left out since nobody reads them again. A restart of the process is not
modelled here.

### Settlement

Time is counted in ticks, `ttl` is what redis has left of a mutex, `sinceExtend`,
`sinceCheck` and `blockedFor` are the clocks of a runtime. `Tick` is held back
while somebody who must act within a bound has not (`InTime`): the extending
goroutine may be `ExtendDelay` late, the loop checks the mutex once
`sinceCheck > CheckEvery`, and `New` or one turn of the loop lasts `MaxBlock` at
most. `MaxBlock` is a parameter and not a promise of the code (a turn calls the
exchange service, with retries that sleep up to a minute): the theorem says how the
limit depends on it. Redis never loses a key before it expires.
`InitName` and `WatchName` are the two formats of the mutex name.

## 3. Runs

| Run | Instance | Shows |
|---|---|---|
| `tracking` | two orders (an entry that is bought, an exit), up to 2 events per document after the stream opened, one restart; `FairSpec` | `TypeOK`, `OneNoticePerOrder`, `NoticeKnowsStep`, refinement of `OrderOutcome` (`OutcomeSpec`), `EndIsReported` |
| `life` | `DisabledAndSlow`: one level, the user disables at any time, sleeps of any length, 4 orders; `FuturesFalling`: two levels, price at the stop loss, 4 orders; `FuturesContinue`: two iterations, 6 orders; `FuturesFaulty`: the same with a forced loss, a price at the stop loss and one error of the exchange service at any request, 3 orders; `SpotAnyPrice`: two levels, any price, 5 orders; `SpotTimeout`: entry timeout, two iterations, the mutex may be lost, 5 orders | `TypeOK`, `Protected`, `BooksMatch`, `EndMeansClosed`, `NoDoubleEntry`, `StartsFlat` |
| `deadloss` | `SpotAnyPrice` | **violated**: `LossIsCut` |
| `trailing` | futures, spot limit and spot market; prices 1 to 6, 4 checks, 5 orders, one `immediately trigger` | `TypeOK`, `EntryExposure`, `EdgeOnlyImproves`, `NeverWithoutExit`, `OneExit`, `NothingLeftOpen` |
| `trailing_twice` | spot limit | **violated**: `BoughtOnce` |
| `averaging` | two levels: plain; with a forced loss, `PlaceWithoutLoss` and `CloseStrategyAfterFirstTAP`; with `PlaceEntryAfterTAP`; in per cent; and one level restarted before anything was saved. One restart, 6 to 11 orders | `TypeOK`, `IndexInRange`, `OneTakeProfit`, `TakeProfitCovers` |
| `averaging_fresh` | two levels | **violated**: `EntersOnFill` |
| `editing` | two exit levels, edited with the stop, or twice; one level with a stop and a forced loss, one stop refused; edits before the entry is heard: of the stop and the level, and of the entry twice; and edited levels that add up to more than the entry. Up to 8 orders | `TypeOK`, `EntryFollowsEdit`, `StopFollowsEdit`, `OldStopsAreGone`, `ExitsFollowEdit` |
| `lease` | two instances, two runtimes, expiry 4, extension every 1 (+1 late), check every 1, blocked for at most 2 | `TypeOK`, `ExtenderHoldsMutex`, `StaleIsShort` |
| `two` | same | **violated**: `NotMoreThanOneRuntime` |
| `maker` | two orders, one request of the user, one refusal | `TypeOK`, `OneOpenOrder`, `OpenIsKnown`, `NothingLeftOpen` |
| `maker_twice` | same | **violated**: `FilledOnce` |

Bounds. An iteration of `SmartOrder` has no more than one entry, one order per exit
level, one stop, one forced loss and the orders of `Stop`: `orders` is that number, or
large enough that the orders of interest fit. In `FuturesFaulty` three orders cut off
the exit orders of the second iteration, not its entry. `iterations` 1 is the first
continuation. `MaxEvents` 2 is the first duplicate. In `lease` two runtimes
suffice to take a mutex over; the proofs hold for any number of them and all times.
In `maker` two orders are the first replacement, and one request the first `Stop`
beside the loop's own; the proofs hold for any number of either.
In `trailing` four checks are two that wait while a third holds the order and a fourth
begins, and prices 1 to 3 are three better ones below the price that
activates the entry. In `averaging` two levels are the first whose fills can overlap, and the
levels are placed twice (before and after the restart), the most that the id lists
in the document have to tell apart.
`OneTakeProfit` and `TakeProfitCovers` are about the orders of this life of the process: what the
life before left open, or had bought, is not counted.
In `editing` two levels are the first of which one can be sold while the other is edited,
and a second edit is the first to meet the orders an edit has placed; 7 or 8 orders are all
that two edits place.
Deadlock is not checked: an order that ended, and a strategy nobody enables
again, do stop.

`Protected`, `BooksMatch` and `LossIsCut`, and the properties of `Trailing`,
`Averaging` and `Editing` that say so, speak of states at rest (`AtRest`): nobody but sleeping timers
and the idle loop has anything to do, every fill was told, no cancel is under way. In
between the books cannot match, since the fill and the notice of it are two steps.

Where the code does not keep what a property of `SmartOrder` would say, the property names
the case and leaves it out (each is explained in "More that modelling showed"):

- `Steady`: nobody but a price of the feed writes the state between a guard and `exit()` (no
  entry timeout, no error of the exchange service), and of the prices at the stop loss none
  is followed by a better one. `EndMeansClosed` and `Protected` are about such setups, on futures;
  `Protected` also leaves out those that continue;
- `Ordinary`: the first iteration, or an order that only fills move. `NoDoubleEntry` and
  `BooksMatch` are about these; `BooksMatch` also leaves out the entry timeout, as
  `StartsFlat` does, which is about futures.

Fairness. Only `OrderTracking` has a fair specification: weak fairness of every
goroutine's step, which is what the Go scheduler gives a runnable goroutine; none
for the exchange, for later writes to a document, or for restarts.
`EndIsReported` has two exceptions, and both are in the formula: the process died,
or the one lookup saw the order open and it ended before the stream was there (`Missed`). An
order that the lookup found ended has to be reported, though no stream ever opens.
`TypeOK` of `OrderTracking` has a fact beside the types, that whatever is under way for an order
(an event, a callback, a goroutine about to fire) belongs to one that has ended.

`EntryExposure` counts the orders sent for a trailing entry that may fill or have: one, until a fill
has been heard of, however many checks replaced each other; two after it. That there can be a
second one is shown below (`NotSentTwice`); `EntryExposure` says that there is never a third.

### What the violated runs show

1. `LossIsCut` (`smartOrder.go:584`): after the first reached level
   `model.State.State` is `TakeProfit`, and the stop loss acts in `InEntry` only; on
   spot no stop order exists that would do it instead.
2. `FilledOnce` (`makeronly_order/makeronlyOrder.go:119`, `placeOrder.go:14`): when the
   order to be replaced has filled, its cancel fails, and `PlaceOrder` places the
   whole amount again if the callback of the fill was not heard yet.
3. `NotMoreThanOneRuntime` (`strategySingleton.go:201`, `strategy.go:21`): `Init` and
   `WatchStrategies` lock different names.
4. `BoughtOnce` (`placeOrder.go:20,80`): the case `InEntry` of `PlaceOrder` returns
   when the entry was bought by a stop-limit order already; it decides so by
   `orderType`, which is still `"market"` there. On spot a trailing entry with limit
   orders is bought a second time.
5. `EntersOnFill` (`waitOrder.go:140`, `smartOrder.go:175-177`): the fill of an entry
   level fires a trigger that only `InMultiEntry` permits, and the guard it is fired
   in returns false. The machine stays in `WaitForEntry` and no take profit is
   placed, until a restart begins in the `InMultiEntry` of the document.

Two more configurations end in a violation. They show bugs of the components above by a
second path, and are kept beside the runs (`tlc -config MCTrailing_late.cfg MCTrailing.tla`,
`tlc -config MCAveraging_leak.cfg MCAveraging.tla`):

- `MCTrailing_late.cfg`, futures, `NotSentTwice` (`trailing.go:200-205`, `smartOrder.go:366`): the stop
  order of a trailing entry fills and is heard of while a later check sleeps. `enterEntry` has emptied
  `ExecutedOrders` and touches neither `TrailingCheckAt` nor `Lock`: the check wakes up, finds
  nothing to cancel (`placeOrder.go:523`) and sends the whole amount again, in `InEntry`. The comment
  on the sleep under `Lock` (`trailing.go:205`) says that it is there "to avoid double send of orders".
  So a trailing entry is bought twice on futures, too, where `BoughtOnce` is about limit
  orders on spot;
- `MCAveraging_leak.cfg`, three levels, one restart and 11 orders, `WaitsForSomebody`
  (`averaging.go:88-95`): `enterMultiEntry` returns early with `StopMux` locked when the order has
  ended meanwhile. The fill of another level waits for ever, and what it bought has no take
  profit, against `averaging.go:65`: "enterMultiEntry executes once multiEntryOrder got executed". It
  takes a first level that has left a take profit, a second whose fill is inside when that one sells
  all, and a third whose fill waits.

### More that modelling showed

No line of the repository says what should happen in these cases, so no run is made
of them:

- `State.Commission` counts a fee twice when the end of an order is told twice: the
  fee is added before the duplicate is recognised (`waitOrder.go:29-37`);
- `StopLock` is a plain bool (`smartOrder.go:779-788`), and the loop and the watch can
  both run the body of `Stop`. `Protected` holds all the same: both closing orders
  are reduce-only on futures;
- `exit()` has no case for a loss that comes back: of the states `TakeProfit` and
  `Stoploss` it knows nothing in `Stoploss` (`exit.go:117-133`, the TODO at `:19-22`), and says
  `End`. The machine ends with the position open when the price goes to the stop loss and
  from there to an exit level, or away and back, on spot and, before the stop order is registered or
  with a forced loss, on futures. `Stop` then finds the machine in `End`, cancels every order,
  the stop among them, and closes nothing (`smartOrder.go:792-840`). The same
  happens when a refused order writes the state `Error`, or the entry timer
  `Timeout`, between the guard that passed and `exit()`. This is what `Steady` leaves out;
- with `ContinueIfEnded`, when the notice of the last fill passes its guard and so does the
  loop's price before `exit()` has run, both goroutines run `exit()`, both start the next
  iteration and its entry is bought twice; what is sold then no longer fits the books. It
  takes a price at the stop loss or an exit level, or a take profit that was refused. This
  is what `Ordinary` leaves out;
- with `ContinueIfEnded` on spot the iteration that ends at the stop loss can leave part of the
  position to the next: a market sale, and exits that are not reduce-only, are still on their
  way. `StartsFlat` is about futures;
- `ContinueIfEnded` with `Stop`'s late sweep: it cancels the stop of the iteration that
  follows; with an entry timeout: a timer that starts late belongs to the wrong
  iteration and the machine goes to `Timeout`, where a fill has no handler (this is why
  `BooksMatch` and `StartsFlat` leave out the entry timeout);
- a maker-only order that the user cancels while `PlaceOrder` waits for an answer:
  the order is placed after `Stop`'s cancel and stays open. `NothingLeftOpen` is
  therefore about runtimes that end by themselves;
- a trailing exit that finds `Lock` set is dropped, and the next one needs a better
  price (`trailing.go:201`); on spot each new maximum sells (`placeOrder.go:401`); with
  `ContinueIfEnded` the index into `TrailingExitPrices` can be that of the last
  iteration (`trailing.go:178`);
- a restart places all entry levels again beside the ones that were bought
  (`smartOrder.go:262`); with `PlaceEntryAfterTAP` a late fill of the levels before
  makes `EntryLevels[SelectedEntryTarget]` go out of range (`averaging.go:84`,
  hence the exception in `IndexInRange`); entry levels in per cent that are rounded
  leave a remainder at the last one, which `getAveragingEntryAmount` does not
  count (`averaging.go:41-44,107-119`);
- the average entry price weighs with `PositionAmount`, which that branch does not
  increase (`waitOrder.go:131`);
- a stop loss of the whole averaged order that is heard in `WaitForEntry` takes the
  machine to `InMultiEntry` (`smartOrder.go:295-303`), and an `enterMultiEntry` that is
  under way when the order ends takes it out of `End` again (`averaging.go:104`);
- the guard of `EditConditions` (`strategySingleton.go:646`) takes the state `""` of an order that
  waits for its first entry for one in entry: an edit of its stop places a reduce-only order without
  a position, and the refusal disables the strategy (`placeOrder.go:684-688`);
- `EditConditions` takes the index of the first open order in `TakeProfitOrderIds` for the exit
  level to begin with (`strategySingleton.go:744`), and its branch for a single level leaves the id of
  the order it cancels in that list (`:780-790`): a level that is edited and then split in two begins
  with the second, and the amount of the first is never offered. With that setup
  `ExitsFollowEdit` is violated in 24 steps, so `editing` has no edit of a single level before a split;
- an edit of the entry that is handled after the entry was bought cancels the stop and the
  exits and buys once more (`strategySingleton.go:657-673`), and one that meets the fill on its way
  buys twice. `Holding` therefore leaves edited entries out (`EntryKept`);
- a stop or an exit level that is edited while the first ones are being placed leaves an old
  order beside the new one, which is not in the id list yet (hence `early` in
  `OldStopsAreGone` and `ExitsFollowEdit`); edited amounts of a level that was sold already, and
  going back from several levels to a single one (`SelectedExitTarget` is not reset), leave the
  position without its whole take profit;
- on spot the goroutine of the watch sleeps five seconds for every replacement
  (`strategySingleton.go:661`), and the edits of all other strategies wait for it.

## 4. Proofs

`OrderTracking_proofs` (TLAPS): for every set of orders and all bounds,

- `TypeCorrect`, `TrackingInvariant`: the inductive invariant is `Shape` (the types) with
  three facts per order that TLC's properties do not mention: where the id can be
  given how far `PlaceOrder` and `waitForOrder` are, that a callback
  is only called once its step is stored, and that a notice exists only of an
  order that ended. `OneNoticePerOrder` alone is not inductive: a
  callback about to be entered must be known to belong to a tracked or lost order;
- `OneNotice`, `KnownStep`: consequences of it;
- `ImplementsOutcome`: `Spec => Outcome!Spec`; every step of the tracking is a
  `Place`, an `End`, a `Handle` or a stutter of `OrderOutcome` under
  `handled <- reported + unknown`.

`Settlement_proofs`: for any number of instances and runtimes, under
`SettlementAssumption` (an extension, even a late one, comes before the expiry),

- `TypeCorrect`;
- `ExtenderInTime`: a runtime whose extender lives holds the mutex. The invariant
  relates the two clocks: what redis has left and the time since the last
  extension add up to the expiry at least;
- `StaleWorkIsShort`: a runtime that lost the mutex works on for at most
  `StaleLimit == CheckEvery + MaxBlock + Outlasts - 1` ticks. The invariant bounds
  `staleFor` in every phase by what the check and the block have consumed. TLC
  shows that the limit is tight: with one less it is violated.

`MakerOnly_proofs`: for any number of orders, refusals and requests of the user, under
`MakerOnlyAssumption` (the bounds are natural numbers),

- `TypeCorrect`;
- `OneOrderIsOpen`, `OpenOrderIsKnown`, `NothingIsLeftOpen`: the three safety
  properties of the run. None of them is inductive. The invariant `IInv` adds who can be
  where (`Roles`, `StartsOnce`), that order ids are orders of the exchange (`Ids`), that
  a goroutine which cancels beside the loop exists only once the strategy is disabled
  or the loop has come to `Stop` (`Stopped`), and what the loop and the canceling
  goroutine each know of the open order while they are on their way
  (`LoopKnows`, `CancelerKnows`). The argument: before a strategy is stopped the loop is
  alone, and cancels the order it placed before it places one; after it nobody
  begins a turn, and what is left is the turn under way, which places one order at most,
  after its own cancel.

`Trailing_proofs`: for any setups, prices, number of checks and orders, under
`TrailingAssumption` (what a setup says has its type, and `ALot`, the change of the edge that replaces an entry, is positive),

- `TypeCorrect`, `ExposureBounded`, `ExitWithoutGap`, `OneTrailingExit`, `NothingStaysOpen`: the
  invariants of the run, and `EdgeImproves`, the action property. The argument: a check that
  woke up has `Lock`, so those that replace orders come one after the other (`OneAtATime`), in
  the order in which the edge was moved (`InOrder`, `EdgeAbove`), and each
  cancels the order of the one before it: of an entry before it places its own, of an exit once
  its own is there (`Placed`, `Answers`, `OpenExitIsLast`). An entry that was bought is known (`EntryKnown`, `BeforeEntry`),
  an exit order stays until its successor is there (`ExitStays`), and after the end what
  is still open is on some goroutine's way to be canceled (`Swept`). `Roles`, `Assigned` and
  `Orders` say which goroutine can be where with what. For `ExposureBounded` a second invariant,
  `LateOnce`, stands on `IInv`: once the entry is bought, only a check of it that
  wakes up while `Lock` is free may send an order (`MaySend`), and while there is such a check one
  order was sent at most. The check that does takes `Lock`, and gives it back when no other sleeps.

`Averaging_proofs`: for any number of entry levels, orders and restarts, under
`AveragingAssumption` (the bound of orders leaves room for the first ones),

- `IndexStaysInRange`, `OneTakeProfitIsOpen`. The invariant is
  `Shape` (types, without the amounts), `Lives` (every order is of this process or an earlier
  one), `Runs` (an order that has not ended does not say so, nor does its document), `Waits`
  (a process that waits for its entry has no callback and no exit yet), `OneInside` (the
  holder of `StopMux` is the one inside), `TakeProfits` (whoever is inside has canceled every
  take profit of this life before it places one), `Fills` and `Selected` (a fill of a level is
  heard once, in the life in which its level was placed, once: this bounds
  `SelectedEntryTarget`).

`Editing_proofs`: for any conditions, number of edits, orders and rejections, under
`EditingAssumption` (what a setup says has its type, and there is an exit level at any time),

- `EntryFollowsEditAlways`, `StopFollowsEditAlways`, `OldStopsAreGoneAlways`: three of the
  properties of the run. None is inductive, since they speak of states at rest, and an edit takes
  several requests on several goroutines. The invariant says what is under way in between. `Typed`,
  `Work`, `Answered`, `Lists`: what can be on whose stack, and that an order which no list of ids
  has yet is in an answer that somebody is about to read. `Saves`: what the orders were placed for
  is `Model.Conditions`, or the watch is still to say so. `Entries`: while nothing was bought, the
  watch has a new entry to place, or one entry is open that no cancel is under way for, at the
  price of now unless the watch has still to look at it. `OldStops`: of a kind of stop one is open
  beside those that are being canceled. `OneEntry`, for an entry that was not edited: the
  position is the entry less what was booked and what exits sold unheard (`Booking`, a sum over the
  orders as in `SmartOrder_proofs`), and while it lasts it is `Guarded`: by an open stop
  at the price of now that is as large as it (`Stop`), by an open order of `Stop`'s kind, or by
  somebody about to place one (`StopComes`). A stop that is placed is large enough because
  `ExecutedAmount` is never ahead of what was sold.

`SmartOrder_proofs`: for any setups (exit levels, prices, errors, bounds), under
`SmartOrderAssumption` (what a setup says has its type, there is an exit level, a forced loss is
for futures),

- `TypeCorrect`: all variables, in every iteration;
- `OneEntryIsBought` and `BooksAgree`: `NoDoubleEntry` and `BooksMatch` in the first iteration
  (the second one can be started twice, so nothing inductive can be said of its entries);
- `EndIsClosed`: `EndMeansClosed`; `SecondStartsFlat`: `StartsFlat`. Both as the run checks them.

None of them is inductive. The invariant is `Beginning` (before `onStart` has run, where the watch
may disable the order and take it out) or `Begun`, whose parts are: what may stand on whose
stack (`Typed`: a guard's verdict and an answer are only ever on top; `Work`: who may have
which frame, given how far the order is); there is one entry, of the whole amount
(`Entries`), since `CheckWaitEntry` does not pass again (`Asked`); until somebody has heard of its
fill the machine and the books are untouched (`Untouched`, `UntoldWork`); the position is at most
what was bought (`Holdings`); the books (`Books`): position, `ExecutedAmount` and what the exits sold
that nobody has heard of add up, the last as a sum over the orders (`Sums`: the invariant
says that a function of partial sums exists, and `SumsAppend` and `Resum` give the next one; the
only induction is that a set of natural numbers has a least element, `LeastNatural`); and `Ends`: while something is left to sell,
`machine`, the state in the model and the price on the loop's stack are such that
`exit()` does not say `End` (`Selected`). Most steps are *minor*: they change none of what
these parts read and put frames on a stack that fit (`MinorKeeps`). The others are the
transitions and the prices (`MajorKeeps`), an order that is taken, fills or is booked, and the
next iteration, for which only the parts that do not say "first iteration" remain.

`Protected_proofs`, on top of that invariant and under the same assumption,

- `PositionIsProtected`: `Protected`, as the run checks it.

That a stop *is* open relates `Stop`'s two cancels, its late sweep and check, and each goroutine that
places a stop. `Guard` says it of every state and not only of those at rest. Its `Cover`: while
there is a position, the entry's fill has not been told (`Untold`), or its transition
is on somebody's stack (`Entering`), or somebody is about to place a stop (`StopComes`) or
to close the position (`CloseComes`), or an order is open that does either and, if it is a
stop, no cancel is under way for it (`Protector`). To keep that, a cancel has to come with
the promise of a closing order: whoever runs `Stop` places one unless all is sold (`Framed`),
`StopLock` is only set while somebody is in `Stop` (`Locked`), and who started the sweep five
seconds later comes back to look for the closing order after it (`Swept`, `Returns`). A closing order
closes everything and is in no list of ids, so that nobody cancels it, one that is waited
for was placed (`Protectors`, `Asks`), and a stop is as large as what the books say is
left (`Protectors`, `Left`). A machine still in
`WaitForEntry` after the fill was told is about to be moved by who heard of it, unless all is sold (`Enters`). At rest none of
the "about to" is left, since nothing lies below the event loop on its stack (`LoopLast`), and `Cover`
is `Protected`.

Only model-checked:

- what `Ordinary` says of the later iterations of an order that continues (`NoDoubleEntry` and
  `BooksMatch` are proved for the first);
- `Averaging.TypeOK` and `TakeProfitCovers`: they are not true of every setup. Nothing in the code
  makes the levels before the last one leave something of the amount, so that what is
  ordered at the last one is a natural number, and rounded percentages do not add up to what
  `getAveragingEntryAmount` says (section 3). The setups of the run divide evenly;
- `Editing.TypeOK` and `ExitsFollowEdit`: they are not true of every setup either. An edit to fewer
  levels than were placed leaves `SelectedExitTarget` beyond them, a single level that was edited
  and is then split begins with its second part, and edited
  amounts, unlike edited prices, need not cover what is left of the position (section 3);
- `EndIsReported`, since liveness is out of the prover's reach.

## 5. Not modelled

- Of `EditConditions`: spot, trailing exits, `TakeProfitPrice` and `TrailingExitPrice`, the hedge
  price, and edits of a trailing or averaged order or beside `Stop`: each is one more
  actor beside all those of `SmartOrder`, `Trailing` or `Averaging`, and the composition is out of
  TLC's reach.
- Hedging: a pair of smart orders that wait for each other, the composition of two
  life cycles; the repository has no test that runs it.
- The positions watch: for a strategy it is a disabling, which `SmartOrder` has at any
  moment (`Disable`).
- The registry as a map of many strategies, the pair filter and full tracking: they decide
  whether an instance takes a strategy, and the mutex decides who runs it. What
  an unsynchronised Go map does under a race is up to the Go runtime.
- Of a smart order: `TimeoutLoss`, `TimeoutWhenLoss`, `TimeoutIfProfitable`,
  `WithoutLossAfterProfit` without entry levels, TradingView alerts, a forced loss on
  spot, several trailing exit levels, and short orders, which are the same code with
  the comparisons turned.
- Floating point: `toFixed`, average prices and profits.
- Partial fills of an order that is canceled afterwards, and an order that was taken while
  its answer was lost: the exchange service, which decides both, is not in the
  repository.
- The spread hunter (the event loop with another guard), the relative entry amount, the
  trading client, feeds, HTTP server, metrics and logging: input and output without
  state that another goroutine reads.
