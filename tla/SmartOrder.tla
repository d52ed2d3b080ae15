----------------------------- MODULE SmartOrder -----------------------------
(***************************************************************************)
(* The life cycle of one smart order: a state machine (stateless, firing   *)
(* immediately and without a lock around a transition) driven at once by   *)
(*                                                                         *)
(*   the event loop        Start, one price of the feed per turn           *)
(*   order callbacks       CheckExistingOrders, a goroutine per order      *)
(*   go PlaceOrder         stop orders placed in the background            *)
(*   the entry timer       checkTimeouts                                   *)
(*   the strategies watch  HotReload, which calls Stop on its own goroutine*)
(*   Stop's late helpers   a sweep and a check five seconds later          *)
(*                                                                         *)
(* Modelled here: long orders ("buy") with one plain entry order, limit    *)
(* exit levels, a market stop loss and a forced loss, on spot and futures, *)
(* with ContinueIfEnded and WaitingEntryTimeout.                           *)
(*                                                                         *)
(* A goroutine is a stack of frames, the first one being what it does next:*)
(* it can be preempted at every call to the exchange, and between a guard, *)
(* the destination selector with the entry action, and what comes after.   *)
(***************************************************************************)
EXTENDS Integers, Sequences, FiniteSetsExt

CONSTANT
    Setups  \* conditions of a strategy, each with what its surroundings may do

\* What a setup says.
SetupType ==
    [futures : BOOLEAN,             \* MarketType = 1
     targets : Seq(Nat \ {0}),      \* amounts of Conditions.ExitLevels
     forcedLoss : BOOLEAN,          \* Conditions.ForcedLoss > 0
     continueIfEnded : BOOLEAN,
     entryTimeout : BOOLEAN,        \* Conditions.WaitingEntryTimeout > 0
     prices : SUBSET Int,           \* of the feed: -1 at or below the stop loss,
                                    \* n when the first n exit levels are reached
     orders : Nat,                  \* bound: orders the exchange takes
     iterations : Nat,              \* bound: restarts of an order that continues
     errors : Nat,                  \* bound: errors of the exchange service
     mayLoseMutex : BOOLEAN,        \* the settlement mutex may become invalid
     mayDisable : BOOLEAN,          \* the user may disable the strategy
     longSleeps : BOOLEAN]          \* a sleep outlasts every step but a call to the
                                    \* exchange

ASSUME SmartOrderAssumption ==
    /\ Setups \subseteq SetupType
    /\ \A s \in Setups :
          /\ s.targets # <<>>
          /\ s.prices \subseteq -1 .. Len(s.targets)
          /\ s.forcedLoss => s.futures

VARIABLES
    machine,    \* sm.State
    model,      \* Strategy.Model.State, and Enabled
    sm,         \* IsWaitingForOrder, IsEntryOrderPlaced, Lock, StopLock, SelectedExitTarget
    ord,        \* the orders the exchange took, in order
    canceling,  \* orders a "go CancelOrder" is on its way for
    world,      \* the setup, position at the exchange, stored "enabled", mutex, errors
                \* so far, whether the service has the strategy, and its runtime
    todo        \* what every goroutine has still to do

vars == <<machine, model, sm, ord, canceling, world, todo>>

setup == world.setup
Futures == setup.futures
Targets == setup.targets
ContinueIfEnded == setup.continueIfEnded

\* Amount in the first n exit levels; all of them make up the entry amount.
Taken[n \in 0 .. Len(Targets)] == IF n = 0 THEN 0 ELSE Taken[n - 1] + Targets[n]

Amount == Taken[Len(Targets)]

Steps == {"WaitForEntry", "TakeProfit", "Stoploss", "ForcedLoss", "Canceled"}
Exits == Steps \ {"WaitForEntry"}
MachineStates == {"WaitForEntry", "InEntry", "TakeProfit", "Stoploss", "End", "Timeout"}
OrderIds == UNION {1 .. s.orders : s \in Setups}
Iterations == UNION {0 .. s.iterations : s \in Setups}
ModelStates == MachineStates \cup {"", "EnterNextTarget", "Error"}

\* mutant: no CheckExistingOrders configured for TakeProfit
HandlesOrdersUntilProfit == MachineStates \ {"Timeout", "TakeProfit"}

HandlesOrders == MachineStates \ {"Timeout"}

HandlesPrices == {"InEntry", "TakeProfit", "Stoploss"}

-----------------------------------------------------------------------------
(* Goroutines *)

Loop == <<"loop", 1>>
Watch == <<"watch", 2>>
Threads ==
    {Loop, Watch}
      \cup ({"sweep", "late"} \X {1, 2})
      \cup ({"Stoploss", "ForcedLoss", "timer"} \X Iterations)
      \cup ({"callback"} \X OrderIds)

\* What a goroutine sleeping for seconds may find the others doing.
Asleep == {"loop", "sleep", "sweep", "lateCheck", "awaitEntry"}
Calling == {"place", "send", "answer", "cancelAll"}

SleepIsOver ==
    setup.longSleeps =>
        \A t \in Threads : todo[t] # <<>> => Head(todo[t]).op \in Asleep \cup Calling

Do(op) == [op |-> op]
Place(step) == [op |-> "place", step |-> step, price |-> FALSE]
PlaceAt(step) == [op |-> "place", step |-> step, price |-> TRUE]

Top(t, op) == todo[t] # <<>> /\ Head(todo[t]).op = op

\* t goes on with these frames instead of its first one; u gets the others.
Then(t, frames) == [todo EXCEPT ![t] = frames \o Tail(@)]
ThenGo(t, frames, u, others) == [Then(t, frames) EXCEPT ![u] = @ \o others]

\* onStart: place the entry, then go checkTimeouts.
Timer == IF setup.entryTimeout THEN <<Do("checkTimeouts")>> ELSE <<>>
OnStart == <<Place("WaitForEntry")>> \o Timer

FreshModel == [state |-> "", entered |-> FALSE, executed |-> 0, amount |-> 0,
               position |-> 0, reached |-> 0, iteration |-> 0, orders |-> <<>>,
               enabled |-> TRUE]

Init ==
    /\ machine = "WaitForEntry"
    /\ model = FreshModel
    /\ sm = [waiting |-> {}, entryPlaced |-> FALSE, lock |-> FALSE,
             stopLock |-> FALSE, target |-> 0]
    /\ ord = <<>>
    /\ canceling = {}
    /\ \E s \in Setups :
          world = [setup |-> s, pos |-> 0, enabled |-> TRUE, mutex |-> TRUE, errors |-> 0,
                   registered |-> TRUE, runtime |-> FALSE]
    /\ todo = [t \in Threads |->
                 IF t = Loop THEN <<Do("onStart"), Do("startRuntime"), Do("loop")>> ELSE <<>>]

-----------------------------------------------------------------------------
(* The exchange, as PlaceOrder and the callbacks see it.  An order fills as a
   whole; on futures an exit is reduce-only: never more than the position. *)

Smaller(a, b) == IF a < b THEN a ELSE b

Fill(k) ==
    /\ ord[k].status = "open"
    /\ LET o == ord[k]
           got == CASE o.step = "WaitForEntry" -> o.qty
                    [] o.step # "WaitForEntry" /\ ~Futures -> o.qty
                    [] OTHER -> Smaller(o.qty, world.pos)
       IN /\ ord' = [ord EXCEPT ![k].status = IF got = 0 THEN "canceled" ELSE "filled",
                                ![k].got = got]
          /\ world' = [world EXCEPT !.pos = IF o.step = "WaitForEntry" THEN @ + got
                                                                       ELSE @ - got]
    /\ canceling' = canceling \ {k}
    /\ UNCHANGED <<machine, model, sm, todo>>

Closed(ids) ==
    [k \in DOMAIN ord |-> IF k \in ids /\ ord[k].status = "open"
                          THEN [ord[k] EXCEPT !.status = "canceled"]
                          ELSE ord[k]]

\* One of TryCancelAllOrders' goroutines gets through.
CancelOrder(k) ==
    /\ k \in canceling
    /\ canceling' = canceling \ {k}
    /\ ord' = Closed({k})
    /\ UNCHANGED <<machine, model, sm, world, todo>>

Known == {model.orders[i] : i \in DOMAIN model.orders}

\* go TryCancelAllOrders(State.Orders): a request for an order that is no longer
\* open does nothing and is left out.
TryCancelAllOrders == canceling \cup {k \in Known : ord[k].status = "open"}

\* TryCancelAllOrdersConsistently(State.Orders): the caller waits.
TryCancelAllOrdersConsistently(t) ==
    /\ Top(t, "cancelAll")
    /\ ord' = Closed(Known)
    /\ canceling' = canceling \ Known
    /\ todo' = Then(t, <<>>)
    /\ UNCHANGED <<machine, model, sm, world>>

-----------------------------------------------------------------------------
(* PlaceOrder: the request, the answer, the next exit level *)

\* mutant: the comparison with the amount turned around
NoEntryToExitTurned ==
    \/ machine = "WaitForEntry" /\ model.amount = 0
    \/ machine = "End"
    \/ model.executed <= Amount

NoEntryToExit ==
    \/ machine = "WaitForEntry" /\ model.amount = 0
    \/ machine = "End"
    \/ model.executed >= Amount

Quantity(step) ==
    CASE step = "TakeProfit" -> Targets[sm.target + 1]
      [] step = "Stoploss" -> Amount - model.executed
      [] step = "Canceled" /\ machine = "WaitForEntry" -> model.amount
      [] OTHER -> Amount

Skipped(f) ==
    \/ f.step = "TakeProfit" /\ sm.target >= Len(Targets)
    \/ f.step = "Stoploss" /\ ~Futures /\ ~f.price
    \/ f.step = "Stoploss" /\ model.executed = Amount
    \/ f.step = "Canceled" /\ (NoEntryToExit \/ "Canceled" \in sm.waiting)

\* On spot the orders are canceled before the Canceled order is sent.
CancelsFirst(f) == f.op = "place" /\ f.step = "Canceled" /\ ~Futures

SkipOrder(t) ==
    /\ Top(t, "place")
    /\ Skipped(Head(todo[t]))
    /\ todo' = Then(t, <<>>)
    /\ UNCHANGED <<machine, model, sm, ord, canceling, world>>

CancelBeforeOrder(t) ==
    /\ Top(t, "place")
    /\ CancelsFirst(Head(todo[t])) /\ ~Skipped(Head(todo[t]))
    /\ todo' = Then(t, <<Do("cancelAll"),
                         [op |-> "send", step |-> "Canceled", qty |-> Quantity("Canceled")]>>)
    /\ UNCHANGED <<machine, model, sm, ord, canceling, world>>

\* t is about to send this request.
Sending(t) ==
    /\ todo[t] # <<>>
    /\ LET f == Head(todo[t])
       IN f.op = "send" \/ (f.op = "place" /\ ~Skipped(f) /\ ~CancelsFirst(f))

Request(t) ==
    LET f == Head(todo[t])
    IN [step |-> f.step, qty |-> IF f.op = "send" THEN f.qty ELSE Quantity(f.step)]

Requested(step) ==
    IF step = "WaitForEntry"
    THEN [sm EXCEPT !.waiting = @ \cup {step}, !.entryPlaced = TRUE]
    ELSE sm

\* The exchange takes the order; the answer is on its way.
AcceptOrder(t) ==
    /\ Sending(t)
    /\ Request(t).qty > 0 /\ Len(ord) < setup.orders
    /\ ord' = Append(ord, [step |-> Request(t).step, qty |-> Request(t).qty, got |-> 0,
                           status |-> "open", known |-> FALSE, told |-> FALSE])
    /\ todo' = Then(t, <<[op |-> "answer", order |-> Len(ord) + 1]>>)
    /\ sm' = Requested(Request(t).step)
    /\ UNCHANGED <<machine, model, canceling, world>>

\* mutant: one exit level too many
AndOneTargetMore(t, step, flags) ==
    LET more == step = "TakeProfit" /\ flags.target + 1 <= Len(Targets)
    IN /\ sm' = [flags EXCEPT !.target = IF more THEN @ + 1 ELSE @]
       /\ todo' = Then(t, IF more THEN <<Place("TakeProfit")>> ELSE <<>>)

\* PlaceOrder calls itself for the next exit level, whatever came of this one.
AndNextTarget(t, step, flags) ==
    LET more == step = "TakeProfit" /\ flags.target + 1 < Len(Targets)
    IN /\ sm' = [flags EXCEPT !.target = IF more THEN @ + 1 ELSE @]
       /\ todo' = Then(t, IF more THEN <<Place("TakeProfit")>> ELSE <<>>)

Answer(t) ==
    /\ Top(t, "answer")
    /\ LET k == Head(todo[t]).order
           step == ord[k].step
       IN /\ ord' = [ord EXCEPT ![k].known = TRUE]
          /\ model' = IF step = "Canceled" THEN model
                                           ELSE [model EXCEPT !.orders = Append(@, k)]
          /\ AndNextTarget(t, step, [sm EXCEPT !.waiting = @ \cup {step}])
    /\ UNCHANGED <<machine, canceling, world>>

\* "ReduceOnly Order is rejected": there is no position to reduce.
RejectReduceOnly(t) ==
    /\ Sending(t)
    /\ Futures /\ Request(t).step \in Exits /\ world.pos = 0
    /\ model' = [model EXCEPT !.enabled = FALSE]
    /\ AndNextTarget(t, Request(t).step, sm)
    /\ UNCHANGED <<machine, ord, canceling, world>>

\* "immediately trigger": the price is through the stop already.
RejectTriggered(t) ==
    /\ Sending(t)
    /\ Futures /\ Request(t).step \in {"Stoploss", "ForcedLoss"}
    /\ world.errors < setup.errors
    /\ world' = [world EXCEPT !.errors = @ + 1]
    /\ todo' = Then(t, <<Place("Canceled")>>)
    /\ UNCHANGED <<machine, model, sm, ord, canceling>>

\* Any other error, once the retries are used up.
RejectOrder(t) ==
    /\ Sending(t)
    /\ world.errors < setup.errors \/ Request(t).qty < 0
    /\ world' = [world EXCEPT !.errors = IF @ < setup.errors THEN @ + 1 ELSE @]
    /\ model' = [model EXCEPT !.enabled = FALSE, !.state = "Error"]
    /\ AndNextTarget(t, Request(t).step, Requested(Request(t).step))
    /\ UNCHANGED <<machine, ord, canceling>>

-----------------------------------------------------------------------------
(* The guards.  Each is a function of what it reads to whether it passes and
   the model it leaves behind. *)

Fail(m) == [pass |-> FALSE, model |-> m]
Pass(m) == [pass |-> TRUE, model |-> m]

CheckWaitEntry(price) ==
    IF "WaitForEntry" \notin sm.waiting /\ price <= 0 THEN Pass(model) ELSE Fail(model)

CheckLoss(price) ==
    LET loss == [model EXCEPT !.amount = Amount - model.executed]
    IN IF ("Stoploss" \in sm.waiting /\ ~setup.forcedLoss) \/ model.executed >= Amount
       THEN Fail(model)
       ELSE IF model.state = "End" \/ machine = "End"
       THEN Pass(model)
       ELSE CASE price = -1 /\ model.state = "InEntry" ->
                   Pass([loss EXCEPT !.state = "Stoploss"])
              [] price = -1 /\ model.state # "InEntry" -> Fail(loss)
              [] price # -1 /\ model.state = "Stoploss" ->
                   Fail([model EXCEPT !.state = "InEntry"])
              [] OTHER -> Fail(model)

\* Levels count as reached once, and what they sell is what is new.
CheckProfit(m, price) ==
    LET fresh == price > m.reached
        counted == [m EXCEPT !.reached = IF fresh THEN price ELSE @]
    IN IF "TakeProfit" \in sm.waiting
       THEN Fail(m)
       ELSE CASE m.executed = Amount ->
                   Pass([counted EXCEPT !.amount = 0, !.state = "TakeProfit"])
              [] m.executed # Amount /\ fresh ->
                   Pass([counted EXCEPT !.amount = Taken[price] - Taken[m.reached],
                                        !.state = IF machine = "TakeProfit"
                                                  THEN "EnterNextTarget"
                                                  ELSE "TakeProfit"])
              [] OTHER -> Fail(m)

\* processEventLoop in the entered states: loss first, then profit on what the
\* loss check left.
CheckLossThenProfit(price) ==
    IF CheckLoss(price).pass THEN CheckLoss(price)
                             ELSE CheckProfit(CheckLoss(price).model, price)

\* mutant: a fill counts as executed whatever its step
BookedAsExecuted(o) ==
    LET sold == [model EXCEPT !.executed = @ + o.got, !.position = @ - o.got]
        done == sold.executed >= Amount
    IN CASE o.step = "WaitForEntry" /\ model.entered -> Fail(model)
         [] o.step = "WaitForEntry" /\ ~model.entered ->
              Pass([sold EXCEPT !.entered = TRUE, !.state = "InEntry",
                                !.position = model.position + o.got])
         [] o.step \in {"TakeProfit", "Canceled"} /\ done -> Pass([sold EXCEPT !.state = "End"])
         [] o.step \in {"Stoploss", "ForcedLoss"} /\ done -> Pass(sold)
         [] OTHER -> Fail(sold)

\* checkExistingOrders: book the fill under the step the order was placed for.
Booked(o) ==
    LET sold == [model EXCEPT !.executed = @ + o.got, !.position = @ - o.got]
        done == sold.executed >= Amount
    IN CASE o.step = "WaitForEntry" /\ model.entered -> Fail(model)
         [] o.step = "WaitForEntry" /\ ~model.entered ->
              Pass([model EXCEPT !.entered = TRUE, !.state = "InEntry",
                                 !.position = @ + o.got])
         [] o.step \in {"TakeProfit", "Canceled"} /\ done -> Pass([sold EXCEPT !.state = "End"])
         [] o.step \in {"Stoploss", "ForcedLoss"} /\ done -> Pass(sold)
         [] OTHER -> Fail(sold)

-----------------------------------------------------------------------------
(* Transitions: the destination selector, then the entry action *)

\* Fire found a handler in this state and its guard passed.
Move(from, price) == [op |-> "move", from |-> from, price |-> price]

\* mutant: exit() without the case of a stop loss in InEntry
NextStateWithoutLoss ==
    CASE machine = "InEntry" /\ model.state \in {"TakeProfit", "InEntry"} ->
           model.state
      [] machine = "TakeProfit" /\ model.state = "EnterNextTarget" -> "TakeProfit"
      [] machine = "TakeProfit" /\ model.state = "Stoploss" -> "Stoploss"
      [] machine = "Stoploss" /\ model.state = "InEntry" -> "InEntry"
      [] OTHER -> "End"

NextState ==
    CASE machine = "InEntry" /\ model.state \in {"TakeProfit", "Stoploss", "InEntry"} ->
           model.state
      [] machine = "TakeProfit" /\ model.state = "EnterNextTarget" -> "TakeProfit"
      [] machine = "TakeProfit" /\ model.state = "Stoploss" -> "Stoploss"
      [] machine = "Stoploss" /\ model.state = "InEntry" -> "InEntry"
      [] OTHER -> "End"

\* onStart: what it does first depends on the model, the timer comes last.
Starting(m) ==
    IF /\ m.state = "" \/ (m.state = "WaitForEntry" /\ ContinueIfEnded /\ setup.entryTimeout)
       /\ m.orders = <<>>
       /\ m.enabled
    THEN OnStart
    ELSE Timer

Enter(t, state) ==
    /\ machine' = state
    /\ UNCHANGED <<ord, world>>

\* exit(): all is sold and the order continues; a new model, one iteration on.
ExitToNextIteration(t) ==
    /\ Top(t, "move")
    /\ Head(todo[t]).from \notin {"WaitForEntry", "End"}
    /\ model.executed >= Amount /\ ContinueIfEnded
    /\ model.iteration < setup.iterations
    /\ canceling' = TryCancelAllOrders
    /\ model' = [FreshModel EXCEPT !.iteration = model.iteration + 1,
                                   !.enabled = model.enabled]
    /\ sm' = [sm EXCEPT !.entryPlaced = FALSE]
    /\ todo' = Then(t, <<Do("onStart")>>)
    /\ Enter(t, "WaitForEntry")

\* exit() says End, but an order that continues waits for an entry instead.
ExitToWaitForEntry(t) ==
    /\ Top(t, "move")
    /\ Head(todo[t]).from \notin {"WaitForEntry", "End"}
    /\ model.executed < Amount /\ ContinueIfEnded
    /\ NextState = "End"
    /\ todo' = Then(t, <<Do("onStart")>>)
    /\ Enter(t, "WaitForEntry")
    /\ UNCHANGED <<model, sm, canceling>>

OnStartChecks(t) ==
    /\ Top(t, "onStart")
    /\ todo' = Then(t, Starting(model))
    /\ sm' = [sm EXCEPT !.waiting = IF Starting(model) = OnStart
                                    THEN @ \cup {"WaitForEntry"} ELSE @]
    /\ UNCHANGED <<machine, model, ord, canceling, world>>

\* New is done: Strategy.StrategyRuntime is set and Start runs.
StartRuntime(t) ==
    /\ Top(t, "startRuntime")
    /\ world' = [world EXCEPT !.runtime = TRUE]
    /\ todo' = Then(t, <<>>)
    /\ UNCHANGED <<machine, model, sm, ord, canceling>>

\* enterEnd, also when an order is reported in End.
EnterEnd(t) ==
    /\ Top(t, "move")
    /\ \/ Head(todo[t]).from = "End"
       \/ /\ Head(todo[t]).from # "WaitForEntry"
          /\ model.executed >= Amount \/ NextState = "End"
          /\ ~ContinueIfEnded
    /\ model' = [model EXCEPT !.state = "End"]
    /\ todo' = Then(t, <<>>)
    /\ Enter(t, "End")
    /\ UNCHANGED <<sm, canceling>>

\* enterEntry: exit levels by this goroutine, then stop orders in the background.
EnterEntry(t) ==
    /\ Top(t, "move")
    /\ \/ Head(todo[t]).from = "WaitForEntry"
       \/ /\ Head(todo[t]).from # "End"
          /\ model.executed < Amount
          /\ NextState = "InEntry"
    /\ model' = [model EXCEPT !.state = "InEntry",
                              !.entered = @ \/ Head(todo[t]).price]
    /\ todo' = Then(t, IF Futures THEN <<Place("TakeProfit"), Do("goStops")>>
                                  ELSE <<Place("TakeProfit")>>)
    /\ Enter(t, "InEntry")
    /\ UNCHANGED <<sm, canceling>>

GoPlaceStops(t) ==
    /\ Top(t, "goStops")
    /\ LET stop == <<"Stoploss", model.iteration>>
           forced == <<"ForcedLoss", model.iteration>>
       IN todo' = [ThenGo(t, <<>>, stop, <<Place("Stoploss")>>)
                     EXCEPT ![forced] = IF setup.forcedLoss THEN @ \o <<Place("ForcedLoss")>>
                                                         ELSE @]
    /\ UNCHANGED <<machine, model, sm, ord, canceling, world>>

\* enterTakeProfit places nothing for limit levels, but it takes and leaves Lock.
EnterTakeProfit(t) ==
    /\ Top(t, "move")
    /\ Head(todo[t]).from \notin {"WaitForEntry", "End"}
    /\ model.executed < Amount
    /\ NextState = "TakeProfit"
    /\ sm' = [sm EXCEPT !.lock = @ /\ (model.amount > 0 \/ ~Head(todo[t]).price)]
    /\ todo' = Then(t, <<>>)
    /\ Enter(t, "TakeProfit")
    /\ UNCHANGED <<model, canceling>>

\* enterStopLoss: on spot the orders are canceled under Lock, then
\* CheckLossTrade fires again, then the deferred PlaceOrder.  Only a price leads
\* here: an order that passes its guard has everything sold.
EnterStopLoss(t) ==
    /\ Top(t, "move")
    /\ Head(todo[t]).from \notin {"WaitForEntry", "End"}
    /\ model.executed < Amount
    /\ NextState = "Stoploss"
    /\ IF model.amount > 0 /\ sm.lock
       THEN /\ todo' = Then(t, <<>>)
            /\ UNCHANGED sm
       ELSE /\ todo' = Then(t, (IF model.amount > 0 /\ ~Futures THEN <<Do("cancelAll")>>
                                                                 ELSE <<>>)
                                 \o <<Do("checkLossAgain")>>
                                 \o (IF model.amount > 0 THEN <<PlaceAt("Stoploss")>>
                                                         ELSE <<>>))
            /\ sm' = [sm EXCEPT !.lock = model.amount > 0]
    /\ Enter(t, "Stoploss")
    /\ UNCHANGED <<model, canceling>>

\* Fire(CheckLossTrade) with the same price, in a state that handles it.
CheckLossAgain(t) ==
    /\ Top(t, "checkLossAgain")
    /\ sm' = [sm EXCEPT !.lock = FALSE]
    /\ LET check == IF machine \in HandlesPrices THEN CheckLoss(-1) ELSE Fail(model)
       IN /\ model' = check.model
          /\ todo' = Then(t, IF check.pass THEN <<Move(machine, TRUE)>> ELSE <<>>)
    /\ UNCHANGED <<machine, ord, canceling, world>>

-----------------------------------------------------------------------------
(* The event loop *)

Running == /\ machine \notin {"End", "Timeout"}
           /\ model.state # "End"
           /\ world.mutex
           /\ model.enabled

LeaveLoop(t) ==
    /\ Top(t, "loop")
    /\ ~Running
    /\ todo' = Then(t, <<Do("stop")>>)
    /\ UNCHANGED <<machine, model, sm, ord, canceling, world>>

\* One turn of processEventLoop.
FireOnPrice(t, price) ==
    /\ Top(t, "loop")
    /\ Running
    /\ ~sm.lock
    /\ LET check == IF machine = "WaitForEntry" THEN CheckWaitEntry(price)
                                                ELSE CheckLossThenProfit(price)
       IN /\ model' = check.model
          /\ todo' = IF check.pass THEN [todo EXCEPT ![t] = <<Move(machine, TRUE)>> \o @]
                                   ELSE todo
    /\ UNCHANGED <<machine, sm, ord, canceling, world>>

\* orderCallback: an order that was answered has filled.  OrderTracking shows
\* that this happens once per order.  Without a handler the fill is dropped; a
\* canceled order changes nothing.
FireOnOrder(k) ==
    /\ ord[k].status = "filled" /\ ord[k].known /\ ~ord[k].told
    /\ ord' = [ord EXCEPT ![k].told = TRUE]
    /\ IF machine \in HandlesOrders
       THEN /\ model' = Booked(ord[k]).model
            /\ sm' = IF ord[k].step \in {"TakeProfit", "Canceled"}
                     THEN [sm EXCEPT !.waiting = @ \ {ord[k].step}]
                     ELSE sm
            /\ todo' = IF Booked(ord[k]).pass
                       THEN [todo EXCEPT ![<<"callback", k>>] = <<Move(machine, FALSE)>>]
                       ELSE todo
       ELSE UNCHANGED <<model, sm, todo>>
    /\ UNCHANGED <<machine, canceling, world>>

-----------------------------------------------------------------------------
(* checkTimeouts: the entry timer of one iteration *)

StartTimer(t) ==
    /\ Top(t, "checkTimeouts")
    /\ todo' = ThenGo(t, <<>>, <<"timer", model.iteration>>,
                      <<[op |-> "sleep", iteration |-> model.iteration]>>)
    /\ UNCHANGED <<machine, model, sm, ord, canceling, world>>

TimerFires(t) ==
    /\ Top(t, "sleep") /\ SleepIsOver
    /\ machine = "WaitForEntry" /\ ~sm.lock
    /\ Head(todo[t]).iteration = model.iteration
    /\ Len(model.orders) < 2
    /\ sm' = [sm EXCEPT !.lock = TRUE]
    /\ todo' = Then(t, CASE model.orders # <<>> -> <<Do("cancelEntry")>>
                         [] model.orders = <<>> /\ sm.entryPlaced -> <<Do("awaitEntry")>>
                         [] OTHER -> <<Do("timeUp")>>)
    /\ UNCHANGED <<machine, model, ord, canceling, world>>

TimerIsLate(t) ==
    /\ Top(t, "sleep") /\ SleepIsOver
    /\ \/ machine # "WaitForEntry"
       \/ sm.lock
       \/ Head(todo[t]).iteration # model.iteration
       \/ Len(model.orders) >= 2
    /\ todo' = Then(t, <<>>)
    /\ UNCHANGED <<machine, model, sm, ord, canceling, world>>

\* Wait for the answer to the entry order, 5000 times 10 ms at most.
AwaitEntry(t) ==
    /\ Top(t, "awaitEntry")
    /\ \/ /\ model.orders # <<>>
          /\ todo' = Then(t, <<Do("cancelEntry")>>)
       \/ /\ model.orders = <<>> /\ SleepIsOver
          /\ todo' = Then(t, <<Do("timeUp")>>)
    /\ UNCHANGED <<machine, model, sm, ord, canceling, world>>

\* mutant: the answer to the cancel request is not looked at
CancelEntryBlindly(t) ==
    /\ Top(t, "cancelEntry")
    /\ model.orders # <<>>
    /\ ord' = Closed({Head(model.orders)})
    /\ canceling' = canceling \ {Head(model.orders)}
    /\ todo' = Then(t, <<Do("timeUp")>>)
    /\ UNCHANGED <<machine, model, sm, world>>

\* tryCancelEntryOrder: an error counts as "already filled".
CancelEntry(t) ==
    /\ Top(t, "cancelEntry")
    /\ model.orders # <<>>
    /\ LET k == Head(model.orders)
       IN IF ord[k].status = "open"
          THEN /\ ord' = Closed({k})
               /\ canceling' = canceling \ {k}
               /\ todo' = Then(t, <<Do("timeUp")>>)
               /\ UNCHANGED sm
          ELSE /\ todo' = Then(t, <<>>)
               /\ sm' = [sm EXCEPT !.lock = FALSE]
               /\ UNCHANGED <<ord, canceling>>
    /\ UNCHANGED <<machine, model, world>>

FireTimeout(t) ==
    /\ Top(t, "timeUp")
    /\ machine' = IF machine = "WaitForEntry" THEN "Timeout" ELSE machine
    /\ todo' = Then(t, <<Do("markTimeout")>>)
    /\ UNCHANGED <<model, sm, ord, canceling, world>>

MarkTimeout(t) ==
    /\ Top(t, "markTimeout")
    /\ model' = [model EXCEPT !.state = "Timeout"]
    /\ sm' = [sm EXCEPT !.lock = FALSE]
    /\ todo' = Then(t, <<>>)
    /\ UNCHANGED <<machine, ord, canceling, world>>

-----------------------------------------------------------------------------
(* Stop *)

\* if sm.StopLock: somebody else is stopping.
StopIsTaken(t) ==
    /\ Top(t, "stop")
    /\ sm.stopLock
    /\ world' = [world EXCEPT !.enabled = @ /\ ContinueIfEnded]
    /\ canceling' = TryCancelAllOrders
    /\ todo' = Then(t, <<>>)
    /\ UNCHANGED <<machine, model, sm, ord>>

\* StopLock is tested and set without a mutex: others may still pass the test.
StopTestsLock(t) ==
    /\ Top(t, "stop")
    /\ ~sm.stopLock
    /\ todo' = Then(t, <<Do("claimStop")>>)
    /\ UNCHANGED <<machine, model, sm, ord, canceling, world>>

\* Spot cancels and waits; futures, and an ended order, cancel in the background,
\* once now and once more in five seconds.
StopClaimsLock(t) ==
    /\ Top(t, "claimStop")
    /\ sm' = [sm EXCEPT !.stopLock = TRUE]
    /\ LET placeCanceled == [op |-> "stopPlaces", state |-> machine]
       IN IF ~Futures /\ machine # "End"
          THEN /\ todo' = Then(t, <<Do("cancelAll"), placeCanceled>>)
               /\ UNCHANGED canceling
          ELSE /\ todo' = ThenGo(t, <<placeCanceled>>, <<"sweep", t[2]>>, <<Do("sweep")>>)
               /\ canceling' = TryCancelAllOrders
    /\ UNCHANGED <<machine, model, ord, world>>

\* Two identical conditionals place the Canceled order; the second one also
\* leaves a check for five seconds later.
StopPlacesCanceled(t) ==
    /\ Top(t, "stopPlaces")
    /\ LET state == Head(todo[t]).state
           open == state # "End" /\ model.state # "Timeout"
           finish == [op |-> "finishStop", late |-> open,
                      timeout |-> state = "Timeout" \/ model.state = "Timeout"]
       IN todo' = Then(t, IF open THEN <<Place("Canceled"), Place("Canceled"), finish>>
                                  ELSE <<finish>>)
    /\ UNCHANGED <<machine, model, sm, ord, canceling, world>>

LateCheck(f) == IF f.late THEN <<Do("lateCheck")>> ELSE <<>>

FinishStop(t) ==
    /\ Top(t, "finishStop")
    /\ ~(Head(todo[t]).timeout /\ ContinueIfEnded)
    /\ world' = [world EXCEPT !.enabled = @ /\ ContinueIfEnded]
    /\ sm' = [sm EXCEPT !.stopLock = FALSE]
    /\ todo' = ThenGo(t, <<>>, <<"late", t[2]>>, LateCheck(Head(todo[t])))
    /\ UNCHANGED <<machine, model, ord, canceling>>

\* The entry timed out and the order continues: Stop resets the model, fires
\* Restart and runs the event loop itself.
RestartInStop(t) ==
    /\ Top(t, "finishStop")
    /\ Head(todo[t]).timeout /\ ContinueIfEnded
    /\ model.iteration < setup.iterations
    /\ world' = [world EXCEPT !.enabled = TRUE]
    /\ sm' = [sm EXCEPT !.stopLock = FALSE, !.waiting = {}, !.entryPlaced = FALSE]
    /\ model' = [model EXCEPT !.enabled = TRUE, !.state = "WaitForEntry",
                              !.entered = FALSE, !.executed = 0, !.amount = 0,
                              !.orders = <<>>, !.iteration = @ + 1]
    /\ machine' = IF machine = "Timeout" THEN "WaitForEntry" ELSE machine
    /\ todo' = ThenGo(t, (IF machine = "Timeout" THEN <<Do("onStart")>> ELSE <<>>)
                           \o <<Do("loop")>>,
                      <<"late", t[2]>>, LateCheck(Head(todo[t])))
    /\ UNCHANGED <<ord, canceling>>

\* handle case when order was creating while Stop func execution
Sweep(t) ==
    /\ Top(t, "sweep") /\ SleepIsOver
    /\ canceling' = TryCancelAllOrders
    /\ todo' = Then(t, <<>>)
    /\ UNCHANGED <<machine, model, sm, ord, world>>

\* Stop starts both of its sleeps of five seconds, the sweep's first.
CheckLate(t) ==
    /\ Top(t, "lateCheck") /\ SleepIsOver
    /\ todo[<<"sweep", t[2]>>] = <<>>
    /\ todo' = Then(t, IF model.position > 0 /\ model.entered THEN <<Place("Canceled")>>
                                                              ELSE <<>>)
    /\ UNCHANGED <<machine, model, sm, ord, canceling, world>>

-----------------------------------------------------------------------------
(* The service around the smart order *)

Disable ==
    /\ setup.mayDisable
    /\ world.enabled
    /\ world' = [world EXCEPT !.enabled = FALSE]
    /\ UNCHANGED <<machine, model, sm, ord, canceling, todo>>

LoseMutex ==
    /\ setup.mayLoseMutex
    /\ world.mutex
    /\ world' = [world EXCEPT !.mutex = FALSE]
    /\ UNCHANGED <<machine, model, sm, ord, canceling, todo>>

\* WatchStrategies sees the document: HotReload takes its "enabled", even after
\* an error cleared the one in memory, and stops a disabled strategy that runs.
HotReload ==
    /\ world.registered
    /\ todo[Watch] = <<>>
    /\ model.enabled # world.enabled \/ ~world.enabled
    /\ model' = [model EXCEPT !.enabled = world.enabled]
    /\ todo' = CASE world.enabled -> todo
                 [] ~world.enabled /\ ~world.runtime ->
                      [todo EXCEPT ![Watch] = <<Do("unregister")>>]
                 [] OTHER -> [todo EXCEPT ![Watch] = <<Do("stop"), Do("unregister")>>]
    /\ UNCHANGED <<machine, sm, ord, canceling, world>>

Unregister ==
    /\ Top(Watch, "unregister")
    /\ world' = [world EXCEPT !.registered = FALSE]
    /\ todo' = Then(Watch, <<>>)
    /\ UNCHANGED <<machine, model, sm, ord, canceling>>

-----------------------------------------------------------------------------

\* What only the event loop, a timer or a goroutine of Stop does, and what all may do.
RunLoop ==
    StartRuntime(Loop) \/ LeaveLoop(Loop) \/ \E price \in setup.prices : FireOnPrice(Loop, price)

RunTimer(t) ==
    \/ TimerFires(t) \/ TimerIsLate(t) \/ AwaitEntry(t) \/ CancelEntry(t)
    \/ FireTimeout(t) \/ MarkTimeout(t)

Run(t) ==
    \/ SkipOrder(t) \/ CancelBeforeOrder(t) \/ Answer(t) \/ TryCancelAllOrdersConsistently(t)
    \/ AcceptOrder(t) \/ RejectReduceOnly(t) \/ RejectTriggered(t) \/ RejectOrder(t)
    \/ ExitToNextIteration(t) \/ ExitToWaitForEntry(t) \/ OnStartChecks(t) \/ EnterEnd(t)
    \/ EnterEntry(t) \/ GoPlaceStops(t) \/ EnterTakeProfit(t) \/ EnterStopLoss(t)
    \/ CheckLossAgain(t) \/ StartTimer(t)

RunStop(t) ==
    \/ StopIsTaken(t) \/ StopTestsLock(t) \/ StopClaimsLock(t) \/ StopPlacesCanceled(t)
    \/ FinishStop(t) \/ RestartInStop(t)

Next ==
    \/ Disable \/ LoseMutex \/ HotReload \/ Unregister
    \/ RunLoop
    \/ \E i \in Iterations : RunTimer(<<"timer", i>>)
    \/ \E t \in {u \in Threads : todo[u] # <<>>} : Run(t)
    \/ \E t \in {Loop, Watch} : RunStop(t)
    \/ \E i \in {1, 2} : Sweep(<<"sweep", i>>) \/ CheckLate(<<"late", i>>)
    \/ \E k \in DOMAIN ord : Fill(k) \/ FireOnOrder(k)
    \/ \E k \in canceling : CancelOrder(k)

Spec == Init /\ [][Next]_vars

-----------------------------------------------------------------------------
(* Properties *)

\* The shape of every variable; SelectedExitTarget indexes an exit level
\* (placeOrder.go:306-436), which the recursion of PlaceOrder could overrun.
TypeOK ==
    /\ machine \in MachineStates
    /\ model \in [state : ModelStates, entered : BOOLEAN, executed : Int, amount : Int,
                  position : Int, reached : Nat, iteration : Iterations,
                  orders : Seq(OrderIds), enabled : BOOLEAN]
    /\ sm \in [waiting : SUBSET Steps, entryPlaced : BOOLEAN, lock : BOOLEAN,
               stopLock : BOOLEAN, target : 0 .. Len(Targets) - 1]
    /\ ord \in Seq([step : Steps, qty : Nat, got : Nat, known : BOOLEAN, told : BOOLEAN,
                    status : {"open", "filled", "canceled"}])
    /\ canceling \subseteq DOMAIN ord
    /\ world \in [setup : Setups, pos : Int, enabled : BOOLEAN, mutex : BOOLEAN, errors : Nat,
                  registered : BOOLEAN, runtime : BOOLEAN]
    /\ DOMAIN todo = Threads

\* Nobody is in the middle of anything, and every fill has been told.
AtRest ==
    /\ canceling = {}
    /\ \A k \in DOMAIN ord : ord[k].status = "filled" => ord[k].told
    /\ \A t \in Threads : todo[t] = <<>> \/ Top(t, "loop") \/ Top(t, "sleep")

\* Nobody but a price of the feed writes the state between a guard and exit(), and no
\* price comes after one at the stop loss but such a price.  Otherwise exit() says End
\* of a position that is open: it has no case for TakeProfit or Stoploss in Stoploss (the
\* TODO in exit.go:19-22), nor for an error.
Steady ==
    /\ ~setup.entryTimeout /\ setup.errors = 0
    /\ -1 \in setup.prices => setup.prices = {-1}

\* The first iteration, or nothing but fills moves the machine.  Otherwise the next
\* iteration can be started twice, by the loop and by a callback.
Ordinary == model.iteration = 0 \/ (setup.prices \subseteq {0} /\ setup.errors = 0)

\* A position is never left alone: once every goroutine that had something to
\* do has done it, an open position has a stop or a closing order at the
\* exchange, however Stop's cancels interleave with the entry's fill, the stop
\* orders in the background and Stop's late helpers.  Spot has no stop orders, and of
\* an order that continues Stop's sweep cancels the next iteration's.
Protected ==
    world.pos > 0 /\ Futures /\ ~ContinueIfEnded /\ Steady /\ AtRest =>
        \E k \in DOMAIN ord :
            ord[k].step \in {"Stoploss", "Canceled"} /\ ord[k].status = "open"

\* The position the model keeps is the position the exchange has: no fill is
\* lost, booked under the wrong step or booked on a stale state by callbacks
\* that interleave with the loop and with Stop.  With an entry timeout it does not
\* hold: a timer that starts late belongs to the iteration after its own.
BooksMatch == ~setup.entryTimeout /\ Ordinary /\ AtRest => model.position = world.pos

\* The machine ends only when what was bought is sold: End is where everybody
\* stops looking after the position, and Stop cancels all orders and places none.
EndMeansClosed == machine = "End" /\ Futures /\ Steady => world.pos <= 0

\* An entry timer that races the entry order's answer, fill and cancellation
\* never lets a second entry be bought on top of the first.
NoDoubleEntry == Ordinary => world.pos <= Amount

\* An order that continues starts its second iteration with nothing left of the
\* first, though late fills and background stops of that one still arrive.  The
\* iteration that an entry timeout starts is not meant.
StartsFlat ==
    [][model.iteration = 0 /\ model'.iteration # 0 /\ Futures /\ ~setup.entryTimeout
       => world.pos = 0]_vars

\* "so we'll wait for any target or trailing target / or stop-loss": a price at
\* the stop loss of an entered order that nobody works on, and that has no stop
\* loss order, is acted on.
LossIsCut ==
    [][AtRest /\ FireOnPrice(Loop, -1) /\ model.entered
         /\ "Stoploss" \notin sm.waiting /\ model.executed < Amount
       => model'.state = "Stoploss"]_vars
=============================================================================
