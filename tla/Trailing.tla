------------------------------ MODULE Trailing ------------------------------
(***************************************************************************)
(* A smart order with a trailing entry and a trailing exit level, from the *)
(* price that activates the entry to the sweep after Stop.                 *)
(*                                                                         *)
(*   the event loop        a price per turn; none while Lock is set        *)
(*   placeTrailingOrder    a goroutine per better price: it waits for two  *)
(*                         seconds, replaces the order and keeps Lock for  *)
(*                         three seconds more                              *)
(*   order callbacks       checkExistingOrders and the transition          *)
(*   the entering goroutine  places the stop loss, or the spot entry       *)
(*                                                                         *)
(* Long orders ("buy") of one unit, and prices above the stop loss.  The   *)
(* interleavings inside a transition, the user's stop and other errors of  *)
(* the exchange are those of SmartOrder.                                   *)
(*                                                                         *)
(* Sleeps: goroutines that wait for two seconds wake up in the order they  *)
(* were started in, 60 ms apart at least, and all of them before a hold of *)
(* three seconds that began in the meantime is over.  A market order is    *)
(* filled when it is taken, and its callback is done within that hold.     *)
(* Every call of PlaceOrder is over by the sweep that Stop does five       *)
(* seconds later, which retries of a request could outlast.                *)
(***************************************************************************)
EXTENDS Integers, Sequences, FiniteSetsExt

CONSTANTS
    Setups,     \* conditions of a strategy, each with what its surroundings may do
    ALot        \* a price change of more than 0.016 per cent

\* What a setup says.
SetupType ==
    [type : {"futures", "spot limit", "spot market"},   \* MarketType and OrderType
     prices : SUBSET (Nat \ {0}),   \* of the feed
     activate : Nat,                \* EntryOrder.ActivatePrice
     activateExit : Nat,            \* ExitLevels[0].ActivatePrice
     deviation : Nat,               \* ExitLevels[0].EntryDeviation
     checks : Nat,                  \* bound: goroutines of placeTrailingOrder
     orders : Nat,                  \* bound: orders the exchange takes
     triggered : Nat]               \* bound: answers "immediately trigger"

ASSUME TrailingAssumption ==
    /\ Setups \subseteq SetupType
    /\ ALot \in Nat \ {0}

VARIABLES
    machine,    \* sm.State
    model,      \* Strategy.Model.State: State, EntryPrice > 0, ExecutedAmount,
                \* PositionAmount, TrailingEntryPrice, TrailingExitPrices,
                \* TrailingCheckAt, ExecutedOrders, Orders
    sm,         \* Lock, and what Stop has still to do
    ord,        \* the orders the exchange took, in order
    canceling,  \* orders a "go CancelOrder" is on its way for
    world,      \* the setup, position at the exchange, stop orders triggered at once
    go          \* where every goroutine is

vars == <<machine, model, sm, ord, canceling, world, go>>

setup == world.setup
Futures == setup.type = "futures"
SpotMarket == setup.type = "spot market"
Amount == 1     \* Conditions.EntryOrder.Amount and the amount of the exit level

Steps == {"TrailingEntry", "InEntry", "TakeProfit", "Stoploss", "Canceled"}
Entries == {"TrailingEntry", "InEntry"}
MachineStates == {"WaitForEntry", "TrailingEntry", "InEntry", "TakeProfit", "End"}
Places == {"not yet", "idle", "nap", "cancelFirst", "send", "answer", "hold", "move",
           "stop"}

Loop == -1
Enterer == 0
Checks == UNION {1 .. s.checks : s \in Setups}
Goroutines == {Loop, Enterer} \cup Checks
OrderIds == UNION {1 .. s.orders : s \in Setups}

At(g, place) == go[g].at = place

\* g goes on to a place of the same call; g begins a call of PlaceOrder.
Goes(g, place) == [go EXCEPT ![g].at = place]
Calls(g, place, step) == [go EXCEPT ![g].at = place, ![g].step = step]

Idle == [at |-> "idle", step |-> "none", price |-> 0, order |-> 0, market |-> FALSE]

\* onStart places nothing: the entry price is not known yet.
Init ==
    /\ machine = "WaitForEntry"
    /\ model = [state |-> "", entered |-> FALSE, executed |-> 0, position |-> 0, edge |-> 0,
                exits |-> <<>>, checkAt |-> 0, placed |-> <<>>, orders |-> {},
                enabled |-> TRUE]
    /\ sm = [lock |-> FALSE, stop |-> <<>>]
    /\ ord = <<>>
    /\ canceling = {}
    /\ \E s \in Setups : world = [setup |-> s, pos |-> 0, triggered |-> 0]
    /\ go = [g \in Goroutines |-> IF g \in Checks THEN [Idle EXCEPT !.at = "not yet"] ELSE Idle]

-----------------------------------------------------------------------------
(* The exchange *)

Open == {k \in DOMAIN ord : ord[k].status = "open"}

Closed(ids) ==
    [k \in DOMAIN ord |-> IF k \in ids \cap Open THEN [ord[k] EXCEPT !.status = "canceled"]
                                                ELSE ord[k]]

\* On futures an exit is reduce-only: it closes no more than the position.
Got(step) == IF Futures /\ step \notin Entries /\ world.pos <= 0 THEN 0 ELSE Amount

Moved(step) == IF step \in Entries THEN world.pos + Got(step) ELSE world.pos - Got(step)

Fill(k) ==
    /\ k \in Open
    /\ ord' = [ord EXCEPT ![k].status = IF Got(ord[k].step) = 0 THEN "canceled" ELSE "filled"]
    /\ world' = [world EXCEPT !.pos = Moved(ord[k].step)]
    /\ canceling' = canceling \ {k}
    /\ UNCHANGED <<machine, model, sm, go>>

\* One of TryCancelAllOrders' goroutines gets through.
CancelOrder(k) ==
    /\ k \in canceling
    /\ canceling' = canceling \ {k}
    /\ ord' = Closed({k})
    /\ UNCHANGED <<machine, model, sm, world, go>>

-----------------------------------------------------------------------------
(* PlaceOrder *)

\* On spot the exit level's own type is sent.  A market order fills at once; a limit
\* order is open and may fill at any time.
IsMarket(g) ==
    go[g].market \/ go[g].step = "Canceled" \/ SpotMarket

\* The order placed before, the last of ExecutedOrders.
Previous == model.placed[Len(model.placed)]

\* ifShouldCancelPreviousOrder: for a new maximum, which a check calls for.
Replaces(g) == g \in Checks /\ ~go[g].market /\ go[g].step \in {"TrailingEntry", "TakeProfit"}

\* mutant: an exit is canceled before there is another one, on futures too
PlaceBetterCanceling(c) ==
    IF model.placed # <<>>
    THEN [go EXCEPT ![c].at = "cancelFirst", ![c].order = Previous]
    ELSE Goes(c, "send")

\* PlaceOrder(-1, step) of a check begins with a cancel request, but for an exit on
\* futures.
PlaceBetter(c) ==
    IF /\ go[c].step = "TrailingEntry" \/ setup.type = "spot limit"
       /\ model.placed # <<>>
    THEN [go EXCEPT ![c].at = "cancelFirst", ![c].order = Previous]
    ELSE Goes(c, "send")

\* Where g goes when PlaceOrder is over.
AfterCall(g) ==
    CASE g \in Checks -> "hold"
      [] g = Loop -> IF go[Loop].step = "Canceled" THEN "stop" ELSE "move"
      [] g = Enterer -> "idle"

\* mutant: the answer to the cancel request is not looked at
CancelFirstBlindly(g) ==
    /\ At(g, "cancelFirst")
    /\ ord' = Closed({go[g].order})
    /\ canceling' = canceling \ {go[g].order}
    /\ go' = Goes(g, "send")
    /\ UNCHANGED <<machine, model, sm, world>>

\* "looks like order was already executed or canceled in other thread": return.
CancelFirst(g) ==
    /\ At(g, "cancelFirst")
    /\ ord' = Closed({go[g].order})
    /\ canceling' = canceling \ {go[g].order}
    /\ go' = Goes(g, IF go[g].order \in Open THEN "send" ELSE AfterCall(g))
    /\ UNCHANGED <<machine, model, sm, world>>

AcceptOrder(g) ==
    /\ At(g, "send") /\ Len(ord) < setup.orders
    /\ LET step == go[g].step
       IN /\ Got(step) > 0
          /\ ord' = Append(ord, [step |-> step, known |-> FALSE, told |-> FALSE,
                                 market |-> IsMarket(g),
                                 status |-> IF IsMarket(g) THEN "filled" ELSE "open"])
          /\ world' = [world EXCEPT !.pos = IF IsMarket(g) THEN Moved(step) ELSE @]
    /\ go' = [go EXCEPT ![g].at = "answer", ![g].order = Len(ord) + 1]
    /\ UNCHANGED <<machine, model, sm, canceling>>

\* "ReduceOnly Order is rejected": there is no position to reduce.
RejectReduceOnly(g) ==
    /\ At(g, "send") /\ Got(go[g].step) = 0
    /\ model' = [model EXCEPT !.enabled = FALSE]
    /\ go' = Goes(g, AfterCall(g))
    /\ UNCHANGED <<machine, sm, ord, canceling, world>>

\* PlaceOrder(Canceled) returns at once: there is no entry to exit, or a Canceled
\* order is being waited for.
SkipsCanceled ==
    \/ machine \in {"WaitForEntry", "TrailingEntry", "End"}
    \/ model.executed >= Amount
    \/ \E k \in DOMAIN ord : ord[k].step = "Canceled" /\ ord[k].known /\ ~ord[k].told

\* "immediately trigger": an entry is sent again as a market order, for an exit
\* the position is closed.
RejectTriggered(g) ==
    /\ At(g, "send")
    /\ Futures /\ ~IsMarket(g)
    /\ world.triggered < setup.triggered
    /\ world' = [world EXCEPT !.triggered = @ + 1]
    /\ go' = CASE go[g].step = "TrailingEntry" -> [go EXCEPT ![g].market = TRUE]
               [] go[g].step # "TrailingEntry" /\ ~SkipsCanceled ->
                    Calls(g, "send", "Canceled")
               [] OTHER -> Goes(g, AfterCall(g))
    /\ UNCHANGED <<machine, model, sm, ord, canceling>>

\* mutant: the previous exit is forgotten
AnswerKeepingPrevious(g) ==
    /\ At(g, "answer")
    /\ LET k == go[g].order
       IN /\ ord' = [ord EXCEPT ![k].known = TRUE]
          /\ model' = [model EXCEPT !.placed = IF Replaces(g) THEN Append(@, k) ELSE @,
                                    !.orders = @ \cup {k}]
    /\ go' = Goes(g, AfterCall(g))
    /\ UNCHANGED <<machine, sm, canceling, world>>

\* An exit that replaces one is there before that one is canceled, whatever is
\* answered; then the order is registered.
Answer(g) ==
    /\ At(g, "answer")
    /\ LET k == go[g].order
           old == IF Replaces(g) /\ ord[k].step = "TakeProfit" /\ model.placed # <<>>
                  THEN {Previous} ELSE {}
       IN /\ ord' = [Closed(old) EXCEPT ![k].known = TRUE]
          /\ canceling' = canceling \ old
          /\ model' = [model EXCEPT !.placed = IF Replaces(g) THEN Append(@, k) ELSE @,
                                    !.orders = IF ord[k].step = "Canceled" THEN @
                                               ELSE @ \cup {k}]
    /\ go' = Goes(g, AfterCall(g))
    /\ UNCHANGED <<machine, sm, world>>

-----------------------------------------------------------------------------
(* The event loop *)

Running == machine # "End" /\ model.state # "End" /\ model.enabled

\* A turn that enters is not over before its order is placed.
TurnBegins(state) ==
    /\ machine = state /\ Running
    /\ At(Loop, "idle") /\ ~sm.lock
    /\ SpotMarket => At(Enterer, "idle")

\* go placeTrailingOrder(price, now, ..., step): its first statement is the time.
NextCheck == {c \in 1 .. setup.checks : At(c, "not yet")}
GoCheck(price, step, m) ==
    /\ NextCheck # {}
    /\ LET c == Min(NextCheck)
       IN /\ model' = [m EXCEPT !.checkAt = c]
          /\ go' = [go EXCEPT ![c] = [Idle EXCEPT !.at = "nap", !.step = step, !.price = price]]

\* checkWaitEntry, enterTrailingEntry.
Activate(price) ==
    /\ TurnBegins("WaitForEntry")
    /\ price <= setup.activate
    /\ machine' = "TrailingEntry"
    /\ model' = [model EXCEPT !.state = "TrailingEntry"]
    /\ UNCHANGED <<sm, ord, canceling, world, go>>

\* enterEntry: the exit level has to wait; stop loss, or the order of a spot
\* entry, whether a limit order has brought us here or not.
EnterEntry(m) ==
    /\ machine' = "InEntry"
    /\ model' = [m EXCEPT !.state = "InEntry", !.entered = TRUE, !.edge = 0, !.placed = <<>>]
    /\ go' = Calls(Enterer, "send", IF Futures THEN "Stoploss" ELSE "InEntry")

\* checkTrailingEntry
TrailEntry(price) ==
    /\ TurnBegins("TrailingEntry")
    /\ ~SpotMarket
    /\ model.edge = 0 \/ price < model.edge
    /\ GoCheck(price, "TrailingEntry",
               [model EXCEPT !.edge = IF @ = 0 THEN price ELSE @])
    /\ UNCHANGED <<machine, sm, ord, canceling, world>>

\* On spot a market entry is due in the turn that sees it activated.
EnterOnSpot(price) ==
    /\ TurnBegins("TrailingEntry")
    /\ SpotMarket
    /\ EnterEntry(model)
    /\ UNCHANGED <<sm, ord, canceling, world>>

\* mutant: without isActivated
ActivateExitAgain(price) ==
    /\ TurnBegins("InEntry") \/ TurnBegins("TakeProfit")
    /\ price >= setup.activateExit
    /\ model' = [model EXCEPT !.exits = Append(@, price)]
    /\ UNCHANGED <<machine, sm, ord, canceling, world, go>>

\* checkTrailingProfit: the exit level is reached; a new maximum.
ActivateExit(price) ==
    /\ TurnBegins("InEntry") \/ TurnBegins("TakeProfit")
    /\ model.exits = <<>> /\ price >= setup.activateExit
    /\ model' = [model EXCEPT !.exits = <<price>>]
    /\ UNCHANGED <<machine, sm, ord, canceling, world, go>>

TrailExit(price) ==
    /\ TurnBegins("InEntry") \/ TurnBegins("TakeProfit")
    /\ model.exits # <<>> /\ price > model.exits[1]
    /\ GoCheck(price, "TakeProfit", [model EXCEPT !.exits = <<price>>])
    /\ UNCHANGED <<machine, sm, ord, canceling, world>>

\* On spot a market exit is sold in the guard, once the price has come back far
\* enough; the transition comes after it.
SellOnSpot(price) ==
    /\ TurnBegins("InEntry") \/ TurnBegins("TakeProfit")
    /\ SpotMarket
    /\ model.exits # <<>> /\ model.exits[1] - price > setup.deviation
    /\ model' = [model EXCEPT !.state = "TakeProfit"]
    /\ go' = Calls(Loop, "send", "TakeProfit")
    /\ UNCHANGED <<machine, sm, ord, canceling, world>>

\* exit(): InEntry goes to TakeProfit, whose entry action leaves Lock unset, and
\* TakeProfit to End, as does an order of which all is sold.
MoveOn ==
    /\ At(Loop, "move")
    /\ LET next == IF machine = "InEntry" /\ model.executed < Amount THEN "TakeProfit"
                                                                     ELSE "End"
       IN /\ machine' = next
          /\ model' = [model EXCEPT !.state = next]
          /\ sm' = [sm EXCEPT !.lock = @ /\ next = "End"]
    /\ go' = Goes(Loop, "idle")
    /\ UNCHANGED <<ord, canceling, world>>

-----------------------------------------------------------------------------
(* placeTrailingOrder *)

IsEntry(c) == go[c].step = "TrailingEntry"

\* trailingDidnChange || trailingChangedALot; an exit's edge is never below.
MayPlace(c) ==
    \/ model.checkAt = c
    \/ IsEntry(c) /\ model.edge - go[c].price >= ALot

Wake(c) ==
    /\ At(c, "nap")
    /\ \A d \in Checks : d < c => ~At(d, "nap")
    /\ IF MayPlace(c) /\ ~sm.lock
       THEN /\ sm' = [sm EXCEPT !.lock = TRUE]
            /\ model' = [model EXCEPT !.edge = go[c].price]
            /\ go' = PlaceBetter(c)
       ELSE /\ go' = [go EXCEPT ![c] = Idle]
            /\ UNCHANGED <<sm, model>>
    /\ UNCHANGED <<machine, ord, canceling, world>>

\* mutant: Lock is given back at once
ReleaseAtOnce(c) ==
    /\ At(c, "hold")
    /\ sm' = [sm EXCEPT !.lock = FALSE]
    /\ go' = [go EXCEPT ![c] = Idle]
    /\ UNCHANGED <<machine, model, ord, canceling, world>>

\* "it will give some time for order execution, to avoid double send of orders"
Release(c) ==
    /\ At(c, "hold")
    /\ \A d \in Checks : ~At(d, "nap")
    /\ \A k \in DOMAIN ord : ord[k].market => ord[k].told
    /\ sm' = [sm EXCEPT !.lock = FALSE]
    /\ go' = [go EXCEPT ![c] = Idle]
    /\ UNCHANGED <<machine, model, ord, canceling, world>>

-----------------------------------------------------------------------------
(* Order callbacks and the end *)

Hears(k) ==
    /\ ord[k].status = "filled" /\ ord[k].known /\ ~ord[k].told
    /\ ord' = [ord EXCEPT ![k].told = TRUE]

\* The entry is bought: TrailingEntry goes to InEntry.
HearEntry(k) ==
    /\ Hears(k)
    /\ ord[k].step = "TrailingEntry" /\ ~model.entered
    /\ EnterEntry([model EXCEPT !.position = @ + Amount])
    /\ UNCHANGED <<sm, canceling, world>>

\* An entry when there is an entry price already, or an order that the entered
\* state has placed: checkExistingOrders has no case for it.
HearNothing(k) ==
    /\ Hears(k)
    /\ ord[k].step = "InEntry" \/ (ord[k].step = "TrailingEntry" /\ model.entered)
    /\ UNCHANGED <<machine, model, sm, canceling, world, go>>

\* All is sold: exit() to End, or End is entered again.
HearExit(k) ==
    /\ Hears(k)
    /\ ord[k].step \notin Entries
    /\ machine' = "End"
    /\ model' = [model EXCEPT !.executed = @ + Amount, !.position = @ - Amount, !.state = "End"]
    /\ UNCHANGED <<sm, canceling, world, go>>

\* mutant: no second look at the orders
AfterStopOnce == IF machine = "End" THEN <<>> ELSE <<"close", "close", "late">>

\* Stop of an order that has ended sweeps once more five seconds later.  Of one that
\* has not it places the Canceled order, twice, and looks at the position then.
AfterStop == IF machine = "End" THEN <<"sweep">> ELSE <<"close", "close", "sweep", "late">>

\* Start leaves its loop.  On spot an order ends before it is stopped.
Stop ==
    /\ At(Loop, "idle") /\ ~Running
    /\ canceling' = canceling \cup (model.orders \cap Open)
    /\ sm' = [sm EXCEPT !.stop = AfterStop]
    /\ go' = Goes(Loop, "stop")
    /\ UNCHANGED <<machine, model, ord, world>>

StopGoesOn(step) ==
    /\ At(Loop, "stop") /\ sm.stop # <<>> /\ Head(sm.stop) = step
    /\ sm' = [sm EXCEPT !.stop = Tail(@)]

\* When checks have woken up and, so it is assumed, every call is answered.
FiveSecondsLater == \A g \in Goroutines \ {Loop} : go[g].at \in {"not yet", "idle", "hold"}

Sweep ==
    /\ StopGoesOn("sweep") /\ FiveSecondsLater
    /\ canceling' = canceling \cup (model.orders \cap Open)
    /\ UNCHANGED <<machine, model, ord, world, go>>

PlaceCanceled ==
    /\ \/ StopGoesOn("close")
       \/ StopGoesOn("late") /\ FiveSecondsLater
    /\ go' = IF SkipsCanceled \/ (Head(sm.stop) = "late" /\ model.position <= 0)
             THEN go ELSE Calls(Loop, "send", "Canceled")
    /\ UNCHANGED <<machine, model, ord, canceling, world>>

-----------------------------------------------------------------------------

Turn(price) ==
    \/ Activate(price) \/ TrailEntry(price) \/ EnterOnSpot(price)
    \/ ActivateExit(price) \/ TrailExit(price) \/ SellOnSpot(price)

Next ==
    \/ \E price \in setup.prices : Turn(price)
    \/ MoveOn \/ Stop \/ Sweep \/ PlaceCanceled
    \/ \E c \in Checks : Wake(c) \/ Release(c)
    \/ \E g \in Goroutines :
          CancelFirst(g) \/ AcceptOrder(g) \/ RejectReduceOnly(g) \/ RejectTriggered(g) \/ Answer(g)
    \/ \E k \in DOMAIN ord : Fill(k) \/ HearEntry(k) \/ HearNothing(k) \/ HearExit(k)
    \/ \E k \in canceling : CancelOrder(k)

Spec == Init /\ [][Next]_vars

-----------------------------------------------------------------------------
(* Properties *)

\* The shape of every variable; TrailingExitPrices has a price per exit level at most,
\* which placeTrailingOrder indexes (trailing.go:89-95,178).
TypeOK ==
    /\ machine \in MachineStates
    /\ model \in [state : MachineStates \cup {""}, entered : BOOLEAN, executed : Nat,
                  position : Int, edge : Nat, exits : {<<>>} \cup {<<p>> : p \in setup.prices},
                  checkAt : {0} \cup Checks, placed : Seq(OrderIds), orders : SUBSET OrderIds, enabled : BOOLEAN]
    /\ sm \in [lock : BOOLEAN, stop : Seq({"close", "sweep", "late"})]
    /\ ord \in Seq([step : Steps, known : BOOLEAN, told : BOOLEAN, market : BOOLEAN,
                    status : {"open", "filled", "canceled"}])
    /\ canceling \subseteq DOMAIN ord
    /\ world \in [setup : Setups, pos : Int, triggered : Nat]
    /\ go \in [Goroutines -> [at : Places, step : Steps \cup {"none"}, price : Nat,
                              order : {0} \cup OrderIds, market : BOOLEAN]]

\* The orders of the trailing entry that were sent and may fill, or have.
Sent == {k \in DOMAIN ord : ord[k].step = "TrailingEntry" /\ ord[k].status # "canceled"}

\* Until a fill is heard of, the orders sent for the entry buy its amount at most,
\* however many checks replaced each other: an order is replaced only when its cancel
\* has shown that it did not fill (placeOrder.go:523-537), and Lock is kept until an
\* order that triggered at once has been heard of.  After that one check that slept
\* through the fill may send an order more (NotSentTwice), and never a second one: it
\* keeps Lock until no other check of the entry sleeps (trailing.go:200-206).
EntryExposure == Cardinality(Sent) <= IF model.entered THEN 2 ELSE 1

\* "it will give some time for order execution, to avoid double send of orders"
\* (trailing.go:205): the entry is sent once.  It is not for a check that sleeps while
\* the fill is heard of: enterEntry has emptied ExecutedOrders (smartOrder.go:366).
NotSentTwice == Cardinality(Sent) <= 1

\* While the entry trails its edge only falls, though checks of higher prices
\* wake up after those of lower ones (trailing.go:183-207).
EdgeOnlyImproves ==
    [][machine = "TrailingEntry" /\ machine' = "TrailingEntry" /\ model.edge > 0
       => model'.edge <= model.edge]_vars

\* On futures a trailing exit is replaced without a gap (placeOrder.go:574-589):
\* from the first one on, and until something is sold, one is at the exchange.
NeverWithoutExit ==
    LET exits == {k \in DOMAIN ord : ord[k].step \notin Entries}
        trailing == {k \in exits : ord[k].step = "TakeProfit"}
    IN Futures /\ trailing # {} /\ (\A k \in exits : ord[k].status # "filled")
       => trailing \cap Open # {}

IsOver(g) == g = Loop /\ At(Loop, "stop") /\ sm.stop = <<>>

AtRest ==
    /\ \A g \in Goroutines : go[g].at \in {"not yet", "idle"} \/ IsOver(g)
    /\ canceling = {}
    /\ \A k \in DOMAIN ord : ord[k].status = "filled" => ord[k].told

\* One exit at a time: an exit that stays open beside its replacement would sell
\* at a price the trailing has left.
OneExit ==
    AtRest => Cardinality({k \in Open : ord[k].step = "TakeProfit"}) <= 1

\* "handle case when order was creating while Stop func execution"
\* (smartOrder.go:799): when an ended order is left alone, nothing of it is open
\* at the exchange, though checks woke up after the machine had ended.
NothingLeftOpen == AtRest /\ IsOver(Loop) => Open = {}

\* "if it was trailing with stop-orders support we also already placed order": an
\* entry is bought once (placeOrder.go:80-84).
BoughtOnce ==
    Cardinality({k \in DOMAIN ord : ord[k].step \in Entries /\ ord[k].status = "filled"}) <= 1
=============================================================================
