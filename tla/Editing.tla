------------------------------- MODULE Editing -------------------------------
(***************************************************************************)
(* The user edits a smart order that runs: the strategies watch reloads    *)
(* the conditions (HotReload) and replaces the orders that they are about  *)
(* (EditConditions), beside                                                *)
(*                                                                         *)
(*   order callbacks   checkExistingOrders and the transition              *)
(*   entering          places the exit levels, the stop and the forced     *)
(*                     loss of an entry that was bought                    *)
(*   go CancelOrder    the requests of TryCancelAllOrders                  *)
(*                                                                         *)
(* Long futures orders with a limit entry, limit exit levels, a stop loss  *)
(* and a forced loss, from the entry order being open.  The properties are *)
(* about an order that has not ended and is enabled: Stop is in SmartOrder.*)
(***************************************************************************)
EXTENDS Integers, SequencesExt

CONSTANT
    Setups  \* conditions of a strategy, and what the user makes of them

\* Prices stand for themselves: all that matters is whether they are the edited ones.
Conditions ==
    [entry : Nat,           \* EntryOrder.Price
     stop : Nat,            \* StopLoss, StopLossPrice
     forced : Nat,          \* ForcedLoss, ForcedLossPrice
     exits : Seq([price : Nat, amount : Nat])]  \* ExitLevels

\* What a setup says.
SetupType ==
    [amount : Nat \ {0},            \* EntryOrder.Amount
     conditions : Seq(Conditions),  \* at first, and after each edit
     early : BOOLEAN,               \* edits may come before the exits were placed
     orders : Nat,                  \* bound: orders the exchange takes
     triggered : Nat]               \* bound: answers "immediately trigger"

ASSUME EditingAssumption ==
    /\ Setups \subseteq SetupType
    /\ \A s \in Setups :
          /\ s.conditions # <<>>
          /\ \A i \in DOMAIN s.conditions : s.conditions[i].exits # <<>>

VARIABLES
    machine,    \* sm.State
    model,      \* Strategy.Model: Conditions, Enabled, and of its State: EntryPrice > 0,
                \* ExecutedAmount, the lists of order ids, and in "saved" the conditions
                \* the orders were placed for
    target,     \* SelectedExitTarget
    ord,        \* the orders the exchange took, in order
    canceling,  \* orders a "go CancelOrder" is on its way for
    world,      \* the setup, position at the exchange, edits so far, stops triggered
    todo        \* what every goroutine has still to do

vars == <<machine, model, target, ord, canceling, world, todo>>

setup == world.setup
Amount == setup.amount
Document == setup.conditions[world.edits]

Stops == {"Stoploss", "ForcedLoss"}
Steps == Stops \cup {"WaitForEntry", "TakeProfit", "Canceled"}
Goroutines == Stops \cup {"entering", "watch"}
OrderIds == 1 .. Max({s.orders : s \in Setups})

Open == {k \in DOMAIN ord : ord[k].status = "open"}

\* OrdersMap
IsOrderExistsInMap(k) == ord[k].known /\ ~ord[k].told

Order(step, qty, price) ==
    [step |-> step, qty |-> qty, price |-> price, got |-> 0, status |-> "open",
     known |-> FALSE, told |-> FALSE]

\* The entry order is open.  Its state in the model is "", which EditConditions takes
\* for an order in entry.
Init ==
    /\ machine = "WaitForEntry"
    /\ \E s \in Setups :
          LET c == s.conditions[1]
          IN /\ model = [cond |-> c, saved |-> c, enabled |-> TRUE, entered |-> FALSE,
                         executed |-> 0, orders |-> {1}, tapIds |-> <<>>,
                         stopIds |-> [step \in Stops |-> {}]]
             /\ ord = <<[Order("WaitForEntry", s.amount, c.entry) EXCEPT !.known = TRUE]>>
             /\ world = [setup |-> s, pos |-> 0, edits |-> 1, triggered |-> 0]
    /\ target = 0
    /\ canceling = {}
    /\ todo = [g \in Goroutines |-> <<>>]

Do(op) == [op |-> op]
Place(step) == [op |-> "place", step |-> step]
Top(g, op) == todo[g] # <<>> /\ Head(todo[g]).op = op
Then(g, frames) == [todo EXCEPT ![g] = frames \o Tail(@)]

-----------------------------------------------------------------------------
(* The exchange.  An order fills as a whole; an exit is reduce-only. *)

Closed(ids) ==
    [k \in DOMAIN ord |-> IF k \in ids \cap Open THEN [ord[k] EXCEPT !.status = "canceled"]
                                                ELSE ord[k]]

Fill(k) ==
    /\ k \in Open
    /\ LET bought == ord[k].step = "WaitForEntry"
           got == IF bought THEN ord[k].qty ELSE Min({ord[k].qty, world.pos})
       IN /\ ord' = [ord EXCEPT ![k].status = IF got = 0 THEN "canceled" ELSE "filled",
                                ![k].got = got]
          /\ world' = [world EXCEPT !.pos = IF bought THEN @ + got ELSE @ - got]
    /\ canceling' = canceling \ {k}
    /\ UNCHANGED <<machine, model, target, todo>>

CancelOrder(k) ==
    /\ k \in canceling
    /\ canceling' = canceling \ {k}
    /\ ord' = Closed({k})
    /\ UNCHANGED <<machine, model, target, world, todo>>

-----------------------------------------------------------------------------
(* PlaceOrder *)

Exits == model.cond.exits

\* What the first n exit levels sell.
Sold[n \in 0 .. Len(Exits)] == IF n = 0 THEN 0 ELSE Sold[n - 1] + Exits[n].amount

\* An exit level's amount; the last one takes what the others leave (getLastTargetAmount).
LevelAmount(n) ==
    IF n < Len(Exits) THEN Exits[n].amount ELSE Amount - Sold[Len(Exits) - 1]

Request(step) ==
    CASE step = "WaitForEntry" -> Order(step, Amount, model.cond.entry)
      [] step = "TakeProfit" -> Order(step, LevelAmount(target + 1), Exits[target + 1].price)
      [] step = "Stoploss" -> Order(step, Amount - model.executed, model.cond.stop)
      [] step = "ForcedLoss" -> Order(step, Amount, model.cond.forced)
      [] step = "Canceled" -> Order(step, Amount, 0)

\* There is no entry to exit, or a Canceled order is being waited for.
SkipsCanceled ==
    \/ machine # "InEntry"
    \/ model.executed >= Amount
    \/ \E k \in DOMAIN ord : /\ ord[k].step = "Canceled" /\ ord[k].known
                             /\ ~(ord[k].told /\ ord[k].status = "filled")

Skips(step) ==
    \/ step = "TakeProfit" /\ target >= Len(Exits)
    \/ step = "Canceled" /\ SkipsCanceled
    \/ ~(step = "TakeProfit" /\ target >= Len(Exits)) /\ Request(step).qty = 0

Sending(g) == Top(g, "place") /\ ~Skips(Head(todo[g]).step)

SkipOrder(g) ==
    /\ Top(g, "place") /\ Skips(Head(todo[g]).step)
    /\ todo' = Then(g, <<>>)
    /\ UNCHANGED <<machine, model, target, ord, canceling, world>>

AcceptOrder(g) ==
    /\ Sending(g)
    /\ LET step == Head(todo[g]).step
       IN /\ step = "WaitForEntry" \/ world.pos > 0
          /\ Request(step).qty > 0
          /\ Len(ord) < setup.orders
          /\ ord' = Append(ord, Request(step))
    /\ todo' = Then(g, <<[op |-> "answer", order |-> Len(ord) + 1]>>)
    /\ UNCHANGED <<machine, model, target, canceling, world>>

\* mutant: one exit level too many
AndOneLevelMore(g, step) ==
    LET more == step = "TakeProfit" /\ target + 1 <= Len(Exits)
    IN /\ target' = IF more THEN target + 1 ELSE target
       /\ todo' = Then(g, IF more THEN <<Place("TakeProfit")>> ELSE <<>>)

\* PlaceOrder calls itself for the next exit level, whatever came of this one.
AndNextLevel(g, step) ==
    LET more == step = "TakeProfit" /\ target + 1 < Len(Exits)
    IN /\ target' = IF more THEN target + 1 ELSE target
       /\ todo' = Then(g, IF more THEN <<Place("TakeProfit")>> ELSE <<>>)

\* "ReduceOnly Order is rejected": there is no position to reduce.  Nor is an order of
\* a negative amount taken.
RejectOrder(g) ==
    /\ Sending(g)
    /\ LET step == Head(todo[g]).step
       IN (step # "WaitForEntry" /\ world.pos = 0) \/ Request(step).qty < 0
    /\ model' = [model EXCEPT !.enabled = FALSE]
    /\ AndNextLevel(g, Head(todo[g]).step)
    /\ UNCHANGED <<machine, ord, canceling, world>>

\* "immediately trigger": the price is through the stop already, the position is closed.
RejectTriggered(g) ==
    /\ Sending(g)
    /\ Head(todo[g]).step \in Stops
    /\ world.triggered < setup.triggered
    /\ world' = [world EXCEPT !.triggered = @ + 1]
    /\ todo' = Then(g, <<Place("Canceled")>>)
    /\ UNCHANGED <<machine, model, target, ord, canceling>>

\* The order is registered.
Answer(g) ==
    /\ Top(g, "answer")
    /\ LET k == Head(todo[g]).order
           step == ord[k].step
       IN /\ ord' = [ord EXCEPT ![k].known = TRUE]
          /\ model' = [model EXCEPT
                         !.orders = IF step = "Canceled" THEN @ ELSE @ \cup {k},
                         !.tapIds = IF step = "TakeProfit" THEN Append(@, k) ELSE @,
                         !.stopIds = [s \in Stops |-> IF s = step THEN @[s] \cup {k} ELSE @[s]]]
          /\ AndNextLevel(g, step)
    /\ UNCHANGED <<machine, canceling, world>>

-----------------------------------------------------------------------------
(* EditConditions *)

\* The user's edit is in the storage.
Edit ==
    /\ world.edits < Len(setup.conditions)
    /\ setup.early \/ (model.tapIds # <<>> /\ \A g \in Goroutines \ {"watch"} : todo[g] = <<>>)
    /\ world' = [world EXCEPT !.edits = @ + 1]
    /\ UNCHANGED <<machine, model, target, ord, canceling, todo>>

\* Levels are replaced one by one ("split targets"), a single one without an amount
\* as a whole ("simple TAP").
Split(c) == Len(c.exits) > 1 \/ c.exits[1].amount > 0

ExitsChanged(old, new) ==
    IF Split(new) THEN new.exits # old.exits
                  ELSE new.exits[1].price # old.exits[1].price

\* mutant: what else was changed is looked at only when the levels are as they were
ChangesOneOnly(old, new) ==
    (IF new.entry # old.entry THEN <<Do("replaceEntry")>> ELSE <<>>)
    \o (IF ExitsChanged(old, new)
        THEN IF Split(new) THEN <<Do("selectLevel")>> ELSE <<Do("replaceExit")>>
        ELSE IF new.stop # old.stop THEN <<[op |-> "replaceStop", step |-> "Stoploss"]>>
        ELSE <<>>)
    \o <<Do("saveStrategyConditions")>>

\* What was changed, in the order EditConditions looks at it.
Changes(old, new) ==
    (IF new.entry # old.entry THEN <<Do("replaceEntry")>> ELSE <<>>)
    \o (IF new.stop # old.stop THEN <<[op |-> "replaceStop", step |-> "Stoploss"]>> ELSE <<>>)
    \o (IF new.forced # old.forced THEN <<[op |-> "replaceStop", step |-> "ForcedLoss"]>>
                                   ELSE <<>>)
    \o (IF ~ExitsChanged(old, new) THEN <<>>
        ELSE IF Split(new) THEN <<Do("selectLevel")>> ELSE <<Do("replaceExit")>>)
    \o <<Do("saveStrategyConditions")>>

\* An event of the watch, with the document as it is now.
WatchStrategies ==
    /\ todo["watch"] = <<>>
    /\ model.cond # Document
    /\ model' = [model EXCEPT !.cond = Document]
    /\ todo' = [todo EXCEPT !["watch"] = Changes(model.saved, Document)]
    /\ UNCHANGED <<machine, target, ord, canceling, world>>

\* go TryCancelAllOrders(ids), PlaceOrder(step): nobody looks what became of the cancel.
Replace(ids, step) ==
    /\ canceling' = canceling \cup (ids \cap Open)
    /\ todo' = Then("watch", <<Place(step)>>)
    /\ UNCHANGED <<machine, model, target, ord, world>>

\* mutant: the order before is not canceled
ReplaceEntryBeside == Top("watch", "replaceEntry") /\ Replace({}, "WaitForEntry")

ReplaceEntry == Top("watch", "replaceEntry") /\ Replace(model.orders, "WaitForEntry")

\* mutant: the stop before is not canceled
ReplaceStopBeside ==
    /\ Top("watch", "replaceStop")
    /\ LET step == Head(todo["watch"]).step IN Replace({}, step)

ReplaceStop ==
    /\ Top("watch", "replaceStop")
    /\ LET step == Head(todo["watch"]).step IN Replace(model.stopIds[step], step)

ReplaceExit == Top("watch", "replaceExit") /\ Replace(ToSet(model.tapIds), "TakeProfit")

\* mutant: without SetSelectedExitTarget
SelectNoLevel ==
    /\ Top("watch", "selectLevel")
    /\ LET ids == model.tapIds
           waiting == {i \in DOMAIN ids : IsOrderExistsInMap(ids[i])}
           first == IF waiting = {} THEN 0 ELSE Min(waiting) - 1
       IN todo' = Then("watch", <<[op |-> "cancelLevels", keep |-> SubSeq(ids, 1, first),
                                   ids |-> SubSeq(ids, first + 1, Len(ids))]>>)
    /\ UNCHANGED <<machine, model, target, ord, canceling, world>>

\* The first order that was not heard of is the one of the level to begin with.
SelectLevel ==
    /\ Top("watch", "selectLevel")
    /\ LET ids == model.tapIds
           waiting == {i \in DOMAIN ids : IsOrderExistsInMap(ids[i])}
           first == IF waiting = {} THEN 0 ELSE Min(waiting) - 1
       IN /\ target' = IF waiting = {} THEN target ELSE first
          /\ todo' = Then("watch", <<[op |-> "cancelLevels", keep |-> SubSeq(ids, 1, first),
                                      ids |-> SubSeq(ids, first + 1, Len(ids))]>>)
    /\ UNCHANGED <<machine, model, ord, canceling, world>>

\* TryCancelAllOrdersConsistently: one request after the other.
CancelLevel ==
    /\ Top("watch", "cancelLevels")
    /\ LET f == Head(todo["watch"])
       IN /\ f.ids # <<>>
          /\ ord' = Closed({Head(f.ids)})
          /\ canceling' = canceling \ {Head(f.ids)}
          /\ todo' = Then("watch", <<[f EXCEPT !.ids = Tail(@)]>>)
    /\ UNCHANGED <<machine, model, target, world>>

\* "here we delete canceled orders"; the levels are placed from the selected one on.
ReplaceLevels ==
    /\ Top("watch", "cancelLevels")
    /\ LET f == Head(todo["watch"])
       IN /\ f.ids = <<>>
          /\ model' = [model EXCEPT !.tapIds = f.keep]
    /\ todo' = Then("watch", <<Place("TakeProfit")>>)
    /\ UNCHANGED <<machine, target, ord, canceling, world>>

SaveStrategyConditions ==
    /\ Top("watch", "saveStrategyConditions")
    /\ model' = [model EXCEPT !.saved = model.cond]
    /\ todo' = Then("watch", <<>>)
    /\ UNCHANGED <<machine, target, ord, canceling, world>>

-----------------------------------------------------------------------------
(* Order callbacks *)

Hears(k) ==
    /\ k \in DOMAIN ord
    /\ ord[k].status # "open" /\ IsOrderExistsInMap(k)
    /\ ord' = [ord EXCEPT ![k].told = TRUE]

\* exitWaitEntry and enterEntry for whatever order is heard first; later on exit.
Transition ==
    IF machine = "WaitForEntry"
    THEN /\ machine' = "InEntry"
         /\ todo' = [todo EXCEPT !["entering"] = <<Place("TakeProfit")>>,
                                 !["Stoploss"] = <<Place("Stoploss")>>,
                                 !["ForcedLoss"] = IF model.cond.forced > 0
                                                   THEN <<Place("ForcedLoss")>> ELSE <<>>]
    ELSE machine' = "End" /\ UNCHANGED todo

HearEntry(k) ==
    /\ Hears(k)
    /\ ord[k].step = "WaitForEntry" /\ ord[k].status = "filled" /\ ~model.entered
    /\ model' = [model EXCEPT !.entered = TRUE]
    /\ Transition
    /\ UNCHANGED <<target, canceling, world>>

HearExit(k) ==
    /\ Hears(k)
    /\ ord[k].step # "WaitForEntry" /\ ord[k].status = "filled"
    /\ model' = [model EXCEPT !.executed = @ + ord[k].got]
    /\ IF model'.executed >= Amount THEN Transition ELSE UNCHANGED <<machine, todo>>
    /\ UNCHANGED <<target, canceling, world>>

\* A canceled order, or an entry when there is an entry price already.
HearNothing(k) ==
    /\ Hears(k)
    /\ ord[k].status = "canceled" \/ (ord[k].step = "WaitForEntry" /\ model.entered)
    /\ UNCHANGED <<machine, model, target, canceling, world, todo>>

-----------------------------------------------------------------------------

Next ==
    \/ Edit \/ WatchStrategies
    \/ ReplaceEntry \/ ReplaceStop \/ ReplaceExit
    \/ SelectLevel \/ CancelLevel \/ ReplaceLevels \/ SaveStrategyConditions
    \/ \E g \in Goroutines :
          \/ SkipOrder(g) \/ AcceptOrder(g) \/ Answer(g)
          \/ RejectOrder(g) \/ RejectTriggered(g)
    \/ \E k \in DOMAIN ord : Fill(k) \/ HearEntry(k) \/ HearExit(k) \/ HearNothing(k)
    \/ \E k \in canceling : CancelOrder(k)

Spec == Init /\ [][Next]_vars

-----------------------------------------------------------------------------
(* Properties *)

\* The shape of every variable; SelectedExitTarget is the number of an exit level,
\* which PlaceOrder and EditConditions both set (placeOrder.go:705, strategySingleton.go:744).
TypeOK ==
    /\ machine \in {"WaitForEntry", "InEntry", "End"}
    /\ model \in [cond : Conditions, saved : Conditions, enabled : BOOLEAN,
                  entered : BOOLEAN, executed : Nat, orders : SUBSET OrderIds,
                  tapIds : Seq(OrderIds), stopIds : [Stops -> SUBSET OrderIds]]
    /\ \E i \in DOMAIN setup.conditions : target \in 0 .. Len(setup.conditions[i].exits) - 1
    /\ canceling \subseteq DOMAIN ord

AtRest ==
    /\ machine # "End" /\ model.enabled /\ model.cond = Document
    /\ \A g \in Goroutines : todo[g] = <<>>
    /\ canceling = {}
    /\ \A k \in DOMAIN ord : ord[k].told = (ord[k].status # "open")
    /\ \A k \in Open : ord[k].step # "Canceled"

\* No edit so far was one of the entry order: that cancels whatever is open and buys
\* once more, also in entry.
EntryKept == \A i \in 1 .. world.edits : setup.conditions[i].entry = setup.conditions[1].entry

\* A position, when every edit has been handled.
Holding == AtRest /\ world.pos > 0 /\ EntryKept

OpenOrders(step) == {k \in Open : ord[k].step = step}

\* While the order waits, an edited entry has replaced the one before it, though the
\* answer to the cancel is not waited for (strategySingleton.go:657-673).
EntryFollowsEdit ==
    AtRest /\ machine = "WaitForEntry" =>
        \E k \in DOMAIN ord : /\ OpenOrders("WaitForEntry") = {k}
                              /\ ord[k].price = Document.entry

\* However an edit meets the entry's fill, the stop that its callback places and the
\* fills of exits, the position has a stop at the edited price in the end
\* (strategySingleton.go:675-688).
StopFollowsEdit ==
    Holding => \E k \in OpenOrders("Stoploss") :
                  ord[k].price = Document.stop /\ ord[k].qty >= world.pos

\* Nor is an old stop left beside it, which would close the position at a price the
\* user has given up, when the first ones were there before the edit.
OldStopsAreGone ==
    Holding /\ ~setup.early =>
        \A step \in Stops : Cardinality(OpenOrders(step)) <= 1

\* After an edit of the exit levels, though some of them may be sold meanwhile, the
\* position is sold by open levels, all of them edited ones
\* (strategySingleton.go:738-766).  It holds for the setups of MCEditing, not for all: a
\* single level that is edited leaves the id of the order it cancels in the list
\* (strategySingleton.go:780-790), and when it is split later, the first new level is
\* passed over.
ExitsFollowEdit ==
    Holding /\ ~setup.early =>
        /\ MapThenSumSet(LAMBDA k : ord[k].qty, OpenOrders("TakeProfit")) >= world.pos
        /\ \A k \in OpenOrders("TakeProfit") :
              \E i \in DOMAIN Document.exits : Document.exits[i].price = ord[k].price
=============================================================================
