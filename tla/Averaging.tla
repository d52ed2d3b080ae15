----------------------------- MODULE Averaging -----------------------------
(***************************************************************************)
(* A long smart order with entry levels ("averaging") on futures: limit    *)
(* orders at falling prices, one take profit for all that was bought so    *)
(* far, and a stop loss from the start.                                    *)
(*                                                                         *)
(*   New                 places every level, whatever state it starts in:  *)
(*                       a goroutine per order                             *)
(*   order callbacks     checkExistingOrders; the fill of a level fires    *)
(*                       TriggerAveragingEntryOrderExecuted inside it      *)
(*   enterMultiEntry     under StopMux: cancels the take profit and places *)
(*                       the next one                                      *)
(*   Crash               the process starts again from the document        *)
(*                                                                         *)
(* Prices do nothing to such an order: its event loop waits for the end.   *)
(* An order is followed until it ends, and what enterMultiEntry is about   *)
(* then to its end: Stop, errors of the exchange other than a reduce-only  *)
(* order without a position, the steps of a transition, and the gap        *)
(* between an order being taken and being registered are those of          *)
(* SmartOrder.  The stop orders that New places beside the levels, before  *)
(* there is a position, are taken.  A fill is of the whole order, as far   *)
(* as the position goes.                                                   *)
(***************************************************************************)
EXTENDS Integers, Sequences, FiniteSetsExt

CONSTANT
    Setups  \* conditions of a strategy, each with its bounds

\* What a setup says.
SetupType ==
    [amount : Nat \ {0},            \* EntryOrder.Amount
     levels : Seq([percent : BOOLEAN, amount : Nat \ {0},   \* Type and Amount
                   withoutLoss : BOOLEAN]),                 \* PlaceWithoutLoss
     forcedLoss : BOOLEAN,          \* ForcedLoss > 0
     entryAfterTAP : BOOLEAN,       \* PlaceEntryAfterTAP
     closeAfterTAP : BOOLEAN,       \* CloseStrategyAfterFirstTAP
     crashes : Nat,                 \* bound: restarts of the process
     early : BOOLEAN,               \* bound: restarts before anything was saved
     orders : Nat]                  \* bound: orders asked for

ASSUME AveragingAssumption ==
    /\ Setups \subseteq SetupType
    /\ \A s \in Setups : s.levels # <<>> /\ Len(s.levels) + 2 <= s.orders

VARIABLES
    machine,    \* sm.State
    model,      \* Strategy.Model.State: State, EntryPrice > 0, SavedEntryPrice > 0,
                \* ExecutedAmount, PositionAmount and the lists of order ids
    sm,         \* IsWaitingForOrder, SelectedEntryTarget, StopMux
    doc,        \* "state" of the document in core_strategies
    ord,        \* the orders asked for, in order
    canceling,  \* orders a "go CancelOrder" is on its way for
    callback,   \* where enterMultiEntry is that the fill of an order has fired
    world       \* the setup, the position at the exchange, restarts, and whether the
                \* machine has been in End or the process has panicked

vars == <<machine, model, sm, doc, ord, canceling, callback, world>>

setup == world.setup
Levels == setup.levels
Amount == setup.amount

Steps == {"WaitForEntry", "TakeProfit", "Stoploss", "ForcedLoss", "WithoutLoss"}
Statuses == {"asked", "open", "filled", "canceled", "rejected"}
MachineStates == {"WaitForEntry", "InMultiEntry", "End"}
OrderIds == UNION {1 .. s.orders : s \in Setups}

ThisLife == {k \in DOMAIN ord : ord[k].life = world.crashes}
Open == {k \in DOMAIN ord : ord[k].status = "open"}
OpenTakeProfits == {k \in Open \cap ThisLife : ord[k].step = "TakeProfit"}
Live == ~world.ended /\ model.enabled

-----------------------------------------------------------------------------
(* Amounts *)

\* An amount or a percentage of EntryOrder.Amount, which PlaceOrder rounds down.
AmountOf(s, i) ==
    IF s.levels[i].percent THEN (s.amount * s.levels[i].amount) \div 100
                           ELSE s.levels[i].amount

\* What is ordered at a level; at the last one what the others leave.
LevelAmount(s, i) ==
    LET before == MapThenSumSet(LAMBDA j : AmountOf(s, j), 1 .. i - 1)
    IN IF i = Len(s.levels) THEN s.amount - before ELSE AmountOf(s, i)

\* getAveragingEntryAmount: the levels up to the selected one, from 0; nothing is
\* left over for the last.
AveragingEntryAmount(executedTargets) ==
    LET executed == {i \in DOMAIN Levels : i <= executedTargets + 1}
        percents == MapThenSumSet(LAMBDA i : Levels[i].amount, {i \in executed : Levels[i].percent})
        amounts == MapThenSumSet(LAMBDA i : Levels[i].amount, {i \in executed : ~Levels[i].percent})
    IN amounts + (Amount * percents) \div 100

-----------------------------------------------------------------------------
(* Orders *)

Order(step, level, qty, life) ==
    [step |-> step, level |-> level, qty |-> qty, life |-> life,
     status |-> "asked", filled |-> 0, told |-> FALSE]

\* A goroutine per level, and per stop order.
EntryOrders(s, life) ==
    [i \in DOMAIN s.levels |-> Order("WaitForEntry", i, LevelAmount(s, i), life)]
StopOrders(s, life) ==
    <<Order("Stoploss", 0, MapThenSumSet(LAMBDA i : LevelAmount(s, i), DOMAIN s.levels), life)>>
    \o IF s.forcedLoss THEN <<Order("ForcedLoss", 0, s.amount, life)>> ELSE <<>>

Closed(ids) ==
    [k \in DOMAIN ord |-> IF k \in ids \cap Open THEN [ord[k] EXCEPT !.status = "canceled"]
                                                ELSE ord[k]]

\* A goroutine of placeMultiEntryOrders, or the one ForcedLoss waits in: their
\* requests arrive in the order the goroutines were started in.
AcceptOrder(k) ==
    /\ ~world.ended
    /\ k \in ThisLife /\ ord[k].status = "asked"
    /\ \A j \in ThisLife : ord[j].status = "asked" => j >= k
    /\ ord' = [ord EXCEPT ![k].status = "open"]
    /\ CASE ord[k].step = "WaitForEntry" ->
              model' = [model EXCEPT !.waitIds = @ \cup {k}] /\ UNCHANGED sm
         [] ord[k].step = "ForcedLoss" ->
              /\ model' = [model EXCEPT !.forcedIds = @ \cup {k}]
              /\ sm' = [sm EXCEPT !.waiting = @ \cup {"ForcedLoss"}]
         [] ord[k].step = "Stoploss" -> UNCHANGED <<model, sm>>
    /\ UNCHANGED <<machine, doc, canceling, callback, world>>

\* One of TryCancelAllOrders' goroutines gets through.
CancelOrder(k) ==
    /\ ~world.ended /\ k \in canceling
    /\ canceling' = canceling \ {k}
    /\ ord' = Closed({k})
    /\ UNCHANGED <<machine, model, sm, doc, callback, world>>

\* The exchange fills a lower level after the ones above it.
Above(k) == {j \in Open : ord[j].step = "WaitForEntry" /\ ord[j].level < ord[k].level}

\* mutant: the exits are not reduce-only
FillBeyond(k) ==
    /\ ~world.ended /\ k \in Open
    /\ Above(k) = {}
    /\ ord' = [ord EXCEPT ![k].status = "filled", ![k].filled = ord[k].qty]
    /\ world' = [world EXCEPT !.pos = IF ord[k].step = "WaitForEntry" THEN @ + ord[k].qty
                                                                    ELSE @ - ord[k].qty]
    /\ canceling' = canceling \ {k}
    /\ UNCHANGED <<machine, model, sm, doc, callback>>

Fill(k) ==
    /\ ~world.ended /\ k \in Open
    /\ IF ord[k].step = "WaitForEntry"
       THEN /\ Above(k) = {}
            /\ ord' = [ord EXCEPT ![k].status = "filled", ![k].filled = ord[k].qty]
            /\ world' = [world EXCEPT !.pos = @ + ord[k].qty]
       ELSE LET got == Min({ord[k].qty, world.pos})
            IN /\ ord' = [ord EXCEPT ![k].status = IF got = 0 THEN "canceled" ELSE "filled",
                                     ![k].filled = got]
               /\ world' = [world EXCEPT !.pos = @ - got]
    /\ canceling' = canceling \ {k}
    /\ UNCHANGED <<machine, model, sm, doc, callback>>

-----------------------------------------------------------------------------
(* New *)

NewModel == [state |-> "", entered |-> FALSE, saved |-> FALSE, executed |-> 0, position |-> 0,
             tapIds |-> {}, waitIds |-> {}, forcedIds |-> {}, enabled |-> TRUE]
NewSm == [waiting |-> {}, selected |-> 0, mux |-> FALSE]
Places == {"idle", "mux", "withoutLoss", "replace", "cancel", "done"}
Idle == [at |-> "idle", ids |-> {}]

Init ==
    /\ machine = "WaitForEntry"
    /\ model = NewModel
    /\ sm = NewSm
    /\ doc = NewModel
    /\ canceling = {}
    /\ callback = [k \in OrderIds |-> Idle]
    /\ \E s \in Setups :
          /\ world = [setup |-> s, pos |-> 0, crashes |-> 0, ended |-> FALSE]
          /\ ord = EntryOrders(s, 0) \o StopOrders(s, 0)

\* Another process starts from the document: every level is placed again, with the
\* stop orders, and the level orders it knows of are canceled.
Crash ==
    LET life == world.crashes + 1
    IN /\ Live /\ world.crashes < setup.crashes
       /\ setup.early \/ doc.state # ""
       /\ Len(ord) + Len(Levels) + 2 <= setup.orders
       /\ machine' = IF doc.state = "" THEN "WaitForEntry" ELSE doc.state
       /\ model' = doc
       /\ sm' = NewSm
       /\ callback' = [k \in OrderIds |-> Idle]
       /\ ord' = [k \in DOMAIN ord |-> IF ord[k].status = "asked"
                                       THEN [ord[k] EXCEPT !.status = "rejected"] ELSE ord[k]]
                 \o EntryOrders(setup, life) \o StopOrders(setup, life)
       /\ canceling' = doc.waitIds \cap Open
       /\ world' = [world EXCEPT !.crashes = life]
       /\ UNCHANGED doc

-----------------------------------------------------------------------------
(* Order callbacks *)

Hears(k) ==
    /\ ~world.ended /\ k \in ThisLife
    /\ ord[k].status = "filled" /\ ~ord[k].told

\* mutant: StatusByOrderId keeps the order
HearEntryTwice(k) ==
    /\ Hears(k) /\ ord[k].step = "WaitForEntry"
    /\ callback[k].at \in {"idle", "done"}
    /\ model' = [model EXCEPT !.state = "InMultiEntry", !.entered = TRUE]
    /\ callback' = IF machine = "InMultiEntry" THEN [callback EXCEPT ![k].at = "mux"]
                                               ELSE callback
    /\ UNCHANGED <<machine, sm, doc, ord, canceling, world>>

\* The fill of a level.  The trigger is permitted in InMultiEntry alone; elsewhere
\* it is an error that is logged.
HearEntry(k) ==
    /\ Hears(k) /\ ord[k].step = "WaitForEntry"
    /\ ord' = [ord EXCEPT ![k].told = TRUE]
    /\ model' = [model EXCEPT !.state = "InMultiEntry", !.entered = TRUE]
    /\ callback' = IF machine = "InMultiEntry" THEN [callback EXCEPT ![k].at = "mux"]
                                               ELSE callback
    /\ UNCHANGED <<machine, sm, doc, canceling, world>>

\* calculateAndSavePNL, which saves nothing without an entry price; the take profit
\* of an average closes it.
WithPNL(m, filled) == [m EXCEPT !.position = @ - filled, !.executed = @ + filled]
ClosesAverage(m) == IF m.entered \/ m.saved THEN [m EXCEPT !.entered = FALSE, !.saved = TRUE] ELSE m

\* The guard has let a fill pass, or not: exitWaitEntry, exit(), or End once more.
Transition(m, goes) ==
    LET next == IF ~goes THEN machine
                ELSE IF machine = "WaitForEntry" THEN "InMultiEntry" ELSE "End"
        saved == IF m.entered \/ m.saved THEN m ELSE doc
    IN /\ machine' = next
       /\ model' = IF goes /\ next = "End" THEN [m EXCEPT !.state = "End"] ELSE m
       /\ doc' = IF goes /\ next = "End" THEN [saved EXCEPT !.state = "End"] ELSE saved
       /\ world' = [world EXCEPT !.ended = next = "End"]

\* Everything is sold, or PlaceEntryAfterTAP: the levels are placed again.
HearTakeProfit(k) ==
    /\ Hears(k) /\ ord[k].step = "TakeProfit"
    /\ LET m == WithPNL(model, ord[k].filled)
           done == m.executed >= Amount \/ setup.closeAfterTAP
           again == ~done /\ setup.entryAfterTAP
           told == [ord EXCEPT ![k].told = TRUE]
       IN /\ again => Len(ord) + Len(Levels) <= setup.orders
          /\ Transition(ClosesAverage([m EXCEPT !.state = IF done THEN "End" ELSE @,
                                                !.executed = IF again THEN 0 ELSE @]), done)
          /\ ord' = told \o IF again THEN EntryOrders(setup, world.crashes) ELSE <<>>
          /\ canceling' = canceling \cup IF again THEN model.waitIds \cap Open ELSE {}
          /\ sm' = [sm EXCEPT !.waiting = @ \ {"TakeProfit"},
                              !.selected = IF again THEN 0 ELSE @]
    /\ UNCHANGED callback

HearStop(k) ==
    /\ Hears(k) /\ ord[k].step \in {"Stoploss", "ForcedLoss"}
    /\ LET m == WithPNL(model, ord[k].filled) IN Transition(m, m.executed >= Amount)
    /\ ord' = [ord EXCEPT ![k].told = TRUE]
    /\ UNCHANGED <<sm, canceling, callback>>

\* "close sm if bep executed"
HearWithoutLoss(k) ==
    /\ Hears(k) /\ ord[k].step = "WithoutLoss"
    /\ Transition(ClosesAverage([WithPNL(model, ord[k].filled) EXCEPT !.state = "End"]), TRUE)
    /\ ord' = [ord EXCEPT ![k].told = TRUE]
    /\ UNCHANGED <<sm, canceling, callback>>

-----------------------------------------------------------------------------
(* enterMultiEntry *)

\* The fill of k has brought its goroutine between Lock and Unlock of StopMux.
Inside(k) == callback[k].at \in {"withoutLoss", "replace", "cancel"}

\* mutant: StopMux is not waited for
EnterAtOnce(k) ==
    /\ callback[k].at = "mux"
    /\ sm.selected < Len(Levels)
    /\ sm' = [sm EXCEPT !.mux = TRUE]
    /\ callback' = [callback EXCEPT ![k].at = "replace"]
    /\ UNCHANGED <<machine, model, doc, ord, canceling, world>>

\* StopMux is taken.  ForcedLoss is placed three seconds later, unless it is there.
Enter(k) ==
    /\ callback[k].at = "mux" /\ ~sm.mux
    /\ sm.selected < Len(Levels)
    /\ LET forced == /\ setup.forcedLoss
                     /\ "ForcedLoss" \notin sm.waiting
                     /\ model.forcedIds = {}
       IN /\ forced => Len(ord) < setup.orders
          /\ sm' = [sm EXCEPT !.mux = TRUE,
                              !.waiting = @ \cup (IF forced THEN {"ForcedLoss"} ELSE {})]
          /\ ord' = ord \o IF forced THEN <<Order("ForcedLoss", 0, Amount, world.crashes)>>
                                     ELSE <<>>
    /\ callback' = [callback EXCEPT ![k].at = IF Levels[sm.selected + 1].withoutLoss
                                              THEN "withoutLoss" ELSE "replace"]
    /\ UNCHANGED <<machine, model, doc, canceling, world>>

\* EntryLevels[SelectedEntryTarget] is out of range: the process panics, and the
\* order is followed no further.
Panic(k) ==
    /\ callback[k].at = "mux" /\ ~sm.mux
    /\ sm.selected >= Len(Levels)
    /\ world' = [world EXCEPT !.ended = TRUE]
    /\ callback' = [callback EXCEPT ![k].at = "done"]
    /\ UNCHANGED <<machine, model, sm, doc, ord, canceling>>

OpenOrder(step) ==
    [Order(step, 0, AveragingEntryAmount(sm.selected), world.crashes) EXCEPT !.status = "open"]

\* Reduce-only, as the take profit is: refused without a position, which disables the
\* strategy.  enterMultiEntry goes on either way.
PlaceWithoutLoss(k) ==
    /\ callback[k].at = "withoutLoss"
    /\ Len(ord) < setup.orders
    /\ IF world.pos > 0
       THEN ord' = Append(ord, OpenOrder("WithoutLoss")) /\ UNCHANGED model
       ELSE model' = [model EXCEPT !.enabled = FALSE] /\ UNCHANGED ord
    /\ callback' = [callback EXCEPT ![k].at = "replace"]
    /\ UNCHANGED <<machine, sm, doc, canceling, world>>

\* An order that has ended while its take profit is being waited for: StopMux stays
\* locked.
ReturnEarly(k) ==
    /\ callback[k].at = "replace"
    /\ "TakeProfit" \in sm.waiting /\ machine = "End"
    /\ machine' = "InMultiEntry"
    /\ callback' = [callback EXCEPT ![k].at = "done"]
    /\ UNCHANGED <<model, sm, doc, ord, canceling, world>>

\* TryCancelAllOrdersConsistently: every take profit there was, one after the other.
Replace(k) ==
    /\ callback[k].at = "replace"
    /\ ~("TakeProfit" \in sm.waiting /\ machine = "End")
    /\ sm' = [sm EXCEPT !.waiting = @ \cup {"TakeProfit"}]
    /\ callback' = [callback EXCEPT ![k] = [at |-> "cancel", ids |-> model.tapIds \cap Open]]
    /\ UNCHANGED <<machine, model, doc, ord, canceling, world>>

CancelTakeProfit(k) ==
    /\ callback[k].at = "cancel" /\ callback[k].ids # {}
    /\ LET first == Min(callback[k].ids)
       IN /\ ord' = Closed({first})
          /\ callback' = [callback EXCEPT ![k].ids = @ \ {first}]
          /\ canceling' = canceling \ {first}
    /\ UNCHANGED <<machine, model, sm, doc, world>>

\* mutant: the level is selected before the amount is summed up
PlaceTakeProfitOfNext(k) ==
    /\ callback[k].at = "cancel" /\ callback[k].ids = {}
    /\ Len(ord) < setup.orders
    /\ world.pos > 0
    /\ ord' = Append(ord, [OpenOrder("TakeProfit")
                            EXCEPT !.qty = AveragingEntryAmount(sm.selected + 1)])
    /\ model' = [model EXCEPT !.tapIds = @ \cup {Len(ord) + 1}]
    /\ sm' = [sm EXCEPT !.waiting = @ \cup {"TakeProfit"}, !.selected = @ + 1, !.mux = FALSE]
    /\ machine' = "InMultiEntry"
    /\ callback' = [callback EXCEPT ![k].at = "done"]
    /\ UNCHANGED <<doc, canceling, world>>

\* The take profit of what has been bought, which the exchange takes while there is
\* a position; the next level is selected, StopMux given back and InMultiEntry
\* entered, whatever the machine has become in the meantime.
PlaceTakeProfit(k) ==
    /\ callback[k].at = "cancel" /\ callback[k].ids = {}
    /\ Len(ord) < setup.orders
    /\ IF world.pos > 0
       THEN /\ ord' = Append(ord, OpenOrder("TakeProfit"))
            /\ model' = [model EXCEPT !.tapIds = @ \cup {Len(ord) + 1}]
            /\ sm' = [sm EXCEPT !.waiting = @ \cup {"TakeProfit"},
                                !.selected = @ + 1, !.mux = FALSE]
       ELSE /\ model' = [model EXCEPT !.enabled = FALSE]
            /\ sm' = [sm EXCEPT !.selected = @ + 1, !.mux = FALSE]
            /\ UNCHANGED ord
    /\ machine' = "InMultiEntry"
    /\ callback' = [callback EXCEPT ![k].at = "done"]
    /\ UNCHANGED <<doc, canceling, world>>

-----------------------------------------------------------------------------

Next ==
    \/ Crash
    \/ \E k \in canceling : CancelOrder(k)
    \/ \E k \in DOMAIN ord :
          \/ AcceptOrder(k) \/ Fill(k)
          \/ HearEntry(k) \/ HearTakeProfit(k) \/ HearStop(k) \/ HearWithoutLoss(k)
          \/ Enter(k) \/ Panic(k) \/ PlaceWithoutLoss(k) \/ ReturnEarly(k)
          \/ Replace(k) \/ CancelTakeProfit(k) \/ PlaceTakeProfit(k)

Spec == Init /\ [][Next]_vars

-----------------------------------------------------------------------------
(* Properties *)

\* The shape of every variable; a sale never goes beyond the position, since every
\* exit is reduce-only (placeOrder.go:124,204,247,308).
TypeOK ==
    /\ machine \in MachineStates
    /\ {model, doc} \subseteq
          [state : MachineStates \cup {""}, entered : BOOLEAN, saved : BOOLEAN,
           executed : Nat, position : Int, tapIds : SUBSET OrderIds,
           waitIds : SUBSET OrderIds, forcedIds : SUBSET OrderIds, enabled : BOOLEAN]
    /\ sm \in [waiting : SUBSET {"TakeProfit", "ForcedLoss"}, selected : Nat, mux : BOOLEAN]
    /\ ord \in Seq([step : Steps, level : Nat, qty : Nat, life : Nat, status : Statuses,
                    filled : Nat, told : BOOLEAN])
    /\ canceling \subseteq DOMAIN ord
    /\ callback \in [OrderIds -> [at : Places, ids : SUBSET OrderIds]]
    /\ world \in [setup : Setups, pos : Nat, crashes : Nat, ended : BOOLEAN]

AtRest ==
    /\ \A k \in OrderIds : callback[k].at \in {"idle", "done"}
    /\ canceling = {}
    /\ \A k \in ThisLife :
          ord[k].status # "asked" /\ (ord[k].status = "filled" => ord[k].told)

Heard == {k \in ThisLife : ord[k].step = "WaitForEntry" /\ ord[k].told}

\* "state machine should never get here after all entryTargets fired"
\* (averaging.go:77): without PlaceEntryAfterTAP the index into EntryLevels stays in
\* range, though a restart places the levels again and fills come in any order.
IndexInRange ==
    ~setup.entryAfterTAP => \A k \in OrderIds : callback[k].at = "mux" =>
        sm.selected + Cardinality({j \in OrderIds : callback[j].at \notin {"idle", "done"}})
            <= Len(Levels)

\* Fills of levels that are heard together leave one take profit: they take turns
\* at canceling the one before (averaging.go:67,97-103).
OneTakeProfit == AtRest /\ Live => Cardinality(OpenTakeProfits) <= 1

\* The take profit that is left sells what the levels have bought, all of it and
\* no more, whatever order their fills are heard in (averaging.go:107-118).
TakeProfitCovers ==
    AtRest /\ Live /\ ~setup.entryAfterTAP /\ (\A k \in Heard : callback[k].at = "done")
    => \A k \in OpenTakeProfits : ord[k].qty = MapThenSumSet(LAMBDA j : ord[j].qty, Heard)

\* "enterMultiEntry executes once multiEntryOrder got executed" (averaging.go:65): when
\* everything is at rest, a level that was bought has had its take profit.
EntersOnFill == AtRest /\ Live => \A k \in Heard : callback[k].at = "done"

\* "enterMultiEntry executes once multiEntryOrder got executed" (averaging.go:65): a fill
\* that waits for StopMux waits for somebody who is inside and will give it back.  The
\* early return (averaging.go:89-95) keeps it, and the fill waits for ever.
WaitsForSomebody ==
    (\E k \in OrderIds : callback[k].at = "mux") /\ sm.mux => \E k \in OrderIds : Inside(k)
=============================================================================
