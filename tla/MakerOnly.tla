----------------------------- MODULE MakerOnly -----------------------------
(***************************************************************************)
(* A maker-only order: a post-only order at the best price of the book that*)
(* is canceled and placed again every turn until it fills.                 *)
(*                                                                         *)
(*   CreateOrder   answers at once; what it starts is still under way      *)
(*   Start         the loop: PlaceOrder, which cancels the order before    *)
(*   orderCallback an order has filled                                     *)
(*   CancelOrder   of a user, on a goroutine of the HTTP server            *)
(*   Stop          by the loop when it ends and by CancelOrder, each with a*)
(*                 goroutine of its own that cancels                       *)
(*   WatchStrategies  replaces the registry entry in the cold start        *)
(*                                                                         *)
(* PlaceOrder is due every turn: State.EntryPrice, which the loop compares *)
(* with the best prices, is set by a fill only.  An order fills as a whole,*)
(* and a cancel request fails only for an order that is no longer open.    *)
(***************************************************************************)
EXTENDS Integers, Sequences

CONSTANTS
    MaxOrders,      \* bound: orders the exchange takes
    MaxRequests,    \* bound: CancelOrder requests of the user
    MaxErrors       \* bound: refusals of the exchange

ASSUME MakerOnlyAssumption == {MaxOrders, MaxRequests, MaxErrors} \subseteq Nat

VARIABLES
    ord,            \* the orders at the exchange; OrdersMap; how far the callback is
    entryOrderId,   \* State.EntryOrderId, 0 for ""
    model,          \* Enabled and State.State of the strategy that runs
    machine,        \* sm.State
    makerOnlyOrder, \* the status in sm.MakerOnlyOrder, or nil
    orderDoc,       \* the status in core_orders of the order of CreateOrder
    strategyDoc,    \* whether core_strategies has the strategy
    registry,       \* ss.strategies: the strategy that runs, without its runtime at
                    \* first, or the one of the cold start
    going,          \* goroutines with one step to do
    task,           \* where the loop, the requests and the cancels are
    errors,
    alive           \* the process

vars == <<ord, entryOrderId, model, machine, makerOnlyOrder, orderDoc, strategyDoc,
          registry, going, task, errors, alive>>

Loop == <<"loop", 0>>
Handlers == {"handler"} \X (1 .. MaxRequests)
Canceler(t) == <<"cancel", t[2]>>   \* go CancelEntryOrder of the Stop called by t
Tasks == {Loop, Canceler(Loop)} \cup Handlers \cup {Canceler(t) : t \in Handlers}

OrderIds == 1 .. MaxOrders
Places == {"idle", "check", "cancelEntry", "cancelSent", "canceled", "price", "sent", "answer",
           "stop", "stopNotFilled", "stopDisables", "disable", "save", "over"}

At(t, place) == alive /\ task[t].at = place
Goes(t, place) == task' = [task EXCEPT ![t].at = place]

\* CreateOrder has answered; its two go statements are under way.
Init ==
    /\ ord = <<>>
    /\ entryOrderId = 0
    /\ model = [enabled |-> TRUE, state |-> ""]
    /\ machine = "PlaceOrder"
    /\ makerOnlyOrder = "nil"
    /\ orderDoc = "none"
    /\ strategyDoc = FALSE
    /\ registry = "none"
    /\ going = {"SaveOrder", "AddStrategy"}
    /\ task = [t \in Tasks |-> [at |-> "idle", id |-> 0, runtime |-> FALSE]]
    /\ errors = 0
    /\ alive = TRUE

exchange == <<ord, errors>>
memory == <<entryOrderId, model, machine, makerOnlyOrder>>
storage == <<orderDoc, strategyDoc>>

-----------------------------------------------------------------------------
(* The start *)

Does(g, gs) == alive /\ g \in going /\ going' = (going \ {g}) \cup gs

SaveOrder ==
    /\ Does("SaveOrder", {})
    /\ orderDoc' = "open"
    /\ UNCHANGED <<exchange, memory, strategyDoc, registry, task, alive>>

\* The mutex of a new id is free.
AddStrategy ==
    /\ Does("AddStrategy", {"Start"})
    /\ registry' = "settled"
    /\ UNCHANGED <<exchange, memory, storage, task, alive>>

RunMakerOnlyOrder ==
    /\ Does("Start", {"GetOrder", "CreateStrategy", "setRuntime"})
    /\ Goes(Loop, "check")
    /\ UNCHANGED <<exchange, memory, storage, registry, alive>>

\* strategy.StrategyRuntime is set after the loop was started.
SetRuntime ==
    /\ Does("setRuntime", {})
    /\ registry' = IF registry = "settled" THEN "running" ELSE registry
    /\ UNCHANGED <<exchange, memory, storage, task, alive>>

\* mutant: one attempt to read the order
GetOrderOnce ==
    /\ Does("GetOrder", {})
    /\ makerOnlyOrder' = orderDoc
    /\ UNCHANGED <<exchange, entryOrderId, model, machine, storage, registry, task, alive>>

\* The order is read until it is there.
GetOrder ==
    /\ orderDoc # "none"
    /\ Does("GetOrder", {})
    /\ makerOnlyOrder' = orderDoc
    /\ UNCHANGED <<exchange, entryOrderId, model, machine, storage, registry, task, alive>>

CreateStrategy ==
    /\ Does("CreateStrategy", {})
    /\ strategyDoc' = TRUE
    /\ UNCHANGED <<exchange, memory, orderDoc, registry, task, alive>>

\* An event of a maker-only strategy in cold start, which its document stays in: a
\* strategy without a runtime, and with a model of its own, takes its place.
WatchStrategies ==
    /\ alive /\ strategyDoc
    /\ registry' = "cold"
    /\ UNCHANGED <<exchange, memory, storage, going, task, alive>>

-----------------------------------------------------------------------------
(* CancelEntryOrder, by the loop or on a goroutine of Stop *)

AfterCancel(t) == IF t = Loop THEN "price" ELSE "over"

ReadEntryOrderId(t) ==
    /\ At(t, "cancelEntry")
    /\ task' = [task EXCEPT ![t].at = IF entryOrderId = 0 THEN AfterCancel(t) ELSE "cancelSent",
                            ![t].id = entryOrderId]
    /\ UNCHANGED <<exchange, memory, storage, registry, going, alive>>

ExchangeCancels(t) ==
    /\ At(t, "cancelSent")
    /\ ord' = [ord EXCEPT ![task[t].id].status = IF @ = "open" THEN "canceled" ELSE @]
    /\ Goes(t, "canceled")
    /\ UNCHANGED <<errors, memory, storage, registry, going, alive>>

\* Whether the order was canceled or had filled, and whatever the id is by now.
ClearEntryOrderId(t) ==
    /\ At(t, "canceled")
    /\ entryOrderId' = 0
    /\ Goes(t, AfterCancel(t))
    /\ UNCHANGED <<exchange, model, machine, makerOnlyOrder, storage, registry, going, alive>>

-----------------------------------------------------------------------------
(* The loop *)

Running ==
    /\ machine # "Filled"
    /\ makerOnlyOrder \in {"nil", "open"}
    /\ model.state \notin {"Filled", "Canceled"}
    /\ model.enabled

\* mutant: the order before is not canceled
BeginTurnPlacing ==
    /\ At(Loop, "check")
    /\ Running
    /\ Goes(Loop, "price")
    /\ UNCHANGED <<exchange, memory, storage, registry, going, alive>>

BeginTurn ==
    /\ At(Loop, "check")
    /\ Running
    /\ Goes(Loop, "cancelEntry")
    /\ UNCHANGED <<exchange, memory, storage, registry, going, alive>>

LeaveLoop ==
    /\ At(Loop, "check")
    /\ ~Running
    /\ Goes(Loop, "stop")
    /\ UNCHANGED <<exchange, memory, storage, registry, going, alive>>

\* There is no price, or the order has filled.
GiveUp ==
    /\ At(Loop, "price")
    /\ Goes(Loop, "check")
    /\ UNCHANGED <<exchange, memory, storage, registry, going, alive>>

SendOrder ==
    /\ At(Loop, "price")
    /\ makerOnlyOrder # "filled"
    /\ Goes(Loop, "sent")
    /\ UNCHANGED <<exchange, memory, storage, registry, going, alive>>

AcceptOrder ==
    /\ At(Loop, "sent")
    /\ Len(ord) < MaxOrders
    /\ ord' = Append(ord, [status |-> "open", tracked |-> FALSE, told |-> "no", copied |-> FALSE])
    /\ task' = [task EXCEPT ![Loop].at = "answer", ![Loop].id = Len(ord) + 1]
    /\ UNCHANGED <<errors, memory, storage, registry, going, alive>>

\* mutant: the id is not kept
AnswerForgotten ==
    /\ At(Loop, "answer")
    /\ ord' = [ord EXCEPT ![task[Loop].id].tracked = TRUE]
    /\ Goes(Loop, "check")
    /\ UNCHANGED <<errors, memory, storage, registry, going, alive>>

\* OrdersMap, State.EntryOrderId, then go waitForOrder.
Answer ==
    /\ At(Loop, "answer")
    /\ ord' = [ord EXCEPT ![task[Loop].id].tracked = TRUE]
    /\ entryOrderId' = task[Loop].id
    /\ Goes(Loop, "check")
    /\ UNCHANGED <<errors, model, machine, makerOnlyOrder, storage, registry, going, alive>>

\* One of the messages that are tried again.
TryAgain ==
    /\ At(Loop, "sent")
    /\ errors < MaxErrors
    /\ errors' = errors + 1
    /\ Goes(Loop, "price")
    /\ UNCHANGED <<ord, memory, storage, registry, going, alive>>

\* "ReduceOnly Order is rejected" leaves the state, any other message makes it Error.
RejectOrder ==
    /\ At(Loop, "sent")
    /\ errors < MaxErrors
    /\ errors' = errors + 1
    /\ \E state \in {model.state, "Error"} : model' = [enabled |-> FALSE, state |-> state]
    /\ entryOrderId' = 0
    /\ Goes(Loop, "check")
    /\ UNCHANGED <<ord, machine, makerOnlyOrder, storage, registry, going, alive>>

-----------------------------------------------------------------------------
(* An order fills *)

Fill(k) ==
    /\ ord[k].status = "open"
    /\ ord' = [ord EXCEPT ![k].status = "filled"]
    /\ UNCHANGED <<errors, memory, storage, registry, going, task, alive>>

\* orderCallback, once per order; a canceled one is forgotten.
HearFill(k) ==
    /\ alive
    /\ ord[k].status = "filled" /\ ord[k].tracked /\ ord[k].told = "no"
    /\ ord' = [ord EXCEPT ![k].told = "heard"]
    /\ UNCHANGED <<errors, memory, storage, registry, going, task, alive>>

\* Its goroutine waits for sm.MakerOnlyOrder and writes the status into it.
CopyStatus(k) ==
    /\ alive
    /\ ord[k].told # "no" /\ ~ord[k].copied
    /\ makerOnlyOrder # "nil"
    /\ makerOnlyOrder' = "filled"
    /\ ord' = [ord EXCEPT ![k].copied = TRUE]
    /\ UNCHANGED <<errors, entryOrderId, model, machine, storage, registry, going, task, alive>>

FireCheckExistingOrders(k) ==
    /\ alive
    /\ ord[k].told = "heard"
    /\ ord' = [ord EXCEPT ![k].told = "fired"]
    /\ machine' = "Filled"
    /\ model' = [model EXCEPT !.state = "Filled"]
    /\ UNCHANGED <<errors, entryOrderId, makerOnlyOrder, storage, registry, going, task, alive>>

-----------------------------------------------------------------------------
(* Stop *)

AfterStop(t) == IF t = Loop THEN "over" ELSE "save"

StopBranch == IF machine = "Filled" THEN "stopDisables" ELSE "stopNotFilled"

\* mutant: the entry order is left alone
StopQuietly(t) ==
    /\ At(t, "stop")
    /\ task' = [task EXCEPT ![t].at = StopBranch, ![Canceler(t)].at = "over"]
    /\ UNCHANGED <<exchange, memory, storage, registry, going, alive>>

\* The state of the machine is read first, Enabled when the branch is taken.
Stop(t) ==
    /\ At(t, "stop")
    /\ task' = [task EXCEPT ![t].at = StopBranch, ![Canceler(t)].at = "cancelEntry"]
    /\ UNCHANGED <<exchange, memory, storage, registry, going, alive>>

StopMarksCanceled(t) ==
    /\ At(t, "stopNotFilled")
    /\ ~model.enabled
    /\ model' = [model EXCEPT !.state = "Canceled"]
    /\ makerOnlyOrder' = IF makerOnlyOrder = "nil" THEN "nil" ELSE "canceled"
    /\ going' = IF makerOnlyOrder = "nil" THEN going \cup {"markCanceled"} ELSE going
    /\ Goes(t, AfterStop(t))
    /\ UNCHANGED <<exchange, entryOrderId, machine, storage, registry, alive>>

StopDisables(t) ==
    /\ At(t, "stopDisables") \/ (At(t, "stopNotFilled") /\ model.enabled)
    /\ going' = going \cup {"DisableStrategy"}
                     \cup (IF makerOnlyOrder = "nil" THEN {"saveWhenRead"} ELSE {})
    /\ Goes(t, AfterStop(t))
    /\ UNCHANGED <<exchange, memory, storage, registry, alive>>

MarkCanceled ==
    /\ makerOnlyOrder # "nil"
    /\ Does("markCanceled", {})
    /\ makerOnlyOrder' = "canceled"
    /\ UNCHANGED <<exchange, entryOrderId, model, machine, storage, registry, task, alive>>

SaveWhenRead ==
    /\ makerOnlyOrder # "nil"
    /\ Does("saveWhenRead", {})
    /\ UNCHANGED <<exchange, memory, storage, registry, task, alive>>

DisableStrategy ==
    /\ strategyDoc
    /\ Does("DisableStrategy", {})
    /\ UNCHANGED <<exchange, memory, storage, registry, task, alive>>

-----------------------------------------------------------------------------
(* CancelOrder of the user *)

\* The strategy of the registry is disabled in memory.  Only an order that is in
\* the storage can be canceled.
CancelOrder(t) ==
    /\ At(t, "idle")
    /\ orderDoc # "none"
    /\ task' = [task EXCEPT ![t].at = IF registry = "none" THEN "save" ELSE "disable",
                            ![t].runtime = registry = "running"]
    /\ model' = IF registry \in {"settled", "running"}
                THEN [enabled |-> FALSE, state |-> "Canceled"]
                ELSE model
    /\ UNCHANGED <<exchange, entryOrderId, machine, makerOnlyOrder, storage, registry, going, alive>>

\* DisableStrategy, UpdateState, then HotReload, which stops a runtime.
HotReload(t) ==
    /\ At(t, "disable")
    /\ strategyDoc
    /\ Goes(t, IF task[t].runtime THEN "stop" ELSE "save")
    /\ UNCHANGED <<exchange, memory, storage, registry, going, alive>>

SaveCanceled(t) ==
    /\ At(t, "save")
    /\ orderDoc' = "canceled"
    /\ Goes(t, "over")
    /\ UNCHANGED <<exchange, memory, strategyDoc, registry, going, alive>>

\* CheckDisabledStrategy reads "enabled" of a strategy it did not find; Stop's
\* goroutine gives up waiting for sm.MakerOnlyOrder and uses it all the same.
Panic ==
    /\ alive
    /\ \/ ~strategyDoc /\ "DisableStrategy" \in going
       \/ ~strategyDoc /\ \E t \in Handlers : At(t, "disable")
       \/ {"markCanceled", "saveWhenRead"} \cap going # {} /\ orderDoc = "none"
    /\ alive' = FALSE
    /\ UNCHANGED <<exchange, memory, storage, registry, going, task>>

-----------------------------------------------------------------------------

Next ==
    \/ SaveOrder \/ AddStrategy \/ RunMakerOnlyOrder \/ SetRuntime \/ GetOrder
    \/ CreateStrategy \/ WatchStrategies \/ Panic
    \/ MarkCanceled \/ SaveWhenRead \/ DisableStrategy
    \/ BeginTurn \/ LeaveLoop \/ GiveUp \/ SendOrder \/ AcceptOrder \/ Answer
    \/ TryAgain \/ RejectOrder
    \/ \E t \in Tasks :
          \/ ReadEntryOrderId(t) \/ ExchangeCancels(t) \/ ClearEntryOrderId(t)
          \/ Stop(t) \/ StopMarksCanceled(t) \/ StopDisables(t)
    \/ \E t \in Handlers : CancelOrder(t) \/ HotReload(t) \/ SaveCanceled(t)
    \/ \E k \in DOMAIN ord : Fill(k) \/ HearFill(k) \/ CopyStatus(k) \/ FireCheckExistingOrders(k)

Spec == Init /\ [][Next]_vars

-----------------------------------------------------------------------------
(* Properties *)

\* The shape of every variable; sm.MakerOnlyOrder is nil or an order that was read
\* (makeronlyOrder.go:158-166), and EntryOrderId names an order.
TypeOK ==
    /\ ord \in Seq([status : {"open", "filled", "canceled"}, tracked : BOOLEAN,
                    told : {"no", "heard", "fired"}, copied : BOOLEAN])
    /\ entryOrderId \in 0 .. Len(ord)
    /\ model \in [enabled : BOOLEAN, state : {"", "Filled", "Canceled", "Error"}]
    /\ machine \in {"PlaceOrder", "Filled"}
    /\ makerOnlyOrder \in {"nil", "open", "canceled", "filled"}
    /\ orderDoc \in {"none", "open", "canceled"}
    /\ strategyDoc \in BOOLEAN
    /\ registry \in {"none", "settled", "running", "cold"}
    /\ going \subseteq {"SaveOrder", "AddStrategy", "Start", "GetOrder", "CreateStrategy",
                        "setRuntime", "markCanceled", "saveWhenRead",
                        "DisableStrategy"}
    /\ task \in [Tasks -> [at : Places, id : Nat, runtime : BOOLEAN]]
    /\ errors \in 0 .. MaxErrors
    /\ alive \in BOOLEAN

Open == {k \in DOMAIN ord : ord[k].status = "open"}

\* However the cancels of Stop clear State.EntryOrderId under the loop's hands, the
\* exchange never has two orders open: only one could be filled without asking.
OneOpenOrder == \A j, k \in Open : j = k

\* Between two turns of an order that nobody stopped, an open order is the one the
\* next turn, or Stop, will cancel.
OpenIsKnown == model.enabled /\ task[Loop].at = "check" => Open \subseteq {entryOrderId}

\* A runtime that ended by itself, after a fill it heard of late and with another
\* order placed since, or after an error, leaves no order behind.
NothingLeftOpen ==
    /\ task[Loop].at = "over" /\ task[Canceler(Loop)].at = "over"
    /\ \A t \in Handlers : task[t].at = "idle"
    => Open = {}

\* "if success place order / if no then order was filled so thats it": an order is
\* filled once.
FilledOnce == \A j, k \in DOMAIN ord : ord[j].status = "filled" /\ ord[k].status = "filled" => j = k
=============================================================================
