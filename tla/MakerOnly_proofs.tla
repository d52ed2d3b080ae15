-------------------------- MODULE MakerOnly_proofs --------------------------
(***************************************************************************)
(* Proofs about MakerOnly, for any number of orders, refusals and requests *)
(* of the user: never two orders open at the exchange, the open one is the *)
(* one the next turn cancels, and a runtime that ends by itself leaves     *)
(* none.                                                                   *)
(*                                                                         *)
(* The argument: a goroutine that cancels beside the loop exists only when *)
(* the strategy is disabled or the loop is in Stop, and then no turn       *)
(* begins any more.  What is left is the turn that was under way.          *)
(***************************************************************************)
EXTENDS MakerOnly, SequenceTheorems, TLAPS

-----------------------------------------------------------------------------
(* The inductive invariant *)

Cancelers == {Canceler(t) : t \in Handlers \cup {Loop}}

Stopping == {"stopNotFilled", "stopDisables", "over"}

\* Every goroutine is where its kind can be, and knows ids of orders.
Roles ==
    /\ task[Loop].at \in {"idle", "check", "cancelEntry", "cancelSent", "canceled", "price",
                          "sent", "answer", "stop"} \cup Stopping
    /\ \A t \in Handlers :
          task[t].at \in {"idle", "disable", "stop", "save"} \cup Stopping
    /\ \A c \in Cancelers :
          task[c].at \in {"idle", "cancelEntry", "cancelSent", "canceled", "over"}

Ids ==
    /\ \A t \in Tasks : task[t].id \in 0 .. Len(ord)
    /\ \A t \in Tasks : task[t].at = "cancelSent" => task[t].id # 0
    /\ task[Loop].at = "answer" => task[Loop].id # 0

\* The loop is started once.
StartsOnce ==
    /\ "AddStrategy" \in going => "Start" \notin going
    /\ {"AddStrategy", "Start"} \cap going # {} => task[Loop].at = "idle"

\* Stop of a request comes after the strategy was disabled, Stop of the loop after
\* the last turn.
Stopped ==
    /\ \A t \in Handlers :
          \/ task[t].runtime
          \/ task[t].at \in {"stop", "stopNotFilled", "stopDisables"}
          \/ task[Canceler(t)].at # "idle"
          => ~model.enabled /\ task[t].at # "idle"
    /\ task[Canceler(Loop)].at # "idle" <=> task[Loop].at \in Stopping

Undisturbed == \A t \in Handlers : task[t].at = "idle"

\* Which order can be open, given where the loop is.
LoopKnows ==
    /\ task[Loop].at \in {"idle", "canceled", "price", "sent"} => Open = {}
    /\ task[Loop].at \in {"cancelSent", "answer"} => Open \subseteq {task[Loop].id}
    /\ task[Loop].at = "check" /\ model.enabled => Open \subseteq {entryOrderId}
    /\ task[Loop].at \in {"check", "stop"} /\ Undisturbed => Open \subseteq {entryOrderId}
    /\ task[Loop].at = "cancelEntry" => Open \subseteq {entryOrderId}

\* What a goroutine of Stop has read is the open order, while the turn that was under
\* way has not read it yet, or after the last turn.
CancelerKnows ==
    \A c \in Cancelers :
        \/ task[Loop].at = "cancelEntry"
        \/ task[Loop].at \in Stopping /\ Undisturbed /\ c = Canceler(Loop)
        => /\ task[c].at = "cancelEntry" => Open \subseteq {entryOrderId}
           /\ task[c].at = "cancelSent" => Open \subseteq {task[c].id}
           /\ task[c].at = "canceled" => Open = {}
           /\ c = Canceler(Loop) /\ task[c].at = "over" => Open = {}

IInv ==
    /\ TypeOK /\ Roles /\ Ids /\ StartsOnce /\ Stopped
    /\ OneOpenOrder /\ LoopKnows /\ CancelerKnows

-----------------------------------------------------------------------------
(* Tasks and orders *)

OrderType == [status : {"open", "filled", "canceled"}, tracked : BOOLEAN,
              told : {"no", "heard", "fired"}, copied : BOOLEAN]

LEMMA TaskKinds ==
    /\ Loop \in Tasks /\ Loop \notin Handlers /\ Loop \notin Cancelers
    /\ Handlers \subseteq Tasks /\ Cancelers \subseteq Tasks
    /\ Handlers \cap Cancelers = {}
    /\ Tasks = {Loop} \cup Handlers \cup Cancelers
    /\ \A t \in Handlers \cup {Loop} : Canceler(t) \in Cancelers
    /\ \A t, u \in Handlers \cup {Loop} : Canceler(t) = Canceler(u) => t = u
<1>1. MaxRequests \in Nat
  BY MakerOnlyAssumption
<1>2. \A t \in Handlers : t[1] = "handler" /\ t[2] \in 1 .. MaxRequests /\ t = <<"handler", t[2]>>
  BY DEF Handlers
<1>3. Loop = <<"loop", 0>> /\ Loop[1] = "loop" /\ Loop[2] = 0
  BY DEF Loop
<1>4. \A t : Canceler(t)[1] = "cancel" /\ Canceler(t)[2] = t[2]
  BY DEF Canceler
<1> QED
  BY <1>1, <1>2, <1>3, <1>4 DEF Tasks, Cancelers

\* What every step may do to the orders there are: close some.
LEMMA CloseOrder ==
    ASSUME TypeOK, NEW k \in DOMAIN ord, NEW o \in OrderType,
           o.status = "open" => ord[k].status = "open"
    PROVE  /\ [ord EXCEPT ![k] = o] \in Seq(OrderType)
           /\ Len([ord EXCEPT ![k] = o]) = Len(ord)
           /\ DOMAIN [ord EXCEPT ![k] = o] = DOMAIN ord
           /\ [ord EXCEPT ![k] = o][k] = o
           /\ \A j \in DOMAIN ord : [ord EXCEPT ![k] = o][j].status = "open" => j \in Open
<1>1. ord \in Seq(OrderType) /\ DOMAIN ord = 1 .. Len(ord)
  BY LenProperties DEF TypeOK, OrderType
<1>2. /\ [ord EXCEPT ![k] = o] \in Seq(OrderType)
      /\ Len([ord EXCEPT ![k] = o]) = Len(ord)
      /\ \A j \in 1 .. Len(ord) : [ord EXCEPT ![k] = o][j] = IF j = k THEN o ELSE ord[j]
  BY <1>1, ExceptSeq
<1> QED
  BY <1>1, <1>2 DEF Open

TaskType == [at : Places, id : Nat, runtime : BOOLEAN]

\* A task that moves takes nothing else along.
LEMMA MoveTask ==
    ASSUME task \in [Tasks -> TaskType], NEW t \in Tasks, NEW place \in Places, Goes(t, place)
    PROVE  /\ task' \in [Tasks -> TaskType]
           /\ task'[t] = [task[t] EXCEPT !.at = place]
           /\ task'[t].at = place /\ task'[t].id = task[t].id
           /\ task'[t].runtime = task[t].runtime
           /\ \A u \in Tasks : u # t => task'[u] = task[u]
<1>1. task[t] \in TaskType
  OBVIOUS
<1>2. /\ [task[t] EXCEPT !.at = place] \in TaskType
      /\ [task[t] EXCEPT !.at = place].at = place
      /\ [task[t] EXCEPT !.at = place].id = task[t].id
      /\ [task[t] EXCEPT !.at = place].runtime = task[t].runtime
  BY <1>1 DEF TaskType
<1>3. task' = [task EXCEPT ![t] = [task[t] EXCEPT !.at = place]]
  BY DEF Goes
<1> HIDE DEF TaskType
<1> QED
  BY <1>2, <1>3

ModelType == [enabled : BOOLEAN, state : {"", "Filled", "Canceled", "Error"}]

Others ==
    /\ model \in ModelType
    /\ machine \in {"PlaceOrder", "Filled"}
    /\ makerOnlyOrder \in {"nil", "open", "canceled", "filled"}
    /\ orderDoc \in {"none", "open", "canceled"}
    /\ strategyDoc \in BOOLEAN
    /\ registry \in {"none", "settled", "running", "cold"}
    /\ going \subseteq {"SaveOrder", "AddStrategy", "Start", "GetOrder", "CreateStrategy",
                        "setRuntime", "markCanceled", "saveWhenRead", "DisableStrategy"}
    /\ errors \in 0 .. MaxErrors
    /\ alive \in BOOLEAN

\* TypeOK in parts: the orders, the id the loop keeps, the goroutines and the rest.
LEMMA Typed ==
    TypeOK => /\ ord \in Seq(OrderType) /\ entryOrderId \in 0 .. Len(ord)
              /\ task \in [Tasks -> TaskType] /\ Others
  BY DEF TypeOK, OrderType, TaskType, ModelType, Others

\* The same parts after a step.
LEMMA TypedNext ==
    ASSUME ord' \in Seq(OrderType), entryOrderId' \in 0 .. Len(ord'),
           task' \in [Tasks -> TaskType], Others'
    PROVE  TypeOK'
  BY DEF TypeOK, OrderType, TaskType, ModelType, Others

LEMMA TypedTasks == TypeOK => task \in [Tasks -> TaskType]
  BY DEF TypeOK, TaskType

LEMMA OpenSubset == TypeOK => Open \subseteq 1 .. Len(ord)
  BY LenProperties DEF TypeOK, Open

-----------------------------------------------------------------------------
(* Every step *)

\* Steps of nobody that LoopKnows and CancelerKnows speak of.
LEMMA OutsideStep ==
    ASSUME IInv, TypeOK',
           Len(ord') = Len(ord), Open' \subseteq Open,
           UNCHANGED <<task, entryOrderId>>, model'.enabled = model.enabled,
           going' \cap {"AddStrategy", "Start"} \subseteq going
    PROVE  IInv'
<1>1. Roles' /\ Ids' /\ StartsOnce' /\ Stopped'
  BY DEF IInv, Roles, Ids, StartsOnce, Stopped
<1>2. OneOpenOrder' /\ LoopKnows' /\ CancelerKnows'
  BY DEF IInv, OneOpenOrder, LoopKnows, CancelerKnows, Undisturbed
<1> QED
  BY <1>1, <1>2 DEF IInv

LEMMA StartSteps ==
    ASSUME IInv,
           \/ SaveOrder \/ SetRuntime \/ GetOrder \/ CreateStrategy \/ WatchStrategies \/ Panic
           \/ MarkCanceled \/ SaveWhenRead \/ DisableStrategy
    PROVE  IInv'
<1>1. TypeOK'
  <2>1. UNCHANGED <<ord, entryOrderId, task>>
    BY DEF SaveOrder, SetRuntime, GetOrder, CreateStrategy, WatchStrategies, Panic,
       MarkCanceled, SaveWhenRead, DisableStrategy, exchange, memory
  <2>2. Others'
    BY Typed DEF IInv, Others, SaveOrder, SetRuntime, GetOrder, CreateStrategy,
       WatchStrategies, Panic, MarkCanceled, SaveWhenRead, DisableStrategy, Does, exchange,
       memory, storage
  <2> QED
    BY <2>1, <2>2, Typed, TypedNext DEF IInv
<1>2. /\ UNCHANGED <<ord, task, entryOrderId, model>>
      /\ going' \subseteq going
  BY DEF SaveOrder, SetRuntime, GetOrder, CreateStrategy, WatchStrategies, Panic,
     MarkCanceled, SaveWhenRead, DisableStrategy, Does, exchange, memory, storage
<1>3. Open' = Open
  BY <1>2 DEF Open
<1> QED
  BY <1>1, <1>2, <1>3, OutsideStep

LEMMA OrderSteps ==
    ASSUME IInv, NEW k \in DOMAIN ord,
           Fill(k) \/ HearFill(k) \/ CopyStatus(k) \/ FireCheckExistingOrders(k)
    PROVE  IInv'
<1>1. TypeOK /\ ord \in Seq(OrderType) /\ ord[k] \in OrderType
  <2>1. TypeOK /\ ord \in Seq(OrderType)
    BY DEF IInv, TypeOK, OrderType
  <2>2. DOMAIN ord = 1 .. Len(ord)
    BY <2>1, LenProperties
  <2> QED
    BY <2>1, <2>2, ElementOfSeq
<1> DEFINE Closes(o) == /\ o \in OrderType /\ (o.status = "open" => ord[k].status = "open")
                        /\ ord' = [ord EXCEPT ![k] = o]
<1>2. ASSUME NEW o, Closes(o)
      PROVE  ord' \in Seq(OrderType) /\ Len(ord') = Len(ord) /\ Open' \subseteq Open
  <2>1. /\ [ord EXCEPT ![k] = o] \in Seq(OrderType)
        /\ Len([ord EXCEPT ![k] = o]) = Len(ord)
        /\ DOMAIN [ord EXCEPT ![k] = o] = DOMAIN ord
        /\ \A j \in DOMAIN ord : [ord EXCEPT ![k] = o][j].status = "open" => j \in Open
    BY <1>1, <1>2, CloseOrder
  <2> QED
    BY <1>2, <2>1 DEF Open
<1>3. ord' \in Seq(OrderType) /\ Len(ord') = Len(ord) /\ Open' \subseteq Open
  <2>1. CASE Fill(k)
    <3>1. Closes([ord[k] EXCEPT !.status = "filled"])
      BY <1>1, <2>1 DEF Fill, OrderType
    <3> QED
      BY <3>1, <1>2
  <2>2. CASE HearFill(k)
    <3>1. Closes([ord[k] EXCEPT !.told = "heard"])
      BY <1>1, <2>2 DEF HearFill, OrderType
    <3> QED
      BY <3>1, <1>2
  <2>3. CASE CopyStatus(k)
    <3>1. Closes([ord[k] EXCEPT !.copied = TRUE])
      BY <1>1, <2>3 DEF CopyStatus, OrderType
    <3> QED
      BY <3>1, <1>2
  <2>4. CASE FireCheckExistingOrders(k)
    <3>1. Closes([ord[k] EXCEPT !.told = "fired"])
      BY <1>1, <2>4 DEF FireCheckExistingOrders, OrderType
    <3> QED
      BY <3>1, <1>2
  <2> QED
    BY <2>1, <2>2, <2>3, <2>4
<1>4. TypeOK'
  <2>1. UNCHANGED <<errors, entryOrderId, strategyDoc, task, registry, alive>>
    BY DEF Fill, HearFill, CopyStatus, FireCheckExistingOrders, memory, storage
  <2>2. model' \in ModelType
    BY <1>1, Typed DEF Others, ModelType, Fill, HearFill, CopyStatus,
       FireCheckExistingOrders, memory
  <2>3. machine' \in {"PlaceOrder", "Filled"}
        /\ makerOnlyOrder' \in {"nil", "open", "canceled", "filled"}
        /\ orderDoc' \in {"none", "open", "canceled"}
        /\ going' \subseteq {"SaveOrder", "AddStrategy", "Start", "GetOrder",
                            "CreateStrategy", "setRuntime", "markCanceled",
                            "saveWhenRead", "DisableStrategy"}
    BY <1>1 DEF TypeOK, Fill, HearFill, CopyStatus, FireCheckExistingOrders, memory, storage
  <2>4. Others'
    BY <1>1, <2>1, <2>2, <2>3, Typed DEF Others
  <2>5. entryOrderId' \in 0 .. Len(ord') /\ task' \in [Tasks -> TaskType]
    BY <1>1, <1>3, <2>1, Typed
  <2> QED
    BY <1>3, <2>4, <2>5, TypedNext
<1>5. UNCHANGED <<task, entryOrderId, going>> /\ model'.enabled = model.enabled
  BY <1>1 DEF Fill, HearFill, CopyStatus, FireCheckExistingOrders, memory, TypeOK
<1> QED
  BY <1>3, <1>4, <1>5, OutsideStep

LEMMA BeginSteps ==
    ASSUME IInv, AddStrategy \/ RunMakerOnlyOrder
    PROVE  IInv'
<1> USE TaskKinds DEF IInv, exchange, memory, storage, Does
<1>1. CASE AddStrategy
  <2>1. TypeOK'
    BY <1>1 DEF AddStrategy, TypeOK
  <2>2. Roles' /\ Ids' /\ StartsOnce' /\ Stopped'
    BY <1>1 DEF AddStrategy, Roles, Ids, StartsOnce, Stopped
  <2>3. OneOpenOrder' /\ LoopKnows' /\ CancelerKnows'
    BY <1>1 DEF AddStrategy, OneOpenOrder, LoopKnows, CancelerKnows, Undisturbed, Open
  <2> QED
    BY <2>1, <2>2, <2>3
<1>2. CASE RunMakerOnlyOrder
  <2>0. Goes(Loop, "check") /\ task \in [Tasks -> TaskType] /\ "check" \in Places
    BY <1>2, TypedTasks DEF RunMakerOnlyOrder, Places
  <2>3. /\ task' \in [Tasks -> TaskType]
        /\ task'[Loop].at = "check" /\ task'[Loop].id = task[Loop].id
        /\ \A u \in Tasks : u # Loop => task'[u] = task[u]
    BY <2>0, MoveTask
  <2>1. TypeOK'
    <3>1. Others'
      BY <1>2, Typed DEF RunMakerOnlyOrder, Others
    <3>2. ord' = ord /\ entryOrderId' = entryOrderId
      BY <1>2 DEF RunMakerOnlyOrder
    <3> QED
      BY <2>3, <3>1, <3>2, Typed, TypedNext
  <2>2. task[Loop].at = "idle"
    BY <1>2 DEF RunMakerOnlyOrder, StartsOnce
  <2>4. Roles' /\ Ids' /\ Stopped'
    BY <1>2, <2>2, <2>3 DEF RunMakerOnlyOrder, Roles, Ids, Stopped, Stopping
  <2>5. StartsOnce'
    BY <1>2 DEF RunMakerOnlyOrder, StartsOnce
  <2>6. Open' = {} /\ Open = {}
    BY <1>2, <2>2 DEF RunMakerOnlyOrder, LoopKnows, Open
  <2>7. OneOpenOrder' /\ LoopKnows' /\ CancelerKnows'
    BY <2>3, <2>6 DEF OneOpenOrder, LoopKnows, CancelerKnows, Stopping
  <2> QED
    BY <2>1, <2>4, <2>5, <2>7
<1> QED
  BY <1>1, <1>2

-----------------------------------------------------------------------------
(* The loop *)

\* While the strategy is enabled and the loop is not in Stop, nobody cancels beside it.
LEMMA NobodyCancels ==
    ASSUME IInv, model.enabled, task[Loop].at \notin Stopping, NEW c \in Cancelers
    PROVE  task[c].at = "idle"
  BY DEF IInv, Stopped, Cancelers

LEMMA LoopSteps ==
    ASSUME IInv,
           BeginTurn \/ LeaveLoop \/ GiveUp \/ SendOrder \/ TryAgain \/ RejectOrder
    PROVE  IInv'
<1>1. /\ TypeOK /\ Roles /\ Ids /\ StartsOnce /\ Stopped
      /\ OneOpenOrder /\ LoopKnows /\ CancelerKnows
  BY DEF IInv
<1> DEFINE Moves(p) ==
         /\ p \in {"cancelEntry", "stop", "check", "sent", "price"}
         /\ Goes(Loop, p)
         /\ p = "cancelEntry" <=> task[Loop].at = "check" /\ Running
         /\ p = "stop" => task[Loop].at = "check"
         /\ p \notin {"cancelEntry", "stop"} => task[Loop].at \in {"price", "sent"}
<1>2. \E p : Moves(p)
  <2>1. BeginTurn => Moves("cancelEntry")
    BY DEF BeginTurn, At
  <2>2. LeaveLoop => Moves("stop")
    BY DEF LeaveLoop, At
  <2>3. GiveUp \/ RejectOrder => Moves("check")
    BY DEF GiveUp, RejectOrder, At
  <2>4. SendOrder => Moves("sent")
    BY DEF SendOrder, At
  <2>5. TryAgain => Moves("price")
    BY DEF TryAgain, At
  <2> HIDE DEF Moves
  <2> QED
    BY <2>1, <2>2, <2>3, <2>4, <2>5
<1>3. PICK place : Moves(place)
  BY <1>2
<1>4. /\ task' \in [Tasks -> TaskType]
      /\ task'[Loop].at = place /\ task'[Loop].id = task[Loop].id
      /\ \A u \in Tasks : u # Loop => task'[u] = task[u]
  <2>1. task \in [Tasks -> TaskType] /\ place \in Places /\ Loop \in Tasks
    BY <1>1, <1>3, TypedTasks, TaskKinds DEF Places
  <2> QED
    BY <1>3, <2>1, MoveTask
<1>5. /\ model \in ModelType
       /\ errors \in 0 .. MaxErrors /\ MaxErrors \in Nat
       /\ entryOrderId \in 0 .. Len(ord) /\ Len(ord) \in Nat
  BY <1>1, MakerOnlyAssumption, LenProperties DEF TypeOK, ModelType
<1>6. /\ UNCHANGED <<ord, going>> /\ (model'.enabled => model.enabled)
      /\ UNCHANGED entryOrderId \/ (entryOrderId' = 0 /\ task[Loop].at = "sent")
      /\ model' \in ModelType
  <2>1. CASE RejectOrder
    <3>1. PICK state \in {model.state, "Error"} : model' = [enabled |-> FALSE, state |-> state]
      BY <2>1 DEF RejectOrder
    <3>2. model.state \in {"", "Filled", "Canceled", "Error"}
      BY <1>5 DEF ModelType
    <3>3. model' \in ModelType
      BY <3>1, <3>2 DEF ModelType
    <3>4. model'.enabled = FALSE
      BY <3>1
    <3>5. UNCHANGED <<ord, going>> /\ entryOrderId' = 0 /\ task[Loop].at = "sent"
      BY <2>1 DEF RejectOrder, At
    <3> QED
      BY <3>3, <3>4, <3>5
  <2>2. CASE BeginTurn \/ LeaveLoop \/ GiveUp \/ SendOrder \/ TryAgain
    <3>1. UNCHANGED <<ord, going, model, entryOrderId>>
      BY <2>2 DEF BeginTurn, LeaveLoop, GiveUp, SendOrder, TryAgain, exchange, memory
    <3> QED
      BY <1>5, <3>1
  <2> QED
    BY <2>1, <2>2
<1>7. errors' \in 0 .. MaxErrors
  <2>1. errors' = errors \/ (errors < MaxErrors /\ errors' = errors + 1)
    BY DEF BeginTurn, LeaveLoop, GiveUp, SendOrder, TryAgain, RejectOrder, exchange
  <2>2. errors \in 0 .. MaxErrors /\ MaxErrors \in Nat
    BY <1>5
  <2> QED
    BY <2>1, <2>2
<1>8. TypeOK'
  <2>1. UNCHANGED <<machine, makerOnlyOrder, orderDoc, strategyDoc, registry, alive>>
    BY DEF BeginTurn, LeaveLoop, GiveUp, SendOrder, TryAgain, RejectOrder, memory, storage
  <2>2. Others'
    BY <1>1, <1>6, <1>7, <2>1, Typed DEF Others
  <2>3. ord' \in Seq(OrderType) /\ Len(ord') = Len(ord) /\ going' = going
    BY <1>1, <1>6 DEF TypeOK, OrderType
  <2>4. entryOrderId' \in 0 .. Len(ord')
    <3>1. entryOrderId' = entryOrderId \/ entryOrderId' = 0
      BY <1>6
    <3>2. entryOrderId \in 0 .. Len(ord) /\ Len(ord) \in Nat /\ Len(ord') = Len(ord)
      BY <1>5, <2>3
    <3> QED
      BY <3>1, <3>2
  <2> QED
    BY <1>4, <2>2, <2>3, <2>4, TypedNext
<1>9. Roles' /\ Ids' /\ StartsOnce'
  BY <1>1, <1>3, <1>4, <1>6, TaskKinds DEF Roles, Ids, StartsOnce
<1>10. Stopped'
  BY <1>1, <1>3, <1>4, <1>6, TaskKinds DEF Stopped, Stopping
<1>11. Open' = Open
  BY <1>6 DEF Open
<1>12. OneOpenOrder' /\ LoopKnows'
  <2>1. place \notin {"cancelEntry", "stop"} => Open = {}
    BY <1>1, <1>3 DEF LoopKnows
  <2>2. CASE place \in {"cancelEntry", "stop"}
    <3>1. task[Loop].at = "check" /\ entryOrderId' = entryOrderId
      BY <1>3, <1>6, <2>2
    <3>2. Undisturbed' = Undisturbed
      BY <1>4, TaskKinds DEF Undisturbed
    <3> QED
      BY <1>1, <1>3, <1>4, <1>11, <2>2, <3>1, <3>2 DEF LoopKnows, OneOpenOrder, Running
  <2> QED
    BY <1>1, <1>3, <1>4, <1>11, <2>1, <2>2 DEF LoopKnows, OneOpenOrder
<1>13. CancelerKnows'
  <2>1. CASE place = "cancelEntry"
    <3>1. \A c \in Cancelers : task[c].at = "idle"
      BY <1>3, <2>1, NobodyCancels DEF Running, Stopping
    <3> QED
      BY <1>4, <3>1, TaskKinds DEF CancelerKnows
  <2> QED
    BY <1>3, <1>4, <2>1 DEF CancelerKnows, Stopping
<1> QED
  BY <1>8, <1>9, <1>10, <1>12, <1>13 DEF IInv

\* The order is open while its answer is on the way, and nothing else is.
LEMMA AcceptStep ==
    ASSUME IInv, AcceptOrder
    PROVE  IInv'
<1>1. /\ TypeOK /\ Roles /\ Ids /\ StartsOnce /\ Stopped /\ LoopKnows
      /\ ord \in Seq(OrderType) /\ Len(ord) \in Nat /\ DOMAIN ord = 1 .. Len(ord)
  BY LenProperties DEF IInv, TypeOK, OrderType
<1> DEFINE o == [status |-> "open", tracked |-> FALSE, told |-> "no", copied |-> FALSE]
<1>2. ord' = Append(ord, o) /\ task[Loop].at = "sent"
  BY DEF AcceptOrder, At
<1>3. o \in OrderType
  BY DEF OrderType
<1>4. /\ ord' \in Seq(OrderType) /\ Len(ord') = Len(ord) + 1
      /\ DOMAIN ord' = 1 .. Len(ord) + 1
      /\ \A k \in DOMAIN ord : ord'[k] = ord[k]
  <2> HIDE DEF o
  <2> QED
    BY <1>1, <1>2, <1>3, AppendProperties, LenProperties
<1>5. Open = {}
  BY <1>1, <1>2 DEF LoopKnows
<1>6. Open' \subseteq {Len(ord) + 1}
  BY <1>1, <1>4, <1>5 DEF Open
<1>7. /\ task' \in [Tasks -> TaskType]
      /\ task'[Loop].at = "answer" /\ task'[Loop].id = Len(ord) + 1
      /\ task'[Loop].runtime = task[Loop].runtime
      /\ \A u \in Tasks : u # Loop => task'[u] = task[u]
  <2>1. task \in [Tasks -> TaskType] /\ Loop \in Tasks /\ task[Loop] \in TaskType
    BY <1>1, TypedTasks, TaskKinds
  <2> DEFINE new == [task[Loop] EXCEPT !.at = "answer", !.id = Len(ord) + 1]
  <2>2. new \in TaskType /\ new.at = "answer" /\ new.id = Len(ord) + 1
        /\ new.runtime = task[Loop].runtime
    <3>1. ASSUME NEW r \in TaskType, NEW n \in Nat
          PROVE  LET moved == [r EXCEPT !.at = "answer", !.id = n]
                 IN  /\ moved \in TaskType /\ moved.at = "answer" /\ moved.id = n
                     /\ moved.runtime = r.runtime
      BY DEF TaskType, Places
    <3>2. Len(ord) + 1 \in Nat
      BY <1>1
    <3> QED
      BY <2>1, <3>1, <3>2
  <2>3. task' = [task EXCEPT ![Loop] = new]
    BY DEF AcceptOrder
  <2> HIDE DEF new
  <2> QED
    BY <2>1, <2>2, <2>3
<1>8. UNCHANGED <<errors, entryOrderId, model, machine, makerOnlyOrder, orderDoc, strategyDoc,
                  registry, going, alive>>
  BY DEF AcceptOrder, memory, storage
<1>9. entryOrderId' \in 0 .. Len(ord')
  <2>1. entryOrderId \in 0 .. Len(ord)
    BY <1>1 DEF TypeOK
  <2> QED
    BY <1>1, <1>4, <1>8, <2>1
<1>10. TypeOK'
  <2>1. Others'
    BY <1>1, <1>8, Typed DEF Others
  <2> QED
    BY <1>4, <1>7, <1>9, <2>1, TypedNext
<1>11. Roles' /\ StartsOnce' /\ Stopped'
  BY <1>1, <1>2, <1>7, <1>8, TaskKinds DEF Roles, StartsOnce, Stopped, Stopping
<1>12. Ids'
  <2>1. \A t \in Tasks : t # Loop => task'[t].id \in 0 .. Len(ord')
    BY <1>1, <1>4, <1>7 DEF Ids
  <2>2. task'[Loop].id \in 0 .. Len(ord') /\ task'[Loop].id # 0
    BY <1>1, <1>4, <1>7
  <2>3. \A t \in Tasks : task'[t].at = "cancelSent" => task'[t].id # 0
    BY <1>1, <1>7, <2>2 DEF Ids
  <2> QED
    BY <2>1, <2>2, <2>3 DEF Ids
<1>13. OneOpenOrder' /\ LoopKnows' /\ CancelerKnows'
  BY <1>6, <1>7 DEF OneOpenOrder, LoopKnows, CancelerKnows, Stopping
<1> QED
  BY <1>10, <1>11, <1>12, <1>13 DEF IInv

LEMMA AnswerStep ==
    ASSUME IInv, Answer
    PROVE  IInv'
<1>1. /\ TypeOK /\ Roles /\ Ids /\ StartsOnce /\ Stopped /\ LoopKnows /\ OneOpenOrder
      /\ ord \in Seq(OrderType) /\ Len(ord) \in Nat /\ DOMAIN ord = 1 .. Len(ord)
  BY LenProperties DEF IInv, TypeOK, OrderType
<1> DEFINE k == task[Loop].id
<1>2. task[Loop].at = "answer" /\ k \in DOMAIN ord /\ Open \subseteq {k}
  <2>1. task[Loop].at = "answer"
    BY DEF Answer, At
  <2> QED
    BY <1>1, <2>1, TaskKinds DEF Ids, LoopKnows
<1> DEFINE o == [ord[k] EXCEPT !.tracked = TRUE]
<1>3. o \in OrderType /\ o.status = ord[k].status
  <2>1. ord[k] \in OrderType
    BY <1>1, <1>2, ElementOfSeq
  <2> QED
    BY <2>1 DEF OrderType
<1>4. ord' = [ord EXCEPT ![k] = o]
  BY DEF Answer
<1>5. ord' \in Seq(OrderType) /\ Len(ord') = Len(ord) /\ Open' \subseteq Open
  <2> HIDE DEF k, o
  <2>1. /\ [ord EXCEPT ![k] = o] \in Seq(OrderType)
        /\ Len([ord EXCEPT ![k] = o]) = Len(ord)
        /\ DOMAIN [ord EXCEPT ![k] = o] = DOMAIN ord
        /\ \A j \in DOMAIN ord : [ord EXCEPT ![k] = o][j].status = "open" => j \in Open
    BY <1>1, <1>2, <1>3, CloseOrder
  <2> QED
    BY <1>4, <2>1 DEF Open
<1>6. /\ task' \in [Tasks -> TaskType]
      /\ task'[Loop].at = "check" /\ task'[Loop].id = task[Loop].id
      /\ \A u \in Tasks : u # Loop => task'[u] = task[u]
  <2>1. task \in [Tasks -> TaskType] /\ Loop \in Tasks /\ "check" \in Places
    BY <1>1, TypedTasks, TaskKinds DEF Places
  <2>2. Goes(Loop, "check")
    BY DEF Answer
  <2> QED
    BY <2>1, <2>2, MoveTask
<1>7. /\ UNCHANGED <<errors, model, machine, makerOnlyOrder, orderDoc, strategyDoc,
                     registry, going, alive>>
      /\ entryOrderId' = k
  BY DEF Answer, exchange, storage
<1>8. TypeOK'
  <2>1. Others'
    BY <1>1, <1>7, Typed DEF Others
  <2>2. entryOrderId' \in 0 .. Len(ord')
    BY <1>1, <1>2, <1>5, <1>7
  <2> QED
    BY <1>5, <1>6, <2>1, <2>2, TypedNext
<1>9. Roles' /\ StartsOnce' /\ Stopped' /\ Ids'
  BY <1>1, <1>2, <1>5, <1>6, <1>7, TaskKinds DEF Roles, StartsOnce, Stopped, Stopping, Ids
<1>10. OneOpenOrder' /\ LoopKnows' /\ CancelerKnows'
  BY <1>1, <1>2, <1>5, <1>6, <1>7 DEF OneOpenOrder, LoopKnows, CancelerKnows, Stopping
<1> QED
  BY <1>8, <1>9, <1>10 DEF IInv

-----------------------------------------------------------------------------
(* CancelEntryOrder *)

LEMMA WhoCancels ==
    ASSUME IInv, NEW t \in Tasks, task[t].at \in {"cancelEntry", "cancelSent", "canceled"}
    PROVE  t = Loop \/ t \in Cancelers
  BY TaskKinds DEF IInv, Roles, Stopping

\* A goroutine of Stop that cancels belongs to a request that is there, or to the loop
\* in Stop.
LEMMA WhoseCancel ==
    ASSUME IInv, NEW c \in Cancelers, task[c].at # "idle"
    PROVE  /\ c # Canceler(Loop) => ~model.enabled /\ ~Undisturbed
           /\ c = Canceler(Loop) => task[Loop].at \in Stopping
  BY DEF IInv, Stopped, Cancelers, Undisturbed

LEMMA ReadStep ==
    ASSUME IInv, NEW t \in Tasks, ReadEntryOrderId(t)
    PROVE  IInv'
<1>1. /\ TypeOK /\ Roles /\ Ids /\ StartsOnce /\ Stopped
      /\ OneOpenOrder /\ LoopKnows /\ CancelerKnows
      /\ task[t].at = "cancelEntry"
  BY DEF IInv, ReadEntryOrderId, At
<1>2. t = Loop \/ t \in Cancelers
  BY <1>1, WhoCancels
<1>3. entryOrderId \in 0 .. Len(ord) /\ Len(ord) \in Nat /\ Open \subseteq 1 .. Len(ord)
  BY <1>1, LenProperties, OpenSubset DEF TypeOK
<1> DEFINE place == IF entryOrderId = 0 THEN AfterCancel(t) ELSE "cancelSent"
           new == [task[t] EXCEPT !.at = place, !.id = entryOrderId]
<1>4. /\ task' \in [Tasks -> TaskType]
      /\ task'[t].at = place /\ task'[t].id = entryOrderId
      /\ task'[t].runtime = task[t].runtime
      /\ \A u \in Tasks : u # t => task'[u] = task[u]
  <2>1. task \in [Tasks -> TaskType] /\ task[t] \in TaskType
    BY <1>1, TypedTasks
  <2>2. place \in Places /\ entryOrderId \in Nat
    BY <1>3 DEF Places, AfterCancel
  <2>3. /\ new \in TaskType /\ new.at = place /\ new.id = entryOrderId
        /\ new.runtime = task[t].runtime
    <3> HIDE DEF place
    <3>1. ASSUME NEW r \in TaskType, NEW n \in Nat
          PROVE  LET moved == [r EXCEPT !.at = place, !.id = n]
                 IN  /\ moved \in TaskType /\ moved.at = place /\ moved.id = n
                     /\ moved.runtime = r.runtime
      BY <2>2 DEF TaskType
    <3> QED
      BY <2>1, <2>2, <3>1
  <2>4. task' = [task EXCEPT ![t] = new]
    BY DEF ReadEntryOrderId
  <2> HIDE DEF new, place
  <2> QED
    BY <2>1, <2>3, <2>4
<1>5. UNCHANGED <<ord, errors, entryOrderId, model, machine, makerOnlyOrder, orderDoc,
                  strategyDoc, registry, going, alive>>
  BY DEF ReadEntryOrderId, exchange, memory, storage
<1>6. TypeOK'
  <2>1. Others'
    BY <1>1, <1>5, Typed DEF Others
  <2> QED
    BY <1>1, <1>4, <1>5, <2>1, Typed, TypedNext
<1>7. Roles' /\ StartsOnce' /\ Stopped'
  BY <1>1, <1>2, <1>4, <1>5, TaskKinds DEF Roles, StartsOnce, Stopped, Stopping, AfterCancel
<1>8. Ids'
  <2>1. \A u \in Tasks : task'[u].id \in 0 .. Len(ord')
    BY <1>1, <1>3, <1>4, <1>5 DEF Ids
  <2>2. place = "cancelSent" => entryOrderId # 0
    BY DEF AfterCancel
  <2>3. place # "answer"
    BY DEF AfterCancel
  <2> HIDE DEF place
  <2> QED
    BY <1>1, <1>4, <2>1, <2>2, <2>3, TaskKinds DEF Ids
<1>9. Open' = Open /\ OneOpenOrder'
  BY <1>1, <1>5 DEF Open, OneOpenOrder
<1>10. Undisturbed' = Undisturbed
  BY <1>2, <1>4, TaskKinds DEF Undisturbed
<1>11. LoopKnows' /\ CancelerKnows'
  <2>1. CASE t = Loop
    <3>1. Open \subseteq {entryOrderId} /\ (entryOrderId = 0 => Open = {})
      BY <1>1, <1>3, <2>1 DEF LoopKnows
    <3>2. LoopKnows'
      BY <1>4, <1>9, <2>1, <3>1 DEF LoopKnows, AfterCancel
    <3>3. CancelerKnows'
      BY <1>4, <2>1 DEF CancelerKnows, Stopping, AfterCancel
    <3> QED
      BY <3>2, <3>3
  <2>2. CASE t \in Cancelers
    <3>1. task'[Loop] = task[Loop]
      BY <1>4, <2>2, TaskKinds
    <3>2. LoopKnows'
      BY <1>1, <1>5, <1>9, <1>10, <3>1 DEF LoopKnows
    <3>3. entryOrderId = 0 /\ Open \subseteq {entryOrderId} => Open = {}
      BY <1>3
    <3>4. task'[t].at = IF entryOrderId = 0 THEN "over" ELSE "cancelSent"
      BY <1>4, <2>2, TaskKinds DEF AfterCancel
    <3>5. CancelerKnows'
      <4> HIDE DEF place
      <4> QED
        BY <1>1, <1>4, <1>5, <1>9, <1>10, <2>2, <3>1, <3>3, <3>4, TaskKinds DEF CancelerKnows
    <3> QED
      BY <3>2, <3>5
  <2> QED
    BY <1>2, <2>1, <2>2
<1> QED
  BY <1>6, <1>7, <1>8, <1>9, <1>11 DEF IInv

LEMMA ClearStep ==
    ASSUME IInv, NEW t \in Tasks, ClearEntryOrderId(t)
    PROVE  IInv'
<1>1. /\ TypeOK /\ Roles /\ Ids /\ StartsOnce /\ Stopped
      /\ OneOpenOrder /\ LoopKnows /\ CancelerKnows
      /\ task[t].at = "canceled"
  BY DEF IInv, ClearEntryOrderId, At
<1>2. t = Loop \/ t \in Cancelers
  BY <1>1, WhoCancels
<1>3. /\ task' \in [Tasks -> TaskType]
      /\ task'[t].at = AfterCancel(t) /\ task'[t].id = task[t].id
      /\ task'[t].runtime = task[t].runtime
      /\ \A u \in Tasks : u # t => task'[u] = task[u]
  <2>1. task \in [Tasks -> TaskType] /\ AfterCancel(t) \in Places
    BY <1>1, TypedTasks DEF AfterCancel, Places
  <2>2. Goes(t, AfterCancel(t))
    BY DEF ClearEntryOrderId
  <2> QED
    BY <2>1, <2>2, MoveTask
<1>4. /\ UNCHANGED <<ord, errors, model, machine, makerOnlyOrder, orderDoc,
                     strategyDoc, registry, going, alive>>
      /\ entryOrderId' = 0
  BY DEF ClearEntryOrderId, exchange, storage
<1>5. TypeOK'
  <2>1. Others'
    BY <1>1, <1>4, Typed DEF Others
  <2>2. entryOrderId' \in 0 .. Len(ord')
    <3>1. entryOrderId' = 0 /\ ord' = ord
      BY <1>4
    <3>2. Len(ord) \in Nat
      BY <1>1, LenProperties DEF TypeOK
    <3> QED
      BY <3>1, <3>2
  <2> QED
    BY <1>1, <1>3, <1>4, <2>1, <2>2, Typed, TypedNext
<1>6. Roles' /\ StartsOnce' /\ Stopped' /\ Ids'
  BY <1>1, <1>2, <1>3, <1>4, TaskKinds DEF Roles, StartsOnce, Stopped, Stopping, AfterCancel, Ids
<1>7. Open' = Open /\ OneOpenOrder'
  BY <1>1, <1>4 DEF Open, OneOpenOrder
<1>8. Undisturbed' = Undisturbed
  BY <1>2, <1>3, TaskKinds DEF Undisturbed
<1>9. LoopKnows' /\ CancelerKnows'
  <2>1. CASE t = Loop
    <3>1. Open = {}
      BY <1>1, <2>1 DEF LoopKnows
    <3> QED
      BY <1>3, <1>7, <2>1, <3>1 DEF LoopKnows, CancelerKnows, AfterCancel
  <2>2. CASE t \in Cancelers
    <3>1. task'[Loop] = task[Loop]
      BY <1>3, <2>2, TaskKinds
    <3>2. task[Loop].at = "cancelEntry" => Open = {}
      BY <1>1, <2>2 DEF CancelerKnows
    <3>3. /\ t # Canceler(Loop) => ~model.enabled /\ ~Undisturbed
          /\ t = Canceler(Loop) => task[Loop].at \in Stopping
      BY <1>1, <2>2, WhoseCancel
    <3>4. LoopKnows'
      BY <1>1, <1>4, <1>7, <1>8, <3>1, <3>2, <3>3 DEF LoopKnows, Stopping
    <3>5. task[Loop].at \in Stopping /\ Undisturbed => t = Canceler(Loop) /\ Open = {}
      BY <1>1, <2>2, <3>3 DEF CancelerKnows
    <3>6. CancelerKnows'
      BY <1>7, <1>8, <3>1, <3>2, <3>5 DEF CancelerKnows
    <3> QED
      BY <3>4, <3>6
  <2> QED
    BY <1>2, <2>1, <2>2
<1> QED
  BY <1>5, <1>6, <1>7, <1>9 DEF IInv

LEMMA ExchangeStep ==
    ASSUME IInv, NEW t \in Tasks, ExchangeCancels(t)
    PROVE  IInv'
<1>1. /\ TypeOK /\ Roles /\ Ids /\ StartsOnce /\ Stopped
      /\ OneOpenOrder /\ LoopKnows /\ CancelerKnows
      /\ task[t].at = "cancelSent"
      /\ ord \in Seq(OrderType) /\ Len(ord) \in Nat /\ DOMAIN ord = 1 .. Len(ord)
  BY LenProperties DEF IInv, ExchangeCancels, At, TypeOK, OrderType
<1>2. t = Loop \/ t \in Cancelers
  BY <1>1, WhoCancels
<1> DEFINE k == task[t].id
<1>3. k \in DOMAIN ord
  BY <1>1 DEF Ids
<1> DEFINE o == [ord[k] EXCEPT !.status = IF @ = "open" THEN "canceled" ELSE @]
<1>4. o \in OrderType /\ o.status # "open"
  <2>1. ord[k] \in OrderType
    BY <1>1, <1>3, ElementOfSeq
  <2> QED
    BY <2>1 DEF OrderType
<1>5. ord' = [ord EXCEPT ![k] = o]
  BY DEF ExchangeCancels
<1>6. ord' \in Seq(OrderType) /\ Len(ord') = Len(ord) /\ Open' \subseteq Open \ {k}
  <2> HIDE DEF k, o
  <2>1. /\ [ord EXCEPT ![k] = o] \in Seq(OrderType)
        /\ Len([ord EXCEPT ![k] = o]) = Len(ord)
        /\ DOMAIN [ord EXCEPT ![k] = o] = DOMAIN ord
        /\ [ord EXCEPT ![k] = o][k] = o
        /\ \A j \in DOMAIN ord : [ord EXCEPT ![k] = o][j].status = "open" => j \in Open
    BY <1>1, <1>3, <1>4, CloseOrder
  <2> QED
    BY <1>4, <1>5, <2>1 DEF Open
<1>7. /\ task' \in [Tasks -> TaskType]
      /\ task'[t].at = "canceled" /\ task'[t].id = task[t].id
      /\ task'[t].runtime = task[t].runtime
      /\ \A u \in Tasks : u # t => task'[u] = task[u]
  <2>1. task \in [Tasks -> TaskType] /\ "canceled" \in Places
    BY <1>1, TypedTasks DEF Places
  <2>2. Goes(t, "canceled")
    BY DEF ExchangeCancels
  <2> QED
    BY <2>1, <2>2, MoveTask
<1>8. UNCHANGED <<errors, entryOrderId, model, machine, makerOnlyOrder, orderDoc,
                  strategyDoc, registry, going, alive>>
  BY DEF ExchangeCancels, memory, storage
<1>9. TypeOK'
  <2>1. Others'
    BY <1>1, <1>8, Typed DEF Others
  <2>2. ord' \in Seq(OrderType) /\ entryOrderId' \in 0 .. Len(ord')
    BY <1>1, <1>6, <1>8, Typed
  <2> QED
    BY <1>7, <2>1, <2>2, TypedNext
<1>10. Roles' /\ StartsOnce' /\ Stopped' /\ Ids'
  BY <1>1, <1>2, <1>6, <1>7, <1>8, TaskKinds DEF Roles, StartsOnce, Stopped, Stopping, Ids
<1>11. Undisturbed' = Undisturbed
  BY <1>2, <1>7, TaskKinds DEF Undisturbed
<1>12. OneOpenOrder'
  BY <1>1, <1>6 DEF OneOpenOrder
<1>13. LoopKnows' /\ CancelerKnows'
  <2>1. CASE t = Loop
    <3>1. Open' = {}
      BY <1>1, <1>6, <2>1 DEF LoopKnows
    <3> QED
      BY <1>7, <2>1, <3>1 DEF LoopKnows, CancelerKnows, Stopping
  <2>2. CASE t \in Cancelers
    <3>1. task'[Loop] = task[Loop]
      BY <1>7, <2>2, TaskKinds
    <3>2. LoopKnows'
      BY <1>1, <1>6, <1>8, <1>11, <3>1 DEF LoopKnows
    <3>3. \/ task[Loop].at = "cancelEntry"
          \/ task[Loop].at \in Stopping /\ Undisturbed /\ t = Canceler(Loop)
          => Open' = {}
      BY <1>1, <1>6, <2>2 DEF CancelerKnows
    <3>4. CancelerKnows'
      BY <1>1, <1>6, <1>7, <1>8, <1>11, <3>1, <3>3, TaskKinds DEF CancelerKnows
    <3> QED
      BY <3>2, <3>4
  <2> QED
    BY <1>2, <2>1, <2>2
<1> QED
  BY <1>9, <1>10, <1>12, <1>13 DEF IInv

-----------------------------------------------------------------------------
(* Stop and CancelOrder *)

LEMMA WhoStops ==
    ASSUME IInv, NEW t \in Tasks, task[t].at \in {"stop", "stopNotFilled", "stopDisables"}
    PROVE  t \in Handlers \cup {Loop}
  BY TaskKinds DEF IInv, Roles

LEMMA StopStep ==
    ASSUME IInv, NEW t \in Tasks, Stop(t)
    PROVE  IInv'
<1>1. /\ TypeOK /\ Roles /\ Ids /\ StartsOnce /\ Stopped
      /\ OneOpenOrder /\ LoopKnows /\ CancelerKnows
      /\ task[t].at = "stop"
  BY DEF IInv, Stop, At
<1>2. t \in Handlers \cup {Loop}
  BY <1>1, WhoStops
<1> DEFINE c == Canceler(t)
<1>3. c \in Cancelers /\ c \in Tasks /\ c # t /\ c # Loop /\ c \notin Handlers
  BY <1>2, TaskKinds
<1>4. StopBranch \in {"stopNotFilled", "stopDisables"}
  BY DEF StopBranch
<1>5. /\ task' \in [Tasks -> TaskType]
      /\ task'[t].at = StopBranch /\ task'[t].id = task[t].id
      /\ task'[t].runtime = task[t].runtime
      /\ task'[c].at = "cancelEntry" /\ task'[c].id = task[c].id
      /\ \A u \in Tasks : u # t /\ u # c => task'[u] = task[u]
  <2>1. task \in [Tasks -> TaskType] /\ task[t] \in TaskType /\ task[c] \in TaskType
    BY <1>1, <1>3, TypedTasks
  <2> DEFINE new == [task[t] EXCEPT !.at = StopBranch]
             cancels == [task[c] EXCEPT !.at = "cancelEntry"]
  <2>2. /\ new \in TaskType /\ new.at = StopBranch /\ new.id = task[t].id
        /\ new.runtime = task[t].runtime
    BY <1>4, <2>1 DEF TaskType, Places
  <2>3. cancels \in TaskType /\ cancels.at = "cancelEntry" /\ cancels.id = task[c].id
    BY <2>1 DEF TaskType, Places
  <2>4. task' = [task EXCEPT ![t] = new, ![c] = cancels]
    BY <1>3 DEF Stop
  <2> HIDE DEF new, cancels, c
  <2> QED
    BY <1>3, <2>1, <2>2, <2>3, <2>4
<1> HIDE DEF c
<1>6. UNCHANGED <<ord, errors, entryOrderId, model, machine, makerOnlyOrder, orderDoc,
                  strategyDoc, registry, going, alive>>
  BY DEF Stop, exchange, memory, storage
<1>7. TypeOK'
  <2>1. Others'
    BY <1>1, <1>6, Typed DEF Others
  <2> QED
    BY <1>1, <1>5, <1>6, <2>1, Typed, TypedNext
<1>8. Open' = Open /\ OneOpenOrder'
  BY <1>1, <1>6 DEF Open, OneOpenOrder
<1>9. Roles' /\ StartsOnce'
  BY <1>1, <1>2, <1>3, <1>4, <1>5, <1>6, TaskKinds DEF Roles, StartsOnce, Stopping
<1>10. Ids'
  <2>1. Loop \in Tasks /\ c # Loop
    BY <1>3, TaskKinds
  <2>2. \A u \in Tasks : task'[u].id = task[u].id
    BY <1>3, <1>5
  <2>3. \A u \in Tasks : task'[u].at \in {"cancelSent", "answer"} => task'[u] = task[u]
    BY <1>3, <1>4, <1>5
  <2> QED
    BY <1>1, <1>6, <2>1, <2>2, <2>3 DEF Ids
<1>11. Stopped'
  <2>1. t # Loop => ~model.enabled
    BY <1>1, <1>2 DEF Stopped
  <2>2. \A u \in Handlers : u # t => Canceler(u) # c /\ Canceler(u) # t
                                 /\ Canceler(u) \in Tasks /\ u # c
    BY <1>2, <1>3, TaskKinds DEF c
  <2>3. \A u \in Handlers : u # t => task'[u] = task[u] /\ task'[Canceler(u)] = task[Canceler(u)]
    BY <1>5, <2>2, TaskKinds
  <2>4. \A u \in Handlers :
           \/ task'[u].runtime
           \/ task'[u].at \in {"stop", "stopNotFilled", "stopDisables"}
           \/ task'[Canceler(u)].at # "idle"
           => ~model'.enabled /\ task'[u].at # "idle"
    <3> TAKE u \in Handlers
    <3>1. CASE u = t
      BY <1>4, <1>5, <1>6, <2>1, <3>1, TaskKinds
    <3>2. CASE u # t
      BY <1>1, <1>6, <2>3, <3>2 DEF Stopped
    <3> QED
      BY <3>1, <3>2
  <2>5. task'[Canceler(Loop)].at # "idle" <=> task'[Loop].at \in Stopping
    <3>1. CASE t = Loop
      BY <1>4, <1>5, <3>1 DEF Stopping, c
    <3>2. CASE t # Loop
      <4>1. Canceler(Loop) # c /\ Canceler(Loop) # t /\ Canceler(Loop) \in Tasks
        BY <1>2, <1>3, <3>2, TaskKinds DEF c
      <4> QED
        BY <1>1, <1>3, <1>5, <3>2, <4>1, TaskKinds DEF Stopped
    <3> QED
      BY <3>1, <3>2
  <2> QED
    BY <2>4, <2>5 DEF Stopped
<1>12. LoopKnows' /\ CancelerKnows'
  <2>1. CASE t = Loop
    <3>1. Undisturbed' = Undisturbed
      BY <1>3, <1>5, <2>1, TaskKinds DEF Undisturbed
    <3>2. c = Canceler(Loop) /\ (Undisturbed => Open \subseteq {entryOrderId})
      BY <1>1, <2>1 DEF c, LoopKnows
    <3>3. LoopKnows'
      BY <1>4, <1>5, <2>1 DEF LoopKnows
    <3>4. CancelerKnows'
      BY <1>4, <1>5, <1>6, <1>8, <2>1, <3>1, <3>2 DEF CancelerKnows
    <3> QED
      BY <3>3, <3>4
  <2>2. CASE t # Loop
    <3>1. ~Undisturbed /\ ~Undisturbed'
      BY <1>1, <1>2, <1>4, <1>5, <2>2 DEF Undisturbed
    <3>2. task'[Loop] = task[Loop]
      BY <1>3, <1>5, <2>2, TaskKinds
    <3>3. LoopKnows'
      BY <1>1, <1>6, <1>8, <3>1, <3>2 DEF LoopKnows
    <3>4. task[Loop].at = "cancelEntry" => Open \subseteq {entryOrderId}
      BY <1>1 DEF LoopKnows
    <3>5. t \notin Cancelers
      BY <1>2, TaskKinds
    <3>6. CancelerKnows'
      BY <1>1, <1>5, <1>6, <1>8, <3>1, <3>2, <3>4, <3>5, TaskKinds DEF CancelerKnows
    <3> QED
      BY <3>3, <3>6
  <2> QED
    BY <2>1, <2>2
<1> QED
  BY <1>7, <1>8, <1>9, <1>10, <1>11, <1>12 DEF IInv

LEMMA StopEndStep ==
    ASSUME IInv, NEW t \in Tasks, StopMarksCanceled(t) \/ StopDisables(t)
    PROVE  IInv'
<1>1. /\ TypeOK /\ Roles /\ Ids /\ StartsOnce /\ Stopped
      /\ OneOpenOrder /\ LoopKnows /\ CancelerKnows
      /\ task[t].at \in {"stopNotFilled", "stopDisables"}
  BY DEF IInv, StopMarksCanceled, StopDisables, At
<1>2. t \in Handlers \cup {Loop} /\ t \notin Cancelers
  BY <1>1, WhoStops, TaskKinds
<1>3. /\ task' \in [Tasks -> TaskType]
      /\ task'[t].at = AfterStop(t) /\ task'[t].id = task[t].id
      /\ task'[t].runtime = task[t].runtime
      /\ \A u \in Tasks : u # t => task'[u] = task[u]
  <2>1. task \in [Tasks -> TaskType] /\ AfterStop(t) \in Places
    BY <1>1, TypedTasks DEF AfterStop, Places
  <2>2. Goes(t, AfterStop(t))
    BY DEF StopMarksCanceled, StopDisables
  <2> QED
    BY <2>1, <2>2, MoveTask
<1>4. /\ UNCHANGED <<ord, errors, entryOrderId, machine, orderDoc, strategyDoc, registry, alive>>
      /\ going' \subseteq going \cup {"markCanceled", "DisableStrategy", "saveWhenRead"}
      /\ makerOnlyOrder' \in {makerOnlyOrder, "canceled"}
      /\ model' = model \/ model' = [model EXCEPT !.state = "Canceled"]
  BY DEF StopMarksCanceled, StopDisables, exchange, memory, storage
<1>5. /\ model' \in ModelType
      /\ model'.enabled = model.enabled
  <2>1. model \in ModelType
    BY <1>1, Typed DEF Others
  <2> QED
    BY <1>4, <2>1 DEF ModelType
<1>6. TypeOK'
  <2>1. Others'
    BY <1>1, <1>4, <1>5, Typed DEF Others
  <2> QED
    BY <1>1, <1>3, <1>4, <2>1, Typed, TypedNext
<1>7. Open' = Open /\ OneOpenOrder'
  BY <1>1, <1>4 DEF Open, OneOpenOrder
<1>8. Roles' /\ StartsOnce' /\ Ids'
  BY <1>1, <1>2, <1>3, <1>4, TaskKinds DEF Roles, StartsOnce, Ids, AfterStop, Stopping
<1>9. Stopped'
  BY <1>1, <1>2, <1>3, <1>5, TaskKinds DEF Stopped, AfterStop, Stopping
<1>10. Undisturbed' => Undisturbed /\ t = Loop
  BY <1>1, <1>2, <1>3, TaskKinds DEF Undisturbed, AfterStop
<1>11. LoopKnows' /\ CancelerKnows'
  <2>1. CASE t = Loop
    <3>1. LoopKnows'
      BY <1>3, <2>1 DEF LoopKnows, AfterStop
    <3>2. CancelerKnows'
      BY <1>1, <1>2, <1>3, <1>4, <1>7, <1>10, <2>1, TaskKinds
         DEF CancelerKnows, AfterStop, Stopping
    <3> QED
      BY <3>1, <3>2
  <2>2. CASE t # Loop
    <3>1. task'[Loop] = task[Loop] /\ ~Undisturbed'
      BY <1>3, <1>10, <2>2, TaskKinds
    <3>2. \A c \in Cancelers : task'[c] = task[c]
      BY <1>2, <1>3, TaskKinds
    <3>3. LoopKnows'
      BY <1>1, <1>4, <1>5, <1>7, <3>1 DEF LoopKnows
    <3>4. CancelerKnows'
      BY <1>1, <1>4, <1>7, <3>1, <3>2 DEF CancelerKnows
    <3> QED
      BY <3>3, <3>4
  <2> QED
    BY <2>1, <2>2
<1> QED
  BY <1>6, <1>7, <1>8, <1>9, <1>11 DEF IInv

LEMMA HandlerSteps ==
    ASSUME IInv, NEW t \in Handlers, CancelOrder(t) \/ HotReload(t) \/ SaveCanceled(t)
    PROVE  IInv'
<1>1. /\ TypeOK /\ Roles /\ Ids /\ StartsOnce /\ Stopped
      /\ OneOpenOrder /\ LoopKnows /\ CancelerKnows
  BY DEF IInv
<1>2. t \in Tasks /\ t \notin Cancelers /\ t # Loop
  BY TaskKinds
<1>3. model \in ModelType
  BY <1>1, Typed DEF Others
<1>4. /\ UNCHANGED <<ord, errors, entryOrderId, machine, makerOnlyOrder, strategyDoc, registry,
                     going, alive>>
      /\ orderDoc' \in {orderDoc, "canceled"}
  BY DEF CancelOrder, HotReload, SaveCanceled, exchange, memory, storage
<1>5. /\ task' \in [Tasks -> TaskType] /\ task'[t].id = task[t].id
      /\ task'[t].at \in {"disable", "stop", "save", "over"}
      /\ \A u \in Tasks : u # t => task'[u] = task[u]
      /\ model' \in ModelType
      /\ model'.enabled => model.enabled
      /\ task'[t].runtime \/ task'[t].at = "stop" => ~model'.enabled
      /\ task[Canceler(t)].at # "idle" => ~model'.enabled
  <2>0. task \in [Tasks -> TaskType] /\ task[t] \in TaskType
    BY <1>1, <1>2, TypedTasks
  <2>1. CASE CancelOrder(t)
    <3> DEFINE place == IF registry = "none" THEN "save" ELSE "disable"
               new == [task[t] EXCEPT !.at = place, !.runtime = registry = "running"]
    <3>1. /\ new \in TaskType /\ new.id = task[t].id /\ new.at \in {"disable", "save"}
          /\ new.runtime => registry = "running"
      BY <2>0 DEF TaskType, Places
    <3>2. task' = [task EXCEPT ![t] = new]
      BY <2>1 DEF CancelOrder
    <3>3. model' \in ModelType
      BY <1>3, <2>1 DEF CancelOrder, ModelType
    <3>4. registry = "running" => model'.enabled = FALSE
      BY <2>1 DEF CancelOrder
    <3>5. model'.enabled => model.enabled
      BY <2>1 DEF CancelOrder
    <3>6. task[Canceler(t)].at = "idle"
      BY <1>1, <2>1 DEF CancelOrder, At, Stopped
    <3> HIDE DEF new
    <3>7. task' \in [Tasks -> TaskType] /\ task'[t] = new
          /\ \A u \in Tasks : u # t => task'[u] = task[u]
      BY <1>2, <2>0, <3>1, <3>2
    <3> QED
      BY <3>1, <3>3, <3>4, <3>5, <3>6, <3>7
  <2>2. CASE HotReload(t) \/ SaveCanceled(t)
    <3> DEFINE place == IF SaveCanceled(t) THEN "over"
                        ELSE IF task[t].runtime THEN "stop" ELSE "save"
    <3>1. Goes(t, place) /\ model' = model /\ place \in Places
      BY <2>2 DEF HotReload, SaveCanceled, At, memory, Places
    <3>2. place = "stop" => task[t].runtime
      OBVIOUS
    <3>3. place \in {"disable", "stop", "save", "over"}
      OBVIOUS
    <3> HIDE DEF place
    <3>4. /\ task' \in [Tasks -> TaskType]
          /\ task'[t].at = place /\ task'[t].id = task[t].id
          /\ task'[t].runtime = task[t].runtime
          /\ \A u \in Tasks : u # t => task'[u] = task[u]
      BY <1>2, <2>0, <3>1, MoveTask
    <3> QED
      BY <1>1, <1>3, <3>1, <3>2, <3>3, <3>4 DEF Stopped
  <2> QED
    BY <2>1, <2>2
<1>6. TypeOK'
  <2>1. Others'
    BY <1>1, <1>4, <1>5, Typed DEF Others
  <2> QED
    BY <1>1, <1>4, <1>5, <2>1, Typed, TypedNext
<1>7. Open' = Open /\ OneOpenOrder'
  BY <1>1, <1>4 DEF Open, OneOpenOrder
<1>8. ~Undisturbed' /\ task'[Loop] = task[Loop]
  BY <1>2, <1>5, TaskKinds DEF Undisturbed
<1>9. \A c \in Cancelers : task'[c] = task[c]
  BY <1>2, <1>5, TaskKinds
<1>10. Roles' /\ StartsOnce' /\ Ids'
  <2>1. Roles'
    <3>1. \A u \in Handlers : u # t => task'[u] = task[u]
      BY <1>5, TaskKinds
    <3> QED
      BY <1>1, <1>5, <1>8, <1>9, <3>1 DEF Roles, Stopping
  <2>2. StartsOnce'
    BY <1>1, <1>4, <1>8 DEF StartsOnce
  <2>3. Ids'
    BY <1>1, <1>2, <1>4, <1>5, <1>8 DEF Ids
  <2> QED
    BY <2>1, <2>2, <2>3
<1>11. Stopped'
  <2>1. \A u \in Handlers : task'[Canceler(u)] = task[Canceler(u)]
    BY <1>9, TaskKinds
  <2>2. task'[Canceler(Loop)] = task[Canceler(Loop)]
    BY <1>9, TaskKinds
  <2>3. ASSUME NEW u \in Handlers,
               \/ task'[u].runtime
               \/ task'[u].at \in {"stop", "stopNotFilled", "stopDisables"}
               \/ task'[Canceler(u)].at # "idle"
        PROVE  ~model'.enabled /\ task'[u].at # "idle"
    <3>1. CASE u = t
      BY <1>5, <2>1, <2>3, <3>1
    <3>2. CASE u # t
      <4>1. task'[u] = task[u]
        BY <1>5, <3>2, TaskKinds
      <4> QED
        BY <1>1, <1>5, <2>1, <2>3, <4>1 DEF Stopped
    <3> QED
      BY <3>1, <3>2
  <2> QED
    BY <1>1, <1>8, <2>2, <2>3 DEF Stopped
<1>12. LoopKnows' /\ CancelerKnows'
  BY <1>1, <1>4, <1>5, <1>7, <1>8, <1>9 DEF LoopKnows, CancelerKnows
<1> QED
  BY <1>6, <1>7, <1>10, <1>11, <1>12 DEF IInv

-----------------------------------------------------------------------------
(* Theorems *)

LEMMA InitIInv == Init => IInv
<1> SUFFICES ASSUME Init PROVE IInv
  OBVIOUS
<1>1. ord = <<>> /\ Len(ord) = 0 /\ DOMAIN ord = {}
  <2>1. <<>> \in Seq(OrderType) /\ Len(<<>>) = 0
    OBVIOUS
  <2>2. DOMAIN <<>> = 1 .. 0 /\ 1 .. 0 = {}
    BY <2>1, LenProperties
  <2>3. ord = <<>>
    BY DEF Init
  <2> QED
    BY <2>1, <2>2, <2>3
<1>2. TypeOK
  <2>1. ord \in Seq(OrderType)
    BY <1>1
  <2>2. task \in [Tasks -> [at : Places, id : Nat, runtime : BOOLEAN]]
    BY DEF Init, Places
  <2>3. 0 \in 0 .. MaxErrors /\ 0 \in 0 .. Len(ord)
    BY <1>1, MakerOnlyAssumption
  <2> QED
    BY <2>1, <2>2, <2>3 DEF Init, TypeOK, OrderType
<1>3. Open = {}
  BY <1>1 DEF Open
<1>4. \A t \in Tasks : task[t].at = "idle" /\ task[t].id = 0 /\ ~task[t].runtime
  BY DEF Init
<1>5. Roles /\ Ids /\ StartsOnce /\ Stopped
  <2>1. Roles
    BY <1>4, TaskKinds DEF Roles
  <2>2. Ids
    BY <1>1, <1>4, TaskKinds DEF Ids
  <2>3. StartsOnce
    BY <1>4, TaskKinds DEF Init, StartsOnce
  <2>4. Stopped
    <3>1. \A t \in Handlers \cup {Loop} : Canceler(t) \in Tasks /\ t \in Tasks
      BY TaskKinds
    <3> QED
      BY <1>4, <3>1 DEF Stopped, Stopping
  <2> QED
    BY <2>1, <2>2, <2>3, <2>4
<1>6. OneOpenOrder /\ LoopKnows /\ CancelerKnows
  BY <1>3, <1>4, TaskKinds DEF OneOpenOrder, LoopKnows, CancelerKnows
<1> QED
  BY <1>2, <1>5, <1>6 DEF IInv

LEMMA NextIInv == IInv /\ [Next]_vars => IInv'
<1> SUFFICES ASSUME IInv, [Next]_vars PROVE IInv'
  OBVIOUS
<1>1. CASE UNCHANGED vars
  <2>1. TypeOK'
    <3>1. Others'
      BY <1>1, Typed DEF IInv, Others, vars
    <3> QED
      BY <1>1, <3>1, Typed, TypedNext DEF IInv, vars
  <2>2. UNCHANGED <<ord, task, entryOrderId, model, going>>
    BY <1>1 DEF vars
  <2>3. Open' = Open
    BY <2>2 DEF Open
  <2> QED
    BY <2>1, <2>2, <2>3, OutsideStep
<1>2. CASE \/ SaveOrder \/ SetRuntime \/ GetOrder \/ CreateStrategy \/ WatchStrategies \/ Panic
           \/ MarkCanceled \/ SaveWhenRead \/ DisableStrategy
  BY <1>2, StartSteps
<1>3. CASE AddStrategy \/ RunMakerOnlyOrder
  BY <1>3, BeginSteps
<1>4. CASE BeginTurn \/ LeaveLoop \/ GiveUp \/ SendOrder \/ TryAgain \/ RejectOrder
  BY <1>4, LoopSteps
<1>5. CASE AcceptOrder \/ Answer
  BY <1>5, AcceptStep, AnswerStep
<1>6. ASSUME NEW t \in Tasks,
             \/ ReadEntryOrderId(t) \/ ExchangeCancels(t) \/ ClearEntryOrderId(t)
             \/ Stop(t) \/ StopMarksCanceled(t) \/ StopDisables(t)
      PROVE  IInv'
  BY <1>6, ReadStep, ExchangeStep, ClearStep, StopStep, StopEndStep
<1>7. ASSUME NEW t \in Handlers, CancelOrder(t) \/ HotReload(t) \/ SaveCanceled(t)
      PROVE  IInv'
  BY <1>7, HandlerSteps
<1>8. ASSUME NEW k \in DOMAIN ord,
             Fill(k) \/ HearFill(k) \/ CopyStatus(k) \/ FireCheckExistingOrders(k)
      PROVE  IInv'
  BY <1>8, OrderSteps
<1> QED
  BY <1>1, <1>2, <1>3, <1>4, <1>5, <1>6, <1>7, <1>8 DEF Next

LEMMA SpecIInv == Spec => []IInv
  BY InitIInv, NextIInv, PTL DEF Spec

\* Every variable keeps its shape; sm.MakerOnlyOrder and State.EntryOrderId are what
\* makeronlyOrder.go writes into them.
THEOREM TypeCorrect == Spec => []TypeOK
<1>1. IInv => TypeOK
  BY DEF IInv
<1> QED
  BY <1>1, SpecIInv, PTL

\* Whatever Stop, the loop and the requests of the user cancel and clear under each
\* other's hands, one order at most is open at the exchange.
THEOREM OneOrderIsOpen == Spec => []OneOpenOrder
<1>1. IInv => OneOpenOrder
  BY DEF IInv
<1> QED
  BY <1>1, SpecIInv, PTL

\* Between two turns of an order that nobody stopped, the open order is the one whose
\* id PlaceOrder cancels before it places the next.
THEOREM OpenOrderIsKnown == Spec => []OpenIsKnown
<1>1. IInv => OpenIsKnown
  BY DEF IInv, LoopKnows, OpenIsKnown
<1> QED
  BY <1>1, SpecIInv, PTL

\* A runtime that ended by itself has no order open: the goroutine of its Stop canceled
\* the last one, if there was one.
THEOREM NothingIsLeftOpen == Spec => []NothingLeftOpen
<1>1. IInv => NothingLeftOpen
  <2> SUFFICES ASSUME IInv, task[Loop].at = "over", task[Canceler(Loop)].at = "over",
                      \A t \in Handlers : task[t].at = "idle"
               PROVE  Open = {}
    BY DEF NothingLeftOpen
  <2> QED
    BY TaskKinds DEF IInv, CancelerKnows, Stopping, Undisturbed
<1> QED
  BY <1>1, SpecIInv, PTL
=============================================================================
