---------------------------- MODULE OrderTracking ----------------------------
(***************************************************************************)
(* How a smart order learns that an order it placed was filled or canceled.*)
(*                                                                         *)
(*   PlaceOrder        records the id in OrdersMap, starts waitForOrder    *)
(*   waitForOrder      stores the step in StatusByOrderId, then subscribes *)
(*   SubscribeToOrder  stores the callback, then reads the order document  *)
(*   InitOrdersWatch   creates the callback map, opens the change stream   *)
(*                     and starts a goroutine for every matching change    *)
(*   orderCallback     accumulates the fee, removes the id from OrdersMap  *)
(*                     under OrdersMux, fires CheckExistingOrders          *)
(*                                                                         *)
(* Every step between two of the shared maps is an action of its own, so   *)
(* the goroutines interleave as they do in the program.  A goroutine has   *)
(* no identity: the ones in the same place for the same order are counted. *)
(***************************************************************************)
EXTENDS Naturals, FiniteSets

CONSTANTS
    Orders,       \* order ids the exchange may return
    EntryOrders,  \* those placed for WaitForEntry or TrailingEntry
    BuyOrders,    \* those with Side = "buy" and a fee cost
    MaxEvents,    \* bound: change events per order document
    MaxCrashes    \* bound: restarts of the process

ASSUME OrderTrackingAssumption ==
    /\ EntryOrders \subseteq Orders
    /\ BuyOrders \subseteq Orders
    /\ MaxEvents \in Nat
    /\ MaxCrashes \in Nat

VARIABLES
    core,             \* core_orders: the document of every order
    emitted,          \* change events sent so far for every document
    watch,            \* InitOrdersWatch: "off" (nil map), "opening", "open"
    placer,           \* how far PlaceOrder is with every order
    waiter,           \* how far waitForOrder is with every order
    ordersMap,        \* keys of sm.OrdersMap
    statusByOrderId,  \* keys of sm.StatusByOrderId
    orderCallbacks,   \* keys of StateMgmt.OrderCallbacks
    events,           \* watch goroutines that have not looked the callback up yet
    calling,          \* goroutines about to enter orderCallback with an ended order
    firing,           \* goroutines that removed the id and are about to fire
    reported,         \* CheckExistingOrders guards that knew the order's step
    unknown,          \* CheckExistingOrders guards that did not know it
    charged,          \* times the fee of the order was added to State.Commission
    crashes           \* restarts so far

storage == <<core, emitted>>
memory == <<ordersMap, statusByOrderId, orderCallbacks>>
goroutines == <<events, calling, firing>>
outcome == <<reported, unknown, charged>>
vars == <<core, emitted, watch, placer, waiter, ordersMap, statusByOrderId,
          orderCallbacks, events, calling, firing, reported, unknown, charged,
          crashes>>

Ended == {"filled", "canceled"}

Shape ==
    /\ core \in [Orders -> {"absent", "open"} \cup Ended]
    /\ emitted \in [Orders -> Nat]
    /\ watch \in {"off", "opening", "open"}
    /\ placer \in [Orders -> {"idle", "sent", "tracked", "lost"}]
    /\ waiter \in [Orders -> {"none", "start", "stored", "subscribed", "found", "waits"}]
    /\ ordersMap \subseteq Orders
    /\ statusByOrderId \subseteq Orders
    /\ orderCallbacks \subseteq Orders
    /\ events \in [Orders -> Nat]
    /\ calling \in [Orders -> Nat]
    /\ firing \in [Orders -> Nat]
    /\ reported \in [Orders -> Nat]
    /\ unknown \in [Orders -> Nat]
    /\ charged \in [Orders -> Nat]
    /\ crashes \in Nat

\* The shape of every variable; and whoever is on the way to the state machine carries
\* an order that has ended, which orderCallback tests first (waitOrder.go:26-28).
TypeOK ==
    /\ Shape
    /\ \A o \in Orders : events[o] + calling[o] + firing[o] > 0 => core[o] \in Ended

Zero == [o \in Orders |-> 0]

\* The service adds the strategies it finds in the storage before it starts
\* the watch, so the callback map may be missing when the first order goes out.
Init ==
    /\ core = [o \in Orders |-> "absent"]
    /\ emitted = Zero
    /\ watch = "off"
    /\ placer = [o \in Orders |-> "idle"]
    /\ waiter = [o \in Orders |-> "none"]
    /\ ordersMap = {}
    /\ statusByOrderId = {}
    /\ orderCallbacks = {}
    /\ events = Zero
    /\ calling = Zero
    /\ firing = Zero
    /\ reported = Zero
    /\ unknown = Zero
    /\ charged = Zero
    /\ crashes = 0

-----------------------------------------------------------------------------
(* The exchange service and the order collection. *)

\* The exchange accepts the order; PlaceOrder has not seen the response yet.
CreateOrder(o) ==
    /\ placer[o] = "idle"
    /\ placer' = [placer EXCEPT ![o] = "sent"]
    /\ core' = [core EXCEPT ![o] = "open"]
    /\ UNCHANGED <<emitted, watch, waiter, memory, goroutines, outcome, crashes>>

\* The stream sends an event for every change of a document that is filled or
\* canceled after the change, and nothing while it is not open.
Emit(o) ==
    IF watch = "open"
    THEN /\ emitted' = [emitted EXCEPT ![o] = @ + 1]
         /\ events' = [events EXCEPT ![o] = @ + 1]
    ELSE UNCHANGED <<emitted, events>>

EndOrder(o) ==
    /\ core[o] = "open"
    /\ \E s \in Ended : core' = [core EXCEPT ![o] = s]
    /\ Emit(o)
    /\ UNCHANGED <<watch, placer, waiter, memory, calling, firing, outcome, crashes>>

\* A later write to a document that has ended: the pipeline matches again.
RewriteOrder(o) ==
    /\ core[o] \in Ended
    /\ watch = "open"
    /\ emitted[o] < MaxEvents
    /\ Emit(o)
    /\ UNCHANGED <<core, watch, placer, waiter, memory, calling, firing, outcome,
                   crashes>>

-----------------------------------------------------------------------------
(* InitOrdersWatch *)

\* sm.OrderCallbacks = &sync.Map{}
CreateCallbackMap ==
    /\ watch = "off"
    /\ watch' = "opening"
    /\ orderCallbacks' = {}
    /\ UNCHANGED <<storage, placer, waiter, ordersMap, statusByOrderId, goroutines,
                   outcome, crashes>>

\* coll.Watch returned: changes from now on are seen.
OpenStream ==
    /\ watch = "opening"
    /\ watch' = "open"
    /\ UNCHANGED <<storage, placer, waiter, memory, goroutines, outcome, crashes>>

\* The goroutine of one event looks the callback up; without one it ends.
DispatchEvent(o) ==
    /\ events[o] > 0
    /\ events' = [events EXCEPT ![o] = @ - 1]
    /\ calling' = IF o \in orderCallbacks THEN [calling EXCEPT ![o] = @ + 1]
                                          ELSE calling
    /\ UNCHANGED <<storage, watch, placer, waiter, memory, firing, outcome, crashes>>

-----------------------------------------------------------------------------
(* PlaceOrder's tail, waitForOrder and SubscribeToOrder *)

\* The response is OK: OrdersMap gets the id, then "go sm.waitForOrder".
TrackOrder(o) ==
    /\ placer[o] = "sent"
    /\ placer' = [placer EXCEPT ![o] = "tracked"]
    /\ ordersMap' = ordersMap \cup {o}
    /\ waiter' = [waiter EXCEPT ![o] = "start"]
    /\ UNCHANGED <<storage, watch, statusByOrderId, orderCallbacks, goroutines,
                   outcome, crashes>>

StoreStep(o) ==
    /\ waiter[o] = "start"
    /\ waiter' = [waiter EXCEPT ![o] = "stored"]
    /\ statusByOrderId' = statusByOrderId \cup {o}
    /\ UNCHANGED <<storage, watch, placer, ordersMap, orderCallbacks, goroutines,
                   outcome, crashes>>

\* mutant: subscribes without having stored the step
StoreCallbackFirst(o) ==
    /\ waiter[o] \in {"start", "stored"}
    /\ watch # "off"
    /\ waiter' = [waiter EXCEPT ![o] = "subscribed"]
    /\ orderCallbacks' = orderCallbacks \cup {o}
    /\ UNCHANGED <<storage, watch, placer, ordersMap, statusByOrderId, goroutines,
                   outcome, crashes>>

StoreCallback(o) ==
    /\ waiter[o] = "stored"
    /\ watch # "off"
    /\ waiter' = [waiter EXCEPT ![o] = "subscribed"]
    /\ orderCallbacks' = orderCallbacks \cup {o}
    /\ UNCHANGED <<storage, watch, placer, ordersMap, statusByOrderId, goroutines,
                   outcome, crashes>>

\* What the lookup has found is noted: an order that has ended, or one that will be
\* heard of by the stream alone.
Looked(o) == [waiter EXCEPT ![o] = IF core[o] \in Ended THEN "found" ELSE "waits"]

\* mutant: subscribes only, and leaves an order that ended already
ReadNothing(o) ==
    /\ waiter[o] = "subscribed"
    /\ waiter' = Looked(o)
    /\ UNCHANGED <<storage, watch, placer, memory, goroutines, outcome, crashes>>

\* mutant: orderCallback does not look at the status
ReadAnyOrder(o) ==
    /\ waiter[o] = "subscribed"
    /\ waiter' = Looked(o)
    /\ calling' = [calling EXCEPT ![o] = @ + 1]
    /\ UNCHANGED <<storage, watch, placer, memory, events, firing, outcome, crashes>>

\* GetOrder; the callback is called in place and ignores an order still open.
ReadOrder(o) ==
    /\ waiter[o] = "subscribed"
    /\ waiter' = Looked(o)
    /\ calling' = IF core[o] \in Ended THEN [calling EXCEPT ![o] = @ + 1]
                                       ELSE calling
    /\ UNCHANGED <<storage, watch, placer, memory, events, firing, outcome, crashes>>

-----------------------------------------------------------------------------
(* orderCallback and the part of checkExistingOrders that concerns the maps *)

\* mutant: the id stays in OrdersMap
EnterCallbackKeepingId(o) ==
    /\ calling[o] > 0
    /\ calling' = [calling EXCEPT ![o] = @ - 1]
    /\ firing' = IF o \in ordersMap THEN [firing EXCEPT ![o] = @ + 1] ELSE firing
    /\ UNCHANGED <<storage, watch, placer, waiter, memory, events, outcome, crashes>>

\* The critical section under OrdersMux: the fee comes before the test.
EnterCallback(o) ==
    /\ calling[o] > 0
    /\ calling' = [calling EXCEPT ![o] = @ - 1]
    /\ charged' = IF o \in BuyOrders /\ core[o] = "filled"
                  THEN [charged EXCEPT ![o] = @ + 1]
                  ELSE charged
    /\ ordersMap' = ordersMap \ {o}
    /\ firing' = IF o \in ordersMap THEN [firing EXCEPT ![o] = @ + 1] ELSE firing
    /\ UNCHANGED <<storage, watch, placer, waiter, statusByOrderId, orderCallbacks,
                   events, reported, unknown, crashes>>

\* sm.State.Fire(CheckExistingOrders, order): the guard loads the step, then
\* deletes it for a filled order and for a canceled entry order.
FireCheckExistingOrders(o) ==
    /\ firing[o] > 0
    /\ firing' = [firing EXCEPT ![o] = @ - 1]
    /\ IF o \in statusByOrderId
       THEN /\ reported' = [reported EXCEPT ![o] = @ + 1]
            /\ UNCHANGED unknown
       ELSE /\ unknown' = [unknown EXCEPT ![o] = @ + 1]
            /\ UNCHANGED reported
    /\ statusByOrderId' = IF core[o] = "filled" \/ o \in EntryOrders
                          THEN statusByOrderId \ {o}
                          ELSE statusByOrderId
    /\ UNCHANGED <<storage, watch, placer, waiter, ordersMap, orderCallbacks, events,
                   calling, charged, crashes>>

-----------------------------------------------------------------------------
(* The process dies and a new one starts: New makes an empty OrdersMap, and
   nothing reads the orders of the earlier run back into the maps. *)

LoseMemory ==
    /\ watch' = "off"
    /\ placer' = [o \in Orders |-> IF placer[o] = "idle" THEN "idle" ELSE "lost"]
    /\ waiter' = [o \in Orders |-> "none"]
    /\ ordersMap' = {}
    /\ statusByOrderId' = {}
    /\ orderCallbacks' = {}
    /\ events' = Zero
    /\ calling' = Zero
    /\ firing' = Zero
    /\ UNCHANGED <<storage, outcome>>

Crash ==
    /\ crashes < MaxCrashes
    /\ crashes' = crashes + 1
    /\ LoseMemory

\* Storing into the nil OrderCallbacks dereferences a nil pointer in a
\* goroutine nobody recovers: the process ends.
PanicOnNilCallbacks(o) ==
    /\ waiter[o] = "stored"
    /\ watch = "off"
    /\ LoseMemory
    /\ UNCHANGED crashes

-----------------------------------------------------------------------------

Next ==
    \/ CreateCallbackMap
    \/ OpenStream
    \/ Crash
    \/ \E o \in Orders :
          \/ CreateOrder(o)
          \/ EndOrder(o)
          \/ RewriteOrder(o)
          \/ DispatchEvent(o)
          \/ TrackOrder(o)
          \/ StoreStep(o)
          \/ StoreCallback(o)
          \/ ReadOrder(o)
          \/ EnterCallback(o)
          \/ FireCheckExistingOrders(o)
          \/ PanicOnNilCallbacks(o)

Spec == Init /\ [][Next]_vars

\* The scheduler runs every goroutine that can run; the exchange, later writes
\* to the documents and crashes are owed nothing.
Fairness ==
    /\ WF_vars(CreateCallbackMap)
    /\ WF_vars(OpenStream)
    /\ \A o \in Orders :
          /\ WF_vars(DispatchEvent(o))
          /\ WF_vars(TrackOrder(o))
          /\ WF_vars(StoreStep(o))
          /\ WF_vars(StoreCallback(o))
          /\ WF_vars(ReadOrder(o))
          /\ WF_vars(EnterCallback(o))
          /\ WF_vars(FireCheckExistingOrders(o))

FairSpec == Spec /\ Fairness

-----------------------------------------------------------------------------
(* Properties *)

\* The notice of a tracked order's end is in exactly one place: still expected
\* in OrdersMap, taken by one goroutine that is about to fire, or handed to the
\* state machine.  The change stream and GetOrder may both bring it, several
\* times and at once (orderCallback, waitOrder.go).
OneNoticePerOrder ==
    \A o \in Orders :
        placer[o] = "tracked" =>
            (IF o \in ordersMap THEN 1 ELSE 0) + firing[o] + reported[o] + unknown[o] = 1

\* A goroutine about to fire CheckExistingOrders finds the step the order was
\* placed for, so the guard never drops a fill as "not mine"
\* (checkExistingOrders returns false when StatusByOrderId has no entry).
NoticeKnowsStep ==
    \A o \in Orders :
        /\ firing[o] > 0 => o \in statusByOrderId
        /\ unknown[o] = 0

\* The whole machinery implements the abstract order: ended once, handed to the
\* state machine at most once, also across restarts.
Outcome == INSTANCE OrderOutcome WITH
              status <- core,
              handled <- [o \in Orders |-> reported[o] + unknown[o]]

OutcomeSpec == Outcome!Spec

\* The only way to miss an end: the one read in SubscribeToOrder still saw the order
\* open, and the end came before the stream was.
Missed(o) == waiter[o] = "waits" /\ core[o] \in Ended /\ emitted[o] = 0

\* The end of an order the service still remembers is eventually handed to the
\* state machine, by the lookup or by the stream, unless the process dies first or the
\* end falls in the gap between SubscribeToOrder's read and the opening of the change
\* stream (connector.go:204-212).
EndIsReported ==
    \A o \in Orders :
        (placer[o] = "tracked" /\ core[o] \in Ended)
            ~> (reported[o] = 1 \/ placer[o] = "lost" \/ Missed(o))
=============================================================================
