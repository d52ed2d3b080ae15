------------------------ MODULE OrderTracking_proofs ------------------------
(***************************************************************************)
(* Proofs about OrderTracking, for any set of orders, any number of change *)
(* events and any number of restarts.  Types first, then the inductive     *)
(* invariant, then what follows from it: the notice of an order's end is   *)
(* never lost between the maps and never doubled, and OrderTracking        *)
(* implements OrderOutcome.                                                *)
(***************************************************************************)
EXTENDS OrderTracking, TLAPS

\* Every variable keeps its shape.
THEOREM ShapeKept == Spec => []Shape
<1>1. Init => Shape
  BY DEF Init, Shape, Zero, Ended
<1>2. Shape /\ [Next]_vars => Shape'
  <2> SUFFICES ASSUME Shape, [Next]_vars
               PROVE  Shape'
    OBVIOUS
  <2> USE DEF Shape, Looked, Ended, storage, memory, goroutines, outcome, Zero
  <2>1. CASE CreateCallbackMap
    BY <2>1 DEF CreateCallbackMap
  <2>2. CASE OpenStream
    BY <2>2 DEF OpenStream
  <2>3. CASE Crash
    BY <2>3 DEF Crash, LoseMemory
  <2>4. ASSUME NEW o \in Orders, CreateOrder(o)
        PROVE  Shape'
    BY <2>4 DEF CreateOrder
  <2>5. ASSUME NEW o \in Orders, EndOrder(o)
        PROVE  Shape'
    BY <2>5 DEF EndOrder, Emit
  <2>6. ASSUME NEW o \in Orders, RewriteOrder(o)
        PROVE  Shape'
    BY <2>6 DEF RewriteOrder, Emit
  <2>7. ASSUME NEW o \in Orders, DispatchEvent(o)
        PROVE  Shape'
    BY <2>7 DEF DispatchEvent
  <2>8. ASSUME NEW o \in Orders, TrackOrder(o)
        PROVE  Shape'
    BY <2>8 DEF TrackOrder
  <2>9. ASSUME NEW o \in Orders, StoreStep(o)
        PROVE  Shape'
    BY <2>9 DEF StoreStep
  <2>10. ASSUME NEW o \in Orders, StoreCallback(o)
         PROVE  Shape'
    BY <2>10 DEF StoreCallback
  <2>11. ASSUME NEW o \in Orders, ReadOrder(o)
         PROVE  Shape'
    BY <2>11 DEF ReadOrder
  <2>12. ASSUME NEW o \in Orders, EnterCallback(o)
         PROVE  Shape'
    BY <2>12 DEF EnterCallback
  <2>13. ASSUME NEW o \in Orders, FireCheckExistingOrders(o)
         PROVE  Shape'
    BY <2>13 DEF FireCheckExistingOrders
  <2>14. ASSUME NEW o \in Orders, PanicOnNilCallbacks(o)
         PROVE  Shape'
    BY <2>14 DEF PanicOnNilCallbacks, LoseMemory
  <2>15. CASE UNCHANGED vars
    BY <2>15 DEF vars
  <2> QED
    BY <2>1, <2>2, <2>3, <2>4, <2>5, <2>6, <2>7, <2>8, <2>9, <2>10, <2>11, <2>12,
       <2>13, <2>14, <2>15 DEF Next
<1> QED
  BY <1>1, <1>2, PTL DEF Spec

-----------------------------------------------------------------------------
(* The inductive invariant.  OneNoticePerOrder and NoticeKnowsStep are not
   inductive: a goroutine in orderCallback must be known to come after
   StatusByOrderId.Store, and an order that is not tracked must be known to
   have left nothing behind in the maps. *)

Untracked(o) ==
    placer[o] # "tracked" => /\ waiter[o] = "none"
                             /\ o \notin ordersMap
                             /\ o \notin orderCallbacks
                             /\ calling[o] = 0
                             /\ firing[o] = 0

Placed(o) ==
    /\ placer[o] = "idle" <=> core[o] = "absent"
    /\ placer[o] \in {"idle", "sent"} => reported[o] = 0
    /\ placer[o] = "tracked" => waiter[o] # "none"

Counted(o) ==
    /\ unknown[o] = 0
    /\ firing[o] + reported[o] <= 1
    /\ o \in ordersMap => firing[o] = 0 /\ reported[o] = 0
    /\ placer[o] = "tracked" /\ o \notin ordersMap => firing[o] + reported[o] = 1

Ordered(o) ==
    /\ o \in orderCallbacks \/ calling[o] > 0 \/ firing[o] > 0
         => waiter[o] \in {"subscribed", "found", "waits"}
    /\ waiter[o] \in {"stored", "subscribed", "found", "waits"} /\ (o \in ordersMap \/ firing[o] > 0)
         => o \in statusByOrderId
    /\ events[o] > 0 \/ calling[o] > 0 \/ firing[o] > 0 \/ reported[o] > 0
         => core[o] \in Ended

Tracking(o) == Untracked(o) /\ Placed(o) /\ Counted(o) /\ Ordered(o)

TrackingInv == \A o \in Orders : Tracking(o)

\* A step of one order leaves the other orders alone, so one lemma carries the
\* invariant through Next order by order.
LEMMA TrackingStep ==
    ASSUME Shape, Shape', TrackingInv, [Next]_vars
    PROVE  TrackingInv'
<1> SUFFICES ASSUME NEW p \in Orders
             PROVE  Tracking(p)'
  BY DEF TrackingInv
<1>0. Tracking(p)
  BY DEF TrackingInv
<1> USE <1>0 DEF Shape, Ended, storage, memory, goroutines, outcome, Zero,
                 Tracking, Untracked, Placed, Counted, Ordered
<1>1. CASE CreateCallbackMap
  BY <1>1 DEF CreateCallbackMap
<1>2. CASE OpenStream
  BY <1>2 DEF OpenStream
<1>3. CASE Crash
  BY <1>3 DEF Crash, LoseMemory
<1>4. ASSUME NEW o \in Orders, CreateOrder(o)
      PROVE  Tracking(p)'
  BY <1>4 DEF CreateOrder
<1>5. ASSUME NEW o \in Orders, EndOrder(o)
      PROVE  Tracking(p)'
  BY <1>5 DEF EndOrder, Emit
<1>6. ASSUME NEW o \in Orders, RewriteOrder(o)
      PROVE  Tracking(p)'
  BY <1>6 DEF RewriteOrder, Emit
<1>7. ASSUME NEW o \in Orders, DispatchEvent(o)
      PROVE  Tracking(p)'
  BY <1>7 DEF DispatchEvent
<1>8. ASSUME NEW o \in Orders, TrackOrder(o)
      PROVE  Tracking(p)'
  BY <1>8 DEF TrackOrder
<1>9. ASSUME NEW o \in Orders, StoreStep(o)
      PROVE  Tracking(p)'
  BY <1>9 DEF StoreStep
<1>10. ASSUME NEW o \in Orders, StoreCallback(o)
       PROVE  Tracking(p)'
  BY <1>10 DEF StoreCallback
<1>11. ASSUME NEW o \in Orders, ReadOrder(o)
       PROVE  Tracking(p)'
  BY <1>11 DEF ReadOrder, Looked
<1>12. ASSUME NEW o \in Orders, EnterCallback(o)
       PROVE  Tracking(p)'
  BY <1>12 DEF EnterCallback
<1>13. ASSUME NEW o \in Orders, FireCheckExistingOrders(o)
       PROVE  Tracking(p)'
  <2>1. Tracking(o)
    BY DEF TrackingInv
  <2>2. /\ o \in statusByOrderId /\ firing[o] = 1 /\ reported[o] = 0
        /\ o \notin ordersMap /\ core[o] \in Ended
        /\ waiter[o] \in {"subscribed", "found", "waits"} /\ placer[o] = "tracked"
    BY <1>13, <2>1 DEF FireCheckExistingOrders
  <2>3. /\ firing' = [firing EXCEPT ![o] = @ - 1]
        /\ reported' = [reported EXCEPT ![o] = @ + 1]
        /\ statusByOrderId' \in {statusByOrderId, statusByOrderId \ {o}}
        /\ UNCHANGED <<storage, watch, placer, waiter, ordersMap, orderCallbacks,
                       events, calling, unknown>>
    BY <1>13, <2>2 DEF FireCheckExistingOrders
  <2>4. CASE p = o
    <3>1. firing'[p] = 0 /\ reported'[p] = 1
      BY <2>2, <2>3, <2>4
    <3> QED
      BY <2>2, <2>3, <2>4, <3>1
  <2>5. CASE p # o
    <3>1. firing'[p] = firing[p] /\ reported'[p] = reported[p]
      BY <2>3, <2>5
    <3>2. p \in statusByOrderId' <=> p \in statusByOrderId
      BY <2>3, <2>5
    <3> QED
      BY <2>3, <3>1, <3>2
  <2> QED
    BY <2>4, <2>5
<1>14. ASSUME NEW o \in Orders, PanicOnNilCallbacks(o)
       PROVE  Tracking(p)'
  BY <1>14 DEF PanicOnNilCallbacks, LoseMemory
<1>15. CASE UNCHANGED vars
  BY <1>15 DEF vars
<1> QED
  BY <1>1, <1>2, <1>3, <1>4, <1>5, <1>6, <1>7, <1>8, <1>9, <1>10, <1>11, <1>12, <1>13, <1>14, <1>15 DEF Next

\* What the maps and the goroutines have of an order, given how far PlaceOrder and
\* waitForOrder are with it.
THEOREM TrackingInvariant == Spec => []TrackingInv
<1>1. Init => TrackingInv
  BY DEF Init, TrackingInv, Tracking, Untracked, Placed, Counted, Ordered, Zero, Ended
<1>2. Shape /\ Shape' /\ TrackingInv /\ [Next]_vars => TrackingInv'
  BY TrackingStep
<1> QED
  BY <1>1, <1>2, ShapeKept, PTL DEF Spec

-----------------------------------------------------------------------------
(* Consequences *)

\* Every variable keeps its type, and what is on its way to the state machine has ended
\* (orderCallback's test of the status, waitOrder.go:26-28).
THEOREM TypeCorrect == Spec => []TypeOK
<1>1. Shape /\ TrackingInv => TypeOK
  BY DEF Shape, TypeOK, TrackingInv, Tracking, Ordered, Ended
<1> QED
  BY <1>1, ShapeKept, TrackingInvariant, PTL

\* The notice of a tracked order's end sits in exactly one place (orderCallback
\* and OrdersMap, waitOrder.go).
THEOREM OneNotice == Spec => []OneNoticePerOrder
<1>1. Shape /\ TrackingInv => OneNoticePerOrder
  BY DEF Shape, TrackingInv, Tracking, Counted, OneNoticePerOrder
<1> QED
  BY <1>1, ShapeKept, TrackingInvariant, PTL

\* checkExistingOrders always knows the step the order was placed for.
THEOREM KnownStep == Spec => []NoticeKnowsStep
<1>1. Shape /\ TrackingInv => NoticeKnowsStep
  BY DEF Shape, TrackingInv, Tracking, Counted, Ordered, NoticeKnowsStep
<1> QED
  BY <1>1, ShapeKept, TrackingInvariant, PTL

\* The abstract order: initial states map to initial states and every step to a
\* step of the abstract order or to none.
LEMMA OutcomeInit == Init => Outcome!Init
BY DEF Init, Outcome!Init, Zero

LEMMA OutcomeStep ==
    ASSUME Shape, TrackingInv, [Next]_vars
    PROVE  [Outcome!Next]_(Outcome!vars)
<1> DEFINE handled == [o \in Orders |-> reported[o] + unknown[o]]
<1> USE DEF Shape, Ended, storage, memory, goroutines, outcome
<1>1. ASSUME UNCHANGED <<core, reported, unknown>>
      PROVE  UNCHANGED Outcome!vars
  BY <1>1 DEF Outcome!vars
<1>2. ASSUME NEW o \in Orders, CreateOrder(o)
      PROVE  Outcome!Place(o)
  BY <1>2 DEF CreateOrder, Outcome!Place, TrackingInv, Tracking, Placed
<1>3. ASSUME NEW o \in Orders, EndOrder(o)
      PROVE  Outcome!End(o)
  BY <1>3 DEF EndOrder, Outcome!End, Outcome!Ended
<1>4. ASSUME NEW o \in Orders, FireCheckExistingOrders(o)
      PROVE  Outcome!Handle(o)
  <2>1. /\ o \in statusByOrderId /\ unknown[o] = 0 /\ reported[o] = 0
        /\ core[o] \in Ended
    BY <1>4 DEF FireCheckExistingOrders, TrackingInv, Tracking, Untracked, Counted, Ordered
  <2>2. reported' = [reported EXCEPT ![o] = @ + 1] /\ UNCHANGED <<unknown, core>>
    BY <1>4, <2>1 DEF FireCheckExistingOrders
  <2>3. \A q \in Orders : handled'[q] = IF q = o THEN 1 ELSE handled[q]
    BY <2>1, <2>2
  <2>4. handled' = [handled EXCEPT ![o] = 1]
    BY <2>3
  <2> QED
    BY <2>1, <2>2, <2>4 DEF Outcome!Handle, Outcome!Ended
<1>5. CASE Next
  <2>1. CASE CreateCallbackMap \/ OpenStream \/ Crash
    BY <2>1, <1>1 DEF CreateCallbackMap, OpenStream, Crash, LoseMemory
  <2>2. ASSUME NEW o \in Orders,
               \/ RewriteOrder(o) \/ DispatchEvent(o) \/ TrackOrder(o)
               \/ StoreStep(o) \/ StoreCallback(o) \/ ReadOrder(o)
               \/ EnterCallback(o) \/ PanicOnNilCallbacks(o)
        PROVE  UNCHANGED Outcome!vars
    BY <2>2, <1>1 DEF RewriteOrder, DispatchEvent, TrackOrder, StoreStep, StoreCallback,
                      ReadOrder, EnterCallback, PanicOnNilCallbacks, LoseMemory
  <2> QED
    BY <1>5, <1>2, <1>3, <1>4, <2>1, <2>2 DEF Next, Outcome!Next
<1>6. CASE UNCHANGED vars
  BY <1>6, <1>1 DEF vars
<1> QED
  BY <1>5, <1>6

\* OrderTracking implements OrderOutcome: an order's end reaches the state
\* machine at most once and only after it happened, across restarts too.
THEOREM ImplementsOutcome == Spec => OutcomeSpec
<1>1. Init => Outcome!Init
  BY OutcomeInit
<1>2. Shape /\ TrackingInv /\ [Next]_vars => [Outcome!Next]_(Outcome!vars)
  BY OutcomeStep
<1> QED
  BY <1>1, <1>2, ShapeKept, TrackingInvariant, PTL DEF Spec, OutcomeSpec, Outcome!Spec
=============================================================================
