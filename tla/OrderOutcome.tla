---------------------------- MODULE OrderOutcome ----------------------------
(***************************************************************************)
(* What a smart order may rely on about the orders it places: an order is  *)
(* placed once, ends once, as filled or as canceled, and the end is handed *)
(* to the state machine at most once, never before it happened.  How the   *)
(* service gets there (change stream, lookups, callback maps, goroutines)  *)
(* is the business of OrderTracking, which implements this specification.  *)
(***************************************************************************)
EXTENDS Naturals

CONSTANT Orders

VARIABLES
    status,   \* status[o]: what the exchange says of order o
    handled   \* handled[o]: how many times the state machine was told of the end of o

vars == <<status, handled>>

Ended == {"filled", "canceled"}

OutcomeTypeOK ==
    /\ status \in [Orders -> {"absent", "open"} \cup Ended]
    /\ handled \in [Orders -> Nat]

Init ==
    /\ status = [o \in Orders |-> "absent"]
    /\ handled = [o \in Orders |-> 0]

Place(o) ==
    /\ status[o] = "absent"
    /\ status' = [status EXCEPT ![o] = "open"]
    /\ UNCHANGED handled

End(o) ==
    /\ status[o] = "open"
    /\ \E s \in Ended : status' = [status EXCEPT ![o] = s]
    /\ UNCHANGED handled

Handle(o) ==
    /\ status[o] \in Ended
    /\ handled[o] = 0
    /\ handled' = [handled EXCEPT ![o] = 1]
    /\ UNCHANGED status

Next == \E o \in Orders : Place(o) \/ End(o) \/ Handle(o)

Spec == Init /\ [][Next]_vars
=============================================================================
