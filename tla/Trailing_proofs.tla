---------------------------- MODULE Trailing_proofs ----------------------------
(***************************************************************************)
(* Proofs about Trailing, for any set of setups: what is sent for the      *)
(* entry is bounded, its edge only falls, a trailing exit on futures is    *)
(* replaced without a gap and by one order, and an order that has been     *)
(* stopped leaves nothing open.                                            *)
(*                                                                         *)
(* The argument: Lock makes the checks that have woken up work one at a    *)
(* time (a spot market order apart, whose orders fill at once), and checks *)
(* wake up in the order they were started in, so that those of the entry   *)
(* are over before the first one of the exit takes Lock.                   *)
(***************************************************************************)
EXTENDS Trailing, SequenceTheorems, FiniteSetTheorems, WellFoundedInduction, TLAPS

-----------------------------------------------------------------------------
(* The inductive invariant *)

Calling(g) == go[g].at \in {"send", "answer"}
Working(c) == go[c].at \in {"cancelFirst", "send", "answer", "hold"}
Started(c) == At(c, "nap") \/ Working(c)

\* Every goroutine is where its kind can be.
Roles ==
    /\ go[Loop].at \in {"idle", "send", "answer", "move", "stop"}
    /\ go[Enterer].at \in {"idle", "send", "answer"}
    /\ \A c \in Checks :
          go[c].at \in {"not yet", "idle", "nap", "cancelFirst", "send", "answer", "hold"}

\* What every goroutine can be placing there.
Assigned ==
    /\ Calling(Loop) => go[Loop].step = "Canceled" \/ (SpotMarket /\ go[Loop].step = "TakeProfit")
    /\ At(Loop, "move") => SpotMarket
    /\ Calling(Enterer) => IF Futures THEN go[Enterer].step \in {"Stoploss", "Canceled"}
                                      ELSE go[Enterer].step = "InEntry"
    /\ \A c \in Checks :
          /\ At(c, "nap") \/ At(c, "cancelFirst") => go[c].step \in {"TrailingEntry", "TakeProfit"}
          /\ Futures /\ At(c, "cancelFirst") => IsEntry(c)
          /\ Calling(c) => go[c].step \in {"TrailingEntry", "TakeProfit", "Canceled"}
          /\ SpotMarket /\ Started(c) => ~IsEntry(c)
          /\ At(c, "nap") => go[c].price \in setup.prices
    /\ \A g \in Goroutines : go[g].market => g \in Checks /\ IsEntry(g) /\ Working(g)

\* The orders the exchange took, and who has been told of them.
Orders ==
    /\ Len(ord) <= setup.orders
    /\ \A k \in DOMAIN ord :
          /\ ord[k].told => ord[k].known /\ ord[k].status = "filled"
          /\ ord[k].market => ord[k].status = "filled"
          /\ ord[k].step = "Canceled" \/ SpotMarket => ord[k].market
          /\ SpotMarket => ord[k].step # "TrailingEntry"
          /\ ord[k].status = "open" /\ ord[k].known => k \in model.orders

\* Answers on their way are those of the orders not known yet.
Answers ==
    /\ \A g \in Goroutines : At(g, "answer") =>
          /\ go[g].order \in DOMAIN ord /\ ~ord[go[g].order].known
          /\ ord[go[g].order].step = go[g].step
          /\ ord[go[g].order].market <=> IsMarket(g)
    /\ \A g, h \in Goroutines :
          At(g, "answer") /\ At(h, "answer") /\ go[g].order = go[h].order => g = h
    /\ \A k \in DOMAIN ord :
          ~ord[k].known => \E g \in Goroutines : At(g, "answer") /\ go[g].order = k

\* ExecutedOrders, and the order a check cancels, are orders the program knows.
Placed ==
    /\ \A i \in DOMAIN model.placed :
          model.placed[i] \in DOMAIN ord /\ ord[model.placed[i]].known
    /\ \A c \in Checks : At(c, "cancelFirst") => go[c].order \in DOMAIN ord /\ ord[go[c].order].known

\* Before the entry is bought nothing but the entry is under way.
BeforeEntry ==
    /\ model.entered <=> machine \notin {"WaitForEntry", "TrailingEntry"}
    /\ ~model.entered =>
          /\ At(Loop, "idle") /\ At(Enterer, "idle") /\ canceling = {}
          /\ model.enabled /\ model.state # "End"
          /\ \A c \in Checks : Started(c) => IsEntry(c)
          /\ \A k \in DOMAIN ord : ord[k].step = "TrailingEntry" /\ ~ord[k].told
    /\ machine = "WaitForEntry" =>
          /\ Len(ord) = 0 /\ model.placed = <<>> /\ world.pos = 0
          /\ \A c \in Checks : At(c, "not yet")

\* Lock: one check at a time talks to the exchange.
OneAtATime ==
    ~SpotMarket => \A c \in Checks : Working(c) => sm.lock /\ \A d \in Checks : Working(d) => d = c

\* The orders of the entry that could still be filled, or were, and the one that
\* the next check will cancel.
Live == {k \in DOMAIN ord : ord[k].status # "canceled"}
Last == IF model.placed = <<>> THEN {} ELSE {Previous}
NoMarket == \A k \in DOMAIN ord : ~ord[k].market

\* Until the entry is bought one order of it is live at most, and whoever holds Lock
\* knows which.
EntryKnown ==
    ~model.entered =>
        /\ \A j, k \in Live : j = k
        /\ world.pos = IF \E k \in DOMAIN ord : ord[k].status = "filled" THEN 1 ELSE 0
        /\ (\A c \in Checks : ~Working(c)) => NoMarket /\ Live \subseteq Last
        /\ \A c \in Checks :
              /\ At(c, "cancelFirst") => NoMarket /\ Live \subseteq {go[c].order} /\ Last = {go[c].order}
              /\ At(c, "send") => Live = {}
              /\ At(c, "answer") => Live \subseteq {go[c].order}
              /\ At(c, "hold") /\ NoMarket => Live \subseteq Last

\* A check that wakes up while Lock is free has a price that is no worse.
EdgeAbove ==
    machine = "TrailingEntry" /\ ~sm.lock =>
        \A c \in Checks : At(c, "nap") => go[c].price <= model.edge

\* Checks are started in order, those of the entry first; they are over when one
\* of the exit has woken up.
InOrder ==
    /\ \A c, d \in Checks : At(c, "not yet") /\ c <= d => At(d, "not yet")
    /\ \A c, d \in Checks : At(c, "nap") /\ go[c].step = "TakeProfit" /\ At(d, "nap") /\ IsEntry(d) => d < c
    /\ \A d \in Checks : Started(d) /\ IsEntry(d) =>
          /\ \A k \in DOMAIN ord : ord[k].step # "TakeProfit"
          /\ \A c \in Checks : Working(c) => go[c].step # "TakeProfit"

NoExitFilled == \A k \in DOMAIN ord : ord[k].step \notin Entries => ord[k].status # "filled"

\* On futures, until something is sold, the order runs on, there is a position to sell
\* and the last trailing exit is open.
ExitStays ==
    Futures =>
        /\ world.pos >= 0
        /\ NoExitFilled =>
              /\ canceling = {} /\ At(Loop, "idle") /\ Running
              /\ model.entered \/ (\E k \in DOMAIN ord : ord[k].status = "filled") => world.pos >= 1
              /\ (\E k \in DOMAIN ord : ord[k].step = "TakeProfit" /\ ord[k].known) =>
                    /\ model.placed # <<>>
                    /\ ord[Previous].step = "TakeProfit" /\ ord[Previous].status = "open"
              /\ \A c \in Checks : At(c, "answer") /\ go[c].step = "TakeProfit" =>
                    ord[go[c].order].status = "open"

\* An open trailing exit is the last one placed, or its answer is on its way.
OpenExitIsLast ==
    \A k \in Open : ord[k].step = "TakeProfit" =>
        \/ model.placed # <<>> /\ k = Previous
        \/ \E c \in Checks : At(c, "answer") /\ go[c].order = k

StopPlans == {<<>>, <<"sweep">>, <<"late">>, <<"sweep", "late">>, <<"close", "sweep", "late">>,
              <<"close", "close", "sweep", "late">>}

\* After the last sweep nothing is left that could place an order that stays open.
Stopping == At(Loop, "stop") \/ (Calling(Loop) /\ go[Loop].step = "Canceled")

Swept ==
    /\ sm.stop \in StopPlans
    /\ Stopping /\ sm.stop \in {<<>>, <<"late">>} => FiveSecondsLater /\ Open \subseteq canceling

IInv ==
    /\ TypeOK /\ Roles /\ Assigned /\ Orders /\ Answers /\ Placed
    /\ BeforeEntry /\ OneAtATime /\ EntryKnown /\ EdgeAbove /\ InOrder
    /\ ExitStays /\ OpenExitIsLast /\ Swept

-----------------------------------------------------------------------------
(* Goroutines, orders and the state of the strategy *)

GoType == [at : Places, step : Steps \cup {"none"}, price : Nat, order : {0} \cup OrderIds,
           market : BOOLEAN]

OrderType == [step : Steps, known : BOOLEAN, told : BOOLEAN, market : BOOLEAN,
              status : {"open", "filled", "canceled"}]

ExitPrices == {<<>>} \cup {<<p>> : p \in setup.prices}

ModelType == [state : MachineStates \cup {""}, entered : BOOLEAN, executed : Nat,
              position : Int, edge : Nat, exits : ExitPrices, checkAt : {0} \cup Checks,
              placed : Seq(OrderIds), orders : SUBSET OrderIds, enabled : BOOLEAN]

\* A goroutine is the event loop, the one that enters, or a check.
LEMMA GoroutineKinds ==
    /\ Loop \in Goroutines /\ Enterer \in Goroutines /\ Checks \subseteq Goroutines
    /\ Loop \notin Checks /\ Enterer \notin Checks /\ Loop # Enterer
    /\ \A g \in Goroutines : g = Loop \/ g = Enterer \/ g \in Checks
    /\ Checks \subseteq Nat \ {0}
<1>1. \A s \in Setups : s.checks \in Nat
  BY TrailingAssumption DEF SetupType
<1> QED
  BY <1>1 DEF Goroutines, Loop, Enterer, Checks

\* What a setup bounds, and that a market is futures or spot.
LEMMA SetupFacts ==
    ASSUME world.setup \in Setups
    PROVE  /\ setup.prices \subseteq Nat \ {0} /\ setup.checks \in Nat /\ setup.orders \in Nat
           /\ 1 .. setup.checks \subseteq Checks /\ 1 .. setup.orders \subseteq OrderIds
           /\ ~(Futures /\ SpotMarket)
<1>1. world.setup \in SetupType
  BY TrailingAssumption
<1> QED
  BY <1>1 DEF setup, SetupType, Checks, OrderIds, Futures, SpotMarket

\* A number below one of a range, and not zero, is in the range.
LEMMA BelowInRange ==
    ASSUME NEW n \in Nat, NEW c \in 1 .. n, NEW d \in Nat \ {0}, d < c
    PROVE  d \in 1 .. n
  OBVIOUS

\* The check started next is the first of those not started yet.
LEMMA FirstOfNext ==
    ASSUME world.setup \in Setups, NextCheck # {}, NEW c, c = Min(NextCheck)
    PROVE  /\ c \in Checks /\ At(c, "not yet")
           /\ \A d \in Checks : d < c => ~At(d, "not yet")
<1>1. setup.checks \in Nat /\ 1 .. setup.checks \subseteq Checks
  BY SetupFacts
<1>2. NextCheck \subseteq Nat /\ NextCheck \subseteq Checks
  <2>1. NextCheck \subseteq 1 .. setup.checks
    BY DEF NextCheck
  <2> QED
    BY <1>1, <2>1
<1> DEFINE below == {ss \in Nat \X Nat : ss[1] < ss[2]}
<1>3. OpToRel(<, Nat) = below
  BY Zenon DEF OpToRel
<1>4. \E b \in NextCheck : \A d \in NextCheck : ~(<<d, b>> \in below)
  <2> HIDE DEF below
  <2> QED
    BY <1>2, <1>3, NatLessThanWellFounded, WFMin
<1>5. \E b \in NextCheck : \A d \in NextCheck : b <= d
  <2>1. PICK b \in NextCheck : \A d \in NextCheck : ~(<<d, b>> \in below)
    BY <1>4
  <2>2. ASSUME NEW d \in NextCheck
        PROVE  b <= d
    <3>1. b \in Nat /\ d \in Nat /\ ~(<<d, b>> \in below)
      BY <1>2, <2>1
    <3>2. ~(d < b)
      BY <3>1
    <3> QED
      BY <3>1, <3>2
  <2> QED
    BY <2>2
<1>6. c \in NextCheck /\ \A d \in NextCheck : c <= d
  BY <1>5 DEF Min
<1>7. c \in Checks /\ At(c, "not yet") /\ c \in 1 .. setup.checks
  BY <1>2, <1>6 DEF NextCheck
<1>8. ASSUME NEW d \in Checks, d < c
      PROVE  ~At(d, "not yet")
  <2>1. d \in Nat \ {0} /\ c \in Nat \ {0}
    BY <1>7, GoroutineKinds
  <2>2. d \in 1 .. setup.checks
    BY <1>1, <1>7, <1>8, <2>1, BelowInRange
  <2>3. d \notin NextCheck
    BY <1>6, <1>8, <2>1
  <2> QED
    BY <2>2, <2>3 DEF NextCheck
<1> QED
  BY <1>7, <1>8

\* The goroutines, with the type of their record named.
LEMMA GoTyped == TypeOK => go \in [Goroutines -> GoType]
  BY DEF TypeOK, GoType

\* A goroutine that moves takes nothing else along.
LEMMA Moves ==
    ASSUME TypeOK, NEW g \in Goroutines, NEW place \in Places, go' = Goes(g, place)
    PROVE  /\ go' \in [Goroutines -> GoType]
           /\ go'[g].at = place /\ go'[g].step = go[g].step /\ go'[g].price = go[g].price
           /\ go'[g].order = go[g].order /\ go'[g].market = go[g].market
           /\ \A h \in Goroutines : h # g => go'[h] = go[h]
<1>1. go \in [Goroutines -> GoType] /\ go[g] \in GoType
  BY GoTyped
<1>2. /\ [go[g] EXCEPT !.at = place] \in GoType
      /\ [go[g] EXCEPT !.at = place].at = place
      /\ [go[g] EXCEPT !.at = place].step = go[g].step
      /\ [go[g] EXCEPT !.at = place].price = go[g].price
      /\ [go[g] EXCEPT !.at = place].order = go[g].order
      /\ [go[g] EXCEPT !.at = place].market = go[g].market
  BY <1>1 DEF GoType
<1>3. go' = [go EXCEPT ![g] = [go[g] EXCEPT !.at = place]]
  BY DEF Goes
<1> HIDE DEF GoType
<1> QED
  BY <1>1, <1>2, <1>3

\* A goroutine begins a call with a step of its own.
LEMMA Begins ==
    ASSUME TypeOK, NEW g \in Goroutines, NEW place \in Places, NEW step \in Steps,
           go' = Calls(g, place, step)
    PROVE  /\ go' \in [Goroutines -> GoType]
           /\ go'[g].at = place /\ go'[g].step = step /\ go'[g].price = go[g].price
           /\ go'[g].order = go[g].order /\ go'[g].market = go[g].market
           /\ \A h \in Goroutines : h # g => go'[h] = go[h]
<1>1. go \in [Goroutines -> GoType] /\ go[g] \in GoType
  BY GoTyped
<1> DEFINE r == [go[g] EXCEPT !.at = place, !.step = step]
<1>2. /\ r \in GoType
      /\ r.at = place /\ r.step = step /\ r.price = go[g].price
      /\ r.order = go[g].order /\ r.market = go[g].market
  BY <1>1 DEF GoType
<1>3. go' = [go EXCEPT ![g] = r]
  BY <1>1 DEF Calls, GoType
<1> HIDE DEF GoType, r
<1> QED
  BY <1>1, <1>2, <1>3

\* The orders, with the type of their record named.
LEMMA OrdTyped ==
    ASSUME TypeOK
    PROVE  /\ ord \in Seq(OrderType) /\ Len(ord) \in Nat /\ DOMAIN ord = 1 .. Len(ord)
           /\ \A k \in DOMAIN ord : ord[k] \in OrderType
<1>1. ord \in Seq(OrderType)
  BY DEF TypeOK, OrderType
<1> HIDE DEF OrderType
<1> QED
  BY <1>1, LenProperties, ElementOfSeq

\* Closing orders changes nothing but the status of the open ones.
LEMMA Closes ==
    ASSUME TypeOK, NEW ids
    PROVE  /\ Closed(ids) \in Seq(OrderType) /\ Len(Closed(ids)) = Len(ord)
           /\ DOMAIN Closed(ids) = DOMAIN ord
           /\ \A k \in DOMAIN ord :
                 /\ Closed(ids)[k] \in OrderType
                 /\ Closed(ids)[k].step = ord[k].step /\ Closed(ids)[k].known = ord[k].known
                 /\ Closed(ids)[k].told = ord[k].told /\ Closed(ids)[k].market = ord[k].market
                 /\ Closed(ids)[k].status = IF k \in ids /\ ord[k].status = "open"
                                            THEN "canceled" ELSE ord[k].status
<1> DEFINE o(k) == IF k \in ids \cap Open THEN [ord[k] EXCEPT !.status = "canceled"] ELSE ord[k]
<1>1. /\ ord \in Seq(OrderType) /\ Len(ord) \in Nat /\ DOMAIN ord = 1 .. Len(ord)
      /\ \A k \in DOMAIN ord : ord[k] \in OrderType
  BY OrdTyped
<1>2. \A k \in DOMAIN ord :
         /\ o(k) \in OrderType
         /\ o(k).step = ord[k].step /\ o(k).known = ord[k].known
         /\ o(k).told = ord[k].told /\ o(k).market = ord[k].market
         /\ o(k).status = IF k \in ids /\ ord[k].status = "open" THEN "canceled" ELSE ord[k].status
  BY <1>1 DEF OrderType, Open
<1>3. Closed(ids) = [k \in 1 .. Len(ord) |-> o(k)]
  BY <1>1 DEF Closed
<1> HIDE DEF o, OrderType
<1>4. [k \in 1 .. Len(ord) |-> o(k)] \in Seq(OrderType)
  BY <1>1, <1>2
<1>5. Len(Closed(ids)) = Len(ord)
  BY <1>1, <1>3, <1>4, LenProperties
<1> QED
  BY <1>1, <1>2, <1>3, <1>4, <1>5

\* A step that changes one order.
LEMMA ChangesOne ==
    ASSUME TypeOK, NEW k \in DOMAIN ord, NEW o \in OrderType, ord' = [ord EXCEPT ![k] = o]
    PROVE  /\ ord' \in Seq(OrderType) /\ Len(ord') = Len(ord) /\ DOMAIN ord' = DOMAIN ord
           /\ ord'[k] = o
           /\ \A j \in DOMAIN ord : j # k => ord'[j] = ord[j]
<1>1. ord \in Seq(OrderType) /\ DOMAIN ord = 1 .. Len(ord)
  BY OrdTyped
<1> HIDE DEF OrderType
<1> QED
  BY <1>1, ExceptSeq, LenProperties

\* The conditions of the strategy never change.
LEMMA SameSetup ==
    ASSUME world'.setup = world.setup
    PROVE  setup' = setup /\ Futures' = Futures /\ SpotMarket' = SpotMarket
  BY DEF setup, Futures, SpotMarket

\* TypeOK, with the types of the records named.
LEMMA Typed ==
    TypeOK => /\ model \in ModelType /\ machine \in MachineStates
              /\ sm \in [lock : BOOLEAN, stop : Seq({"close", "sweep", "late"})]
              /\ canceling \subseteq DOMAIN ord
              /\ world \in [setup : Setups, pos : Int, triggered : Nat] /\ world.setup \in Setups
  BY DEF TypeOK, ModelType, ExitPrices

\* TypeOK of the next state, from the types of the variables one by one.
LEMMA TypedNext ==
    ASSUME world'.setup = world.setup, machine' \in MachineStates, model' \in ModelType,
           sm' \in [lock : BOOLEAN, stop : Seq({"close", "sweep", "late"})],
           ord' \in Seq(OrderType), canceling' \subseteq DOMAIN ord',
           world' \in [setup : Setups, pos : Int, triggered : Nat],
           go' \in [Goroutines -> GoType]
    PROVE  TypeOK'
<1>1. setup' = setup
  BY DEF setup
<1> QED
  BY <1>1 DEF TypeOK, ModelType, ExitPrices, OrderType, GoType

\* What the exchange does to the position.
LEMMA PositionMoves ==
    ASSUME TypeOK, NEW step \in Steps
    PROVE  /\ Got(step) \in {0, 1} /\ Moved(step) \in Int
           /\ step \in Entries => Got(step) = 1 /\ Moved(step) = world.pos + 1
           /\ step \notin Entries => /\ Moved(step) = world.pos - Got(step)
                                     /\ Got(step) = 0 <=> Futures /\ world.pos <= 0
<1>1. world.pos \in Int /\ Amount = 1
  BY DEF TypeOK, Amount
<1>2. Got(step) \in {0, 1} /\ (Got(step) = 0 <=> Futures /\ step \notin Entries /\ world.pos <= 0)
  BY <1>1 DEF Got
<1> QED
  BY <1>1, <1>2 DEF Moved

\* Orders may be filled, closed and heard of: to the goroutines this is nothing.
LEMMA QuietOrders ==
    ASSUME IInv, go' = go, sm' = sm, world'.setup = world.setup,
           model'.placed = model.placed, model'.orders = model.orders,
           Len(ord') = Len(ord), DOMAIN ord' = DOMAIN ord,
           \A j \in DOMAIN ord :
              /\ ord'[j].step = ord[j].step /\ ord'[j].known = ord[j].known
              /\ ord'[j].market = ord[j].market
              /\ ord[j].status # "open" => ord'[j].status = ord[j].status
              /\ ord'[j].told => ord[j].told \/ (ord[j].known /\ ord[j].status = "filled")
    PROVE  Roles' /\ Assigned' /\ Orders' /\ Answers' /\ Placed' /\ OneAtATime' /\ InOrder'
<1>1. Roles /\ Assigned /\ Orders /\ Answers /\ Placed /\ OneAtATime /\ InOrder
  BY DEF IInv
<1>2. setup' = setup /\ Futures' = Futures /\ SpotMarket' = SpotMarket
  BY SameSetup
<1>3. Roles' /\ Assigned'
  BY <1>1, <1>2 DEF Roles, Assigned, Calling, Working, Started, At, IsEntry
<1>4. Orders'
  BY <1>1, <1>2 DEF Orders
<1>5. Answers'
  BY <1>1, <1>2 DEF Answers, At, IsMarket
<1>6. Placed'
  BY <1>1, <1>2 DEF Placed, At
<1>7. OneAtATime'
  BY <1>1, <1>2 DEF OneAtATime, Working
<1>8. InOrder'
  <2>1. \A c \in Checks : /\ \A place : At(c, place)' <=> At(c, place)
                          /\ Working(c)' <=> Working(c)
                          /\ Started(c)' <=> Started(c)
                          /\ IsEntry(c)' <=> IsEntry(c)
    BY DEF At, Working, Started, IsEntry
  <2> QED
    BY <1>1, <2>1 DEF InOrder
<1> QED
  BY <1>3, <1>4, <1>5, <1>6, <1>7, <1>8

\* The order placed before is one the program knows.
LEMMA LastPlaced ==
    ASSUME TypeOK, Placed, model.placed # <<>>
    PROVE  /\ Previous \in DOMAIN ord /\ ord[Previous].known
           /\ Len(model.placed) \in DOMAIN model.placed
<1>1. model.placed \in Seq(OrderIds)
  BY DEF TypeOK
<1>2. Len(model.placed) \in 1 .. Len(model.placed) /\ DOMAIN model.placed = 1 .. Len(model.placed)
  BY <1>1, LenProperties, EmptySeq
<1> QED
  BY <1>2 DEF Placed, Previous

-----------------------------------------------------------------------------
(* The exchange *)

\* An open order is filled.  While the entry is not bought it is the one live order of it.
LEMMA FillStep ==
    ASSUME IInv, NEW k \in DOMAIN ord, Fill(k)
    PROVE  IInv'
<1>0. /\ TypeOK /\ Roles /\ Assigned /\ Orders /\ Answers /\ Placed
      /\ BeforeEntry /\ OneAtATime /\ EntryKnown /\ EdgeAbove /\ InOrder
      /\ ExitStays /\ OpenExitIsLast /\ Swept
  BY DEF IInv
<1>1. /\ ord' \in Seq(OrderType) /\ Len(ord') = Len(ord) /\ DOMAIN ord' = DOMAIN ord
      /\ ord[k] \in OrderType /\ ord[k].status = "open"
      /\ ord'[k].step = ord[k].step /\ ord'[k].known = ord[k].known
      /\ ord'[k].told = ord[k].told /\ ord'[k].market = ord[k].market
      /\ ord'[k].status = IF Got(ord[k].step) = 0 THEN "canceled" ELSE "filled"
      /\ \A j \in DOMAIN ord : j # k => ord'[j] = ord[j]
  <2> DEFINE o == [ord[k] EXCEPT !.status = IF Got(ord[k].step) = 0 THEN "canceled" ELSE "filled"]
  <2>1. ord[k] \in OrderType /\ ord[k].status = "open"
    BY <1>0, OrdTyped DEF Fill, Open
  <2>2. /\ o \in OrderType /\ o.step = ord[k].step /\ o.known = ord[k].known
        /\ o.told = ord[k].told /\ o.market = ord[k].market
        /\ o.status = IF Got(ord[k].step) = 0 THEN "canceled" ELSE "filled"
    BY <2>1 DEF OrderType
  <2>3. ord' = [ord EXCEPT ![k] = o]
    BY DEF Fill
  <2> HIDE DEF o, OrderType
  <2> QED
    BY <1>0, <2>1, <2>2, <2>3, ChangesOne
<1>2. /\ machine' = machine /\ model' = model /\ sm' = sm /\ go' = go
      /\ canceling' = canceling \ {k}
      /\ world'.setup = world.setup /\ world'.pos = Moved(ord[k].step)
      /\ setup' = setup /\ Futures' = Futures /\ SpotMarket' = SpotMarket
  BY <1>0, SameSetup DEF Fill, TypeOK
<1>3. ord[k].step \in Steps
  BY <1>1 DEF OrderType
<1>4. TypeOK'
  BY <1>0, <1>1, <1>2, <1>3, PositionMoves DEF TypeOK, OrderType, Fill
<1> HIDE DEF OrderType
<1>5. Roles' /\ Assigned' /\ Orders' /\ Answers' /\ Placed' /\ OneAtATime' /\ InOrder'
  BY <1>1, <1>2, QuietOrders
<1>6. BeforeEntry'
  <2>1. machine # "WaitForEntry"
    <3>1. Len(ord) # 0
      <4>1. k \in 1 .. Len(ord) /\ Len(ord) \in Nat
        BY <1>0, OrdTyped
      <4> QED
        BY <4>1
    <3> QED
      BY <1>0, <3>1 DEF BeforeEntry
  <2>2. ~model.entered =>
           /\ \A c \in Checks : Started(c)' => IsEntry(c)'
           /\ \A j \in DOMAIN ord : ord'[j].step = "TrailingEntry" /\ ~ord'[j].told
    BY <1>0, <1>1, <1>2 DEF BeforeEntry, At, Started, Working, IsEntry
  <2> QED
    BY <1>0, <1>1, <1>2, <2>1, <2>2 DEF BeforeEntry, At
<1>7. EntryKnown'
  <2> SUFFICES ASSUME ~model.entered
               PROVE  EntryKnown'
    BY <1>2 DEF EntryKnown
  <2>1. /\ ord[k].step = "TrailingEntry" /\ Live = {k} /\ world.pos = 0
        /\ \A j \in DOMAIN ord : ord[j].status # "filled"
    <3>1. k \in Live
      BY <1>1 DEF Live
    <3>2. Live = {k}
      BY <1>0, <3>1 DEF EntryKnown
    <3>3. \A j \in DOMAIN ord : ord[j].status # "filled"
      BY <1>1, <3>2 DEF Live
    <3>4. ord[k].step = "TrailingEntry"
      BY <1>0 DEF BeforeEntry
    <3>5. world.pos = 0
      BY <1>0, <3>3 DEF EntryKnown
    <3> QED
      BY <3>2, <3>3, <3>4, <3>5
  <2>2. ord'[k].status = "filled" /\ world'.pos = 1
    BY <1>0, <1>1, <1>2, <1>3, <2>1, PositionMoves DEF Entries
  <2>3. Live' = {k} /\ (NoMarket' <=> NoMarket) /\ Last' = Last
    BY <1>1, <1>2, <2>1, <2>2 DEF Live, NoMarket, Last, Previous
  <2> QED
    BY <1>0, <1>1, <1>2, <2>1, <2>2, <2>3 DEF EntryKnown, At, Working
<1>8. EdgeAbove'
  BY <1>0, <1>2 DEF EdgeAbove, At
<1>9. ExitStays'
  <2> SUFFICES ASSUME Futures
               PROVE  ExitStays'
    BY <1>2 DEF ExitStays
  <2>1. world.pos \in Int /\ world.pos >= 0
    BY <1>0 DEF ExitStays, TypeOK
  <2>2. world'.pos \in Int /\ world'.pos >= 0
    BY <1>0, <1>2, <1>3, <2>1, PositionMoves
  <2>3. ASSUME NoExitFilled'
        PROVE  NoExitFilled /\ ord[k].step \in Entries /\ world'.pos >= 1
    <3>1. NoExitFilled
      BY <1>1, <2>3 DEF NoExitFilled
    <3>2. ord[k].step \notin Entries => world.pos >= 1
      BY <1>0, <3>1 DEF ExitStays, BeforeEntry, Entries
    <3>3. ord[k].step \in Entries
      BY <1>0, <1>1, <1>3, <2>1, <2>3, <3>2, PositionMoves DEF NoExitFilled
    <3> QED
      BY <1>0, <1>2, <1>3, <2>1, <3>1, <3>3, PositionMoves
  <2> SUFFICES ASSUME NoExitFilled'
               PROVE  ExitStays'
    BY <2>2 DEF ExitStays
  <2>4. /\ canceling' = {} /\ At(Loop, "idle")' /\ Running'
    BY <1>0, <1>2, <2>3 DEF ExitStays, Running, At
  <2>5. ord[k].step # "TakeProfit"
    BY <2>3 DEF Entries
  <2>6. \A j \in DOMAIN ord : ord[j].step = "TakeProfit" => ord'[j] = ord[j]
    BY <1>1, <2>5
  <2>7. (\E j \in DOMAIN ord : ord[j].step = "TakeProfit" /\ ord[j].known) =>
           /\ model.placed # <<>> /\ Previous \in DOMAIN ord
           /\ ord'[Previous].step = "TakeProfit" /\ ord'[Previous].status = "open"
    <3>1. model.placed # <<>> => Previous \in DOMAIN ord
      BY <1>0, LastPlaced
    <3> QED
      BY <1>0, <1>1, <2>3, <2>6, <3>1 DEF ExitStays
  <2>8. \A c \in Checks : At(c, "answer") /\ go[c].step = "TakeProfit" =>
           ord'[go[c].order].status = "open"
    BY <1>0, <1>1, <2>3, <2>6, GoroutineKinds DEF ExitStays, Answers
  <2> QED
    BY <1>1, <1>2, <2>2, <2>3, <2>4, <2>6, <2>7, <2>8 DEF ExitStays, Previous, At
<1>10. OpenExitIsLast'
  BY <1>0, <1>1, <1>2 DEF OpenExitIsLast, Open, At, Previous
<1>11. Swept'
  BY <1>0, <1>1, <1>2 DEF Swept, Open, At, Stopping, Calling, FiveSecondsLater
<1> QED
  BY <1>4, <1>5, <1>6, <1>7, <1>8, <1>9, <1>10, <1>11 DEF IInv

\* What the exits' invariants say holds on when nothing of theirs has changed.
LEMMA QuietExits ==
    ASSUME TypeOK, Placed, Answers, ExitStays, OpenExitIsLast, Futures' = Futures,
           DOMAIN ord' = DOMAIN ord,
           \A j \in DOMAIN ord : /\ ord'[j].step = ord[j].step /\ ord'[j].known = ord[j].known
                                 /\ ord'[j].status = ord[j].status,
           model'.placed = model.placed, model'.entered = model.entered,
           world'.pos = world.pos,
           \A c \in Checks : /\ At(c, "answer")' <=> At(c, "answer")
                             /\ At(c, "answer") => /\ go'[c].order = go[c].order
                                                   /\ go'[c].step = go[c].step,
           Futures /\ NoExitFilled => canceling' = {} /\ At(Loop, "idle")' /\ Running'
    PROVE  ExitStays' /\ OpenExitIsLast'
<1>1. model.placed # <<>> => Previous \in DOMAIN ord
  BY LastPlaced
<1>2. Previous' = Previous
  BY DEF Previous
<1>3. OpenExitIsLast'
  <2>1. ASSUME NEW j \in DOMAIN ord, ord'[j].status = "open", ord'[j].step = "TakeProfit"
        PROVE  \/ model.placed # <<>> /\ j = Previous
               \/ \E c \in Checks : At(c, "answer") /\ go[c].order = j
    BY <2>1 DEF OpenExitIsLast, Open
  <2> QED
    BY <1>2, <2>1 DEF OpenExitIsLast, Open
<1>4. ExitStays'
  <2> SUFFICES ASSUME Futures
               PROVE  ExitStays'
    BY DEF ExitStays
  <2>1. NoExitFilled' <=> NoExitFilled
    BY DEF NoExitFilled
  <2>2. world'.pos >= 0
    BY DEF ExitStays
  <2> SUFFICES ASSUME NoExitFilled, NoExitFilled'
               PROVE  ExitStays'
    BY <2>1, <2>2 DEF ExitStays
  <2>3. model'.entered \/ (\E j \in DOMAIN ord : ord'[j].status = "filled") => world'.pos >= 1
    BY DEF ExitStays
  <2>4. (\E j \in DOMAIN ord : ord'[j].step = "TakeProfit" /\ ord'[j].known) =>
           /\ model'.placed # <<>> /\ ord'[Previous].step = "TakeProfit"
           /\ ord'[Previous].status = "open"
    BY <1>1 DEF ExitStays
  <2>5. \A c \in Checks : At(c, "answer")' /\ go'[c].step = "TakeProfit" =>
           ord'[go'[c].order].status = "open"
    BY GoroutineKinds DEF ExitStays, Answers
  <2> QED
    BY <1>2, <2>2, <2>3, <2>4, <2>5 DEF ExitStays
<1> QED
  BY <1>3, <1>4

\* Orders are canceled behind the program's back once the entry is bought.
LEMMA CancelOrderStep ==
    ASSUME IInv, NEW k \in canceling, CancelOrder(k)
    PROVE  IInv'
<1>0. /\ TypeOK /\ Roles /\ Assigned /\ Orders /\ Answers /\ Placed
      /\ BeforeEntry /\ OneAtATime /\ EntryKnown /\ EdgeAbove /\ InOrder
      /\ ExitStays /\ OpenExitIsLast /\ Swept
  BY DEF IInv
<1>1. /\ ord' \in Seq(OrderType) /\ Len(ord') = Len(ord) /\ DOMAIN ord' = DOMAIN ord
      /\ \A j \in DOMAIN ord :
            /\ ord'[j].step = ord[j].step /\ ord'[j].known = ord[j].known
            /\ ord'[j].told = ord[j].told /\ ord'[j].market = ord[j].market
            /\ ord'[j].status = IF j \in {k} /\ ord[j].status = "open" THEN "canceled"
                                ELSE ord[j].status
  BY <1>0, Closes DEF CancelOrder
<1>2. /\ machine' = machine /\ model' = model /\ sm' = sm /\ go' = go /\ world' = world
      /\ canceling' = canceling \ {k} /\ setup' = setup /\ SpotMarket' = SpotMarket
      /\ Futures' = Futures
  BY SameSetup DEF CancelOrder
<1>3. TypeOK'
  BY <1>0, <1>1, <1>2 DEF TypeOK, OrderType
<1>4. model.entered
  BY <1>0 DEF BeforeEntry
<1>5. Roles' /\ Assigned' /\ Orders' /\ Answers' /\ Placed' /\ OneAtATime' /\ InOrder'
  BY <1>1, <1>2, QuietOrders
<1>6. BeforeEntry' /\ EntryKnown'
  BY <1>0, <1>1, <1>2, <1>4 DEF BeforeEntry, EntryKnown
<1>7. EdgeAbove'
  BY <1>0, <1>2 DEF EdgeAbove, At
<1>8. ExitStays'
  <2>1. NoExitFilled' => NoExitFilled
    BY <1>1 DEF NoExitFilled
  <2>2. Futures => ~NoExitFilled
    BY <1>0 DEF ExitStays
  <2> QED
    BY <1>0, <1>2, <2>1, <2>2 DEF ExitStays
<1>9. OpenExitIsLast'
  BY <1>0, <1>1, <1>2 DEF OpenExitIsLast, Open, At, Previous
<1>10. Swept'
  BY <1>0, <1>1, <1>2 DEF Swept, Open, At, Stopping, Calling, FiveSecondsLater
<1> QED
  BY <1>3, <1>5, <1>6, <1>7, <1>8, <1>9, <1>10 DEF IInv

-----------------------------------------------------------------------------
(* Order callbacks *)

\* An order that is heard of changes in this only.
LEMMA HearsOf ==
    ASSUME TypeOK, NEW k \in DOMAIN ord, Hears(k)
    PROVE  /\ ord' \in Seq(OrderType) /\ Len(ord') = Len(ord) /\ DOMAIN ord' = DOMAIN ord
           /\ ord[k].known /\ ord[k].status = "filled" /\ ord'[k].told
           /\ \A j \in DOMAIN ord :
                 /\ ord'[j].step = ord[j].step /\ ord'[j].known = ord[j].known
                 /\ ord'[j].market = ord[j].market /\ ord'[j].status = ord[j].status
                 /\ ord'[j].told => ord[j].told \/ j = k
<1> DEFINE o == [ord[k] EXCEPT !.told = TRUE]
<1>1. ord[k] \in OrderType
  BY OrdTyped
<1>2. /\ o \in OrderType /\ o.step = ord[k].step /\ o.known = ord[k].known
      /\ o.told /\ o.market = ord[k].market /\ o.status = ord[k].status
  BY <1>1 DEF OrderType
<1>3. ord' = [ord EXCEPT ![k] = o]
  BY DEF Hears
<1>4. ord[k].known /\ ord[k].status = "filled"
  BY DEF Hears
<1> HIDE DEF o, OrderType
<1>5. /\ ord' \in Seq(OrderType) /\ Len(ord') = Len(ord) /\ DOMAIN ord' = DOMAIN ord
      /\ ord'[k] = o /\ \A j \in DOMAIN ord : j # k => ord'[j] = ord[j]
  BY <1>1, <1>2, <1>3, ChangesOne
<1> QED
  BY <1>2, <1>4, <1>5

\* Nothing has been bought or sold before that is not known to be.
LEMMA HearNothingStep ==
    ASSUME IInv, NEW k \in DOMAIN ord, HearNothing(k)
    PROVE  IInv'
<1>0. /\ TypeOK /\ Roles /\ Assigned /\ Orders /\ Answers /\ Placed
      /\ BeforeEntry /\ OneAtATime /\ EntryKnown /\ EdgeAbove /\ InOrder
      /\ ExitStays /\ OpenExitIsLast /\ Swept
  BY DEF IInv
<1>1. /\ ord' \in Seq(OrderType) /\ Len(ord') = Len(ord) /\ DOMAIN ord' = DOMAIN ord
      /\ ord[k].known /\ ord[k].status = "filled"
      /\ \A j \in DOMAIN ord :
            /\ ord'[j].step = ord[j].step /\ ord'[j].known = ord[j].known
            /\ ord'[j].market = ord[j].market /\ ord'[j].status = ord[j].status
            /\ ord'[j].told => ord[j].told \/ j = k
  BY <1>0, HearsOf DEF HearNothing
<1>2. /\ machine' = machine /\ model' = model /\ sm' = sm /\ go' = go /\ world' = world
      /\ canceling' = canceling /\ setup' = setup /\ SpotMarket' = SpotMarket
      /\ Futures' = Futures
  BY SameSetup DEF HearNothing
<1>3. TypeOK'
  BY <1>0, <1>1, <1>2 DEF TypeOK, OrderType
<1>4. model.entered
  BY <1>0 DEF HearNothing, BeforeEntry
<1>5. Roles' /\ Assigned' /\ Orders' /\ Answers' /\ Placed' /\ OneAtATime' /\ InOrder'
  BY <1>1, <1>2, QuietOrders
<1>6. BeforeEntry' /\ EntryKnown'
  BY <1>0, <1>1, <1>2, <1>4 DEF BeforeEntry, EntryKnown
<1>7. EdgeAbove'
  BY <1>0, <1>2 DEF EdgeAbove, At
<1>8. ExitStays' /\ OpenExitIsLast'
  <2>1. Futures /\ NoExitFilled => canceling' = {} /\ At(Loop, "idle")' /\ Running'
    BY <1>0, <1>2 DEF ExitStays, Running, At
  <2> QED
    BY <1>0, <1>1, <1>2, <2>1, QuietExits DEF At
<1>9. Swept'
  BY <1>0, <1>1, <1>2 DEF Swept, Open, At, Stopping, Calling, FiveSecondsLater
<1> QED
  BY <1>3, <1>5, <1>6, <1>7, <1>8, <1>9 DEF IInv

\* All is sold.
LEMMA HearExitStep ==
    ASSUME IInv, NEW k \in DOMAIN ord, HearExit(k)
    PROVE  IInv'
<1>0. /\ TypeOK /\ Roles /\ Assigned /\ Orders /\ Answers /\ Placed
      /\ BeforeEntry /\ OneAtATime /\ EntryKnown /\ EdgeAbove /\ InOrder
      /\ ExitStays /\ OpenExitIsLast /\ Swept
  BY DEF IInv
<1>1. /\ ord' \in Seq(OrderType) /\ Len(ord') = Len(ord) /\ DOMAIN ord' = DOMAIN ord
      /\ ord[k].known /\ ord[k].status = "filled"
      /\ \A j \in DOMAIN ord :
            /\ ord'[j].step = ord[j].step /\ ord'[j].known = ord[j].known
            /\ ord'[j].market = ord[j].market /\ ord'[j].status = ord[j].status
            /\ ord'[j].told => ord[j].told \/ j = k
  BY <1>0, HearsOf DEF HearExit
<1>2. /\ machine' = "End" /\ sm' = sm /\ go' = go /\ world' = world
      /\ canceling' = canceling /\ setup' = setup /\ SpotMarket' = SpotMarket
      /\ Futures' = Futures /\ ord[k].step \notin Entries
  BY SameSetup DEF HearExit
<1>3. /\ model'.placed = model.placed /\ model'.orders = model.orders
      /\ model'.entered = model.entered
  BY <1>0 DEF HearExit, TypeOK
<1>4. TypeOK'
  <2>1. model' \in ModelType
    <3>1. model \in ModelType /\ model.executed \in Nat /\ model.position \in Int
      BY <1>0, Typed DEF ModelType
    <3>2. model.executed + Amount \in Nat /\ model.position - Amount \in Int
      BY <3>1 DEF Amount
    <3>3. model' = [model EXCEPT !.executed = @ + Amount, !.position = @ - Amount, !.state = "End"]
      BY DEF HearExit
    <3> QED
      BY <3>1, <3>2, <3>3 DEF ModelType, MachineStates
  <2>2. go' \in [Goroutines -> GoType]
    BY <1>0, <1>2, GoTyped
  <2> QED
    BY <1>0, <1>1, <1>2, <2>1, <2>2, Typed, TypedNext DEF MachineStates
<1>5. model.entered
  BY <1>0, <1>2 DEF BeforeEntry, Entries
<1>6. Roles' /\ Assigned' /\ Orders' /\ Answers' /\ Placed' /\ OneAtATime' /\ InOrder'
  BY <1>1, <1>2, <1>3, QuietOrders
<1>7. BeforeEntry' /\ EntryKnown' /\ EdgeAbove'
  BY <1>2, <1>3, <1>5 DEF BeforeEntry, EntryKnown, EdgeAbove
<1>8. ExitStays'
  BY <1>0, <1>1, <1>2 DEF ExitStays, NoExitFilled
<1>9. OpenExitIsLast'
  BY <1>0, <1>1, <1>2, <1>3 DEF OpenExitIsLast, Open, At, Previous
<1>10. Swept'
  BY <1>0, <1>1, <1>2 DEF Swept, Open, At, Stopping, Calling, FiveSecondsLater
<1> QED
  BY <1>4, <1>6, <1>7, <1>8, <1>9, <1>10 DEF IInv

-----------------------------------------------------------------------------
(* The entry *)

\* The empty sequence has no elements.
LEMMA EmptyDomain == DOMAIN <<>> = {}
<1>1. <<>> \in Seq({}) /\ Len(<<>>) = 0
  BY EmptySeq
<1>2. DOMAIN <<>> = 1 .. 0
  BY <1>1, LenProperties
<1> QED
  BY <1>2

\* enterEntry starts the goroutine that places the stop loss, or the entry of a spot
\* order, and forgets the orders of the entry.
LEMMA EnterEntryFacts ==
    ASSUME TypeOK, NEW m \in ModelType, EnterEntry(m)
    PROVE  /\ machine' = "InEntry" /\ model' \in ModelType
           /\ model'.entered /\ model'.placed = <<>> /\ model'.state = "InEntry"
           /\ model'.orders = m.orders /\ model'.enabled = m.enabled
           /\ go' \in [Goroutines -> GoType] /\ go'[Enterer].at = "send"
           /\ go'[Enterer].step = IF Futures THEN "Stoploss" ELSE "InEntry"
           /\ go'[Enterer].market = go[Enterer].market
           /\ \A g \in Goroutines : g # Enterer => go'[g] = go[g]
<1>1. model' = [m EXCEPT !.state = "InEntry", !.entered = TRUE, !.edge = 0, !.placed = <<>>]
  BY DEF EnterEntry
<1>2. <<>> \in Seq(OrderIds)
  BY EmptySeq
<1>3. /\ model' \in ModelType
      /\ model'.entered /\ model'.placed = <<>> /\ model'.state = "InEntry"
      /\ model'.orders = m.orders /\ model'.enabled = m.enabled
  BY <1>1, <1>2 DEF ModelType, MachineStates
<1> DEFINE step == IF Futures THEN "Stoploss" ELSE "InEntry"
<1>4. go' = Calls(Enterer, "send", step) /\ machine' = "InEntry"
  BY DEF EnterEntry
<1>5. step \in Steps /\ "send" \in Places
  BY DEF Steps, Places
<1> HIDE DEF step
<1>6. /\ go' \in [Goroutines -> GoType] /\ go'[Enterer].at = "send"
      /\ go'[Enterer].step = step /\ go'[Enterer].market = go[Enterer].market
      /\ \A g \in Goroutines : g # Enterer => go'[g] = go[g]
  BY <1>4, <1>5, Begins, GoroutineKinds
<1> QED
  BY <1>3, <1>4, <1>6 DEF step

\* The entry is bought: from here on the goroutine that enters is busy, and the checks
\* of the entry find no order placed before.
LEMMA EnterStep ==
    ASSUME IInv, NEW m \in ModelType, m.orders = model.orders, m.enabled = model.enabled,
           EnterEntry(m), ~model.entered,
           sm' = sm, canceling' = canceling, world' = world,
           ord' \in Seq(OrderType), Len(ord') = Len(ord), DOMAIN ord' = DOMAIN ord,
           \A j \in DOMAIN ord :
              /\ ord'[j].step = ord[j].step /\ ord'[j].known = ord[j].known
              /\ ord'[j].market = ord[j].market /\ ord'[j].status = ord[j].status
              /\ ord'[j].told => ord[j].told \/ (ord[j].known /\ ord[j].status = "filled"),
           SpotMarket \/ \E k \in DOMAIN ord : ord[k].status = "filled"
    PROVE  IInv'
<1>0. /\ TypeOK /\ Roles /\ Assigned /\ Orders /\ Answers /\ Placed
      /\ BeforeEntry /\ OneAtATime /\ EntryKnown /\ EdgeAbove /\ InOrder
      /\ ExitStays /\ OpenExitIsLast /\ Swept
  BY DEF IInv
<1>1. /\ machine' = "InEntry" /\ model' \in ModelType
      /\ model'.entered /\ model'.placed = <<>> /\ model'.state = "InEntry"
      /\ model'.orders = model.orders /\ model'.enabled = model.enabled
      /\ go' \in [Goroutines -> GoType] /\ go'[Enterer].at = "send"
      /\ go'[Enterer].step = IF Futures THEN "Stoploss" ELSE "InEntry"
      /\ go'[Enterer].market = go[Enterer].market
      /\ \A g \in Goroutines : g # Enterer => go'[g] = go[g]
  BY <1>0, EnterEntryFacts
<1>2. setup' = setup /\ SpotMarket' = SpotMarket /\ Futures' = Futures
  BY SameSetup
<1>3. /\ At(Loop, "idle") /\ At(Enterer, "idle") /\ canceling = {} /\ model.enabled
      /\ \A k \in DOMAIN ord : ord[k].step = "TrailingEntry"
      /\ \A c \in Checks : Started(c) => IsEntry(c)
  BY <1>0 DEF BeforeEntry
<1>4. /\ go'[Loop] = go[Loop] /\ go'[Loop].at = "idle" /\ go[Enterer].at = "idle"
      /\ \A c \in Checks : go'[c] = go[c]
  BY <1>1, <1>3, GoroutineKinds DEF At
<1>5. TypeOK'
  BY <1>0, <1>1, TypedNext, Typed DEF MachineStates
<1>6. Roles'
  BY <1>0, <1>1, <1>4 DEF Roles
<1>7. Assigned'
  <2>1. \A c \in Checks :
           /\ At(c, "nap")' \/ At(c, "cancelFirst")' => go'[c].step \in {"TrailingEntry", "TakeProfit"}
           /\ Futures /\ At(c, "cancelFirst")' => IsEntry(c)'
           /\ Calling(c)' => go'[c].step \in {"TrailingEntry", "TakeProfit", "Canceled"}
           /\ SpotMarket /\ Started(c)' => ~IsEntry(c)'
           /\ At(c, "nap")' => go'[c].price \in setup.prices
    BY <1>0, <1>4 DEF Assigned, Calling, Started, Working, At, IsEntry
  <2>2. \A g \in Goroutines : go'[g].market => g \in Checks /\ IsEntry(g)' /\ Working(g)'
    BY <1>0, <1>1, <1>4, GoroutineKinds DEF Assigned, Working, IsEntry
  <2> QED
    BY <1>1, <1>2, <1>4, <2>1, <2>2 DEF Assigned, Calling, At
<1>8. Orders'
  BY <1>0, <1>1, <1>2 DEF Orders
<1>9. Answers'
  <2>1. \A g \in Goroutines : /\ At(g, "answer")' <=> At(g, "answer")
                              /\ At(g, "answer") => go'[g] = go[g]
    BY <1>1, <1>4 DEF At
  <2>2. \A g \in Goroutines : At(g, "answer") =>
           /\ go'[g].order \in DOMAIN ord' /\ ~ord'[go'[g].order].known
           /\ ord'[go'[g].order].step = go'[g].step
           /\ ord'[go'[g].order].market <=> IsMarket(g)'
    BY <1>0, <1>2, <2>1 DEF Answers, IsMarket
  <2> QED
    BY <1>0, <2>1, <2>2 DEF Answers
<1>10. Placed'
  BY <1>0, <1>1, <1>4, EmptyDomain DEF Placed, At
<1>11. BeforeEntry' /\ EntryKnown' /\ EdgeAbove'
  BY <1>1 DEF BeforeEntry, EntryKnown, EdgeAbove
<1>12. OneAtATime'
  BY <1>0, <1>2, <1>4 DEF OneAtATime, Working
<1>13. InOrder'
  <2>1. \A c \in Checks : /\ \A place : At(c, place)' <=> At(c, place)
                          /\ Working(c)' <=> Working(c)
                          /\ Started(c)' <=> Started(c)
                          /\ IsEntry(c)' <=> IsEntry(c)
    BY <1>4 DEF At, Working, Started, IsEntry
  <2> QED
    BY <1>0, <1>4, <2>1 DEF InOrder
<1>14. ExitStays'
  <2> SUFFICES ASSUME Futures
               PROVE  ExitStays'
    BY <1>2 DEF ExitStays
  <2>1. NoExitFilled
    BY <1>3 DEF NoExitFilled, Entries
  <2>2. \E k \in DOMAIN ord : ord[k].status = "filled"
    BY <1>0, SetupFacts, Typed
  <2>3. world'.pos >= 1 /\ world'.pos >= 0
    BY <1>0, <2>1, <2>2 DEF ExitStays
  <2>4. Running'
    BY <1>1, <1>3 DEF Running
  <2>5. \A c \in Checks : At(c, "answer")' => go'[c].step # "TakeProfit"
    BY <1>3, <1>4 DEF At, Started, Working, IsEntry
  <2> QED
    BY <1>3, <1>4, <2>3, <2>4, <2>5 DEF ExitStays, At
<1>15. OpenExitIsLast'
  BY <1>3 DEF OpenExitIsLast, Open
<1>16. Swept'
  BY <1>0, <1>4 DEF Swept, Stopping, At, Calling
<1> QED
  BY <1>5, <1>6, <1>7, <1>8, <1>9, <1>10, <1>11, <1>12, <1>13, <1>14, <1>15, <1>16 DEF IInv

\* The fill of the entry is heard of.
LEMMA HearEntryStep ==
    ASSUME IInv, NEW k \in DOMAIN ord, HearEntry(k)
    PROVE  IInv'
<1>0. TypeOK
  BY DEF IInv
<1> DEFINE m == [model EXCEPT !.position = @ + Amount]
<1>1. m \in ModelType /\ m.orders = model.orders /\ m.enabled = model.enabled
  <2>1. model \in ModelType /\ model.position \in Int
    BY <1>0, Typed DEF ModelType
  <2>2. model.position + Amount \in Int
    BY <2>1 DEF Amount
  <2> QED
    BY <2>1, <2>2 DEF ModelType
<1>2. EnterEntry(m) /\ ~model.entered /\ Hears(k)
  BY DEF HearEntry
<1>3. sm' = sm /\ canceling' = canceling /\ world' = world
  BY DEF HearEntry
<1> HIDE DEF m
<1>4. /\ ord' \in Seq(OrderType) /\ Len(ord') = Len(ord) /\ DOMAIN ord' = DOMAIN ord
      /\ ord[k].known /\ ord[k].status = "filled"
      /\ \A j \in DOMAIN ord :
            /\ ord'[j].step = ord[j].step /\ ord'[j].known = ord[j].known
            /\ ord'[j].market = ord[j].market /\ ord'[j].status = ord[j].status
            /\ ord'[j].told => ord[j].told \/ j = k
  BY <1>0, <1>2, HearsOf
<1> QED
  BY <1>1, <1>2, <1>3, <1>4, EnterStep

\* A spot market entry is due in the turn that sees it activated.
LEMMA EnterOnSpotStep ==
    ASSUME IInv, NEW price, EnterOnSpot(price)
    PROVE  IInv'
<1>0. TypeOK /\ BeforeEntry
  BY DEF IInv
<1>1. model \in ModelType /\ ord \in Seq(OrderType)
  BY <1>0, Typed, OrdTyped
<1>2. /\ EnterEntry(model) /\ SpotMarket /\ machine = "TrailingEntry"
      /\ sm' = sm /\ canceling' = canceling /\ world' = world /\ ord' = ord
  BY DEF EnterOnSpot, TurnBegins
<1>3. ~model.entered
  BY <1>0, <1>2 DEF BeforeEntry
<1> QED
  BY <1>1, <1>2, <1>3, EnterStep

-----------------------------------------------------------------------------
(* The event loop *)

\* The price activates the entry: nothing is under way yet.
LEMMA ActivateStep ==
    ASSUME IInv, NEW price, Activate(price)
    PROVE  IInv'
<1>0. /\ TypeOK /\ Roles /\ Assigned /\ Orders /\ Answers /\ Placed
      /\ BeforeEntry /\ OneAtATime /\ EntryKnown /\ EdgeAbove /\ InOrder
      /\ ExitStays /\ OpenExitIsLast /\ Swept
  BY DEF IInv
<1>1. /\ machine = "WaitForEntry" /\ machine' = "TrailingEntry"
      /\ sm' = sm /\ ord' = ord /\ canceling' = canceling /\ world' = world /\ go' = go
      /\ model' = [model EXCEPT !.state = "TrailingEntry"]
      /\ setup' = setup /\ SpotMarket' = SpotMarket /\ Futures' = Futures
  BY SameSetup DEF Activate, TurnBegins
<1>2. /\ model' \in ModelType /\ model'.placed = model.placed /\ model'.orders = model.orders
      /\ model'.entered = model.entered /\ model'.enabled = model.enabled
      /\ model'.state = "TrailingEntry"
  BY <1>0, <1>1, Typed DEF ModelType, MachineStates
<1>3. TypeOK'
  BY <1>0, <1>1, <1>2, Typed, TypedNext, OrdTyped, GoTyped DEF MachineStates
<1>4. Roles' /\ Assigned' /\ Orders' /\ Answers' /\ Placed' /\ OneAtATime' /\ InOrder'
  BY <1>1, <1>2, QuietOrders
<1>5. BeforeEntry'
  BY <1>0, <1>1, <1>2 DEF BeforeEntry, At, Started, Working, IsEntry
<1>6. EntryKnown'
  BY <1>0, <1>1, <1>2 DEF EntryKnown, Live, Last, NoMarket, Previous, At, Working
<1>7. EdgeAbove'
  BY <1>0, <1>1 DEF EdgeAbove, BeforeEntry, At
<1>8. ExitStays' /\ OpenExitIsLast'
  <2>1. Futures /\ NoExitFilled => canceling' = {} /\ At(Loop, "idle")' /\ Running'
    BY <1>0, <1>1, <1>2 DEF ExitStays, Running, At
  <2> QED
    BY <1>0, <1>1, <1>2, <2>1, QuietExits DEF At
<1>9. Swept'
  BY <1>0, <1>1, <1>2 DEF Swept, Open, At, Stopping, Calling, FiveSecondsLater
<1> QED
  BY <1>3, <1>4, <1>5, <1>6, <1>7, <1>8, <1>9 DEF IInv

\* The exit level is reached.
LEMMA ActivateExitStep ==
    ASSUME IInv, NEW price \in setup.prices, ActivateExit(price)
    PROVE  IInv'
<1>0. /\ TypeOK /\ Roles /\ Assigned /\ Orders /\ Answers /\ Placed
      /\ BeforeEntry /\ OneAtATime /\ EntryKnown /\ EdgeAbove /\ InOrder
      /\ ExitStays /\ OpenExitIsLast /\ Swept
  BY DEF IInv
<1>1. /\ machine \in {"InEntry", "TakeProfit"} /\ machine' = machine
      /\ sm' = sm /\ ord' = ord /\ canceling' = canceling /\ world' = world /\ go' = go
      /\ model' = [model EXCEPT !.exits = <<price>>]
      /\ setup' = setup /\ SpotMarket' = SpotMarket /\ Futures' = Futures
  BY SameSetup DEF ActivateExit, TurnBegins
<1>2. /\ model' \in ModelType /\ model'.placed = model.placed /\ model'.orders = model.orders
      /\ model'.entered = model.entered /\ model'.enabled = model.enabled
      /\ model'.state = model.state
  <2>1. <<price>> \in ExitPrices
    BY DEF ExitPrices
  <2> QED
    BY <1>0, <1>1, <2>1, Typed DEF ModelType
<1>3. TypeOK'
  BY <1>0, <1>1, <1>2, Typed, TypedNext, OrdTyped, GoTyped
<1>4. Roles' /\ Assigned' /\ Orders' /\ Answers' /\ Placed' /\ OneAtATime' /\ InOrder'
  BY <1>1, <1>2, QuietOrders
<1>5. BeforeEntry' /\ EntryKnown' /\ EdgeAbove'
  BY <1>0, <1>1, <1>2 DEF BeforeEntry, EntryKnown, EdgeAbove
<1>6. ExitStays' /\ OpenExitIsLast'
  <2>1. Futures /\ NoExitFilled => canceling' = {} /\ At(Loop, "idle")' /\ Running'
    BY <1>0, <1>1, <1>2 DEF ExitStays, Running, At
  <2> QED
    BY <1>0, <1>1, <1>2, <2>1, QuietExits DEF At
<1>7. Swept'
  BY <1>0, <1>1, <1>2 DEF Swept, Open, At, Stopping, Calling, FiveSecondsLater
<1> QED
  BY <1>3, <1>4, <1>5, <1>6, <1>7 DEF IInv

\* A goroutine is where its kind can be, and places what its kind can.
InPlace(g) ==
    /\ g = Loop => /\ go[g].at \in {"idle", "send", "answer", "move", "stop"}
                   /\ Calling(g) => \/ go[g].step = "Canceled"
                                    \/ SpotMarket /\ go[g].step = "TakeProfit"
                   /\ At(g, "move") => SpotMarket
    /\ g = Enterer => /\ go[g].at \in {"idle", "send", "answer"}
                      /\ Calling(g) => IF Futures THEN go[g].step \in {"Stoploss", "Canceled"}
                                                  ELSE go[g].step = "InEntry"
    /\ g \in Checks =>
          /\ go[g].at \in {"not yet", "idle", "nap", "cancelFirst", "send", "answer", "hold"}
          /\ At(g, "nap") \/ At(g, "cancelFirst") => go[g].step \in {"TrailingEntry", "TakeProfit"}
          /\ Futures /\ At(g, "cancelFirst") => IsEntry(g)
          /\ Calling(g) => go[g].step \in {"TrailingEntry", "TakeProfit", "Canceled"}
          /\ SpotMarket /\ Started(g) => ~IsEntry(g)
          /\ At(g, "nap") => go[g].price \in setup.prices
    /\ go[g].market => g \in Checks /\ IsEntry(g) /\ Working(g)

\* Roles and Assigned, for one goroutine.
LEMMA InPlaceNow ==
    ASSUME Roles, Assigned, NEW g \in Goroutines
    PROVE  InPlace(g)
<1>1. CASE g = Loop
  BY <1>1, GoroutineKinds DEF Roles, Assigned, InPlace
<1>2. CASE g = Enterer
  BY <1>2, GoroutineKinds DEF Roles, Assigned, InPlace
<1>3. CASE g \in Checks
  BY <1>3, GoroutineKinds DEF Roles, Assigned, InPlace
<1> QED
  BY <1>1, <1>2, <1>3, GoroutineKinds

\* Roles and Assigned, from every goroutine's part.
LEMMA InPlaceNext ==
    ASSUME \A g \in Goroutines : InPlace(g)'
    PROVE  Roles' /\ Assigned'
<1>1. InPlace(Loop)' /\ InPlace(Enterer)' /\ \A c \in Checks : InPlace(c)'
  BY GoroutineKinds
<1>2. Roles'
  BY <1>1, GoroutineKinds DEF InPlace, Roles
<1>3. Assigned'
  BY <1>1, GoroutineKinds DEF InPlace, Assigned
<1> QED
  BY <1>2, <1>3

\* One goroutine moves, without an answer that arrives or is due.
LEMMA QuietMove ==
    ASSUME IInv, NEW g \in Goroutines, \A h \in Goroutines : h # g => go'[h] = go[h],
           InPlace(g)', ~At(g, "answer"), ~At(g, "answer")',
           At(g, "cancelFirst")' => go'[g].order \in DOMAIN ord /\ ord[go'[g].order].known,
           ord' = ord, world'.setup = world.setup,
           model'.placed = model.placed, model'.orders = model.orders
    PROVE  Roles' /\ Assigned' /\ Orders' /\ Answers' /\ Placed'
<1>0. Roles /\ Assigned /\ Orders /\ Answers /\ Placed
  BY DEF IInv
<1>1. setup' = setup /\ SpotMarket' = SpotMarket /\ Futures' = Futures
  BY SameSetup
<1>2. Roles' /\ Assigned'
  <2>1. ASSUME NEW h \in Goroutines, h # g
        PROVE  InPlace(h)'
    <3>1. InPlace(h) /\ go'[h] = go[h]
      BY <1>0, <2>1, InPlaceNow
    <3> QED
      BY <1>1, <3>1 DEF InPlace, At, Calling, Started, Working, IsEntry
  <2>2. \A h \in Goroutines : InPlace(h)'
    BY <2>1
  <2> QED
    BY <2>2, InPlaceNext
<1>3. Orders'
  BY <1>0, <1>1 DEF Orders
<1>4. \A h \in Goroutines : /\ At(h, "answer")' <=> At(h, "answer")
                            /\ At(h, "answer") => go'[h] = go[h]
  BY DEF At
<1>5. Answers'
  BY <1>0, <1>1, <1>4 DEF Answers, IsMarket
<1>6. Placed'
  BY <1>0, GoroutineKinds DEF Placed, At
<1> QED
  BY <1>2, <1>3, <1>5, <1>6

\* What starting a check keeps, whatever it is for.
LEMMA StartStep ==
    ASSUME IInv, NEW price \in setup.prices, NEW step \in {"TrailingEntry", "TakeProfit"},
           NEW m \in ModelType, GoCheck(price, step, m),
           step = "TrailingEntry" => machine = "TrailingEntry" /\ ~SpotMarket,
           step = "TakeProfit" => model.entered,
           m.placed = model.placed, m.orders = model.orders, m.entered = model.entered,
           m.enabled = model.enabled, m.state = model.state,
           machine = "TrailingEntry" =>
              /\ price <= m.edge
              /\ \A d \in Checks : At(d, "nap") => go[d].price <= m.edge,
           At(Loop, "idle"), machine' = machine,
           sm' = sm, ord' = ord, canceling' = canceling, world' = world
    PROVE  IInv'
<1>0. /\ TypeOK /\ Roles /\ Assigned /\ Orders /\ Answers /\ Placed
      /\ BeforeEntry /\ OneAtATime /\ EntryKnown /\ EdgeAbove /\ InOrder
      /\ ExitStays /\ OpenExitIsLast /\ Swept
  BY DEF IInv
<1>a. /\ model' \in ModelType
      /\ model'.placed = m.placed /\ model'.orders = m.orders /\ model'.edge = m.edge
      /\ model'.entered = m.entered /\ model'.enabled = m.enabled /\ model'.state = m.state
      /\ go' \in [Goroutines -> GoType]
      /\ \E c \in Checks :
            /\ At(c, "not yet") /\ \A d \in Checks : d < c => ~At(d, "not yet")
            /\ go'[c].at = "nap" /\ go'[c].step = step /\ go'[c].price = price
            /\ go'[c].market = FALSE
            /\ \A g \in Goroutines : g # c => go'[g] = go[g]
  <2>a. PICK c : c = Min(NextCheck)
    OBVIOUS
  <2>1. world.setup \in Setups /\ NextCheck # {}
    BY <1>0, Typed DEF GoCheck
  <2>2. c \in Checks /\ At(c, "not yet") /\ \A d \in Checks : d < c => ~At(d, "not yet")
    BY <2>a, <2>1, FirstOfNext
  <2> DEFINE r == [Idle EXCEPT !.at = "nap", !.step = step, !.price = price]
  <2>3. model' = [m EXCEPT !.checkAt = c] /\ go' = [go EXCEPT ![c] = r]
    BY <2>a DEF GoCheck
  <2>4. r \in GoType /\ r.at = "nap" /\ r.step = step /\ r.price = price /\ r.market = FALSE
    <3>1. price \in Nat
      BY <2>1, SetupFacts
    <3> QED
      BY <3>1 DEF Idle, GoType, Places, Steps
  <2> HIDE DEF r
  <2>5. /\ model' \in ModelType
        /\ model'.placed = m.placed /\ model'.orders = m.orders /\ model'.edge = m.edge
        /\ model'.entered = m.entered /\ model'.enabled = m.enabled /\ model'.state = m.state
    BY <2>2, <2>3 DEF ModelType
  <2>6. go \in [Goroutines -> GoType] /\ c \in Goroutines
    BY <1>0, <2>2, GoTyped, GoroutineKinds
  <2>7. /\ go' \in [Goroutines -> GoType] /\ go'[c] = r
        /\ \A g \in Goroutines : g # c => go'[g] = go[g]
    BY <2>3, <2>4, <2>6
  <2> QED
    BY <2>2, <2>4, <2>5, <2>7
<1>b. PICK c \in Checks :
            /\ At(c, "not yet") /\ \A d \in Checks : d < c => ~At(d, "not yet")
            /\ go'[c].at = "nap" /\ go'[c].step = step /\ go'[c].price = price
            /\ go'[c].market = FALSE
            /\ \A g \in Goroutines : g # c => go'[g] = go[g]
  BY <1>a
<1>1. /\ c \in Checks
      /\ At(c, "not yet") /\ \A d \in Checks : d < c => ~At(d, "not yet")
      /\ model' \in ModelType
      /\ model'.placed = m.placed /\ model'.orders = m.orders /\ model'.edge = m.edge
      /\ model'.entered = m.entered /\ model'.enabled = m.enabled /\ model'.state = m.state
      /\ go' \in [Goroutines -> GoType]
      /\ go'[c].at = "nap" /\ go'[c].step = step /\ go'[c].price = price
      /\ go'[c].market = FALSE
      /\ \A g \in Goroutines : g # c => go'[g] = go[g]
  BY <1>a, <1>b
<1>2. /\ setup' = setup /\ SpotMarket' = SpotMarket /\ Futures' = Futures
      /\ c \in Goroutines /\ c # Loop /\ c # Enterer /\ go'[Loop] = go[Loop]
      /\ go'[Enterer] = go[Enterer]
  BY <1>1, SameSetup, GoroutineKinds
<1>3. TypeOK'
  BY <1>0, <1>1, Typed, TypedNext, OrdTyped
<1>4. /\ \A d \in Checks : d # c =>
            /\ \A place : At(d, place)' <=> At(d, place)
            /\ Working(d)' <=> Working(d)
            /\ Started(d)' <=> Started(d)
            /\ IsEntry(d)' <=> IsEntry(d)
      /\ ~Working(c) /\ ~Working(c)' /\ At(c, "nap")' /\ ~At(c, "not yet")'
      /\ \A place \in {"cancelFirst", "send", "answer", "hold"} : ~At(c, place)'
      /\ IsEntry(c)' <=> step = "TrailingEntry"
  BY <1>1, GoroutineKinds DEF At, Working, Started, IsEntry
<1>5. Roles' /\ Assigned' /\ Orders' /\ Answers' /\ Placed'
  <2>1. InPlace(c)'
    BY <1>1, <1>2 DEF InPlace, At, Calling, Started, Working, IsEntry
  <2>2. ~At(c, "answer") /\ ~At(c, "answer")' /\ ~At(c, "cancelFirst")'
    BY <1>1 DEF At
  <2> QED
    BY <1>1, <1>2, <2>1, <2>2, QuietMove
<1>6. BeforeEntry'
  <2>1. ~model.entered => /\ step = "TrailingEntry"
                          /\ \A d \in Checks : Started(d)' => IsEntry(d)'
    BY <1>0, <1>4 DEF BeforeEntry
  <2>2. machine # "WaitForEntry"
    BY <1>0 DEF BeforeEntry
  <2> QED
    BY <1>0, <1>1, <1>2, <2>1, <2>2 DEF BeforeEntry, At
<1>7. OneAtATime'
  BY <1>0, <1>2, <1>4 DEF OneAtATime
<1>8. EntryKnown'
  <2>1. Live' = Live /\ Last' = Last /\ (NoMarket' <=> NoMarket)
    BY <1>1 DEF Live, Last, NoMarket, Previous
  <2>2. \A d \in Checks : Working(d)' <=> Working(d)
    BY <1>4
  <2>3. \A d \in Checks : Working(d)' => go'[d] = go[d]
    BY <1>1, <1>4, GoroutineKinds
  <2>4. \A d \in Checks, place \in {"cancelFirst", "send", "answer", "hold"} :
           At(d, place)' => At(d, place) /\ go'[d] = go[d]
    BY <1>1, <1>4, GoroutineKinds
  <2> QED
    BY <1>0, <1>1, <2>1, <2>2, <2>4 DEF EntryKnown
<1>9. EdgeAbove'
  BY <1>1, <1>4, GoroutineKinds DEF EdgeAbove
<1>10. InOrder'
  <2>1. \A a, d \in Checks : At(a, "not yet")' /\ a <= d => At(d, "not yet")'
    <3>1. ASSUME NEW a \in Checks, NEW d \in Checks, At(a, "not yet")', a <= d
          PROVE  At(d, "not yet")'
      <4>1. a # c /\ At(a, "not yet") /\ At(d, "not yet")
        BY <1>0, <1>4, <3>1 DEF InOrder
      <4>2. a \in Nat /\ d \in Nat /\ c \in Nat
        BY <1>1, <3>1, GoroutineKinds
      <4>3. ~(a < c)
        BY <1>1, <4>1
      <4>4. d # c
        <5>1. a <= d /\ a # c
          BY <3>1, <4>1
        <5> QED
          BY <4>2, <4>3, <5>1
      <4> QED
        BY <1>4, <4>1, <4>4
    <3> QED
      BY <3>1
  <2>2. \A a, d \in Checks :
           At(a, "nap")' /\ go'[a].step = "TakeProfit" /\ At(d, "nap")' /\ IsEntry(d)' => d < a
    <3>1. ASSUME NEW a \in Checks, NEW d \in Checks, At(a, "nap")', go'[a].step = "TakeProfit",
                 At(d, "nap")', IsEntry(d)'
          PROVE  d < a
      <4>1. CASE a # c /\ d # c
        BY <1>0, <1>1, <1>4, <3>1, <4>1, GoroutineKinds DEF InOrder
      <4>2. CASE d = c
        <5>1. ~model.entered /\ a # c
          BY <1>0, <1>1, <1>4, <3>1, <4>2 DEF BeforeEntry
        <5>2. go[a].step = "TrailingEntry"
          BY <1>0, <1>4, <3>1, <5>1 DEF BeforeEntry, Started, IsEntry
        <5> QED
          BY <1>1, <3>1, <5>1, <5>2, GoroutineKinds
      <4>3. CASE a = c /\ d # c
        <5>0. c \in Nat /\ d \in Nat
          BY <1>1, <3>1, GoroutineKinds
        <5>1. ~At(d, "not yet")
          BY <1>4, <3>1, <4>3 DEF At
        <5>2. ~(c <= d)
          BY <1>0, <1>1, <5>1 DEF InOrder
        <5> QED
          BY <4>3, <5>0, <5>2
      <4> QED
        BY <4>1, <4>2, <4>3
    <3> QED
      BY <3>1
  <2>3. \A d \in Checks : Started(d)' /\ IsEntry(d)' =>
           /\ \A k \in DOMAIN ord : ord[k].step # "TakeProfit"
           /\ \A a \in Checks : Working(a)' => go'[a].step # "TakeProfit"
    <3>1. ASSUME NEW d \in Checks, Started(d)', IsEntry(d)'
          PROVE  /\ \A k \in DOMAIN ord : ord[k].step # "TakeProfit"
                 /\ \A a \in Checks : Working(a) => go[a].step # "TakeProfit"
      <4>1. CASE d # c
        BY <1>0, <1>4, <3>1, <4>1 DEF InOrder
      <4>2. CASE d = c
        BY <1>0, <1>4, <3>1, <4>2 DEF BeforeEntry, Started, IsEntry
      <4> QED
        BY <4>1, <4>2
    <3> QED
      BY <1>1, <1>4, <3>1, GoroutineKinds
  <2> QED
    BY <2>1, <2>2, <2>3 DEF InOrder
<1>11. ExitStays' /\ OpenExitIsLast'
  <2>1. Futures /\ NoExitFilled => canceling' = {} /\ At(Loop, "idle")' /\ Running'
    BY <1>0, <1>1, <1>2 DEF ExitStays, Running, At
  <2>2. \A d \in Checks : /\ At(d, "answer")' <=> At(d, "answer")
                          /\ At(d, "answer") => go'[d] = go[d]
    BY <1>1, <1>4, GoroutineKinds DEF Working, At
  <2> QED
    BY <1>0, <1>1, <1>2, <2>1, <2>2, QuietExits
<1>12. Swept'
  BY <1>0, <1>2 DEF Swept, Stopping, At, Calling
<1> QED
  BY <1>3, <1>5, <1>6, <1>7, <1>8, <1>9, <1>10, <1>11, <1>12 DEF IInv

\* A better price of the entry: the new check's is no worse than the edge.
LEMMA TrailEntryStep ==
    ASSUME IInv, NEW price \in setup.prices, TrailEntry(price)
    PROVE  IInv'
<1>0. TypeOK /\ BeforeEntry /\ EdgeAbove /\ Assigned
  BY DEF IInv
<1> DEFINE m == [model EXCEPT !.edge = IF @ = 0 THEN price ELSE @]
<1>1. /\ machine = "TrailingEntry" /\ ~SpotMarket /\ At(Loop, "idle") /\ ~sm.lock
      /\ model.edge = 0 \/ price < model.edge
      /\ GoCheck(price, "TrailingEntry", m)
      /\ machine' = machine /\ sm' = sm /\ ord' = ord /\ canceling' = canceling /\ world' = world
  BY DEF TrailEntry, TurnBegins
<1>2. price \in Nat /\ setup.prices \subseteq Nat \ {0}
  BY <1>0, Typed, SetupFacts
<1>3. /\ m \in ModelType /\ model.edge \in Nat
      /\ m.placed = model.placed /\ m.orders = model.orders /\ m.entered = model.entered
      /\ m.enabled = model.enabled /\ m.state = model.state
      /\ m.edge = IF model.edge = 0 THEN price ELSE model.edge
  BY <1>0, <1>2, Typed DEF ModelType
<1> HIDE DEF m
<1>4. \A d \in Checks : At(d, "nap") => go[d].price \in Nat \ {0} /\ go[d].price <= model.edge
  BY <1>0, <1>1, <1>2 DEF Assigned, EdgeAbove
<1>5. price <= m.edge /\ \A d \in Checks : At(d, "nap") => go[d].price <= m.edge
  BY <1>1, <1>2, <1>3, <1>4
<1> QED
  BY <1>1, <1>3, <1>5, StartStep

\* A new maximum of the exit.
LEMMA TrailExitStep ==
    ASSUME IInv, NEW price \in setup.prices, TrailExit(price)
    PROVE  IInv'
<1>0. TypeOK /\ BeforeEntry
  BY DEF IInv
<1> DEFINE m == [model EXCEPT !.exits = <<price>>]
<1>1. /\ machine \in {"InEntry", "TakeProfit"} /\ At(Loop, "idle")
      /\ GoCheck(price, "TakeProfit", m)
      /\ machine' = machine /\ sm' = sm /\ ord' = ord /\ canceling' = canceling /\ world' = world
  BY DEF TrailExit, TurnBegins
<1>2. /\ m \in ModelType
      /\ m.placed = model.placed /\ m.orders = model.orders /\ m.entered = model.entered
      /\ m.enabled = model.enabled /\ m.state = model.state
  <2>1. <<price>> \in ExitPrices
    BY DEF ExitPrices
  <2> QED
    BY <1>0, <2>1, Typed DEF ModelType
<1>3. model.entered
  BY <1>0, <1>1 DEF BeforeEntry
<1> HIDE DEF m
<1> QED
  BY <1>1, <1>2, <1>3, StartStep

-----------------------------------------------------------------------------
(* The event loop, once the entry is bought *)

\* What every step of the event loop keeps after the entry.
LEMMA LoopStep ==
    ASSUME IInv, model.entered, model'.entered,
           machine' \in MachineStates \ {"WaitForEntry", "TrailingEntry"}, model' \in ModelType,
           sm' \in [lock : BOOLEAN, stop : Seq({"close", "sweep", "late"})],
           sm'.lock = sm.lock \/ SpotMarket,
           model'.placed = model.placed, model'.orders = model.orders,
           ord' = ord, world' = world, go' \in [Goroutines -> GoType],
           \A g \in Goroutines : g # Loop => go'[g] = go[g],
           InPlace(Loop)', ~At(Loop, "answer"), ~At(Loop, "answer")',
           canceling' \subseteq DOMAIN ord, Futures => ~NoExitFilled, Swept'
    PROVE  IInv'
<1>0. /\ TypeOK /\ Roles /\ Assigned /\ Orders /\ Answers /\ Placed
      /\ BeforeEntry /\ OneAtATime /\ EntryKnown /\ EdgeAbove /\ InOrder
      /\ ExitStays /\ OpenExitIsLast /\ Swept
  BY DEF IInv
<1>1. setup' = setup /\ SpotMarket' = SpotMarket /\ Futures' = Futures
  BY SameSetup
<1>2. \A c \in Checks : go'[c] = go[c]
  BY GoroutineKinds
<1>3. TypeOK'
  BY <1>0, Typed, TypedNext, OrdTyped
<1>4. Roles' /\ Assigned' /\ Orders' /\ Answers' /\ Placed'
  <2>1. At(Loop, "cancelFirst")' => FALSE
    BY DEF InPlace, At
  <2> QED
    BY <2>1, QuietMove, GoroutineKinds
<1>5. BeforeEntry' /\ EntryKnown' /\ EdgeAbove'
  BY DEF BeforeEntry, EntryKnown, EdgeAbove
<1>6. \A c \in Checks : /\ \A place : At(c, place)' <=> At(c, place)
                        /\ Working(c)' <=> Working(c)
                        /\ Started(c)' <=> Started(c)
                        /\ IsEntry(c)' <=> IsEntry(c)
  BY <1>2 DEF At, Working, Started, IsEntry
<1>7. OneAtATime'
  BY <1>0, <1>1, <1>6 DEF OneAtATime
<1>8. InOrder'
  BY <1>0, <1>2, <1>6 DEF InOrder
<1>9. ExitStays'
  BY <1>0, <1>1 DEF ExitStays, NoExitFilled
<1>10. OpenExitIsLast'
  BY <1>0, <1>2 DEF OpenExitIsLast, Open, At, Previous
<1> QED
  BY <1>3, <1>4, <1>5, <1>7, <1>8, <1>9, <1>10 DEF IInv

\* A market exit is sold in the guard of the transition.
LEMMA SellOnSpotStep ==
    ASSUME IInv, NEW price \in setup.prices, SellOnSpot(price)
    PROVE  IInv'
<1>0. TypeOK /\ Roles /\ Assigned /\ BeforeEntry /\ Swept
  BY DEF IInv
<1>1. /\ machine \in {"InEntry", "TakeProfit"} /\ At(Loop, "idle") /\ SpotMarket
      /\ model' = [model EXCEPT !.state = "TakeProfit"] /\ go' = Calls(Loop, "send", "TakeProfit")
      /\ machine' = machine /\ sm' = sm /\ ord' = ord /\ canceling' = canceling /\ world' = world
  BY DEF SellOnSpot, TurnBegins
<1>2. model.entered /\ machine' \in MachineStates \ {"WaitForEntry", "TrailingEntry"}
  BY <1>0, <1>1 DEF BeforeEntry, MachineStates
<1>3. /\ model' \in ModelType /\ model'.placed = model.placed /\ model'.orders = model.orders
      /\ model'.entered = model.entered
  BY <1>0, <1>1, Typed DEF ModelType, MachineStates
<1>4. /\ go' \in [Goroutines -> GoType] /\ go'[Loop].at = "send" /\ go'[Loop].step = "TakeProfit"
      /\ go'[Loop].market = go[Loop].market
      /\ \A g \in Goroutines : g # Loop => go'[g] = go[g]
  BY <1>0, <1>1, Begins, GoroutineKinds DEF Steps, Places
<1>5. InPlace(Loop)' /\ ~At(Loop, "answer") /\ ~At(Loop, "answer")'
  <2>1. SpotMarket' /\ ~go'[Loop].market
    BY <1>0, <1>1, <1>4, SameSetup, GoroutineKinds DEF Assigned
  <2> QED
    BY <1>1, <1>4, <2>1, GoroutineKinds DEF InPlace, At, Calling
<1>6. Swept'
  BY <1>0, <1>1, <1>4 DEF Swept, Stopping, At, Calling
<1>7. canceling' \subseteq DOMAIN ord /\ (Futures => ~NoExitFilled)
  BY <1>0, <1>1, Typed, SetupFacts
<1>8. sm' \in [lock : BOOLEAN, stop : Seq({"close", "sweep", "late"})]
  BY <1>0, <1>1, Typed
<1> QED
  BY <1>1, <1>2, <1>3, <1>4, <1>5, <1>6, <1>7, <1>8, LoopStep

\* The transition after it may give Lock back: on a spot market only.
LEMMA MoveOnStep ==
    ASSUME IInv, MoveOn
    PROVE  IInv'
<1>0. TypeOK /\ Roles /\ Assigned /\ BeforeEntry /\ Swept
  BY DEF IInv
<1>1. PICK next \in {"TakeProfit", "End"} :
      /\ At(Loop, "move") /\ machine' = next
      /\ model' = [model EXCEPT !.state = next]
      /\ sm' = [sm EXCEPT !.lock = @ /\ next = "End"]
      /\ go' = Goes(Loop, "idle")
      /\ ord' = ord /\ canceling' = canceling /\ world' = world
  BY DEF MoveOn
<1>2. model.entered /\ SpotMarket /\ machine' \in MachineStates \ {"WaitForEntry", "TrailingEntry"}
  BY <1>0, <1>1 DEF BeforeEntry, Assigned, MachineStates, At
<1>3. /\ model' \in ModelType /\ model'.placed = model.placed /\ model'.orders = model.orders
      /\ model'.entered = model.entered
  BY <1>0, <1>1, Typed DEF ModelType, MachineStates
<1>4. /\ go' \in [Goroutines -> GoType] /\ go'[Loop].at = "idle"
      /\ go'[Loop].market = go[Loop].market
      /\ \A g \in Goroutines : g # Loop => go'[g] = go[g]
  BY <1>0, <1>1, Moves, GoroutineKinds DEF Places
<1>5. InPlace(Loop)' /\ ~At(Loop, "answer") /\ ~At(Loop, "answer")'
  <2>1. ~go'[Loop].market
    BY <1>0, <1>4, GoroutineKinds DEF Assigned
  <2> QED
    BY <1>1, <1>4, <2>1, GoroutineKinds DEF InPlace, At, Calling
<1>6. sm' \in [lock : BOOLEAN, stop : Seq({"close", "sweep", "late"})] /\ sm'.stop = sm.stop
  BY <1>0, <1>1, Typed
<1>7. Swept'
  BY <1>0, <1>4, <1>6 DEF Swept, Stopping, At, Calling
<1>8. canceling' \subseteq DOMAIN ord /\ (Futures => ~NoExitFilled)
  BY <1>0, <1>1, <1>2, Typed, SetupFacts
<1> QED
  BY <1>1, <1>2, <1>3, <1>4, <1>5, <1>6, <1>7, <1>8, LoopStep

\* What is left of Stop after its next part.
LEMMA StopPlanTails ==
    ASSUME NEW s \in StopPlans, s # <<>>
    PROVE  /\ Tail(s) \in StopPlans
           /\ Head(s) = "close" => Tail(s) \notin {<<>>, <<"late">>}
           /\ Head(s) = "late" => s = <<"late">>
<1>1. CASE s = <<"sweep">>
  BY <1>1 DEF StopPlans
<1>2. CASE s = <<"late">>
  BY <1>2 DEF StopPlans
<1>3. CASE s = <<"sweep", "late">>
  BY <1>3 DEF StopPlans
<1>4. CASE s = <<"close", "sweep", "late">>
  BY <1>4 DEF StopPlans
<1>5. CASE s = <<"close", "close", "sweep", "late">>
  BY <1>5 DEF StopPlans
<1> QED
  BY <1>1, <1>2, <1>3, <1>4, <1>5 DEF StopPlans

\* What is left of Stop is made of its parts.
LEMMA PlansTyped == StopPlans \subseteq Seq({"close", "sweep", "late"})
  BY DEF StopPlans

\* Stop begins when the order runs no longer.
LEMMA StopStep ==
    ASSUME IInv, Stop
    PROVE  IInv'
<1>0. TypeOK /\ Roles /\ Assigned /\ BeforeEntry /\ ExitStays
  BY DEF IInv
<1>1. /\ At(Loop, "idle") /\ ~Running
      /\ canceling' = canceling \cup (model.orders \cap Open)
      /\ sm' = [sm EXCEPT !.stop = AfterStop] /\ go' = Goes(Loop, "stop")
      /\ machine' = machine /\ model' = model /\ ord' = ord /\ world' = world
  BY DEF Stop
<1>2. model.entered
  BY <1>0, <1>1 DEF BeforeEntry, Running
<1>3. /\ machine' \in MachineStates \ {"WaitForEntry", "TrailingEntry"} /\ model' \in ModelType
      /\ model'.entered
  BY <1>0, <1>1, <1>2, Typed DEF BeforeEntry, MachineStates
<1>4. /\ go' \in [Goroutines -> GoType] /\ go'[Loop].at = "stop"
      /\ go'[Loop].market = go[Loop].market
      /\ \A g \in Goroutines : g # Loop => go'[g] = go[g]
  BY <1>0, <1>1, Moves, GoroutineKinds DEF Places
<1>5. InPlace(Loop)' /\ ~At(Loop, "answer") /\ ~At(Loop, "answer")'
  <2>1. ~go'[Loop].market
    BY <1>0, <1>4, GoroutineKinds DEF Assigned
  <2> QED
    BY <1>1, <1>4, <2>1, GoroutineKinds DEF InPlace, At, Calling
<1>6. AfterStop \in StopPlans /\ AfterStop \notin {<<>>, <<"late">>}
  BY DEF AfterStop, StopPlans
<1>7. /\ sm' \in [lock : BOOLEAN, stop : Seq({"close", "sweep", "late"})] /\ sm'.lock = sm.lock
      /\ sm'.stop = AfterStop
  BY <1>0, <1>1, <1>6, Typed, PlansTyped
<1>8. Swept'
  BY <1>6, <1>7 DEF Swept
<1>9. canceling' \subseteq DOMAIN ord /\ (Futures => ~NoExitFilled)
  BY <1>0, <1>1, Typed DEF Open, ExitStays
<1> QED
  BY <1>1, <1>2, <1>3, <1>4, <1>5, <1>7, <1>8, <1>9, LoopStep

\* The open orders are registered when no answer is on its way.
LEMMA AllRegistered ==
    ASSUME Roles, Orders, Answers, At(Loop, "stop"), FiveSecondsLater
    PROVE  Open \subseteq model.orders
<1>1. ASSUME NEW k \in Open
      PROVE  k \in model.orders
  <2>1. k \in DOMAIN ord /\ ord[k].status = "open"
    BY DEF Open
  <2>2. \A g \in Goroutines : ~At(g, "answer")
    BY GoroutineKinds DEF FiveSecondsLater, At
  <2>3. ord[k].known
    BY <2>1, <2>2 DEF Answers
  <2> QED
    BY <2>1, <2>3 DEF Orders
<1> QED
  BY <1>1

\* The sweep five seconds later takes every open order.
LEMMA SweepStep ==
    ASSUME IInv, Sweep
    PROVE  IInv'
<1>0. TypeOK /\ Roles /\ Assigned /\ Orders /\ Answers /\ BeforeEntry /\ ExitStays /\ Swept
  BY DEF IInv
<1>1. /\ At(Loop, "stop") /\ sm.stop # <<>> /\ Head(sm.stop) = "sweep"
      /\ sm' = [sm EXCEPT !.stop = Tail(@)] /\ FiveSecondsLater
      /\ canceling' = canceling \cup (model.orders \cap Open)
      /\ machine' = machine /\ model' = model /\ ord' = ord /\ world' = world /\ go' = go
  BY DEF Sweep, StopGoesOn
<1>2. model.entered
  BY <1>0, <1>1 DEF BeforeEntry, At
<1>3. /\ machine' \in MachineStates \ {"WaitForEntry", "TrailingEntry"} /\ model' \in ModelType
      /\ model'.entered
  BY <1>0, <1>1, <1>2, Typed DEF BeforeEntry, MachineStates
<1>4. InPlace(Loop)' /\ ~At(Loop, "answer") /\ ~At(Loop, "answer")'
  <2>1. SpotMarket' = SpotMarket /\ Futures' = Futures /\ setup' = setup
    BY <1>1, SameSetup
  <2>2. InPlace(Loop)
    BY <1>0, InPlaceNow, GoroutineKinds
  <2> QED
    BY <1>1, <2>1, <2>2 DEF InPlace, At, Calling, Started, Working, IsEntry
<1>5. Tail(sm.stop) \in StopPlans
  BY <1>0, <1>1, StopPlanTails DEF Swept
<1>6. /\ sm' \in [lock : BOOLEAN, stop : Seq({"close", "sweep", "late"})] /\ sm'.lock = sm.lock
      /\ sm'.stop = Tail(sm.stop)
  BY <1>0, <1>1, <1>5, Typed, PlansTyped
<1>7. Open' = Open /\ Open \subseteq canceling'
  BY <1>0, <1>1, AllRegistered DEF Open
<1>8. Swept'
  BY <1>1, <1>5, <1>6, <1>7 DEF Swept, FiveSecondsLater
<1>9. canceling' \subseteq DOMAIN ord /\ (Futures => ~NoExitFilled)
  BY <1>0, <1>1, Typed DEF Open, ExitStays, At
<1>10. go' \in [Goroutines -> GoType]
  BY <1>0, <1>1, GoTyped
<1> QED
  BY <1>1, <1>2, <1>3, <1>4, <1>6, <1>8, <1>9, <1>10, LoopStep

\* Stop places a Canceled order, which is a market order.
LEMMA PlaceCanceledStep ==
    ASSUME IInv, PlaceCanceled
    PROVE  IInv'
<1>0. TypeOK /\ Roles /\ Assigned /\ BeforeEntry /\ ExitStays /\ Swept
  BY DEF IInv
<1>1. /\ At(Loop, "stop") /\ sm.stop # <<>> /\ Head(sm.stop) \in {"close", "late"}
      /\ sm' = [sm EXCEPT !.stop = Tail(@)]
      /\ go' = go \/ go' = Calls(Loop, "send", "Canceled")
      /\ canceling' = canceling /\ machine' = machine /\ model' = model /\ ord' = ord
      /\ world' = world
  BY DEF PlaceCanceled, StopGoesOn
<1>2. model.entered
  BY <1>0, <1>1 DEF BeforeEntry, At
<1>3. /\ machine' \in MachineStates \ {"WaitForEntry", "TrailingEntry"} /\ model' \in ModelType
      /\ model'.entered
  BY <1>0, <1>1, <1>2, Typed DEF BeforeEntry, MachineStates
<1>4. /\ go' \in [Goroutines -> GoType]
      /\ go'[Loop].market = go[Loop].market
      /\ \/ go'[Loop].at = "stop"
         \/ go'[Loop].at = "send" /\ go'[Loop].step = "Canceled"
      /\ \A g \in Goroutines : g # Loop => go'[g] = go[g]
  <2>1. CASE go' = go
    BY <1>0, <1>1, <2>1, GoTyped DEF At
  <2>2. CASE go' = Calls(Loop, "send", "Canceled")
    BY <1>0, <2>2, Begins, GoroutineKinds DEF Places, Steps
  <2> QED
    BY <1>1, <2>1, <2>2
<1>5. InPlace(Loop)' /\ ~At(Loop, "answer") /\ ~At(Loop, "answer")'
  <2>1. ~go'[Loop].market
    BY <1>0, <1>4, GoroutineKinds DEF Assigned
  <2> QED
    BY <1>1, <1>4, <2>1, GoroutineKinds DEF InPlace, At, Calling
<1>6. /\ Tail(sm.stop) \in StopPlans
      /\ Tail(sm.stop) \in {<<>>, <<"late">>} => sm.stop = <<"late">>
  BY <1>0, <1>1, StopPlanTails DEF Swept
<1>7. /\ sm' \in [lock : BOOLEAN, stop : Seq({"close", "sweep", "late"})] /\ sm'.lock = sm.lock
      /\ sm'.stop = Tail(sm.stop)
  BY <1>0, <1>1, <1>6, Typed, PlansTyped
<1>8. Swept'
  <2>1. sm.stop = <<"late">> => FiveSecondsLater /\ Open \subseteq canceling
    BY <1>0, <1>1 DEF Swept, Stopping
  <2>2. Open' = Open /\ (FiveSecondsLater => FiveSecondsLater')
    BY <1>1, <1>4 DEF Open, FiveSecondsLater
  <2> QED
    BY <1>1, <1>6, <1>7, <2>1, <2>2 DEF Swept
<1>9. canceling' \subseteq DOMAIN ord /\ (Futures => ~NoExitFilled)
  BY <1>0, <1>1, Typed DEF ExitStays, At
<1> QED
  BY <1>1, <1>2, <1>3, <1>4, <1>5, <1>7, <1>8, <1>9, LoopStep

-----------------------------------------------------------------------------
(* placeTrailingOrder *)

\* While the entry is not bought, checks work on it, under Lock.
LEMMA EntryUnderLock ==
    ASSUME TypeOK, Assigned, BeforeEntry, OneAtATime, ~model.entered,
           NEW c \in Checks, Started(c)
    PROVE  /\ IsEntry(c) /\ ~SpotMarket /\ machine = "TrailingEntry"
           /\ \A d \in Checks : Working(c) /\ Working(d) => d = c
<1>1. IsEntry(c)
  BY DEF BeforeEntry
<1>2. ~SpotMarket
  BY <1>1 DEF Assigned
<1>3. machine = "TrailingEntry"
  BY DEF BeforeEntry, Started, Working, At
<1> QED
  BY <1>1, <1>2, <1>3 DEF OneAtATime

\* A check that is through, or that does not place anything.
LEMMA CheckEnds ==
    ASSUME IInv, NEW c \in Checks, At(c, "nap") \/ At(c, "hold"),
           go' = [go EXCEPT ![c] = Idle]
    PROVE  /\ go' \in [Goroutines -> GoType] /\ go'[c].at = "idle" /\ ~go'[c].market
           /\ \A g \in Goroutines : g # c => go'[g] = go[g]
           /\ InPlace(c)'
           /\ \A d \in Checks : /\ At(d, "not yet")' <=> At(d, "not yet")
                                /\ At(d, "nap")' => At(d, "nap") /\ go'[d] = go[d]
                                /\ Working(d)' => Working(d) /\ go'[d] = go[d]
                                /\ Started(d)' => Started(d) /\ go'[d] = go[d]
                                /\ Working(d) /\ d # c => Working(d)'
<1>1. /\ go' \in [Goroutines -> GoType] /\ go'[c] = Idle
      /\ \A g \in Goroutines : g # c => go'[g] = go[g]
  <2>1. Idle \in GoType
    BY DEF Idle, GoType, Places
  <2>2. go \in [Goroutines -> GoType]
    BY GoTyped DEF IInv
  <2> HIDE DEF GoType
  <2> QED
    BY <2>1, <2>2, GoroutineKinds
<1>2. go'[c].at = "idle" /\ ~go'[c].market
  BY <1>1 DEF Idle
<1>3. InPlace(c)'
  BY <1>2, GoroutineKinds DEF InPlace, At, Calling, Started, Working
<1>4. \A d \in Checks : d # c => go'[d] = go[d]
  BY <1>1, GoroutineKinds
<1> QED
  BY <1>1, <1>2, <1>3, <1>4 DEF At, Working, Started

\* What a check that ends keeps, but for what the entry and Lock ask for.
LEMMA EndStep ==
    ASSUME IInv, NEW c \in Checks, At(c, "nap") \/ At(c, "hold"),
           go' = [go EXCEPT ![c] = Idle],
           machine' = machine, model' = model, ord' = ord, canceling' = canceling,
           world' = world,
           sm' \in [lock : BOOLEAN, stop : Seq({"close", "sweep", "late"})],
           sm'.stop = sm.stop, OneAtATime', EntryKnown', EdgeAbove'
    PROVE  IInv'
<1>0. /\ TypeOK /\ Roles /\ Assigned /\ Orders /\ Answers /\ Placed
      /\ BeforeEntry /\ OneAtATime /\ EntryKnown /\ EdgeAbove /\ InOrder
      /\ ExitStays /\ OpenExitIsLast /\ Swept
  BY DEF IInv
<1>1. /\ go' \in [Goroutines -> GoType] /\ go'[c].at = "idle" /\ ~go'[c].market
      /\ \A g \in Goroutines : g # c => go'[g] = go[g]
      /\ InPlace(c)'
      /\ \A d \in Checks : /\ At(d, "not yet")' <=> At(d, "not yet")
                           /\ At(d, "nap")' => At(d, "nap") /\ go'[d] = go[d]
                           /\ Working(d)' => Working(d) /\ go'[d] = go[d]
                           /\ Started(d)' => Started(d) /\ go'[d] = go[d]
                           /\ Working(d) /\ d # c => Working(d)'
  BY CheckEnds
<1>2. /\ setup' = setup /\ SpotMarket' = SpotMarket /\ Futures' = Futures
      /\ c \in Goroutines /\ go'[Loop] = go[Loop] /\ go'[Enterer] = go[Enterer]
  BY <1>1, SameSetup, GoroutineKinds
<1>3. TypeOK'
  BY <1>0, <1>1, Typed, TypedNext, OrdTyped
<1>4. Roles' /\ Assigned' /\ Orders' /\ Answers' /\ Placed'
  <2>1. ~At(c, "answer") /\ ~At(c, "answer")' /\ ~At(c, "cancelFirst")'
    BY <1>1 DEF At
  <2> QED
    BY <1>1, <1>2, <2>1, QuietMove
<1>5. BeforeEntry'
  <2>1. machine # "WaitForEntry"
    BY <1>0 DEF BeforeEntry, At
  <2>2. ~model.entered =>
           /\ At(Loop, "idle")' /\ At(Enterer, "idle")'
           /\ \A d \in Checks : Started(d)' => IsEntry(d)'
    <3>1. \A d \in Checks : Started(d)' => (Started(d) /\ (IsEntry(d) => IsEntry(d)'))
      BY <1>1 DEF IsEntry
    <3>2. /\ At(Loop, "idle")' <=> At(Loop, "idle")
          /\ At(Enterer, "idle")' <=> At(Enterer, "idle")
      BY <1>2 DEF At
    <3> QED
      BY <1>0, <3>1, <3>2 DEF BeforeEntry
  <2> QED
    BY <1>0, <2>1, <2>2 DEF BeforeEntry
<1>6. InOrder'
  <2>1. \A a, d \in Checks : At(a, "not yet")' /\ a <= d => At(d, "not yet")'
    BY <1>0, <1>1 DEF InOrder
  <2>2. \A a, d \in Checks :
           At(a, "nap")' /\ go'[a].step = "TakeProfit" /\ At(d, "nap")' /\ IsEntry(d)' => d < a
    BY <1>0, <1>1 DEF InOrder, IsEntry
  <2>3. \A d \in Checks : Started(d)' /\ IsEntry(d)' =>
           /\ \A k \in DOMAIN ord : ord[k].step # "TakeProfit"
           /\ \A a \in Checks : Working(a)' => go'[a].step # "TakeProfit"
    <3>1. ASSUME NEW d \in Checks, Started(d)', IsEntry(d)'
          PROVE  Started(d) /\ IsEntry(d)
      BY <1>1, <3>1 DEF IsEntry
    <3> QED
      BY <1>0, <1>1, <3>1 DEF InOrder
  <2> QED
    BY <2>1, <2>2, <2>3 DEF InOrder
<1>7. ExitStays' /\ OpenExitIsLast'
  <2>1. Futures /\ NoExitFilled => canceling' = {} /\ At(Loop, "idle")' /\ Running'
    BY <1>0, <1>2 DEF ExitStays, Running, At
  <2>2. \A d \in Checks : /\ At(d, "answer")' <=> At(d, "answer")
                          /\ At(d, "answer") => go'[d] = go[d]
    BY <1>1, GoroutineKinds DEF At
  <2> QED
    BY <1>0, <1>1, <1>2, <2>1, <2>2, QuietExits
<1>8. Swept'
  <2>1. FiveSecondsLater => FiveSecondsLater'
    BY <1>1 DEF FiveSecondsLater
  <2>2. (Stopping' <=> Stopping) /\ Open' = Open
    BY <1>2 DEF Stopping, At, Calling, Open
  <2> QED
    BY <1>0, <2>1, <2>2 DEF Swept
<1> QED
  BY <1>3, <1>4, <1>5, <1>6, <1>7, <1>8 DEF IInv

\* When Lock is given back, what was bought while it was kept has been heard of.
LEMMA ReleaseStep ==
    ASSUME IInv, NEW c \in Checks, Release(c)
    PROVE  IInv'
<1>0. /\ TypeOK /\ Roles /\ Assigned /\ Orders /\ Answers /\ Placed
      /\ BeforeEntry /\ OneAtATime /\ EntryKnown /\ EdgeAbove /\ InOrder
      /\ ExitStays /\ OpenExitIsLast /\ Swept
  BY DEF IInv
<1>1. /\ At(c, "hold") /\ \A d \in Checks : ~At(d, "nap")
      /\ \A k \in DOMAIN ord : ord[k].market => ord[k].told
      /\ sm' = [sm EXCEPT !.lock = FALSE] /\ go' = [go EXCEPT ![c] = Idle]
      /\ machine' = machine /\ model' = model /\ ord' = ord /\ canceling' = canceling
      /\ world' = world
  BY DEF Release
<1>2. sm' \in [lock : BOOLEAN, stop : Seq({"close", "sweep", "late"})] /\ sm'.stop = sm.stop
  BY <1>0, <1>1, Typed
<1>3. /\ go'[c].at = "idle"
      /\ \A d \in Checks : /\ At(d, "nap")' => At(d, "nap")
                           /\ Working(d)' => Working(d) /\ go'[d] = go[d]
  BY <1>1, CheckEnds
<1>4. SpotMarket' = SpotMarket
  BY <1>1, SameSetup
<1>5. Working(c) /\ Started(c) /\ ~Working(c)'
  BY <1>1, <1>3 DEF Working, Started, At
<1>6. OneAtATime'
  BY <1>0, <1>3, <1>4, <1>5 DEF OneAtATime
<1>7. EntryKnown'
  <2> SUFFICES ASSUME ~model.entered
               PROVE  EntryKnown'
    BY <1>1 DEF EntryKnown
  <2>1. NoMarket
    BY <1>0, <1>1 DEF BeforeEntry, NoMarket
  <2>2. Live \subseteq Last
    BY <1>0, <1>1, <2>1 DEF EntryKnown
  <2>3. \A d \in Checks : ~Working(d)'
    BY <1>0, <1>3, <1>5, EntryUnderLock
  <2>4. Live' = Live /\ Last' = Last /\ NoMarket'
    BY <1>1, <2>1 DEF Live, Last, NoMarket, Previous
  <2>5. \A d \in Checks, place \in {"cancelFirst", "send", "answer", "hold"} : ~At(d, place)'
    BY <2>3 DEF Working, At
  <2> QED
    BY <1>0, <1>1, <2>2, <2>4, <2>5 DEF EntryKnown
<1>8. EdgeAbove'
  BY <1>1, <1>3 DEF EdgeAbove
<1> QED
  BY <1>1, <1>2, <1>6, <1>7, <1>8, EndStep

\* A check that wakes up too late, or while another one has Lock, does nothing.
LEMMA WakeInVainStep ==
    ASSUME IInv, NEW c \in Checks, At(c, "nap"), go' = [go EXCEPT ![c] = Idle],
           machine' = machine, model' = model, ord' = ord, canceling' = canceling,
           world' = world, sm' = sm
    PROVE  IInv'
<1>0. TypeOK /\ OneAtATime /\ EntryKnown /\ EdgeAbove
  BY DEF IInv
<1>1. /\ go'[c].at = "idle"
      /\ \A d \in Checks : /\ At(d, "nap")' => At(d, "nap") /\ go'[d] = go[d]
                           /\ Working(d)' => Working(d) /\ go'[d] = go[d]
                           /\ Working(d) /\ d # c => Working(d)'
  BY CheckEnds
<1>2. SpotMarket' = SpotMarket /\ ~Working(c)
  BY SameSetup DEF Working, At
<1>3. OneAtATime'
  BY <1>0, <1>1, <1>2 DEF OneAtATime
<1>4. EntryKnown'
  <2>1. Live' = Live /\ Last' = Last /\ (NoMarket' <=> NoMarket)
    BY DEF Live, Last, NoMarket, Previous
  <2>2. (\A d \in Checks : ~Working(d)') => \A d \in Checks : ~Working(d)
    BY <1>1, <1>2
  <2>3. \A d \in Checks, place \in {"cancelFirst", "send", "answer", "hold"} :
           At(d, place)' => At(d, place) /\ go'[d] = go[d]
    BY <1>1 DEF Working, At
  <2> QED
    BY <1>0, <2>1, <2>2, <2>3 DEF EntryKnown
<1>5. EdgeAbove'
  BY <1>0, <1>1 DEF EdgeAbove
<1> QED
  BY <1>0, <1>3, <1>4, <1>5, EndStep, Typed

\* A check that takes Lock begins the call that places its order.
LEMMA PlaceBetterFacts ==
    ASSUME TypeOK, Placed, NEW c \in Checks, go' = PlaceBetter(c)
    PROVE  /\ go' \in [Goroutines -> GoType]
           /\ go'[c].step = go[c].step /\ go'[c].market = go[c].market
           /\ \A g \in Goroutines : g # c => go'[g] = go[g]
           /\ IF (go[c].step = "TrailingEntry" \/ setup.type = "spot limit") /\ model.placed # <<>>
              THEN /\ go'[c].at = "cancelFirst" /\ go'[c].order = Previous
                   /\ Previous \in DOMAIN ord /\ ord[Previous].known
              ELSE go'[c].at = "send"
<1>1. c \in Goroutines
  BY GoroutineKinds
<1>2. CASE (go[c].step = "TrailingEntry" \/ setup.type = "spot limit") /\ model.placed # <<>>
  <2>1. /\ Previous \in DOMAIN ord /\ ord[Previous].known /\ Previous \in OrderIds
    <3>1. /\ Previous \in DOMAIN ord /\ ord[Previous].known
          /\ Len(model.placed) \in DOMAIN model.placed
      BY <1>2, LastPlaced
    <3>2. model.placed \in Seq(OrderIds)
      BY DEF TypeOK
    <3> QED
      BY <3>1, <3>2, ElementOfSeq, LenProperties DEF Previous
  <2> DEFINE r == [go[c] EXCEPT !.at = "cancelFirst", !.order = Previous]
  <2>2. go \in [Goroutines -> GoType] /\ go[c] \in GoType
    BY <1>1, GoTyped
  <2>3. /\ r \in GoType /\ r.at = "cancelFirst" /\ r.order = Previous /\ r.step = go[c].step
        /\ r.market = go[c].market
    BY <2>1, <2>2 DEF GoType, Places
  <2>4. go' = [go EXCEPT ![c] = r]
    BY <1>2, <2>2 DEF PlaceBetter, GoType
  <2> HIDE DEF r, GoType
  <2> QED
    BY <1>1, <1>2, <2>1, <2>2, <2>3, <2>4
<1>3. CASE ~((go[c].step = "TrailingEntry" \/ setup.type = "spot limit") /\ model.placed # <<>>)
  <2>1. go' = Goes(c, "send") /\ "send" \in Places
    BY <1>3 DEF PlaceBetter, Places
  <2> QED
    BY <1>1, <1>3, <2>1, Moves
<1> QED
  BY <1>2, <1>3

\* A check takes Lock: nobody else works, and if it is of the exit, those of the entry
\* are over.
LEMMA TakeLockStep ==
    ASSUME IInv, NEW c \in Checks, At(c, "nap"), \A d \in Checks : d < c => ~At(d, "nap"),
           ~sm.lock, sm' = [sm EXCEPT !.lock = TRUE],
           model' = [model EXCEPT !.edge = go[c].price], go' = PlaceBetter(c),
           machine' = machine, ord' = ord, canceling' = canceling, world' = world
    PROVE  IInv'
<1>0. /\ TypeOK /\ Roles /\ Assigned /\ Orders /\ Answers /\ Placed
      /\ BeforeEntry /\ OneAtATime /\ EntryKnown /\ EdgeAbove /\ InOrder
      /\ ExitStays /\ OpenExitIsLast /\ Swept
  BY DEF IInv
<1> DEFINE cancels == (go[c].step = "TrailingEntry" \/ setup.type = "spot limit") /\ model.placed # <<>>
<1>1. /\ go' \in [Goroutines -> GoType]
      /\ go'[c].step = go[c].step /\ go'[c].market = go[c].market
      /\ \A g \in Goroutines : g # c => go'[g] = go[g]
      /\ IF cancels
         THEN /\ go'[c].at = "cancelFirst" /\ go'[c].order = Previous
              /\ Previous \in DOMAIN ord /\ ord[Previous].known
         ELSE go'[c].at = "send"
  BY <1>0, PlaceBetterFacts
<1>2. /\ setup' = setup /\ SpotMarket' = SpotMarket /\ Futures' = Futures
      /\ c \in Goroutines /\ go'[Loop] = go[Loop] /\ go'[Enterer] = go[Enterer]
      /\ \A d \in Checks : d # c => go'[d] = go[d]
  BY <1>1, SameSetup, GoroutineKinds
<1>3. /\ model' \in ModelType /\ model'.placed = model.placed /\ model'.orders = model.orders
      /\ model'.entered = model.entered /\ model'.enabled = model.enabled
      /\ model'.state = model.state
  <2>1. go[c].price \in Nat
    BY <1>0, <1>2, GoTyped DEF GoType
  <2> QED
    BY <1>0, <2>1, Typed DEF ModelType
<1>4. sm' \in [lock : BOOLEAN, stop : Seq({"close", "sweep", "late"})] /\ sm'.lock /\ sm'.stop = sm.stop
  BY <1>0, Typed
<1>5. TypeOK'
  BY <1>0, <1>1, <1>3, <1>4, Typed, TypedNext, OrdTyped
<1>6. /\ go[c].step \in {"TrailingEntry", "TakeProfit"} /\ ~go[c].market
      /\ SpotMarket => ~IsEntry(c)
  <2>1. ~Working(c) /\ Started(c)
    BY DEF Working, Started, At
  <2> QED
    BY <1>0, <1>2, <2>1 DEF Assigned
<1>7. /\ Started(c) /\ Started(c)' /\ Working(c)' /\ (IsEntry(c)' <=> IsEntry(c))
      /\ ~At(c, "not yet") /\ ~At(c, "not yet")' /\ ~At(c, "answer") /\ ~At(c, "answer")'
      /\ ~At(c, "nap")' /\ ~At(c, "hold")'
      /\ \A d \in Checks : d # c => /\ Started(d)' <=> Started(d)
                                    /\ Working(d)' <=> Working(d)
                                    /\ IsEntry(d)' <=> IsEntry(d)
                                    /\ \A place : At(d, place)' <=> At(d, place)
  BY <1>1, <1>2 DEF At, Working, Started, IsEntry
<1>8. Roles' /\ Assigned' /\ Orders' /\ Answers' /\ Placed'
  <2>1. Futures => setup.type # "spot limit"
    BY DEF Futures
  <2>2. InPlace(c)'
    BY <1>1, <1>2, <1>6, <1>7, <2>1, GoroutineKinds DEF InPlace, At, Calling, Started, Working, IsEntry
  <2>3. At(c, "cancelFirst")' => go'[c].order \in DOMAIN ord /\ ord[go'[c].order].known
    BY <1>1 DEF At
  <2> QED
    BY <1>1, <1>2, <1>3, <1>7, <2>2, <2>3, QuietMove
<1>9. BeforeEntry'
  <2>1. machine # "WaitForEntry"
    BY <1>0, <1>7 DEF BeforeEntry
  <2>2. ~model.entered => \A d \in Checks : Started(d)' => IsEntry(d)'
    BY <1>0, <1>7 DEF BeforeEntry
  <2> QED
    BY <1>0, <1>2, <1>3, <2>1, <2>2 DEF BeforeEntry, At
<1>10. OneAtATime'
  BY <1>0, <1>2, <1>4, <1>7 DEF OneAtATime
<1>11. EntryKnown'
  <2> SUFFICES ASSUME ~model.entered
               PROVE  EntryKnown'
    BY <1>3 DEF EntryKnown
  <2>1. IsEntry(c) /\ ~SpotMarket
    BY <1>0, <1>7, EntryUnderLock
  <2>2. \A d \in Checks : ~Working(d)
    BY <1>0, <2>1 DEF OneAtATime
  <2>3. NoMarket /\ Live \subseteq Last
    BY <1>0, <2>2 DEF EntryKnown
  <2>4. Live' = Live /\ Last' = Last /\ NoMarket'
    BY <1>3, <2>3 DEF Live, Last, NoMarket, Previous
  <2>5. cancels <=> model.placed # <<>>
    BY <2>1 DEF IsEntry
  <2>6. /\ At(c, "cancelFirst")' => Live \subseteq {go'[c].order} /\ Last = {go'[c].order}
        /\ At(c, "send")' => Live = {}
    BY <1>1, <2>3, <2>5 DEF At, Last
  <2>7. \A d \in Checks, place \in {"cancelFirst", "send", "answer", "hold"} :
           At(d, place)' => d = c /\ place \in {"cancelFirst", "send"}
    BY <1>7, <2>2 DEF Working, At
  <2> QED
    BY <1>0, <1>7, <2>3, <2>4, <2>6, <2>7 DEF EntryKnown
<1>12. EdgeAbove'
  BY <1>4 DEF EdgeAbove
<1>13. InOrder'
  <2>1. \A a, d \in Checks : At(a, "not yet")' /\ a <= d => At(d, "not yet")'
    <3>1. \A a \in Checks : At(a, "not yet")' <=> At(a, "not yet")
      BY <1>7
    <3> QED
      BY <1>0, <3>1 DEF InOrder
  <2>2. \A a, d \in Checks :
           At(a, "nap")' /\ go'[a].step = "TakeProfit" /\ At(d, "nap")' /\ IsEntry(d)' => d < a
    <3>1. \A a \in Checks : At(a, "nap")' => At(a, "nap") /\ go'[a] = go[a] /\ (IsEntry(a)' <=> IsEntry(a))
      BY <1>2, <1>7
    <3> QED
      BY <1>0, <3>1 DEF InOrder
  <2>3. \A d \in Checks : Started(d)' /\ IsEntry(d)' =>
           /\ \A k \in DOMAIN ord : ord[k].step # "TakeProfit"
           /\ \A a \in Checks : Working(a)' => go'[a].step # "TakeProfit"
    <3>1. ASSUME NEW d \in Checks, Started(d), IsEntry(d), go[c].step = "TakeProfit"
          PROVE  FALSE
      <4>1. ~SpotMarket
        BY <1>0, <3>1 DEF Assigned
      <4>2. At(d, "nap")
        BY <1>0, <3>1, <4>1 DEF OneAtATime, Started
      <4>3. d < c
        BY <1>0, <3>1, <4>2 DEF InOrder
      <4> QED
        BY <4>2, <4>3
    <3>2. ASSUME NEW d \in Checks, Started(d)', IsEntry(d)'
          PROVE  /\ \A k \in DOMAIN ord : ord[k].step # "TakeProfit"
                 /\ \A a \in Checks : Working(a)' => go'[a].step # "TakeProfit"
      <4>1. Started(d) /\ IsEntry(d)
        BY <1>7, <3>2
      <4>2. go[c].step # "TakeProfit"
        BY <3>1, <4>1
      <4> QED
        BY <1>0, <1>1, <1>2, <1>7, <4>1, <4>2 DEF InOrder
    <3> QED
      BY <3>2
  <2> QED
    BY <2>1, <2>2, <2>3 DEF InOrder
<1>14. ExitStays' /\ OpenExitIsLast'
  <2>1. Futures /\ NoExitFilled => canceling' = {} /\ At(Loop, "idle")' /\ Running'
    BY <1>0, <1>2, <1>3 DEF ExitStays, Running, At
  <2>2. \A d \in Checks : /\ At(d, "answer")' <=> At(d, "answer")
                          /\ At(d, "answer") => go'[d] = go[d]
    BY <1>2, <1>7
  <2> QED
    BY <1>0, <1>2, <1>3, <2>1, <2>2, QuietExits
<1>15. Swept'
  <2>1. ~FiveSecondsLater /\ (Stopping' <=> Stopping)
    BY <1>2, GoroutineKinds DEF FiveSecondsLater, At, Stopping, Calling
  <2> QED
    BY <1>0, <1>4, <2>1 DEF Swept
<1> QED
  BY <1>5, <1>8, <1>9, <1>10, <1>11, <1>12, <1>13, <1>14, <1>15 DEF IInv

\* A check wakes up.
LEMMA WakeStep ==
    ASSUME IInv, NEW c \in Checks, Wake(c)
    PROVE  IInv'
<1>1. CASE MayPlace(c) /\ ~sm.lock
  BY <1>1, TakeLockStep DEF Wake
<1>2. CASE ~(MayPlace(c) /\ ~sm.lock)
  BY <1>2, WakeInVainStep DEF Wake
<1> QED
  BY <1>1, <1>2

-----------------------------------------------------------------------------
(* PlaceOrder *)

\* When the order to replace is gone, there is none, or its fill is known.
LEMMA CancelFirstStep ==
    ASSUME IInv, NEW g \in Goroutines, CancelFirst(g)
    PROVE  IInv'
<1>0. /\ TypeOK /\ Roles /\ Assigned /\ Orders /\ Answers /\ Placed
      /\ BeforeEntry /\ OneAtATime /\ EntryKnown /\ EdgeAbove /\ InOrder
      /\ ExitStays /\ OpenExitIsLast /\ Swept
  BY DEF IInv
<1> DEFINE old == go[g].order
<1>1. /\ At(g, "cancelFirst") /\ g \in Checks /\ g # Loop /\ g # Enterer
      /\ old \in DOMAIN ord /\ ord[old].known
      /\ ord' = Closed({old}) /\ canceling' = canceling \ {old}
      /\ go' = Goes(g, IF old \in Open THEN "send" ELSE "hold")
      /\ machine' = machine /\ model' = model /\ sm' = sm /\ world' = world
  <2>1. At(g, "cancelFirst") /\ g \in Checks /\ g # Loop /\ g # Enterer
    BY <1>0, GoroutineKinds DEF CancelFirst, Roles, At
  <2> QED
    BY <1>0, <2>1 DEF CancelFirst, AfterCall, Placed
<1> HIDE DEF old
<1>2. /\ ord' \in Seq(OrderType) /\ Len(ord') = Len(ord) /\ DOMAIN ord' = DOMAIN ord
      /\ \A j \in DOMAIN ord :
            /\ ord'[j].step = ord[j].step /\ ord'[j].known = ord[j].known
            /\ ord'[j].told = ord[j].told /\ ord'[j].market = ord[j].market
            /\ ord'[j].status = IF j \in {old} /\ ord[j].status = "open" THEN "canceled"
                                ELSE ord[j].status
  BY <1>0, <1>1, Closes
<1>3. /\ go' \in [Goroutines -> GoType]
      /\ go'[g].at = IF ord[old].status = "open" THEN "send" ELSE "hold"
      /\ go'[g].step = go[g].step /\ go'[g].market = go[g].market
      /\ \A h \in Goroutines : h # g => go'[h] = go[h]
  <2>1. (IF old \in Open THEN "send" ELSE "hold") \in Places
    BY DEF Places
  <2>2. old \in Open <=> ord[old].status = "open"
    BY <1>1 DEF Open
  <2> QED
    BY <1>0, <1>1, <2>1, <2>2, Moves
<1>4. /\ setup' = setup /\ SpotMarket' = SpotMarket /\ Futures' = Futures
      /\ go'[Loop] = go[Loop] /\ go'[Enterer] = go[Enterer]
      /\ \A d \in Checks : d # g => go'[d] = go[d]
  BY <1>1, <1>3, SameSetup, GoroutineKinds
<1>5. TypeOK'
  BY <1>0, <1>1, <1>2, <1>3, Typed, TypedNext
<1>6. /\ Started(g) /\ Started(g)' /\ Working(g) /\ Working(g)' /\ (IsEntry(g)' <=> IsEntry(g))
      /\ ~At(g, "not yet") /\ ~At(g, "not yet")' /\ ~At(g, "nap") /\ ~At(g, "nap")'
      /\ ~At(g, "answer") /\ ~At(g, "answer")' /\ ~At(g, "cancelFirst")'
      /\ \A d \in Checks : d # g => /\ Started(d)' <=> Started(d)
                                    /\ Working(d)' <=> Working(d)
                                    /\ IsEntry(d)' <=> IsEntry(d)
                                    /\ \A place : At(d, place)' <=> At(d, place)
  BY <1>1, <1>3, <1>4 DEF At, Working, Started, IsEntry
<1>7. Roles' /\ Assigned'
  <2>1. InPlace(g)'
    <3>1. InPlace(g) /\ go[g].step \in {"TrailingEntry", "TakeProfit"}
      BY <1>0, <1>1, InPlaceNow DEF Assigned
    <3> QED
      BY <1>1, <1>3, <1>4, <1>6, <3>1 DEF InPlace, At, Calling
  <2>2. ASSUME NEW h \in Goroutines, h # g
        PROVE  InPlace(h)'
    <3>1. InPlace(h) /\ go'[h] = go[h]
      BY <1>0, <1>3, <2>2, InPlaceNow
    <3> QED
      BY <1>4, <3>1 DEF InPlace, At, Calling, Started, Working, IsEntry
  <2> QED
    BY <2>1, <2>2, InPlaceNext
<1>8. Orders'
  <2>1. \A k \in DOMAIN ord :
           /\ ord'[k].told => ord'[k].known /\ ord'[k].status = "filled"
           /\ ord'[k].market => ord'[k].status = "filled"
    BY <1>0, <1>2 DEF Orders
  <2>2. \A k \in DOMAIN ord :
           /\ ord'[k].step = "Canceled" \/ SpotMarket => ord'[k].market
           /\ SpotMarket => ord'[k].step # "TrailingEntry"
    BY <1>0, <1>2 DEF Orders
  <2>3. \A k \in DOMAIN ord : ord'[k].status = "open" /\ ord'[k].known => k \in model.orders
    BY <1>0, <1>2 DEF Orders
  <2>4. Len(ord') <= setup.orders
    BY <1>0, <1>2 DEF Orders
  <2> QED
    BY <1>1, <1>2, <1>4, <2>1, <2>2, <2>3, <2>4 DEF Orders
<1>9. Answers'
  <2>1. \A h \in Goroutines : /\ At(h, "answer")' <=> At(h, "answer")
                              /\ At(h, "answer") => go'[h] = go[h]
    BY <1>3, <1>6 DEF At
  <2> QED
    BY <1>0, <1>2, <1>4, <2>1 DEF Answers, IsMarket
<1>10. Placed'
  <2>1. \A d \in Checks : At(d, "cancelFirst")' => At(d, "cancelFirst") /\ go'[d] = go[d]
    BY <1>4, <1>6
  <2> QED
    BY <1>0, <1>1, <1>2, <2>1 DEF Placed
<1>11. BeforeEntry'
  <2>1. machine # "WaitForEntry"
    BY <1>0, <1>1, <1>6 DEF BeforeEntry
  <2>2. ~model.entered => \A d \in Checks : Started(d)' => IsEntry(d)'
    BY <1>0, <1>6 DEF BeforeEntry
  <2>3. ASSUME ~model.entered
        PROVE  /\ At(Loop, "idle")' /\ At(Enterer, "idle")' /\ canceling' = {}
               /\ model.enabled /\ model.state # "End"
    <3>1. At(Loop, "idle") /\ At(Enterer, "idle") /\ canceling = {}
      BY <1>0, <2>3 DEF BeforeEntry
    <3>2. At(Loop, "idle")' /\ At(Enterer, "idle")'
      BY <1>4, <3>1 DEF At
    <3>3. model.enabled /\ model.state # "End"
      BY <1>0, <2>3 DEF BeforeEntry
    <3> QED
      BY <1>1, <3>1, <3>2, <3>3
  <2>4. ~model.entered =>
           \A k \in DOMAIN ord : ord'[k].step = "TrailingEntry" /\ ~ord'[k].told
    BY <1>0, <1>2 DEF BeforeEntry
  <2>5. model.entered <=> machine \notin {"WaitForEntry", "TrailingEntry"}
    BY <1>0 DEF BeforeEntry
  <2>6. (model.entered <=> machine \notin {"WaitForEntry", "TrailingEntry"})'
    BY <1>1, <2>5
  <2>7. (~model.entered)' => /\ At(Loop, "idle")' /\ At(Enterer, "idle")' /\ canceling' = {}
                             /\ model'.enabled /\ model'.state # "End"
    BY <1>1, <2>3
  <2>8. (~model.entered)' =>
           /\ \A d \in Checks : Started(d)' => IsEntry(d)'
           /\ \A k \in DOMAIN ord' : ord'[k].step = "TrailingEntry" /\ ~ord'[k].told
    BY <1>1, <1>2, <2>2, <2>4
  <2>9. (machine # "WaitForEntry")'
    BY <1>1, <2>1
  <2> QED
    BY <2>6, <2>7, <2>8, <2>9 DEF BeforeEntry
<1>12. OneAtATime'
  BY <1>0, <1>1, <1>4, <1>6 DEF OneAtATime
<1>13. EntryKnown'
  <2> SUFFICES ASSUME ~model.entered
               PROVE  EntryKnown'
    BY <1>1 DEF EntryKnown
  <2>1. \A d \in Checks : Working(d)' => d = g
    BY <1>0, <1>1, <1>6, EntryUnderLock
  <2>2. NoMarket /\ Live \subseteq {old} /\ Last = {old}
    BY <1>0, <1>1 DEF EntryKnown, old
  <2>3. Last' = Last /\ NoMarket' /\ Live' \subseteq Live
    BY <1>1, <1>2, <2>2 DEF Live, Last, NoMarket, Previous
  <2>4. At(g, "send")' => Live' = {}
    BY <1>2, <1>3, <2>2, <2>3 DEF At, Live
  <2>5. world'.pos = IF \E k \in DOMAIN ord : ord'[k].status = "filled" THEN 1 ELSE 0
    <3>1. \A k \in DOMAIN ord : ord'[k].status = "filled" <=> ord[k].status = "filled"
      BY <1>2
    <3>2. world.pos = IF \E k \in DOMAIN ord : ord[k].status = "filled" THEN 1 ELSE 0
      BY <1>0 DEF EntryKnown
    <3> QED
      BY <1>1, <3>1, <3>2
  <2>6. \A j, k \in Live' : j = k
    BY <2>2, <2>3
  <2>7. \A d \in Checks, place \in {"cancelFirst", "send", "answer", "hold"} :
           At(d, place)' => d = g /\ place \in {"send", "hold"}
    BY <1>6, <2>1 DEF Working, At
  <2> QED
    BY <1>1, <1>2, <1>6, <2>2, <2>3, <2>4, <2>5, <2>6, <2>7 DEF EntryKnown
<1>14. EdgeAbove'
  BY <1>0, <1>1, <1>4, <1>6 DEF EdgeAbove
<1>15. InOrder'
  <2>1. \A a \in Checks : /\ At(a, "not yet")' <=> At(a, "not yet")
                          /\ At(a, "nap")' <=> At(a, "nap")
                          /\ Started(a)' <=> Started(a)
                          /\ Working(a)' <=> Working(a)
                          /\ IsEntry(a)' <=> IsEntry(a)
                          /\ go'[a].step = go[a].step
    BY <1>3, <1>4, <1>6
  <2> QED
    BY <1>0, <1>2, <2>1 DEF InOrder
<1>16. ExitStays'
  <2> SUFFICES ASSUME Futures, NoExitFilled'
               PROVE  ExitStays'
    BY <1>0, <1>1, <1>4 DEF ExitStays
  <2>1. NoExitFilled
    BY <1>2 DEF NoExitFilled
  <2>2. /\ \A k \in DOMAIN ord : ord[k].step # "TakeProfit"
        /\ \A a \in Checks : Working(a) => go[a].step # "TakeProfit"
    <3>1. IsEntry(g)
      BY <1>0, <1>1 DEF Assigned
    <3> QED
      BY <1>0, <1>1, <1>6, <3>1 DEF InOrder
  <2>3. canceling' = {} /\ At(Loop, "idle")' /\ Running' /\ world'.pos >= 0
    <3>1. canceling = {} /\ At(Loop, "idle") /\ Running /\ world.pos >= 0
      BY <1>0, <2>1 DEF ExitStays
    <3>2. At(Loop, "idle")' /\ (Running' <=> Running) /\ world' = world
      BY <1>1, <1>4, <3>1 DEF At, Running
    <3>3. canceling' = {} \ {old}
      BY <1>1, <3>1
    <3> QED
      BY <3>1, <3>2, <3>3
  <2>4. model.entered \/ (\E k \in DOMAIN ord : ord'[k].status = "filled") => world'.pos >= 1
    <3>1. \A k \in DOMAIN ord : ord'[k].status = "filled" => ord[k].status = "filled"
      BY <1>2
    <3>2. model.entered \/ (\E k \in DOMAIN ord : ord[k].status = "filled") => world.pos >= 1
      BY <1>0, <2>1 DEF ExitStays
    <3> QED
      BY <1>1, <3>1, <3>2
  <2>5. \A a \in Checks : At(a, "answer")' => go'[a].step # "TakeProfit"
    BY <1>4, <1>6, <2>2 DEF Working, At
  <2>6. \A k \in DOMAIN ord' : ord'[k].step # "TakeProfit"
    BY <1>2, <2>2
  <2>7. model'.entered \/ (\E k \in DOMAIN ord' : ord'[k].status = "filled") => world'.pos >= 1
    BY <1>1, <1>2, <2>4
  <2> QED
    BY <2>3, <2>5, <2>6, <2>7 DEF ExitStays
<1>17. OpenExitIsLast'
  <2>1. Open' \subseteq Open
    BY <1>2 DEF Open
  <2>2. \A c \in Checks : At(c, "answer") => At(c, "answer")' /\ go'[c] = go[c]
    BY <1>4, <1>6
  <2>3. ASSUME NEW k \in Open', ord'[k].step = "TakeProfit"
        PROVE  \/ model.placed # <<>> /\ k = Previous
               \/ \E c \in Checks : At(c, "answer") /\ go[c].order = k
    <3>1. k \in Open /\ ord[k].step = "TakeProfit"
      BY <1>2, <2>1, <2>3 DEF Open
    <3> QED
      BY <1>0, <3>1 DEF OpenExitIsLast
  <2>4. Previous' = Previous
    BY <1>1 DEF Previous
  <2> QED
    BY <1>1, <2>2, <2>3, <2>4 DEF OpenExitIsLast
<1>18. Swept'
  <2>1. ~FiveSecondsLater /\ (Stopping' <=> Stopping)
    BY <1>1, <1>4 DEF FiveSecondsLater, At, Stopping, Calling
  <2> QED
    BY <1>0, <1>1, <2>1 DEF Swept
<1> QED
  BY <1>5, <1>7, <1>8, <1>9, <1>10, <1>11, <1>12, <1>13, <1>14, <1>15, <1>16, <1>17, <1>18 DEF IInv

\* Where a call ends.
LEMMA CallEnds ==
    ASSUME TypeOK, Roles, Assigned, NEW g \in Goroutines, Calling(g),
           go' = Goes(g, AfterCall(g)), world'.setup = world.setup
    PROVE  /\ go' \in [Goroutines -> GoType] /\ InPlace(g)'
           /\ go'[g].step = go[g].step /\ go'[g].market = go[g].market
           /\ \A h \in Goroutines : h # g => go'[h] = go[h]
           /\ g \in Checks => go'[g].at = "hold"
           /\ g = Enterer => go'[g].at = "idle"
           /\ g = Loop => go'[g].at = IF go[g].step = "Canceled" THEN "stop" ELSE "move"
<1>1. AfterCall(g) = IF g \in Checks THEN "hold"
                     ELSE IF g = Loop THEN IF go[g].step = "Canceled" THEN "stop" ELSE "move"
                     ELSE "idle"
  BY GoroutineKinds DEF AfterCall
<1>2. AfterCall(g) \in Places
  BY <1>1 DEF Places
<1>3. /\ go' \in [Goroutines -> GoType] /\ go'[g].at = AfterCall(g)
      /\ go'[g].step = go[g].step /\ go'[g].market = go[g].market
      /\ \A h \in Goroutines : h # g => go'[h] = go[h]
  BY <1>2, Moves
<1>4. setup' = setup /\ SpotMarket' = SpotMarket /\ Futures' = Futures
  BY SameSetup
<1>5. InPlace(g)'
  <2>1. CASE g \in Checks
    <3>1. go'[g].at = "hold" /\ (go[g].market => IsEntry(g)) /\ (SpotMarket => ~IsEntry(g))
      BY <1>1, <1>3, <2>1 DEF Assigned, Calling, Started, Working
    <3> QED
      BY <1>3, <1>4, <2>1, <3>1, GoroutineKinds DEF InPlace, At, Calling, Started, Working, IsEntry
  <2>2. CASE g \notin Checks
    <3>1. ~go'[g].market
      BY <1>3, <2>2 DEF Assigned
    <3>2. g = Loop => /\ go'[g].at \in {"stop", "move"}
                      /\ go'[g].at = "move" => SpotMarket
      BY <1>1, <1>3, <2>2 DEF Assigned
    <3>3. g = Enterer => go'[g].at = "idle"
      BY <1>1, <1>3, <2>2, GoroutineKinds
    <3> QED
      BY <1>4, <2>2, <3>1, <3>2, <3>3 DEF InPlace, At, Calling
  <2> QED
    BY <2>1, <2>2
<1> QED
  BY <1>1, <1>3, <1>5, GoroutineKinds

\* A stop order or an exit that the exchange refuses for want of a position: there
\* was one, so that an exit has been filled.
LEMMA RejectReduceOnlyStep ==
    ASSUME IInv, NEW g \in Goroutines, RejectReduceOnly(g)
    PROVE  IInv'
<1>0. /\ TypeOK /\ Roles /\ Assigned /\ Orders /\ Answers /\ Placed
      /\ BeforeEntry /\ OneAtATime /\ EntryKnown /\ EdgeAbove /\ InOrder
      /\ ExitStays /\ OpenExitIsLast /\ Swept
  BY DEF IInv
<1>1. /\ At(g, "send") /\ Calling(g) /\ Got(go[g].step) = 0
      /\ model' = [model EXCEPT !.enabled = FALSE] /\ go' = Goes(g, AfterCall(g))
      /\ machine' = machine /\ sm' = sm /\ ord' = ord /\ canceling' = canceling
      /\ world' = world
  BY DEF RejectReduceOnly, At, Calling
<1>2. Futures /\ go[g].step \notin Entries /\ world.pos <= 0
  BY <1>1 DEF Got, Amount
<1>3. setup' = setup /\ SpotMarket' = SpotMarket /\ Futures' = Futures
  BY <1>1, SameSetup
<1>4. /\ model' \in ModelType /\ model'.placed = model.placed /\ model'.orders = model.orders
      /\ model'.entered = model.entered
  BY <1>0, <1>1, Typed DEF ModelType
<1>5. /\ go' \in [Goroutines -> GoType] /\ InPlace(g)'
      /\ go'[g].step = go[g].step /\ go'[g].market = go[g].market
      /\ \A h \in Goroutines : h # g => go'[h] = go[h]
      /\ g \in Checks => go'[g].at = "hold"
      /\ g = Enterer => go'[g].at = "idle"
      /\ g = Loop => go'[g].at = IF go[g].step = "Canceled" THEN "stop" ELSE "move"
  BY <1>0, <1>1, CallEnds
<1>6. TypeOK'
  BY <1>0, <1>1, <1>4, <1>5, Typed, TypedNext, OrdTyped
<1>7. ~At(g, "answer") /\ ~At(g, "answer")' /\ ~At(g, "cancelFirst")'
  BY <1>1, <1>5, GoroutineKinds DEF At
<1>8. Roles' /\ Assigned' /\ Orders' /\ Answers' /\ Placed'
  BY <1>1, <1>4, <1>5, <1>7, QuietMove
<1>9. model.entered
  <2>1. ~model.entered => g \in Checks /\ IsEntry(g)
    BY <1>0, <1>1, GoroutineKinds DEF BeforeEntry, At, Started, Working
  <2> QED
    BY <1>2, <2>1 DEF IsEntry, Entries
<1>10. BeforeEntry' /\ EntryKnown' /\ EdgeAbove'
  BY <1>0, <1>1, <1>4, <1>9 DEF BeforeEntry, EntryKnown, EdgeAbove
<1>11. \A d \in Checks : /\ At(d, "not yet")' <=> At(d, "not yet")
                         /\ At(d, "nap")' <=> At(d, "nap")
                         /\ Started(d)' <=> Started(d)
                         /\ Working(d)' <=> Working(d)
                         /\ go'[d].step = go[d].step
                         /\ At(d, "answer")' <=> At(d, "answer")
                         /\ At(d, "answer") => go'[d] = go[d]
  BY <1>1, <1>5, GoroutineKinds DEF At, Working, Started
<1>12. OneAtATime'
  BY <1>0, <1>1, <1>3, <1>11 DEF OneAtATime
<1>13. InOrder'
  BY <1>0, <1>1, <1>11 DEF InOrder, IsEntry
<1>14. ~NoExitFilled /\ ~NoExitFilled'
  <2>1. ~NoExitFilled
    <3>1. NoExitFilled => world.pos >= 1
      BY <1>0, <1>2, <1>9 DEF ExitStays
    <3>2. world.pos \in Int
      BY <1>0, Typed
    <3> QED
      BY <1>2, <3>1, <3>2
  <2> QED
    BY <1>1, <2>1 DEF NoExitFilled
<1>15. ExitStays' /\ OpenExitIsLast'
  <2>1. ExitStays'
    BY <1>0, <1>1, <1>3, <1>14 DEF ExitStays
  <2>2. OpenExitIsLast'
    <3>1. Open' = Open /\ Previous' = Previous
      BY <1>1, <1>4 DEF Open, Previous
    <3>2. \A c \in Checks : At(c, "answer") => At(c, "answer")' /\ go'[c] = go[c]
      BY <1>11
    <3> QED
      BY <1>0, <1>1, <1>4, <3>1, <3>2 DEF OpenExitIsLast
  <2> QED
    BY <2>1, <2>2
<1>16. Swept'
  <2>1. Stopping' => Stopping
    BY <1>0, <1>1, <1>5, GoroutineKinds DEF Stopping, At, Calling
  <2>2. FiveSecondsLater => FiveSecondsLater'
    BY <1>1, <1>5 DEF FiveSecondsLater, At
  <2>3. Open' = Open
    BY <1>1 DEF Open
  <2> QED
    BY <1>0, <1>1, <2>1, <2>2, <2>3 DEF Swept
<1> QED
  BY <1>6, <1>8, <1>10, <1>12, <1>13, <1>15, <1>16 DEF IInv

\* A stop order that would trigger at once: the goroutine stays at its call, with
\* a market order instead, or is through.
LEMMA RejectTriggeredStep ==
    ASSUME IInv, NEW g \in Goroutines, RejectTriggered(g)
    PROVE  IInv'
<1>0. /\ TypeOK /\ Roles /\ Assigned /\ Orders /\ Answers /\ Placed
      /\ BeforeEntry /\ OneAtATime /\ EntryKnown /\ EdgeAbove /\ InOrder
      /\ ExitStays /\ OpenExitIsLast /\ Swept
  BY DEF IInv
<1>1. /\ At(g, "send") /\ Calling(g) /\ Futures /\ ~IsMarket(g)
      /\ world' = [world EXCEPT !.triggered = @ + 1]
      /\ \/ go[g].step = "TrailingEntry" /\ go' = [go EXCEPT ![g].market = TRUE]
         \/ go[g].step # "TrailingEntry" /\ go' = Calls(g, "send", "Canceled")
         \/ go[g].step # "TrailingEntry" /\ go' = Goes(g, AfterCall(g))
      /\ machine' = machine /\ model' = model /\ sm' = sm /\ ord' = ord /\ canceling' = canceling
  BY DEF RejectTriggered, At, Calling
<1>2. /\ world' \in [setup : Setups, pos : Int, triggered : Nat]
      /\ world'.setup = world.setup /\ world'.pos = world.pos
  BY <1>0, <1>1, Typed
<1>3. setup' = setup /\ SpotMarket' = SpotMarket /\ Futures' = Futures
  BY <1>2, SameSetup
<1>4. g \in Checks \/ g = Enterer
  BY <1>0, <1>1, GoroutineKinds DEF Assigned, IsMarket
<1>5. /\ go' \in [Goroutines -> GoType] /\ InPlace(g)'
      /\ \A h \in Goroutines : h # g => go'[h] = go[h]
      /\ go[g].step = "TrailingEntry" => go'[g].at = "send" /\ go'[g].step = go[g].step
      /\ go'[g].step \in {go[g].step, "Canceled"}
      /\ g \in Checks => go'[g].at \in {"send", "hold"}
      /\ g = Enterer => go'[g].at \in {"send", "idle"}
  <2>1. CASE go[g].step = "TrailingEntry" /\ go' = [go EXCEPT ![g].market = TRUE]
    <3> DEFINE r == [go[g] EXCEPT !.market = TRUE]
    <3>1. go \in [Goroutines -> GoType] /\ go[g] \in GoType
      BY <1>0, GoTyped
    <3>2. r \in GoType /\ r.at = go[g].at /\ r.step = go[g].step
      BY <3>1 DEF GoType
    <3>3. go' = [go EXCEPT ![g] = r]
      BY <2>1, <3>1 DEF GoType
    <3> HIDE DEF r, GoType
    <3>4. /\ go' \in [Goroutines -> GoType] /\ go'[g] = r
          /\ \A h \in Goroutines : h # g => go'[h] = go[h]
      BY <3>1, <3>2, <3>3
    <3>5. g \in Checks /\ go'[g].at = "send" /\ go'[g].step = "TrailingEntry"
      BY <1>0, <1>1, <1>4, <2>1, <3>2, <3>4 DEF Assigned, At
    <3>6. ~SpotMarket
      BY <1>1 DEF IsMarket
    <3>7. InPlace(g)'
      BY <1>3, <3>5, <3>6, GoroutineKinds DEF InPlace, At, Calling, Started, Working, IsEntry
    <3> QED
      BY <2>1, <3>4, <3>5, <3>7, GoroutineKinds
  <2>2. CASE go[g].step # "TrailingEntry" /\ go' = Calls(g, "send", "Canceled")
    <3>1. /\ go' \in [Goroutines -> GoType] /\ go'[g].at = "send" /\ go'[g].step = "Canceled"
          /\ go'[g].market = go[g].market
          /\ \A h \in Goroutines : h # g => go'[h] = go[h]
      BY <1>0, <2>2, Begins DEF Places, Steps
    <3>2. ~go[g].market
      BY <1>1 DEF IsMarket
    <3>3. InPlace(g)'
      BY <1>1, <1>3, <1>4, <3>1, <3>2, GoroutineKinds DEF InPlace, At, Calling, Started, Working, IsEntry
    <3> QED
      BY <2>2, <3>1, <3>3
  <2>3. CASE go[g].step # "TrailingEntry" /\ go' = Goes(g, AfterCall(g))
    BY <1>0, <1>1, <1>2, <2>3, CallEnds
  <2> QED
    BY <1>1, <2>1, <2>2, <2>3
<1>6. TypeOK'
  BY <1>0, <1>1, <1>2, <1>5, Typed, TypedNext, OrdTyped
<1>7. ~At(g, "answer") /\ ~At(g, "answer")' /\ ~At(g, "cancelFirst")'
  BY <1>1, <1>4, <1>5, GoroutineKinds DEF At
<1>8. Roles' /\ Assigned' /\ Orders' /\ Answers' /\ Placed'
  BY <1>1, <1>2, <1>5, <1>7, QuietMove
<1>9. \A d \in Checks : /\ At(d, "not yet")' <=> At(d, "not yet")
                        /\ At(d, "nap")' <=> At(d, "nap")
                        /\ At(d, "nap") => go'[d] = go[d]
                        /\ Started(d)' <=> Started(d)
                        /\ Working(d)' <=> Working(d)
                        /\ IsEntry(d)' <=> IsEntry(d)
                        /\ go'[d].step \in {go[d].step, "Canceled"}
                        /\ At(d, "answer")' <=> At(d, "answer")
                        /\ At(d, "answer") => go'[d] = go[d]
  <2>1. ASSUME g \in Checks
        PROVE  /\ ~At(g, "not yet") /\ ~At(g, "not yet")' /\ ~At(g, "nap") /\ ~At(g, "nap")'
               /\ Started(g) /\ Started(g)' /\ Working(g) /\ Working(g)'
               /\ IsEntry(g)' <=> IsEntry(g)
    BY <1>1, <1>5, <2>1 DEF At, Working, Started, IsEntry
  <2>2. \A d \in Checks : d # g => go'[d] = go[d]
    BY <1>5, GoroutineKinds
  <2> QED
    BY <1>5, <1>7, <2>1, <2>2 DEF At, Working, Started, IsEntry
<1>10. go'[Loop] = go[Loop] /\ g # Loop
  BY <1>4, <1>5, GoroutineKinds
<1>11. ~model.entered => g \in Checks /\ IsEntry(g) /\ go'[Enterer] = go[Enterer]
  <2>1. ~model.entered => g # Enterer
    BY <1>0, <1>1 DEF BeforeEntry, At
  <2> QED
    BY <1>0, <1>4, <1>5, <1>9, <2>1, <1>1, GoroutineKinds DEF BeforeEntry, Started, Working, At
<1>12. BeforeEntry'
  <2>1. machine # "WaitForEntry"
    BY <1>0, <1>1, <1>11 DEF BeforeEntry, At
  <2>2. ~model.entered => \A d \in Checks : Started(d)' => IsEntry(d)'
    BY <1>0, <1>9 DEF BeforeEntry
  <2> QED
    BY <1>0, <1>1, <1>10, <1>11, <2>1, <2>2 DEF BeforeEntry, At
<1>13. OneAtATime'
  BY <1>0, <1>1, <1>3, <1>9 DEF OneAtATime
<1>14. EntryKnown'
  <2> SUFFICES ASSUME ~model.entered
               PROVE  EntryKnown'
    BY <1>1 DEF EntryKnown
  <2>1. Live' = Live /\ Last' = Last /\ (NoMarket' <=> NoMarket)
    BY <1>1 DEF Live, Last, NoMarket, Previous
  <2>2. go'[g].at = "send" /\ go[g].at = "send"
    BY <1>1, <1>5, <1>11 DEF IsEntry, At
  <2>3. \A d \in Checks, place \in {"cancelFirst", "send", "answer", "hold"} :
           At(d, place)' => At(d, place) /\ (d = g => place = "send") /\ (d # g => go'[d] = go[d])
    BY <1>5, <2>2, GoroutineKinds DEF At
  <2> QED
    BY <1>0, <1>1, <1>2, <1>9, <2>1, <2>3 DEF EntryKnown
<1>15. EdgeAbove'
  BY <1>0, <1>1, <1>9 DEF EdgeAbove
<1>16. InOrder'
  <2>1. \A a, d \in Checks : At(a, "not yet")' /\ a <= d => At(d, "not yet")'
    BY <1>0, <1>9 DEF InOrder
  <2>2. \A a, d \in Checks :
           At(a, "nap")' /\ go'[a].step = "TakeProfit" /\ At(d, "nap")' /\ IsEntry(d)' => d < a
    BY <1>0, <1>9 DEF InOrder
  <2>3. \A d \in Checks : Started(d)' /\ IsEntry(d)' =>
           /\ \A k \in DOMAIN ord : ord[k].step # "TakeProfit"
           /\ \A a \in Checks : Working(a)' => go'[a].step # "TakeProfit"
    BY <1>0, <1>9 DEF InOrder
  <2> QED
    BY <1>1, <2>1, <2>2, <2>3 DEF InOrder
<1>17. ExitStays' /\ OpenExitIsLast'
  <2>1. Futures /\ NoExitFilled => canceling' = {} /\ At(Loop, "idle")' /\ Running'
    BY <1>0, <1>1, <1>10 DEF ExitStays, Running, At
  <2> QED
    BY <1>0, <1>1, <1>2, <1>3, <1>9, <2>1, QuietExits
<1>18. Swept'
  <2>1. ~FiveSecondsLater /\ (Stopping' <=> Stopping)
    BY <1>1, <1>10 DEF FiveSecondsLater, At, Stopping, Calling
  <2> QED
    BY <1>0, <1>1, <2>1 DEF Swept
<1> QED
  BY <1>6, <1>8, <1>12, <1>13, <1>14, <1>15, <1>16, <1>17, <1>18 DEF IInv

\* The order the exchange takes is the next one.
LEMMA Accepted ==
    ASSUME TypeOK, NEW g \in Goroutines, AcceptOrder(g), go[g].step \in Steps
    PROVE  /\ Len(ord) + 1 \in OrderIds /\ Len(ord) + 1 \notin DOMAIN ord
           /\ ord' \in Seq(OrderType) /\ Len(ord') = Len(ord) + 1
           /\ DOMAIN ord' = DOMAIN ord \cup {Len(ord) + 1}
           /\ \A j \in DOMAIN ord : ord'[j] = ord[j]
           /\ ord'[Len(ord) + 1].step = go[g].step
           /\ ~ord'[Len(ord) + 1].known /\ ~ord'[Len(ord) + 1].told
           /\ ord'[Len(ord) + 1].market <=> IsMarket(g)
           /\ ord'[Len(ord) + 1].status = IF IsMarket(g) THEN "filled" ELSE "open"
<1> DEFINE n == Len(ord) + 1
           o == [step |-> go[g].step, known |-> FALSE, told |-> FALSE, market |-> IsMarket(g),
                 status |-> IF IsMarket(g) THEN "filled" ELSE "open"]
<1>1. ord \in Seq(OrderType) /\ Len(ord) \in Nat /\ DOMAIN ord = 1 .. Len(ord)
  BY OrdTyped
<1>2. ord' = Append(ord, o) /\ Len(ord) < setup.orders
  BY DEF AcceptOrder
<1>3. IsMarket(g) \in BOOLEAN
  <2>1. go[g].market \in BOOLEAN
    BY GoTyped DEF GoType
  <2> QED
    BY <2>1 DEF IsMarket, SpotMarket
<1>4. /\ o \in OrderType /\ o.step = go[g].step /\ ~o.known /\ ~o.told
      /\ o.market <=> IsMarket(g)
      /\ o.status = IF IsMarket(g) THEN "filled" ELSE "open"
  BY <1>3 DEF OrderType
<1>5. n \in OrderIds /\ n \notin DOMAIN ord
  <2>1. setup.orders \in Nat /\ 1 .. setup.orders \subseteq OrderIds
    BY Typed, SetupFacts
  <2>2. n \in 1 .. setup.orders
    BY <1>1, <1>2, <2>1
  <2> QED
    BY <1>1, <2>1, <2>2
<1> HIDE DEF o, OrderType
<1>6. /\ ord' \in Seq(OrderType) /\ Len(ord') = n
      /\ \A j \in 1 .. Len(ord) : ord'[j] = ord[j]
      /\ ord'[n] = o
  BY <1>1, <1>2, <1>4, AppendProperties
<1>7. DOMAIN ord' = 1 .. n
  BY <1>6, LenProperties
<1>8. 1 .. n = (1 .. Len(ord)) \cup {n}
  BY <1>1
<1> QED
  BY <1>1, <1>4, <1>5, <1>6, <1>7, <1>8

\* An order is open, or was filled at once, and its answer is on its way.
LEMMA AcceptOrderStep ==
    ASSUME IInv, NEW g \in Goroutines, AcceptOrder(g)
    PROVE  IInv'
<1>0. /\ TypeOK /\ Roles /\ Assigned /\ Orders /\ Answers /\ Placed
      /\ BeforeEntry /\ OneAtATime /\ EntryKnown /\ EdgeAbove /\ InOrder
      /\ ExitStays /\ OpenExitIsLast /\ Swept
  BY DEF IInv
<1>1. /\ At(g, "send") /\ Calling(g) /\ Len(ord) < setup.orders /\ Got(go[g].step) > 0
      /\ world' = [world EXCEPT !.pos = IF IsMarket(g) THEN Moved(go[g].step) ELSE @]
      /\ go' = [go EXCEPT ![g].at = "answer", ![g].order = Len(ord) + 1]
      /\ machine' = machine /\ model' = model /\ sm' = sm /\ canceling' = canceling
  BY DEF AcceptOrder, At, Calling
<1>2. go[g].step \in Steps /\ (g = Loop => go[g].step = "Canceled" \/ SpotMarket)
  BY <1>0, <1>1, GoroutineKinds DEF Assigned, Steps
<1>n. PICK n : n = Len(ord) + 1
  OBVIOUS
<1>3. /\ n \in OrderIds /\ n \notin DOMAIN ord
      /\ ord' \in Seq(OrderType) /\ Len(ord') = n
      /\ DOMAIN ord' = DOMAIN ord \cup {n}
      /\ \A j \in DOMAIN ord : ord'[j] = ord[j]
      /\ ord'[n].step = go[g].step /\ ~ord'[n].known /\ ~ord'[n].told
      /\ ord'[n].market <=> IsMarket(g)
      /\ ord'[n].status = IF IsMarket(g) THEN "filled" ELSE "open"
  BY <1>0, <1>2, <1>n, Accepted
<1>4. /\ Got(go[g].step) = 1 /\ Moved(go[g].step) \in Int
      /\ go[g].step \in Entries => Moved(go[g].step) = world.pos + 1
      /\ go[g].step \notin Entries => /\ Moved(go[g].step) = world.pos - 1
                                      /\ Futures => world.pos >= 1
  <2>1. world.pos \in Int
    BY <1>0, Typed
  <2> QED
    BY <1>0, <1>1, <1>2, <2>1, PositionMoves
<1>5. /\ world' \in [setup : Setups, pos : Int, triggered : Nat]
      /\ world'.setup = world.setup
      /\ world'.pos = IF IsMarket(g) THEN Moved(go[g].step) ELSE world.pos
  BY <1>0, <1>1, <1>4, Typed
<1>6. setup' = setup /\ SpotMarket' = SpotMarket /\ Futures' = Futures
  BY <1>5, SameSetup
<1>7. /\ go' \in [Goroutines -> GoType]
      /\ go'[g].at = "answer" /\ go'[g].order = n /\ go'[g].step = go[g].step
      /\ go'[g].market = go[g].market
      /\ \A h \in Goroutines : h # g => go'[h] = go[h]
  <2> DEFINE r == [go[g] EXCEPT !.at = "answer", !.order = n]
  <2>1. go \in [Goroutines -> GoType] /\ go[g] \in GoType
    BY <1>0, GoTyped
  <2>2. /\ r \in GoType /\ r.at = "answer" /\ r.order = n /\ r.step = go[g].step
        /\ r.market = go[g].market
    BY <1>3, <2>1 DEF GoType, Places
  <2>3. go' = [go EXCEPT ![g] = r]
    BY <1>1, <1>n, <2>1 DEF GoType
  <2> HIDE DEF r, GoType
  <2> QED
    BY <2>1, <2>2, <2>3
<1>8. TypeOK'
  BY <1>0, <1>1, <1>3, <1>5, <1>7, Typed, TypedNext
<1>9. Roles' /\ Assigned'
  <2>1. InPlace(g)'
    <3>1. InPlace(g)
      BY <1>0, InPlaceNow
    <3> QED
      BY <1>1, <1>6, <1>7, <3>1 DEF InPlace, At, Calling, Started, Working, IsEntry
  <2>2. ASSUME NEW h \in Goroutines, h # g
        PROVE  InPlace(h)'
    <3>1. InPlace(h) /\ go'[h] = go[h]
      BY <1>0, <1>7, <2>2, InPlaceNow
    <3> QED
      BY <1>6, <3>1 DEF InPlace, At, Calling, Started, Working, IsEntry
  <2> QED
    BY <2>1, <2>2, InPlaceNext
<1>10. SpotMarket => go[g].step # "TrailingEntry"
  BY <1>0, <1>1, GoroutineKinds DEF Assigned, Started, Working, IsEntry, At
<1>11. Orders'
  <2>1. Len(ord') <= setup.orders
    <3>1. Len(ord) \in Nat /\ setup.orders \in Nat
      BY <1>0, OrdTyped, Typed, SetupFacts
    <3> QED
      BY <1>1, <1>3, <1>n, <3>1
  <2>2. \A k \in DOMAIN ord :
           /\ ord'[k].told => ord'[k].known /\ ord'[k].status = "filled"
           /\ ord'[k].market => ord'[k].status = "filled"
           /\ ord'[k].step = "Canceled" \/ SpotMarket => ord'[k].market
           /\ SpotMarket => ord'[k].step # "TrailingEntry"
           /\ ord'[k].status = "open" /\ ord'[k].known => k \in model.orders
    BY <1>0, <1>3 DEF Orders
  <2>3. /\ ord'[n].market => ord'[n].status = "filled"
        /\ ord'[n].step = "Canceled" \/ SpotMarket => ord'[n].market
        /\ SpotMarket => ord'[n].step # "TrailingEntry"
    BY <1>3, <1>10 DEF IsMarket
  <2> QED
    BY <1>1, <1>3, <1>6, <2>1, <2>2, <2>3 DEF Orders
<1>12. \A h \in Goroutines : h # g => /\ At(h, "answer")' <=> At(h, "answer")
                                      /\ At(h, "answer") => go'[h] = go[h] /\ go[h].order # n
  BY <1>0, <1>3, <1>7 DEF Answers, At
<1>13. At(g, "answer")' /\ ~At(g, "answer")
  BY <1>1, <1>7 DEF At
<1>14. Answers'
  <2>1. \A h \in Goroutines : At(h, "answer")' =>
           /\ go'[h].order \in DOMAIN ord' /\ ~ord'[go'[h].order].known
           /\ ord'[go'[h].order].step = go'[h].step
           /\ ord'[go'[h].order].market <=> IsMarket(h)'
    <3>1. ASSUME NEW h \in Goroutines, h # g, At(h, "answer")
          PROVE  /\ go'[h].order \in DOMAIN ord' /\ ~ord'[go'[h].order].known
                 /\ ord'[go'[h].order].step = go'[h].step
                 /\ ord'[go'[h].order].market <=> IsMarket(h)'
      <4>1. /\ go[h].order \in DOMAIN ord /\ ~ord[go[h].order].known
            /\ ord[go[h].order].step = go[h].step
            /\ ord[go[h].order].market <=> IsMarket(h)
        BY <1>0, <3>1 DEF Answers
      <4>2. IsMarket(h)' <=> IsMarket(h)
        BY <1>6, <1>7, <3>1 DEF IsMarket
      <4> QED
        BY <1>3, <1>12, <3>1, <4>1, <4>2
    <3>2. IsMarket(g)' <=> IsMarket(g)
      BY <1>6, <1>7 DEF IsMarket
    <3>3. ord'[n].market <=> IsMarket(g)'
      BY <1>3, <3>2
    <3> QED
      BY <1>3, <1>7, <1>12, <3>1, <3>3
  <2>2. \A h, i \in Goroutines :
           At(h, "answer")' /\ At(i, "answer")' /\ go'[h].order = go'[i].order => h = i
    BY <1>0, <1>7, <1>12 DEF Answers
  <2>3. \A k \in DOMAIN ord' :
           ~ord'[k].known => \E h \in Goroutines : At(h, "answer")' /\ go'[h].order = k
    <3>1. ASSUME NEW k \in DOMAIN ord, ~ord[k].known
          PROVE  \E h \in Goroutines : At(h, "answer")' /\ go'[h].order = k
      <4>1. PICK h \in Goroutines : At(h, "answer") /\ go[h].order = k
        BY <1>0, <3>1 DEF Answers
      <4> QED
        BY <1>12, <1>13, <4>1
    <3> QED
      BY <1>3, <1>7, <1>13, <3>1
  <2> QED
    BY <2>1, <2>2, <2>3 DEF Answers
<1>15. Placed'
  <2>1. \A c \in Checks : At(c, "cancelFirst")' => At(c, "cancelFirst") /\ go'[c] = go[c]
    BY <1>7, GoroutineKinds DEF At
  <2> QED
    BY <1>0, <1>1, <1>3, <2>1 DEF Placed
<1>16. \A d \in Checks : /\ At(d, "not yet")' <=> At(d, "not yet")
                         /\ At(d, "nap")' <=> At(d, "nap")
                         /\ At(d, "nap") => go'[d] = go[d]
                         /\ Started(d)' <=> Started(d)
                         /\ Working(d)' <=> Working(d)
                         /\ IsEntry(d)' <=> IsEntry(d)
                         /\ go'[d].step = go[d].step
  <2>1. ASSUME g \in Checks
        PROVE  /\ ~At(g, "not yet") /\ ~At(g, "not yet")' /\ ~At(g, "nap") /\ ~At(g, "nap")'
               /\ Started(g) /\ Started(g)' /\ Working(g) /\ Working(g)'
               /\ IsEntry(g)' <=> IsEntry(g)
    BY <1>1, <1>7, <2>1 DEF At, Working, Started, IsEntry
  <2>2. \A d \in Checks : d # g => go'[d] = go[d]
    BY <1>7, GoroutineKinds
  <2> QED
    BY <1>7, <2>1, <2>2 DEF At, Working, Started, IsEntry
<1>17. ~model.entered => /\ g \in Checks /\ IsEntry(g) /\ Started(g) /\ Working(g)
                         /\ go'[Loop] = go[Loop] /\ go'[Enterer] = go[Enterer]
  <2>1. ~model.entered => g \in Checks
    BY <1>0, <1>1, GoroutineKinds DEF BeforeEntry, At
  <2>2. g \in Checks => Started(g) /\ Working(g)
    BY <1>1 DEF Started, Working, At
  <2> QED
    BY <1>0, <1>7, <2>1, <2>2, GoroutineKinds DEF BeforeEntry
<1>18. BeforeEntry'
  <2>1. machine # "WaitForEntry"
    BY <1>0, <1>1, <1>17 DEF BeforeEntry, At
  <2>2. ~model.entered => \A d \in Checks : Started(d)' => IsEntry(d)'
    BY <1>0, <1>16 DEF BeforeEntry
  <2>3. ~model.entered => \A k \in DOMAIN ord' : ord'[k].step = "TrailingEntry" /\ ~ord'[k].told
    BY <1>0, <1>3, <1>17 DEF BeforeEntry, IsEntry
  <2> QED
    BY <1>0, <1>1, <1>17, <2>1, <2>2, <2>3 DEF BeforeEntry, At
<1>19. OneAtATime'
  BY <1>0, <1>1, <1>6, <1>16 DEF OneAtATime
<1>20. EntryKnown'
  <2> SUFFICES ASSUME ~model.entered
               PROVE  EntryKnown'
    BY <1>1 DEF EntryKnown
  <2>1. g \in Checks /\ IsEntry(g) /\ \A d \in Checks : Working(d)' => d = g
    BY <1>0, <1>16, <1>17, EntryUnderLock
  <2>2. Live = {} /\ world.pos = 0
    <3>1. Live = {}
      BY <1>0, <1>1, <2>1 DEF EntryKnown
    <3>2. \A k \in DOMAIN ord : ord[k].status # "filled"
      BY <3>1 DEF Live
    <3> QED
      BY <1>0, <3>1, <3>2 DEF EntryKnown
  <2>3. Live' = {n}
    <3>1. ord'[n].status # "canceled"
      BY <1>3
    <3>2. \A j \in DOMAIN ord : ord'[j].status = "canceled"
      BY <1>3, <2>2 DEF Live
    <3> QED
      BY <1>3, <3>1, <3>2 DEF Live
  <2>4. world'.pos = IF \E k \in DOMAIN ord' : ord'[k].status = "filled" THEN 1 ELSE 0
    <3>1. \A j \in DOMAIN ord : ord'[j].status # "filled"
      BY <1>3, <2>2 DEF Live
    <3>2. (\E k \in DOMAIN ord' : ord'[k].status = "filled") <=> IsMarket(g)
      BY <1>3, <3>1
    <3>3. Moved(go[g].step) = 1
      BY <1>4, <2>1, <2>2 DEF IsEntry, Entries
    <3> QED
      BY <1>5, <2>2, <3>2, <3>3
  <2>5. \A d \in Checks, place \in {"cancelFirst", "send", "answer", "hold"} :
           At(d, place)' => d = g /\ place = "answer"
    BY <1>7, <2>1 DEF Working, At
  <2>6. Working(g)'
    BY <1>7 DEF Working
  <2> QED
    BY <1>1, <1>7, <2>1, <2>3, <2>4, <2>5, <2>6 DEF EntryKnown
<1>21. EdgeAbove'
  BY <1>0, <1>1, <1>16 DEF EdgeAbove
<1>22. InOrder'
  <2>1. \A a, d \in Checks : At(a, "not yet")' /\ a <= d => At(d, "not yet")'
    BY <1>0, <1>16 DEF InOrder
  <2>2. \A a, d \in Checks :
           At(a, "nap")' /\ go'[a].step = "TakeProfit" /\ At(d, "nap")' /\ IsEntry(d)' => d < a
    BY <1>0, <1>16 DEF InOrder
  <2>3. ASSUME NEW d \in Checks, Started(d)', IsEntry(d)'
        PROVE  /\ \A k \in DOMAIN ord' : ord'[k].step # "TakeProfit"
               /\ \A a \in Checks : Working(a)' => go'[a].step # "TakeProfit"
    <3>1. /\ Started(d) /\ IsEntry(d)
          /\ \A k \in DOMAIN ord : ord[k].step # "TakeProfit"
          /\ \A a \in Checks : Working(a) => go[a].step # "TakeProfit"
      BY <1>0, <1>16, <2>3 DEF InOrder
    <3>2. ~SpotMarket
      BY <1>0, <3>1 DEF Assigned
    <3>3. go[g].step # "TakeProfit"
      <4>1. CASE g \in Checks
        BY <1>1, <3>1, <4>1 DEF Working, At
      <4>2. CASE g \notin Checks
        BY <1>0, <1>1, <3>2, <4>2, GoroutineKinds DEF Assigned
      <4> QED
        BY <4>1, <4>2
    <3> QED
      BY <1>3, <1>16, <3>1, <3>3
  <2> QED
    BY <2>1, <2>2, <2>3 DEF InOrder
<1>23. ExitStays'
  <2> SUFFICES ASSUME Futures
               PROVE  ExitStays'
    BY <1>6 DEF ExitStays
  <2>1. world.pos \in Int /\ world.pos >= 0
    BY <1>0, Typed DEF ExitStays
  <2>2. world'.pos >= 0
    BY <1>4, <1>5, <2>1
  <2> SUFFICES ASSUME NoExitFilled'
               PROVE  ExitStays'
    BY <2>2 DEF ExitStays
  <2>3. NoExitFilled
    BY <1>3 DEF NoExitFilled
  <2>4. go[g].step \notin Entries => ~IsMarket(g)
    BY <1>3 DEF NoExitFilled
  <2>5. world'.pos >= world.pos /\ (IsMarket(g) => world'.pos >= 1)
    BY <1>4, <1>5, <2>1, <2>4
  <2>6. g # Loop /\ canceling' = {} /\ At(Loop, "idle")' /\ Running'
    <3>1. canceling = {} /\ At(Loop, "idle") /\ Running
      BY <1>0, <2>3 DEF ExitStays
    <3>2. g # Loop
      BY <1>1, <3>1 DEF At
    <3> QED
      BY <1>1, <1>7, <3>1, <3>2, GoroutineKinds DEF At, Running
  <2>7. model.entered \/ (\E k \in DOMAIN ord' : ord'[k].status = "filled") => world'.pos >= 1
    <3>1. model.entered \/ (\E k \in DOMAIN ord : ord[k].status = "filled") => world.pos >= 1
      BY <1>0, <2>3 DEF ExitStays
    <3>2. world'.pos \in Int
      BY <1>5
    <3>3. ord'[n].status = "filled" => world'.pos >= 1
      BY <1>3, <2>5
    <3>4. world.pos >= 1 => world'.pos >= 1
      BY <2>1, <2>5, <3>2
    <3> QED
      BY <1>3, <3>1, <3>3, <3>4
  <2>8. (\E k \in DOMAIN ord' : ord'[k].step = "TakeProfit" /\ ord'[k].known) =>
           /\ model.placed # <<>>
           /\ ord'[Previous].step = "TakeProfit" /\ ord'[Previous].status = "open"
    <3>1. model.placed # <<>> => Previous \in DOMAIN ord
      BY <1>0, LastPlaced
    <3> QED
      BY <1>0, <1>3, <2>3, <3>1 DEF ExitStays
  <2>9. \A c \in Checks : At(c, "answer")' /\ go'[c].step = "TakeProfit" =>
           ord'[go'[c].order].status = "open"
    <3>1. \A c \in Checks : c # g /\ At(c, "answer") /\ go[c].step = "TakeProfit" =>
             go[c].order \in DOMAIN ord /\ ord[go[c].order].status = "open"
      BY <1>0, <2>3, GoroutineKinds DEF ExitStays, Answers
    <3>2. go[g].step = "TakeProfit" => ord'[n].status = "open"
      BY <1>3, <2>4 DEF Entries
    <3> QED
      BY <1>3, <1>7, <1>12, <3>1, <3>2, GoroutineKinds
  <2>10. Previous' = Previous
    BY <1>1 DEF Previous
  <2> QED
    BY <1>1, <2>2, <2>6, <2>7, <2>8, <2>9, <2>10 DEF ExitStays
<1>24. OpenExitIsLast'
  <2>1. ASSUME NEW k \in Open', ord'[k].step = "TakeProfit"
        PROVE  \/ model.placed # <<>> /\ k = Previous
               \/ \E c \in Checks : At(c, "answer")' /\ go'[c].order = k
    <3>1. CASE k = n
      <4>1. ~IsMarket(g) /\ go[g].step = "TakeProfit"
        BY <1>3, <2>1, <3>1 DEF Open
      <4>2. g \in Checks
        BY <1>0, <1>1, <4>1, GoroutineKinds DEF Assigned, IsMarket
      <4> QED
        BY <1>7, <1>13, <3>1, <4>2
    <3>2. CASE k # n
      <4>1. k \in Open /\ ord[k].step = "TakeProfit"
        BY <1>3, <2>1, <3>2 DEF Open
      <4>2. CASE model.placed # <<>> /\ k = Previous
        BY <4>2
      <4>3. CASE \E c \in Checks : At(c, "answer") /\ go[c].order = k
        BY <1>12, <1>13, <4>3, GoroutineKinds
      <4> QED
        BY <1>0, <4>1, <4>2, <4>3 DEF OpenExitIsLast
    <3> QED
      BY <3>1, <3>2
  <2>2. Previous' = Previous
    BY <1>1 DEF Previous
  <2> QED
    BY <1>1, <2>1, <2>2 DEF OpenExitIsLast
<1>25. Swept'
  <2>1. CASE g # Loop
    <3>1. ~FiveSecondsLater /\ (Stopping' <=> Stopping)
      BY <1>1, <1>7, <2>1, GoroutineKinds DEF FiveSecondsLater, At, Stopping, Calling
    <3> QED
      BY <1>0, <1>1, <3>1 DEF Swept
  <2>2. CASE g = Loop
    <3>1. (Stopping' => Stopping) /\ (FiveSecondsLater => FiveSecondsLater')
      BY <1>1, <1>7, <2>2 DEF FiveSecondsLater, At, Stopping, Calling
    <3>2. Open' = Open
      <4>1. ord'[n].status = "filled"
        BY <1>2, <1>3, <2>2 DEF IsMarket
      <4> QED
        BY <1>3, <4>1 DEF Open
    <3> QED
      BY <1>0, <1>1, <3>1, <3>2 DEF Swept
  <2> QED
    BY <2>1, <2>2
<1> QED
  BY <1>8, <1>9, <1>11, <1>14, <1>15, <1>18, <1>19, <1>20, <1>21, <1>22, <1>23, <1>24, <1>25 DEF IInv

\* The exit that is canceled when a new one is registered.
Replaced(g) ==
    IF Replaces(g) /\ ord[go[g].order].step = "TakeProfit" /\ model.placed # <<>>
    THEN {Previous} ELSE {}

\* What registering an order changes: it is known, the trailing exit before it is
\* canceled, and it is the order placed last.
LEMMA Answered ==
    ASSUME TypeOK, Orders, Answers, Placed, NEW g \in Goroutines, Answer(g)
    PROVE  \E k \in DOMAIN ord, old \in SUBSET DOMAIN ord :
           /\ k = go[g].order /\ old = Replaced(g)
           /\ k \in DOMAIN ord /\ ~ord[k].known /\ k \notin old
           /\ old \subseteq DOMAIN ord /\ \A j \in old : ord[j].known
           /\ ord' \in Seq(OrderType) /\ Len(ord') = Len(ord) /\ DOMAIN ord' = DOMAIN ord
           /\ ord'[k].known /\ ord'[k].status = ord[k].status
           /\ \A j \in DOMAIN ord :
                 /\ ord'[j].step = ord[j].step /\ ord'[j].told = ord[j].told
                 /\ ord'[j].market = ord[j].market
                 /\ j # k => ord'[j].known = ord[j].known
                 /\ ord'[j].status = IF j \in old /\ ord[j].status = "open"
                                     THEN "canceled" ELSE ord[j].status
           /\ model' \in ModelType
           /\ model'.placed = IF Replaces(g) THEN Append(model.placed, k) ELSE model.placed
           /\ model'.orders = IF ord[k].step = "Canceled" THEN model.orders ELSE model.orders \cup {k}
           /\ model'.entered = model.entered /\ model'.enabled = model.enabled
           /\ model'.state = model.state /\ model'.edge = model.edge
           /\ canceling' = canceling \ old
<1>k. PICK k : k = go[g].order
  OBVIOUS
<1>o. PICK old : old = Replaced(g)
  OBVIOUS
<1>1. /\ At(g, "answer")
      /\ ord' = [Closed(old) EXCEPT ![k].known = TRUE]
      /\ canceling' = canceling \ old
      /\ model' = [model EXCEPT !.placed = IF Replaces(g) THEN Append(@, k) ELSE @,
                                !.orders = IF ord[k].step = "Canceled" THEN @ ELSE @ \cup {k}]
  BY <1>k, <1>o DEF Answer, Replaced
<1>2. k \in DOMAIN ord /\ ~ord[k].known
  BY <1>1, <1>k DEF Answers
<1>3. old \subseteq DOMAIN ord /\ \A j \in old : ord[j].known
  BY <1>o, LastPlaced DEF Replaced
<1>4. k \notin old
  BY <1>2, <1>3
<1>5. /\ Closed(old) \in Seq(OrderType) /\ Len(Closed(old)) = Len(ord)
      /\ DOMAIN Closed(old) = DOMAIN ord
      /\ \A j \in DOMAIN ord :
            /\ Closed(old)[j] \in OrderType
            /\ Closed(old)[j].step = ord[j].step /\ Closed(old)[j].known = ord[j].known
            /\ Closed(old)[j].told = ord[j].told /\ Closed(old)[j].market = ord[j].market
            /\ Closed(old)[j].status = IF j \in old /\ ord[j].status = "open"
                                       THEN "canceled" ELSE ord[j].status
  BY Closes
<1> DEFINE o == [Closed(old)[k] EXCEPT !.known = TRUE]
<1>6. /\ o \in OrderType /\ o.known /\ o.step = ord[k].step /\ o.told = ord[k].told
      /\ o.market = ord[k].market /\ o.status = ord[k].status
  <2>1. /\ Closed(old)[k] \in OrderType
        /\ Closed(old)[k].step = ord[k].step /\ Closed(old)[k].told = ord[k].told
        /\ Closed(old)[k].market = ord[k].market /\ Closed(old)[k].status = ord[k].status
    BY <1>2, <1>4, <1>5
  <2> QED
    BY <2>1 DEF OrderType
<1>7. ord' = [Closed(old) EXCEPT ![k] = o]
  BY <1>1
<1> HIDE DEF o, OrderType
<1>8. /\ ord' \in Seq(OrderType) /\ Len(ord') = Len(Closed(old))
      /\ \A j \in 1 .. Len(Closed(old)) : ord'[j] = IF j = k THEN o ELSE Closed(old)[j]
  <2>1. k \in 1 .. Len(Closed(old))
    BY <1>2, <1>5, LenProperties
  <2> QED
    BY <1>5, <1>6, <1>7, <2>1, ExceptSeq
<1>9. DOMAIN ord' = DOMAIN ord /\ DOMAIN ord = 1 .. Len(ord)
  BY <1>5, <1>8, OrdTyped, LenProperties
<1>10. /\ model' \in ModelType
       /\ model'.placed = IF Replaces(g) THEN Append(model.placed, k) ELSE model.placed
       /\ model'.orders = IF ord[k].step = "Canceled" THEN model.orders ELSE model.orders \cup {k}
       /\ model'.entered = model.entered /\ model'.enabled = model.enabled
       /\ model'.state = model.state /\ model'.edge = model.edge
  <2>1. k \in OrderIds
    <3>1. go[g].order \in {0} \cup OrderIds
      BY GoTyped DEF GoType
    <3>2. k # 0
      <4>1. k \in 1 .. Len(ord) /\ Len(ord) \in Nat
        BY <1>2, OrdTyped
      <4> QED
        BY <4>1
    <3> QED
      BY <1>k, <3>1, <3>2
  <2>2. Append(model.placed, k) \in Seq(OrderIds) /\ model.orders \cup {k} \subseteq OrderIds
    <3>1. model.placed \in Seq(OrderIds) /\ model.orders \subseteq OrderIds
      BY DEF TypeOK
    <3> QED
      BY <2>1, <3>1, AppendProperties
  <2> DEFINE placed == IF Replaces(g) THEN Append(model.placed, k) ELSE model.placed
             orders == IF ord[k].step = "Canceled" THEN model.orders ELSE model.orders \cup {k}
  <2>3. placed \in Seq(OrderIds) /\ orders \in SUBSET OrderIds /\ model \in ModelType
    BY <2>2, Typed DEF ModelType
  <2>4. model' = [model EXCEPT !.placed = placed, !.orders = orders]
    BY <1>1, <2>3 DEF ModelType
  <2> HIDE DEF placed, orders
  <2>5. /\ model' \in ModelType /\ model'.placed = placed /\ model'.orders = orders
        /\ model'.entered = model.entered /\ model'.enabled = model.enabled
        /\ model'.state = model.state /\ model'.edge = model.edge
    BY <2>3, <2>4 DEF ModelType
  <2> QED
    BY <2>5 DEF placed, orders
<1>11. /\ ord'[k].known /\ ord'[k].status = ord[k].status
       /\ \A j \in DOMAIN ord :
             /\ ord'[j].step = ord[j].step /\ ord'[j].told = ord[j].told
             /\ ord'[j].market = ord[j].market
             /\ j # k => ord'[j].known = ord[j].known
             /\ ord'[j].status = IF j \in old /\ ord[j].status = "open"
                                 THEN "canceled" ELSE ord[j].status
  <2>1. ord'[k] = o /\ \A j \in DOMAIN ord : j # k => ord'[j] = Closed(old)[j]
    BY <1>2, <1>5, <1>8, <1>9
  <2>2. ord'[k].known /\ ord'[k].status = ord[k].status
    BY <1>6, <2>1
  <2>3. ASSUME NEW j \in DOMAIN ord
        PROVE  /\ ord'[j].step = ord[j].step /\ ord'[j].told = ord[j].told
               /\ ord'[j].market = ord[j].market
               /\ j # k => ord'[j].known = ord[j].known
               /\ ord'[j].status = IF j \in old /\ ord[j].status = "open"
                                   THEN "canceled" ELSE ord[j].status
    <3>1. CASE j = k
      BY <1>4, <1>6, <2>1, <3>1
    <3>2. CASE j # k
      BY <1>5, <2>1, <3>2
    <3> QED
      BY <3>1, <3>2
  <2> QED
    BY <2>2, <2>3
<1> QED
  <2>1. k \in DOMAIN ord /\ old \in SUBSET DOMAIN ord
    BY <1>2, <1>3
  <2> WITNESS k \in DOMAIN ord, old \in SUBSET DOMAIN ord
  <2> QED
    BY <1>1, <1>2, <1>3, <1>4, <1>5, <1>8, <1>9, <1>10, <1>11, <1>k, <1>o

\* A new order is registered, and the exit it replaces is canceled.
LEMMA AnswerStep ==
    ASSUME IInv, NEW g \in Goroutines, Answer(g)
    PROVE  IInv'
<1>0. /\ TypeOK /\ Roles /\ Assigned /\ Orders /\ Answers /\ Placed
      /\ BeforeEntry /\ OneAtATime /\ EntryKnown /\ EdgeAbove /\ InOrder
      /\ ExitStays /\ OpenExitIsLast /\ Swept
  BY DEF IInv
<1>1. /\ At(g, "answer") /\ Calling(g) /\ go' = Goes(g, AfterCall(g))
      /\ machine' = machine /\ sm' = sm /\ world' = world
  BY DEF Answer, At, Calling
<1>a. PICK k \in DOMAIN ord, old \in SUBSET DOMAIN ord :
      /\ k = go[g].order /\ old = Replaced(g)
      /\ k \in DOMAIN ord /\ ~ord[k].known /\ k \notin old
      /\ old \subseteq DOMAIN ord /\ \A j \in old : ord[j].known
      /\ ord' \in Seq(OrderType) /\ Len(ord') = Len(ord) /\ DOMAIN ord' = DOMAIN ord
      /\ ord'[k].known /\ ord'[k].status = ord[k].status
      /\ \A j \in DOMAIN ord :
            /\ ord'[j].step = ord[j].step /\ ord'[j].told = ord[j].told
            /\ ord'[j].market = ord[j].market
            /\ j # k => ord'[j].known = ord[j].known
            /\ ord'[j].status = IF j \in old /\ ord[j].status = "open"
                                THEN "canceled" ELSE ord[j].status
      /\ model' \in ModelType
      /\ model'.placed = IF Replaces(g) THEN Append(model.placed, k) ELSE model.placed
      /\ model'.orders = IF ord[k].step = "Canceled" THEN model.orders ELSE model.orders \cup {k}
      /\ model'.entered = model.entered /\ model'.enabled = model.enabled
      /\ model'.state = model.state /\ model'.edge = model.edge
      /\ canceling' = canceling \ old
  BY <1>0, Answered
<1>k. k = go[g].order
  BY <1>a
<1>o. old = IF Replaces(g) /\ ord[k].step = "TakeProfit" /\ model.placed # <<>>
                       THEN {Previous} ELSE {}
  BY <1>a DEF Replaced
<1>2. /\ k \in DOMAIN ord /\ ~ord[k].known /\ k \notin old
      /\ old \subseteq DOMAIN ord /\ \A j \in old : ord[j].known
      /\ ord' \in Seq(OrderType) /\ Len(ord') = Len(ord) /\ DOMAIN ord' = DOMAIN ord
      /\ ord'[k].known /\ ord'[k].status = ord[k].status
      /\ \A j \in DOMAIN ord :
            /\ ord'[j].step = ord[j].step /\ ord'[j].told = ord[j].told
            /\ ord'[j].market = ord[j].market
            /\ j # k => ord'[j].known = ord[j].known
            /\ ord'[j].status = IF j \in old /\ ord[j].status = "open"
                                THEN "canceled" ELSE ord[j].status
      /\ model' \in ModelType
      /\ model'.placed = IF Replaces(g) THEN Append(model.placed, k) ELSE model.placed
      /\ model'.orders = IF ord[k].step = "Canceled" THEN model.orders ELSE model.orders \cup {k}
      /\ model'.entered = model.entered /\ model'.enabled = model.enabled
      /\ model'.state = model.state /\ model'.edge = model.edge
      /\ canceling' = canceling \ old
  BY <1>a
<1>3. setup' = setup /\ SpotMarket' = SpotMarket /\ Futures' = Futures
  BY <1>1, SameSetup
<1>4. ord[k].step = go[g].step /\ (ord[k].market <=> IsMarket(g))
  BY <1>0, <1>1, <1>k DEF Answers
<1>5. /\ go' \in [Goroutines -> GoType] /\ InPlace(g)'
      /\ go'[g].step = go[g].step /\ go'[g].market = go[g].market
      /\ \A h \in Goroutines : h # g => go'[h] = go[h]
      /\ g \in Checks => go'[g].at = "hold"
      /\ g = Enterer => go'[g].at = "idle"
      /\ g = Loop => go'[g].at = IF go[g].step = "Canceled" THEN "stop" ELSE "move"
  BY <1>0, <1>1, CallEnds
<1>6. TypeOK'
  BY <1>0, <1>1, <1>2, <1>5, Typed, TypedNext
<1>7. ~At(g, "answer")' /\ ~At(g, "cancelFirst")' /\ ~At(g, "cancelFirst")
  BY <1>1, <1>5, GoroutineKinds DEF At
<1>8. Roles' /\ Assigned'
  <2>1. ASSUME NEW h \in Goroutines, h # g
        PROVE  InPlace(h)'
    <3>1. InPlace(h) /\ go'[h] = go[h]
      BY <1>0, <1>5, <2>1, InPlaceNow
    <3> QED
      BY <1>3, <3>1 DEF InPlace, At, Calling, Started, Working, IsEntry
  <2> QED
    BY <1>5, <2>1, InPlaceNext
<1>9. Orders'
  <2>1. Len(ord') <= setup.orders
    BY <1>0, <1>2 DEF Orders
  <2>2. ASSUME NEW j \in DOMAIN ord
        PROVE  /\ ord'[j].told => ord'[j].known /\ ord'[j].status = "filled"
               /\ ord'[j].market => ord'[j].status = "filled"
               /\ ord'[j].step = "Canceled" \/ SpotMarket => ord'[j].market
               /\ SpotMarket => ord'[j].step # "TrailingEntry"
    <3>1. /\ ord[j].told => ord[j].known /\ ord[j].status = "filled"
          /\ ord[j].market => ord[j].status = "filled"
          /\ ord[j].step = "Canceled" \/ SpotMarket => ord[j].market
          /\ SpotMarket => ord[j].step # "TrailingEntry"
      BY <1>0 DEF Orders
    <3>2. ord[j].status = "filled" => ord'[j].status = "filled"
      BY <1>2
    <3> QED
      BY <1>2, <3>1, <3>2
  <2>3. ASSUME NEW j \in DOMAIN ord, ord'[j].status = "open", ord'[j].known
        PROVE  j \in model'.orders
    <3>1. CASE j = k
      <4>1. ord[k].step # "Canceled"
        <5>1. ord[k].step = "Canceled" => ord[k].status = "filled"
          BY <1>0, <1>2 DEF Orders
        <5> QED
          BY <1>2, <2>3, <3>1, <5>1
      <4> QED
        BY <1>2, <3>1, <4>1
    <3>2. CASE j # k
      <4>1. ord[j].status = "open" /\ ord[j].known
        BY <1>2, <2>3, <3>2
      <4>2. j \in model.orders
        BY <1>0, <4>1 DEF Orders
      <4> QED
        BY <1>2, <4>2
    <3> QED
      BY <3>1, <3>2
  <2> QED
    BY <1>2, <1>3, <2>1, <2>2, <2>3 DEF Orders
<1>10. \A h \in Goroutines : At(h, "answer")' =>
          /\ h # g /\ At(h, "answer") /\ go'[h] = go[h]
          /\ go[h].order \in DOMAIN ord /\ go[h].order # k
  <2>1. ASSUME NEW h \in Goroutines, At(h, "answer")'
        PROVE  /\ h # g /\ At(h, "answer") /\ go'[h] = go[h]
               /\ go[h].order \in DOMAIN ord /\ go[h].order # k
    <3>1. h # g /\ At(h, "answer") /\ go'[h] = go[h]
      BY <1>5, <1>7, <2>1 DEF At
    <3>2. go[h].order # k
      BY <1>0, <1>1, <1>k, <3>1 DEF Answers
    <3> QED
      BY <1>0, <3>1, <3>2 DEF Answers
  <2> QED
    BY <2>1
<1>11. Answers'
  <2>1. ASSUME NEW h \in Goroutines, At(h, "answer")'
        PROVE  /\ go'[h].order \in DOMAIN ord' /\ ~ord'[go'[h].order].known
               /\ ord'[go'[h].order].step = go'[h].step
               /\ ord'[go'[h].order].market <=> IsMarket(h)'
    <3>1. /\ go[h].order \in DOMAIN ord /\ ~ord[go[h].order].known
          /\ ord[go[h].order].step = go[h].step
          /\ ord[go[h].order].market <=> IsMarket(h)
      BY <1>0, <1>10, <2>1 DEF Answers
    <3>2. IsMarket(h)' <=> IsMarket(h)
      BY <1>3, <1>10, <2>1 DEF IsMarket
    <3> QED
      BY <1>2, <1>10, <2>1, <3>1, <3>2
  <2>2. \A h, i \in Goroutines :
           At(h, "answer")' /\ At(i, "answer")' /\ go'[h].order = go'[i].order => h = i
    BY <1>0, <1>10 DEF Answers
  <2>3. ASSUME NEW j \in DOMAIN ord, ~ord'[j].known
        PROVE  \E h \in Goroutines : At(h, "answer")' /\ go'[h].order = j
    <3>1. j # k /\ ~ord[j].known
      BY <1>2, <2>3
    <3>2. PICK h \in Goroutines : At(h, "answer") /\ go[h].order = j
      BY <1>0, <3>1 DEF Answers
    <3>3. h # g
      BY <1>k, <3>1, <3>2
    <3>4. At(h, "answer")' /\ go'[h].order = j
      BY <1>5, <3>2, <3>3 DEF At
    <3> QED
      BY <3>4
  <2> QED
    BY <1>2, <2>1, <2>2, <2>3 DEF Answers
<1>12. Placed'
  <2>1. \A c \in Checks : At(c, "cancelFirst")' =>
           go'[c].order \in DOMAIN ord /\ ord'[go'[c].order].known
    <3>1. \A c \in Checks : At(c, "cancelFirst")' => At(c, "cancelFirst") /\ go'[c] = go[c]
      BY <1>5, <1>7, GoroutineKinds DEF At
    <3> QED
      BY <1>0, <1>2, <3>1 DEF Placed
  <2>2. \A i \in DOMAIN model'.placed : model'.placed[i] \in DOMAIN ord /\ ord'[model'.placed[i]].known
    <3>1. \A i \in DOMAIN model.placed : model.placed[i] \in DOMAIN ord /\ ord'[model.placed[i]].known
      BY <1>0, <1>2 DEF Placed
    <3>2. CASE Replaces(g)
      <4>1. model.placed \in Seq(OrderIds) /\ model'.placed = Append(model.placed, k) /\ model'.placed \in Seq(OrderIds)
        BY <1>0, <1>2, <3>2, Typed DEF ModelType
      <4>2. /\ Len(model'.placed) = Len(model.placed) + 1
            /\ \A i \in 1 .. Len(model.placed) : model'.placed[i] = model.placed[i]
            /\ model'.placed[Len(model.placed) + 1] = k
        <5>1. model.placed \in Seq(OrderIds \cup {k}) /\ k \in OrderIds \cup {k}
          BY <4>1
        <5> QED
          BY <4>1, <5>1, AppendProperties
      <4>3. ASSUME NEW i \in DOMAIN model'.placed
            PROVE  i \in DOMAIN model.placed \/ i = Len(model.placed) + 1
        <5>1. /\ i \in 1 .. Len(model.placed) + 1 /\ Len(model.placed) \in Nat
              /\ DOMAIN model.placed = 1 .. Len(model.placed)
          BY <4>1, <4>2, <4>3, LenProperties
        <5> QED
          BY <5>1
      <4>4. DOMAIN model.placed = 1 .. Len(model.placed)
        BY <4>1, LenProperties
      <4> QED
        BY <1>2, <3>1, <4>2, <4>3, <4>4
    <3>3. CASE ~Replaces(g)
      BY <1>2, <3>1, <3>3
    <3> QED
      BY <3>2, <3>3
  <2> QED
    BY <1>2, <2>1, <2>2 DEF Placed
<1>13. \A d \in Checks : /\ At(d, "not yet")' <=> At(d, "not yet")
                         /\ At(d, "nap")' <=> At(d, "nap")
                         /\ At(d, "nap") => go'[d] = go[d]
                         /\ Started(d)' <=> Started(d)
                         /\ Working(d)' <=> Working(d)
                         /\ IsEntry(d)' <=> IsEntry(d)
                         /\ go'[d].step = go[d].step
  <2>1. ASSUME g \in Checks
        PROVE  /\ ~At(g, "not yet") /\ ~At(g, "not yet")' /\ ~At(g, "nap") /\ ~At(g, "nap")'
               /\ Started(g) /\ Started(g)' /\ Working(g) /\ Working(g)'
               /\ IsEntry(g)' <=> IsEntry(g)
    BY <1>1, <1>5, <2>1 DEF At, Working, Started, IsEntry
  <2>2. \A d \in Checks : d # g => go'[d] = go[d]
    BY <1>5, GoroutineKinds
  <2> QED
    BY <1>5, <2>1, <2>2 DEF At, Working, Started, IsEntry
<1>14. ~model.entered => /\ g \in Checks /\ IsEntry(g) /\ Started(g) /\ Working(g)
                         /\ go'[Loop] = go[Loop] /\ go'[Enterer] = go[Enterer]
  <2>1. ~model.entered => g \in Checks
    BY <1>0, <1>1, GoroutineKinds DEF BeforeEntry, At
  <2>2. g \in Checks => Started(g) /\ Working(g)
    BY <1>1 DEF Started, Working, At
  <2> QED
    BY <1>0, <1>5, <2>1, <2>2, GoroutineKinds DEF BeforeEntry
<1>15. BeforeEntry'
  <2>1. machine # "WaitForEntry"
    BY <1>0, <1>1, <1>14 DEF BeforeEntry, At
  <2>2. ~model.entered => \A d \in Checks : Started(d)' => IsEntry(d)'
    BY <1>0, <1>13 DEF BeforeEntry
  <2>3. ~model.entered => \A j \in DOMAIN ord : ord'[j].step = "TrailingEntry" /\ ~ord'[j].told
    BY <1>0, <1>2 DEF BeforeEntry
  <2>4. ~model.entered => canceling' = {}
    BY <1>0, <1>2 DEF BeforeEntry
  <2> QED
    BY <1>0, <1>1, <1>2, <1>14, <2>1, <2>2, <2>3, <2>4 DEF BeforeEntry, At
<1>16. OneAtATime'
  BY <1>0, <1>1, <1>3, <1>13 DEF OneAtATime
<1>17. Replaces(g) => model'.placed # <<>> /\ Previous' = k
  <2> SUFFICES ASSUME Replaces(g)
               PROVE  model'.placed # <<>> /\ Previous' = k
    OBVIOUS
  <2>1. model.placed \in Seq(OrderIds \cup {k}) /\ model'.placed = Append(model.placed, k)
    <3>1. model.placed \in Seq(OrderIds)
      BY <1>0, Typed DEF ModelType
    <3> QED
      BY <1>2, <3>1
  <2>2. /\ model'.placed # <<>> /\ Len(model'.placed) = Len(model.placed) + 1
        /\ model'.placed[Len(model.placed) + 1] = k
    BY <2>1, AppendProperties
  <2> QED
    BY <2>2 DEF Previous
<1>18. ~Replaces(g) => model'.placed = model.placed /\ Previous' = Previous /\ old = {}
  BY <1>2, <1>o DEF Previous
<1>19. ~SpotMarket /\ ord[k].step = "TakeProfit" => g \in Checks /\ Replaces(g)
  <2> SUFFICES ASSUME ~SpotMarket, ord[k].step = "TakeProfit"
               PROVE  g \in Checks /\ Replaces(g)
    OBVIOUS
  <2>1. g \in Checks
    BY <1>0, <1>1, <1>4, GoroutineKinds DEF Assigned
  <2>2. ~go[g].market
    BY <1>0, <1>4 DEF Assigned, IsEntry
  <2> QED
    BY <1>4, <2>1, <2>2 DEF Replaces
<1>20. g \in Checks /\ IsEntry(g) => old = {} /\ \A j \in DOMAIN ord : ord[j].step # "TakeProfit"
  <2>1. g \in Checks => Started(g)
    BY <1>1 DEF Started, Working, At
  <2> QED
    BY <1>0, <1>4, <1>o, <2>1 DEF InOrder, IsEntry
<1>21. Replaces(g) /\ ord[k].step # "TakeProfit" => IsEntry(g)
  BY <1>4 DEF Replaces, IsEntry
<1>22. EntryKnown'
  <2> SUFFICES ASSUME ~model.entered
               PROVE  EntryKnown'
    BY <1>2 DEF EntryKnown
  <2>1. g \in Checks /\ IsEntry(g) /\ Working(g)' /\ \A d \in Checks : Working(d)' => d = g
    BY <1>0, <1>13, <1>14, EntryUnderLock
  <2>2. old = {}
    BY <1>20, <2>1
  <2>3. Live' = Live /\ (NoMarket' <=> NoMarket)
    BY <1>2, <2>2 DEF Live, NoMarket
  <2>4. Live \subseteq {k}
    BY <1>0, <1>1, <1>k, <2>1 DEF EntryKnown
  <2>5. NoMarket' => Live' \subseteq Last'
    <3>1. SUFFICES ASSUME NoMarket
                   PROVE  Live' \subseteq Last'
      BY <2>3
    <3>2. ~IsMarket(g)
      BY <1>2, <1>4, <3>1 DEF NoMarket
    <3>3. Replaces(g)
      BY <2>1, <3>2 DEF Replaces, IsMarket, IsEntry
    <3>4. Last' = {k}
      BY <1>17, <3>3 DEF Last
    <3> QED
      BY <2>3, <2>4, <3>4
  <2>6. world'.pos = IF \E j \in DOMAIN ord : ord'[j].status = "filled" THEN 1 ELSE 0
    <3>1. \A j \in DOMAIN ord : ord'[j].status = "filled" <=> ord[j].status = "filled"
      BY <1>2, <2>2
    <3>2. world.pos = IF \E j \in DOMAIN ord : ord[j].status = "filled" THEN 1 ELSE 0
      BY <1>0 DEF EntryKnown
    <3> QED
      BY <1>1, <3>1, <3>2
  <2>7. \A i, j \in Live' : i = j
    BY <2>3, <2>4
  <2>8. \A d \in Checks, place \in {"cancelFirst", "send", "answer", "hold"} :
           At(d, place)' => d = g /\ place = "hold"
    BY <1>5, <2>1 DEF Working, At
  <2> QED
    BY <1>2, <2>1, <2>5, <2>6, <2>7, <2>8 DEF EntryKnown
<1>23. EdgeAbove'
  BY <1>0, <1>1, <1>2, <1>13 DEF EdgeAbove
<1>24. InOrder'
  <2>1. \A a, d \in Checks : At(a, "not yet")' /\ a <= d => At(d, "not yet")'
    BY <1>0, <1>13 DEF InOrder
  <2>2. \A a, d \in Checks :
           At(a, "nap")' /\ go'[a].step = "TakeProfit" /\ At(d, "nap")' /\ IsEntry(d)' => d < a
    BY <1>0, <1>13 DEF InOrder
  <2>3. \A d \in Checks : Started(d)' /\ IsEntry(d)' =>
           /\ \A j \in DOMAIN ord : ord'[j].step # "TakeProfit"
           /\ \A a \in Checks : Working(a)' => go'[a].step # "TakeProfit"
    <3>1. ASSUME NEW d \in Checks, Started(d)', IsEntry(d)'
          PROVE  /\ \A j \in DOMAIN ord : ord[j].step # "TakeProfit"
                 /\ \A a \in Checks : Working(a) => go[a].step # "TakeProfit"
      <4>1. Started(d) /\ IsEntry(d)
        BY <1>13, <3>1
      <4> QED
        BY <1>0, <4>1 DEF InOrder
    <3>2. \A j \in DOMAIN ord : ord'[j].step = ord[j].step
      BY <1>2
    <3> QED
      BY <1>13, <3>1, <3>2
  <2> QED
    BY <1>2, <2>1, <2>2, <2>3 DEF InOrder
<1>25. ExitStays'
  <2> SUFFICES ASSUME Futures, NoExitFilled'
               PROVE  ExitStays'
    BY <1>0, <1>1, <1>3 DEF ExitStays
  <2>1. \A j \in DOMAIN ord : ord'[j].status = "filled" <=> ord[j].status = "filled"
    BY <1>2
  <2>2. NoExitFilled
    BY <1>2, <2>1 DEF NoExitFilled
  <2>3. g # Loop /\ canceling' = {} /\ At(Loop, "idle")' /\ Running' /\ world'.pos >= 0
    <3>1. canceling = {} /\ At(Loop, "idle") /\ Running /\ world.pos >= 0
      BY <1>0, <2>2 DEF ExitStays
    <3>2. g # Loop
      BY <1>1, <3>1 DEF At
    <3> QED
      BY <1>1, <1>2, <1>5, <3>1, <3>2, GoroutineKinds DEF At, Running
  <2>4. model.entered \/ (\E j \in DOMAIN ord : ord'[j].status = "filled") => world'.pos >= 1
    BY <1>0, <1>1, <2>1, <2>2 DEF ExitStays
  <2>5. ~SpotMarket
    BY <1>0, Typed, SetupFacts
  <2>6. (\E j \in DOMAIN ord : ord'[j].step = "TakeProfit" /\ ord'[j].known) =>
           /\ model'.placed # <<>>
           /\ ord'[Previous'].step = "TakeProfit" /\ ord'[Previous'].status = "open"
    <3>1. CASE ord[k].step = "TakeProfit"
      <4>1. Previous' = k /\ model'.placed # <<>> /\ g \in Checks
        BY <1>17, <1>19, <2>5, <3>1
      <4>2. ord[k].status = "open"
        BY <1>0, <1>1, <1>4, <1>k, <2>2, <3>1, <4>1 DEF ExitStays
      <4> QED
        BY <1>2, <3>1, <4>1, <4>2
    <3>2. CASE ord[k].step # "TakeProfit"
      <4> SUFFICES ASSUME NEW j \in DOMAIN ord, ord'[j].step = "TakeProfit", ord'[j].known
                   PROVE  /\ model'.placed # <<>>
                          /\ ord'[Previous'].step = "TakeProfit" /\ ord'[Previous'].status = "open"
        BY <1>2
      <4>1. ord[j].step = "TakeProfit" /\ ord[j].known
        BY <1>2, <3>2
      <4>2. ~Replaces(g)
        BY <1>20, <1>21, <3>2, <4>1 DEF Replaces
      <4>3. /\ model.placed # <<>> /\ ord[Previous].step = "TakeProfit"
            /\ ord[Previous].status = "open"
        BY <1>0, <2>2, <4>1 DEF ExitStays
      <4>4. Previous \in DOMAIN ord
        BY <1>0, <4>3, LastPlaced
      <4> QED
        BY <1>2, <1>18, <4>2, <4>3, <4>4
    <3> QED
      BY <3>1, <3>2
  <2>7. \A c \in Checks : At(c, "answer")' /\ go'[c].step = "TakeProfit" =>
           ord'[go'[c].order].status = "open"
    <3>1. ASSUME NEW c \in Checks, At(c, "answer")', go'[c].step = "TakeProfit"
          PROVE  ord'[go'[c].order].status = "open"
      <4>1. /\ At(c, "answer") /\ go'[c] = go[c] /\ go[c].order \in DOMAIN ord
        BY <1>10, <3>1, GoroutineKinds
      <4>2. ord[go[c].order].status = "open" /\ ~ord[go[c].order].known
        BY <1>0, <2>2, <3>1, <4>1, GoroutineKinds DEF ExitStays, Answers
      <4>3. go[c].order \notin old
        BY <1>2, <4>2
      <4> QED
        BY <1>2, <4>1, <4>2, <4>3
    <3> QED
      BY <3>1
  <2> QED
    BY <1>2, <2>3, <2>4, <2>6, <2>7 DEF ExitStays
<1>26. OpenExitIsLast'
  <2>1. ASSUME NEW j \in Open', ord'[j].step = "TakeProfit"
        PROVE  \/ model'.placed # <<>> /\ j = Previous'
               \/ \E c \in Checks : At(c, "answer")' /\ go'[c].order = j
    <3>1. /\ j \in DOMAIN ord /\ ord[j].status = "open" /\ ord[j].step = "TakeProfit"
          /\ j \in Open /\ j \notin old
      BY <1>2, <2>1 DEF Open
    <3>2. ~SpotMarket
      BY <1>0, <3>1 DEF Orders
    <3>3. CASE j = k
      BY <1>17, <1>19, <3>1, <3>2, <3>3
    <3>4. CASE j # k /\ model.placed # <<>> /\ j = Previous
      <4>1. ~Replaces(g)
        <5>1. CASE ord[k].step = "TakeProfit"
          BY <1>o, <3>1, <3>4, <5>1
        <5>2. CASE ord[k].step # "TakeProfit"
          BY <1>20, <1>21, <3>1, <5>2 DEF Replaces
        <5> QED
          BY <5>1, <5>2
      <4> QED
        BY <1>18, <3>4, <4>1
    <3>5. CASE j # k /\ \E c \in Checks : At(c, "answer") /\ go[c].order = j
      <4>1. PICK c \in Checks : At(c, "answer") /\ go[c].order = j
        BY <3>5
      <4>2. c # g
        BY <1>k, <3>5, <4>1
      <4>3. At(c, "answer")' /\ go'[c].order = j
        BY <1>5, <4>1, <4>2, GoroutineKinds DEF At
      <4> QED
        BY <4>3
    <3> QED
      BY <1>0, <3>1, <3>3, <3>4, <3>5 DEF OpenExitIsLast
  <2> QED
    BY <2>1 DEF OpenExitIsLast
<1>27. Swept'
  <2>1. CASE g # Loop
    <3>1. ~FiveSecondsLater /\ (Stopping' <=> Stopping)
      BY <1>1, <1>5, <2>1, GoroutineKinds DEF FiveSecondsLater, At, Stopping, Calling
    <3> QED
      BY <1>0, <1>1, <3>1 DEF Swept
  <2>2. CASE g = Loop
    <3>1. Stopping' => Stopping
      BY <1>1, <1>5, <2>2 DEF At, Stopping, Calling
    <3>2. FiveSecondsLater => FiveSecondsLater'
      BY <1>5, <2>2 DEF FiveSecondsLater
    <3>3. old = {}
      BY <1>18, <2>2, GoroutineKinds DEF Replaces
    <3>4. Open' = Open /\ canceling' = canceling
      BY <1>2, <3>3 DEF Open
    <3> QED
      BY <1>0, <1>1, <3>1, <3>2, <3>4 DEF Swept
  <2> QED
    BY <2>1, <2>2
<1> QED
  BY <1>6, <1>8, <1>9, <1>11, <1>12, <1>15, <1>16, <1>22, <1>23, <1>24, <1>25, <1>26, <1>27 DEF IInv

-----------------------------------------------------------------------------
(* The invariant is inductive *)

\* The invariant holds at first.
LEMMA Starts == Init => IInv
<1> SUFFICES ASSUME Init
             PROVE  IInv
  OBVIOUS
<1>1. /\ machine = "WaitForEntry" /\ sm = [lock |-> FALSE, stop |-> <<>>] /\ ord = <<>>
      /\ canceling = {}
      /\ model = [state |-> "", entered |-> FALSE, executed |-> 0, position |-> 0, edge |-> 0,
                  exits |-> <<>>, checkAt |-> 0, placed |-> <<>>, orders |-> {}, enabled |-> TRUE]
      /\ \E s \in Setups : world = [setup |-> s, pos |-> 0, triggered |-> 0]
  BY DEF Init
<1>2. /\ \A g \in Goroutines : go[g] = IF g \in Checks THEN [Idle EXCEPT !.at = "not yet"] ELSE Idle
      /\ go \in [Goroutines -> GoType]
  <2>1. Idle \in GoType /\ [Idle EXCEPT !.at = "not yet"] \in GoType
    BY DEF Idle, GoType, Places
  <2>2. go = [g \in Goroutines |-> IF g \in Checks THEN [Idle EXCEPT !.at = "not yet"] ELSE Idle]
    BY DEF Init
  <2> HIDE DEF GoType
  <2> QED
    BY <2>1, <2>2
<1>3. /\ go[Loop].at = "idle" /\ go[Enterer].at = "idle"
      /\ \A c \in Checks : go[c].at = "not yet"
      /\ \A g \in Goroutines : go[g].at \in {"idle", "not yet"} /\ go[g].market = FALSE
  <2>1. /\ Idle.at = "idle" /\ Idle.market = FALSE
        /\ [Idle EXCEPT !.at = "not yet"].at = "not yet"
        /\ [Idle EXCEPT !.at = "not yet"].market = FALSE
    BY DEF Idle
  <2> QED
    BY <1>2, <2>1, GoroutineKinds
<1>4. /\ DOMAIN ord = {} /\ Len(ord) = 0 /\ ord \in Seq(OrderType)
      /\ DOMAIN model.placed = {} /\ model.placed = <<>>
  BY <1>1, EmptyDomain, EmptySeq
<1>5. world.setup \in Setups /\ world \in [setup : Setups, pos : Int, triggered : Nat] /\ world.pos = 0
  <2>1. PICK s \in Setups : world = [setup |-> s, pos |-> 0, triggered |-> 0]
    BY <1>1
  <2> QED
    BY <2>1
<1>6. TypeOK
  <2>1. model \in ModelType
    <3>1. <<>> \in Seq(OrderIds) /\ <<>> \in ExitPrices
      BY EmptySeq DEF ExitPrices
    <3>2. \A exits \in ExitPrices, placed \in Seq(OrderIds) :
             [state |-> "", entered |-> FALSE, executed |-> 0, position |-> 0, edge |-> 0,
              exits |-> exits, checkAt |-> 0, placed |-> placed, orders |-> {},
              enabled |-> TRUE] \in ModelType
      BY DEF ModelType
    <3> QED
      BY <1>1, <3>1, <3>2
  <2>2. sm \in [lock : BOOLEAN, stop : Seq({"close", "sweep", "late"})]
    <3>1. <<>> \in Seq({"close", "sweep", "late"})
      BY EmptySeq
    <3> QED
      BY <1>1, <3>1
  <2>3. machine \in MachineStates /\ canceling \subseteq DOMAIN ord
    BY <1>1 DEF MachineStates
  <2> QED
    BY <1>2, <1>4, <1>5, <2>1, <2>2, <2>3 DEF TypeOK, ModelType, ExitPrices, OrderType, GoType
<1>7. Roles
  BY <1>3 DEF Roles
<1>8. Assigned
  BY <1>3 DEF Assigned, Calling, At, Started, Working
<1>9. Orders
  BY <1>4, <1>5, SetupFacts DEF Orders
<1>10. Answers /\ Placed
  BY <1>3, <1>4, GoroutineKinds DEF Answers, Placed, At
<1>a. ~model.entered /\ model.enabled /\ model.state = ""
  BY <1>1
<1>11. BeforeEntry
  <2>1. At(Loop, "idle") /\ At(Enterer, "idle") /\ \A c \in Checks : At(c, "not yet") /\ ~Started(c)
    BY <1>3 DEF At, Started, Working
  <2>2. machine = "WaitForEntry" /\ canceling = {} /\ model.state # "End"
    BY <1>1, <1>a
  <2> QED
    BY <1>4, <1>5, <1>a, <2>1, <2>2 DEF BeforeEntry
<1>12. OneAtATime /\ EdgeAbove
  BY <1>1, <1>3 DEF OneAtATime, Working, EdgeAbove
<1>13. EntryKnown
  <2>1. Live = {} /\ NoMarket
    BY <1>4 DEF Live, NoMarket
  <2> QED
    BY <1>3, <1>4, <1>5, <2>1 DEF EntryKnown, At
<1>14. InOrder
  BY <1>3 DEF InOrder, At, Started, Working
<1>15. ExitStays
  <2>1. canceling = {} /\ At(Loop, "idle") /\ Running
    BY <1>1, <1>3, <1>a DEF At, Running
  <2>2. \A c \in Checks : ~At(c, "answer")
    BY <1>3 DEF At
  <2>3. world.pos >= 0 /\ ~\E k \in DOMAIN ord : TRUE
    BY <1>4, <1>5
  <2>4. ~(model.entered \/ \E k \in DOMAIN ord : ord[k].status = "filled")
    BY <1>a, <2>3
  <2>5. ~\E k \in DOMAIN ord : ord[k].step = "TakeProfit" /\ ord[k].known
    BY <2>3
  <2> QED
    BY <2>1, <2>2, <2>3, <2>4, <2>5, Zenon DEF ExitStays
<1>16. OpenExitIsLast
  BY <1>4 DEF OpenExitIsLast, Open
<1>17. Swept
  BY <1>1, <1>3 DEF Swept, StopPlans, Stopping, At, Calling
<1> QED
  BY <1>6, <1>7, <1>8, <1>9, <1>10, <1>11, <1>12, <1>13, <1>14, <1>15, <1>16, <1>17 DEF IInv

\* A step of somebody else changes nothing.
LEMMA StuttersStep ==
    ASSUME IInv, UNCHANGED vars
    PROVE  IInv'
<1>0. /\ TypeOK /\ Roles /\ Assigned /\ Orders /\ Answers /\ Placed
      /\ BeforeEntry /\ OneAtATime /\ EntryKnown /\ EdgeAbove /\ InOrder
      /\ ExitStays /\ OpenExitIsLast /\ Swept
  BY DEF IInv
<1>1. /\ machine' = machine /\ model' = model /\ sm' = sm /\ ord' = ord
      /\ canceling' = canceling /\ world' = world /\ go' = go
  BY DEF vars
<1>2. TypeOK'
  BY <1>0, <1>1 DEF TypeOK, setup
<1>3. Roles'
  BY <1>0, <1>1 DEF Roles
<1>4. Assigned'
  BY <1>0, <1>1 DEF Assigned, setup, Futures, SpotMarket, At, Calling, Working, Started, IsEntry
<1>5. Orders'
  BY <1>0, <1>1 DEF Orders, setup, SpotMarket
<1>6. Answers'
  BY <1>0, <1>1 DEF Answers, At, IsMarket, SpotMarket, setup
<1>7. Placed'
  BY <1>0, <1>1 DEF Placed, At
<1>8. BeforeEntry'
  BY <1>0, <1>1 DEF BeforeEntry, At, Started, Working, IsEntry
<1>9. OneAtATime'
  BY <1>0, <1>1 DEF OneAtATime, Working, SpotMarket, setup
<1>10. EntryKnown'
  BY <1>0, <1>1 DEF EntryKnown, Working, At, NoMarket, Live, Last, Previous
<1>11. EdgeAbove'
  BY <1>0, <1>1 DEF EdgeAbove, At
<1>12. InOrder'
  BY <1>0, <1>1 DEF InOrder, At, IsEntry, Started, Working
<1>13. ExitStays'
  BY <1>0, <1>1 DEF ExitStays, Futures, setup, NoExitFilled, At, Running, Previous
<1>14. OpenExitIsLast'
  BY <1>0, <1>1 DEF OpenExitIsLast, Open, Previous, At
<1>15. Swept'
  BY <1>0, <1>1 DEF Swept, Stopping, At, Calling, FiveSecondsLater, Open
<1> QED
  BY <1>2, <1>3, <1>4, <1>5, <1>6, <1>7, <1>8, <1>9, <1>10, <1>11, <1>12, <1>13, <1>14, <1>15 DEF IInv

\* Every step keeps it.
LEMMA Inductive == IInv /\ [Next]_vars => IInv'
<1> SUFFICES ASSUME IInv, [Next]_vars
             PROVE  IInv'
  OBVIOUS
<1>1. ASSUME NEW price \in setup.prices, Turn(price)
      PROVE  IInv'
  BY <1>1, ActivateStep, TrailEntryStep, EnterOnSpotStep, ActivateExitStep, TrailExitStep,
     SellOnSpotStep DEF Turn
<1>2. CASE MoveOn
  BY <1>2, MoveOnStep
<1>3. CASE Stop
  BY <1>3, StopStep
<1>4. CASE Sweep
  BY <1>4, SweepStep
<1>5. CASE PlaceCanceled
  BY <1>5, PlaceCanceledStep
<1>6. ASSUME NEW c \in Checks, Wake(c) \/ Release(c)
      PROVE  IInv'
  BY <1>6, WakeStep, ReleaseStep
<1>7. ASSUME NEW g \in Goroutines,
             \/ CancelFirst(g) \/ AcceptOrder(g) \/ RejectReduceOnly(g) \/ RejectTriggered(g)
             \/ Answer(g)
      PROVE  IInv'
  BY <1>7, CancelFirstStep, AcceptOrderStep, RejectReduceOnlyStep, RejectTriggeredStep, AnswerStep
<1>8. ASSUME NEW k \in DOMAIN ord, Fill(k) \/ HearEntry(k) \/ HearNothing(k) \/ HearExit(k)
      PROVE  IInv'
  BY <1>8, FillStep, HearEntryStep, HearNothingStep, HearExitStep
<1>9. ASSUME NEW k \in canceling, CancelOrder(k)
      PROVE  IInv'
  BY <1>9, CancelOrderStep
<1>10. CASE UNCHANGED vars
  BY <1>10, StuttersStep
<1> QED
  BY <1>1, <1>2, <1>3, <1>4, <1>5, <1>6, <1>7, <1>8, <1>9, <1>10 DEF Next

\* So that it always holds.
LEMMA Invariant == Spec => []IInv
<1> QED
  BY Starts, Inductive, PTL DEF Spec

-----------------------------------------------------------------------------
(* What a trailing order promises *)

\* Every variable keeps its shape, and the one exit level has one price at most.
THEOREM TypeCorrect == Spec => []TypeOK
<1>1. IInv => TypeOK
  BY DEF IInv
<1> QED
  BY <1>1, Invariant, PTL

\* A set of equal elements has one at most.
LEMMA AllEqual ==
    ASSUME NEW S, \A x, y \in S : x = y
    PROVE  Cardinality(S) \in {0, 1}
<1>1. CASE S = {}
  BY <1>1, FS_EmptySet
<1>2. CASE S # {}
  <2>1. PICK x \in S : TRUE
    BY <1>2
  <2>2. S = {x}
    BY <2>1
  <2> QED
    BY <2>2, FS_Singleton
<1> QED
  BY <1>1, <1>2

\* A check of the entry that may still send an order: it talks to the exchange, or
\* wakes up while Lock is free.
MaySend(c) == IsEntry(c) /\ (At(c, "cancelFirst") \/ At(c, "send") \/ (At(c, "nap") /\ ~sm.lock))

\* Of the orders sent for the entry, two at most can fill; one if another may be sent.
LateOnce ==
    /\ Cardinality(Sent) <= 2
    /\ ~model.entered \/ (\E c \in Checks : MaySend(c)) => Cardinality(Sent) <= 1

\* What was sent is among the orders of the exchange.
LEMMA SentFinite == TypeOK => IsFiniteSet(Sent) /\ Cardinality(Sent) \in Nat
<1> SUFFICES ASSUME TypeOK
             PROVE  IsFiniteSet(Sent) /\ Cardinality(Sent) \in Nat
  OBVIOUS
<1>1. Len(ord) \in Nat /\ DOMAIN ord = 1 .. Len(ord)
  BY OrdTyped
<1>2. IsFiniteSet(1 .. Len(ord))
  BY <1>1, FS_Interval
<1>3. Sent \subseteq 1 .. Len(ord)
  BY <1>1 DEF Sent
<1> QED
  BY <1>2, <1>3, FS_Subset, FS_CardinalityType

\* Until the entry is bought, all that was sent is one order.
LEMMA OneUntilEntered == IInv /\ ~model.entered => Cardinality(Sent) <= 1
<1> SUFFICES ASSUME IInv, ~model.entered
             PROVE  Cardinality(Sent) <= 1
  OBVIOUS
<1>1. \A j, k \in Live : j = k
  BY DEF IInv, EntryKnown
<1>2. \A j, k \in Sent : j = k
  BY <1>1 DEF Sent, Live
<1>3. Cardinality(Sent) \in {0, 1}
  BY <1>2, AllEqual
<1> QED
  BY <1>3

\* Orders sent can be counted, and until the entry is bought they are one.
SentCounted ==
    /\ IsFiniteSet(Sent) /\ Cardinality(Sent) \in Nat
    /\ ~model.entered => Cardinality(Sent) <= 1

\* So it is after a step, too.
LEMMA SentNext == IInv' => SentCounted'
<1>1. IInv => SentCounted
  BY SentFinite, OneUntilEntered DEF IInv, SentCounted
<1> QED
  BY <1>1, PTL

\* The bound is kept when nothing more is sent and nobody may send who might not before.
LEMMA NothingSent ==
    ASSUME IInv, IInv', LateOnce, Sent' \subseteq Sent,
           model.entered => \A c \in Checks : MaySend(c)' => MaySend(c)
    PROVE  LateOnce'
<1>1. IsFiniteSet(Sent) /\ Cardinality(Sent) \in Nat /\ Cardinality(Sent') \in Nat
  BY SentFinite, SentNext DEF IInv, SentCounted
<1>2. Cardinality(Sent') <= Cardinality(Sent)
  BY <1>1, FS_Subset
<1>3. ~model'.entered => Cardinality(Sent') <= 1
  BY SentNext DEF SentCounted
<1> QED
  BY <1>1, <1>2, <1>3 DEF LateOnce

\* An order is sent by one check of the entry, which keeps the others from sending.
LEMMA AcceptLate ==
    ASSUME IInv, IInv', LateOnce, NEW g \in Goroutines, AcceptOrder(g)
    PROVE  LateOnce'
<1>0. TypeOK /\ Assigned /\ OneAtATime
  BY DEF IInv
<1>1. /\ At(g, "send") /\ Calling(g) /\ go' = [go EXCEPT ![g].at = "answer", ![g].order = Len(ord) + 1]
      /\ model' = model /\ sm' = sm
  BY DEF AcceptOrder, At, Calling
<1>a. PICK n : n = Len(ord) + 1
  OBVIOUS
<1>2. /\ DOMAIN ord' = DOMAIN ord \cup {n} /\ ord'[n].step = go[g].step
      /\ \A j \in DOMAIN ord : ord'[j] = ord[j]
  <2>1. go[g].step \in Steps
    BY <1>0, <1>1, GoroutineKinds DEF Assigned, Steps
  <2> QED
    BY <1>0, <1>a, <2>1, Accepted
<1>3. /\ At(g, "answer")' /\ (IsEntry(g)' <=> IsEntry(g))
      /\ \A c \in Checks : c # g => go'[c] = go[c]
  <2>1. go \in [Goroutines -> GoType] /\ go[g] \in GoType
    BY <1>0, GoTyped
  <2> QED
    BY <1>1, <2>1, GoroutineKinds DEF At, IsEntry, GoType
<1>4. \A c \in Checks : MaySend(c)' => MaySend(c) /\ c # g
  BY <1>1, <1>3 DEF MaySend, At, IsEntry
<1>5. CASE ~IsEntry(g)
  <2>1. Sent' \subseteq Sent
    BY <1>2, <1>5 DEF Sent, IsEntry
  <2> QED
    BY <1>4, <2>1, NothingSent
<1>6. CASE IsEntry(g)
  <2>1. g \in Checks /\ ~SpotMarket /\ Working(g)
    BY <1>0, <1>1, <1>6, GoroutineKinds DEF Assigned, IsEntry, Started, Working, At
  <2>2. ~\E c \in Checks : MaySend(c)'
    <3> SUFFICES ASSUME NEW c \in Checks, MaySend(c), c # g
                 PROVE  FALSE
      BY <1>4
    <3>1. sm.lock /\ ~Working(c)
      BY <1>0, <2>1 DEF OneAtATime
    <3> QED
      BY <3>1 DEF MaySend, Working, At
  <2>3. IsFiniteSet(Sent) /\ Cardinality(Sent) \in Nat /\ Cardinality(Sent) <= 1
    BY <1>0, <1>1, <1>6, <2>1, SentFinite DEF LateOnce, MaySend
  <2>4. Sent' \subseteq Sent \cup {n}
    BY <1>2 DEF Sent
  <2>5. IsFiniteSet(Sent \cup {n}) /\ Cardinality(Sent \cup {n}) <= 2
    BY <2>3, FS_AddElement
  <2>6. Cardinality(Sent') \in Nat /\ Cardinality(Sent \cup {n}) \in Nat /\ Cardinality(Sent') <= Cardinality(Sent \cup {n})
    BY <2>4, <2>5, FS_Subset, FS_CardinalityType
  <2>7. Cardinality(Sent') <= 2
    BY <2>5, <2>6
  <2>8. ~model'.entered => Cardinality(Sent') <= 1
    BY SentNext DEF SentCounted
  <2> QED
    BY <2>2, <2>7, <2>8 DEF LateOnce
<1> QED
  BY <1>5, <1>6

\* A check that wakes up takes Lock from those that wake up after it.
LEMMA WakeLate ==
    ASSUME IInv, IInv', LateOnce, NEW c \in Checks, Wake(c)
    PROVE  LateOnce'
<1>0. TypeOK /\ Placed
  BY DEF IInv
<1>1. Sent' = Sent
  BY DEF Wake, Sent
<1>2. CASE MayPlace(c) /\ ~sm.lock
  <2>1. At(c, "nap") /\ go' = PlaceBetter(c) /\ sm' = [sm EXCEPT !.lock = TRUE]
    BY <1>2 DEF Wake
  <2>2. go'[c].step = go[c].step /\ \A d \in Checks : d # c => go'[d] = go[d]
    BY <1>0, <2>1, PlaceBetterFacts, GoroutineKinds
  <2>3. sm'.lock
    BY <1>0, <2>1, Typed
  <2>4. \A d \in Checks : MaySend(d)' => MaySend(d)
    BY <1>2, <2>1, <2>2, <2>3 DEF MaySend, IsEntry, At
  <2> QED
    BY <1>1, <2>4, NothingSent
<1>3. CASE ~(MayPlace(c) /\ ~sm.lock)
  <2>1. go' = [go EXCEPT ![c] = Idle] /\ sm' = sm
    BY <1>3 DEF Wake
  <2>2. go'[c].at = "idle" /\ \A d \in Checks : d # c => go'[d] = go[d]
    BY <1>0, <2>1, GoTyped, GoroutineKinds DEF Idle
  <2>3. \A d \in Checks : MaySend(d)' => MaySend(d)
    BY <2>1, <2>2 DEF MaySend, IsEntry, At
  <2> QED
    BY <1>1, <2>3, NothingSent
<1> QED
  BY <1>2, <1>3

\* Lock is given back when no check sleeps.
LEMMA ReleaseLate ==
    ASSUME IInv, IInv', LateOnce, NEW c \in Checks, Release(c)
    PROVE  LateOnce'
<1>0. TypeOK
  BY DEF IInv
<1>1. Sent' = Sent
  BY DEF Release, Sent
<1>2. go' = [go EXCEPT ![c] = Idle] /\ \A d \in Checks : ~At(d, "nap")
  BY DEF Release
<1>3. go'[c].at = "idle" /\ \A d \in Checks : d # c => go'[d] = go[d]
  BY <1>0, <1>2, GoTyped, GoroutineKinds DEF Idle
<1>4. \A d \in Checks : MaySend(d)' => MaySend(d)
  BY <1>2, <1>3 DEF MaySend, IsEntry, At
<1> QED
  BY <1>1, <1>4, NothingSent

\* A goroutine that goes on with its call, and does not come to send for the entry.
LEMMA GoesOn ==
    ASSUME IInv, IInv', LateOnce, NEW g \in Goroutines, Sent' \subseteq Sent, sm' = sm,
           \A h \in Goroutines : h # g => go'[h] = go[h],
           ~At(g, "nap")',
           IsEntry(g)' /\ (At(g, "cancelFirst")' \/ At(g, "send")') =>
              IsEntry(g) /\ (At(g, "cancelFirst") \/ At(g, "send"))
    PROVE  LateOnce'
<1>1. \A c \in Checks : MaySend(c)' => MaySend(c)
  BY GoroutineKinds DEF MaySend, IsEntry, At
<1> QED
  BY <1>1, NothingSent

\* The rest of a call of PlaceOrder sends nothing.
LEMMA CallLate ==
    ASSUME IInv, IInv', LateOnce, NEW g \in Goroutines,
           CancelFirst(g) \/ RejectReduceOnly(g) \/ RejectTriggered(g) \/ Answer(g)
    PROVE  LateOnce'
<1>0. TypeOK /\ Roles /\ Assigned /\ Orders /\ Answers /\ Placed
  BY DEF IInv
<1>a. go \in [Goroutines -> GoType] /\ go[g] \in GoType
  BY <1>0, GoTyped
<1>1. CASE CancelFirst(g)
  <2>1. Sent' \subseteq Sent
    BY <1>0, <1>1, Closes DEF CancelFirst, Sent
  <2>2. At(g, "cancelFirst") /\ sm' = sm /\ g \in Checks
    BY <1>0, <1>1, GoroutineKinds DEF CancelFirst, Roles, At
  <2>3. PICK place \in {"send", "hold"} : go' = Goes(g, place)
    BY <1>1, <2>2, GoroutineKinds DEF CancelFirst, AfterCall
  <2>4. go'[g].at = place /\ go'[g].step = go[g].step /\ \A h \in Goroutines : h # g => go'[h] = go[h]
    BY <1>0, <2>3, Moves DEF Places
  <2> QED
    BY <2>1, <2>2, <2>4, GoesOn DEF At, IsEntry
<1>2. CASE RejectReduceOnly(g) \/ Answer(g)
  <2>1. Sent' \subseteq Sent
    <3>1. CASE RejectReduceOnly(g)
      BY <3>1 DEF RejectReduceOnly, Sent
    <3>2. CASE Answer(g)
      <4>1. /\ DOMAIN ord' = DOMAIN ord
            /\ \A j \in DOMAIN ord : ord'[j].step = ord[j].step
            /\ \A j \in DOMAIN ord : ord'[j].status \in {ord[j].status, "canceled"}
        BY <1>0, <3>2, Answered
      <4> QED
        BY <4>1 DEF Sent
    <3> QED
      BY <1>2, <3>1, <3>2
  <2>2. sm' = sm /\ go' = Goes(g, AfterCall(g)) /\ AfterCall(g) \in {"hold", "stop", "move", "idle"}
    BY <1>2, GoroutineKinds DEF RejectReduceOnly, Answer, AfterCall
  <2>3. go'[g].at \in {"hold", "stop", "move", "idle"} /\ \A h \in Goroutines : h # g => go'[h] = go[h]
    BY <1>0, <2>2, Moves DEF Places
  <2> QED
    BY <2>1, <2>2, <2>3, GoesOn DEF At
<1>3. CASE RejectTriggered(g)
  <2>1. Sent' \subseteq Sent /\ sm' = sm /\ At(g, "send")
    BY <1>3 DEF RejectTriggered, Sent
  <2>2. CASE go[g].step = "TrailingEntry"
    <3>1. go' = [go EXCEPT ![g].market = TRUE]
      BY <1>3, <2>2 DEF RejectTriggered
    <3>2. go'[g].at = "send" /\ \A h \in Goroutines : h # g => go'[h] = go[h]
      BY <1>a, <2>1, <3>1 DEF At, GoType
    <3> QED
      BY <2>1, <2>2, <3>2, GoesOn DEF At, IsEntry
  <2>3. CASE go' = Calls(g, "send", "Canceled")
    <3>1. go'[g].at = "send" /\ go'[g].step = "Canceled" /\ \A h \in Goroutines : h # g => go'[h] = go[h]
      BY <1>0, <2>3, Begins DEF Places, Steps
    <3> QED
      BY <2>1, <3>1, GoesOn DEF At, IsEntry
  <2>4. CASE go' = Goes(g, AfterCall(g))
    <3>1. AfterCall(g) \in {"hold", "stop", "move", "idle"}
      BY GoroutineKinds DEF AfterCall
    <3>2. go'[g].at \in {"hold", "stop", "move", "idle"} /\ \A h \in Goroutines : h # g => go'[h] = go[h]
      BY <1>0, <2>4, <3>1, Moves DEF Places
    <3> QED
      BY <2>1, <3>2, GoesOn DEF At
  <2> QED
    BY <1>3, <2>2, <2>3, <2>4 DEF RejectTriggered
<1> QED
  BY <1>1, <1>2, <1>3

\* A turn sends nothing, and starts no check of the entry once it is bought.
LEMMA TurnLate ==
    ASSUME IInv, IInv', LateOnce, NEW price \in setup.prices, Turn(price)
    PROVE  LateOnce'
<1>0. TypeOK /\ BeforeEntry
  BY DEF IInv
<1>1. Sent' = Sent /\ sm' = sm
  BY DEF Turn, Activate, TrailEntry, EnterOnSpot, ActivateExit, TrailExit, SellOnSpot, Sent
<1>2. CASE Activate(price) \/ TrailEntry(price) \/ EnterOnSpot(price)
  <2>1. ~model.entered
    BY <1>0, <1>2 DEF Activate, TrailEntry, EnterOnSpot, TurnBegins, BeforeEntry
  <2> QED
    BY <1>1, <2>1, NothingSent
<1>3. CASE ActivateExit(price)
  <2>1. go' = go
    BY <1>3 DEF ActivateExit
  <2>2. \A c \in Checks : MaySend(c)' => MaySend(c)
    BY <1>1, <2>1 DEF MaySend, IsEntry, At
  <2> QED
    BY <1>1, <2>2, NothingSent
<1>4. CASE TrailExit(price)
  <2>1. PICK c : go' = [go EXCEPT ![c] = [Idle EXCEPT !.at = "nap", !.step = "TakeProfit", !.price = price]]
    BY <1>4 DEF TrailExit, GoCheck
  <2>2. \A d \in Checks : go'[d] = go[d] \/ go'[d].step = "TakeProfit"
    BY <1>0, <2>1, GoTyped, GoroutineKinds DEF Idle
  <2>3. \A d \in Checks : MaySend(d)' => MaySend(d)
    BY <1>1, <2>2 DEF MaySend, IsEntry, At
  <2> QED
    BY <1>1, <2>3, NothingSent
<1>5. CASE SellOnSpot(price)
  <2>1. go' = Calls(Loop, "send", "TakeProfit")
    BY <1>5 DEF SellOnSpot
  <2>2. \A h \in Goroutines : h # Loop => go'[h] = go[h]
    BY <1>0, <2>1, Begins, GoroutineKinds DEF Places, Steps
  <2>3. \A c \in Checks : MaySend(c)' => MaySend(c)
    BY <1>1, <2>2, GoroutineKinds DEF MaySend, IsEntry, At
  <2> QED
    BY <1>1, <2>3, NothingSent
<1> QED
  BY <1>2, <1>3, <1>4, <1>5 DEF Turn

\* Neither do the other steps of the event loop; those that give Lock back are on a
\* market without orders of the trailing entry.
LEMMA LoopLate ==
    ASSUME IInv, IInv', LateOnce, MoveOn \/ Stop \/ Sweep \/ PlaceCanceled
    PROVE  LateOnce'
<1>0. TypeOK /\ Assigned
  BY DEF IInv
<1>1. Sent' = Sent
  BY DEF MoveOn, Stop, Sweep, PlaceCanceled, Sent
<1>2. /\ \A h \in Goroutines : h # Loop => go'[h] = go[h]
      /\ \E place \in Places : go' = go \/ go' = Goes(Loop, place) \/ go' = Calls(Loop, place, "Canceled")
  <2>1. PICK place \in Places : go' = go \/ go' = Goes(Loop, place) \/ go' = Calls(Loop, place, "Canceled")
    <3>1. {"idle", "stop", "send"} \subseteq Places
      BY DEF Places
    <3> QED
      BY <3>1 DEF MoveOn, Stop, Sweep, PlaceCanceled
  <2> QED
    BY <1>0, <2>1, Moves, Begins, GoroutineKinds DEF Steps
<1>3. \A c \in Checks : go'[c] = go[c]
  BY <1>2, GoroutineKinds
<1>4. CASE MoveOn
  <2>1. SpotMarket
    BY <1>0, <1>4 DEF MoveOn, Assigned
  <2>2. \A c \in Checks : ~MaySend(c)'
    BY <1>0, <1>3, <2>1 DEF Assigned, MaySend, Started, Working, IsEntry, At
  <2> QED
    BY <1>1, <2>2, NothingSent
<1>5. CASE ~MoveOn
  <2>1. sm'.lock = sm.lock
    BY <1>0, <1>5, Typed DEF Stop, Sweep, PlaceCanceled, StopGoesOn
  <2>2. \A c \in Checks : MaySend(c)' => MaySend(c)
    BY <1>3, <2>1 DEF MaySend, IsEntry, At
  <2> QED
    BY <1>1, <2>2, NothingSent
<1> QED
  BY <1>4, <1>5

\* An order that fills, is canceled or is heard of is not another one; whoever enters
\* comes from a state in which one was sent at most.
LEMMA OrderLate ==
    ASSUME IInv, IInv', LateOnce,
           \/ \E k \in DOMAIN ord : Fill(k) \/ HearEntry(k) \/ HearNothing(k) \/ HearExit(k)
           \/ \E k \in canceling : CancelOrder(k)
    PROVE  LateOnce'
<1>0. TypeOK
  BY DEF IInv
<1>a. \A k \in DOMAIN ord : ord[k] \in OrderType
  BY <1>0, OrdTyped
<1>1. Sent' \subseteq Sent
  <2>1. ASSUME NEW k \in DOMAIN ord, Fill(k)
        PROVE  Sent' \subseteq Sent
    BY <1>a, <2>1 DEF Fill, Open, Sent, OrderType
  <2>2. ASSUME NEW k \in DOMAIN ord, HearEntry(k) \/ HearNothing(k) \/ HearExit(k)
        PROVE  Sent' \subseteq Sent
    BY <1>a, <2>2 DEF HearEntry, HearNothing, HearExit, Hears, Sent, OrderType
  <2>3. ASSUME NEW k \in canceling, CancelOrder(k)
        PROVE  Sent' \subseteq Sent
    BY <1>0, <2>3, Closes DEF CancelOrder, Sent
  <2> QED
    BY <2>1, <2>2, <2>3
<1>2. ~model.entered \/ (go' = go /\ sm' = sm)
  BY DEF Fill, HearEntry, HearNothing, HearExit, CancelOrder
<1>3. model.entered => \A c \in Checks : MaySend(c)' => MaySend(c)
  BY <1>2 DEF MaySend, IsEntry, At
<1> QED
  BY <1>1, <1>3, NothingSent

\* Every step keeps the bound.
LEMMA LateOnceKept == IInv /\ IInv' /\ LateOnce /\ [Next]_vars => LateOnce'
<1> SUFFICES ASSUME IInv, IInv', LateOnce, [Next]_vars
             PROVE  LateOnce'
  OBVIOUS
<1>1. ASSUME NEW price \in setup.prices, Turn(price)
      PROVE  LateOnce'
  BY <1>1, TurnLate
<1>2. CASE MoveOn \/ Stop \/ Sweep \/ PlaceCanceled
  BY <1>2, LoopLate
<1>3. ASSUME NEW c \in Checks, Wake(c) \/ Release(c)
      PROVE  LateOnce'
  BY <1>3, WakeLate, ReleaseLate
<1>4. ASSUME NEW g \in Goroutines,
             \/ CancelFirst(g) \/ AcceptOrder(g) \/ RejectReduceOnly(g) \/ RejectTriggered(g)
             \/ Answer(g)
      PROVE  LateOnce'
  BY <1>4, AcceptLate, CallLate
<1>5. CASE \/ \E k \in DOMAIN ord : Fill(k) \/ HearEntry(k) \/ HearNothing(k) \/ HearExit(k)
           \/ \E k \in canceling : CancelOrder(k)
  BY <1>5, OrderLate
<1>6. CASE UNCHANGED vars
  BY <1>6 DEF vars, LateOnce, Sent, MaySend, IsEntry, At
<1> QED
  BY <1>1, <1>2, <1>3, <1>4, <1>5, <1>6 DEF Next

\* Until a fill is heard of, the orders sent for the entry buy its amount at most; after
\* it one more is sent at most.
THEOREM ExposureBounded == Spec => []EntryExposure
<1>1. IInv /\ LateOnce => EntryExposure
  BY SentFinite DEF LateOnce, EntryExposure, IInv
<1>2. Init => LateOnce
  <2> SUFFICES ASSUME Init
               PROVE  LateOnce
    OBVIOUS
  <2>1. ~model.entered /\ Cardinality(Sent) <= 1 /\ Cardinality(Sent) \in Nat
    BY Starts, OneUntilEntered, SentFinite DEF Init, IInv
  <2> QED
    BY <2>1 DEF LateOnce
<1>3. IInv /\ IInv' /\ LateOnce /\ [Next]_vars => LateOnce'
  BY LateOnceKept
<1> QED
  BY <1>1, <1>2, <1>3, Invariant, PTL DEF Spec

\* On futures a trailing exit is replaced without a gap: from the first one on, and
\* until something is sold, one is at the exchange.
THEOREM ExitWithoutGap == Spec => []NeverWithoutExit
<1>1. IInv => NeverWithoutExit
  <2> DEFINE exits == {k \in DOMAIN ord : ord[k].step \notin Entries}
             trailing == {k \in exits : ord[k].step = "TakeProfit"}
  <2> SUFFICES ASSUME IInv, Futures, trailing # {}, \A k \in exits : ord[k].status # "filled"
               PROVE  trailing \cap Open # {}
    BY DEF NeverWithoutExit
  <2>0. TypeOK /\ Assigned /\ Answers /\ Placed /\ ExitStays
    BY DEF IInv
  <2>1. NoExitFilled
    BY DEF NoExitFilled
  <2>2. PICK k \in DOMAIN ord : ord[k].step = "TakeProfit"
    OBVIOUS
  <2>3. CASE ord[k].known
    <3>1. model.placed # <<>> /\ ord[Previous].step = "TakeProfit" /\ ord[Previous].status = "open"
      BY <2>0, <2>1, <2>2, <2>3 DEF ExitStays
    <3>2. Previous \in DOMAIN ord
      BY <2>0, <3>1, LastPlaced
    <3>3. Previous \in trailing /\ Previous \in Open
      BY <3>1, <3>2 DEF Open, Entries
    <3> QED
      BY <3>3
  <2>4. CASE ~ord[k].known
    <3>1. PICK g \in Goroutines : At(g, "answer") /\ go[g].order = k
      BY <2>0, <2>4 DEF Answers
    <3>2. go[g].step = "TakeProfit" /\ Calling(g)
      BY <2>0, <2>2, <3>1 DEF Answers, Calling, At
    <3>3. ~SpotMarket
      BY <2>0, Typed, SetupFacts
    <3>4. g \in Checks
      BY <2>0, <3>2, <3>3, GoroutineKinds DEF Assigned
    <3>5. ord[k].status = "open"
      BY <2>0, <2>1, <3>1, <3>2, <3>4 DEF ExitStays
    <3>6. k \in trailing /\ k \in Open
      BY <2>2, <3>5 DEF Open, Entries
    <3> QED
      BY <3>6
  <2> QED
    BY <2>3, <2>4
<1> QED
  BY <1>1, Invariant, PTL

\* At rest there is one trailing exit at the exchange at most.
THEOREM OneTrailingExit == Spec => []OneExit
<1>1. IInv => OneExit
  <2> SUFFICES ASSUME IInv, AtRest
               PROVE  Cardinality({k \in Open : ord[k].step = "TakeProfit"}) <= 1
    BY DEF OneExit
  <2>1. OpenExitIsLast
    BY DEF IInv
  <2>2. \A c \in Checks : ~At(c, "answer")
    BY GoroutineKinds DEF AtRest, At, IsOver
  <2>3. \A k \in Open : ord[k].step = "TakeProfit" => k = Previous
    BY <2>1, <2>2 DEF OpenExitIsLast
  <2> DEFINE exits == {k \in Open : ord[k].step = "TakeProfit"}
  <2>4. Cardinality(exits) \in {0, 1}
    BY <2>3, AllEqual
  <2> HIDE DEF exits
  <2>5. Cardinality(exits) <= 1
    BY <2>4
  <2> QED
    BY <2>5 DEF exits
<1> QED
  BY <1>1, Invariant, PTL

\* When an ended order is left alone, nothing of it is open at the exchange.
THEOREM NothingStaysOpen == Spec => []NothingLeftOpen
<1>1. IInv => NothingLeftOpen
  <2> SUFFICES ASSUME IInv, AtRest, IsOver(Loop)
               PROVE  Open = {}
    BY DEF NothingLeftOpen
  <2>1. Swept
    BY DEF IInv
  <2>2. Open \subseteq canceling /\ canceling = {}
    BY <2>1 DEF Swept, IsOver, Stopping, AtRest
  <2> QED
    BY <2>2
<1> QED
  BY <1>1, Invariant, PTL

\* Only a check that wakes up moves the edge of the entry, and those that find Lock
\* free have prices that are no worse.
LEMMA EdgeFalls ==
    ASSUME IInv, [Next]_vars, machine = "TrailingEntry", machine' = "TrailingEntry", model.edge > 0
    PROVE  model'.edge <= model.edge
<1>0. TypeOK /\ EdgeAbove
  BY DEF IInv
<1>1. model \in ModelType /\ model.edge \in Nat
  BY <1>0, Typed DEF ModelType
<1> SUFFICES ASSUME model'.edge # model.edge
             PROVE  model'.edge <= model.edge
  BY <1>1
<1>2. ASSUME NEW price \in setup.prices, Turn(price)
      PROVE  FALSE
  <2>1. CASE TrailEntry(price)
    <3> DEFINE m == [model EXCEPT !.edge = IF @ = 0 THEN price ELSE @]
    <3>1. GoCheck(price, "TrailingEntry", m)
      BY <2>1 DEF TrailEntry
    <3>2. m \in ModelType /\ m.edge = model.edge
      <4>1. price \in Nat /\ model.edge # 0
        BY <1>0, <1>1, Typed, SetupFacts
      <4> QED
        BY <1>1, <4>1 DEF ModelType
    <3> HIDE DEF m
    <3>3. PICK c : model' = [m EXCEPT !.checkAt = c]
      BY <3>1 DEF GoCheck
    <3> QED
      BY <3>2, <3>3 DEF ModelType
  <2>2. CASE Activate(price)
    BY <1>1, <2>2 DEF Activate, ModelType
  <2>3. CASE EnterOnSpot(price)
    BY <2>3 DEF EnterOnSpot, EnterEntry
  <2>4. CASE ActivateExit(price) \/ TrailExit(price) \/ SellOnSpot(price)
    BY <2>4 DEF ActivateExit, TrailExit, SellOnSpot, TurnBegins
  <2> QED
    BY <1>2, <2>1, <2>2, <2>3, <2>4 DEF Turn
<1>3. ASSUME NEW c \in Checks, Wake(c)
      PROVE  model'.edge <= model.edge
  <2>1. At(c, "nap") /\ ~sm.lock /\ model' = [model EXCEPT !.edge = go[c].price]
    BY <1>3 DEF Wake
  <2>2. go[c].price <= model.edge
    BY <1>0, <2>1 DEF EdgeAbove
  <2> QED
    BY <1>1, <2>1, <2>2 DEF ModelType
<1>4. ASSUME NEW g \in Goroutines,
             \/ CancelFirst(g) \/ AcceptOrder(g) \/ RejectReduceOnly(g) \/ RejectTriggered(g)
             \/ Answer(g)
      PROVE  FALSE
  BY <1>0, <1>1, <1>4 DEF CancelFirst, AcceptOrder, RejectReduceOnly, RejectTriggered, Answer, ModelType
<1>5. ASSUME NEW k \in DOMAIN ord, Fill(k) \/ HearEntry(k) \/ HearNothing(k) \/ HearExit(k)
      PROVE  FALSE
  BY <1>5 DEF Fill, HearEntry, EnterEntry, HearNothing, HearExit
<1> QED
  BY <1>0, <1>2, <1>3, <1>4, <1>5
     DEF Next, MoveOn, Stop, Sweep, PlaceCanceled, Release, CancelOrder, vars

\* While the entry trails its edge only falls, though checks of higher prices wake up
\* after those of lower ones.
THEOREM EdgeImproves == Spec => EdgeOnlyImproves
<1>1. IInv /\ [Next]_vars =>
         [machine = "TrailingEntry" /\ machine' = "TrailingEntry" /\ model.edge > 0
          => model'.edge <= model.edge]_vars
  BY EdgeFalls
<1> QED
  BY <1>1, Invariant, PTL DEF Spec, EdgeOnlyImproves
=============================================================================
