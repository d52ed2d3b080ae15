------------------------ MODULE SmartOrder_proofs ------------------------
(***************************************************************************)
(* Theorems about SmartOrder, for every set of setups.  Most speak of the  *)
(* first iteration: the second one can be started twice (see Ordinary).    *)
(***************************************************************************)
EXTENDS SmartOrder, SequenceTheorems, WellFoundedInduction, TLAPS

-----------------------------------------------------------------------------
(* What goroutines have on their stacks *)

TimerOps == {"checkTimeouts", "sleep", "awaitEntry", "cancelEntry", "timeUp", "markTimeout"}

Simple ==
    TimerOps \cup {"startRuntime", "loop", "goStops", "cancelAll", "checkLossAgain",
                   "stop", "claimStop", "sweep", "lateCheck", "unregister"}

\* What may stand below the first frame: nothing that reads what was decided before.
Later ==
    [op : Simple \ {"sleep"}]
      \cup [op : {"sleep"}, iteration : Iterations]
      \cup [op : {"place"}, step : Exits, price : BOOLEAN]
      \cup [op : {"send"}, step : {"Canceled"}, qty : Int]
      \cup [op : {"stopPlaces"}, state : MachineStates]
      \cup [op : {"finishStop"}, late : BOOLEAN, timeout : BOOLEAN]

Frames ==
    Later
      \cup [op : {"onStart"}]
      \cup [op : {"place"}, step : {"WaitForEntry"}, price : BOOLEAN]
      \cup [op : {"answer"}, order : OrderIds]
      \cup [op : {"move"}, from : MachineStates, price : BOOLEAN]

Stacks == {s \in Seq(Frames) : \A i \in 2 .. Len(s) : s[i] \in Later}

Within(s) == {s[i] : i \in DOMAIN s}

Doing(t) == Within(todo[t])

-----------------------------------------------------------------------------
(* The inductive invariant *)

ModelType ==
    [state : ModelStates, entered : BOOLEAN, executed : Int, amount : Int,
     position : Int, reached : Nat, iteration : Iterations, orders : Seq(OrderIds),
     enabled : BOOLEAN]

FlagsType ==
    [waiting : SUBSET Steps, entryPlaced : BOOLEAN, lock : BOOLEAN, stopLock : BOOLEAN,
     target : 0 .. Len(Targets) - 1]

OrderType ==
    [step : Steps, qty : Nat, got : Nat, known : BOOLEAN, told : BOOLEAN,
     status : {"open", "filled", "canceled"}]

WorldType ==
    [setup : Setups, pos : Int, enabled : BOOLEAN, mutex : BOOLEAN, errors : Nat,
     registered : BOOLEAN, runtime : BOOLEAN]

Typed ==
    /\ machine \in MachineStates
    /\ model \in ModelType
    /\ model.reached <= Len(Targets)
    /\ \A i \in DOMAIN model.orders : model.orders[i] \in DOMAIN ord
    /\ ~ContinueIfEnded => model.iteration = 0
    /\ sm \in FlagsType
    /\ ord \in Seq(OrderType) /\ Len(ord) <= setup.orders
    /\ \A k \in DOMAIN ord : ord[k].told => ord[k].known /\ ord[k].status = "filled"
    /\ canceling \subseteq DOMAIN ord
    /\ world \in WorldType
    /\ Futures => world.pos >= 0
    /\ todo \in [Threads -> Stacks]

First == model.iteration = 0

IsEntry(k) == ord[k].step = "WaitForEntry"
Bought == \E k \in DOMAIN ord : IsEntry(k) /\ ord[k].status = "filled"
Untold == \A k \in DOMAIN ord : IsEntry(k) => ~ord[k].told

\* A futures order that ends with its first iteration and whose state only prices write.
Usual == ~ContinueIfEnded /\ Futures /\ Steady

\* Only orders with an entry timeout have anything to do with it.
TimerWork(f) ==
    ~setup.entryTimeout =>
        /\ f.op \notin TimerOps
        /\ f.op = "stopPlaces" => f.state # "Timeout"
        /\ f.op = "finishStop" => ~f.timeout

\* The loop is about to place the entry: there is none yet.
EntryWork(t, f) ==
    First /\ f.op = "place" /\ f.step = "WaitForEntry" =>
        t = Loop /\ \A k \in DOMAIN ord : ~IsEntry(k)

\* Nobody has heard of the entry's fill: there is only the entry, and Stop, to work on.
UntoldWork(f) ==
    First /\ Untold =>
        /\ f.op \notin {"onStart", "move", "goStops", "checkLossAgain"}
        /\ f.op = "place" => f.step \in {"WaitForEntry", "Canceled"}
        /\ f.op = "send" => machine # "WaitForEntry"

ContinuedWork(f) == ContinueIfEnded /\ f.op = "move" => f.from # "End"

\* A notice that passed is the entry's, or everything is sold; a price that passed is
\* the loop's, of an order that was entered.
UsualWork(t, f) ==
    Usual =>
        /\ f.op # "send"
        /\ f.op = "move" /\ ~f.price /\ f.from # "WaitForEntry" => model.executed >= Amount
        /\ f.op = "move" /\ f.price =>
              t = Loop /\ f.from \notin {"WaitForEntry", "End"} /\ machine # "WaitForEntry"
        /\ f.op = "checkLossAgain" =>
              t = Loop /\ (model.executed >= Amount \/ setup.prices = {-1})

Allowed(t, f) ==
    /\ f.op = "answer" => f.order \in DOMAIN ord
    /\ TimerWork(f)
    /\ EntryWork(t, f)
    /\ UntoldWork(f)
    /\ ContinuedWork(f)
    /\ UsualWork(t, f)

Work == \A t \in Threads : \A f \in Doing(t) : Allowed(t, f)

Timerless == ~setup.entryTimeout => machine # "Timeout" /\ model.state # "Timeout"

Entries ==
    /\ \A k \in DOMAIN ord : IsEntry(k) =>
          /\ ord[k].qty = Amount
          /\ ord[k].status = "filled" => ord[k].got = Amount
    /\ First => \A j, k \in DOMAIN ord : IsEntry(j) /\ IsEntry(k) => j = k
    /\ First => \A k \in DOMAIN ord : IsEntry(k) /\ ord[k].known => model.orders # <<>>

\* CheckWaitEntry does not pass again, be it that the order was disabled from the start.
Asked ==
    First => "WaitForEntry" \in sm.waiting \/ (~world.enabled /\ ~model.enabled)

Untouched ==
    First /\ Untold =>
        /\ machine \in {"WaitForEntry", "Timeout"}
        /\ ~model.entered /\ model.executed = 0 /\ model.amount = 0
        /\ \A k \in DOMAIN ord : ord[k].step \in {"WaitForEntry", "Canceled"}
        /\ machine = "WaitForEntry" => \A k \in DOMAIN ord : IsEntry(k)

Holdings == First => world.pos <= Amount /\ (~Bought => world.pos <= 0)

\* What an exit order sold that nobody has heard of.
Unheard(o) ==
    IF o.step # "WaitForEntry" /\ o.status = "filled" /\ ~o.told THEN o.got ELSE 0

\* h[n] is what the first n orders sold unheard.
Sums(h) ==
    /\ h \in [0 .. Len(ord) -> Int]
    /\ h[0] = 0
    /\ \A k \in DOMAIN ord : h[k] = h[k - 1] + Unheard(ord[k])

Booking(h) ==
    world.pos = (IF Bought THEN Amount ELSE 0) - model.executed - h[Len(ord)]

Books ==
    First /\ ~setup.entryTimeout =>
        /\ model.entered <=> ~Untold
        /\ model.position = (IF model.entered THEN Amount ELSE 0) - model.executed
        /\ \E h : Sums(h) /\ Booking(h)

\* The loop's price has passed and exit() is yet to read the state.
Selling == \E f \in Doing(Loop) : f.op = "move" /\ f.price

\* While something is left to sell, machine and state are such that exit() does not
\* say End.
Selected ==
    /\ model.state \in {"TakeProfit", "EnterNextTarget"} => -1 \notin setup.prices
    /\ model.state = "Stoploss" => setup.prices = {-1}
    /\ machine = "InEntry" => model.state \in {"InEntry", "TakeProfit", "Stoploss"}
    /\ machine = "TakeProfit" =>
          /\ model.state \in {"TakeProfit", "EnterNextTarget"}
          /\ Selling => model.state = "EnterNextTarget"
    /\ machine = "Stoploss" => model.state = "Stoploss" /\ ~Selling

Ends ==
    /\ ContinueIfEnded => machine # "End"
    /\ Usual =>
          /\ machine = "End" \/ model.state = "End" => model.executed >= Amount
          /\ machine = "WaitForEntry" => model.amount = 0
          /\ model.executed < Amount => Selected

Begun ==
    /\ Typed /\ Work /\ Timerless /\ Entries /\ Asked /\ Untouched /\ Holdings /\ Books
    /\ Ends

\* Before onStart has run: the loop is about to run it, and the strategy may have been
\* disabled and taken out.
Beginning ==
    /\ machine = "WaitForEntry" /\ ord = <<>> /\ canceling = {}
    /\ model \in {FreshModel, [FreshModel EXCEPT !.enabled = FALSE]}
    /\ sm = [waiting |-> {}, entryPlaced |-> FALSE, lock |-> FALSE, stopLock |-> FALSE,
             target |-> 0]
    /\ world \in WorldType
    /\ world.pos = 0 /\ ~world.runtime
    /\ model.enabled \/ ~world.enabled
    /\ todo = [t \in Threads |-> todo[t]]
    /\ todo[Loop] = <<Do("onStart"), Do("startRuntime"), Do("loop")>>
    /\ todo[Watch] \in {<<>>, <<Do("unregister")>>}
    /\ \A t \in Threads \ {Loop, Watch} : todo[t] = <<>>

IInv == Beginning \/ Begun

-----------------------------------------------------------------------------
(* Amounts *)

\* A set of natural numbers that is not empty has a least element.
LEMMA LeastNatural ==
    ASSUME NEW S, S \subseteq Nat, S # {}
    PROVE  \E n \in S : \A m \in S : n <= m
  <1> DEFINE below == {ss \in Nat \X Nat : ss[1] < ss[2]}
  <1>1. OpToRel(<, Nat) = below
    BY Zenon DEF OpToRel
  <1>2. PICK n \in S : \A m \in S : ~(<<m, n>> \in below)
    <2> HIDE DEF below
    <2> QED
      BY <1>1, NatLessThanWellFounded, WFMin
  <1>3. ASSUME NEW m \in S
        PROVE  n <= m
    <2>1. n \in Nat /\ m \in Nat /\ ~(<<m, n>> \in below)
      BY <1>2
    <2>2. ~(m < n)
      BY <2>1
    <2> QED
      BY <2>1, <2>2
  <1> QED
    BY <1>3

\* The amounts of the exit levels add up: Taken is a sum of natural numbers.
LEMMA TakenTyped ==
    ASSUME Targets \in Seq(Nat \ {0})
    PROVE  Taken \in [0 .. Len(Targets) -> Nat]
  <1> DEFINE T == Targets
             N == Len(T)
             Adds(m, f) == /\ f \in [0 .. m -> Nat] /\ f[0] = 0
                           /\ \A i \in 1 .. m : f[i] = f[i - 1] + T[i]
             Def(f) == [n \in 0 .. N |-> IF n = 0 THEN 0 ELSE f[n - 1] + T[n]]
  <1>1. /\ N \in Nat
        /\ \A i \in 1 .. N : T[i] \in Nat
    OBVIOUS
  <1>5. Taken = CHOOSE g : g = Def(g)
    BY DEF Taken
  <1> HIDE DEF T, N
  <1>2. ASSUME NEW m \in 0 .. N
        PROVE  \E f : Adds(m, f)
    <2> DEFINE Bad == {n \in 0 .. N : ~\E f : Adds(n, f)}
    <2> HIDE DEF Adds
    <2>1. SUFFICES ASSUME Bad # {} PROVE FALSE
      OBVIOUS
    <2>2. PICK n \in Bad : \A k \in Bad : n <= k
      <3>1. Bad \subseteq Nat
        BY <1>1
      <3> HIDE DEF Bad
      <3> QED
        BY <2>1, <3>1, LeastNatural
    <2>3. n \in 0 .. N /\ ~\E f : Adds(n, f)
      BY <2>2
    <2>4. CASE n = 0
      <3>1. Adds(0, [k \in 0 .. 0 |-> 0])
        BY DEF Adds
      <3> QED
        BY <2>3, <2>4, <3>1
    <2>5. CASE n # 0
      <3>1. n - 1 \in 0 .. N /\ ~(n <= n - 1)
        BY <1>1, <2>3, <2>5
      <3>2. n - 1 \notin Bad
        BY <2>2, <3>1
      <3>3. PICK f : Adds(n - 1, f)
        BY <3>1, <3>2
      <3>4. PICK g : g = [k \in 0 .. n |-> IF k = n THEN f[n - 1] + T[n] ELSE f[k]]
        OBVIOUS
      <3>5. Adds(n, g)
        BY <1>1, <2>3, <2>5, <3>3, <3>4 DEF Adds
      <3> QED
        BY <2>3, <3>5
    <2> QED
      BY <2>4, <2>5
  <1>3. PICK f : Adds(N, f)
    <2>1. N \in 0 .. N
      BY <1>1
    <2> HIDE DEF Adds
    <2> QED
      BY <2>1, <1>2
  <1>4. f = Def(f)
    BY <1>1, <1>3
  <1>6. Taken = Def(Taken)
    <2> HIDE DEF Def
    <2> QED
      BY <1>4, <1>5
  <1>7. /\ Taken = [n \in 0 .. N |-> Taken[n]] /\ Taken[0] = 0
        /\ \A n \in 1 .. N : Taken[n] = Taken[n - 1] + T[n]
    <2> DEFINE V == Taken
    <2>1. V = Def(V)
      BY <1>6
    <2> HIDE DEF V
    <2>2. /\ V = [n \in 0 .. N |-> V[n]] /\ V[0] = 0
          /\ \A n \in 1 .. N : V[n] = V[n - 1] + T[n]
      <3>1. /\ V = [n \in 0 .. N |-> V[n]]
            /\ \A n \in 0 .. N : V[n] = IF n = 0 THEN 0 ELSE V[n - 1] + T[n]
        BY <2>1
      <3>2. 0 \in 0 .. N /\ \A n \in 1 .. N : n \in 0 .. N /\ n # 0
        BY <1>1
      <3> QED
        BY <3>1, <3>2
    <2> QED
      BY <2>2 DEF V
  <1>8. \A n \in 0 .. N : Taken[n] \in Nat
    <2> DEFINE V == Taken
               Bad == {n \in 0 .. N : V[n] \notin Nat}
    <2> HIDE DEF V
    <2>1. SUFFICES ASSUME Bad # {} PROVE FALSE
      BY DEF V
    <2>2. PICK n \in Bad : \A k \in Bad : n <= k
      <3>1. Bad \subseteq Nat
        BY <1>1
      <3> HIDE DEF Bad
      <3> QED
        BY <2>1, <3>1, LeastNatural
    <2>3. V[0] = 0 /\ \A i \in 1 .. N : V[i] = V[i - 1] + T[i]
      BY <1>7 DEF V
    <2>4. n \in 1 .. N /\ n - 1 \in 0 .. N /\ ~(n <= n - 1)
      BY <1>1, <2>2, <2>3
    <2>5. V[n - 1] \in Nat
      BY <2>2, <2>4
    <2> QED
      BY <1>1, <2>2, <2>3, <2>4, <2>5
  <1> QED
    BY <1>7, <1>8 DEF T, N
\* What a setup says of itself.
LEMMA SetupFacts ==
    ASSUME world \in WorldType
    PROVE  /\ world.setup \in Setups
           /\ Targets \in Seq(Nat \ {0}) /\ Len(Targets) \in Nat \ {0}
           /\ setup.prices \subseteq -1 .. Len(Targets)
           /\ setup.orders \in Nat /\ 1 .. setup.orders \subseteq OrderIds
           /\ setup.iterations \in Nat /\ 0 .. setup.iterations \subseteq Iterations
           /\ setup.errors \in Nat
           /\ setup.forcedLoss => Futures
           /\ {Futures, setup.forcedLoss, ContinueIfEnded, setup.entryTimeout} \subseteq BOOLEAN
  <1>1. world.setup \in Setups /\ world.setup \in SetupType
    BY SmartOrderAssumption DEF WorldType
  <1>2. /\ setup.targets \in Seq(Nat \ {0}) /\ setup.targets # <<>>
        /\ setup.prices \subseteq -1 .. Len(setup.targets)
        /\ setup.orders \in Nat /\ setup.iterations \in Nat /\ setup.errors \in Nat
        /\ setup.forcedLoss => setup.futures
        /\ {setup.futures, setup.forcedLoss, setup.continueIfEnded, setup.entryTimeout}
              \subseteq BOOLEAN
    BY <1>1, SmartOrderAssumption DEF SetupType, setup
  <1>3. 1 .. setup.orders \subseteq OrderIds /\ 0 .. setup.iterations \subseteq Iterations
    BY <1>1 DEF OrderIds, Iterations, setup
  <1>4. Len(setup.targets) \in Nat \ {0}
    BY <1>2
  <1> QED
    BY <1>1, <1>2, <1>3, <1>4 DEF Targets, Futures, ContinueIfEnded

\* Ids of orders and iterations are natural numbers.
LEMMA IdsAreNat == OrderIds \subseteq Nat \ {0} /\ Iterations \subseteq Nat
  <1>1. \A s \in Setups : s.orders \in Nat /\ s.iterations \in Nat
    BY SmartOrderAssumption DEF SetupType
  <1>2. OrderIds \subseteq Nat \ {0}
    BY <1>1 DEF OrderIds
  <1>3. Iterations \subseteq Nat
    BY <1>1 DEF Iterations
  <1> QED
    BY <1>2, <1>3

\* The amount of an order, and of its first exit levels, is a number.
LEMMA TakenFacts ==
    ASSUME world \in WorldType
    PROVE  /\ \A n \in 0 .. Len(Targets) : Taken[n] \in Nat
           /\ Amount \in Nat
  <1>1. Targets \in Seq(Nat \ {0}) /\ Len(Targets) \in Nat
    BY SetupFacts
  <1>2. Taken \in [0 .. Len(Targets) -> Nat]
    BY <1>1, TakenTyped
  <1> DEFINE V == Taken
             n == Len(Targets)
  <1>3. V \in [0 .. n -> Nat] /\ n \in Nat
    BY <1>1, <1>2
  <1> HIDE DEF V, n
  <1>4. (\A i \in 0 .. n : V[i] \in Nat) /\ V[n] \in Nat
    BY <1>3
  <1> QED
    BY <1>4 DEF V, n, Amount

\* What depends on the setup alone stays as it is.
LEMMA SameSetup ==
    ASSUME world'.setup = world.setup
    PROVE  /\ setup' = setup /\ Targets' = Targets /\ Futures' = Futures
           /\ ContinueIfEnded' = ContinueIfEnded /\ Steady' = Steady /\ Usual' = Usual
           /\ FlagsType' = FlagsType
           /\ Taken' = Taken /\ Amount' = Amount
  <1>1. setup' = setup /\ Targets' = Targets
    BY DEF setup, Targets
  <1>2. Futures' = Futures /\ ContinueIfEnded' = ContinueIfEnded
    BY DEF setup, Futures, ContinueIfEnded
  <1>3. Steady' = Steady
    BY <1>1 DEF Steady
  <1>4. Usual' = Usual
    BY <1>2, <1>3 DEF Usual
  <1>5. Taken' = Taken
    BY DEF Taken, Targets, setup
  <1>6. Amount' = Amount
    BY <1>1, <1>5 DEF Amount
  <1>7. FlagsType' = FlagsType
    BY <1>1 DEF FlagsType
  <1> QED
    BY <1>1, <1>2, <1>3, <1>4, <1>5, <1>6, <1>7

-----------------------------------------------------------------------------
(* Frames and stacks *)

\* The fields of a frame, by what it does.
LEMMA FrameFacts ==
    ASSUME NEW f \in Frames
    PROVE  /\ f.op = "answer" => f.order \in OrderIds
           /\ f.op = "place" => f.step \in Steps /\ f.price \in BOOLEAN
           /\ f.op = "send" => f.step = "Canceled" /\ f.qty \in Int
           /\ f.op = "move" => f.from \in MachineStates /\ f.price \in BOOLEAN
           /\ f.op = "sleep" => f.iteration \in Iterations
           /\ f.op = "stopPlaces" => f.state \in MachineStates
           /\ f.op = "finishStop" => f.late \in BOOLEAN /\ f.timeout \in BOOLEAN
           /\ f.op = "loop" => f = Do("loop")
           /\ f \in Later => /\ f.op \notin {"onStart", "move", "answer"}
                             /\ f.op = "place" => f.step \in Exits
  BY DEF Frames, Later, Simple, TimerOps, Do, Exits, Steps

\* The frames that actions make.
LEMMA NewFrames ==
    /\ \A op \in Simple \ {"sleep"} : Do(op) \in Later
    /\ \A i \in Iterations : [op |-> "sleep", iteration |-> i] \in Later
    /\ \A step \in Exits : Place(step) \in Later /\ PlaceAt(step) \in Later
    /\ \A q \in Int : [op |-> "send", step |-> "Canceled", qty |-> q] \in Later
    /\ \A s \in MachineStates : [op |-> "stopPlaces", state |-> s] \in Later
    /\ \A b, c \in BOOLEAN : [op |-> "finishStop", late |-> b, timeout |-> c] \in Later
    /\ Later \subseteq Frames
    /\ Do("onStart") \in Frames /\ Place("WaitForEntry") \in Frames
    /\ \A k \in OrderIds : [op |-> "answer", order |-> k] \in Frames
    /\ \A s \in MachineStates, b \in BOOLEAN : Move(s, b) \in Frames
  <1>1. /\ \A op \in Simple \ {"sleep"} : Do(op) \in Later
        /\ \A i \in Iterations : [op |-> "sleep", iteration |-> i] \in Later
        /\ \A q \in Int : [op |-> "send", step |-> "Canceled", qty |-> q] \in Later
        /\ \A s \in MachineStates : [op |-> "stopPlaces", state |-> s] \in Later
        /\ \A b, c \in BOOLEAN : [op |-> "finishStop", late |-> b, timeout |-> c] \in Later
    BY DEF Later, Do
  <1>2. \A step \in Exits : Place(step) \in Later /\ PlaceAt(step) \in Later
    BY DEF Later, Place, PlaceAt
  <1>3. /\ Later \subseteq Frames
        /\ Do("onStart") \in Frames /\ Place("WaitForEntry") \in Frames
        /\ \A k \in OrderIds : [op |-> "answer", order |-> k] \in Frames
        /\ \A s \in MachineStates, b \in BOOLEAN : Move(s, b) \in Frames
    BY DEF Frames, Do, Place, Move
  <1> QED
    BY <1>1, <1>2, <1>3

\* Two frames, one after the other.
LEMMA TwoInOne ==
    ASSUME NEW a, NEW b
    PROVE  <<a>> \o <<b>> = <<a, b>>
  <1>1. /\ <<a>> \in Seq({a, b}) /\ Len(<<a>>) = 1
        /\ <<b>> \in Seq({a, b}) /\ Len(<<b>>) = 1
        /\ <<a, b>> \in Seq({a, b}) /\ Len(<<a, b>>) = 2
    OBVIOUS
  <1>2. /\ <<a>> \o <<b>> \in Seq({a, b}) /\ Len(<<a>> \o <<b>>) = 2
        /\ \A i \in 1 .. 2 : (<<a>> \o <<b>>)[i] = <<a, b>>[i]
    BY <1>1
  <1> QED
    BY <1>1, <1>2, SeqEqual

\* Stacks of up to three frames.
LEMMA ShortStacks ==
    /\ <<>> \in Stacks /\ Within(<<>>) = {}
    /\ \A f \in Frames : <<f>> \in Stacks /\ Within(<<f>>) = {f}
    /\ \A f \in Frames, g \in Later : <<f, g>> \in Stacks /\ Within(<<f, g>>) = {f, g}
    /\ \A f \in Frames, g, h \in Later :
          <<f, g, h>> \in Stacks /\ Within(<<f, g, h>>) = {f, g, h}
    /\ <<>> \in Seq(Later) /\ \A f \in Later : <<f>> \in Seq(Later)
  <1>1. Later \subseteq Frames
    BY NewFrames
  <1>2. <<>> \in Stacks /\ Within(<<>>) = {}
    BY DEF Stacks, Within
  <1>3. ASSUME NEW f \in Frames PROVE <<f>> \in Stacks /\ Within(<<f>>) = {f}
    <2>1. <<f>> \in Seq(Frames) /\ Len(<<f>>) = 1
      OBVIOUS
    <2> QED
      BY <2>1 DEF Stacks, Within
  <1>4. ASSUME NEW f \in Frames, NEW g \in Later
        PROVE  <<f, g>> \in Stacks /\ Within(<<f, g>>) = {f, g}
    <2>1. <<f, g>> \in Seq(Frames) /\ Len(<<f, g>>) = 2 /\ DOMAIN <<f, g>> = 1 .. 2
      BY <1>1
    <2>2. \A i \in 1 .. 2 : i = 1 \/ i = 2
      OBVIOUS
    <2> QED
      BY <2>1, <2>2 DEF Stacks, Within
  <1>5. ASSUME NEW f \in Frames, NEW g \in Later, NEW h \in Later
        PROVE  <<f, g, h>> \in Stacks /\ Within(<<f, g, h>>) = {f, g, h}
    <2>1. /\ <<f, g, h>> \in Seq(Frames) /\ Len(<<f, g, h>>) = 3
          /\ DOMAIN <<f, g, h>> = 1 .. 3
      BY <1>1
    <2>2. \A i \in 1 .. 3 : i = 1 \/ i = 2 \/ i = 3
      OBVIOUS
    <2> QED
      BY <2>1, <2>2 DEF Stacks, Within
  <1> QED
    BY <1>2, <1>3, <1>4, <1>5

\* Frames instead of the first one.
LEMMA Push ==
    ASSUME NEW s \in Stacks, s # <<>>, NEW frames \in Stacks
    PROVE  /\ frames \o Tail(s) \in Stacks
           /\ \A f \in Within(frames \o Tail(s)) :
                 f \in Within(frames) \/ (f \in Later /\ f \in Within(s))
  <1> DEFINE c == frames \o Tail(s)
  <1>1. s \in Seq(Frames) /\ frames \in Seq(Frames)
    BY DEF Stacks
  <1>2. /\ Tail(s) \in Seq(Frames) /\ Len(Tail(s)) = Len(s) - 1
        /\ \A i \in 1 .. Len(s) - 1 : Tail(s)[i] = s[i + 1]
        /\ Len(s) \in Nat \ {0} /\ Len(frames) \in Nat
        /\ DOMAIN s = 1 .. Len(s) /\ DOMAIN frames = 1 .. Len(frames)
    BY <1>1
  <1>3. /\ c \in Seq(Frames) /\ Len(c) = Len(frames) + Len(s) - 1 /\ DOMAIN c = 1 .. Len(c)
        /\ \A i \in 1 .. Len(c) :
              c[i] = IF i <= Len(frames) THEN frames[i] ELSE s[i - Len(frames) + 1]
    BY <1>1, <1>2
  <1> HIDE DEF c
  <1>4. ASSUME NEW i \in 1 .. Len(c)
        PROVE  /\ i <= Len(frames) => c[i] \in Within(frames)
               /\ i > Len(frames) => c[i] \in Later /\ c[i] \in Within(s)
               /\ i \in 2 .. Len(c) => c[i] \in Later
    <2>1. i <= Len(frames) => c[i] = frames[i] /\ i \in DOMAIN frames
      BY <1>2, <1>3
    <2>2. i > Len(frames) => /\ c[i] = s[i - Len(frames) + 1]
                             /\ i - Len(frames) + 1 \in 2 .. Len(s)
      BY <1>2, <1>3
    <2>3. i > Len(frames) => c[i] \in Later /\ c[i] \in Within(s)
      BY <1>2, <2>2 DEF Stacks, Within
    <2>4. i <= Len(frames) /\ i \in 2 .. Len(c) => c[i] \in Later
      BY <1>2, <2>1 DEF Stacks
    <2> QED
      BY <1>2, <2>1, <2>3, <2>4 DEF Within
  <1>5. c \in Stacks
    BY <1>3, <1>4 DEF Stacks
  <1>6. \A f \in Within(c) : f \in Within(frames) \/ (f \in Later /\ f \in Within(s))
    BY <1>2, <1>3, <1>4 DEF Within
  <1> QED
    BY <1>5, <1>6 DEF c

\* Frames after what is there already.
LEMMA Hang ==
    ASSUME NEW s \in Stacks, NEW others \in Seq(Later)
    PROVE  /\ s \o others \in Stacks
           /\ \A f \in Within(s \o others) : f \in Within(s) \/ f \in Within(others)
  <1> DEFINE c == s \o others
  <1>1. s \in Seq(Frames) /\ others \in Seq(Frames)
    BY NewFrames, SeqMonotonic DEF Stacks
  <1>2. /\ Len(s) \in Nat /\ Len(others) \in Nat
        /\ DOMAIN s = 1 .. Len(s) /\ DOMAIN others = 1 .. Len(others)
    BY <1>1
  <1>3. /\ c \in Seq(Frames) /\ Len(c) = Len(s) + Len(others) /\ DOMAIN c = 1 .. Len(c)
        /\ \A i \in 1 .. Len(c) : c[i] = IF i <= Len(s) THEN s[i] ELSE others[i - Len(s)]
    BY <1>1, <1>2
  <1>4. \A i \in 1 .. Len(others) : others[i] \in Later
    BY <1>2
  <1> HIDE DEF c
  <1>5. ASSUME NEW i \in 1 .. Len(c)
        PROVE  /\ i <= Len(s) => c[i] = s[i] /\ i \in DOMAIN s
               /\ i > Len(s) => c[i] \in Later /\ c[i] \in Within(others)
    <2>1. i > Len(s) => c[i] = others[i - Len(s)] /\ i - Len(s) \in 1 .. Len(others)
      BY <1>2, <1>3
    <2> QED
      BY <1>2, <1>3, <1>4, <2>1 DEF Within
  <1>6. c \in Stacks
    BY <1>2, <1>3, <1>5 DEF Stacks
  <1>7. \A f \in Within(c) : f \in Within(s) \/ f \in Within(others)
    BY <1>2, <1>3, <1>5 DEF Within
  <1> QED
    BY <1>6, <1>7 DEF c

\* A stack without its first frame.
LEMMA DropFirst ==
    ASSUME NEW s \in Stacks, s # <<>>
    PROVE  /\ <<>> \o Tail(s) \in Stacks
           /\ \A f \in Within(<<>> \o Tail(s)) : f \in Later /\ f \in Within(s)
  <1>1. <<>> \in Stacks /\ Within(<<>>) = {}
    BY ShortStacks
  <1>2. /\ <<>> \o Tail(s) \in Stacks
        /\ \A f \in Within(<<>> \o Tail(s)) :
              f \in Within(<<>>) \/ (f \in Later /\ f \in Within(s))
    BY <1>1, Push
  <1> QED
    BY <1>1, <1>2

\* One frame after what is there already.
LEMMA HangOne ==
    ASSUME NEW s \in Stacks, NEW g \in Later
    PROVE  /\ s \o <<g>> \in Stacks
           /\ \A f \in Within(s \o <<g>>) : f \in Within(s) \/ f = g
  <1>1. <<g>> \in Seq(Later) /\ Within(<<g>>) = {g}
    BY ShortStacks, NewFrames
  <1>2. /\ s \o <<g>> \in Stacks
        /\ \A f \in Within(s \o <<g>>) : f \in Within(s) \/ f \in Within(<<g>>)
    BY <1>1, Hang
  <1> QED
    BY <1>1, <1>2

\* The first frame of a stack is one of its frames.
LEMMA HeadFacts ==
    ASSUME todo \in [Threads -> Stacks], NEW t \in Threads, todo[t] # <<>>
    PROVE  Head(todo[t]) \in Frames /\ Head(todo[t]) \in Doing(t)
  <1>1. todo[t] \in Seq(Frames)
    BY DEF Stacks
  <1>2. Head(todo[t]) = todo[t][1] /\ 1 \in DOMAIN todo[t]
    BY <1>1
  <1> QED
    BY <1>1, <1>2 DEF Doing, Within

-----------------------------------------------------------------------------
(* Steps of goroutines *)

\* t replaces its first frame by some of new, the others may get some of other.
Goes(t, new, other) ==
    /\ todo' \in [Threads -> Stacks]
    /\ \A f \in Doing(t)' : f \in new \/ (f \in Later /\ f \in Doing(t))
    /\ \A x \in Threads \ {t} : \A f \in Doing(x)' : f \in Doing(x) \/ f \in other

\* What Then makes of the stacks.
LEMMA ThenGoes ==
    ASSUME todo \in [Threads -> Stacks], NEW t \in Threads, todo[t] # <<>>,
           NEW frames \in Stacks, todo' = Then(t, frames)
    PROVE  Goes(t, Within(frames), {})
  <1>1. /\ todo'[t] = frames \o Tail(todo[t])
        /\ \A x \in Threads \ {t} : todo'[x] = todo[x]
        /\ DOMAIN todo' = Threads
        /\ todo' = [x \in Threads |-> todo'[x]]
    BY DEF Then
  <1>2. /\ todo'[t] \in Stacks
        /\ \A f \in Within(todo'[t]) : f \in Within(frames) \/ (f \in Later /\ f \in Within(todo[t]))
    BY <1>1, Push
  <1>3. todo' \in [Threads -> Stacks]
    BY <1>1, <1>2
  <1> QED
    BY <1>1, <1>2, <1>3 DEF Goes, Doing

\* What ThenGo makes of the stacks.
LEMMA ThenGoGoes ==
    ASSUME todo \in [Threads -> Stacks], NEW t \in Threads, todo[t] # <<>>,
           NEW frames \in Stacks, NEW u \in Threads, NEW others \in Seq(Later),
           todo' = ThenGo(t, frames, u, others)
    PROVE  Goes(t, Within(frames) \cup Within(others), Within(others))
  <1> DEFINE mid == Then(t, frames)
  <1>1. /\ mid \in [Threads -> Stacks]
        /\ \A f \in Within(mid[t]) : f \in Within(frames) \/ (f \in Later /\ f \in Within(todo[t]))
        /\ \A x \in Threads \ {t} : mid[x] = todo[x]
    <2>1. /\ mid[t] = frames \o Tail(todo[t])
          /\ \A x \in Threads \ {t} : mid[x] = todo[x]
          /\ mid = [x \in Threads |-> mid[x]]
      BY DEF Then
    <2>2. /\ mid[t] \in Stacks
          /\ \A f \in Within(mid[t]) : f \in Within(frames) \/ (f \in Later /\ f \in Within(todo[t]))
      BY <2>1, Push
    <2> HIDE DEF mid
    <2> QED
      BY <2>1, <2>2
  <1>2. todo' = [mid EXCEPT ![u] = @ \o others]
    BY DEF ThenGo
  <1> HIDE DEF mid
  <1>3. /\ todo'[u] = mid[u] \o others
        /\ \A x \in Threads \ {u} : todo'[x] = mid[x]
        /\ todo' = [x \in Threads |-> todo'[x]]
    BY <1>1, <1>2
  <1>4. /\ todo'[u] \in Stacks
        /\ \A f \in Within(todo'[u]) : f \in Within(mid[u]) \/ f \in Within(others)
    BY <1>1, <1>3, Hang
  <1>5. todo' \in [Threads -> Stacks]
    BY <1>1, <1>3, <1>4
  <1>6. \A x \in Threads : \A f \in Within(todo'[x]) : f \in Within(mid[x]) \/ f \in Within(others)
    BY <1>3, <1>4
  <1> QED
    BY <1>1, <1>5, <1>6 DEF Goes, Doing

-----------------------------------------------------------------------------
(* Most steps change nothing that the invariant relates *)

\* Orders may become known or be canceled.
OrdersKept ==
    /\ ord' \in Seq(OrderType) /\ Len(ord') = Len(ord)
    /\ \A k \in DOMAIN ord :
          /\ ord'[k].step = ord[k].step /\ ord'[k].qty = ord[k].qty
          /\ ord'[k].got = ord[k].got /\ ord'[k].told = ord[k].told
          /\ ord[k].known => ord'[k].known
          /\ IsEntry(k) /\ ord'[k].known => ord[k].known \/ model'.orders # <<>>
          /\ \/ ord'[k].status = ord[k].status
             \/ ord[k].status = "open" /\ ord'[k].status = "canceled"

\* The model may hear of an order, be disabled, or be told of an error.
ModelKept ==
    /\ model' \in ModelType
    /\ model'.entered = model.entered /\ model'.executed = model.executed
    /\ model'.amount = model.amount /\ model'.position = model.position
    /\ model'.reached = model.reached /\ model'.iteration = model.iteration
    /\ model'.enabled => model.enabled \/ world.enabled
    /\ model.orders # <<>> => model'.orders # <<>>
    /\ \A i \in DOMAIN model'.orders : model'.orders[i] \in DOMAIN ord
    /\ \/ model'.state = model.state
       \/ /\ model'.state # "End"
          /\ model'.state = "Timeout" => setup.entryTimeout
          /\ Usual => model.executed >= Amount

WorldKept ==
    /\ world' \in WorldType
    /\ world'.setup = world.setup /\ world'.pos = world.pos
    /\ world'.enabled => world.enabled

Minor ==
    /\ \/ machine' = machine
       \/ machine = "WaitForEntry" /\ machine' = "Timeout" /\ setup.entryTimeout
    /\ ModelKept
    /\ sm' \in FlagsType /\ sm.waiting \cap {"WaitForEntry"} \subseteq sm'.waiting
    /\ OrdersKept
    /\ canceling' \subseteq DOMAIN ord
    /\ WorldKept

\* Frames that are allowed, and new ones decide nothing.
Fits(x, f) == Allowed(x, f) /\ (f.op = "move" => f \in Doing(x))

MinorWork(t, new, other) ==
    /\ Goes(t, new, other)
    /\ \A f \in new : Fits(t, f)
    /\ \A x \in Threads \ {t} : \A f \in other : Fits(x, f)

\* What is said of orders stays so.
LEMMA OrdersKeptFacts ==
    ASSUME Typed, OrdersKept
    PROVE  /\ DOMAIN ord' = DOMAIN ord /\ Len(ord') = Len(ord)
           /\ \A k \in DOMAIN ord : IsEntry(k)' <=> IsEntry(k)
           /\ Untold' <=> Untold
           /\ Bought' <=> Bought
           /\ \A k \in DOMAIN ord : Unheard(ord'[k]) = Unheard(ord[k])
           /\ \A h : Sums(h) => Sums(h)'
  <1>1. DOMAIN ord' = DOMAIN ord /\ Len(ord') = Len(ord)
    BY DEF Typed, OrdersKept
  <1>2. \A k \in DOMAIN ord : IsEntry(k)' <=> IsEntry(k)
    BY DEF OrdersKept, IsEntry
  <1>3. Untold' <=> Untold
    BY <1>1, <1>2 DEF Untold, OrdersKept
  <1>4. Bought' <=> Bought
    BY <1>1, <1>2 DEF Bought, OrdersKept
  <1>5. \A k \in DOMAIN ord : Unheard(ord'[k]) = Unheard(ord[k])
    BY DEF OrdersKept, Unheard
  <1>6. \A h : Sums(h) => Sums(h)'
    BY <1>1, <1>5 DEF Sums
  <1> QED
    BY <1>1, <1>2, <1>3, <1>4, <1>5, <1>6

\* A minor step takes no frame's permission away.
LEMMA MinorKeepsAllowed ==
    ASSUME Typed, Minor, NEW x \in Threads, NEW f, Allowed(x, f)
    PROVE  Allowed(x, f)'
  <1>1. /\ setup' = setup /\ ContinueIfEnded' = ContinueIfEnded /\ Usual' = Usual
        /\ Amount' = Amount
    BY SameSetup DEF Minor, WorldKept
  <1>2. /\ DOMAIN ord' = DOMAIN ord
        /\ \A k \in DOMAIN ord : IsEntry(k)' <=> IsEntry(k)
        /\ Untold' <=> Untold
    BY OrdersKeptFacts DEF Minor
  <1>3. /\ First' <=> First
        /\ model'.executed = model.executed
        /\ machine # "WaitForEntry" => machine' # "WaitForEntry"
    BY DEF Minor, ModelKept, First
  <1>4. TimerWork(f)'
    BY <1>1 DEF Allowed, TimerWork
  <1>5. EntryWork(x, f)'
    BY <1>2, <1>3 DEF Allowed, EntryWork
  <1>6. UntoldWork(f)'
    BY <1>2, <1>3 DEF Allowed, UntoldWork
  <1>7. ContinuedWork(f)' /\ UsualWork(x, f)'
    BY <1>1, <1>3 DEF Allowed, ContinuedWork, UsualWork
  <1> QED
    BY <1>2, <1>4, <1>5, <1>6, <1>7 DEF Allowed

\* A minor step, with frames that fit, keeps what holds once onStart has run.
LEMMA MinorKeeps ==
    ASSUME Begun, Minor, NEW t \in Threads, NEW new, NEW other, MinorWork(t, new, other)
    PROVE  Begun'
  <1>1. Typed /\ Minor /\ Goes(t, new, other)
    BY DEF Begun, MinorWork
  <1>2. /\ setup' = setup /\ Targets' = Targets /\ Futures' = Futures
        /\ ContinueIfEnded' = ContinueIfEnded /\ Usual' = Usual /\ FlagsType' = FlagsType
        /\ Amount' = Amount
    BY <1>1, SameSetup DEF Minor, WorldKept
  <1>3. /\ DOMAIN ord' = DOMAIN ord /\ Len(ord') = Len(ord)
        /\ \A k \in DOMAIN ord : IsEntry(k)' <=> IsEntry(k)
        /\ Untold' <=> Untold
        /\ Bought' <=> Bought
        /\ \A h : Sums(h) => Sums(h)'
    BY <1>1, OrdersKeptFacts DEF Minor
  <1>4. First' <=> First
    BY <1>1 DEF Minor, ModelKept, First
  <1>5. Typed'
    <2>1. machine' \in MachineStates /\ sm' \in FlagsType
      BY <1>1, <1>2 DEF Typed, Minor, MachineStates
    <2>2. /\ model' \in ModelType /\ model'.reached <= Len(Targets')
          /\ \A i \in DOMAIN model'.orders : model'.orders[i] \in DOMAIN ord'
          /\ ~ContinueIfEnded' => model'.iteration = 0
      BY <1>1, <1>2, <1>3 DEF Typed, Minor, ModelKept
    <2>3. /\ ord' \in Seq(OrderType) /\ Len(ord') <= setup'.orders
          /\ \A k \in DOMAIN ord' : ord'[k].told => ord'[k].known /\ ord'[k].status = "filled"
          /\ canceling' \subseteq DOMAIN ord'
      BY <1>1, <1>2, <1>3 DEF Typed, Minor, OrdersKept
    <2>4. world' \in WorldType /\ (Futures' => world'.pos >= 0) /\ todo' \in [Threads -> Stacks]
      BY <1>1, <1>2 DEF Typed, Minor, WorldKept, Goes
    <2> QED
      BY <1>2, <2>1, <2>2, <2>3, <2>4 DEF Typed
  <1>6. Work'
    <2>1. ASSUME NEW x \in Threads, NEW f \in Doing(x)'
          PROVE  Allowed(x, f)
      <3>1. CASE x = t
        BY <2>1, <3>1 DEF MinorWork, Goes, Fits, Begun, Work
      <3>2. CASE x # t
        BY <2>1, <3>2 DEF MinorWork, Goes, Fits, Begun, Work
      <3> QED
        BY <3>1, <3>2
    <2>2. ASSUME NEW x \in Threads, NEW f \in Doing(x)'
          PROVE  Allowed(x, f)'
      BY <1>1, <2>1, <2>2, MinorKeepsAllowed
    <2> QED
      BY <2>2 DEF Work
  <1>7. Timerless'
    BY <1>1, <1>2 DEF Begun, Timerless, Minor, ModelKept
  <1>8. Entries'
    BY <1>1, <1>2, <1>3, <1>4 DEF Begun, Entries, Minor, ModelKept, OrdersKept
  <1>9. Asked'
    BY <1>1, <1>4 DEF Begun, Asked, Minor, ModelKept, WorldKept
  <1>10. Untouched'
    BY <1>1, <1>3, <1>4 DEF Begun, Untouched, Minor, ModelKept, OrdersKept
  <1>11. Holdings'
    BY <1>1, <1>2, <1>3, <1>4 DEF Begun, Holdings, Minor, WorldKept
  <1>12. Books'
    <2>1. \A h : Booking(h) => Booking(h)'
      BY <1>1, <1>2, <1>3 DEF Booking, Minor, ModelKept, WorldKept
    <2> QED
      BY <1>1, <1>2, <1>3, <1>4, <2>1 DEF Begun, Books, Minor, ModelKept
  <1>13. Ends'
    <2>1. Selling' => Selling
      <3>1. \A f \in Doing(Loop)' : f.op = "move" => f \in Doing(Loop)
        <4>1. Loop \in Threads
          BY DEF Threads
        <4> QED
          BY <4>1 DEF MinorWork, Goes, Fits
      <3> QED
        BY <3>1 DEF Selling
    <2>2. ContinueIfEnded' => machine' # "End"
      BY <1>1, <1>2 DEF Begun, Ends, Minor
    <2>3. Usual => machine' = machine
      BY <1>1 DEF Minor, Usual, Steady
    <2>4. Usual /\ model.executed < Amount => model'.state = model.state
      <3>1. model.executed \in Int /\ Amount \in Int
        BY <1>1, TakenFacts DEF Typed, ModelType
      <3> QED
        BY <1>1, <3>1 DEF Minor, ModelKept
    <2>5. Usual /\ model.executed < Amount => Selected'
      BY <1>2, <2>1, <2>3, <2>4 DEF Begun, Ends, Selected
    <2>6. Usual => (machine' = "End" \/ model'.state = "End" => model.executed >= Amount)
      BY <1>1, <2>3 DEF Begun, Ends, Minor, ModelKept
    <2> QED
      BY <1>1, <1>2, <2>2, <2>3, <2>5, <2>6 DEF Begun, Ends, Minor, ModelKept
  <1> QED
    BY <1>5, <1>6, <1>7, <1>8, <1>9, <1>10, <1>11, <1>12, <1>13 DEF Begun

\* Variables that stay as they are.
LEMMA Unchanged ==
    ASSUME Typed
    PROVE  /\ ord' = ord => OrdersKept
           /\ model' = model => ModelKept
           /\ world' = world => WorldKept
           /\ sm' = sm => sm' \in FlagsType /\ sm.waiting \cap {"WaitForEntry"} \subseteq sm'.waiting
           /\ canceling' = canceling => canceling' \subseteq DOMAIN ord
  <1>1. ord' = ord => OrdersKept
    BY DEF Typed, OrdersKept
  <1>2. model' = model => ModelKept
    BY DEF Typed, ModelKept
  <1>3. world' = world => WorldKept
    BY DEF Typed, WorldKept
  <1> QED
    BY <1>1, <1>2, <1>3 DEF Typed

\* Frames that anybody may get.
LEMMA EasyFits ==
    ASSUME Typed, NEW x \in Threads
    PROVE  /\ \A op \in {"startRuntime", "loop", "cancelAll", "stop", "claimStop", "sweep",
                         "lateCheck", "unregister"} : Fits(x, Do(op))
           /\ Fits(x, Place("Canceled"))
           /\ ~(First /\ Untold) => \A step \in Exits : Fits(x, Place(step))
           /\ setup.entryTimeout => \A op \in TimerOps : Fits(x, Do(op))
           /\ setup.entryTimeout =>
                 \A i \in Iterations : Fits(x, [op |-> "sleep", iteration |-> i])
  <1>1. \A op \in {"startRuntime", "loop", "cancelAll", "stop", "claimStop", "sweep",
                   "lateCheck", "unregister"} : Fits(x, Do(op))
    BY DEF Fits, Allowed, TimerWork, TimerOps, EntryWork, UntoldWork, ContinuedWork, UsualWork, Do
  <1>2. Fits(x, Place("Canceled"))
    BY DEF Fits, Allowed, TimerWork, TimerOps, EntryWork, UntoldWork, ContinuedWork, UsualWork, Place
  <1>3. ~(First /\ Untold) => \A step \in Exits : Fits(x, Place(step))
    BY DEF Fits, Allowed, TimerWork, TimerOps, EntryWork, UntoldWork, ContinuedWork, UsualWork, Place,
           Exits
  <1>4. setup.entryTimeout => \A op \in TimerOps : Fits(x, Do(op))
    BY DEF Fits, Allowed, TimerWork, TimerOps, EntryWork, UntoldWork, ContinuedWork, UsualWork, Do
  <1>5. setup.entryTimeout => \A i \in Iterations : Fits(x, [op |-> "sleep", iteration |-> i])
    BY DEF Fits, Allowed, TimerWork, TimerOps, EntryWork, UntoldWork, ContinuedWork, UsualWork
  <1> QED
    BY <1>1, <1>2, <1>3, <1>4, <1>5

\* What the first frame of a goroutine tells.
LEMMA TopFacts ==
    ASSUME Begun, NEW t \in Threads, todo[t] # <<>>
    PROVE  /\ Head(todo[t]) \in Frames /\ Allowed(t, Head(todo[t]))
           /\ todo \in [Threads -> Stacks] /\ Typed
  BY HeadFacts DEF Begun, Typed, Work

\* A goroutine that is through with its first frame.
LEMMA Finished ==
    ASSUME Typed, NEW t \in Threads, todo[t] # <<>>, todo' = Then(t, <<>>)
    PROVE  MinorWork(t, {}, {})
  <1>1. <<>> \in Stacks /\ Within(<<>>) = {}
    BY ShortStacks
  <1>2. Goes(t, Within(<<>>), {})
    BY <1>1, ThenGoes DEF Typed
  <1> QED
    BY <1>1, <1>2 DEF MinorWork, Goes

\* A goroutine that does one thing instead.
LEMMA GoesOn ==
    ASSUME Typed, NEW t \in Threads, todo[t] # <<>>, NEW f \in Frames, Fits(t, f),
           todo' = Then(t, <<f>>)
    PROVE  MinorWork(t, {f}, {})
  <1>1. <<f>> \in Stacks /\ Within(<<f>>) = {f}
    BY ShortStacks
  <1>2. Goes(t, Within(<<f>>), {})
    BY <1>1, ThenGoes DEF Typed
  <1> QED
    BY <1>1, <1>2 DEF MinorWork, Goes

\* No goroutine moves.
LEMMA NobodyMoves ==
    ASSUME Begun, Minor, todo' = todo
    PROVE  Begun'
  <1>1. \A x \in Threads : Doing(x)' = Doing(x)
    BY DEF Threads, Doing
  <1>2. Typed /\ todo' \in [Threads -> Stacks]
    BY DEF Begun, Typed
  <1>3. Loop \in Threads
    BY DEF Threads
  <1>4. MinorWork(Loop, Doing(Loop), {})
    BY <1>1, <1>2, <1>3 DEF MinorWork, Goes, Fits, Begun, Work
  <1> QED
    BY <1>3, <1>4, MinorKeeps

-----------------------------------------------------------------------------
(* PlaceOrder, apart from orders that are taken *)

\* PlaceOrder returns early.
LEMMA SkipOrderKeeps ==
    ASSUME Begun, NEW t \in Threads, SkipOrder(t)
    PROVE  Begun'
  <1>1. Typed /\ todo[t] # <<>>
    BY DEF Begun, SkipOrder, Top
  <1>2. Minor
    BY <1>1, Unchanged DEF SkipOrder, Minor
  <1>3. MinorWork(t, {}, {})
    BY <1>1, Finished DEF SkipOrder
  <1> QED
    BY <1>2, <1>3, MinorKeeps

\* On spot the Canceled order has its quantity before the others are canceled.
LEMMA CancelBeforeOrderKeeps ==
    ASSUME Begun, NEW t \in Threads, CancelBeforeOrder(t)
    PROVE  Begun'
  <1> DEFINE send == [op |-> "send", step |-> "Canceled", qty |-> Quantity("Canceled")]
  <1>1. Typed /\ todo[t] # <<>>
    BY DEF Begun, CancelBeforeOrder, Top
  <1>2. Minor
    BY <1>1, Unchanged DEF CancelBeforeOrder, Minor
  <1>3. Do("cancelAll") \in Frames /\ send \in Later
    <2>1. model.amount \in Int /\ Amount \in Int
      BY <1>1, TakenFacts DEF Typed, ModelType
    <2>2. Quantity("Canceled") \in Int
      BY <2>1 DEF Quantity
    <2> QED
      BY <2>2, NewFrames DEF Simple
  <1>4. Fits(t, Do("cancelAll"))
    BY <1>1, EasyFits
  <1>5. Fits(t, send)
    <2>1. ~(machine = "WaitForEntry" /\ model.amount = 0) /\ ~Futures
      BY DEF CancelBeforeOrder, Skipped, CancelsFirst, NoEntryToExit
    <2>2. First /\ Untold => machine # "WaitForEntry"
      BY <2>1 DEF Begun, Untouched
    <2> QED
      BY <2>1, <2>2 DEF Fits, Allowed, TimerWork, TimerOps, EntryWork, UntoldWork, ContinuedWork,
                        UsualWork, Usual
  <1>6. Goes(t, {Do("cancelAll"), send}, {})
    <2> DEFINE frames == <<Do("cancelAll"), send>>
    <2>1. frames \in Stacks /\ Within(frames) = {Do("cancelAll"), send}
      BY <1>3, ShortStacks
    <2>2. todo' = Then(t, frames)
      BY DEF CancelBeforeOrder
    <2> HIDE DEF frames, send
    <2>3. Goes(t, Within(frames), {})
      BY <1>1, <2>1, <2>2, ThenGoes DEF Typed
    <2> QED
      BY <2>1, <2>3 DEF Goes
  <1>7. MinorWork(t, {Do("cancelAll"), send}, {})
    BY <1>4, <1>5, <1>6 DEF MinorWork
  <1> QED
    BY <1>2, <1>7, MinorKeeps

\* The orders that are canceled are orders of the exchange.
LEMMA KnownOrders ==
    ASSUME Typed
    PROVE  Known \subseteq DOMAIN ord /\ TryCancelAllOrders \subseteq DOMAIN ord
  BY DEF Typed, Known, TryCancelAllOrders

\* Closing orders that are open leaves what was bought and sold.
LEMMA ClosedKept ==
    ASSUME Typed, NEW ids, ord' = Closed(ids)
    PROVE  OrdersKept
  <1>1. /\ Len(ord) \in Nat /\ DOMAIN ord = 1 .. Len(ord)
        /\ \A k \in DOMAIN ord : ord[k] \in OrderType
    BY DEF Typed
  <1>2. /\ DOMAIN ord' = 1 .. Len(ord)
        /\ \A k \in DOMAIN ord :
              ord'[k] = IF k \in ids /\ ord[k].status = "open"
                        THEN [ord[k] EXCEPT !.status = "canceled"] ELSE ord[k]
        /\ ord' = [k \in 1 .. Len(ord) |-> ord'[k]]
    BY <1>1 DEF Closed
  <1>3. \A k \in DOMAIN ord :
           /\ ord'[k] \in OrderType
           /\ ord'[k].step = ord[k].step /\ ord'[k].qty = ord[k].qty
           /\ ord'[k].got = ord[k].got /\ ord'[k].told = ord[k].told
           /\ ord'[k].known = ord[k].known
           /\ \/ ord'[k].status = ord[k].status
              \/ ord[k].status = "open" /\ ord'[k].status = "canceled"
    BY <1>1, <1>2 DEF OrderType
  <1>4. ord' \in [1 .. Len(ord) -> OrderType]
    BY <1>1, <1>2, <1>3
  <1>5. ord' \in Seq(OrderType) /\ Len(ord') = Len(ord)
    BY <1>1, <1>4
  <1> QED
    BY <1>3, <1>5 DEF OrdersKept

\* The caller waited for all orders to be canceled.
LEMMA TryCancelAllOrdersConsistentlyKeeps ==
    ASSUME Begun, NEW t \in Threads, TryCancelAllOrdersConsistently(t)
    PROVE  Begun'
  <1>1. Typed /\ todo[t] # <<>>
    BY DEF Begun, TryCancelAllOrdersConsistently, Top
  <1>2. OrdersKept
    BY <1>1, ClosedKept DEF TryCancelAllOrdersConsistently
  <1>3. canceling' \subseteq DOMAIN ord
    BY <1>1 DEF Typed, TryCancelAllOrdersConsistently
  <1>4. Minor
    BY <1>1, <1>2, <1>3, Unchanged DEF TryCancelAllOrdersConsistently, Minor
  <1>5. MinorWork(t, {}, {})
    BY <1>1, Finished DEF TryCancelAllOrdersConsistently
  <1> QED
    BY <1>4, <1>5, MinorKeeps

\* AndNextTarget: the next exit level only once an exit level was placed.
LEMMA NextTarget ==
    ASSUME Begun, NEW t \in Threads, todo[t] # <<>>, NEW step, NEW flags \in FlagsType,
           AndNextTarget(t, step, flags), step = "TakeProfit" => ~(First /\ Untold)
    PROVE  /\ \E new : MinorWork(t, new, {})
           /\ sm' \in FlagsType /\ sm'.waiting = flags.waiting
  <1>1. Typed /\ Len(Targets) \in Nat
    BY SetupFacts DEF Begun, Typed
  <1>2. sm' \in FlagsType /\ sm'.waiting = flags.waiting
    BY <1>1 DEF AndNextTarget, FlagsType
  <1>3. CASE todo' = Then(t, <<>>)
    BY <1>1, <1>3, <1>2, Finished
  <1>4. CASE todo' = Then(t, <<Place("TakeProfit")>>) /\ step = "TakeProfit"
    <2>1. Place("TakeProfit") \in Frames /\ Fits(t, Place("TakeProfit"))
      BY <1>1, <1>4, NewFrames, EasyFits DEF Exits, Steps
    <2>2. MinorWork(t, {Place("TakeProfit")}, {})
      BY <1>1, <1>4, <2>1, GoesOn
    <2> QED
      BY <1>2, <2>2
  <1> QED
    BY <1>3, <1>4 DEF AndNextTarget

\* One order is changed.
LEMMA OneOrder ==
    ASSUME Typed, NEW k \in DOMAIN ord, NEW o \in OrderType, ord' = [ord EXCEPT ![k] = o]
    PROVE  /\ ord' \in Seq(OrderType) /\ Len(ord') = Len(ord) /\ DOMAIN ord' = DOMAIN ord
           /\ ord'[k] = o /\ \A j \in DOMAIN ord : j # k => ord'[j] = ord[j]
  <1>1. ord \in Seq(OrderType) /\ DOMAIN ord = 1 .. Len(ord)
    BY DEF Typed
  <1> QED
    BY <1>1, ExceptSeq

\* PlaceOrder learns the id of its order.
LEMMA AnswerKeeps ==
    ASSUME Begun, NEW t \in Threads, Answer(t)
    PROVE  Begun'
  <1> DEFINE k == Head(todo[t]).order
             step == ord[k].step
  <1>1. Typed /\ todo[t] # <<>> /\ k \in DOMAIN ord /\ k \in OrderIds
    BY TopFacts, FrameFacts DEF Answer, Top, Allowed
  <1>2. /\ ord' = [ord EXCEPT ![k].known = TRUE]
        /\ model' = IF step = "Canceled" THEN model
                                         ELSE [model EXCEPT !.orders = Append(@, k)]
        /\ AndNextTarget(t, step, [sm EXCEPT !.waiting = @ \cup {step}])
        /\ UNCHANGED <<machine, canceling, world>>
    BY DEF Answer
  <1>3. /\ Len(ord) \in Nat /\ DOMAIN ord = 1 .. Len(ord) /\ ord[k] \in OrderType
        /\ step \in Steps /\ model \in ModelType /\ model.orders \in Seq(OrderIds)
    <2>1. ord \in Seq(OrderType)
      BY <1>1 DEF Typed
    <2>2. ord[k] \in OrderType
      BY <1>1, <2>1
    <2>3. step \in Steps
      BY <2>2 DEF OrderType
    <2> QED
      BY <1>1, <2>1, <2>2, <2>3 DEF Typed, ModelType
  <1> HIDE DEF k
  <1>4. OrdersKept
    <2>1. [ord[k] EXCEPT !.known = TRUE] \in OrderType
      BY <1>3 DEF OrderType
    <2>3. /\ ord' \in Seq(OrderType) /\ Len(ord') = Len(ord)
          /\ ord'[k] = [ord[k] EXCEPT !.known = TRUE]
          /\ \A j \in DOMAIN ord : j # k => ord'[j] = ord[j]
      BY <1>1, <1>2, <2>1, OneOrder
    <2>2. ASSUME step # "Canceled"
          PROVE  model'.orders # <<>>
      <3>1. PICK orders : orders = Append(model.orders, k)
        OBVIOUS
      <3>2. orders \in Seq(OrderIds) /\ Len(orders) = Len(model.orders) + 1
        BY <1>1, <1>3, <3>1
      <3>3. orders # <<>>
        BY <1>3, <3>2
      <3>4. model' = [model EXCEPT !.orders = orders]
        BY <1>2, <2>2, <3>1
      <3> QED
        BY <1>3, <3>3, <3>4 DEF ModelType
    <2> QED
      BY <1>1, <1>2, <1>3, <2>3, <2>2 DEF OrdersKept, OrderType, IsEntry
  <1>5. ModelKept
    <2>1. CASE step = "Canceled"
      BY <1>1, <1>2, <2>1, Unchanged
    <2>2. CASE step # "Canceled"
      <3>1. /\ Append(model.orders, k) \in Seq(OrderIds) /\ Append(model.orders, k) # <<>>
            /\ \A i \in DOMAIN Append(model.orders, k) : Append(model.orders, k)[i] \in DOMAIN ord
        BY <1>1, <1>3 DEF Typed
      <3> QED
        BY <1>2, <1>3, <2>2, <3>1 DEF ModelKept, ModelType
    <2> QED
      BY <2>1, <2>2
  <1>6. [sm EXCEPT !.waiting = @ \cup {step}] \in FlagsType
    BY <1>1, <1>3 DEF Typed, FlagsType
  <1>7. step = "TakeProfit" => ~(First /\ Untold)
    BY <1>1 DEF Begun, Untouched
  <1>8. /\ \E new : MinorWork(t, new, {})
        /\ sm' \in FlagsType /\ sm'.waiting = sm.waiting \cup {step}
    <2> DEFINE flags == [sm EXCEPT !.waiting = @ \cup {step}]
    <2>1. flags.waiting = sm.waiting \cup {step}
      BY <1>1 DEF Typed, FlagsType
    <2>2. AndNextTarget(t, step, flags) /\ flags \in FlagsType
      BY <1>2, <1>6
    <2> HIDE DEF flags, step
    <2> QED
      BY <1>1, <1>7, <2>1, <2>2, NextTarget
  <1>9. Minor
    BY <1>1, <1>2, <1>4, <1>5, <1>8, Unchanged DEF Minor
  <1> QED
    BY <1>8, <1>9, MinorKeeps

\* What a goroutine is about to send.
LEMMA RequestFacts ==
    ASSUME Begun, NEW t \in Threads, Sending(t)
    PROVE  /\ todo[t] # <<>> /\ Request(t).step \in Steps /\ Request(t).qty \in Int
           /\ Request(t).step = Head(todo[t]).step
           /\ Request(t).step = "WaitForEntry" =>
                 /\ Head(todo[t]).op = "place" /\ Request(t).qty = Amount
                 /\ First => t = Loop /\ \A k \in DOMAIN ord : ~IsEntry(k)
           /\ First /\ Untold =>
                 /\ Request(t).step \in {"WaitForEntry", "Canceled"}
                 /\ machine = "WaitForEntry" => Request(t).step = "WaitForEntry"
           /\ Usual /\ Request(t).qty < 0 => model.executed >= Amount
  <1> DEFINE f == Head(todo[t])
  <1>1. todo[t] # <<>> /\ f \in Frames /\ Allowed(t, f) /\ Typed
    BY TopFacts DEF Sending
  <1>2. \/ f.op = "send" /\ f.step = "Canceled" /\ f.qty \in Int
        \/ f.op = "place" /\ f.step \in Steps /\ ~Skipped(f) /\ ~CancelsFirst(f)
    BY <1>1, FrameFacts DEF Sending
  <1>3. Request(t) = [step |-> f.step, qty |-> IF f.op = "send" THEN f.qty ELSE Quantity(f.step)]
    BY DEF Request
  <1>4. /\ Amount \in Nat /\ model.executed \in Int /\ model.amount \in Int
        /\ sm.target \in 0 .. Len(Targets) - 1
        /\ Targets \in Seq(Nat \ {0}) /\ Len(Targets) \in Nat
    BY <1>1, TakenFacts, SetupFacts DEF Typed, ModelType, FlagsType
  <1> HIDE DEF f
  <1>5. Targets[sm.target + 1] \in Nat
    BY <1>4
  <1>6. f.step \in Steps => Quantity(f.step) \in Int
    BY <1>4, <1>5 DEF Quantity
  <1>7. Request(t).step = f.step /\ Request(t).step \in Steps /\ Request(t).qty \in Int
    BY <1>2, <1>3, <1>6 DEF Steps
  <1>8. Request(t).step = "WaitForEntry" =>
           /\ f.op = "place" /\ Request(t).qty = Amount
           /\ First => t = Loop /\ \A k \in DOMAIN ord : ~IsEntry(k)
    BY <1>1, <1>2, <1>3 DEF Quantity, Allowed, EntryWork
  <1>9. First /\ Untold =>
           /\ Request(t).step \in {"WaitForEntry", "Canceled"}
           /\ machine = "WaitForEntry" => Request(t).step = "WaitForEntry"
    <2>1. First /\ Untold => model.amount = 0
      BY DEF Begun, Untouched
    <2>2. f.op = "place" /\ f.step = "Canceled" => ~(machine = "WaitForEntry" /\ model.amount = 0)
      BY <1>2 DEF Skipped, NoEntryToExit
    <2> QED
      BY <1>1, <1>2, <1>3, <2>1, <2>2 DEF Allowed, UntoldWork
  <1>10. Usual /\ Request(t).qty < 0 => model.executed >= Amount
    <2>1. Usual => f.op # "send" /\ (machine = "WaitForEntry" => model.amount = 0)
      BY <1>1 DEF Allowed, UsualWork, Begun, Ends
    <2>2. Usual /\ Quantity(f.step) < 0 => model.executed >= Amount
      BY <1>4, <1>5, <2>1 DEF Quantity
    <2> QED
      BY <1>2, <1>3, <2>1, <2>2
  <1> QED
    BY <1>1, <1>7, <1>8, <1>9, <1>10 DEF f

\* A reduce-only order is refused.
LEMMA RejectReduceOnlyKeeps ==
    ASSUME Begun, NEW t \in Threads, RejectReduceOnly(t)
    PROVE  Begun'
  <1>1. /\ Typed /\ todo[t] # <<>>
        /\ Request(t).step = "TakeProfit" => ~(First /\ Untold)
    BY RequestFacts DEF Begun, RejectReduceOnly
  <1>2. /\ \E new : MinorWork(t, new, {})
        /\ sm' \in FlagsType /\ sm'.waiting = sm.waiting
    BY <1>1, NextTarget DEF RejectReduceOnly, Typed
  <1>3. ModelKept
    BY <1>1 DEF RejectReduceOnly, Typed, ModelType, ModelKept
  <1>4. Minor
    BY <1>1, <1>2, <1>3, Unchanged DEF RejectReduceOnly, Minor
  <1> QED
    BY <1>2, <1>4, MinorKeeps

\* A stop order is refused as it would trigger at once.
LEMMA RejectTriggeredKeeps ==
    ASSUME Begun, NEW t \in Threads, RejectTriggered(t)
    PROVE  Begun'
  <1>1. Typed /\ todo[t] # <<>>
    BY RequestFacts DEF Begun, RejectTriggered
  <1>2. WorldKept
    BY <1>1 DEF RejectTriggered, Typed, WorldType, WorldKept
  <1>3. Minor
    BY <1>1, <1>2, Unchanged DEF RejectTriggered, Minor
  <1>4. MinorWork(t, {Place("Canceled")}, {})
    <2>1. Place("Canceled") \in Frames /\ Fits(t, Place("Canceled"))
      BY <1>1, NewFrames, EasyFits DEF Exits, Steps
    <2> QED
      BY <1>1, <2>1, GoesOn DEF RejectTriggered
  <1> QED
    BY <1>3, <1>4, MinorKeeps

\* An order is refused for any other reason.
LEMMA RejectOrderKeeps ==
    ASSUME Begun, NEW t \in Threads, RejectOrder(t)
    PROVE  Begun'
  <1>1. /\ Typed /\ todo[t] # <<>> /\ Request(t).step \in Steps
        /\ Request(t).step = "TakeProfit" => ~(First /\ Untold)
    BY RequestFacts DEF Begun, RejectOrder
  <1>2. Requested(Request(t).step) \in FlagsType
        /\ sm.waiting \subseteq Requested(Request(t).step).waiting
    BY <1>1 DEF Requested, Typed, FlagsType
  <1>3. /\ \E new : MinorWork(t, new, {})
        /\ sm' \in FlagsType /\ sm'.waiting = Requested(Request(t).step).waiting
    BY <1>1, <1>2, NextTarget DEF RejectOrder
  <1>4. world.errors < setup.errors \/ ~(world.errors < setup.errors)
    OBVIOUS
  <1>5. WorldKept
    BY <1>1 DEF RejectOrder, Typed, WorldType, WorldKept
  <1>6. Usual => model.executed >= Amount
    <2>1. Usual => ~(world.errors < setup.errors)
      BY <1>1 DEF Typed, WorldType, Usual, Steady
    <2> QED
      BY <2>1, RequestFacts DEF RejectOrder
  <1>7. ModelKept
    BY <1>1, <1>6 DEF RejectOrder, Typed, ModelType, ModelStates, ModelKept
  <1>8. Minor
    BY <1>1, <1>2, <1>3, <1>5, <1>7, Unchanged DEF RejectOrder, Minor
  <1> QED
    BY <1>3, <1>8, MinorKeeps

-----------------------------------------------------------------------------
(* What the state machine and the loop do beside moving *)

\* onStart in a later iteration, or after the first has begun.
LEMMA OnStartChecksKeeps ==
    ASSUME Begun, NEW t \in Threads, OnStartChecks(t)
    PROVE  Begun'
  <1>1. Typed /\ todo[t] # <<>> /\ Allowed(t, Head(todo[t])) /\ Head(todo[t]).op = "onStart"
    BY TopFacts DEF OnStartChecks, Top
  <1>2. First => model.orders # <<>>
    <2>1. First => ~Untold
      BY <1>1 DEF Allowed, UntoldWork
    <2> QED
      BY <1>1, <2>1 DEF Untold, Typed, Begun, Entries
  <1>3. First => Starting(model) = Timer
    BY <1>2 DEF Starting
  <1>4. Minor
    <2>1. sm' \in FlagsType /\ sm.waiting \subseteq sm'.waiting
      BY <1>1 DEF OnStartChecks, Typed, FlagsType, Steps
    <2> QED
      BY <1>1, <2>1, Unchanged DEF OnStartChecks, Minor
  <1>5. todo' = Then(t, Starting(model))
    BY DEF OnStartChecks
  <1>6. Do("checkTimeouts") \in Later /\ Place("WaitForEntry") \in Frames
    BY NewFrames DEF Simple, TimerOps
  <1>7. /\ Timer \in Stacks
        /\ \A f \in Within(Timer) : setup.entryTimeout /\ f = Do("checkTimeouts")
    BY <1>6, ShortStacks, NewFrames DEF Timer
  <1>8. /\ OnStart \in Stacks
        /\ \A f \in Within(OnStart) : \/ f = Place("WaitForEntry")
                                      \/ setup.entryTimeout /\ f = Do("checkTimeouts")
    <2>1. CASE setup.entryTimeout
      <3>1. OnStart = <<Place("WaitForEntry"), Do("checkTimeouts")>>
        BY <2>1, TwoInOne DEF OnStart, Timer
      <3> QED
        BY <1>6, <2>1, <3>1, ShortStacks
    <2>2. CASE ~setup.entryTimeout
      <3>1. OnStart = <<Place("WaitForEntry")>>
        BY <2>2 DEF OnStart, Timer
      <3> QED
        BY <1>6, <3>1, ShortStacks
    <2> QED
      BY <2>1, <2>2
  <1>9. /\ Starting(model) \in Stacks
        /\ \A f \in Within(Starting(model)) : \/ ~First /\ f = Place("WaitForEntry")
                                              \/ setup.entryTimeout /\ f = Do("checkTimeouts")
    <2>1. CASE Starting(model) = Timer
      BY <1>7, <2>1
    <2>2. CASE Starting(model) = OnStart /\ ~First
      BY <1>8, <2>2
    <2> QED
      BY <1>3, <2>1, <2>2 DEF Starting
  <1>10. \A f \in Within(Starting(model)) : Fits(t, f)
    <2>1. setup.entryTimeout => Fits(t, Do("checkTimeouts"))
      BY <1>1, EasyFits DEF TimerOps
    <2>2. ~First => Fits(t, Place("WaitForEntry"))
      BY DEF Fits, Allowed, TimerWork, TimerOps, EntryWork, UntoldWork, ContinuedWork, UsualWork,
             Place
    <2> QED
      BY <1>9, <2>1, <2>2
  <1>11. MinorWork(t, Within(Starting(model)), {})
    <2>1. Goes(t, Within(Starting(model)), {})
      BY <1>1, <1>5, <1>9, ThenGoes DEF Typed
    <2> QED
      BY <1>10, <2>1 DEF MinorWork
  <1> QED
    BY <1>4, <1>11, MinorKeeps

\* The names of goroutines.
LEMMA ThreadNames ==
    /\ Loop \in Threads /\ Watch \in Threads /\ Loop # Watch
    /\ \A i \in Iterations : /\ <<"timer", i>> \in Threads
                             /\ <<"Stoploss", i>> \in Threads
                             /\ <<"ForcedLoss", i>> \in Threads
    /\ \A k \in OrderIds : <<"callback", k>> \in Threads \ {Loop, Watch}
    /\ \A i \in {1, 2} : <<"sweep", i>> \in Threads /\ <<"late", i>> \in Threads
    /\ Loop[2] = 1 /\ Watch[2] = 2
  BY DEF Threads, Loop, Watch

\* The stop orders are placed in the background.
LEMMA GoPlaceStopsKeeps ==
    ASSUME Begun, NEW t \in Threads, GoPlaceStops(t)
    PROVE  Begun'
  <1> DEFINE stop == <<"Stoploss", model.iteration>>
             forced == <<"ForcedLoss", model.iteration>>
             new == {Place("Stoploss"), Place("ForcedLoss")}
             mid == ThenGo(t, <<>>, stop, <<Place("Stoploss")>>)
  <1>1. Typed /\ todo[t] # <<>> /\ Allowed(t, Head(todo[t])) /\ Head(todo[t]).op = "goStops"
    BY TopFacts DEF GoPlaceStops, Top
  <1>2. ~(First /\ Untold)
    BY <1>1 DEF Allowed, UntoldWork
  <1>3. \A x \in Threads : Fits(x, Place("Stoploss")) /\ Fits(x, Place("ForcedLoss"))
    BY <1>1, <1>2, EasyFits DEF Exits, Steps
  <1>4. stop \in Threads /\ forced \in Threads
    BY <1>1, ThreadNames DEF Typed, ModelType
  <1>5. Place("Stoploss") \in Later /\ Place("ForcedLoss") \in Later
    BY NewFrames DEF Exits, Steps
  <1>6. Minor
    BY <1>1, Unchanged DEF GoPlaceStops, Minor
  <1>7. /\ mid \in [Threads -> Stacks]
        /\ \A f \in Within(mid[t]) : f \in new \/ (f \in Later /\ f \in Doing(t))
        /\ \A x \in Threads \ {t} : \A f \in Within(mid[x]) : f \in Doing(x) \/ f \in new
    <2> DEFINE step == Then(t, <<>>)
    <2>1. /\ step[t] = <<>> \o Tail(todo[t])
          /\ \A x \in Threads \ {t} : step[x] = todo[x]
          /\ step = [x \in Threads |-> step[x]]
      BY <1>1 DEF Then, Typed
    <2>2. /\ step[t] \in Stacks
          /\ \A f \in Within(step[t]) : f \in Later /\ f \in Within(todo[t])
      <3>1. todo[t] \in Stacks
        BY <1>1 DEF Typed
      <3> QED
        BY <1>1, <2>1, <3>1, DropFirst
    <2>3. mid = [step EXCEPT ![stop] = @ \o <<Place("Stoploss")>>]
      BY DEF ThenGo
    <2>4. step \in [Threads -> Stacks]
      <3> HIDE DEF step
      <3> QED
        BY <1>1, <2>1, <2>2 DEF Typed
    <2> HIDE DEF step, mid, stop
    <2>5. /\ mid[stop] = step[stop] \o <<Place("Stoploss")>>
          /\ \A x \in Threads \ {stop} : mid[x] = step[x]
          /\ mid = [x \in Threads |-> mid[x]]
      BY <1>4, <2>3, <2>4
    <2>6. /\ mid[stop] \in Stacks
          /\ \A f \in Within(mid[stop]) : f \in Within(step[stop]) \/ f = Place("Stoploss")
      BY <1>4, <1>5, <2>4, <2>5, HangOne
    <2>7. mid \in [Threads -> Stacks]
      BY <2>4, <2>5, <2>6
    <2>8. \A x \in Threads : \A f \in Within(mid[x]) : f \in Within(step[x]) \/ f \in new
      BY <2>5, <2>6
    <2> QED
      BY <2>1, <2>2, <2>7, <2>8 DEF Doing
  <1>8. Goes(t, new, new)
    <2>1. todo' = [mid EXCEPT ![forced] = IF setup.forcedLoss THEN @ \o <<Place("ForcedLoss")>>
                                                             ELSE @]
      BY DEF GoPlaceStops
    <2> HIDE DEF mid, forced
    <2>2. /\ todo'[forced] = IF setup.forcedLoss THEN mid[forced] \o <<Place("ForcedLoss")>>
                                                 ELSE mid[forced]
          /\ \A x \in Threads \ {forced} : todo'[x] = mid[x]
          /\ todo' = [x \in Threads |-> todo'[x]]
      BY <1>4, <1>7, <2>1
    <2>3. /\ todo'[forced] \in Stacks
          /\ \A f \in Within(todo'[forced]) : f \in Within(mid[forced]) \/ f = Place("ForcedLoss")
      BY <1>4, <1>5, <1>7, <2>2, HangOne
    <2>4. todo' \in [Threads -> Stacks]
      BY <1>7, <2>2, <2>3
    <2>5. \A x \in Threads : \A f \in Within(todo'[x]) : f \in Within(mid[x]) \/ f \in new
      BY <2>2, <2>3
    <2> QED
      BY <1>7, <2>4, <2>5 DEF Goes, Doing
  <1>9. MinorWork(t, new, new)
    BY <1>3, <1>8 DEF MinorWork
  <1> QED
    BY <1>6, <1>9, MinorKeeps

\* A goroutine goes on, and another one gets work too.
LEMMA GoesAndHangs ==
    ASSUME Typed, NEW t \in Threads, todo[t] # <<>>, NEW frames \in Stacks,
           \A f \in Within(frames) : Fits(t, f),
           NEW u \in Threads, NEW others \in Seq(Later),
           \A f \in Within(others) : \A x \in Threads : Fits(x, f),
           todo' = ThenGo(t, frames, u, others)
    PROVE  \E new, other : MinorWork(t, new, other)
  <1>1. Goes(t, Within(frames) \cup Within(others), Within(others))
    BY ThenGoGoes DEF Typed
  <1>2. MinorWork(t, Within(frames) \cup Within(others), Within(others))
    BY <1>1 DEF MinorWork
  <1> QED
    BY <1>2

\* The entry timer starts.
LEMMA StartTimerKeeps ==
    ASSUME Begun, NEW t \in Threads, StartTimer(t)
    PROVE  Begun'
  <1> DEFINE sleep == [op |-> "sleep", iteration |-> model.iteration]
             timer == <<"timer", model.iteration>>
  <1>1. Typed /\ todo[t] # <<>> /\ Allowed(t, Head(todo[t])) /\ Head(todo[t]).op = "checkTimeouts"
    BY TopFacts DEF StartTimer, Top
  <1>2. setup.entryTimeout
    BY <1>1 DEF Allowed, TimerWork, TimerOps
  <1>3. model.iteration \in Iterations
    BY <1>1 DEF Typed, ModelType
  <1>4. timer \in Threads /\ sleep \in Later /\ \A x \in Threads : Fits(x, sleep)
    BY <1>1, <1>2, <1>3, ThreadNames, NewFrames, EasyFits
  <1>5. todo' = ThenGo(t, <<>>, timer, <<sleep>>)
    BY DEF StartTimer
  <1>6. Minor
    BY <1>1, Unchanged DEF StartTimer, Minor
  <1> HIDE DEF sleep, timer
  <1>7. /\ <<>> \in Stacks /\ Within(<<>>) = {}
        /\ <<sleep>> \in Seq(Later) /\ Within(<<sleep>>) = {sleep}
    BY <1>4, ShortStacks, NewFrames
  <1>8. \E new, other : MinorWork(t, new, other)
    BY <1>1, <1>4, <1>5, <1>7, GoesAndHangs
  <1> QED
    BY <1>6, <1>8, MinorKeeps

\* The event loop ends and stops the order.
LEMMA LeaveLoopKeeps ==
    ASSUME Begun, NEW t \in Threads, LeaveLoop(t)
    PROVE  Begun'
  <1>1. Typed /\ todo[t] # <<>>
    BY DEF Begun, LeaveLoop, Top
  <1>2. Minor
    BY <1>1, Unchanged DEF LeaveLoop, Minor
  <1>3. Do("stop") \in Frames /\ Fits(t, Do("stop"))
    BY <1>1, NewFrames, EasyFits DEF Simple
  <1>4. MinorWork(t, {Do("stop")}, {})
    BY <1>1, <1>3, GoesOn DEF LeaveLoop
  <1> QED
    BY <1>2, <1>4, MinorKeeps

\* The event loop starts.
LEMMA StartRuntimeKeeps ==
    ASSUME Begun, NEW t \in Threads, StartRuntime(t)
    PROVE  Begun'
  <1>1. Typed /\ todo[t] # <<>>
    BY DEF Begun, StartRuntime, Top
  <1>2. WorldKept
    BY <1>1 DEF StartRuntime, Typed, WorldType, WorldKept
  <1>3. Minor
    BY <1>1, <1>2, Unchanged DEF StartRuntime, Minor
  <1>4. MinorWork(t, {}, {})
    BY <1>1, Finished DEF StartRuntime
  <1> QED
    BY <1>3, <1>4, MinorKeeps

-----------------------------------------------------------------------------
(* The entry timer *)

\* The entry timer cancels the entry, or comes too late.
LEMMA RunTimerKeeps ==
    ASSUME Begun, NEW t \in Threads, RunTimer(t)
    PROVE  Begun'
  <1>1. Typed /\ todo[t] # <<>> /\ Allowed(t, Head(todo[t])) /\ Head(todo[t]).op \in TimerOps
    BY TopFacts
       DEF RunTimer, TimerFires, TimerIsLate, AwaitEntry, CancelEntry, FireTimeout, MarkTimeout,
           Top, TimerOps
  <1>2. setup.entryTimeout /\ ~Usual
    BY <1>1 DEF Allowed, TimerWork, Usual, Steady
  <1>3. \A op \in TimerOps \ {"sleep"} : todo' = Then(t, <<Do(op)>>) => MinorWork(t, {Do(op)}, {})
    <2>1. ASSUME NEW op \in TimerOps \ {"sleep"}, todo' = Then(t, <<Do(op)>>)
          PROVE  MinorWork(t, {Do(op)}, {})
      <3>1. Do(op) \in Frames /\ Fits(t, Do(op))
        BY <1>1, <1>2, NewFrames, EasyFits DEF Simple
      <3> QED
        BY <1>1, <2>1, <3>1, GoesOn
    <2> QED
      BY <2>1
  <1>4. todo' = Then(t, <<>>) => MinorWork(t, {}, {})
    BY <1>1, Finished
  <1>5. sm \in FlagsType /\ \A b \in BOOLEAN : [sm EXCEPT !.lock = b] \in FlagsType
    BY <1>1 DEF Typed, FlagsType
  <1>6. CASE TimerFires(t)
    <2>1. Minor
      BY <1>1, <1>5, <1>6, Unchanged DEF TimerFires, Minor, FlagsType
    <2>2. \E op \in TimerOps \ {"sleep"} : todo' = Then(t, <<Do(op)>>)
      BY <1>6 DEF TimerFires, TimerOps
    <2> QED
      BY <1>3, <2>1, <2>2, MinorKeeps
  <1>7. CASE TimerIsLate(t)
    <2>1. Minor
      BY <1>1, <1>7, Unchanged DEF TimerIsLate, Minor
    <2> QED
      BY <1>4, <1>7, <2>1, MinorKeeps DEF TimerIsLate
  <1>8. CASE AwaitEntry(t)
    <2>1. Minor
      BY <1>1, <1>8, Unchanged DEF AwaitEntry, Minor
    <2>2. \E op \in TimerOps \ {"sleep"} : todo' = Then(t, <<Do(op)>>)
      BY <1>8 DEF AwaitEntry, TimerOps
    <2> QED
      BY <1>3, <2>1, <2>2, MinorKeeps
  <1>9. CASE CancelEntry(t)
    <2> DEFINE k == Head(model.orders)
    <2>1. CASE ord[k].status = "open"
      <3>1. OrdersKept
        BY <1>1, <1>9, <2>1, ClosedKept DEF CancelEntry
      <3>2. canceling' \subseteq DOMAIN ord
        BY <1>1, <1>9, <2>1 DEF CancelEntry, Typed
      <3>3. Minor
        BY <1>1, <1>9, <2>1, <3>1, <3>2, Unchanged DEF CancelEntry, Minor
      <3>4. todo' = Then(t, <<Do("timeUp")>>)
        BY <1>9, <2>1 DEF CancelEntry
      <3>5. MinorWork(t, {Do("timeUp")}, {})
        BY <1>3, <3>4 DEF TimerOps
      <3> QED
        BY <3>3, <3>5, MinorKeeps
    <2>2. CASE ord[k].status # "open"
      <3>1. Minor
        BY <1>1, <1>5, <1>9, <2>2, Unchanged DEF CancelEntry, Minor, FlagsType
      <3> QED
        BY <1>4, <1>9, <2>2, <3>1, MinorKeeps DEF CancelEntry
    <2> QED
      BY <2>1, <2>2
  <1>10. CASE FireTimeout(t)
    <2>1. Minor
      BY <1>1, <1>2, <1>10, Unchanged DEF FireTimeout, Minor
    <2>2. MinorWork(t, {Do("markTimeout")}, {})
      BY <1>3, <1>10 DEF FireTimeout, TimerOps
    <2> QED
      BY <2>1, <2>2, MinorKeeps
  <1>11. CASE MarkTimeout(t)
    <2>1. ModelKept
      BY <1>1, <1>2, <1>11
         DEF MarkTimeout, Typed, ModelType, ModelStates, MachineStates, ModelKept
    <2>2. Minor
      BY <1>1, <1>5, <1>11, <2>1, Unchanged DEF MarkTimeout, Minor, FlagsType
    <2> QED
      BY <1>4, <1>11, <2>2, MinorKeeps DEF MarkTimeout
  <1> QED
    BY <1>6, <1>7, <1>8, <1>9, <1>10, <1>11 DEF RunTimer

-----------------------------------------------------------------------------
(* Stop and the service *)

\* Somebody else is stopping the order.
LEMMA StopIsTakenKeeps ==
    ASSUME Begun, NEW t \in Threads, StopIsTaken(t)
    PROVE  Begun'
  <1>1. Typed /\ todo[t] # <<>>
    BY DEF Begun, StopIsTaken, Top
  <1>2. WorldKept
    BY <1>1, SetupFacts DEF StopIsTaken, Typed, WorldType, WorldKept
  <1>3. Minor
    BY <1>1, <1>2, Unchanged, KnownOrders DEF StopIsTaken, Minor
  <1> QED
    BY <1>1, <1>3, Finished, MinorKeeps DEF StopIsTaken

\* Nobody else is stopping the order yet.
LEMMA StopTestsLockKeeps ==
    ASSUME Begun, NEW t \in Threads, StopTestsLock(t)
    PROVE  Begun'
  <1>1. Typed /\ todo[t] # <<>>
    BY DEF Begun, StopTestsLock, Top
  <1>2. Minor
    BY <1>1, Unchanged DEF StopTestsLock, Minor
  <1>3. Do("claimStop") \in Frames /\ Fits(t, Do("claimStop"))
    <2>1. Do("claimStop") \in Frames
      BY NewFrames DEF Simple
    <2> QED
      BY <2>1 DEF Fits, Allowed, TimerWork, TimerOps, EntryWork, UntoldWork, ContinuedWork,
                  UsualWork, Do
  <1>4. MinorWork(t, {Do("claimStop")}, {})
    BY <1>1, <1>3, GoesOn DEF StopTestsLock
  <1> QED
    BY <1>2, <1>4, MinorKeeps

\* Stop cancels the orders.
LEMMA StopClaimsLockKeeps ==
    ASSUME Begun, NEW t \in {Loop, Watch}, StopClaimsLock(t)
    PROVE  Begun'
  <1> DEFINE place == [op |-> "stopPlaces", state |-> machine]
             sweep == <<"sweep", t[2]>>
  <1>1. Typed /\ todo[t] # <<>> /\ t \in Threads /\ sweep \in Threads
    BY ThreadNames DEF Begun, StopClaimsLock, Top
  <1>2. sm' \in FlagsType /\ sm.waiting \subseteq sm'.waiting
    BY <1>1 DEF StopClaimsLock, Typed, FlagsType
  <1>3. place \in Later /\ Fits(t, place)
    <2>1. place \in Later
      BY <1>1, NewFrames DEF Typed
    <2> QED
      BY <2>1 DEF Fits, Allowed, TimerWork, TimerOps, EntryWork, UntoldWork, ContinuedWork,
                  UsualWork, Begun, Timerless
  <1>4. /\ \A x \in Threads : Fits(x, Do("sweep")) /\ Fits(x, Do("cancelAll"))
        /\ Do("sweep") \in Later /\ Do("cancelAll") \in Frames
    BY <1>1, EasyFits, NewFrames DEF Simple
  <1>5. Minor
    BY <1>1, <1>2, Unchanged, KnownOrders DEF StopClaimsLock, Minor
  <1>6. CASE todo' = Then(t, <<Do("cancelAll"), place>>)
    <2> DEFINE frames == <<Do("cancelAll"), place>>
    <2> HIDE DEF place
    <2>1. frames \in Stacks /\ Within(frames) = {Do("cancelAll"), place}
      BY <1>3, <1>4, ShortStacks
    <2>2. todo' = Then(t, frames)
      BY <1>6
    <2> HIDE DEF frames
    <2>3. Goes(t, Within(frames), {})
      BY <1>1, <2>1, <2>2, ThenGoes DEF Typed
    <2>4. MinorWork(t, Within(frames), {})
      BY <1>1, <1>3, <1>4, <2>1, <2>3 DEF MinorWork
    <2> QED
      BY <1>1, <1>5, <2>4, MinorKeeps
  <1>7. CASE todo' = ThenGo(t, <<place>>, sweep, <<Do("sweep")>>)
    <2> HIDE DEF place, sweep
    <2>1. /\ <<place>> \in Stacks /\ Within(<<place>>) = {place}
          /\ <<Do("sweep")>> \in Seq(Later) /\ Within(<<Do("sweep")>>) = {Do("sweep")}
      BY <1>3, <1>4, ShortStacks, NewFrames
    <2>2. \E new, other : MinorWork(t, new, other)
      BY <1>1, <1>3, <1>4, <1>7, <2>1, GoesAndHangs
    <2> QED
      BY <1>1, <1>5, <2>2, MinorKeeps
  <1> QED
    BY <1>6, <1>7 DEF StopClaimsLock

\* Stop decides whether there is something to close.
LEMMA StopPlacesCanceledKeeps ==
    ASSUME Begun, NEW t \in Threads, StopPlacesCanceled(t)
    PROVE  Begun'
  <1> DEFINE state == Head(todo[t]).state
             open == state # "End" /\ model.state # "Timeout"
             finish == [op |-> "finishStop", late |-> open,
                        timeout |-> state = "Timeout" \/ model.state = "Timeout"]
  <1>1. Typed /\ todo[t] # <<>> /\ Allowed(t, Head(todo[t])) /\ Head(todo[t]).op = "stopPlaces"
    BY TopFacts DEF StopPlacesCanceled, Top
  <1>2. Minor
    BY <1>1, Unchanged DEF StopPlacesCanceled, Minor
  <1>3. ~setup.entryTimeout => state # "Timeout" /\ model.state # "Timeout"
    BY <1>1 DEF Allowed, TimerWork, Begun, Timerless
  <1>4. finish \in Later
    <2>1. PICK b \in BOOLEAN, c \in BOOLEAN :
             (b <=> open) /\ (c <=> state = "Timeout" \/ model.state = "Timeout")
      OBVIOUS
    <2>2. open \in BOOLEAN /\ (state = "Timeout" \/ model.state = "Timeout") \in BOOLEAN
      OBVIOUS
    <2> QED
      BY <2>2, NewFrames
  <1>5. Fits(t, finish)
    BY <1>3 DEF Fits, Allowed, TimerWork, TimerOps, EntryWork, UntoldWork, ContinuedWork, UsualWork
  <1>6. Place("Canceled") \in Later /\ Fits(t, Place("Canceled"))
    BY <1>1, NewFrames, EasyFits DEF Exits, Steps
  <1>7. todo' = Then(t, IF open THEN <<Place("Canceled"), Place("Canceled"), finish>>
                                ELSE <<finish>>)
    BY DEF StopPlacesCanceled
  <1> HIDE DEF finish, open
  <1>8. \E frames \in Stacks : /\ \A f \in Within(frames) : Fits(t, f)
                               /\ todo' = Then(t, frames)
    <2>1. /\ <<finish>> \in Stacks /\ Within(<<finish>>) = {finish}
          /\ <<Place("Canceled"), Place("Canceled"), finish>> \in Stacks
          /\ Within(<<Place("Canceled"), Place("Canceled"), finish>>)
                = {Place("Canceled"), Place("Canceled"), finish}
      BY <1>4, <1>6, ShortStacks, NewFrames
    <2> QED
      BY <1>5, <1>6, <1>7, <2>1
  <1>9. PICK frames \in Stacks : /\ \A f \in Within(frames) : Fits(t, f)
                                 /\ todo' = Then(t, frames)
    BY <1>8
  <1>10. MinorWork(t, Within(frames), {})
    BY <1>1, <1>9, ThenGoes DEF Typed, MinorWork
  <1> QED
    BY <1>2, <1>10, MinorKeeps

\* What FinishStop and RestartInStop leave to a goroutine of Stop.
LEMMA LateCheckFits ==
    ASSUME Typed, NEW f
    PROVE  /\ LateCheck(f) \in Seq(Later)
           /\ \A g \in Within(LateCheck(f)) : \A x \in Threads : Fits(x, g)
  <1>1. Do("lateCheck") \in Later /\ \A x \in Threads : Fits(x, Do("lateCheck"))
    BY EasyFits, NewFrames DEF Simple
  <1> QED
    BY <1>1, ShortStacks, NewFrames DEF LateCheck

\* Stop is done and leaves a check for later.
LEMMA FinishStopKeeps ==
    ASSUME Begun, NEW t \in {Loop, Watch}, FinishStop(t)
    PROVE  Begun'
  <1>1. Typed /\ todo[t] # <<>> /\ t \in Threads /\ <<"late", t[2]>> \in Threads
    BY ThreadNames DEF Begun, FinishStop, Top
  <1>2. sm' \in FlagsType /\ sm.waiting \subseteq sm'.waiting
    BY <1>1 DEF FinishStop, Typed, FlagsType
  <1>3. WorldKept
    BY <1>1, SetupFacts DEF FinishStop, Typed, WorldType, WorldKept
  <1>4. Minor
    BY <1>1, <1>2, <1>3, Unchanged DEF FinishStop, Minor
  <1>5. \E new, other : MinorWork(t, new, other)
    BY <1>1, ShortStacks, LateCheckFits, GoesAndHangs DEF FinishStop
  <1> QED
    BY <1>1, <1>4, <1>5, MinorKeeps

\* Stop's orders are canceled once more.
LEMMA SweepKeeps ==
    ASSUME Begun, NEW t \in Threads, Sweep(t)
    PROVE  Begun'
  <1>1. Typed /\ todo[t] # <<>>
    BY DEF Begun, Sweep, Top
  <1>2. Minor
    BY <1>1, Unchanged, KnownOrders DEF Sweep, Minor
  <1> QED
    BY <1>1, <1>2, Finished, MinorKeeps DEF Sweep

\* Stop's late check closes what is still open.
LEMMA CheckLateKeeps ==
    ASSUME Begun, NEW t \in Threads, CheckLate(t)
    PROVE  Begun'
  <1>1. Typed /\ todo[t] # <<>>
    BY DEF Begun, CheckLate, Top
  <1>2. Minor
    BY <1>1, Unchanged DEF CheckLate, Minor
  <1>3. Place("Canceled") \in Frames /\ Fits(t, Place("Canceled"))
    BY <1>1, NewFrames, EasyFits DEF Exits, Steps
  <1>4. \E new : MinorWork(t, new, {})
    BY <1>1, <1>3, Finished, GoesOn DEF CheckLate
  <1> QED
    BY <1>2, <1>4, MinorKeeps

\* A cancel request in the background gets through.
LEMMA CancelOrderKeeps ==
    ASSUME Begun, NEW k \in canceling, CancelOrder(k)
    PROVE  Begun'
  <1>1. Typed
    BY DEF Begun
  <1>2. OrdersKept
    BY <1>1, ClosedKept DEF CancelOrder
  <1>3. canceling' \subseteq DOMAIN ord
    BY <1>1 DEF CancelOrder, Typed
  <1>4. Minor
    BY <1>1, <1>2, <1>3, Unchanged DEF CancelOrder, Minor
  <1> QED
    BY <1>4, NobodyMoves DEF CancelOrder

\* The user and the watch disable the order, the mutex is lost.
LEMMA ServiceKeeps ==
    ASSUME Begun, Disable \/ LoseMutex \/ HotReload \/ Unregister
    PROVE  Begun'
  <1>1. Typed /\ Watch \in Threads
    BY ThreadNames DEF Begun
  <1>2. CASE Disable \/ LoseMutex
    <2>1. WorldKept
      BY <1>1, <1>2 DEF Disable, LoseMutex, Typed, WorldType, WorldKept
    <2>2. Minor
      BY <1>1, <1>2, <2>1, Unchanged DEF Disable, LoseMutex, Minor
    <2> QED
      BY <1>2, <2>2, NobodyMoves DEF Disable, LoseMutex
  <1>3. CASE HotReload
    <2>1. ModelKept
      BY <1>1, <1>3 DEF HotReload, Typed, ModelType, WorldType, ModelKept
    <2>2. Minor
      BY <1>1, <1>3, <2>1, Unchanged DEF HotReload, Minor
    <2>3. CASE todo' = todo
      BY <2>2, <2>3, NobodyMoves
    <2>4. ASSUME NEW frames \in Stacks, todo' = [todo EXCEPT ![Watch] = frames],
                 \A f \in Within(frames) : Fits(Watch, f)
          PROVE  Begun'
      <3>1. Goes(Watch, Within(frames), {})
        BY <1>1, <2>4 DEF Goes, Doing, Typed
      <3>2. MinorWork(Watch, Within(frames), {})
        BY <2>4, <3>1 DEF MinorWork
      <3> QED
        BY <1>1, <2>2, <3>2, MinorKeeps
    <2>5. /\ Do("unregister") \in Later /\ Do("stop") \in Frames
          /\ Fits(Watch, Do("unregister")) /\ Fits(Watch, Do("stop"))
      BY <1>1, NewFrames, EasyFits DEF Simple
    <2>6. /\ <<Do("unregister")>> \in Stacks
          /\ Within(<<Do("unregister")>>) = {Do("unregister")}
          /\ <<Do("stop"), Do("unregister")>> \in Stacks
          /\ Within(<<Do("stop"), Do("unregister")>>) = {Do("stop"), Do("unregister")}
      BY <2>5, ShortStacks, NewFrames
    <2>7. CASE todo' = [todo EXCEPT ![Watch] = <<Do("unregister")>>]
      BY <2>4, <2>5, <2>6, <2>7
    <2>8. CASE todo' = [todo EXCEPT ![Watch] = <<Do("stop"), Do("unregister")>>]
      BY <2>4, <2>5, <2>6, <2>8
    <2> QED
      BY <1>3, <2>3, <2>7, <2>8 DEF HotReload
  <1>4. CASE Unregister
    <2>1. WorldKept
      BY <1>1, <1>4 DEF Unregister, Typed, WorldType, WorldKept
    <2>2. Minor
      BY <1>1, <1>4, <2>1, Unchanged DEF Unregister, Minor
    <2>3. todo[Watch] # <<>>
      BY <1>4 DEF Unregister, Top
    <2> QED
      BY <1>1, <1>4, <2>2, <2>3, Finished, MinorKeeps DEF Unregister
  <1> QED
    BY <1>2, <1>3, <1>4

-----------------------------------------------------------------------------
(* Sums over the orders *)

\* What an order sold unheard is a natural number.
LEMMA UnheardTyped == \A o \in OrderType : Unheard(o) \in Nat
  BY DEF OrderType, Unheard

\* What never goes down from zero is not negative.
LEMMA Climb ==
    ASSUME NEW n \in Nat, NEW h \in [0 .. n -> Int], h[0] = 0,
           \A k \in 1 .. n : h[k] >= h[k - 1]
    PROVE  h[n] >= 0
  <1> DEFINE Bad == {k \in 0 .. n : h[k] < 0}
  <1>1. SUFFICES ASSUME Bad # {} PROVE FALSE
    OBVIOUS
  <1>2. PICK k \in Bad : \A j \in Bad : k <= j
    <2>1. Bad \subseteq Nat
      OBVIOUS
    <2> HIDE DEF Bad
    <2> QED
      BY <1>1, <2>1, LeastNatural
  <1>3. k \in 1 .. n /\ k - 1 \in 0 .. n /\ ~(k <= k - 1)
    BY <1>2
  <1>4. h[k - 1] >= 0
    BY <1>2, <1>3
  <1> QED
    BY <1>2, <1>3, <1>4

\* What orders sold unheard is not negative, and zero when all have been heard of.
LEMMA SumsArePositive ==
    ASSUME Typed, NEW h, Sums(h)
    PROVE  /\ h[Len(ord)] \in Int /\ h[Len(ord)] >= 0
           /\ (\A k \in DOMAIN ord : Unheard(ord[k]) = 0) => h[Len(ord)] = 0
  <1> DEFINE n == Len(ord)
  <1>1. /\ n \in Nat /\ DOMAIN ord = 1 .. n
        /\ \A k \in 1 .. n : Unheard(ord[k]) \in Nat
    <2>1. ord \in Seq(OrderType)
      BY DEF Typed
    <2> QED
      BY <2>1, UnheardTyped
  <1>2. /\ h \in [0 .. n -> Int] /\ h[0] = 0
        /\ \A k \in 1 .. n : h[k] = h[k - 1] + Unheard(ord[k])
    BY <1>1 DEF Sums
  <1> HIDE DEF n
  <1>3. \A k \in 1 .. n : h[k] \in Int /\ h[k - 1] \in Int
    BY <1>1, <1>2
  <1>4. h[n] >= 0 /\ h[n] \in Int
    <2>1. \A k \in 1 .. n : h[k] >= h[k - 1]
      BY <1>1, <1>2, <1>3
    <2>2. n \in Nat /\ h \in [0 .. n -> Int] /\ h[0] = 0 /\ h[n] \in Int
      BY <1>1, <1>2
    <2> QED
      BY <2>1, <2>2, Climb
  <1>5. ASSUME \A k \in 1 .. n : Unheard(ord[k]) = 0
        PROVE  h[n] = 0
    <2> DEFINE g == [k \in 0 .. n |-> 0 - h[k]]
    <2>1. g \in [0 .. n -> Int] /\ g[0] = 0 /\ g[n] = 0 - h[n]
      BY <1>1, <1>2
    <2>2. \A k \in 1 .. n : g[k] >= g[k - 1]
      BY <1>1, <1>2, <1>3, <1>5
    <2> HIDE DEF g
    <2>3. g[n] >= 0
      BY <1>1, <2>1, <2>2, Climb
    <2> QED
      BY <1>4, <2>1, <2>3
  <1> QED
    BY <1>1, <1>4, <1>5 DEF n

\* One more order that is open.
LEMMA SumsAppend ==
    ASSUME Typed, NEW h, Sums(h), NEW o \in OrderType, o.status = "open", ord' = Append(ord, o)
    PROVE  \E g : Sums(g)' /\ g[Len(ord')] = h[Len(ord)]
  <1>0. PICK n : n = Len(ord)
    OBVIOUS
  <1> PICK g : g = [k \in 0 .. n + 1 |-> IF k <= n THEN h[k] ELSE h[n]]
    OBVIOUS
  <1>1. /\ n \in Nat /\ DOMAIN ord = 1 .. n /\ Len(ord') = n + 1 /\ DOMAIN ord' = 1 .. n + 1
        /\ ord'[n + 1] = o /\ \A k \in 1 .. n : ord'[k] = ord[k]
    BY <1>0 DEF Typed
  <1>2. /\ h \in [0 .. n -> Int] /\ h[0] = 0
        /\ \A k \in 1 .. n : h[k] = h[k - 1] + Unheard(ord[k])
    BY <1>0, <1>1 DEF Sums
  <1>3. Unheard(o) = 0
    BY DEF Unheard
  <1>4. g \in [0 .. n + 1 -> Int] /\ g[0] = 0 /\ g[n + 1] = h[n]
    BY <1>1, <1>2
  <1>5. ASSUME NEW k \in 1 .. n + 1
        PROVE  g[k] = g[k - 1] + Unheard(ord'[k])
    <2>1. CASE k = n + 1
      BY <1>1, <1>2, <1>3, <2>1
    <2>2. CASE k \in 1 .. n
      BY <1>1, <1>2, <2>2
    <2> QED
      BY <1>1, <2>1, <2>2
  <1>6. Sums(g)'
    BY <1>1, <1>4, <1>5 DEF Sums
  <1> QED
    BY <1>0, <1>1, <1>4, <1>6

\* One order changes.
LEMMA Resum ==
    ASSUME Typed, NEW h, Sums(h), NEW k \in DOMAIN ord, NEW o \in OrderType,
           ord' = [ord EXCEPT ![k] = o]
    PROVE  \E g : Sums(g)' /\ g[Len(ord')] = h[Len(ord)] + Unheard(o) - Unheard(ord[k])
  <1>0. PICK n, d : n = Len(ord) /\ d = Unheard(o) - Unheard(ord[k])
    OBVIOUS
  <1> PICK g : g = [j \in 0 .. n |-> IF j < k THEN h[j] ELSE h[j] + d]
    OBVIOUS
  <1>1. /\ n \in Nat /\ DOMAIN ord = 1 .. n /\ DOMAIN ord' = 1 .. n /\ Len(ord') = n
        /\ ord'[k] = o /\ \A j \in 1 .. n : j # k => ord'[j] = ord[j]
    BY <1>0, OneOrder DEF Typed
  <1>2. /\ h \in [0 .. n -> Int] /\ h[0] = 0
        /\ \A j \in 1 .. n : h[j] = h[j - 1] + Unheard(ord[j])
    BY <1>0, <1>1 DEF Sums
  <1>3. \A j \in 1 .. n : Unheard(ord[j]) \in Nat
    <2>1. ord \in Seq(OrderType)
      BY DEF Typed
    <2> QED
      BY <1>1, <2>1, UnheardTyped
  <1>4. d \in Int /\ Unheard(o) \in Int /\ Unheard(o) = Unheard(ord[k]) + d
    BY <1>0, <1>1, <1>3, UnheardTyped
  <1>5. k \in 1 .. n
    BY <1>1
  <1>6. g \in [0 .. n -> Int] /\ g[0] = 0 /\ g[n] = h[n] + d
    BY <1>1, <1>2, <1>4, <1>5
  <1>7. ASSUME NEW j \in 1 .. n
        PROVE  g[j] = g[j - 1] + Unheard(ord'[j])
    <2>1. h[j] \in Int /\ h[j - 1] \in Int /\ Unheard(ord[j]) \in Int
      BY <1>1, <1>2, <1>3
    <2>2. CASE j < k
      BY <1>1, <1>2, <1>5, <2>1, <2>2
    <2>3. CASE j = k
      BY <1>1, <1>2, <1>4, <1>5, <2>1, <2>3
    <2>4. CASE j > k
      BY <1>1, <1>2, <1>4, <1>5, <2>1, <2>4
    <2> QED
      BY <1>5, <2>2, <2>3, <2>4
  <1>8. Sums(g)'
    BY <1>1, <1>6, <1>7 DEF Sums
  <1>9. g[Len(ord')] = h[Len(ord)] + Unheard(o) - Unheard(ord[k])
    <2>1. h[n] \in Int /\ Unheard(ord[k]) \in Int
      BY <1>1, <1>2, <1>3, <1>5
    <2>2. g[Len(ord')] = h[n] + d
      BY <1>1, <1>6
    <2> QED
      BY <1>0, <1>4, <2>1, <2>2
  <1> QED
    BY <1>8, <1>9

-----------------------------------------------------------------------------
(* Transitions, and the prices that lead to them *)

\* Somebody has heard of the entry; machine and state change, the books do not.
Major ==
    /\ ~(First /\ Untold)
    /\ machine' \in MachineStates
    /\ machine' = "Timeout" => setup.entryTimeout
    /\ Usual /\ machine # "WaitForEntry" => machine' # "WaitForEntry"
    /\ model' \in ModelType
    /\ model'.reached <= Len(Targets)
    /\ model'.state = "Timeout" => setup.entryTimeout
    /\ model'.executed = model.executed /\ model'.position = model.position
    /\ model'.iteration = model.iteration /\ model'.orders = model.orders
    /\ model'.enabled = model.enabled
    /\ First /\ ~setup.entryTimeout => model'.entered = model.entered
    /\ sm' \in FlagsType /\ sm'.waiting = sm.waiting
    /\ UNCHANGED <<ord, canceling, world>>
    /\ Ends'

MajorWork(t, new) ==
    /\ Goes(t, new, {})
    /\ \A f \in new : Allowed(t, f)

\* A major step that is explained part by part keeps what holds once onStart has run.
LEMMA MajorKeeps ==
    ASSUME Begun, Major, NEW t \in Threads, NEW new, MajorWork(t, new)
    PROVE  Begun'
  <1>1. Typed /\ Goes(t, new, {}) /\ world' = world /\ ord' = ord
    BY DEF Begun, Major, MajorWork
  <1>2. /\ setup' = setup /\ Targets' = Targets /\ Futures' = Futures
        /\ ContinueIfEnded' = ContinueIfEnded /\ Usual' = Usual /\ FlagsType' = FlagsType
        /\ Amount' = Amount
    BY <1>1, SameSetup
  <1>3. /\ First' <=> First
        /\ Untold' <=> Untold
        /\ Bought' <=> Bought
        /\ \A h : Sums(h) => Sums(h)'
    BY <1>1 DEF Major, First, Untold, Bought, IsEntry, Sums
  <1>4. Typed'
    BY <1>1, <1>2 DEF Typed, Major, Goes
  <1>5. Work'
    <2>1. ASSUME NEW x \in Threads, NEW f \in Doing(x)'
          PROVE  Allowed(x, f)
      <3>1. CASE x = t
        BY <2>1, <3>1 DEF MajorWork, Goes, Begun, Work
      <3>2. CASE x # t
        BY <2>1, <3>2 DEF MajorWork, Goes, Begun, Work
      <3> QED
        BY <3>1, <3>2
    <2>2. ASSUME NEW x \in Threads, NEW f, Allowed(x, f)
          PROVE  Allowed(x, f)'
      <3>1. TimerWork(f)' /\ EntryWork(x, f)'
        BY <1>1, <1>2, <1>3, <2>2 DEF Allowed, TimerWork, EntryWork, IsEntry
      <3>2. UntoldWork(f)'
        BY <1>3 DEF Major, UntoldWork
      <3>3. ContinuedWork(f)' /\ UsualWork(x, f)'
        BY <1>2, <2>2 DEF Allowed, Major, ContinuedWork, UsualWork
      <3> QED
        BY <1>1, <2>2, <3>1, <3>2, <3>3 DEF Allowed
    <2> QED
      BY <2>1, <2>2 DEF Work
  <1>6. Timerless'
    BY <1>1, <1>2 DEF Timerless, Major
  <1>7. Entries'
    BY <1>1, <1>2, <1>3 DEF Begun, Entries, Major, IsEntry
  <1>8. Asked' /\ Untouched'
    BY <1>1, <1>3 DEF Begun, Asked, Untouched, Major
  <1>9. Holdings'
    BY <1>1, <1>2, <1>3 DEF Begun, Holdings
  <1>10. Books'
    <2>1. \A h : Booking(h) => Booking(h)'
      BY <1>1, <1>2, <1>3 DEF Booking, Major
    <2> QED
      BY <1>1, <1>2, <1>3, <2>1 DEF Begun, Books, Major
  <1> QED
    BY <1>4, <1>5, <1>6, <1>7, <1>8, <1>9, <1>10 DEF Begun, Major

\* A goroutine that has passed a guard.
LEMMA MoveFacts ==
    ASSUME Begun, NEW t \in Threads, Top(t, "move")
    PROVE  /\ Typed /\ todo[t] # <<>> /\ Amount \in Nat /\ model.executed \in Int
           /\ Head(todo[t]) \in Frames /\ Allowed(t, Head(todo[t]))
           /\ Head(todo[t]).from \in MachineStates /\ Head(todo[t]).price \in BOOLEAN
           /\ ~(First /\ Untold)
           /\ First /\ ~setup.entryTimeout => model.entered
           /\ ContinueIfEnded => Head(todo[t]).from # "End"
  <1>1. /\ Typed /\ todo[t] # <<>> /\ Head(todo[t]) \in Frames /\ Allowed(t, Head(todo[t]))
        /\ Head(todo[t]).op = "move"
    BY TopFacts DEF Top
  <1>2. Head(todo[t]).from \in MachineStates /\ Head(todo[t]).price \in BOOLEAN
    BY <1>1, FrameFacts
  <1>3. ~(First /\ Untold) /\ (ContinueIfEnded => Head(todo[t]).from # "End")
    BY <1>1 DEF Allowed, UntoldWork, ContinuedWork
  <1>4. First /\ ~setup.entryTimeout => model.entered
    BY <1>3 DEF Begun, Books
  <1>5. Amount \in Nat /\ model.executed \in Int
    BY <1>1, TakenFacts DEF Typed, ModelType
  <1> QED
    BY <1>1, <1>2, <1>3, <1>4, <1>5

\* Such a goroutine of a usual order, while something is left to sell: the entry's notice, or
\* the loop's price, and then nobody else has one.
LEMMA UsualMove ==
    ASSUME Begun, NEW t \in Threads, Top(t, "move"), Usual, model.executed < Amount,
           Head(todo[t]).from # "WaitForEntry"
    PROVE  /\ Head(todo[t]).price /\ t = Loop /\ Selling /\ Selected
           /\ Head(todo[t]).from # "End"
           /\ machine \in HandlesPrices
           /\ NextState # "End"
           /\ NextState = "InEntry" => machine = "InEntry" /\ model.state = "InEntry"
           /\ NextState = "TakeProfit" => model.state \in {"TakeProfit", "EnterNextTarget"}
           /\ NextState = "Stoploss" => machine = "InEntry" /\ model.state = "Stoploss"
           /\ NextState \in HandlesPrices
  <1> DEFINE f == Head(todo[t])
  <1>1. /\ Typed /\ Allowed(t, f) /\ f.op = "move" /\ f.price \in BOOLEAN
        /\ Amount \in Nat /\ model.executed \in Int /\ f \in Doing(t)
    BY MoveFacts, HeadFacts DEF Top, Typed
  <1> HIDE DEF f
  <1>2. ~(model.executed >= Amount)
    BY <1>1
  <1>3. f.price /\ t = Loop /\ f.from \notin {"WaitForEntry", "End"} /\ machine # "WaitForEntry"
    BY <1>1, <1>2 DEF Allowed, UsualWork, f
  <1>4. Selling
    BY <1>1, <1>3 DEF Selling
  <1>5. Selected
    BY DEF Begun, Ends
  <1>6. machine # "End" /\ machine # "Timeout"
    BY <1>2 DEF Begun, Ends, Timerless, Usual, Steady
  <1>7. machine \in HandlesPrices
    BY <1>1, <1>3, <1>6 DEF Typed, MachineStates, HandlesPrices
  <1>8. /\ NextState # "End"
        /\ NextState = "InEntry" => machine = "InEntry" /\ model.state = "InEntry"
        /\ NextState = "TakeProfit" => model.state \in {"TakeProfit", "EnterNextTarget"}
        /\ NextState = "Stoploss" => machine = "InEntry" /\ model.state = "Stoploss"
        /\ NextState \in HandlesPrices
    BY <1>4, <1>5, <1>7 DEF NextState, Selected, HandlesPrices
  <1> QED
    BY <1>3, <1>4, <1>5, <1>7, <1>8 DEF f

\* The loop's frame was its only move.
LEMMA NothingSells ==
    ASSUME NEW new, Goes(Loop, new, {}), \A f \in new : f.op # "move"
    PROVE  ~Selling'
  BY NewFrames, FrameFacts DEF Goes, Selling

\* exit() says End.
LEMMA EnterEndKeeps ==
    ASSUME Begun, NEW t \in Threads, EnterEnd(t)
    PROVE  Begun'
  <1>1. Top(t, "move")
    BY DEF EnterEnd
  <1>2. Typed /\ todo[t] # <<>> /\ Amount \in Nat /\ model.executed \in Int /\ ~(First /\ Untold)
    BY <1>1, MoveFacts
  <1>3. /\ machine' = "End" /\ model' = [model EXCEPT !.state = "End"]
        /\ todo' = Then(t, <<>>) /\ UNCHANGED <<sm, ord, canceling, world>>
    BY DEF EnterEnd, Enter
  <1>4. ~ContinueIfEnded
    BY <1>1, MoveFacts DEF EnterEnd
  <1>5. Usual => model.executed >= Amount
    <2>1. SUFFICES ASSUME Usual, model.executed < Amount PROVE FALSE
      BY <1>2
    <2>2. Head(todo[t]).from # "WaitForEntry"
      BY DEF EnterEnd
    <2>3. Head(todo[t]).from # "End" /\ NextState # "End"
      BY <1>1, <2>1, <2>2, UsualMove
    <2> QED
      BY <1>2, <2>1, <2>3 DEF EnterEnd
  <1>6. /\ model' \in ModelType /\ model'.state = "End"
        /\ model'.executed = model.executed /\ model'.position = model.position
        /\ model'.iteration = model.iteration /\ model'.orders = model.orders
        /\ model'.enabled = model.enabled /\ model'.entered = model.entered
        /\ model'.reached = model.reached
    BY <1>2, <1>3 DEF Typed, ModelType, ModelStates, MachineStates
  <1>7. Ends'
    <2>1. ContinueIfEnded' = ContinueIfEnded /\ Usual' = Usual /\ Amount' = Amount
      BY <1>3, SameSetup
    <2>2. Usual => ~(model'.executed < Amount)
      BY <1>2, <1>5, <1>6
    <2> QED
      BY <1>3, <1>4, <1>5, <1>6, <2>1, <2>2 DEF Ends
  <1>8. Major
    BY <1>2, <1>3, <1>6, <1>7 DEF Major, Typed, MachineStates
  <1>9. MajorWork(t, {})
    BY <1>2, <1>3, Finished DEF MinorWork, MajorWork
  <1> QED
    BY <1>8, <1>9, MajorKeeps

\* enterEntry, from a fill or from a price.
LEMMA EnterEntryKeeps ==
    ASSUME Begun, NEW t \in Threads, EnterEntry(t)
    PROVE  Begun'
  <1> DEFINE price == Head(todo[t]).price
             frames == IF Futures THEN <<Place("TakeProfit"), Do("goStops")>>
                                  ELSE <<Place("TakeProfit")>>
  <1>1. Top(t, "move")
    BY DEF EnterEntry
  <1>2. /\ Typed /\ todo[t] # <<>> /\ ~(First /\ Untold) /\ price \in BOOLEAN
        /\ First /\ ~setup.entryTimeout => model.entered
    BY <1>1, MoveFacts
  <1>3. /\ machine' = "InEntry"
        /\ model' = [model EXCEPT !.state = "InEntry", !.entered = @ \/ price]
        /\ todo' = Then(t, frames) /\ UNCHANGED <<sm, ord, canceling, world>>
    BY DEF EnterEntry, Enter
  <1> HIDE DEF price
  <1>4. PICK b \in BOOLEAN : b = (model.entered \/ price)
    OBVIOUS
  <1>5. /\ model' \in ModelType /\ model'.state = "InEntry"
        /\ model'.executed = model.executed /\ model'.position = model.position
        /\ model'.iteration = model.iteration /\ model'.orders = model.orders
        /\ model'.enabled = model.enabled /\ model'.entered = b
        /\ model'.reached = model.reached
    BY <1>2, <1>3, <1>4 DEF Typed, ModelType, ModelStates, MachineStates
  <1>6. First /\ ~setup.entryTimeout => model'.entered = model.entered
    <2>1. model.entered \in BOOLEAN
      BY <1>2 DEF Typed, ModelType
    <2> QED
      BY <1>2, <1>4, <1>5, <2>1
  <1>7. Ends'
    BY <1>3, <1>5 DEF Ends, Selected
  <1>8. Major
    BY <1>2, <1>3, <1>5, <1>6, <1>7 DEF Major, Typed, MachineStates
  <1>9. /\ Place("TakeProfit") \in Later /\ Do("goStops") \in Later
        /\ Allowed(t, Place("TakeProfit")) /\ Allowed(t, Do("goStops"))
    <2>1. Place("TakeProfit") \in Later /\ Do("goStops") \in Later
      BY NewFrames DEF Simple, Exits, Steps
    <2>2. Allowed(t, Place("TakeProfit"))
      BY <1>2, EasyFits DEF Fits, Exits, Steps
    <2>3. Allowed(t, Do("goStops"))
      BY <1>2 DEF Allowed, TimerWork, TimerOps, EntryWork, UntoldWork, ContinuedWork, UsualWork, Do
    <2> QED
      BY <2>1, <2>2, <2>3
  <1>10. frames \in Stacks /\ \A f \in Within(frames) : Allowed(t, f)
    BY <1>9, ShortStacks, NewFrames
  <1> HIDE DEF frames
  <1>11. MajorWork(t, Within(frames))
    BY <1>2, <1>3, <1>10, ThenGoes DEF MajorWork, Typed
  <1> QED
    BY <1>8, <1>11, MajorKeeps

\* enterTakeProfit.
LEMMA EnterTakeProfitKeeps ==
    ASSUME Begun, NEW t \in Threads, EnterTakeProfit(t)
    PROVE  Begun'
  <1>1. Top(t, "move") /\ model.executed < Amount /\ NextState = "TakeProfit"
        /\ Head(todo[t]).from # "WaitForEntry"
    BY DEF EnterTakeProfit
  <1>2. Typed /\ todo[t] # <<>> /\ ~(First /\ Untold)
    BY <1>1, MoveFacts
  <1>3. /\ machine' = "TakeProfit" /\ todo' = Then(t, <<>>)
        /\ UNCHANGED <<model, ord, canceling, world>>
        /\ sm' = [sm EXCEPT !.lock = @ /\ (model.amount > 0 \/ ~Head(todo[t]).price)]
    BY DEF EnterTakeProfit, Enter
  <1>4. sm' \in FlagsType /\ sm'.waiting = sm.waiting
    <2>1. PICK b \in BOOLEAN : b = (sm.lock /\ (model.amount > 0 \/ ~Head(todo[t]).price))
      OBVIOUS
    <2> QED
      BY <1>2, <1>3, <2>1 DEF Typed, FlagsType
  <1>5. MajorWork(t, {})
    BY <1>2, <1>3, Finished DEF MinorWork, MajorWork
  <1>6. Ends'
    <2>1. ContinueIfEnded' = ContinueIfEnded /\ Usual' = Usual /\ Amount' = Amount /\ setup' = setup
      BY <1>3, SameSetup
    <2>2. ASSUME Usual
          PROVE  /\ Selected'
                 /\ model.state # "End"
      <3>1. /\ t = Loop /\ Selected
            /\ model.state \in {"TakeProfit", "EnterNextTarget"}
        BY <1>1, <2>2, UsualMove
      <3>2. ~Selling'
        BY <1>5, <3>1, NothingSells DEF MajorWork
      <3> QED
        BY <1>3, <2>1, <3>1, <3>2 DEF Selected
    <2> QED
      BY <1>3, <2>1, <2>2 DEF Ends
  <1>7. Major
    BY <1>2, <1>3, <1>4, <1>6 DEF Major, Typed, MachineStates, Begun, Timerless
  <1> QED
    BY <1>5, <1>7, MajorKeeps

\* enterStopLoss.
LEMMA EnterStopLossKeeps ==
    ASSUME Begun, NEW t \in Threads, EnterStopLoss(t)
    PROVE  Begun'
  <1> DEFINE first == IF model.amount > 0 /\ ~Futures THEN <<Do("cancelAll")>> ELSE <<>>
             last == IF model.amount > 0 THEN <<PlaceAt("Stoploss")>> ELSE <<>>
  <1>1. Top(t, "move") /\ model.executed < Amount /\ NextState = "Stoploss"
        /\ Head(todo[t]).from # "WaitForEntry"
    BY DEF EnterStopLoss
  <1>2. Typed /\ todo[t] # <<>> /\ ~(First /\ Untold)
    BY <1>1, MoveFacts
  <1>3. /\ machine' = "Stoploss" /\ UNCHANGED <<model, ord, canceling, world>>
        /\ \/ todo' = Then(t, <<>>) /\ sm' = sm
           \/ /\ todo' = Then(t, first \o <<Do("checkLossAgain")>> \o last)
              /\ sm' = [sm EXCEPT !.lock = model.amount > 0]
    BY DEF EnterStopLoss, Enter
  <1>4. sm' \in FlagsType /\ sm'.waiting = sm.waiting
    <2> DEFINE b == model.amount > 0
    <2>1. b \in BOOLEAN
      OBVIOUS
    <2>2. sm' = sm \/ sm' = [sm EXCEPT !.lock = b]
      BY <1>3
    <2> HIDE DEF b
    <2> QED
      BY <1>2, <2>1, <2>2 DEF Typed, FlagsType
  <1>5. Usual => t = Loop /\ Selected /\ model.state = "Stoploss"
    BY <1>1, UsualMove
  <1>6. /\ Allowed(t, Do("cancelAll")) /\ Allowed(t, Do("checkLossAgain"))
        /\ Allowed(t, PlaceAt("Stoploss"))
    <2>1. Allowed(t, Do("cancelAll"))
      BY <1>2, EasyFits DEF Fits
    <2>2. Allowed(t, Do("checkLossAgain"))
      BY <1>2, <1>5 DEF Allowed, TimerWork, TimerOps, EntryWork, UntoldWork, ContinuedWork, UsualWork, Do,
                       Selected
    <2>3. Allowed(t, PlaceAt("Stoploss"))
      BY <1>2 DEF Allowed, TimerWork, TimerOps, EntryWork, UntoldWork, ContinuedWork, UsualWork,
                  PlaceAt
    <2> QED
      BY <2>1, <2>2, <2>3
  <1>7. \E new : MajorWork(t, new) /\ \A f \in new : f.op # "move"
    <2>1. CASE todo' = Then(t, <<>>)
      <3>1. MajorWork(t, {})
        BY <1>2, <2>1, Finished DEF MinorWork, MajorWork
      <3> QED
        BY <3>1
    <2>2. CASE todo' = Then(t, first \o <<Do("checkLossAgain")>> \o last)
      <3>1. /\ Do("cancelAll") \in Frames /\ Do("checkLossAgain") \in Later
            /\ PlaceAt("Stoploss") \in Later
        BY NewFrames DEF Simple, Exits, Steps
      <3>2. /\ first \in Stacks /\ \A f \in Within(first) : f = Do("cancelAll")
            /\ last \in Seq(Later) /\ \A f \in Within(last) : f = PlaceAt("Stoploss")
        BY <3>1, ShortStacks, NewFrames
      <3> HIDE DEF first, last
      <3>3. PICK two : two = first \o <<Do("checkLossAgain")>>
        OBVIOUS
      <3>4. two \in Stacks /\ \A f \in Within(two) : f \in {Do("cancelAll"), Do("checkLossAgain")}
        BY <3>1, <3>2, <3>3, HangOne
      <3>5. PICK all : all = two \o last
        OBVIOUS
      <3>6. /\ all \in Stacks
            /\ \A f \in Within(all) :
                  f \in {Do("cancelAll"), Do("checkLossAgain"), PlaceAt("Stoploss")}
        BY <3>2, <3>4, <3>5, Hang
      <3>7. Goes(t, Within(all), {})
        <4>1. todo' = Then(t, all)
          BY <2>2, <3>3, <3>5
        <4> QED
          BY <1>2, <3>6, <4>1, ThenGoes DEF Typed
      <3>8. MajorWork(t, Within(all))
        BY <1>6, <3>6, <3>7 DEF MajorWork
      <3>9. \A f \in Within(all) : f.op # "move"
        BY <3>6 DEF Do, PlaceAt
      <3> QED
        BY <3>8, <3>9
    <2> QED
      BY <1>3, <2>1, <2>2
  <1>8. Ends'
    <2>1. ContinueIfEnded' = ContinueIfEnded /\ Usual' = Usual /\ Amount' = Amount /\ setup' = setup
      BY <1>3, SameSetup
    <2>2. Usual => ~Selling'
      BY <1>5, <1>7, NothingSells DEF MajorWork
    <2> QED
      BY <1>3, <1>5, <2>1, <2>2 DEF Ends, Selected
  <1>9. Major
    BY <1>2, <1>3, <1>4, <1>8 DEF Major, Typed, MachineStates, Begun, Timerless
  <1> QED
    BY <1>7, <1>9, MajorKeeps

\* exit() says End, but the order continues.
LEMMA ExitToWaitForEntryKeeps ==
    ASSUME Begun, NEW t \in Threads, ExitToWaitForEntry(t)
    PROVE  Begun'
  <1>1. Top(t, "move") /\ ContinueIfEnded
    BY DEF ExitToWaitForEntry
  <1>2. Typed /\ todo[t] # <<>> /\ ~(First /\ Untold)
    BY <1>1, MoveFacts
  <1>3. /\ machine' = "WaitForEntry" /\ todo' = Then(t, <<Do("onStart")>>)
        /\ UNCHANGED <<model, sm, ord, canceling, world>>
    BY DEF ExitToWaitForEntry, Enter
  <1>4. Ends'
    <2>1. ContinueIfEnded' = ContinueIfEnded /\ Usual' = Usual
      BY <1>3, SameSetup
    <2> QED
      BY <1>1, <1>3, <2>1 DEF Ends, Usual
  <1>5. Major
    BY <1>1, <1>2, <1>3, <1>4 DEF Major, Typed, MachineStates, Begun, Timerless, Usual
  <1>6. Do("onStart") \in Frames /\ Fits(t, Do("onStart"))
    <2>1. Fits(t, Do("onStart"))
      BY <1>2 DEF Fits, Allowed, TimerWork, TimerOps, EntryWork, UntoldWork, ContinuedWork, UsualWork,
                  Do
    <2> QED
      BY <2>1, NewFrames
  <1>7. MajorWork(t, {Do("onStart")})
    BY <1>2, <1>3, <1>6, GoesOn DEF MinorWork, MajorWork, Fits
  <1> QED
    BY <1>5, <1>7, MajorKeeps


-----------------------------------------------------------------------------
(* Prices *)

\* A guard writes a state, an amount to sell and how far the price has been.
KeptBy(m) ==
    /\ m \in ModelType
    /\ m.executed = model.executed /\ m.position = model.position
    /\ m.iteration = model.iteration /\ m.orders = model.orders
    /\ m.enabled = model.enabled /\ m.entered = model.entered
    /\ m.reached = model.reached
    /\ m.state \in {model.state, "Stoploss", "InEntry"}

\* What the loss check makes of the model.
LEMMA CheckLossFacts ==
    ASSUME Typed, NEW price \in Int
    PROVE  LET c == CheckLoss(price)
           IN /\ c.pass \in BOOLEAN /\ KeptBy(c.model)
              /\ model.executed < Amount /\ model.state # "End" /\ machine # "End" =>
                    \/ ~c.pass /\ c.model.state = model.state
                    \/ ~c.pass /\ price # -1 /\ model.state = "Stoploss" /\ c.model.state = "InEntry"
                    \/ /\ c.pass /\ price = -1
                       /\ model.state = "InEntry" /\ c.model.state = "Stoploss"
  <1> DEFINE c == CheckLoss(price)
             loss == [model EXCEPT !.amount = Amount - model.executed]
             stop == [loss EXCEPT !.state = "Stoploss"]
             entry == [model EXCEPT !.state = "InEntry"]
  <1>1. Amount \in Int /\ model \in ModelType /\ model.executed \in Int
    BY TakenFacts DEF Typed, ModelType
  <1>2. Amount - model.executed \in Int
    BY <1>1
  <1>3. /\ KeptBy(model) /\ KeptBy(loss) /\ loss.state = model.state
        /\ KeptBy(stop) /\ stop.state = "Stoploss" /\ KeptBy(entry) /\ entry.state = "InEntry"
    BY <1>1, <1>2 DEF KeptBy, ModelType, ModelStates, MachineStates
  <1>4. \/ c = Fail(model)
        \/ model.executed < Amount /\ (model.state = "End" \/ machine = "End") /\ c = Pass(model)
        \/ price = -1 /\ model.state = "InEntry" /\ c = Pass(stop)
        \/ c = Fail(loss)
        \/ price # -1 /\ model.state = "Stoploss" /\ c = Fail(entry)
    <2> HIDE DEF c, loss, stop, entry
    <2>1. ~(model.executed >= Amount) <=> model.executed < Amount
      BY <1>1
    <2>2. c = IF ("Stoploss" \in sm.waiting /\ ~setup.forcedLoss) \/ model.executed >= Amount
              THEN Fail(model)
              ELSE IF model.state = "End" \/ machine = "End"
              THEN Pass(model)
              ELSE CASE price = -1 /\ model.state = "InEntry" -> Pass(stop)
                     [] price = -1 /\ model.state # "InEntry" -> Fail(loss)
                     [] price # -1 /\ model.state = "Stoploss" -> Fail(entry)
                     [] OTHER -> Fail(model)
      BY Zenon DEF c, loss, stop, entry, CheckLoss
    <2> QED
      BY <2>1, <2>2
  <1> HIDE DEF c, loss, stop, entry
  <1>5. /\ c.pass \in BOOLEAN /\ c.model \in {model, loss, stop, entry}
        /\ model.executed < Amount /\ model.state # "End" /\ machine # "End" =>
              \/ ~c.pass /\ c.model.state = model.state
              \/ ~c.pass /\ price # -1 /\ model.state = "Stoploss" /\ c.model.state = "InEntry"
              \/ c.pass /\ price = -1 /\ model.state = "InEntry" /\ c.model.state = "Stoploss"
    <2>1. /\ Fail(model).pass = FALSE /\ Fail(model).model = model
          /\ Pass(model).pass = TRUE /\ Pass(model).model = model
          /\ Pass(stop).pass = TRUE /\ Pass(stop).model = stop
          /\ Fail(loss).pass = FALSE /\ Fail(loss).model = loss
          /\ Fail(entry).pass = FALSE /\ Fail(entry).model = entry
      BY DEF Fail, Pass
    <2> QED
      BY <1>3, <1>4, <2>1
  <1>6. KeptBy(c.model)
    BY <1>3, <1>5 DEF KeptBy
  <1> QED
    BY <1>5, <1>6 DEF c

\* What the profit check makes of what the loss check left.
LEMMA CheckProfitFacts ==
    ASSUME Typed, NEW price \in setup.prices, NEW m, KeptBy(m)
    PROVE  LET c == CheckProfit(m, price)
           IN /\ c.pass \in BOOLEAN
              /\ c.model \in ModelType
              /\ c.model.executed = model.executed /\ c.model.position = model.position
              /\ c.model.iteration = model.iteration /\ c.model.orders = model.orders
              /\ c.model.enabled = model.enabled /\ c.model.entered = model.entered
              /\ c.model.reached <= Len(Targets)
              /\ c.model.state \in {m.state, "TakeProfit", "EnterNextTarget"}
              /\ model.executed < Amount =>
                    \/ ~c.pass /\ c.model.state = m.state
                    \/ /\ c.pass /\ price >= 1
                       /\ c.model.state = IF machine = "TakeProfit" THEN "EnterNextTarget"
                                                                    ELSE "TakeProfit"
  <1> DEFINE c == CheckProfit(m, price)
             fresh == price > m.reached
             next == IF machine = "TakeProfit" THEN "EnterNextTarget" ELSE "TakeProfit"
             counted == [m EXCEPT !.reached = IF fresh THEN price ELSE @]
             sold == [counted EXCEPT !.amount = 0, !.state = "TakeProfit"]
             level == [counted EXCEPT !.amount = Taken[price] - Taken[m.reached], !.state = next]
  <1>1. /\ Len(Targets) \in Nat /\ price \in -1 .. Len(Targets) /\ Amount \in Int
        /\ \A n \in 0 .. Len(Targets) : Taken[n] \in Nat
    BY SetupFacts, TakenFacts DEF Typed
  <1>2. m \in ModelType /\ m.reached \in Nat /\ m.reached <= Len(Targets) /\ m.executed \in Int
    BY DEF Typed, KeptBy, ModelType
  <1> DEFINE r == IF fresh THEN price ELSE m.reached
  <1>3. r \in Nat /\ r <= Len(Targets)
    BY <1>1, <1>2
  <1>4. counted = [m EXCEPT !.reached = r]
    OBVIOUS
  <1>5. fresh => price >= 1 /\ price \in 0 .. Len(Targets) /\ m.reached \in 0 .. Len(Targets)
    BY <1>1, <1>2
  <1>6. fresh => Taken[price] - Taken[m.reached] \in Int
    BY <1>1, <1>5
  <1> DEFINE Same(n) ==
                /\ n \in ModelType
                /\ n.executed = m.executed /\ n.position = m.position
                /\ n.iteration = m.iteration /\ n.orders = m.orders
                /\ n.enabled = m.enabled /\ n.entered = m.entered
                /\ n.reached <= Len(Targets)
  <1> HIDE DEF r, fresh
  <1>7. next \in ModelStates
    BY DEF ModelStates, MachineStates
  <1> HIDE DEF next
  <1>8. Same(m) /\ Same(sold) /\ sold.state = "TakeProfit"
    <2>1. PICK z \in Int, s \in ModelStates : z = 0 /\ s = "TakeProfit"
      BY DEF ModelStates, MachineStates
    <2>2. sold = [[m EXCEPT !.reached = r] EXCEPT !.amount = z, !.state = s]
      <3>1. sold = [[m EXCEPT !.reached = r] EXCEPT !.amount = 0, !.state = "TakeProfit"]
        BY <1>4
      <3> HIDE DEF sold
      <3> QED
        BY <2>1, <3>1
    <2>3. Same(m)
      BY <1>2
    <2> HIDE DEF sold
    <2>4. Same(sold)
      BY <1>2, <1>3, <2>2 DEF ModelType
    <2>5. sold.state = "TakeProfit"
      BY <1>2, <2>1, <2>2 DEF ModelType
    <2> QED
      BY <2>3, <2>4, <2>5
  <1>9. fresh => Same(level) /\ level.state = next
    <2>1. PICK q : q = Taken[price] - Taken[m.reached]
      OBVIOUS
    <2>2. level = [[m EXCEPT !.reached = r] EXCEPT !.amount = q, !.state = next]
      BY <1>4, <2>1
    <2>3. fresh => q \in Int
      BY <1>6, <2>1
    <2> HIDE DEF level
    <2> QED
      BY <1>2, <1>3, <1>7, <2>2, <2>3 DEF ModelType
  <1>10. \/ c = Fail(m)
         \/ m.executed = Amount /\ c = Pass(sold)
         \/ fresh /\ c = Pass(level)
    <2> HIDE DEF c, counted, sold, level
    <2>1. c = IF "TakeProfit" \in sm.waiting
              THEN Fail(m)
              ELSE CASE m.executed = Amount -> Pass(sold)
                     [] m.executed # Amount /\ fresh -> Pass(level)
                     [] OTHER -> Fail(m)
      BY Zenon DEF c, counted, sold, level, fresh, next, CheckProfit
    <2> QED
      BY <2>1
  <1> HIDE DEF c, counted, sold, level, Same
  <1>11. /\ c.pass \in BOOLEAN /\ Same(c.model)
         /\ c.model.state \in {m.state, "TakeProfit", next}
         /\ m.executed < Amount =>
               \/ ~c.pass /\ c.model.state = m.state
               \/ c.pass /\ fresh /\ c.model.state = next
    <2>1. ~(Amount < Amount)
      BY <1>1
    <2>2. /\ Fail(m).pass = FALSE /\ Fail(m).model = m
          /\ Pass(sold).pass = TRUE /\ Pass(sold).model = sold
          /\ Pass(level).pass = TRUE /\ Pass(level).model = level
      BY DEF Fail, Pass
    <2>3. CASE c = Fail(m)
      BY <1>8, <2>2, <2>3 DEF Same
    <2>4. CASE m.executed = Amount /\ c = Pass(sold)
      BY <1>8, <2>1, <2>2, <2>4 DEF Same
    <2>5. CASE fresh /\ c = Pass(level)
      BY <1>9, <2>2, <2>5 DEF Same
    <2> QED
      BY <1>10, <2>3, <2>4, <2>5
  <1>12. /\ m.executed = model.executed /\ m.position = model.position
         /\ m.iteration = model.iteration /\ m.orders = model.orders
         /\ m.enabled = model.enabled /\ m.entered = model.entered
    BY DEF KeptBy
  <1>13. next \in {"TakeProfit", "EnterNextTarget"}
         /\ next = IF machine = "TakeProfit" THEN "EnterNextTarget" ELSE "TakeProfit"
    BY DEF next
  <1> QED
    BY <1>5, <1>11, <1>12, <1>13 DEF Same, c

\* What a price makes of a usual order that has something left to sell.
LEMMA PriceFacts ==
    ASSUME Typed, NEW price \in setup.prices
    PROVE  LET c == CheckLossThenProfit(price)
           IN /\ c.pass \in BOOLEAN
              /\ c.model \in ModelType
              /\ c.model.executed = model.executed /\ c.model.position = model.position
              /\ c.model.iteration = model.iteration /\ c.model.orders = model.orders
              /\ c.model.enabled = model.enabled /\ c.model.entered = model.entered
              /\ c.model.reached <= Len(Targets)
              /\ c.model.state \in {model.state, "Stoploss", "InEntry", "TakeProfit",
                                    "EnterNextTarget"}
              /\ model.executed < Amount /\ model.state # "End" /\ machine # "End" =>
                    \/ ~c.pass /\ c.model.state = model.state
                    \/ price # -1 /\ model.state = "Stoploss"
                    \/ /\ c.pass /\ price = -1
                       /\ model.state = "InEntry" /\ c.model.state = "Stoploss"
                    \/ /\ c.pass /\ price >= 1
                       /\ c.model.state = IF machine = "TakeProfit" THEN "EnterNextTarget"
                                                                    ELSE "TakeProfit"
  <1>1. PICK l : l = CheckLoss(price)
    OBVIOUS
  <1>2. PICK p : p = CheckProfit(l.model, price)
    OBVIOUS
  <1>3. PICK c : c = CheckLossThenProfit(price)
    OBVIOUS
  <1>4. c = IF l.pass THEN l ELSE p
    BY <1>1, <1>2, <1>3 DEF CheckLossThenProfit
  <1>5. price \in Int
    BY SetupFacts DEF Typed
  <1>6. /\ l.pass \in BOOLEAN /\ KeptBy(l.model)
        /\ model.executed < Amount /\ model.state # "End" /\ machine # "End" =>
              \/ ~l.pass /\ l.model.state = model.state
              \/ ~l.pass /\ price # -1 /\ model.state = "Stoploss" /\ l.model.state = "InEntry"
              \/ l.pass /\ price = -1 /\ model.state = "InEntry" /\ l.model.state = "Stoploss"
    BY <1>1, <1>5, CheckLossFacts
  <1>7. /\ p.pass \in BOOLEAN
        /\ p.model \in ModelType
        /\ p.model.executed = model.executed /\ p.model.position = model.position
        /\ p.model.iteration = model.iteration /\ p.model.orders = model.orders
        /\ p.model.enabled = model.enabled /\ p.model.entered = model.entered
        /\ p.model.reached <= Len(Targets)
        /\ p.model.state \in {l.model.state, "TakeProfit", "EnterNextTarget"}
        /\ model.executed < Amount =>
              \/ ~p.pass /\ p.model.state = l.model.state
              \/ /\ p.pass /\ price >= 1
                 /\ p.model.state = IF machine = "TakeProfit" THEN "EnterNextTarget"
                                                              ELSE "TakeProfit"
    BY <1>2, <1>6, CheckProfitFacts
  <1>8. /\ l.model \in ModelType
        /\ l.model.executed = model.executed /\ l.model.position = model.position
        /\ l.model.iteration = model.iteration /\ l.model.orders = model.orders
        /\ l.model.enabled = model.enabled /\ l.model.entered = model.entered
        /\ l.model.reached <= Len(Targets)
        /\ l.model.state \in {model.state, "Stoploss", "InEntry"}
    BY <1>6 DEF KeptBy, Typed
  <1> QED
    BY <1>3, <1>4, <1>6, <1>7, <1>8

\* One more frame on top of those that may stand below it.
LEMMA PushOn ==
    ASSUME NEW s \in Stacks, s # <<>>, Head(s) \in Later, NEW f \in Frames
    PROVE  /\ <<f>> \o s \in Stacks
           /\ \A g \in Within(<<f>> \o s) : g = f \/ (g \in Later /\ g \in Within(s))
           /\ \A g \in Within(s) : g \in Later
           /\ f \in Within(<<f>> \o s)
  <1>1. s \in Seq(Frames) /\ Len(s) \in Nat \ {0} /\ DOMAIN s = 1 .. Len(s) /\ s[1] = Head(s)
    BY DEF Stacks
  <1>2. \A i \in 1 .. Len(s) : s[i] \in Later
    <2>1. \A i \in 1 .. Len(s) : i = 1 \/ i \in 2 .. Len(s)
      BY <1>1
    <2> QED
      BY <1>1, <2>1 DEF Stacks
  <1>3. s \in Seq(Later) /\ \A g \in Within(s) : g \in Later
    <2>1. s = [i \in 1 .. Len(s) |-> s[i]]
      BY <1>1
    <2>2. s \in [1 .. Len(s) -> Later]
      BY <1>2, <2>1
    <2> QED
      BY <1>1, <1>2, <2>2 DEF Within
  <1>4. <<f>> \in Stacks /\ Within(<<f>>) = {f}
    BY ShortStacks
  <1>5. /\ <<f>> \o s \in Stacks
        /\ \A g \in Within(<<f>> \o s) : g \in Within(<<f>>) \/ g \in Within(s)
    BY <1>3, <1>4, Hang
  <1>6. f \in Within(<<f>> \o s)
    <2>1. <<f>> \in Seq(Frames) /\ Len(<<f>>) = 1 /\ <<f>>[1] = f
      OBVIOUS
    <2>2. /\ (<<f>> \o s)[1] = f /\ 1 \in DOMAIN (<<f>> \o s)
      BY <1>1, <2>1
    <2> QED
      BY <2>2 DEF Within
  <1> QED
    BY <1>3, <1>4, <1>5, <1>6

\* The loop's price has passed: it is to move next.
LEMMA LoopMoves ==
    ASSUME Typed, Top(Loop, "loop"), NEW f \in Frames,
           todo' = [todo EXCEPT ![Loop] = <<f>> \o @]
    PROVE  Goes(Loop, {f}, {}) /\ f \in Doing(Loop)'
  <1>1. Loop \in Threads /\ todo[Loop] \in Stacks /\ todo[Loop] # <<>>
    BY ThreadNames DEF Typed, Top
  <1>2. Head(todo[Loop]) \in Later
    <2>1. Head(todo[Loop]) \in Frames /\ Head(todo[Loop]).op = "loop"
      BY <1>1, HeadFacts DEF Typed, Top
    <2> QED
      BY <2>1, FrameFacts, NewFrames DEF Simple
  <1>3. /\ <<f>> \o todo[Loop] \in Stacks
        /\ \A g \in Within(<<f>> \o todo[Loop]) : g = f \/ (g \in Later /\ g \in Within(todo[Loop]))
        /\ f \in Within(<<f>> \o todo[Loop])
    BY <1>1, <1>2, PushOn
  <1>4. /\ todo'[Loop] = <<f>> \o todo[Loop]
        /\ \A x \in Threads \ {Loop} : todo'[x] = todo[x]
        /\ todo' = [x \in Threads |-> todo'[x]]
    BY <1>1 DEF Typed
  <1>5. todo' \in [Threads -> Stacks]
    BY <1>1, <1>3, <1>4 DEF Typed
  <1> QED
    BY <1>3, <1>4, <1>5 DEF Goes, Doing

\* The loop waits for a price: what it has decided is done.
LEMMA LoopWaits ==
    ASSUME Typed, Top(Loop, "loop")
    PROVE  /\ ~Selling
           /\ todo' = todo => Goes(Loop, Doing(Loop), {}) /\ ~Selling'
  <1>1. Loop \in Threads /\ todo[Loop] \in Stacks /\ todo[Loop] # <<>>
    BY ThreadNames DEF Typed, Top
  <1>2. Head(todo[Loop]) \in Later
    <2>1. Head(todo[Loop]) \in Frames /\ Head(todo[Loop]).op = "loop"
      BY <1>1, HeadFacts DEF Typed, Top
    <2> QED
      BY <2>1, FrameFacts, NewFrames DEF Simple
  <1>3. \A g \in Doing(Loop) : g \in Later
    BY <1>1, <1>2, PushOn, NewFrames DEF Doing
  <1>4. \A g \in Doing(Loop) : g.op # "move"
    BY <1>3, FrameFacts, NewFrames
  <1>5. ~Selling
    BY <1>4 DEF Selling
  <1>6. ASSUME todo' = todo
        PROVE  Goes(Loop, Doing(Loop), {}) /\ ~Selling'
    <2>1. \A x \in Threads : Doing(x)' = Doing(x)
      BY <1>6 DEF Doing
    <2> QED
      BY <1>1, <1>5, <1>6, <2>1 DEF Goes, Selling, Typed
  <1> QED
    BY <1>5, <1>6

\* A turn of the event loop.
LEMMA FireOnPriceKeeps ==
    ASSUME Begun, NEW price \in setup.prices, FireOnPrice(Loop, price)
    PROVE  Begun'
  <1> DEFINE move == Move(machine, TRUE)
  <1>1. /\ Typed /\ Top(Loop, "loop") /\ Running /\ Loop \in Threads
        /\ UNCHANGED <<machine, sm, ord, canceling, world>>
    BY ThreadNames DEF Begun, FireOnPrice
  <1>2. /\ move \in Frames /\ move.op = "move" /\ move.from = machine /\ move.price
        /\ move.op \notin TimerOps
    BY <1>1, NewFrames DEF Move, Typed, TimerOps
  <1>3. ContinueIfEnded' = ContinueIfEnded /\ Usual' = Usual /\ Amount' = Amount /\ setup' = setup
    BY <1>1, SameSetup
  <1>4. CASE machine = "WaitForEntry"
    <2>1. /\ model' = CheckWaitEntry(price).model
          /\ todo' = IF CheckWaitEntry(price).pass THEN [todo EXCEPT ![Loop] = <<move>> \o @]
                                                   ELSE todo
      BY <1>4 DEF FireOnPrice
    <2>2. /\ model' = model
          /\ \/ todo' = todo
             \/ "WaitForEntry" \notin sm.waiting /\ todo' = [todo EXCEPT ![Loop] = <<move>> \o @]
      BY <2>1 DEF CheckWaitEntry, Pass, Fail
    <2>3. CASE todo' = todo
      <3>1. Minor
        BY <1>1, <2>2, Unchanged DEF Minor
      <3> QED
        BY <2>3, <3>1, NobodyMoves
    <2>4. CASE "WaitForEntry" \notin sm.waiting /\ todo' = [todo EXCEPT ![Loop] = <<move>> \o @]
      <3>1. ~First
        BY <1>1, <2>4 DEF Begun, Asked, Running
      <3>2. ContinueIfEnded
        BY <1>1, <3>1 DEF Typed, First
      <3>3. Ends'
        BY <1>1, <1>3, <1>4, <3>2 DEF Ends, Usual
      <3>4. Major
        BY <1>1, <1>4, <2>2, <3>1, <3>3 DEF Major, Typed, MachineStates, Begun, Timerless
      <3>5. Allowed(Loop, move)
        BY <1>2, <1>4, <3>1, <3>2 DEF Allowed, TimerWork, EntryWork, UntoldWork, ContinuedWork,
                                      UsualWork, Usual
      <3>6. MajorWork(Loop, {move})
        BY <1>1, <1>2, <2>4, <3>5, LoopMoves DEF MajorWork
      <3> QED
        BY <1>1, <3>4, <3>6, MajorKeeps
    <2> QED
      BY <2>2, <2>3, <2>4
  <1>5. CASE machine # "WaitForEntry"
    <2>1. PICK c : c = CheckLossThenProfit(price)
      OBVIOUS
    <2>2. model' = c.model /\ todo' = IF c.pass THEN [todo EXCEPT ![Loop] = <<move>> \o @] ELSE todo
      BY <1>5, <2>1 DEF FireOnPrice
    <2>3. /\ c.pass \in BOOLEAN
          /\ model' \in ModelType
          /\ model'.executed = model.executed /\ model'.position = model.position
          /\ model'.iteration = model.iteration /\ model'.orders = model.orders
          /\ model'.enabled = model.enabled /\ model'.entered = model.entered
          /\ model'.reached <= Len(Targets)
          /\ model'.state \in {model.state, "Stoploss", "InEntry", "TakeProfit",
                               "EnterNextTarget"}
          /\ model.executed < Amount /\ model.state # "End" /\ machine # "End" =>
                \/ ~c.pass /\ model'.state = model.state
                \/ price # -1 /\ model.state = "Stoploss"
                \/ c.pass /\ price = -1 /\ model.state = "InEntry" /\ model'.state = "Stoploss"
                \/ /\ c.pass /\ price >= 1
                   /\ model'.state = IF machine = "TakeProfit" THEN "EnterNextTarget"
                                                               ELSE "TakeProfit"
      BY <1>1, <2>1, <2>2, PriceFacts
    <2>4. machine \in HandlesPrices /\ machine # "End" /\ machine # "Timeout" /\ model.state # "End"
      BY <1>1, <1>5 DEF Running, Typed, MachineStates, HandlesPrices
    <2>5. ~(First /\ Untold)
      BY <1>5, <2>4 DEF Begun, Untouched
    <2>6. Allowed(Loop, move)
      BY <1>2, <1>5, <2>4, <2>5 DEF Allowed, TimerWork, EntryWork, UntoldWork, ContinuedWork, UsualWork
    <2>7. \E new : MajorWork(Loop, new)
      <3>1. CASE c.pass
        <4>1. MajorWork(Loop, {move})
          BY <1>1, <1>2, <2>2, <2>6, <3>1, LoopMoves DEF MajorWork
        <4> QED
          BY <4>1
      <3>2. CASE ~c.pass
        <4>1. MajorWork(Loop, Doing(Loop))
          BY <1>1, <2>2, <3>2, LoopWaits DEF MajorWork, Begun, Work
        <4> QED
          BY <4>1
      <3> QED
        BY <3>1, <3>2
    <2>8. ~c.pass => ~Selling'
      BY <1>1, <2>2, LoopWaits
    <2>9. ASSUME Usual, model.executed < Amount
          PROVE  Selected'
      <3>1. Selected /\ ~Selling
        BY <1>1, <2>9, LoopWaits DEF Begun, Ends
      <3>2. -1 \in setup.prices => setup.prices = {-1}
        BY <2>9 DEF Usual, Steady
      <3>3. price # -1 => model.state # "Stoploss"
        BY <3>1 DEF Selected
      <3>4. price >= 1 => price # -1
        BY SetupFacts DEF Typed
      <3>5. \/ ~c.pass /\ model'.state = model.state
            \/ c.pass /\ price = -1 /\ model.state = "InEntry" /\ model'.state = "Stoploss"
            \/ /\ c.pass /\ price # -1
               /\ model'.state = IF machine = "TakeProfit" THEN "EnterNextTarget" ELSE "TakeProfit"
        BY <2>3, <2>4, <2>9, <3>3, <3>4
      <3>6. machine' = machine /\ setup' = setup
        BY <1>1, <1>3
      <3>7. CASE ~c.pass /\ model'.state = model.state
        BY <2>8, <3>1, <3>6, <3>7 DEF Selected
      <3>8. CASE c.pass /\ price = -1 /\ model.state = "InEntry" /\ model'.state = "Stoploss"
        BY <3>1, <3>2, <3>6, <3>8 DEF Selected
      <3>9. CASE /\ c.pass /\ price # -1
                 /\ model'.state = IF machine = "TakeProfit" THEN "EnterNextTarget"
                                                             ELSE "TakeProfit"
        BY <3>1, <3>2, <3>6, <3>9 DEF Selected
      <3> QED
        BY <3>5, <3>7, <3>8, <3>9
    <2>10. Ends'
      BY <1>1, <1>3, <1>5, <2>3, <2>4, <2>9 DEF Ends
    <2>11. Major
      BY <1>1, <1>5, <2>3, <2>4, <2>5, <2>10 DEF Major, Typed, MachineStates, Begun, Timerless
    <2> QED
      BY <1>1, <2>7, <2>11, MajorKeeps
  <1> QED
    BY <1>4, <1>5

\* enterStopLoss fires the loss check once more.
LEMMA CheckLossAgainKeeps ==
    ASSUME Begun, NEW t \in Threads, CheckLossAgain(t)
    PROVE  Begun'
  <1> DEFINE move == Move(machine, TRUE)
  <1>1. Typed /\ todo[t] # <<>> /\ Allowed(t, Head(todo[t])) /\ Head(todo[t]).op = "checkLossAgain"
    BY TopFacts DEF CheckLossAgain, Top
  <1>2. /\ ~(First /\ Untold)
        /\ Usual => t = Loop /\ (model.executed >= Amount \/ setup.prices = {-1})
    BY <1>1 DEF Allowed, UntoldWork, UsualWork
  <1>3. PICK c : c = IF machine \in HandlesPrices THEN CheckLoss(-1) ELSE Fail(model)
    OBVIOUS
  <1>4. /\ model' = c.model /\ todo' = Then(t, IF c.pass THEN <<move>> ELSE <<>>)
        /\ sm' = [sm EXCEPT !.lock = FALSE] /\ UNCHANGED <<machine, ord, canceling, world>>
    BY <1>3 DEF CheckLossAgain
  <1>5. KeptBy(model)
    BY <1>1 DEF KeptBy, Typed
  <1>6. /\ c.pass \in BOOLEAN /\ KeptBy(c.model) /\ (c.pass => machine \in HandlesPrices)
        /\ model.executed < Amount /\ model.state # "End" /\ machine # "End" =>
              \/ ~c.pass /\ c.model.state = model.state
              \/ c.pass /\ model.state = "InEntry" /\ c.model.state = "Stoploss"
    <2>1. PICK l : l = CheckLoss(-1)
      OBVIOUS
    <2>2. /\ l.pass \in BOOLEAN /\ KeptBy(l.model)
          /\ model.executed < Amount /\ model.state # "End" /\ machine # "End" =>
                \/ ~l.pass /\ l.model.state = model.state
                \/ l.pass /\ model.state = "InEntry" /\ l.model.state = "Stoploss"
      BY <1>1, <2>1, CheckLossFacts
    <2> QED
      BY <1>3, <1>5, <2>1, <2>2 DEF Fail
  <1>7. /\ model' \in ModelType
        /\ model'.executed = model.executed /\ model'.position = model.position
        /\ model'.iteration = model.iteration /\ model'.orders = model.orders
        /\ model'.enabled = model.enabled /\ model'.entered = model.entered
        /\ model'.reached = model.reached
        /\ model'.state \in {model.state, "Stoploss", "InEntry"}
    BY <1>4, <1>6 DEF KeptBy
  <1>8. sm' \in FlagsType /\ sm'.waiting = sm.waiting
    BY <1>1, <1>4 DEF Typed, FlagsType
  <1>9. /\ move \in Frames /\ move.op = "move" /\ move.from = machine /\ move.price
        /\ move.op \notin TimerOps
    BY <1>1, NewFrames DEF Move, Typed, TimerOps
  <1>10. machine \in HandlesPrices => Allowed(t, move)
    BY <1>2, <1>9 DEF Allowed, TimerWork, EntryWork, UntoldWork, ContinuedWork, UsualWork,
                      HandlesPrices
  <1> HIDE DEF move
  <1>11. /\ \E new : MajorWork(t, new)
         /\ ~c.pass => MajorWork(t, {})
    <2>1. CASE c.pass
      <3>1. <<move>> \in Stacks /\ Within(<<move>>) = {move}
        BY <1>9, ShortStacks
      <3>2. todo' = Then(t, <<move>>)
        BY <1>4, <2>1
      <3>3. Goes(t, Within(<<move>>), {})
        BY <1>1, <3>1, <3>2, ThenGoes DEF Typed
      <3>4. MajorWork(t, Within(<<move>>))
        BY <1>6, <1>10, <2>1, <3>1, <3>3 DEF MajorWork
      <3> QED
        BY <2>1, <3>4
    <2>2. CASE ~c.pass
      <3>1. MajorWork(t, {})
        BY <1>1, <1>4, <2>2, Finished DEF MinorWork, MajorWork
      <3> QED
        BY <3>1
    <2> QED
      BY <1>6, <2>1, <2>2
  <1>12. ContinueIfEnded' = ContinueIfEnded /\ Usual' = Usual /\ Amount' = Amount /\ setup' = setup
    BY <1>4, SameSetup
  <1>13. Amount \in Int /\ model.executed \in Int
    BY <1>1, TakenFacts DEF Typed, ModelType
  <1>14. ASSUME Usual, model.executed < Amount
         PROVE  Selected'
    <2>1. t = Loop /\ setup.prices = {-1}
      BY <1>2, <1>13, <1>14
    <2>2. Selected /\ machine # "End" /\ model.state # "End"
      BY <1>13, <1>14 DEF Begun, Ends
    <2>3. ~c.pass => ~Selling'
      BY <1>11, <2>1, NothingSells DEF MajorWork
    <2>4. \/ ~c.pass /\ model'.state = model.state
          \/ c.pass /\ model.state = "InEntry" /\ model'.state = "Stoploss"
      BY <1>4, <1>6, <1>14, <2>2
    <2> QED
      BY <1>4, <1>12, <2>1, <2>2, <2>3, <2>4 DEF Selected
  <1>15. Usual => (model'.state = "End" => model.state = "End")
    BY <1>7
  <1>16. machine = "WaitForEntry" => model' = model
    BY <1>3, <1>4 DEF HandlesPrices, Fail
  <1>17. Ends'
    BY <1>4, <1>7, <1>12, <1>14, <1>15, <1>16 DEF Begun, Ends
  <1>18. Major
    BY <1>1, <1>2, <1>4, <1>7, <1>8, <1>17 DEF Major, Typed, MachineStates, Begun, Timerless
  <1> QED
    BY <1>11, <1>18, MajorKeeps

-----------------------------------------------------------------------------
(* Orders are taken, fill and are told *)

\* The exchange takes an order: no second entry among the first iteration's.
LEMMA AcceptOrderKeeps ==
    ASSUME Begun, NEW t \in Threads, AcceptOrder(t)
    PROVE  Begun'
  <1> DEFINE answer == [op |-> "answer", order |-> Len(ord) + 1]
  <1>1. Typed /\ todo[t] # <<>> /\ Sending(t)
    BY RequestFacts DEF Begun, AcceptOrder
  <1>2. PICK step, qty : step = Request(t).step /\ qty = Request(t).qty
    OBVIOUS
  <1>3. /\ step \in Steps /\ qty \in Int
        /\ step = Head(todo[t]).step
        /\ step = "WaitForEntry" =>
              /\ qty = Amount
              /\ First => t = Loop /\ \A k \in DOMAIN ord : ~IsEntry(k)
        /\ First /\ Untold =>
              /\ step \in {"WaitForEntry", "Canceled"}
              /\ machine = "WaitForEntry" => step = "WaitForEntry"
    BY <1>1, <1>2, RequestFacts
  <1>4. PICK o : o = [step |-> step, qty |-> qty, got |-> 0, status |-> "open",
                      known |-> FALSE, told |-> FALSE]
    OBVIOUS
  <1>5. /\ qty > 0 /\ Len(ord) < setup.orders
        /\ ord' = Append(ord, o) /\ todo' = Then(t, <<answer>>) /\ sm' = Requested(step)
        /\ UNCHANGED <<machine, model, canceling, world>>
    BY <1>2, <1>4 DEF AcceptOrder
  <1>6. o \in OrderType /\ o.status = "open" /\ ~o.told /\ ~o.known /\ o.step = step /\ o.qty = qty
    BY <1>3, <1>4, <1>5 DEF OrderType
  <1>7. PICK n : n = Len(ord)
    OBVIOUS
  <1>8. /\ n \in Nat /\ DOMAIN ord = 1 .. n /\ ord' \in Seq(OrderType)
        /\ Len(ord') = n + 1 /\ DOMAIN ord' = 1 .. n + 1
        /\ ord'[n + 1] = o /\ \A k \in 1 .. n : ord'[k] = ord[k]
    BY <1>1, <1>5, <1>6, <1>7 DEF Typed
  <1>9. /\ setup' = setup /\ Targets' = Targets /\ Futures' = Futures
        /\ ContinueIfEnded' = ContinueIfEnded /\ Usual' = Usual /\ FlagsType' = FlagsType
        /\ Amount' = Amount
    BY <1>5, SameSetup
  <1>10. /\ First' <=> First
         /\ \A k \in 1 .. n : IsEntry(k)' <=> IsEntry(k)
         /\ IsEntry(n + 1)' <=> step = "WaitForEntry"
         /\ \A k \in 1 .. n + 1 : k \in 1 .. n \/ k = n + 1
         /\ n + 1 \in 1 .. n + 1 /\ \A k \in 1 .. n : k \in 1 .. n + 1
    BY <1>5, <1>6, <1>8 DEF First, IsEntry
  <1>11. Untold' <=> Untold
    BY <1>6, <1>8, <1>10 DEF Untold
  <1>12. Bought' <=> Bought
    BY <1>6, <1>8, <1>10 DEF Bought
  <1>13. answer \in Frames /\ answer.op = "answer" /\ answer.order = n + 1
    <2>1. setup.orders \in Nat /\ 1 .. setup.orders \subseteq OrderIds
      BY <1>1, SetupFacts DEF Typed
    <2>2. n + 1 \in 1 .. setup.orders
      BY <1>5, <1>7, <1>8, <2>1
    <2>3. n + 1 \in OrderIds
      BY <2>1, <2>2
    <2> QED
      BY <1>7, <2>3, NewFrames
  <1> HIDE DEF answer
  <1>14. Goes(t, {answer}, {})
    <2>1. <<answer>> \in Stacks /\ Within(<<answer>>) = {answer}
      BY <1>13, ShortStacks
    <2>2. Goes(t, Within(<<answer>>), {})
      BY <1>1, <1>5, <2>1, ThenGoes DEF Typed
    <2> QED
      BY <2>1, <2>2 DEF Goes
  <1>15. sm' \in FlagsType /\ sm.waiting \subseteq sm'.waiting
    BY <1>1, <1>3, <1>5 DEF Requested, Typed, FlagsType
  <1>16. Typed'
    <2>1. \A k \in DOMAIN ord' : ord'[k].told => ord'[k].known /\ ord'[k].status = "filled"
      BY <1>1, <1>6, <1>8, <1>10 DEF Typed
    <2>2. Len(ord') <= setup.orders
      BY <1>1, <1>5, <1>7, <1>8, SetupFacts DEF Typed
    <2>3. todo' \in [Threads -> Stacks]
      BY <1>14 DEF Goes
    <2>4. /\ \A i \in DOMAIN model.orders : model.orders[i] \in DOMAIN ord'
          /\ canceling \subseteq DOMAIN ord'
      BY <1>1, <1>8, <1>10 DEF Typed
    <2> QED
      BY <1>1, <1>5, <1>8, <1>9, <1>15, <2>1, <2>2, <2>3, <2>4 DEF Typed
  <1>17. Work'
    <2>1. ASSUME NEW x \in Threads, NEW f \in Doing(x)'
          PROVE  Allowed(x, f)'
      <3>1. f = answer \/ Allowed(x, f)
        BY <1>14, <2>1 DEF Goes, Begun, Work
      <3>2. f.op = "answer" => f.order \in DOMAIN ord'
        BY <1>8, <1>10, <1>13, <3>1 DEF Allowed
      <3>3. TimerWork(f)'
        BY <1>9, <1>13, <3>1 DEF Allowed, TimerWork, TimerOps
      <3>4. EntryWork(x, f)'
        <4>1. SUFFICES ASSUME First, f.op = "place", f.step = "WaitForEntry"
                       PROVE  x = Loop /\ \A k \in DOMAIN ord' : ~IsEntry(k)'
          BY <1>10 DEF EntryWork
        <4>2. x = Loop /\ \A k \in DOMAIN ord : ~IsEntry(k)
          BY <1>13, <3>1, <4>1 DEF Allowed, EntryWork
        <4>3. x # t
          BY <1>13, <1>14, <2>1, <4>1, NewFrames, FrameFacts DEF Goes, Exits
        <4>4. step # "WaitForEntry"
          BY <1>3, <4>1, <4>2, <4>3
        <4> QED
          BY <1>8, <1>10, <4>2, <4>4
      <3>5. UntoldWork(f)'
        BY <1>5, <1>10, <1>11, <1>13, <3>1 DEF Allowed, UntoldWork
      <3>6. ContinuedWork(f)' /\ UsualWork(x, f)'
        BY <1>5, <1>9, <1>13, <3>1 DEF Allowed, ContinuedWork, UsualWork
      <3> QED
        BY <3>2, <3>3, <3>4, <3>5, <3>6 DEF Allowed
    <2> QED
      BY <2>1 DEF Work
  <1>18. Timerless'
    BY <1>5, <1>9 DEF Begun, Timerless
  <1>19. Entries'
    <2>1. /\ \A k \in 1 .. n : IsEntry(k) =>
                /\ ord[k].qty = Amount
                /\ ord[k].status = "filled" => ord[k].got = Amount
          /\ First => \A j, k \in 1 .. n : IsEntry(j) /\ IsEntry(k) => j = k
          /\ First => \A k \in 1 .. n : IsEntry(k) /\ ord[k].known => model.orders # <<>>
      BY <1>8 DEF Begun, Entries
    <2>2. \A k \in 1 .. n + 1 : IsEntry(k)' =>
             /\ ord'[k].qty = Amount
             /\ ord'[k].status = "filled" => ord'[k].got = Amount
      BY <1>3, <1>6, <1>8, <1>10, <2>1
    <2>3. First => \A j, k \in 1 .. n + 1 : IsEntry(j)' /\ IsEntry(k)' => j = k
      BY <1>3, <1>8, <1>10, <2>1
    <2>4. First => \A k \in 1 .. n + 1 : IsEntry(k)' /\ ord'[k].known => model.orders # <<>>
      BY <1>6, <1>8, <1>10, <2>1
    <2> QED
      BY <1>5, <1>8, <1>9, <1>10, <2>2, <2>3, <2>4 DEF Entries
  <1>20. Asked'
    BY <1>5, <1>10, <1>15 DEF Begun, Asked
  <1>21. Untouched'
    <2>1. First /\ Untold =>
             /\ \A k \in 1 .. n + 1 : ord'[k].step \in {"WaitForEntry", "Canceled"}
             /\ machine = "WaitForEntry" => \A k \in 1 .. n + 1 : IsEntry(k)'
      BY <1>3, <1>6, <1>8, <1>10 DEF Begun, Untouched
    <2> QED
      BY <1>5, <1>8, <1>10, <1>11, <2>1 DEF Begun, Untouched
  <1>22. Holdings'
    BY <1>5, <1>9, <1>10, <1>12 DEF Begun, Holdings
  <1>23. Books'
    <2>1. ASSUME First, ~setup.entryTimeout
          PROVE  \E g : Sums(g)' /\ Booking(g)'
      <3>1. PICK h : Sums(h) /\ Booking(h)
        BY <2>1 DEF Begun, Books
      <3>2. PICK g : Sums(g)' /\ g[Len(ord')] = h[Len(ord)]
        BY <1>1, <1>5, <1>6, <3>1, SumsAppend
      <3>3. Booking(g)'
        BY <1>5, <1>9, <1>12, <3>1, <3>2 DEF Booking
      <3> QED
        BY <3>2, <3>3
    <2> QED
      BY <1>5, <1>9, <1>10, <1>11, <2>1 DEF Begun, Books
  <1>24. Ends'
    <2>1. Selling' => Selling
      <3>1. \A f \in Doing(Loop)' : f.op = "move" => f \in Doing(Loop)
        BY <1>13, <1>14, ThreadNames DEF Goes
      <3> QED
        BY <3>1 DEF Selling
    <2>2. Selected => Selected'
      BY <1>5, <1>9, <2>1 DEF Selected
    <2> QED
      BY <1>5, <1>9, <2>2 DEF Begun, Ends
  <1> QED
    BY <1>16, <1>17, <1>18, <1>19, <1>20, <1>21, <1>22, <1>23, <1>24 DEF Begun

\* An order fills: an entry is the first one, an exit on futures never sells too much.
LEMMA FillKeeps ==
    ASSUME Begun, NEW k \in DOMAIN ord, Fill(k)
    PROVE  Begun'
  <1>1. /\ Typed /\ ord[k] \in OrderType /\ ord[k].status = "open" /\ ~ord[k].told
        /\ ord[k].qty \in Nat /\ ord[k].step \in Steps /\ world.pos \in Int
        /\ Amount \in Nat /\ model.executed \in Int
    <2>1. Typed /\ ord[k].status = "open"
      BY DEF Begun, Fill
    <2>2. ord[k] \in OrderType /\ ~ord[k].told
      BY <2>1 DEF Typed
    <2> QED
      BY <2>1, <2>2, TakenFacts DEF Typed, OrderType, WorldType, ModelType
  <1>2. PICK got : got = CASE ord[k].step = "WaitForEntry" -> ord[k].qty
                           [] ord[k].step # "WaitForEntry" /\ ~Futures -> ord[k].qty
                           [] OTHER -> Smaller(ord[k].qty, world.pos)
    OBVIOUS
  <1>3. PICK o : o = [[ord[k] EXCEPT !.status = IF got = 0 THEN "canceled" ELSE "filled"]
                         EXCEPT !.got = got]
    OBVIOUS
  <1>4. /\ ord' = [ord EXCEPT ![k] = o]
        /\ world' = [world EXCEPT !.pos = IF ord[k].step = "WaitForEntry" THEN @ + got
                                                                       ELSE @ - got]
        /\ canceling' = canceling \ {k}
        /\ UNCHANGED <<machine, model, sm, todo>>
    <2>1. /\ ord' = [ord EXCEPT ![k].status = IF got = 0 THEN "canceled" ELSE "filled",
                                ![k].got = got]
          /\ world' = [world EXCEPT !.pos = IF ord[k].step = "WaitForEntry" THEN @ + got
                                                                         ELSE @ - got]
          /\ canceling' = canceling \ {k}
          /\ UNCHANGED <<machine, model, sm, todo>>
      BY <1>2 DEF Fill
    <2>2. ord' = [ord EXCEPT ![k] = o]
      BY <1>3, <2>1
    <2> QED
      BY <2>1, <2>2
  <1>5. /\ got \in Nat
        /\ ord[k].step = "WaitForEntry" => got = ord[k].qty
        /\ Futures /\ ord[k].step # "WaitForEntry" => got <= world.pos
    <2>1. Futures => world.pos >= 0
      BY <1>1 DEF Typed
    <2> QED
      BY <1>1, <1>2, <2>1 DEF Smaller
  <1>6. /\ o \in OrderType /\ o.step = ord[k].step /\ o.qty = ord[k].qty /\ o.got = got
        /\ o.told = ord[k].told /\ o.known = ord[k].known
        /\ o.status = IF got = 0 THEN "canceled" ELSE "filled"
    BY <1>1, <1>3, <1>5 DEF OrderType
  <1>7. /\ ord' \in Seq(OrderType) /\ Len(ord') = Len(ord) /\ DOMAIN ord' = DOMAIN ord
        /\ ord'[k] = o /\ \A j \in DOMAIN ord : j # k => ord'[j] = ord[j]
    BY <1>1, <1>4, <1>6, OneOrder
  <1>8. /\ world' \in WorldType /\ world'.setup = world.setup /\ world'.enabled = world.enabled
        /\ world'.pos = IF ord[k].step = "WaitForEntry" THEN world.pos + got ELSE world.pos - got
    <2>1. PICK p : p = IF ord[k].step = "WaitForEntry" THEN world.pos + got ELSE world.pos - got
      OBVIOUS
    <2>2. world' = [world EXCEPT !.pos = p]
      BY <1>4, <2>1
    <2>3. p \in Int
      BY <1>1, <1>5, <2>1
    <2>4. world \in WorldType
      BY <1>1 DEF Typed
    <2> QED
      BY <2>1, <2>2, <2>3, <2>4 DEF WorldType
  <1>9. /\ setup' = setup /\ Targets' = Targets /\ Futures' = Futures
        /\ ContinueIfEnded' = ContinueIfEnded /\ Usual' = Usual /\ FlagsType' = FlagsType
        /\ Amount' = Amount
    BY <1>8, SameSetup
  <1>10. /\ First' <=> First
         /\ \A j \in DOMAIN ord : IsEntry(j)' <=> IsEntry(j)
         /\ \A j \in DOMAIN ord : ord'[j].step = ord[j].step /\ ord'[j].told = ord[j].told
                                  /\ ord'[j].known = ord[j].known /\ ord'[j].qty = ord[j].qty
    BY <1>4, <1>6, <1>7 DEF First, IsEntry
  <1>11. Untold' <=> Untold
    BY <1>7, <1>10 DEF Untold
  <1>12. Typed'
    <2>1. Futures => world'.pos >= 0
      BY <1>1, <1>5, <1>8 DEF Typed
    <2>2. \A j \in DOMAIN ord : ord'[j].told => ord'[j].known /\ ord'[j].status = "filled"
      BY <1>1, <1>6, <1>7 DEF Typed
    <2> QED
      BY <1>1, <1>4, <1>7, <1>8, <1>9, <2>1, <2>2 DEF Typed
  <1>13. Work'
    <2>1. \A x \in Threads : Doing(x)' = Doing(x)
      BY <1>4 DEF Doing
    <2>2. ASSUME NEW x \in Threads, NEW f, Allowed(x, f)
          PROVE  Allowed(x, f)'
      <3>1. TimerWork(f)' /\ EntryWork(x, f)'
        BY <1>7, <1>9, <1>10, <2>2 DEF Allowed, TimerWork, EntryWork
      <3>2. UntoldWork(f)' /\ ContinuedWork(f)' /\ UsualWork(x, f)'
        BY <1>4, <1>9, <1>10, <1>11, <2>2 DEF Allowed, UntoldWork, ContinuedWork, UsualWork
      <3> QED
        BY <1>7, <2>2, <3>1, <3>2 DEF Allowed
    <2> QED
      BY <2>1, <2>2 DEF Begun, Work
  <1>14. Timerless'
    BY <1>4, <1>9 DEF Begun, Timerless
  <1>15. Entries'
    BY <1>4, <1>5, <1>6, <1>7, <1>9, <1>10 DEF Begun, Entries, IsEntry
  <1>16. Asked'
    BY <1>4, <1>8, <1>10 DEF Begun, Asked
  <1>17. Untouched'
    BY <1>4, <1>7, <1>10, <1>11 DEF Begun, Untouched
  <1>18. ASSUME IsEntry(k)
         PROVE  Holdings' /\ Books'
    <2>1. got = Amount /\ world'.pos = world.pos + Amount
      BY <1>5, <1>8, <1>18 DEF Begun, Entries, IsEntry
    <2>2. First => ~Bought
      BY <1>1, <1>18 DEF Begun, Entries, Bought
    <2>3. Bought' => Bought \/ Amount # 0
      BY <1>6, <1>7, <1>10, <2>1 DEF Bought
    <2>4. Amount # 0 => Bought'
      BY <1>6, <1>7, <1>10, <1>18, <2>1 DEF Bought
    <2>5. Holdings'
      BY <1>1, <1>9, <1>10, <2>1, <2>2, <2>4 DEF Begun, Holdings
    <2>6. Books'
      <3>1. ASSUME First, ~setup.entryTimeout
            PROVE  \E g : Sums(g)' /\ Booking(g)'
        <4>1. PICK h : Sums(h) /\ Booking(h)
          BY <3>1 DEF Begun, Books
        <4>2. Unheard(o) = 0 /\ Unheard(ord[k]) = 0 /\ h[Len(ord)] \in Int
          BY <1>1, <1>6, <1>18, <4>1, SumsArePositive DEF Unheard, IsEntry
        <4>3. PICK g : Sums(g)' /\ g[Len(ord')] = h[Len(ord)] + Unheard(o) - Unheard(ord[k])
          BY <1>1, <1>4, <1>6, <4>1, Resum
        <4>4. g[Len(ord')] = h[Len(ord)]
          BY <4>2, <4>3
        <4>5. world.pos = 0 - model.executed - h[Len(ord)]
          BY <2>2, <3>1, <4>1 DEF Booking
        <4>6. world'.pos = (IF Bought' THEN Amount ELSE 0) - model.executed - h[Len(ord)]
          BY <1>1, <2>1, <2>2, <2>3, <2>4, <3>1, <4>2, <4>5
        <4>7. Booking(g)'
          BY <1>4, <1>9, <4>4, <4>6 DEF Booking
        <4> QED
          BY <4>3, <4>7
      <3> QED
        BY <1>4, <1>9, <1>10, <1>11, <3>1 DEF Begun, Books
    <2> QED
      BY <2>5, <2>6
  <1>19. ASSUME ~IsEntry(k)
         PROVE  Holdings' /\ Books'
    <2>1. world'.pos = world.pos - got
      BY <1>8, <1>19 DEF IsEntry
    <2>2. Bought' <=> Bought
      BY <1>7, <1>10, <1>19 DEF Bought
    <2>3. Holdings'
      BY <1>1, <1>5, <1>9, <1>10, <2>1, <2>2 DEF Begun, Holdings
    <2>4. Books'
      <3>1. ASSUME First, ~setup.entryTimeout
            PROVE  \E g : Sums(g)' /\ Booking(g)'
        <4>1. PICK h : Sums(h) /\ Booking(h)
          BY <3>1 DEF Begun, Books
        <4>2. Unheard(o) = got /\ Unheard(ord[k]) = 0 /\ h[Len(ord)] \in Int
          BY <1>1, <1>6, <1>19, <4>1, SumsArePositive DEF Unheard, IsEntry
        <4>3. PICK g : Sums(g)' /\ g[Len(ord')] = h[Len(ord)] + Unheard(o) - Unheard(ord[k])
          BY <1>1, <1>4, <1>6, <4>1, Resum
        <4>4. g[Len(ord')] = h[Len(ord)] + got
          BY <1>5, <4>2, <4>3
        <4>5. world'.pos = (IF Bought THEN Amount ELSE 0) - model.executed - (h[Len(ord)] + got)
          BY <1>1, <1>5, <2>1, <4>1, <4>2 DEF Booking
        <4>6. Booking(g)'
          BY <1>4, <1>9, <2>2, <4>4, <4>5 DEF Booking
        <4> QED
          BY <4>3, <4>6
      <3> QED
        BY <1>4, <1>9, <1>10, <1>11, <3>1 DEF Begun, Books
    <2> QED
      BY <2>3, <2>4
  <1>20. Ends'
    <2>1. Selling' <=> Selling
      BY <1>4 DEF Selling, Doing
    <2>2. Selected => Selected'
      BY <1>4, <1>9, <2>1 DEF Selected
    <2> QED
      BY <1>4, <1>9, <2>2 DEF Begun, Ends
  <1> QED
    BY <1>12, <1>13, <1>14, <1>15, <1>16, <1>17, <1>18, <1>19, <1>20 DEF Begun

\* What booking a fill makes of the model.
LEMMA BookedFacts ==
    ASSUME Typed, NEW o \in OrderType
    PROVE  LET c == Booked(o)
               got == IF o.step = "WaitForEntry" THEN 0 ELSE o.got
           IN /\ c.pass \in BOOLEAN /\ c.model \in ModelType
              /\ c.model.amount = model.amount /\ c.model.reached = model.reached
              /\ c.model.iteration = model.iteration /\ c.model.orders = model.orders
              /\ c.model.enabled = model.enabled
              /\ c.model.executed = model.executed + got
              /\ o.step # "WaitForEntry" =>
                    /\ c.model.entered = model.entered
                    /\ c.model.position = model.position - got
                    /\ c.pass => c.model.executed >= Amount
                    /\ \/ c.model.state = model.state
                       \/ c.model.state = "End" /\ c.model.executed >= Amount
              /\ o.step = "WaitForEntry" /\ model.entered => c.model = model /\ ~c.pass
              /\ o.step = "WaitForEntry" /\ ~model.entered =>
                    /\ c.pass /\ c.model.entered /\ c.model.state = "InEntry"
                    /\ c.model.position = model.position + o.got
  <1> DEFINE sold == [model EXCEPT !.executed = @ + o.got, !.position = @ - o.got]
             over == [sold EXCEPT !.state = "End"]
             entry == [model EXCEPT !.entered = TRUE, !.state = "InEntry", !.position = @ + o.got]
             done == sold.executed >= Amount
  <1>1. /\ o.got \in Nat /\ o.step \in Steps /\ Amount \in Nat
        /\ model \in ModelType /\ model.executed \in Int /\ model.position \in Int
    BY TakenFacts DEF OrderType, Typed, ModelType
  <1>2. PICK x, y, z : x = model.executed + o.got /\ y = model.position - o.got
                       /\ z = model.position + o.got
    OBVIOUS
  <1>3. x \in Int /\ y \in Int /\ z \in Int
    BY <1>1, <1>2
  <1>4. sold = [model EXCEPT !.executed = x, !.position = y]
    BY <1>2
  <1>5. entry = [model EXCEPT !.entered = TRUE, !.state = "InEntry", !.position = z]
    BY <1>2
  <1>6. "End" \in ModelStates /\ "InEntry" \in ModelStates
    BY DEF ModelStates, MachineStates
  <1> DEFINE Same(m) ==
                /\ m \in ModelType
                /\ m.amount = model.amount /\ m.reached = model.reached
                /\ m.iteration = model.iteration /\ m.orders = model.orders
                /\ m.enabled = model.enabled
  <1>7. /\ Same(sold) /\ sold.executed = x /\ sold.position = y
        /\ sold.entered = model.entered /\ sold.state = model.state
    <2> HIDE DEF sold
    <2> QED
      BY <1>1, <1>3, <1>4 DEF ModelType
  <1>8. /\ Same(over) /\ over.executed = x /\ over.position = y
        /\ over.entered = model.entered /\ over.state = "End"
    <2>1. PICK s \in ModelStates : s = "End"
      BY <1>6
    <2>2. over = [[model EXCEPT !.executed = x, !.position = y] EXCEPT !.state = s]
      BY <1>4, <2>1
    <2> HIDE DEF over
    <2> QED
      BY <1>1, <1>3, <2>1, <2>2 DEF ModelType
  <1>9. /\ Same(entry) /\ entry.executed = model.executed /\ entry.position = z
        /\ entry.entered /\ entry.state = "InEntry"
    <2>1. PICK s \in ModelStates : s = "InEntry"
      BY <1>6
    <2>2. entry = [model EXCEPT !.entered = TRUE, !.state = s, !.position = z]
      BY <1>5, <2>1
    <2> HIDE DEF entry
    <2> QED
      BY <1>1, <1>3, <2>1, <2>2 DEF ModelType
  <1>10. Same(model)
    BY <1>1
  <1>11. PICK c : c = Booked(o)
    OBVIOUS
  <1>12. \/ o.step = "WaitForEntry" /\ model.entered /\ c = Fail(model)
         \/ o.step = "WaitForEntry" /\ ~model.entered /\ c = Pass(entry)
         \/ o.step # "WaitForEntry" /\ done /\ c = Pass(over)
         \/ o.step # "WaitForEntry" /\ done /\ c = Pass(sold)
         \/ o.step # "WaitForEntry" /\ c = Fail(sold)
    <2> HIDE DEF sold, over, entry, done
    <2>1. c = CASE o.step = "WaitForEntry" /\ model.entered -> Fail(model)
                [] o.step = "WaitForEntry" /\ ~model.entered -> Pass(entry)
                [] o.step \in {"TakeProfit", "Canceled"} /\ done -> Pass(over)
                [] o.step \in {"Stoploss", "ForcedLoss"} /\ done -> Pass(sold)
                [] OTHER -> Fail(sold)
      BY <1>11, Zenon DEF sold, over, entry, done, Booked
    <2> QED
      BY <2>1
  <1>13. /\ Fail(model).pass = FALSE /\ Fail(model).model = model
         /\ Pass(entry).pass = TRUE /\ Pass(entry).model = entry
         /\ Pass(over).pass = TRUE /\ Pass(over).model = over
         /\ Pass(sold).pass = TRUE /\ Pass(sold).model = sold
         /\ Fail(sold).pass = FALSE /\ Fail(sold).model = sold
    <2> HIDE DEF sold, over, entry
    <2> QED
      BY DEF Fail, Pass
  <1>14. done <=> x >= Amount
    BY <1>7
  <1>15. model.executed + 0 = model.executed
    BY <1>1
  <1> DEFINE got == IF o.step = "WaitForEntry" THEN 0 ELSE o.got
  <1>16. /\ o.step = "WaitForEntry" => model.executed + got = model.executed
         /\ o.step # "WaitForEntry" => model.executed + got = x /\ model.position - got = y
    BY <1>2, <1>15
  <1> HIDE DEF sold, over, entry, done, Same
  <1>17. Same(c.model) /\ c.pass \in BOOLEAN
    <2>1. c.model \in {model, sold, over, entry} /\ c.pass \in BOOLEAN
      BY <1>12, <1>13
    <2> QED
      BY <1>7, <1>8, <1>9, <1>10, <2>1 DEF Same
  <1>18. o.step = "WaitForEntry" =>
            /\ c.model.executed = model.executed
            /\ model.entered => c.model = model /\ ~c.pass
            /\ ~model.entered => c.pass /\ c.model.entered /\ c.model.state = "InEntry"
                                 /\ c.model.position = z
    BY <1>9, <1>12, <1>13
  <1>19. o.step # "WaitForEntry" =>
            /\ c.model.executed = x /\ c.model.position = y
            /\ c.model.entered = model.entered
            /\ c.pass => x >= Amount
            /\ c.model.state = model.state \/ (c.model.state = "End" /\ x >= Amount)
    BY <1>7, <1>8, <1>12, <1>13, <1>14
  <1>20. /\ c.pass \in BOOLEAN /\ c.model \in ModelType
         /\ c.model.amount = model.amount /\ c.model.reached = model.reached
         /\ c.model.iteration = model.iteration /\ c.model.orders = model.orders
         /\ c.model.enabled = model.enabled
    BY <1>17 DEF Same
  <1> HIDE DEF got
  <1>21. c.model.executed = model.executed + got
    BY <1>16, <1>18, <1>19
  <1> QED
    BY <1>2, <1>11, <1>16, <1>18, <1>19, <1>20, <1>21 DEF got

\* A fill is told and booked.
LEMMA FireOnOrderKeeps ==
    ASSUME Begun, NEW k \in DOMAIN ord, FireOnOrder(k)
    PROVE  Begun'
  <1>0. PICK u, move : u = <<"callback", k>> /\ move = Move(machine, FALSE)
    OBVIOUS
  <1>1. /\ Typed /\ ord[k] \in OrderType
        /\ ord[k].status = "filled" /\ ord[k].known /\ ~ord[k].told
        /\ ord[k].got \in Nat /\ Amount \in Nat /\ model.executed \in Int
        /\ model.position \in Int /\ world.pos \in Int
    <2>1. Typed /\ ord[k].status = "filled" /\ ord[k].known /\ ~ord[k].told
      BY DEF Begun, FireOnOrder
    <2>2. ord[k] \in OrderType
      BY <2>1 DEF Typed
    <2> QED
      BY <2>1, <2>2, TakenFacts DEF Typed, OrderType, WorldType, ModelType
  <1>2. PICK o : o = [ord[k] EXCEPT !.told = TRUE]
    OBVIOUS
  <1>3. /\ o \in OrderType /\ o.told /\ o.known = ord[k].known /\ o.status = "filled"
        /\ o.step = ord[k].step /\ o.got = ord[k].got /\ o.qty = ord[k].qty
    BY <1>1, <1>2 DEF OrderType
  <1>4. ord' = [ord EXCEPT ![k] = o] /\ UNCHANGED <<machine, canceling, world>>
    BY <1>2 DEF FireOnOrder
  <1>5. /\ ord' \in Seq(OrderType) /\ Len(ord') = Len(ord) /\ DOMAIN ord' = DOMAIN ord
        /\ ord'[k] = o /\ \A j \in DOMAIN ord : j # k => ord'[j] = ord[j]
    BY <1>1, <1>3, <1>4, OneOrder
  <1>6. /\ setup' = setup /\ Targets' = Targets /\ Futures' = Futures
        /\ ContinueIfEnded' = ContinueIfEnded /\ Usual' = Usual /\ FlagsType' = FlagsType
        /\ Amount' = Amount
    BY <1>4, SameSetup
  <1>7. /\ \A j \in DOMAIN ord : IsEntry(j)' <=> IsEntry(j)
        /\ \A j \in DOMAIN ord : /\ ord'[j].step = ord[j].step /\ ord'[j].known = ord[j].known
                                 /\ ord'[j].qty = ord[j].qty /\ ord'[j].got = ord[j].got
                                 /\ ord'[j].status = ord[j].status
                                 /\ ord[j].told => ord'[j].told
    <2>1. \A j \in DOMAIN ord :
             /\ ord'[j].step = ord[j].step /\ ord'[j].known = ord[j].known
             /\ ord'[j].qty = ord[j].qty /\ ord'[j].got = ord[j].got
             /\ ord'[j].status = ord[j].status
             /\ ord[j].told => ord'[j].told
      BY <1>1, <1>3, <1>5
    <2>2. \A j \in DOMAIN ord : IsEntry(j)' <=> IsEntry(j)
      BY <2>1 DEF IsEntry
    <2> QED
      BY <2>1, <2>2
  <1>8. /\ Untold' => Untold /\ ~IsEntry(k)
        /\ ~IsEntry(k) /\ Untold => Untold'
        /\ Bought' <=> Bought
    <2>1. Untold' => Untold /\ ~IsEntry(k)
      BY <1>3, <1>5, <1>7 DEF Untold
    <2>2. ~IsEntry(k) /\ Untold => Untold'
      BY <1>5, <1>7 DEF Untold
    <2>3. Bought' <=> Bought
      BY <1>5, <1>7 DEF Bought
    <2> QED
      BY <2>1, <2>2, <2>3
  <1>9. u \in Threads \ {Loop, Watch}
    <2>1. Len(ord) \in Nat /\ DOMAIN ord = 1 .. Len(ord) /\ Len(ord) <= setup.orders
      BY <1>1 DEF Typed
    <2>2. k \in 1 .. setup.orders
      BY <1>1, <2>1, SetupFacts DEF Typed
    <2>3. k \in OrderIds
      BY <1>1, <2>2, SetupFacts DEF Typed
    <2> QED
      BY <1>0, <2>3, ThreadNames
  <1> DEFINE got == IF IsEntry(k) THEN 0 ELSE ord[k].got
  <1>10. PICK pass \in BOOLEAN :
            /\ todo' = IF pass THEN [todo EXCEPT ![u] = <<move>>] ELSE todo
            /\ pass => machine \in HandlesOrders
            /\ sm' \in FlagsType /\ sm.waiting \cap {"WaitForEntry"} \subseteq sm'.waiting
            /\ model' \in ModelType
            /\ model'.amount = model.amount /\ model'.reached = model.reached
            /\ model'.iteration = model.iteration /\ model'.orders = model.orders
            /\ model'.enabled = model.enabled
            /\ machine \notin HandlesOrders => model' = model
            /\ machine \in HandlesOrders =>
                  /\ model'.executed = model.executed + got
                  /\ ~IsEntry(k) =>
                        /\ model'.entered = model.entered
                        /\ model'.position = model.position - got
                        /\ pass => model'.executed >= Amount
                        /\ \/ model'.state = model.state
                           \/ model'.state = "End" /\ model'.executed >= Amount
                  /\ IsEntry(k) /\ model.entered => model' = model /\ ~pass
                  /\ IsEntry(k) /\ ~model.entered =>
                        /\ pass /\ model'.entered /\ model'.state = "InEntry"
                        /\ model'.position = model.position + ord[k].got
    <2>1. CASE machine \in HandlesOrders
      <3>1. PICK c : c = Booked(ord[k])
        OBVIOUS
      <3>2. /\ model' = c.model
            /\ sm' = IF ord[k].step \in {"TakeProfit", "Canceled"}
                     THEN [sm EXCEPT !.waiting = @ \ {ord[k].step}]
                     ELSE sm
            /\ todo' = IF c.pass THEN [todo EXCEPT ![u] = <<move>>] ELSE todo
        BY <1>0, <2>1, <3>1 DEF FireOnOrder
      <3>3. /\ c.pass \in BOOLEAN /\ c.model \in ModelType
            /\ c.model.amount = model.amount /\ c.model.reached = model.reached
            /\ c.model.iteration = model.iteration /\ c.model.orders = model.orders
            /\ c.model.enabled = model.enabled
            /\ c.model.executed = model.executed + got
            /\ ~IsEntry(k) =>
                  /\ c.model.entered = model.entered
                  /\ c.model.position = model.position - got
                  /\ c.pass => c.model.executed >= Amount
                  /\ \/ c.model.state = model.state
                     \/ c.model.state = "End" /\ c.model.executed >= Amount
            /\ IsEntry(k) /\ model.entered => c.model = model /\ ~c.pass
            /\ IsEntry(k) /\ ~model.entered =>
                  /\ c.pass /\ c.model.entered /\ c.model.state = "InEntry"
                  /\ c.model.position = model.position + ord[k].got
        BY <1>1, <3>1, BookedFacts DEF IsEntry
      <3>4. sm' \in FlagsType /\ sm.waiting \cap {"WaitForEntry"} \subseteq sm'.waiting
        BY <1>1, <3>2 DEF Typed, FlagsType
      <3> HIDE DEF got
      <3> QED
        BY <2>1, <3>2, <3>3, <3>4
    <2>2. CASE machine \notin HandlesOrders
      <3>1. UNCHANGED <<model, sm, todo>>
        BY <2>2 DEF FireOnOrder
      <3> HIDE DEF got
      <3> QED
        BY <1>1, <2>2, <3>1 DEF Typed, ModelType
    <2> QED
      BY <2>1, <2>2
  <1>11. First' <=> First
    BY <1>10 DEF First
  <1>12. /\ got \in Nat /\ model.executed + got >= model.executed
         /\ model'.executed \in Int /\ model'.executed >= model.executed
    BY <1>1, <1>10 DEF HandlesOrders
  <1>13. machine \notin HandlesOrders => setup.entryTimeout
    BY <1>1 DEF Begun, Timerless, Typed, HandlesOrders
  <1>14. First /\ Untold /\ machine \in HandlesOrders => IsEntry(k)
    BY DEF Begun, Untouched, HandlesOrders
  <1>15. Usual => /\ First /\ ~setup.entryTimeout /\ machine \in HandlesOrders
                  /\ ~model.entered => machine = "WaitForEntry"
    <2>1. Usual => First /\ ~setup.entryTimeout
      BY <1>1 DEF Usual, Steady, Typed, First
    <2>2. Usual /\ ~model.entered => machine = "WaitForEntry"
      BY <2>1 DEF Begun, Books, Untouched, Timerless
    <2> QED
      BY <1>13, <2>1, <2>2
  <1>16. /\ move \in Frames /\ move.op = "move" /\ move.from = machine /\ ~move.price
         /\ move.op \notin TimerOps
    BY <1>0, <1>1, NewFrames DEF Move, Typed, TimerOps
  <1>17. /\ todo' \in [Threads -> Stacks]
         /\ \A x \in Threads : \A f \in Doing(x)' :
               f \in Doing(x) \/ (x = u /\ f = move /\ todo' = [todo EXCEPT ![u] = <<move>>])
         /\ \A f \in Doing(Loop)' : f \in Doing(Loop)
    <2>1. CASE todo' = todo
      BY <1>1, <2>1, ThreadNames DEF Typed, Doing
    <2>2. CASE todo' = [todo EXCEPT ![u] = <<move>>]
      <3>1. <<move>> \in Stacks /\ Within(<<move>>) = {move}
        BY <1>16, ShortStacks
      <3>2. /\ todo'[u] = <<move>>
            /\ \A x \in Threads \ {u} : todo'[x] = todo[x]
            /\ todo' = [x \in Threads |-> todo'[x]]
        BY <1>1, <1>9, <2>2 DEF Typed
      <3>3. todo' \in [Threads -> Stacks]
        BY <1>1, <1>9, <3>1, <3>2 DEF Typed
      <3>4. \A x \in Threads \ {u} : Doing(x)' = Doing(x)
        BY <3>2 DEF Doing
      <3>5. Doing(u)' = {move}
        BY <3>1, <3>2 DEF Doing
      <3> QED
        BY <1>9, <2>2, <3>3, <3>4, <3>5, ThreadNames
    <2> QED
      BY <1>10, <2>1, <2>2
  <1> HIDE DEF got
  <1>18. \/ Doing(u)' \subseteq Doing(u)
         \/ pass /\ \A f \in Doing(u)' : f \in Doing(u) \/ f = move
    <2>1. CASE ~pass
      BY <1>10, <2>1 DEF Doing
    <2>2. CASE pass
      BY <1>9, <1>17, <2>2
    <2> QED
      BY <2>1, <2>2
  <1>19. Typed'
    <2>1. \A j \in DOMAIN ord : ord'[j].told => ord'[j].known /\ ord'[j].status = "filled"
      BY <1>1, <1>3, <1>5 DEF Typed
    <2> QED
      BY <1>1, <1>4, <1>5, <1>6, <1>10, <1>17, <2>1 DEF Typed
  <1>20. Work'
    <2>1. ASSUME NEW x \in Threads, NEW f, Allowed(x, f)
          PROVE  Allowed(x, f)'
      <3>1. TimerWork(f)' /\ EntryWork(x, f)'
        BY <1>5, <1>6, <1>7, <1>11, <2>1 DEF Allowed, TimerWork, EntryWork
      <3>2. UntoldWork(f)' /\ ContinuedWork(f)'
        BY <1>4, <1>6, <1>8, <1>11, <2>1 DEF Allowed, UntoldWork, ContinuedWork
      <3>3. model.executed >= Amount => model'.executed >= Amount
        BY <1>1, <1>12
      <3>4. UsualWork(x, f)'
        BY <1>4, <1>6, <2>1, <3>3 DEF Allowed, UsualWork
      <3> QED
        BY <1>5, <2>1, <3>1, <3>2, <3>4 DEF Allowed
    <2>2. ASSUME pass
          PROVE  Allowed(u, move)'
      <3>1. TimerWork(move)' /\ EntryWork(u, move)'
        BY <1>16 DEF TimerWork, EntryWork
      <3>2. UntoldWork(move)'
        <4>1. ~(First' /\ Untold')
          BY <1>8, <1>10, <1>11, <1>14, <2>2
        <4> QED
          BY <4>1 DEF UntoldWork
      <3>3. ContinuedWork(move)'
        BY <1>4, <1>6, <1>16 DEF Begun, Ends, ContinuedWork
      <3>4. UsualWork(u, move)'
        <4>1. Usual /\ machine # "WaitForEntry" => model'.executed >= Amount
          BY <1>10, <1>15, <2>2
        <4> QED
          BY <1>6, <1>16, <4>1 DEF UsualWork
      <3> QED
        BY <1>16, <3>1, <3>2, <3>3, <3>4 DEF Allowed
    <2>3. ASSUME NEW x \in Threads, NEW f \in Doing(x)'
          PROVE  Allowed(x, f)'
      <3>1. f \in Doing(x) \/ (x = u /\ f = move /\ pass)
        <4>1. f \in Doing(x) \/ (x = u /\ f = move)
          BY <1>17, <2>3
        <4>2. CASE x = u
          BY <1>18, <2>3, <4>1, <4>2
        <4>3. CASE x # u
          BY <4>1, <4>3
        <4> QED
          BY <4>2, <4>3
      <3>2. CASE f \in Doing(x)
        BY <2>1, <3>2 DEF Begun, Work
      <3>3. CASE x = u /\ f = move /\ pass
        BY <2>2, <3>3
      <3> QED
        BY <3>1, <3>2, <3>3
    <2> QED
      BY <2>3 DEF Work
  <1>21. Timerless'
    <2>1. model'.state = "Timeout" => model.state = "Timeout"
      BY <1>10
    <2> QED
      BY <1>4, <1>6, <2>1 DEF Begun, Timerless
  <1>22. Entries'
    BY <1>5, <1>6, <1>7, <1>10, <1>11 DEF Begun, Entries
  <1>23. Asked'
    BY <1>4, <1>10, <1>11 DEF Begun, Asked
  <1>24. Untouched'
    <2>1. SUFFICES ASSUME First, Untold'
                   PROVE  Untouched'
      BY <1>11 DEF Untouched
    <2>2. Untold /\ machine \notin HandlesOrders
      BY <1>8, <1>14, <2>1
    <2>3. model' = model
      BY <1>10, <2>2
    <2> QED
      BY <1>4, <1>5, <1>7, <2>1, <2>2, <2>3 DEF Begun, Untouched
  <1>25. Holdings'
    BY <1>4, <1>6, <1>8, <1>11 DEF Begun, Holdings
  <1>26. Books'
    <2>1. SUFFICES ASSUME First, ~setup.entryTimeout
                   PROVE  /\ model'.entered <=> ~Untold'
                          /\ model'.position = (IF model'.entered THEN Amount ELSE 0) - model'.executed
                          /\ \E g : Sums(g)' /\ Booking(g)'
      BY <1>6, <1>11 DEF Books
    <2>2. /\ machine \in HandlesOrders
          /\ model.entered <=> ~Untold
          /\ model.position = (IF model.entered THEN Amount ELSE 0) - model.executed
      BY <1>13, <2>1 DEF Begun, Books
    <2>3. IsEntry(k) => ord[k].got = Amount
      BY <1>1 DEF Begun, Entries
    <2>4. model'.entered <=> ~Untold'
      <3>1. CASE IsEntry(k)
        BY <1>8, <1>10, <2>2, <3>1
      <3>2. CASE ~IsEntry(k)
        BY <1>8, <1>10, <2>2, <3>2
      <3> QED
        BY <3>1, <3>2
    <2>5. model'.position = (IF model'.entered THEN Amount ELSE 0) - model'.executed
      <3>1. CASE IsEntry(k)
        BY <1>1, <1>10, <2>2, <2>3, <3>1 DEF got
      <3>2. CASE ~IsEntry(k)
        BY <1>1, <1>10, <1>12, <2>2, <3>2
      <3> QED
        BY <3>1, <3>2
    <2>6. PICK h : Sums(h) /\ Booking(h)
      BY <2>1 DEF Begun, Books
    <2>7. Unheard(o) = 0 /\ Unheard(ord[k]) = got /\ h[Len(ord)] \in Int
      BY <1>1, <1>3, <2>6, SumsArePositive DEF Unheard, IsEntry, got
    <2>8. PICK g : Sums(g)' /\ g[Len(ord')] = h[Len(ord)] + Unheard(o) - Unheard(ord[k])
      BY <1>1, <1>3, <1>4, <2>6, Resum
    <2>9. g[Len(ord')] = h[Len(ord)] - got /\ model'.executed = model.executed + got
      BY <1>10, <1>12, <2>2, <2>7, <2>8
    <2>10. world.pos = (IF Bought THEN Amount ELSE 0) - model'.executed - g[Len(ord')]
      <3>1. PICK pos, held, sold, left :
               /\ pos = world.pos /\ held = (IF Bought THEN Amount ELSE 0)
               /\ sold = model.executed /\ left = h[Len(ord)]
        OBVIOUS
      <3>2. pos = held - sold - left
        BY <2>6, <3>1 DEF Booking
      <3>3. pos \in Int /\ held \in Int /\ sold \in Int /\ left \in Int /\ got \in Int
        BY <1>1, <1>12, <2>7, <3>1
      <3>4. model'.executed = sold + got /\ g[Len(ord')] = left - got
        BY <2>9, <3>1
      <3>5. pos = held - (sold + got) - (left - got)
        BY <3>2, <3>3
      <3> QED
        BY <3>1, <3>4, <3>5
    <2>11. Booking(g)'
      BY <1>4, <1>6, <1>8, <2>10 DEF Booking
    <2> QED
      BY <2>4, <2>5, <2>8, <2>11
  <1>27. Ends'
    <2>1. Selling' => Selling
      BY <1>17 DEF Selling
    <2>2. ASSUME Usual
          PROVE  /\ machine = "End" \/ model'.state = "End" => model'.executed >= Amount
                 /\ machine = "WaitForEntry" => model'.amount = 0
                 /\ model'.executed < Amount => Selected'
      <3>1. machine = "End" \/ model.state = "End" => model'.executed >= Amount
        BY <1>1, <1>12, <2>2 DEF Begun, Ends
      <3>2. machine = "End" \/ model'.state = "End" => model'.executed >= Amount
        BY <1>10, <1>15, <2>2, <3>1
      <3>3. machine = "WaitForEntry" => model'.amount = 0
        BY <1>10, <2>2 DEF Begun, Ends
      <3>4. ASSUME model'.executed < Amount
            PROVE  Selected'
        <4>1. model.executed < Amount
          BY <1>1, <1>12, <3>4
        <4>2. Selected
          BY <2>2, <4>1 DEF Begun, Ends
        <4>3. CASE model'.state = model.state
          BY <1>4, <1>6, <2>1, <4>2, <4>3 DEF Selected
        <4>4. CASE machine = "WaitForEntry" /\ model'.state = "InEntry"
          BY <1>4, <4>4 DEF Selected
        <4>5. model'.state = model.state \/ (machine = "WaitForEntry" /\ model'.state = "InEntry")
          <5>1. ~(model'.executed >= Amount)
            BY <1>1, <1>12, <3>4
          <5> QED
            BY <1>10, <1>15, <2>2, <5>1
        <4> QED
          BY <4>3, <4>4, <4>5
      <3> QED
        BY <3>2, <3>3, <3>4
    <2> QED
      BY <1>4, <1>6, <2>2 DEF Begun, Ends
  <1> QED
    BY <1>19, <1>20, <1>21, <1>22, <1>23, <1>24, <1>25, <1>26, <1>27 DEF Begun

-----------------------------------------------------------------------------
(* The next iteration, of which little is said *)

\* A step to another iteration, where only the shape of things is claimed.
LEMMA NextIteration ==
    ASSUME Begun, ContinueIfEnded, ord' = ord,
           world' \in WorldType, world'.setup = world.setup, world'.pos = world.pos,
           model' \in ModelType, model'.reached <= Len(Targets), model'.orders = <<>>,
           model'.iteration # 0, model'.state # "Timeout",
           sm' \in FlagsType, canceling' \subseteq DOMAIN ord,
           machine' \in MachineStates \ {"End", "Timeout"},
           NEW t \in Threads, NEW new, NEW other, Goes(t, new, other),
           \A f \in new \cup other : f.op \in {"onStart", "loop", "lateCheck"}
    PROVE  Begun'
  <1>1. Typed
    BY DEF Begun
  <1>2. /\ setup' = setup /\ Targets' = Targets /\ Futures' = Futures
        /\ ContinueIfEnded' = ContinueIfEnded /\ Usual' = Usual /\ FlagsType' = FlagsType
        /\ Amount' = Amount
    BY SameSetup
  <1>3. ~First' /\ ~Usual' /\ ContinueIfEnded'
    BY <1>2 DEF First, Usual
  <1>4. Typed'
    <2>1. todo' \in [Threads -> Stacks]
      BY DEF Goes
    <2> QED
      BY <1>1, <1>2, <1>3, <2>1 DEF Typed
  <1>5. Work'
    <2>1. ASSUME NEW x \in Threads, NEW f \in Doing(x)'
          PROVE  Allowed(x, f)'
      <3>1. f \in Doing(x) \/ f \in new \cup other
        BY <2>1 DEF Goes
      <3>2. Allowed(x, f) \/ f.op \in {"onStart", "loop", "lateCheck"}
        BY <2>1, <3>1 DEF Begun, Work
      <3>3. EntryWork(x, f)' /\ UntoldWork(f)' /\ UsualWork(x, f)'
        BY <1>3 DEF EntryWork, UntoldWork, UsualWork
      <3>4. TimerWork(f)' /\ ContinuedWork(f)'
        BY <1>2, <3>2 DEF Allowed, TimerWork, TimerOps, ContinuedWork
      <3>5. f.op = "answer" => f.order \in DOMAIN ord'
        BY <3>2 DEF Allowed
      <3> QED
        BY <3>3, <3>4, <3>5 DEF Allowed
    <2> QED
      BY <2>1 DEF Work
  <1>6. Entries'
    BY <1>2, <1>3 DEF Begun, Entries, IsEntry
  <1>7. Timerless' /\ Asked' /\ Untouched' /\ Holdings' /\ Books' /\ Ends'
    BY <1>3 DEF Timerless, Asked, Untouched, Holdings, Books, Ends
  <1> QED
    BY <1>4, <1>5, <1>6, <1>7 DEF Begun

\* The iteration after this one.
LEMMA NextIterationTyped ==
    ASSUME Typed, model.iteration < setup.iterations
    PROVE  model.iteration + 1 \in Iterations /\ model.iteration + 1 # 0
  <1>1. model.iteration \in Nat
    BY IdsAreNat DEF Typed, ModelType
  <1>2. setup.iterations \in Nat /\ 0 .. setup.iterations \subseteq Iterations
    BY SetupFacts DEF Typed
  <1>3. model.iteration + 1 \in 0 .. setup.iterations
    BY <1>1, <1>2
  <1> QED
    BY <1>1, <1>2, <1>3

\* exit() starts the next iteration.
LEMMA ExitToNextIterationKeeps ==
    ASSUME Begun, NEW t \in Threads, ExitToNextIteration(t)
    PROVE  Begun'
  <1>1. Typed /\ todo[t] # <<>> /\ ContinueIfEnded
    BY DEF Begun, ExitToNextIteration, Top
  <1>2. PICK n : n = model.iteration + 1
    OBVIOUS
  <1>3. n \in Iterations /\ n # 0
    BY <1>1, <1>2, NextIterationTyped DEF ExitToNextIteration
  <1>4. /\ canceling' = TryCancelAllOrders
        /\ model' = [FreshModel EXCEPT !.iteration = n, !.enabled = model.enabled]
        /\ sm' = [sm EXCEPT !.entryPlaced = FALSE]
        /\ todo' = Then(t, <<Do("onStart")>>)
        /\ machine' = "WaitForEntry" /\ UNCHANGED <<ord, world>>
    BY <1>2 DEF ExitToNextIteration, Enter
  <1>5. /\ model' \in ModelType /\ model'.reached = 0 /\ model'.orders = <<>>
        /\ model'.iteration = n /\ model'.state # "Timeout"
    <2>0. <<>> \in Seq(OrderIds) /\ "" \in ModelStates
      BY DEF ModelStates
    <2>1. PICK e, s : e = <<>> /\ s = ""
      OBVIOUS
    <2>4. e \in Seq(OrderIds) /\ s \in ModelStates /\ s # "Timeout"
      BY <2>0, <2>1
    <2>2. model.enabled \in BOOLEAN
      BY <1>1 DEF Typed, ModelType
    <2>3. model' = [state |-> s, entered |-> FALSE, executed |-> 0, amount |-> 0,
                    position |-> 0, reached |-> 0, iteration |-> n, orders |-> e,
                    enabled |-> model.enabled]
      BY <1>4, <2>1 DEF FreshModel
    <2>5. model' \in ModelType
      BY <1>3, <2>2, <2>3, <2>4 DEF ModelType
    <2> QED
      BY <2>1, <2>3, <2>4, <2>5
  <1>6. sm' \in FlagsType
    BY <1>1, <1>4 DEF Typed, FlagsType
  <1>7. Goes(t, {Do("onStart")}, {})
    <2>1. Do("onStart") \in Frames
      BY NewFrames
    <2>2. <<Do("onStart")>> \in Stacks /\ Within(<<Do("onStart")>>) = {Do("onStart")}
      BY <2>1, ShortStacks
    <2>3. Goes(t, Within(<<Do("onStart")>>), {})
      BY <1>1, <1>4, <2>2, ThenGoes DEF Typed
    <2> QED
      BY <2>2, <2>3 DEF Goes
  <1>8. canceling' \subseteq DOMAIN ord
    BY <1>1, <1>4, KnownOrders
  <1>9. 0 <= Len(Targets)
    BY <1>1, SetupFacts DEF Typed
  <1>10. \A f \in {Do("onStart")} \cup {} : f.op \in {"onStart", "loop", "lateCheck"}
    BY DEF Do
  <1>11. machine' \in MachineStates \ {"End", "Timeout"}
    BY <1>4 DEF MachineStates
  <1> QED
    BY <1>1, <1>3, <1>4, <1>5, <1>6, <1>7, <1>8, <1>9, <1>10, <1>11, NextIteration DEF Typed

\* Stop restarts an order whose entry timed out.
LEMMA RestartInStopKeeps ==
    ASSUME Begun, NEW t \in {Loop, Watch}, RestartInStop(t)
    PROVE  Begun'
  <1> DEFINE frames == (IF machine = "Timeout" THEN <<Do("onStart")>> ELSE <<>>) \o <<Do("loop")>>
             others == LateCheck(Head(todo[t]))
             late == <<"late", t[2]>>
  <1>1. Typed /\ todo[t] # <<>> /\ t \in Threads /\ late \in Threads /\ ContinueIfEnded
    BY ThreadNames DEF Begun, RestartInStop, Top
  <1>2. PICK n : n = model.iteration + 1
    OBVIOUS
  <1>3. n \in Iterations /\ n # 0
    BY <1>1, <1>2, NextIterationTyped DEF RestartInStop
  <1>4. /\ world' = [world EXCEPT !.enabled = TRUE]
        /\ sm' = [sm EXCEPT !.stopLock = FALSE, !.waiting = {}, !.entryPlaced = FALSE]
        /\ model' = [model EXCEPT !.enabled = TRUE, !.state = "WaitForEntry",
                                  !.entered = FALSE, !.executed = 0, !.amount = 0,
                                  !.orders = <<>>, !.iteration = n]
        /\ machine' = IF machine = "Timeout" THEN "WaitForEntry" ELSE machine
        /\ todo' = ThenGo(t, frames, late, others)
        /\ UNCHANGED <<ord, canceling>>
    BY <1>2 DEF RestartInStop
  <1>5. /\ model' \in ModelType /\ model'.reached = model.reached /\ model'.orders = <<>>
        /\ model'.iteration = n /\ model'.state # "Timeout"
    <2>0. <<>> \in Seq(OrderIds) /\ "WaitForEntry" \in ModelStates
      BY DEF ModelStates, MachineStates
    <2>1. PICK e, s : e = <<>> /\ s = "WaitForEntry"
      OBVIOUS
    <2>4. e \in Seq(OrderIds) /\ s \in ModelStates /\ s # "Timeout"
      BY <2>0, <2>1
    <2>2. model' = [model EXCEPT !.enabled = TRUE, !.state = s, !.entered = FALSE,
                                 !.executed = 0, !.amount = 0, !.orders = e, !.iteration = n]
      BY <1>4, <2>1
    <2>3. model \in ModelType
      BY <1>1 DEF Typed
    <2>5. model' \in ModelType
      <3>1. PICK m : m = [model EXCEPT !.enabled = TRUE, !.state = s, !.entered = FALSE]
        OBVIOUS
      <3>2. m \in ModelType
        BY <2>3, <2>4, <3>1 DEF ModelType
      <3>3. PICK z \in Int : z = 0
        OBVIOUS
      <3>4. PICK l : l = [m EXCEPT !.executed = z, !.amount = z]
        OBVIOUS
      <3>5. l \in ModelType
        BY <3>2, <3>3, <3>4 DEF ModelType
      <3>6. model' = [l EXCEPT !.orders = e, !.iteration = n]
        <4>1. model' = [m EXCEPT !.executed = 0, !.amount = 0, !.orders = e, !.iteration = n]
          BY <2>2, <3>1
        <4> QED
          BY <3>3, <3>4, <4>1
      <3> QED
        BY <1>3, <2>4, <3>5, <3>6 DEF ModelType
    <2> QED
      BY <2>1, <2>2, <2>3, <2>4, <2>5 DEF ModelType
  <1>6. sm' \in FlagsType
    BY <1>1, <1>4 DEF Typed, FlagsType
  <1>7. world' \in WorldType /\ world'.setup = world.setup /\ world'.pos = world.pos
    BY <1>1, <1>4 DEF Typed, WorldType
  <1>8. machine' \in MachineStates \ {"End", "Timeout"}
    <2>1. machine # "End"
      BY <1>1 DEF Begun, Ends
    <2> QED
      BY <1>1, <1>4, <2>1 DEF Typed, MachineStates
  <1>9. Do("onStart") \in Frames /\ Do("loop") \in Later /\ Do("loop") \in Frames
    BY NewFrames DEF Simple
  <1>10. frames \in Stacks /\ \A f \in Within(frames) : f.op \in {"onStart", "loop"}
    <2>1. CASE machine = "Timeout"
      <3>1. frames = <<Do("onStart"), Do("loop")>>
        BY <2>1, TwoInOne
      <3> HIDE DEF frames
      <3>2. frames \in Stacks /\ Within(frames) = {Do("onStart"), Do("loop")}
        BY <1>9, <3>1, ShortStacks
      <3> QED
        BY <3>2 DEF Do
    <2>2. CASE machine # "Timeout"
      <3>1. frames = <<>> \o <<Do("loop")>>
        BY <2>2
      <3>2. <<Do("loop")>> \in Seq(Frames) /\ <<>> \in Seq(Frames)
        BY <1>9
      <3>3. frames = <<Do("loop")>>
        <4>1. PICK s \in Seq(Frames) : s = <<Do("loop")>>
          BY <3>2
        <4>2. <<>> \o s = s
          BY <3>2, ConcatEmptySeq
        <4> HIDE DEF frames
        <4> QED
          BY <3>1, <4>1, <4>2
      <3> HIDE DEF frames
      <3>4. frames \in Stacks /\ Within(frames) = {Do("loop")}
        BY <1>9, <3>3, ShortStacks
      <3> QED
        BY <3>4 DEF Do
    <2> QED
      BY <2>1, <2>2
  <1>11. others \in Seq(Later) /\ \A f \in Within(others) : f.op = "lateCheck"
    <2>1. Do("lateCheck") \in Later /\ Do("lateCheck").op = "lateCheck"
      BY NewFrames DEF Simple, Do
    <2>2. others \in {<<>>, <<Do("lateCheck")>>}
      BY DEF LateCheck
    <2>3. /\ <<>> \in Seq(Later) /\ Within(<<>>) = {}
          /\ <<Do("lateCheck")>> \in Seq(Later) /\ Within(<<Do("lateCheck")>>) = {Do("lateCheck")}
      BY <2>1, ShortStacks, NewFrames
    <2> HIDE DEF others
    <2> QED
      BY <2>1, <2>2, <2>3
  <1> HIDE DEF frames, others, late
  <1>12. Goes(t, Within(frames) \cup Within(others), Within(others))
    BY <1>1, <1>4, <1>10, <1>11, ThenGoGoes DEF Typed
  <1>13. \A f \in (Within(frames) \cup Within(others)) \cup Within(others) :
            f.op \in {"onStart", "loop", "lateCheck"}
    BY <1>10, <1>11
  <1>14. canceling' \subseteq DOMAIN ord /\ model'.reached <= Len(Targets)
    BY <1>1, <1>4, <1>5 DEF Typed
  <1> QED
    BY <1>1, <1>3, <1>4, <1>5, <1>6, <1>7, <1>8, <1>12, <1>13, <1>14, NextIteration

-----------------------------------------------------------------------------
(* Before onStart *)

\* The first state has nothing done yet.
LEMMA InitBegins == Init => Beginning
  <1> SUFFICES ASSUME Init PROVE Beginning
    OBVIOUS
  <1>1. world \in WorldType /\ world.pos = 0 /\ ~world.runtime
    <2>1. PICK s \in Setups :
             world = [setup |-> s, pos |-> 0, enabled |-> TRUE, mutex |-> TRUE, errors |-> 0,
                      registered |-> TRUE, runtime |-> FALSE]
      BY DEF Init
    <2> QED
      BY <2>1 DEF WorldType
  <1>2. model = FreshModel /\ model.enabled
    BY DEF Init, FreshModel
  <1>3. /\ todo = [t \in Threads |-> todo[t]]
        /\ todo[Loop] = <<Do("onStart"), Do("startRuntime"), Do("loop")>>
        /\ todo[Watch] = <<>>
        /\ \A t \in Threads \ {Loop, Watch} : todo[t] = <<>>
    BY ThreadNames DEF Init
  <1> QED
    BY <1>1, <1>2, <1>3 DEF Beginning, Init

\* What is known before onStart has run.
LEMMA BeginningFacts ==
    ASSUME Beginning
    PROVE  /\ model \in ModelType
           /\ model.state = "" /\ ~model.entered /\ model.executed = 0 /\ model.amount = 0
           /\ model.position = 0 /\ model.reached = 0 /\ model.iteration = 0
           /\ model.orders = <<>>
           /\ sm \in FlagsType
           /\ todo \in [Threads -> Stacks]
           /\ \A t \in Threads : \A f \in Doing(t) :
                 \/ f \in {Do("startRuntime"), Do("loop"), Do("unregister")}
                 \/ f = Do("onStart") /\ t = Loop
           /\ Head(todo[Loop]) = Do("onStart") /\ todo[Loop] # <<>>
           /\ todo[Watch] # <<>> => Head(todo[Watch]) = Do("unregister")
  <1>1. world \in WorldType
    BY DEF Beginning
  <1>2. 0 \in Iterations
    <2>1. setup.iterations \in Nat /\ 0 .. setup.iterations \subseteq Iterations
      BY <1>1, SetupFacts
    <2> QED
      BY <2>1
  <1>4. PICK b \in BOOLEAN :
           model = [state |-> "", entered |-> FALSE, executed |-> 0, amount |-> 0,
                    position |-> 0, reached |-> 0, iteration |-> 0, orders |-> <<>>,
                    enabled |-> b]
    <2>1. CASE model = FreshModel
      BY <2>1 DEF FreshModel
    <2>2. CASE model = [FreshModel EXCEPT !.enabled = FALSE]
      BY <2>2 DEF FreshModel
    <2> QED
      BY <2>1, <2>2 DEF Beginning
  <1>5. /\ model \in ModelType
        /\ model.state = "" /\ ~model.entered /\ model.executed = 0 /\ model.amount = 0
        /\ model.position = 0 /\ model.reached = 0 /\ model.iteration = 0
        /\ model.orders = <<>>
    <2>0. <<>> \in Seq(OrderIds) /\ "" \in ModelStates
      BY DEF ModelStates
    <2>1. PICK e, s : e = <<>> /\ s = ""
      OBVIOUS
    <2>2. e \in Seq(OrderIds) /\ s \in ModelStates
      BY <2>0, <2>1
    <2>3. model = [state |-> s, entered |-> FALSE, executed |-> 0, amount |-> 0,
                   position |-> 0, reached |-> 0, iteration |-> 0, orders |-> e,
                   enabled |-> b]
      BY <1>4, <2>1
    <2>4. model \in ModelType
      BY <1>2, <2>2, <2>3 DEF ModelType
    <2> QED
      BY <2>1, <2>3, <2>4
  <1>6. sm \in FlagsType
    <2>1. 0 \in 0 .. Len(Targets) - 1
      BY <1>1, SetupFacts
    <2> QED
      BY <2>1 DEF Beginning, FlagsType
  <1>7. /\ Do("onStart") \in Frames /\ Do("startRuntime") \in Later /\ Do("loop") \in Later
        /\ Do("unregister") \in Frames
    BY NewFrames DEF Simple
  <1>8. /\ todo[Loop] \in Stacks
        /\ Doing(Loop) = {Do("onStart"), Do("startRuntime"), Do("loop")}
    <2>1. PICK s : s = todo[Loop]
      OBVIOUS
    <2>2. s = <<Do("onStart"), Do("startRuntime"), Do("loop")>>
      BY <2>1 DEF Beginning
    <2>3. s \in Stacks /\ Within(s) = {Do("onStart"), Do("startRuntime"), Do("loop")}
      BY <1>7, <2>2, ShortStacks
    <2> QED
      BY <2>1, <2>3 DEF Doing
  <1>9. \A t \in Threads \ {Loop} :
           todo[t] \in Stacks /\ \A f \in Doing(t) : f = Do("unregister")
    <2>1. /\ <<>> \in Stacks /\ Within(<<>>) = {}
          /\ <<Do("unregister")>> \in Stacks
          /\ Within(<<Do("unregister")>>) = {Do("unregister")}
      BY <1>7, ShortStacks
    <2>2. \A t \in Threads \ {Loop} : todo[t] \in {<<>>, <<Do("unregister")>>}
      BY DEF Beginning
    <2> QED
      BY <2>1, <2>2 DEF Doing
  <1>10. todo \in [Threads -> Stacks]
    <2>1. \A t \in Threads : todo[t] \in Stacks
      BY <1>8, <1>9
    <2>2. todo = [t \in Threads |-> todo[t]]
      BY DEF Beginning
    <2> QED
      BY <2>1, <2>2
  <1>11. /\ Head(todo[Loop]) = Do("onStart") /\ todo[Loop] # <<>>
         /\ todo[Watch] # <<>> => Head(todo[Watch]) = Do("unregister")
    BY DEF Beginning
  <1> QED
    BY <1>5, <1>6, <1>8, <1>9, <1>10, <1>11

\* The first onStart places the entry, unless the strategy has been disabled.
LEMMA BeginningEnds ==
    ASSUME Beginning, OnStartChecks(Loop)
    PROVE  Begun'
  <1>1. /\ model \in ModelType
        /\ model.state = "" /\ ~model.entered /\ model.executed = 0 /\ model.amount = 0
        /\ model.position = 0 /\ model.reached = 0 /\ model.iteration = 0
        /\ model.orders = <<>>
        /\ sm \in FlagsType
        /\ todo \in [Threads -> Stacks]
        /\ \A t \in Threads : \A f \in Doing(t) :
              \/ f \in {Do("startRuntime"), Do("loop"), Do("unregister")}
              \/ f = Do("onStart") /\ t = Loop
        /\ todo[Loop] # <<>>
    BY BeginningFacts
  <1>2. /\ machine = "WaitForEntry" /\ ord = <<>> /\ canceling = {}
        /\ world \in WorldType /\ world.pos = 0
        /\ model.enabled \/ ~world.enabled
        /\ Loop \in Threads
    BY ThreadNames DEF Beginning
  <1>3. /\ todo' = Then(Loop, Starting(model))
        /\ sm' = [sm EXCEPT !.waiting = IF Starting(model) = OnStart
                                        THEN @ \cup {"WaitForEntry"} ELSE @]
        /\ UNCHANGED <<machine, model, ord, canceling, world>>
    BY DEF OnStartChecks
  <1>4. Starting(model) = IF model.enabled THEN OnStart ELSE Timer
    BY <1>1 DEF Starting
  <1>5. Do("checkTimeouts") \in Later /\ Place("WaitForEntry") \in Frames
    BY NewFrames DEF Simple, TimerOps
  <1>6. /\ Timer \in Stacks
        /\ \A f \in Within(Timer) : setup.entryTimeout /\ f = Do("checkTimeouts")
    BY <1>5, ShortStacks, NewFrames DEF Timer
  <1>7. /\ OnStart \in Stacks
        /\ \A f \in Within(OnStart) : \/ f = Place("WaitForEntry")
                                      \/ setup.entryTimeout /\ f = Do("checkTimeouts")
    <2>1. CASE setup.entryTimeout
      <3>1. OnStart = <<Place("WaitForEntry"), Do("checkTimeouts")>>
        BY <2>1, TwoInOne DEF OnStart, Timer
      <3> QED
        BY <1>5, <2>1, <3>1, ShortStacks
    <2>2. CASE ~setup.entryTimeout
      <3>1. OnStart = <<Place("WaitForEntry")>>
        BY <2>2 DEF OnStart, Timer
      <3> QED
        BY <1>5, <3>1, ShortStacks
    <2> QED
      BY <2>1, <2>2
  <1>8. PICK start : start = Starting(model)
    OBVIOUS
  <1>9. /\ start \in Stacks
        /\ \A f \in Within(start) : \/ f = Place("WaitForEntry")
                                    \/ setup.entryTimeout /\ f = Do("checkTimeouts")
    <2>1. start = OnStart \/ start = Timer
      BY <1>4, <1>8
    <2> QED
      BY <1>6, <1>7, <2>1
  <1>10. Goes(Loop, Within(start), {})
    BY <1>1, <1>2, <1>3, <1>8, <1>9, ThenGoes
  <1>11. \A x \in Threads : \A f \in Doing(x)' :
            \/ f \in {Do("startRuntime"), Do("loop"), Do("unregister")}
            \/ f = Place("WaitForEntry") /\ x = Loop
            \/ setup.entryTimeout /\ f = Do("checkTimeouts")
    <2>1. Do("onStart") \notin Later
      BY NewFrames, FrameFacts DEF Do
    <2>2. ASSUME NEW x \in Threads, NEW f \in Doing(x)'
          PROVE  \/ f \in {Do("startRuntime"), Do("loop"), Do("unregister")}
                 \/ f = Place("WaitForEntry") /\ x = Loop
                 \/ setup.entryTimeout /\ f = Do("checkTimeouts")
      <3>1. CASE x = Loop
        BY <1>1, <1>9, <1>10, <2>1, <2>2, <3>1 DEF Goes
      <3>2. CASE x # Loop
        BY <1>1, <1>10, <2>2, <3>2 DEF Goes
      <3> QED
        BY <3>1, <3>2
    <2> QED
      BY <2>2
  <1>12. sm' \in FlagsType /\ (model.enabled => "WaitForEntry" \in sm'.waiting)
    <2>1. PICK w : w = IF Starting(model) = OnStart THEN sm.waiting \cup {"WaitForEntry"}
                                                    ELSE sm.waiting
      OBVIOUS
    <2>2. sm' = [sm EXCEPT !.waiting = w]
      BY <1>3, <2>1
    <2>3. w \subseteq Steps /\ (model.enabled => "WaitForEntry" \in w)
      BY <1>1, <1>4, <2>1 DEF FlagsType, Steps
    <2> QED
      BY <1>1, <2>2, <2>3 DEF FlagsType
  <1>13. /\ setup' = setup /\ Targets' = Targets /\ Futures' = Futures
         /\ ContinueIfEnded' = ContinueIfEnded /\ Usual' = Usual /\ FlagsType' = FlagsType
         /\ Amount' = Amount
    BY <1>3, SameSetup
  <1>14. Amount \in Nat /\ Len(Targets) \in Nat /\ setup.orders \in Nat
    BY <1>2, TakenFacts, SetupFacts
  <1>15. ord' = <<>> /\ Len(ord') = 0 /\ DOMAIN ord' = {} /\ ord' \in Seq(OrderType)
    BY <1>2, <1>3
  <1>16. Typed'
    <2>1. todo' \in [Threads -> Stacks]
      BY <1>10 DEF Goes
    <2>2. DOMAIN model.orders = {}
      <3>1. model.orders = <<>>
        BY <1>1
      <3> QED
        BY <3>1
    <2>3. machine' \in MachineStates
      BY <1>2, <1>3 DEF MachineStates
    <2>4. /\ model' \in ModelType /\ model'.reached = 0 /\ model'.iteration = 0
          /\ DOMAIN model'.orders = {}
      BY <1>1, <1>3, <2>2
    <2>5. (model.reached <= Len(Targets))'
      BY <1>13, <1>14, <2>4
    <2>6. (\A i \in DOMAIN model.orders : model.orders[i] \in DOMAIN ord)'
      BY <2>4
    <2>7. (Len(ord) <= setup.orders)'
      BY <1>13, <1>14, <1>15
    <2>8. (\A k \in DOMAIN ord : ord[k].told => ord[k].known /\ ord[k].status = "filled")'
      BY <1>15
    <2>9. (canceling \subseteq DOMAIN ord)'
      BY <1>2, <1>3
    <2>10. world' \in WorldType /\ (Futures => world.pos >= 0)'
      BY <1>2, <1>3
    <2>11. (sm \in FlagsType)'
      BY <1>12, <1>13
    <2> QED
      BY <1>15, <2>1, <2>3, <2>4, <2>5, <2>6, <2>7, <2>8, <2>9, <2>10, <2>11 DEF Typed
  <1>17. Work'
    <2>1. ASSUME NEW x \in Threads, NEW f, f \in {Do("startRuntime"), Do("loop"), Do("unregister")}
          PROVE  Allowed(x, f)'
      BY <2>1 DEF Allowed, TimerWork, TimerOps, EntryWork, UntoldWork, ContinuedWork, UsualWork, Do
    <2>2. Allowed(Loop, Place("WaitForEntry"))'
      BY <1>15 DEF Allowed, TimerWork, TimerOps, EntryWork, UntoldWork, ContinuedWork, UsualWork,
                   Place
    <2>3. ASSUME NEW x \in Threads, setup.entryTimeout
          PROVE  Allowed(x, Do("checkTimeouts"))'
      BY <1>13, <2>3 DEF Allowed, TimerWork, TimerOps, EntryWork, UntoldWork, ContinuedWork,
                         UsualWork, Do
    <2>4. ASSUME NEW x \in Threads, NEW f \in Doing(x)'
          PROVE  Allowed(x, f)'
      <3>1. CASE f \in {Do("startRuntime"), Do("loop"), Do("unregister")}
        BY <2>1, <3>1
      <3>2. CASE f = Place("WaitForEntry") /\ x = Loop
        BY <2>2, <3>2 DEF Allowed, TimerWork, EntryWork, UntoldWork, ContinuedWork, UsualWork
      <3>3. CASE setup.entryTimeout /\ f = Do("checkTimeouts")
        BY <2>3, <3>3 DEF Allowed, TimerWork, EntryWork, UntoldWork, ContinuedWork, UsualWork
      <3> QED
        BY <1>11, <2>4, <3>1, <3>2, <3>3
    <2> QED
      BY <2>4 DEF Work
  <1>18. Timerless' /\ Asked'
    BY <1>1, <1>2, <1>3, <1>12 DEF Timerless, Asked
  <1>19. Entries' /\ Untouched' /\ Untold' /\ ~Bought'
    BY <1>1, <1>2, <1>3, <1>15 DEF Entries, Untouched, Untold, Bought
  <1>20. Holdings'
    BY <1>2, <1>3, <1>13, <1>14, <1>19 DEF Holdings
  <1>21. Books'
    <2>1. PICK h : h = [i \in 0 .. 0 |-> 0]
      OBVIOUS
    <2>2. Sums(h)' /\ h[0] = 0
      BY <1>15, <2>1 DEF Sums
    <2>3. Booking(h)'
      <3>1. /\ world'.pos = 0 /\ model'.executed = 0 /\ ~Bought' /\ Len(ord') = 0
        BY <1>1, <1>2, <1>3, <1>15, <1>19
      <3> QED
        BY <2>2, <3>1 DEF Booking
    <2>4. /\ model'.entered = FALSE /\ model'.position = 0 /\ model'.executed = 0
          /\ Untold'
      <3>1. model.entered = FALSE
        BY <1>1 DEF ModelType
      <3> QED
        BY <1>1, <1>3, <1>19, <3>1
    <2>5. \E g : Sums(g)' /\ Booking(g)'
      BY <2>2, <2>3
    <2>6. (\E g : Sums(g) /\ Booking(g))'
      BY <2>5
    <2>7. /\ (model.entered <=> ~Untold)'
          /\ (model.position = (IF model.entered THEN Amount ELSE 0) - model.executed)'
      BY <2>4
    <2> QED
      BY <2>6, <2>7 DEF Books
  <1>22. Ends'
    BY <1>1, <1>2, <1>3 DEF Ends, Selected
  <1> QED
    BY <1>16, <1>17, <1>18, <1>19, <1>20, <1>21, <1>22 DEF Begun

\* Before onStart has run nothing happens but the service around the smart order, and then
\* onStart runs.
LEMMA BeginningNext ==
    ASSUME Beginning, [Next]_vars
    PROVE  \/ UNCHANGED vars \/ Disable \/ LoseMutex \/ HotReload \/ Unregister
           \/ OnStartChecks(Loop)
  <1>1. /\ ord = <<>> /\ canceling = {}
        /\ \A t \in Threads \ {Loop, Watch} : todo[t] = <<>>
    BY DEF Beginning
  <1>2. /\ Head(todo[Loop]) = Do("onStart") /\ todo[Loop] # <<>>
        /\ todo[Watch] # <<>> => Head(todo[Watch]) = Do("unregister")
    BY BeginningFacts
  <1>3. CASE \E t \in {v \in Threads : todo[v] # <<>>} : Run(t)
    <2>1. PICK t \in Threads : todo[t] # <<>> /\ Run(t)
      BY <1>3
    <2>2. \/ t = Loop /\ Head(todo[t]).op = "onStart"
          \/ t = Watch /\ Head(todo[t]).op = "unregister"
      BY <1>1, <1>2, <2>1 DEF Do
    <2>3. ~Sending(t)
      BY <2>2 DEF Sending
    <2>4. t = Loop /\ OnStartChecks(Loop)
      BY <2>1, <2>2, <2>3 DEF Run, SkipOrder, CancelBeforeOrder, Answer,
         TryCancelAllOrdersConsistently, AcceptOrder, RejectReduceOnly, RejectTriggered, RejectOrder,
         ExitToNextIteration, ExitToWaitForEntry, OnStartChecks, EnterEnd, EnterEntry, GoPlaceStops,
         EnterTakeProfit, EnterStopLoss, CheckLossAgain, StartTimer, Top
    <2> QED
      BY <2>4
  <1>4. ~RunLoop
    BY <1>2 DEF RunLoop, StartRuntime, LeaveLoop, FireOnPrice, Top, Do
  <1>5. \A i \in Iterations : ~RunTimer(<<"timer", i>>)
    <2>1. \A i \in Iterations : todo[<<"timer", i>>] = <<>>
      BY <1>1, ThreadNames DEF Loop, Watch
    <2> QED
      BY <2>1 DEF RunTimer, TimerFires, TimerIsLate, AwaitEntry, CancelEntry, FireTimeout,
                  MarkTimeout, Top
  <1>6. \A t \in {Loop, Watch} : ~RunStop(t)
    BY <1>2 DEF RunStop, StopIsTaken, StopTestsLock, StopClaimsLock, StopPlacesCanceled, FinishStop,
                RestartInStop, Top, Do
  <1>7. \A i \in {1, 2} : ~Sweep(<<"sweep", i>>) /\ ~CheckLate(<<"late", i>>)
    <2>1. \A i \in {1, 2} : todo[<<"sweep", i>>] = <<>> /\ todo[<<"late", i>>] = <<>>
      BY <1>1, ThreadNames DEF Loop, Watch
    <2> QED
      BY <2>1 DEF Sweep, CheckLate, Top
  <1>8. DOMAIN ord = {}
    BY <1>1
  <1> QED
    BY <1>1, <1>3, <1>4, <1>5, <1>6, <1>7, <1>8 DEF Next

\* Nothing else happens before, but what the user and the watch do.
LEMMA BeginningSteps ==
    ASSUME Beginning, [Next]_vars
    PROVE  IInv'
  <1>1. /\ machine = "WaitForEntry" /\ ord = <<>> /\ canceling = {}
        /\ world \in WorldType /\ world.pos = 0 /\ ~world.runtime
        /\ model.enabled \/ ~world.enabled
        /\ todo = [t \in Threads |-> todo[t]]
        /\ \A t \in Threads \ {Loop, Watch} : todo[t] = <<>>
    BY DEF Beginning
  <1>2. /\ Head(todo[Loop]) = Do("onStart") /\ todo[Loop] # <<>>
        /\ todo[Watch] # <<>> => Head(todo[Watch]) = Do("unregister")
    BY BeginningFacts
  <1>3. CASE UNCHANGED vars
    <2>1. Beginning'
      BY <1>3 DEF Beginning, vars, WorldType
    <2> QED
      BY <2>1 DEF IInv
  <1>4. CASE Disable \/ LoseMutex
    <2>1. /\ world' \in WorldType /\ world'.pos = 0 /\ ~world'.runtime
          /\ world'.enabled => world.enabled
      BY <1>1, <1>4 DEF Disable, LoseMutex, WorldType
    <2>2. Beginning'
      BY <1>1, <1>4, <2>1 DEF Beginning, Disable, LoseMutex, WorldType
    <2> QED
      BY <2>2 DEF IInv
  <1>5. CASE HotReload
    <2>1. /\ model' = [model EXCEPT !.enabled = world.enabled]
          /\ UNCHANGED <<machine, sm, ord, canceling, world>>
      BY <1>5 DEF HotReload
    <2>2. world.enabled \in BOOLEAN
      BY <1>1 DEF WorldType
    <2>3. /\ model' \in {FreshModel, [FreshModel EXCEPT !.enabled = FALSE]}
          /\ model'.enabled = world.enabled
      BY <2>1, <2>2 DEF Beginning, FreshModel
    <2>4. todo' = todo \/ todo' = [todo EXCEPT ![Watch] = <<Do("unregister")>>]
      BY <1>1, <1>5 DEF HotReload
    <2>5. /\ todo' = [t \in Threads |-> todo'[t]]
          /\ todo'[Loop] = todo[Loop]
          /\ todo'[Watch] \in {<<>>, <<Do("unregister")>>}
          /\ \A t \in Threads \ {Loop, Watch} : todo'[t] = <<>>
      BY <1>1, <2>4, ThreadNames DEF Beginning
    <2>6. Beginning'
      BY <1>1, <2>1, <2>3, <2>5 DEF Beginning, WorldType
    <2> QED
      BY <2>6 DEF IInv
  <1>6. CASE Unregister
    <2>1. /\ world' = [world EXCEPT !.registered = FALSE] /\ todo' = Then(Watch, <<>>)
          /\ todo[Watch] # <<>> /\ UNCHANGED <<machine, model, sm, ord, canceling>>
      BY <1>6 DEF Unregister, Top
    <2>2. /\ world' \in WorldType /\ world'.pos = 0 /\ ~world'.runtime
          /\ world'.enabled = world.enabled
      BY <1>1, <2>1 DEF WorldType
    <2>3. todo' = [todo EXCEPT ![Watch] = <<>>]
      <3>1. todo[Watch] = <<Do("unregister")>>
        BY <2>1 DEF Beginning
      <3>2. <<>> \o Tail(<<Do("unregister")>>) = <<>>
        OBVIOUS
      <3> QED
        BY <2>1, <3>1, <3>2 DEF Then
    <2>4. /\ todo' = [t \in Threads |-> todo'[t]]
          /\ todo'[Loop] = todo[Loop]
          /\ todo'[Watch] \in {<<>>, <<Do("unregister")>>}
          /\ \A t \in Threads \ {Loop, Watch} : todo'[t] = <<>>
      BY <1>1, <2>3, ThreadNames DEF Beginning
    <2>5. Beginning'
      BY <1>1, <2>1, <2>2, <2>4 DEF Beginning, WorldType
    <2> QED
      BY <2>5 DEF IInv
  <1>7. CASE OnStartChecks(Loop)
    BY <1>7, BeginningEnds DEF IInv
  <1> QED
    BY <1>3, <1>4, <1>5, <1>6, <1>7, BeginningNext

-----------------------------------------------------------------------------
(* Every step *)

\* What the loop, the timers and the goroutines do keeps what holds once onStart has run.
LEMMA RunKeeps ==
    ASSUME Begun, NEW t \in Threads, Run(t)
    PROVE  Begun'
  <1>1. CASE SkipOrder(t) \/ CancelBeforeOrder(t) \/ Answer(t)
             \/ TryCancelAllOrdersConsistently(t) \/ AcceptOrder(t)
    BY <1>1, SkipOrderKeeps, CancelBeforeOrderKeeps, AnswerKeeps,
       TryCancelAllOrdersConsistentlyKeeps, AcceptOrderKeeps
  <1>2. CASE RejectReduceOnly(t) \/ RejectTriggered(t) \/ RejectOrder(t)
    BY <1>2, RejectReduceOnlyKeeps, RejectTriggeredKeeps, RejectOrderKeeps
  <1>3. CASE ExitToNextIteration(t) \/ ExitToWaitForEntry(t) \/ OnStartChecks(t) \/ EnterEnd(t)
             \/ EnterEntry(t)
    BY <1>3, ExitToNextIterationKeeps, ExitToWaitForEntryKeeps, OnStartChecksKeeps,
       EnterEndKeeps, EnterEntryKeeps
  <1>4. CASE GoPlaceStops(t) \/ EnterTakeProfit(t) \/ EnterStopLoss(t) \/ CheckLossAgain(t)
             \/ StartTimer(t)
    BY <1>4, GoPlaceStopsKeeps, EnterTakeProfitKeeps, EnterStopLossKeeps, CheckLossAgainKeeps,
       StartTimerKeeps
  <1> QED
    BY <1>1, <1>2, <1>3, <1>4 DEF Run

\* Stop, on the loop's goroutine or the watch's, and what it leaves for five seconds later.
LEMMA StopKeeps ==
    ASSUME Begun, NEW t \in {Loop, Watch}, RunStop(t)
    PROVE  Begun'
  <1>1. t \in Threads
    BY ThreadNames
  <1>2. CASE StopIsTaken(t) \/ StopTestsLock(t) \/ StopPlacesCanceled(t)
    BY <1>1, <1>2, StopIsTakenKeeps, StopTestsLockKeeps, StopPlacesCanceledKeeps
  <1>3. CASE StopClaimsLock(t) \/ FinishStop(t) \/ RestartInStop(t)
    BY <1>3, StopClaimsLockKeeps, FinishStopKeeps, RestartInStopKeeps
  <1> QED
    BY <1>2, <1>3 DEF RunStop

\* Every step once onStart has run.
LEMMA StepKeeps ==
    ASSUME Begun, [Next]_vars
    PROVE  Begun'
  <1>1. Typed
    BY DEF Begun
  <1>2. CASE UNCHANGED vars
    <2>1. Minor /\ todo' = todo
      BY <1>1, <1>2, Unchanged DEF Minor, vars, Typed
    <2> QED
      BY <2>1, NobodyMoves
  <1>3. CASE Disable \/ LoseMutex \/ HotReload \/ Unregister
    BY <1>3, ServiceKeeps
  <1>4. CASE RunLoop
    <2>1. Loop \in Threads
      BY ThreadNames
    <2> QED
      BY <1>4, <2>1, StartRuntimeKeeps, LeaveLoopKeeps, FireOnPriceKeeps DEF RunLoop
  <1>5. CASE \E i \in Iterations : RunTimer(<<"timer", i>>)
    BY <1>5, ThreadNames, RunTimerKeeps
  <1>6. CASE \E t \in {u \in Threads : todo[u] # <<>>} : Run(t)
    BY <1>6, RunKeeps
  <1>7. CASE \E t \in {Loop, Watch} : RunStop(t)
    BY <1>7, StopKeeps
  <1>8. CASE \E i \in {1, 2} : Sweep(<<"sweep", i>>) \/ CheckLate(<<"late", i>>)
    BY <1>8, ThreadNames, SweepKeeps, CheckLateKeeps
  <1>9. CASE \E k \in DOMAIN ord : Fill(k) \/ FireOnOrder(k)
    BY <1>9, FillKeeps, FireOnOrderKeeps
  <1>10. CASE \E k \in canceling : CancelOrder(k)
    BY <1>10, CancelOrderKeeps
  <1> QED
    BY <1>2, <1>3, <1>4, <1>5, <1>6, <1>7, <1>8, <1>9, <1>10 DEF Next

\* The inductive invariant.
LEMMA Invariance == Spec => []IInv
  <1>1. Init => IInv
    BY InitBegins DEF IInv
  <1>2. IInv /\ [Next]_vars => IInv'
    BY BeginningSteps, StepKeeps DEF IInv
  <1> QED
    BY <1>1, <1>2, PTL DEF Spec

-----------------------------------------------------------------------------
(* The theorems *)

\* Before and after onStart the variables have their shape.
LEMMA InvariantTyped ==
    ASSUME IInv
    PROVE  Typed
  <1>1. CASE Begun
    BY <1>1 DEF Begun
  <1>2. CASE Beginning
    <2>1. /\ machine = "WaitForEntry" /\ ord = <<>> /\ canceling = {} /\ world \in WorldType
          /\ world.pos = 0
      BY <1>2 DEF Beginning
    <2>2. /\ model \in ModelType /\ model.reached = 0 /\ model.iteration = 0
          /\ model.orders = <<>> /\ sm \in FlagsType /\ todo \in [Threads -> Stacks]
      BY <1>2, BeginningFacts
    <2>3. Len(Targets) \in Nat /\ setup.orders \in Nat
      BY <2>1, SetupFacts
    <2>4. DOMAIN ord = {} /\ Len(ord) = 0 /\ ord \in Seq(OrderType)
      BY <2>1
    <2>5. DOMAIN model.orders = {}
      BY <2>2
    <2>6. machine \in MachineStates
      BY <2>1 DEF MachineStates
    <2> QED
      BY <2>1, <2>2, <2>3, <2>4, <2>5, <2>6 DEF Typed
  <1> QED
    BY <1>1, <1>2 DEF IInv

\* Every variable keeps its shape, whatever the setups: SelectedExitTarget indexes an exit
\* level however the recursion of PlaceOrder (placeOrder.go:306-436) is interleaved.
THEOREM TypeCorrect == Spec => []TypeOK
  <1>1. IInv => TypeOK
    <2>1. Typed => TypeOK
      BY DEF Typed, TypeOK, ModelType, FlagsType, OrderType, WorldType
    <2> QED
      BY <2>1, InvariantTyped
  <1> QED
    BY <1>1, Invariance, PTL

\* In the first iteration the position never exceeds the order's amount: CheckWaitEntry,
\* the answer of PlaceOrder, the entry timer, hot reload and Stop interleave as they like,
\* the entry is bought once.
THEOREM OneEntryIsBought == Spec => [](model.iteration = 0 => NoDoubleEntry)
  <1>1. IInv => (model.iteration = 0 => NoDoubleEntry)
    <2>1. CASE Beginning
      <3>1. world \in WorldType /\ world.pos = 0
        BY <2>1 DEF Beginning
      <3>2. Amount \in Nat
        BY <3>1, TakenFacts
      <3> QED
        BY <3>1, <3>2 DEF NoDoubleEntry
    <2>2. CASE Begun
      BY <2>2 DEF Begun, Holdings, First, NoDoubleEntry
    <2> QED
      BY <2>1, <2>2 DEF IInv
  <1> QED
    BY <1>1, Invariance, PTL

\* Once the fills are told: what the model says was bought and sold is what was.
LEMMA BooksAtRest ==
    ASSUME Begun, First, ~setup.entryTimeout,
           \A k \in DOMAIN ord : ord[k].status = "filled" => ord[k].told
    PROVE  model.position = world.pos
  <1>1. PICK h : Sums(h) /\ Booking(h)
    BY DEF Begun, Books
  <1>2. Typed
    BY DEF Begun
  <1>3. \A k \in DOMAIN ord : Unheard(ord[k]) = 0
    BY DEF Unheard
  <1>4. h[Len(ord)] = 0
    BY <1>1, <1>2, <1>3, SumsArePositive
  <1>5. Bought <=> ~Untold
    BY <1>2 DEF Bought, Untold, Typed
  <1>6. model.entered <=> Bought
    BY <1>5 DEF Begun, Books
  <1>7. model.executed \in Int /\ Amount \in Nat
    BY <1>2, TakenFacts DEF Typed, ModelType
  <1>8. /\ model.position = (IF model.entered THEN Amount ELSE 0) - model.executed
        /\ world.pos = (IF Bought THEN Amount ELSE 0) - model.executed - h[Len(ord)]
    BY <1>1 DEF Begun, Books, Booking
  <1> QED
    BY <1>4, <1>6, <1>7, <1>8

\* In the first iteration of an order without entry timer, once every fill has been told,
\* PositionAmount is the position at the exchange: checkExistingOrders books each fill once
\* and under the step its order was placed for, whatever callbacks, loop and Stop do
\* meanwhile.
THEOREM BooksAgree == Spec => [](model.iteration = 0 => BooksMatch)
  <1>1. IInv => (model.iteration = 0 => BooksMatch)
    <2>1. CASE Beginning
      BY <2>1, BeginningFacts DEF Beginning, BooksMatch
    <2>2. CASE Begun
      BY <2>2, BooksAtRest DEF BooksMatch, AtRest, First
    <2> QED
      BY <2>1, <2>2 DEF IInv
  <1> QED
    BY <1>1, Invariance, PTL

\* What has been sold, told or not, is no longer held.
LEMMA SoldOut ==
    ASSUME Begun, First, ~setup.entryTimeout, model.executed >= Amount
    PROVE  world.pos <= 0
  <1>1. PICK h : Sums(h) /\ Booking(h)
    BY DEF Begun, Books
  <1>2. Typed
    BY DEF Begun
  <1>3. h[Len(ord)] \in Int /\ h[Len(ord)] >= 0
    BY <1>1, <1>2, SumsArePositive
  <1>4. model.executed \in Int /\ Amount \in Nat
    BY <1>2, TakenFacts DEF Typed, ModelType
  <1>5. world.pos = (IF Bought THEN Amount ELSE 0) - model.executed - h[Len(ord)]
    BY <1>1 DEF Booking
  <1> QED
    BY <1>3, <1>4, <1>5

\* The machine of a futures order is in End only with its position closed, when nobody but
\* prices writes the state between a guard and exit(): whichever goroutine reported it,
\* nothing is left for Stop to close.
THEOREM EndIsClosed == Spec => []EndMeansClosed
  <1>1. IInv => EndMeansClosed
    <2>1. CASE Beginning
      BY <2>1 DEF Beginning, EndMeansClosed
    <2>2. ASSUME Begun, machine = "End", Futures, Steady
          PROVE  world.pos <= 0
      <3>1. ~ContinueIfEnded
        BY <2>2 DEF Begun, Ends
      <3>2. First /\ ~setup.entryTimeout
        BY <2>2, <3>1 DEF Begun, Typed, First, Steady
      <3>3. model.executed >= Amount
        BY <2>2, <3>1 DEF Begun, Ends, Usual
      <3> QED
        BY <2>2, <3>2, <3>3, SoldOut
    <2> QED
      BY <2>1, <2>2 DEF IInv, EndMeansClosed
  <1> QED
    BY <1>1, Invariance, PTL

\* Only exit() and the Restart of Stop go on to another iteration.
LEMMA IterationKept ==
    ASSUME Typed, [Next]_vars
    PROVE  \/ model'.iteration = model.iteration
           \/ \E t \in Threads : ExitToNextIteration(t)
           \/ \E t \in {Loop, Watch} : RestartInStop(t)
  <1>1. model \in ModelType
    BY DEF Typed
  <1>2. CASE UNCHANGED vars
    BY <1>2 DEF vars
  <1>3. CASE Disable \/ LoseMutex \/ HotReload \/ Unregister
    BY <1>1, <1>3 DEF Disable, LoseMutex, HotReload, Unregister, ModelType
  <1>4. CASE RunLoop
    <2>1. ASSUME NEW price \in setup.prices, FireOnPrice(Loop, price)
          PROVE  model'.iteration = model.iteration
      <3>1. PICK c : c = CheckLossThenProfit(price)
        OBVIOUS
      <3>2. c.model.iteration = model.iteration
        BY <3>1, PriceFacts
      <3>3. model' = model \/ model' = c.model
        BY <2>1, <3>1 DEF FireOnPrice, CheckWaitEntry, Pass, Fail
      <3> QED
        BY <3>2, <3>3
    <2> QED
      BY <1>4, <2>1 DEF RunLoop, StartRuntime, LeaveLoop
  <1>5. ASSUME NEW t, RunTimer(t)
        PROVE  model'.iteration = model.iteration
    BY <1>1, <1>5 DEF RunTimer, TimerFires, TimerIsLate, AwaitEntry, CancelEntry, FireTimeout,
       MarkTimeout, ModelType
  <1>6. ASSUME NEW t \in Threads, Run(t), ~ExitToNextIteration(t)
        PROVE  model'.iteration = model.iteration
    <2>1. CASE \/ SkipOrder(t) \/ CancelBeforeOrder(t) \/ TryCancelAllOrdersConsistently(t)
               \/ AcceptOrder(t) \/ RejectTriggered(t) \/ ExitToWaitForEntry(t)
               \/ OnStartChecks(t) \/ GoPlaceStops(t) \/ EnterTakeProfit(t) \/ EnterStopLoss(t)
               \/ StartTimer(t)
      BY <2>1 DEF SkipOrder, CancelBeforeOrder, TryCancelAllOrdersConsistently, AcceptOrder,
         RejectTriggered, ExitToWaitForEntry, OnStartChecks, GoPlaceStops, EnterTakeProfit,
         EnterStopLoss, StartTimer
    <2>2. CASE RejectReduceOnly(t) \/ RejectOrder(t)
      BY <1>1, <2>2 DEF RejectReduceOnly, RejectOrder, ModelType
    <2>3. CASE Answer(t)
      <3>1. PICK k : \/ model' = model
                     \/ model' = [model EXCEPT !.orders = Append(@, k)]
        BY <2>3 DEF Answer
      <3> QED
        BY <1>1, <3>1 DEF ModelType
    <2>4. CASE EnterEnd(t) \/ EnterEntry(t)
      BY <1>1, <2>4 DEF EnterEnd, EnterEntry, ModelType
    <2>5. CASE CheckLossAgain(t)
      <3>1. PICK c : c = CheckLoss(-1)
        OBVIOUS
      <3>2. c.model.iteration = model.iteration
        BY <3>1, CheckLossFacts DEF KeptBy
      <3>3. model' = model \/ model' = c.model
        BY <2>5, <3>1 DEF CheckLossAgain, Fail
      <3> QED
        BY <3>2, <3>3
    <2> QED
      BY <1>6, <2>1, <2>2, <2>3, <2>4, <2>5 DEF Run
  <1>7. ASSUME NEW t, RunStop(t), ~RestartInStop(t)
        PROVE  model'.iteration = model.iteration
    BY <1>7 DEF RunStop, StopIsTaken, StopTestsLock, StopClaimsLock, StopPlacesCanceled,
       FinishStop
  <1>8. CASE \E i \in {1, 2} : Sweep(<<"sweep", i>>) \/ CheckLate(<<"late", i>>)
    BY <1>8 DEF Sweep, CheckLate
  <1>9. ASSUME NEW k \in DOMAIN ord, Fill(k) \/ FireOnOrder(k)
        PROVE  model'.iteration = model.iteration
    <2>1. PICK c : c = Booked(ord[k])
      OBVIOUS
    <2>2. c.model.iteration = model.iteration
      BY <2>1, BookedFacts DEF Typed
    <2>3. model' = model \/ model' = c.model
      BY <1>9, <2>1 DEF Fill, FireOnOrder
    <2> QED
      BY <2>2, <2>3
  <1>10. CASE \E k \in canceling : CancelOrder(k)
    BY <1>10 DEF CancelOrder
  <1> QED
    BY <1>2, <1>3, <1>4, <1>5, <1>6, <1>7, <1>8, <1>9, <1>10 DEF Next

\* A futures order without entry timer goes on to its second iteration with nothing left of
\* the first: exit() starts it only when everything bought is sold, and reduce-only orders
\* never sell more.
THEOREM SecondStartsFlat == Spec => StartsFlat
  <1>1. ASSUME IInv, [Next]_vars, model.iteration = 0, model'.iteration # 0, Futures,
               ~setup.entryTimeout
        PROVE  world.pos = 0
    <2>1. CASE Beginning
      BY <2>1 DEF Beginning
    <2>2. CASE Begun
      <3>1. Typed
        BY <2>2 DEF Begun
      <3>2. ASSUME NEW t \in {Loop, Watch}, RestartInStop(t)
            PROVE  FALSE
        <4>1. t \in Threads /\ todo[t] # <<>>
          BY <3>2, ThreadNames DEF RestartInStop, Top
        <4>2. Head(todo[t]).op = "finishStop" /\ Head(todo[t]).timeout
          BY <3>2 DEF RestartInStop, Top
        <4> QED
          BY <1>1, <2>2, <4>1, <4>2, TopFacts DEF Allowed, TimerWork
      <3>3. ASSUME NEW t \in Threads, ExitToNextIteration(t)
            PROVE  world.pos = 0
        <4>1. world.pos <= 0
          BY <1>1, <2>2, <3>3, SoldOut DEF ExitToNextIteration, First
        <4>2. world.pos \in Int /\ world.pos >= 0
          BY <1>1, <3>1 DEF Typed, WorldType
        <4> QED
          BY <4>1, <4>2
      <3> QED
        BY <1>1, <3>1, <3>2, <3>3, IterationKept
    <2> QED
      BY <1>1, <2>1, <2>2 DEF IInv
  <1>2. IInv /\ [Next]_vars =>
           [model.iteration = 0 /\ model'.iteration # 0 /\ Futures /\ ~setup.entryTimeout
              => world.pos = 0]_vars
    BY <1>1
  <1> QED
    BY <1>2, Invariance, PTL DEF Spec, StartsFlat
=============================================================================
