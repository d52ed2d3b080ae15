--------------------------- MODULE Editing_proofs ---------------------------
(***************************************************************************)
(* Theorems about Editing, for every set of setups: while an order waits,  *)
(* an edited entry has replaced the one before it; a position keeps a stop *)
(* at the edited price that is as large as it is; and no old stop is left  *)
(* beside it when the first ones were there before the edit.               *)
(*                                                                         *)
(* The argument: an edit that is not at the exchange yet is a frame of the *)
(* watch, and an order of the kind it replaces is either the latest one or *)
(* a "go CancelOrder" is on its way for it.                                *)
(***************************************************************************)
EXTENDS Editing, SequenceTheorems, FiniteSetTheorems, WellFoundedInduction, TLAPS

-----------------------------------------------------------------------------
(* What goroutines have on their stacks *)

\* What may stand below the first frame: what EditConditions has still to look at.
Later ==
    [op : {"selectLevel", "replaceExit", "saveStrategyConditions"}]
      \cup [op : {"replaceStop"}, step : Stops]

Frames ==
    Later
      \cup [op : {"replaceEntry"}]
      \cup [op : {"place"}, step : Steps]
      \cup [op : {"answer"}, order : Nat]
      \cup [op : {"cancelLevels"}, keep : Seq(Nat), ids : Seq(Nat)]

Stacks == {s \in Seq(Frames) : \A i \in 2 .. Len(s) : s[i] \in Later}

Within(s) == {s[i] : i \in DOMAIN s}

Doing(g) == Within(todo[g])
Below(g) == Within(Tail(todo[g]))

-----------------------------------------------------------------------------
(* The inductive invariant *)

ModelType ==
    [cond : Conditions, saved : Conditions, enabled : BOOLEAN, entered : BOOLEAN,
     executed : Nat, orders : SUBSET Nat, tapIds : Seq(Nat), stopIds : [Stops -> SUBSET Nat]]

OrderType ==
    [step : Steps, qty : Nat \ {0}, price : Nat, got : Nat,
     status : {"open", "filled", "canceled"}, known : BOOLEAN, told : BOOLEAN]

WorldType == [setup : Setups, pos : Nat, edits : Nat \ {0}, triggered : Nat]

Typed ==
    /\ machine \in {"WaitForEntry", "InEntry", "End"}
    /\ model \in ModelType
    /\ target \in Nat
    /\ ord \in Seq(OrderType)
    /\ world \in WorldType
    /\ todo \in [Goroutines -> Stacks]

IsEntry(k) == ord[k].step = "WaitForEntry"
IsLevel(k) == k \in DOMAIN ord /\ ord[k].step = "TakeProfit" /\ ord[k].known
Bought == \E k \in DOMAIN ord : IsEntry(k) /\ ord[k].status = "filled"

\* Which orders a goroutine places.
May(g, step) ==
    /\ g = "entering" => step = "TakeProfit"
    /\ g \in Stops => step \in {g, "Canceled"}

Fits(g, f) ==
    /\ g # "watch" => f.op \in {"place", "answer"}
    /\ f.op = "place" => May(g, f.step)
    /\ f.op = "answer" => f.order \in DOMAIN ord /\ May(g, ord[f.order].step)
    /\ f.op = "cancelLevels" => /\ \A i \in DOMAIN f.keep : IsLevel(f.keep[i])
                                /\ \A i \in DOMAIN f.ids : IsLevel(f.ids[i])

Work == \A g \in Goroutines : \A f \in Doing(g) : Fits(g, f)

\* An order that is not registered yet is one a goroutine has the answer of.
Answered ==
    \A k \in DOMAIN ord :
        \/ ord[k].known
        \/ \E g \in Goroutines : \E f \in Doing(g) : f.op = "answer" /\ f.order = k

\* The lists of ids say which orders are registered, and only those get canceled.
Lists ==
    /\ \A k \in DOMAIN ord : ord[k].told => ord[k].known /\ ord[k].status # "open"
    /\ model.orders = {k \in DOMAIN ord : ord[k].known /\ ord[k].step # "Canceled"}
    /\ \A s \in Stops : model.stopIds[s] = {k \in DOMAIN ord : ord[k].known /\ ord[k].step = s}
    /\ \A i \in DOMAIN model.tapIds : IsLevel(model.tapIds[i])
    /\ canceling \subseteq model.orders

\* The conditions the orders were placed for are those of now, or the watch is to say so.
Saves ==
    /\ world.edits <= Len(setup.conditions)
    /\ \E i \in 1 .. world.edits : model.cond = setup.conditions[i]
    /\ model.saved = model.cond \/ \E f \in Doing("watch") : f.op = "saveStrategyConditions"

\* While the order waits only the watch works, and nobody has heard of a fill of its entry.
Waits ==
    /\ machine = "WaitForEntry" =>
          ~model.entered /\ \A g \in Goroutines \ {"watch"} : todo[g] = <<>>
    /\ \A k \in DOMAIN ord :
          IsEntry(k) /\ ord[k].status = "filled" /\ ord[k].told => machine # "WaitForEntry"

PlacesEntry == \E f \in Doing("watch") : f.op = "place" /\ f.step = "WaitForEntry"
ReplacesEntry == \E f \in Doing("watch") : f.op = "replaceEntry"

\* k is the entry order at the exchange, the others are on their way out.
LastEntry(k) ==
    /\ k \in Open \ canceling /\ IsEntry(k)
    /\ \A j \in Open : IsEntry(j) /\ j # k => j \in canceling
    /\ ~ReplacesEntry => ord[k].price = model.cond.entry

Entries ==
    /\ \A k \in DOMAIN ord : IsEntry(k) => ord[k].qty = Amount
    /\ machine = "WaitForEntry" /\ ~Bought =>
          IF PlacesEntry THEN \A k \in Open : IsEntry(k) => k \in canceling
                         ELSE \E k \in DOMAIN ord : LastEntry(k)

Pending(s) == \E g \in Goroutines : \E f \in Doing(g) : f.op = "place" /\ f.step = s

\* When edits come after the exits were placed: of a kind of stop there is one, but for
\* those on their way out, and none when one is about to be placed.
OldStops ==
    ~setup.early =>
        /\ machine = "WaitForEntry" => world.edits = 1 /\ \A k \in DOMAIN ord : IsEntry(k)
        /\ world.edits = 1 => todo["watch"] = <<>>
        /\ world.edits # 1 => \A g \in Goroutines \ {"watch"} : todo[g] = <<>>
        /\ \A k \in Open : ord[k].step \in Stops /\ Pending(ord[k].step) => k \in canceling
        /\ \A j, k \in Open \ canceling :
              ord[j].step \in Stops /\ ord[k].step = ord[j].step => j = k

\* What an exit sold that nobody has heard of.
Unheard(o) == IF o.step # "WaitForEntry" /\ o.status = "filled" /\ ~o.told THEN o.got ELSE 0

\* h adds up what the first orders sold unheard.
Sums(h) ==
    /\ h \in [0 .. Len(ord) -> Int]
    /\ h[0] = 0
    /\ \A k \in DOMAIN ord : h[k] = h[k - 1] + Unheard(ord[k])

Booking(h) == world.pos = (IF Bought THEN Amount ELSE 0) - model.executed - h[Len(ord)]

\* Somebody is about to place a stop, or to close the position instead.
StopComes ==
    \/ \E f \in Doing("Stoploss") : f.op = "place"
    \/ \E f \in Doing("watch") :
          f.op \in {"place", "replaceStop"} /\ f.step \in {"Stoploss", "Canceled"}

\* The stop that counts.
Stop(k) ==
    /\ k \in Open \ canceling /\ ord[k].step = "Stoploss"
    /\ ord[k].price = model.cond.stop /\ ord[k].qty >= world.pos

Guarded ==
    \/ StopComes
    \/ \E k \in Open : ord[k].step = "Canceled"
    \/ \E k \in DOMAIN ord : Stop(k)

\* Of an order whose entry was not edited.
OneEntry ==
    EntryKept =>
        /\ \A k \in DOMAIN ord : IsEntry(k) => k = 1
        /\ ~PlacesEntry /\ ~ReplacesEntry
        /\ \E h : Sums(h) /\ Booking(h)
        /\ machine # "WaitForEntry" => Bought
        /\ \A k \in DOMAIN ord : ord[k].step = "Canceled" =>
              Bought /\ ord[k].qty = Amount /\ (ord[k].status # "open" => world.pos = 0)
        /\ machine = "InEntry" /\ world.pos > 0 => Guarded

IInv ==
    /\ Typed /\ Work /\ Answered /\ Lists /\ Saves /\ Waits /\ Entries /\ OldStops /\ OneEntry

-----------------------------------------------------------------------------
(* Amounts *)

\* A set of natural numbers that is not empty has a least element.
LEMMA LeastNatural ==
    ASSUME NEW S, S \subseteq Nat, S # {}
    PROVE  \E n \in S : \A m \in S : n <= m
  <1> DEFINE below == {ss \in Nat \X Nat : ss[1] < ss[2]}
  <1>1. OpToRel(<, Nat) = below
    BY Zenon DEF OpToRel
  <1>2. PICK n \in S : \A m \in S : ~(<<m, n>> \in below)
    <2> HIDE DEF below
    <2> QED
      BY <1>1, NatLessThanWellFounded, WFMin
  <1>3. ASSUME NEW m \in S
        PROVE  n <= m
    <2>1. n \in Nat /\ m \in Nat /\ ~(<<m, n>> \in below)
      BY <1>2
    <2>2. ~(m < n)
      BY <2>1
    <2> QED
      BY <2>1, <2>2
  <1> QED
    BY <1>3


\* What a sequence consists of.
LEMMA Element == \A R : \A s \in Seq(R) : \A i \in 1 .. Len(s) : s[i] \in R
  OBVIOUS

\* What the first exit levels sell is a natural number.
LEMMA SoldTyped ==
    ASSUME Exits \in Seq([price : Nat, amount : Nat])
    PROVE  Sold \in [0 .. Len(Exits) -> Nat]
  <1> DEFINE T == Exits
             N == Len(T)
             Adds(m, f) == /\ f \in [0 .. m -> Nat] /\ f[0] = 0
                           /\ \A i \in 1 .. m : f[i] = f[i - 1] + T[i].amount
             Def(f) == [n \in 0 .. N |-> IF n = 0 THEN 0 ELSE f[n - 1] + T[n].amount]
  <1>1. /\ N \in Nat
        /\ \A i \in 1 .. N : T[i].amount \in Nat
    <2> DEFINE R == [price : Nat, amount : Nat]
    <2>1. T \in Seq(R) /\ \A r \in R : r.amount \in Nat
      OBVIOUS
    <2> HIDE DEF T, R
    <2>2. Len(T) \in Nat /\ \A i \in 1 .. Len(T) : T[i] \in R
      BY <2>1, Element
    <2> QED
      BY <2>1, <2>2
  <1>5. Sold = CHOOSE g : g = Def(g)
    BY DEF Sold
  <1> HIDE DEF T, N
  <1>2. ASSUME NEW m \in 0 .. N
        PROVE  \E f : Adds(m, f)
    <2> DEFINE Bad == {n \in 0 .. N : ~\E f : Adds(n, f)}
    <2> HIDE DEF Adds
    <2>1. SUFFICES ASSUME Bad # {} PROVE FALSE
      OBVIOUS
    <2>2. PICK n \in Bad : \A k \in Bad : n <= k
      <3>1. Bad \subseteq Nat
        BY <1>1
      <3> HIDE DEF Bad
      <3> QED
        BY <2>1, <3>1, LeastNatural
    <2>3. n \in 0 .. N /\ ~\E f : Adds(n, f)
      BY <2>2
    <2>4. CASE n = 0
      <3>1. Adds(0, [k \in 0 .. 0 |-> 0])
        BY DEF Adds
      <3> QED
        BY <2>3, <2>4, <3>1
    <2>5. CASE n # 0
      <3>1. n - 1 \in 0 .. N /\ ~(n <= n - 1)
        BY <1>1, <2>3, <2>5
      <3>2. n - 1 \notin Bad
        BY <2>2, <3>1
      <3>3. PICK f : Adds(n - 1, f)
        BY <3>1, <3>2
      <3>4. PICK g : g = [k \in 0 .. n |-> IF k = n THEN f[n - 1] + T[n].amount ELSE f[k]]
        OBVIOUS
      <3>5. Adds(n, g)
        BY <1>1, <2>3, <2>5, <3>3, <3>4 DEF Adds
      <3> QED
        BY <2>3, <3>5
    <2> QED
      BY <2>4, <2>5
  <1>3. PICK f : Adds(N, f)
    <2>1. N \in 0 .. N
      BY <1>1
    <2> HIDE DEF Adds
    <2> QED
      BY <2>1, <1>2
  <1>4. f = Def(f)
    BY <1>1, <1>3
  <1>6. Sold = Def(Sold)
    <2> HIDE DEF Def
    <2> QED
      BY <1>4, <1>5
  <1>7. /\ Sold = [n \in 0 .. N |-> Sold[n]] /\ Sold[0] = 0
        /\ \A n \in 1 .. N : Sold[n] = Sold[n - 1] + T[n].amount
    <2> DEFINE V == Sold
    <2>1. V = Def(V)
      BY <1>6
    <2> HIDE DEF V
    <2>2. /\ V = [n \in 0 .. N |-> V[n]] /\ V[0] = 0
          /\ \A n \in 1 .. N : V[n] = V[n - 1] + T[n].amount
      <3>1. /\ V = [n \in 0 .. N |-> V[n]]
            /\ \A n \in 0 .. N : V[n] = IF n = 0 THEN 0 ELSE V[n - 1] + T[n].amount
        BY <2>1
      <3>2. 0 \in 0 .. N /\ \A n \in 1 .. N : n \in 0 .. N /\ n # 0
        BY <1>1
      <3> QED
        BY <3>1, <3>2
    <2> QED
      BY <2>2 DEF V
  <1>8. \A n \in 0 .. N : Sold[n] \in Nat
    <2> DEFINE V == Sold
               Bad == {n \in 0 .. N : V[n] \notin Nat}
    <2> HIDE DEF V
    <2>1. SUFFICES ASSUME Bad # {} PROVE FALSE
      BY DEF V
    <2>2. PICK n \in Bad : \A k \in Bad : n <= k
      <3>1. Bad \subseteq Nat
        BY <1>1
      <3> HIDE DEF Bad
      <3> QED
        BY <2>1, <3>1, LeastNatural
    <2>3. V[0] = 0 /\ \A i \in 1 .. N : V[i] = V[i - 1] + T[i].amount
      BY <1>7 DEF V
    <2>4. n \in 1 .. N /\ n - 1 \in 0 .. N /\ ~(n <= n - 1)
      BY <1>1, <2>2, <2>3
    <2>5. V[n - 1] \in Nat
      BY <2>2, <2>4
    <2> QED
      BY <1>1, <2>2, <2>3, <2>4, <2>5
  <1> QED
    BY <1>7, <1>8 DEF T, N

-----------------------------------------------------------------------------
(* Frames and stacks *)

\* The fields of a frame, by what it does.
LEMMA FrameFacts ==
    ASSUME NEW f \in Frames
    PROVE  /\ f.op = "answer" => f.order \in Nat /\ f = [op |-> "answer", order |-> f.order]
           /\ f.op = "place" => f.step \in Steps
           /\ f.op = "replaceStop" => f.step \in Stops
           /\ f.op = "cancelLevels" => f.keep \in Seq(Nat) /\ f.ids \in Seq(Nat)
           /\ f \in Later => f.op \in {"selectLevel", "replaceExit", "saveStrategyConditions",
                                       "replaceStop"}
  BY DEF Frames, Later

\* The frames that actions make.
LEMMA NewFrames ==
    /\ Later \subseteq Frames
    /\ \A op \in {"selectLevel", "replaceExit", "saveStrategyConditions"} : Do(op) \in Later
    /\ \A s \in Stops : [op |-> "replaceStop", step |-> s] \in Later
    /\ Do("replaceEntry") \in Frames
    /\ \A s \in Steps : Place(s) \in Frames
    /\ \A k \in Nat : [op |-> "answer", order |-> k] \in Frames
    /\ \A s, t \in Seq(Nat) : [op |-> "cancelLevels", keep |-> s, ids |-> t] \in Frames
  <1>1. /\ Later \subseteq Frames
        /\ \A k \in Nat : [op |-> "answer", order |-> k] \in Frames
        /\ \A s, t \in Seq(Nat) : [op |-> "cancelLevels", keep |-> s, ids |-> t] \in Frames
    BY DEF Frames
  <1>2. /\ \A op \in {"selectLevel", "replaceExit", "saveStrategyConditions"} : Do(op) \in Later
        /\ \A s \in Stops : [op |-> "replaceStop", step |-> s] \in Later
    BY DEF Later, Do
  <1>3. Do("replaceEntry") \in Frames /\ \A s \in Steps : Place(s) \in Frames
    BY DEF Frames, Do, Place
  <1> QED
    BY <1>1, <1>2, <1>3

\* The goroutines, and what they may place.
LEMMA Kinds ==
    /\ Stops = {"Stoploss", "ForcedLoss"}
    /\ Goroutines = {"Stoploss", "ForcedLoss", "entering", "watch"}
    /\ Steps = {"Stoploss", "ForcedLoss", "WaitForEntry", "TakeProfit", "Canceled"}
    /\ Stops \subseteq Steps /\ Stops \subseteq Goroutines
  BY DEF Stops, Goroutines, Steps

\* A stack is its first frame and what is below it.
LEMMA Pop ==
    ASSUME NEW s \in Stacks, s # <<>>
    PROVE  /\ Head(s) \in Frames /\ Tail(s) \in Seq(Later)
           /\ Within(s) = {Head(s)} \cup Within(Tail(s))
           /\ Within(Tail(s)) \subseteq Later
  <1>1. s \in Seq(Frames) /\ \A i \in 2 .. Len(s) : s[i] \in Later
    BY DEF Stacks
  <1>2. /\ Head(s) = s[1] /\ s[1] \in Frames
        /\ Tail(s) \in Seq(Frames) /\ Len(Tail(s)) = Len(s) - 1
        /\ \A i \in 1 .. Len(s) - 1 : Tail(s)[i] = s[i + 1]
        /\ Len(s) \in Nat \ {0} /\ DOMAIN s = 1 .. Len(s)
        /\ DOMAIN Tail(s) = 1 .. Len(s) - 1
    BY <1>1
  <1> DEFINE t == Tail(s)
             n == Len(s)
  <1>3. /\ t \in Seq(Frames) /\ Len(t) = n - 1 /\ n \in Nat \ {0}
        /\ DOMAIN t = 1 .. n - 1 /\ DOMAIN s = 1 .. n
        /\ \A i \in 1 .. n - 1 : t[i] = s[i + 1]
        /\ \A i \in 2 .. n : s[i] \in Later
    BY <1>1, <1>2
  <1> HIDE DEF t, n
  <1>4. \A i \in 1 .. n - 1 : i + 1 \in 2 .. n /\ i + 1 \in 1 .. n
    BY <1>3
  <1>5. \A i \in 1 .. n - 1 : t[i] \in Later
    BY <1>3, <1>4
  <1>6. t \in Seq(Later)
    BY <1>3, <1>5, SeqDef
  <1>7. ASSUME NEW i \in 1 .. n
        PROVE  i = 1 \/ (i - 1 \in 1 .. n - 1 /\ s[i] = t[i - 1])
    BY <1>3
  <1>8. 1 \in 1 .. n
    BY <1>3
  <1>9. Within(s) = {s[1]} \cup Within(t)
    <2>1. ASSUME NEW f \in Within(s)
          PROVE  f = s[1] \/ f \in Within(t)
      <3>1. PICK i \in 1 .. n : f = s[i]
        BY <1>3, <2>1 DEF Within
      <3>2. i = 1 \/ (i - 1 \in 1 .. n - 1 /\ s[i] = t[i - 1])
        BY <1>7
      <3> QED
        BY <1>3, <3>1, <3>2 DEF Within
    <2>2. ASSUME NEW f \in Within(t)
          PROVE  f \in Within(s)
      BY <1>3, <1>4, <2>2 DEF Within
    <2>3. s[1] \in Within(s)
      BY <1>3, <1>8 DEF Within
    <2> QED
      BY <2>1, <2>2, <2>3
  <1>10. Within(t) \subseteq Later
    BY <1>3, <1>5 DEF Within
  <1> QED
    BY <1>2, <1>6, <1>9, <1>10 DEF t

\* Instead of the first frame there is another one, or none.
LEMMA Push ==
    ASSUME NEW s \in Seq(Later)
    PROVE  /\ <<>> \o s \in Stacks /\ Within(<<>> \o s) = Within(s)
           /\ \A f \in Frames : /\ <<f>> \o s \in Stacks
                                /\ Within(<<f>> \o s) = {f} \cup Within(s)
  <1>1. Later \subseteq Frames
    BY NewFrames
  <1>2. s \in Seq(Frames) /\ Len(s) \in Nat /\ DOMAIN s = 1 .. Len(s)
    BY <1>1
  <1>3. <<>> \o s = s
    BY <1>2
  <1>4. s \in Stacks
    BY <1>2 DEF Stacks
  <1>5. ASSUME NEW f \in Frames
        PROVE  /\ <<f>> \o s \in Stacks
               /\ Within(<<f>> \o s) = {f} \cup Within(s)
    <2> DEFINE c == <<f>> \o s
               n == Len(s)
    <2>1. /\ c \in Seq(Frames) /\ Len(c) = n + 1 /\ n \in Nat
          /\ DOMAIN c = 1 .. n + 1 /\ DOMAIN s = 1 .. n
          /\ c[1] = f /\ \A i \in 1 .. n : c[i + 1] = s[i]
          /\ \A i \in 2 .. n + 1 : c[i] = s[i - 1]
          /\ \A i \in 1 .. n : s[i] \in Later
      BY <1>2
    <2> HIDE DEF c, n
    <2>2. \A i \in 2 .. n + 1 : i - 1 \in 1 .. n
      BY <2>1
    <2>3. c \in Stacks
      BY <2>1, <2>2 DEF Stacks
    <2>4. ASSUME NEW x \in Within(c) PROVE x = f \/ x \in Within(s)
      <3>1. PICK i \in 1 .. n + 1 : x = c[i]
        BY <2>1, <2>4 DEF Within
      <3>2. i = 1 \/ i \in 2 .. n + 1
        BY <2>1
      <3> QED
        BY <2>1, <2>2, <3>1, <3>2 DEF Within
    <2>5. ASSUME NEW x \in Within(s) PROVE x \in Within(c)
      <3>1. PICK i \in 1 .. n : x = s[i]
        BY <2>1, <2>5 DEF Within
      <3>2. i + 1 \in 1 .. n + 1
        BY <2>1
      <3> QED
        BY <2>1, <3>1, <3>2 DEF Within
    <2>6. f \in Within(c)
      <3>1. 1 \in 1 .. n + 1
        BY <2>1
      <3> QED
        BY <2>1, <3>1 DEF Within
    <2> QED
      BY <2>3, <2>4, <2>5, <2>6 DEF c
  <1> QED
    BY <1>3, <1>4, <1>5

\* A goroutine does what it is at, and new is what it has to do instead.
Goes(g, new) ==
    \/ todo' = Then(g, <<>>) /\ new = {}
    \/ \E f \in Frames : todo' = Then(g, <<f>>) /\ new = {f}

\* Only that goroutine moves, and it keeps what is below.
LEMMA GoesFacts ==
    ASSUME Typed, NEW g \in Goroutines, todo[g] # <<>>, NEW new, Goes(g, new)
    PROVE  /\ todo' \in [Goroutines -> Stacks]
           /\ Doing(g)' = new \cup Below(g)
           /\ \A h \in Goroutines : h # g => todo'[h] = todo[h] /\ Doing(h)' = Doing(h)
  <1>1. todo \in [Goroutines -> Stacks] /\ todo[g] \in Stacks
    BY DEF Typed
  <1>2. Tail(todo[g]) \in Seq(Later)
    BY <1>1, Pop
  <1>3. PICK s : /\ s \in Stacks /\ todo' = [todo EXCEPT ![g] = s]
                 /\ Within(s) = new \cup Below(g)
    <2>1. CASE todo' = Then(g, <<>>) /\ new = {}
      <3>1. todo' = [todo EXCEPT ![g] = <<>> \o Tail(todo[g])]
        BY <2>1 DEF Then
      <3>2. <<>> \o Tail(todo[g]) \in Stacks /\ Within(<<>> \o Tail(todo[g])) = Below(g)
        BY <1>2, Push DEF Below
      <3> QED
        BY <2>1, <3>1, <3>2
    <2>2. ASSUME NEW f \in Frames, todo' = Then(g, <<f>>), new = {f}
          PROVE  \E s : /\ s \in Stacks /\ todo' = [todo EXCEPT ![g] = s]
                        /\ Within(s) = new \cup Below(g)
      <3>1. todo' = [todo EXCEPT ![g] = <<f>> \o Tail(todo[g])]
        BY <2>2 DEF Then
      <3>2. /\ <<f>> \o Tail(todo[g]) \in Stacks
            /\ Within(<<f>> \o Tail(todo[g])) = {f} \cup Below(g)
        BY <1>2, Push DEF Below
      <3> QED
        BY <2>2, <3>1, <3>2
    <2> QED
      BY <2>1, <2>2 DEF Goes
  <1> QED
    BY <1>1, <1>3 DEF Doing

\* What a goroutine is at, and what it does later.
LEMMA AtWork ==
    ASSUME Typed, NEW g \in Goroutines, todo[g] # <<>>
    PROVE  /\ Head(todo[g]) \in Frames /\ Head(todo[g]) \in Doing(g)
           /\ Doing(g) = {Head(todo[g])} \cup Below(g)
           /\ Below(g) \subseteq Later /\ Doing(g) \subseteq Frames
  <1>1. todo[g] \in Stacks
    BY DEF Typed
  <1> QED
    BY <1>1, Pop, NewFrames DEF Doing, Below

\* A goroutine that is idle has nothing to do, and all it does are frames.
LEMMA Frameworks ==
    ASSUME Typed
    PROVE  /\ \A g \in Goroutines : todo[g] = <<>> => Doing(g) = {}
           /\ \A g \in Goroutines : Doing(g) \subseteq Frames
  <1>1. ASSUME NEW g \in Goroutines, todo[g] = <<>>
        PROVE  Doing(g) = {}
    BY <1>1 DEF Doing, Within
  <1>2. ASSUME NEW g \in Goroutines
        PROVE  Doing(g) \subseteq Frames
    BY <1>1, <1>2, AtWork
  <1> QED
    BY <1>1, <1>2

-----------------------------------------------------------------------------
(* Orders *)

\* One order changes.
LEMMA OneOrder ==
    ASSUME Typed, NEW k \in DOMAIN ord, NEW o \in OrderType, ord' = [ord EXCEPT ![k] = o]
    PROVE  /\ ord' \in Seq(OrderType) /\ Len(ord') = Len(ord) /\ DOMAIN ord' = DOMAIN ord
           /\ ord'[k] = o /\ \A j \in DOMAIN ord : j # k => ord'[j] = ord[j]
  <1>1. ord \in Seq(OrderType) /\ DOMAIN ord = 1 .. Len(ord)
    BY DEF Typed
  <1> QED
    BY <1>1, ExceptSeq

\* What an order sold unheard is a natural number.
LEMMA UnheardTyped == \A o \in OrderType : Unheard(o) \in Nat
  BY DEF OrderType, Unheard

\* What never goes down from zero is not negative.
LEMMA Climb ==
    ASSUME NEW n \in Nat, NEW h \in [0 .. n -> Int], h[0] = 0,
           \A k \in 1 .. n : h[k] >= h[k - 1]
    PROVE  h[n] >= 0
  <1> DEFINE Bad == {k \in 0 .. n : h[k] < 0}
  <1>1. SUFFICES ASSUME Bad # {} PROVE FALSE
    OBVIOUS
  <1>2. PICK k \in Bad : \A j \in Bad : k <= j
    <2>1. Bad \subseteq Nat
      OBVIOUS
    <2> HIDE DEF Bad
    <2> QED
      BY <1>1, <2>1, LeastNatural
  <1>3. k \in 1 .. n /\ k - 1 \in 0 .. n /\ ~(k <= k - 1)
    BY <1>2
  <1>4. h[k - 1] >= 0
    BY <1>2, <1>3
  <1> QED
    BY <1>2, <1>3, <1>4

\* What orders sold unheard is not negative, and zero when all have been heard of.
LEMMA SumsArePositive ==
    ASSUME Typed, NEW h, Sums(h)
    PROVE  /\ h[Len(ord)] \in Int /\ h[Len(ord)] >= 0
           /\ (\A k \in DOMAIN ord : Unheard(ord[k]) = 0) => h[Len(ord)] = 0
  <1> DEFINE n == Len(ord)
  <1>1. /\ n \in Nat /\ DOMAIN ord = 1 .. n
        /\ \A k \in 1 .. n : Unheard(ord[k]) \in Nat
    <2>1. ord \in Seq(OrderType)
      BY DEF Typed
    <2> QED
      BY <2>1, UnheardTyped
  <1>2. /\ h \in [0 .. n -> Int] /\ h[0] = 0
        /\ \A k \in 1 .. n : h[k] = h[k - 1] + Unheard(ord[k])
    BY <1>1 DEF Sums
  <1> HIDE DEF n
  <1>3. \A k \in 1 .. n : h[k] \in Int /\ h[k - 1] \in Int
    BY <1>1, <1>2
  <1>4. h[n] >= 0 /\ h[n] \in Int
    <2>1. \A k \in 1 .. n : h[k] >= h[k - 1]
      BY <1>1, <1>2, <1>3
    <2>2. n \in Nat /\ h \in [0 .. n -> Int] /\ h[0] = 0 /\ h[n] \in Int
      BY <1>1, <1>2
    <2> QED
      BY <2>1, <2>2, Climb
  <1>5. ASSUME \A k \in 1 .. n : Unheard(ord[k]) = 0
        PROVE  h[n] = 0
    <2> DEFINE g == [k \in 0 .. n |-> 0 - h[k]]
    <2>1. g \in [0 .. n -> Int] /\ g[0] = 0 /\ g[n] = 0 - h[n]
      BY <1>1, <1>2
    <2>2. \A k \in 1 .. n : g[k] >= g[k - 1]
      BY <1>1, <1>2, <1>3, <1>5
    <2> HIDE DEF g
    <2>3. g[n] >= 0
      BY <1>1, <2>1, <2>2, Climb
    <2> QED
      BY <1>4, <2>1, <2>3
  <1> QED
    BY <1>1, <1>4, <1>5 DEF n

\* One more order that is open.
LEMMA SumsAppend ==
    ASSUME Typed, NEW h, Sums(h), NEW o \in OrderType, o.status = "open", ord' = Append(ord, o)
    PROVE  \E g : Sums(g)' /\ g[Len(ord')] = h[Len(ord)]
  <1>0. PICK n : n = Len(ord)
    OBVIOUS
  <1> PICK g : g = [k \in 0 .. n + 1 |-> IF k <= n THEN h[k] ELSE h[n]]
    OBVIOUS
  <1>1. /\ n \in Nat /\ DOMAIN ord = 1 .. n /\ Len(ord') = n + 1 /\ DOMAIN ord' = 1 .. n + 1
        /\ ord'[n + 1] = o /\ \A k \in 1 .. n : ord'[k] = ord[k]
    BY <1>0 DEF Typed
  <1>2. /\ h \in [0 .. n -> Int] /\ h[0] = 0
        /\ \A k \in 1 .. n : h[k] = h[k - 1] + Unheard(ord[k])
    BY <1>0, <1>1 DEF Sums
  <1>3. Unheard(o) = 0
    BY DEF Unheard
  <1>4. g \in [0 .. n + 1 -> Int] /\ g[0] = 0 /\ g[n + 1] = h[n]
    BY <1>1, <1>2
  <1>5. ASSUME NEW k \in 1 .. n + 1
        PROVE  g[k] = g[k - 1] + Unheard(ord'[k])
    <2>1. CASE k = n + 1
      BY <1>1, <1>2, <1>3, <2>1
    <2>2. CASE k \in 1 .. n
      BY <1>1, <1>2, <2>2
    <2> QED
      BY <1>1, <2>1, <2>2
  <1>6. Sums(g)'
    BY <1>1, <1>4, <1>5 DEF Sums
  <1> QED
    BY <1>0, <1>1, <1>4, <1>6

\* What is sold unheard when one order changes.
LEMMA Resum ==
    ASSUME Typed, NEW h, Sums(h), NEW k \in DOMAIN ord, NEW o \in OrderType,
           ord' = [ord EXCEPT ![k] = o]
    PROVE  \E g : Sums(g)' /\ g[Len(ord')] = h[Len(ord)] + Unheard(o) - Unheard(ord[k])
  <1>0. PICK n, d : n = Len(ord) /\ d = Unheard(o) - Unheard(ord[k])
    OBVIOUS
  <1> PICK g : g = [j \in 0 .. n |-> IF j < k THEN h[j] ELSE h[j] + d]
    OBVIOUS
  <1>1. /\ n \in Nat /\ DOMAIN ord = 1 .. n /\ DOMAIN ord' = 1 .. n /\ Len(ord') = n
        /\ ord'[k] = o /\ \A j \in 1 .. n : j # k => ord'[j] = ord[j]
    BY <1>0, OneOrder DEF Typed
  <1>2. /\ h \in [0 .. n -> Int] /\ h[0] = 0
        /\ \A j \in 1 .. n : h[j] = h[j - 1] + Unheard(ord[j])
    BY <1>0, <1>1 DEF Sums
  <1>3. \A j \in 1 .. n : Unheard(ord[j]) \in Nat
    <2>1. ord \in Seq(OrderType)
      BY DEF Typed
    <2> QED
      BY <1>1, <2>1, UnheardTyped
  <1>4. d \in Int /\ Unheard(o) \in Int /\ Unheard(o) = Unheard(ord[k]) + d
    BY <1>0, <1>1, <1>3, UnheardTyped
  <1>5. k \in 1 .. n
    BY <1>1
  <1>6. g \in [0 .. n -> Int] /\ g[0] = 0 /\ g[n] = h[n] + d
    BY <1>1, <1>2, <1>4, <1>5
  <1>7. ASSUME NEW j \in 1 .. n
        PROVE  g[j] = g[j - 1] + Unheard(ord'[j])
    <2>1. h[j] \in Int /\ h[j - 1] \in Int /\ Unheard(ord[j]) \in Int
      BY <1>1, <1>2, <1>3
    <2>2. CASE j < k
      BY <1>1, <1>2, <1>5, <2>1, <2>2
    <2>3. CASE j = k
      BY <1>1, <1>2, <1>4, <1>5, <2>1, <2>3
    <2>4. CASE j > k
      BY <1>1, <1>2, <1>4, <1>5, <2>1, <2>4
    <2> QED
      BY <1>5, <2>2, <2>3, <2>4
  <1>8. Sums(g)'
    BY <1>1, <1>6, <1>7 DEF Sums
  <1>9. g[Len(ord')] = h[Len(ord)] + Unheard(o) - Unheard(ord[k])
    <2>1. h[n] \in Int /\ Unheard(ord[k]) \in Int
      BY <1>1, <1>2, <1>3, <1>5
    <2>2. g[Len(ord')] = h[n] + d
      BY <1>1, <1>6
    <2> QED
      BY <1>0, <1>4, <2>1, <2>2
  <1> QED
    BY <1>8, <1>9


-----------------------------------------------------------------------------
(* Setups, and what is asked of the exchange *)

\* What the assumption says of the setup that runs.
LEMMA SetupFacts ==
    ASSUME Typed
    PROVE  /\ setup \in SetupType /\ Amount \in Nat \ {0} /\ setup.early \in BOOLEAN
           /\ setup.conditions \in Seq(Conditions) /\ Len(setup.conditions) \in Nat
           /\ world.edits \in Nat \ {0} /\ world.pos \in Nat
           /\ \A i \in 1 .. Len(setup.conditions) : setup.conditions[i] \in Conditions
  <1>1. /\ world.setup \in Setups /\ world.edits \in Nat \ {0} /\ world.pos \in Nat
    BY DEF Typed, WorldType
  <1>2. world.setup \in SetupType
    BY <1>1, EditingAssumption
  <1>3. /\ world.setup.amount \in Nat \ {0} /\ world.setup.early \in BOOLEAN
        /\ world.setup.conditions \in Seq(Conditions)
    BY <1>2 DEF SetupType
  <1> QED
    BY <1>1, <1>2, <1>3 DEF setup, Amount

\* An edit does not change what was asked for at first.
LEMMA SameSetup ==
    ASSUME world'.setup = world.setup
    PROVE  setup' = setup /\ Amount' = Amount
  BY DEF setup, Amount

\* What the strategy keeps.
LEMMA ModelFacts ==
    ASSUME Typed
    PROVE  /\ model.cond \in Conditions /\ model.saved \in Conditions
           /\ model.cond.entry \in Nat /\ model.cond.stop \in Nat /\ model.cond.forced \in Nat
           /\ Exits \in Seq([price : Nat, amount : Nat]) /\ Len(Exits) \in Nat
           /\ model.enabled \in BOOLEAN /\ model.entered \in BOOLEAN /\ model.executed \in Nat
           /\ model.tapIds \in Seq(Nat)
  <1>1. /\ model.cond \in Conditions /\ model.saved \in Conditions /\ model.executed \in Nat
        /\ model.enabled \in BOOLEAN /\ model.entered \in BOOLEAN /\ model.tapIds \in Seq(Nat)
    BY DEF Typed, ModelType
  <1>2. /\ model.cond.entry \in Nat /\ model.cond.stop \in Nat /\ model.cond.forced \in Nat
        /\ model.cond.exits \in Seq([price : Nat, amount : Nat])
    BY <1>1 DEF Conditions
  <1> QED
    BY <1>1, <1>2 DEF Exits

\* What an order that is asked for says, and when it can be taken.
LEMMA RequestFacts ==
    ASSUME Typed, NEW s \in Steps, s = "TakeProfit" => target < Len(Exits)
    PROVE  /\ Request(s).step = s /\ Request(s).status = "open" /\ Request(s).got = 0
           /\ ~Request(s).known /\ ~Request(s).told /\ Request(s).qty \in Int
           /\ s \in {"WaitForEntry", "ForcedLoss", "Canceled"} => Request(s).qty = Amount
           /\ s = "WaitForEntry" => Request(s).price = model.cond.entry
           /\ s = "Stoploss" => /\ Request(s).qty = Amount - model.executed
                                /\ Request(s).price = model.cond.stop
           /\ Request(s).qty > 0 => Request(s) \in OrderType
  <1>1. /\ Amount \in Nat \ {0} /\ model.executed \in Nat
        /\ model.cond.entry \in Nat /\ model.cond.stop \in Nat /\ model.cond.forced \in Nat
    BY SetupFacts, ModelFacts
  <1>2. s \in {"WaitForEntry", "TakeProfit", "Stoploss", "ForcedLoss", "Canceled"}
    BY Kinds
  <1>3. \A q \in Int, p \in Nat : /\ Order(s, q, p).step = s /\ Order(s, q, p).status = "open"
                                  /\ Order(s, q, p).got = 0 /\ ~Order(s, q, p).known
                                  /\ ~Order(s, q, p).told /\ Order(s, q, p).qty = q
                                  /\ Order(s, q, p).price = p
                                  /\ q > 0 => Order(s, q, p) \in OrderType
    BY DEF Order, OrderType
  <1>4. CASE s = "TakeProfit"
    <2>1. target \in Nat /\ target < Len(Exits) /\ Len(Exits) \in Nat
          /\ Exits \in Seq([price : Nat, amount : Nat])
      BY <1>4, ModelFacts DEF Typed
    <2>2. target + 1 \in 1 .. Len(Exits) /\ Len(Exits) - 1 \in 0 .. Len(Exits)
      BY <2>1
    <2>3. Exits[target + 1] \in [price : Nat, amount : Nat]
      BY <2>1, <2>2, Element
    <2>4. Exits[target + 1].price \in Nat /\ Exits[target + 1].amount \in Nat
      BY <2>3
    <2>5. Sold[Len(Exits) - 1] \in Nat
      BY <2>1, <2>2, SoldTyped
    <2>6. LevelAmount(target + 1) \in Int
      BY <1>1, <2>4, <2>5 DEF LevelAmount
    <2>7. Request(s) = Order(s, LevelAmount(target + 1), Exits[target + 1].price)
      BY <1>4 DEF Request
    <2> QED
      BY <1>3, <1>4, <2>4, <2>6, <2>7
  <1>5. CASE s = "WaitForEntry"
    <2>1. Request(s) = Order(s, Amount, model.cond.entry)
      BY <1>5 DEF Request
    <2> QED
      BY <1>1, <1>3, <1>5, <2>1
  <1>6. CASE s = "Stoploss"
    <2>1. Request(s) = Order(s, Amount - model.executed, model.cond.stop)
      BY <1>6 DEF Request
    <2>2. Amount - model.executed \in Int
      BY <1>1
    <2> QED
      BY <1>1, <1>3, <1>6, <2>1, <2>2
  <1>7. CASE s = "ForcedLoss"
    <2>1. Request(s) = Order(s, Amount, model.cond.forced)
      BY <1>7 DEF Request
    <2> QED
      BY <1>1, <1>3, <1>7, <2>1
  <1>8. CASE s = "Canceled"
    <2>1. Request(s) = Order(s, Amount, 0)
      BY <1>8 DEF Request
    <2> QED
      BY <1>1, <1>3, <1>8, <2>1
  <1> QED
    BY <1>2, <1>4, <1>5, <1>6, <1>7, <1>8

-----------------------------------------------------------------------------
(* The invariant holds at first *)

\* The order of the entry is open, and nobody has anything to do.
LEMMA InitInv == Init => IInv
  <1> SUFFICES ASSUME Init PROVE IInv
    OBVIOUS
  <1>1. PICK s \in Setups :
          /\ model = [cond |-> s.conditions[1], saved |-> s.conditions[1], enabled |-> TRUE,
                      entered |-> FALSE, executed |-> 0, orders |-> {1}, tapIds |-> <<>>,
                      stopIds |-> [step \in Stops |-> {}]]
          /\ ord = <<[Order("WaitForEntry", s.amount, s.conditions[1].entry)
                        EXCEPT !.known = TRUE]>>
          /\ world = [setup |-> s, pos |-> 0, edits |-> 1, triggered |-> 0]
    BY Zenon DEF Init
  <1>2. /\ s \in SetupType /\ s.conditions # <<>> /\ s.conditions \in Seq(Conditions)
        /\ s.amount \in Nat \ {0} /\ s.early \in BOOLEAN
    BY EditingAssumption DEF SetupType
  <1>3. PICK c : c = s.conditions[1]
    OBVIOUS
  <1>4. c \in Conditions /\ c.entry \in Nat /\ Len(s.conditions) \in Nat \ {0}
    <2>1. Len(s.conditions) \in Nat \ {0}
      BY <1>2
    <2>2. c \in Conditions
      BY <1>2, <1>3, <2>1, Element
    <2> QED
      BY <2>1, <2>2 DEF Conditions
  <1>5. PICK o : o = [Order("WaitForEntry", s.amount, s.conditions[1].entry) EXCEPT !.known = TRUE]
    OBVIOUS
  <1>6. /\ o \in OrderType /\ o.step = "WaitForEntry" /\ o.qty = s.amount /\ o.price = c.entry
        /\ o.status = "open" /\ o.known /\ ~o.told
    BY <1>2, <1>3, <1>4, <1>5 DEF Order, OrderType, Steps
  <1>7. /\ ord = <<o>> /\ DOMAIN ord = {1} /\ ord[1] = o /\ Len(ord) = 1
        /\ ord \in Seq(OrderType)
    BY <1>1, <1>5, <1>6
  <1>8. /\ machine = "WaitForEntry" /\ target = 0 /\ canceling = {}
        /\ todo = [g \in Goroutines |-> <<>>]
    BY DEF Init
  <1>9. /\ \A g \in Goroutines : todo[g] = <<>> /\ Doing(g) = {}
        /\ "watch" \in Goroutines /\ "Stoploss" \in Goroutines
    BY <1>8, Kinds DEF Doing, Within
  <1>10. /\ model.cond = c /\ model.saved = c /\ ~model.entered /\ model.executed = 0
         /\ model.orders = {1} /\ model.tapIds = <<>>
         /\ \A step \in Stops : model.stopIds[step] = {}
    BY <1>1, <1>3
  <1>11. /\ world.setup = s /\ world.pos = 0 /\ world.edits = 1 /\ setup = s
         /\ Amount = s.amount
    BY <1>1 DEF setup, Amount
  <1>12. Typed
    <2>1. model \in ModelType
      <3>1. {1} \in SUBSET Nat /\ <<>> \in Seq(Nat)
        OBVIOUS
      <3>2. PICK ids : ids = [step \in Stops |-> {}]
        OBVIOUS
      <3>3. ids \in [Stops -> SUBSET Nat]
        BY <3>2
      <3>4. model = [cond |-> c, saved |-> c, enabled |-> TRUE, entered |-> FALSE,
                     executed |-> 0, orders |-> {1}, tapIds |-> <<>>, stopIds |-> ids]
        BY <1>1, <1>3, <3>2
      <3> QED
        BY <1>4, <3>1, <3>3, <3>4 DEF ModelType
    <2>2. world \in WorldType
      BY <1>1 DEF WorldType
    <2>3. todo \in [Goroutines -> Stacks]
      <3>1. <<>> \in Stacks
        BY DEF Stacks
      <3> QED
        BY <1>8, <3>1
    <2> QED
      BY <1>7, <1>8, <2>1, <2>2, <2>3 DEF Typed
  <1>13. Open = {1} /\ IsEntry(1) /\ ~Bought /\ ~PlacesEntry
    BY <1>6, <1>7, <1>9 DEF Open, IsEntry, Bought, PlacesEntry
  <1>14. Work /\ Answered /\ Waits
    BY <1>6, <1>7, <1>8, <1>9, <1>10 DEF Work, Answered, Waits, IsEntry
  <1>15. Lists
    BY <1>6, <1>7, <1>8, <1>10, Kinds DEF Lists
  <1>16. Saves
    BY <1>1, <1>4, <1>10, <1>11 DEF Saves
  <1>17. Entries
    <2>1. LastEntry(1)
      BY <1>6, <1>7, <1>8, <1>10, <1>13 DEF LastEntry
    <2> QED
      BY <1>6, <1>7, <1>11, <1>13, <2>1 DEF Entries
  <1>18. OldStops
    BY <1>6, <1>7, <1>8, <1>9, <1>11, <1>13 DEF OldStops, Pending, IsEntry
  <1>19. OneEntry
    <2> PICK h : h = [k \in 0 .. 1 |-> 0]
      OBVIOUS
    <2>1. Sums(h)
      BY <1>6, <1>7 DEF Sums, Unheard
    <2>2. Booking(h)
      BY <1>7, <1>10, <1>11, <1>13 DEF Booking
    <2>3. ~ReplacesEntry
      BY <1>9 DEF ReplacesEntry
    <2>4. \A k \in DOMAIN ord : k = 1 /\ ord[k].step # "Canceled"
      BY <1>6, <1>7
    <2> QED
      BY <1>8, <1>13, <2>1, <2>2, <2>3, <2>4 DEF OneEntry
  <1> QED
    BY <1>12, <1>14, <1>15, <1>16, <1>17, <1>18, <1>19 DEF IInv

-----------------------------------------------------------------------------
(* Steps that leave the orders alone *)

\* What a goroutine does fits as long as orders stay what they are.
LEMMA FitsStays ==
    ASSUME DOMAIN ord \subseteq DOMAIN ord',
           \A k \in DOMAIN ord : /\ ord'[k].step = ord[k].step
                                 /\ ord[k].known => ord'[k].known,
           NEW g, NEW f, Fits(g, f)
    PROVE  Fits(g, f)'
  BY DEF Fits, May, IsLevel

\* What is said of frames of every goroutine, when one of them has gone on.
LEMMA WorkStays ==
    ASSUME Typed, Work, DOMAIN ord \subseteq DOMAIN ord',
           \A k \in DOMAIN ord : /\ ord'[k].step = ord[k].step
                                 /\ ord[k].known => ord'[k].known,
           NEW g \in Goroutines, todo[g] # <<>>, NEW new, Goes(g, new),
           \A f \in new : Fits(g, f)'
    PROVE  Work'
  <1> SUFFICES ASSUME NEW h \in Goroutines, NEW f \in Doing(h)'
               PROVE  Fits(h, f)'
    BY DEF Work
  <1>1. CASE h = g /\ f \in new
    BY <1>1
  <1>2. CASE f \in Doing(h)
    BY <1>2, FitsStays DEF Work
  <1>3. f \in Doing(h) \/ (h = g /\ f \in new)
    BY GoesFacts, AtWork
  <1> QED
    BY <1>1, <1>2, <1>3

\* What goroutines are about to place, when one of them goes on and neither was nor
\* will be about it.
LEMMA PlacesStay ==
    ASSUME Typed, NEW g \in Goroutines, todo[g] # <<>>, NEW new, Goes(g, new)
    PROVE  /\ ~(Head(todo[g]).op = "place" /\ Head(todo[g]).step = "WaitForEntry")
                /\ (\A f \in new : ~(f.op = "place" /\ f.step = "WaitForEntry"))
                => PlacesEntry' = PlacesEntry
           /\ Head(todo[g]).op # "replaceEntry" /\ (\A f \in new : f.op # "replaceEntry")
                => ReplacesEntry' = ReplacesEntry
           /\ (\A f \in new : ~(f.op = "place" /\ f.step \in Stops))
                => \A s \in Stops : Pending(s)' => Pending(s)
           /\ Head(todo[g]).op \notin {"place", "replaceStop"} => (StopComes => StopComes')
           /\ g \notin {"Stoploss", "watch"} => (StopComes => StopComes')
  <1>1. /\ Doing(g)' = new \cup Below(g)
        /\ Doing(g) = {Head(todo[g])} \cup Below(g)
        /\ \A h \in Goroutines : h # g => Doing(h)' = Doing(h)
        /\ "watch" \in Goroutines /\ "Stoploss" \in Goroutines
    BY GoesFacts, AtWork, Kinds
  <1>2. /\ g = "watch" => Doing("watch")' = new \cup Below(g)
        /\ g # "watch" => Doing("watch")' = Doing("watch")
        /\ g = "Stoploss" => Doing("Stoploss")' = new \cup Below(g)
        /\ g # "Stoploss" => Doing("Stoploss")' = Doing("Stoploss")
    BY <1>1
  <1>3. ASSUME ~(Head(todo[g]).op = "place" /\ Head(todo[g]).step = "WaitForEntry"),
               \A f \in new : ~(f.op = "place" /\ f.step = "WaitForEntry")
        PROVE  PlacesEntry' = PlacesEntry
    BY <1>1, <1>2, <1>3 DEF PlacesEntry
  <1>4. ASSUME Head(todo[g]).op # "replaceEntry", \A f \in new : f.op # "replaceEntry"
        PROVE  ReplacesEntry' = ReplacesEntry
    BY <1>1, <1>2, <1>4 DEF ReplacesEntry
  <1>5. ASSUME \A f \in new : ~(f.op = "place" /\ f.step \in Stops), NEW s \in Stops, Pending(s)'
        PROVE  Pending(s)
    <2>1. PICK h \in Goroutines : \E f \in Doing(h)' : f.op = "place" /\ f.step = s
      BY <1>5 DEF Pending
    <2>2. \E f \in Doing(h) : f.op = "place" /\ f.step = s
      BY <1>1, <1>5, <2>1
    <2> QED
      BY <2>2 DEF Pending
  <1>6. ASSUME \/ Head(todo[g]).op \notin {"place", "replaceStop"}
               \/ g \notin {"Stoploss", "watch"},
               StopComes
        PROVE  StopComes'
    BY <1>1, <1>2, <1>6 DEF StopComes
  <1> QED
    BY <1>3, <1>4, <1>5, <1>6

\* Somebody goes on, and nothing else changes but what the invariant does not tell.
LEMMA Quiet ==
    ASSUME IInv, NEW g \in Goroutines, todo[g] # <<>>, NEW new, Goes(g, new),
           UNCHANGED <<machine, ord, canceling>>,
           world' \in WorldType, world'.setup = world.setup, world'.edits = world.edits,
           world'.pos = world.pos,
           model' \in ModelType, model'.cond = model.cond, model'.entered = model.entered,
           model'.executed = model.executed, model'.orders = model.orders,
           model'.stopIds = model.stopIds,
           \A i \in DOMAIN model'.tapIds : IsLevel(model'.tapIds[i]),
           \/ model'.saved = model.cond
           \/ model'.saved = model.saved /\ Head(todo[g]).op # "saveStrategyConditions",
           target' \in Nat,
           Head(todo[g]).op \notin {"answer", "replaceEntry"},
           ~(Head(todo[g]).op = "place" /\ Head(todo[g]).step = "WaitForEntry"),
           \A f \in new : /\ Fits(g, f)' /\ f.op # "replaceEntry"
                          /\ f.op = "place" => f.step \in {"TakeProfit", "Canceled"},
           \/ Head(todo[g]).op \notin {"place", "replaceStop"}
           \/ g \notin {"Stoploss", "watch"}
           \/ EntryKept /\ machine = "InEntry" /\ world.pos > 0 => Guarded'
    PROVE  IInv'
  <1>0. Typed /\ Work /\ Answered /\ Lists /\ Saves /\ Waits /\ Entries /\ OldStops /\ OneEntry
    BY DEF IInv
  <1>1. /\ machine' = machine /\ ord' = ord /\ canceling' = canceling
        /\ setup' = setup /\ Amount' = Amount /\ Open' = Open /\ Bought' = Bought
        /\ EntryKept' = EntryKept
    BY SameSetup DEF Open, Bought, IsEntry, EntryKept
  <1>2. /\ todo' \in [Goroutines -> Stacks]
        /\ Doing(g)' = new \cup Below(g) /\ Doing(g) = {Head(todo[g])} \cup Below(g)
        /\ \A h \in Goroutines : h # g => todo'[h] = todo[h] /\ Doing(h)' = Doing(h)
        /\ "watch" \in Goroutines
    BY <1>0, GoesFacts, AtWork, Kinds
  <1>3. /\ PlacesEntry' = PlacesEntry /\ ReplacesEntry' = ReplacesEntry
        /\ \A s \in Stops : Pending(s)' => Pending(s)
        /\ Head(todo[g]).op \notin {"place", "replaceStop"} \/ g \notin {"Stoploss", "watch"}
             => (StopComes => StopComes')
    <2>1. \A f \in new : /\ ~(f.op = "place" /\ f.step = "WaitForEntry")
                         /\ ~(f.op = "place" /\ f.step \in Stops)
      BY Kinds
    <2> QED
      BY <1>0, <2>1, PlacesStay
  <1>4. Typed'
    BY <1>0, <1>1, <1>2 DEF Typed
  <1>5. Work'
    BY <1>0, <1>1, WorkStays
  <1>6. Answered'
    <2> SUFFICES ASSUME NEW k \in DOMAIN ord, ~ord[k].known
                 PROVE  \E h \in Goroutines : \E f \in Doing(h)' : f.op = "answer" /\ f.order = k
      BY <1>1 DEF Answered
    <2>1. PICK h \in Goroutines : \E f \in Doing(h) : f.op = "answer" /\ f.order = k
      BY <1>0 DEF Answered
    <2>2. \E f \in Doing(h)' : f.op = "answer" /\ f.order = k
      BY <1>2, <2>1
    <2> QED
      BY <2>2
  <1>7. Lists'
    <2>1. (\A i \in DOMAIN model.tapIds : IsLevel(model.tapIds[i]))'
      BY <1>1 DEF IsLevel
    <2> QED
      BY <1>0, <1>1, <2>1 DEF Lists
  <1>8. Saves'
    BY <1>0, <1>1, <1>2 DEF Saves
  <1>9. Waits'
    BY <1>0, <1>1, <1>2 DEF Waits, IsEntry
  <1>10. Entries'
    <2>1. \A k \in DOMAIN ord : LastEntry(k) => LastEntry(k)'
      BY <1>1, <1>3 DEF LastEntry, IsEntry
    <2> QED
      BY <1>0, <1>1, <1>3, <2>1 DEF Entries, IsEntry
  <1>11. OldStops'
    BY <1>0, <1>1, <1>2, <1>3 DEF OldStops, IsEntry
  <1>12. OneEntry'
    <2> SUFFICES ASSUME EntryKept PROVE OneEntry'
      BY <1>1 DEF OneEntry
    <2>1. PICK h : Sums(h) /\ Booking(h)
      BY <1>0 DEF OneEntry
    <2>2. Sums(h)' /\ Booking(h)'
      BY <1>1, <2>1 DEF Sums, Booking
    <2>3. ASSUME machine = "InEntry", world.pos > 0
          PROVE  Guarded'
      <3>1. Guarded
        BY <1>0, <2>3 DEF OneEntry
      <3>2. \A k : Stop(k) => Stop(k)'
        BY <1>1 DEF Stop
      <3> QED
        BY <1>1, <1>3, <2>3, <3>1, <3>2 DEF Guarded
    <2>4. \A k \in DOMAIN ord : IsEntry(k)' => k = 1
      BY <1>0, <1>1 DEF OneEntry, IsEntry
    <2>5. ~PlacesEntry' /\ ~ReplacesEntry' /\ (machine' # "WaitForEntry" => Bought')
      BY <1>0, <1>1, <1>3 DEF OneEntry
    <2>6. (\A k \in DOMAIN ord : ord[k].step = "Canceled" =>
             Bought /\ ord[k].qty = Amount /\ (ord[k].status # "open" => world.pos = 0))'
      BY <1>0, <1>1 DEF OneEntry
    <2>7. \E hh : Sums(hh)' /\ Booking(hh)'
      BY <2>2
    <2> QED
      BY <1>1, <2>3, <2>4, <2>5, <2>6, <2>7 DEF OneEntry
  <1> QED
    BY <1>4, <1>5, <1>6, <1>7, <1>8, <1>9, <1>10, <1>11, <1>12 DEF IInv

\* What is left to sell, of an order whose entry was not edited.
LEMMA Left ==
    ASSUME IInv, EntryKept
    PROVE  /\ world.pos \in Nat /\ model.executed \in Nat /\ Amount \in Nat \ {0}
           /\ world.pos <= Amount - model.executed
           /\ world.pos > 0 => Bought
  <1>1. Typed /\ OneEntry
    BY DEF IInv
  <1>2. PICK h : Sums(h) /\ Booking(h)
    BY <1>1 DEF OneEntry
  <1>3. h[Len(ord)] \in Int /\ h[Len(ord)] >= 0
    BY <1>1, <1>2, SumsArePositive
  <1>4. world.pos \in Nat /\ model.executed \in Nat /\ Amount \in Nat \ {0}
    BY <1>1, SetupFacts, ModelFacts
  <1>5. CASE Bought
    <2>1. world.pos = Amount - model.executed - h[Len(ord)]
      BY <1>2, <1>5 DEF Booking
    <2> QED
      BY <1>3, <1>4, <1>5, <2>1
  <1>6. CASE ~Bought
    <2>1. world.pos = 0 - model.executed - h[Len(ord)]
      BY <1>2, <1>6 DEF Booking
    <2> QED
      BY <1>3, <1>4, <1>6, <2>1
  <1> QED
    BY <1>5, <1>6

\* Only an order that is asked for in entry can be of no or of a negative amount.
LEMMA NothingLeft ==
    ASSUME IInv, EntryKept, world.pos > 0, NEW s \in {"Stoploss", "Canceled"}
    PROVE  Request(s).qty >= world.pos
  <1>1. Typed /\ s \in Steps /\ s # "TakeProfit"
    BY Kinds DEF IInv
  <1> QED
    BY <1>1, Left, RequestFacts

\* A goroutine at a place has a step that it may place.
LEMMA AtPlace ==
    ASSUME IInv, NEW g \in Goroutines, Top(g, "place")
    PROVE  /\ todo[g] # <<>> /\ Head(todo[g]).op = "place" /\ Head(todo[g]).step \in Steps
           /\ May(g, Head(todo[g]).step)
           /\ Head(todo[g]).step = "WaitForEntry" => g = "watch" /\ PlacesEntry
           /\ g \in {"Stoploss", "watch"} /\ Head(todo[g]).step \in {"Stoploss", "Canceled"}
                => StopComes
           /\ Head(todo[g]).step \in Stops => Pending(Head(todo[g]).step)
  <1>1. Typed /\ Work
    BY DEF IInv
  <1>2. todo[g] # <<>> /\ Head(todo[g]).op = "place"
    BY DEF Top
  <1>3. Head(todo[g]) \in Doing(g) /\ Head(todo[g]) \in Frames
    BY <1>1, <1>2, AtWork
  <1>4. Head(todo[g]).step \in Steps
    BY <1>2, <1>3, FrameFacts
  <1>5. May(g, Head(todo[g]).step)
    BY <1>1, <1>2, <1>3 DEF Work, Fits
  <1>6. g \in {"Stoploss", "ForcedLoss", "entering", "watch"}
    BY Kinds
  <1>7. Head(todo[g]).step = "WaitForEntry" => g = "watch"
    BY <1>5, <1>6, Kinds DEF May
  <1>8. Head(todo[g]).step = "WaitForEntry" => PlacesEntry
    BY <1>2, <1>3, <1>7 DEF PlacesEntry
  <1>9. g \in {"Stoploss", "watch"} /\ Head(todo[g]).step \in {"Stoploss", "Canceled"}
          => StopComes
    BY <1>2, <1>3 DEF StopComes
  <1>10. Head(todo[g]).step \in Stops => Pending(Head(todo[g]).step)
    BY <1>2, <1>3 DEF Pending
  <1> QED
    BY <1>2, <1>4, <1>5, <1>7, <1>8, <1>9, <1>10

\* A step of the watch or of a callback leaves the types of the rest alone.
LEMMA SameTypes ==
    ASSUME Typed
    PROVE  /\ model' = model => model' \in ModelType
           /\ world' = world => /\ world' \in WorldType /\ world'.setup = world.setup
                                /\ world'.edits = world.edits /\ world'.pos = world.pos
           /\ target' = target => target' \in Nat
  BY DEF Typed

\* The position stays guarded when somebody is through with an order that is no stop.
LEMMA GuardedStays ==
    ASSUME IInv, EntryKept, machine = "InEntry", world.pos > 0,
           NEW g \in Goroutines, Top(g, "place"),
           Head(todo[g]).step \notin {"Stoploss", "Canceled"},
           NEW new, Goes(g, new),
           UNCHANGED <<ord, canceling>>, model'.cond = model.cond, world'.pos = world.pos
    PROVE  Guarded'
  <1>1. Typed /\ OneEntry
    BY DEF IInv
  <1>2. Guarded
    BY <1>1 DEF OneEntry
  <1>3. Open' = Open /\ ord' = ord /\ \A k : Stop(k) => Stop(k)'
    BY DEF Open, Stop
  <1>4. todo[g] # <<>> /\ Head(todo[g]).op = "place" /\ g # "Stoploss"
    BY AtPlace, Kinds DEF May
  <1>5. /\ Doing(g)' = new \cup Below(g) /\ Doing(g) = {Head(todo[g])} \cup Below(g)
        /\ \A h \in Goroutines : h # g => Doing(h)' = Doing(h)
        /\ "watch" \in Goroutines /\ "Stoploss" \in Goroutines
    BY <1>1, <1>4, GoesFacts, AtWork, Kinds
  <1>6. Doing("Stoploss")' = Doing("Stoploss")
    BY <1>4, <1>5
  <1>7. \A f \in Doing("watch") :
           f.op \in {"place", "replaceStop"} /\ f.step \in {"Stoploss", "Canceled"}
             => f \in Doing("watch")'
    BY <1>4, <1>5
  <1>8. StopComes => StopComes'
    BY <1>6, <1>7 DEF StopComes
  <1> QED
    BY <1>2, <1>3, <1>8 DEF Guarded

\* Nothing is to be placed: that is never an entry, and a stop only when nothing is left.
LEMMA SkipInv ==
    ASSUME IInv, NEW g \in Goroutines, SkipOrder(g)
    PROVE  IInv'
  <1> DEFINE s == Head(todo[g]).step
             new == {}
  <1>0. Typed /\ Work /\ Lists /\ OneEntry
    BY DEF IInv
  <1>1. /\ Top(g, "place") /\ Skips(s) /\ todo' = Then(g, <<>>)
        /\ UNCHANGED <<machine, model, target, ord, canceling, world>>
    BY DEF SkipOrder
  <1>2. /\ todo[g] # <<>> /\ Head(todo[g]).op = "place" /\ s \in Steps /\ May(g, s)
    BY <1>1, AtPlace
  <1>3. Goes(g, new)
    BY <1>1 DEF Goes
  <1>4. s # "WaitForEntry"
    <2>1. SUFFICES ASSUME s = "WaitForEntry" PROVE FALSE
      OBVIOUS
    <2>2. Request(s).qty = 0
      BY <1>1, <2>1 DEF Skips
    <2> QED
      BY <1>0, <1>2, <2>1, <2>2, RequestFacts, SetupFacts
  <1>5. ASSUME g \in {"Stoploss", "watch"}, EntryKept, machine = "InEntry", world.pos > 0
        PROVE  Guarded'
    <2>3. CASE s \in {"Stoploss", "Canceled"}
      <3>1. Request(s).qty >= world.pos
        BY <1>5, <2>3, NothingLeft
      <3>2. world.pos \in Nat /\ ~(model.executed >= Amount)
        BY <1>5, Left
      <3>3. s # "Stoploss"
        <4>1. SUFFICES ASSUME s = "Stoploss" PROVE FALSE
          OBVIOUS
        <4>2. Request(s).qty = 0
          BY <1>1, <4>1 DEF Skips
        <4> QED
          BY <1>5, <3>1, <3>2, <4>2
      <3>4. SkipsCanceled
        <4>1. Request(s).qty # 0
          BY <1>5, <3>1, <3>2
        <4> QED
          BY <1>1, <2>3, <3>3, <4>1 DEF Skips
      <3>5. PICK k \in DOMAIN ord : ord[k].step = "Canceled"
        BY <1>5, <3>2, <3>4 DEF SkipsCanceled
      <3>6. ord[k].status = "open"
        BY <1>0, <1>5, <3>5 DEF OneEntry
      <3> QED
        BY <1>1, <3>5, <3>6 DEF Guarded, Open
    <2>4. CASE s \notin {"Stoploss", "Canceled"}
      BY <1>1, <1>3, <1>5, <2>4, GuardedStays
    <2> QED
      BY <2>3, <2>4
  <1>6. \A i \in DOMAIN model'.tapIds : IsLevel(model'.tapIds[i])
    BY <1>0, <1>1 DEF Lists
  <1>7. /\ \/ Head(todo[g]).op \notin {"place", "replaceStop"}
           \/ g \notin {"Stoploss", "watch"}
           \/ EntryKept /\ machine = "InEntry" /\ world.pos > 0 => Guarded'
        /\ Head(todo[g]).op \notin {"answer", "replaceEntry"}
        /\ Head(todo[g]).op # "saveStrategyConditions"
        /\ ~(Head(todo[g]).op = "place" /\ Head(todo[g]).step = "WaitForEntry")
    BY <1>2, <1>4, <1>5
  <1> QED
    BY <1>0, <1>1, <1>2, <1>3, <1>6, <1>7, SameTypes, Quiet

\* PlaceOrder goes on to the next exit level, or returns.
LEMMA NextLevelFacts ==
    ASSUME Typed, NEW g, NEW s \in Steps, AndNextLevel(g, s)
    PROVE  /\ target' \in Nat
           /\ \E new : /\ Goes(g, new)
                       /\ \A f \in new : f = Place("TakeProfit") /\ s = "TakeProfit"
  <1>1. target \in Nat
    BY DEF Typed
  <1>2. CASE s = "TakeProfit" /\ target + 1 < Len(Exits)
    <2>1. target' = target + 1 /\ todo' = Then(g, <<Place("TakeProfit")>>)
      BY <1>2 DEF AndNextLevel
    <2>2. Place("TakeProfit") \in Frames
      BY NewFrames, Kinds
    <2>3. Goes(g, {Place("TakeProfit")})
      BY <2>1, <2>2 DEF Goes
    <2> QED
      BY <1>1, <1>2, <2>1, <2>3
  <1>3. CASE ~(s = "TakeProfit" /\ target + 1 < Len(Exits))
    <2>1. target' = target /\ todo' = Then(g, <<>>)
      BY <1>3 DEF AndNextLevel
    <2>2. Goes(g, {})
      BY <2>1 DEF Goes
    <2> QED
      BY <1>1, <2>1, <2>2
  <1> QED
    BY <1>2, <1>3

\* The frame of an exit level to be placed.
LEMMA LevelPlace ==
    ASSUME NEW g, May(g, "TakeProfit")
    PROVE  /\ Fits(g, Place("TakeProfit"))' /\ Place("TakeProfit").op = "place"
           /\ Place("TakeProfit").step = "TakeProfit"
  BY DEF Fits, Place, May

\* An order that is rejected is no entry, and a stop only when there is no position.
LEMMA RejectInv ==
    ASSUME IInv, NEW g \in Goroutines, RejectOrder(g)
    PROVE  IInv'
  <1> DEFINE s == Head(todo[g]).step
  <1>0. Typed /\ Work /\ Lists
    BY DEF IInv
  <1>1. /\ Top(g, "place") /\ ~Skips(s)
        /\ (s # "WaitForEntry" /\ world.pos = 0) \/ Request(s).qty < 0
        /\ model' = [model EXCEPT !.enabled = FALSE] /\ AndNextLevel(g, s)
        /\ UNCHANGED <<machine, ord, canceling, world>>
    BY DEF RejectOrder, Sending
  <1>2. /\ todo[g] # <<>> /\ Head(todo[g]).op = "place" /\ s \in Steps /\ May(g, s)
    BY <1>1, AtPlace
  <1>3. target' \in Nat
    BY <1>0, <1>1, <1>2, NextLevelFacts
  <1>4. PICK new : /\ Goes(g, new)
                   /\ \A f \in new : f = Place("TakeProfit") /\ s = "TakeProfit"
    BY <1>0, <1>1, <1>2, NextLevelFacts
  <1>5. s # "WaitForEntry"
    <2>1. SUFFICES ASSUME s = "WaitForEntry" PROVE FALSE
      OBVIOUS
    <2>2. Request(s).qty = Amount
      BY <1>0, <1>2, <2>1, RequestFacts
    <2> QED
      BY <1>0, <1>1, <2>1, <2>2, SetupFacts
  <1>6. /\ model' \in ModelType /\ model'.cond = model.cond /\ model'.saved = model.saved
        /\ model'.entered = model.entered
        /\ model'.executed = model.executed /\ model'.orders = model.orders
        /\ model'.tapIds = model.tapIds /\ model'.stopIds = model.stopIds
    BY <1>0, <1>1 DEF Typed, ModelType
  <1>7. ASSUME g \in {"Stoploss", "watch"}, EntryKept, machine = "InEntry", world.pos > 0
        PROVE  Guarded'
    <2>1. CASE s \in {"Stoploss", "Canceled"}
      <3>1. Request(s).qty >= world.pos /\ Request(s).qty \in Int /\ world.pos \in Nat
        BY <1>0, <1>2, <1>7, <2>1, NothingLeft, Left, RequestFacts
      <3> QED
        BY <1>1, <1>7, <3>1
    <2>2. CASE s \notin {"Stoploss", "Canceled"}
      BY <1>1, <1>4, <1>6, <1>7, <2>2, GuardedStays
    <2> QED
      BY <2>1, <2>2
  <1>8. \A i \in DOMAIN model'.tapIds : IsLevel(model'.tapIds[i])
    BY <1>0, <1>6 DEF Lists
  <1>9. /\ \/ Head(todo[g]).op \notin {"place", "replaceStop"}
           \/ g \notin {"Stoploss", "watch"}
           \/ EntryKept /\ machine = "InEntry" /\ world.pos > 0 => Guarded'
        /\ Head(todo[g]).op \notin {"answer", "replaceEntry"}
        /\ Head(todo[g]).op # "saveStrategyConditions"
        /\ ~(Head(todo[g]).op = "place" /\ Head(todo[g]).step = "WaitForEntry")
    BY <1>2, <1>5, <1>7
  <1>10. \A f \in new : /\ Fits(g, f)' /\ f.op # "replaceEntry"
                        /\ f.op = "place" => f.step \in {"TakeProfit", "Canceled"}
    <2> SUFFICES ASSUME NEW f \in new
                 PROVE  /\ Fits(g, f)' /\ f.op # "replaceEntry"
                        /\ f.op = "place" => f.step \in {"TakeProfit", "Canceled"}
      OBVIOUS
    <2>1. May(g, "TakeProfit") /\ f = Place("TakeProfit")
      BY <1>2, <1>4
    <2> QED
      BY <2>1, LevelPlace DEF Fits, Place
  <1> QED
    BY <1>0, <1>1, <1>2, <1>3, <1>4, <1>6, <1>8, <1>9, <1>10, SameTypes, Quiet

\* Instead of a stop that would trigger at once, the position is to be closed.
LEMMA TriggeredInv ==
    ASSUME IInv, NEW g \in Goroutines, RejectTriggered(g)
    PROVE  IInv'
  <1> DEFINE s == Head(todo[g]).step
             f == Place("Canceled")
  <1>0. Typed /\ Work /\ Lists
    BY DEF IInv
  <1>1. /\ Top(g, "place") /\ s \in Stops
        /\ world' = [world EXCEPT !.triggered = @ + 1] /\ todo' = Then(g, <<f>>)
        /\ UNCHANGED <<machine, model, target, ord, canceling>>
    BY DEF RejectTriggered, Sending
  <1>2. /\ todo[g] # <<>> /\ Head(todo[g]).op = "place" /\ May(g, s)
    BY <1>1, AtPlace
  <1>3. Goes(g, {f})
    BY <1>1, NewFrames, Kinds DEF Goes
  <1>4. /\ world' \in WorldType /\ world'.setup = world.setup
        /\ world'.edits = world.edits /\ world'.pos = world.pos
    BY <1>0, <1>1 DEF Typed, WorldType
  <1>5. f.op = "place" /\ f.step = "Canceled"
    BY DEF Place
  <1>6. Fits(g, f)'
    BY <1>1, <1>2, <1>5, Kinds DEF Fits, May
  <1>7. ASSUME g \in {"Stoploss", "watch"}
        PROVE  Guarded'
    <2>1. Doing(g)' = {f} \cup Below(g)
      BY <1>0, <1>2, <1>3, GoesFacts
    <2>2. StopComes'
      BY <1>5, <1>7, <2>1 DEF StopComes
    <2> QED
      BY <2>2 DEF Guarded
  <1>8. \A i \in DOMAIN model'.tapIds : IsLevel(model'.tapIds[i])
    BY <1>0, <1>1 DEF Lists
  <1>9. /\ \/ Head(todo[g]).op \notin {"place", "replaceStop"}
           \/ g \notin {"Stoploss", "watch"}
           \/ EntryKept /\ machine = "InEntry" /\ world.pos > 0 => Guarded'
        /\ Head(todo[g]).op \notin {"answer", "replaceEntry"}
        /\ Head(todo[g]).op # "saveStrategyConditions"
        /\ ~(Head(todo[g]).op = "place" /\ Head(todo[g]).step = "WaitForEntry")
    BY <1>1, <1>2, <1>7, Kinds
  <1>10. \A x \in {f} : /\ Fits(g, x)' /\ x.op # "replaceEntry"
                        /\ x.op = "place" => x.step \in {"TakeProfit", "Canceled"}
    BY <1>5, <1>6
  <1> HIDE DEF f
  <1> QED
    BY <1>0, <1>1, <1>2, <1>3, <1>4, <1>8, <1>9, <1>10, SameTypes, Quiet

\* A goroutine at something else than a place that Quiet speaks of.
LEMMA AtWatch ==
    ASSUME IInv, NEW op, Top("watch", op)
    PROVE  /\ todo["watch"] # <<>> /\ Head(todo["watch"]).op = op
           /\ Head(todo["watch"]) \in Frames /\ Fits("watch", Head(todo["watch"]))
           /\ Head(todo["watch"]) \in Doing("watch") /\ "watch" \in Goroutines
  <1>1. Typed /\ Work /\ "watch" \in Goroutines
    BY Kinds DEF IInv
  <1>2. todo["watch"] # <<>> /\ Head(todo["watch"]).op = op
    BY DEF Top
  <1> QED
    BY <1>1, <1>2, AtWork DEF Work

\* The conditions are saved as those the orders were placed for.
LEMMA SaveInv ==
    ASSUME IInv, SaveStrategyConditions
    PROVE  IInv'
  <1> DEFINE g == "watch"
             new == {}
  <1>0. Typed /\ Lists
    BY DEF IInv
  <1>1. /\ Top(g, "saveStrategyConditions")
        /\ model' = [model EXCEPT !.saved = model.cond] /\ todo' = Then(g, <<>>)
        /\ UNCHANGED <<machine, target, ord, canceling, world>>
    BY DEF SaveStrategyConditions
  <1>2. todo[g] # <<>> /\ Head(todo[g]).op = "saveStrategyConditions" /\ g \in Goroutines
    BY <1>1, AtWatch
  <1>3. Goes(g, new)
    BY <1>1 DEF Goes
  <1>4. model.cond \in Conditions
    BY <1>0, ModelFacts
  <1>5. /\ model' \in ModelType /\ model'.cond = model.cond /\ model'.saved = model.cond
        /\ model'.entered = model.entered
        /\ model'.executed = model.executed /\ model'.orders = model.orders
        /\ model'.tapIds = model.tapIds /\ model'.stopIds = model.stopIds
    BY <1>0, <1>1, <1>4 DEF Typed, ModelType
  <1>6. \A i \in DOMAIN model'.tapIds : IsLevel(model'.tapIds[i])
    BY <1>0, <1>5 DEF Lists
  <1>7. /\ Head(todo[g]).op \notin {"answer", "replaceEntry"}
        /\ ~(Head(todo[g]).op = "place" /\ Head(todo[g]).step = "WaitForEntry")
        /\ Head(todo[g]).op \notin {"place", "replaceStop"}
    BY <1>2
  <1> QED
    BY <1>0, <1>1, <1>2, <1>3, <1>5, <1>6, <1>7, SameTypes, Quiet

\* The levels are parted at some place.
LEMMA Parts ==
    ASSUME NEW s \in Seq(Nat), NEW m \in 0 .. Len(s)
    PROVE  /\ SubSeq(s, 1, m) \in Seq(Nat) /\ SubSeq(s, m + 1, Len(s)) \in Seq(Nat)
           /\ \A i \in DOMAIN SubSeq(s, 1, m) :
                 \E j \in DOMAIN s : SubSeq(s, 1, m)[i] = s[j]
           /\ \A i \in DOMAIN SubSeq(s, m + 1, Len(s)) :
                 \E j \in DOMAIN s : SubSeq(s, m + 1, Len(s))[i] = s[j]
  <1>1. Len(s) \in Nat /\ DOMAIN s = 1 .. Len(s) /\ m \in Nat
    OBVIOUS
  <1>2. PICK a : a = SubSeq(s, 1, m)
    OBVIOUS
  <1>3. PICK b : b = SubSeq(s, m + 1, Len(s))
    OBVIOUS
  <1>4. \A i \in 1 .. m : s[i] \in Nat
    OBVIOUS
  <1>5. \A i \in m + 1 .. Len(s) : s[i] \in Nat
    OBVIOUS
  <1>6. /\ a \in Seq(Nat) /\ DOMAIN a = 1 .. m /\ \A i \in 1 .. m : a[i] = s[i]
    <2>1. a = [i \in 1 .. m |-> s[i]] /\ Len(a) = m
      BY <1>1, <1>2
    <2>2. a \in Seq(Nat)
      BY <1>1, <1>2, <1>4, SubSeqProperties
    <2> QED
      BY <2>1, <2>2
  <1>7. /\ b \in Seq(Nat) /\ DOMAIN b = 1 .. Len(s) - m
        /\ \A i \in 1 .. Len(s) - m : b[i] = s[i + m]
    <2> PICK n, l : n = Len(s) /\ l = m + 1
      OBVIOUS
    <2>1. n \in Nat /\ l \in Int /\ m \in 0 .. n /\ l = m + 1 /\ b = SubSeq(s, l, n)
      BY <1>1, <1>3
    <2>2. \A i \in l .. n : s[i] \in Nat
      BY <1>5
    <2>3. /\ b \in Seq(Nat) /\ Len(b) = (IF l <= n THEN n - l + 1 ELSE 0)
          /\ \A i \in 1 .. n - l + 1 : b[i] = s[l + i - 1]
      BY <2>1, <2>2, SubSeqProperties
    <2>4. n - l + 1 = n - m /\ Len(b) = n - m
      BY <2>1, <2>3
    <2>5. \A i \in 1 .. n - m : l + i - 1 = i + m
      BY <2>1
    <2>6. DOMAIN b = 1 .. Len(b)
      BY <2>3
    <2> QED
      BY <2>3, <2>4, <2>5, <2>6
  <1>8. \A i \in 1 .. m : i \in 1 .. Len(s)
    BY <1>1
  <1>9. \A i \in 1 .. Len(s) - m : i + m \in 1 .. Len(s)
    BY <1>1
  <1> QED
    BY <1>1, <1>2, <1>3, <1>6, <1>7, <1>8, <1>9

\* The least element of a set of natural numbers is one of them.
LEMMA Least ==
    ASSUME NEW S, S \subseteq Nat, S # {}
    PROVE  Min(S) \in S /\ \A m \in S : Min(S) <= m
  <1>1. \E n \in S : \A m \in S : n <= m
    BY LeastNatural
  <1> QED
    BY <1>1 DEF Min

\* The levels to be canceled and those that stay are levels that were registered.
LEMMA SelectInv ==
    ASSUME IInv, SelectLevel
    PROVE  IInv'
  <1> DEFINE g == "watch"
  <1>0. Typed /\ Lists
    BY DEF IInv
  <1>1. /\ Top(g, "selectLevel") /\ UNCHANGED <<machine, model, ord, canceling, world>>
    BY DEF SelectLevel
  <1>2. todo[g] # <<>> /\ Head(todo[g]).op = "selectLevel" /\ g \in Goroutines
    BY <1>1, AtWatch
  <1>3. PICK ids : ids = model.tapIds
    OBVIOUS
  <1>4. PICK waiting : waiting = {i \in DOMAIN ids : IsOrderExistsInMap(ids[i])}
    OBVIOUS
  <1>5. PICK m : m = IF waiting = {} THEN 0 ELSE Min(waiting) - 1
    OBVIOUS
  <1>6. PICK f : f = [op |-> "cancelLevels", keep |-> SubSeq(ids, 1, m),
                      ids |-> SubSeq(ids, m + 1, Len(ids))]
    OBVIOUS
  <1>7. /\ target' = IF waiting = {} THEN target ELSE m
        /\ todo' = Then(g, <<f>>)
    BY <1>3, <1>4, <1>5, <1>6 DEF SelectLevel
  <1>8. ids \in Seq(Nat) /\ Len(ids) \in Nat /\ DOMAIN ids = 1 .. Len(ids)
    BY <1>0, <1>3, ModelFacts
  <1>9. m \in 0 .. Len(ids)
    <2>1. CASE waiting = {}
      BY <1>5, <1>8, <2>1
    <2>2. CASE waiting # {}
      <3>1. waiting \subseteq 1 .. Len(ids) /\ waiting \subseteq Nat
        BY <1>4, <1>8
      <3>2. Min(waiting) \in 1 .. Len(ids)
        BY <2>2, <3>1, Least
      <3> QED
        BY <1>5, <1>8, <2>2, <3>2
    <2> QED
      BY <2>1, <2>2
  <1>10. target' \in Nat
    BY <1>0, <1>7, <1>9 DEF Typed
  <1>11. \A i \in DOMAIN ids : IsLevel(ids[i])
    BY <1>0, <1>3 DEF Lists
  <1>12. /\ f.op = "cancelLevels" /\ f.keep \in Seq(Nat) /\ f.ids \in Seq(Nat)
         /\ \A i \in DOMAIN f.keep : IsLevel(f.keep[i])
         /\ \A i \in DOMAIN f.ids : IsLevel(f.ids[i])
    BY <1>6, <1>8, <1>9, <1>11, Parts
  <1>13. f \in Frames
    BY <1>6, <1>12, NewFrames
  <1>14. Goes(g, {f})
    BY <1>7, <1>13 DEF Goes
  <1>15. Fits(g, f)'
    <2>1. Fits(g, f)
      BY <1>12 DEF Fits
    <2> QED
      BY <1>1, <2>1, FitsStays
  <1>16. \A i \in DOMAIN model'.tapIds : IsLevel(model'.tapIds[i])
    BY <1>0, <1>1 DEF Lists
  <1>17. /\ Head(todo[g]).op \notin {"answer", "replaceEntry"}
         /\ Head(todo[g]).op # "saveStrategyConditions"
         /\ ~(Head(todo[g]).op = "place" /\ Head(todo[g]).step = "WaitForEntry")
         /\ Head(todo[g]).op \notin {"place", "replaceStop"}
    BY <1>2
  <1>18. \A x \in {f} : /\ Fits(g, x)' /\ x.op # "replaceEntry"
                        /\ x.op = "place" => x.step \in {"TakeProfit", "Canceled"}
    BY <1>12, <1>15
  <1> QED
    BY <1>0, <1>1, <1>2, <1>10, <1>14, <1>16, <1>17, <1>18, SameTypes, Quiet

\* The levels that were canceled are forgotten.
LEMMA ReplaceLevelsInv ==
    ASSUME IInv, ReplaceLevels
    PROVE  IInv'
  <1> DEFINE g == "watch"
             f == Head(todo[g])
             new == Place("TakeProfit")
  <1>0. Typed /\ Lists
    BY DEF IInv
  <1>1. /\ Top(g, "cancelLevels") /\ model' = [model EXCEPT !.tapIds = f.keep]
        /\ todo' = Then(g, <<new>>) /\ UNCHANGED <<machine, target, ord, canceling, world>>
    BY DEF ReplaceLevels
  <1>2. /\ todo[g] # <<>> /\ f.op = "cancelLevels" /\ g \in Goroutines
        /\ f \in Frames /\ Fits(g, f)
    BY <1>1, AtWatch
  <1>3. f.keep \in Seq(Nat) /\ \A i \in DOMAIN f.keep : IsLevel(f.keep[i])
    BY <1>2, FrameFacts DEF Fits
  <1>4. Goes(g, {new})
    BY <1>1, NewFrames, Kinds DEF Goes
  <1>5. PICK keep : keep = f.keep
    OBVIOUS
  <1>6. /\ model' \in ModelType /\ model'.cond = model.cond /\ model'.saved = model.saved
        /\ model'.entered = model.entered
        /\ model'.executed = model.executed /\ model'.orders = model.orders
        /\ model'.tapIds = keep /\ model'.stopIds = model.stopIds
    <2>1. keep \in Seq(Nat) /\ model' = [model EXCEPT !.tapIds = keep]
      BY <1>1, <1>3, <1>5
    <2> QED
      BY <1>0, <2>1 DEF Typed, ModelType
  <1>7. \A i \in DOMAIN model'.tapIds : IsLevel(model'.tapIds[i])
    BY <1>3, <1>5, <1>6
  <1>8. /\ Head(todo[g]).op \notin {"answer", "replaceEntry"}
        /\ Head(todo[g]).op # "saveStrategyConditions"
        /\ ~(Head(todo[g]).op = "place" /\ Head(todo[g]).step = "WaitForEntry")
        /\ Head(todo[g]).op \notin {"place", "replaceStop"}
    BY <1>2
  <1>9. May(g, "TakeProfit")
    BY Kinds DEF May
  <1>10. \A x \in {new} : /\ Fits(g, x)' /\ x.op # "replaceEntry"
                          /\ x.op = "place" => x.step \in {"TakeProfit", "Canceled"}
    BY <1>9, LevelPlace
  <1>11. /\ target' \in Nat /\ world' \in WorldType /\ world'.setup = world.setup
         /\ world'.edits = world.edits /\ world'.pos = world.pos
         /\ UNCHANGED <<machine, ord, canceling>>
    BY <1>0, <1>1, SameTypes
  <1> HIDE DEF new, f
  <1> QED
    BY <1>2, <1>4, <1>6, <1>7, <1>8, <1>10, <1>11, Quiet

-----------------------------------------------------------------------------
(* Orders are replaced *)

\* While only the watch works, and it has no answer to register, every order is known.
LEMMA AllKnown ==
    ASSUME IInv, todo["watch"] # <<>>, Head(todo["watch"]).op # "answer",
           \A g \in Goroutines \ {"watch"} : todo[g] = <<>>
    PROVE  \A k \in DOMAIN ord : ord[k].known
  <1> SUFFICES ASSUME NEW k \in DOMAIN ord, ~ord[k].known PROVE FALSE
    OBVIOUS
  <1>1. Typed /\ Answered /\ "watch" \in Goroutines
    BY Kinds DEF IInv
  <1>2. PICK g \in Goroutines : \E f \in Doing(g) : f.op = "answer" /\ f.order = k
    BY <1>1 DEF Answered
  <1>3. g = "watch"
    BY <1>1, <1>2, Frameworks
  <1>4. PICK f \in Doing("watch") : f.op = "answer"
    BY <1>2, <1>3
  <1>5. f = Head(todo["watch"]) \/ f \in Later
    BY <1>1, <1>4, AtWork
  <1> QED
    BY <1>1, <1>4, <1>5, FrameFacts, NewFrames

\* The old orders of a kind are on their way out, and the new one is to be placed.
LEMMA ReplaceStep ==
    ASSUME IInv, NEW ids, NEW s \in Steps \ {"Canceled"}, todo["watch"] # <<>>,
           Head(todo["watch"]).op \in {"replaceEntry", "replaceStop", "replaceExit"},
           Replace(ids, s), ids \subseteq model.orders,
           s # "WaitForEntry" => \A k \in ids : ord[k].step = s,
           s # "TakeProfit" => \A k \in Open : ord[k].known /\ ord[k].step = s => k \in ids,
           s = "WaitForEntry" <=> Head(todo["watch"]).op = "replaceEntry",
           Head(todo["watch"]).op = "replaceStop" => Head(todo["watch"]).step = s
    PROVE  IInv'
  <1> DEFINE g == "watch"
             f == Place(s)
  <1>0. Typed /\ Work /\ Answered /\ Lists /\ Saves /\ Waits /\ Entries /\ OldStops /\ OneEntry
    BY DEF IInv
  <1>1. /\ machine' = machine /\ model' = model /\ ord' = ord /\ target' = target
        /\ world' = world /\ canceling' = canceling \cup (ids \cap Open)
        /\ todo' = Then(g, <<f>>)
    BY DEF Replace
  <1>2. /\ setup' = setup /\ Amount' = Amount /\ Open' = Open /\ Bought' = Bought
        /\ EntryKept' = EntryKept /\ \A k : IsEntry(k)' = IsEntry(k)
    BY <1>1, SameSetup DEF Open, Bought, IsEntry, EntryKept
  <1>3. f \in Frames /\ f.op = "place" /\ f.step = s
    BY NewFrames DEF Place
  <1>4. Goes(g, {f})
    BY <1>1, <1>3 DEF Goes
  <1> HIDE DEF f
  <1>5. /\ todo' \in [Goroutines -> Stacks] /\ g \in Goroutines /\ "Stoploss" \in Goroutines
        /\ Doing(g)' = {f} \cup Below(g) /\ Doing(g) = {Head(todo[g])} \cup Below(g)
        /\ Below(g) \subseteq Later
        /\ \A h \in Goroutines : h # g => todo'[h] = todo[h] /\ Doing(h)' = Doing(h)
    BY <1>0, <1>4, GoesFacts, AtWork, Kinds
  <1>6. \A x \in Below(g) : x.op \notin {"place", "answer", "replaceEntry"}
    BY <1>5, FrameFacts, NewFrames
  <1>7. /\ PlacesEntry' <=> s = "WaitForEntry"
        /\ ~PlacesEntry /\ ~ReplacesEntry'
        /\ ReplacesEntry <=> s = "WaitForEntry"
    <2>1. PlacesEntry' <=> s = "WaitForEntry"
      BY <1>3, <1>5, <1>6 DEF PlacesEntry
    <2>2. ~PlacesEntry /\ ~ReplacesEntry'
      BY <1>3, <1>5, <1>6 DEF PlacesEntry, ReplacesEntry
    <2>3. ReplacesEntry <=> s = "WaitForEntry"
      BY <1>5, <1>6 DEF ReplacesEntry
    <2> QED
      BY <2>1, <2>2, <2>3
  <1>8. Typed'
    BY <1>0, <1>1, <1>5 DEF Typed
  <1>9. Work'
    <2>1. Fits(g, f)'
      BY <1>3, Kinds DEF Fits, May
    <2> QED
      BY <1>0, <1>1, <1>4, <1>5, <2>1, WorkStays
  <1>10. Answered'
    <2> SUFFICES ASSUME NEW k \in DOMAIN ord, ~ord[k].known
                 PROVE  \E h \in Goroutines : \E x \in Doing(h)' : x.op = "answer" /\ x.order = k
      BY <1>1 DEF Answered
    <2>1. PICK h \in Goroutines : \E x \in Doing(h) : x.op = "answer" /\ x.order = k
      BY <1>0 DEF Answered
    <2>2. \E x \in Doing(h)' : x.op = "answer" /\ x.order = k
      BY <1>5, <2>1
    <2> QED
      BY <2>2
  <1>11. Lists'
    <2>1. (\A i \in DOMAIN model.tapIds : IsLevel(model.tapIds[i]))'
      BY <1>0, <1>1 DEF Lists, IsLevel
    <2>2. canceling' \subseteq model'.orders
      BY <1>0, <1>1 DEF Lists
    <2> QED
      BY <1>0, <1>1, <2>1, <2>2 DEF Lists
  <1>12. Saves'
    <2>1. \E x \in Doing(g) : x.op = "saveStrategyConditions"
            => \E y \in Doing(g)' : y.op = "saveStrategyConditions"
      BY <1>5
    <2>2. ASSUME NEW x \in Doing(g), x.op = "saveStrategyConditions"
          PROVE  \E y \in Doing(g)' : y.op = "saveStrategyConditions"
      BY <1>5, <2>2
    <2> QED
      BY <1>0, <1>1, <1>2, <2>2 DEF Saves
  <1>13. Waits'
    BY <1>0, <1>1, <1>2, <1>5 DEF Waits
  <1>14. Entries'
    <2>1. CASE s = "WaitForEntry"
      <3>1. ASSUME machine = "WaitForEntry", NEW k \in Open, IsEntry(k)
            PROVE  k \in canceling'
        <4>1. ord[k].known
          BY <1>0, <3>1, AllKnown DEF Waits, Open
        <4> QED
          BY <1>1, <2>1, <3>1, <4>1 DEF IsEntry
      <3> QED
        BY <1>0, <1>1, <1>2, <1>7, <2>1, <3>1 DEF Entries
    <2>2. CASE s # "WaitForEntry"
      <3>1. ASSUME NEW k \in DOMAIN ord, LastEntry(k)
            PROVE  LastEntry(k)'
        <4>1. k \notin ids
          BY <2>2, <3>1 DEF LastEntry, IsEntry
        <4> QED
          BY <1>1, <1>2, <1>7, <2>2, <3>1, <4>1 DEF LastEntry
      <3> QED
        BY <1>0, <1>1, <1>2, <1>7, <2>2, <3>1 DEF Entries
    <2> QED
      BY <2>1, <2>2
  <1>15. OldStops'
    <2> SUFFICES ASSUME ~setup.early PROVE OldStops'
      BY <1>2 DEF OldStops
    <2>1. /\ machine # "WaitForEntry" /\ world.edits # 1
          /\ \A h \in Goroutines \ {g} : todo[h] = <<>>
      BY <1>0 DEF OldStops
    <2>2. ASSUME NEW t \in Stops, NEW k \in Open, ord[k].step = t, Pending(t)'
          PROVE  k \in canceling'
      <3>1. PICK h \in Goroutines : \E x \in Doing(h)' : x.op = "place" /\ x.step = t
        BY <2>2 DEF Pending
      <3>2. h = g
        BY <1>0, <1>5, <2>1, <3>1, Frameworks
      <3>3. ord[k].step = s
        BY <1>3, <1>5, <1>6, <2>2, <3>1, <3>2
      <3>4. ord[k].known
        BY <2>1, AllKnown DEF Open
      <3>5. s # "TakeProfit"
        BY <2>2, <3>3, Kinds
      <3> QED
        BY <1>1, <2>2, <3>3, <3>4, <3>5
    <2>3. \A j, k \in Open' \ canceling' :
             ord[j].step \in Stops /\ ord[k].step = ord[j].step => j = k
      BY <1>0, <1>1, <1>2 DEF OldStops
    <2> QED
      BY <1>1, <1>2, <1>5, <2>1, <2>2, <2>3 DEF OldStops
  <1>16. OneEntry'
    <2> SUFFICES ASSUME EntryKept PROVE OneEntry'
      BY <1>2 DEF OneEntry
    <2>1. s # "WaitForEntry"
      BY <1>0, <1>7 DEF OneEntry
    <2>2. PICK h : Sums(h) /\ Booking(h)
      BY <1>0 DEF OneEntry
    <2>3. Sums(h)' /\ Booking(h)'
      BY <1>1, <1>2, <2>2 DEF Sums, Booking
    <2>4. ASSUME machine = "InEntry", world.pos > 0
          PROVE  Guarded'
      <3>1. Guarded
        BY <1>0, <2>4 DEF OneEntry
      <3>2. CASE s = "Stoploss"
        <4>1. StopComes'
          BY <1>3, <1>5, <3>2 DEF StopComes
        <4> QED
          BY <4>1 DEF Guarded
      <3>3. CASE s # "Stoploss"
        <4>1. StopComes => StopComes'
          <5>1. Doing("Stoploss")' = Doing("Stoploss")
            BY <1>5
          <5>2. \A x \in Doing(g) :
                   x.op \in {"place", "replaceStop"} /\ x.step \in {"Stoploss", "Canceled"}
                     => x \in Doing(g)'
            BY <1>5, <3>3
          <5> QED
            BY <5>1, <5>2 DEF StopComes
        <4>2. ASSUME NEW k, Stop(k) PROVE Stop(k)'
          <5>1. k \notin ids
            BY <2>1, <3>3, <4>2 DEF Stop
          <5> QED
            BY <1>1, <1>2, <4>2, <5>1 DEF Stop
        <4> QED
          BY <1>1, <1>2, <3>1, <4>1, <4>2 DEF Guarded
      <3> QED
        BY <3>2, <3>3
    <2>5. \A k \in DOMAIN ord : IsEntry(k)' => k = 1
      BY <1>0, <1>2 DEF OneEntry
    <2>6. ~PlacesEntry' /\ ~ReplacesEntry' /\ (machine' # "WaitForEntry" => Bought')
      BY <1>0, <1>1, <1>2, <1>7, <2>1 DEF OneEntry
    <2>7. (\A k \in DOMAIN ord : ord[k].step = "Canceled" =>
             Bought /\ ord[k].qty = Amount /\ (ord[k].status # "open" => world.pos = 0))'
      BY <1>0, <1>1, <1>2 DEF OneEntry
    <2>8. \E hh : Sums(hh)' /\ Booking(hh)'
      BY <2>3
    <2> QED
      BY <1>1, <2>4, <2>5, <2>6, <2>7, <2>8 DEF OneEntry
  <1> QED
    BY <1>8, <1>9, <1>10, <1>11, <1>12, <1>13, <1>14, <1>15, <1>16 DEF IInv

\* The entry is replaced, and whatever else is open goes with it.
LEMMA ReplaceEntryInv ==
    ASSUME IInv, ReplaceEntry
    PROVE  IInv'
  <1>1. Top("watch", "replaceEntry") /\ Replace(model.orders, "WaitForEntry")
    BY DEF ReplaceEntry
  <1>2. todo["watch"] # <<>> /\ Head(todo["watch"]).op = "replaceEntry"
    BY <1>1, AtWatch
  <1>3. model.orders = {k \in DOMAIN ord : ord[k].known /\ ord[k].step # "Canceled"}
    BY DEF IInv, Lists
  <1>4. \A k \in Open : ord[k].known /\ ord[k].step = "WaitForEntry" => k \in model.orders
    BY <1>3 DEF Open
  <1>5. "WaitForEntry" \in Steps \ {"Canceled"}
    BY Kinds
  <1> QED
    BY <1>1, <1>2, <1>4, <1>5, ReplaceStep

\* A stop is replaced: all of its kind that are registered.
LEMMA ReplaceStopInv ==
    ASSUME IInv, ReplaceStop
    PROVE  IInv'
  <1> DEFINE s == Head(todo["watch"]).step
  <1>1. Top("watch", "replaceStop") /\ Replace(model.stopIds[s], s)
    BY DEF ReplaceStop
  <1>2. /\ todo["watch"] # <<>> /\ Head(todo["watch"]).op = "replaceStop"
        /\ s \in Stops /\ s \in Steps \ {"Canceled", "WaitForEntry", "TakeProfit"}
    BY <1>1, AtWatch, FrameFacts, Kinds
  <1>3. /\ model.orders = {k \in DOMAIN ord : ord[k].known /\ ord[k].step # "Canceled"}
        /\ model.stopIds[s] = {k \in DOMAIN ord : ord[k].known /\ ord[k].step = s}
    BY <1>2 DEF IInv, Lists
  <1>4. /\ model.stopIds[s] \subseteq model.orders
        /\ \A k \in model.stopIds[s] : ord[k].step = s
        /\ \A k \in Open : ord[k].known /\ ord[k].step = s => k \in model.stopIds[s]
    BY <1>2, <1>3 DEF Open
  <1> HIDE DEF s
  <1>5. Head(todo["watch"]).step = s
    BY DEF s
  <1> QED
    BY <1>1, <1>2, <1>4, <1>5, ReplaceStep

\* The exit is replaced, as a whole.
LEMMA ReplaceExitInv ==
    ASSUME IInv, ReplaceExit
    PROVE  IInv'
  <1>1. Top("watch", "replaceExit") /\ Replace(ToSet(model.tapIds), "TakeProfit")
    BY DEF ReplaceExit
  <1>2. todo["watch"] # <<>> /\ Head(todo["watch"]).op = "replaceExit"
    BY <1>1, AtWatch
  <1>3. /\ model.orders = {k \in DOMAIN ord : ord[k].known /\ ord[k].step # "Canceled"}
        /\ \A i \in DOMAIN model.tapIds : IsLevel(model.tapIds[i])
    BY DEF IInv, Lists
  <1>4. \A k \in ToSet(model.tapIds) : IsLevel(k)
    BY <1>3 DEF ToSet
  <1>5. /\ ToSet(model.tapIds) \subseteq model.orders
        /\ \A k \in ToSet(model.tapIds) : ord[k].step = "TakeProfit"
    BY <1>3, <1>4 DEF IsLevel
  <1>6. "TakeProfit" \in Steps \ {"Canceled", "WaitForEntry"}
    BY Kinds
  <1> QED
    BY <1>1, <1>2, <1>5, <1>6, ReplaceStep

-----------------------------------------------------------------------------
(* Orders that close *)

\* An order that is not open any more changes what is open only.
LEMMA ClosedFacts ==
    ASSUME Typed, NEW k \in DOMAIN ord, ord' = Closed({k})
    PROVE  /\ ord' \in Seq(OrderType) /\ Len(ord') = Len(ord) /\ DOMAIN ord' = DOMAIN ord
           /\ \A j \in DOMAIN ord :
                 /\ ord'[j].step = ord[j].step /\ ord'[j].qty = ord[j].qty
                 /\ ord'[j].price = ord[j].price /\ ord'[j].got = ord[j].got
                 /\ ord'[j].known = ord[j].known /\ ord'[j].told = ord[j].told
                 /\ j # k => ord'[j].status = ord[j].status
                 /\ (ord'[j].status = "filled" <=> ord[j].status = "filled")
                 /\ Unheard(ord'[j]) = Unheard(ord[j])
           /\ ord'[k].status # "open"
           /\ Open' = Open \ {k} /\ (Bought' <=> Bought)
           /\ \A j \in DOMAIN ord : IsEntry(j)' = IsEntry(j)
  <1>1. ord[k] \in OrderType
    <2>1. ord \in Seq(OrderType) /\ k \in 1 .. Len(ord)
      BY DEF Typed
    <2> QED
      BY <2>1, Element
  <1>2. PICK o : o = IF ord[k].status = "open" THEN [ord[k] EXCEPT !.status = "canceled"]
                                               ELSE ord[k]
    OBVIOUS
  <1>3. /\ o \in OrderType
        /\ o.step = ord[k].step /\ o.qty = ord[k].qty /\ o.price = ord[k].price
        /\ o.got = ord[k].got /\ o.known = ord[k].known /\ o.told = ord[k].told
        /\ (o.status = "filled" <=> ord[k].status = "filled") /\ o.status # "open"
    BY <1>1, <1>2 DEF OrderType
  <1>4. ord' = [ord EXCEPT ![k] = o]
    <2>1. ord' = [j \in DOMAIN ord |-> IF j \in {k} \cap Open
                                         THEN [ord[j] EXCEPT !.status = "canceled"] ELSE ord[j]]
      BY DEF Closed
    <2>2. [ord EXCEPT ![k] = o] = [j \in DOMAIN ord |-> IF j = k THEN o ELSE ord[j]]
      OBVIOUS
    <2>3. \A j \in DOMAIN ord : (IF j \in {k} \cap Open
                                THEN [ord[j] EXCEPT !.status = "canceled"] ELSE ord[j])
                               = IF j = k THEN o ELSE ord[j]
      BY <1>2 DEF Open
    <2> QED
      BY <2>1, <2>2, <2>3
  <1>5. /\ ord' \in Seq(OrderType) /\ Len(ord') = Len(ord) /\ DOMAIN ord' = DOMAIN ord
        /\ ord'[k] = o /\ \A j \in DOMAIN ord : j # k => ord'[j] = ord[j]
    BY <1>3, <1>4, OneOrder
  <1>6. \A j \in DOMAIN ord :
           /\ ord'[j].step = ord[j].step /\ ord'[j].qty = ord[j].qty
           /\ ord'[j].price = ord[j].price /\ ord'[j].got = ord[j].got
           /\ ord'[j].known = ord[j].known /\ ord'[j].told = ord[j].told
           /\ j # k => ord'[j].status = ord[j].status
           /\ (ord'[j].status = "filled" <=> ord[j].status = "filled")
    BY <1>3, <1>5
  <1>7. \A j \in DOMAIN ord : Unheard(ord'[j]) = Unheard(ord[j])
    BY <1>6 DEF Unheard
  <1>8. Open' = Open \ {k}
    <2>1. ord'[k].status # "open"
      BY <1>3, <1>5
    <2>2. \A j \in DOMAIN ord : j # k => ord'[j].status = ord[j].status
      BY <1>6
    <2> QED
      BY <1>5, <2>1, <2>2 DEF Open
  <1>9. Bought' <=> Bought
    <2>1. ASSUME NEW j \in DOMAIN ord
          PROVE  ord'[j].step = "WaitForEntry" /\ ord'[j].status = "filled"
                   <=> ord[j].step = "WaitForEntry" /\ ord[j].status = "filled"
      BY <1>6
    <2> QED
      BY <1>5, <2>1 DEF Bought, IsEntry
  <1>10. \A j \in DOMAIN ord : IsEntry(j)' = IsEntry(j)
    BY <1>6 DEF IsEntry
  <1> QED
    BY <1>3, <1>5, <1>6, <1>7, <1>8, <1>9, <1>10

\* What was sold unheard is the same as long as it is so of every order.
LEMMA SumsStay ==
    ASSUME NEW h, Sums(h), Len(ord') = Len(ord), DOMAIN ord' = DOMAIN ord,
           \A j \in DOMAIN ord : Unheard(ord'[j]) = Unheard(ord[j])
    PROVE  Sums(h)'
  BY DEF Sums

\* Frames stay what they are, but for levels that have been canceled.
SameWork ==
    /\ todo' \in [Goroutines -> Stacks]
    /\ \A g \in Goroutines : todo[g] = <<>> => todo'[g] = <<>>
    /\ \A g \in Goroutines : \A f \in Doing(g)' : f \in Doing(g) \/ f.op = "cancelLevels"
    /\ \A g \in Goroutines : \A f \in Doing(g) : f.op # "cancelLevels" => f \in Doing(g)'
    /\ Work'

\* Then they place, replace and save what they did before.
LEMMA SameWorkFacts ==
    ASSUME SameWork
    PROVE  /\ (PlacesEntry' <=> PlacesEntry) /\ (ReplacesEntry' <=> ReplacesEntry)
           /\ \A s \in Steps : Pending(s)' <=> Pending(s)
           /\ StopComes' <=> StopComes
           /\ (\E f \in Doing("watch") : f.op = "saveStrategyConditions")
                => \E f \in Doing("watch")' : f.op = "saveStrategyConditions"
           /\ \A g \in Goroutines : todo[g] = <<>> => todo'[g] = <<>>
           /\ \A k : (\E g \in Goroutines : \E f \in Doing(g) : f.op = "answer" /\ f.order = k)
                => \E g \in Goroutines : \E f \in Doing(g)' : f.op = "answer" /\ f.order = k
  <1>1. /\ "watch" \in Goroutines /\ "Stoploss" \in Goroutines
        /\ \A g \in Goroutines : \A f \in Doing(g)' : f \in Doing(g) \/ f.op = "cancelLevels"
        /\ \A g \in Goroutines : \A f \in Doing(g) : f.op # "cancelLevels" => f \in Doing(g)'
        /\ \A g \in Goroutines : todo[g] = <<>> => todo'[g] = <<>>
    BY Kinds DEF SameWork
  <1>2. \A g \in Goroutines : \A f : f.op # "cancelLevels" => (f \in Doing(g)' <=> f \in Doing(g))
    BY <1>1
  <1>3. /\ \A f : f.op # "cancelLevels" => (f \in Doing("watch")' <=> f \in Doing("watch"))
        /\ \A f : f.op # "cancelLevels" => (f \in Doing("Stoploss")' <=> f \in Doing("Stoploss"))
    BY <1>1, <1>2
  <1>4. (PlacesEntry' <=> PlacesEntry) /\ (ReplacesEntry' <=> ReplacesEntry)
    BY <1>3 DEF PlacesEntry, ReplacesEntry
  <1>5. ASSUME NEW s \in Steps
        PROVE  Pending(s)' <=> Pending(s)
    BY <1>2 DEF Pending
  <1>6. StopComes' <=> StopComes
    BY <1>3 DEF StopComes
  <1>7. (\E f \in Doing("watch") : f.op = "saveStrategyConditions")
          => \E f \in Doing("watch")' : f.op = "saveStrategyConditions"
    BY <1>3
  <1>8. \A k : (\E g \in Goroutines : \E f \in Doing(g) : f.op = "answer" /\ f.order = k)
          => \E g \in Goroutines : \E f \in Doing(g)' : f.op = "answer" /\ f.order = k
    BY <1>2
  <1> QED
    BY <1>1, <1>4, <1>5, <1>6, <1>7, <1>8

\* The lists of ids stay what they are.
LEMMA ListsStay ==
    ASSUME Lists, model'.orders = model.orders, model'.stopIds = model.stopIds,
           model'.tapIds = model.tapIds, canceling' \subseteq canceling,
           DOMAIN ord' = DOMAIN ord,
           \A j \in DOMAIN ord : ord'[j].known = ord[j].known /\ ord'[j].step = ord[j].step,
           \A j \in DOMAIN ord : ord'[j].told => ord'[j].known /\ ord'[j].status # "open"
    PROVE  Lists'
  <1>1. (\A i \in DOMAIN model.tapIds : IsLevel(model.tapIds[i]))'
    <2> SUFFICES ASSUME NEW i \in DOMAIN model.tapIds PROVE IsLevel(model.tapIds[i])'
      OBVIOUS
    <2>1. IsLevel(model.tapIds[i])
      BY DEF Lists
    <2> QED
      BY <2>1 DEF IsLevel
  <1>2. model'.orders = {j \in DOMAIN ord' : ord'[j].known /\ ord'[j].step # "Canceled"}
    <2>1. {j \in DOMAIN ord' : ord'[j].known /\ ord'[j].step # "Canceled"}
            = {j \in DOMAIN ord : ord[j].known /\ ord[j].step # "Canceled"}
      OBVIOUS
    <2> QED
      BY <2>1 DEF Lists
  <1>3. ASSUME NEW s \in Stops
        PROVE  model'.stopIds[s] = {j \in DOMAIN ord' : ord'[j].known /\ ord'[j].step = s}
    <2>1. {j \in DOMAIN ord' : ord'[j].known /\ ord'[j].step = s}
            = {j \in DOMAIN ord : ord[j].known /\ ord[j].step = s}
      OBVIOUS
    <2> QED
      BY <2>1 DEF Lists
  <1>4. canceling' \subseteq model'.orders
    BY DEF Lists
  <1> QED
    BY <1>1, <1>2, <1>3, <1>4 DEF Lists

\* A level, or an order that a cancel was on its way for, is closed.
LEMMA CloseStep ==
    ASSUME IInv, NEW k \in DOMAIN ord, ord' = Closed({k}), canceling' = canceling \ {k},
           UNCHANGED <<machine, model, target, world>>, SameWork,
           ord[k].step # "Canceled", k \in canceling \/ ord[k].step = "TakeProfit"
    PROVE  IInv'
  <1>0. Typed /\ Work /\ Answered /\ Lists /\ Saves /\ Waits /\ Entries /\ OldStops /\ OneEntry
    BY DEF IInv
  <1>1. /\ machine' = machine /\ model' = model /\ target' = target /\ world' = world
        /\ setup' = setup /\ Amount' = Amount /\ (EntryKept' <=> EntryKept)
        /\ todo' \in [Goroutines -> Stacks] /\ Work'
    BY SameSetup DEF EntryKept, SameWork
  <1>2. /\ ord' \in Seq(OrderType) /\ Len(ord') = Len(ord) /\ DOMAIN ord' = DOMAIN ord
        /\ \A j \in DOMAIN ord :
              /\ ord'[j].step = ord[j].step /\ ord'[j].qty = ord[j].qty
              /\ ord'[j].price = ord[j].price
              /\ ord'[j].known = ord[j].known /\ ord'[j].told = ord[j].told
              /\ j # k => ord'[j].status = ord[j].status
              /\ (ord'[j].status = "filled" <=> ord[j].status = "filled")
              /\ Unheard(ord'[j]) = Unheard(ord[j])
              /\ IsEntry(j)' = IsEntry(j)
        /\ ord'[k].status # "open" /\ Open' = Open \ {k} /\ (Bought' <=> Bought)
    BY <1>0, ClosedFacts
  <1>3. /\ PlacesEntry' <=> PlacesEntry
        /\ ReplacesEntry' <=> ReplacesEntry
        /\ \A s \in Steps : Pending(s)' <=> Pending(s)
        /\ StopComes' <=> StopComes
        /\ (\E f \in Doing("watch") : f.op = "saveStrategyConditions")
             => \E f \in Doing("watch")' : f.op = "saveStrategyConditions"
        /\ \A g \in Goroutines : todo[g] = <<>> => todo'[g] = <<>>
    BY SameWorkFacts
  <1>4. Typed'
    BY <1>0, <1>1, <1>2 DEF Typed
  <1>5. Answered'
    BY <1>0, <1>2, SameWorkFacts DEF Answered
  <1>6. Lists'
    <2>1. \A j \in DOMAIN ord : ord'[j].told => ord'[j].known /\ ord'[j].status # "open"
      <3>1. \A j \in DOMAIN ord : ord'[j].told => ord'[j].known
        BY <1>0, <1>2 DEF Lists
      <3>2. ASSUME NEW j \in DOMAIN ord, ord'[j].told
            PROVE  ord'[j].status # "open"
        <4>1. /\ ord'[j].told = ord[j].told /\ ord'[k].status # "open"
              /\ j # k => ord'[j].status = ord[j].status
          BY <1>2
        <4>2. ord[j].told => ord[j].status # "open"
          BY <1>0 DEF Lists
        <4> QED
          BY <3>2, <4>1, <4>2
      <3> QED
        BY <3>1, <3>2
    <2> QED
      BY <1>0, <1>1, <1>2, <2>1, ListsStay
  <1>7. Saves'
    BY <1>0, <1>1, <1>3 DEF Saves
  <1>8. Waits'
    BY <1>0, <1>1, <1>2, <1>3 DEF Waits
  <1>9. Entries'
    <2>1. ASSUME NEW j \in DOMAIN ord, LastEntry(j)
          PROVE  LastEntry(j)'
      <3>1. j # k
        BY <2>1 DEF LastEntry, IsEntry
      <3> QED
        BY <1>1, <1>2, <1>3, <2>1, <3>1 DEF LastEntry, Open
    <2>2. (\A j \in DOMAIN ord : IsEntry(j) => ord[j].qty = Amount)'
      BY <1>0, <1>1, <1>2 DEF Entries
    <2>3. ASSUME machine = "WaitForEntry", ~Bought, PlacesEntry, NEW j \in Open', IsEntry(j)'
          PROVE  j \in canceling'
      BY <1>0, <1>2, <2>3 DEF Entries, Open
    <2>4. ASSUME machine = "WaitForEntry", ~Bought, ~PlacesEntry
          PROVE  \E j \in DOMAIN ord : LastEntry(j)'
      BY <1>0, <2>1, <2>4 DEF Entries
    <2> QED
      BY <1>1, <1>2, <1>3, <2>2, <2>3, <2>4 DEF Entries
  <1>10. OldStops'
    <2> SUFFICES ASSUME ~setup.early PROVE OldStops'
      BY <1>1 DEF OldStops
    <2>1. /\ machine' = "WaitForEntry" => world'.edits = 1 /\ \A j \in DOMAIN ord' : IsEntry(j)'
          /\ world'.edits = 1 => todo'["watch"] = <<>>
          /\ world'.edits # 1 => \A g \in Goroutines \ {"watch"} : todo'[g] = <<>>
      <3>1. machine' = "WaitForEntry" => world'.edits = 1 /\ \A j \in DOMAIN ord' : IsEntry(j)'
        BY <1>0, <1>1, <1>2 DEF OldStops
      <3>2. world'.edits = 1 => todo'["watch"] = <<>>
        BY <1>0, <1>1, <1>3, Kinds DEF OldStops
      <3>3. world'.edits # 1 => \A g \in Goroutines \ {"watch"} : todo'[g] = <<>>
        BY <1>0, <1>1, <1>3 DEF OldStops
      <3> QED
        BY <3>1, <3>2, <3>3
    <2>2. ASSUME NEW s \in Stops, NEW j \in Open', ord'[j].step = s, Pending(s)'
          PROVE  j \in canceling'
      BY <1>0, <1>2, <1>3, <2>2, Kinds DEF OldStops, Open
    <2>3. \A i, j \in Open' \ canceling' :
             ord'[i].step \in Stops /\ ord'[j].step = ord'[i].step => i = j
      <3>1. Open' \ canceling' \subseteq Open \ canceling
        BY <1>2
      <3>2. \A i \in Open : ord'[i].step = ord[i].step
        BY <1>2 DEF Open
      <3> QED
        BY <1>0, <3>1, <3>2 DEF OldStops
    <2> QED
      BY <2>1, <2>2, <2>3 DEF OldStops
  <1>11. OneEntry'
    <2> SUFFICES ASSUME EntryKept PROVE OneEntry'
      BY <1>1 DEF OneEntry
    <2>1. PICK h : Sums(h) /\ Booking(h)
      BY <1>0 DEF OneEntry
    <2>2. Sums(h)' /\ Booking(h)'
      BY <1>1, <1>2, <2>1, SumsStay DEF Booking
    <2>3. ASSUME machine = "InEntry", world.pos > 0
          PROVE  Guarded'
      <3>1. Guarded
        BY <1>0, <2>3 DEF OneEntry
      <3>2. ASSUME NEW j \in DOMAIN ord, Stop(j)
            PROVE  Stop(j)'
        <4>1. j # k
          BY <3>2 DEF Stop
        <4> QED
          BY <1>1, <1>2, <3>2, <4>1 DEF Stop
      <3>3. ASSUME NEW j \in Open, ord[j].step = "Canceled"
            PROVE  j \in Open' /\ ord'[j].step = "Canceled"
        BY <1>2, <3>3 DEF Open
      <3> QED
        BY <1>2, <1>3, <3>1, <3>2, <3>3 DEF Guarded
    <2>4. \A j \in DOMAIN ord' : IsEntry(j)' => j = 1
      BY <1>0, <1>2 DEF OneEntry
    <2>5. ~PlacesEntry' /\ ~ReplacesEntry' /\ (machine' # "WaitForEntry" => Bought')
      BY <1>0, <1>1, <1>2, <1>3 DEF OneEntry
    <2>6. ASSUME NEW j \in DOMAIN ord', ord'[j].step = "Canceled"
          PROVE  Bought' /\ ord'[j].qty = Amount' /\ (ord'[j].status # "open" => world'.pos = 0)
      <3>1. j # k /\ ord[j].step = "Canceled" /\ j \in DOMAIN ord
        BY <1>2, <2>6
      <3>2. ord'[j].status = ord[j].status /\ ord'[j].qty = ord[j].qty
        BY <1>2, <3>1
      <3> QED
        BY <1>0, <1>1, <1>2, <3>1, <3>2 DEF OneEntry
    <2>7. \E hh : Sums(hh)' /\ Booking(hh)'
      BY <2>2
    <2> QED
      BY <1>1, <2>3, <2>4, <2>5, <2>6, <2>7 DEF OneEntry
  <1> QED
    BY <1>1, <1>4, <1>5, <1>6, <1>7, <1>8, <1>9, <1>10, <1>11 DEF IInv

\* Steps that leave the stacks alone.
LEMMA NoWork ==
    ASSUME Typed, Work, UNCHANGED todo, DOMAIN ord \subseteq DOMAIN ord',
           \A k \in DOMAIN ord : /\ ord'[k].step = ord[k].step
                                 /\ ord[k].known => ord'[k].known
    PROVE  SameWork
  <1>1. \A g : Doing(g)' = Doing(g)
    BY DEF Doing
  <1>2. Work'
    <2> SUFFICES ASSUME NEW g \in Goroutines, NEW f \in Doing(g)' PROVE Fits(g, f)'
      BY DEF Work
    <2>1. Fits(g, f)
      BY <1>1 DEF Work
    <2> QED
      BY <2>1, FitsStays
  <1> QED
    BY <1>1, <1>2 DEF SameWork, Typed

\* An answer to a cancel.
LEMMA CancelInv ==
    ASSUME IInv, NEW k \in canceling, CancelOrder(k)
    PROVE  IInv'
  <1>0. Typed /\ Work /\ Lists
    BY DEF IInv
  <1>1. k \in DOMAIN ord /\ ord[k].step # "Canceled"
    BY <1>0 DEF Lists
  <1>2. /\ canceling' = canceling \ {k} /\ ord' = Closed({k})
        /\ UNCHANGED <<machine, model, target, world>> /\ UNCHANGED todo
    BY DEF CancelOrder
  <1>3. SameWork
    BY <1>0, <1>1, <1>2, ClosedFacts, NoWork
  <1> QED
    BY <1>1, <1>2, <1>3, CloseStep

\* The watch cancels a level.
LEMMA CancelLevelInv ==
    ASSUME IInv, CancelLevel
    PROVE  IInv'
  <1> DEFINE g == "watch"
             f == Head(todo[g])
             k == Head(f.ids)
  <1>0. Typed /\ Work /\ Lists
    BY DEF IInv
  <1>1. /\ Top(g, "cancelLevels") /\ f.ids # <<>>
        /\ ord' = Closed({k}) /\ canceling' = canceling \ {k}
        /\ todo' = Then(g, <<[f EXCEPT !.ids = Tail(@)]>>)
        /\ UNCHANGED <<machine, model, target, world>>
    BY DEF CancelLevel
  <1>2. /\ todo[g] # <<>> /\ f.op = "cancelLevels" /\ g \in Goroutines
        /\ f \in Frames /\ Fits(g, f)
    BY <1>1, AtWatch
  <1>3. f = [op |-> "cancelLevels", keep |-> f.keep, ids |-> f.ids]
    BY <1>2 DEF Frames, Later
  <1>4. f.keep \in Seq(Nat) /\ f.ids \in Seq(Nat)
    BY <1>2, FrameFacts
  <1>5. PICK ids : ids = f.ids
    OBVIOUS
  <1>6. /\ ids # <<>> /\ ids \in Seq(Nat) /\ Tail(ids) \in Seq(Nat) /\ k = ids[1]
        /\ 1 \in DOMAIN ids /\ DOMAIN Tail(ids) = 1 .. Len(ids) - 1
        /\ \A i \in DOMAIN Tail(ids) : Tail(ids)[i] = ids[i + 1] /\ i + 1 \in DOMAIN ids
    BY <1>1, <1>4, <1>5
  <1>7. /\ \A i \in DOMAIN f.keep : IsLevel(f.keep[i])
        /\ \A i \in DOMAIN ids : IsLevel(ids[i])
    BY <1>2, <1>5 DEF Fits
  <1>8. PICK rest : rest = Tail(ids)
    OBVIOUS
  <1>9. PICK new : new = [op |-> "cancelLevels", keep |-> f.keep, ids |-> rest]
    OBVIOUS
  <1>10. new = [f EXCEPT !.ids = Tail(@)]
    <2>1. [f EXCEPT !.ids = Tail(@)] = [f EXCEPT !.ids = rest]
      BY <1>5, <1>8
    <2>2. PICK keep : keep = f.keep
      OBVIOUS
    <2>3. f = [op |-> "cancelLevels", keep |-> keep, ids |-> ids]
      BY <1>3, <1>5, <2>2
    <2> HIDE DEF f
    <2>4. [f EXCEPT !.ids = rest] = [op |-> "cancelLevels", keep |-> keep, ids |-> rest]
      BY <2>3
    <2> QED
      BY <1>9, <2>1, <2>2, <2>4
  <1>11. new \in Frames /\ new.op = "cancelLevels" /\ Fits(g, new)
    <2>1. \A i \in DOMAIN rest : IsLevel(rest[i])
      BY <1>6, <1>7, <1>8
    <2>2. rest \in Seq(Nat)
      BY <1>6, <1>8
    <2>3. new \in Frames
      BY <1>4, <1>9, <2>2, NewFrames
    <2> QED
      BY <1>7, <1>9, <2>1, <2>3 DEF Fits
  <1>12. Goes(g, {new})
    BY <1>1, <1>10, <1>11 DEF Goes
  <1>13. k \in DOMAIN ord /\ ord[k].step = "TakeProfit"
    BY <1>6, <1>7 DEF IsLevel
  <1> HIDE DEF k
  <1>14. /\ DOMAIN ord' = DOMAIN ord
         /\ \A j \in DOMAIN ord : ord'[j].step = ord[j].step /\ ord'[j].known = ord[j].known
    BY <1>0, <1>1, <1>13, ClosedFacts
  <1>15. Work'
    <2>1. Fits(g, new)'
      BY <1>11, <1>14, FitsStays
    <2> QED
      BY <1>0, <1>2, <1>12, <1>14, <2>1, WorkStays
  <1>16. SameWork
    <2>1. /\ todo' \in [Goroutines -> Stacks]
          /\ Doing(g)' = {new} \cup Below(g) /\ Doing(g) = {f} \cup Below(g)
          /\ \A h \in Goroutines : h # g => todo'[h] = todo[h] /\ Doing(h)' = Doing(h)
      BY <1>0, <1>2, <1>12, GoesFacts, AtWork
    <2> HIDE DEF f
    <2>2. \A h \in Goroutines : todo[h] = <<>> => todo'[h] = <<>>
      BY <1>2, <2>1
    <2>3. /\ \A h \in Goroutines : \A x \in Doing(h)' : x \in Doing(h) \/ x.op = "cancelLevels"
          /\ \A h \in Goroutines : \A x \in Doing(h) : x.op # "cancelLevels" => x \in Doing(h)'
      BY <1>2, <1>11, <2>1
    <2> QED
      BY <1>15, <2>1, <2>2, <2>3 DEF SameWork
  <1> QED
    BY <1>1, <1>13, <1>16, CloseStep

-----------------------------------------------------------------------------
(* Fills *)

\* The lesser of two numbers.
LEMMA LesserOf ==
    ASSUME NEW a \in Nat, NEW b \in Nat
    PROVE  Min({a, b}) \in Nat /\ Min({a, b}) <= a /\ Min({a, b}) <= b
           /\ (a >= b => Min({a, b}) = b)
  <1>1. Min({a, b}) \in {a, b} /\ \A m \in {a, b} : Min({a, b}) <= m
    BY Least
  <1> QED
    BY <1>1

\* An entry fills as a whole; an exit as far as there is a position.
LEMMA FillInv ==
    ASSUME IInv, NEW k \in DOMAIN ord, Fill(k)
    PROVE  IInv'
  <1>0. Typed /\ Work /\ Answered /\ Lists /\ Saves /\ Waits /\ Entries /\ OldStops /\ OneEntry
    BY DEF IInv
  <1>1. /\ k \in Open /\ canceling' = canceling \ {k}
        /\ UNCHANGED <<machine, model, target>> /\ UNCHANGED todo
    BY DEF Fill
  <1>2. PICK got : got = IF IsEntry(k) THEN ord[k].qty ELSE Min({ord[k].qty, world.pos})
    OBVIOUS
  <1>3. PICK pos : pos = IF IsEntry(k) THEN world.pos + got ELSE world.pos - got
    OBVIOUS
  <1>4. PICK o : o = [ord[k] EXCEPT !.status = IF got = 0 THEN "canceled" ELSE "filled",
                                    !.got = got]
    OBVIOUS
  <1>5. ord' = [ord EXCEPT ![k] = o] /\ world' = [world EXCEPT !.pos = pos]
    BY <1>2, <1>3, <1>4 DEF Fill, IsEntry
  <1>6. /\ ord[k] \in OrderType /\ ord[k].qty \in Nat \ {0} /\ world.pos \in Nat
        /\ ord[k].status = "open"
    <2>1. ord \in Seq(OrderType) /\ k \in 1 .. Len(ord)
      BY <1>0 DEF Typed
    <2>2. ord[k] \in OrderType
      BY <2>1, Element
    <2> QED
      BY <1>0, <1>1, <2>2, SetupFacts DEF OrderType, Open
  <1>7. got \in Nat /\ got <= ord[k].qty
    <2>1. CASE IsEntry(k)
      BY <1>2, <1>6, <2>1
    <2>2. CASE ~IsEntry(k)
      BY <1>2, <1>6, <2>2, LesserOf
    <2> QED
      BY <2>1, <2>2
  <1>8. /\ ~IsEntry(k) => got <= world.pos /\ pos = world.pos - got
                            /\ (ord[k].qty >= world.pos => pos = 0)
        /\ IsEntry(k) => got = ord[k].qty /\ pos = world.pos + got
        /\ pos \in Nat
    <2>1. CASE IsEntry(k)
      BY <1>2, <1>3, <1>6, <1>7, <2>1
    <2>2. CASE ~IsEntry(k)
      BY <1>2, <1>3, <1>6, <1>7, <2>2, LesserOf
    <2> QED
      BY <2>1, <2>2
  <1>9. /\ o \in OrderType
        /\ o.step = ord[k].step /\ o.qty = ord[k].qty /\ o.price = ord[k].price
        /\ o.got = got /\ o.known = ord[k].known /\ o.told = ord[k].told
        /\ o.status = IF got = 0 THEN "canceled" ELSE "filled"
    <2>1. PICK st \in {"canceled", "filled"} : st = IF got = 0 THEN "canceled" ELSE "filled"
      OBVIOUS
    <2>2. o = [ord[k] EXCEPT !.status = st, !.got = got]
      BY <1>4, <2>1
    <2> QED
      BY <1>6, <1>7, <2>1, <2>2 DEF OrderType
  <1>10. /\ ord' \in Seq(OrderType) /\ Len(ord') = Len(ord) /\ DOMAIN ord' = DOMAIN ord
         /\ ord'[k] = o /\ \A j \in DOMAIN ord : j # k => ord'[j] = ord[j]
    BY <1>0, <1>5, <1>9, OneOrder
  <1>11. \A j \in DOMAIN ord :
            /\ ord'[j].step = ord[j].step /\ ord'[j].qty = ord[j].qty
            /\ ord'[j].price = ord[j].price
            /\ ord'[j].known = ord[j].known /\ ord'[j].told = ord[j].told
            /\ j # k => ord'[j].status = ord[j].status
    BY <1>9, <1>10
  <1>12. /\ Open' = Open \ {k} /\ ~ord[k].told
         /\ \A j \in DOMAIN ord : IsEntry(j)' <=> IsEntry(j)
    <2>1. ~ord[k].told
      BY <1>0, <1>6 DEF Lists
    <2>2. Open' = Open \ {k}
      BY <1>9, <1>10, <1>11 DEF Open
    <2>3. \A j \in DOMAIN ord : IsEntry(j)' <=> IsEntry(j)
      BY <1>11 DEF IsEntry
    <2> QED
      BY <2>1, <2>2, <2>3
  <1>13. /\ IsEntry(k) => Bought'
         /\ ~IsEntry(k) => (Bought' <=> Bought)
    <2>1. ASSUME IsEntry(k) PROVE Bought'
      BY <1>6, <1>8, <1>9, <1>10, <1>12, <2>1 DEF Bought
    <2>2. ASSUME ~IsEntry(k), NEW j \in DOMAIN ord
          PROVE  IsEntry(j)' /\ ord'[j].status = "filled" <=> IsEntry(j) /\ ord[j].status = "filled"
      <3>1. CASE j = k
        BY <1>12, <2>2, <3>1
      <3>2. CASE j # k
        BY <1>11, <1>12, <3>2
      <3> QED
        BY <3>1, <3>2
    <2>3. ASSUME ~IsEntry(k) PROVE Bought' <=> Bought
      BY <1>10, <2>2, <2>3 DEF Bought
    <2> QED
      BY <2>1, <2>3
  <1>14. /\ world' \in WorldType /\ world'.setup = world.setup /\ world'.edits = world.edits
         /\ world'.pos = pos
    BY <1>0, <1>5, <1>8 DEF Typed, WorldType
  <1>15. /\ setup' = setup /\ Amount' = Amount /\ (EntryKept' <=> EntryKept)
         /\ machine' = machine /\ model' = model /\ target' = target /\ todo' = todo
    BY <1>1, <1>14, SameSetup DEF EntryKept
  <1>16. SameWork
    BY <1>0, <1>1, <1>10, <1>11, NoWork
  <1>17. /\ PlacesEntry' <=> PlacesEntry
         /\ ReplacesEntry' <=> ReplacesEntry
         /\ \A s \in Steps : Pending(s)' <=> Pending(s)
         /\ StopComes' <=> StopComes
    BY <1>16, SameWorkFacts
  <1>18. Typed' /\ Work'
    BY <1>0, <1>10, <1>14, <1>15, <1>16 DEF Typed, SameWork
  <1>19. Answered'
    BY <1>0, <1>10, <1>11, <1>16, SameWorkFacts DEF Answered
  <1>20. Lists'
    <2>1. \A j \in DOMAIN ord : ord'[j].known = ord[j].known /\ ord'[j].step = ord[j].step
      BY <1>11
    <2>2. ASSUME NEW j \in DOMAIN ord, ord'[j].told
          PROVE  ord'[j].known /\ ord'[j].status # "open"
      <3>1. j # k /\ ord[j].told
        BY <1>11, <1>12, <2>2
      <3>2. ord[j].known /\ ord[j].status # "open"
        BY <1>0, <3>1 DEF Lists
      <3> QED
        BY <1>10, <3>1, <3>2
    <2> QED
      BY <1>0, <1>1, <1>10, <1>15, <2>1, <2>2, ListsStay
  <1>21. Saves'
    BY <1>0, <1>14, <1>15, <1>16, SameWorkFacts DEF Saves
  <1>22. Waits'
    <2>1. machine' = "WaitForEntry" =>
             ~model'.entered /\ \A g \in Goroutines \ {"watch"} : todo'[g] = <<>>
      BY <1>0, <1>15 DEF Waits
    <2>2. ASSUME NEW j \in DOMAIN ord', IsEntry(j)', ord'[j].status = "filled", ord'[j].told
          PROVE  machine' # "WaitForEntry"
      <3>1. j # k /\ IsEntry(j) /\ ord[j].status = "filled" /\ ord[j].told
        BY <1>10, <1>11, <1>12, <2>2
      <3> QED
        BY <1>0, <1>10, <1>15, <2>2, <3>1 DEF Waits
    <2> QED
      BY <2>1, <2>2 DEF Waits
  <1>23. Entries'
    <2>1. ASSUME ~IsEntry(k), NEW j \in DOMAIN ord, LastEntry(j)
          PROVE  LastEntry(j)'
      <3>1. j # k
        BY <2>1 DEF LastEntry
      <3> QED
        BY <1>1, <1>11, <1>12, <1>15, <1>17, <2>1, <3>1 DEF LastEntry, Open
    <2>2. \A j \in DOMAIN ord' : IsEntry(j)' => ord'[j].qty = Amount'
      BY <1>0, <1>10, <1>11, <1>12, <1>15 DEF Entries
    <2>3. ASSUME machine = "WaitForEntry", ~Bought', PlacesEntry, NEW j \in Open', IsEntry(j)'
          PROVE  j \in canceling'
      <3>1. ~Bought /\ j \in Open /\ IsEntry(j) /\ j # k
        BY <1>12, <1>13, <2>3 DEF Open
      <3> QED
        BY <1>0, <1>1, <2>3, <3>1 DEF Entries
    <2>4. ASSUME machine = "WaitForEntry", ~Bought', ~PlacesEntry
          PROVE  \E j \in DOMAIN ord : LastEntry(j)'
      <3>1. ~Bought /\ ~IsEntry(k)
        BY <1>13, <2>4
      <3>2. PICK j \in DOMAIN ord : LastEntry(j)
        BY <1>0, <2>4, <3>1 DEF Entries
      <3> QED
        BY <2>1, <3>1, <3>2
    <2> QED
      BY <1>10, <1>15, <1>17, <2>2, <2>3, <2>4 DEF Entries
  <1>24. OldStops'
    <2> SUFFICES ASSUME ~setup.early PROVE OldStops'
      BY <1>15 DEF OldStops
    <2>1. machine' = "WaitForEntry" => world'.edits = 1 /\ \A j \in DOMAIN ord' : IsEntry(j)'
      BY <1>0, <1>10, <1>12, <1>14, <1>15 DEF OldStops
    <2>2. /\ world'.edits = 1 => todo'["watch"] = <<>>
          /\ world'.edits # 1 => \A g \in Goroutines \ {"watch"} : todo'[g] = <<>>
      BY <1>0, <1>14, <1>15 DEF OldStops
    <2>3. ASSUME NEW s \in Stops, NEW j \in Open', ord'[j].step = s, Pending(s)'
          PROVE  j \in canceling'
      <3>1. j \in Open /\ j # k /\ ord[j].step = s /\ Pending(s)
        BY <1>11, <1>12, <1>17, <2>3, Kinds DEF Open
      <3> QED
        BY <1>0, <1>1, <3>1 DEF OldStops
    <2>4. \A i, j \in Open' \ canceling' :
             ord'[i].step \in Stops /\ ord'[j].step = ord'[i].step => i = j
      <3>1. Open' \ canceling' \subseteq Open \ canceling
        BY <1>1, <1>12
      <3>2. \A i \in Open : ord'[i].step = ord[i].step
        BY <1>11 DEF Open
      <3> QED
        BY <1>0, <3>1, <3>2 DEF OldStops
    <2> QED
      BY <2>1, <2>2, <2>3, <2>4 DEF OldStops
  <1>25. OneEntry'
    <2> SUFFICES ASSUME EntryKept PROVE OneEntry'
      BY <1>15 DEF OneEntry
    <2>1. PICK h : Sums(h) /\ Booking(h)
      BY <1>0 DEF OneEntry
    <2>2. h[Len(ord)] \in Int
      BY <1>0, <2>1, SumsArePositive
    <2>3. /\ world.pos \in Nat /\ model.executed \in Nat /\ Amount \in Nat \ {0}
          /\ world.pos <= Amount - model.executed
      BY Left
    <2>4. IsEntry(k) => k = 1 /\ ~Bought /\ ord[k].qty = Amount
      <3>1. ASSUME IsEntry(k), Bought PROVE FALSE
        <4>1. PICK j \in DOMAIN ord : IsEntry(j) /\ ord[j].status = "filled"
          BY <3>1 DEF Bought
        <4>2. j = 1 /\ k = 1
          BY <1>0, <3>1, <4>1 DEF OneEntry
        <4> QED
          BY <1>6, <4>1, <4>2
      <3> QED
        BY <1>0, <3>1 DEF OneEntry, Entries
    <2>5. \E hh : Sums(hh)' /\ Booking(hh)'
      <3>1. PICK hh : /\ Sums(hh)'
                      /\ hh[Len(ord')] = h[Len(ord)] + Unheard(o) - Unheard(ord[k])
        BY <1>0, <1>5, <1>9, <2>1, Resum
      <3>2. Unheard(ord[k]) = 0
        BY <1>6 DEF Unheard
      <3>3. CASE IsEntry(k)
        <4>1. Unheard(o) = 0
          BY <1>9, <3>3 DEF Unheard, IsEntry
        <4>2. hh[Len(ord')] = h[Len(ord)]
          BY <2>2, <3>1, <3>2, <4>1
        <4>3. world.pos = 0 - model.executed - h[Len(ord)] /\ Bought' /\ pos = world.pos + Amount
          BY <1>8, <1>13, <2>1, <2>4, <3>3 DEF Booking
        <4>4. pos = Amount - model.executed - h[Len(ord)]
          BY <2>2, <2>3, <4>3
        <4> QED
          BY <1>14, <1>15, <3>1, <4>2, <4>3, <4>4 DEF Booking
      <3>4. CASE ~IsEntry(k)
        <4>1. Unheard(o) = got
          BY <1>7, <1>9, <1>12, <3>4 DEF Unheard, IsEntry
        <4>2. hh[Len(ord')] = h[Len(ord)] + got
          BY <1>7, <2>2, <3>1, <3>2, <4>1
        <4>3. pos = world.pos - got
          BY <1>8, <3>4
        <4>4. CASE Bought
          <5>1. world.pos = Amount - model.executed - h[Len(ord)]
            BY <2>1, <4>4 DEF Booking
          <5>2. pos = Amount - model.executed - hh[Len(ord')] /\ Bought'
            BY <1>7, <1>13, <2>2, <2>3, <3>4, <4>2, <4>3, <4>4, <5>1
          <5> QED
            BY <1>14, <1>15, <3>1, <5>2 DEF Booking
        <4>5. CASE ~Bought
          <5>1. world.pos = 0 - model.executed - h[Len(ord)]
            BY <2>1, <4>5 DEF Booking
          <5>2. pos = 0 - model.executed - hh[Len(ord')] /\ ~Bought'
            BY <1>7, <1>13, <2>2, <2>3, <3>4, <4>2, <4>3, <4>5, <5>1
          <5> QED
            BY <1>14, <1>15, <3>1, <5>2 DEF Booking
        <4> QED
          BY <4>4, <4>5
      <3> QED
        BY <3>3, <3>4
    <2>6. ASSUME machine = "InEntry", pos > 0
          PROVE  Guarded'
      <3>1. Bought /\ ~IsEntry(k)
        BY <1>0, <2>4, <2>6 DEF OneEntry
      <3>2. world.pos > 0 /\ pos <= world.pos /\ ~(ord[k].qty >= world.pos)
        BY <1>6, <1>7, <1>8, <2>6, <3>1
      <3>3. Guarded
        BY <1>0, <2>6, <3>2 DEF OneEntry
      <3>4. ASSUME NEW j \in DOMAIN ord, Stop(j)
            PROVE  Stop(j)'
        <4>1. j # k
          BY <3>2, <3>4 DEF Stop
        <4>2. ord[j].qty \in Nat
          <5>1. ord \in Seq(OrderType) /\ j \in 1 .. Len(ord)
            BY <1>0 DEF Typed
          <5>2. ord[j] \in OrderType
            BY <5>1, Element
          <5> QED
            BY <5>2 DEF OrderType
        <4>3. ord[j].qty >= pos
          BY <1>6, <1>8, <3>2, <3>4, <4>2 DEF Stop
        <4> QED
          BY <1>1, <1>11, <1>12, <1>14, <1>15, <3>4, <4>1, <4>3 DEF Stop
      <3>5. ASSUME NEW j \in Open, ord[j].step = "Canceled"
            PROVE  j \in Open' /\ ord'[j].step = "Canceled"
        <4>1. ord[j].qty = Amount
          BY <1>0, <3>5 DEF OneEntry, Open
        <4>2. j # k
          BY <2>3, <3>2, <4>1
        <4> QED
          BY <1>11, <1>12, <3>5, <4>2 DEF Open
      <3> QED
        BY <1>10, <1>17, <3>3, <3>4, <3>5 DEF Guarded
    <2>7. \A j \in DOMAIN ord' : IsEntry(j)' => j = 1
      BY <1>0, <1>10, <1>12 DEF OneEntry
    <2>8. ~PlacesEntry' /\ ~ReplacesEntry' /\ (machine' # "WaitForEntry" => Bought')
      BY <1>0, <1>13, <1>15, <1>17 DEF OneEntry
    <2>9. ASSUME NEW j \in DOMAIN ord', ord'[j].step = "Canceled"
          PROVE  Bought' /\ ord'[j].qty = Amount' /\ (ord'[j].status # "open" => pos = 0)
      <3>1. j \in DOMAIN ord /\ ord[j].step = "Canceled" /\ ord'[j].qty = ord[j].qty
        BY <1>10, <1>11, <2>9
      <3>2. Bought /\ ord[j].qty = Amount /\ (ord[j].status # "open" => world.pos = 0)
        BY <1>0, <3>1 DEF OneEntry
      <3>3. ~IsEntry(k) /\ Bought'
        BY <1>13, <2>4, <3>2
      <3>4. CASE j = k
        <4>1. ord[k].qty >= world.pos
          BY <2>3, <3>2, <3>4
        <4> QED
          BY <1>8, <1>15, <3>1, <3>2, <3>3, <4>1
      <3>5. CASE j # k
        <4>1. world.pos = 0 => pos = 0
          BY <1>6, <1>7, <1>8, <3>3
        <4> QED
          BY <1>11, <1>15, <3>1, <3>2, <3>3, <3>5, <4>1
      <3> QED
        BY <3>4, <3>5
    <2> QED
      BY <1>14, <1>15, <2>5, <2>6, <2>7, <2>8, <2>9 DEF OneEntry
  <1> QED
    BY <1>18, <1>19, <1>20, <1>21, <1>22, <1>23, <1>24, <1>25 DEF IInv

-----------------------------------------------------------------------------
(* Callbacks *)

\* An order that is heard of has closed, and is not told again.
LEMMA Heard ==
    ASSUME IInv, NEW k, Hears(k)
    PROVE  /\ k \in DOMAIN ord /\ ord[k] \in OrderType /\ ord[k].status # "open"
           /\ ord[k].known /\ ~ord[k].told
           /\ ord' \in Seq(OrderType) /\ Len(ord') = Len(ord) /\ DOMAIN ord' = DOMAIN ord
           /\ \A j \in DOMAIN ord :
                 /\ ord'[j].step = ord[j].step /\ ord'[j].qty = ord[j].qty
                 /\ ord'[j].price = ord[j].price /\ ord'[j].known = ord[j].known
                 /\ ord'[j].status = ord[j].status
                 /\ j # k => ord'[j].told = ord[j].told
           /\ Open' = Open /\ (Bought' <=> Bought)
           /\ \A j \in DOMAIN ord : IsEntry(j)' <=> IsEntry(j)
           /\ \A h : Sums(h) =>
                 \E hh : Sums(hh)' /\ hh[Len(ord')] = h[Len(ord)] - Unheard(ord[k])
  <1>1. /\ k \in DOMAIN ord /\ ord[k].status # "open" /\ ord[k].known /\ ~ord[k].told
        /\ ord' = [ord EXCEPT ![k].told = TRUE]
    BY DEF Hears, IsOrderExistsInMap
  <1>2. Typed /\ ord[k] \in OrderType
    <2>1. Typed
      BY DEF IInv
    <2>2. ord \in Seq(OrderType) /\ k \in 1 .. Len(ord)
      BY <1>1, <2>1 DEF Typed
    <2> QED
      BY <2>1, <2>2, Element
  <1>3. PICK o : o = [ord[k] EXCEPT !.told = TRUE]
    OBVIOUS
  <1>4. /\ o \in OrderType /\ o.step = ord[k].step /\ o.qty = ord[k].qty
        /\ o.price = ord[k].price /\ o.known = ord[k].known /\ o.status = ord[k].status
        /\ o.told
    BY <1>2, <1>3 DEF OrderType
  <1>5. ord' = [ord EXCEPT ![k] = o]
    BY <1>1, <1>3
  <1>6. /\ ord' \in Seq(OrderType) /\ Len(ord') = Len(ord) /\ DOMAIN ord' = DOMAIN ord
        /\ ord'[k] = o /\ \A j \in DOMAIN ord : j # k => ord'[j] = ord[j]
    BY <1>1, <1>2, <1>4, <1>5, OneOrder
  <1>7. \A j \in DOMAIN ord :
           /\ ord'[j].step = ord[j].step /\ ord'[j].qty = ord[j].qty
           /\ ord'[j].price = ord[j].price /\ ord'[j].known = ord[j].known
           /\ ord'[j].status = ord[j].status
           /\ j # k => ord'[j].told = ord[j].told
    BY <1>4, <1>6
  <1>8. Open' = Open
    BY <1>6, <1>7 DEF Open
  <1>9. \A j \in DOMAIN ord : IsEntry(j)' <=> IsEntry(j)
    BY <1>7 DEF IsEntry
  <1>10. Bought' <=> Bought
    BY <1>6, <1>7, <1>9 DEF Bought
  <1>11. ASSUME NEW h, Sums(h)
         PROVE  \E hh : Sums(hh)' /\ hh[Len(ord')] = h[Len(ord)] - Unheard(ord[k])
    <2>1. PICK hh : Sums(hh)' /\ hh[Len(ord')] = h[Len(ord)] + Unheard(o) - Unheard(ord[k])
      <3>1. k \in DOMAIN ord /\ Typed /\ o \in OrderType
        BY <1>1, <1>2, <1>4
      <3> QED
        BY <1>5, <1>11, <3>1, Resum
    <2>2. Unheard(o) = 0
      BY <1>4 DEF Unheard
    <2>3. h[Len(ord)] \in Int /\ Unheard(ord[k]) \in Nat
      BY <1>2, <1>11, SumsArePositive, UnheardTyped
    <2> QED
      BY <2>1, <2>2, <2>3
  <1> QED
    BY <1>1, <1>2, <1>6, <1>7, <1>8, <1>9, <1>10, <1>11

\* While the order waits, a transition has the exits and the stops placed; later on it
\* is the end.
LEMMA TransitionFacts ==
    ASSUME IInv, Transition
    PROVE  /\ todo' \in [Goroutines -> Stacks] /\ todo'["watch"] = todo["watch"]
           /\ \A g \in Goroutines : Doing(g) \subseteq Doing(g)'
           /\ \/ machine = "WaitForEntry" /\ machine' = "InEntry"
              \/ machine # "WaitForEntry" /\ machine' = "End" /\ todo' = todo
           /\ \A g \in Goroutines \ {"watch"} : \A f \in Doing(g)' :
                 \/ f \in Doing(g)
                 \/ machine = "WaitForEntry" /\ f.op = "place" /\ May(g, f.step)
           /\ machine = "WaitForEntry" => StopComes'
  <1>0. Typed /\ Waits /\ "watch" \in Goroutines
    BY Kinds DEF IInv
  <1>1. CASE machine # "WaitForEntry"
    <2>1. machine' = "End" /\ todo' = todo
      BY <1>1 DEF Transition
    <2>2. \A g : Doing(g)' = Doing(g)
      BY <2>1 DEF Doing
    <2> QED
      BY <1>0, <1>1, <2>1, <2>2 DEF Typed
  <1>2. CASE machine = "WaitForEntry"
    <2>1. machine' = "InEntry" /\ \A g \in Goroutines \ {"watch"} : todo[g] = <<>>
      BY <1>0, <1>2 DEF Transition, Waits
    <2>2. PICK tap : tap = <<Place("TakeProfit")>>
      OBVIOUS
    <2>3. PICK stop : stop = <<Place("Stoploss")>>
      OBVIOUS
    <2>4. PICK forced : forced = IF model.cond.forced > 0 THEN <<Place("ForcedLoss")>> ELSE <<>>
      OBVIOUS
    <2>5. todo' = [todo EXCEPT !["entering"] = tap, !["Stoploss"] = stop, !["ForcedLoss"] = forced]
      BY <1>2, <2>2, <2>3, <2>4 DEF Transition
    <2>6. todo \in [Goroutines -> Stacks]
      BY <1>0 DEF Typed
    <2>7. \A s \in Steps : /\ <<Place(s)>> \in Stacks /\ Within(<<Place(s)>>) = {Place(s)}
                           /\ Place(s).op = "place" /\ Place(s).step = s
      <3> SUFFICES ASSUME NEW s \in Steps
                   PROVE  /\ <<Place(s)>> \in Stacks /\ Within(<<Place(s)>>) = {Place(s)}
                          /\ Place(s).op = "place" /\ Place(s).step = s
        OBVIOUS
      <3>1. Place(s) \in Frames /\ Place(s).op = "place" /\ Place(s).step = s
        BY NewFrames DEF Place
      <3>2. PICK p : p = Place(s)
        OBVIOUS
      <3>3. /\ <<p>> \in Seq(Frames) /\ Len(<<p>>) = 1 /\ DOMAIN <<p>> = {1} /\ <<p>>[1] = p
            /\ \A i \in 2 .. Len(<<p>>) : FALSE
        BY <3>1, <3>2
      <3> QED
        BY <3>1, <3>2, <3>3 DEF Stacks, Within
    <2>8. <<>> \in Stacks /\ Within(<<>>) = {}
      BY DEF Stacks, Within
    <2>9. /\ tap \in Stacks /\ \A f \in Within(tap) : f.op = "place" /\ f.step = "TakeProfit"
          /\ stop \in Stacks /\ \A f \in Within(stop) : f.op = "place" /\ f.step = "Stoploss"
          /\ forced \in Stacks /\ \A f \in Within(forced) : f.op = "place" /\ f.step = "ForcedLoss"
          /\ Place("Stoploss") \in Within(stop) /\ Place("Stoploss").op = "place"
      BY <2>2, <2>3, <2>4, <2>7, <2>8, Kinds
    <2>10. /\ todo' \in [Goroutines -> Stacks] /\ todo'["watch"] = todo["watch"]
           /\ todo'["entering"] = tap /\ todo'["Stoploss"] = stop /\ todo'["ForcedLoss"] = forced
      BY <2>5, <2>6, <2>9, Kinds
    <2>11. \A g \in Goroutines \ {"watch"} : Doing(g) = {}
      BY <1>0, <2>1, Frameworks
    <2>12. Doing("watch")' = Doing("watch")
      BY <2>10 DEF Doing
    <2>13. ASSUME NEW g \in Goroutines \ {"watch"}, NEW f \in Doing(g)'
           PROVE  f.op = "place" /\ May(g, f.step)
      <3>1. f \in Within(todo'[g])
        BY DEF Doing
      <3>2. CASE g = "entering"
        BY <2>9, <2>10, <3>1, <3>2, Kinds DEF May
      <3>3. CASE g = "Stoploss"
        BY <2>9, <2>10, <3>1, <3>3, Kinds DEF May
      <3>4. CASE g = "ForcedLoss"
        BY <2>9, <2>10, <3>1, <3>4, Kinds DEF May
      <3> QED
        BY <3>2, <3>3, <3>4, Kinds
    <2>14. StopComes'
      <3>1. Place("Stoploss") \in Doing("Stoploss")'
        BY <2>9, <2>10 DEF Doing
      <3> QED
        BY <2>9, <3>1 DEF StopComes
    <2>15. \A g \in Goroutines : Doing(g) \subseteq Doing(g)'
      BY <2>11, <2>12
    <2> QED
      BY <1>2, <2>1, <2>10, <2>13, <2>14, <2>15
  <1> QED
    BY <1>1, <1>2

\* An order is heard of, and what it sold is booked.
LEMMA HearStep ==
    ASSUME IInv, NEW k, Hears(k), UNCHANGED <<target, canceling, world>>,
           model' \in ModelType, model'.cond = model.cond, model'.saved = model.saved,
           model'.orders = model.orders, model'.tapIds = model.tapIds,
           model'.stopIds = model.stopIds,
           model'.executed = model.executed + Unheard(ord[k]),
           \/ UNCHANGED <<machine, todo>>
           \/ Transition,
           machine' = "WaitForEntry" => model'.entered = model.entered,
           IsEntry(k) /\ ord[k].status = "filled" => machine' # "WaitForEntry",
           EntryKept /\ machine' # "WaitForEntry" => Bought
    PROVE  IInv'
  <1>0. Typed /\ Work /\ Answered /\ Lists /\ Saves /\ Waits /\ Entries /\ OldStops /\ OneEntry
    BY DEF IInv
  <1>1. /\ k \in DOMAIN ord /\ ord[k] \in OrderType /\ ord[k].status # "open" /\ ord[k].known
        /\ ord' \in Seq(OrderType) /\ Len(ord') = Len(ord) /\ DOMAIN ord' = DOMAIN ord
        /\ Open' = Open /\ (Bought' <=> Bought)
        /\ \A j \in DOMAIN ord : IsEntry(j)' <=> IsEntry(j)
        /\ \A h : Sums(h) =>
              \E hh : Sums(hh)' /\ hh[Len(ord')] = h[Len(ord)] - Unheard(ord[k])
    BY Heard
  <1>2. \A j \in DOMAIN ord :
           /\ ord'[j].step = ord[j].step /\ ord'[j].qty = ord[j].qty
           /\ ord'[j].price = ord[j].price /\ ord'[j].known = ord[j].known
           /\ ord'[j].status = ord[j].status
           /\ j # k => ord'[j].told = ord[j].told
    BY Heard
  <1>3. /\ setup' = setup /\ Amount' = Amount /\ (EntryKept' <=> EntryKept)
        /\ target' = target /\ canceling' = canceling /\ world' = world
    BY SameSetup DEF EntryKept
  <1>4. /\ todo' \in [Goroutines -> Stacks] /\ todo'["watch"] = todo["watch"]
        /\ \A g \in Goroutines : Doing(g) \subseteq Doing(g)'
        /\ \/ machine' = machine /\ todo' = todo
           \/ machine = "WaitForEntry" /\ machine' = "InEntry"
           \/ machine # "WaitForEntry" /\ machine' = "End" /\ todo' = todo
        /\ \A g \in Goroutines \ {"watch"} : \A f \in Doing(g)' :
              \/ f \in Doing(g)
              \/ /\ machine = "WaitForEntry" /\ machine' # "WaitForEntry"
                 /\ f.op = "place" /\ May(g, f.step)
        /\ machine = "WaitForEntry" /\ machine' # "WaitForEntry" => StopComes'
    <2>1. CASE UNCHANGED <<machine, todo>>
      <3>1. \A g : Doing(g)' = Doing(g)
        BY <2>1 DEF Doing
      <3> QED
        BY <1>0, <2>1, <3>1 DEF Typed
    <2>2. CASE Transition
      BY <2>2, TransitionFacts
    <2> QED
      BY <2>1, <2>2
  <1>5. Doing("watch")' = Doing("watch") /\ "watch" \in Goroutines /\ "Stoploss" \in Goroutines
    BY <1>4, Kinds DEF Doing
  <1>6. /\ PlacesEntry' <=> PlacesEntry
        /\ ReplacesEntry' <=> ReplacesEntry
        /\ StopComes => StopComes'
    <2>1. (PlacesEntry' <=> PlacesEntry) /\ (ReplacesEntry' <=> ReplacesEntry)
      BY <1>5 DEF PlacesEntry, ReplacesEntry
    <2>2. StopComes => StopComes'
      BY <1>4, <1>5 DEF StopComes
    <2> QED
      BY <2>1, <2>2
  <1>7. Typed'
    <2>1. machine' \in {"WaitForEntry", "InEntry", "End"}
      BY <1>0, <1>4 DEF Typed
    <2> QED
      BY <1>0, <1>1, <1>3, <1>4, <2>1 DEF Typed
  <1>8. Work'
    <2> SUFFICES ASSUME NEW g \in Goroutines, NEW f \in Doing(g)' PROVE Fits(g, f)'
      BY DEF Work
    <2>1. CASE f \in Doing(g)
      <3>1. Fits(g, f)
        BY <1>0, <2>1 DEF Work
      <3> QED
        BY <1>1, <1>2, <3>1, FitsStays
    <2>2. CASE f.op = "place" /\ May(g, f.step)
      BY <2>2 DEF Fits, May
    <2> QED
      BY <1>4, <1>5, <2>1, <2>2
  <1>9. Answered'
    <2> SUFFICES ASSUME NEW j \in DOMAIN ord, ~ord[j].known
                 PROVE  \E g \in Goroutines : \E f \in Doing(g)' : f.op = "answer" /\ f.order = j
      BY <1>1, <1>2 DEF Answered
    <2>1. PICK g \in Goroutines : \E f \in Doing(g) : f.op = "answer" /\ f.order = j
      BY <1>0 DEF Answered
    <2>2. \E f \in Doing(g)' : f.op = "answer" /\ f.order = j
      BY <1>4, <2>1
    <2> QED
      BY <2>2
  <1>10. Lists'
    <2>1. \A j \in DOMAIN ord : ord'[j].known = ord[j].known /\ ord'[j].step = ord[j].step
      BY <1>2
    <2>2. ASSUME NEW j \in DOMAIN ord, ord'[j].told
          PROVE  ord'[j].known /\ ord'[j].status # "open"
      <3>1. j # k => ord[j].told
        BY <1>2, <2>2
      <3>2. ord[j].known /\ ord[j].status # "open"
        BY <1>0, <1>1, <3>1 DEF Lists
      <3> QED
        BY <1>2, <3>2
    <2> QED
      BY <1>0, <1>1, <1>3, <2>1, <2>2, ListsStay
  <1>11. Saves'
    BY <1>0, <1>3, <1>5 DEF Saves
  <1>12. Waits'
    <2>1. machine' = "WaitForEntry" =>
             ~model'.entered /\ \A g \in Goroutines \ {"watch"} : todo'[g] = <<>>
      BY <1>0, <1>4 DEF Waits
    <2>2. ASSUME NEW j \in DOMAIN ord', IsEntry(j)', ord'[j].status = "filled", ord'[j].told
          PROVE  machine' # "WaitForEntry"
      <3>1. IsEntry(j) /\ ord[j].status = "filled" /\ (j # k => ord[j].told) /\ j \in DOMAIN ord
        BY <1>1, <1>2, <2>2
      <3> QED
        BY <1>0, <1>4, <3>1 DEF Waits
    <2> QED
      BY <2>1, <2>2 DEF Waits
  <1>13. Entries'
    <2>1. ASSUME NEW j \in DOMAIN ord, LastEntry(j)
          PROVE  LastEntry(j)'
      BY <1>1, <1>2, <1>3, <1>6, <2>1 DEF LastEntry, Open
    <2>2. \A j \in DOMAIN ord' : IsEntry(j)' => ord'[j].qty = Amount'
      BY <1>0, <1>1, <1>2, <1>3 DEF Entries
    <2>3. ASSUME machine' = "WaitForEntry", ~Bought, PlacesEntry, NEW j \in Open', IsEntry(j)'
          PROVE  j \in canceling'
      BY <1>0, <1>1, <1>3, <1>4, <2>3 DEF Entries, Open
    <2>4. ASSUME machine' = "WaitForEntry", ~Bought, ~PlacesEntry
          PROVE  \E j \in DOMAIN ord : LastEntry(j)'
      BY <1>0, <1>4, <2>1, <2>4 DEF Entries
    <2> QED
      BY <1>1, <1>6, <2>2, <2>3, <2>4 DEF Entries
  <1>14. OldStops'
    <2> SUFFICES ASSUME ~setup.early PROVE OldStops'
      BY <1>3 DEF OldStops
    <2>1. machine' = "WaitForEntry" => world'.edits = 1 /\ \A j \in DOMAIN ord' : IsEntry(j)'
      BY <1>0, <1>1, <1>3, <1>4 DEF OldStops
    <2>2. world'.edits = 1 => todo'["watch"] = <<>>
      BY <1>0, <1>3, <1>4 DEF OldStops
    <2>3. world'.edits # 1 => \A g \in Goroutines \ {"watch"} : todo'[g] = <<>>
      BY <1>0, <1>3, <1>4 DEF OldStops
    <2>4. ASSUME NEW s \in Stops, NEW j \in Open', ord'[j].step = s, Pending(s)'
          PROVE  j \in canceling'
      <3>1. j \in Open /\ ord[j].step = s
        BY <1>1, <1>2, <2>4 DEF Open
      <3>2. machine # "WaitForEntry"
        BY <1>0, <3>1, Kinds DEF OldStops, Open, IsEntry
      <3>3. PICK g \in Goroutines : \E f \in Doing(g)' : f.op = "place" /\ f.step = s
        BY <2>4 DEF Pending
      <3>4. \E f \in Doing(g) : f.op = "place" /\ f.step = s
        BY <1>4, <1>5, <3>2, <3>3
      <3>5. Pending(s)
        BY <3>4 DEF Pending
      <3> QED
        BY <1>0, <1>3, <3>1, <3>5 DEF OldStops
    <2>5. \A i, j \in Open' \ canceling' :
             ord'[i].step \in Stops /\ ord'[j].step = ord'[i].step => i = j
      <3>1. Open' \ canceling' = Open \ canceling
        BY <1>1, <1>3
      <3>2. \A i \in Open : ord'[i].step = ord[i].step
        BY <1>2 DEF Open
      <3> QED
        BY <1>0, <3>1, <3>2 DEF OldStops
    <2> QED
      BY <2>1, <2>2, <2>3, <2>4, <2>5 DEF OldStops
  <1>15. OneEntry'
    <2> SUFFICES ASSUME EntryKept PROVE OneEntry'
      BY <1>3 DEF OneEntry
    <2>1. PICK h : Sums(h) /\ Booking(h)
      BY <1>0 DEF OneEntry
    <2>2. PICK hh : Sums(hh)' /\ hh[Len(ord')] = h[Len(ord)] - Unheard(ord[k])
      BY <1>1, <2>1
    <2>3. /\ h[Len(ord)] \in Int /\ Unheard(ord[k]) \in Nat /\ model.executed \in Nat
          /\ Amount \in Nat
      BY <1>0, <1>1, <2>1, SumsArePositive, UnheardTyped, Left
    <2>4. Booking(hh)'
      <3>1. CASE Bought
        <4>1. world.pos = Amount - model.executed - h[Len(ord)]
          BY <2>1, <3>1 DEF Booking
        <4>2. world.pos = Amount - model'.executed - hh[Len(ord')]
          BY <2>2, <2>3, <4>1
        <4> QED
          BY <1>1, <1>3, <3>1, <4>2 DEF Booking
      <3>2. CASE ~Bought
        <4>1. world.pos = 0 - model.executed - h[Len(ord)]
          BY <2>1, <3>2 DEF Booking
        <4>2. world.pos = 0 - model'.executed - hh[Len(ord')]
          BY <2>2, <2>3, <4>1
        <4> QED
          BY <1>1, <1>3, <3>2, <4>2 DEF Booking
      <3> QED
        BY <3>1, <3>2
    <2>5. ASSUME machine' = "InEntry", world.pos > 0
          PROVE  Guarded'
      <3>1. CASE machine = "WaitForEntry"
        BY <1>4, <2>5, <3>1 DEF Guarded
      <3>2. CASE machine # "WaitForEntry"
        <4>1. Guarded
          BY <1>0, <1>4, <2>5, <3>2 DEF OneEntry
        <4>2. ASSUME NEW j \in DOMAIN ord, Stop(j)
              PROVE  Stop(j)'
          BY <1>1, <1>2, <1>3, <4>2 DEF Stop
        <4>3. ASSUME NEW j \in Open, ord[j].step = "Canceled"
              PROVE  j \in Open' /\ ord'[j].step = "Canceled"
          BY <1>1, <1>2, <4>3 DEF Open
        <4> QED
          BY <1>1, <1>6, <4>1, <4>2, <4>3 DEF Guarded
      <3> QED
        BY <3>1, <3>2
    <2>6. \A j \in DOMAIN ord' : IsEntry(j)' => j = 1
      BY <1>0, <1>1 DEF OneEntry
    <2>7. ~PlacesEntry' /\ ~ReplacesEntry' /\ (machine' # "WaitForEntry" => Bought')
      BY <1>0, <1>1, <1>6 DEF OneEntry
    <2>8. ASSUME NEW j \in DOMAIN ord', ord'[j].step = "Canceled"
          PROVE  Bought' /\ ord'[j].qty = Amount' /\ (ord'[j].status # "open" => world'.pos = 0)
      <3>1. j \in DOMAIN ord /\ ord[j].step = "Canceled"
        BY <1>1, <1>2, <2>8
      <3>2. Bought /\ ord[j].qty = Amount /\ (ord[j].status # "open" => world.pos = 0)
        BY <1>0, <3>1 DEF OneEntry
      <3> QED
        BY <1>1, <1>2, <1>3, <3>1, <3>2
    <2>9. \E h2 : Sums(h2)' /\ Booking(h2)'
      BY <2>2, <2>4
    <2> QED
      BY <1>3, <2>5, <2>6, <2>7, <2>8, <2>9 DEF OneEntry
  <1> QED
    BY <1>7, <1>8, <1>9, <1>10, <1>11, <1>12, <1>13, <1>14, <1>15 DEF IInv

\* What an entry, or an order that was canceled, sold is nothing.
LEMMA SoldNothing ==
    ASSUME NEW k, IsEntry(k) \/ ord[k].status # "filled"
    PROVE  Unheard(ord[k]) = 0
  BY DEF Unheard, IsEntry

\* The entry is heard of.
LEMMA HearEntryInv ==
    ASSUME IInv, NEW k \in DOMAIN ord, HearEntry(k)
    PROVE  IInv'
  <1>1. /\ Hears(k) /\ IsEntry(k) /\ ord[k].status = "filled"
        /\ model' = [model EXCEPT !.entered = TRUE] /\ Transition
        /\ UNCHANGED <<target, canceling, world>>
    BY DEF HearEntry, IsEntry
  <1>2. Unheard(ord[k]) = 0 /\ Bought
    BY <1>1, SoldNothing DEF Bought
  <1>3. Typed /\ model.executed \in Nat
    BY ModelFacts DEF IInv
  <1>4. /\ model' \in ModelType /\ model'.cond = model.cond /\ model'.saved = model.saved
        /\ model'.orders = model.orders /\ model'.tapIds = model.tapIds
        /\ model'.stopIds = model.stopIds /\ model'.executed = model.executed
    BY <1>1, <1>3 DEF Typed, ModelType
  <1>5. machine' # "WaitForEntry"
    BY <1>1, TransitionFacts
  <1>6. model'.executed = model.executed + Unheard(ord[k])
    BY <1>2, <1>3, <1>4
  <1> QED
    BY <1>1, <1>2, <1>4, <1>5, <1>6, HearStep

\* An exit is heard of.
LEMMA HearExitInv ==
    ASSUME IInv, NEW k \in DOMAIN ord, HearExit(k)
    PROVE  IInv'
  <1>0. Typed /\ OneEntry
    BY DEF IInv
  <1>1. /\ Hears(k) /\ ~IsEntry(k) /\ ord[k].status = "filled"
        /\ model' = [model EXCEPT !.executed = @ + ord[k].got]
        /\ UNCHANGED <<target, canceling, world>>
        /\ \/ model'.executed >= Amount /\ Transition
           \/ UNCHANGED <<machine, todo>>
    BY DEF HearExit, IsEntry
  <1>2. Unheard(ord[k]) = ord[k].got /\ ord[k].got \in Nat
    BY <1>1, Heard DEF Unheard, IsEntry, OrderType
  <1>3. model' \in ModelType /\ model'.cond = model.cond /\ model'.saved = model.saved
        /\ model'.orders = model.orders /\ model'.tapIds = model.tapIds
        /\ model'.stopIds = model.stopIds
        /\ model'.executed = model.executed + Unheard(ord[k])
        /\ model'.entered = model.entered
    <2>1. PICK e \in Nat : e = model.executed + ord[k].got
      BY <1>0, <1>2, ModelFacts
    <2>2. model' = [model EXCEPT !.executed = e]
      BY <1>1, <2>1
    <2> QED
      BY <1>0, <1>2, <2>1, <2>2 DEF Typed, ModelType
  <1>4. ASSUME EntryKept, machine' # "WaitForEntry"
        PROVE  Bought
    <2>1. PICK h : Sums(h) /\ Booking(h)
      BY <1>0, <1>4 DEF OneEntry
    <2>2. PICK hh : Sums(hh)' /\ hh[Len(ord')] = h[Len(ord)] - Unheard(ord[k])
      BY <1>1, <2>1, Heard
    <2>3. CASE UNCHANGED machine
      BY <1>0, <1>4, <2>3 DEF OneEntry
    <2>4. CASE model'.executed >= Amount
      <3>1. SUFFICES ASSUME ~Bought PROVE FALSE
        OBVIOUS
      <3>2. world.pos = 0 - model.executed - h[Len(ord)]
        BY <2>1, <3>1 DEF Booking
      <3>3. ord' \in Seq(OrderType) /\ Len(ord') = Len(ord)
        BY <1>1, Heard
      <3>4. hh[Len(ord')] >= 0 /\ hh[Len(ord')] \in Int
        <4>1. (Len(ord) \in Nat /\ DOMAIN ord = 1 .. Len(ord)
                 /\ \A j \in DOMAIN ord : Unheard(ord[j]) \in Nat)'
          <5>1. \A j \in 1 .. Len(ord') : ord'[j] \in OrderType
            BY <3>3, Element
          <5>2. Len(ord') \in Nat /\ DOMAIN ord' = 1 .. Len(ord')
            BY <3>3
          <5> QED
            BY <5>1, <5>2, UnheardTyped
        <4>2. PICK n : n = Len(ord')
          OBVIOUS
        <4>3. /\ n \in Nat /\ hh \in [0 .. n -> Int] /\ hh[0] = 0
              /\ \A j \in 1 .. n : hh[j] = hh[j - 1] + Unheard(ord'[j])
              /\ \A j \in 1 .. n : Unheard(ord'[j]) \in Nat
          BY <2>2, <4>1, <4>2 DEF Sums
        <4>4. \A j \in 1 .. n : hh[j] >= hh[j - 1]
          BY <4>3
        <4>5. hh[n] >= 0 /\ hh[n] \in Int
          BY <4>3, <4>4, Climb
        <4> QED
          BY <4>2, <4>5
      <3>5. /\ h[Len(ord)] \in Int /\ model.executed \in Nat /\ Amount \in Nat \ {0}
            /\ world.pos \in Nat
        BY <1>0, <1>4, <2>1, SumsArePositive, Left
      <3> QED
        BY <1>2, <1>3, <2>2, <2>4, <3>2, <3>4, <3>5
    <2> QED
      BY <1>1, <2>3, <2>4
  <1> QED
    BY <1>1, <1>3, <1>4, HearStep

\* A canceled order, or a further entry, is heard of.
LEMMA HearNothingInv ==
    ASSUME IInv, NEW k \in DOMAIN ord, HearNothing(k)
    PROVE  IInv'
  <1>0. Typed /\ Waits /\ OneEntry
    BY DEF IInv
  <1>1. /\ Hears(k) /\ (ord[k].status = "canceled" \/ (IsEntry(k) /\ model.entered))
        /\ UNCHANGED <<target, canceling, world>> /\ UNCHANGED <<machine, todo>>
        /\ model' = model
    BY DEF HearNothing, IsEntry
  <1>2. Unheard(ord[k]) = 0 /\ model.executed \in Nat
    BY <1>0, <1>1, SoldNothing, ModelFacts
  <1>3. model' \in ModelType /\ model'.executed = model.executed + Unheard(ord[k])
    BY <1>0, <1>1, <1>2 DEF Typed
  <1>4. IsEntry(k) /\ ord[k].status = "filled" => machine' # "WaitForEntry"
    BY <1>0, <1>1 DEF Waits
  <1>5. EntryKept /\ machine' # "WaitForEntry" => Bought
    BY <1>0, <1>1 DEF OneEntry
  <1> QED
    BY <1>1, <1>3, <1>4, <1>5, HearStep

-----------------------------------------------------------------------------
(* Orders are placed *)

\* The exchange takes an order.
LEMMA AcceptInv ==
    ASSUME IInv, NEW g \in Goroutines, AcceptOrder(g)
    PROVE  IInv'
  <1> DEFINE s == Head(todo[g]).step
  <1>0. Typed /\ Work /\ Answered /\ Lists /\ Saves /\ Waits /\ Entries /\ OldStops /\ OneEntry
    BY DEF IInv
  <1>1. /\ Top(g, "place") /\ ~Skips(s) /\ (s = "WaitForEntry" \/ world.pos > 0)
        /\ Request(s).qty > 0
        /\ ord' = Append(ord, Request(s))
        /\ todo' = Then(g, <<[op |-> "answer", order |-> Len(ord) + 1]>>)
        /\ UNCHANGED <<machine, model, target, canceling, world>>
    BY DEF AcceptOrder, Sending
  <1>2. /\ todo[g] # <<>> /\ Head(todo[g]).op = "place" /\ s \in Steps /\ May(g, s)
        /\ s = "WaitForEntry" => g = "watch" /\ PlacesEntry
        /\ s \in Stops => Pending(s)
    BY <1>1, AtPlace
  <1>3. PICK n : n = Len(ord) + 1
    OBVIOUS
  <1>4. PICK f : f = [op |-> "answer", order |-> n]
    OBVIOUS
  <1>5. PICK o : o = Request(s)
    OBVIOUS
  <1>6. /\ ord \in Seq(OrderType) /\ n \in Nat \ {0} /\ Len(ord) = n - 1
        /\ DOMAIN ord = 1 .. n - 1 /\ n \notin DOMAIN ord
    BY <1>0, <1>3 DEF Typed
  <1>7. /\ o \in OrderType /\ o.step = s /\ o.status = "open" /\ ~o.known /\ ~o.told
        /\ s \in {"WaitForEntry", "ForcedLoss", "Canceled"} => o.qty = Amount
        /\ s = "WaitForEntry" => o.price = model.cond.entry
        /\ s = "Stoploss" => o.qty = Amount - model.executed /\ o.price = model.cond.stop
    <2>1. s = "TakeProfit" => target < Len(Exits)
      BY <1>0, <1>1, ModelFacts DEF Skips, Typed
    <2> QED
      BY <1>0, <1>1, <1>2, <1>5, <2>1, RequestFacts
  <1> HIDE DEF s
  <1>8. /\ ord' \in Seq(OrderType) /\ Len(ord') = n /\ DOMAIN ord' = DOMAIN ord \cup {n}
        /\ ord'[n] = o /\ \A j \in DOMAIN ord : ord'[j] = ord[j]
    BY <1>1, <1>5, <1>6, <1>7
  <1>9. /\ Open' = Open \cup {n}
        /\ \A j \in DOMAIN ord : IsEntry(j)' <=> IsEntry(j)
        /\ IsEntry(n)' <=> s = "WaitForEntry"
        /\ Bought' <=> Bought
    <2>1. Open' = Open \cup {n}
      BY <1>7, <1>8 DEF Open
    <2>2. /\ \A j \in DOMAIN ord : IsEntry(j)' <=> IsEntry(j)
          /\ IsEntry(n)' <=> s = "WaitForEntry"
      BY <1>7, <1>8 DEF IsEntry
    <2>3. Bought' <=> Bought
      BY <1>7, <1>8, <2>2 DEF Bought
    <2> QED
      BY <2>1, <2>2, <2>3
  <1>10. /\ setup' = setup /\ Amount' = Amount /\ (EntryKept' <=> EntryKept)
         /\ machine' = machine /\ model' = model /\ target' = target
         /\ canceling' = canceling /\ world' = world
    BY <1>1, SameSetup DEF EntryKept
  <1>11. f.op = "answer" /\ f.order = n /\ f \in Frames
    BY <1>4, <1>6, NewFrames
  <1>12. Goes(g, {f})
    BY <1>1, <1>3, <1>4, <1>11 DEF Goes
  <1>13. /\ todo' \in [Goroutines -> Stacks]
         /\ Doing(g)' = {f} \cup Below(g) /\ Doing(g) = {Head(todo[g])} \cup Below(g)
         /\ Below(g) \subseteq Later
         /\ \A h \in Goroutines : h # g => todo'[h] = todo[h] /\ Doing(h)' = Doing(h)
         /\ "watch" \in Goroutines /\ "Stoploss" \in Goroutines
    BY <1>0, <1>2, <1>12, GoesFacts, AtWork, Kinds
  <1>14. \A x \in Below(g) : x.op \notin {"place", "answer", "replaceEntry"}
    BY <1>13, FrameFacts, NewFrames
  <1>15. /\ ReplacesEntry' <=> ReplacesEntry
         /\ g = "watch" => ~PlacesEntry'
         /\ g = "watch" /\ s # "WaitForEntry" => ~PlacesEntry
         /\ g # "watch" => (PlacesEntry' <=> PlacesEntry)
    <2>1. CASE g = "watch"
      BY <1>2, <1>11, <1>13, <1>14, <2>1 DEF PlacesEntry, ReplacesEntry, s
    <2>2. CASE g # "watch"
      BY <1>13, <2>2 DEF PlacesEntry, ReplacesEntry
    <2> QED
      BY <2>1, <2>2
  <1>16. Typed'
    BY <1>0, <1>8, <1>10, <1>13 DEF Typed
  <1>17. Work'
    <2>1. Fits(g, f)'
      BY <1>2, <1>7, <1>8, <1>11 DEF Fits, May
    <2> QED
      BY <1>0, <1>2, <1>8, <1>12, <2>1, WorkStays
  <1>18. Answered'
    <2>1. ASSUME NEW j \in DOMAIN ord, ~ord[j].known
          PROVE  \E h \in Goroutines : \E x \in Doing(h)' : x.op = "answer" /\ x.order = j
      <3>1. PICK h \in Goroutines : \E x \in Doing(h) : x.op = "answer" /\ x.order = j
        BY <1>0, <2>1 DEF Answered
      <3>2. \E x \in Doing(h)' : x.op = "answer" /\ x.order = j
        BY <1>2, <1>13, <3>1
      <3> QED
        BY <3>2
    <2>2. \E h \in Goroutines : \E x \in Doing(h)' : x.op = "answer" /\ x.order = n
      BY <1>11, <1>13
    <2> QED
      BY <1>8, <2>1, <2>2 DEF Answered
  <1>19. Lists'
    <2>1. (\A i \in DOMAIN model.tapIds : IsLevel(model.tapIds[i]))'
      BY <1>0, <1>8, <1>10 DEF Lists, IsLevel
    <2>2. {j \in DOMAIN ord' : ord'[j].known /\ ord'[j].step # "Canceled"}
            = {j \in DOMAIN ord : ord[j].known /\ ord[j].step # "Canceled"}
      BY <1>7, <1>8
    <2>3. \A t \in Stops : {j \in DOMAIN ord' : ord'[j].known /\ ord'[j].step = t}
                             = {j \in DOMAIN ord : ord[j].known /\ ord[j].step = t}
      BY <1>7, <1>8
    <2>4. \A j \in DOMAIN ord' : ord'[j].told => ord'[j].known /\ ord'[j].status # "open"
      BY <1>0, <1>7, <1>8 DEF Lists
    <2>5. /\ model'.orders = {j \in DOMAIN ord' : ord'[j].known /\ ord'[j].step # "Canceled"}
          /\ canceling' \subseteq model'.orders
      BY <1>0, <1>10, <2>2 DEF Lists
    <2>6. \A t \in Stops : model'.stopIds[t]
                             = {j \in DOMAIN ord' : ord'[j].known /\ ord'[j].step = t}
      BY <1>0, <1>10, <2>3 DEF Lists
    <2> QED
      BY <2>1, <2>4, <2>5, <2>6 DEF Lists
  <1>20. Saves'
    <2>1. ASSUME NEW x \in Doing("watch"), x.op = "saveStrategyConditions"
          PROVE  x \in Doing("watch")'
      BY <1>2, <1>13, <2>1
    <2> QED
      BY <1>0, <1>10, <2>1 DEF Saves
  <1>21. Waits'
    <2>1. machine' = "WaitForEntry" =>
             ~model'.entered /\ \A h \in Goroutines \ {"watch"} : todo'[h] = <<>>
      BY <1>0, <1>2, <1>10, <1>13 DEF Waits
    <2>2. ASSUME NEW j \in DOMAIN ord', IsEntry(j)', ord'[j].status = "filled", ord'[j].told
          PROVE  machine' # "WaitForEntry"
      <3>1. j \in DOMAIN ord /\ IsEntry(j) /\ ord[j].status = "filled" /\ ord[j].told
        BY <1>7, <1>8, <1>9, <2>2
      <3> QED
        BY <1>0, <1>10, <3>1 DEF Waits
    <2> QED
      BY <2>1, <2>2 DEF Waits
  <1>22. n \notin canceling
    BY <1>0, <1>6 DEF Lists
  <1>23. Entries'
    <2>1. \A j \in DOMAIN ord' : IsEntry(j)' => ord'[j].qty = Amount'
      BY <1>0, <1>7, <1>8, <1>9, <1>10 DEF Entries
    <2>2. ASSUME machine = "WaitForEntry", ~Bought
          PROVE  ~PlacesEntry' /\ \E j \in DOMAIN ord' : LastEntry(j)'
      <3>1. g = "watch" /\ ~PlacesEntry'
        BY <1>0, <1>2, <1>15, <2>2 DEF Waits
      <3>2. CASE s = "WaitForEntry"
        <4>1. \A j \in Open : IsEntry(j) => j \in canceling
          BY <1>0, <1>2, <2>2, <3>2 DEF Entries
        <4>2. /\ n \in Open' \ canceling' /\ IsEntry(n)'
              /\ ord'[n].price = model'.cond.entry
          BY <1>7, <1>8, <1>9, <1>10, <1>22, <3>2
        <4>3. \A j \in Open' : IsEntry(j)' /\ j # n => j \in canceling'
          BY <1>9, <1>10, <4>1 DEF Open
        <4>4. LastEntry(n)'
          BY <4>2, <4>3 DEF LastEntry
        <4> QED
          BY <1>8, <3>1, <4>4
      <3>3. CASE s # "WaitForEntry"
        <4>1. ~PlacesEntry /\ (ReplacesEntry' <=> ReplacesEntry)
          BY <1>15, <3>1, <3>3
        <4>2. PICK j \in DOMAIN ord : LastEntry(j)
          BY <1>0, <2>2, <4>1 DEF Entries
        <4>3. LastEntry(j)'
          <5>1. j \in Open' \ canceling' /\ IsEntry(j)'
            BY <1>9, <1>10, <4>2 DEF LastEntry
          <5>2. \A i \in Open' : IsEntry(i)' /\ i # j => i \in canceling'
            BY <1>9, <1>10, <3>3, <4>2 DEF LastEntry, Open
          <5>3. ~ReplacesEntry' => ord'[j].price = model'.cond.entry
            BY <1>8, <1>10, <4>1, <4>2 DEF LastEntry
          <5> QED
            BY <5>1, <5>2, <5>3 DEF LastEntry
        <4> QED
          BY <1>8, <3>1, <4>3
      <3> QED
        BY <3>2, <3>3
    <2> QED
      BY <1>9, <1>10, <2>1, <2>2 DEF Entries
  <1>24. OldStops'
    <2> SUFFICES ASSUME ~setup.early PROVE OldStops'
      BY <1>10 DEF OldStops
    <2>1. machine # "WaitForEntry"
      BY <1>0, <1>2 DEF OldStops, Waits
    <2>2. /\ world.edits = 1 => g # "watch" /\ todo["watch"] = <<>>
          /\ world.edits # 1 => g = "watch" /\ \A h \in Goroutines \ {"watch"} : todo[h] = <<>>
      BY <1>0, <1>2 DEF OldStops
    <2>3. ASSUME NEW t \in Stops, Pending(t)'
          PROVE  Pending(t) /\ t # s
      <3>1. PICK h \in Goroutines : \E x \in Doing(h)' : x.op = "place" /\ x.step = t
        BY <2>3 DEF Pending
      <3>2. h # g
        BY <1>11, <1>13, <1>14, <3>1
      <3>3. PICK x \in Doing(h) : x.op = "place" /\ x.step = t
        BY <1>13, <3>1, <3>2
      <3>4. todo[h] # <<>>
        BY <1>0, <3>3, Frameworks
      <3>5. h # "watch" /\ g # "watch"
        BY <2>2, <3>2, <3>4
      <3>6. May(h, t)
        BY <1>0, <3>3 DEF Work, Fits
      <3>7. t # s
        BY <1>2, <3>2, <3>5, <3>6, Kinds DEF May
      <3> QED
        BY <3>3, <3>7 DEF Pending
    <2>4. ASSUME NEW t \in Stops, NEW j \in Open', ord'[j].step = t, Pending(t)'
          PROVE  j \in canceling'
      <3>1. Pending(t) /\ t # s
        BY <2>3, <2>4
      <3>2. j \in Open /\ ord[j].step = t
        BY <1>7, <1>8, <1>9, <2>4, <3>1 DEF Open
      <3> QED
        BY <1>0, <1>10, <3>1, <3>2 DEF OldStops
    <2>5. ASSUME NEW i \in Open' \ canceling', NEW j \in Open' \ canceling',
                 ord'[i].step \in Stops, ord'[j].step = ord'[i].step
          PROVE  i = j
      <3>1. ASSUME NEW x \in Open \ canceling, ord[x].step = s, s \in Stops
            PROVE  FALSE
        BY <1>0, <1>2, <3>1 DEF OldStops
      <3>2. \A x \in Open : ord'[x].step = ord[x].step
        BY <1>8 DEF Open
      <3>3. CASE i = n
        BY <1>7, <1>8, <1>9, <1>10, <2>5, <3>1, <3>2, <3>3
      <3>4. CASE j = n
        BY <1>7, <1>8, <1>9, <1>10, <2>5, <3>1, <3>2, <3>4
      <3>5. CASE i # n /\ j # n
        BY <1>0, <1>9, <1>10, <2>5, <3>2, <3>5 DEF OldStops
      <3> QED
        BY <3>3, <3>4, <3>5
    <2> QED
      BY <1>10, <1>13, <2>1, <2>2, <2>4, <2>5 DEF OldStops
  <1>25. OneEntry'
    <2> SUFFICES ASSUME EntryKept PROVE OneEntry'
      BY <1>10 DEF OneEntry
    <2>1. s # "WaitForEntry" /\ world.pos > 0 /\ ~PlacesEntry /\ ~ReplacesEntry
      BY <1>0, <1>1, <1>2 DEF OneEntry
    <2>2. Bought
      BY <2>1, Left
    <2>3. PICK h : Sums(h) /\ Booking(h)
      BY <1>0 DEF OneEntry
    <2>4. \E hh : Sums(hh)' /\ Booking(hh)'
      <3>1. PICK hh : Sums(hh)' /\ hh[Len(ord')] = h[Len(ord)]
        BY <1>0, <1>1, <1>5, <1>7, <2>3, SumsAppend
      <3>2. Booking(hh)'
        BY <1>9, <1>10, <2>2, <2>3, <3>1 DEF Booking
      <3> QED
        BY <3>1, <3>2
    <2>5. ASSUME machine = "InEntry"
          PROVE  Guarded'
      <3>1. Guarded
        BY <1>0, <2>1, <2>5 DEF OneEntry
      <3>2. CASE s = "Stoploss"
        <4>1. ord'[n].qty >= world.pos
          BY <1>7, <1>8, <3>2, Left
        <4>2. Stop(n)'
          BY <1>7, <1>8, <1>9, <1>10, <1>22, <3>2, <4>1 DEF Stop
        <4> QED
          BY <1>8, <4>2 DEF Guarded
      <3>3. CASE s = "Canceled"
        <4>1. n \in Open' /\ ord'[n].step = "Canceled"
          BY <1>7, <1>8, <1>9, <3>3
        <4> QED
          BY <4>1 DEF Guarded
      <3>4. CASE s \notin {"Stoploss", "Canceled"}
        <4>1. StopComes => StopComes'
          <5>1. g # "Stoploss"
            BY <1>2, <3>4, Kinds DEF May
          <5>2. Doing("Stoploss")' = Doing("Stoploss")
            BY <1>13, <5>1
          <5>3. \A x \in Doing("watch") :
                   x.op \in {"place", "replaceStop"} /\ x.step \in {"Stoploss", "Canceled"}
                     => x \in Doing("watch")'
            BY <1>2, <1>13, <3>4 DEF s
          <5> QED
            BY <5>2, <5>3 DEF StopComes
        <4>2. ASSUME NEW j \in DOMAIN ord, Stop(j)
              PROVE  Stop(j)'
          BY <1>8, <1>9, <1>10, <4>2 DEF Stop
        <4>3. ASSUME NEW j \in Open, ord[j].step = "Canceled"
              PROVE  j \in Open' /\ ord'[j].step = "Canceled"
          BY <1>8, <1>9, <4>3 DEF Open
        <4> QED
          BY <1>8, <3>1, <4>1, <4>2, <4>3 DEF Guarded
      <3> QED
        BY <3>2, <3>3, <3>4
    <2>6. \A j \in DOMAIN ord' : IsEntry(j)' => j = 1
      BY <1>0, <1>8, <1>9, <2>1 DEF OneEntry
    <2>7. ~PlacesEntry' /\ ~ReplacesEntry' /\ (machine' # "WaitForEntry" => Bought')
      BY <1>9, <1>15, <2>1, <2>2
    <2>8. ASSUME NEW j \in DOMAIN ord', ord'[j].step = "Canceled"
          PROVE  Bought' /\ ord'[j].qty = Amount' /\ (ord'[j].status # "open" => world'.pos = 0)
      <3>1. CASE j = n
        BY <1>7, <1>8, <1>9, <1>10, <2>2, <2>8, <3>1
      <3>2. CASE j # n
        <4>1. j \in DOMAIN ord /\ ord[j].step = "Canceled" /\ ord'[j] = ord[j]
          BY <1>8, <2>8, <3>2
        <4> QED
          BY <1>0, <1>9, <1>10, <4>1 DEF OneEntry
      <3> QED
        BY <3>1, <3>2
    <2> QED
      BY <1>10, <2>4, <2>5, <2>6, <2>7, <2>8 DEF OneEntry
  <1> QED
    BY <1>16, <1>17, <1>18, <1>19, <1>20, <1>21, <1>23, <1>24, <1>25 DEF IInv

\* The order is registered, and the next exit level is placed.
LEMMA AnswerInv ==
    ASSUME IInv, NEW g \in Goroutines, Answer(g)
    PROVE  IInv'
  <1>0. Typed /\ Work /\ Answered /\ Lists /\ Saves /\ Waits /\ Entries /\ OldStops /\ OneEntry
    BY DEF IInv
  <1>1. PICK k : k = Head(todo[g]).order
    OBVIOUS
  <1>2. PICK s : s = ord[k].step
    OBVIOUS
  <1>3. todo[g] # <<>> /\ Head(todo[g]).op = "answer"
    BY DEF Answer, Top
  <1>4. k \in DOMAIN ord /\ May(g, s)
    <2>1. Fits(g, Head(todo[g]))
      BY <1>0, <1>3, AtWork DEF Work
    <2> QED
      BY <1>1, <1>2, <1>3, <2>1 DEF Fits
  <1>5. /\ ord[k] \in OrderType /\ s \in Steps /\ k \in Nat
    <2>1. ord \in Seq(OrderType) /\ k \in 1 .. Len(ord)
      BY <1>0, <1>4 DEF Typed
    <2>2. ord[k] \in OrderType
      BY <2>1, Element
    <2> QED
      BY <1>2, <2>1, <2>2 DEF OrderType
  <1>6. PICK o : o = [ord[k] EXCEPT !.known = TRUE]
    OBVIOUS
  <1>7. /\ o \in OrderType /\ o.step = s /\ o.qty = ord[k].qty /\ o.price = ord[k].price
        /\ o.status = ord[k].status /\ o.told = ord[k].told /\ o.got = ord[k].got /\ o.known
    BY <1>2, <1>5, <1>6 DEF OrderType
  <1>8. PICK ids : ids = IF s = "Canceled" THEN model.orders ELSE model.orders \cup {k}
    OBVIOUS
  <1>9. PICK taps : taps = IF s = "TakeProfit" THEN Append(model.tapIds, k) ELSE model.tapIds
    OBVIOUS
  <1>10. PICK stops : stops = [t \in Stops |-> IF t = s THEN model.stopIds[t] \cup {k}
                                                       ELSE model.stopIds[t]]
    OBVIOUS
  <1>11. /\ ord' = [ord EXCEPT ![k] = o]
         /\ model' = [model EXCEPT !.orders = ids, !.tapIds = taps, !.stopIds = stops]
         /\ AndNextLevel(g, s) /\ UNCHANGED <<machine, canceling, world>>
    BY <1>1, <1>2, <1>6, <1>8, <1>9, <1>10 DEF Answer
  <1>12. /\ model' \in ModelType /\ model'.cond = model.cond /\ model'.saved = model.saved
         /\ model'.entered = model.entered /\ model'.executed = model.executed
         /\ model'.orders = ids /\ model'.tapIds = taps /\ model'.stopIds = stops
    <2>1. /\ model \in ModelType /\ model.orders \in SUBSET Nat /\ model.tapIds \in Seq(Nat)
          /\ model.stopIds \in [Stops -> SUBSET Nat]
      BY <1>0 DEF Typed, ModelType
    <2>2. ids \in SUBSET Nat /\ taps \in Seq(Nat)
      BY <1>5, <1>8, <1>9, <2>1
    <2>3. stops \in [Stops -> SUBSET Nat]
      BY <1>5, <1>10, <2>1
    <2> QED
      BY <1>11, <2>1, <2>2, <2>3 DEF ModelType
  <1>13. /\ ord' \in Seq(OrderType) /\ Len(ord') = Len(ord) /\ DOMAIN ord' = DOMAIN ord
         /\ ord'[k] = o /\ \A j \in DOMAIN ord : j # k => ord'[j] = ord[j]
    BY <1>0, <1>4, <1>7, <1>11, OneOrder
  <1>14. \A j \in DOMAIN ord :
            /\ ord'[j].step = ord[j].step /\ ord'[j].qty = ord[j].qty
            /\ ord'[j].price = ord[j].price /\ ord'[j].told = ord[j].told
            /\ ord'[j].status = ord[j].status
            /\ j # k => ord'[j].known = ord[j].known
            /\ ord[j].known => ord'[j].known
    BY <1>2, <1>7, <1>13
  <1>15. \A j \in DOMAIN ord : Unheard(ord'[j]) = Unheard(ord[j])
    <2>1. \A j \in DOMAIN ord : ord'[j].got = ord[j].got
      BY <1>7, <1>13
    <2> QED
      BY <1>14, <2>1 DEF Unheard
  <1>16. /\ Open' = Open /\ (Bought' <=> Bought)
         /\ \A j \in DOMAIN ord : IsEntry(j)' <=> IsEntry(j)
    <2>1. Open' = Open
      BY <1>13, <1>14 DEF Open
    <2>2. \A j \in DOMAIN ord : IsEntry(j)' <=> IsEntry(j)
      BY <1>14 DEF IsEntry
    <2>3. Bought' <=> Bought
      BY <1>13, <1>14, <2>2 DEF Bought
    <2> QED
      BY <2>1, <2>2, <2>3
  <1>17. /\ setup' = setup /\ Amount' = Amount /\ (EntryKept' <=> EntryKept)
         /\ machine' = machine /\ canceling' = canceling /\ world' = world
    BY <1>11, SameSetup DEF EntryKept
  <1>18. target' \in Nat
    BY <1>0, <1>5, <1>11, NextLevelFacts
  <1>19. PICK new : /\ Goes(g, new)
                    /\ \A f \in new : f = Place("TakeProfit") /\ s = "TakeProfit"
    BY <1>0, <1>5, <1>11, NextLevelFacts
  <1>20. \A f \in new : Fits(g, f)' /\ f.op = "place" /\ f.step = "TakeProfit"
    <2> SUFFICES ASSUME NEW f \in new
                 PROVE  Fits(g, f)' /\ f.op = "place" /\ f.step = "TakeProfit"
      OBVIOUS
    <2>1. May(g, "TakeProfit") /\ f = Place("TakeProfit")
      BY <1>4, <1>19
    <2> QED
      BY <2>1, LevelPlace DEF Fits, Place
  <1>21. /\ todo' \in [Goroutines -> Stacks]
         /\ Doing(g)' = new \cup Below(g) /\ Doing(g) = {Head(todo[g])} \cup Below(g)
         /\ \A h \in Goroutines : h # g => todo'[h] = todo[h] /\ Doing(h)' = Doing(h)
         /\ "watch" \in Goroutines
    BY <1>0, <1>3, <1>19, GoesFacts, AtWork, Kinds
  <1>22. /\ PlacesEntry' = PlacesEntry
         /\ ReplacesEntry' = ReplacesEntry
         /\ \A t \in Stops : Pending(t)' => Pending(t)
         /\ StopComes => StopComes'
    <2>1. /\ ~(Head(todo[g]).op = "place" /\ Head(todo[g]).step = "WaitForEntry")
          /\ \A f \in new : ~(f.op = "place" /\ f.step = "WaitForEntry")
          /\ \A f \in new : ~(f.op = "place" /\ f.step \in Stops)
          /\ \A f \in new : f.op # "replaceEntry"
          /\ Head(todo[g]).op \notin {"place", "replaceStop", "replaceEntry"}
      BY <1>3, <1>20, Kinds
    <2> QED
      BY <1>0, <1>3, <1>19, <2>1, PlacesStay
  <1>23. Typed'
    BY <1>0, <1>12, <1>13, <1>17, <1>18, <1>21 DEF Typed
  <1>24. Work'
    BY <1>0, <1>3, <1>13, <1>14, <1>19, <1>20, WorkStays
  <1>25. Answered'
    <2> SUFFICES ASSUME NEW j \in DOMAIN ord, ~ord'[j].known
                 PROVE  \E h \in Goroutines : \E x \in Doing(h)' : x.op = "answer" /\ x.order = j
      BY <1>13 DEF Answered
    <2>1. j # k /\ ~ord[j].known
      BY <1>7, <1>13, <1>14
    <2>2. PICK h \in Goroutines : \E x \in Doing(h) : x.op = "answer" /\ x.order = j
      BY <1>0, <2>1 DEF Answered
    <2>3. \E x \in Doing(h)' : x.op = "answer" /\ x.order = j
      BY <1>1, <1>21, <2>1, <2>2
    <2> QED
      BY <2>3
  <1>26. Lists'
    <2>1. \A i \in DOMAIN taps : IsLevel(taps[i])'
      <3>1. ASSUME NEW j, IsLevel(j)
            PROVE  IsLevel(j)'
        BY <1>13, <1>14, <3>1 DEF IsLevel
      <3>2. \A i \in DOMAIN model.tapIds : IsLevel(model.tapIds[i])
        BY <1>0 DEF Lists
      <3>3. model.tapIds \in Seq(Nat)
        BY <1>0, ModelFacts
      <3>4. CASE s = "TakeProfit"
        <4>1. IsLevel(k)'
          BY <1>4, <1>7, <1>13, <3>4 DEF IsLevel
        <4>2. \A i \in DOMAIN taps : taps[i] = k \/ (i \in DOMAIN model.tapIds
                                                       /\ taps[i] = model.tapIds[i])
          BY <1>9, <3>3, <3>4
        <4>3. ASSUME NEW i \in DOMAIN taps PROVE IsLevel(taps[i])'
          <5>1. CASE taps[i] = k
            BY <4>1, <5>1 DEF IsLevel
          <5>2. CASE i \in DOMAIN model.tapIds /\ taps[i] = model.tapIds[i]
            <6>1. IsLevel(taps[i])
              BY <3>2, <5>2
            <6> QED
              BY <3>1, <6>1
          <5> QED
            BY <4>2, <5>1, <5>2
        <4> QED
          BY <4>3
      <3>5. CASE s # "TakeProfit"
        <4>1. taps = model.tapIds
          BY <1>9, <3>5
        <4>2. \A i \in DOMAIN taps : IsLevel(taps[i])'
          <5> SUFFICES ASSUME NEW i \in DOMAIN taps PROVE IsLevel(taps[i])'
            OBVIOUS
          <5>1. IsLevel(taps[i])
            BY <3>2, <4>1
          <5> QED
            BY <3>1, <5>1
        <4> QED
          BY <4>2
      <3> QED
        BY <3>4, <3>5
    <2>2. \A j \in DOMAIN ord' : ord'[j].told => ord'[j].known /\ ord'[j].status # "open"
      BY <1>0, <1>13, <1>14 DEF Lists
    <2>3. model'.orders = {j \in DOMAIN ord' : ord'[j].known /\ ord'[j].step # "Canceled"}
      <3>1. model.orders = {j \in DOMAIN ord : ord[j].known /\ ord[j].step # "Canceled"}
        BY <1>0 DEF Lists
      <3> QED
        BY <1>4, <1>7, <1>8, <1>12, <1>13, <1>14, <3>1
    <2>4. ASSUME NEW t \in Stops
          PROVE  model'.stopIds[t] = {j \in DOMAIN ord' : ord'[j].known /\ ord'[j].step = t}
      <3>1. model.stopIds[t] = {j \in DOMAIN ord : ord[j].known /\ ord[j].step = t}
        BY <1>0 DEF Lists
      <3>2. stops[t] = IF t = s THEN model.stopIds[t] \cup {k} ELSE model.stopIds[t]
        BY <1>10
      <3> QED
        BY <1>4, <1>7, <1>12, <1>13, <1>14, <3>1, <3>2
    <2>5. canceling' \subseteq model'.orders
      BY <1>0, <1>8, <1>12, <1>17 DEF Lists
    <2>6. (\A i \in DOMAIN model.tapIds : IsLevel(model.tapIds[i]))'
      BY <1>12, <2>1 DEF IsLevel
    <2> QED
      BY <2>2, <2>3, <2>4, <2>5, <2>6 DEF Lists
  <1>27. Saves'
    <2>1. ASSUME NEW x \in Doing("watch"), x.op = "saveStrategyConditions"
          PROVE  x \in Doing("watch")'
      BY <1>3, <1>21, <2>1
    <2> QED
      BY <1>0, <1>12, <1>17, <2>1 DEF Saves
  <1>28. Waits'
    <2>1. machine' = "WaitForEntry" =>
             ~model'.entered /\ \A h \in Goroutines \ {"watch"} : todo'[h] = <<>>
      BY <1>0, <1>3, <1>12, <1>17, <1>21 DEF Waits
    <2>2. ASSUME NEW j \in DOMAIN ord', IsEntry(j)', ord'[j].status = "filled", ord'[j].told
          PROVE  machine' # "WaitForEntry"
      BY <1>0, <1>13, <1>14, <1>16, <1>17, <2>2 DEF Waits
    <2> QED
      BY <2>1, <2>2 DEF Waits
  <1>29. Entries'
    <2>1. ASSUME NEW j \in DOMAIN ord, LastEntry(j)
          PROVE  LastEntry(j)'
      <3>1. j \in Open' \ canceling' /\ IsEntry(j)'
        BY <1>16, <1>17, <2>1 DEF LastEntry
      <3>2. \A i \in Open' : IsEntry(i)' /\ i # j => i \in canceling'
        BY <1>16, <1>17, <2>1 DEF LastEntry, Open
      <3>3. ~ReplacesEntry' => ord'[j].price = model'.cond.entry
        BY <1>12, <1>14, <1>22, <2>1 DEF LastEntry
      <3> QED
        BY <3>1, <3>2, <3>3 DEF LastEntry
    <2>2. \A j \in DOMAIN ord' : IsEntry(j)' => ord'[j].qty = Amount'
      BY <1>0, <1>13, <1>14, <1>16, <1>17 DEF Entries
    <2>3. ASSUME machine = "WaitForEntry", ~Bought, PlacesEntry, NEW j \in Open', IsEntry(j)'
          PROVE  j \in canceling'
      BY <1>0, <1>16, <1>17, <2>3 DEF Entries, Open
    <2>4. ASSUME machine = "WaitForEntry", ~Bought, ~PlacesEntry
          PROVE  \E j \in DOMAIN ord : LastEntry(j)'
      BY <1>0, <2>1, <2>4 DEF Entries
    <2> QED
      BY <1>13, <1>16, <1>17, <1>22, <2>2, <2>3, <2>4 DEF Entries
  <1>30. OldStops'
    <2> SUFFICES ASSUME ~setup.early PROVE OldStops'
      BY <1>17 DEF OldStops
    <2>1. machine' = "WaitForEntry" => world'.edits = 1 /\ \A j \in DOMAIN ord' : IsEntry(j)'
      BY <1>0, <1>13, <1>16, <1>17 DEF OldStops
    <2>2. world'.edits = 1 => todo'["watch"] = <<>>
      BY <1>0, <1>3, <1>17, <1>21 DEF OldStops
    <2>3. world'.edits # 1 => \A h \in Goroutines \ {"watch"} : todo'[h] = <<>>
      BY <1>0, <1>3, <1>17, <1>21 DEF OldStops
    <2>4. ASSUME NEW t \in Stops, NEW j \in Open', ord'[j].step = t, Pending(t)'
          PROVE  j \in canceling'
      <3>1. j \in Open /\ ord[j].step = t /\ Pending(t)
        BY <1>14, <1>16, <1>22, <2>4 DEF Open
      <3> QED
        BY <1>0, <1>17, <3>1 DEF OldStops
    <2>5. \A i, j \in Open' \ canceling' :
             ord'[i].step \in Stops /\ ord'[j].step = ord'[i].step => i = j
      <3>1. Open' \ canceling' = Open \ canceling
        BY <1>16, <1>17
      <3>2. \A i \in Open : ord'[i].step = ord[i].step
        BY <1>14 DEF Open
      <3> QED
        BY <1>0, <3>1, <3>2 DEF OldStops
    <2> QED
      BY <2>1, <2>2, <2>3, <2>4, <2>5 DEF OldStops
  <1>31. OneEntry'
    <2> SUFFICES ASSUME EntryKept PROVE OneEntry'
      BY <1>17 DEF OneEntry
    <2>1. PICK h : Sums(h) /\ Booking(h)
      BY <1>0 DEF OneEntry
    <2>2. Sums(h)' /\ Booking(h)'
      <3>1. Sums(h)'
        BY <1>13, <1>15, <2>1, SumsStay
      <3>2. Booking(h)'
        BY <1>12, <1>13, <1>16, <1>17, <2>1 DEF Booking
      <3> QED
        BY <3>1, <3>2
    <2>3. ASSUME machine = "InEntry", world.pos > 0
          PROVE  Guarded'
      <3>1. Guarded
        BY <1>0, <2>3 DEF OneEntry
      <3>2. ASSUME NEW j \in DOMAIN ord, Stop(j)
            PROVE  Stop(j)'
        BY <1>12, <1>14, <1>16, <1>17, <3>2 DEF Stop
      <3>3. ASSUME NEW j \in Open, ord[j].step = "Canceled"
            PROVE  j \in Open' /\ ord'[j].step = "Canceled"
        BY <1>14, <1>16, <3>3 DEF Open
      <3> QED
        BY <1>13, <1>22, <3>1, <3>2, <3>3 DEF Guarded
    <2>4. \A j \in DOMAIN ord' : IsEntry(j)' => j = 1
      BY <1>0, <1>13, <1>16 DEF OneEntry
    <2>5. ~PlacesEntry' /\ ~ReplacesEntry' /\ (machine' # "WaitForEntry" => Bought')
      BY <1>0, <1>16, <1>17, <1>22 DEF OneEntry
    <2>6. ASSUME NEW j \in DOMAIN ord', ord'[j].step = "Canceled"
          PROVE  Bought' /\ ord'[j].qty = Amount' /\ (ord'[j].status # "open" => world'.pos = 0)
      <3>1. j \in DOMAIN ord /\ ord[j].step = "Canceled"
        BY <1>13, <1>14, <2>6
      <3>2. Bought /\ ord[j].qty = Amount /\ (ord[j].status # "open" => world.pos = 0)
        BY <1>0, <3>1 DEF OneEntry
      <3> QED
        BY <1>14, <1>16, <1>17, <3>1, <3>2
    <2>7. \E h2 : Sums(h2)' /\ Booking(h2)'
      BY <2>2
    <2> QED
      BY <1>17, <2>3, <2>4, <2>5, <2>6, <2>7 DEF OneEntry
  <1> QED
    BY <1>23, <1>24, <1>25, <1>26, <1>27, <1>28, <1>29, <1>30, <1>31 DEF IInv

-----------------------------------------------------------------------------
(* Edits *)

\* A stack goes on with what is to be looked at later.
LEMMA Join ==
    ASSUME NEW s \in Stacks, NEW t \in Seq(Later)
    PROVE  s \o t \in Stacks /\ Within(s \o t) = Within(s) \cup Within(t)
  <1>1. s \in Seq(Frames) /\ \A i \in 2 .. Len(s) : s[i] \in Later
    BY DEF Stacks
  <1>2. PICK m, n \in Nat : m = Len(s) /\ n = Len(t)
    BY <1>1
  <1>3. PICK c : c = s \o t
    OBVIOUS
  <1>4. /\ DOMAIN s = 1 .. m /\ DOMAIN t = 1 .. n /\ DOMAIN c = 1 .. m + n /\ Len(c) = m + n
        /\ \A i \in 1 .. m + n : c[i] = IF i <= m THEN s[i] ELSE t[i - m]
    <2>1. s \in Seq(Frames) /\ t \in Seq(Frames)
      BY <1>1, NewFrames
    <2>2. /\ c \in Seq(Frames) /\ Len(c) = Len(s) + Len(t)
          /\ \A i \in 1 .. Len(s) + Len(t) : c[i] = IF i <= Len(s) THEN s[i] ELSE t[i - Len(s)]
      BY <1>3, <2>1, ConcatProperties
    <2> QED
      BY <1>2, <2>1, <2>2
  <1>5. /\ \A i \in 1 .. m : c[i] = s[i] /\ i \in 1 .. m + n /\ s[i] \in Frames
        /\ \A i \in 1 .. n : c[i + m] = t[i] /\ i + m \in 1 .. m + n /\ t[i] \in Later
    <2>1. /\ \A i \in 1 .. m : s[i] \in Frames
          /\ \A i \in 1 .. n : t[i] \in Later
      BY <1>1, <1>2, Element
    <2>2. \A i \in 1 .. m : c[i] = s[i] /\ i \in 1 .. m + n
      BY <1>4
    <2>3. \A i \in 1 .. n : c[i + m] = t[i] /\ i + m \in 1 .. m + n
      <3> SUFFICES ASSUME NEW i \in 1 .. n PROVE c[i + m] = t[i] /\ i + m \in 1 .. m + n
        OBVIOUS
      <3>1. i + m \in 1 .. m + n /\ ~(i + m <= m) /\ i + m - m = i
        BY <1>2
      <3> QED
        BY <1>4, <3>1
    <2> QED
      BY <2>1, <2>2, <2>3
  <1>6. \A i \in 1 .. m + n : i \in 1 .. m \/ (i - m \in 1 .. n /\ i = i - m + m)
    BY <1>2
  <1>7. c \in Stacks
    <2>1. Later \subseteq Frames
      BY NewFrames
    <2>2. \A i \in 1 .. m + n : c[i] \in Frames
      BY <1>5, <1>6, <2>1
    <2>3. c \in Seq(Frames)
      BY <1>1, <1>3, <2>1
    <2>4. \A i \in 2 .. m + n : c[i] \in Later
      <3> SUFFICES ASSUME NEW i \in 2 .. m + n PROVE c[i] \in Later
        OBVIOUS
      <3>1. i \in 1 .. m + n
        BY <1>2
      <3>2. CASE i \in 1 .. m
        BY <1>1, <1>2, <1>5, <3>2
      <3>3. CASE i - m \in 1 .. n /\ i = i - m + m
        BY <1>5, <3>3
      <3> QED
        BY <1>6, <3>1, <3>2, <3>3
    <2> QED
      BY <1>4, <2>3, <2>4 DEF Stacks
  <1>8. Within(c) = Within(s) \cup Within(t)
    <2>1. ASSUME NEW f \in Within(c) PROVE f \in Within(s) \cup Within(t)
      <3>1. PICK i \in 1 .. m + n : f = c[i]
        BY <1>4, <2>1 DEF Within
      <3>2. CASE i \in 1 .. m
        BY <1>4, <1>5, <3>1, <3>2 DEF Within
      <3>3. CASE i - m \in 1 .. n /\ i = i - m + m
        <4>1. f = t[i - m]
          BY <1>5, <3>1, <3>3
        <4> QED
          BY <1>4, <3>3, <4>1 DEF Within
      <3> QED
        BY <1>6, <3>2, <3>3
    <2>2. ASSUME NEW f \in Within(s) PROVE f \in Within(c)
      BY <1>4, <1>5, <2>2 DEF Within
    <2>3. ASSUME NEW f \in Within(t) PROVE f \in Within(c)
      <3>1. PICK i \in 1 .. n : f = t[i]
        BY <1>4, <2>3 DEF Within
      <3> QED
        BY <1>4, <1>5, <3>1 DEF Within
    <2> QED
      BY <2>1, <2>2, <2>3
  <1> QED
    BY <1>3, <1>7, <1>8

\* One frame, or none.
LEMMA AtMostOne ==
    ASSUME NEW f, NEW b \in BOOLEAN
    PROVE  /\ f \in Later => (IF b THEN <<f>> ELSE <<>>) \in Seq(Later)
           /\ f \in Frames => (IF b THEN <<f>> ELSE <<>>) \in Stacks
           /\ Within(IF b THEN <<f>> ELSE <<>>) = IF b THEN {f} ELSE {}
  <1>1. CASE b
    <2>1. /\ Len(<<f>>) = 1 /\ DOMAIN <<f>> = {1} /\ <<f>>[1] = f
          /\ \A i \in 2 .. Len(<<f>>) : FALSE
          /\ f \in Later => <<f>> \in Seq(Later)
          /\ f \in Frames => <<f>> \in Seq(Frames)
      OBVIOUS
    <2>2. Within(<<f>>) = {f}
      BY <2>1 DEF Within
    <2>3. f \in Frames => <<f>> \in Stacks
      BY <2>1 DEF Stacks
    <2> QED
      BY <1>1, <2>1, <2>2, <2>3
  <1>2. CASE ~b
    <2>1. Within(<<>>) = {} /\ <<>> \in Stacks /\ <<>> \in Seq(Later)
      BY DEF Within, Stacks
    <2> QED
      BY <1>2, <2>1
  <1> QED
    BY <1>1, <1>2

\* What was changed is on the stack, and nothing else; in the end the conditions are saved.
LEMMA ChangesFacts ==
    ASSUME NEW old \in Conditions, NEW new \in Conditions
    PROVE  /\ Changes(old, new) \in Stacks
           /\ \A f \in Within(Changes(old, new)) :
                 f.op \in {"replaceEntry", "replaceStop", "selectLevel", "replaceExit",
                           "saveStrategyConditions"}
           /\ \E f \in Within(Changes(old, new)) : f.op = "saveStrategyConditions"
           /\ (\E f \in Within(Changes(old, new)) : f.op = "replaceEntry")
                <=> new.entry # old.entry
           /\ new.stop # old.stop =>
                \E f \in Within(Changes(old, new)) : f.op = "replaceStop" /\ f.step = "Stoploss"
  <1>1. PICK entry, stop, forced, level, exit, save :
          /\ entry = Do("replaceEntry") /\ stop = [op |-> "replaceStop", step |-> "Stoploss"]
          /\ forced = [op |-> "replaceStop", step |-> "ForcedLoss"]
          /\ level = Do("selectLevel") /\ exit = Do("replaceExit")
          /\ save = Do("saveStrategyConditions")
    OBVIOUS
  <1>2. /\ entry \in Frames /\ entry.op = "replaceEntry"
        /\ stop \in Later /\ stop.op = "replaceStop" /\ stop.step = "Stoploss"
        /\ forced \in Later /\ forced.op = "replaceStop"
        /\ level \in Later /\ level.op = "selectLevel"
        /\ exit \in Later /\ exit.op = "replaceExit"
        /\ save \in Later /\ save.op = "saveStrategyConditions"
    BY <1>1, NewFrames, Kinds DEF Do
  <1>3. PICK e : e = IF new.entry # old.entry THEN <<entry>> ELSE <<>>
    OBVIOUS
  <1>4. PICK s : s = IF new.stop # old.stop THEN <<stop>> ELSE <<>>
    OBVIOUS
  <1>5. PICK f : f = IF new.forced # old.forced THEN <<forced>> ELSE <<>>
    OBVIOUS
  <1>6. PICK x : x = IF ~ExitsChanged(old, new) THEN <<>>
                     ELSE IF Split(new) THEN <<level>> ELSE <<exit>>
    OBVIOUS
  <1>7. PICK v : v = <<save>>
    OBVIOUS
  <1>8. Changes(old, new) = e \o s \o f \o x \o v
    BY <1>1, <1>3, <1>4, <1>5, <1>6, <1>7 DEF Changes
  <1>9. e \in Stacks /\ Within(e) = IF new.entry # old.entry THEN {entry} ELSE {}
    <2>1. PICK b \in BOOLEAN : b <=> new.entry # old.entry
      OBVIOUS
    <2>2. e = IF b THEN <<entry>> ELSE <<>>
      BY <1>3, <2>1
    <2> QED
      BY <1>2, <2>1, <2>2, AtMostOne
  <1>10. s \in Seq(Later) /\ Within(s) = IF new.stop # old.stop THEN {stop} ELSE {}
    <2>1. PICK b \in BOOLEAN : b <=> new.stop # old.stop
      OBVIOUS
    <2>2. s = IF b THEN <<stop>> ELSE <<>>
      BY <1>4, <2>1
    <2> QED
      BY <1>2, <2>1, <2>2, AtMostOne
  <1>11. f \in Seq(Later) /\ Within(f) \subseteq {forced}
    <2>1. PICK b \in BOOLEAN : b <=> new.forced # old.forced
      OBVIOUS
    <2>2. f = IF b THEN <<forced>> ELSE <<>>
      BY <1>5, <2>1
    <2> QED
      BY <1>2, <2>1, <2>2, AtMostOne
  <1>12. x \in Seq(Later) /\ Within(x) \subseteq {level, exit}
    <2>1. CASE x = <<>>
      BY <2>1 DEF Within
    <2>2. ASSUME NEW y \in {level, exit}, x = <<y>>
          PROVE  x \in Seq(Later) /\ Within(x) \subseteq {level, exit}
      <3>1. y \in Later /\ x = IF TRUE THEN <<y>> ELSE <<>>
        BY <1>2, <2>2
      <3>2. x \in Seq(Later) /\ Within(x) = {y}
        BY <3>1, AtMostOne
      <3> QED
        BY <3>2
    <2>3. x = <<>> \/ x = <<level>> \/ x = <<exit>>
      BY <1>6
    <2> QED
      BY <2>1, <2>2, <2>3
  <1>13. v \in Seq(Later) /\ Within(v) = {save}
    <2>1. v = IF TRUE THEN <<save>> ELSE <<>>
      BY <1>7
    <2> QED
      BY <1>2, <2>1, AtMostOne
  <1>14. e \o s \in Stacks /\ Within(e \o s) = Within(e) \cup Within(s)
    BY <1>9, <1>10, Join
  <1>15. e \o s \o f \in Stacks /\ Within(e \o s \o f) = Within(e \o s) \cup Within(f)
    BY <1>11, <1>14, Join
  <1>16. e \o s \o f \o x \in Stacks
           /\ Within(e \o s \o f \o x) = Within(e \o s \o f) \cup Within(x)
    BY <1>12, <1>15, Join
  <1>17. e \o s \o f \o x \o v \in Stacks
           /\ Within(e \o s \o f \o x \o v) = Within(e \o s \o f \o x) \cup Within(v)
    BY <1>13, <1>16, Join
  <1>18. PICK c : c = Changes(old, new)
    OBVIOUS
  <1>19. /\ c \in Stacks
         /\ Within(c) = Within(e) \cup Within(s) \cup Within(f) \cup Within(x) \cup {save}
    BY <1>8, <1>13, <1>14, <1>15, <1>16, <1>17, <1>18
  <1>20. /\ Within(c) \subseteq {entry, stop, forced, level, exit, save}
         /\ save \in Within(c)
         /\ entry \in Within(c) <=> new.entry # old.entry
         /\ new.stop # old.stop => stop \in Within(c)
    <2>1. /\ Within(c) \subseteq {entry, stop, forced, level, exit, save}
          /\ save \in Within(c)
          /\ new.entry # old.entry => entry \in Within(c)
          /\ new.stop # old.stop => stop \in Within(c)
      BY <1>9, <1>10, <1>11, <1>12, <1>19
    <2>2. ASSUME entry \in Within(c) PROVE new.entry # old.entry
      <3>1. entry \notin {stop, forced, level, exit, save}
        BY <1>2
      <3>2. entry \in Within(e)
        BY <1>10, <1>11, <1>12, <1>19, <2>2, <3>1
      <3> QED
        BY <1>9, <3>2
    <2> QED
      BY <2>1, <2>2
  <1>21. \A y \in Within(c) : y.op = "replaceEntry" => y = entry
    BY <1>2, <1>20
  <1>22. /\ \A y \in Within(c) : y.op \in {"replaceEntry", "replaceStop", "selectLevel",
                                          "replaceExit", "saveStrategyConditions"}
         /\ \E y \in Within(c) : y.op = "saveStrategyConditions"
         /\ (\E y \in Within(c) : y.op = "replaceEntry") <=> new.entry # old.entry
         /\ new.stop # old.stop => \E y \in Within(c) : y.op = "replaceStop" /\ y.step = "Stoploss"
    <2>1. \A y \in Within(c) : y.op \in {"replaceEntry", "replaceStop", "selectLevel",
                                          "replaceExit", "saveStrategyConditions"}
      BY <1>2, <1>20
    <2>2. \E y \in Within(c) : y.op = "saveStrategyConditions"
      BY <1>2, <1>20
    <2>3. (\E y \in Within(c) : y.op = "replaceEntry") <=> new.entry # old.entry
      BY <1>2, <1>20, <1>21
    <2>4. new.stop # old.stop => \E y \in Within(c) : y.op = "replaceStop" /\ y.step = "Stoploss"
      BY <1>2, <1>20
    <2> QED
      BY <2>1, <2>2, <2>3, <2>4
  <1> QED
    BY <1>18, <1>19, <1>22

\* The user's edit is in the storage, and nothing has become of it.
LEMMA EditInv ==
    ASSUME IInv, Edit
    PROVE  IInv'
  <1>0. Typed /\ Work /\ Answered /\ Lists /\ Saves /\ Waits /\ Entries /\ OldStops /\ OneEntry
    BY DEF IInv
  <1>1. /\ world.edits < Len(setup.conditions)
        /\ \/ setup.early
           \/ model.tapIds # <<>> /\ \A g \in Goroutines \ {"watch"} : todo[g] = <<>>
        /\ world' = [world EXCEPT !.edits = @ + 1]
        /\ machine' = machine /\ model' = model /\ target' = target /\ ord' = ord
        /\ canceling' = canceling /\ todo' = todo
    BY DEF Edit
  <1>2. /\ world' \in WorldType /\ world'.setup = world.setup /\ world'.pos = world.pos
        /\ world'.edits = world.edits + 1 /\ world.edits \in Nat \ {0}
    <2>1. world.edits + 1 \in Nat \ {0} /\ world.edits \in Nat \ {0}
      BY <1>0, SetupFacts
    <2> QED
      BY <1>0, <1>1, <2>1 DEF Typed, WorldType
  <1>3. /\ setup' = setup /\ Amount' = Amount /\ Open' = Open /\ (Bought' <=> Bought)
        /\ \A k : IsEntry(k)' <=> IsEntry(k)
    BY <1>1, <1>2, SameSetup DEF Open, Bought, IsEntry
  <1>4. SameWork
    BY <1>0, <1>1, NoWork
  <1>5. /\ PlacesEntry' <=> PlacesEntry
        /\ ReplacesEntry' <=> ReplacesEntry
        /\ \A s \in Steps : Pending(s)' <=> Pending(s)
        /\ StopComes' <=> StopComes
    BY <1>4, SameWorkFacts
  <1>6. Typed' /\ Work'
    BY <1>0, <1>1, <1>2, <1>4 DEF Typed, SameWork
  <1>7. Answered'
    BY <1>0, <1>1, <1>4, SameWorkFacts DEF Answered
  <1>8. Lists'
    BY <1>0, <1>1, ListsStay DEF Lists
  <1>9. Saves'
    <2>1. world'.edits <= Len(setup'.conditions) /\ Len(setup.conditions) \in Nat
      BY <1>0, <1>1, <1>2, <1>3, SetupFacts
    <2>2. PICK i \in 1 .. world.edits : model.cond = setup.conditions[i]
      BY <1>0 DEF Saves
    <2>3. i \in 1 .. world'.edits
      BY <1>2
    <2>4. model.saved = model.cond \/ \E f \in Doing("watch")' : f.op = "saveStrategyConditions"
      BY <1>0, <1>4, SameWorkFacts DEF Saves
    <2> QED
      BY <1>1, <1>3, <2>1, <2>2, <2>3, <2>4 DEF Saves
  <1>10. Waits'
    BY <1>0, <1>1, <1>3 DEF Waits
  <1>11. Entries'
    <2>1. \A k : LastEntry(k)' <=> LastEntry(k)
      BY <1>1, <1>3, <1>5 DEF LastEntry
    <2> QED
      BY <1>0, <1>1, <1>3, <1>5, <2>1 DEF Entries
  <1>12. OldStops'
    <2> SUFFICES ASSUME ~setup.early PROVE OldStops'
      BY <1>3 DEF OldStops
    <2>1. model.tapIds # <<>> /\ \A g \in Goroutines \ {"watch"} : todo[g] = <<>>
      BY <1>1
    <2>2. machine # "WaitForEntry"
      <3>1. 1 \in DOMAIN model.tapIds
        BY <1>0, <2>1, ModelFacts
      <3>2. IsLevel(model.tapIds[1])
        BY <1>0, <3>1 DEF Lists
      <3> QED
        BY <1>0, <3>2 DEF OldStops, IsLevel, IsEntry
    <2>3. world'.edits # 1
      BY <1>2
    <2>4. ASSUME NEW s \in Stops, NEW k \in Open', ord'[k].step = s, Pending(s)'
          PROVE  k \in canceling'
      BY <1>0, <1>1, <1>3, <1>5, <2>4, Kinds DEF OldStops
    <2>5. \A i, k \in Open' \ canceling' :
             ord'[i].step \in Stops /\ ord'[k].step = ord'[i].step => i = k
      BY <1>0, <1>1, <1>3 DEF OldStops
    <2> QED
      BY <1>1, <2>1, <2>2, <2>3, <2>4, <2>5 DEF OldStops
  <1>13. OneEntry'
    <2> SUFFICES ASSUME EntryKept' PROVE OneEntry'
      BY DEF OneEntry
    <2>1. EntryKept
      <3>1. \A i \in 1 .. world.edits : i \in 1 .. world'.edits
        BY <1>2
      <3> QED
        BY <1>3, <3>1 DEF EntryKept
    <2>2. PICK h : Sums(h) /\ Booking(h)
      BY <1>0, <2>1 DEF OneEntry
    <2>3. Sums(h)' /\ Booking(h)'
      BY <1>1, <1>2, <1>3, <2>2 DEF Sums, Booking
    <2>4. ASSUME machine = "InEntry", world.pos > 0
          PROVE  Guarded'
      <3>1. Guarded
        BY <1>0, <2>1, <2>4 DEF OneEntry
      <3>2. \A k : Stop(k) => Stop(k)'
        BY <1>1, <1>2, <1>3 DEF Stop
      <3> QED
        BY <1>1, <1>3, <1>5, <3>1, <3>2 DEF Guarded
    <2>5. \A k \in DOMAIN ord' : IsEntry(k)' => k = 1
      BY <1>0, <1>1, <1>3, <2>1 DEF OneEntry
    <2>6. ~PlacesEntry' /\ ~ReplacesEntry' /\ (machine' # "WaitForEntry" => Bought')
      BY <1>0, <1>1, <1>3, <1>5, <2>1 DEF OneEntry
    <2>7. ASSUME NEW k \in DOMAIN ord', ord'[k].step = "Canceled"
          PROVE  Bought' /\ ord'[k].qty = Amount' /\ (ord'[k].status # "open" => world'.pos = 0)
      BY <1>0, <1>1, <1>2, <1>3, <2>1, <2>7 DEF OneEntry
    <2>8. \E hh : Sums(hh)' /\ Booking(hh)'
      BY <2>3
    <2> QED
      BY <1>1, <1>2, <2>4, <2>5, <2>6, <2>7, <2>8 DEF OneEntry
  <1> QED
    BY <1>6, <1>7, <1>8, <1>9, <1>10, <1>11, <1>12, <1>13 DEF IInv

\* The watch takes the document, and begins with what was changed.
LEMMA WatchInv ==
    ASSUME IInv, WatchStrategies
    PROVE  IInv'
  <1> DEFINE g == "watch"
  <1>0. Typed /\ Work /\ Answered /\ Lists /\ Saves /\ Waits /\ Entries /\ OldStops /\ OneEntry
    BY DEF IInv
  <1>1. PICK doc, stack : doc = Document /\ stack = Changes(model.saved, Document)
    OBVIOUS
  <1>2. /\ todo[g] = <<>> /\ model.cond # doc
        /\ model' = [model EXCEPT !.cond = doc] /\ todo' = [todo EXCEPT ![g] = stack]
        /\ machine' = machine /\ target' = target /\ ord' = ord /\ canceling' = canceling
        /\ world' = world
    BY <1>1 DEF WatchStrategies
  <1>3. /\ setup' = setup /\ Amount' = Amount /\ Open' = Open /\ (Bought' <=> Bought)
        /\ (EntryKept' <=> EntryKept) /\ \A k : IsEntry(k)' <=> IsEntry(k)
    BY <1>2, SameSetup DEF Open, Bought, IsEntry, EntryKept
  <1>4. /\ g \in Goroutines /\ "Stoploss" \in Goroutines /\ Doing(g) = {}
    BY <1>0, <1>2, Kinds, Frameworks
  <1>5. model.saved = model.cond
    BY <1>0, <1>4 DEF Saves
  <1>6. doc \in Conditions /\ doc = setup.conditions[world.edits]
    BY <1>0, <1>1, SetupFacts DEF Saves, Document
  <1>7. /\ stack \in Stacks
        /\ \A f \in Within(stack) :
              f.op \in {"replaceEntry", "replaceStop", "selectLevel", "replaceExit",
                        "saveStrategyConditions"}
        /\ \E f \in Within(stack) : f.op = "saveStrategyConditions"
        /\ (\E f \in Within(stack) : f.op = "replaceEntry") <=> doc.entry # model.cond.entry
        /\ doc.stop # model.cond.stop =>
             \E f \in Within(stack) : f.op = "replaceStop" /\ f.step = "Stoploss"
    <2>1. model.saved \in Conditions
      BY <1>0, ModelFacts
    <2> QED
      BY <1>1, <1>5, <1>6, <2>1, ChangesFacts
  <1>8. /\ todo' \in [Goroutines -> Stacks] /\ todo'[g] = stack /\ Doing(g)' = Within(stack)
        /\ \A h \in Goroutines : h # g => todo'[h] = todo[h] /\ Doing(h)' = Doing(h)
    <2>1. todo \in [Goroutines -> Stacks]
      BY <1>0 DEF Typed
    <2> QED
      BY <1>2, <1>4, <1>7, <2>1 DEF Doing
  <1>9. /\ model' \in ModelType /\ model'.cond = doc /\ model'.saved = model.saved
        /\ model'.entered = model.entered
        /\ model'.executed = model.executed /\ model'.orders = model.orders
        /\ model'.tapIds = model.tapIds /\ model'.stopIds = model.stopIds
    BY <1>0, <1>2, <1>6 DEF Typed, ModelType
  <1>10. /\ ~PlacesEntry /\ ~PlacesEntry' /\ ~ReplacesEntry
         /\ ReplacesEntry' <=> doc.entry # model.cond.entry
    <2>1. ~PlacesEntry /\ ~ReplacesEntry
      BY <1>4 DEF PlacesEntry, ReplacesEntry
    <2>2. ~PlacesEntry'
      BY <1>7, <1>8 DEF PlacesEntry
    <2>3. ReplacesEntry' <=> doc.entry # model.cond.entry
      BY <1>7, <1>8 DEF ReplacesEntry
    <2> QED
      BY <2>1, <2>2, <2>3
  <1>11. Typed'
    BY <1>0, <1>2, <1>8, <1>9 DEF Typed
  <1>12. Work'
    <2> SUFFICES ASSUME NEW h \in Goroutines, NEW f \in Doing(h)' PROVE Fits(h, f)'
      BY DEF Work
    <2>1. CASE h = g
      BY <1>7, <1>8, <2>1 DEF Fits
    <2>2. CASE h # g
      <3>1. Fits(h, f)
        BY <1>0, <1>8, <2>2 DEF Work
      <3> QED
        BY <1>2, <3>1, FitsStays
    <2> QED
      BY <2>1, <2>2
  <1>13. Answered'
    <2> SUFFICES ASSUME NEW j \in DOMAIN ord, ~ord[j].known
                 PROVE  \E h \in Goroutines : \E f \in Doing(h)' : f.op = "answer" /\ f.order = j
      BY <1>2 DEF Answered
    <2>1. PICK h \in Goroutines : \E f \in Doing(h) : f.op = "answer" /\ f.order = j
      BY <1>0 DEF Answered
    <2>2. \E f \in Doing(h)' : f.op = "answer" /\ f.order = j
      BY <1>4, <1>8, <2>1
    <2> QED
      BY <2>2
  <1>14. Lists'
    BY <1>0, <1>2, <1>9, ListsStay DEF Lists
  <1>15. Saves'
    <2>1. world.edits \in 1 .. world.edits
      BY <1>0, SetupFacts
    <2>2. \E f \in Doing(g)' : f.op = "saveStrategyConditions"
      BY <1>7, <1>8
    <2> QED
      BY <1>0, <1>2, <1>3, <1>6, <1>9, <2>1, <2>2 DEF Saves
  <1>16. Waits'
    <2>1. machine' = "WaitForEntry" =>
             ~model'.entered /\ \A h \in Goroutines \ {g} : todo'[h] = <<>>
      BY <1>0, <1>2, <1>8, <1>9 DEF Waits
    <2> QED
      BY <1>0, <1>2, <1>3, <2>1 DEF Waits
  <1>17. Entries'
    <2>1. ASSUME NEW k \in DOMAIN ord, LastEntry(k)
          PROVE  LastEntry(k)'
      BY <1>2, <1>3, <1>9, <1>10, <2>1 DEF LastEntry
    <2> QED
      BY <1>0, <1>2, <1>3, <1>10, <2>1 DEF Entries
  <1>18. OldStops'
    <2> SUFFICES ASSUME ~setup.early PROVE OldStops'
      BY <1>3 DEF OldStops
    <2>1. world.edits # 1
      <3>1. SUFFICES ASSUME world.edits = 1 PROVE FALSE
        OBVIOUS
      <3>2. PICK i \in 1 .. world.edits : model.cond = setup.conditions[i]
        BY <1>0 DEF Saves
      <3>3. i = 1
        BY <3>1, <3>2
      <3> QED
        BY <1>2, <1>6, <3>1, <3>2, <3>3
    <2>2. machine # "WaitForEntry" /\ \A h \in Goroutines \ {g} : todo[h] = <<>>
      BY <1>0, <2>1 DEF OldStops
    <2>3. ASSUME NEW s \in Stops, NEW k \in Open', ord'[k].step = s, Pending(s)'
          PROVE  k \in canceling'
      <3>1. PICK h \in Goroutines : \E f \in Doing(h)' : f.op = "place" /\ f.step = s
        BY <2>3 DEF Pending
      <3>2. h # g
        BY <1>7, <1>8, <3>1
      <3>3. Pending(s)
        BY <1>8, <3>1, <3>2 DEF Pending
      <3> QED
        BY <1>0, <1>2, <1>3, <2>3, <3>3 DEF OldStops
    <2>4. \A i, k \in Open' \ canceling' :
             ord'[i].step \in Stops /\ ord'[k].step = ord'[i].step => i = k
      BY <1>0, <1>2, <1>3 DEF OldStops
    <2> QED
      BY <1>2, <1>8, <2>1, <2>2, <2>3, <2>4 DEF OldStops
  <1>19. OneEntry'
    <2> SUFFICES ASSUME EntryKept PROVE OneEntry'
      BY <1>3 DEF OneEntry
    <2>1. ~ReplacesEntry'
      <3>1. PICK i \in 1 .. world.edits : model.cond = setup.conditions[i]
        BY <1>0 DEF Saves
      <3>2. world.edits \in 1 .. world.edits
        BY <1>0, SetupFacts
      <3>3. doc.entry = model.cond.entry
        BY <1>6, <3>1, <3>2 DEF EntryKept
      <3> QED
        BY <1>10, <3>3
    <2>2. PICK h : Sums(h) /\ Booking(h)
      BY <1>0 DEF OneEntry
    <2>3. Sums(h)' /\ Booking(h)'
      BY <1>2, <1>3, <1>9, <2>2 DEF Sums, Booking
    <2>4. ASSUME machine = "InEntry", world.pos > 0
          PROVE  Guarded'
      <3>1. Guarded
        BY <1>0, <2>4 DEF OneEntry
      <3>2. StopComes => StopComes'
        <4>1. Doing("Stoploss")' = Doing("Stoploss")
          BY <1>4, <1>8
        <4> QED
          BY <1>4, <4>1 DEF StopComes
      <3>3. CASE doc.stop # model.cond.stop
        <4>1. StopComes'
          BY <1>7, <1>8, <3>3 DEF StopComes
        <4> QED
          BY <4>1 DEF Guarded
      <3>4. CASE doc.stop = model.cond.stop
        <4>1. \A k : Stop(k) => Stop(k)'
          BY <1>2, <1>3, <1>9, <3>4 DEF Stop
        <4> QED
          BY <1>2, <1>3, <3>1, <3>2, <4>1 DEF Guarded
      <3> QED
        BY <3>3, <3>4
    <2>5. \A k \in DOMAIN ord' : IsEntry(k)' => k = 1
      BY <1>0, <1>2, <1>3 DEF OneEntry
    <2>6. machine' # "WaitForEntry" => Bought'
      BY <1>0, <1>2, <1>3 DEF OneEntry
    <2>7. ASSUME NEW k \in DOMAIN ord', ord'[k].step = "Canceled"
          PROVE  Bought' /\ ord'[k].qty = Amount' /\ (ord'[k].status # "open" => world'.pos = 0)
      BY <1>0, <1>2, <1>3, <2>7 DEF OneEntry
    <2>8. \E hh : Sums(hh)' /\ Booking(hh)'
      BY <2>3
    <2> QED
      BY <1>2, <1>10, <2>1, <2>4, <2>5, <2>6, <2>7, <2>8 DEF OneEntry
  <1> QED
    BY <1>11, <1>12, <1>13, <1>14, <1>15, <1>16, <1>17, <1>18, <1>19 DEF IInv


-----------------------------------------------------------------------------
(* Theorems *)

\* A step that changes nothing keeps every part.
LEMMA StutterInv ==
    ASSUME IInv, UNCHANGED vars
    PROVE  IInv'
  <1>0. Typed /\ Work /\ Answered /\ Lists /\ Saves /\ Waits /\ Entries /\ OldStops /\ OneEntry
    BY DEF IInv
  <1>1. /\ machine' = machine /\ model' = model /\ target' = target /\ ord' = ord
        /\ canceling' = canceling /\ world' = world /\ todo' = todo
    BY DEF vars
  <1>2. /\ setup' = setup /\ Amount' = Amount /\ Open' = Open /\ (Bought' <=> Bought)
        /\ (EntryKept' <=> EntryKept) /\ \A k : IsEntry(k)' <=> IsEntry(k)
    BY <1>1, SameSetup DEF Open, Bought, IsEntry, EntryKept
  <1>3. /\ PlacesEntry' <=> PlacesEntry
        /\ ReplacesEntry' <=> ReplacesEntry
        /\ \A s \in Steps : Pending(s)' <=> Pending(s)
        /\ StopComes' <=> StopComes
    BY <1>0, <1>1, NoWork, SameWorkFacts
  <1>4. Typed' /\ Work' /\ Answered'
    BY <1>0, <1>1 DEF Typed, Work, Answered, Doing, Fits, IsLevel
  <1>5. Lists' /\ Saves' /\ Waits'
    BY <1>0, <1>1, <1>2 DEF Lists, Saves, Waits, IsLevel, Doing
  <1>6. Entries'
    BY <1>0, <1>1, <1>2, <1>3 DEF Entries, LastEntry
  <1>7. OldStops'
    BY <1>0, <1>1, <1>2, <1>3, Kinds DEF OldStops
  <1>8. OneEntry'
    <2> SUFFICES ASSUME EntryKept PROVE OneEntry'
      BY <1>2 DEF OneEntry
    <2>1. PICK h : Sums(h) /\ Booking(h)
      BY <1>0 DEF OneEntry
    <2>2. \E hh : Sums(hh)' /\ Booking(hh)'
      BY <1>1, <1>2, <2>1 DEF Sums, Booking
    <2>3. Guarded' <=> Guarded
      BY <1>1, <1>2, <1>3 DEF Guarded, Stop
    <2> QED
      BY <1>0, <1>1, <1>2, <1>3, <2>2, <2>3 DEF OneEntry
  <1> QED
    BY <1>4, <1>5, <1>6, <1>7, <1>8 DEF IInv

\* Every step keeps the invariant.
LEMMA NextInv ==
    ASSUME IInv, [Next]_vars
    PROVE  IInv'
  <1>1. CASE Edit
    BY <1>1, EditInv
  <1>2. CASE WatchStrategies
    BY <1>2, WatchInv
  <1>3. CASE ReplaceEntry
    BY <1>3, ReplaceEntryInv
  <1>4. CASE ReplaceStop
    BY <1>4, ReplaceStopInv
  <1>5. CASE ReplaceExit
    BY <1>5, ReplaceExitInv
  <1>6. CASE SelectLevel
    BY <1>6, SelectInv
  <1>7. CASE CancelLevel
    BY <1>7, CancelLevelInv
  <1>8. CASE ReplaceLevels
    BY <1>8, ReplaceLevelsInv
  <1>9. CASE SaveStrategyConditions
    BY <1>9, SaveInv
  <1>10. ASSUME NEW g \in Goroutines,
                \/ SkipOrder(g) \/ AcceptOrder(g) \/ Answer(g)
                \/ RejectOrder(g) \/ RejectTriggered(g)
         PROVE  IInv'
    <2>1. CASE SkipOrder(g)
      BY <2>1, SkipInv
    <2>2. CASE AcceptOrder(g)
      BY <2>2, AcceptInv
    <2>3. CASE Answer(g)
      BY <2>3, AnswerInv
    <2>4. CASE RejectOrder(g)
      BY <2>4, RejectInv
    <2>5. CASE RejectTriggered(g)
      BY <2>5, TriggeredInv
    <2> QED
      BY <1>10, <2>1, <2>2, <2>3, <2>4, <2>5
  <1>11. ASSUME NEW k \in DOMAIN ord, Fill(k) \/ HearEntry(k) \/ HearExit(k) \/ HearNothing(k)
         PROVE  IInv'
    <2>1. CASE Fill(k)
      BY <2>1, FillInv
    <2>2. CASE HearEntry(k)
      BY <2>2, HearEntryInv
    <2>3. CASE HearExit(k)
      BY <2>3, HearExitInv
    <2>4. CASE HearNothing(k)
      BY <2>4, HearNothingInv
    <2> QED
      BY <1>11, <2>1, <2>2, <2>3, <2>4
  <1>12. ASSUME NEW k \in canceling, CancelOrder(k)
         PROVE  IInv'
    BY <1>12, CancelInv
  <1>13. CASE UNCHANGED vars
    BY <1>13, StutterInv
  <1> QED
    BY <1>1, <1>2, <1>3, <1>4, <1>5, <1>6, <1>7, <1>8, <1>9, <1>10, <1>11, <1>12, <1>13 DEF Next

\* The invariant holds in every reachable state.
LEMMA Invariant == Spec => []IInv
  <1>1. Init => IInv
    BY InitInv
  <1>2. IInv /\ [Next]_vars => IInv'
    BY NextInv
  <1> QED
    BY <1>1, <1>2, PTL DEF Spec

\* At rest nobody has a frame, and of a fill everybody has heard.
LEMMA RestFacts ==
    ASSUME IInv, AtRest
    PROVE  /\ ~PlacesEntry /\ ~ReplacesEntry /\ ~StopComes
           /\ canceling = {} /\ model.cond = Document
           /\ machine # "End" /\ \A k \in Open : ord[k].step # "Canceled"
           /\ Bought => machine = "InEntry"
  <1>1. Typed /\ Waits
    BY DEF IInv
  <1>2. Doing("watch") = {} /\ Doing("Stoploss") = {}
    BY <1>1, Kinds, Frameworks DEF AtRest
  <1>3. ~PlacesEntry /\ ~ReplacesEntry /\ ~StopComes
    BY <1>2 DEF PlacesEntry, ReplacesEntry, StopComes
  <1>4. ASSUME NEW k \in DOMAIN ord, IsEntry(k), ord[k].status = "filled"
        PROVE  machine = "InEntry"
    <2>1. ord[k].told
      BY <1>4 DEF AtRest
    <2>2. machine # "WaitForEntry"
      BY <1>1, <1>4, <2>1 DEF Waits
    <2> QED
      BY <1>1, <2>2 DEF Typed, AtRest
  <1> QED
    BY <1>3, <1>4 DEF AtRest, Bought

\* While the order waits, and every edit has been handled, there is one open entry order,
\* and it is at the edited price, whatever fills, cancels and further edits met on the way
\* (strategySingleton.go:657-673).
THEOREM EntryFollowsEditAlways == Spec => []EntryFollowsEdit
  <1>1. IInv => EntryFollowsEdit
    <2> SUFFICES ASSUME IInv, AtRest, machine = "WaitForEntry"
                 PROVE  \E k \in DOMAIN ord : /\ OpenOrders("WaitForEntry") = {k}
                                              /\ ord[k].price = Document.entry
      BY DEF EntryFollowsEdit
    <2>1. Entries /\ ~Bought /\ ~PlacesEntry /\ ~ReplacesEntry
          /\ canceling = {} /\ model.cond = Document
      BY RestFacts DEF IInv
    <2>2. PICK k \in DOMAIN ord : LastEntry(k)
      BY <2>1 DEF Entries
    <2>3. OpenOrders("WaitForEntry") = {k}
      BY <2>1, <2>2 DEF LastEntry, OpenOrders, IsEntry
    <2>4. ord[k].price = Document.entry
      BY <2>1, <2>2 DEF LastEntry
    <2> QED
      BY <2>3, <2>4
  <1> QED
    BY <1>1, Invariant, PTL

\* A position whose entry was not edited has, when every edit has been handled, an open
\* stop at the edited price that is as large as the position: an edit of the stop may meet
\* the fill of the entry and the stop its callback places, fills of exits, orders the
\* exchange rejects, and other edits (strategySingleton.go:675-688).
THEOREM StopFollowsEditAlways == Spec => []StopFollowsEdit
  <1>1. IInv => StopFollowsEdit
    <2> SUFFICES ASSUME IInv, Holding
                 PROVE  \E k \in OpenOrders("Stoploss") :
                           ord[k].price = Document.stop /\ ord[k].qty >= world.pos
      BY DEF StopFollowsEdit
    <2>1. AtRest /\ world.pos > 0 /\ EntryKept
      BY DEF Holding
    <2>2. machine = "InEntry"
      BY <2>1, Left, RestFacts
    <2>3. Guarded
      BY <2>1, <2>2 DEF IInv, OneEntry
    <2>4. PICK k \in DOMAIN ord : Stop(k)
      BY <2>1, <2>3, RestFacts DEF Guarded
    <2> QED
      BY <2>1, <2>4, RestFacts DEF Stop, OpenOrders
  <1> QED
    BY <1>1, Invariant, PTL

\* Of each kind of stop at most one is open when every edit has been handled, if edits
\* come after the first stops were placed: the one before, for which only a request is
\* sent that nobody waits for, is gone (strategySingleton.go:675-705).
THEOREM OldStopsAreGoneAlways == Spec => []OldStopsAreGone
  <1>1. IInv => OldStopsAreGone
    <2> SUFFICES ASSUME IInv, Holding, ~setup.early, NEW step \in Stops
                 PROVE  Cardinality(OpenOrders(step)) <= 1
      BY DEF OldStopsAreGone
    <2>1. OldStops /\ canceling = {}
      BY RestFacts DEF IInv, Holding
    <2>2. \A j, k \in OpenOrders(step) : j = k
      BY <2>1 DEF OldStops, OpenOrders
    <2>3. CASE OpenOrders(step) = {}
      BY <2>3, FS_EmptySet
    <2>4. CASE OpenOrders(step) # {}
      <3>1. PICK k \in OpenOrders(step) : OpenOrders(step) = {k}
        BY <2>2, <2>4
      <3> QED
        BY <3>1, FS_Singleton
    <2> QED
      BY <2>3, <2>4
  <1> QED
    BY <1>1, Invariant, PTL

=============================================================================
