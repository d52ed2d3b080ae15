-------------------------- MODULE Protected_proofs --------------------------
(***************************************************************************)
(* SmartOrder keeps Protected, for every set of setups: a position that    *)
(* nobody works on has a stop or a closing order at the exchange.          *)
(*                                                                         *)
(* The argument: as long as there is a position, the entry's fill has not  *)
(* been told yet, or somebody is about to place the stop, or somebody is   *)
(* about to close the position, or an order that does is open and stays.   *)
(* Each cancel of Stop is made by a goroutine that itself, or with the one *)
(* it was started by, will place the closing order or check for it later.  *)
(***************************************************************************)
EXTENDS SmartOrder_proofs

-----------------------------------------------------------------------------
(* The invariant, of the orders Protected is about *)

\* Somebody is about to place the stop orders of the entry.
Entering == \E t \in Threads : \E f \in Doing(t) : f.op = "move" /\ f.from = "WaitForEntry"

StopComes ==
    \E t \in Threads : \E f \in Doing(t) :
        f.op = "goStops" \/ (f.op = "place" /\ f.step = "Stoploss")

\* Somebody is about to close the position.
Closes(f) ==
    \/ f.op \in {"stopPlaces", "lateCheck"}
    \/ f.op = "finishStop" /\ f.late
    \/ f.op = "place" /\ f.step = "Canceled"

CloseComes == \E t \in Threads : \E f \in Doing(t) : Closes(f)

\* Who cancels once more after five seconds comes back to close the position.
Stopper(i) == IF i = 1 THEN Loop ELSE Watch

Returns(i) ==
    \/ \E f \in Doing(Stopper(i)) : f.op = "stopPlaces" \/ (f.op = "finishStop" /\ f.late)
    \/ \E f \in Doing(<<"late", i>>) : f.op = "lateCheck"

Stopping ==
    \E i \in {1, 2} : \E f \in Doing(Stopper(i)) : f.op \in {"stopPlaces", "finishStop"}

\* The event loop is the last thing its goroutine has to do.
LastLoop(s) == \A i \in DOMAIN s : s[i].op = "loop" => i = Len(s)

LoopLast ==
    /\ LastLoop(todo[Loop])
    /\ \A x \in Threads \ {Loop} : \A f \in Doing(x) : f.op # "loop"

\* Stop leaves out the closing order when all is sold, and only then.
Framed ==
    /\ LoopLast
    /\ \A t \in Threads : \A f \in Doing(t) :
          /\ f.op # "cancelAll"
          /\ f.op = "stopPlaces" /\ f.state = "End" => model.executed >= Amount
          /\ f.op = "finishStop" /\ ~f.late => model.executed >= Amount

Locked == sm.stopLock => Stopping

Swept ==
    \A i \in {1, 2} : \A f \in Doing(<<"sweep", i>>) :
        f.op = "sweep" => Returns(i) \/ model.executed >= Amount

\* A closing order that is waited for was placed.
Asks == "Canceled" \in sm.waiting => \E k \in DOMAIN ord : ord[k].step = "Canceled"

\* A closing order closes everything and is not canceled; a stop is as large as what is left.
Protectors ==
    /\ \A k \in DOMAIN ord :
          /\ ord[k].step = "Canceled" => ord[k].qty = Amount
          /\ ord[k].step = "Canceled" /\ ord[k].status # "open" => world.pos = 0
          /\ ord[k].step = "Stoploss" => ord[k].qty >= Amount - model.executed
    /\ \A k \in canceling : ord[k].step # "Canceled"
    /\ \A i \in DOMAIN model.orders : ord[model.orders[i]].step # "Canceled"

Enters == machine = "WaitForEntry" => Untold \/ Entering \/ model.executed >= Amount

Protector(k) ==
    /\ ord[k].status = "open"
    /\ ord[k].step = "Canceled" \/ (ord[k].step = "Stoploss" /\ k \notin canceling)

Covered == Untold \/ Entering \/ StopComes \/ CloseComes \/ \E k \in DOMAIN ord : Protector(k)

Cover == world.pos > 0 => Covered

Guard == Framed /\ Locked /\ Swept /\ Asks /\ Protectors /\ Enters /\ Cover

\* The books, seen from what is left to sell.
Left == Usual => world.pos <= Amount - model.executed

-----------------------------------------------------------------------------
(* What stays on the stacks *)

\* Every frame stays, but for the first one of t.
Stays(t) ==
    \A x \in Threads : \A f \in Doing(x) :
        f \in Doing(x)' \/ (x = t /\ f = Head(todo[t]))

\* The frames of a stack that is put together.
LEMMA Joined ==
    ASSUME NEW s \in Stacks, NEW r \in Stacks
    PROVE  /\ Within(s) \cup Within(r) \subseteq Within(s \o r)
           /\ s # <<>> => \A f \in Within(s) : f = Head(s) \/ f \in Within(Tail(s))
  <1>1. /\ s \in Seq(Frames) /\ r \in Seq(Frames)
        /\ DOMAIN s = 1 .. Len(s) /\ DOMAIN r = 1 .. Len(r)
        /\ Len(s) \in Nat /\ Len(r) \in Nat
    BY DEF Stacks
  <1>2. /\ DOMAIN (s \o r) = 1 .. Len(s) + Len(r)
        /\ \A i \in 1 .. Len(s) + Len(r) : (s \o r)[i] = IF i <= Len(s) THEN s[i] ELSE r[i - Len(s)]
    BY <1>1
  <1>3. Within(s) \subseteq Within(s \o r)
    <2>1. \A i \in 1 .. Len(s) : i \in 1 .. Len(s) + Len(r) /\ (s \o r)[i] = s[i]
      BY <1>1, <1>2
    <2> QED
      BY <1>1, <1>2, <2>1 DEF Within
  <1>4. Within(r) \subseteq Within(s \o r)
    <2>1. \A i \in 1 .. Len(r) :
             i + Len(s) \in 1 .. Len(s) + Len(r) /\ (s \o r)[i + Len(s)] = r[i]
      BY <1>1, <1>2
    <2> QED
      BY <1>1, <1>2, <2>1 DEF Within
  <1>5. ASSUME s # <<>>
        PROVE  \A f \in Within(s) : f = Head(s) \/ f \in Within(Tail(s))
    <2>1. /\ Head(s) = s[1] /\ Len(s) >= 1 /\ DOMAIN Tail(s) = 1 .. Len(s) - 1
          /\ \A i \in 1 .. Len(s) - 1 : Tail(s)[i] = s[i + 1]
      BY <1>1, <1>5
    <2>2. \A i \in 2 .. Len(s) : i - 1 \in 1 .. Len(s) - 1 /\ s[i] = Tail(s)[i - 1]
      BY <1>1, <2>1
    <2>3. \A i \in 1 .. Len(s) : i = 1 \/ i \in 2 .. Len(s)
      BY <1>1
    <2>4. \A i \in 2 .. Len(s) : s[i] \in Within(Tail(s))
      BY <2>1, <2>2 DEF Within
    <2>5. \A i \in DOMAIN s : s[i] = Head(s) \/ s[i] \in Within(Tail(s))
      BY <1>1, <2>1, <2>3, <2>4
    <2> QED
      BY <2>5 DEF Within
  <1> QED
    BY <1>3, <1>4, <1>5

\* The rest of a stack is one.
LEMMA Rest ==
    ASSUME NEW s \in Stacks, s # <<>>
    PROVE  Tail(s) \in Stacks
  <1>1. <<>> \in Stacks
    BY ShortStacks
  <1>2. <<>> \o Tail(s) \in Stacks
    BY <1>1, Push
  <1>3. s \in Seq(Frames)
    BY DEF Stacks
  <1>4. Tail(s) \in Seq(Frames)
    BY <1>3
  <1>5. <<>> \o Tail(s) = Tail(s)
    BY <1>4
  <1> QED
    BY <1>2, <1>5

\* What Then leaves on the stacks.
LEMMA ThenStays ==
    ASSUME Typed, NEW t \in Threads, todo[t] # <<>>, NEW frames \in Stacks, todo' = Then(t, frames)
    PROVE  /\ Stays(t) /\ Within(frames) \subseteq Doing(t)'
           /\ \A x \in Threads \ {t} : Doing(x)' = Doing(x)
           /\ \A f \in Doing(t)' : f \in Within(frames) \/ f \in Doing(t)
  <1>1. /\ todo \in [Threads -> Stacks] /\ todo[t] \in Stacks /\ Tail(todo[t]) \in Stacks
    BY Rest DEF Typed
  <1>2. /\ todo'[t] = frames \o Tail(todo[t])
        /\ \A x \in Threads \ {t} : todo'[x] = todo[x]
    BY <1>1 DEF Then
  <1>3. /\ Within(frames) \cup Within(Tail(todo[t])) \subseteq Within(todo'[t])
        /\ \A f \in Within(todo[t]) : f = Head(todo[t]) \/ f \in Within(Tail(todo[t]))
    BY <1>1, <1>2, Joined
  <1>4. \A f \in Within(todo'[t]) : f \in Within(frames) \/ f \in Within(todo[t])
    BY <1>1, <1>2, Push
  <1> QED
    BY <1>2, <1>3, <1>4 DEF Stays, Doing

\* What ThenGo leaves on the stacks.
LEMMA ThenGoStays ==
    ASSUME Typed, NEW t \in Threads, todo[t] # <<>>, NEW frames \in Stacks,
           NEW u \in Threads \ {t}, NEW others \in Stacks, todo' = ThenGo(t, frames, u, others)
    PROVE  /\ Stays(t) /\ Within(frames) \subseteq Doing(t)' /\ Within(others) \subseteq Doing(u)'
           /\ \A x \in Threads \ {t, u} : Doing(x)' = Doing(x)
           /\ \A f \in Doing(t)' : f \in Within(frames) \/ f \in Doing(t)
  <1>1. /\ todo \in [Threads -> Stacks] /\ todo[t] \in Stacks /\ Tail(todo[t]) \in Stacks
        /\ todo[u] \in Stacks
    BY Rest DEF Typed
  <1>2. /\ todo'[t] = frames \o Tail(todo[t])
        /\ todo'[u] = todo[u] \o others
        /\ \A x \in Threads \ {t, u} : todo'[x] = todo[x]
    BY <1>1 DEF ThenGo, Then
  <1>3. /\ Within(frames) \cup Within(Tail(todo[t])) \subseteq Within(todo'[t])
        /\ \A f \in Within(todo[t]) : f = Head(todo[t]) \/ f \in Within(Tail(todo[t]))
    BY <1>1, <1>2, Joined
  <1>4. Within(todo[u]) \cup Within(others) \subseteq Within(todo'[u])
    BY <1>1, <1>2, Joined
  <1>5. \A f \in Within(todo'[t]) : f \in Within(frames) \/ f \in Within(todo[t])
    BY <1>1, <1>2, Push
  <1> QED
    BY <1>2, <1>3, <1>4, <1>5 DEF Stays, Doing


\* Frames other than the loop, on top of what is left of a stack.
LEMMA OnTop ==
    ASSUME NEW s \in Stacks, NEW r \in Stacks, \A f \in Within(r) : f.op # "loop"
    PROVE  /\ LastLoop(s) => LastLoop(r \o s)
           /\ s # <<>> /\ LastLoop(s) => LastLoop(Tail(s))
  <1>1. /\ s \in Seq(Frames) /\ r \in Seq(Frames)
        /\ DOMAIN s = 1 .. Len(s) /\ DOMAIN r = 1 .. Len(r)
        /\ Len(s) \in Nat /\ Len(r) \in Nat
    BY DEF Stacks
  <1>2. /\ DOMAIN (r \o s) = 1 .. Len(r) + Len(s) /\ Len(r \o s) = Len(r) + Len(s)
        /\ \A i \in 1 .. Len(r) + Len(s) : (r \o s)[i] = IF i <= Len(r) THEN r[i] ELSE s[i - Len(r)]
    BY <1>1
  <1>3. ASSUME LastLoop(s), NEW i \in DOMAIN (r \o s), (r \o s)[i].op = "loop"
        PROVE  i = Len(r \o s)
    <2>1. \A j \in 1 .. Len(r) : r[j] \in Within(r)
      BY <1>1 DEF Within
    <2>2. ~(i <= Len(r))
      BY <1>1, <1>2, <1>3, <2>1
    <2>3. i - Len(r) \in 1 .. Len(s) /\ s[i - Len(r)].op = "loop"
      BY <1>1, <1>2, <1>3, <2>2
    <2>4. i - Len(r) = Len(s)
      BY <1>1, <1>3, <2>3 DEF LastLoop
    <2> QED
      BY <1>1, <1>2, <1>3, <2>4
  <1>4. ASSUME s # <<>>, LastLoop(s)
        PROVE  LastLoop(Tail(s))
    <2>1. /\ Len(s) >= 1 /\ DOMAIN Tail(s) = 1 .. Len(s) - 1 /\ Len(Tail(s)) = Len(s) - 1
          /\ \A i \in 1 .. Len(s) - 1 : Tail(s)[i] = s[i + 1]
      BY <1>1, <1>4
    <2>2. \A i \in 1 .. Len(s) - 1 : i + 1 \in DOMAIN s
      BY <1>1
    <2>3. \A i \in 1 .. Len(s) - 1 : s[i + 1].op = "loop" => i + 1 = Len(s)
      BY <1>4, <2>2 DEF LastLoop
    <2>4. \A i \in 1 .. Len(s) - 1 : i + 1 = Len(s) => i = Len(s) - 1
      <3>1. \A n \in Nat : \A i \in 1 .. n - 1 : i + 1 = n => i = n - 1
        OBVIOUS
      <3> QED
        BY <1>1, <3>1
    <2>5. ASSUME NEW i \in 1 .. Len(s) - 1, Tail(s)[i].op = "loop"
          PROVE  i = Len(s) - 1
      <3>1. s[i + 1].op = "loop"
        BY <2>1, <2>5
      <3> QED
        BY <2>3, <2>4, <2>5, <3>1
    <2>6. \A i \in DOMAIN Tail(s) : Tail(s)[i].op = "loop" => i = Len(Tail(s))
      BY <2>1, <2>5
    <2> QED
      BY <2>6 DEF LastLoop
  <1> QED
    BY <1>3, <1>4 DEF LastLoop

\* The loop stays last: nobody puts work below it.
LEMMA LoopKept ==
    ASSUME Typed, LoopLast,
           \A x \in Threads \ {Loop} : \A f \in Doing(x)' : f \in Doing(x) \/ f.op # "loop",
           \/ todo'[Loop] = todo[Loop]
           \/ \E frames \in Stacks :
                 /\ \A f \in Within(frames) : f.op # "loop"
                 /\ \/ todo'[Loop] = frames \o todo[Loop]
                    \/ todo[Loop] # <<>> /\ todo'[Loop] = frames \o Tail(todo[Loop])
    PROVE  LoopLast'
  <1>1. todo[Loop] \in Stacks /\ (todo[Loop] # <<>> => Tail(todo[Loop]) \in Stacks)
    BY Rest, ThreadNames DEF Typed
  <1>2. LastLoop(todo[Loop])
    BY DEF LoopLast
  <1>3. ASSUME NEW frames \in Stacks, \A f \in Within(frames) : f.op # "loop"
        PROVE  /\ LastLoop(frames \o todo[Loop])
               /\ todo[Loop] # <<>> => LastLoop(frames \o Tail(todo[Loop]))
    <2>1. LastLoop(frames \o todo[Loop])
      BY <1>1, <1>2, <1>3, OnTop
    <2>2. todo[Loop] # <<>> => LastLoop(Tail(todo[Loop]))
      BY <1>1, <1>2, <1>3, OnTop
    <2>3. todo[Loop] # <<>> => LastLoop(frames \o Tail(todo[Loop]))
      BY <1>1, <1>3, <2>2, OnTop
    <2> QED
      BY <2>1, <2>3
  <1>4. LastLoop(todo'[Loop])
    BY <1>2, <1>3
  <1>5. \A x \in Threads \ {Loop} : \A f \in Doing(x)' : f.op # "loop"
    BY DEF LoopLast
  <1> QED
    BY <1>4, <1>5 DEF LoopLast, LastLoop

\* It stays last when a goroutine goes on.
LEMMA LoopStays ==
    ASSUME Typed, LoopLast, NEW t \in Threads, todo[t] # <<>>, NEW frames \in Stacks,
           \A f \in Within(frames) : f.op # "loop", todo' = Then(t, frames)
    PROVE  LoopLast'
  <1>1. todo'[Loop] = IF t = Loop THEN frames \o Tail(todo[Loop]) ELSE todo[Loop]
    BY ThreadNames DEF Typed, Then
  <1>2. /\ \A x \in Threads \ {t} : Doing(x)' = Doing(x)
        /\ \A f \in Doing(t)' : f \in Within(frames) \/ f \in Doing(t)
    BY ThenStays
  <1>3. \A x \in Threads : \A f \in Doing(x)' : f \in Doing(x) \/ f.op # "loop"
    BY <1>2
  <1> QED
    BY <1>1, <1>3, LoopKept

\* It stays last when a goroutine goes on and gives work to another one.
LEMMA LoopStaysToo ==
    ASSUME Typed, LoopLast, NEW t \in Threads, todo[t] # <<>>, NEW frames \in Stacks,
           \A f \in Within(frames) : f.op # "loop",
           NEW u \in Threads \ {t, Loop}, NEW others \in Seq(Later),
           \A f \in Within(others) : f.op # "loop", todo' = ThenGo(t, frames, u, others)
    PROVE  LoopLast'
  <1>1. todo'[Loop] = IF t = Loop THEN frames \o Tail(todo[Loop]) ELSE todo[Loop]
    BY ThreadNames DEF Typed, Then, ThenGo
  <1>2. Goes(t, Within(frames) \cup Within(others), Within(others))
    BY ThenGoGoes DEF Typed
  <1>3. \A x \in Threads : \A f \in Doing(x)' : f \in Doing(x) \/ f.op # "loop"
    BY <1>2 DEF Goes
  <1> QED
    BY <1>1, <1>3, LoopKept
-----------------------------------------------------------------------------
(* Most steps change nothing that the guard relates *)

\* What the guard looks for on the stacks.
Counts(f) ==
    \/ f.op \in {"goStops", "stopPlaces", "finishStop", "lateCheck"}
    \/ f.op = "move" /\ f.from = "WaitForEntry"
    \/ f.op = "place" /\ f.step \in {"Stoploss", "Canceled"}

StopCounts(f) == f.op \in {"stopPlaces", "finishStop", "lateCheck"}

CountsStay == \A x \in Threads : \A f \in Doing(x) : Counts(f) => f \in Doing(x)'
StopStays == \A x \in Threads : \A f \in Doing(x) : StopCounts(f) => f \in Doing(x)'

\* New frames are none that the guard says something of.
Harmless ==
    /\ LoopLast => LoopLast'
    /\ \A x \in Threads : \A f \in Doing(x)' :
          f \in Doing(x) \/ f.op \notin {"cancelAll", "stopPlaces", "finishStop", "sweep"}

\* Neither the orders nor the books change.
Quiet ==
    /\ UNCHANGED <<ord, canceling>>
    /\ world'.setup = world.setup /\ world'.pos = world.pos
    /\ model'.executed = model.executed /\ model'.orders = model.orders
    /\ machine' = "WaitForEntry" => machine = "WaitForEntry"
    /\ sm'.stopLock => sm.stopLock
    /\ sm'.waiting \cap {"Canceled"} \subseteq sm.waiting
    /\ Harmless

\* The two goroutines that stop are threads, and so are their late helpers.
LEMMA Stoppers ==
    \A i \in {1, 2} : Stopper(i) \in Threads /\ Stopper(i) \in {Loop, Watch} /\ Stopper(i)[2] = i
  BY ThreadNames DEF Stopper

\* What StopStays keeps.
LEMMA StoppingStays ==
    ASSUME StopStays
    PROVE  /\ Stopping => Stopping'
           /\ \A i \in {1, 2} : Returns(i) => Returns(i)'
  <1>1. \A i \in {1, 2} : \A f \in Doing(Stopper(i)) : StopCounts(f) => f \in Doing(Stopper(i))'
    BY Stoppers DEF StopStays
  <1>2. \A i \in {1, 2} : \A f \in Doing(<<"late", i>>) :
           StopCounts(f) => f \in Doing(<<"late", i>>)'
    BY ThreadNames DEF StopStays
  <1>3. Stopping => Stopping'
    BY <1>1 DEF Stopping, StopCounts
  <1>4. \A i \in {1, 2} : Returns(i) => Returns(i)'
    BY <1>1, <1>2 DEF Returns, StopCounts
  <1> QED
    BY <1>3, <1>4

\* What CountsStay keeps.
LEMMA ComersStay ==
    ASSUME CountsStay
    PROVE  /\ StopStays
           /\ Entering => Entering'
           /\ StopComes => StopComes'
           /\ CloseComes => CloseComes'
  BY DEF CountsStay, StopStays, StopCounts, Counts, Entering, StopComes, CloseComes, Closes

\* The part about Stop is kept unless somebody goes on with it.
LEMMA StopKept ==
    ASSUME Guard, StopStays, Harmless, model'.executed >= model.executed, Amount' = Amount,
           model.executed \in Int, model'.executed \in Int, Amount \in Int,
           sm'.stopLock => sm.stopLock
    PROVE  Framed' /\ Locked' /\ Swept'
  <1>1. model.executed >= Amount => model'.executed >= Amount'
    OBVIOUS
  <1>2. Framed'
    BY <1>1 DEF Guard, Framed, Harmless
  <1>3. Locked'
    BY StoppingStays DEF Guard, Locked
  <1>4. Swept'
    <2>1. \A i \in {1, 2} : \A f \in Doing(<<"sweep", i>>)' :
             f.op = "sweep" => f \in Doing(<<"sweep", i>>)
      BY ThreadNames DEF Harmless
    <2> QED
      BY <1>1, <2>1, StoppingStays DEF Guard, Swept
  <1> QED
    BY <1>2, <1>3, <1>4

\* What is left to show of a quiet step of a goroutine that goes on with what counts.
LEMMA QuietRest ==
    ASSUME Typed, Guard, Quiet, StopStays, machine' = "WaitForEntry" /\ Entering => Entering'
    PROVE  /\ Cover' => Guard'
           /\ Untold => Untold'
           /\ (\E k \in DOMAIN ord : Protector(k)) => (\E k \in DOMAIN ord : Protector(k))'
           /\ world'.pos = world.pos
  <1>1. /\ Amount' = Amount /\ Amount \in Int /\ model.executed \in Int
        /\ model'.executed = model.executed /\ world'.pos = world.pos
        /\ ord' = ord /\ canceling' = canceling /\ model'.orders = model.orders
    BY SameSetup, TakenFacts DEF Quiet, Typed, ModelType
  <1>2. Framed' /\ Locked' /\ Swept'
    BY <1>1, StopKept DEF Quiet
  <1>3. Asks' /\ Protectors'
    BY <1>1 DEF Guard, Quiet, Asks, Protectors
  <1>4. Untold' <=> Untold
    BY <1>1 DEF Untold, IsEntry
  <1>5. Enters'
    BY <1>1, <1>4 DEF Guard, Enters, Quiet
  <1>6. (\E k \in DOMAIN ord : Protector(k)) => (\E k \in DOMAIN ord : Protector(k))'
    BY <1>1 DEF Protector
  <1> QED
    BY <1>1, <1>2, <1>3, <1>4, <1>5, <1>6 DEF Guard

\* A quiet step of goroutines that keep what counts keeps the guard.
LEMMA QuietKeeps ==
    ASSUME Typed, Guard, Quiet, CountsStay
    PROVE  Guard'
  <1>1. /\ StopStays /\ (Entering => Entering') /\ (StopComes => StopComes')
        /\ (CloseComes => CloseComes')
    BY ComersStay
  <1>2. /\ Cover' => Guard'
        /\ Untold => Untold'
        /\ (\E k \in DOMAIN ord : Protector(k)) => (\E k \in DOMAIN ord : Protector(k))'
        /\ world'.pos = world.pos
    BY <1>1, QuietRest
  <1> QED
    BY <1>1, <1>2 DEF Guard, Cover, Covered

-----------------------------------------------------------------------------
(* The quiet steps *)

Noted == {"cancelAll", "stopPlaces", "finishStop", "sweep", "loop"}

\* A goroutine goes on with frames that the guard says nothing of.
LEMMA GoesOnWith ==
    ASSUME Typed, NEW t \in Threads, todo[t] # <<>>, NEW frames \in Stacks,
           \A f \in Within(frames) : f.op \notin Noted, todo' = Then(t, frames)
    PROVE  /\ Harmless
           /\ ~Counts(Head(todo[t])) => CountsStay
           /\ ~StopCounts(Head(todo[t])) => StopStays
           /\ Within(frames) \subseteq Doing(t)'
  <1>1. /\ Stays(t) /\ Within(frames) \subseteq Doing(t)'
        /\ \A x \in Threads \ {t} : Doing(x)' = Doing(x)
        /\ \A f \in Doing(t)' : f \in Within(frames) \/ f \in Doing(t)
    BY ThenStays
  <1>2. Harmless
    <2>1. LoopLast => LoopLast'
      BY LoopStays DEF Noted
    <2> QED
      BY <1>1, <2>1 DEF Harmless, Noted
  <1>3. ~Counts(Head(todo[t])) => CountsStay
    BY <1>1 DEF CountsStay, Stays
  <1>4. ~StopCounts(Head(todo[t])) => StopStays
    BY <1>1 DEF StopStays, Stays
  <1> QED
    BY <1>1, <1>2, <1>3, <1>4

\* A goroutine's quiet step.
LEMMA GoesOnQuietly ==
    ASSUME Typed, Guard, NEW t \in Threads, todo[t] # <<>>, ~Counts(Head(todo[t])),
           NEW frames \in Stacks, \A f \in Within(frames) : f.op \notin Noted,
           todo' = Then(t, frames), Harmless => Quiet
    PROVE  Guard'
  <1>1. Harmless /\ CountsStay
    BY GoesOnWith
  <1> QED
    BY <1>1, QuietKeeps

\* Without work for anybody.
LEMMA NobodyGoes ==
    ASSUME Typed, Guard, todo' = todo, Harmless => Quiet
    PROVE  Guard'
  <1>1. Harmless /\ CountsStay
    BY DEF Harmless, CountsStay, Doing, LoopLast
  <1> QED
    BY <1>1, QuietKeeps

\* The user, redis and the strategies watch.
LEMMA ServiceGuards ==
    ASSUME Typed, Guard, UNCHANGED vars \/ Disable \/ LoseMutex \/ HotReload \/ Unregister
    PROVE  Guard'
  <1>1. CASE UNCHANGED vars \/ Disable \/ LoseMutex
    <2>1. /\ todo' = todo /\ UNCHANGED <<machine, model, sm, ord, canceling>>
          /\ world'.setup = world.setup /\ world'.pos = world.pos
      BY <1>1 DEF vars, Disable, LoseMutex, Typed, WorldType
    <2> QED
      BY <2>1, NobodyGoes DEF Quiet
  <1>2. CASE HotReload
    <2>1. /\ todo[Watch] = <<>> /\ UNCHANGED <<machine, sm, ord, canceling, world>>
          /\ model' = [model EXCEPT !.enabled = world.enabled]
          /\ \/ todo' = todo
             \/ todo' = [todo EXCEPT ![Watch] = <<Do("unregister")>>]
             \/ todo' = [todo EXCEPT ![Watch] = <<Do("stop"), Do("unregister")>>]
      BY <1>2 DEF HotReload
    <2>2. model'.executed = model.executed /\ model'.orders = model.orders
      BY <2>1 DEF Typed, ModelType
    <2>3. /\ \A x \in Threads \ {Watch} : Doing(x)' = Doing(x)
          /\ Doing(Watch) = {}
          /\ \A f \in Doing(Watch)' : f \in Doing(Watch) \/ f \in {Do("stop"), Do("unregister")}
      <3>1. /\ Do("stop") \in Later /\ Do("unregister") \in Later
        BY NewFrames DEF Simple
      <3>2. /\ Within(<<>>) = {} /\ Within(<<Do("unregister")>>) = {Do("unregister")}
            /\ Within(<<Do("stop"), Do("unregister")>>) = {Do("stop"), Do("unregister")}
        BY <3>1, ShortStacks, NewFrames
      <3> QED
        BY <2>1, <3>2, ThreadNames DEF Doing, Typed
    <2>4. Harmless /\ CountsStay
      <3>1. todo'[Loop] = todo[Loop]
        BY <2>1, ThreadNames DEF Typed
      <3>2. \A x \in Threads \ {Loop} : \A f \in Doing(x)' : f \in Doing(x) \/ f.op # "loop"
        BY <2>3 DEF Do
      <3>3. LoopLast => LoopLast'
        BY <3>1, <3>2, LoopKept
      <3> QED
        BY <2>3, <3>3, ThreadNames DEF Harmless, CountsStay, Do
    <2> QED
      BY <2>1, <2>2, <2>4, QuietKeeps DEF Quiet
  <1>3. CASE Unregister
    <2>1. /\ todo[Watch] # <<>> /\ Head(todo[Watch]).op = "unregister" /\ todo' = Then(Watch, <<>>)
          /\ UNCHANGED <<machine, model, sm, ord, canceling>>
          /\ world'.setup = world.setup /\ world'.pos = world.pos
      BY <1>3 DEF Unregister, Top, Typed, WorldType
    <2>2. ~Counts(Head(todo[Watch]))
      BY <2>1 DEF Counts
    <2> QED
      BY <2>1, <2>2, GoesOnQuietly, ShortStacks, ThreadNames DEF Quiet
  <1> QED
    BY <1>1, <1>2, <1>3

\* onStart.
LEMMA OnStartGuards ==
    ASSUME Typed, Guard, ~setup.entryTimeout, NEW t \in Threads, OnStartChecks(t)
    PROVE  Guard'
  <1>1. /\ todo[t] # <<>> /\ Head(todo[t]).op = "onStart" /\ todo' = Then(t, Starting(model))
        /\ sm' = [sm EXCEPT !.waiting = IF Starting(model) = OnStart
                                        THEN @ \cup {"WaitForEntry"} ELSE @]
        /\ UNCHANGED <<machine, model, ord, canceling, world>>
    BY DEF OnStartChecks, Top
  <1>2. Starting(model) \in {<<>>, <<Place("WaitForEntry")>>}
    BY DEF Starting, OnStart, Timer
  <1>3. /\ Starting(model) \in Stacks
        /\ \A f \in Within(Starting(model)) : f.op \notin Noted
    <2>1. /\ <<>> \in Stacks /\ Within(<<>>) = {} /\ <<Place("WaitForEntry")>> \in Stacks
          /\ Within(<<Place("WaitForEntry")>>) = {Place("WaitForEntry")}
      BY ShortStacks, NewFrames
    <2>2. Place("WaitForEntry").op \notin Noted
      BY DEF Place, Noted
    <2>3. PICK s : s = Starting(model)
      OBVIOUS
    <2>4. s \in Stacks /\ \A f \in Within(s) : f.op \notin Noted
      BY <1>2, <2>1, <2>2, <2>3
    <2> QED
      BY <2>3, <2>4
  <1>4. sm'.stopLock = sm.stopLock /\ sm'.waiting \cap {"Canceled"} \subseteq sm.waiting
    <2>1. PICK w : w = IF Starting(model) = OnStart THEN sm.waiting \cup {"WaitForEntry"}
                                                   ELSE sm.waiting
      OBVIOUS
    <2>2. sm' = [sm EXCEPT !.waiting = w]
      BY <1>1, <2>1
    <2> QED
      BY <2>1, <2>2 DEF Typed, FlagsType
  <1>5. ~Counts(Head(todo[t]))
    BY <1>1 DEF Counts
  <1> QED
    BY <1>1, <1>3, <1>4, <1>5, GoesOnQuietly DEF Quiet

\* What is so of the orders Protected is about.
LEMMA UsualFacts ==
    ASSUME Begun, Usual
    PROVE  /\ Typed /\ First /\ ~setup.entryTimeout /\ setup.errors = 0
           /\ Futures /\ ~ContinueIfEnded
           /\ Amount \in Nat /\ model.executed \in Int
           /\ world.pos \in Int /\ world.pos >= 0
  <1>1. /\ Typed /\ ~ContinueIfEnded /\ Futures /\ ~setup.entryTimeout /\ setup.errors = 0
    BY DEF Begun, Usual, Steady
  <1>2. model.iteration = 0 /\ world.pos >= 0
    BY <1>1 DEF Typed
  <1>3. Amount \in Nat
    BY <1>1, TakenFacts DEF Typed
  <1>4. model.executed \in Int /\ world.pos \in Int
    BY <1>1 DEF Typed, ModelType, WorldType
  <1> QED
    BY <1>1, <1>2, <1>3, <1>4 DEF First

\* A transition that is not that of the entry.
LEMMA MoveGuards ==
    ASSUME Begun, Usual, Guard, NEW t \in Threads, EnterEnd(t) \/ EnterTakeProfit(t)
    PROVE  Guard'
  <1>1. Typed
    BY DEF Begun
  <1>2. /\ todo[t] # <<>> /\ Head(todo[t]).op = "move" /\ Head(todo[t]).from # "WaitForEntry"
        /\ todo' = Then(t, <<>>) /\ machine' \in {"End", "TakeProfit"}
        /\ UNCHANGED <<ord, canceling, world>>
    BY DEF EnterEnd, EnterTakeProfit, Top, Enter
  <1>3. model'.executed = model.executed /\ model'.orders = model.orders
    BY <1>1 DEF EnterEnd, EnterTakeProfit, Typed, ModelType
  <1>4. sm'.stopLock = sm.stopLock /\ sm'.waiting = sm.waiting
    <2>1. CASE sm' = sm
      BY <2>1
    <2>2. CASE EnterTakeProfit(t)
      <3>1. PICK b : b = (sm.lock /\ (model.amount > 0 \/ ~Head(todo[t]).price))
        OBVIOUS
      <3>2. sm' = [sm EXCEPT !.lock = b]
        BY <2>2, <3>1 DEF EnterTakeProfit
      <3> QED
        BY <1>1, <3>2 DEF Typed, FlagsType
    <2> QED
      BY <2>1, <2>2 DEF EnterEnd
  <1>5. ~Counts(Head(todo[t]))
    BY <1>2 DEF Counts
  <1> QED
    BY <1>1, <1>2, <1>3, <1>4, <1>5, GoesOnQuietly, ShortStacks DEF Quiet

\* enterStopLoss: on futures it cancels nothing.
LEMMA EnterStopLossGuards ==
    ASSUME Begun, Usual, Guard, NEW t \in Threads, EnterStopLoss(t)
    PROVE  Guard'
  <1> DEFINE again == Do("checkLossAgain")
             stop == PlaceAt("Stoploss")
  <1>1. Typed /\ Futures
    BY UsualFacts
  <1>2. /\ todo[t] # <<>> /\ Head(todo[t]).op = "move" /\ Head(todo[t]).from # "WaitForEntry"
        /\ machine' = "Stoploss" /\ UNCHANGED <<model, ord, canceling, world>>
    BY DEF EnterStopLoss, Top, Enter
  <1>3. sm'.stopLock = sm.stopLock /\ sm'.waiting = sm.waiting
    <2>1. PICK b : b = (model.amount > 0)
      OBVIOUS
    <2>2. sm' = sm \/ sm' = [sm EXCEPT !.lock = b]
      BY <2>1 DEF EnterStopLoss
    <2> QED
      BY <1>1, <2>2 DEF Typed, FlagsType
  <1>4. PICK frames \in Stacks :
           todo' = Then(t, frames) /\ \A f \in Within(frames) : f.op \notin Noted
    <2> DEFINE last == IF model.amount > 0 THEN <<stop>> ELSE <<>>
    <2>1. again \in Later /\ stop \in Later /\ again.op \notin Noted /\ stop.op \notin Noted
      BY NewFrames DEF Simple, Exits, Steps, Do, PlaceAt, Noted
    <2>2. todo' = Then(t, <<>>) \/ todo' = Then(t, <<>> \o <<again>> \o last)
      BY <1>1 DEF EnterStopLoss
    <2> HIDE DEF again, stop
    <2>3. <<>> \in Stacks /\ Within(<<>>) = {}
      BY ShortStacks
    <2>4. last \in Seq(Later) /\ \A f \in Within(last) : f = stop
      BY <2>1, ShortStacks, NewFrames
    <2> HIDE DEF last
    <2>5. PICK two : two = <<>> \o <<again>>
      OBVIOUS
    <2>6. two \in Stacks /\ \A f \in Within(two) : f = again
      BY <2>1, <2>3, <2>5, HangOne
    <2>7. PICK all : all = two \o last
      OBVIOUS
    <2>8. all \in Stacks /\ \A f \in Within(all) : f \in {again, stop}
      BY <2>4, <2>6, <2>7, Hang
    <2>9. todo' = Then(t, <<>>) \/ todo' = Then(t, all)
      BY <2>2, <2>5, <2>7
    <2> QED
      BY <2>1, <2>3, <2>8, <2>9
  <1>5. ~Counts(Head(todo[t]))
    BY <1>2 DEF Counts
  <1> QED
    BY <1>1, <1>2, <1>3, <1>4, <1>5, GoesOnQuietly DEF Quiet

\* enterStopLoss fires once more.
LEMMA CheckLossAgainGuards ==
    ASSUME Begun, Usual, Guard, NEW t \in Threads, CheckLossAgain(t)
    PROVE  Guard'
  <1> DEFINE check == IF machine \in HandlesPrices THEN CheckLoss(-1) ELSE Fail(model)
             frames == IF check.pass THEN <<Move(machine, TRUE)>> ELSE <<>>
  <1>1. Typed
    BY DEF Begun
  <1>2. /\ todo[t] # <<>> /\ Head(todo[t]).op = "checkLossAgain"
        /\ sm' = [sm EXCEPT !.lock = FALSE]
        /\ model' = check.model /\ todo' = Then(t, frames)
        /\ UNCHANGED <<machine, ord, canceling, world>>
    BY DEF CheckLossAgain, Top
  <1>3. model'.executed = model.executed /\ model'.orders = model.orders
    <2>1. KeptBy(CheckLoss(-1).model)
      BY <1>1, CheckLossFacts
    <2> QED
      BY <1>2, <2>1 DEF Fail, KeptBy
  <1>4. sm'.stopLock = sm.stopLock /\ sm'.waiting = sm.waiting
    BY <1>1, <1>2 DEF Typed, FlagsType
  <1> HIDE DEF check
  <1>5. frames \in Stacks /\ \A f \in Within(frames) : f.op \notin Noted
    <2>1. Move(machine, TRUE) \in Frames /\ Move(machine, TRUE).op \notin Noted
      BY <1>1, NewFrames DEF Typed, Move, Noted
    <2> DEFINE move == Move(machine, TRUE)
    <2> HIDE DEF move
    <2>2. /\ <<>> \in Stacks /\ Within(<<>>) = {}
          /\ <<move>> \in Stacks /\ Within(<<move>>) = {move} /\ move.op \notin Noted
      BY <2>1, ShortStacks DEF move
    <2>3. frames = <<>> \/ frames = <<move>>
      BY DEF move
    <2> HIDE DEF frames
    <2> QED
      BY <2>2, <2>3
  <1>6. ~Counts(Head(todo[t]))
    BY <1>2 DEF Counts
  <1> HIDE DEF frames
  <1> QED
    BY <1>1, <1>2, <1>3, <1>4, <1>5, <1>6, GoesOnQuietly DEF Quiet

\* The loop starts, or leaves, or somebody tests StopLock.
LEMMA LoopGuards ==
    ASSUME Begun, Usual, Guard, NEW t \in Threads,
           StartRuntime(t) \/ LeaveLoop(t) \/ StopTestsLock(t)
    PROVE  Guard'
  <1>1. Typed
    BY DEF Begun
  <1>2. /\ todo[t] # <<>> /\ Head(todo[t]).op \in {"startRuntime", "loop", "stop"}
        /\ UNCHANGED <<machine, model, sm, ord, canceling>>
        /\ world'.setup = world.setup /\ world'.pos = world.pos
    BY <1>1 DEF StartRuntime, LeaveLoop, StopTestsLock, Top, Typed, WorldType
  <1>3. \E frames \in Stacks :
           todo' = Then(t, frames) /\ \A f \in Within(frames) : f.op \notin Noted
    <2>1. /\ Do("stop") \in Later /\ Do("claimStop") \in Later
          /\ Do("stop").op \notin Noted /\ Do("claimStop").op \notin Noted
      BY NewFrames DEF Simple, Do, Noted
    <2>2. \/ todo' = Then(t, <<>>) \/ todo' = Then(t, <<Do("stop")>>)
          \/ todo' = Then(t, <<Do("claimStop")>>)
      BY DEF StartRuntime, LeaveLoop, StopTestsLock
    <2> QED
      BY <2>1, <2>2, ShortStacks, NewFrames
  <1>4. ~Counts(Head(todo[t]))
    BY <1>2 DEF Counts
  <1> QED
    BY <1>1, <1>2, <1>3, <1>4, GoesOnQuietly DEF Quiet

\* A turn of the event loop.
LEMMA FireOnPriceGuards ==
    ASSUME Begun, Usual, Guard, NEW price \in setup.prices, FireOnPrice(Loop, price)
    PROVE  Guard'
  <1> DEFINE check == IF machine = "WaitForEntry" THEN CheckWaitEntry(price)
                                                 ELSE CheckLossThenProfit(price)
             move == Move(machine, TRUE)
  <1>1. Typed /\ Loop \in Threads
    BY ThreadNames DEF Begun
  <1>2. /\ Top(Loop, "loop") /\ model' = check.model
        /\ todo' = IF check.pass THEN [todo EXCEPT ![Loop] = <<move>> \o @] ELSE todo
        /\ UNCHANGED <<machine, sm, ord, canceling, world>>
    BY DEF FireOnPrice
  <1>3. model'.executed = model.executed /\ model'.orders = model.orders
    <2>1. CheckWaitEntry(price).model = model
      BY DEF CheckWaitEntry, Pass, Fail
    <2>2. /\ CheckLossThenProfit(price).model.executed = model.executed
          /\ CheckLossThenProfit(price).model.orders = model.orders
      BY <1>1, PriceFacts
    <2> QED
      BY <1>2, <2>1, <2>2
  <1>4. Harmless => Quiet
    BY <1>2, <1>3 DEF Quiet
  <1> HIDE DEF check
  <1>5. CASE todo' = todo
    BY <1>1, <1>4, <1>5, NobodyGoes
  <1>6. CASE todo' = [todo EXCEPT ![Loop] = <<move>> \o @]
    <2>1. move \in Frames /\ move.op \notin Noted
      BY <1>1, NewFrames DEF Typed, Move, Noted
    <2> HIDE DEF move
    <2>2. Goes(Loop, {move}, {})
      BY <1>1, <1>2, <1>6, <2>1, LoopMoves
    <2>3. Harmless
      <3>1. \A x \in Threads : \A f \in Doing(x)' : f \in Doing(x) \/ f = move
        BY <1>1, <2>2 DEF Goes
      <3>2. <<move>> \in Stacks /\ \A f \in Within(<<move>>) : f.op # "loop"
        BY <2>1, ShortStacks DEF Noted
      <3>3. todo'[Loop] = <<move>> \o todo[Loop]
        BY <1>1, <1>6 DEF Typed
      <3>4. LoopLast => LoopLast'
        BY <1>1, <2>1, <3>1, <3>2, <3>3, LoopKept DEF Noted
      <3> QED
        BY <2>1, <3>1, <3>4 DEF Harmless, Noted
    <2>4. CountsStay
      <3>1. todo[Loop] \in Stacks /\ <<move>> \in Stacks
        BY <1>1, <2>1, ShortStacks DEF Typed
      <3>2. Within(todo[Loop]) \subseteq Within(<<move>> \o todo[Loop])
        BY <3>1, Joined
      <3>3. /\ todo'[Loop] = <<move>> \o todo[Loop]
            /\ \A x \in Threads \ {Loop} : todo'[x] = todo[x]
        BY <1>1, <1>6 DEF Typed
      <3> QED
        BY <3>2, <3>3 DEF CountsStay, Doing
    <2> QED
      BY <1>1, <1>4, <2>3, <2>4, QuietKeeps
  <1> QED
    BY <1>2, <1>5, <1>6

-----------------------------------------------------------------------------
(* PlaceOrder *)

\* Whoever is placing an order goes on: the rest stays.
LEMMA PlacingStays ==
    ASSUME Typed, NEW t \in Threads, todo[t] # <<>>, Head(todo[t]).op \in {"place", "answer"},
           NEW frames \in Stacks, \A f \in Within(frames) : f.op \notin Noted,
           todo' = Then(t, frames)
    PROVE  /\ Harmless /\ StopStays
           /\ Entering => Entering'
           /\ StopComes => StopComes' \/ Head(todo[t]).step = "Stoploss"
           /\ CloseComes => CloseComes' \/ Head(todo[t]).step = "Canceled"
           /\ Head(todo[t]).op = "answer" => CountsStay
  <1>1. Harmless /\ StopStays
    BY GoesOnWith DEF StopCounts
  <1>2. Stays(t)
    BY ThenStays
  <1>3. Entering => Entering'
    BY <1>2 DEF Entering, Stays
  <1>4. StopComes => StopComes' \/ Head(todo[t]).step = "Stoploss"
    BY <1>2 DEF StopComes, Stays
  <1>5. CloseComes => CloseComes' \/ Head(todo[t]).step = "Canceled"
    BY <1>2 DEF CloseComes, Closes, Stays
  <1>6. Head(todo[t]).op = "answer" => CountsStay
    BY <1>2 DEF CountsStay, Counts, Stays
  <1> QED
    BY <1>1, <1>3, <1>4, <1>5, <1>6

\* A closing order is left out when all is sold or one was placed already, a stop when
\* all is sold.
LEMMA SkipOrderGuards ==
    ASSUME Begun, Usual, Guard, Left, NEW t \in Threads, SkipOrder(t)
    PROVE  Guard'
  <1> DEFINE f == Head(todo[t])
  <1>1. /\ Typed /\ Futures /\ Amount \in Nat /\ model.executed \in Int /\ world.pos \in Int
    BY UsualFacts
  <1>2. /\ todo[t] # <<>> /\ f.op = "place" /\ Skipped(f) /\ todo' = Then(t, <<>>)
        /\ UNCHANGED <<machine, model, sm, ord, canceling, world>>
    BY DEF SkipOrder, Top
  <1>3. /\ Harmless /\ StopStays /\ (Entering => Entering')
        /\ StopComes => StopComes' \/ f.step = "Stoploss"
        /\ CloseComes => CloseComes' \/ f.step = "Canceled"
    BY <1>1, <1>2, PlacingStays, ShortStacks
  <1> HIDE DEF f
  <1>4. /\ Cover' => Guard'
        /\ Untold => Untold'
        /\ (\E k \in DOMAIN ord : Protector(k)) => (\E k \in DOMAIN ord : Protector(k))'
        /\ world'.pos = world.pos
    BY <1>1, <1>2, <1>3, QuietRest DEF Quiet
  <1>5. ASSUME world.pos > 0
        PROVE  Covered'
    <2>1. model.executed < Amount
      BY <1>1, <1>5 DEF Left
    <2>2. Covered
      BY <1>5 DEF Guard, Cover
    <2>3. f.step # "Stoploss"
      BY <1>1, <1>2, <2>1 DEF Skipped
    <2>4. ASSUME f.step = "Canceled"
          PROVE  Untold \/ Entering \/ \E k \in DOMAIN ord : Protector(k)
      <3>1. machine = "WaitForEntry" \/ machine = "End" \/ "Canceled" \in sm.waiting
        BY <1>1, <1>2, <2>1, <2>4 DEF Skipped, NoEntryToExit
      <3>2. machine # "End"
        BY <1>1, <2>1 DEF Begun, Ends
      <3>3. machine = "WaitForEntry" => Untold \/ Entering
        BY <1>1, <2>1 DEF Guard, Enters
      <3>4. "Canceled" \in sm.waiting => \E k \in DOMAIN ord : Protector(k)
        BY <1>1, <1>5 DEF Guard, Asks, Protectors, Protector
      <3> QED
        BY <3>1, <3>2, <3>3, <3>4
    <2> QED
      BY <1>3, <1>4, <2>2, <2>3, <2>4 DEF Covered
  <1> QED
    BY <1>4, <1>5 DEF Cover

\* The next exit level is placed, or nothing.
LEMMA NextTargetStacks ==
    ASSUME Typed, NEW t, NEW step, NEW flags \in FlagsType, AndNextTarget(t, step, flags)
    PROVE  /\ \E frames \in Stacks :
                 todo' = Then(t, frames) /\ \A f \in Within(frames) : f.op \notin Noted
           /\ sm'.waiting = flags.waiting /\ sm'.stopLock = flags.stopLock
  <1>1. /\ <<>> \in Stacks /\ Within(<<>>) = {} /\ <<Place("TakeProfit")>> \in Stacks
        /\ Within(<<Place("TakeProfit")>>) = {Place("TakeProfit")}
    BY ShortStacks, NewFrames DEF Exits, Steps
  <1>2. Place("TakeProfit").op \notin Noted
    BY DEF Place, Noted
  <1>3. todo' = Then(t, <<>>) \/ todo' = Then(t, <<Place("TakeProfit")>>)
    BY DEF AndNextTarget
  <1>4. sm'.waiting = flags.waiting /\ sm'.stopLock = flags.stopLock
    <2>1. PICK n : n = IF step = "TakeProfit" /\ flags.target + 1 < Len(Targets)
                       THEN flags.target + 1 ELSE flags.target
      OBVIOUS
    <2>2. sm' = [flags EXCEPT !.target = n]
      BY <2>1 DEF AndNextTarget
    <2> QED
      BY <2>2 DEF FlagsType
  <1> QED
    BY <1>1, <1>2, <1>3, <1>4

\* An order that is refused had nothing left to close.
LEMMA RejectGuards ==
    ASSUME Begun, Usual, Guard, Left, NEW t \in Threads, RejectReduceOnly(t) \/ RejectOrder(t)
    PROVE  Guard'
  <1> DEFINE step == Request(t).step
  <1>1. /\ Typed /\ setup.errors = 0 /\ Amount \in Nat /\ model.executed \in Int
        /\ world.pos \in Int /\ world.pos >= 0 /\ world \in WorldType /\ sm \in FlagsType
        /\ model \in ModelType
    BY UsualFacts DEF Typed
  <1>2. /\ todo[t] # <<>> /\ step \in Steps /\ step = Head(todo[t]).step
        /\ Head(todo[t]).op = "place"
    <2>1. Sending(t)
      BY DEF RejectReduceOnly, RejectOrder
    <2>2. /\ todo[t] # <<>> /\ step \in Steps /\ step = Head(todo[t]).step
          /\ Head(todo[t]).op \in {"place", "send"}
      BY <2>1, RequestFacts DEF Sending
    <2>3. Head(todo[t]).op # "send"
      BY <2>2, TopFacts DEF Allowed, UsualWork
    <2> QED
      BY <2>2, <2>3
  <1>3. world.pos = 0
    <2>1. CASE RejectReduceOnly(t)
      BY <2>1 DEF RejectReduceOnly
    <2>2. CASE RejectOrder(t)
      <3>1. Request(t).qty \in Int
        BY <2>2, RequestFacts DEF RejectOrder
      <3>2. ~(world.errors < setup.errors)
        BY <1>1 DEF WorldType
      <3>3. model.executed >= Amount
        BY <2>2, <3>1, <3>2, RequestFacts DEF RejectOrder
      <3> QED
        BY <1>1, <3>3 DEF Left
    <2> QED
      BY <2>1, <2>2
  <1>4. PICK flags \in FlagsType : /\ AndNextTarget(t, step, flags)
                                   /\ flags.waiting \cap {"Canceled"} \subseteq sm.waiting
                                   /\ flags.stopLock = sm.stopLock
    <2>1. CASE RejectReduceOnly(t)
      BY <1>1, <2>1 DEF RejectReduceOnly
    <2>2. CASE RejectOrder(t)
      <3>1. AndNextTarget(t, step, Requested(step))
        BY <2>2 DEF RejectOrder
      <3>2. /\ Requested(step) \in FlagsType /\ Requested(step).stopLock = sm.stopLock
            /\ Requested(step).waiting \cap {"Canceled"} \subseteq sm.waiting
        <4> HIDE DEF step
        <4> QED
          BY <1>1, <1>2 DEF Requested, FlagsType, Steps
      <3> QED
        BY <3>1, <3>2
    <2> QED
      BY <2>1, <2>2
  <1>5. /\ UNCHANGED <<machine, ord, canceling>>
        /\ model'.executed = model.executed /\ model'.orders = model.orders
        /\ world'.pos = world.pos /\ world'.setup = world.setup
    BY <1>1 DEF RejectReduceOnly, RejectOrder, ModelType, WorldType
  <1> HIDE DEF step
  <1>6. /\ sm'.waiting = flags.waiting /\ sm'.stopLock = sm.stopLock
        /\ \E frames \in Stacks :
              todo' = Then(t, frames) /\ \A f \in Within(frames) : f.op \notin Noted
    BY <1>1, <1>4, NextTargetStacks
  <1>7. Harmless /\ StopStays /\ (Entering => Entering')
    BY <1>1, <1>2, <1>6, PlacingStays
  <1>8. Cover' => Guard'
    BY <1>1, <1>4, <1>5, <1>6, <1>7, QuietRest DEF Quiet
  <1> QED
    BY <1>3, <1>5, <1>8 DEF Cover

\* PlaceOrder's order is taken: a stop, or closing order, that was to come is there.
LEMMA AcceptOrderGuards ==
    ASSUME Begun, Usual, Guard, Left, NEW t \in Threads, AcceptOrder(t)
    PROVE  Guard'
  <1> DEFINE f == Head(todo[t])
             new == Len(ord) + 1
             o == [step |-> Request(t).step, qty |-> Request(t).qty, got |-> 0,
                   status |-> "open", known |-> FALSE, told |-> FALSE]
  <1>1. /\ Typed /\ Futures /\ Amount \in Nat /\ model.executed \in Int /\ world.pos \in Int
        /\ sm \in FlagsType
    BY UsualFacts DEF Typed
  <1>2. /\ Sending(t) /\ ord' = Append(ord, o)
        /\ todo' = Then(t, <<[op |-> "answer", order |-> new]>>)
        /\ sm' = Requested(Request(t).step) /\ UNCHANGED <<machine, model, canceling, world>>
        /\ Len(ord) < setup.orders
    BY DEF AcceptOrder
  <1>3. /\ todo[t] # <<>> /\ f.op = "place" /\ ~Skipped(f)
        /\ Request(t).step = f.step /\ Request(t).qty = Quantity(f.step)
        /\ f.step \in Steps
    <2>1. todo[t] # <<>> /\ Head(todo[t]).op \in {"place", "send"}
      BY <1>2 DEF Sending
    <2>2. Head(todo[t]).op # "send"
      BY <2>1, TopFacts DEF Allowed, UsualWork
    <2>3. Request(t).step \in Steps
      BY <1>2, RequestFacts
    <2> QED
      BY <1>2, <2>1, <2>2, <2>3 DEF Sending, Request
  <1>4. /\ Len(ord) \in Nat /\ DOMAIN ord = 1 .. Len(ord) /\ DOMAIN ord' = 1 .. new
        /\ ord'[new] = o /\ \A k \in DOMAIN ord : ord'[k] = ord[k]
        /\ new \in DOMAIN ord' /\ new \notin canceling /\ new \notin DOMAIN ord
        /\ DOMAIN ord \subseteq DOMAIN ord'
    <2>1. ord \in Seq(OrderType) /\ canceling \subseteq DOMAIN ord
      BY <1>1 DEF Typed
    <2> HIDE DEF o
    <2> QED
      BY <1>2, <2>1
  <1>5. /\ sm'.stopLock = sm.stopLock /\ sm'.waiting \cap {"Canceled"} \subseteq sm.waiting
    BY <1>1, <1>2, <1>3 DEF Requested, FlagsType
  <1>6. /\ Harmless /\ StopStays /\ (Entering => Entering')
        /\ StopComes => StopComes' \/ f.step = "Stoploss"
        /\ CloseComes => CloseComes' \/ f.step = "Canceled"
    <2> DEFINE a == [op |-> "answer", order |-> new]
    <2>1. a \in Frames /\ a.op \notin Noted
      <3>1. new \in OrderIds
        BY <1>1, <1>2, <1>4, SetupFacts DEF Typed
      <3> QED
        BY <3>1, NewFrames DEF Noted
    <2> HIDE DEF a
    <2>2. <<a>> \in Stacks /\ Within(<<a>>) = {a}
      BY <2>1, ShortStacks
    <2>3. todo' = Then(t, <<a>>)
      BY <1>2 DEF a
    <2> QED
      BY <1>1, <1>3, <2>1, <2>2, <2>3, PlacingStays
  <1> HIDE DEF f, new
  <1>7. Amount' = Amount
    BY <1>2, SameSetup
  <1>8. Framed' /\ Locked' /\ Swept'
    BY <1>1, <1>2, <1>5, <1>6, <1>7, StopKept
  <1>9. o.step = f.step /\ o.status = "open" /\ ~o.told /\ o.qty = Quantity(f.step)
    BY <1>3
  <1> HIDE DEF o
  <1>10. Untold => Untold'
    <2>1. \A k \in DOMAIN ord' : k \in DOMAIN ord \/ k = new
      BY <1>4 DEF new
    <2> QED
      BY <1>4, <1>9, <2>1 DEF Untold, IsEntry
  <1>11. Asks'
    BY <1>4, <1>5 DEF Guard, Asks
  <1>12. Protectors'
    <2>1. \A k \in DOMAIN ord' : k \in DOMAIN ord \/ k = new
      BY <1>4 DEF new
    <2>2. f.step = "Canceled" => o.qty = Amount
      <3>1. machine = "WaitForEntry" => model.amount = 0
        BY DEF Begun, Ends
      <3> QED
        BY <1>3, <1>9, <3>1 DEF Skipped, NoEntryToExit, Quantity
    <2>3. f.step = "Stoploss" => o.qty >= Amount - model.executed
      BY <1>1, <1>9 DEF Quantity
    <2>4. /\ canceling \subseteq DOMAIN ord
          /\ \A i \in DOMAIN model.orders : model.orders[i] \in DOMAIN ord
      BY <1>1 DEF Typed
    <2> QED
      BY <1>2, <1>4, <1>7, <1>9, <2>1, <2>2, <2>3, <2>4 DEF Guard, Protectors
  <1>13. Enters'
    BY <1>2, <1>6, <1>7, <1>10 DEF Guard, Enters
  <1>14. Cover'
    <2>1. (\E k \in DOMAIN ord : Protector(k)) => (\E k \in DOMAIN ord : Protector(k))'
      BY <1>2, <1>4 DEF Protector
    <2>2. f.step \in {"Stoploss", "Canceled"} => (\E k \in DOMAIN ord : Protector(k))'
      BY <1>2, <1>4, <1>9 DEF Protector
    <2> QED
      BY <1>2, <1>6, <1>10, <2>1, <2>2 DEF Guard, Cover, Covered
  <1> QED
    BY <1>8, <1>11, <1>12, <1>13, <1>14 DEF Guard

\* PlaceOrder learns the id of its order: that of a closing order is in no list.
LEMMA AnswerGuards ==
    ASSUME Begun, Usual, Guard, NEW t \in Threads, Answer(t)
    PROVE  Guard'
  <1> DEFINE k == Head(todo[t]).order
             step == ord[k].step
             flags == [sm EXCEPT !.waiting = @ \cup {step}]
  <1>1. /\ Typed /\ Amount \in Nat /\ model.executed \in Int /\ sm \in FlagsType
        /\ model \in ModelType /\ model.orders \in Seq(OrderIds)
    BY UsualFacts DEF Typed, ModelType
  <1>2. /\ todo[t] # <<>> /\ Head(todo[t]).op = "answer" /\ k \in DOMAIN ord /\ k \in OrderIds
    BY TopFacts, FrameFacts DEF Answer, Top, Allowed
  <1>3. /\ ord' = [ord EXCEPT ![k].known = TRUE]
        /\ model' = IF step = "Canceled" THEN model
                                         ELSE [model EXCEPT !.orders = Append(@, k)]
        /\ AndNextTarget(t, step, flags)
        /\ UNCHANGED <<machine, canceling, world>>
    BY DEF Answer
  <1> HIDE DEF k
  <1>4. /\ DOMAIN ord' = DOMAIN ord /\ step \in Steps
        /\ \A j \in DOMAIN ord :
              /\ ord'[j].step = ord[j].step /\ ord'[j].qty = ord[j].qty
              /\ ord'[j].status = ord[j].status /\ ord'[j].told = ord[j].told
    <2>1. ord[k] \in OrderType
      BY <1>1, <1>2 DEF Typed
    <2>2. [ord[k] EXCEPT !.known = TRUE] \in OrderType
      BY <2>1 DEF OrderType
    <2>3. /\ DOMAIN ord' = DOMAIN ord /\ ord'[k] = [ord[k] EXCEPT !.known = TRUE]
          /\ \A j \in DOMAIN ord : j # k => ord'[j] = ord[j]
      BY <1>1, <1>2, <1>3, <2>2, OneOrder
    <2> QED
      BY <2>1, <2>3 DEF OrderType
  <1> HIDE DEF step
  <1>5. /\ flags \in FlagsType /\ flags.waiting = sm.waiting \cup {step}
        /\ flags.stopLock = sm.stopLock
    BY <1>1, <1>4 DEF FlagsType
  <1> HIDE DEF flags
  <1>6. /\ sm'.waiting = sm.waiting \cup {step} /\ sm'.stopLock = sm.stopLock
        /\ \E frames \in Stacks :
              todo' = Then(t, frames) /\ \A f \in Within(frames) : f.op \notin Noted
    BY <1>1, <1>3, <1>5, NextTargetStacks
  <1>7. Harmless /\ CountsStay
    BY <1>1, <1>2, <1>6, PlacingStays
  <1>8. /\ StopStays /\ (Entering => Entering') /\ (StopComes => StopComes')
        /\ (CloseComes => CloseComes')
    BY <1>7, ComersStay
  <1>9. /\ model'.executed = model.executed
        /\ \A i \in DOMAIN model'.orders : \/ step # "Canceled" /\ model'.orders[i] = k
                                           \/ /\ i \in DOMAIN model.orders
                                              /\ model'.orders[i] = model.orders[i]
    <2>1. CASE step = "Canceled"
      BY <1>3, <2>1
    <2>2. CASE step # "Canceled"
      <3>1. PICK s : s = Append(model.orders, k)
        OBVIOUS
      <3>2. \A i \in DOMAIN s : s[i] = k \/ (i \in DOMAIN model.orders /\ s[i] = model.orders[i])
        BY <1>1, <3>1
      <3>3. model' = [model EXCEPT !.orders = s]
        BY <1>3, <2>2, <3>1
      <3> QED
        BY <1>1, <2>2, <3>2, <3>3 DEF ModelType
    <2> QED
      BY <2>1, <2>2
  <1>10. Amount' = Amount
    BY <1>3, SameSetup
  <1>11. Framed' /\ Locked' /\ Swept'
    BY <1>1, <1>6, <1>7, <1>8, <1>9, <1>10, StopKept
  <1>12. Untold' <=> Untold
    BY <1>4 DEF Untold, IsEntry
  <1>13. Asks'
    BY <1>2, <1>4, <1>6 DEF Guard, Asks, step
  <1>14. Protectors'
    <2>1. /\ canceling \subseteq DOMAIN ord
          /\ \A i \in DOMAIN model.orders : model.orders[i] \in DOMAIN ord
      BY <1>1 DEF Typed
    <2>2. \A i \in DOMAIN model'.orders : ord'[model'.orders[i]].step # "Canceled"
      BY <1>2, <1>4, <1>9, <2>1 DEF Guard, Protectors, step
    <2> QED
      BY <1>3, <1>4, <1>9, <1>10, <2>1, <2>2 DEF Guard, Protectors
  <1>15. Enters'
    BY <1>3, <1>8, <1>9, <1>10, <1>12 DEF Guard, Enters
  <1>16. Cover'
    <2>1. (\E j \in DOMAIN ord : Protector(j)) => (\E j \in DOMAIN ord : Protector(j))'
      BY <1>3, <1>4 DEF Protector
    <2> QED
      BY <1>3, <1>8, <1>12, <2>1 DEF Guard, Cover, Covered
  <1> QED
    BY <1>11, <1>13, <1>14, <1>15, <1>16 DEF Guard


-----------------------------------------------------------------------------
(* The entry *)

\* enterEntry: the stops are about to be placed.
LEMMA EnterEntryGuards ==
    ASSUME Begun, Usual, Guard, NEW t \in Threads, EnterEntry(t)
    PROVE  Guard'
  <1> DEFINE first == Place("TakeProfit")
             next == Do("goStops")
             frames == <<first, next>>
  <1>1. Typed /\ Futures
    BY UsualFacts
  <1>2. /\ todo[t] # <<>> /\ Head(todo[t]).op = "move" /\ todo' = Then(t, frames)
        /\ machine' = "InEntry" /\ UNCHANGED <<ord, canceling, world, sm>>
    BY <1>1 DEF EnterEntry, Top, Enter
  <1>3. model'.executed = model.executed /\ model'.orders = model.orders
    <2>1. PICK b : b = (model.entered \/ Head(todo[t]).price)
      OBVIOUS
    <2>2. model' = [model EXCEPT !.state = "InEntry", !.entered = b]
      BY <2>1 DEF EnterEntry
    <2> QED
      BY <1>1, <2>2 DEF Typed, ModelType
  <1>4. frames \in Stacks /\ Within(frames) = {first, next}
    <2>1. first \in Frames /\ next \in Later
      BY NewFrames DEF Exits, Steps, Simple
    <2> HIDE DEF first, next
    <2> QED
      BY <2>1, ShortStacks
  <1>5. first.op \notin Noted /\ next.op \notin Noted /\ next.op = "goStops"
    BY DEF Noted, Place, Do
  <1>6. ~StopCounts(Head(todo[t]))
    BY <1>2 DEF StopCounts
  <1> HIDE DEF first, next, frames
  <1>7. Harmless /\ StopStays /\ Within(frames) \subseteq Doing(t)'
    BY <1>1, <1>2, <1>4, <1>5, <1>6, GoesOnWith
  <1>8. Cover' => Guard'
    BY <1>1, <1>2, <1>3, <1>7, QuietRest DEF Quiet
  <1>9. StopComes'
    <2>1. next \in Doing(t)'
      BY <1>4, <1>7
    <2> QED
      BY <1>5, <2>1 DEF StopComes
  <1> QED
    BY <1>8, <1>9 DEF Cover, Covered

\* The stops are given to goroutines of their own.
LEMMA GoPlaceStopsGuards ==
    ASSUME Begun, Usual, Guard, NEW t \in Threads, GoPlaceStops(t)
    PROVE  Guard'
  <1> DEFINE one == Place("Stoploss")
             two == Place("ForcedLoss")
  <1>0. PICK stop, forced : /\ stop = <<"Stoploss", model.iteration>>
                            /\ forced = <<"ForcedLoss", model.iteration>>
    OBVIOUS
  <1>1. /\ Typed /\ todo[t] # <<>> /\ Head(todo[t]).op = "goStops" /\ todo[t] \in Stacks
        /\ Tail(todo[t]) \in Stacks
        /\ UNCHANGED <<machine, model, ord, canceling, world, sm>>
    BY Rest DEF GoPlaceStops, Top, Begun, Typed
  <1>2. stop \in Threads /\ forced \in Threads /\ stop # forced
    BY <1>0, <1>1, ThreadNames DEF Typed, ModelType
  <1>3. one \in Later /\ two \in Later /\ one.op = "place" /\ one.step = "Stoploss"
        /\ two.op = "place"
    BY NewFrames DEF Exits, Steps, Place
  <1>4. PICK mid, both :
           /\ mid = Then(t, <<>>)
           /\ both = [mid EXCEPT ![stop] = @ \o <<one>>]
           /\ todo' = [both EXCEPT ![forced] = IF setup.forcedLoss THEN @ \o <<two>> ELSE @]
    BY <1>0 DEF GoPlaceStops, ThenGo
  <1> HIDE DEF one, two
  <1>5. /\ mid \in [Threads -> Stacks] /\ mid[t] = <<>> \o Tail(todo[t])
        /\ \A x \in Threads \ {t} : mid[x] = todo[x]
    <2>1. <<>> \o Tail(todo[t]) \in Stacks
      BY <1>1, DropFirst
    <2> QED
      BY <1>1, <1>4, <2>1 DEF Then, Typed
  <1>6. /\ both \in [Threads -> Stacks] /\ both[stop] = mid[stop] \o <<one>>
        /\ \A x \in Threads \ {stop} : both[x] = mid[x]
    <2>1. mid[stop] \o <<one>> \in Stacks
      BY <1>2, <1>3, <1>5, HangOne
    <2> QED
      BY <1>2, <1>4, <1>5, <2>1
  <1>7. /\ todo'[forced] = IF setup.forcedLoss THEN both[forced] \o <<two>> ELSE both[forced]
        /\ \A x \in Threads \ {forced} : todo'[x] = both[x]
    BY <1>2, <1>4, <1>6
  <1>8. /\ \A f \in Within(todo[t]) : f = Head(todo[t]) \/ f \in Within(mid[t])
        /\ \A f \in Within(mid[t]) : f \in Within(todo[t])
    <2>1. <<>> \in Stacks
      BY ShortStacks
    <2>2. Within(Tail(todo[t])) \subseteq Within(mid[t])
      BY <1>1, <1>5, <2>1, Joined
    <2> QED
      BY <1>1, <1>5, <2>2, Joined, DropFirst
  <1>9. /\ Within(mid[stop]) \cup {one} \subseteq Within(both[stop])
        /\ \A f \in Within(both[stop]) : f \in Within(mid[stop]) \/ f = one
    <2>1. mid[stop] \in Stacks /\ <<one>> \in Stacks /\ Within(<<one>>) = {one}
      BY <1>2, <1>3, <1>5, ShortStacks, NewFrames
    <2> QED
      BY <1>3, <1>6, <2>1, HangOne, Joined
  <1>10. /\ Within(both[forced]) \subseteq Within(todo'[forced])
         /\ \A f \in Within(todo'[forced]) : f \in Within(both[forced]) \/ f = two
    <2>1. both[forced] \in Stacks /\ <<two>> \in Stacks
      BY <1>2, <1>3, <1>6, ShortStacks, NewFrames
    <2> QED
      BY <1>3, <1>7, <2>1, HangOne, Joined
  <1>11. \A x \in Threads : \A f \in Doing(x) : f \in Doing(x)' \/ (x = t /\ f = Head(todo[t]))
    <2>1. \A x \in Threads : \A f \in Within(todo[x]) :
             f \in Within(mid[x]) \/ (x = t /\ f = Head(todo[t]))
      BY <1>5, <1>8
    <2>2. \A x \in Threads : Within(mid[x]) \subseteq Within(both[x])
      BY <1>6, <1>9
    <2>3. \A x \in Threads : Within(both[x]) \subseteq Within(todo'[x])
      BY <1>7, <1>10
    <2> QED
      BY <2>1, <2>2, <2>3 DEF Doing
  <1>12. \A x \in Threads : \A f \in Doing(x)' : f \in Doing(x) \/ f \in {one, two}
    <2>1. \A x \in Threads : \A f \in Within(mid[x]) : f \in Within(todo[x])
      BY <1>5, <1>8
    <2>2. \A x \in Threads : \A f \in Within(both[x]) : f \in Within(mid[x]) \/ f = one
      BY <1>6, <1>9
    <2>3. \A x \in Threads : \A f \in Within(todo'[x]) : f \in Within(both[x]) \/ f = two
      BY <1>7, <1>10
    <2> QED
      BY <2>1, <2>2, <2>3 DEF Doing
  <1>13. Harmless
    <2>1. todo'[Loop] = mid[Loop] /\ (t = Loop => mid[Loop] = <<>> \o Tail(todo[Loop]))
      BY <1>0, <1>5, <1>6, <1>7, ThreadNames DEF Loop
    <2>2. LoopLast => LoopLast'
      BY <1>1, <1>3, <1>5, <1>12, <2>1, LoopKept, ShortStacks, ThreadNames
    <2> QED
      BY <1>3, <1>12, <2>2 DEF Harmless
  <1>14. StopStays /\ (Entering => Entering')
    BY <1>1, <1>11 DEF StopStays, StopCounts, Entering
  <1>15. Cover' => Guard'
    BY <1>1, <1>13, <1>14, QuietRest DEF Quiet
  <1>16. StopComes'
    <2>1. one \in Doing(stop)'
      BY <1>2, <1>7, <1>9 DEF Doing
    <2> QED
      BY <1>2, <1>3, <2>1 DEF StopComes
  <1> QED
    BY <1>15, <1>16 DEF Cover, Covered

-----------------------------------------------------------------------------
(* Stop *)

\* The part of the guard that Stop's steps keep.
LEMMA StopRest ==
    ASSUME Typed, Guard, UNCHANGED <<machine, model, ord>>,
           canceling' \in {canceling, TryCancelAllOrders},
           world'.setup = world.setup, world'.pos = world.pos, sm'.waiting = sm.waiting,
           Framed', Locked', Swept', Entering => Entering', Cover'
    PROVE  Guard'
  <1>1. Amount' = Amount
    BY SameSetup
  <1>2. Asks'
    BY DEF Guard, Asks
  <1>3. \A k \in canceling' : ord[k].step # "Canceled"
    BY DEF Guard, Protectors, TryCancelAllOrders, Known
  <1>4. Protectors'
    BY <1>1, <1>3 DEF Guard, Protectors
  <1>5. Untold' <=> Untold
    BY DEF Untold, IsEntry
  <1>6. Enters'
    BY <1>1, <1>5 DEF Guard, Enters
  <1> QED
    BY <1>2, <1>4, <1>6 DEF Guard

\* Somebody else is stopping: he will close the position.
LEMMA StopIsTakenGuards ==
    ASSUME Begun, Usual, Guard, Left, NEW t \in Threads, StopIsTaken(t)
    PROVE  Guard'
  <1>1. /\ Typed /\ Amount \in Nat /\ model.executed \in Int /\ world.pos \in Int
        /\ world \in WorldType
    BY UsualFacts DEF Typed
  <1>2. /\ todo[t] # <<>> /\ Head(todo[t]).op = "stop" /\ todo' = Then(t, <<>>)
        /\ UNCHANGED <<machine, model, sm, ord>> /\ canceling' = TryCancelAllOrders /\ sm.stopLock
        /\ world'.setup = world.setup /\ world'.pos = world.pos
    BY <1>1 DEF StopIsTaken, Top, WorldType
  <1>3. Harmless /\ CountsStay
    BY <1>1, <1>2, GoesOnWith, ShortStacks DEF Counts
  <1>4. StopStays /\ (Entering => Entering') /\ (CloseComes => CloseComes')
    BY <1>3, ComersStay
  <1>5. Framed' /\ Locked' /\ Swept'
    BY <1>1, <1>2, <1>3, <1>4, SameSetup, StopKept
  <1>6. Cover'
    <2>1. Stopping
      BY <1>2 DEF Guard, Locked
    <2>2. CloseComes \/ model.executed >= Amount
      BY <2>1, Stoppers DEF Stopping, CloseComes, Closes, Guard, Framed
    <2>3. model.executed >= Amount => ~(world'.pos > 0)
      BY <1>1, <1>2 DEF Left
    <2> QED
      BY <1>4, <2>2, <2>3 DEF Cover, Covered
  <1> QED
    BY <1>1, <1>2, <1>4, <1>5, <1>6, StopRest

\* Each goroutine that stops has late helpers of its own.
LEMMA OneStopper ==
    ASSUME NEW t \in {Loop, Watch}
    PROVE  /\ t[2] \in {1, 2} /\ Stopper(t[2]) = t /\ t \in Threads
           /\ <<"sweep", t[2]>> \in Threads \ {t} /\ <<"late", t[2]>> \in Threads \ {t}
           /\ <<"sweep", t[2]>> # <<"late", t[2]>>
           /\ \A j \in {1, 2} \ {t[2]} : /\ Stopper(j) \in Threads \ {t}
                                         /\ <<"late", j>> \in Threads \ {t, <<"late", t[2]>>}
                                         /\ <<"sweep", j>> \in Threads \ {t, <<"sweep", t[2]>>}
                                         /\ Stopper(j) \notin {<<"sweep", t[2]>>, <<"late", t[2]>>}
  <1>1. t = Loop \/ t = Watch
    OBVIOUS
  <1>2. /\ Loop = <<"loop", 1>> /\ Watch = <<"watch", 2>>
        /\ \A i \in {1, 2} : <<"sweep", i>> # Loop /\ <<"sweep", i>> # Watch
                             /\ <<"late", i>> # Loop /\ <<"late", i>> # Watch
                             /\ <<"sweep", i>> # <<"late", 1>> /\ <<"sweep", i>> # <<"late", 2>>
        /\ <<"sweep", 1>> # <<"sweep", 2>> /\ <<"late", 1>> # <<"late", 2>>
    BY DEF Loop, Watch
  <1>3. CASE t = Loop
    BY <1>2, <1>3, ThreadNames DEF Stopper
  <1>4. CASE t = Watch
    BY <1>2, <1>4, ThreadNames DEF Stopper
  <1> QED
    BY <1>1, <1>3, <1>4

\* Stop cancels, will cancel once more, and is about to close the position.
LEMMA StopClaimsLockGuards ==
    ASSUME Begun, Usual, Guard, NEW t \in {Loop, Watch}, StopClaimsLock(t)
    PROVE  Guard'
  <1>0. PICK place, sweep, i : /\ place = [op |-> "stopPlaces", state |-> machine]
                               /\ sweep = <<"sweep", t[2]>> /\ i = t[2]
    OBVIOUS
  <1>1. Typed /\ Futures
    BY UsualFacts
  <1>2. /\ i \in {1, 2} /\ Stopper(i) = t /\ t \in Threads /\ sweep \in Threads \ {t}
        /\ \A j \in {1, 2} \ {i} : /\ Stopper(j) \in Threads \ {t, sweep}
                                   /\ <<"late", j>> \in Threads \ {t}
                                   /\ <<"sweep", j>> \in Threads \ {t, sweep}
    BY <1>0, OneStopper
  <1>3. /\ todo[t] # <<>> /\ Head(todo[t]).op = "claimStop"
        /\ todo' = ThenGo(t, <<place>>, sweep, <<Do("sweep")>>)
        /\ canceling' = TryCancelAllOrders
        /\ UNCHANGED <<machine, model, ord, world>> /\ sm'.waiting = sm.waiting
    <2>1. sm' = [sm EXCEPT !.stopLock = TRUE] /\ sm \in FlagsType
      BY <1>1 DEF StopClaimsLock, Typed
    <2> QED
      BY <1>0, <1>1, <2>1 DEF StopClaimsLock, Top, FlagsType
  <1>4. /\ place \in Later /\ place.op = "stopPlaces" /\ place.state = machine
        /\ Do("sweep") \in Later /\ Do("sweep").op = "sweep"
    BY <1>0, <1>1, NewFrames DEF Typed, Simple, Do
  <1>5. /\ <<place>> \in Stacks /\ Within(<<place>>) = {place}
        /\ <<Do("sweep")>> \in Stacks /\ <<Do("sweep")>> \in Seq(Later)
        /\ Within(<<Do("sweep")>>) = {Do("sweep")}
    BY <1>4, ShortStacks, NewFrames
  <1>6. /\ Stays(t) /\ place \in Doing(t)'
        /\ \A x \in Threads \ {t, sweep} : Doing(x)' = Doing(x)
        /\ \A f \in Doing(t)' : f = place \/ f \in Doing(t)
    BY <1>1, <1>2, <1>3, <1>5, ThenGoStays
  <1>7. \A x \in Threads : \A f \in Doing(x)' :
           f \in Doing(x) \/ f = place \/ f = Do("sweep")
    BY <1>1, <1>2, <1>3, <1>5, ThenGoGoes DEF Goes, Typed
  <1>8. StopStays /\ (Entering => Entering')
    BY <1>3, <1>6 DEF Stays, StopStays, StopCounts, Entering
  <1>9. Amount' = Amount
    BY <1>3, SameSetup
  <1>10. Framed'
    <2>1. machine = "End" => model.executed >= Amount
      BY DEF Begun, Ends
    <2>2. sweep # Loop
      BY <1>0 DEF Loop
    <2>3. LoopLast'
      BY <1>1, <1>2, <1>3, <1>4, <1>5, <2>2, LoopStaysToo DEF Guard, Framed
    <2> QED
      BY <1>3, <1>4, <1>7, <1>9, <2>1, <2>3 DEF Guard, Framed
  <1>11. Locked'
    BY <1>2, <1>4, <1>6 DEF Locked, Stopping
  <1>12. Swept'
    <2>1. Returns(i)'
      <3>1. place \in Doing(Stopper(i))'
        BY <1>2, <1>6
      <3> QED
        BY <1>4, <3>1 DEF Returns
    <2>2. ASSUME NEW j \in {1, 2} \ {i}, NEW f \in Doing(<<"sweep", j>>)', f.op = "sweep"
          PROVE  Returns(j)' \/ model.executed >= Amount
      <3>1. f \in Doing(<<"sweep", j>>)
        BY <1>2, <1>6, <2>2
      <3> QED
        BY <1>8, <2>2, <3>1, StoppingStays DEF Guard, Swept
    <2> QED
      BY <1>3, <1>9, <2>1, <2>2 DEF Swept
  <1>13. CloseComes'
    BY <1>2, <1>4, <1>6 DEF CloseComes, Closes
  <1>14. Cover'
    BY <1>13 DEF Cover, Covered
  <1> QED
    BY <1>1, <1>3, <1>8, <1>10, <1>11, <1>12, <1>14, StopRest

\* Stop is about to place the closing order, unless all is sold.
LEMMA StopPlacesCanceledGuards ==
    ASSUME Begun, Usual, Guard, Left, NEW t \in {Loop, Watch}, StopPlacesCanceled(t)
    PROVE  Guard'
  <1>0. PICK open, timeout, i :
           /\ open \in BOOLEAN /\ timeout \in BOOLEAN
           /\ open <=> Head(todo[t]).state # "End" /\ model.state # "Timeout"
           /\ timeout <=> Head(todo[t]).state = "Timeout" \/ model.state = "Timeout"
           /\ i = t[2]
    OBVIOUS
  <1>1. PICK finish, close : /\ finish = [op |-> "finishStop", late |-> open, timeout |-> timeout]
                             /\ close = Place("Canceled")
    OBVIOUS
  <1>2. /\ Typed /\ ~setup.entryTimeout /\ Amount \in Nat /\ model.executed \in Int
        /\ world.pos \in Int
    BY UsualFacts
  <1>3. /\ i \in {1, 2} /\ Stopper(i) = t /\ t \in Threads
        /\ \A j \in {1, 2} \ {i} : /\ Stopper(j) \in Threads \ {t}
                                   /\ <<"late", j>> \in Threads \ {t}
                                   /\ <<"sweep", j>> \in Threads \ {t}
    BY <1>0, OneStopper
  <1>4. /\ todo[t] # <<>> /\ Head(todo[t]).op = "stopPlaces"
        /\ UNCHANGED <<machine, model, sm, ord, canceling, world>>
        /\ todo' = Then(t, IF open THEN <<close, close, finish>> ELSE <<finish>>)
    <2>1. [op |-> "finishStop", late |-> Head(todo[t]).state # "End" /\ model.state # "Timeout",
           timeout |-> Head(todo[t]).state = "Timeout" \/ model.state = "Timeout"] = finish
      BY <1>0, <1>1
    <2> QED
      BY <1>0, <1>1, <2>1 DEF StopPlacesCanceled, Top
  <1>5. /\ finish \in Later /\ close \in Later
        /\ finish.op = "finishStop" /\ close.op = "place" /\ close.step = "Canceled"
        /\ finish.late <=> open
    BY <1>0, <1>1, NewFrames DEF Exits, Steps, Place
  <1>6. PICK frames \in Stacks :
           /\ todo' = Then(t, frames)
           /\ Within(frames) = IF open THEN {close, finish} ELSE {finish}
    <2>1. /\ <<close, close, finish>> \in Stacks
          /\ Within(<<close, close, finish>>) = {close, close, finish}
          /\ <<finish>> \in Stacks /\ Within(<<finish>>) = {finish}
      BY <1>5, ShortStacks, NewFrames
    <2> QED
      BY <1>4, <2>1
  <1>7. /\ Stays(t) /\ Within(frames) \subseteq Doing(t)'
        /\ \A x \in Threads \ {t} : Doing(x)' = Doing(x)
        /\ \A f \in Doing(t)' : f \in Within(frames) \/ f \in Doing(t)
    BY <1>2, <1>3, <1>4, <1>6, ThenStays
  <1>8. ~open => model.executed >= Amount
    <2>1. model.state # "Timeout"
      BY <1>2 DEF Begun, Timerless
    <2>2. Head(todo[t]) \in Doing(t)
      BY <1>2, <1>3, <1>4, HeadFacts DEF Typed
    <2> QED
      BY <1>0, <1>3, <1>4, <2>1, <2>2 DEF Guard, Framed
  <1>9. Entering => Entering'
    BY <1>4, <1>7 DEF Stays, Entering
  <1>10. Amount' = Amount
    BY <1>4, SameSetup
  <1>11. finish \in Doing(t)' /\ (open => close \in Doing(t)')
    BY <1>6, <1>7
  <1>12. Framed'
    <2>1. \A x \in Threads : \A f \in Doing(x)' : f \in Doing(x) \/ f \in {close, finish}
      BY <1>6, <1>7
    <2>2. LoopLast'
      BY <1>2, <1>3, <1>4, <1>5, <1>6, LoopStays DEF Guard, Framed
    <2> QED
      BY <1>4, <1>5, <1>8, <1>10, <2>1, <2>2 DEF Guard, Framed
  <1>13. Locked'
    <2>1. finish \in Doing(Stopper(i))'
      BY <1>3, <1>11
    <2> QED
      BY <1>3, <1>5, <2>1 DEF Locked, Stopping
  <1>14. Swept'
    <2>1. Returns(i)' \/ model.executed >= Amount
      <3>1. finish \in Doing(Stopper(i))'
        BY <1>3, <1>11
      <3> QED
        BY <1>5, <1>8, <3>1 DEF Returns
    <2>2. ASSUME NEW j \in {1, 2} \ {i}, NEW f \in Doing(<<"sweep", j>>)', f.op = "sweep"
          PROVE  Returns(j)' \/ model.executed >= Amount
      <3>1. f \in Doing(<<"sweep", j>>)
        BY <1>3, <1>7, <2>2
      <3>2. Returns(j) \/ model.executed >= Amount
        BY <2>2, <3>1 DEF Guard, Swept
      <3>3. Doing(Stopper(j))' = Doing(Stopper(j)) /\ Doing(<<"late", j>>)' = Doing(<<"late", j>>)
        BY <1>3, <1>7
      <3> QED
        BY <3>2, <3>3 DEF Returns
    <2> QED
      BY <1>4, <1>10, <2>1, <2>2 DEF Swept
  <1>15. Cover'
    <2>1. open => CloseComes'
      BY <1>3, <1>5, <1>11 DEF CloseComes, Closes
    <2>2. ~open => ~(world'.pos > 0)
      BY <1>2, <1>4, <1>8 DEF Left
    <2> QED
      BY <2>1, <2>2 DEF Cover, Covered
  <1> QED
    BY <1>2, <1>4, <1>9, <1>12, <1>13, <1>14, <1>15, StopRest

\* Stop is done, and comes back to close the position, unless all is sold.
LEMMA FinishStopGuards ==
    ASSUME Begun, Usual, Guard, Left, NEW t \in {Loop, Watch}, FinishStop(t)
    PROVE  Guard'
  <1>0. PICK i, late, others : /\ i = t[2] /\ late = <<"late", t[2]>>
                               /\ others = LateCheck(Head(todo[t]))
    OBVIOUS
  <1>1. /\ Typed /\ Amount \in Nat /\ model.executed \in Int /\ world.pos \in Int
        /\ world \in WorldType /\ sm \in FlagsType
    BY UsualFacts DEF Typed
  <1>2. /\ i \in {1, 2} /\ Stopper(i) = t /\ t \in Threads /\ late \in Threads \ {t}
        /\ late = <<"late", i>>
        /\ \A j \in {1, 2} \ {i} : /\ Stopper(j) \in Threads \ {t, late}
                                   /\ <<"late", j>> \in Threads \ {t, late}
                                   /\ <<"sweep", j>> \in Threads
    BY <1>0, OneStopper
  <1>3. /\ todo[t] # <<>> /\ Head(todo[t]).op = "finishStop"
        /\ UNCHANGED <<machine, model, ord, canceling>>
        /\ todo' = ThenGo(t, <<>>, late, others)
        /\ world'.setup = world.setup /\ world'.pos = world.pos
        /\ sm'.waiting = sm.waiting /\ ~sm'.stopLock
    <2>1. PICK b : b = (world.enabled /\ ContinueIfEnded)
      OBVIOUS
    <2>2. world' = [world EXCEPT !.enabled = b] /\ sm' = [sm EXCEPT !.stopLock = FALSE]
      BY <2>1 DEF FinishStop
    <2> QED
      BY <1>0, <1>1, <2>2 DEF FinishStop, Top, WorldType, FlagsType
  <1>4. /\ others \in Stacks /\ others \in Seq(Later)
        /\ Within(others) = IF Head(todo[t]).late THEN {Do("lateCheck")} ELSE {}
    <2>1. Do("lateCheck") \in Later
      BY NewFrames DEF Simple
    <2> QED
      BY <1>0, <2>1, ShortStacks, NewFrames DEF LateCheck
  <1>5. /\ Stays(t) /\ Within(others) \subseteq Doing(late)'
        /\ \A x \in Threads \ {t, late} : Doing(x)' = Doing(x)
    BY <1>1, <1>2, <1>3, <1>4, ShortStacks, ThenGoStays
  <1>6. \A x \in Threads : \A f \in Doing(x)' : f \in Doing(x) \/ f = Do("lateCheck")
    <2>1. <<>> \in Stacks /\ Within(<<>>) = {}
      BY ShortStacks
    <2>2. Goes(t, {} \cup Within(others), Within(others))
      BY <1>1, <1>2, <1>3, <1>4, <2>1, ThenGoGoes DEF Typed
    <2> QED
      BY <1>4, <2>2 DEF Goes
  <1>7. Head(todo[t]).late \/ model.executed >= Amount
    <2>1. Head(todo[t]) \in Doing(t)
      BY <1>1, <1>2, <1>3, HeadFacts DEF Typed
    <2> QED
      BY <1>2, <1>3, <2>1 DEF Guard, Framed
  <1>8. Do("lateCheck").op = "lateCheck"
    BY DEF Do
  <1>9. Head(todo[t]).late => Do("lateCheck") \in Doing(late)'
    BY <1>4, <1>5
  <1>10. Entering => Entering'
    BY <1>3, <1>5 DEF Stays, Entering
  <1>11. Amount' = Amount
    BY <1>3, SameSetup
  <1>12. Framed'
    <2>1. late # Loop
      BY <1>0 DEF Loop
    <2>2. LoopLast'
      BY <1>1, <1>2, <1>3, <1>4, <1>8, <2>1, LoopStaysToo, ShortStacks DEF Guard, Framed
    <2> QED
      BY <1>3, <1>6, <1>8, <1>11, <2>2 DEF Guard, Framed
  <1>13. Locked'
    BY <1>3 DEF Locked
  <1>14. Swept'
    <2>1. Returns(i)' \/ model.executed >= Amount
      <3>1. Head(todo[t]).late => Do("lateCheck") \in Doing(<<"late", i>>)'
        BY <1>2, <1>9
      <3> QED
        BY <1>7, <1>8, <3>1 DEF Returns
    <2>2. ASSUME NEW j \in {1, 2} \ {i}, NEW f \in Doing(<<"sweep", j>>)', f.op = "sweep"
          PROVE  Returns(j)' \/ model.executed >= Amount
      <3>1. f \in Doing(<<"sweep", j>>)
        BY <1>2, <1>6, <1>8, <2>2
      <3>2. Returns(j) \/ model.executed >= Amount
        BY <2>2, <3>1 DEF Guard, Swept
      <3>3. Doing(Stopper(j))' = Doing(Stopper(j)) /\ Doing(<<"late", j>>)' = Doing(<<"late", j>>)
        BY <1>2, <1>5
      <3> QED
        BY <3>2, <3>3 DEF Returns
    <2> QED
      BY <1>3, <1>11, <2>1, <2>2 DEF Swept
  <1>15. Cover'
    <2>1. Head(todo[t]).late => CloseComes'
      BY <1>2, <1>8, <1>9 DEF CloseComes, Closes
    <2>2. model.executed >= Amount => ~(world'.pos > 0)
      BY <1>1, <1>3 DEF Left
    <2> QED
      BY <1>7, <2>1, <2>2 DEF Cover, Covered
  <1> QED
    BY <1>1, <1>3, <1>10, <1>12, <1>13, <1>14, <1>15, StopRest

\* The late sweep cancels, and whoever started it comes back to close the position.
LEMMA SweepGuards ==
    ASSUME Begun, Usual, Guard, Left, NEW i \in {1, 2}, Sweep(<<"sweep", i>>)
    PROVE  Guard'
  <1>0. PICK t : t = <<"sweep", i>>
    OBVIOUS
  <1>1. /\ Typed /\ Amount \in Nat /\ model.executed \in Int /\ world.pos \in Int
        /\ t \in Threads /\ <<"late", i>> \in Threads /\ Stopper(i) \in Threads
    BY <1>0, UsualFacts, ThreadNames, Stoppers
  <1>2. /\ todo[t] # <<>> /\ Head(todo[t]).op = "sweep" /\ todo' = Then(t, <<>>)
        /\ canceling' = TryCancelAllOrders /\ UNCHANGED <<machine, model, sm, ord, world>>
    BY <1>0 DEF Sweep, Top
  <1>3. Harmless /\ CountsStay
    BY <1>1, <1>2, GoesOnWith, ShortStacks DEF Counts
  <1>4. StopStays /\ (Entering => Entering')
    BY <1>3, ComersStay
  <1>5. Framed' /\ Locked' /\ Swept'
    BY <1>1, <1>2, <1>3, <1>4, SameSetup, StopKept
  <1>6. Cover'
    <2>1. Head(todo[t]) \in Doing(t)
      BY <1>1, <1>2, HeadFacts DEF Typed
    <2>2. Returns(i) \/ model.executed >= Amount
      BY <1>0, <1>2, <2>1 DEF Guard, Swept
    <2>3. Returns(i)' => CloseComes'
      BY <1>1 DEF Returns, CloseComes, Closes
    <2>4. model.executed >= Amount => ~(world'.pos > 0)
      BY <1>1, <1>2 DEF Left
    <2> QED
      BY <1>4, <2>2, <2>3, <2>4, StoppingStays DEF Cover, Covered
  <1> QED
    BY <1>1, <1>2, <1>4, <1>5, <1>6, StopRest

\* The late check: there is no position, or it is closed.
LEMMA CheckLateGuards ==
    ASSUME Begun, Usual, Guard, Left, NEW i \in {1, 2}, CheckLate(<<"late", i>>)
    PROVE  Guard'
  <1>0. PICK t, close : t = <<"late", i>> /\ close = Place("Canceled")
    OBVIOUS
  <1>1. /\ Typed /\ Amount \in Nat /\ model.executed \in Int /\ world.pos \in Int
        /\ t \in Threads /\ First /\ ~setup.entryTimeout
    BY <1>0, UsualFacts, ThreadNames
  <1>2. /\ todo[t] # <<>> /\ Head(todo[t]).op = "lateCheck" /\ todo[<<"sweep", i>>] = <<>>
        /\ UNCHANGED <<machine, model, sm, ord, canceling, world>>
        /\ todo' = Then(t, IF model.position > 0 /\ model.entered THEN <<close>> ELSE <<>>)
    <2>1. t[2] = i
      BY <1>0
    <2> QED
      BY <1>0, <2>1 DEF CheckLate, Top
  <1>3. close \in Later /\ close.op = "place" /\ close.step = "Canceled"
    BY <1>0, NewFrames DEF Exits, Steps, Place
  <1>4. PICK frames \in Stacks :
           /\ todo' = Then(t, frames)
           /\ Within(frames) = IF model.position > 0 /\ model.entered THEN {close} ELSE {}
    <2>1. <<close>> \in Stacks /\ Within(<<close>>) = {close}
          /\ <<>> \in Stacks /\ Within(<<>>) = {}
      BY <1>3, ShortStacks, NewFrames
    <2> QED
      BY <1>2, <2>1
  <1>5. /\ Stays(t) /\ Within(frames) \subseteq Doing(t)'
        /\ \A x \in Threads \ {t} : Doing(x)' = Doing(x)
        /\ \A f \in Doing(t)' : f \in Within(frames) \/ f \in Doing(t)
    BY <1>1, <1>2, <1>4, ThenStays
  <1>6. \A x \in Threads : \A f \in Doing(x)' : f \in Doing(x) \/ f = close
    BY <1>4, <1>5
  <1>7. Entering => Entering'
    BY <1>2, <1>5 DEF Stays, Entering
  <1>8. Amount' = Amount
    BY <1>2, SameSetup
  <1>9. Framed'
    <2>1. LoopLast'
      BY <1>1, <1>2, <1>3, <1>4, LoopStays DEF Guard, Framed
    <2> QED
      BY <1>2, <1>3, <1>6, <1>8, <2>1 DEF Guard, Framed
  <1>10. /\ \A j \in {1, 2} : Stopper(j) \in Threads \ {t}
         /\ \A j \in {1, 2} \ {i} : <<"late", j>> \in Threads \ {t}
         /\ \A j \in {1, 2} : <<"sweep", j>> \in Threads \ {t}
    <2>1. \A j \in {1, 2} : Stopper(j) # t
      BY <1>0, Stoppers DEF Loop, Watch
    <2> QED
      BY <1>0, <2>1, Stoppers, ThreadNames
  <1>11. Locked'
    <2>1. Stopping => Stopping'
      BY <1>5, <1>10 DEF Stopping
    <2> QED
      BY <1>2, <2>1 DEF Guard, Locked
  <1>12. Swept'
    <2>1. Doing(<<"sweep", i>>)' = {}
      <3>1. Doing(<<"sweep", i>>) = {}
        BY <1>2, ShortStacks DEF Doing
      <3> QED
        BY <1>5, <1>10, <3>1
    <2>2. ASSUME NEW j \in {1, 2} \ {i}, NEW f \in Doing(<<"sweep", j>>)', f.op = "sweep"
          PROVE  Returns(j)' \/ model.executed >= Amount
      <3>1. f \in Doing(<<"sweep", j>>)
        BY <1>5, <1>10, <2>2
      <3>2. Returns(j) \/ model.executed >= Amount
        BY <2>2, <3>1 DEF Guard, Swept
      <3>3. Doing(Stopper(j))' = Doing(Stopper(j)) /\ Doing(<<"late", j>>)' = Doing(<<"late", j>>)
        BY <1>5, <1>10
      <3> QED
        BY <3>2, <3>3 DEF Returns
    <2> QED
      BY <1>2, <1>8, <2>1, <2>2 DEF Swept
  <1>13. Cover'
    <2>1. CASE model.position > 0 /\ model.entered
      BY <1>1, <1>3, <1>4, <1>5, <2>1 DEF CloseComes, Closes, Cover, Covered
    <2>2. CASE ~model.entered
      <3>1. Untold
        BY <1>1, <2>2 DEF Begun, Books
      <3>2. Untold'
        BY <1>2, <3>1 DEF Untold, IsEntry
      <3> QED
        BY <3>2 DEF Cover, Covered
    <2>3. CASE model.entered /\ ~(model.position > 0)
      <3>1. model.position = Amount - model.executed
        BY <1>1, <2>3 DEF Begun, Books
      <3> QED
        BY <1>1, <1>2, <2>3, <3>1 DEF Left, Cover
    <2> QED
      BY <2>1, <2>2, <2>3
  <1> QED
    BY <1>1, <1>2, <1>7, <1>9, <1>11, <1>12, <1>13, StopRest

-----------------------------------------------------------------------------
(* The exchange *)

\* Before the entry's fill is told there is nothing but the entry.
LEMMA EntryAlone ==
    ASSUME Begun, Usual, NEW k \in DOMAIN ord, IsEntry(k), ~ord[k].told
    PROVE  /\ Untold /\ machine = "WaitForEntry" /\ ~model.entered
           /\ \A j \in DOMAIN ord : IsEntry(j)
  <1>1. First /\ ~setup.entryTimeout
    BY UsualFacts
  <1>2. Untold
    BY <1>1 DEF Begun, Entries, Untold
  <1>3. machine = "WaitForEntry"
    BY <1>1, <1>2 DEF Begun, Untouched, Timerless
  <1> QED
    BY <1>1, <1>2, <1>3 DEF Begun, Untouched

\* The exchange fills or cancels an order: who works on something goes on working.
LEMMA NobodyNotices ==
    ASSUME Begun, Usual, Guard, UNCHANGED <<machine, model, sm, todo>>, Amount' = Amount
    PROVE  /\ Framed' /\ Locked' /\ Swept'
           /\ Entering' <=> Entering
           /\ StopComes' <=> StopComes
           /\ CloseComes' <=> CloseComes
  <1>1. Amount \in Nat /\ model.executed \in Int
    BY UsualFacts
  <1>2. \A x : Doing(x)' = Doing(x)
    BY DEF Doing
  <1>3. Harmless /\ StopStays
    BY <1>2 DEF Harmless, StopStays, LoopLast
  <1>4. Framed' /\ Locked' /\ Swept'
    BY <1>1, <1>3, StopKept
  <1> QED
    BY <1>2, <1>4 DEF Entering, StopComes, CloseComes

\* A fill of the entry has not been told; one of a stop, or of a closing order, closes
\* the position.
LEMMA FillGuards ==
    ASSUME Begun, Usual, Guard, Left, NEW k \in DOMAIN ord, Fill(k)
    PROVE  Guard'
  <1>1. /\ Typed /\ First /\ Futures /\ Amount \in Nat /\ model.executed \in Int
        /\ world.pos \in Int /\ world.pos >= 0 /\ world \in WorldType
        /\ world.pos <= Amount /\ world.pos <= Amount - model.executed
    <2>1. /\ Typed /\ First /\ Futures /\ Amount \in Nat /\ model.executed \in Int
          /\ world.pos \in Int /\ world.pos >= 0
      BY UsualFacts
    <2> QED
      BY <2>1 DEF Left, Begun, Holdings, Typed
  <1>2. ord[k] \in OrderType /\ ord[k].status = "open" /\ ~ord[k].told /\ ord[k].qty \in Nat
    <2>1. ord[k] \in OrderType /\ ord[k].status = "open"
      BY <1>1 DEF Typed, Fill
    <2>2. ~ord[k].told
      BY <1>1, <2>1 DEF Typed
    <2> QED
      BY <2>1, <2>2 DEF OrderType
  <1>3. PICK got : got = IF IsEntry(k) THEN ord[k].qty ELSE Smaller(ord[k].qty, world.pos)
    OBVIOUS
  <1>4. PICK p : p = IF IsEntry(k) THEN world.pos + got ELSE world.pos - got
    OBVIOUS
  <1>5. PICK o : o = [[ord[k] EXCEPT !.status = IF got = 0 THEN "canceled" ELSE "filled"]
                         EXCEPT !.got = got]
    OBVIOUS
  <1>6. /\ ord' = [ord EXCEPT ![k] = o] /\ world' = [world EXCEPT !.pos = p]
        /\ canceling' = canceling \ {k} /\ UNCHANGED <<machine, model, sm, todo>>
    <2>1. got = CASE ord[k].step = "WaitForEntry" -> ord[k].qty
                  [] ord[k].step # "WaitForEntry" /\ ~Futures -> ord[k].qty
                  [] OTHER -> Smaller(ord[k].qty, world.pos)
      BY <1>1, <1>3 DEF IsEntry
    <2>2. /\ ord' = [ord EXCEPT ![k].status = IF got = 0 THEN "canceled" ELSE "filled",
                                ![k].got = got]
          /\ world' = [world EXCEPT !.pos = IF ord[k].step = "WaitForEntry" THEN @ + got
                                                                         ELSE @ - got]
          /\ canceling' = canceling \ {k}
          /\ UNCHANGED <<machine, model, sm, todo>>
      BY <2>1 DEF Fill
    <2>3. ord' = [ord EXCEPT ![k] = o]
      BY <1>5, <2>2
    <2>4. world' = [world EXCEPT !.pos = p]
      BY <1>4, <2>2 DEF IsEntry
    <2> QED
      BY <2>2, <2>3, <2>4
  <1>7. got \in Nat
    BY <1>1, <1>2, <1>3 DEF Smaller
  <1>8. o \in OrderType /\ o.step = ord[k].step /\ o.qty = ord[k].qty /\ o.told = ord[k].told
        /\ o.status # "open"
    BY <1>2, <1>5, <1>7 DEF OrderType
  <1>9. /\ DOMAIN ord' = DOMAIN ord /\ ord'[k] = o
        /\ \A j \in DOMAIN ord : j # k => ord'[j] = ord[j]
    BY <1>1, <1>6, <1>8, OneOrder
  <1>10. \A j \in DOMAIN ord : ord'[j].step = ord[j].step /\ ord'[j].qty = ord[j].qty
                               /\ ord'[j].told = ord[j].told
    BY <1>8, <1>9
  <1>11. world'.pos = p /\ world'.setup = world.setup /\ Amount' = Amount
    <2>1. world'.pos = p /\ world'.setup = world.setup
      BY <1>1, <1>6 DEF WorldType
    <2> QED
      BY <2>1, SameSetup
  <1>12. Untold' <=> Untold
    BY <1>9, <1>10 DEF Untold, IsEntry
  <1>13. /\ Framed' /\ Locked' /\ Swept' /\ (Entering' <=> Entering)
         /\ (StopComes' <=> StopComes) /\ (CloseComes' <=> CloseComes)
    BY <1>6, <1>11, NobodyNotices
  <1>14. Asks'
    BY <1>6, <1>9, <1>10 DEF Guard, Asks
  <1>15. Enters'
    BY <1>6, <1>11, <1>12, <1>13 DEF Guard, Enters
  <1>16. /\ ~IsEntry(k) => p >= 0 /\ p <= world.pos
         /\ ord[k].step = "Canceled" => p = 0
         /\ ord[k].step = "Stoploss" => p = 0
    <2>1. ord[k].step = "Canceled" => ord[k].qty >= world.pos
      BY <1>1 DEF Guard, Protectors
    <2>2. ord[k].step = "Stoploss" => ord[k].qty >= world.pos
      BY <1>1, <1>2 DEF Guard, Protectors
    <2> QED
      BY <1>1, <1>2, <1>3, <1>4, <2>1, <2>2 DEF Smaller, IsEntry
  <1>17. Protectors'
    <2>1. /\ canceling \subseteq DOMAIN ord
          /\ \A i \in DOMAIN model.orders : model.orders[i] \in DOMAIN ord
      BY <1>1 DEF Typed
    <2>2. /\ \A j \in canceling' : ord'[j].step # "Canceled"
          /\ \A i \in DOMAIN model'.orders : ord'[model'.orders[i]].step # "Canceled"
      BY <1>6, <1>10, <2>1 DEF Guard, Protectors
    <2>3. ASSUME NEW j \in DOMAIN ord, ord'[j].step = "Canceled", ord'[j].status # "open"
          PROVE  world'.pos = 0
      <3>1. ~IsEntry(k)
        BY <1>2, <1>10, <2>3, EntryAlone DEF IsEntry
      <3>2. CASE j = k
        BY <1>10, <1>11, <1>16, <2>3, <3>2
      <3>3. CASE j # k
        <4>1. world.pos = 0
          BY <1>9, <2>3, <3>3 DEF Guard, Protectors
        <4> QED
          BY <1>1, <1>4, <1>7, <1>11, <1>16, <3>1, <4>1
      <3> QED
        BY <3>2, <3>3
    <2>4. \A j \in DOMAIN ord : /\ ord'[j].step = "Canceled" => ord'[j].qty = Amount'
                                /\ ord'[j].step = "Stoploss" =>
                                      ord'[j].qty >= Amount' - model'.executed
      BY <1>6, <1>10, <1>11 DEF Guard, Protectors
    <2> QED
      BY <1>9, <2>2, <2>3, <2>4 DEF Protectors
  <1>18. Cover'
    <2>1. CASE IsEntry(k)
      BY <1>2, <1>12, <2>1, EntryAlone DEF Cover, Covered
    <2>2. CASE ord[k].step \in {"Stoploss", "Canceled"}
      BY <1>11, <1>16, <2>2 DEF Cover
    <2>3. CASE ~IsEntry(k) /\ ord[k].step \notin {"Stoploss", "Canceled"}
      <3>1. world'.pos > 0 => world.pos > 0
        BY <1>1, <1>4, <1>7, <1>11, <1>16, <2>3
      <3>2. (\E j \in DOMAIN ord : Protector(j)) => (\E j \in DOMAIN ord : Protector(j))'
        BY <1>6, <1>9, <2>3 DEF Protector
      <3> QED
        BY <1>12, <1>13, <3>1, <3>2 DEF Guard, Cover, Covered
    <2> QED
      BY <2>1, <2>2, <2>3
  <1> QED
    BY <1>13, <1>14, <1>15, <1>17, <1>18 DEF Guard

\* A cancel that gets through is that of no protector.
LEMMA CancelOrderGuards ==
    ASSUME Begun, Usual, Guard, NEW k \in canceling, CancelOrder(k)
    PROVE  Guard'
  <1>1. /\ Typed /\ canceling \subseteq DOMAIN ord
        /\ \A i \in DOMAIN model.orders : model.orders[i] \in DOMAIN ord
    BY DEF Begun, Typed
  <1>2. /\ canceling' = canceling \ {k} /\ ord' = Closed({k})
        /\ UNCHANGED <<machine, model, sm, world, todo>>
    BY DEF CancelOrder
  <1>3. /\ DOMAIN ord' = DOMAIN ord
        /\ \A j \in DOMAIN ord : j # k => ord'[j] = ord[j]
    BY <1>2 DEF Closed
  <1>4. \A j \in DOMAIN ord : ord'[j].step = ord[j].step /\ ord'[j].qty = ord[j].qty
                              /\ ord'[j].told = ord[j].told
    <2>1. OrdersKept
      BY <1>1, <1>2, ClosedKept
    <2> QED
      BY <2>1 DEF OrdersKept
  <1>5. Amount' = Amount
    BY <1>2, SameSetup
  <1>6. /\ Framed' /\ Locked' /\ Swept' /\ (Entering' <=> Entering)
        /\ (StopComes' <=> StopComes) /\ (CloseComes' <=> CloseComes)
    BY <1>2, <1>5, NobodyNotices
  <1>7. Untold' <=> Untold
    BY <1>3, <1>4 DEF Untold, IsEntry
  <1>8. Asks'
    BY <1>2, <1>3, <1>4 DEF Guard, Asks
  <1>9. Enters'
    BY <1>2, <1>5, <1>6, <1>7 DEF Guard, Enters
  <1>10. ord[k].step # "Canceled"
    BY DEF Guard, Protectors
  <1>11. Protectors'
    <2>1. /\ \A j \in canceling' : ord'[j].step # "Canceled"
          /\ \A i \in DOMAIN model'.orders : ord'[model'.orders[i]].step # "Canceled"
      BY <1>1, <1>2, <1>4 DEF Guard, Protectors
    <2>2. \A j \in DOMAIN ord :
             /\ ord'[j].step = "Canceled" => ord'[j].qty = Amount'
             /\ ord'[j].step = "Stoploss" => ord'[j].qty >= Amount' - model'.executed
      BY <1>2, <1>4, <1>5 DEF Guard, Protectors
    <2>3. ASSUME NEW j \in DOMAIN ord, ord'[j].step = "Canceled", ord'[j].status # "open"
          PROVE  world'.pos = 0
      <3>1. j # k /\ ord'[j] = ord[j]
        BY <1>3, <1>4, <1>10, <2>3
      <3> QED
        BY <1>2, <2>3, <3>1 DEF Guard, Protectors
    <2> QED
      BY <1>3, <2>1, <2>2, <2>3 DEF Protectors
  <1>12. Cover'
    <2>1. \A j \in DOMAIN ord : Protector(j) => j # k
      BY <1>10 DEF Protector
    <2>2. (\E j \in DOMAIN ord : Protector(j)) => (\E j \in DOMAIN ord : Protector(j))'
      BY <1>2, <1>3, <2>1 DEF Protector
    <2> QED
      BY <1>2, <1>6, <1>7, <2>2 DEF Guard, Cover, Covered
  <1> QED
    BY <1>6, <1>8, <1>9, <1>11, <1>12 DEF Guard

\* The entry's fill is told: the stops are about to be placed.  An exit order's fill starts
\* nothing, unless all is sold.
LEMMA FireOnOrderGuards ==
    ASSUME Begun, Usual, Guard, Left', NEW k \in DOMAIN ord, FireOnOrder(k)
    PROVE  Guard'
  <1>0. PICK u, move, o, c : /\ u = <<"callback", k>> /\ move = Move(machine, FALSE)
                             /\ o = [ord[k] EXCEPT !.told = TRUE] /\ c = Booked(ord[k])
    OBVIOUS
  <1>1. /\ Typed /\ ~setup.entryTimeout /\ Amount \in Nat /\ model.executed \in Int
        /\ world.pos \in Int /\ machine \in MachineStates /\ sm \in FlagsType
    BY UsualFacts DEF Typed
  <1>2. ord[k] \in OrderType /\ ord[k].got \in Nat /\ ~ord[k].told
    <2>1. ord[k] \in OrderType
      BY <1>1 DEF Typed
    <2> QED
      BY <2>1 DEF OrderType, FireOnOrder
  <1>3. machine \in HandlesOrders
    BY <1>1 DEF HandlesOrders, Begun, Timerless
  <1>4. /\ ord' = [ord EXCEPT ![k] = o] /\ model' = c.model
        /\ sm' = IF ord[k].step \in {"TakeProfit", "Canceled"}
                 THEN [sm EXCEPT !.waiting = @ \ {ord[k].step}]
                 ELSE sm
        /\ todo' = IF c.pass THEN [todo EXCEPT ![u] = <<move>>] ELSE todo
        /\ UNCHANGED <<machine, canceling, world>>
    BY <1>0, <1>3 DEF FireOnOrder
  <1>5. o \in OrderType /\ o.step = ord[k].step /\ o.qty = ord[k].qty /\ o.status = ord[k].status
    BY <1>0, <1>2 DEF OrderType
  <1>6. /\ DOMAIN ord' = DOMAIN ord /\ ord'[k] = o
        /\ \A j \in DOMAIN ord : j # k => ord'[j] = ord[j]
    BY <1>1, <1>4, <1>5, OneOrder
  <1>7. \A j \in DOMAIN ord : ord'[j].step = ord[j].step /\ ord'[j].qty = ord[j].qty
                              /\ ord'[j].status = ord[j].status
    BY <1>5, <1>6
  <1>8. /\ c.pass \in BOOLEAN /\ model'.orders = model.orders
        /\ model'.executed \in Int /\ model'.executed >= model.executed
        /\ ~IsEntry(k) /\ c.pass => model'.executed >= Amount
        /\ IsEntry(k) /\ ~model.entered => c.pass
    <2>1. /\ c.pass \in BOOLEAN /\ c.model \in ModelType /\ c.model.orders = model.orders
          /\ c.model.executed = model.executed + (IF ord[k].step = "WaitForEntry"
                                                 THEN 0 ELSE ord[k].got)
          /\ ord[k].step # "WaitForEntry" => (c.pass => c.model.executed >= Amount)
          /\ ord[k].step = "WaitForEntry" /\ ~model.entered => c.pass
      BY <1>0, <1>1, <1>2, BookedFacts
    <2> QED
      BY <1>1, <1>2, <1>4, <2>1 DEF IsEntry
  <1>9. sm'.stopLock = sm.stopLock /\ sm'.waiting \subseteq sm.waiting
    BY <1>1, <1>4 DEF FlagsType
  <1>10. u \in Threads /\ \A i \in {1, 2} : u \notin {Stopper(i), <<"late", i>>, <<"sweep", i>>}
    <2>1. k \in OrderIds
      <3>1. Len(ord) \in Nat /\ DOMAIN ord = 1 .. Len(ord) /\ Len(ord) <= setup.orders
        BY <1>1 DEF Typed
      <3>2. setup.orders \in Nat /\ 1 .. setup.orders \subseteq OrderIds
        BY <1>1, SetupFacts DEF Typed
      <3> QED
        BY <3>1, <3>2
    <2>2. u \in Threads \ {Loop, Watch}
      BY <1>0, <2>1, ThreadNames
    <2> QED
      BY <1>0, <2>2, Stoppers
  <1>11. move \in Frames /\ move.op = "move" /\ move.from = machine
    BY <1>0, <1>1, NewFrames DEF Move
  <1>12. /\ \A x \in Threads \ {u} : Doing(x)' = Doing(x)
         /\ c.pass => Doing(u)' = {move}
         /\ ~c.pass => Doing(u)' = Doing(u)
    <2>1. Within(<<move>>) = {move} /\ todo \in [Threads -> Stacks]
      BY <1>1, <1>11, ShortStacks DEF Typed
    <2> QED
      BY <1>4, <1>10, <2>1 DEF Doing
  <1>13. Amount' = Amount
    BY <1>4, SameSetup
  <1>14. model.executed >= Amount => model'.executed >= Amount
    BY <1>1, <1>8
  <1>15. Framed'
    <2>1. \A x \in Threads : \A f \in Doing(x)' : f \in Doing(x) \/ f = move
      BY <1>8, <1>12
    <2>2. todo'[Loop] = todo[Loop]
      BY <1>1, <1>4, <1>10, Stoppers, ThreadNames DEF Typed, Stopper
    <2>3. LoopLast'
      BY <1>1, <1>11, <2>1, <2>2, LoopKept DEF Guard, Framed
    <2> QED
      BY <1>11, <1>13, <1>14, <2>1, <2>3 DEF Guard, Framed
  <1>16. \A i \in {1, 2} : /\ Doing(Stopper(i))' = Doing(Stopper(i))
                           /\ Doing(<<"late", i>>)' = Doing(<<"late", i>>)
                           /\ Doing(<<"sweep", i>>)' = Doing(<<"sweep", i>>)
    BY <1>10, <1>12, Stoppers, ThreadNames
  <1>17. Locked'
    BY <1>9, <1>16 DEF Guard, Locked, Stopping
  <1>18. Swept'
    <2>1. \A i \in {1, 2} : Returns(i) => Returns(i)'
      BY <1>16 DEF Returns
    <2> QED
      BY <1>13, <1>14, <1>16, <2>1 DEF Guard, Swept
  <1>19. Asks'
    BY <1>6, <1>7, <1>9 DEF Guard, Asks
  <1>20. Protectors'
    <2>1. /\ canceling \subseteq DOMAIN ord
          /\ \A i \in DOMAIN model.orders : model.orders[i] \in DOMAIN ord
      BY <1>1 DEF Typed
    <2>2. /\ \A j \in canceling' : ord'[j].step # "Canceled"
          /\ \A i \in DOMAIN model'.orders : ord'[model'.orders[i]].step # "Canceled"
      BY <1>4, <1>7, <1>8, <2>1 DEF Guard, Protectors
    <2>3. \A j \in DOMAIN ord : ord[j].qty \in Nat
      <3>1. \A j \in DOMAIN ord : ord[j] \in OrderType
        BY <1>1 DEF Typed
      <3> QED
        BY <3>1 DEF OrderType
    <2>4. \A j \in DOMAIN ord :
             ord'[j].step = "Stoploss" => ord'[j].qty >= Amount' - model'.executed
      BY <1>1, <1>7, <1>8, <1>13, <2>3 DEF Guard, Protectors
    <2>5. \A j \in DOMAIN ord :
             /\ ord'[j].step = "Canceled" => ord'[j].qty = Amount'
             /\ ord'[j].step = "Canceled" /\ ord'[j].status # "open" => world'.pos = 0
      BY <1>4, <1>7, <1>13 DEF Guard, Protectors
    <2> QED
      BY <1>6, <2>2, <2>4, <2>5 DEF Protectors
  <1>21. Usual'
    BY <1>4, SameSetup
  <1>22. CASE IsEntry(k)
    <2>1. machine = "WaitForEntry" /\ c.pass
      BY <1>2, <1>8, <1>22, EntryAlone
    <2>2. Entering'
      BY <1>10, <1>11, <1>12, <2>1 DEF Entering
    <2> QED
      BY <1>15, <1>17, <1>18, <1>19, <1>20, <2>2 DEF Guard, Enters, Cover, Covered
  <1>23. CASE ~IsEntry(k) /\ c.pass
    <2>1. model'.executed >= Amount'
      BY <1>8, <1>13, <1>23
    <2>2. ~(world'.pos > 0)
      BY <1>1, <1>4, <1>8, <1>13, <1>21, <2>1 DEF Left
    <2> QED
      BY <1>15, <1>17, <1>18, <1>19, <1>20, <2>1, <2>2 DEF Guard, Enters, Cover
  <1>24. CASE ~IsEntry(k) /\ ~c.pass
    <2>1. \A x \in Threads : Doing(x)' = Doing(x)
      BY <1>12, <1>24
    <2>2. /\ Entering' <=> Entering
          /\ StopComes' <=> StopComes
          /\ CloseComes' <=> CloseComes
      BY <2>1 DEF Entering, StopComes, CloseComes
    <2>3. Untold => Untold'
      BY <1>5, <1>6, <1>24 DEF Untold, IsEntry
    <2>4. (\E j \in DOMAIN ord : Protector(j)) => (\E j \in DOMAIN ord : Protector(j))'
      BY <1>4, <1>6, <1>7 DEF Protector
    <2>5. Enters'
      BY <1>4, <1>13, <1>14, <2>2, <2>3 DEF Guard, Enters
    <2>6. Cover'
      BY <1>4, <2>2, <2>3, <2>4 DEF Guard, Cover, Covered
    <2> QED
      BY <1>15, <1>17, <1>18, <1>19, <1>20, <2>5, <2>6 DEF Guard
  <1> QED
    BY <1>8, <1>22, <1>23, <1>24

-----------------------------------------------------------------------------
(* The theorem *)

\* What is held is not more than what is left to sell.
LEMMA LeftHolds ==
    ASSUME IInv
    PROVE  Left
  <1>1. CASE Beginning
    <2>1. world.pos = 0 /\ model.executed = 0 /\ Amount \in Nat
      BY <1>1, BeginningFacts, TakenFacts DEF Beginning
    <2> QED
      BY <2>1 DEF Left
  <1>2. CASE Begun
    <2>1. SUFFICES ASSUME Usual
                   PROVE  world.pos <= Amount - model.executed
      BY DEF Left
    <2>2. /\ Typed /\ First /\ ~setup.entryTimeout /\ Amount \in Nat /\ model.executed \in Int
      BY <1>2, <2>1, UsualFacts
    <2>3. PICK h : Sums(h) /\ Booking(h)
      BY <1>2, <2>2 DEF Begun, Books
    <2>4. h[Len(ord)] \in Int /\ h[Len(ord)] >= 0
      BY <2>2, <2>3, SumsArePositive
    <2>5. world.pos = (IF Bought THEN Amount ELSE 0) - model.executed - h[Len(ord)]
      BY <2>3 DEF Booking
    <2> QED
      BY <2>2, <2>4, <2>5
  <1> QED
    BY <1>1, <1>2 DEF IInv

\* Before onStart has run there is nothing to guard.
LEMMA BeginningGuard ==
    ASSUME Beginning
    PROVE  Guard
  <1>1. /\ machine = "WaitForEntry" /\ DOMAIN ord = {} /\ canceling = {} /\ world.pos = 0
        /\ sm.waiting = {} /\ ~sm.stopLock /\ model.orders = <<>>
        /\ todo[Loop] = <<Do("onStart"), Do("startRuntime"), Do("loop")>>
    <2>1. ord = <<>> => DOMAIN ord = {}
      OBVIOUS
    <2>2. machine = "WaitForEntry" /\ ord = <<>> /\ canceling = {} /\ world.pos = 0
      BY DEF Beginning
    <2>3. sm.waiting = {} /\ ~sm.stopLock
      BY DEF Beginning
    <2>4. todo[Loop] = <<Do("onStart"), Do("startRuntime"), Do("loop")>>
      BY DEF Beginning
    <2> QED
      BY <2>1, <2>2, <2>3, <2>4, BeginningFacts
  <1>2. \A t \in Threads : \A f \in Doing(t) :
           \/ f \in {Do("startRuntime"), Do("loop"), Do("unregister")}
           \/ f = Do("onStart") /\ t = Loop
    BY BeginningFacts
  <1>3. \A t \in Threads : \A f \in Doing(t) :
           f.op \in {"startRuntime", "loop", "unregister", "onStart"}
    BY <1>2 DEF Do
  <1>4. LoopLast
    <2>1. LastLoop(todo[Loop])
      BY <1>1 DEF LastLoop, Do
    <2>2. ASSUME NEW x \in Threads \ {Loop}, NEW f \in Doing(x)
          PROVE  f.op # "loop"
      <3>1. todo[x] \in {<<>>, <<Do("unregister")>>}
        BY <2>2 DEF Beginning
      <3>2. Do("unregister") \in Frames
        BY NewFrames DEF Simple
      <3>3. Doing(x) \subseteq {Do("unregister")}
        BY <3>1, <3>2, ShortStacks DEF Doing
      <3> QED
        BY <2>2, <3>3 DEF Do
    <2> QED
      BY <2>1, <2>2 DEF LoopLast
  <1>5. Framed
    BY <1>3, <1>4 DEF Framed
  <1>6. Locked /\ Swept
    BY <1>1, <1>3, ThreadNames DEF Locked, Swept
  <1>7. Asks /\ Protectors
    BY <1>1 DEF Asks, Protectors
  <1>8. Enters /\ Cover
    BY <1>1 DEF Enters, Cover, Untold
  <1> QED
    BY <1>5, <1>6, <1>7, <1>8 DEF Guard

\* Nobody changes the conditions of a strategy.
LEMMA SetupStays ==
    ASSUME Typed, [Next]_vars
    PROVE  world'.setup = world.setup
  <1>1. world \in WorldType
    BY DEF Typed
  <1>2. CASE UNCHANGED vars
    BY <1>2 DEF vars
  <1>3. CASE Disable \/ LoseMutex \/ HotReload \/ Unregister
    BY <1>1, <1>3 DEF Disable, LoseMutex, HotReload, Unregister, WorldType
  <1>4. CASE RunLoop
    BY <1>1, <1>4 DEF RunLoop, StartRuntime, LeaveLoop, FireOnPrice, WorldType
  <1>5. ASSUME NEW i \in Iterations, RunTimer(<<"timer", i>>)
        PROVE  world'.setup = world.setup
    BY <1>5 DEF RunTimer, TimerFires, TimerIsLate, AwaitEntry, CancelEntry, FireTimeout, MarkTimeout
  <1>6. ASSUME NEW t \in Threads, Run(t)
        PROVE  world'.setup = world.setup
    <2>1. CASE RejectTriggered(t)
      BY <1>1, <2>1 DEF RejectTriggered, WorldType
    <2>2. CASE RejectOrder(t)
      <3>1. PICK e : e = IF world.errors < setup.errors THEN world.errors + 1 ELSE world.errors
        OBVIOUS
      <3>2. world' = [world EXCEPT !.errors = e]
        BY <2>2, <3>1 DEF RejectOrder
      <3> QED
        BY <1>1, <3>2 DEF WorldType
    <2>3. CASE ~RejectTriggered(t) /\ ~RejectOrder(t)
      BY <1>6, <2>3 DEF Run, SkipOrder, CancelBeforeOrder, Answer, TryCancelAllOrdersConsistently,
          AcceptOrder, RejectReduceOnly, ExitToNextIteration, ExitToWaitForEntry, OnStartChecks,
          EnterEnd, EnterEntry, GoPlaceStops, EnterTakeProfit, EnterStopLoss, CheckLossAgain,
          StartTimer, Enter
    <2> QED
      BY <2>1, <2>2, <2>3
  <1>7. ASSUME NEW t \in {Loop, Watch}, RunStop(t)
        PROVE  world'.setup = world.setup
    <2>1. PICK b : b = (world.enabled /\ ContinueIfEnded)
      OBVIOUS
    <2>2. \/ world' = world \/ world' = [world EXCEPT !.enabled = b]
          \/ world' = [world EXCEPT !.enabled = TRUE]
      BY <1>7, <2>1 DEF RunStop, StopIsTaken, StopTestsLock, StopClaimsLock, StopPlacesCanceled,
          FinishStop, RestartInStop
    <2> QED
      BY <1>1, <2>2 DEF WorldType
  <1>8. ASSUME NEW i \in {1, 2}, Sweep(<<"sweep", i>>) \/ CheckLate(<<"late", i>>)
        PROVE  world'.setup = world.setup
    BY <1>8 DEF Sweep, CheckLate
  <1>9. ASSUME NEW k \in DOMAIN ord, Fill(k)
        PROVE  world'.setup = world.setup
    <2>1. PICK p : world' = [world EXCEPT !.pos = p]
      <3>1. PICK got : got = CASE ord[k].step = "WaitForEntry" -> ord[k].qty
                               [] ord[k].step # "WaitForEntry" /\ ~Futures -> ord[k].qty
                               [] OTHER -> Smaller(ord[k].qty, world.pos)
        OBVIOUS
      <3>2. world' = [world EXCEPT !.pos = IF ord[k].step = "WaitForEntry" THEN @ + got
                                                                       ELSE @ - got]
        BY <1>9, <3>1 DEF Fill
      <3>3. PICK p : p = IF ord[k].step = "WaitForEntry" THEN world.pos + got ELSE world.pos - got
        OBVIOUS
      <3>4. world' = [world EXCEPT !.pos = p]
        BY <3>2, <3>3
      <3> QED
        BY <3>4
    <2> QED
      BY <1>1, <2>1 DEF WorldType
  <1>10. ASSUME NEW k, FireOnOrder(k) \/ CancelOrder(k)
         PROVE  world'.setup = world.setup
    BY <1>10 DEF FireOnOrder, CancelOrder
  <1> QED
    BY <1>2, <1>3, <1>4, <1>5, <1>6, <1>7, <1>8, <1>9, <1>10 DEF Next

\* Each step of a goroutine.
LEMMA RunGuards ==
    ASSUME Begun, Usual, Guard, Left, NEW t \in Threads, Run(t)
    PROVE  Guard'
  <1>1. /\ Typed /\ ~setup.entryTimeout /\ setup.errors = 0 /\ Futures /\ ~ContinueIfEnded
        /\ world \in WorldType
    BY UsualFacts DEF Typed
  <1>2. /\ ~CancelBeforeOrder(t) /\ ~ExitToNextIteration(t) /\ ~ExitToWaitForEntry(t)
    BY <1>1 DEF CancelBeforeOrder, CancelsFirst, ExitToNextIteration, ExitToWaitForEntry
  <1>3. ~RejectTriggered(t)
    BY <1>1 DEF RejectTriggered, WorldType
  <1>4. ~TryCancelAllOrdersConsistently(t)
    BY <1>1, HeadFacts DEF TryCancelAllOrdersConsistently, Top, Guard, Framed, Typed
  <1>5. ~StartTimer(t)
    BY <1>1, TopFacts DEF StartTimer, Top, Allowed, TimerWork, TimerOps
  <1>6. CASE SkipOrder(t) \/ AcceptOrder(t) \/ RejectReduceOnly(t) \/ RejectOrder(t) \/ Answer(t)
    BY <1>6, SkipOrderGuards, AcceptOrderGuards, RejectGuards, AnswerGuards
  <1>7. CASE OnStartChecks(t)
    BY <1>1, <1>7, OnStartGuards
  <1>8. CASE EnterEnd(t) \/ EnterTakeProfit(t) \/ EnterEntry(t) \/ EnterStopLoss(t)
    BY <1>8, MoveGuards, EnterEntryGuards, EnterStopLossGuards
  <1>9. CASE GoPlaceStops(t) \/ CheckLossAgain(t)
    BY <1>9, GoPlaceStopsGuards, CheckLossAgainGuards
  <1> QED
    BY <1>2, <1>3, <1>4, <1>5, <1>6, <1>7, <1>8, <1>9 DEF Run

\* Each step of Stop.
LEMMA RunStopGuards ==
    ASSUME Begun, Usual, Guard, Left, NEW t \in {Loop, Watch}, RunStop(t)
    PROVE  Guard'
  <1>1. t \in Threads
    BY ThreadNames
  <1>2. ~RestartInStop(t)
    BY UsualFacts DEF RestartInStop
  <1>3. CASE StopIsTaken(t) \/ StopTestsLock(t) \/ StopClaimsLock(t)
    BY <1>1, <1>3, StopIsTakenGuards, LoopGuards, StopClaimsLockGuards
  <1>4. CASE StopPlacesCanceled(t) \/ FinishStop(t)
    BY <1>4, StopPlacesCanceledGuards, FinishStopGuards
  <1> QED
    BY <1>2, <1>3, <1>4 DEF RunStop

\* There is no entry timer.
LEMMA NoTimerRuns ==
    ASSUME Begun, Usual, NEW t \in Threads
    PROVE  ~RunTimer(t)
  <1>1. todo[t] # <<>> => Head(todo[t]).op \notin TimerOps
    BY UsualFacts, TopFacts DEF Allowed, TimerWork
  <1> QED
    BY <1>1 DEF RunTimer, TimerFires, TimerIsLate, AwaitEntry, CancelEntry, FireTimeout,
                MarkTimeout, Top, TimerOps

\* Every step keeps the guard.
LEMMA GuardKept ==
    ASSUME IInv, Left, Left', Usual => Guard, [Next]_vars
    PROVE  (Usual => Guard)'
  <1>1. Typed
    BY InvariantTyped
  <1>2. Usual' <=> Usual
    BY <1>1, SetupStays, SameSetup
  <1>3. SUFFICES ASSUME Usual
                 PROVE  Guard'
    BY <1>2
  <1>4. ~setup.entryTimeout
    BY <1>3 DEF Usual, Steady
  <1>5. CASE Beginning
    <2>1. \/ UNCHANGED vars \/ Disable \/ LoseMutex \/ HotReload \/ Unregister
          \/ OnStartChecks(Loop)
      BY <1>5, BeginningNext
    <2> QED
      BY <1>1, <1>3, <1>4, <2>1, ServiceGuards, OnStartGuards, ThreadNames
  <1>6. CASE Begun
    <2>1. CASE UNCHANGED vars \/ Disable \/ LoseMutex \/ HotReload \/ Unregister
      BY <1>1, <1>3, <2>1, ServiceGuards
    <2>2. CASE RunLoop
      BY <1>3, <1>6, <2>2, LoopGuards, FireOnPriceGuards, ThreadNames DEF RunLoop
    <2>3. ~\E i \in Iterations : RunTimer(<<"timer", i>>)
      BY <1>3, <1>6, NoTimerRuns, ThreadNames
    <2>4. CASE \E t \in {u \in Threads : todo[u] # <<>>} : Run(t)
      BY <1>3, <1>6, <2>4, RunGuards
    <2>5. CASE \E t \in {Loop, Watch} : RunStop(t)
      BY <1>3, <1>6, <2>5, RunStopGuards
    <2>6. CASE \E i \in {1, 2} : Sweep(<<"sweep", i>>) \/ CheckLate(<<"late", i>>)
      BY <1>3, <1>6, <2>6, SweepGuards, CheckLateGuards
    <2>7. CASE \E k \in DOMAIN ord : Fill(k) \/ FireOnOrder(k)
      BY <1>3, <1>6, <2>7, FillGuards, FireOnOrderGuards
    <2>8. CASE \E k \in canceling : CancelOrder(k)
      BY <1>3, <1>6, <2>8, CancelOrderGuards
    <2> QED
      BY <2>1, <2>2, <2>3, <2>4, <2>5, <2>6, <2>7, <2>8 DEF Next
  <1> QED
    BY <1>5, <1>6 DEF IInv

\* When everybody is at rest nothing is about to be placed.
LEMMA GuardedAtRest ==
    ASSUME IInv, Usual => Guard
    PROVE  Protected
  <1>1. SUFFICES ASSUME world.pos > 0, Usual, AtRest
                 PROVE  \E k \in DOMAIN ord :
                           ord[k].step \in {"Stoploss", "Canceled"} /\ ord[k].status = "open"
    BY DEF Protected, Usual
  <1>2. Begun
    BY <1>1 DEF IInv, Beginning
  <1>3. Typed /\ First /\ ~setup.entryTimeout
    BY <1>1, <1>2, UsualFacts
  <1>4. ~Untold
    <2>1. Bought
      BY <1>1, <1>2, <1>3 DEF Begun, Holdings, Typed, WorldType
    <2> QED
      BY <1>1, <2>1 DEF Bought, Untold, AtRest
  <1>5. ASSUME NEW t \in Threads, NEW f \in Doing(t)
        PROVE  f.op = "loop"
    <2>1. todo[t] # <<>>
      BY <1>5, ShortStacks DEF Doing
    <2>2. todo[t] \in Stacks /\ Head(todo[t]) \in Doing(t) /\ Allowed(t, Head(todo[t]))
      BY <1>2, <1>3, <2>1, TopFacts, HeadFacts DEF Typed
    <2>3. Head(todo[t]).op = "loop"
      BY <1>1, <1>3, <2>1, <2>2 DEF AtRest, Top, Allowed, TimerWork, TimerOps
    <2>4. t = Loop /\ LastLoop(todo[t])
      BY <1>1, <2>2, <2>3 DEF Guard, Framed, LoopLast
    <2>5. todo[t] \in Seq(Frames) /\ Len(todo[t]) \in Nat /\ DOMAIN todo[t] = 1 .. Len(todo[t])
          /\ Head(todo[t]) = todo[t][1] /\ 1 \in DOMAIN todo[t]
      BY <2>1, <2>2 DEF Stacks
    <2>6. Len(todo[t]) = 1
      BY <2>3, <2>4, <2>5 DEF LastLoop
    <2>7. \A i \in DOMAIN todo[t] : todo[t][i] = Head(todo[t])
      BY <2>5, <2>6
    <2> QED
      BY <1>5, <2>3, <2>7 DEF Doing, Within
  <1>6. ~Entering /\ ~StopComes /\ ~CloseComes
    BY <1>5 DEF Entering, StopComes, CloseComes, Closes
  <1>7. \E k \in DOMAIN ord : Protector(k)
    BY <1>1, <1>4, <1>6 DEF Guard, Cover, Covered
  <1> QED
    BY <1>7 DEF Protector

\* A position of a futures order is never left alone: once every goroutine has done what it
\* had to do, an open position has a stop or a closing order at the exchange, however the
\* cancels of Stop and its late helpers interleave with the entry's fill and the stop orders
\* placed in the background.
THEOREM PositionIsProtected == Spec => []Protected
  <1>1. Spec => []IInv
    BY Invariance
  <1>2. IInv => Left
    BY LeftHolds
  <1>3. Init => (Usual => Guard)
    BY InitBegins, BeginningGuard
  <1>4. IInv /\ Left /\ Left' /\ (Usual => Guard) /\ [Next]_vars => (Usual => Guard)'
    BY GuardKept
  <1>5. IInv /\ (Usual => Guard) => Protected
    BY GuardedAtRest
  <1> QED
    BY <1>1, <1>2, <1>3, <1>4, <1>5, PTL DEF Spec
=============================================================================
