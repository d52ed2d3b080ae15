-------------------------- MODULE Averaging_proofs --------------------------
(***************************************************************************)
(* Proofs about Averaging, for any set of setups: the levels' fills take   *)
(* turns, the index into the levels stays in range, and one take profit is *)
(* open at a time.                                                         *)
(*                                                                         *)
(* The argument: StopMux has one holder, which cancels every take profit   *)
(* there is before it places one.  A fill is heard once, in the life its   *)
(* order was placed in, which has an order per level; whoever has selected *)
(* the next level is one of them.  Only an order that has ended keeps      *)
(* StopMux, and the machine of an order that runs is not in End.           *)
(*                                                                         *)
(* The amounts play no part: they are left without a type here.            *)
(***************************************************************************)
EXTENDS Averaging, SequenceTheorems, FiniteSetTheorems, TLAPS

-----------------------------------------------------------------------------
(* The inductive invariant *)

\* A sequence of whatever.
IsSequence(q) == \E S : q \in Seq(S)

\* The shape of an order, whatever its amounts.
IsOrder(o) ==
    /\ o = [step |-> o.step, level |-> o.level, qty |-> o.qty, life |-> o.life,
            status |-> o.status, filled |-> o.filled, told |-> o.told]
    /\ o.step \in Steps
    /\ o.level \in Nat
    /\ o.life \in Nat
    /\ o.told \in BOOLEAN

IsModel(m) ==
    /\ m = [state |-> m.state, entered |-> m.entered, saved |-> m.saved,
            executed |-> m.executed, position |-> m.position, tapIds |-> m.tapIds,
            waitIds |-> m.waitIds, forcedIds |-> m.forcedIds, enabled |-> m.enabled]
    /\ m.state \in MachineStates \cup {""}
    /\ m.enabled \in BOOLEAN
    /\ m.tapIds \subseteq OrderIds

SmType == [waiting : SUBSET {"TakeProfit", "ForcedLoss"}, selected : Nat, mux : BOOLEAN]
CallbackType == [at : Places, ids : SUBSET OrderIds]

\* The shape of every variable but for the amounts.
Shape ==
    /\ machine \in MachineStates
    /\ IsModel(model) /\ IsModel(doc)
    /\ sm \in SmType
    /\ IsSequence(ord)
    /\ \A k \in DOMAIN ord : IsOrder(ord[k])
    /\ callback \in [OrderIds -> CallbackType]
    /\ world = [setup |-> world.setup, pos |-> world.pos, crashes |-> world.crashes,
                ended |-> world.ended]
    /\ world.setup \in Setups /\ world.crashes \in Nat /\ world.ended \in BOOLEAN

\* There is a callback for every order, an order is of this life or an earlier one, and
\* one that is only asked for is of a level or a stop.
Lives ==
    /\ Len(ord) <= setup.orders
    /\ \A k \in DOMAIN ord :
          /\ ord[k].life <= world.crashes
          /\ ord[k].status = "asked" => ord[k].step \in {"WaitForEntry", "Stoploss", "ForcedLoss"}

\* Until an order has ended neither it nor its document says so.
Runs == ~world.ended => machine # "End" /\ model.state # "End" /\ doc.state # "End"

\* A machine that waits for its entry has no callback and no exit of this life.
Waits ==
    machine = "WaitForEntry" =>
        /\ \A k \in OrderIds : callback[k].at = "idle"
        /\ \A k \in ThisLife : ord[k].step \notin {"TakeProfit", "WithoutLoss"}

\* StopMux has one holder, unless the order has ended: the early return keeps it then.
OneInside ==
    /\ \A j, k \in OrderIds : Inside(j) /\ Inside(k) => j = k
    /\ \A k \in OrderIds : Inside(k) => sm.mux
    /\ ~world.ended /\ sm.mux => \E k \in OrderIds : Inside(k)

\* The open take profits are known; those that are left are the ones its holder
\* is still to cancel.
TakeProfits ==
    /\ \A j, k \in OpenTakeProfits : j = k
    /\ OpenTakeProfits \subseteq model.tapIds
    /\ \A k \in OrderIds : callback[k].at = "cancel" => OpenTakeProfits \subseteq callback[k].ids

Entered == {k \in ThisLife : ord[k].step = "WaitForEntry"}

\* Callbacks are those of fills that were told in this life, which has an order for
\* every level.
Fills ==
    /\ \A k \in OrderIds : callback[k].at # "idle" => k \in Entered /\ ord[k].told
    /\ \A k \in Entered : ord[k].level \in DOMAIN Levels
    /\ ~setup.entryAfterTAP => \A j, k \in Entered : ord[j].level = ord[k].level => j = k

\* A level was selected by a callback that is done.
Selected == sm.selected <= Cardinality({k \in OrderIds : callback[k].at = "done"})

IInv == Shape /\ Lives /\ Runs /\ Waits /\ OneInside /\ TakeProfits /\ Fills /\ Selected
-----------------------------------------------------------------------------
(* Sequences *)

\* r is q with an order e more.
Extends(r, q, e) ==
    /\ IsSequence(r)
    /\ Len(r) = Len(q) + 1
    /\ DOMAIN q \subseteq DOMAIN r
    /\ \A k \in DOMAIN q : r[k] = q[k]
    /\ \A k \in DOMAIN r \ DOMAIN q : k = Len(q) + 1
    /\ Len(q) + 1 \in DOMAIN r /\ r[Len(q) + 1] = e

\* r is q with the orders t more.
Continues(r, q, t) ==
    /\ IsSequence(r)
    /\ Len(r) = Len(q) + Len(t)
    /\ DOMAIN q \subseteq DOMAIN r
    /\ \A k \in DOMAIN q : r[k] = q[k]
    /\ \A k \in DOMAIN r \ DOMAIN q : \E i \in DOMAIN t : k = Len(q) + i /\ r[k] = t[i]

\* The orders are numbered from 1.
LEMMA SequenceDomain ==
    ASSUME NEW q, IsSequence(q)
    PROVE  Len(q) \in Nat /\ DOMAIN q = 1 .. Len(q)
  <1>1. PICK S : q \in Seq(S)
    BY DEF IsSequence
  <1> QED
    BY <1>1, LenProperties

\* What changing one order, or every order by a rule, leaves of the sequence.
LEMMA SequenceUpdate ==
    ASSUME NEW q, IsSequence(q), NEW r, DOMAIN r = DOMAIN q,
           r = [k \in DOMAIN q |-> r[k]]
    PROVE  IsSequence(r) /\ Len(r) = Len(q)
  <1>1. Len(q) \in Nat /\ DOMAIN q = 1 .. Len(q)
    BY SequenceDomain
  <1> DEFINE S == {r[k] : k \in 1 .. Len(q)}
  <1>2. r \in [1 .. Len(q) -> S]
    BY <1>1
  <1>3. r \in Seq(S)
    BY <1>1, <1>2, SeqDef
  <1>4. Len(r) = Len(q)
    BY <1>1, <1>3, LenProperties
  <1> QED
    BY <1>3, <1>4 DEF IsSequence

\* An order that is appended.
LEMMA SequenceAppend ==
    ASSUME NEW q, IsSequence(q), NEW e
    PROVE  Extends(Append(q, e), q, e)
  <1>0. PICK r : r = Append(q, e)
    OBVIOUS
  <1>1. PICK S : q \in Seq(S)
    BY DEF IsSequence
  <1>2. Len(q) \in Nat /\ DOMAIN q = 1 .. Len(q)
    BY SequenceDomain
  <1> DEFINE T == S \cup {e}
  <1>3. q \in Seq(T)
    BY <1>1, SeqDef
  <1>4. /\ r \in Seq(T)
        /\ Len(r) = Len(q) + 1
        /\ \A i \in 1 .. Len(q) : r[i] = q[i]
        /\ r[Len(q) + 1] = e
    BY <1>0, <1>3, AppendProperties
  <1>5. DOMAIN r = 1 .. Len(q) + 1
    BY <1>4, LenProperties
  <1>6. IsSequence(r)
    BY <1>4 DEF IsSequence
  <1> HIDE DEF T
  <1> QED
    BY <1>0, <1>2, <1>4, <1>5, <1>6 DEF Extends

\* Orders that are appended.
LEMMA SequenceConcat ==
    ASSUME NEW q, IsSequence(q), NEW t, IsSequence(t)
    PROVE  Continues(q \o t, q, t)
  <1>0. PICK r : r = q \o t
    OBVIOUS
  <1>1. PICK S1 : q \in Seq(S1)
    BY DEF IsSequence
  <1>2. PICK S2 : t \in Seq(S2)
    BY DEF IsSequence
  <1>3. Len(q) \in Nat /\ DOMAIN q = 1 .. Len(q) /\ Len(t) \in Nat /\ DOMAIN t = 1 .. Len(t)
    BY SequenceDomain
  <1> DEFINE T == S1 \cup S2
  <1>4. q \in Seq(T) /\ t \in Seq(T)
    BY <1>1, <1>2, SeqDef
  <1>5. /\ r \in Seq(T)
        /\ Len(r) = Len(q) + Len(t)
        /\ \A i \in 1 .. Len(q) + Len(t) : r[i] = IF i <= Len(q) THEN q[i] ELSE t[i - Len(q)]
    BY <1>0, <1>4, ConcatProperties
  <1>6. DOMAIN r = 1 .. Len(q) + Len(t)
    BY <1>5, LenProperties
  <1>7. IsSequence(r)
    BY <1>5 DEF IsSequence
  <1> HIDE DEF T
  <1>8. DOMAIN q \subseteq DOMAIN r /\ \A k \in DOMAIN q : r[k] = q[k]
    BY <1>3, <1>5, <1>6
  <1>9. ASSUME NEW k \in DOMAIN r \ DOMAIN q
        PROVE  \E i \in DOMAIN t : k = Len(q) + i /\ r[k] = t[i]
    <2>1. k \in 1 .. Len(q) + Len(t) /\ ~(k <= Len(q))
      BY <1>3, <1>6, <1>9
    <2>2. k - Len(q) \in DOMAIN t /\ k = Len(q) + (k - Len(q))
      BY <1>3, <2>1
    <2>3. r[k] = t[k - Len(q)]
      BY <1>5, <2>1
    <2> QED
      BY <2>2, <2>3
  <1> QED
    BY <1>0, <1>5, <1>7, <1>8, <1>9 DEF Continues

-----------------------------------------------------------------------------
(* What is asked for *)

\* t asks for every level once.
AreEntries(t, s, life) ==
    /\ IsSequence(t) /\ Len(t) = Len(s.levels)
    /\ \A i \in DOMAIN t :
          /\ IsOrder(t[i])
          /\ t[i].step = "WaitForEntry" /\ t[i].level = i /\ i \in DOMAIN s.levels
          /\ t[i].life = life /\ t[i].status = "asked" /\ t[i].told = FALSE

\* t asks for one stop order or two.
AreStops(t, life) ==
    /\ IsSequence(t) /\ Len(t) \in {1, 2}
    /\ \A i \in DOMAIN t :
          /\ IsOrder(t[i])
          /\ t[i].step \in {"Stoploss", "ForcedLoss"}
          /\ t[i].life = life /\ t[i].status = "asked" /\ t[i].told = FALSE

\* A setup has levels, and a bound on the orders.
LEMMA SetupParts ==
    ASSUME NEW s \in Setups
    PROVE  /\ IsSequence(s.levels)
           /\ s.orders \in Nat /\ Len(s.levels) + 2 <= s.orders
           /\ 1 .. s.orders \subseteq OrderIds
           /\ s.forcedLoss \in BOOLEAN /\ s.entryAfterTAP \in BOOLEAN
  <1>1. s \in SetupType
    BY AveragingAssumption DEF AveragingAssumption
  <1> QED
    BY <1>1, AveragingAssumption DEF AveragingAssumption, SetupType, IsSequence, OrderIds

\* A level order for every level.
LEMMA EntryOrdersParts ==
    ASSUME NEW s \in Setups, NEW life \in Nat
    PROVE  AreEntries(EntryOrders(s, life), s, life)
  <1>0. PICK t : t = EntryOrders(s, life)
    OBVIOUS
  <1>1. IsSequence(s.levels) /\ Len(s.levels) \in Nat /\ DOMAIN s.levels = 1 .. Len(s.levels)
    BY SetupParts, SequenceDomain
  <1>2. /\ DOMAIN t = DOMAIN s.levels
        /\ t = [k \in DOMAIN s.levels |-> t[k]]
        /\ \A i \in DOMAIN t : t[i] = Order("WaitForEntry", i, LevelAmount(s, i), life)
    BY <1>0 DEF EntryOrders
  <1>3. IsSequence(t) /\ Len(t) = Len(s.levels)
    BY <1>1, <1>2, SequenceUpdate
  <1>4. ASSUME NEW i \in DOMAIN t
        PROVE  /\ IsOrder(t[i])
               /\ t[i].step = "WaitForEntry" /\ t[i].level = i /\ i \in DOMAIN s.levels
               /\ t[i].life = life /\ t[i].status = "asked" /\ t[i].told = FALSE
    <2>1. i \in Nat /\ "WaitForEntry" \in Steps
      BY <1>1, <1>2 DEF Steps
    <2> QED
      <3>1. PICK o : o = t[i]
        OBVIOUS
      <3>2. PICK q : q = LevelAmount(s, i)
        OBVIOUS
      <3>3. o = [step |-> "WaitForEntry", level |-> i, qty |-> q, life |-> life,
                 status |-> "asked", filled |-> 0, told |-> FALSE]
        BY <1>2, <3>1, <3>2 DEF Order
      <3>4. IsOrder(o) /\ o.step = "WaitForEntry" /\ o.level = i
            /\ o.life = life /\ o.status = "asked" /\ o.told = FALSE
        BY <2>1, <3>3 DEF IsOrder
      <3> QED
        BY <1>2, <3>1, <3>4
  <1> QED
    BY <1>0, <1>3, <1>4 DEF AreEntries

\* The stop orders that are asked for with the levels.
LEMMA StopOrdersParts ==
    ASSUME NEW s \in Setups, NEW life \in Nat
    PROVE  AreStops(StopOrders(s, life), life)
  <1>0. PICK t : t = StopOrders(s, life)
    OBVIOUS
  <1>1. PICK o1 : o1 = Order("Stoploss", 0, MapThenSumSet(LAMBDA i : LevelAmount(s, i), DOMAIN s.levels), life)
    OBVIOUS
  <1>2. PICK o2 : o2 = Order("ForcedLoss", 0, s.amount, life)
    OBVIOUS
  <1>3. t = <<o1>> \o IF s.forcedLoss THEN <<o2>> ELSE <<>>
    BY <1>0, <1>1, <1>2 DEF StopOrders
  <1>4. /\ IsOrder(o1) /\ o1.step \in {"Stoploss", "ForcedLoss"}
        /\ o1.life = life /\ o1.status = "asked" /\ o1.told = FALSE
    <2>1. "Stoploss" \in Steps /\ 0 \in Nat
      BY DEF Steps
    <2> QED
      BY <1>1, <2>1 DEF Order, IsOrder
  <1>5. /\ IsOrder(o2) /\ o2.step \in {"Stoploss", "ForcedLoss"}
        /\ o2.life = life /\ o2.status = "asked" /\ o2.told = FALSE
    <2>1. "ForcedLoss" \in Steps /\ 0 \in Nat
      BY DEF Steps
    <2> QED
      BY <1>2, <2>1 DEF Order, IsOrder
  <1>6. CASE s.forcedLoss
    <2> DEFINE S == {o1, o2}
    <2>1. <<o1>> \in Seq(S) /\ <<o2>> \in Seq(S) /\ t = <<o1>> \o <<o2>>
      BY <1>3, <1>6
    <2>2. IsSequence(t) /\ Len(t) = 2 /\ DOMAIN t = 1 .. 2 /\ t[1] = o1 /\ t[2] = o2
      <3>1. /\ t \in Seq(S) /\ Len(t) = Len(<<o1>>) + Len(<<o2>>)
            /\ \A i \in 1 .. Len(<<o1>>) + Len(<<o2>>) :
                  t[i] = IF i <= Len(<<o1>>) THEN <<o1>>[i] ELSE <<o2>>[i - Len(<<o1>>)]
        BY <2>1, ConcatProperties
      <3>2. Len(<<o1>>) = 1 /\ Len(<<o2>>) = 1 /\ <<o1>>[1] = o1 /\ <<o2>>[1] = o2
        OBVIOUS
      <3>3. Len(t) = 2 /\ t[1] = o1 /\ t[2] = o2
        BY <3>1, <3>2
      <3>4. DOMAIN t = 1 .. 2 /\ IsSequence(t)
        BY <3>1, <3>3, LenProperties DEF IsSequence
      <3> QED
        BY <3>3, <3>4
    <2> QED
      BY <1>0, <1>4, <1>5, <2>2 DEF AreStops
  <1>7. CASE ~s.forcedLoss
    <2>1. t = <<o1>>
      <3>1. t = <<o1>> \o <<>> /\ <<o1>> \in Seq({o1})
        BY <1>3, <1>7
      <3> QED
        BY <3>1, ConcatEmptySeq
    <2>2. IsSequence(t) /\ Len(t) = 1 /\ DOMAIN t = 1 .. 1 /\ t[1] = o1
      <3>1. <<o1>> \in Seq({o1}) /\ Len(<<o1>>) = 1 /\ <<o1>>[1] = o1
        OBVIOUS
      <3>2. DOMAIN <<o1>> = 1 .. 1 /\ IsSequence(<<o1>>)
        BY <3>1, LenProperties DEF IsSequence
      <3> QED
        BY <2>1, <3>1, <3>2
    <2> QED
      BY <1>0, <1>4, <2>2 DEF AreStops
  <1> QED
    BY <1>6, <1>7

-----------------------------------------------------------------------------
(* What every step has to show *)

Done == {k \in OrderIds : callback[k].at = "done"}

\* Nothing of an order changes but its status, what was filled and whether that
\* was told; no take profit opens again.
Follows ==
    /\ world'.setup = world.setup /\ world'.crashes = world.crashes
    /\ \A k \in DOMAIN ord :
          /\ k \in DOMAIN ord'
          /\ ord'[k].step = ord[k].step /\ ord'[k].level = ord[k].level
          /\ ord'[k].life = ord[k].life
          /\ ord[k].told => ord'[k].told
          /\ ord'[k].status = "open" /\ ord[k].step = "TakeProfit" => ord[k].status = "open"

\* There is a callback for every order.
LEMMA OrdersHaveCallbacks ==
    ASSUME Shape, Lives
    PROVE  /\ Len(ord) \in Nat /\ DOMAIN ord = 1 .. Len(ord)
           /\ DOMAIN ord \subseteq OrderIds
           /\ setup.orders \in Nat
  <1>1. Len(ord) \in Nat /\ DOMAIN ord = 1 .. Len(ord)
    BY SequenceDomain DEF Shape
  <1>2. setup.orders \in Nat /\ 1 .. setup.orders \subseteq OrderIds
    BY SetupParts DEF Shape, setup
  <1>3. Len(ord) <= setup.orders
    BY DEF Lives
  <1> QED
    BY <1>1, <1>2, <1>3

\* The orders of the levels stay the same: what is heard of them is heard once.
LEMMA FillsKept ==
    ASSUME Fills, Follows,
           \A k \in DOMAIN ord' \ DOMAIN ord : ord'[k].step # "WaitForEntry",
           \A k \in OrderIds : callback'[k].at # "idle" =>
              callback[k].at # "idle" \/ (k \in Entered /\ ord'[k].told)
    PROVE  Fills'
  <1>1. setup' = setup /\ Levels' = Levels
    BY DEF Follows, setup, Levels
  <1>2. Entered' = Entered
    BY DEF Entered, ThisLife, Follows
  <1>3. \A k \in Entered : ord'[k].level = ord[k].level /\ (ord[k].told => ord'[k].told)
    BY DEF Entered, ThisLife, Follows
  <1>4. \A k \in OrderIds : callback'[k].at # "idle" => k \in Entered' /\ ord'[k].told
    BY <1>2, <1>3 DEF Fills
  <1>5. \A k \in Entered' : ord'[k].level \in DOMAIN Levels'
    BY <1>1, <1>2, <1>3 DEF Fills
  <1>6. ~setup'.entryAfterTAP => \A j, k \in Entered' : ord'[j].level = ord'[k].level => j = k
    BY <1>1, <1>2, <1>3 DEF Fills
  <1> QED
    BY <1>4, <1>5, <1>6 DEF Fills

\* No take profit is placed, none is forgotten, and nobody finds other ones.
LEMMA TakeProfitsKept ==
    ASSUME TakeProfits, Follows,
           \A k \in DOMAIN ord' \ DOMAIN ord : ord'[k].step # "TakeProfit",
           model.tapIds \subseteq model'.tapIds,
           \A k \in OrderIds : callback'[k].at = "cancel" =>
              callback[k].at = "cancel" /\ callback'[k].ids = callback[k].ids
    PROVE  TakeProfits'
  <1>1. OpenTakeProfits' \subseteq OpenTakeProfits
    BY DEF OpenTakeProfits, Open, ThisLife, Follows
  <1>2. \A j, k \in OpenTakeProfits' : j = k
    BY <1>1 DEF TakeProfits
  <1>3. OpenTakeProfits' \subseteq model'.tapIds
    BY <1>1 DEF TakeProfits
  <1>4. \A k \in OrderIds : callback'[k].at = "cancel" => OpenTakeProfits' \subseteq callback'[k].ids
    BY <1>1 DEF TakeProfits
  <1> QED
    BY <1>2, <1>3, <1>4 DEF TakeProfits

\* A machine that waits on has placed no exit, and has no callback.
LEMMA WaitsKept ==
    ASSUME Waits, Follows, machine' = "WaitForEntry" => machine = "WaitForEntry",
           machine' = "WaitForEntry" => \A k \in DOMAIN ord' \ DOMAIN ord :
              ord'[k].step \notin {"TakeProfit", "WithoutLoss"},
           machine' = "WaitForEntry" => \A k \in OrderIds : callback'[k].at = callback[k].at
    PROVE  Waits'
  BY DEF Waits, Follows, ThisLife

\* StopMux stays with its holder.
LEMMA OneInsideKept ==
    ASSUME OneInside, sm'.mux = sm.mux, world.ended => world'.ended,
           \A k \in OrderIds : Inside(k)' <=> Inside(k)
    PROVE  OneInside'
  BY DEF OneInside

\* The callbacks that are done are orders, so there are finitely many of them.
LEMMA DoneIsFinite ==
    ASSUME Shape, Lives, Fills
    PROVE  IsFiniteSet(Done) /\ Cardinality(Done) \in Nat
  <1>1. Done \subseteq DOMAIN ord
    BY DEF Done, Fills, Entered, ThisLife
  <1>2. IsFiniteSet(DOMAIN ord)
    BY OrdersHaveCallbacks, FS_Interval
  <1> QED
    BY <1>1, <1>2, FS_Subset, FS_CardinalityType

\* No level is selected and no callback that is done starts again.
LEMMA SelectedKept ==
    ASSUME Shape, Lives, Fills, Selected, sm'.selected \in Nat, sm'.selected <= sm.selected,
           \/ Done' = Done
           \/ \E k \in OrderIds : Done' = Done \cup {k}
    PROVE  Selected'
  <1>1. IsFiniteSet(Done) /\ Cardinality(Done) \in Nat
    BY DoneIsFinite
  <1>2. Cardinality(Done) <= Cardinality(Done') /\ Cardinality(Done') \in Nat
    <2>1. CASE Done' = Done
      BY <1>1, <2>1
    <2>2. ASSUME NEW k \in OrderIds, Done' = Done \cup {k}
          PROVE  Cardinality(Done) <= Cardinality(Done') /\ Cardinality(Done') \in Nat
      <3>1. Cardinality(Done \cup {k}) = IF k \in Done THEN Cardinality(Done) ELSE Cardinality(Done) + 1
        BY <1>1, FS_AddElement
      <3> QED
        BY <1>1, <2>2, <3>1
    <2> QED
      BY <2>1, <2>2
  <1>3. sm.selected \in Nat /\ sm.selected <= Cardinality(Done)
    BY DEF Selected, Done, Shape, SmType
  <1> DEFINE a == sm.selected  b == sm'.selected  c == Cardinality(Done)  d == Cardinality(Done')
  <1>4. sm'.selected <= Cardinality(Done')
    <2>1. a \in Nat /\ b \in Nat /\ c \in Nat /\ d \in Nat /\ b <= a /\ a <= c /\ c <= d
      BY <1>1, <1>2, <1>3
    <2> HIDE DEF a, b, c, d
    <2>2. b <= d
      BY <2>1
    <2> QED
      BY <2>2 DEF b, d
  <1> QED
    BY <1>4 DEF Selected, Done

-----------------------------------------------------------------------------
(* The initial states *)

LEMMA InitIInv == Init => IInv
  <1> SUFFICES ASSUME Init PROVE IInv
    OBVIOUS
  <1>1. PICK s \in Setups :
           /\ world = [setup |-> s, pos |-> 0, crashes |-> 0, ended |-> FALSE]
           /\ ord = EntryOrders(s, 0) \o StopOrders(s, 0)
    BY DEF Init
  <1>2. setup = s /\ Levels = s.levels /\ world.crashes = 0 /\ world.ended = FALSE
    BY <1>1 DEF setup, Levels
  <1>3. PICK t : t = EntryOrders(s, 0)
    OBVIOUS
  <1>4. PICK u : u = StopOrders(s, 0)
    OBVIOUS
  <1>5. AreEntries(t, s, 0)
    BY <1>3, EntryOrdersParts
  <1>6. AreStops(u, 0)
    BY <1>4, StopOrdersParts
  <1>7. Continues(ord, t, u)
    <2>1. ord = t \o u
      BY <1>1, <1>3, <1>4
    <2> QED
      BY <1>5, <1>6, <2>1, SequenceConcat DEF AreEntries, AreStops
  <1>8. \A k \in DOMAIN ord :
           /\ IsOrder(ord[k])
           /\ ord[k].life = 0 /\ ord[k].status = "asked"
           /\ ord[k].step \in {"WaitForEntry", "Stoploss", "ForcedLoss"}
           /\ ord[k].step = "WaitForEntry" => ord[k].level = k /\ k \in DOMAIN s.levels
    BY <1>5, <1>6, <1>7 DEF AreEntries, AreStops, Continues
  <1>9. /\ machine = "WaitForEntry" /\ model = NewModel /\ sm = NewSm /\ doc = NewModel
        /\ callback = [k \in OrderIds |-> Idle]
    BY DEF Init
  <1>10. \A k \in OrderIds : callback[k].at = "idle"
    BY <1>9 DEF Idle
  <1>11. IsModel(model) /\ IsModel(doc) /\ model.state = "" /\ doc.state = ""
    BY <1>9 DEF NewModel, IsModel
  <1>12. sm \in SmType /\ sm.mux = FALSE /\ sm.selected = 0
    BY <1>9 DEF NewSm, SmType
  <1>13. callback \in [OrderIds -> CallbackType]
    BY <1>9 DEF Idle, CallbackType, Places
  <1>14. Shape
    <2>1. IsSequence(ord) /\ \A k \in DOMAIN ord : IsOrder(ord[k])
      BY <1>7, <1>8 DEF Continues
    <2>2. machine \in MachineStates
      BY <1>9 DEF MachineStates
    <2>3. /\ world = [setup |-> world.setup, pos |-> world.pos, crashes |-> world.crashes,
                      ended |-> world.ended]
          /\ world.setup \in Setups /\ world.crashes \in Nat /\ world.ended \in BOOLEAN
      BY <1>1
    <2> QED
      BY <1>11, <1>12, <1>13, <2>1, <2>2, <2>3 DEF Shape
  <1>15. Lives
    <2>1. Len(s.levels) \in Nat /\ Len(u) \in Nat /\ s.orders \in Nat /\ Len(s.levels) + 2 <= s.orders
      BY <1>6, SetupParts, SequenceDomain DEF AreStops
    <2>2. Len(ord) = Len(t) + Len(u) /\ Len(t) = Len(s.levels) /\ (Len(u) = 1 \/ Len(u) = 2)
      BY <1>5, <1>6, <1>7 DEF AreEntries, AreStops, Continues
    <2>3. Len(ord) <= s.orders
      <3>1. PICK a \in Nat, c \in Nat : a = Len(s.levels) /\ c = s.orders /\ a + 2 <= c
        BY <2>1
      <3>2. CASE Len(u) = 1
        <4>1. Len(ord) = a + 1
          BY <2>2, <3>1, <3>2
        <4> QED
          BY <3>1, <4>1
      <3>3. CASE Len(u) = 2
        <4>1. Len(ord) = a + 2
          BY <2>2, <3>1, <3>3
        <4> QED
          BY <3>1, <4>1
      <3> QED
        BY <2>2, <3>2, <3>3
    <2> QED
      BY <1>2, <1>8, <2>3 DEF Lives
  <1>16. Runs
    BY <1>9, <1>11 DEF Runs
  <1>17. Waits
    BY <1>8, <1>10 DEF Waits, ThisLife
  <1>18. OneInside
    BY <1>10, <1>12 DEF OneInside, Inside
  <1>19. TakeProfits
    <2>1. OpenTakeProfits = {}
      BY <1>8 DEF OpenTakeProfits, Open, ThisLife
    <2> QED
      BY <1>10, <2>1 DEF TakeProfits
  <1>20. Fills
    BY <1>2, <1>8, <1>10 DEF Fills, Entered, ThisLife
  <1>21. Selected
    <2>1. {k \in OrderIds : callback[k].at = "done"} = {}
      BY <1>10
    <2> QED
      BY <1>12, <2>1, FS_EmptySet DEF Selected
  <1> QED
    BY <1>14, <1>15, <1>16, <1>17, <1>18, <1>19, <1>20, <1>21 DEF IInv

-----------------------------------------------------------------------------
(* Orders and models that change *)

\* o is p with another status, another amount filled, or told.
Becomes(p, o) ==
    /\ IsOrder(o)
    /\ o.step = p.step /\ o.level = p.level /\ o.life = p.life
    /\ p.told => o.told

\* n differs from m in what the argument does not use.
Alike(n, m) == IsModel(n) /\ n.state = m.state /\ n.tapIds = m.tapIds

\* An order that is taken, canceled or filled.
LEMMA OrderStatus ==
    ASSUME NEW o, IsOrder(o), NEW v
    PROVE  /\ Becomes(o, [o EXCEPT !.status = v])
           /\ [o EXCEPT !.status = v].status = v
           /\ [o EXCEPT !.status = v].told = o.told
  BY DEF IsOrder, Becomes

\* An order whose end is told.
LEMMA OrderTold ==
    ASSUME NEW o, IsOrder(o)
    PROVE  /\ Becomes(o, [o EXCEPT !.told = TRUE])
           /\ [o EXCEPT !.told = TRUE].status = o.status
           /\ [o EXCEPT !.told = TRUE].told = TRUE
  <1>1. PICK p : p = [o EXCEPT !.told = TRUE]
    OBVIOUS
  <1>2. p = [step |-> o.step, level |-> o.level, qty |-> o.qty, life |-> o.life,
             status |-> o.status, filled |-> o.filled, told |-> TRUE]
    BY <1>1 DEF IsOrder
  <1>3. Becomes(o, p) /\ p.status = o.status /\ p.told = TRUE
    BY <1>2 DEF IsOrder, Becomes
  <1> QED
    BY <1>1, <1>3

\* Every order there is becomes what it becomes, and no other is asked for.
Moves ==
    /\ IsSequence(ord') /\ Len(ord') = Len(ord) /\ DOMAIN ord' = DOMAIN ord
    /\ \A k \in DOMAIN ord :
          /\ Becomes(ord[k], ord'[k])
          /\ ord'[k].status = "asked" => ord[k].status = "asked"
          /\ ord'[k].status = "open" /\ ord[k].step = "TakeProfit" => ord[k].status = "open"

\* What TryCancelAllOrders does to the orders.
LEMMA ClosedMoves ==
    ASSUME Shape, NEW ids, ord' = Closed(ids)
    PROVE  Moves
  <1>1. IsSequence(ord) /\ \A k \in DOMAIN ord : IsOrder(ord[k])
    BY DEF Shape
  <1>2. /\ DOMAIN ord' = DOMAIN ord
        /\ ord' = [k \in DOMAIN ord |-> ord'[k]]
        /\ \A k \in DOMAIN ord : ord'[k] = ord[k] \/ ord'[k] = [ord[k] EXCEPT !.status = "canceled"]
    BY DEF Closed
  <1>3. IsSequence(ord') /\ Len(ord') = Len(ord)
    BY <1>1, <1>2, SequenceUpdate
  <1>4. ASSUME NEW k \in DOMAIN ord
        PROVE  /\ Becomes(ord[k], ord'[k])
               /\ ord'[k].status = "asked" => ord[k].status = "asked"
               /\ ord'[k].status = "open" => ord[k].status = "open"
    <2>1. CASE ord'[k] = ord[k]
      BY <1>1, <2>1 DEF Becomes
    <2>2. CASE ord'[k] = [ord[k] EXCEPT !.status = "canceled"]
      BY <1>1, <2>2, OrderStatus
    <2> QED
      BY <1>2, <2>1, <2>2
  <1> QED
    BY <1>2, <1>3, <1>4 DEF Moves

\* One order becomes another.
LEMMA OneMoves ==
    ASSUME Shape, NEW k \in DOMAIN ord, NEW o, ord' = [ord EXCEPT ![k] = o], Becomes(ord[k], o),
           o.status # "asked",
           o.status = "open" => ord[k].status = "open" \/ ord[k].step # "TakeProfit"
    PROVE  Moves
  <1>1. IsSequence(ord) /\ \A j \in DOMAIN ord : IsOrder(ord[j])
    BY DEF Shape
  <1>2. /\ DOMAIN ord' = DOMAIN ord
        /\ ord' = [j \in DOMAIN ord |-> ord'[j]]
        /\ ord'[k] = o
        /\ \A j \in DOMAIN ord : j # k => ord'[j] = ord[j]
    OBVIOUS
  <1>3. IsSequence(ord') /\ Len(ord') = Len(ord)
    BY <1>1, <1>2, SequenceUpdate
  <1>4. ASSUME NEW j \in DOMAIN ord
        PROVE  /\ Becomes(ord[j], ord'[j])
               /\ ord'[j].status = "asked" => ord[j].status = "asked"
               /\ ord'[j].status = "open" /\ ord[j].step = "TakeProfit" => ord[j].status = "open"
    <2>1. CASE j # k
      BY <1>1, <1>2, <2>1 DEF Becomes
    <2>2. CASE j = k
      BY <1>2, <2>2
    <2> QED
      BY <2>1, <2>2
  <1> QED
    BY <1>2, <1>3, <1>4 DEF Moves

\* A model with another list of level orders.
LEMMA WaitIdsAlike ==
    ASSUME NEW m, IsModel(m), NEW v
    PROVE  Alike([m EXCEPT !.waitIds = v], m)
  <1>1. PICK n : n = [m EXCEPT !.waitIds = v]
    OBVIOUS
  <1>2. n = [state |-> m.state, entered |-> m.entered, saved |-> m.saved,
             executed |-> m.executed, position |-> m.position, tapIds |-> m.tapIds,
             waitIds |-> v, forcedIds |-> m.forcedIds, enabled |-> m.enabled]
    BY <1>1 DEF IsModel
  <1>3. Alike(n, m)
    BY <1>2 DEF IsModel, Alike
  <1> QED
    BY <1>1, <1>3

\* A model with another list of forced stop orders.
LEMMA ForcedIdsAlike ==
    ASSUME NEW m, IsModel(m), NEW v
    PROVE  Alike([m EXCEPT !.forcedIds = v], m)
  <1>1. PICK n : n = [m EXCEPT !.forcedIds = v]
    OBVIOUS
  <1>2. n = [state |-> m.state, entered |-> m.entered, saved |-> m.saved,
             executed |-> m.executed, position |-> m.position, tapIds |-> m.tapIds,
             waitIds |-> m.waitIds, forcedIds |-> v, enabled |-> m.enabled]
    BY <1>1 DEF IsModel
  <1>3. Alike(n, m)
    BY <1>2 DEF IsModel, Alike
  <1> QED
    BY <1>1, <1>3

\* A model that is disabled.
LEMMA DisabledAlike ==
    ASSUME NEW m, IsModel(m), NEW v \in BOOLEAN
    PROVE  Alike([m EXCEPT !.enabled = v], m)
  <1>1. PICK n : n = [m EXCEPT !.enabled = v]
    OBVIOUS
  <1>2. n = [state |-> m.state, entered |-> m.entered, saved |-> m.saved,
             executed |-> m.executed, position |-> m.position, tapIds |-> m.tapIds,
             waitIds |-> m.waitIds, forcedIds |-> m.forcedIds, enabled |-> v]
    BY <1>1 DEF IsModel
  <1>3. Alike(n, m)
    BY <1>2 DEF IsModel, Alike
  <1> QED
    BY <1>1, <1>3

\* A model in another state.
LEMMA StateSet ==
    ASSUME NEW m, IsModel(m), NEW s \in MachineStates \cup {""}
    PROVE  IsModel([m EXCEPT !.state = s]) /\ [m EXCEPT !.state = s].state = s /\ [m EXCEPT !.state = s].tapIds = m.tapIds
  <1>1. PICK n : n = [m EXCEPT !.state = s]
    OBVIOUS
  <1>2. n = [state |-> s, entered |-> m.entered, saved |-> m.saved,
             executed |-> m.executed, position |-> m.position, tapIds |-> m.tapIds,
             waitIds |-> m.waitIds, forcedIds |-> m.forcedIds, enabled |-> m.enabled]
    BY <1>1 DEF IsModel
  <1>3. IsModel(n) /\ n.state = s /\ n.tapIds = m.tapIds
    BY <1>2 DEF IsModel, Alike
  <1> QED
    BY <1>1, <1>3

\* A world whose position, restarts or end change.
LEMMA WorldParts ==
    ASSUME Shape, NEW v
    PROVE  /\ [world EXCEPT !.pos = v] =
                 [setup |-> world.setup, pos |-> v, crashes |-> world.crashes, ended |-> world.ended]
           /\ [world EXCEPT !.crashes = v] =
                 [setup |-> world.setup, pos |-> world.pos, crashes |-> v, ended |-> world.ended]
           /\ [world EXCEPT !.ended = v] =
                 [setup |-> world.setup, pos |-> world.pos, crashes |-> world.crashes, ended |-> v]
  BY DEF Shape

\* Whatever moves, no order is of a later life or of another step.
LEMMA LivesKept ==
    ASSUME Lives, Moves, world'.setup = world.setup, world'.crashes = world.crashes
    PROVE  Lives' /\ Follows
  BY DEF Lives, Moves, Becomes, Follows, setup

-----------------------------------------------------------------------------
(* Orders that are taken, canceled and filled *)

\* Orders move, and nothing else that the argument is about.
LEMMA OrdersOnly ==
    ASSUME IInv, Moves, Alike(model', model),
           \A k \in DOMAIN ord : ord'[k].told = ord[k].told,
           sm' \in SmType, sm'.mux = sm.mux, sm'.selected = sm.selected,
           machine' = machine, doc' = doc, callback' = callback,
           \E v : world' = [world EXCEPT !.pos = v]
    PROVE  IInv'
  <1>0. /\ Shape /\ Lives /\ Runs /\ Waits
        /\ OneInside /\ TakeProfits /\ Fills /\ Selected
    BY DEF IInv
  <1>1. /\ world'.setup = world.setup /\ world'.crashes = world.crashes
        /\ world'.ended = world.ended
        /\ world' = [setup |-> world'.setup, pos |-> world'.pos, crashes |-> world'.crashes,
                     ended |-> world'.ended]
    BY <1>0, WorldParts
  <1>2. Lives' /\ Follows
    BY <1>0, <1>1, LivesKept
  <1>3. Shape'
    <2>1. IsSequence(ord') /\ \A k \in DOMAIN ord' : IsOrder(ord'[k])
      BY DEF Moves, Becomes
    <2>2. IsModel(model') /\ IsModel(doc')
      BY <1>0 DEF Shape, Alike
    <2> QED
      BY <1>0, <1>1, <2>1, <2>2 DEF Shape
  <1>4. Runs'
    BY <1>0, <1>1 DEF Runs, Alike
  <1>5. Waits'
    BY <1>0, <1>2, WaitsKept DEF Moves
  <1>6. OneInside'
    BY <1>0, <1>1, OneInsideKept DEF Inside
  <1>7. TakeProfits'
    BY <1>0, <1>2, TakeProfitsKept DEF Moves, Alike
  <1>8. Fills'
    BY <1>0, <1>2, FillsKept DEF Moves
  <1>9. Selected'
    BY <1>0 DEF Selected
  <1> QED
    BY <1>2, <1>3, <1>4, <1>5, <1>6, <1>7, <1>8, <1>9 DEF IInv

\* AcceptOrder keeps the invariant.
LEMMA AcceptOrderKeeps ==
    ASSUME IInv, NEW k \in DOMAIN ord, AcceptOrder(k)
    PROVE  IInv'
  <1>0. Shape /\ Lives
    BY DEF IInv
  <1>1. /\ ord[k].status = "asked" /\ ord' = [ord EXCEPT ![k].status = "open"]
        /\ machine' = machine /\ doc' = doc /\ callback' = callback /\ world' = world
    BY DEF AcceptOrder
  <1>2. ord[k].step \in {"WaitForEntry", "Stoploss", "ForcedLoss"}
    BY <1>0, <1>1 DEF Lives
  <1>3. PICK o : o = [ord[k] EXCEPT !.status = "open"]
    OBVIOUS
  <1>4. IsOrder(ord[k])
    BY <1>0 DEF Shape
  <1>5. Becomes(ord[k], o) /\ o.status = "open" /\ o.told = ord[k].told
    BY <1>3, <1>4, OrderStatus
  <1>6. ord' = [ord EXCEPT ![k] = o]
    BY <1>1, <1>3
  <1>7. Moves
    BY <1>0, <1>2, <1>5, <1>6, OneMoves
  <1>8. \A j \in DOMAIN ord : ord'[j].told = ord[j].told
    BY <1>5, <1>6
  <1>9. IsModel(model) /\ sm \in SmType
    BY <1>0 DEF Shape
  <1>10. Alike(model', model) /\ sm' \in SmType /\ sm'.mux = sm.mux /\ sm'.selected = sm.selected
    <2>1. CASE ord[k].step = "WaitForEntry"
      <3>1. model' = [model EXCEPT !.waitIds = @ \cup {k}] /\ sm' = sm
        BY <2>1 DEF AcceptOrder
      <3> QED
        BY <1>9, <3>1, WaitIdsAlike
    <2>2. CASE ord[k].step = "ForcedLoss"
      <3>1. model' = [model EXCEPT !.forcedIds = @ \cup {k}]
            /\ sm' = [sm EXCEPT !.waiting = @ \cup {"ForcedLoss"}]
        BY <2>2 DEF AcceptOrder
      <3>2. sm' \in SmType /\ sm'.mux = sm.mux /\ sm'.selected = sm.selected
        BY <1>9, <3>1 DEF SmType
      <3> QED
        BY <1>9, <3>1, <3>2, ForcedIdsAlike
    <2>3. CASE ord[k].step = "Stoploss"
      <3>1. model' = model /\ sm' = sm
        BY <2>3 DEF AcceptOrder
      <3> QED
        BY <1>9, <3>1 DEF Alike
    <2> QED
      BY <1>2, <2>1, <2>2, <2>3
  <1>11. \E v : world' = [world EXCEPT !.pos = v]
    <2>1. world' = [world EXCEPT !.pos = world.pos]
      BY <1>0, <1>1 DEF Shape
    <2> QED
      BY <2>1
  <1> QED
    BY <1>1, <1>7, <1>8, <1>10, <1>11, OrdersOnly

\* CancelOrder keeps the invariant.
LEMMA CancelOrderKeeps ==
    ASSUME IInv, NEW k \in canceling, CancelOrder(k)
    PROVE  IInv'
  <1>0. Shape
    BY DEF IInv
  <1>1. /\ ord' = Closed({k})
        /\ machine' = machine /\ model' = model /\ sm' = sm /\ doc' = doc
        /\ callback' = callback /\ world' = world
    BY DEF CancelOrder
  <1>2. Moves
    BY <1>0, <1>1, ClosedMoves
  <1>3. \A j \in DOMAIN ord : ord'[j].told = ord[j].told
    <2>1. ASSUME NEW j \in DOMAIN ord PROVE ord'[j].told = ord[j].told
      <3>1. ord'[j] = ord[j] \/ ord'[j] = [ord[j] EXCEPT !.status = "canceled"]
        BY <1>1 DEF Closed
      <3>2. IsOrder(ord[j])
        BY <1>0 DEF Shape
      <3>3. [ord[j] EXCEPT !.status = "canceled"].told = ord[j].told
        BY <3>2, OrderStatus
      <3> QED
        BY <3>1, <3>3
    <2> QED
      BY <2>1
  <1>4. Alike(model', model) /\ sm' \in SmType
    BY <1>0, <1>1 DEF Alike, Shape
  <1>5. \E v : world' = [world EXCEPT !.pos = v]
    <2>1. world' = [world EXCEPT !.pos = world.pos]
      BY <1>0, <1>1 DEF Shape
    <2> QED
      BY <2>1
  <1> QED
    BY <1>1, <1>2, <1>3, <1>4, <1>5, OrdersOnly

\* Fill keeps the invariant.
LEMMA FillKeeps ==
    ASSUME IInv, NEW k \in DOMAIN ord, Fill(k)
    PROVE  IInv'
  <1>0. Shape
    BY DEF IInv
  <1>1. /\ machine' = machine /\ model' = model /\ sm' = sm /\ doc' = doc
        /\ callback' = callback
    BY DEF Fill
  <1>2. PICK v \in {"filled", "canceled"} :
           \E w, q : /\ ord' = [ord EXCEPT ![k].status = v, ![k].filled = w]
                     /\ world' = [world EXCEPT !.pos = q]
    BY DEF Fill
  <1>3. PICK w, q : /\ ord' = [ord EXCEPT ![k].status = v, ![k].filled = w]
                     /\ world' = [world EXCEPT !.pos = q]
    BY <1>2
  <1>4. PICK o : o = [ord[k] EXCEPT !.status = v, !.filled = w]
    OBVIOUS
  <1>5. IsOrder(ord[k])
    BY <1>0 DEF Shape
  <1>6. Becomes(ord[k], o) /\ o.status = v /\ o.told = ord[k].told
    <2>1. PICK p : p = ord[k]
      OBVIOUS
    <2>2. o = [step |-> p.step, level |-> p.level, qty |-> p.qty, life |-> p.life,
               status |-> v, filled |-> w, told |-> p.told]
      BY <1>4, <1>5, <2>1 DEF IsOrder
    <2>3. Becomes(p, o) /\ o.status = v /\ o.told = p.told
      BY <1>5, <2>1, <2>2 DEF IsOrder, Becomes
    <2> QED
      BY <2>1, <2>3
  <1>7. ord' = [ord EXCEPT ![k] = o]
    BY <1>3, <1>4
  <1>8. o.status \in {"filled", "canceled"}
    BY <1>2, <1>6
  <1>9. Moves
    BY <1>0, <1>6, <1>7, <1>8, OneMoves
  <1>10. \A j \in DOMAIN ord : ord'[j].told = ord[j].told
    BY <1>6, <1>7
  <1>11. Alike(model', model) /\ sm' \in SmType
    BY <1>0, <1>1 DEF Alike, Shape
  <1> QED
    BY <1>1, <1>9, <1>10, <1>11, <1>3, OrdersOnly

-----------------------------------------------------------------------------
(* Fills that are heard *)

\* calculateAndSavePNL changes amounts.
LEMMA WithPNLAlike ==
    ASSUME NEW m, IsModel(m), NEW filled
    PROVE  Alike(WithPNL(m, filled), m)
  <1>1. PICK n : n = WithPNL(m, filled)
    OBVIOUS
  <1>2. PICK v, w : n = [m EXCEPT !.position = v, !.executed = w]
    BY <1>1 DEF WithPNL
  <1>3. n = [state |-> m.state, entered |-> m.entered, saved |-> m.saved,
             executed |-> w, position |-> v, tapIds |-> m.tapIds,
             waitIds |-> m.waitIds, forcedIds |-> m.forcedIds, enabled |-> m.enabled]
    BY <1>2 DEF IsModel
  <1>4. Alike(n, m)
    BY <1>3 DEF IsModel, Alike
  <1> QED
    BY <1>1, <1>4

\* The end of an average changes prices.
LEMMA ClosesAverageAlike ==
    ASSUME NEW m, IsModel(m)
    PROVE  Alike(ClosesAverage(m), m)
  <1>1. PICK n : n = ClosesAverage(m)
    OBVIOUS
  <1>2. CASE m.entered \/ m.saved
    <2>1. n = [m EXCEPT !.entered = FALSE, !.saved = TRUE]
      BY <1>1, <1>2 DEF ClosesAverage
    <2>2. n = [state |-> m.state, entered |-> FALSE, saved |-> TRUE,
               executed |-> m.executed, position |-> m.position, tapIds |-> m.tapIds,
               waitIds |-> m.waitIds, forcedIds |-> m.forcedIds, enabled |-> m.enabled]
      BY <2>1 DEF IsModel
    <2>3. Alike(n, m)
      BY <2>2 DEF IsModel, Alike
    <2> QED
      BY <1>1, <2>3
  <1>3. CASE ~(m.entered \/ m.saved)
    BY <1>3 DEF ClosesAverage, Alike
  <1> QED
    BY <1>2, <1>3

\* A transition goes forward, and an order whose machine is not in End goes on.
LEMMA TransitionParts ==
    ASSUME Shape, Runs, ~world.ended, NEW m, IsModel(m), NEW goes \in BOOLEAN,
           m.state = "End" => goes /\ machine # "WaitForEntry",
           Transition(m, goes)
    PROVE  /\ machine' \in MachineStates /\ IsModel(model') /\ IsModel(doc')
           /\ model'.tapIds = m.tapIds
           /\ world' = [setup |-> world.setup, pos |-> world.pos, crashes |-> world.crashes,
                        ended |-> world'.ended]
           /\ world'.ended \in BOOLEAN
           /\ machine' = "WaitForEntry" => machine = "WaitForEntry"
           /\ Runs'
  <1>1. machine \in MachineStates /\ IsModel(doc) /\ doc.state # "End" /\ machine # "End"
    BY DEF Shape, Runs
  <1>2. PICK next : next = IF ~goes THEN machine
                           ELSE IF machine = "WaitForEntry" THEN "InMultiEntry" ELSE "End"
    OBVIOUS
  <1>3. next \in MachineStates /\ (next = "WaitForEntry" => machine = "WaitForEntry")
    BY <1>1, <1>2 DEF MachineStates
  <1>4. PICK saved : saved = IF m.entered \/ m.saved THEN m ELSE doc
    OBVIOUS
  <1>5. IsModel(saved) /\ (saved.state = "End" => m.state = "End")
    BY <1>1, <1>4
  <1>6. /\ machine' = next
        /\ model' = IF goes /\ next = "End" THEN [m EXCEPT !.state = "End"] ELSE m
        /\ doc' = IF goes /\ next = "End" THEN [saved EXCEPT !.state = "End"] ELSE saved
        /\ world' = [world EXCEPT !.ended = next = "End"]
    BY <1>2, <1>4 DEF Transition
  <1>7. "End" \in MachineStates \cup {""}
    BY DEF MachineStates
  <1>8. IsModel(model') /\ model'.tapIds = m.tapIds
    BY <1>6, <1>7, StateSet
  <1>9. IsModel(doc')
    BY <1>5, <1>6, <1>7, StateSet
  <1>10. PICK e \in BOOLEAN : e = (next = "End")
    OBVIOUS
  <1>11. world' = [setup |-> world.setup, pos |-> world.pos, crashes |-> world.crashes, ended |-> e]
    <2>1. world' = [world EXCEPT !.ended = e]
      BY <1>6, <1>10
    <2> QED
      BY <2>1, WorldParts
  <1>12. world'.ended = e
    BY <1>11
  <1>13. Runs'
    <2>1. SUFFICES ASSUME ~world'.ended
                   PROVE  machine' # "End" /\ model'.state # "End" /\ doc'.state # "End"
      BY DEF Runs
    <2>2. next # "End"
      BY <1>10, <1>12, <2>1
    <2>3. m.state # "End"
      <3>1. ASSUME m.state = "End" PROVE FALSE
        <4>1. goes /\ machine # "WaitForEntry"
          BY <3>1
        <4> QED
          BY <1>2, <2>2, <4>1
      <3> QED
        BY <3>1
    <2>4. model' = m /\ doc' = saved /\ machine' = next
      BY <1>6, <2>2
    <2> QED
      BY <1>5, <2>2, <2>3, <2>4
  <1> QED
    BY <1>3, <1>6, <1>8, <1>9, <1>11, <1>12, <1>13

\* The end of an order is told.
LEMMA ToldMoves ==
    ASSUME Shape, NEW k \in DOMAIN ord, ord[k].status = "filled"
    PROVE  \E o : /\ [ord EXCEPT ![k].told = TRUE] = [ord EXCEPT ![k] = o]
                  /\ Becomes(ord[k], o) /\ o.status = "filled" /\ o.told
  <1>1. IsOrder(ord[k])
    BY DEF Shape
  <1>2. PICK o : o = [ord[k] EXCEPT !.told = TRUE]
    OBVIOUS
  <1>3. Becomes(ord[k], o) /\ o.status = "filled" /\ o.told
    BY <1>1, <1>2, OrderTold
  <1>4. [ord EXCEPT ![k].told = TRUE] = [ord EXCEPT ![k] = o]
    BY <1>2
  <1> QED
    BY <1>3, <1>4

\* HearEntry keeps the invariant.
LEMMA HearEntryKeeps ==
    ASSUME IInv, NEW k \in DOMAIN ord, HearEntry(k)
    PROVE  IInv'
  <1>0. /\ Shape /\ Lives /\ Runs /\ Waits
        /\ OneInside /\ TakeProfits /\ Fills /\ Selected
    BY DEF IInv
  <1>1. /\ ~world.ended /\ k \in ThisLife /\ ord[k].status = "filled" /\ ~ord[k].told
        /\ ord[k].step = "WaitForEntry"
        /\ ord' = [ord EXCEPT ![k].told = TRUE]
        /\ model' = [model EXCEPT !.state = "InMultiEntry", !.entered = TRUE]
        /\ callback' = IF machine = "InMultiEntry" THEN [callback EXCEPT ![k].at = "mux"]
                                                   ELSE callback
        /\ machine' = machine /\ sm' = sm /\ doc' = doc /\ world' = world
    BY DEF HearEntry, Hears
  <1>2. k \in OrderIds /\ k \in Entered
    BY <1>0, <1>1, OrdersHaveCallbacks DEF Entered
  <1>3. callback[k].at = "idle"
    BY <1>0, <1>1, <1>2 DEF Fills
  <1>4. PICK o : /\ [ord EXCEPT ![k].told = TRUE] = [ord EXCEPT ![k] = o]
                 /\ Becomes(ord[k], o) /\ o.status = "filled" /\ o.told
    BY <1>0, <1>1, ToldMoves
  <1>5. ord' = [ord EXCEPT ![k] = o] /\ ord'[k].told
    BY <1>1, <1>4
  <1>6. Moves
    BY <1>0, <1>4, <1>5, OneMoves
  <1>7. Lives' /\ Follows
    BY <1>0, <1>1, <1>6, LivesKept
  <1>8. /\ callback' \in [OrderIds -> CallbackType]
        /\ \A j \in OrderIds : callback'[j].ids = callback[j].ids
        /\ \A j \in OrderIds : j # k => callback'[j].at = callback[j].at
        /\ callback'[k].at \in {"idle", "mux"}
        /\ machine # "InMultiEntry" => callback' = callback
    <2>1. callback \in [OrderIds -> CallbackType]
      BY <1>0 DEF Shape
    <2>2. CASE machine = "InMultiEntry"
      <3>1. callback' = [callback EXCEPT ![k].at = "mux"]
        BY <1>1, <2>2
      <3>2. "mux" \in Places
        BY DEF Places
      <3> QED
        BY <1>2, <2>1, <2>2, <3>1, <3>2 DEF CallbackType
    <2>3. CASE machine # "InMultiEntry"
      BY <1>1, <1>3, <2>1, <2>3
    <2> QED
      BY <2>2, <2>3
  <1>9. IsModel(model') /\ model'.state = "InMultiEntry" /\ model'.tapIds = model.tapIds
    <2>1. IsModel(model) /\ "InMultiEntry" \in MachineStates
      BY <1>0 DEF Shape, MachineStates
    <2>2. model' = [state |-> "InMultiEntry", entered |-> TRUE, saved |-> model.saved,
                    executed |-> model.executed, position |-> model.position,
                    tapIds |-> model.tapIds, waitIds |-> model.waitIds,
                    forcedIds |-> model.forcedIds, enabled |-> model.enabled]
      BY <1>1, <2>1 DEF IsModel
    <2> QED
      BY <2>1, <2>2 DEF IsModel
  <1>10. Shape'
    <2>1. IsSequence(ord') /\ \A j \in DOMAIN ord' : IsOrder(ord'[j])
      BY <1>6 DEF Moves, Becomes
    <2> QED
      BY <1>0, <1>1, <1>8, <1>9, <2>1 DEF Shape
  <1>11. Runs'
    BY <1>0, <1>1, <1>9 DEF Runs
  <1>12. Waits'
    BY <1>0, <1>1, <1>6, <1>7, <1>8, WaitsKept DEF Moves
  <1>13. OneInside'
    BY <1>0, <1>1, <1>3, <1>8, OneInsideKept DEF Inside
  <1>14. TakeProfits'
    <2>1. \A j \in OrderIds : callback'[j].at = "cancel" =>
             callback[j].at = "cancel" /\ callback'[j].ids = callback[j].ids
      BY <1>8
    <2> QED
      BY <1>0, <1>6, <1>7, <1>9, <2>1, TakeProfitsKept DEF Moves
  <1>15. Fills'
    <2>1. \A j \in OrderIds : callback'[j].at # "idle" =>
             callback[j].at # "idle" \/ (j \in Entered /\ ord'[j].told)
      BY <1>2, <1>5, <1>8
    <2> QED
      BY <1>0, <1>6, <1>7, <2>1, FillsKept DEF Moves
  <1>16. Selected'
    <2>1. Done' = Done
      BY <1>3, <1>8 DEF Done
    <2> QED
      BY <1>0, <1>1, <2>1 DEF Selected, Done
  <1> QED
    BY <1>7, <1>10, <1>11, <1>12, <1>13, <1>14, <1>15, <1>16 DEF IInv

\* A stop that is heard, or an exit without loss.
LEMMA ExitHeard ==
    ASSUME IInv, NEW k \in DOMAIN ord, Hears(k), NEW m, IsModel(m), m.tapIds = model.tapIds,
           NEW goes \in BOOLEAN, m.state = "End" => goes /\ machine # "WaitForEntry",
           Transition(m, goes),
           ord' = [ord EXCEPT ![k].told = TRUE],
           sm' = sm, callback' = callback
    PROVE  IInv'
  <1>0. /\ Shape /\ Lives /\ Runs /\ Waits
        /\ OneInside /\ TakeProfits /\ Fills /\ Selected
    BY DEF IInv
  <1>1. ~world.ended /\ ord[k].status = "filled"
    BY DEF Hears
  <1>2. /\ machine' \in MachineStates /\ IsModel(model') /\ IsModel(doc')
        /\ model'.tapIds = m.tapIds
        /\ world' = [setup |-> world.setup, pos |-> world.pos, crashes |-> world.crashes,
                     ended |-> world'.ended]
        /\ world'.ended \in BOOLEAN
        /\ machine' = "WaitForEntry" => machine = "WaitForEntry"
        /\ Runs'
    BY <1>0, <1>1, TransitionParts
  <1>3. PICK o : /\ [ord EXCEPT ![k].told = TRUE] = [ord EXCEPT ![k] = o]
                 /\ Becomes(ord[k], o) /\ o.status = "filled" /\ o.told
    BY <1>0, <1>1, ToldMoves
  <1>4. Moves
    BY <1>0, <1>3, OneMoves
  <1>5. world'.setup = world.setup /\ world'.crashes = world.crashes
    BY <1>2
  <1>6. Lives' /\ Follows
    BY <1>0, <1>4, <1>5, LivesKept
  <1>7. Shape'
    <2>1. IsSequence(ord') /\ \A j \in DOMAIN ord' : IsOrder(ord'[j])
      BY <1>4 DEF Moves, Becomes
    <2>2. world' = [setup |-> world'.setup, pos |-> world'.pos, crashes |-> world'.crashes,
                    ended |-> world'.ended]
      BY <1>2
    <2> QED
      BY <1>0, <1>2, <1>5, <2>1, <2>2 DEF Shape
  <1>8. Waits'
    BY <1>0, <1>2, <1>4, <1>6, WaitsKept DEF Moves
  <1>9. OneInside'
    BY <1>0, <1>1, OneInsideKept DEF Inside
  <1>10. TakeProfits'
    BY <1>0, <1>2, <1>4, <1>6, TakeProfitsKept DEF Moves
  <1>11. Fills'
    BY <1>0, <1>4, <1>6, FillsKept DEF Moves
  <1>12. Selected'
    BY <1>0 DEF Selected
  <1> QED
    BY <1>2, <1>6, <1>7, <1>8, <1>9, <1>10, <1>11, <1>12 DEF IInv

\* HearStop keeps the invariant.
LEMMA HearStopKeeps ==
    ASSUME IInv, NEW k \in DOMAIN ord, HearStop(k)
    PROVE  IInv'
  <1>0. Shape /\ Runs
    BY DEF IInv
  <1>1. PICK m : m = WithPNL(model, ord[k].filled)
    OBVIOUS
  <1>2. PICK goes \in BOOLEAN : goes <=> m.executed >= Amount
    OBVIOUS
  <1>3. /\ Hears(k) /\ Transition(m, goes)
        /\ ord' = [ord EXCEPT ![k].told = TRUE] /\ sm' = sm /\ callback' = callback
    <2>1. Transition(m, m.executed >= Amount)
      BY <1>1 DEF HearStop
    <2>2. Transition(m, goes)
      BY <1>2, <2>1 DEF Transition
    <2> QED
      BY <2>2 DEF HearStop
  <1>4. Alike(m, model) /\ model.state # "End"
    BY <1>0, <1>1, <1>3, WithPNLAlike DEF Shape, Runs, Hears
  <1> QED
    BY <1>3, <1>4, ExitHeard DEF Alike

\* HearWithoutLoss keeps the invariant.
LEMMA HearWithoutLossKeeps ==
    ASSUME IInv, NEW k \in DOMAIN ord, HearWithoutLoss(k)
    PROVE  IInv'
  <1>0. Shape /\ Waits
    BY DEF IInv
  <1>1. PICK m1 : m1 = WithPNL(model, ord[k].filled)
    OBVIOUS
  <1>2. PICK m2 : m2 = [m1 EXCEPT !.state = "End"]
    OBVIOUS
  <1>3. PICK m : m = ClosesAverage(m2)
    OBVIOUS
  <1>4. /\ Hears(k) /\ ord[k].step = "WithoutLoss" /\ Transition(m, TRUE)
        /\ ord' = [ord EXCEPT ![k].told = TRUE] /\ sm' = sm /\ callback' = callback
    BY <1>1, <1>2, <1>3 DEF HearWithoutLoss
  <1>5. Alike(m1, model)
    BY <1>0, <1>1, WithPNLAlike DEF Shape
  <1>6. IsModel(m2) /\ m2.tapIds = model.tapIds
    <2>1. "End" \in MachineStates \cup {""} /\ IsModel(m1) /\ m1.tapIds = model.tapIds
      BY <1>5 DEF MachineStates, Alike
    <2> QED
      BY <1>2, <2>1, StateSet
  <1>7. IsModel(m) /\ m.tapIds = model.tapIds
    BY <1>3, <1>6, ClosesAverageAlike DEF Alike
  <1>8. machine # "WaitForEntry"
    BY <1>0, <1>4 DEF Waits, Hears
  <1> QED
    BY <1>4, <1>7, <1>8, ExitHeard

\* HearTakeProfit keeps the invariant: the levels that are placed again are of an
\* order that enters after its take profit.
LEMMA HearTakeProfitKeeps ==
    ASSUME IInv, NEW k \in DOMAIN ord, HearTakeProfit(k)
    PROVE  IInv'
  <1>0. /\ Shape /\ Lives /\ Runs /\ Waits
        /\ OneInside /\ TakeProfits /\ Fills /\ Selected
    BY DEF IInv
  <1>1. PICK m1 : m1 = WithPNL(model, ord[k].filled)
    OBVIOUS
  <1>2. PICK done \in BOOLEAN : done <=> (m1.executed >= Amount \/ setup.closeAfterTAP)
    OBVIOUS
  <1>3. PICK again \in BOOLEAN : again <=> (~done /\ setup.entryAfterTAP)
    OBVIOUS
  <1>4. PICK m2 : m2 = [m1 EXCEPT !.state = IF done THEN "End" ELSE @,
                                  !.executed = IF again THEN 0 ELSE @]
    OBVIOUS
  <1>5. PICK m : m = ClosesAverage(m2)
    OBVIOUS
  <1>6. PICK t : t = IF again THEN EntryOrders(setup, world.crashes) ELSE <<>>
    OBVIOUS
  <1>7. PICK told : told = [ord EXCEPT ![k].told = TRUE]
    OBVIOUS
  <1>8. /\ Hears(k) /\ ord[k].step = "TakeProfit"
        /\ again => Len(ord) + Len(Levels) <= setup.orders
        /\ Transition(m, done)
        /\ ord' = told \o t
        /\ sm' = [sm EXCEPT !.waiting = @ \ {"TakeProfit"}, !.selected = IF again THEN 0 ELSE @]
        /\ callback' = callback
    <2>1. /\ Hears(k) /\ ord[k].step = "TakeProfit" /\ callback' = callback
          /\ again => Len(ord) + Len(Levels) <= setup.orders
      BY <1>1, <1>2, <1>3 DEF HearTakeProfit
    <2>2. ord' = told \o t
      BY <1>1, <1>2, <1>3, <1>6, <1>7 DEF HearTakeProfit
    <2>3. sm' = [sm EXCEPT !.waiting = @ \ {"TakeProfit"}, !.selected = IF again THEN 0 ELSE @]
      BY <1>1, <1>2, <1>3 DEF HearTakeProfit
    <2>4. Transition(m, done)
      BY <1>1, <1>2, <1>3, <1>4, <1>5 DEF HearTakeProfit, Transition
    <2> QED
      BY <2>1, <2>2, <2>3, <2>4
  <1>9. ~world.ended /\ ord[k].status = "filled" /\ machine # "WaitForEntry"
    BY <1>0, <1>8 DEF Hears, Waits
  <1>10. Alike(m1, model)
    BY <1>0, <1>1, WithPNLAlike DEF Shape
  <1>11. IsModel(m2) /\ m2.tapIds = model.tapIds /\ m2.state = IF done THEN "End" ELSE model.state
    <2>1. IsModel(m1) /\ m1.state = model.state /\ m1.tapIds = model.tapIds
      BY <1>10 DEF Alike
    <2>2. PICK s, v : s = (IF done THEN "End" ELSE m1.state) /\ v = (IF again THEN 0 ELSE m1.executed)
      OBVIOUS
    <2>3. m2 = [state |-> s, entered |-> m1.entered, saved |-> m1.saved,
                executed |-> v, position |-> m1.position, tapIds |-> m1.tapIds,
                waitIds |-> m1.waitIds, forcedIds |-> m1.forcedIds, enabled |-> m1.enabled]
      BY <1>4, <2>1, <2>2 DEF IsModel
    <2>4. s \in MachineStates \cup {""}
      BY <2>1, <2>2 DEF IsModel, MachineStates
    <2> QED
      BY <2>1, <2>2, <2>3, <2>4 DEF IsModel
  <1>12. IsModel(m) /\ m.tapIds = model.tapIds /\ m.state = m2.state
    BY <1>5, <1>11, ClosesAverageAlike DEF Alike
  <1>13. m.state = "End" => done /\ machine # "WaitForEntry"
    BY <1>0, <1>9, <1>11, <1>12 DEF Runs
  <1>14. /\ machine' \in MachineStates /\ IsModel(model') /\ IsModel(doc')
         /\ model'.tapIds = m.tapIds
         /\ world' = [setup |-> world.setup, pos |-> world.pos, crashes |-> world.crashes,
                      ended |-> world'.ended]
         /\ world'.ended \in BOOLEAN
         /\ machine' = "WaitForEntry" => machine = "WaitForEntry"
         /\ Runs'
    BY <1>0, <1>8, <1>9, <1>12, <1>13, TransitionParts
  <1>15. world'.setup = world.setup /\ world'.crashes = world.crashes /\ setup' = setup
    BY <1>14 DEF setup
  <1>16. sm' \in SmType /\ sm'.mux = sm.mux /\ sm'.selected <= sm.selected
    <2>1. sm \in SmType
      BY <1>0 DEF Shape
    <2>2. PICK n \in Nat : n = (IF again THEN 0 ELSE sm.selected) /\ n <= sm.selected
      BY <2>1 DEF SmType
    <2>3. sm' = [sm EXCEPT !.waiting = @ \ {"TakeProfit"}, !.selected = n]
      BY <1>8, <2>2
    <2> QED
      BY <2>1, <2>2, <2>3 DEF SmType
  <1>17. PICK o : /\ told = [ord EXCEPT ![k] = o]
                  /\ Becomes(ord[k], o) /\ o.status = "filled" /\ o.told
    BY <1>0, <1>7, <1>9, ToldMoves
  <1>18. OneInside'
    BY <1>0, <1>8, <1>9, <1>16, OneInsideKept DEF Inside
  <1>19. CASE ~again
    <2>1. ord' = told
      <3>1. IsSequence(told)
        <4>1. IsSequence(ord) /\ DOMAIN told = DOMAIN ord /\ told = [j \in DOMAIN ord |-> told[j]]
          BY <1>0, <1>17 DEF Shape
        <4> QED
          BY <4>1, SequenceUpdate
      <3>2. PICK S : told \in Seq(S)
        BY <3>1 DEF IsSequence
      <3>3. ord' = told \o <<>>
        BY <1>6, <1>8, <1>19
      <3> QED
        BY <3>2, <3>3, ConcatEmptySeq
    <2>2. Moves
      BY <1>0, <1>17, <2>1, OneMoves
    <2>3. Lives' /\ Follows
      BY <1>0, <1>15, <2>2, LivesKept
    <2>4. Shape'
      <3>1. IsSequence(ord') /\ \A j \in DOMAIN ord' : IsOrder(ord'[j])
        BY <2>2 DEF Moves, Becomes
      <3>2. world' = [setup |-> world'.setup, pos |-> world'.pos, crashes |-> world'.crashes,
                      ended |-> world'.ended]
        BY <1>14
      <3> QED
        BY <1>0, <1>8, <1>14, <1>15, <1>16, <3>1, <3>2 DEF Shape
    <2>5. Waits'
      BY <1>0, <1>8, <1>14, <2>2, <2>3, WaitsKept DEF Moves
    <2>6. TakeProfits'
      BY <1>0, <1>8, <1>12, <1>14, <2>2, <2>3, TakeProfitsKept DEF Moves
    <2>7. Fills'
      BY <1>0, <1>8, <2>2, <2>3, FillsKept DEF Moves
    <2>8. Selected'
      <3>1. Done' = Done /\ sm'.selected \in Nat
        BY <1>8, <1>16 DEF Done, SmType
      <3> QED
        BY <1>0, <1>16, <3>1, SelectedKept
    <2> QED
      BY <1>14, <1>18, <2>3, <2>4, <2>5, <2>6, <2>7, <2>8 DEF IInv
  <1>20. CASE again
    <2>1. AreEntries(t, setup, world.crashes)
      BY <1>0, <1>6, <1>20, EntryOrdersParts DEF Shape, setup
    <2>2. /\ IsSequence(told) /\ Len(told) = Len(ord) /\ DOMAIN told = DOMAIN ord
          /\ \A j \in DOMAIN ord : /\ IsOrder(told[j])
                                   /\ Becomes(ord[j], told[j])
                                   /\ told[j].status = "asked" => ord[j].status = "asked"
                                   /\ told[j].status = "open" => ord[j].status = "open"
      <3>1. /\ IsSequence(ord) /\ \A j \in DOMAIN ord : IsOrder(ord[j])
            /\ DOMAIN told = DOMAIN ord /\ told = [j \in DOMAIN ord |-> told[j]]
            /\ told[k] = o /\ \A j \in DOMAIN ord : j # k => told[j] = ord[j]
        BY <1>0, <1>17 DEF Shape
      <3>2. IsSequence(told) /\ Len(told) = Len(ord)
        BY <3>1, SequenceUpdate
      <3> QED
        BY <1>17, <3>1, <3>2 DEF Becomes
    <2>3. Continues(ord', told, t)
      BY <1>8, <2>1, <2>2, SequenceConcat DEF AreEntries
    <2>4. \A j \in DOMAIN ord' \ DOMAIN ord :
             /\ IsOrder(ord'[j]) /\ ord'[j].step = "WaitForEntry" /\ ord'[j].level \in DOMAIN Levels
             /\ ord'[j].life = world.crashes /\ ord'[j].status = "asked"
      BY <2>1, <2>2, <2>3 DEF Continues, AreEntries, Levels
    <2>5. \A j \in DOMAIN ord : j \in DOMAIN ord' /\ ord'[j] = told[j]
      BY <2>2, <2>3 DEF Continues
    <2>6. Follows
      BY <1>15, <2>2, <2>5 DEF Follows, Becomes
    <2>7. Lives'
      <3>1. Len(ord') <= setup'.orders
        <4>1. Len(ord') = Len(ord) + Len(Levels)
          BY <2>1, <2>2, <2>3 DEF Continues, AreEntries, Levels
        <4> QED
          BY <1>8, <1>15, <1>20, <4>1
      <3>2. ASSUME NEW j \in DOMAIN ord'
            PROVE  /\ ord'[j].life <= world'.crashes
                   /\ ord'[j].status = "asked" => ord'[j].step \in {"WaitForEntry", "Stoploss", "ForcedLoss"}
        <4>1. CASE j \in DOMAIN ord
          BY <1>0, <1>15, <2>2, <2>5, <4>1 DEF Lives, Becomes
        <4>2. CASE j \notin DOMAIN ord
          BY <1>0, <1>15, <2>4, <4>2 DEF Shape
        <4> QED
          BY <4>1, <4>2
      <3> QED
        BY <3>1, <3>2 DEF Lives
    <2>8. Shape'
      <3>1. IsSequence(ord') /\ \A j \in DOMAIN ord' : IsOrder(ord'[j])
        BY <2>2, <2>3, <2>4, <2>5 DEF Continues
      <3>2. world' = [setup |-> world'.setup, pos |-> world'.pos, crashes |-> world'.crashes,
                      ended |-> world'.ended]
        BY <1>14
      <3> QED
        BY <1>0, <1>8, <1>14, <1>15, <1>16, <3>1, <3>2 DEF Shape
    <2>9. Waits'
      BY <1>0, <1>8, <1>14, <2>4, <2>6, WaitsKept
    <2>10. TakeProfits'
      BY <1>0, <1>8, <1>12, <1>14, <2>4, <2>6, TakeProfitsKept
    <2>11. Fills'
      <3>1. setup'.entryAfterTAP /\ Levels' = Levels
        BY <1>3, <1>15, <1>20 DEF Levels
      <3>2. \A j \in Entered : j \in Entered' /\ ord'[j].level = ord[j].level
                               /\ (ord[j].told => ord'[j].told)
        BY <2>6 DEF Entered, ThisLife, Follows
      <3>3. \A j \in Entered' : j \in Entered \/ ord'[j].level \in DOMAIN Levels
        BY <2>4, <2>6 DEF Entered, ThisLife, Follows
      <3> QED
        BY <1>0, <1>8, <3>1, <3>2, <3>3 DEF Fills
    <2>12. Selected'
      <3>1. Done' = Done /\ sm'.selected \in Nat
        BY <1>8, <1>16 DEF Done, SmType
      <3> QED
        BY <1>0, <1>16, <3>1, SelectedKept
    <2> QED
      BY <1>14, <1>18, <2>6, <2>7, <2>8, <2>9, <2>10, <2>11, <2>12 DEF IInv
  <1> QED
    BY <1>19, <1>20

-----------------------------------------------------------------------------
(* The restart *)

\* Crash keeps the invariant: in the new life every level is asked for once, and
\* nothing else has happened.
LEMMA CrashKeeps ==
    ASSUME IInv, Crash
    PROVE  IInv'
  <1>0. /\ Shape /\ Lives /\ Runs
        /\ Len(ord) \in Nat /\ DOMAIN ord = 1 .. Len(ord) /\ setup.orders \in Nat
    BY OrdersHaveCallbacks DEF IInv
  <1>1. PICK life \in Nat : life = world.crashes + 1
    BY <1>0 DEF Shape
  <1>2. PICK a : a = [k \in DOMAIN ord |-> IF ord[k].status = "asked"
                                           THEN [ord[k] EXCEPT !.status = "rejected"] ELSE ord[k]]
    OBVIOUS
  <1>3. PICK t : t = EntryOrders(setup, life)
    OBVIOUS
  <1>4. PICK u : u = StopOrders(setup, life)
    OBVIOUS
  <1>5. PICK b : b = a \o t
    OBVIOUS
  <1>6. /\ Live /\ Len(ord) + Len(Levels) + 2 <= setup.orders
        /\ machine' = IF doc.state = "" THEN "WaitForEntry" ELSE doc.state
        /\ model' = doc /\ sm' = NewSm /\ doc' = doc
        /\ callback' = [k \in OrderIds |-> Idle]
        /\ ord' = b \o u
        /\ world' = [world EXCEPT !.crashes = life]
    BY <1>1, <1>2, <1>3, <1>4, <1>5 DEF Crash
  <1>7. AreEntries(t, setup, life) /\ AreStops(u, life)
    BY <1>0, <1>3, <1>4, EntryOrdersParts, StopOrdersParts DEF Shape, setup
  <1>8. /\ IsSequence(a) /\ Len(a) = Len(ord) /\ DOMAIN a = DOMAIN ord
        /\ \A k \in DOMAIN ord : Becomes(ord[k], a[k]) /\ a[k].status # "asked"
    <2>1. /\ IsSequence(ord) /\ DOMAIN a = DOMAIN ord /\ a = [k \in DOMAIN ord |-> a[k]]
          /\ \A k \in DOMAIN ord : IsOrder(ord[k])
      BY <1>0, <1>2 DEF Shape
    <2>2. IsSequence(a) /\ Len(a) = Len(ord)
      BY <2>1, SequenceUpdate
    <2>3. ASSUME NEW k \in DOMAIN ord PROVE Becomes(ord[k], a[k]) /\ a[k].status # "asked"
      <3>1. CASE ord[k].status = "asked"
        <4>1. a[k] = [ord[k] EXCEPT !.status = "rejected"]
          BY <1>2, <3>1
        <4>2. PICK o : o = ord[k]
          OBVIOUS
        <4>3. a[k] = [step |-> o.step, level |-> o.level, qty |-> o.qty, life |-> o.life,
                      status |-> "rejected", filled |-> o.filled, told |-> o.told]
          BY <2>1, <4>1, <4>2 DEF IsOrder
        <4>4. Becomes(o, a[k]) /\ a[k].status = "rejected"
          BY <2>1, <4>2, <4>3 DEF IsOrder, Becomes
        <4> QED
          BY <4>2, <4>4
      <3>2. CASE ord[k].status # "asked"
        BY <1>2, <2>1, <3>2 DEF Becomes
      <3> QED
        BY <3>1, <3>2
    <2> QED
      BY <2>1, <2>2, <2>3
  <1>9. Continues(b, a, t)
    BY <1>5, <1>7, <1>8, SequenceConcat DEF AreEntries
  <1>10. Continues(ord', b, u)
    <2>1. IsSequence(b) /\ IsSequence(u)
      BY <1>7, <1>9 DEF AreStops, Continues
    <2> QED
      BY <1>6, <2>1, SequenceConcat
  <1>11. \A k \in DOMAIN ord : k \in DOMAIN ord' /\ ord'[k] = a[k]
    BY <1>8, <1>9, <1>10 DEF Continues
  <1>12. \A k \in DOMAIN ord' \ DOMAIN ord :
            /\ IsOrder(ord'[k]) /\ ord'[k].life = life /\ ord'[k].status = "asked"
            /\ ord'[k].step \in {"WaitForEntry", "Stoploss", "ForcedLoss"}
            /\ ord'[k].step = "WaitForEntry" =>
                  k = Len(ord) + ord'[k].level /\ ord'[k].level \in DOMAIN Levels
    <2>1. SUFFICES ASSUME NEW k \in DOMAIN ord' \ DOMAIN ord
                   PROVE  /\ IsOrder(ord'[k]) /\ ord'[k].life = life /\ ord'[k].status = "asked"
                          /\ ord'[k].step \in {"WaitForEntry", "Stoploss", "ForcedLoss"}
                          /\ ord'[k].step = "WaitForEntry" =>
                                k = Len(ord) + ord'[k].level /\ ord'[k].level \in DOMAIN Levels
      OBVIOUS
    <2>2. CASE k \in DOMAIN b
      <3>1. PICK i \in DOMAIN t : k = Len(a) + i /\ b[k] = t[i]
        BY <1>8, <1>9, <2>2 DEF Continues
      <3>2. ord'[k] = t[i]
        BY <1>10, <2>2, <3>1 DEF Continues
      <3> QED
        BY <1>7, <1>8, <3>1, <3>2 DEF AreEntries, Levels
    <2>3. CASE k \notin DOMAIN b
      <3>1. PICK i \in DOMAIN u : ord'[k] = u[i]
        BY <1>10, <2>3 DEF Continues
      <3> QED
        BY <1>7, <3>1 DEF AreStops
    <2> QED
      BY <2>2, <2>3
  <1>13. /\ world' = [setup |-> world.setup, pos |-> world.pos, crashes |-> life, ended |-> world.ended]
         /\ world'.setup = world.setup /\ world'.crashes = life /\ world'.ended = world.ended
         /\ setup' = setup /\ Levels' = Levels
    BY <1>0, <1>6, WorldParts DEF setup, Levels
  <1>14. \A k \in OrderIds : callback'[k].at = "idle"
    BY <1>6 DEF Idle
  <1>15. sm' \in SmType /\ sm'.mux = FALSE /\ sm'.selected = 0
    BY <1>6 DEF NewSm, SmType
  <1>16. ThisLife' = DOMAIN ord' \ DOMAIN ord
    <2>1. \A k \in DOMAIN ord : ord'[k].life # life
      <3>1. ASSUME NEW k \in DOMAIN ord PROVE ord'[k].life # life
        <4>1. ord'[k].life = ord[k].life /\ ord[k].life \in Nat
          BY <1>0, <1>8, <1>11 DEF Becomes, Shape, IsOrder
        <4>2. ord[k].life <= world.crashes /\ world.crashes \in Nat
          BY <1>0 DEF Lives, Shape
        <4> QED
          BY <1>1, <4>1, <4>2
      <3> QED
        BY <3>1
    <2> QED
      BY <1>12, <1>13, <2>1 DEF ThisLife
  <1>17. Shape'
    <2>1. IsSequence(ord') /\ \A k \in DOMAIN ord' : IsOrder(ord'[k])
      BY <1>8, <1>10, <1>11, <1>12 DEF Continues, Becomes
    <2>2. callback' \in [OrderIds -> CallbackType]
      BY <1>6 DEF Idle, CallbackType, Places
    <2>3. machine' \in MachineStates
      BY <1>0, <1>6 DEF Shape, IsModel, MachineStates
    <2>4. world' = [setup |-> world'.setup, pos |-> world'.pos, crashes |-> world'.crashes,
                    ended |-> world'.ended]
      BY <1>13
    <2> QED
      BY <1>0, <1>6, <1>13, <1>15, <2>1, <2>2, <2>3, <2>4 DEF Shape
  <1>18. Lives'
    <2>1. Len(ord') <= setup'.orders
      <3>1. Len(ord') = Len(ord) + Len(t) + Len(u) /\ Len(t) = Len(Levels) /\ (Len(u) = 1 \/ Len(u) = 2)
        BY <1>7, <1>8, <1>9, <1>10 DEF Continues, AreEntries, AreStops, Levels
      <3>2. PICK n \in Nat : n = Len(t)
        BY <1>7, SequenceDomain DEF AreEntries
      <3>3. Len(ord) + n + 2 <= setup.orders
        BY <1>6, <3>1, <3>2
      <3>4. CASE Len(u) = 1
        <4>1. Len(ord') = Len(ord) + n + 1
          BY <3>1, <3>2, <3>4
        <4>2. Len(ord) + n + 1 <= setup.orders
          BY <1>0, <3>2, <3>3
        <4> QED
          BY <1>13, <4>1, <4>2
      <3>5. CASE Len(u) = 2
        <4>1. Len(ord') = Len(ord) + n + 2
          BY <3>1, <3>2, <3>5
        <4> QED
          BY <1>13, <3>3, <4>1
      <3> QED
        BY <3>1, <3>4, <3>5
    <2>2. ASSUME NEW k \in DOMAIN ord'
          PROVE  /\ ord'[k].life <= world'.crashes
                 /\ ord'[k].status = "asked" => ord'[k].step \in {"WaitForEntry", "Stoploss", "ForcedLoss"}
      <3>1. CASE k \in DOMAIN ord
        <4>1. ord'[k].life = ord[k].life /\ ord[k].life \in Nat /\ ord'[k].status # "asked"
          BY <1>0, <1>8, <1>11, <3>1 DEF Becomes, Shape, IsOrder
        <4>2. ord[k].life <= world.crashes /\ world.crashes \in Nat
          BY <1>0, <3>1 DEF Lives, Shape
        <4> QED
          BY <1>1, <1>13, <4>1, <4>2
      <3>2. CASE k \notin DOMAIN ord
        BY <1>1, <1>12, <1>13, <3>2
      <3> QED
        BY <3>1, <3>2
    <2> QED
      BY <2>1, <2>2 DEF Lives
  <1>19. Runs'
    BY <1>0, <1>6 DEF Runs, Live
  <1>20. Waits'
    BY <1>12, <1>14, <1>16 DEF Waits
  <1>21. OneInside'
    BY <1>14, <1>15 DEF OneInside, Inside
  <1>22. TakeProfits'
    <2>1. OpenTakeProfits' = {}
      BY <1>12, <1>16 DEF OpenTakeProfits
    <2> QED
      BY <1>14, <2>1 DEF TakeProfits
  <1>23. Fills'
    <2>1. \A k \in Entered' : k = Len(ord) + ord'[k].level /\ ord'[k].level \in DOMAIN Levels
      BY <1>12, <1>16 DEF Entered
    <2>2. \A j, k \in Entered' : ord'[j].level = ord'[k].level => j = k
      BY <2>1
    <2> QED
      BY <1>13, <1>14, <2>1, <2>2 DEF Fills
  <1>24. Selected'
    <2>1. {k \in OrderIds : callback'[k].at = "done"} = {}
      BY <1>14
    <2> QED
      BY <1>15, <2>1, FS_EmptySet DEF Selected
  <1> QED
    BY <1>17, <1>18, <1>19, <1>20, <1>21, <1>22, <1>23, <1>24 DEF IInv

-----------------------------------------------------------------------------
(* enterMultiEntry *)

\* One more order of this life.
LEMMA OneMore ==
    ASSUME Shape, Lives, NEW e, Extends(ord', ord, e), IsOrder(e), e.life = world.crashes,
           e.status = "asked" => e.step \in {"WaitForEntry", "Stoploss", "ForcedLoss"},
           Len(ord) < setup.orders, world' = world
    PROVE  /\ Lives' /\ Follows
           /\ IsSequence(ord') /\ \A k \in DOMAIN ord' : IsOrder(ord'[k])
           /\ \A k \in DOMAIN ord' \ DOMAIN ord : ord'[k] = e
  <1>0. Len(ord) \in Nat /\ DOMAIN ord = 1 .. Len(ord) /\ setup.orders \in Nat /\ setup' = setup
    BY OrdersHaveCallbacks DEF setup
  <1>1. \A k \in DOMAIN ord' \ DOMAIN ord : ord'[k] = e
    BY DEF Extends
  <1>2. \A k \in DOMAIN ord : k \in DOMAIN ord' /\ ord'[k] = ord[k]
    BY DEF Extends
  <1>3. IsSequence(ord') /\ \A k \in DOMAIN ord' : IsOrder(ord'[k])
    BY <1>1, <1>2 DEF Extends, Shape
  <1>4. Follows
    BY <1>2 DEF Follows
  <1>5. Len(ord') <= setup'.orders
    <2>1. Len(ord') = Len(ord) + 1
      BY DEF Extends
    <2> QED
      BY <1>0, <2>1
  <1>6. ASSUME NEW k \in DOMAIN ord'
        PROVE  /\ ord'[k].life <= world'.crashes
               /\ ord'[k].status = "asked" => ord'[k].step \in {"WaitForEntry", "Stoploss", "ForcedLoss"}
    <2>1. CASE k \in DOMAIN ord
      BY <1>2, <2>1 DEF Lives
    <2>2. CASE k \notin DOMAIN ord
      BY <1>1, <2>2 DEF Shape
    <2> QED
      BY <2>1, <2>2
  <1>7. Lives'
    BY <1>5, <1>6 DEF Lives
  <1> QED
    BY <1>1, <1>3, <1>4, <1>7

\* An order that the exchange has taken.
LEMMA OpenOrderParts ==
    ASSUME Shape, NEW step \in Steps
    PROVE  /\ IsOrder(OpenOrder(step)) /\ OpenOrder(step).step = step
           /\ OpenOrder(step).life = world.crashes /\ OpenOrder(step).status = "open"
           /\ OpenOrder(step).told = FALSE
  <1>1. PICK q : q = AveragingEntryAmount(sm.selected)
    OBVIOUS
  <1>2. PICK o : o = OpenOrder(step)
    OBVIOUS
  <1>3. o = [step |-> step, level |-> 0, qty |-> q, life |-> world.crashes,
             status |-> "open", filled |-> 0, told |-> FALSE]
    BY <1>1, <1>2 DEF OpenOrder, Order
  <1>4. world.crashes \in Nat /\ 0 \in Nat
    BY DEF Shape
  <1>5. IsOrder(o) /\ o.step = step /\ o.life = world.crashes /\ o.status = "open" /\ o.told = FALSE
    BY <1>3, <1>4 DEF IsOrder
  <1> QED
    BY <1>2, <1>5

\* A callback that goes on.
LEMMA CallbackAt ==
    ASSUME Shape, NEW k \in OrderIds, NEW p \in Places, callback' = [callback EXCEPT ![k].at = p]
    PROVE  /\ callback' \in [OrderIds -> CallbackType]
           /\ callback'[k].at = p
           /\ \A j \in OrderIds : callback'[j].ids = callback[j].ids
           /\ \A j \in OrderIds : j # k => callback'[j].at = callback[j].at
  BY DEF Shape, CallbackType

\* What is left to show when a callback goes on without being done.
LEMMA StepInside ==
    ASSUME IInv, NEW k \in OrderIds, callback[k].at # "idle", callback[k].at # "done",
           NEW p \in Places, p # "done", p # "cancel", callback' = [callback EXCEPT ![k].at = p],
           Shape', Lives', Follows,
           \A j \in DOMAIN ord' \ DOMAIN ord : ord'[j].step \in {"ForcedLoss", "WithoutLoss"},
           machine' = machine, Alike(model', model), doc' = doc, world' = world,
           sm'.selected = sm.selected, OneInside'
    PROVE  IInv'
  <1>0. /\ Shape /\ Lives /\ Runs /\ Waits
        /\ OneInside /\ TakeProfits /\ Fills /\ Selected
    BY DEF IInv
  <1>1. /\ callback'[k].at = p
        /\ \A j \in OrderIds : callback'[j].ids = callback[j].ids
        /\ \A j \in OrderIds : j # k => callback'[j].at = callback[j].at
    BY <1>0, CallbackAt
  <1>2. machine # "WaitForEntry"
    BY <1>0 DEF Waits
  <1>3. Runs'
    BY <1>0 DEF Runs, Alike
  <1>4. Waits'
    BY <1>2 DEF Waits
  <1>5. TakeProfits'
    <2>1. \A j \in OrderIds : callback'[j].at = "cancel" =>
             callback[j].at = "cancel" /\ callback'[j].ids = callback[j].ids
      BY <1>1
    <2> QED
      BY <1>0, <2>1, TakeProfitsKept DEF Alike
  <1>6. Fills'
    <2>1. \A j \in OrderIds : callback'[j].at # "idle" =>
             callback[j].at # "idle" \/ (j \in Entered /\ ord'[j].told)
      BY <1>1
    <2> QED
      BY <1>0, <2>1, FillsKept
  <1>7. Selected'
    <2>1. Done' = Done
      BY <1>1 DEF Done
    <2> QED
      BY <1>0, <2>1 DEF Selected, Done
  <1> QED
    BY <1>3, <1>4, <1>5, <1>6, <1>7 DEF IInv

\* Enter keeps the invariant: nobody was inside.
LEMMA EnterKeeps ==
    ASSUME IInv, NEW k \in DOMAIN ord, Enter(k)
    PROVE  IInv'
  <1>0. /\ Shape /\ Lives /\ OneInside
        /\ k \in OrderIds
    BY OrdersHaveCallbacks DEF IInv
  <1>1. PICK forced \in BOOLEAN : forced <=> /\ setup.forcedLoss
                                            /\ "ForcedLoss" \notin sm.waiting
                                            /\ model.forcedIds = {}
    OBVIOUS
  <1>2. PICK p : p = IF Levels[sm.selected + 1].withoutLoss THEN "withoutLoss" ELSE "replace"
    OBVIOUS
  <1>3. PICK e : e = Order("ForcedLoss", 0, Amount, world.crashes)
    OBVIOUS
  <1>4. /\ callback[k].at = "mux" /\ ~sm.mux
        /\ forced => Len(ord) < setup.orders
        /\ sm' = [sm EXCEPT !.mux = TRUE,
                            !.waiting = @ \cup (IF forced THEN {"ForcedLoss"} ELSE {})]
        /\ ord' = ord \o IF forced THEN <<e>> ELSE <<>>
        /\ callback' = [callback EXCEPT ![k].at = p]
        /\ machine' = machine /\ model' = model /\ doc' = doc /\ world' = world
    <2>1. /\ callback[k].at = "mux" /\ ~sm.mux
          /\ callback' = [callback EXCEPT ![k].at = p]
          /\ machine' = machine /\ model' = model /\ doc' = doc /\ world' = world
      BY <1>2 DEF Enter
    <2>2. forced => Len(ord) < setup.orders
      BY <1>1 DEF Enter
    <2>3. sm' = [sm EXCEPT !.mux = TRUE,
                           !.waiting = @ \cup (IF forced THEN {"ForcedLoss"} ELSE {})]
      BY <1>1 DEF Enter
    <2>4. ord' = ord \o IF forced THEN <<e>> ELSE <<>>
      BY <1>1, <1>3 DEF Enter
    <2> QED
      BY <2>1, <2>2, <2>3, <2>4
  <1>5. p \in {"withoutLoss", "replace"} /\ p \in Places
    BY <1>2 DEF Places
  <1>6. /\ callback' \in [OrderIds -> CallbackType]
        /\ callback'[k].at = p
        /\ \A j \in OrderIds : j # k => callback'[j].at = callback[j].at
    BY <1>0, <1>4, <1>5, CallbackAt
  <1>7. sm' \in SmType /\ sm'.mux = TRUE /\ sm'.selected = sm.selected
    <2>1. sm \in SmType
      BY <1>0 DEF Shape
    <2>2. PICK w \in SUBSET {"ForcedLoss"} : w = IF forced THEN {"ForcedLoss"} ELSE {}
      OBVIOUS
    <2>3. sm' = [sm EXCEPT !.mux = TRUE, !.waiting = @ \cup w]
      BY <1>4, <2>2
    <2> QED
      BY <2>1, <2>3 DEF SmType
  <1>8. OneInside'
    <2>1. \A j \in OrderIds : ~Inside(j)
      BY <1>0, <1>4 DEF OneInside
    <2>2. \A j \in OrderIds : Inside(j)' <=> j = k
      BY <1>4, <1>5, <1>6, <2>1 DEF Inside
    <2> QED
      BY <1>0, <1>7, <2>2 DEF OneInside
  <1>9. /\ Lives' /\ Follows
        /\ IsSequence(ord') /\ \A j \in DOMAIN ord' : IsOrder(ord'[j])
        /\ \A j \in DOMAIN ord' \ DOMAIN ord : ord'[j].step \in {"ForcedLoss", "WithoutLoss"}
    <2>1. CASE forced
      <3>1. ord' = Append(ord, e)
        <4>1. PICK S : ord \in Seq(S)
          BY <1>0 DEF Shape, IsSequence
        <4> DEFINE T == S \cup {e}
        <4>2. ord \in Seq(T) /\ e \in T
          BY <4>1, SeqDef
        <4> HIDE DEF T
        <4>3. Append(ord, e) = ord \o <<e>>
          BY <4>2, AppendIsConcat
        <4> QED
          BY <1>4, <2>1, <4>3
      <3>2. Extends(ord', ord, e)
        BY <1>0, <3>1, SequenceAppend DEF Shape
      <3>3. /\ IsOrder(e) /\ e.step = "ForcedLoss" /\ e.life = world.crashes /\ e.status = "asked"
        BY <1>0, <1>3 DEF Order, IsOrder, Steps, Shape
      <3> QED
        BY <1>0, <1>4, <2>1, <3>2, <3>3, OneMore
    <2>2. CASE ~forced
      <3>1. ord' = ord
        <4>1. PICK S : ord \in Seq(S)
          BY <1>0 DEF Shape, IsSequence
        <4>2. ord' = ord \o <<>>
          BY <1>4, <2>2
        <4> QED
          BY <4>1, <4>2, ConcatEmptySeq
      <3> QED
        BY <1>0, <1>4, <3>1 DEF Lives, Follows, Shape, setup
    <2> QED
      BY <2>1, <2>2
  <1>10. Shape'
    BY <1>0, <1>4, <1>6, <1>7, <1>9 DEF Shape
  <1>11. p # "done" /\ p # "cancel"
    BY <1>5
  <1> QED
    <2>1. Alike(model', model)
      BY <1>0, <1>4 DEF Alike, Shape
    <2> QED
      BY <1>0, <1>4, <1>5, <1>7, <1>8, <1>9, <1>10, <1>11, <2>1, StepInside

\* PlaceWithoutLoss keeps the invariant.
LEMMA PlaceWithoutLossKeeps ==
    ASSUME IInv, NEW k \in DOMAIN ord, PlaceWithoutLoss(k)
    PROVE  IInv'
  <1>0. /\ Shape /\ Lives /\ OneInside
        /\ k \in OrderIds
    BY OrdersHaveCallbacks DEF IInv
  <1>1. PICK e : e = OpenOrder("WithoutLoss")
    OBVIOUS
  <1>2. /\ callback[k].at = "withoutLoss" /\ Len(ord) < setup.orders
        /\ callback' = [callback EXCEPT ![k].at = "replace"]
        /\ machine' = machine /\ sm' = sm /\ doc' = doc /\ world' = world
    BY DEF PlaceWithoutLoss
  <1>3. "replace" \in Places /\ "WithoutLoss" \in Steps
    BY DEF Places, Steps
  <1>4. /\ callback' \in [OrderIds -> CallbackType]
        /\ callback'[k].at = "replace"
        /\ \A j \in OrderIds : j # k => callback'[j].at = callback[j].at
    BY <1>0, <1>2, <1>3, CallbackAt
  <1>5. IsOrder(e) /\ e.step = "WithoutLoss" /\ e.life = world.crashes /\ e.status = "open"
    BY <1>0, <1>1, <1>3, OpenOrderParts
  <1>6. /\ Lives' /\ Follows
        /\ IsSequence(ord') /\ \A j \in DOMAIN ord' : IsOrder(ord'[j])
        /\ \A j \in DOMAIN ord' \ DOMAIN ord : ord'[j].step \in {"ForcedLoss", "WithoutLoss"}
        /\ Alike(model', model)
    <2>1. CASE world.pos > 0
      <3>1. ord' = Append(ord, e) /\ model' = model
        BY <1>1, <2>1 DEF PlaceWithoutLoss
      <3>2. Extends(ord', ord, e)
        BY <1>0, <3>1, SequenceAppend DEF Shape
      <3>3. /\ Lives' /\ Follows
            /\ IsSequence(ord') /\ \A j \in DOMAIN ord' : IsOrder(ord'[j])
            /\ \A j \in DOMAIN ord' \ DOMAIN ord : ord'[j].step \in {"ForcedLoss", "WithoutLoss"}
        BY <1>0, <1>2, <1>5, <3>2, OneMore
      <3>4. Alike(model', model)
        BY <1>0, <3>1 DEF Alike, Shape
      <3> QED
        BY <3>3, <3>4
    <2>2. CASE ~(world.pos > 0)
      <3>1. ord' = ord /\ model' = [model EXCEPT !.enabled = FALSE]
        BY <2>2 DEF PlaceWithoutLoss
      <3>2. Lives' /\ Follows
        BY <1>0, <1>2, <3>1 DEF Lives, Follows, setup
      <3>3. Alike(model', model)
        BY <1>0, <3>1, DisabledAlike DEF Shape
      <3> QED
        BY <1>0, <3>1, <3>2, <3>3 DEF Shape
    <2> QED
      BY <2>1, <2>2
  <1>7. Shape'
    BY <1>0, <1>2, <1>4, <1>6 DEF Shape, Alike
  <1>8. OneInside'
    <2>1. \A j \in OrderIds : Inside(j)' <=> Inside(j)
      BY <1>2, <1>4 DEF Inside
    <2> QED
      BY <1>0, <1>2, <2>1, OneInsideKept
  <1> QED
    BY <1>0, <1>2, <1>3, <1>6, <1>7, <1>8, StepInside

\* Panic keeps the invariant: the order is followed no further.
LEMMA PanicKeeps ==
    ASSUME IInv, NEW k \in DOMAIN ord, Panic(k)
    PROVE  IInv'
  <1>0. /\ Shape /\ Lives /\ Runs /\ Waits
        /\ OneInside /\ TakeProfits /\ Fills /\ Selected
        /\ k \in OrderIds
    BY OrdersHaveCallbacks DEF IInv
  <1>1. /\ callback[k].at = "mux"
        /\ world' = [world EXCEPT !.ended = TRUE]
        /\ callback' = [callback EXCEPT ![k].at = "done"]
        /\ machine' = machine /\ model' = model /\ sm' = sm /\ doc' = doc /\ ord' = ord
    BY DEF Panic
  <1>2. "done" \in Places
    BY DEF Places
  <1>3. /\ callback' \in [OrderIds -> CallbackType]
        /\ callback'[k].at = "done"
        /\ \A j \in OrderIds : callback'[j].ids = callback[j].ids
        /\ \A j \in OrderIds : j # k => callback'[j].at = callback[j].at
    BY <1>0, <1>1, <1>2, CallbackAt
  <1>4. /\ world' = [setup |-> world.setup, pos |-> world.pos, crashes |-> world.crashes, ended |-> TRUE]
        /\ world'.setup = world.setup /\ world'.crashes = world.crashes /\ world'.ended = TRUE
    BY <1>0, <1>1, WorldParts
  <1>5. Follows /\ Lives'
    BY <1>0, <1>1, <1>4 DEF Follows, Lives, setup
  <1>6. Shape'
    BY <1>0, <1>1, <1>3, <1>4 DEF Shape
  <1>7. Runs'
    BY <1>4 DEF Runs
  <1>8. Waits'
    BY <1>0, <1>1 DEF Waits
  <1>9. OneInside'
    <2>1. \A j \in OrderIds : Inside(j)' <=> Inside(j)
      BY <1>1, <1>3 DEF Inside
    <2> QED
      BY <1>0, <1>1, <1>4, <2>1, OneInsideKept
  <1>10. TakeProfits'
    <2>1. \A j \in OrderIds : callback'[j].at = "cancel" =>
             callback[j].at = "cancel" /\ callback'[j].ids = callback[j].ids
      BY <1>3
    <2> QED
      BY <1>0, <1>1, <1>5, <2>1, TakeProfitsKept
  <1>11. Fills'
    <2>1. \A j \in OrderIds : callback'[j].at # "idle" =>
             callback[j].at # "idle" \/ (j \in Entered /\ ord'[j].told)
      BY <1>1, <1>3
    <2> QED
      BY <1>0, <1>1, <1>5, <2>1, FillsKept
  <1>12. Selected'
    <2>1. Done' = Done \cup {k}
      BY <1>0, <1>3 DEF Done
    <2>2. sm'.selected \in Nat /\ sm'.selected <= sm.selected
      BY <1>0, <1>1 DEF Shape, SmType
    <2> QED
      BY <1>0, <2>1, <2>2, SelectedKept
  <1> QED
    BY <1>5, <1>6, <1>7, <1>8, <1>9, <1>10, <1>11, <1>12 DEF IInv

\* ReturnEarly keeps the invariant: only an order that has ended leaves StopMux locked.
LEMMA ReturnEarlyKeeps ==
    ASSUME IInv, NEW k \in DOMAIN ord, ReturnEarly(k)
    PROVE  IInv'
  <1>0. /\ Shape /\ Lives /\ Runs /\ Waits
        /\ OneInside /\ TakeProfits /\ Fills /\ Selected
        /\ k \in OrderIds
    BY OrdersHaveCallbacks DEF IInv
  <1>1. /\ callback[k].at = "replace" /\ machine = "End" /\ machine' = "InMultiEntry"
        /\ callback' = [callback EXCEPT ![k].at = "done"]
        /\ model' = model /\ sm' = sm /\ doc' = doc /\ ord' = ord /\ world' = world
    BY DEF ReturnEarly
  <1>2. "done" \in Places /\ "InMultiEntry" \in MachineStates
    BY DEF Places, MachineStates
  <1>3. /\ callback' \in [OrderIds -> CallbackType]
        /\ callback'[k].at = "done"
        /\ \A j \in OrderIds : callback'[j].ids = callback[j].ids
        /\ \A j \in OrderIds : j # k => callback'[j].at = callback[j].at
    BY <1>0, <1>1, <1>2, CallbackAt
  <1>4. world.ended
    BY <1>0, <1>1 DEF Runs
  <1>5. Follows /\ Lives'
    BY <1>0, <1>1 DEF Follows, Lives, setup
  <1>6. Shape'
    BY <1>0, <1>1, <1>2, <1>3 DEF Shape
  <1>7. Runs'
    BY <1>1, <1>4 DEF Runs
  <1>8. Waits'
    BY <1>1 DEF Waits
  <1>9. OneInside'
    <2>1. \A j \in OrderIds : Inside(j)' => Inside(j)
      BY <1>1, <1>3 DEF Inside
    <2> QED
      BY <1>0, <1>1, <1>4, <2>1 DEF OneInside
  <1>10. TakeProfits'
    <2>1. \A j \in OrderIds : callback'[j].at = "cancel" =>
             callback[j].at = "cancel" /\ callback'[j].ids = callback[j].ids
      BY <1>3
    <2> QED
      BY <1>0, <1>1, <1>5, <2>1, TakeProfitsKept
  <1>11. Fills'
    <2>1. \A j \in OrderIds : callback'[j].at # "idle" =>
             callback[j].at # "idle" \/ (j \in Entered /\ ord'[j].told)
      BY <1>1, <1>3
    <2> QED
      BY <1>0, <1>1, <1>5, <2>1, FillsKept
  <1>12. Selected'
    <2>1. Done' = Done \cup {k}
      BY <1>0, <1>3 DEF Done
    <2>2. sm'.selected \in Nat /\ sm'.selected <= sm.selected
      BY <1>0, <1>1 DEF Shape, SmType
    <2> QED
      BY <1>0, <2>1, <2>2, SelectedKept
  <1> QED
    BY <1>5, <1>6, <1>7, <1>8, <1>9, <1>10, <1>11, <1>12 DEF IInv

\* Replace keeps the invariant: it finds every open take profit.
LEMMA ReplaceKeeps ==
    ASSUME IInv, NEW k \in DOMAIN ord, Replace(k)
    PROVE  IInv'
  <1>0. /\ Shape /\ Lives /\ Runs /\ Waits
        /\ OneInside /\ TakeProfits /\ Fills /\ Selected
        /\ k \in OrderIds
    BY OrdersHaveCallbacks DEF IInv
  <1>1. PICK ids : ids = model.tapIds \cap Open
    OBVIOUS
  <1>2. /\ callback[k].at = "replace"
        /\ sm' = [sm EXCEPT !.waiting = @ \cup {"TakeProfit"}]
        /\ callback' = [callback EXCEPT ![k] = [at |-> "cancel", ids |-> ids]]
        /\ machine' = machine /\ model' = model /\ doc' = doc /\ ord' = ord /\ world' = world
    BY <1>1 DEF Replace
  <1>3. ids \in SUBSET OrderIds /\ "cancel" \in Places
    BY <1>0, <1>1 DEF Shape, IsModel, Places
  <1>4. /\ callback' \in [OrderIds -> CallbackType]
        /\ callback'[k].at = "cancel" /\ callback'[k].ids = ids
        /\ \A j \in OrderIds : j # k => callback'[j] = callback[j]
    BY <1>0, <1>2, <1>3 DEF Shape, CallbackType
  <1>5. sm' \in SmType /\ sm'.mux = sm.mux /\ sm'.selected = sm.selected
    BY <1>0, <1>2 DEF Shape, SmType
  <1>6. Follows /\ Lives'
    BY <1>0, <1>2 DEF Follows, Lives, setup
  <1>7. Shape'
    BY <1>0, <1>2, <1>4, <1>5 DEF Shape
  <1>8. Runs'
    BY <1>0, <1>2 DEF Runs
  <1>9. Waits'
    BY <1>0, <1>2 DEF Waits
  <1>10. OneInside'
    <2>1. \A j \in OrderIds : Inside(j)' <=> Inside(j)
      BY <1>2, <1>4 DEF Inside
    <2> QED
      BY <1>0, <1>2, <1>5, <2>1, OneInsideKept
  <1>11. TakeProfits'
    <2>1. OpenTakeProfits' = OpenTakeProfits /\ OpenTakeProfits \subseteq Open
      BY <1>2 DEF OpenTakeProfits, Open, ThisLife
    <2>2. OpenTakeProfits \subseteq ids
      BY <1>0, <1>1, <2>1 DEF TakeProfits
    <2>3. \A j \in OrderIds : callback'[j].at = "cancel" => OpenTakeProfits \subseteq callback'[j].ids
      BY <1>0, <1>4, <2>2 DEF TakeProfits
    <2> QED
      BY <1>0, <1>2, <2>1, <2>3 DEF TakeProfits
  <1>12. Fills'
    <2>1. \A j \in OrderIds : callback'[j].at # "idle" =>
             callback[j].at # "idle" \/ (j \in Entered /\ ord'[j].told)
      BY <1>2, <1>4
    <2> QED
      BY <1>0, <1>2, <1>6, <2>1, FillsKept
  <1>13. Selected'
    <2>1. Done' = Done
      BY <1>2, <1>4 DEF Done
    <2> QED
      BY <1>0, <1>5, <2>1 DEF Selected, Done
  <1> QED
    BY <1>6, <1>7, <1>8, <1>9, <1>10, <1>11, <1>12, <1>13 DEF IInv

\* CancelTakeProfit keeps the invariant: what it drops from its list is closed.
LEMMA CancelTakeProfitKeeps ==
    ASSUME IInv, NEW k \in DOMAIN ord, CancelTakeProfit(k)
    PROVE  IInv'
  <1>0. /\ Shape /\ Lives /\ Runs /\ Waits
        /\ OneInside /\ TakeProfits /\ Fills /\ Selected
        /\ k \in OrderIds
    BY OrdersHaveCallbacks DEF IInv
  <1>1. PICK first : first = Min(callback[k].ids)
    OBVIOUS
  <1>2. /\ callback[k].at = "cancel"
        /\ ord' = Closed({first})
        /\ callback' = [callback EXCEPT ![k].ids = @ \ {first}]
        /\ machine' = machine /\ model' = model /\ sm' = sm /\ doc' = doc /\ world' = world
    BY <1>1 DEF CancelTakeProfit
  <1>3. /\ callback' \in [OrderIds -> CallbackType]
        /\ callback'[k].ids = callback[k].ids \ {first}
        /\ \A j \in OrderIds : callback'[j].at = callback[j].at
        /\ \A j \in OrderIds : j # k => callback'[j].ids = callback[j].ids
    BY <1>0, <1>2 DEF Shape, CallbackType
  <1>4. Moves
    BY <1>0, <1>2, ClosedMoves
  <1>5. Lives' /\ Follows
    BY <1>0, <1>2, <1>4, LivesKept
  <1>6. Shape'
    <2>1. IsSequence(ord') /\ \A j \in DOMAIN ord' : IsOrder(ord'[j])
      BY <1>4 DEF Moves, Becomes
    <2> QED
      BY <1>0, <1>2, <1>3, <2>1 DEF Shape
  <1>7. Runs'
    BY <1>0, <1>2 DEF Runs
  <1>8. Waits'
    BY <1>0, <1>2, <1>3, <1>4, <1>5, WaitsKept DEF Moves
  <1>9. OneInside'
    <2>1. \A j \in OrderIds : Inside(j)' <=> Inside(j)
      BY <1>3 DEF Inside
    <2> QED
      BY <1>0, <1>2, <2>1, OneInsideKept
  <1>10. TakeProfits'
    <2>1. OpenTakeProfits' \subseteq OpenTakeProfits
      BY <1>2, <1>4 DEF OpenTakeProfits, Open, ThisLife, Moves, Becomes
    <2>2. first \notin OpenTakeProfits'
      <3>1. ASSUME first \in OpenTakeProfits' PROVE FALSE
        <4>1. first \in Open /\ ord'[first].status = "open"
          BY <2>1, <3>1 DEF OpenTakeProfits, Open
        <4>2. first \in DOMAIN ord /\ ord'[first] = [ord[first] EXCEPT !.status = "canceled"]
          BY <1>2, <4>1 DEF Closed, Open
        <4>3. IsOrder(ord[first])
          BY <1>0, <4>2 DEF Shape
        <4>4. ord'[first].status = "canceled"
          BY <4>2, <4>3, OrderStatus
        <4> QED
          BY <4>1, <4>4
      <3> QED
        BY <3>1
    <2>3. \A j \in OrderIds : callback'[j].at = "cancel" => OpenTakeProfits' \subseteq callback'[j].ids
      BY <1>0, <1>3, <2>1, <2>2 DEF TakeProfits
    <2> QED
      BY <1>0, <1>2, <2>1, <2>3 DEF TakeProfits
  <1>11. Fills'
    <2>1. \A j \in OrderIds : callback'[j].at # "idle" =>
             callback[j].at # "idle" \/ (j \in Entered /\ ord'[j].told)
      BY <1>3
    <2> QED
      BY <1>0, <1>4, <1>5, <2>1, FillsKept DEF Moves
  <1>12. Selected'
    <2>1. Done' = Done
      BY <1>3 DEF Done
    <2> QED
      BY <1>0, <1>2, <2>1 DEF Selected, Done
  <1> QED
    BY <1>5, <1>6, <1>7, <1>8, <1>9, <1>10, <1>11, <1>12 DEF IInv

\* PlaceTakeProfit keeps the invariant: the take profit it places is the only one,
\* and the level it selects is its own.
LEMMA PlaceTakeProfitKeeps ==
    ASSUME IInv, NEW k \in DOMAIN ord, PlaceTakeProfit(k)
    PROVE  IInv'
  <1>0. /\ Shape /\ Lives /\ Runs /\ Waits
        /\ OneInside /\ TakeProfits /\ Fills /\ Selected
        /\ k \in OrderIds /\ DOMAIN ord = 1 .. Len(ord) /\ Len(ord) \in Nat
        /\ DOMAIN ord \subseteq OrderIds /\ setup.orders \in Nat
    BY OrdersHaveCallbacks DEF IInv
  <1>1. /\ callback[k].at = "cancel" /\ callback[k].ids = {}
        /\ Len(ord) < setup.orders
        /\ machine' = "InMultiEntry" /\ doc' = doc /\ world' = world
        /\ callback' = [callback EXCEPT ![k].at = "done"]
    BY DEF PlaceTakeProfit
  <1>2. "done" \in Places /\ "InMultiEntry" \in MachineStates /\ "TakeProfit" \in Steps
    BY DEF Places, MachineStates, Steps
  <1>3. /\ callback' \in [OrderIds -> CallbackType]
        /\ callback'[k].at = "done"
        /\ \A j \in OrderIds : callback'[j].ids = callback[j].ids
        /\ \A j \in OrderIds : j # k => callback'[j].at = callback[j].at
    BY <1>0, <1>1, <1>2, CallbackAt
  <1>4. OpenTakeProfits = {}
    BY <1>0, <1>1 DEF TakeProfits
  <1>5. \A j \in OrderIds : callback'[j].at \notin {"withoutLoss", "replace", "cancel"}
    BY <1>0, <1>1, <1>3 DEF OneInside, Inside
  <1>6. sm' \in SmType /\ sm'.mux = FALSE /\ sm'.selected = sm.selected + 1
    <2>1. sm \in SmType
      BY <1>0 DEF Shape
    <2>2. PICK n \in Nat : n = sm.selected + 1
      BY <2>1 DEF SmType
    <2>3. PICK w \in SUBSET {"TakeProfit", "ForcedLoss"} :
             w = IF world.pos > 0 THEN sm.waiting \cup {"TakeProfit"} ELSE sm.waiting
      BY <2>1 DEF SmType
    <2>4. sm' = [waiting |-> w, selected |-> n, mux |-> FALSE]
      <3>1. CASE world.pos > 0
        <4>1. sm' = [sm EXCEPT !.waiting = @ \cup {"TakeProfit"}, !.selected = @ + 1, !.mux = FALSE]
          BY <3>1 DEF PlaceTakeProfit
        <4> QED
          BY <2>1, <2>2, <2>3, <3>1, <4>1 DEF SmType
      <3>2. CASE ~(world.pos > 0)
        <4>1. sm' = [sm EXCEPT !.selected = @ + 1, !.mux = FALSE]
          BY <3>2 DEF PlaceTakeProfit
        <4> QED
          BY <2>1, <2>2, <2>3, <3>2, <4>1 DEF SmType
      <3> QED
        BY <3>1, <3>2
    <2> QED
      BY <2>2, <2>4 DEF SmType
  <1>7. Len(ord) + 1 \in OrderIds
    <2>1. 1 .. setup.orders \subseteq OrderIds
      BY <1>0, SetupParts DEF Shape, setup
    <2> QED
      BY <1>0, <1>1, <2>1
  <1>8. /\ Lives' /\ Follows
        /\ IsSequence(ord') /\ \A j \in DOMAIN ord' : IsOrder(ord'[j])
        /\ IsModel(model') /\ model'.state = model.state
        /\ \A j \in DOMAIN ord' \ DOMAIN ord : /\ ord'[j].step = "TakeProfit"
                                               /\ j = Len(ord) + 1 /\ j \in model'.tapIds
    <2>1. CASE world.pos > 0
      <3>1. PICK e : e = OpenOrder("TakeProfit")
        OBVIOUS
      <3>2. /\ ord' = Append(ord, e)
            /\ model' = [model EXCEPT !.tapIds = @ \cup {Len(ord) + 1}]
        BY <2>1, <3>1 DEF PlaceTakeProfit
      <3>3. Extends(ord', ord, e)
        BY <1>0, <3>2, SequenceAppend DEF Shape
      <3>4. IsOrder(e) /\ e.step = "TakeProfit" /\ e.life = world.crashes /\ e.status = "open"
        BY <1>0, <1>2, <3>1, OpenOrderParts
      <3>5. /\ Lives' /\ Follows
            /\ IsSequence(ord') /\ \A j \in DOMAIN ord' : IsOrder(ord'[j])
            /\ \A j \in DOMAIN ord' \ DOMAIN ord : ord'[j] = e
        BY <1>0, <1>1, <3>3, <3>4, OneMore
      <3>6. IsModel(model') /\ model'.state = model.state /\ model'.tapIds = model.tapIds \cup {Len(ord) + 1}
        <4>1. IsModel(model)
          BY <1>0 DEF Shape
        <4>2. PICK n : n = Len(ord) + 1
          OBVIOUS
        <4>3. model' = [state |-> model.state, entered |-> model.entered, saved |-> model.saved,
                        executed |-> model.executed, position |-> model.position,
                        tapIds |-> model.tapIds \cup {n}, waitIds |-> model.waitIds,
                        forcedIds |-> model.forcedIds, enabled |-> model.enabled]
          BY <3>2, <4>1, <4>2 DEF IsModel
        <4> QED
          BY <1>7, <4>1, <4>2, <4>3 DEF IsModel
      <3> QED
        BY <3>3, <3>4, <3>5, <3>6 DEF Extends
    <2>2. CASE ~(world.pos > 0)
      <3>1. ord' = ord /\ model' = [model EXCEPT !.enabled = FALSE]
        BY <2>2 DEF PlaceTakeProfit
      <3>2. Lives' /\ Follows
        BY <1>0, <1>1, <3>1 DEF Lives, Follows, setup
      <3>3. Alike(model', model)
        BY <1>0, <3>1, DisabledAlike DEF Shape
      <3> QED
        BY <1>0, <3>1, <3>2, <3>3 DEF Alike, Shape
    <2> QED
      BY <2>1, <2>2
  <1>9. Shape'
    BY <1>0, <1>1, <1>2, <1>3, <1>6, <1>8 DEF Shape
  <1>10. Runs'
    BY <1>0, <1>1, <1>8 DEF Runs
  <1>11. Waits'
    BY <1>1 DEF Waits
  <1>12. OneInside'
    BY <1>5, <1>6 DEF OneInside, Inside
  <1>13. TakeProfits'
    <2>1. OpenTakeProfits' \subseteq DOMAIN ord' \ DOMAIN ord
      BY <1>4, <1>8 DEF OpenTakeProfits, Open, ThisLife, Follows
    <2> QED
      BY <1>5, <1>8, <2>1 DEF TakeProfits
  <1>14. Fills'
    <2>1. \A j \in OrderIds : callback'[j].at # "idle" =>
             callback[j].at # "idle" \/ (j \in Entered /\ ord'[j].told)
      BY <1>1, <1>3
    <2> QED
      BY <1>0, <1>8, <2>1, FillsKept
  <1>15. Selected'
    <2>1. Done' = Done \cup {k} /\ k \notin Done
      BY <1>0, <1>1, <1>3 DEF Done
    <2>2. IsFiniteSet(Done) /\ Cardinality(Done) \in Nat
      BY <1>0, DoneIsFinite
    <2>3. Cardinality(Done') = Cardinality(Done) + 1
      BY <2>1, <2>2, FS_AddElement
    <2>4. sm.selected \in Nat /\ sm.selected <= Cardinality(Done)
      BY <1>0 DEF Shape, SmType, Selected, Done
    <2>5. sm'.selected <= Cardinality(Done')
      BY <1>6, <2>2, <2>3, <2>4
    <2> QED
      BY <2>5 DEF Selected, Done
  <1> QED
    BY <1>8, <1>9, <1>10, <1>11, <1>12, <1>13, <1>14, <1>15 DEF IInv

-----------------------------------------------------------------------------
(* Every reachable state *)

\* Every step keeps the invariant.
LEMMA NextIInv == IInv /\ [Next]_vars => IInv'
  <1> SUFFICES ASSUME IInv, [Next]_vars PROVE IInv'
    OBVIOUS
  <1>1. CASE Crash
    BY <1>1, CrashKeeps
  <1>2. ASSUME NEW k \in canceling, CancelOrder(k) PROVE IInv'
    BY <1>2, CancelOrderKeeps
  <1>3. ASSUME NEW k \in DOMAIN ord,
               \/ AcceptOrder(k) \/ Fill(k)
               \/ HearEntry(k) \/ HearTakeProfit(k) \/ HearStop(k) \/ HearWithoutLoss(k)
               \/ Enter(k) \/ Panic(k) \/ PlaceWithoutLoss(k) \/ ReturnEarly(k)
               \/ Replace(k) \/ CancelTakeProfit(k) \/ PlaceTakeProfit(k)
        PROVE  IInv'
    <2>1. CASE AcceptOrder(k)
      BY <2>1, AcceptOrderKeeps
    <2>2. CASE Fill(k)
      BY <2>2, FillKeeps
    <2>3. CASE HearEntry(k)
      BY <2>3, HearEntryKeeps
    <2>4. CASE HearTakeProfit(k)
      BY <2>4, HearTakeProfitKeeps
    <2>5. CASE HearStop(k)
      BY <2>5, HearStopKeeps
    <2>6. CASE HearWithoutLoss(k)
      BY <2>6, HearWithoutLossKeeps
    <2>7. CASE Enter(k)
      BY <2>7, EnterKeeps
    <2>8. CASE Panic(k)
      BY <2>8, PanicKeeps
    <2>9. CASE PlaceWithoutLoss(k)
      BY <2>9, PlaceWithoutLossKeeps
    <2>10. CASE ReturnEarly(k)
      BY <2>10, ReturnEarlyKeeps
    <2>11. CASE Replace(k)
      BY <2>11, ReplaceKeeps
    <2>12. CASE CancelTakeProfit(k)
      BY <2>12, CancelTakeProfitKeeps
    <2>13. CASE PlaceTakeProfit(k)
      BY <2>13, PlaceTakeProfitKeeps
    <2> QED
      BY <1>3, <2>1, <2>2, <2>3, <2>4, <2>5, <2>6, <2>7, <2>8, <2>9, <2>10, <2>11, <2>12, <2>13
  <1>4. CASE UNCHANGED vars
    BY <1>4 DEF vars, IInv, Shape, Lives, Runs, Waits, OneInside, TakeProfits, Fills, Selected,
                Inside, Entered, OpenTakeProfits, Open, ThisLife, setup, Levels
  <1> QED
    BY <1>1, <1>2, <1>3, <1>4 DEF Next

\* The invariant holds in every reachable state.
LEMMA Invariant == Spec => []IInv
  BY InitIInv, NextIInv, PTL DEF Spec

\* The index into the levels (averaging.go:77) stays in range without PlaceEntryAfterTAP,
\* for any levels: every callback that is done, or on its way, is that of another level.
THEOREM IndexStaysInRange == Spec => []IndexInRange
  <1>1. IInv => IndexInRange
    <2> SUFFICES ASSUME IInv, ~setup.entryAfterTAP
                 PROVE  sm.selected + Cardinality({j \in OrderIds : callback[j].at \notin {"idle", "done"}})
                           <= Len(Levels)
      BY DEF IndexInRange
    <2>0. /\ Shape /\ Lives /\ Fills /\ Selected
          /\ Len(ord) \in Nat /\ DOMAIN ord = 1 .. Len(ord)
      BY OrdersHaveCallbacks DEF IInv
    <2> DEFINE A == {j \in OrderIds : callback[j].at \notin {"idle", "done"}}
    <2>1. IsFiniteSet(Entered)
      <3>1. IsFiniteSet(DOMAIN ord)
        BY <2>0, FS_Interval
      <3> QED
        BY <3>1, FS_Subset DEF Entered, ThisLife
    <2>2. A \cup Done \subseteq Entered /\ A \cap Done = {}
      BY <2>0 DEF Fills, Done
    <2>3. /\ IsFiniteSet(A) /\ IsFiniteSet(Done)
          /\ Cardinality(A \cup Done) <= Cardinality(Entered)
      BY <2>1, <2>2, FS_Subset
    <2>4. Cardinality(A \cup Done) = Cardinality(A) + Cardinality(Done)
      <3>1. Cardinality(A \cap Done) = 0
        BY <2>2, FS_EmptySet
      <3>2. Cardinality(A \cup Done) = Cardinality(A) + Cardinality(Done) - Cardinality(A \cap Done)
        BY <2>3, FS_Union
      <3> QED
        BY <2>3, <3>1, <3>2, FS_CardinalityType
    <2>5. IsSequence(Levels) /\ Len(Levels) \in Nat /\ DOMAIN Levels = 1 .. Len(Levels)
      BY <2>0, SetupParts, SequenceDomain DEF Shape, setup, Levels
    <2>6. Cardinality(Entered) <= Len(Levels)
      <3>1. IsFiniteSet(DOMAIN Levels) /\ Cardinality(DOMAIN Levels) = Len(Levels)
        <4>1. PICK n \in Nat : n = Len(Levels)
          BY <2>5
        <4>2. IsFiniteSet(1 .. n) /\ Cardinality(1 .. n) = n
          BY FS_CountingElements, FS_Interval
        <4> QED
          BY <2>5, <4>1, <4>2
      <3>2. PICK f : f = [j \in Entered |-> ord[j].level]
        OBVIOUS
      <3>3. f \in Injection(Entered, DOMAIN Levels)
        BY <2>0, <3>2 DEF Fills, Injection, IsInjective
      <3>4. Cardinality(Entered) <= Cardinality(DOMAIN Levels)
        BY <3>1, <3>3, FS_Injection
      <3> QED
        BY <3>1, <3>4
    <2>7. sm.selected \in Nat /\ sm.selected <= Cardinality(Done)
      BY <2>0 DEF Shape, SmType, Selected, Done
    <2>8. PICK a \in Nat, d \in Nat, e \in Nat, n \in Nat, s \in Nat :
             /\ a = Cardinality(A) /\ d = Cardinality(Done) /\ e = Cardinality(Entered)
             /\ n = Len(Levels) /\ s = sm.selected
      BY <2>1, <2>3, <2>5, <2>7, FS_CardinalityType
    <2>9. a + d <= e /\ e <= n /\ s <= d
      BY <2>3, <2>4, <2>6, <2>7, <2>8
    <2>10. s + a <= n
      BY <2>9
    <2> QED
      BY <2>8, <2>10
  <1> QED
    BY <1>1, Invariant, PTL

\* However many levels are filled together, one take profit is open when everything
\* is at rest (averaging.go:67,97-103), whatever the setup.
THEOREM OneTakeProfitIsOpen == Spec => []OneTakeProfit
  <1>1. IInv => OneTakeProfit
    <2> SUFFICES ASSUME IInv PROVE Cardinality(OpenTakeProfits) <= 1
      BY DEF OneTakeProfit
    <2>1. \A j, k \in OpenTakeProfits : j = k
      BY DEF IInv, TakeProfits
    <2>2. CASE OpenTakeProfits = {}
      BY <2>2, FS_EmptySet
    <2>3. CASE OpenTakeProfits # {}
      <3>1. PICK k \in OpenTakeProfits : OpenTakeProfits = {k}
        BY <2>1, <2>3
      <3> QED
        BY <3>1, FS_Singleton
    <2> QED
      BY <2>2, <2>3
  <1> QED
    BY <1>1, Invariant, PTL
=============================================================================
