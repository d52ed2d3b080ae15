------------------------- MODULE Settlement_proofs -------------------------
(***************************************************************************)
(* Proofs about Settlement, for any number of instances, any delays and    *)
(* any number of crashes and redis failures: the extending goroutine never *)
(* comes too late, and a runtime that lost its mutex stops in time.        *)
(***************************************************************************)
EXTENDS Settlement, TLAPS

-----------------------------------------------------------------------------
(* The inductive invariant *)

\* A runtime nobody has started has no mutex, no goroutine and no time.
Unborn(r) ==
    phase[r] = "unborn" =>
        /\ r \notin extending
        /\ \A n \in Names : holder[n] # r
        /\ sinceExtend[r] = 0 /\ sinceCheck[r] = 0
        /\ blockedFor[r] = 0 /\ staleFor[r] = 0

\* The extending goroutine is never so late that the mutex expires.
Lease(r) ==
    r \in extending =>
        /\ holder[mutexOf[r]] = r
        /\ sinceExtend[r] <= ExtendEvery + ExtendDelay
        /\ ttl[mutexOf[r]] + sinceExtend[r] >= Expiry

\* A mutex that was lost is never the runtime's again.
Lost(r) ==
    phase[r] \in Working /\ staleFor[r] > 0 => holder[mutexOf[r]] # r

\* New has had the mutex for as long as it takes to expire.
New(r) ==
    phase[r] = "new" =>
        /\ blockedFor[r] <= MaxBlock
        /\ holder[mutexOf[r]] = r => ttl[mutexOf[r]] + blockedFor[r] >= Expiry
        /\ holder[mutexOf[r]] # r => blockedFor[r] >= Expiry
        /\ staleFor[r] > 0 => staleFor[r] + Expiry <= blockedFor[r]

\* The loop checks the mutex in time, and the time without it counts from there.
Checked(r) ==
    /\ phase[r] = "loop" => sinceCheck[r] <= CheckEvery + MaxBlock
    /\ phase[r] = "turn" => /\ blockedFor[r] <= MaxBlock
                            /\ sinceCheck[r] <= CheckEvery + blockedFor[r]
    /\ phase[r] \in {"loop", "turn"} /\ holder[mutexOf[r]] # r
         => staleFor[r] + 1 <= sinceCheck[r] + Outlasts

IInv ==
    /\ TypeOK
    /\ \A r \in Runtimes : Unborn(r) /\ Lease(r) /\ Lost(r) /\ New(r) /\ Checked(r)

-----------------------------------------------------------------------------

LEMMA NamesDiffer == InitName # WatchName /\ Names = {InitName, WatchName}
  BY DEF InitName, WatchName, Names

LEMMA Times ==
    /\ Expiry \in Nat /\ Expiry > 0
    /\ CheckEvery \in Nat /\ CheckEvery > 0
    /\ MaxBlock \in Nat /\ MaxBlock > 0
    /\ ExtendEvery \in Nat /\ ExtendDelay \in Nat
  BY SettlementAssumption

LEMMA OutlastsIsTime ==
    /\ Outlasts \in Nat
    /\ MaxBlock <= Expiry + Outlasts
  BY SettlementAssumption DEF Outlasts

\* The invariant holds at the start.
LEMMA InitIInv == Init => IInv
<1> SUFFICES ASSUME Init
             PROVE  IInv
  OBVIOUS
<1>1. TypeOK
  BY DEF Init, TypeOK, Zero, Phases, Names
<1>2. ASSUME NEW r \in Runtimes
      PROVE  Unborn(r) /\ Lease(r) /\ Lost(r) /\ New(r) /\ Checked(r)
  <2>1. phase[r] = "unborn" /\ r \notin extending /\ \A n \in Names : holder[n] = None
    BY <1>2 DEF Init
  <2>2. r # None
    BY <1>2, SettlementAssumption
  <2> QED
    BY <1>2, <2>1, <2>2 DEF Init, Unborn, Lease, Lost, New, Checked, Zero, Working
<1> QED
  BY <1>1, <1>2 DEF IInv

LEMMA SettleStep ==
    ASSUME NEW i \in Instances, NEW q \in Runtimes, NEW name \in Names,
           IInv, Settle(i, q, name), up' \subseteq Instances
    PROVE  IInv'
<1> USE SettlementAssumption DEF IInv
<1>1. TypeOK'
  <2>1. q # None /\ q \in Runtimes /\ TypeOK
    OBVIOUS
  <2>2. \A n \in Names : holder'[n] = None <=> ttl'[n] = 0
    BY <2>1, Times DEF TypeOK, Settle, Lock
  <2>3. /\ registered' \in [Instances -> Runtimes \cup {None}]
        /\ holder' \in [Names -> Runtimes \cup {None}]
        /\ ttl' \in [Names -> Nat]
    BY <2>1, Times DEF TypeOK, Settle, Lock
  <2>4. /\ phase' \in [Runtimes -> Phases]
        /\ mutexOf' \in [Runtimes -> Names]
        /\ instanceOf' \in [Runtimes -> Instances]
        /\ live' \subseteq Runtimes /\ extending' \subseteq Runtimes
    BY <2>1 DEF TypeOK, Settle, Phases
  <2> QED
    BY <2>1, <2>2, <2>3, <2>4 DEF TypeOK, Settle, clocks
<1>2. ASSUME NEW r \in Runtimes
      PROVE  (Unborn(r) /\ Lease(r) /\ Lost(r) /\ New(r) /\ Checked(r))'
  <2>1. CASE r = q
    BY <1>2, <2>1 DEF TypeOK, Settle, Lock, Unborn, Lease, Lost, New, Checked, Working, clocks
  <2>2. CASE r # q
    <3>1. holder'[mutexOf'[r]] = r <=> holder[mutexOf[r]] = r
      BY <2>2 DEF TypeOK, Settle, Lock, Locks
    <3>2. holder[mutexOf[r]] = r => ttl'[mutexOf'[r]] = ttl[mutexOf[r]]
      BY <2>2 DEF TypeOK, Settle, Lock, Locks
    <3>3. /\ phase'[r] = phase[r] /\ (r \in extending' <=> r \in extending)
          /\ mutexOf'[r] = mutexOf[r]
          /\ \A n \in Names : holder'[n] = r => holder[n] = r
      BY <2>2 DEF TypeOK, Settle, Lock, Locks
    <3> QED
      BY <3>1, <3>2, <3>3 DEF TypeOK, Settle, Unborn, Lease, Lost, New, Checked, clocks
  <2> QED
    BY <2>1, <2>2
<1> QED
  BY <1>1, <1>2

LEMMA TickStep == IInv /\ Tick => IInv'
<1> SUFFICES ASSUME IInv, Tick
             PROVE  IInv'
  OBVIOUS
<1> USE SettlementAssumption, OutlastsIsTime DEF IInv
<1>1. TypeOK'
  BY DEF TypeOK, Tick
<1>2. ASSUME NEW r \in Runtimes
      PROVE  (Unborn(r) /\ Lease(r) /\ Lost(r) /\ New(r) /\ Checked(r))'
  <2> DEFINE m == mutexOf[r]
  <2>1. /\ m \in Names /\ mutexOf'[r] = m /\ phase'[r] = phase[r]
        /\ extending' = extending
        /\ ttl[m] \in Nat /\ sinceExtend[r] \in Nat /\ sinceCheck[r] \in Nat
        /\ blockedFor[r] \in Nat /\ staleFor[r] \in Nat /\ Outlasts \in Nat
    BY <1>2 DEF TypeOK, Tick
  <2>2. /\ ttl'[m] = IF ttl[m] > 0 THEN ttl[m] - 1 ELSE 0
        /\ holder'[m] = IF ttl[m] > 1 THEN holder[m] ELSE None
        /\ holder[m] = r => ttl[m] > 0
        /\ r # None
    BY <1>2, <2>1 DEF TypeOK, Tick
  <2>3. /\ sinceExtend'[r] = IF r \in extending THEN sinceExtend[r] + 1 ELSE 0
        /\ sinceCheck'[r] = IF phase[r] \in {"loop", "turn"} THEN sinceCheck[r] + 1 ELSE 0
        /\ blockedFor'[r] = IF phase[r] \in {"new", "turn"} THEN blockedFor[r] + 1 ELSE 0
        /\ staleFor'[r] = IF phase[r] \in Working /\ holder[m] # r THEN staleFor[r] + 1
                                                                   ELSE 0
        /\ InTime(r)
    BY <1>2 DEF Tick
  <2>4. Unborn(r)'
    BY <1>2, <2>1, <2>3 DEF Unborn, Working, Tick, TypeOK
  <2>5. Lease(r)'
    BY <1>2, <2>1, <2>2, <2>3 DEF Lease, InTime
  <2>6. Lost(r)'
    BY <1>2, <2>1, <2>2, <2>3 DEF Lost
  <2>7. New(r)'
    <3>1. New(r)
      BY <1>2
    <3>2. CASE phase[r] = "new"
      BY <2>1, <2>2, <2>3, <3>1, <3>2, Times DEF New, InTime, Working
    <3> QED
      BY <2>1, <3>2 DEF New
  <2>8. Checked(r)'
    <3>1. Checked(r) /\ MaxBlock \in Nat /\ CheckEvery \in Nat /\ MaxBlock > 0
      BY <1>2, Times
    <3>2. CASE phase[r] = "loop"
      BY <2>1, <2>2, <2>3, <3>1, <3>2 DEF Checked, InTime, Working
    <3>3. CASE phase[r] = "turn"
      BY <2>1, <2>2, <2>3, <3>1, <3>3 DEF Checked, InTime, Working
    <3> QED
      BY <2>1, <3>2, <3>3 DEF Checked
  <2> QED
    BY <2>4, <2>5, <2>6, <2>7, <2>8
<1> QED
  BY <1>1, <1>2

-----------------------------------------------------------------------------

\* The steps of one runtime q that leave redis and the set of runtimes alone.
LEMMA RuntimeStep ==
    ASSUME NEW q \in Runtimes, IInv,
           \/ Extend(q) \/ ExtendFails(q) \/ StartLoop(q) \/ CheckMutex(q)
           \/ LeaveLoop(q) \/ BeginTurn(q) \/ EndTurn(q) \/ Stop(q)
    PROVE  IInv'
<1> USE SettlementAssumption, OutlastsIsTime DEF IInv, redis
<1>1. CASE Extend(q)
  <2>1. TypeOK'
    BY <1>1 DEF TypeOK, Extend, Extended
  <2>2. ASSUME NEW r \in Runtimes
        PROVE  (Unborn(r) /\ Lease(r) /\ Lost(r) /\ New(r) /\ Checked(r))'
    <3>1. /\ ttl[mutexOf[r]] \in Nat
          /\ holder[mutexOf[r]] = r /\ r # q => ttl'[mutexOf[r]] = ttl[mutexOf[r]]
          /\ ttl'[mutexOf[q]] = IF holder[mutexOf[q]] = q THEN Expiry ELSE ttl[mutexOf[q]]
      BY <1>1, <2>2 DEF TypeOK, Extend, Extended
    <3> QED
      BY <1>1, <2>2, <3>1 DEF TypeOK, Extend, Unborn, Lease, Lost, New, Checked, Working
  <2> QED
    BY <2>1, <2>2
<1>2. CASE ExtendFails(q)
  BY <1>2 DEF TypeOK, ExtendFails, Unborn, Lease, Lost, New, Checked, Working
<1>3. CASE StartLoop(q)
  <2>1. TypeOK'
    BY <1>3 DEF TypeOK, StartLoop, Becomes, Phases
  <2>2. ASSUME NEW r \in Runtimes
        PROVE  (Unborn(r) /\ Lease(r) /\ Lost(r) /\ New(r) /\ Checked(r))'
    BY <1>3, <2>2 DEF TypeOK, StartLoop, Becomes, Unborn, Lease, Lost, New, Checked, Working
  <2> QED
    BY <2>1, <2>2
<1>4. CASE CheckMutex(q)
  BY <1>4 DEF TypeOK, CheckMutex, IsValid, Unborn, Lease, Lost, New, Checked, Working
<1>5. CASE LeaveLoop(q)
  BY <1>5 DEF TypeOK, LeaveLoop, Phases, Unborn, Lease, Lost, New, Checked, Working
<1>6. CASE BeginTurn(q)
  BY <1>6 DEF TypeOK, BeginTurn, Becomes, Phases, Unborn, Lease, Lost, New, Checked, Working
<1>7. CASE EndTurn(q)
  BY <1>7 DEF TypeOK, EndTurn, Becomes, Phases, Unborn, Lease, Lost, New, Checked, Working
<1>8. CASE Stop(q)
  BY <1>8 DEF TypeOK, Stop, Becomes, Phases, Unborn, Lease, Lost, New, Checked, Working
<1> QED
  BY <1>1, <1>2, <1>3, <1>4, <1>5, <1>6, <1>7, <1>8

\* The steps of an instance.
LEMMA InstanceStep ==
    ASSUME NEW i \in Instances, IInv,
           StartInstance(i) \/ AddStrategy(i) \/ HotReload(i) \/ Crash(i)
    PROVE  IInv'
<1>1. CASE StartInstance(i)
  <2>1. CASE \E r \in Runtimes : Settle(i, r, InitName)
    <3>1. up' \subseteq Instances
      BY <1>1 DEF StartInstance, IInv, TypeOK
    <3> QED
      BY <2>1, <3>1, SettleStep, NamesDiffer
  <2>2. CASE ~\E r \in Runtimes : Settle(i, r, InitName)
    BY <1>1, <2>2 DEF StartInstance, IInv, redis, clocks, TypeOK, Unborn, Lease, Lost, New,
       Checked
  <2> QED
    BY <2>1, <2>2
<1>2. CASE AddStrategy(i)
  <2>1. up' \subseteq Instances
    BY <1>2 DEF AddStrategy, IInv, TypeOK
  <2> QED
    BY <1>2, <2>1, SettleStep, NamesDiffer DEF AddStrategy
<1>3. CASE HotReload(i)
  BY <1>3 DEF HotReload, IInv, redis, clocks, TypeOK, Unborn, Lease, Lost, New, Checked
<1>4. CASE Crash(i)
  <2>1. TypeOK'
    BY <1>4 DEF Crash, IInv, redis, clocks, TypeOK, Phases
  <2>2. ASSUME NEW r \in Runtimes
        PROVE  (Unborn(r) /\ Lease(r) /\ Lost(r) /\ New(r) /\ Checked(r))'
    BY <1>4, <2>2 DEF Crash, IInv, redis, clocks, TypeOK, Unborn, Lease, Lost, New, Checked,
       Working
  <2> QED
    BY <2>1, <2>2 DEF IInv
<1> QED
  BY <1>1, <1>2, <1>3, <1>4

LEMMA SettlementInvariant == Spec => []IInv
<1>1. IInv /\ [Next]_vars => IInv'
  <2> SUFFICES ASSUME IInv, [Next]_vars
               PROVE  IInv'
    OBVIOUS
  <2>1. CASE SetEnabled
    BY <2>1 DEF SetEnabled, IInv, redis, clocks, TypeOK, Unborn, Lease, Lost, New, Checked
  <2>2. CASE UNCHANGED vars
    BY <2>2 DEF vars, IInv, redis, clocks, TypeOK, Unborn, Lease, Lost, New, Checked
  <2> QED
    BY <2>1, <2>2, TickStep, InstanceStep, RuntimeStep DEF Next
<1> QED
  BY <1>1, InitIInv, PTL DEF Spec

-----------------------------------------------------------------------------
(* What follows from it *)

\* Every variable keeps its type, and a mutex has a value until it expires.
THEOREM TypeCorrect == Spec => []TypeOK
<1>1. IInv => TypeOK
  BY DEF IInv
<1> QED
  BY <1>1, SettlementInvariant, PTL

\* While its extending goroutine lives, a runtime cannot lose its mutex.
THEOREM ExtenderInTime == Spec => []ExtenderHoldsMutex
<1>1. IInv => ExtenderHoldsMutex
  BY DEF IInv, ExtenderHoldsMutex, Lease, TypeOK
<1> QED
  BY <1>1, SettlementInvariant, PTL

\* A runtime works on without the mutex for StaleLimit ticks at most.
THEOREM StaleWorkIsShort == Spec => []StaleIsShort
<1>1. IInv => StaleIsShort
  <2> SUFFICES ASSUME IInv, NEW r \in Runtimes, phase[r] \in Working
               PROVE  staleFor[r] <= StaleLimit
    BY DEF StaleIsShort
  <2> USE SettlementAssumption, OutlastsIsTime
  <2>1. /\ staleFor[r] \in Nat /\ sinceCheck[r] \in Nat /\ blockedFor[r] \in Nat
        /\ Lost(r) /\ New(r) /\ Checked(r)
    BY DEF IInv, TypeOK
  <2>2. CASE phase[r] = "new"
    BY <2>1, <2>2 DEF New, StaleLimit
  <2>3. CASE phase[r] = "loop"
    BY <2>1, <2>3 DEF Lost, Checked, StaleLimit, Working
  <2>4. CASE phase[r] = "turn"
    BY <2>1, <2>4 DEF Lost, Checked, StaleLimit, Working
  <2> QED
    BY <2>2, <2>3, <2>4 DEF Working
<1> QED
  BY <1>1, SettlementInvariant, PTL
=============================================================================
