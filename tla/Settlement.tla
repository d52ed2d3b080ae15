----------------------------- MODULE Settlement -----------------------------
(***************************************************************************)
(* Which instance of strategy_service runs one strategy: a redis mutex with*)
(* an expiry, a goroutine that extends it, and an event loop that looks    *)
(* every now and then whether the mutex is still its own.                  *)
(*                                                                         *)
(*   Init             settles the enabled strategies found in the storage  *)
(*   WatchStrategies  hot reloads a strategy the instance has, adds one    *)
(*                    that it has not                                      *)
(*   Settle           locks the mutex, extends it every three seconds      *)
(*   Start            checks the mutex when the last check is two seconds  *)
(*                    old, and may be blocked by what a turn calls         *)
(*                                                                         *)
(* Time is counted in ticks.  A runtime that was started is never started  *)
(* again, a new one takes its place, as a new mutex value does in redis.   *)
(***************************************************************************)
EXTENDS Integers

CONSTANTS
    Instances,
    Runtimes,         \* as many as may ever be started
    None,
    Expiry,           \* redsync.WithExpiry: 10 s
    ExtendEvery,      \* sleep of the extending goroutine: 3 s
    ExtendDelay,      \* how late that goroutine may get its turn
    CheckEvery,       \* Start looks at the mutex when 2 s have passed
    MaxBlock,         \* how long New, or one turn of the loop, may be blocked
    ContinueIfEnded

ASSUME SettlementAssumption ==
    /\ None \notin Runtimes
    /\ {Expiry, ExtendEvery, ExtendDelay, CheckEvery, MaxBlock} \subseteq Nat
    /\ ExtendEvery + ExtendDelay < Expiry
    /\ CheckEvery > 0 /\ MaxBlock > 0
    /\ ContinueIfEnded \in BOOLEAN

VARIABLES
    enabled,      \* "enabled" of the document in core_strategies
    up,           \* instances that run
    registered,   \* StrategyService.strategies of every instance
    holder, ttl,  \* the value and the expiry of every mutex name in redis
    phase,        \* how far every runtime is
    mutexOf,      \* the name of its SettlementMutex
    instanceOf,
    live,         \* Model.Enabled in its memory
    extending,    \* runtimes whose extending goroutine is alive
    sinceExtend,  \* since that goroutine went to sleep
    sinceCheck,   \* since lastValidityCheckAt
    blockedFor,   \* since the call it is blocked by
    staleFor      \* history: how long it has worked without the mutex

redis == <<holder, ttl>>
clocks == <<sinceExtend, sinceCheck, blockedFor, staleFor>>
vars == <<enabled, up, registered, redis, phase, mutexOf, instanceOf, live,
          extending, clocks>>

\* strategies.GetStrategy and service.GetStrategy format the name differently.
InitName == "strategy:market:pair:id"
WatchName == "strategy:pair:id"
Names == {InitName, WatchName}

Phases == {"unborn", "new", "loop", "turn", "stop", "over", "dead"}
Working == {"new", "loop", "turn"}

\* What every variable holds; a mutex in redis has a value as long as it has not
\* expired (redsync.WithExpiry, for a process that dies with the mutex).
TypeOK ==
    /\ enabled \in BOOLEAN
    /\ up \subseteq Instances
    /\ registered \in [Instances -> Runtimes \cup {None}]
    /\ holder \in [Names -> Runtimes \cup {None}]
    /\ ttl \in [Names -> Nat]
    /\ phase \in [Runtimes -> Phases]
    /\ mutexOf \in [Runtimes -> Names]
    /\ instanceOf \in [Runtimes -> Instances]
    /\ live \subseteq Runtimes
    /\ extending \subseteq Runtimes
    /\ sinceExtend \in [Runtimes -> Nat]
    /\ sinceCheck \in [Runtimes -> Nat]
    /\ blockedFor \in [Runtimes -> Nat]
    /\ staleFor \in [Runtimes -> Nat]
    /\ \A n \in Names : holder[n] = None <=> ttl[n] = 0

Zero == [r \in Runtimes |-> 0]

Init ==
    /\ enabled = TRUE
    /\ up = {}
    /\ registered = [i \in Instances |-> None]
    /\ holder = [n \in Names |-> None]
    /\ ttl = [n \in Names |-> 0]
    /\ phase = [r \in Runtimes |-> "unborn"]
    /\ mutexOf = [r \in Runtimes |-> InitName]
    /\ instanceOf \in {[r \in Runtimes |-> i] : i \in Instances}
    /\ live = {}
    /\ extending = {}
    /\ sinceExtend = Zero
    /\ sinceCheck = Zero
    /\ blockedFor = Zero
    /\ staleFor = Zero

-----------------------------------------------------------------------------
(* The mutex, as redsync keeps it in redis *)

Lock(name, r) ==
    /\ holder' = [holder EXCEPT ![name] = r]
    /\ ttl' = [ttl EXCEPT ![name] = Expiry]

\* Valid compares the value.
IsValid(r) == holder[mutexOf[r]] = r

\* Extend compares the value, too.
Extended(r) == IF holder[mutexOf[r]] = r THEN [ttl EXCEPT ![mutexOf[r]] = Expiry] ELSE ttl

-----------------------------------------------------------------------------
(* Settling *)

\* mutant: the error of SettlementMutex.Lock is not looked at
LocksRegardless(name) == TRUE

\* SettlementMutex.Lock succeeds.
Locks(name) == holder[name] = None

\* Settle locked the mutex: the strategy is registered and New begins.
Settle(i, r, name) ==
    /\ phase[r] = "unborn"
    /\ Locks(name)
    /\ Lock(name, r)
    /\ registered' = [registered EXCEPT ![i] = r]
    /\ phase' = [phase EXCEPT ![r] = "new"]
    /\ mutexOf' = [mutexOf EXCEPT ![r] = name]
    /\ instanceOf' = [instanceOf EXCEPT ![r] = i]
    /\ live' = live \cup {r}
    /\ extending' = extending \cup {r}
    /\ UNCHANGED <<enabled, clocks>>

\* An instance starts: Init takes the strategy when it is enabled and the mutex can
\* be locked, and does not come back to it.
StartInstance(i) ==
    /\ i \notin up
    /\ up' = up \cup {i}
    /\ \/ /\ enabled
          /\ \E r \in Runtimes : Settle(i, r, InitName)
       \/ UNCHANGED <<enabled, registered, redis, phase, mutexOf, instanceOf, live,
                      extending, clocks>>

\* WatchStrategies sees a change of the document of a strategy it has not.
AddStrategy(i) ==
    /\ i \in up
    /\ registered[i] = None
    /\ enabled
    /\ \E r \in Runtimes : Settle(i, r, WatchName)
    /\ UNCHANGED up

\* WatchStrategies sees a change of the document of a strategy it has: Enabled is
\* copied, also when the runtime is over; a disabled strategy is forgotten.
HotReload(i) ==
    /\ i \in up
    /\ registered[i] # None
    /\ live' = IF enabled THEN live \cup {registered[i]} ELSE live \ {registered[i]}
    /\ registered' = IF enabled THEN registered ELSE [registered EXCEPT ![i] = None]
    /\ UNCHANGED <<enabled, up, redis, phase, mutexOf, instanceOf, extending, clocks>>

-----------------------------------------------------------------------------
(* The extending goroutine *)

\* Extend keeps the mutex only while its value is the runtime's; the goroutine
\* ends on a failure, and once the strategy is disabled.
Extend(r) ==
    /\ r \in extending
    /\ sinceExtend[r] >= ExtendEvery
    /\ sinceExtend' = [sinceExtend EXCEPT ![r] = 0]
    /\ ttl' = Extended(r)
    /\ extending' = IF holder[mutexOf[r]] = r /\ r \in live THEN extending
                                                            ELSE extending \ {r}
    /\ UNCHANGED <<enabled, up, registered, holder, phase, mutexOf, instanceOf, live,
                   sinceCheck, blockedFor, staleFor>>

\* Redis did not answer: there is no second attempt.
ExtendFails(r) ==
    /\ r \in extending
    /\ sinceExtend[r] >= ExtendEvery
    /\ extending' = extending \ {r}
    /\ sinceExtend' = [sinceExtend EXCEPT ![r] = 0]
    /\ UNCHANGED <<enabled, up, registered, redis, phase, mutexOf, instanceOf, live,
                   sinceCheck, blockedFor, staleFor>>

-----------------------------------------------------------------------------
(* The runtime *)

Becomes(r, p) ==
    /\ phase' = [phase EXCEPT ![r] = p]
    /\ blockedFor' = [blockedFor EXCEPT ![r] = 0]

\* mutant: the second is added instead of subtracted
StartLoopAhead(r) ==
    /\ phase[r] = "new"
    /\ Becomes(r, "loop")
    /\ sinceCheck' = [sinceCheck EXCEPT ![r] = -1]
    /\ UNCHANGED <<enabled, up, registered, redis, mutexOf, instanceOf, live, extending,
                   sinceExtend, staleFor>>

\* New returned: Start behaves as if it had checked the mutex one second ago.
StartLoop(r) ==
    /\ phase[r] = "new"
    /\ Becomes(r, "loop")
    /\ sinceCheck' = [sinceCheck EXCEPT ![r] = 1]
    /\ UNCHANGED <<enabled, up, registered, redis, mutexOf, instanceOf, live, extending,
                   sinceExtend, staleFor>>

\* mutant: the answer of Valid is not looked at
CheckMutexBlindly(r) ==
    /\ phase[r] = "loop"
    /\ sinceCheck[r] > CheckEvery
    /\ sinceCheck' = [sinceCheck EXCEPT ![r] = 0]
    /\ UNCHANGED <<enabled, up, registered, redis, phase, mutexOf, instanceOf, live,
                   extending, sinceExtend, blockedFor, staleFor>>

\* The loop goes on only with a mutex that is its own.
CheckMutex(r) ==
    /\ phase[r] = "loop"
    /\ sinceCheck[r] > CheckEvery
    /\ IsValid(r)
    /\ sinceCheck' = [sinceCheck EXCEPT ![r] = 0]
    /\ UNCHANGED <<enabled, up, registered, redis, phase, mutexOf, instanceOf, live,
                   extending, sinceExtend, blockedFor, staleFor>>

\* The mutex is lost or redis does not answer; the order ended; or it is disabled.
LeaveLoop(r) ==
    /\ phase[r] = "loop"
    /\ phase' = [phase EXCEPT ![r] = "stop"]
    /\ sinceCheck' = [sinceCheck EXCEPT ![r] = 0]
    /\ staleFor' = [staleFor EXCEPT ![r] = 0]
    /\ UNCHANGED <<enabled, up, registered, redis, mutexOf, instanceOf, live, extending,
                   sinceExtend, blockedFor>>

\* One turn: prices are read, orders sent.
BeginTurn(r) ==
    /\ phase[r] = "loop"
    /\ sinceCheck[r] <= CheckEvery
    /\ r \in live
    /\ Becomes(r, "turn")
    /\ UNCHANGED <<enabled, up, registered, redis, mutexOf, instanceOf, live, extending,
                   sinceExtend, sinceCheck, staleFor>>

EndTurn(r) ==
    /\ phase[r] = "turn"
    /\ Becomes(r, "loop")
    /\ UNCHANGED <<enabled, up, registered, redis, mutexOf, instanceOf, live, extending,
                   sinceExtend, sinceCheck, staleFor>>

\* Stop disables the strategy, whoever runs it now.
Stop(r) ==
    /\ phase[r] = "stop"
    /\ Becomes(r, "over")
    /\ enabled' = (enabled /\ ContinueIfEnded)
    /\ UNCHANGED <<up, registered, redis, mutexOf, instanceOf, live, extending,
                   sinceExtend, sinceCheck, staleFor>>

-----------------------------------------------------------------------------
(* The surroundings *)

\* The user enables or disables the strategy.
SetEnabled ==
    /\ enabled' = ~enabled
    /\ UNCHANGED <<up, registered, redis, phase, mutexOf, instanceOf, live, extending,
                   clocks>>

Crash(i) ==
    /\ i \in up
    /\ up' = up \ {i}
    /\ registered' = [registered EXCEPT ![i] = None]
    /\ LET lost == {r \in Runtimes : phase[r] # "unborn" /\ instanceOf[r] = i}
       IN /\ phase' = [r \in Runtimes |-> IF r \in lost THEN "dead" ELSE phase[r]]
          /\ extending' = extending \ lost
    /\ UNCHANGED <<enabled, redis, mutexOf, instanceOf, live, clocks>>

\* Nobody who could act is overdue.
InTime(r) ==
    /\ r \in extending => sinceExtend[r] < ExtendEvery + ExtendDelay
    /\ phase[r] = "loop" => sinceCheck[r] <= CheckEvery
    /\ phase[r] \in {"new", "turn"} => blockedFor[r] < MaxBlock

Tick ==
    /\ \A r \in Runtimes : InTime(r)
    /\ ttl' = [n \in Names |-> IF ttl[n] > 0 THEN ttl[n] - 1 ELSE 0]
    /\ holder' = [n \in Names |-> IF ttl[n] > 1 THEN holder[n] ELSE None]
    /\ sinceExtend' = [r \in Runtimes |-> IF r \in extending THEN sinceExtend[r] + 1
                                                             ELSE 0]
    /\ sinceCheck' = [r \in Runtimes |-> IF phase[r] \in {"loop", "turn"}
                                         THEN sinceCheck[r] + 1 ELSE 0]
    /\ blockedFor' = [r \in Runtimes |-> IF phase[r] \in {"new", "turn"}
                                         THEN blockedFor[r] + 1 ELSE 0]
    /\ staleFor' = [r \in Runtimes |-> IF phase[r] \in Working /\ holder[mutexOf[r]] # r
                                       THEN staleFor[r] + 1 ELSE 0]
    /\ UNCHANGED <<enabled, up, registered, phase, mutexOf, instanceOf, live, extending>>

-----------------------------------------------------------------------------

Next ==
    \/ SetEnabled \/ Tick
    \/ \E i \in Instances : StartInstance(i) \/ AddStrategy(i) \/ HotReload(i) \/ Crash(i)
    \/ \E r \in Runtimes :
          \/ Extend(r) \/ ExtendFails(r)
          \/ StartLoop(r) \/ CheckMutex(r) \/ LeaveLoop(r)
          \/ BeginTurn(r) \/ EndTurn(r) \/ Stop(r)

Spec == Init /\ [][Next]_vars

-----------------------------------------------------------------------------
(* Properties *)

\* A runtime whose extending goroutine is alive has the mutex, however late that
\* goroutine gets its turn: nobody else can settle under the same name.
ExtenderHoldsMutex == \A r \in extending : holder[mutexOf[r]] = r

\* How long a runtime may work for after it lost the mutex: the loop is checked
\* between turns only, and New, which may outlast the mutex, not at all.
Outlasts == IF MaxBlock > Expiry THEN MaxBlock - Expiry ELSE 0
StaleLimit == CheckEvery + MaxBlock + Outlasts - 1

\* A runtime that lost the mutex (the extension failed, or came too late) stops
\* working within that limit, so that two runtimes settled under one name never
\* work on the strategy together for longer.
StaleIsShort == \A r \in Runtimes : phase[r] \in Working => staleFor[r] <= StaleLimit

\* "Each strategy will have not more than 1 strategy_service instance running
\* strategy's runtime."
NotMoreThanOneRuntime ==
    \A r, s \in Runtimes :
        /\ phase[r] \in Working /\ phase[s] \in Working
        /\ r # s
        => instanceOf[r] = instanceOf[s]
=============================================================================
