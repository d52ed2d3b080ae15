---------------------------- MODULE MCSmartOrder ----------------------------
(* Small instances of SmartOrder.  Quiet, falling, ... say what the feed does. *)
EXTENDS SmartOrder

Plain(futures, targets, prices, orders) ==
    [futures |-> futures, targets |-> targets, forcedLoss |-> FALSE,
     continueIfEnded |-> FALSE, entryTimeout |-> FALSE, prices |-> prices,
     orders |-> orders, iterations |-> 0, errors |-> 0,
     mayLoseMutex |-> FALSE, mayDisable |-> FALSE, longSleeps |-> TRUE]

Continued(s) == [s EXCEPT !.continueIfEnded = TRUE, !.iterations = 1]

\* One or two exit levels of the same amount.
One == <<1>>
Two == <<1, 1>>

DisabledAndSlow == [Plain(TRUE, One, {0}, 4) EXCEPT !.mayDisable = TRUE,
                                                    !.longSleeps = FALSE]
FuturesFalling == Plain(TRUE, Two, {-1}, 4)
SpotAnyPrice == Plain(FALSE, Two, {-1, 0, 1, 2}, 5)
SpotTimeout == [Continued(Plain(FALSE, One, {0}, 5)) EXCEPT !.entryTimeout = TRUE,
                                                            !.mayLoseMutex = TRUE]
FuturesContinue == Continued(Plain(TRUE, One, {0}, 6))
FuturesFaulty == [Continued(Plain(TRUE, One, {-1}, 3)) EXCEPT !.forcedLoss = TRUE,
                                                              !.errors = 1]

SetupsLife == {DisabledAndSlow, FuturesFalling, FuturesContinue, FuturesFaulty,
               SpotAnyPrice, SpotTimeout}
SetupsAnyPrice == {SpotAnyPrice}
=============================================================================
