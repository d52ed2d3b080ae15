---- MODULE MCEditing ----
(* Small instances of Editing. *)
EXTENDS Editing

Level(price, amount) == [price |-> price, amount |-> amount]
OneLevel(price) == <<Level(price, 0)>>
TwoLevels(price) == <<Level(price, 1), Level(price + 1, 0)>>

At(stop, exits) == [entry |-> 1, stop |-> stop, forced |-> 0, exits |-> exits]

Edited(conditions, orders) ==
    [amount |-> 2, conditions |-> conditions, early |-> FALSE, orders |-> orders,
     triggered |-> 0]
Early(s) == [s EXCEPT !.early = TRUE]
Forced(c, price) == [c EXCEPT !.forced = price]
Triggered(s) == [s EXCEPT !.triggered = 1]

Levels == Edited(<<At(1, TwoLevels(1)), At(2, TwoLevels(3))>>, 7)
LevelsTwice == Edited(<<At(1, TwoLevels(1)), At(1, TwoLevels(3)), At(1, TwoLevels(5))>>, 8)
StopAndForced ==
    Triggered(Edited(<<Forced(At(1, OneLevel(1)), 5), Forced(At(2, OneLevel(1)), 6)>>, 7))
EarlyStop == Early(Edited(<<At(1, OneLevel(1)), At(2, OneLevel(3))>>, 5))
EarlyEntry ==
    Early(Edited(<<At(1, OneLevel(1)), [At(1, OneLevel(1)) EXCEPT !.entry = 2],
                   [At(1, OneLevel(1)) EXCEPT !.entry = 3]>>, 5))

TooMuch == Edited(<<At(1, OneLevel(1)), At(1, <<Level(2, 3), Level(3, 0)>>)>>, 5)

SetupsEditing == {Levels, LevelsTwice, StopAndForced, EarlyStop, EarlyEntry, TooMuch}
====
