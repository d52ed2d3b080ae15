---- MODULE MCAveraging ----
(* Small instances of Averaging. *)
EXTENDS Averaging

Level(amount) == [percent |-> FALSE, amount |-> amount, withoutLoss |-> FALSE]
Percent(amount) == [Level(amount) EXCEPT !.percent = TRUE]

\* The restart is what brings the machine to InMultiEntry.
Plain == [amount |-> 3, levels |-> <<Level(1), Level(2)>>, forcedLoss |-> FALSE,
          entryAfterTAP |-> FALSE, closeAfterTAP |-> FALSE, crashes |-> 1, early |-> FALSE, orders |-> 9]

SetupsAveraging ==
    {Plain,
     [Plain EXCEPT !.forcedLoss = TRUE, !.closeAfterTAP = TRUE, !.orders = 10,
                   !.levels = <<[Level(1) EXCEPT !.withoutLoss = TRUE], Level(2)>>],
     [Plain EXCEPT !.entryAfterTAP = TRUE, !.orders = 11],
     [Plain EXCEPT !.early = TRUE, !.amount = 1, !.levels = <<Level(1)>>, !.orders = 6],
     [Plain EXCEPT !.amount = 4, !.levels = <<Percent(50), Percent(50)>>]}

SetupsPlain == {Plain}

\* The first level leaves a take profit to wait for; of the others' fills one is inside
\* enterMultiEntry, and the other waits, when the order ends.
SetupsThree ==
    {[Plain EXCEPT !.levels = <<Level(1), Level(1), Level(1)>>, !.orders = 11]}
====
