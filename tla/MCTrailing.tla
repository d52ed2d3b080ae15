---- MODULE MCTrailing ----
(* Small instances of Trailing. *)
EXTENDS Trailing

\* Prices 1 to 3 are below the price that activates the entry.
Plain == [type |-> "futures", prices |-> 1 .. 6, activate |-> 4, activateExit |-> 4,
          deviation |-> 1, checks |-> 4, orders |-> 5, triggered |-> 1]

SetupsTrailing ==
    {Plain, [Plain EXCEPT !.type = "spot limit"], [Plain EXCEPT !.type = "spot market"]}

SetupsFutures == {Plain}

SetupsSpotLimit == {[Plain EXCEPT !.type = "spot limit"]}
====
