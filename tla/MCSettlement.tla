---------------------------- MODULE MCSettlement ----------------------------
(* Small instances of Settlement: two instances of the service. *)
EXTENDS Settlement, TLC

CONSTANTS a, b, r1, r2

TwoInstances == {a, b}
TwoRuntimes == {r1, r2}

Alike == Permutations(TwoInstances) \cup Permutations(TwoRuntimes)
=============================================================================
