---------------------------- MODULE MCMergeQueue ----------------------------
(* TLC instances of MergeQueue. *)
EXTENDS MergeQueue, TLC

CONSTANTS p1, w1, w2

OnePair    == {p1}
TwoWorkers == {w1, w2}
AutoOnly   == {"auto"}
BothModes  == {"auto", "strict"}
Symmetry   == Permutations(Worker)
=============================================================================
