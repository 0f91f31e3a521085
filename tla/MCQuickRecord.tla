---------------------------- MODULE MCQuickRecord -----------------------------
(* Instances of QuickRecord for TLC.                                          *)
EXTENDS QuickRecord, TLC

CONSTANTS r1, r2, r3

MCWritten == [q \in Change |-> 1]
Symmetry == Permutations(Run)
===============================================================================
