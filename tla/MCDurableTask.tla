---------------------------- MODULE MCDurableTask -----------------------------
(* Instances of DurableTask for TLC.                                          *)
EXTENDS DurableTask

CONSTANTS c1, c2, k1, k2, k3, s1, s2, t1, t2

(* Calls and keys are only ever compared; the Original content is singled out.*)
Symmetry == Permutations(Call) \cup Permutations(Key) \cup Permutations(Tree)
================================================================================
