---------------------------- MODULE MemoryTableMC ----------------------------
(* An instance of MemoryTable for TLC. *)
EXTENDS MemoryTable, TLC

CONSTANTS c1, c2, k1, k2, v1, v2

TwoCallers == {c1, c2}
OneKey     == {k1}
TwoKeys    == {k1, k2}
OneValue   == {v1}
TwoValues  == {v1, v2}
ForEverOrOne == {0, 1}
CallerAndKeySymmetry == Permutations(TwoCallers) \cup Permutations(TwoKeys)
=============================================================================
