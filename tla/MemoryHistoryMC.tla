--------------------------- MODULE MemoryHistoryMC ---------------------------
(* An instance of MemoryHistory for TLC. *)
EXTENDS MemoryHistory, TLC

CONSTANTS w1, w2, r1

TwoWriters == {w1, w2}
OneReader  == {r1}
EveryLimit == 1..Size
WriterSymmetry == Permutations(TwoWriters)
=============================================================================
