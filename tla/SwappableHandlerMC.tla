------------------------- MODULE SwappableHandlerMC -------------------------
(* Instances of SwappableHandler for TLC. *)
EXTENDS SwappableHandler, TLC

CONSTANTS q1, q2, w1, w2, r1, r2

OneRequest   == {q1}
TwoRequests  == {q1, q2}
OneWaiter    == {w1}
TwoWaiters   == {w1, w2}
OneReloader  == {r1}
TwoReloaders == {r1, r2}
NoneOf       == {}
Edit1        == {1}
Edit2        == {2}
Edit3        == {3}
=============================================================================
