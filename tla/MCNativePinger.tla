--------------------------- MODULE MCNativePinger ---------------------------
(* Instances of NativePinger for TLC: more pings than sequence numbers, so *)
(* that the counter wraps.                                                 *)
EXTENDS NativePinger, TLC

CONSTANTS p1, p2, p3

MCThree == {p1, p2, p3}
MCSymmetry == Permutations(Pings)
=============================================================================
