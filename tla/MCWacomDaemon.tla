---------------------------- MODULE MCWacomDaemon ----------------------------
(* Instances of WacomDaemon for TLC: positions that do and do not change    *)
(* the mode, that go back and forth by less and more than half a step, and  *)
(* gestures in every direction.                                             *)
EXTENDS WacomDaemon

MCXs == {100, 590, 601, 1120}
MCYs == {0, 505, 530, 1040, 1900}
=============================================================================
