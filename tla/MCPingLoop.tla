----------------------------- MODULE MCPingLoop -----------------------------
(* Instances of PingLoop for TLC: two columns whose intervals are multiples *)
(* neither of the grid's interval (five units) nor of a half of it.         *)
EXTENDS PingLoop

MCSlow == <<9, 12>>     \* i=1.8 and i=2.4 on a grid of 1 s
=============================================================================
