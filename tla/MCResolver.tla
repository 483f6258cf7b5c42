----------------------------- MODULE MCResolver -----------------------------
(* Instances of Resolver for TLC: a name or a hop that is translated again *)
(* only on demand, and an address literal with an interval.                *)
EXTENDS Resolver

CONSTANTS name, lit, a, b

MCHosts   == {name, lit}
MCLiteral == {lit}
MCPeriodic == {lit}
MCHop     == {name}
MCAddress == {a, b}
MCReverse == [h \in {name, lit} |-> IF h = name THEN 2 ELSE 1]
=============================================================================
