--------------------------- MODULE MCRemoteFeeder ---------------------------
(* Instances of RemoteFeeder for TLC: one column the remote translates and *)
(* one @@ column, or two @@ columns.                                       *)
EXTENDS RemoteFeeder

CONSTANTS a, b, c, none

MCOneAt   == {2}
MCBothAt  == {1, 2}
MCAddress == {a, b, c}
MCTwo     == {a, b}
MCSpec    == <<a, a>>
=============================================================================
