------------------------------- MODULE MCTable -------------------------------
(* Instances of Table for TLC.                                             *)
EXTENDS Table

MCShared == <<"resolve">>

\* The first two columns are names translated here.  The third comes from another
\* pingtui, one of whose targets has the name of the first column; or it has a name
\* that no column has here.
MCErrOf == <<"err:a", "err:b", "err:a">>
MCNamed == [k \in {"err:a", "err:b"} |-> IF k = "err:a" THEN 1 ELSE 2]

\* The first column is pinged; the others have nothing but late notes.
MCPinged == <<{1}, {}, {}>>
MCNoted  == <<{1}, {1}, {2}>>
=============================================================================
