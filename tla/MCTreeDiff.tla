----------------------------- MODULE MCTreeDiff -----------------------------
(* Instances of TreeDiff for TLC: a directory in a directory, and a file   *)
(* that sorts before the directories by name but comes after them.         *)
EXTENDS TreeDiff, TLC

MCRank == [n \in {"b", "a", "c", "s", "x"} |->
             CASE n = "a" -> 1 [] n = "b" -> 2 [] n = "c" -> 3
               [] n = "s" -> 4 [] n = "x" -> 5]

DX == <<"b", "x">>
DS == <<"b", "s", "x">>
CX == <<"c", "x">>
A  == <<"a">>

\* Everything the same; differences; one side only; nearly nothing left.
MCDisks ==
  { << DX :> "text" @@ DS :> "text" @@ A :> "text",
       DX :> "text" @@ DS :> "text" @@ A :> "text" >>,
    << DX :> "text" @@ DS :> "text" @@ CX :> "text" @@ A :> "other",
       DX :> "other" @@ DS :> "text" @@ A :> "other" >>,
    << DX :> "text" @@ A :> "text", CX :> "binary" >>,
    << << >>, << >> >> }

MCNoFilter == {A, << >>}
MCFilters == {{}, {DX, DS}}
=============================================================================
