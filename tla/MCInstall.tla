----------------------------- MODULE MCInstall -----------------------------
(* Instances of Install for TLC: two runs that overlap or follow each other *)
(* within two seconds, with a new version of the script between them.       *)
EXTENDS Install, TLC

CONSTANTS r1, r2

MCTwo      == {r1, r2}
MCSymmetry == Permutations(Runs)
=============================================================================
