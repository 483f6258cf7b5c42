SPECIFICATION Spec

CONSTANTS
  r1 = r1
  r2 = r2
  Runs <- MCTwo
  MaxTime = 2
  MaxVersion = 1

SYMMETRY MCSymmetry

INVARIANTS
  OkIsReal
  LastOkSucceeded
  LinksHeal
  PushFaithful

\* every run is made once
CHECK_DEADLOCK FALSE
