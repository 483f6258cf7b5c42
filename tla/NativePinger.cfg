SPECIFICATION Spec

CONSTANTS
  p1 = p1
  p2 = p2
  p3 = p3
  none = none
  Pings <- MCThree
  Width = 2
  Raw = TRUE

SYMMETRY MCSymmetry

INVARIANTS
  PendingExact
  AnswerOfLastTurn

PROPERTIES
  CallContract

\* every call is made once and ends
CHECK_DEADLOCK FALSE
