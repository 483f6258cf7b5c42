SPECIFICATION Spec

CONSTANTS
  MaxSeq = 2
  NHosts = 3
  Pinged <- MCPinged
  Noted <- MCNoted
  Shared <- MCShared
  ErrOf <- MCErrOf
  Named <- MCNamed
  Results = {"detailed"}
  Lengths = {1, 2}
  Widths = {1}
  Heights = {2}

INVARIANTS
  TotalIsExact
  WindowFull
  HistoryShowsAll

PROPERTIES
  WindowAnchored

CHECK_DEADLOCK FALSE
