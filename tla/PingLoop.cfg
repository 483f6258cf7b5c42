SPECIFICATION FairSpec

CONSTANTS
  MaxSeq = 3
  NHosts = 2
  Base = 5
  Interval <- MCSlow
  Late = 2
  Staggered = TRUE

INVARIANTS
  ColumnsConsistent
  InflightHasTask
  EveryIntervalServed

PROPERTIES
  QuitBeginsNothing
  StreamContract

\* the session ends when the user quits, a --json instance with its loop
CHECK_DEADLOCK FALSE
