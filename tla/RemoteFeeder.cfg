SPECIFICATION Spec

CONSTANTS
  a = a
  b = b
  c = c
  none = none
  MaxSeq = 3
  NHosts = 2
  AtHosts <- MCOneAt
  Address <- MCAddress
  RemoteSpec <- MCSpec
  NoKey <- none
  MaxPipe = 1
  MaxGrid = 1
  Results = {"ok"}
  Banner = {"text", "json", "start"}
  Aborts = TRUE
  Collide = FALSE

INVARIANTS
  StatisticsAddUp
  RowsFree
  MirrorsRemote

PROPERTIES
  AnswersStay

\* the rows run out, the user quits, or the feeder ends with an exception
CHECK_DEADLOCK FALSE
