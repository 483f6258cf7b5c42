SPECIFICATION ChattySpec

CONSTANTS
  a = a
  b = b
  c = c
  none = none
  MaxSeq = 2
  NHosts = 2
  AtHosts <- MCBothAt
  Address <- MCTwo
  RemoteSpec <- MCSpec
  NoKey <- none
  MaxPipe = 1
  MaxGrid = 0
  Results = {"detailed"}
  Banner = {}
  Aborts = FALSE
  Collide = TRUE

PROPERTY
  PendingJoins

CHECK_DEADLOCK FALSE
