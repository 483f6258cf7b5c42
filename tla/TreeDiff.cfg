SPECIFICATION TuiSpec

CONSTANTS
  Disks <- MCDisks
  NameRank <- MCRank
  Filters <- MCFilters
  NoFilter <- MCNoFilter
  BodyHeights = {1, 2, 3}

INVARIANTS
  SelectionOnScreen
  NothingLost

PROPERTIES
  ReloadKeepsPlace

\* the interface ends with q
CHECK_DEADLOCK FALSE
