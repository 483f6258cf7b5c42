SPECIFICATION TuiSpec

CONSTANTS
  Disks <- MCDisks
  NameRank <- MCRank
  Filters <- MCFilters
  NoFilter <- MCNoFilter
  BodyHeights = {1, 2, 3}

INVARIANT
  OnlyQuitEnds

CHECK_DEADLOCK FALSE
