SPECIFICATION FairSpec
CONSTANTS
  name = name
  lit = lit
  a = a
  b = b
  none = none
  dots = dots
  mark = mark
  Hosts <- MCHosts
  Literal <- MCLiteral
  Hop <- MCHop
  Periodic <- MCPeriodic
  Address <- MCAddress
  MaxSeq = 2
  MaxReverse <- MCReverse
INVARIANTS
  HeaderShowsPinged
  PlaceholderHasLookup
PROPERTIES
  AddressKept
  PressHeard
CHECK_DEADLOCK FALSE
