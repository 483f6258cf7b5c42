SPECIFICATION PenSpec

CONSTANTS
  Xs <- MCXs
  Ys <- MCYs

INVARIANTS
  ScrollFollowsPen
  OneActionPerPress

\* the daemon ends when the tablet is unplugged
CHECK_DEADLOCK FALSE
