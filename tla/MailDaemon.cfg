SPECIFICATION FairSpec

CONSTANTS
  f1 = f1
  f2 = f2
  q1 = q1
  q2 = q2
  Junk = Junk
  None = None
  Folders <- MCFolders
  Requesters <- MCOne
  MaxPipe = 2
  MaxCount = 1
  MaxCrashes = 1

INVARIANTS
  NothingForgotten

PROPERTIES
  WantedIsDone
