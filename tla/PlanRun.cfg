SPECIFICATION FairSpec
CONSTANTS
  p1 = p1
  p2 = p2
  p3 = p3
  f = f
  g = g
  a = a
  b = b
  c = c
  n = n
  Box = Box
  Ticked = Ticked
  All = All
  Broken = Broken
  None = None
  Free = Free
  Cells <- ThirdPlace
  Grepped <- FourPlaces
  Searched <- FivePlaces
  Procs <- ThreeProcs
  Paths <- TwoPaths
  Disks <- OneDisk
  Jobs <- ManyJobs
  Sessions <- Sorted
  MaxTrouble = 1
INVARIANTS
  TypeOK
  NoEditLost
  RefusedLeavesDisk
  RunsAsPreviewed
PROPERTIES
  CommandsEnd
CHECK_DEADLOCK FALSE
