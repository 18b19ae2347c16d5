SPECIFICATION FairSpec
CONSTANTS
  N = 5
  Threads = 2
  CapFactor = 1
  BreakingPipe = TRUE
  Outcomes <- Clean
PROPERTIES
  CutStreamReturns
