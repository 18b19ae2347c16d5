SPECIFICATION FairSpec
CONSTANTS
  N = 5
  Threads = 2
  CapFactor = 1
  BreakingPipe = TRUE
  Outcomes <- MCOutcomes
INVARIANTS
  TypeOK
  Backpressure
  InputOrder
PROPERTIES
  StreamKept
  Returns
