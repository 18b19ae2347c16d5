SPECIFICATION FairSpec
CONSTANTS
  d1 = d1
  d2 = d2
  d3 = d3
  p1 = p1
  p2 = p2
  p3 = p3
  Data <- MCData
  Path <- MCPath
  Batches <- MCBatches
  Configs <- MCConfigs
  Prior <- MCPrior
INVARIANTS
  TypeOK
  OkMeansWritten
  ReportsFollowChunks
  NothingSkippedSilently
  EndIsTruthful
PROPERTIES
  NothingClobbered
  PromiseKept
  EveryItemAnswered
