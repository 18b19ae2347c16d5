SPECIFICATION FairJob
CONSTANTS
  i1 = i1
  i2 = i2
  i3 = i3
  Inputs <- ThreeInputs
  HopelessSets <- NoneOrOne
  Modes <- BothModes
  OverwriteFlag <- OnOrOff
  Parallel = 2
  BackoffLimit = 2
  MaxTrouble = 3
INVARIANTS
  JobTypeOK
  ReportOkIsWhole
  CompleteIsWhole
  OverwriteHeals
PROPERTIES
  WholeStays
  JobEnds
