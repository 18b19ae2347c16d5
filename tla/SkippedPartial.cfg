SPECIFICATION JobSpec
CONSTANTS
  i1 = i1
  i2 = i2
  i3 = i3
  Inputs <- TwoInputs
  HopelessSets <- None
  Modes <- ToJsonOnly
  OverwriteFlag <- Off
  Parallel = 1
  BackoffLimit = 2
  MaxTrouble = 3
INVARIANTS
  SuccessIsWhole
