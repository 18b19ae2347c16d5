SPECIFICATION Spec
CONSTANTS
  p1 = p1
  p2 = p2
  c1 = c1
  c2 = c2
  Null = Null
  Procs <- TwoProcs
  Capsules <- TwoCapsules
  Kinds <- BothKinds
  MaxCommands = 4
  MaxTrouble = 2
SYMMETRY Symmetric
INVARIANTS
  TypeOK
  AcceptedOnce
  ReportedStays
  CheckpointProves
CHECK_DEADLOCK FALSE
