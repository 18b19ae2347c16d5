SPECIFICATION FairSpec
CONSTANTS
  a = a
  b = b
  Paths <- ThreePaths
  Contents <- TheirContents
  Calls <- FirstOpens
  Empty = Empty
  Broken = Broken
  ScanCap = 2
  PipeCap = 2
  MaxTrouble = 1
INVARIANTS
  TypeOK
  WorkspaceIds
  JournalExplains
  AnswersInOrder
PROPERTIES
  EveryLineHandled
CHECK_DEADLOCK FALSE
