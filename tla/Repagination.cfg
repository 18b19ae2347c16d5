SPECIFICATION Spec
CONSTANTS
  rows = rows
  whole = whole
  a = a
  b = b
  None = None
  Documents <- SomeDocuments
  Heights <- OneOrTwo
  Tables <- BothTables
  Resumable <- RowBroken
  Cells <- TwoCells
  MaxParagraphs <- ThreeOrTwo
  MaxSize <- Three
SYMMETRY SameCells
INVARIANTS
  PagesFollowEdits
PROPERTIES
  PublishesWhole
  NumbersContinue
CHECK_DEADLOCK FALSE
