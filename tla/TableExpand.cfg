SPECIFICATION Spec
CONSTANTS
  Tables <- MCTables
  DataSets <- MCDataSets
  Policies <- MCPolicies
  BadNames <- MCBadNames
  Word = 65536
INVARIANTS
  RowsInPlace
