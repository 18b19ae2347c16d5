SPECIFICATION TextSpec
CONSTANTS
  Layouts <- MCLayouts
  Controls <- MCControls
  ValueSets <- MCData
  MissingPolicies <- AllPolicies
INVARIANTS
  FilledAsExpected
