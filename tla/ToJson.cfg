SPECIFICATION Spec
CONSTANTS
  Trees <- AllTrees
  ImageDir <- OnOrOff
  Overwrite <- OnOrOff
  MaxTrouble = 1
INVARIANTS
  BlocksRelate
  FilesMatch
