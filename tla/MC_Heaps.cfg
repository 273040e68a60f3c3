CONSTANTS
  Kinds = {"binary", "binomial", "filled"}
  Value = {1, 2, 3}
  NULL = NULL
  InitialSize = 2
  MaxValues = 6
  Cell <- MCCell
  MaxTrees = 7
  MaxMixed = 4
SPECIFICATION HeapsSpec
ACTION_CONSTRAINT Bounds
INVARIANTS
  WellFormed
  TreesWellFormed
PROPERTIES
  ImplementsQueue
  TreesImplementQueue
