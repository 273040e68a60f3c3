CONSTANTS
  Kinds = {"sparse", "map", "numbering", "flow"}
  Problems <- MCProblems
  MaxRound = 2
  Sizes <- MCSizes
  Values <- MCValues
  Others <- MCOthers
  Islands <- NumberedIslands
  MaxTurns = 3
  None = None
SPECIFICATION PowerSpec
CHECK_DEADLOCK FALSE
INVARIANTS
  PowerWellFormed
  PowerAnswersTrue
  PowerDeclaredAnswered
PROPERTIES
  PowerMatrixImplemented
