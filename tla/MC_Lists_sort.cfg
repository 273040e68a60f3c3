CONSTANTS
  Kinds = {"doubly"}
  Cell = {c1, c2, c3, c4}
  a = a
  b = b
  b2 = b2
  Value = {a, b, b2}
  Rank <- MCRank
  NULL = NULL
  UNDEF = UNDEF
  Default = 2
  Word = 16
  MaxAlloced = 4
  ReadsEmpty = FALSE
  ROOT = ROOT
  DropsCurrent = FALSE
SPECIFICATION ListsSpec
SYMMETRY Symmetry
INVARIANT
  DocumentedSort
