CONSTANTS
  Kinds = {"queue", "traverse", "weigh", "schedule"}
  QueueValue = {1, 2}
  Cell = {c1, c2, c3, c4}
  Value <- MCVertices
  Weight <- MCWeight
  MaxVertices = 4
  MaxEdges = 5
  MaxRefused = 1
  Infinity = 1000
  NULL = NULL
SPECIFICATION GraphsSpec
ACTION_CONSTRAINT Scope
INVARIANTS
  GraphTypeOK
  WellFormed
  PeekShowsEnds
  TraversalExact
  SpanningTreeMinimal
  ShortestPaths
  CriticalPath
PROPERTIES
  FreeReturns
  ImplementsDeque
