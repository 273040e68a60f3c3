CONSTANTS
  Kinds = {"set", "bloom"}
  Name = {s1, s2, s3}
  v1 = v1
  v1b = v1b
  v2 = v2
  v3 = v3
  Value = {v1, v1b, v2, v3}
  ClassOf <- MCClassOf
  Hash <- MCHash
  Primes <- MCPrimes
  NULL = NULL
  Known <- MCKnown
  Params <- MCParams
  SubHash <- MCSubHash
  MaxFunctions = 2
  MaxStored = 3
SPECIFICATION SetsSpec
SYMMETRY Symmetry
VIEW WithoutAnswers
INVARIANTS
  WellFormed
  Ownership
  IterationExact
  FiltersNeverForget
PROPERTIES
  ImplementsSets
