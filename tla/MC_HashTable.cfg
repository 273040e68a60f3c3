CONSTANTS
  k1 = k1
  k1b = k1b
  k2 = k2
  k3 = k3
  k5 = k5
  ValObj = {v1, v2, v3, v4}
  NULL = NULL
  Key <- MCKey
  KeyObj <- MCKeyObj
  ClassOf <- MCClassOf
  Hash <- MCHash
  Primes <- MCPrimes
SPECIFICATION FairSpec
INVARIANTS
  TypeOK
  WellFormed
  LookupFindsAll
  SizeAndLoad
  Ownership
  IterationExact
PROPERTIES
  ImplementsMap
  CallReturns
