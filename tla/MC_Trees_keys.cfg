CONSTANTS
  Kinds = {"red-black"}
  Key <- MCKey
  Value <- MCValue
  Inserted <- MCInserted
  DatumPairs <- AllPairs
  Cell <- MCCell
  NULL = NULL
  ROOT = ROOT
SPECIFICATION TreesSpec
ACTION_CONSTRAINT AddressGiven
INVARIANT
  TreesLookupComplete
