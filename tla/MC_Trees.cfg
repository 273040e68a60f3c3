CONSTANTS
  Kinds = {"AVL", "red-black", "binary", "search", "trie"}
  Key <- MCKey
  Value <- MCValue
  Inserted <- MCInserted
  DatumPairs <- EqualPairs
  Cell <- MCCell
  NULL = NULL
  ROOT = ROOT
SPECIFICATION TreesSpec
ACTION_CONSTRAINT AddressGiven
INVARIANTS
  TreesWellFormed
  TreesBalanced
  TreesLookupComplete
PROPERTIES
  TreesKeepContents
