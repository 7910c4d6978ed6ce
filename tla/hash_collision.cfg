SPECIFICATION Spec
CONSTANTS
  Digest <- MCDigest
  Prefix <- MCPrefix
  IntHash <- MCIntHashFolds
  Lists <- MCLists
INVARIANTS
  FoundIntersects
