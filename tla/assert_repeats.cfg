SPECIFICATION Spec
CONSTANTS
  Digest <- MCDigest
  Prefix <- MCPrefix
  IntHash <- MCIntHash
  Lists <- MCLists
INVARIANTS
  AssertHolds
