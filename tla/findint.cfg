SPECIFICATION Spec
CONSTANTS
  Digest <- MCDigest
  Prefix <- MCPrefix
  IntHash <- MCIntHashFolds
  Lists <- MCLists
INVARIANTS
  TypeOK
  TableExact
  MatchesExact
  AbortExact
  ResultInOrder
