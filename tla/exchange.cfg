SPECIFICATION FairSpec
CONSTANTS
  Kind <- MCKind
  Sizes <- MCSizes
  RcvBytes <- MCRcvBytes
  Cap = 2
INVARIANTS
  TypeOK
  Delivered
  CountersAgree
PROPERTIES
  Completes
  Implements
CHECK_DEADLOCK FALSE
