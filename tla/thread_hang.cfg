SPECIFICATION FairSpec
CONSTANTS
  Element <- MCElement
  Inputs <- ShortInputs
  Point <- MCPoint
  Scalar = {3}
  HashPoint <- MCHashPoint
  Mul <- MCMul
  Tag <- MCTag
  KeyOf <- MCKeyOf
  UserId <- MCUserId
  Junk = Junk
  Garbage = {0}
  Faults = {"thread"}
CHECK_DEADLOCK FALSE
PROPERTIES
  ThreadFailureStops
