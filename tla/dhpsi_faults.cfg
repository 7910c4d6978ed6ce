SPECIFICATION FairSpec
CONSTANTS
  Element <- MCElement
  Inputs <- FewInputs
  Point <- MCPoint
  Scalar = {2, 3}
  HashPoint <- MCHashPoint
  Mul <- MCMul
  Tag <- MCTag
  KeyOf <- MCKeyOf
  UserId <- MCUserId
  Junk = Junk
  Garbage = {1}
  Faults <- AllFaults
CHECK_DEADLOCK FALSE
INVARIANTS
  IInv
  Authentic
  ExactResult
  DoneQuiet
PROPERTIES
  Implements
  EndsOrHangs
