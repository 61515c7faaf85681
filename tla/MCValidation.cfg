SPECIFICATION Spec
CONSTANT
  Precision = 2
  DoublePrecision = 5
  MaxExponent = 5
  One = 16
  Calls <- MCCalls
INVARIANTS
  TypeOK
  PolicyIsAccepted
  AcceptedIsPolicy
  IsSymmetric
CHECK_DEADLOCK FALSE
