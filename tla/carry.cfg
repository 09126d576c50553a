\* Every pair of the operands that the layers use and of the extreme ones.
SPECIFICATION Spec
CONSTANT Operands <- MCOperands
INVARIANTS
  TypeOK
  Subtracts
  AtMost16
CHECK_DEADLOCK FALSE
