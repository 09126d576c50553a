CONSTANTS
  BitAnd <- AndWords
  BitOr <- OrWords
  BitXor <- XorWords
  Programs <- FlatPrograms
  Memories <- FlatMemories
  Registers <- FlatRegisters
SPECIFICATION Spec
INVARIANTS
  TypeOK
PROPERTIES
  FlatSpec
CHECK_DEADLOCK FALSE
