CONSTANTS
  BitAnd <- AndWords
  BitOr <- OrWords
  BitXor <- XorWords
  Programs <- StackPrograms
  Memories <- StackMemories
  Registers <- StackRegisters
SPECIFICATION Spec
INVARIANTS
  NoTrace
  FitsInTheCache
PROPERTIES
  ReturnsToCaller
CHECK_DEADLOCK FALSE
