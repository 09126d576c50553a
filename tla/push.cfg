CONSTANTS
  BitAnd <- AndWords
  BitOr <- OrWords
  BitXor <- XorWords
  Programs <- PushPrograms
  Memories <- StackMemories
  Registers <- StackRegisters
SPECIFICATION Spec
INVARIANTS
  PushWhenExecuted
CHECK_DEADLOCK FALSE
