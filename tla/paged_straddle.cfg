CONSTANTS
  NSlots = 2
  NPages = 3
  AgeMod = 2
  PageSize = 2
  Byte = {0, 1}
  Zero = 0
  TrailerByte = 9
  DonePage = 1
  VmPages <- TwoPages
  WordOffsets <- Unaligned
SPECIFICATION FairSpec
INVARIANTS
  UniqueResidency
PROPERTIES
  FaultServed
  TopPageStarves
  SpillIsConfined
CHECK_DEADLOCK FALSE
