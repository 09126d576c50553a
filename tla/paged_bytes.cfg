CONSTANTS
  NSlots = 2
  NPages = 4
  AgeMod = 4
  PageSize = 1
  Byte = {0, 1}
  Zero = 0
  TrailerByte = 9
  DonePage = 2
  VmPages <- ThreePages
  WordOffsets <- Nowhere
SPECIFICATION Spec
INVARIANTS
  TypeOK
  UniqueResidency
  CleanIsCurrent
  NothingLostAtFill
PROPERTIES
  FlatSpec
CHECK_DEADLOCK FALSE
