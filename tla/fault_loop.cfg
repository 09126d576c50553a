CONSTANTS
  NSlots = 4
  NPages = 6
  AgeMod = 64
  MaxFaults = 7
  Instructions <- EveryInstruction
  StartAges <- AnyAges
  FirstPages = {0, 1}
SPECIFICATION Spec
INVARIANTS
  VictimIsTheScans
  FewFaults
PROPERTIES
  InstructionEnds
CHECK_DEADLOCK FALSE
