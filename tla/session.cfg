SPECIFICATION Spec
CONSTANTS
  NSlots = 3
  NPages = 16
  AgeMod = 16
  NLayers = 3
  BodyLength <- ShortLongShort
  SledLength = 5
  KeyPage = 12
  DonePage = 13
  DataPages = {14}
  MaxWork = 3
  LeftAges <- LateAges
INVARIANTS TypeOK SledFlushes
PROPERTIES RunsWhatIsLoaded VerdictIsCurrent LayersRunOnce Finishes
CHECK_DEADLOCK FALSE
