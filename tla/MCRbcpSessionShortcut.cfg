SPECIFICATION Spec
CONSTANTS
  Total = 3
  MaxHostSlots = 2
  SlotSize = 3
  FlashSlots = {"f0"}
  Regions <- MCRegions
  NvSize = 2
  PageSize = 2
  WindowSize = 1
  Bytes = {"x"}
  Erased = "ff"
  HostKeepsOff = TRUE
INVARIANTS CommitByteCloses
