CONSTANTS
  Slots = {s0, s1}
  RingEntries = 6
  TokenMod = 2
  MaxCommands = 3
  HostLockstep = FALSE
  HostArms = TRUE
SPECIFICATION Spec
PROPERTIES ResetDropsOnlyPolls
CHECK_DEADLOCK FALSE
