CONSTANTS
  Slots = {s0, s1}
  RingEntries = 6
  TokenMod = 2
  MaxCommands = 4
  HostLockstep = TRUE
  HostArms = TRUE
SPECIFICATION FairSpec
INVARIANTS ReplyIsOurs TokenInStep
PROPERTIES ResetDropsOnlyPolls TokenMoves PollsEnd ExchangeSpec
CHECK_DEADLOCK FALSE
