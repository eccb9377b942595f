SPECIFICATION Spec
CONSTANTS
  Cores = {c0, c1}
  c0 = c0
  c1 = c1
  Shared = TRUE
  Requests <- MCRequests
  MsTicks = 5
  MsWrap = 10
  ResetDelay = 4
  ParkDelay = 3
  WireTime = 1
  MinFrame = 1
  Steps <- MCSteps
  DefaultPeriod <- MCPeriod
  BeaconHold = 2
  Flame <- MCFlame
  Late = 1
  MaxCalls = 2
SYMMETRY MCSymmetry
INVARIANTS
  FramesOnTime
  PinOnTime
  Newest
  WaitsOutReset
  CutOnlyIfHurried
PROPERTIES
  ExpiryReturns
