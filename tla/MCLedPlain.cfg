SPECIFICATION Spec
CONSTANTS
  Cores = {c0}
  c0 = c0
  Shared = TRUE
  Requests <- MCRequests
  MsTicks = 5
  MsWrap = 10
  ResetDelay = 4
  ParkDelay = 3
  WireTime = 1
  MinFrame = 1
  Steps <- MCSteps
  DefaultPeriod <- MCPeriod
  BeaconHold = 2
  Flame <- MCFlame
  Late = 0
  MaxCalls = 2
PROPERTIES
  PlainStays
