CONSTANTS
  Clients = {c1, c2}
  Values = {v1}
  MaxRequests = 3
  MaxFaults = 2
  MaxForeign = 1
SPECIFICATION FairSpec
INVARIANTS NoDuplicates
PROPERTIES RecordSpec EveryRequestEnds
CHECK_DEADLOCK FALSE
