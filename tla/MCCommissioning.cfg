SPECIFICATION Spec
CONSTANTS
  PageRows = 8
  AreaPages = 5
  Boards <- MCBoards
  Requests <- MCRequests
  Days = 2
  Damages = {12}
  MaxRuns = 3
  MaxFaults = 1
CHECK_DEADLOCK FALSE
INVARIANTS
  EnabledMeansWritten
  CurrentVerifies
  CompleteIsRecorded
  DoneMeansCurrent
  RetryFinishesInPlace
  NoRefusedWrite
