CONSTANTS
  Requesters = {0, 1}
  Layouts <- AskLayouts
  FifoDepth = 4
SPECIFICATION FairSpec
INVARIANTS FlashExclusive SuspendedOnReturn
PROPERTIES LockSpec EnterCompletesAlone ParkedResumes
CHECK_DEADLOCK FALSE
