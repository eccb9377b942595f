CONSTANTS
  Requesters = {1}
  Layouts <- RomLayout
  FifoDepth = 4
SPECIFICATION Spec
INVARIANTS SuspendedOnReturn
CHECK_DEADLOCK FALSE
