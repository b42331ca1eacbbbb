SPECIFICATION FairSpec
CONSTANTS
  MaxSend = 2
  MaxReceive = 2
INVARIANTS Handoff OneValue
PROPERTY HandoffCompletes
CHECK_DEADLOCK FALSE
