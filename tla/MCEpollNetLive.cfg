CONSTANTS
  Thread = {w1}
  Socket = {a, b}
  Fd = {f1, f2}
  MAX_EVENTS = 1
  MaxFailure = 0
  None = None
SPECIFICATION FairSpec
PROPERTIES ReadyAnswered
CHECK_DEADLOCK FALSE
