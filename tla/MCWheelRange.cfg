SPECIFICATION Spec
CONSTANTS
  Event = {e1}
  slot_num_ = 3
  level_num_ = 2
  Interval = 1
  Duration = {1, 2}
  MaxTime = 9
  MaxGap = 3
  MaxLost = 0
  None = None
CHECK_DEADLOCK FALSE
INVARIANTS RangeAtAnyTime
