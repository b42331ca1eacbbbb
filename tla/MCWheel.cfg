SPECIFICATION Spec
CONSTANTS
  Event = {e1}
  slot_num_ = 3
  level_num_ = 3
  Interval = 2
  Duration = {0, 1, 2, 4, 7, 10}
  MaxTime = 56
  MaxGap = 20
  MaxLost = 3
  None = None

\* The clock is bounded.
CHECK_DEADLOCK FALSE
INVARIANT RangeFromStart
PROPERTIES FiredOnceWhenDue LateByLost
