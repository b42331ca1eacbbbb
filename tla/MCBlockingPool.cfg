SPECIFICATION Spec
CONSTANTS
  Thread = {t1, t2}
  woker_num = 2
  Event = {e1, e2}
  None = None
\* The program may have ended.
CHECK_DEADLOCK FALSE
INVARIANT TaskOnce
PROPERTIES ImplementsRegistry Answered DestructorReturns
