SPECIFICATION Spec
CONSTANT N = 4
\* The awaiting coroutine has gone on and all branches have ended.
CHECK_DEADLOCK FALSE
INVARIANTS ResumedOnce DanglingWindow
PROPERTIES AllEnd
