SPECIFICATION FairSpec
CONSTANTS
  Thread = {w1, w2}
  Socket = {o1, o2}
  entries = 1
  MaxFailure = 2
\* All objects may have been destroyed.
CHECK_DEADLOCK FALSE
INVARIANTS WaitsOnce OwnResult StrandedByFailure
PROPERTIES ImplementsRegistry CompletionAnswered
