CONSTANTS
  Thread = {w1, w2}
  Socket = {a, b}
  Fd = {f1, f2}
  MAX_EVENTS = 1
  MaxFailure = 1
  None = None
SYMMETRY Symmetry
SPECIFICATION Spec
INVARIANTS WaitsOnce ListExact OwnDescriptor
PROPERTIES ImplementsRegistry
CHECK_DEADLOCK FALSE
