SPECIFICATION FairSpec
CONSTANTS
  Worker = {w1}
  Main = main
  Task = {t1, t2}
  Registry = {r1, r2}
  Local = {r2}
  Outcome = {"return"}
  None = None
INVARIANT BlockOnResult
PROPERTIES  BlockOnReturns DestroyTerminates
