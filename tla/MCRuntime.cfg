SPECIFICATION Spec
CONSTANTS
  Worker = {w1, w2}
  Main = main
  Task = {t1, t2, t3}
  Registry = {r1}
  Local = {r1}
  Outcome = {"return", "cancel", "throw"}
  None = None
SYMMETRY Symmetry
INVARIANTS ResumeOnce NoLostCoroutine WakeHasFuture DestroyedQuiet
PROPERTIES ImplementsExecutor
