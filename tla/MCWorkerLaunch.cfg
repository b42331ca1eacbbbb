SPECIFICATION FairSpec
CONSTANTS
  Worker = {w1, w2, w3}
  Main = main
  Spurious = {w1}
  None = None
INVARIANTS OneInstance InsertAlone
PROPERTY AllLaunch
