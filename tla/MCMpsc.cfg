SPECIFICATION FairSpec
CONSTANTS
  Sender = {s1, s2}
  Receiver = receiver
  Size = 2
  MaxSend = 2
  MaxReceive = 5
  None = None
INVARIANTS OnceInOrder ClosedForGood NoLostWakeup
PROPERTIES ValueArrives EnlistedWoken
CHECK_DEADLOCK FALSE
