SPECIFICATION Spec
CONSTANTS
  Servers = {s1, s2}
  NoServer = NoServer
  Self = NoServer
  MaxStarts = 2
CHECK_DEADLOCK FALSE
INVARIANTS RingMatchesClients NoOtherLoss
PROPERTIES StoppedLeaves PickReturns
