SPECIFICATION Spec
CONSTANTS
  n1 = n1
  n2 = n2
  Nodes = {n1, n2}
  NoNode = NoNode
  Peers <- Mixed
  MayFail = {n1}
  Slots = {r1, r2, r3}
  NoSlot = NoSlot
  MaxEvents = 1
INVARIANTS SetOneHop
PROPERTIES EveryGetReturns PeerFailureHidden
