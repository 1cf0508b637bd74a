SPECIFICATION Spec
CONSTANTS
  n1 = n1
  n2 = n2
  Nodes = {n1, n2}
  NoNode = NoNode
  Peers <- OtherNodes
  MayFail = {}
  Slots = {r1}
  NoSlot = NoSlot
  MaxEvents = 1
PROPERTIES SyncsDieOut
