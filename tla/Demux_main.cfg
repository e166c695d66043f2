SPECIFICATION Spec
CONSTANTS
  Layouts <- MCLayouts
  Clocks <- MCClocks
  SocketSize = 1
  MaxPackets = 3
  NoPacket = NoPacket
CHECK_DEADLOCK FALSE
INVARIANTS OneOwner ReferenceFirst
PROPERTIES ImplementsRouter
