SPECIFICATION Spec
CONSTANTS
  MaxKeepalives = 2
  Devices = {a, b}
  NoDevice = NoDevice
  MaxRequests = 2
  MaxLeases = 2
CHECK_DEADLOCK FALSE
INVARIANTS TypeOK PlayGranted AnswersInTurn DiesForAReason
PROPERTIES HandshakeCompletes BackAtTheTop
