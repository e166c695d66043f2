SPECIFICATION Spec
CONSTANTS
  U16Mod = 16
  U32Mod = 40
  UnitBytes = 3
  PktBytes <- Pieces
  Stuffing <- Nothing
  Misread <- Nowhere
  ZeroLength = TRUE
  MaxUnits = 4
  MaxOther = 1
  MaxQueue = 2
  MaxLost = 0
  MaxOvertakes = 0
CHECK_DEADLOCK FALSE
PROPERTY UnitsReachScheduler
