SPECIFICATION Spec
CONSTANTS
  U16Mod = 8
  U32Mod = 40
  UnitBytes = 3
  PktBytes <- Pieces
  Stuffing <- Nothing
  Misread <- Nowhere
  ZeroLength = FALSE
  MaxUnits = 4
  MaxOther = 1
  MaxQueue = 2
  MaxLost = 0
  MaxOvertakes = 0
CHECK_DEADLOCK FALSE
INVARIANT NoLossNoDrop
