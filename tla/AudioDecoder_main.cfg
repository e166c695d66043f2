SPECIFICATION Spec
CONSTANTS
  U16Mod = 7
  U32Mod = 40
  UnitBytes = 3
  PktBytes <- Pieces
  Stuffing <- Fields
  Misread <- Lengths
  ZeroLength = FALSE
  MaxUnits = 3
  MaxOther = 1
  MaxQueue = 2
  MaxLost = 2
  MaxOvertakes = 1
CHECK_DEADLOCK FALSE
INVARIANTS ChainKept UnitsAreExact OneUnitPerGap
PROPERTIES AbortsOnlyOnField AcceptedUnitsAreDumped
