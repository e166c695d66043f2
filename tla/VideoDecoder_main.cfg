SPECIFICATION Spec
CONSTANTS
  CCMod = 16
  CellCounts <- Cells
  MaxSlices = 4
  MaxPkts = 3
  MaxQueue = 2
  MaxLost = 3
  MaxOvertakes = 1
CHECK_DEADLOCK FALSE
INVARIANTS ChainKept SlicesArePrefixes StampsInOrder
PROPERTIES WholeSlicesAreDumped
