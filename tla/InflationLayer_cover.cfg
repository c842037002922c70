\* updateCosts on a 5x5 map, inflation radius 3 cells, up to three lethal
\* cells and one unknown cell.
CONSTANTS
  SizeX = 5
  SizeY = 5
  CellInflationRadius = 3
  InflateUnknown = FALSE
  CostOfSq <- MCCostOfSq
  Grids <- MCGridsPass
  Boxes <- MCBoxes
SPECIFICATION Spec
INVARIANT TypeOK
INVARIANT InflationCoversRadius
INVARIANT ChangedOnlyWithinRadius
INVARIANT IInv
PROPERTY NothingQueuedBehind
