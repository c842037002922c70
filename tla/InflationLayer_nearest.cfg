\* The claim that every cell is costed by its nearest lethal cell, on the
\* 5x5 map with inflation radius 3 and unknown cells inflated.
CONSTANTS
  SizeX = 5
  SizeY = 5
  CellInflationRadius = 3
  InflateUnknown = TRUE
  CostOfSq <- MCCostOfSq
  Grids <- MCGridsPass
  Boxes <- MCBoxes
SPECIFICATION Spec
INVARIANT InflationUsesNearestObstacle
