SPECIFICATION FairSpec
CONSTANTS
  r1 = r1
  r2 = r2
  shapeA = shapeA
  shapeB = shapeB
  Requests <- MCRequests
  Shapes <- MCShapes
  DefaultShape = shapeA
  MaxOps = 2
PROPERTY RetiredStaysRetired
CHECK_DEADLOCK FALSE
