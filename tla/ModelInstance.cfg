SPECIFICATION FairSpec
CONSTANTS
  r1 = r1
  r2 = r2
  shapeA = shapeA
  shapeB = shapeB
  Requests <- MCRequests
  Shapes <- MCShapes
  DefaultShape = shapeA
  MaxOps = 3
INVARIANTS TypeOK 
PROPERTIES NoChangeUnderRequest EveryoneReturns
CHECK_DEADLOCK FALSE
