--------------------------- MODULE MCModelInstance ---------------------------
(* Model of one model version for TLC.                                     *)
EXTENDS ModelInstance

CONSTANTS r1, r2, shapeA, shapeB

MCRequests == {r1, r2}
MCShapes == {shapeA, shapeB}

=============================================================================
