SPECIFICATION Spec
CONSTANTS
  Names <- MCNames
  Contents <- MCContents
  CommandLines <- MCCommandLines
  FirstFiles <- MCFirstFiles
  Fragile <- MCFragile
  MaxEdits = 2
  MaxReloads = 1
  Cores = 4
INVARIANTS NoAutoModelInPipeline ManagerOutlivesUsers
PROPERTIES  ShutdownCompletes FileApplied
CHECK_DEADLOCK FALSE
