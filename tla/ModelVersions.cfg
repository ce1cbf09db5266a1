SPECIFICATION Spec
CONSTANTS
  Versions = {1, 2, 10}
  Bases = {"A"}
  ModelFiles <- MCModelFiles
  Accepted <- MCAccepted
  FS = {"local", "s3"}
  Settings <- MCSettings
  Repository <- MCRepository
  MaxEdits = 1
  MaxConfigs = 2
  MaxFaults = 1

  
  
PROPERTIES
  WorkingVersionKept
  SelectedVersionServed
CHECK_DEADLOCK FALSE
