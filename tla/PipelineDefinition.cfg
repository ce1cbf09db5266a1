SPECIFICATION FairSpec
CONSTANTS
  r1 = r1
  r2 = r2
  static = static
  auto = auto
  A = A
  B = B
  n1 = n1
  n2 = n2
  NoConfig = NoConfig
  Requests <- MCRequests
  Models <- MCModels
  AutoModels <- MCAutoModels
  Configs <- MCConfigs
  Uses <- MCUses
  Customs <- MCCustoms
  MaxOps = 3
INVARIANTS CreatesFromCompleteDefinition AvailableIsFresh
PROPERTIES ProceduresEnd RevalidationHappens
CHECK_DEADLOCK FALSE
