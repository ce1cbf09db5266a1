CONSTANTS
  Calls = {c1}
  Graph <- MCGraph
  Asks <- MCAsks
  MaxOps = 2
  MaxEdits = 1
  MaxRequests = 2
  LastTimestamp = 1
  Yields = 2
  Echoed <- MCEchoed
SPECIFICATION Spec
INVARIANTS ExecutorOfOneGraph ResponsesMatchRequests OnlyClientBreaksOrder EchoKeepsTensor
PROPERTIES CallsEnd 
CHECK_DEADLOCK FALSE
