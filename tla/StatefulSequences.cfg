SPECIFICATION FairSpec
CONSTANTS
  r1 = r1
  r2 = r2
  r3 = r3
  r4 = r4
  Requests <- MCThreeRequests
  ClientIds = {1}
  Asks <- MCThreeAsks
  maxSequenceNumber = 2
  nireq = 2
INVARIANTS SequenceNotErasedInUse MemoryBelongsToSequence
PROPERTIES  AbandonedSequencesGo
