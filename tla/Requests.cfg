SPECIFICATION Spec
CONSTANTS
  NameOrder <- MCNameOrder
  MAX_2D_STRING_ARRAY_SIZE = 8
  ModelFiles <- MCModelFiles
  Requests <- MCRequestsOf
  Rewrites <- MCRewrites
  CapiTensors <- MCCapiTensors
  CapiRequests <- MCCapiRequests
 
INVARIANTS ResponseHoldsOutputs RequestsDoNotMatter  MetadataHolds
