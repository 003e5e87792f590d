\* Nothing is lost, requests and workers keep going: does every job settle?
CONSTANTS
  NumRows = 2
  BatchSize = 1
  MaxRuns = 2
  k1 = k1
  Rejected = Rejected
  Keys <- MCKeys
  ImportType = "storage_operation"
  Faults = {}
SPECIFICATION FairSpec
PROPERTIES JobSettles
CHECK_DEADLOCK FALSE
