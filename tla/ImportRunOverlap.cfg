\* Two runs of one job over a file of a full and a partial batch, with every loss.
CONSTANTS
  NumRows = 3
  BatchSize = 2
  MaxRuns = 2
  k1 = k1
  Rejected = Rejected
  Keys <- MCKeys
  ImportType = "trading_data"
  Faults = {"request", "run"}
SPECIFICATION Spec
INVARIANTS NothingLost CompletedMeansAll CountedOnce
PROPERTIES MarkNeverFallsBack KeepsLedger
CHECK_DEADLOCK FALSE
