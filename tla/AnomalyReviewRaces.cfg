\* Two reviews of two anomalies against each other and against the import.
CONSTANTS
  a1 = a1
  a2 = a2
  t1 = t1
  t2 = t2
  Anomalies <- MCAnomalies
  Reviews <- MCReviews
  MaxRows = 3
  MaxSkipped = 1
SPECIFICATION FairSpec
INVARIANTS AuditAddsUp CountsExact NeverOvercounted RecordsHaveSources
PROPERTIES DecidedOnce ReviewsEnd
CHECK_DEADLOCK FALSE
