\* An upload whose import type has no task.
CONSTANTS
  j1 = j1
  j2 = j2
  NoJob = NoJob
  Jobs <- MCJobs
  MaxResumes = 0
  ImportTypes = {"trading_data", "market_data"}
  Faults = {}
SPECIFICATION FairSpec
PROPERTIES PendingJobsEnd
CHECK_DEADLOCK FALSE
