\* Two uploads for one station, resumed and lost at every point.
CONSTANTS
  j1 = j1
  j2 = j2
  NoJob = NoJob
  Jobs <- MCJobs
  MaxResumes = 1
  ImportTypes = {"trading_data", "market_data"}
  Faults = {"request", "run"}
SPECIFICATION FairSpec
INVARIANTS UploadsExclude FilesMatchJobs
PROPERTIES RequestsEnd
CHECK_DEADLOCK FALSE
