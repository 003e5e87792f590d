\* Two sources, of one province or of two.
CONSTANTS
  s1 = s1
  s2 = s2
  r1 = r1
  NoSource = NoSource
  Sources <- MCSources
  Provinces = {"Gansu", "Guangdong"}
  SourceRequests <- MCRequests
SPECIFICATION SourceFairSpec
INVARIANTS StatusIsLatest
PROPERTIES EverySourceIsFetched
CHECK_DEADLOCK FALSE
