\* Two requests and three writes over two periods.
CONSTANTS
  r1 = r1
  r2 = r2
  NoEntry = NoEntry
  Periods = {1, 2}
  Requests <- MCRequests
  MaxWrites = 3
SPECIFICATION FairSpec
INVARIANTS FetchesAgree
PROPERTIES StalenessEnds
CHECK_DEADLOCK FALSE
