SPECIFICATION ServingFairSpec
CONSTANTS
  Requests = {r1, r2}
  Reader = r1
  Ranked <- MCRanked
  Historical <- MCHistorical
  Volatile <- MCVolatile
  Soft <- MCSoft
  PageSize = 2
  Preselect = 2
  MaxPages = 3
  MaxPool = 5
  BatchSize = 2
  MaxScan = 3
  MaxToggles = 1
  MaxFailures = 1
CHECK_DEADLOCK FALSE
INVARIANTS PagingConsistent
PROPERTIES ReaderReachesTheEnd
