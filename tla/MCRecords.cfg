SPECIFICATION Spec
CONSTANTS
  r1 = r1
  r2 = r2
  Nobody = Nobody
  Requests = {r1, r2}
  Logs <- MCLogs
  SinksOf <- MCSinksOf
  Outcome <- MCOutcome
  MaxRecords = 4
  MaxClock = 2
  MAX_BUCKETS = 2
  MAX_SERIES_POINTS = 1
  BucketSecs = 1
  WindowSecs = 2
  MaxRecent = 2
SYMMETRY MCSymmetry
INVARIANTS
  RecordsTypeOK
  GenerationsAreNewest
  RecordedOnce
  StatsMatchEvents
