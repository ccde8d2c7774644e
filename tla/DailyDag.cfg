SPECIFICATION FairSpec
CONSTANTS
  Events <- MCEvents
  Days <- MCDays
  DayOf <- MCDayOf
  ds <- MCds
  MaxCopies = 2
  MaxRuns = 3
  MaxFaults = 1
  Schedulers = {"dag"}
  RETRIES = 2
  BACKOFF_LIMIT = 0
  TOLERANCE_PCT = 1
  Columns <- MCColumns
  MIN_RECORDS = 2
  Null = Null
  Empty = Empty
  VALID_EVENT_TYPES <- MCTypes
INVARIANTS
  VouchedDayComplete
PROPERTIES
  DagRunEnds
CHECK_DEADLOCK FALSE
