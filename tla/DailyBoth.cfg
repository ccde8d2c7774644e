SPECIFICATION Spec
CONSTANTS
  Events <- MCEvents
  Days <- MCDays
  DayOf <- MCDayOf
  ds <- MCds
  MaxCopies = 1
  MaxRuns = 3
  MaxFaults = 1
  Schedulers = {"dag", "cron"}
  RETRIES = 1
  BACKOFF_LIMIT = 1
  TOLERANCE_PCT = 1
  Columns <- MCColumns
  MIN_RECORDS = 2
  Null = Null
  Empty = Empty
  VALID_EVENT_TYPES <- MCTypes
INVARIANTS
  TypeOK
  VouchedDayComplete
  CheckedDayHasRecords
PROPERTIES
  DayIsKept
CHECK_DEADLOCK FALSE
