SPECIFICATION Spec
CONSTANTS
  Events <- MCEvents
  Days <- MCDays
  DayOf <- MCDayOf
  ds <- MCds
  MaxCopies = 2
  MaxRuns = 4
  MaxFaults = 0
  Schedulers = {"dag"}
  RETRIES = 1
  BACKOFF_LIMIT = 1
  TOLERANCE_PCT = 1
  Columns <- MCColumns
  MIN_RECORDS = 2
  Null = Null
  Empty = Empty
  VALID_EVENT_TYPES <- MCTypes
INVARIANTS
  AlertFollowsVerdict
CHECK_DEADLOCK FALSE
