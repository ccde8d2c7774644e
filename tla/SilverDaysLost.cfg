SPECIFICATION Spec
CONSTANTS
  Events <- MCEvents
  Days <- MCDays
  DayOf <- MCDayOf
  Runners = {j1}
  MaxCopies = 2
  MaxRuns = 3
  MaxFaults = 0
PROPERTIES
  NothingLost
CHECK_DEADLOCK FALSE
