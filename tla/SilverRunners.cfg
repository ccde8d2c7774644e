SPECIFICATION Spec
CONSTANTS
  Events <- MCEvents
  Days <- MCDays
  DayOf <- MCDayOf
  Runners = {j1, j2}
  MaxCopies = 2
  MaxRuns = 3
  MaxFaults = 1
INVARIANTS
  TypeOK
  SilverFromBronze
PROPERTIES
  WritePutsAll
  LossExplained
  ImplementsTable
CHECK_DEADLOCK FALSE
