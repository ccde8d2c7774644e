SPECIFICATION LoadSpec
CONSTANTS
  Events <- MCEvents
  Days <- MCDays
  MaxCopies = 1
  MaxVersion = 2
  Runners = {s1, s2}
  MaxRuns = 2
  MaxLoads = 2
INVARIANTS
  TypeOK
  RunLeavesFresh
  ScorecardCoversOrders
  NothingIsLate
  ExportFollowsGold
PROPERTIES
  NeverOlder
SYMMETRY Symmetry
CHECK_DEADLOCK FALSE
