SPECIFICATION Spec
CONSTANTS
  Customers = {c1}
  Cities <- MCCities
  Null = Null
  MaxDay = 4
  MaxOrders = 3
  MaxRunsPerDay = 1
  MaxCrashes = 1
  MaxFaults = 1
  MaxSpans = 1
INVARIANTS
  TypeOK
  PeriodsDisjoint
  TimelineComplete
  NewVersionDiffers
PROPERTIES
  HistoryKept
  SameCityTouchesOnly
CHECK_DEADLOCK FALSE
