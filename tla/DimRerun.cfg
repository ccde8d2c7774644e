SPECIFICATION Spec
CONSTANTS
  Customers = {c1}
  Cities <- MCCities
  Null = Null
  MaxDay = 3
  MaxOrders = 3
  MaxRunsPerDay = 2
  MaxCrashes = 0
  MaxFaults = 0
  MaxSpans = 0
PROPERTIES
  SameCityTouchesOnly
CHECK_DEADLOCK FALSE
