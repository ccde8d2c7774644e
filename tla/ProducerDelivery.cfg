SPECIFICATION FairSpec
CONSTANTS
  OrderPartitions <- MCOrderPartitions
  RETRIES = 2
  RECENT_EVENTS = 1
  MaxEvents = 3
INVARIANTS
  TypeOK
  CountedIsAccountedFor
  CleanShutdownDelivers
  InSendOrder
  CopiesBoundedByRetries
PROPERTIES
  ShutdownEnds
CHECK_DEADLOCK FALSE
