SPECIFICATION Spec
CONSTANTS
  Null = Null
  Empty = Empty
  e1 = e1
  e2 = e2
  e3 = e3
  e4 = e4
  o1 = o1
  o2 = o2
  cust = cust
  placed = placed
  VALID_EVENT_TYPES <- MCTypes
  Partitions <- MCPartitions
  Messages <- AllMessages
  PartitionOf <- MCPartitionOf
  Replicas = {r1, r2}
  MAX_OFFSETS = 1
  MaxLen = 1
  MaxCrashes = 1
INVARIANTS
  CommittedLanded
PROPERTIES
  ImplementsIngest
