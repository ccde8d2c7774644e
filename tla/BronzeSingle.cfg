SPECIFICATION FairSpec
CONSTANTS
  Null = Null
  Empty = Empty
  e1 = e1
  e2 = e2
  e3 = e3
  e4 = e4
  o1 = o1
  o2 = o2
  cust = cust
  placed = placed
  VALID_EVENT_TYPES <- MCTypes
  Partitions <- OnePartition
  Messages <- OneMessages
  PartitionOf <- OnePartitionOf
  Replicas = {r1}
  MAX_OFFSETS = 2
  MaxLen = 3
  MaxCrashes = 1
INVARIANTS
  TypeOK
  CommittedLanded
  CommittedVisible
  CopiesBoundedByCrashes
PROPERTIES
  NoRewriteAfterCommit
  FeedsSilver
  PublishedLands
