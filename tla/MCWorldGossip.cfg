CONSTANTS
  Node = {1, 2}
  Key = {k1, k2}
  Value = {v1}
  Tombstone = Tombstone
  MaxClock = 2
SPECIFICATION FairSpec
INVARIANTS VersionUnique Integrity NoWriteSkipped QuiescentConverged
PROPERTIES NeverOlder EventuallyConverged
CHECK_DEADLOCK FALSE
