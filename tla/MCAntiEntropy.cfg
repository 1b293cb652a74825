CONSTANTS
  Node = {1, 2}
  Key = {k1, k2}
  Value = {v1}
  Tombstone = Tombstone
  MaxClock = 2
  StartsPerTick = 2
  MaxLosses = 1
  Reach <- OneWay
  Ticks = {{"gossip"}, {"beacon"}, {"quiet", "retry"}, {"probe"}}
SPECIFICATION OneWriterSpec
PROPERTIES NeverOlder EventuallyRepaired
CHECK_DEADLOCK FALSE
