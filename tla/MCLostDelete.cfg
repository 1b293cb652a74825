CONSTANTS
  Node = {1, 2}
  Key = {k1}
  Value = {v1}
  Tombstone = Tombstone
  MaxClock = 2
  StartsPerTick = 2
  MaxLosses = 0
  Reach <- OneWay
  Ticks = {{"gossip"}, {"beacon"}, {"quiet", "retry"}}
SPECIFICATION OneWriterSpec
PROPERTY DeletesReachAll
CHECK_DEADLOCK FALSE
