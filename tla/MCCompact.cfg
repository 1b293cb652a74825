CONSTANTS
  Self = 1
  Peer = {2}
  Writer = {2}
  Name = {n1}
  RawKey = {r1, r2}
  Value = {v1}
  Tombstone = Tombstone
  Capacity = 3
  MaxTracked = 0
  Ttl = 0
  MaxClock = 3
SPECIFICATION Spec

PROPERTIES LiveStays
CHECK_DEADLOCK FALSE
