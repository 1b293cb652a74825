CONSTANTS
  Self = 1
  Peer = {2, 3}
  Writer = {2}
  Name = {n1}
  RawKey = {r1, r2}
  Value = {v1}
  Tombstone = Tombstone
  Capacity = 3
  MaxTracked = 1
  Ttl = 1
  MaxClock = 3
SPECIFICATION Spec
INVARIANTS OneSlotPerField SwarmIsCurrent
PROPERTIES ImplementsMap
CHECK_DEADLOCK FALSE
SYMMETRY RawKeySymmetry
