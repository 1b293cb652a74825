CONSTANTS
  Node = {1}
  Key = {k1, k2, k3}
  Value = {v1}
  Tombstone = Tombstone
  MaxClock = 8
SPECIFICATION FairnessSpec
VIEW View
SYMMETRY Symmetry
INVARIANT BoundedWait
CHECK_DEADLOCK FALSE
