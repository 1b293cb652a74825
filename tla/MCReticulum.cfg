CONSTANTS
  Live = {p1}
  Other = {p2, p3}
  MaxPeers = 2
  Interval = 2
  MaxMissed = 1
  LinkId = {l1, l2}
  Key = {k1, k2}
  Size = {335, 336}
  Mtu = 460
  None = None
SPECIFICATION Spec
INVARIANTS LinksBelong FanOutComplete PacketsFit AnnouncesInTime
PROPERTIES NoOrphanedTransfer NodeIdStable GhostsGoFirst
SYMMETRY Symmetry
