CONSTANTS
  Goal = {1, 2}
  Action = {a1, a2}
  HasExec = {a1}
  Field = {f1, f2}
  v1 = v1
  v2 = v2
  raw = raw
  junk = junk
  Value <- Bytes
  Serialized <- Written
  Absent = Absent
  None = None
  MaxActionTicks = 3
  CooldownTicks = 2
SPECIFICATION FairSpec
PROPERTIES NoIdleRestamp NeverPinned BestGoalPursued FallsBack
