CONSTANTS
  Node = {1, 2}
  g1 = g1
  g2 = g2
  Goal = {g1, g2}
  Scores <- AllScores
  Margin = 1
  Scenario <- Scenarios
  Tombstone = Tombstone
  None = None
  Open = Open
  MaxClock = 30
  Limit <- Limits
SPECIFICATION FairSpec
INVARIANT NoStrayClaim
PROPERTIES EventuallyExclusive EveryGoalDone
CHECK_DEADLOCK FALSE
