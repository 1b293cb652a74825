CONSTANTS
  State = {0, 1, 2, 3, 4, 5, 6, 7}
  Start = 0
  Actions = 3
  Targets <- Goal4
  Problems <- AllProblems
  None = None
SPECIFICATION Spec
INVARIANTS TypeOK PlanSound ShortestPlan SearchBounded
PROPERTY PopsLeast
CHECK_DEADLOCK FALSE
