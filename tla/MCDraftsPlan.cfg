\* The instance of MCDrafts; what a decider is told after its own edit of the plan.
SPECIFICATION MCSpec
CONSTANTS
  p1 = p1
  p2 = p2
  e1 = e1
  Deciders = {p1, p2}
  Editors = {e1}
  Texts = {"a", "b"}
  Plans = {"now", "later"}
  MaxVersion = 2
  MaxRound = 2
INVARIANTS ApprovalBoundToPlanEdit
CHECK_DEADLOCK FALSE
