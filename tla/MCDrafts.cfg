\* Two deciders, an editor, two texts, plans, edits and rounds.
SPECIFICATION MCSpec
CONSTANTS
  p1 = p1
  p2 = p2
  e1 = e1
  Deciders = {p1, p2}
  Editors = {e1}
  Texts = {"a", "b"}
  Plans = {"now", "later"}
  MaxVersion = 2
  MaxRound = 2
INVARIANTS TypeOK PublishedWasShown VerdictHonoured RejectedByDecision
PROPERTIES OutdatedApprovalIsVoided
CHECK_DEADLOCK FALSE
