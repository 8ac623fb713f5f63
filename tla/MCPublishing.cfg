\* Two relay passes, two calls and two sweeps at once; a publication and a remark, one
\* command a pass; one post and two attempts; two approvals.
SPECIFICATION MCSpec
CONSTANTS
  Requests = {post, remark}
  Comments = {remark}
  Targets = {"dev", "ol"}
  NoTarget = NoTarget
  Writers = {w1}
  Callers = {c1}
  Relays = {p1, p2}
  TargetOf <- OneTarget
  MaxRevision = 2
  RelayLimit = 1
  Records = {r1}
  Calls = {p1, p2}
  MaxAttempts = 2
  Approvals = {q1, q2}
  Sweeps = {p1, p2}
  CandidateLimit = 2
INVARIANTS PublishingTypeOK CommandsFollow PostSettles PeopleAreTold
PROPERTIES PostSteps ApprovalReachesAutomation PublishingProgress
CHECK_DEADLOCK FALSE
