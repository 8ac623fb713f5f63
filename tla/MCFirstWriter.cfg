\* Three writers of one publication, two rounds, a compare-and-set call; posts of two
\* accounts and comments of one, due in the same minute, a retry, a crash; two runs that
\* fill in personas over two environments.
SPECIFICATION MCSpec
CONSTANTS
  Requests = {post}
  Comments = {}
  Targets = {"dev", "ol"}
  NoTarget = NoTarget
  Writers = {w1, w2, w3}
  Callers = {c1}
  Relays = {}
  TargetOf <- ByProcess
  MaxRevision = 2
  RelayLimit = 1
  a1 = a1
  a2 = a2
  Accounts = {a1, a2}
  Keys <- PostsAndComments
  Offset <- FirstMinute
  None = None
  Minutes = 3
  MaxHour = 1
  MaxRetries = 1
  Cap = 1
  MaxCrash = 1
  r1 = r1
  e1 = e1
  Runs = {r1, r2}
  FillEnvs = {e1, e2}
  Nothing = Nothing
  BatchLimit = 1
  Faults = {"restart", "throw"}
INVARIANTS TypeOK RoundsContiguous RejectionStays MissExplained NewestIsActive ToldTruth
  PartTypesOK HoursHold FillsHold
PROPERTIES RoundsMoveForward ImplementsRegister
CHECK_DEADLOCK FALSE
