\* Two policy requests at two processes; two hosts, pulls and writes; two editors of one
\* scope, one of two; two visits of the console; two deployments, two clean-ups, two claims.
SPECIFICATION MCSpec
CONSTANTS
  e1 = e1
  p1 = p1
  p2 = p2
  r1 = r1
  r2 = r2
  u1 = u1
  slow = slow
  fast = fast
  Envs = {e1}
  Users = {u1}
  Processes = {p1, p2}
  Requests = {r1, r2}
  Serving <- ServedBy
  Cadences = {slow, fast}
  Initial = slow
  None = None
  Legacy = {}
  Asks <- SomeAsks
  LastDay = 1
  MaxDays = 3
  MaxRevision = 3
  Hosts = {h1, h2}
  Pulls = {p1, p2}
  Writes = {w1, w2}
  Absent = Absent
  MaxContent = 2
  MaxCursor = 2
  Members = {m1}
  Groups = {g1}
  Default = Default
  Items = {i1, i2}
  Faulty = {i2}
  Editors = {d1, d2}
  Readers = {q1}
  Nothing = Nothing
  MaxConfig = 4
  Visits = {v1, v2}
  Fields = {f1, f2}
  Known0 = {a1, a2}
  Ghosts = {g1}
  Cards = {k1, k2}
  Unset = Unset
  MaxSaved = 2
  Environments = {e1}
  Customers = {u1}
  Targets = {dev, ol}
  dev = dev
  Nobody = Nobody
  MaxCleanup = 2
  MaxClaim = 2
  MaxClock = 6
  Lag = 2
INVARIANTS ConsoleTypesOK SnapshotsAgree EditsHold DoorsAnswer HoldsStand
PROPERTIES ConsoleSteps
CHECK_DEADLOCK FALSE
