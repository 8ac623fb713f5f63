\* Two customers, two environments; two reports and a round of the refresher; two intents and
\* two calls; one request at every door, two attempts to log in; two servers, one account row.
SPECIFICATION MCSpec
CONSTANTS
  u1 = u1
  u2 = u2
  a1 = a1
  a2 = a2
  t1 = t1
  t2 = t2
  c1 = c1
  c2 = c2
  i1 = i1
  i2 = i2
  r1 = r1
  k1 = k1
  h1 = h1
  h2 = h2
  px = px
  py = py
  Users = {u1, u2}
  Envs = {e1, e2}
  Accounts = {a1, a2}
  Tasks = {t1, t2, poll}
  Poller = poll
  None = None
  LegacyStart = {a1}
  MaxVersion = 3
  Intents = {i1, i2}
  Calls = {c1, c2}
  Questions <- SomeQuestions
  Proxies = {px, py}
  MaxRevision = 2
  Requests = {r1}
  Logins = {l1, l2}
  Names = {n1}
  Places = {s1}
  Tokens = {k1, k2}
  Facebook = {a1, e1, e2}
  MaxFailures = 2
  Rows = {w1}
  Platforms = {facebook, xiaohongshu}
  DefaultPlatform = xiaohongshu
  Labels = {g1}
  Servers = {s1, s2}
  Handshakes = {h1, h2}
  Nobody = Nobody
  MaxStatus = 2
INVARIANTS CustomersTypeOK  ProvisionedOnce DoorsHold RosterHolds
PROPERTIES CustomerSteps
SYMMETRY Symmetry
CHECK_DEADLOCK FALSE
