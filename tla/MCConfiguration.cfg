\* One gated key and one that only alerts; one table, two processes, two requests at one of them;
\* two calls of one customer, a pool of two connections.
\* The categories merge a patch as the roles do, and hot_lead as the comments do.
SPECIFICATION MCSpec
CONSTANTS
  Keys = {"gate", "other"}
  ApiOwned = {"gate"}
  Gates = {"gate"}
  StaleAfter = 1
  Window = 2
  MaxVersion = 1
  MaxTime = 3
  MaxRefusals = 2
  Stores = {"schedule", "role", "model", "comment", "group_join", "rule_mode", "group_comment", "persona"}
  Processes = {p1, p2}
  Writers = {w1, w2}
  HomeOf <- AtOneProcess
  va = va
  vb = vb
  Values = {va, vb}
  NoValue = NoValue
  Patches <- SomePatches
  MaxWrites = 2
  Customers = {u1}
  IdemKeys = {k1}
  Requests = {r1, r2}
  Others = {o1}
  Connections = 2
  Nobody = Nobody
  MaxCalls = 3
  MaxControls = 2
  MaxJob = 4
INVARIANTS ConfigTypesOK CopiesHold CallsHold
PROPERTIES ConfigurationSteps ConfigurationProgress
CHECK_DEADLOCK FALSE
