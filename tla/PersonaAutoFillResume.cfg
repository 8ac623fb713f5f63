\* One run over one environment, and a restart.
SPECIFICATION FillSpec
CONSTANTS
  Runs = {r1}
  FillEnvs = {e1}
  Nothing = Nothing
  BatchLimit = 1
  Faults = {"restart"}
PROPERTIES RestartResumes
CHECK_DEADLOCK FALSE
