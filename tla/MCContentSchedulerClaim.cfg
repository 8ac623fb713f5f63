\* A post that the automation service could not start.
SPECIFICATION ScheduleSpec
CONSTANTS
  a1 = a1
  a2 = a2
  Accounts = {a1}
  Keys <- PostsOnly
  Offset <- FirstMinute
  None = None
  Minutes = 3
  MaxHour = 1
  MaxRetries = 1
  Cap = 1
  MaxCrash = 0
INVARIANTS ReturnedCellIsFree
CHECK_DEADLOCK FALSE
