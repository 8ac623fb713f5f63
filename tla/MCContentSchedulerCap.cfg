\* Drafts approved while the scheduler counts them.
SPECIFICATION ScheduleSpec
CONSTANTS
  a1 = a1
  a2 = a2
  Accounts = {a1}
  Keys <- PostsOnly
  Offset <- FirstMinute
  None = None
  Minutes = 3
  MaxHour = 1
  MaxRetries = 1
  Cap = 1
  MaxCrash = 0
INVARIANTS DailyCapHeld
CHECK_DEADLOCK FALSE
