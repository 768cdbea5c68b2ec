SPECIFICATION Spec
CONSTANTS
  Procs = {p1}
  Configs <- VulnAndNpm
  InitTasks <- MCTasks
  TaskIds = {"review", "drill", "gone"}
  DueSoonDays = 0
  None = None
  Bad = Bad
  Torn = Torn
  MaxClock = 2
  MaxAhead = 1
  MaxCommands = 1
  MaxCrashes = 0
INVARIANT DeadScanNotGreen
CHECK_DEADLOCK FALSE
