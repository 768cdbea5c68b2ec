SPECIFICATION Spec
CONSTANTS
  Procs = {p1, p2}
  Configs <- MCConfigs
  InitTasks <- MCTasks
  TaskIds = {"review", "drill", "gone"}
  DueSoonDays = 0
  None = None
  Bad = Bad
  Torn = Torn
  MaxClock = 2
  MaxAhead = 1
  MaxCommands = 2
  MaxCrashes = 1
SYMMETRY Symmetry
INVARIANTS GateHolds PageMatchesDisk CompletionsKept DoneShowsDone SummaryHonest
CHECK_DEADLOCK FALSE
