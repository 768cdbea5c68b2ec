SPECIFICATION Spec
CONSTANTS
    Files <- MCFiles
    Docs = {d1}
    HandChecks <- MCHandChecks
    Absent = Absent
    Torn = Torn
    MaxChanges = 2
    MaxInits = 3
    MaxCrashes = 1
INVARIANTS
    EditsKept
    InitSettles
    CheckSeesHoles
CHECK_DEADLOCK FALSE
