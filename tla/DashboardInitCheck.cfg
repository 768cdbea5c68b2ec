SPECIFICATION Spec
CONSTANTS
    Files <- MixedRoot
    Docs = {d1}
    HandChecks <- MCHandChecks
    Absent = Absent
    Torn = Torn
    MaxChanges = 2
    MaxInits = 2
    MaxCrashes = 0
INVARIANTS
    NodeAudited
CHECK_DEADLOCK FALSE
