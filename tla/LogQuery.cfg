SPECIFICATION Spec
CONSTANTS
  Clients = {a, b}
  Apps = {"api", "API"}
  Readers = {r1}
  None = None
  Bad = Bad
  MaxEntries = 4
  DefaultLimits <- MCDefaults
  Environments <- MCEnvironments
  MaxInt64 = 5
INVARIANTS PagesComplete PageRespectsQuery BackendsAgree
CHECK_DEADLOCK FALSE
