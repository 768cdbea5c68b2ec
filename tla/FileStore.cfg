SPECIFICATION FairSpec
CONSTANTS
  Records = {r1, r2}
  Timestamps = {t1}
  Garbage = Garbage
  Procs = {p1, p2}
  NoProc = NoProc
  MaxAppends = 3
  MaxFaults = 2
INVARIANTS TypeOK NoSilentLoss NoFork ReadYourWrites
PROPERTIES DamageIsPermanent ImplementsAuditLog CallsReturn
