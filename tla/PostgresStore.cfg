SPECIFICATION FairSpec
CONSTANTS
  Records = {r1, r2}
  Timestamps = {t1}
  Garbage = Garbage
  Sessions = {s1, s2}
  NoSession = NoSession
  MaxRows = 3
  MaxFaults = 2
INVARIANTS TypeOK HeadStaysCurrent TableIsChain AckedStored ReadYourWrites
PROPERTIES ImplementsAuditLog CallsReturn
