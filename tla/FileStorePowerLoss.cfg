SPECIFICATION SpecPowerLoss
CONSTANTS
  Records = {r1}
  Timestamps = {t1}
  Garbage = Garbage
  Procs = {p1, p2}
  NoProc = NoProc
  MaxAppends = 2
  MaxFaults = 1
INVARIANT NoSilentLoss
