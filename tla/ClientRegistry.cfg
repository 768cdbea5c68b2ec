SPECIFICATION Spec
CONSTANTS
  Ids = {c1, c2}
  Operators = {o1, o2}
  Requests = {q1}
  None = None
  MaxSecrets = 2
  MaxEntries = 2
  MaxOutages = 1
SYMMETRY Symmetry
INVARIANTS CutOver ReadsOwnEntries ExitZeroTookEffect
PROPERTY RevokedForGood
