SPECIFICATION FairSpec
CONSTANTS
  NoFile = NoFile
  Torn = Torn
  LineKinds <- MCKinds
  Settings <- MCSettings
  BufUnits = 3
  MaxMishaps = 3
  MaxRotations = 2
  MaxTruncations = 1
INVARIANTS CheckpointNotAhead OnlyWholeLines FewResent OffsetsAgree
PROPERTY EveryLineHandled
