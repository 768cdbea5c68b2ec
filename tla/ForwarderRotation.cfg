SPECIFICATION FairSpec
CONSTANTS
  NoFile = NoFile
  Torn = Torn
  LineKinds <- Two
  Settings <- Rough
  BufUnits = 3
  MaxMishaps = 2
  MaxRotations = 1
  MaxTruncations = 0
PROPERTY NothingLost
