SPECIFICATION FairSpec
CONSTANT Configs <- MCConfigs
CONSTANT DefaultDelay = 2
CONSTANT DefaultMaxBackoff = 40
INVARIANTS DuplicatesOnlyWhenUnsure RefusalIsFinal DelaysBounded LibrariesAgree DeadlineHolds
PROPERTY CallReturns
CHECK_DEADLOCK FALSE
