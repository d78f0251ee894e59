SPECIFICATION Spec
CONSTANTS
  NumTrustees = 3
  Threshold = 1
  Q = 101
  Record <- OneBallot
  NumSelections = 2
  MaxTally = 2
  AnyQuorum = TRUE
  LateShares = FALSE
  RetryInPlace = FALSE
  MaxFaults = 0
INVARIANTS
  AnyQuorumDecrypts
CHECK_DEADLOCK FALSE
