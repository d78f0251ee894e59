SPECIFICATION Spec
CONSTANTS
  NumTrustees = 3
  Threshold = 2
  Q = 101
  Record <- OneBallot
  NumSelections = 2
  MaxTally = 2
  AnyQuorum = FALSE
  LateShares = TRUE
  RetryInPlace = FALSE
  MaxFaults = 0
INVARIANTS
  LateSharesAreHarmless
CHECK_DEADLOCK FALSE
