SPECIFICATION FairSpec
CONSTANTS
  NumTrustees = 3
  Threshold = 2
  Q = 101
  Record <- OneBallot
  NumSelections = 2
  MaxTally = 2
  AnyQuorum = FALSE
  LateShares = FALSE
  RetryInPlace = FALSE
  MaxFaults = 2
PROPERTIES
  TallyIsPublished
