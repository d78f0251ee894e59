\* Two of three trustees decrypt, or all three; readings fail and are repeated,
\* trustees are restarted.
SPECIFICATION Spec
CONSTANTS
  NumTrustees = 3
  Threshold = 2
  Q = 101
  Record <- SmallRecord
  NumSelections = 2
  MaxTally = 2
  AnyQuorum = FALSE
  LateShares = FALSE
  RetryInPlace = TRUE
  MaxFaults = 3
INVARIANTS
  TypeOK
  PublishedTallyIsRecord
  CompleteTallyOpens
  EachMissingCompensatedOnce
CHECK_DEADLOCK FALSE
