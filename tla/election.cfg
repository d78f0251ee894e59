\* Two encryptions of one selection, four trustees of whom two decrypt, and at
\* most two calls that fail.
SPECIFICATION ElectionSpec
CONSTANTS
  NumSelections = 1
  MaxBallots = 2
  MaxFaults = 2
  NumTrustees = 4
  Threshold = 2
  MaxTally = 2
INVARIANTS
  FileLoadsBack
  IdentifiersKeepTheirBallots
  FirstTrusteesAlwaysTally
  ResultIsOfTheCastBallots
CHECK_DEADLOCK FALSE
