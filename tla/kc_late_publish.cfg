SPECIFICATION Spec
CONSTANTS
  NumTrustees = 2
  MaxKeys = 1
  LateDelivery = TRUE
  MallocMayFail = FALSE
INVARIANTS
  PublishedAfterVerification
CHECK_DEADLOCK FALSE
