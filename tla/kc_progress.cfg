SPECIFICATION FairSpec
CONSTANTS
  NumTrustees = 4
  MaxKeys = 1
  LateDelivery = FALSE
  MallocMayFail = FALSE
PROPERTIES
  CeremonyCompletes
