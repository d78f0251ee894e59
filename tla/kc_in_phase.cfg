\* Messages reach the coordinator in the phase they were made for, in any order,
\* any number of times or never; reading shares may run out of memory; a
\* trustee may generate its key twice.
SPECIFICATION Spec
CONSTANTS
  NumTrustees = 3
  MaxKeys = 2
  LateDelivery = FALSE
  MallocMayFail = TRUE
INVARIANTS
  TypeOK
  AcceptedSharesOpen
  TrusteesAgree
  JointKeyBacked
  ExportsBackJointKey
PROPERTIES
  ImplementsAgreement
\* A trustee that generates a second key after its first was broadcast stops
\* the ceremony for good: the client has to start again.
CHECK_DEADLOCK FALSE
