\* Polynomials of degree below 3 over the integers modulo 7, the subgroup of that
\* order modulo 29, ballots of two selections, numbers of two words of two bits.
SPECIFICATION CryptographySpec
CONSTANTS
  NumTrustees = 4
  Threshold = 3
  Q = 7
  P = 29
  Generator = 16
  Drawn = {0, 1, 5, 7, 28}
  RsaSeeds = {4, 10}
  Short = {1}
  NumSelections = 2
  JointKeySecrets = {0, 2}
  BaseHashes = {3}
  WordBits = 2
  LogWords = 1
  ByteBits = 1
  Moduli = {2, 5, 13, 15}
  ByteBase = 4
  WordBytes = 2
  PWords = 3
  QWords = 2
  RsaWords = 2
  ShareWords = 2
  QValue = 251
  Contents <- SmallContents
  HalfByte = 2
  Hashes <- ShortHashes
INVARIANTS
  SharesRecoverKey
  KeyProofBindsKey
  OnlyOwnSharePasses
  HonestBallotVerifies
  SelectionProofBindsMessage
  BallotProofBindsCount
  DecryptionProofBindsShare
  AnyQuorumCountsSelections
  WordArithmeticIsExact
  RemainderLoopRunsOnce
  MessagesReadBack
  TrackersLookDifferent
CHECK_DEADLOCK FALSE
