\* Four ballots for a box of three and a buffer of two; files may be refused and
\* writes may fail; ballots may be registered twice.
SPECIFICATION Spec
CONSTANTS
  Ballots = {b1, b2, b3, b4}
  MAX_BALLOTS = 3
  MAX_BALLOT_PAYLOAD = 2
  MaxRegistered = 3
  SelectionCounts = {1, 2}
  WriteMayFail = TRUE
SYMMETRY Permuted
INVARIANTS
  TypeOK
  HandlesAreLive
  ReadableRecordIsComplete
PROPERTIES
  BallotsAreFinal
  NeverRecordedTwice
  ImplementsBallotBox
