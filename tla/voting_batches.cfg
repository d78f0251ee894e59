\* Two batches, and no write fails.
SPECIFICATION Spec
CONSTANTS
  Ballots = {b1, b2}
  MAX_BALLOTS = 2
  MAX_BALLOT_PAYLOAD = 2
  MaxRegistered = 2
  SelectionCounts = {2}
  WriteMayFail = FALSE
INVARIANT
  ExportedRecordIsReadable
