SPECIFICATION MCSpec
CONSTANTS
  Bytes = {b}
  MaxLen = 1
  Width = 8
  None = None
  Kinds <- MCKinds
  Answers = {"old", "new"}
  Payloads = {"data"}
  MaxReceived = 4
  Nothing = Nothing
INVARIANTS FileTypeOK NothingSkipped CacheCurrent
PROPERTIES YieldRestoresFile ResumedIsReadable OneReplayPerResume
CHECK_DEADLOCK FALSE
