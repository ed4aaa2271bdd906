SPECIFICATION ConnSpec
CONSTANTS
  Answers = {"old", "new"}
  Payloads = {"data"}
  MaxReceived = 4
  Nothing = Nothing
PROPERTY StreamsRestored
CHECK_DEADLOCK FALSE
