SPECIFICATION FairSpec
CONSTANTS
  NoTask = NoTask
  Null = Null
  MaxDepth = 2
  MaxTasks = 2
  MaxStack = 1
  MaxFrames = 2
  CodeLen = 3
  MaxHandles = 0
  Targets = {3}
PROPERTIES ParentsUntouched FramesLostOnlyByError RunReturnsToHost
CHECK_DEADLOCK FALSE
