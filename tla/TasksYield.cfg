SPECIFICATION Spec
CONSTANTS
  NoTask = NoTask
  Null = Null
  MaxDepth = 2
  MaxTasks = 2
  MaxStack = 2
  MaxFrames = 1
  CodeLen = 4
  MaxHandles = 0
  Targets = {}
PROPERTIES YieldSuspends
CHECK_DEADLOCK FALSE
