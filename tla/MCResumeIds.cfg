SPECIFICATION MCSpec
CONSTANTS
  NoTask = NoTask
  Null = Null
  MaxDepth = 3
  MaxTasks = 3
  MaxRestarts = 1
  MaxStack = 3
  MaxFrames = 1
  CodeLen = 7
  MaxHandles = 2
  Targets = {}
PROPERTY IdsStayUnique
CHECK_DEADLOCK FALSE
