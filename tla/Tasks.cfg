SPECIFICATION Spec
CONSTANTS
  NoTask = NoTask
  Null = Null
  MaxDepth = 3
  MaxTasks = 4
  MaxStack = 2
  MaxFrames = 1
  CodeLen = 3
  MaxHandles = 1
  Targets = {3}
INVARIANTS TypeOK TreeConsistent WaitChain DepthBounded StackIsolation HandlesOwnedOnce SnapshotClosed
PROPERTIES CompletedIsFinal OneResultPerChild ImplementsForkJoin
CHECK_DEADLOCK FALSE
