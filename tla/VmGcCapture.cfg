SPECIFICATION Spec
CONSTANTS
  Prim = Prim
  Root = r
  Tasks = {r}
  MaxSlots = 2
  GcThreshold = 2
  NumLocals = 1
  MaxStack = 2
  MaxElems = 1
  MaxCode = 1
  Hosts = {TRUE}
INVARIANT CaptureNeverPanics
CHECK_DEADLOCK FALSE
