SPECIFICATION Spec
CONSTANTS
  Prim = Prim
  Root = r
  Tasks = {r, c}
  MaxSlots = 2
  GcThreshold = 1
  NumLocals = 1
  MaxStack = 1
  MaxElems = 1
  MaxCode = 1
  Hosts = {FALSE}
PROPERTY HandlesStayValid
CHECK_DEADLOCK FALSE
