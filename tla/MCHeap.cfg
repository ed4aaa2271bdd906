SPECIFICATION MCSpec
CONSTANTS
  Prim = Prim
  Root = 0
  Tasks = {0, 1}
  MaxSlots = 3
  GcThreshold = 1
  NumLocals = 1
  MaxStack = 2
  MaxElems = 1
  MaxCode = 1
  Hosts = {TRUE, FALSE}
  Lists <- MCLists
  Args <- MCArgs
INVARIANTS TypeOK NoDangling TypedHandles RestoreIsomorphic FileKeepsGraph FreeListSound ModuleReadsBack CutModuleRefused
PROPERTIES DanglesOnlyUnscanned NoFloatingGarbage ImplementsHeap
CHECK_DEADLOCK FALSE
