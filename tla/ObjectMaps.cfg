SPECIFICATION VecSpec
CONSTANTS
  Prim = Prim
  MaxSlots = 3
  Lists <- MCLists
  Args <- MCArgs
INVARIANT MapsCorrespond
CHECK_DEADLOCK FALSE
