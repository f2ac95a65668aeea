SPECIFICATION Spec
CONSTANTS
  Token = {t1, t2, t3}
  Data = Data
  GlobalCells = 1
  HeapCells = 3
  StackCells = 3
  MaxLocals = 1
  MaxSize = 2
  MaxObjects = 4
  GC_THRESHOLD = 2
  Uses = {"realloc", "copy", "compare"}
SYMMETRY Symmetry
CHECK_DEADLOCK FALSE
INVARIANTS ReachableStaysUsable LiveBytesExact
PROPERTY ReallocKeepsOld
