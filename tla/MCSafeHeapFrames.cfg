SPECIFICATION Spec
CONSTANTS
  Token = {t1, t2}
  Data = Data
  GlobalCells = 1
  HeapCells = 1
  StackCells = 4
  MaxLocals = 2
  MaxSize = 2
  MaxObjects = 4
  GC_THRESHOLD = 1
  Uses = {"call", "vla", "derive", "free", "calloc"}
SYMMETRY Symmetry
CHECK_DEADLOCK FALSE
INVARIANTS TypeOK ReachableStaysUsable LeftFramesAreStale AuthorityIsSound
