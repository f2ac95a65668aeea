SPECIFICATION PairSpec
CONSTANTS
  WordBits = 4
  ByteBits = 1
  HeapSize = 6
  R0 = R0
  Registers = {R0}
  Arguments <- NoArguments
  Blocks = {0}
  UsizeMod = 32
  Imm <- PairImm
  Ops = {"Add", "Sub", "Mul", "Div", "Mod", "BitAnd", "BitOr", "BitXor", "Shl", "Shr", "UShr", "LT", "Eq"}
  Uses = {"malloc", "free", "memsize", "not"}
  Rules = {}
INVARIANTS TypeOK FreeListIsComplement Agreement
PROPERTY AllocPromise
CHECK_DEADLOCK FALSE
