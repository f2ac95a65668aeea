SPECIFICATION PairSpec
CONSTANTS
  WordBits = 8
  ByteBits = 2
  HeapSize = 8
  R0 = R0
  Registers = {R0}
  Arguments <- Strings
  Blocks = {0}
  UsizeMod = 512
  Imm <- SmallImm
  Ops = {}
  Uses = {"malloc", "free", "load", "store", "print_str", "array", "memsize", "copy", "not", "exit", "abort", "goto"}
  Rules = {"free", "store"}
INVARIANTS ArgsIntact Agreement
CHECK_DEADLOCK FALSE
