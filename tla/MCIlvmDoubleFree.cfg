SPECIFICATION Spec
CONSTANTS
  WordBits = 4
  ByteBits = 1
  HeapSize = 7
  R0 = R0
  Registers = {R0}
  Arguments <- NoArguments
  Blocks = {0}
  UsizeMod = 32
  Imm <- AllocImm
  Ops = {}
  Uses = {"malloc", "free"}
  Rules = {}
PROPERTY BadFreeIsError
CHECK_DEADLOCK FALSE
