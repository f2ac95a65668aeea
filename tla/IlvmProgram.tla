---------------------------- MODULE IlvmProgram -----------------------------
(***************************************************************************)
(* The programs the ILVM interpreters run.  A program is arbitrary: every  *)
(* step executes some instruction of the kinds in Uses, with operands from *)
(* the registers and the immediates Imm, on a heap of HeapSize words.      *)
(***************************************************************************)
EXTENDS IlvmWords

CONSTANTS
  HeapSize,   \* words of the heap, fixed on the command line
  Registers, R0,
  Arguments,  \* the sequences of arguments it may be started with
  Blocks,     \* numbers of the program's blocks
  UsizeMod,   \* 2^64 in the Rust interpreter: addresses are 64-bit unsigned
  Imm,        \* immediates of the program
  Ops,        \* the binary operators it uses
  Uses,       \* the kinds of instructions it is made of
  Rules       \* the rules it obeys: "free" frees live blocks only,
              \* "store" stores inside live blocks only

ASSUME IlvmProgramAssumption ==
  /\ HeapSize \in Nat /\ R0 \in Registers
  /\ Imm \subseteq Word /\ Ops \subseteq Op2 /\ Registers \cap Word = {}
  /\ UsizeMod \in Nat /\ 2 * 2^WordBits <= UsizeMod /\ UsizeMod % (2^WordBits) = 0
  /\ HeapSize < 2^(WordBits - 1)
  /\ Arguments \subseteq Seq(Seq(ASCII))   \* init_heap refuses any other
  /\ Rules \subseteq {"free", "store"}

Val == Registers \cup Imm

Empty == [b \in {} |-> 0]
=============================================================================
