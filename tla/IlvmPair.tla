------------------------------ MODULE IlvmPair ------------------------------
(***************************************************************************)
(* The two interpreters side by side on the same program: each step is the *)
(* same instruction in both.  The instructions on which they are known to  *)
(* differ are left out, and named here: a division that makes Rust panic,  *)
(* an array with a negative bound or ending at the end of the heap, and    *)
(* the free of a block that was freed before.                              *)
(***************************************************************************)
EXTENDS IlvmRust

VARIABLES ref_heap, ref_registers, free_regions, allocations, result, ref_out, ref_asked

Ref == INSTANCE IlvmRef WITH
         heap <- ref_heap, registers <- ref_registers, out <- ref_out, asked <- ref_asked

pairVars == <<vars, ref_heap, ref_registers, free_regions, allocations, result,
              ref_out, ref_asked>>

PairInit == Init /\ Ref!Init

PairBinOp(r, op, v, w) ==
  /\ ~RustTraps(op, EvalVal(v), EvalVal(w))
  /\ BinOp(r, op, v, w) /\ Ref!BinOp(r, op, v, w)

PairArray(v, w) ==
  LET base == EvalVal(v) size == EvalVal(w) IN
  /\ base >= 0 /\ size >= 0 /\ base + size # HeapSize
  /\ PrintArray(v, w) /\ Ref!PrintArray(v, w)

PairFree(r) ==
  LET ptr == Usize(registers[r]) IN
  /\ ptr \in DOMAIN alloc_blocks => ptr \in DOMAIN live
  /\ Free(r) /\ Ref!Free(r)

PairMemory ==
  \E r \in Registers, v \in Val :
    \/ "malloc" \in Uses /\ Malloc(r, v) /\ Ref!Malloc(r, v)
    \/ "free" \in Uses /\ PairFree(r)
    \/ "load" \in Uses /\ Load(r, v) /\ Ref!Load(r, v)
    \/ "store" \in Uses /\ Store(r, v) /\ Ref!Store(r, v)
    \/ "memsize" \in Uses /\ MemSize(r) /\ Ref!MemSize(r)

PairCompute ==
  \E r \in Registers, v \in Val :
    \/ "copy" \in Uses /\ Copy(r, v) /\ Ref!Copy(r, v)
    \/ "not" \in Uses /\ Not(r, v) /\ Ref!Not(r, v)
    \/ \E op \in Ops, w \in Val : PairBinOp(r, op, v, w)

PairOutput ==
  \E v \in Val :
    \/ "print_str" \in Uses /\ PrintStr(v) /\ Ref!PrintStr(v)
    \/ "array" \in Uses /\ \E w \in Val : PairArray(v, w)

PairLeave ==
  \/ "goto" \in Uses /\ \E v \in Val : Goto(v) /\ Ref!Goto(v)
  \/ "exit" \in Uses /\ \E v \in Val : Exit(v) /\ Ref!Exit(v)
  \/ "abort" \in Uses /\ Abort /\ Ref!Abort

PairNext == PairMemory \/ PairCompute \/ PairOutput \/ PairLeave

PairSpec == PairInit /\ [][PairNext]_pairVars

(* eval.rs and eval.ml agree: registers, heap, output and the way the      *)
(* program ends are the same, and so are the free lists, so that malloc    *)
(* will choose the same addresses.                                         *)
Agreement ==
  /\ heap = ref_heap /\ registers = ref_registers
  /\ out = ref_out /\ halt = result
  /\ free_list = free_regions /\ live = allocations
=============================================================================
