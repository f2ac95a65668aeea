------------------------------ MODULE IlvmRust ------------------------------
(***************************************************************************)
(* The ILVM interpreter of tasks/ilvm-interpreter/solution/ilvm (eval.rs). *)
(*                                                                         *)
(* IfZ and print of a text or a number have no effect on this state and    *)
(* are left out, as is the text of the blocks: a goto matters only when    *)
(* its target does not exist.                                              *)
(***************************************************************************)
EXTENDS IlvmProgram

VARIABLES
  heap, registers, free_list, alloc_blocks,
  halt,    \* "running", or the exit or Error that ended the program
  out,     \* the last line printed, or the result
  live,    \* auxiliary: the blocks the program may still use
  asked,   \* auxiliary: the operand of the last malloc or free
  args     \* auxiliary: the arguments the program was started with

machine == <<heap, registers, free_list, alloc_blocks, halt, out>>
vars == <<machine, live, asked, args>>

Init ==
  /\ args \in Arguments
  /\ LET start == HeapStart(args) IN
     /\ heap = IF start > HeapSize THEN Empty ELSE InitHeap(HeapSize, args)
     /\ halt = IF start > HeapSize THEN "no heap" ELSE "running"
     /\ registers = [r \in Registers |-> IF r = R0 THEN Wrap(start) ELSE 0]
     /\ free_list = IF start < HeapSize THEN <<Reg(start, HeapSize - start)>> ELSE <<>>
  /\ alloc_blocks = Empty
  /\ out = <<>>
  /\ live = Empty
  /\ asked = 0

-----------------------------------------------------------------------------
(* Operands: a register or an immediate, and its conversion to usize.      *)
EvalVal(v) == IF v \in Registers THEN registers[v] ELSE v
Usize(n) == n % UsizeMod

Running == halt = "running"

Assign(r, n) == registers' = [registers EXCEPT ![r] = n]

Fail(why) == halt' = why /\ UNCHANGED <<heap, registers, free_list, alloc_blocks, out>>

(* Everything but malloc and free leaves the allocator alone.              *)
NoAlloc == UNCHANGED <<free_list, alloc_blocks, live, asked, args>>

Copy(r, v) ==
  Running /\ Assign(r, EvalVal(v)) /\ NoAlloc /\ UNCHANGED <<heap, halt, out>>

BinOp(r, op, v1, v2) ==
  LET m == EvalVal(v1) n == EvalVal(v2) IN
  /\ Running /\ NoAlloc
  /\ IF RustTraps(op, m, n) THEN Fail("panic")
     ELSE Assign(r, RustOp2(op, m, n)) /\ UNCHANGED <<heap, halt, out>>

Not(r, v) ==
  Running /\ Assign(r, BitNot(EvalVal(v))) /\ NoAlloc /\ UNCHANGED <<heap, halt, out>>

Load(r, v) ==
  LET ptr == Usize(EvalVal(v)) IN
  /\ Running /\ NoAlloc
  /\ IF ptr >= HeapSize THEN Fail("address")
     ELSE Assign(r, heap[ptr]) /\ UNCHANGED <<heap, halt, out>>

(* The words of the live blocks.                                           *)
LiveWords == UNION {Words(b, live[b]) : b \in DOMAIN live}

Store(r, v) ==
  LET ptr == Usize(registers[r]) IN
  /\ Running /\ NoAlloc
  /\ "store" \in Rules => ptr \in LiveWords
  /\ IF ptr >= HeapSize THEN Fail("address")
     ELSE heap' = [heap EXCEPT ![ptr] = EvalVal(v)] /\ UNCHANGED <<registers, halt, out>>

Goto(v) == Running /\ NoAlloc /\ EvalVal(v) \notin Blocks /\ Fail("goto")

(* The sum is computed in 64 bits and wraps.                               *)
PrintArray(v1, v2) ==
  LET ptr == Usize(EvalVal(v1))
      len == Usize(EvalVal(v2))
      end == Usize(ptr + len) IN
  /\ Running /\ NoAlloc
  /\ out' = IF end >= HeapSize THEN <<"invalid address">>
            ELSE <<"addresses", ptr..end - 1>>
  /\ UNCHANGED <<heap, registers, halt>>

PrintStr(v) ==
  LET t == TextAt(heap, Usize(EvalVal(v))) IN
  /\ Running /\ NoAlloc
  /\ IF t.err # "none" THEN Fail(t.err)
     ELSE out' = <<"text", t.text>> /\ UNCHANGED <<heap, registers, halt>>

Malloc(r, v) ==
  LET n == Usize(EvalVal(v))
      i == FirstFit(free_list, n)
      ptr == free_list[i].base IN
  /\ Running /\ asked' = n /\ UNCHANGED <<args, out>>
  /\ \/ /\ n = 0
        /\ Assign(r, 0)
        /\ UNCHANGED <<heap, free_list, alloc_blocks, halt, live>>
     \/ n > 0 /\ i = 0 /\ Fail("oom") /\ UNCHANGED live
     \/ /\ n > 0 /\ i > 0
        /\ free_list' = Carve(free_list, i, n)
        /\ Assign(r, Wrap(ptr))
        /\ alloc_blocks' = [b \in DOMAIN alloc_blocks \cup {ptr} |->
                              IF b = ptr THEN n ELSE alloc_blocks[b]]
        /\ live' = [b \in DOMAIN live \cup {ptr} |-> IF b = ptr THEN n ELSE live[b]]
        /\ UNCHANGED <<heap, halt>>

MemSize(r) ==
  Running /\ Assign(r, Wrap(HeapSize)) /\ NoAlloc /\ UNCHANGED <<heap, halt, out>>

(* The entry of alloc_blocks is read but never removed.                    *)
Free(r) ==
  LET ptr == Usize(registers[r]) IN
  /\ Running /\ asked' = ptr /\ UNCHANGED args
  /\ "free" \in Rules => ptr \in DOMAIN live
  /\ \/ ptr \notin DOMAIN alloc_blocks /\ Fail("bad free") /\ UNCHANGED live
     \/ /\ ptr \in DOMAIN alloc_blocks
        /\ free_list' = Release(free_list, Reg(ptr, alloc_blocks[ptr]))
        /\ live' = [b \in DOMAIN live \ {ptr} |-> live[b]]
        /\ UNCHANGED <<heap, registers, alloc_blocks, halt, out>>

Exit(v) ==
  /\ Running /\ halt' = "exit" /\ out' = <<"result", EvalVal(v)>>
  /\ NoAlloc /\ UNCHANGED <<heap, registers>>

Abort == Running /\ Fail("abort") /\ NoAlloc

Memory ==
  \E r \in Registers, v \in Val :
    \/ "malloc" \in Uses /\ Malloc(r, v)
    \/ "free" \in Uses /\ Free(r)
    \/ "load" \in Uses /\ Load(r, v)
    \/ "store" \in Uses /\ Store(r, v)
    \/ "memsize" \in Uses /\ MemSize(r)

Compute ==
  \E r \in Registers, v \in Val :
    \/ "copy" \in Uses /\ Copy(r, v)
    \/ "not" \in Uses /\ Not(r, v)
    \/ \E op \in Ops, w \in Val : BinOp(r, op, v, w)

Output ==
  \E v \in Val :
    \/ "print_str" \in Uses /\ PrintStr(v)
    \/ "array" \in Uses /\ \E w \in Val : PrintArray(v, w)

Leave ==
  \/ "goto" \in Uses /\ \E v \in Val : Goto(v)
  \/ "exit" \in Uses /\ \E v \in Val : Exit(v)
  \/ "abort" \in Uses /\ Abort

Next == Memory \/ Compute \/ Output \/ Leave

Spec == Init /\ [][Next]_vars

-----------------------------------------------------------------------------
(* Properties.                                                             *)

Start == HeapStart(args)

(* The state has its type: registers and heap hold words, blocks lie in    *)
(* the heap.                                                               *)
TypeOK ==
  /\ halt # "no heap" => heap \in [0..HeapSize - 1 -> Word]
  /\ registers \in [Registers -> Word]
  /\ free_list \in Seq(Region)
  /\ \A b \in DOMAIN alloc_blocks : b \in 0..HeapSize /\ alloc_blocks[b] \in 1..HeapSize
  /\ halt \in {"running", "no heap", "exit", "abort", "goto", "panic",
               "address", "text", "oom", "bad free"}

(* malloc and free: while a program frees only what is live, the free list *)
(* holds exactly the words of no live block, in maximal regions in the     *)
(* order of their addresses, and the size of a live block is known.        *)
FreeListIsComplement ==
  halt # "no heap" =>
    /\ UNION {Words(free_list[i].base, free_list[i].size) : i \in DOMAIN free_list}
         = (Start..HeapSize - 1) \ LiveWords
    /\ \A i \in DOMAIN free_list :
         /\ free_list[i].size > 0
         /\ i > 1 => End(free_list[i - 1]) < free_list[i].base
    /\ \A b \in DOMAIN live : b \in DOMAIN alloc_blocks /\ alloc_blocks[b] = live[b]

Alloc == INSTANCE IlvmAlloc WITH Limit <- HeapSize, first <- Start

(* malloc and free do what IlvmAlloc promises: blocks never overlap, out   *)
(* of memory means that no gap is wide enough, and free accepts the live   *)
(* blocks only.                                                            *)
AllocPromise == Alloc!AllocSpec

(* init_heap and print_str: while the program stores inside its own blocks *)
(* only, it can print every argument it was started with, up to the first  *)
(* NUL of that argument.                                                   *)
ArgsIntact ==
  halt # "no heap" =>
    \A i \in DOMAIN args :
      LET nul == SelectInSeq(args[i], LAMBDA b : b = 0) IN
      TextAt(heap, heap[i + 1]) =
        [err |-> "none", text |-> IF nul = 0 THEN args[i] ELSE SubSeq(args[i], 1, nul - 1)]

(* Language.md 6.5: free of an address that is not the base of a live      *)
(* block, for one that was freed already, is a runtime error.              *)
BadFreeIsError ==
  [][\A r \in Registers :
       Free(r) /\ Usize(registers[r]) \notin DOMAIN live => halt' = "bad free"]_vars
=============================================================================
