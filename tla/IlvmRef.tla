------------------------------ MODULE IlvmRef -------------------------------
(***************************************************************************)
(* The reference ILVM interpreter of                                       *)
(* tasks/ilvm-self-hosting-compiler/tests/ilvm_ref (eval.ml): its state and  *)
(* its instructions.  IlvmPair runs programs on it.                        *)
(***************************************************************************)
EXTENDS IlvmProgram

VARIABLES
  heap, registers, free_regions, allocations,
  result,  \* "running", or the exit or the Runtime error that ended the program
  out,     \* the last line emitted, or the result
  asked,   \* auxiliary: the operand of the last malloc or free
  args     \* auxiliary: the arguments the program was started with

Init ==
  /\ args \in Arguments
  /\ LET start == HeapStart(args) IN
     /\ heap = IF start > HeapSize THEN Empty ELSE InitHeap(HeapSize, args)
     /\ result = IF start > HeapSize THEN "no heap" ELSE "running"
     /\ registers = [r \in Registers |-> IF r = R0 THEN Wrap(start) ELSE 0]
     /\ free_regions = IF start < HeapSize THEN <<Reg(start, HeapSize - start)>> ELSE <<>>
  /\ allocations = Empty
  /\ out = <<>>
  /\ asked = 0

-----------------------------------------------------------------------------
EvalVal(v) == IF v \in Registers THEN registers[v] ELSE v

Running == result = "running"

SetRegister(r, n) == registers' = [registers EXCEPT ![r] = n]

Runtime(why) ==
  result' = why /\ UNCHANGED <<heap, registers, free_regions, allocations, out>>

NoAlloc == UNCHANGED <<free_regions, allocations, asked, args>>

(* An instruction that only assigns a register.                            *)
Result(r, n) ==
  Running /\ SetRegister(r, n) /\ NoAlloc /\ UNCHANGED <<heap, result, out>>

Copy(r, v) == Result(r, EvalVal(v))
Not(r, v) == Result(r, BitNot(EvalVal(v)))
MemSize(r) == Result(r, Wrap(HeapSize))

BinOp(r, op, v1, v2) ==
  LET m == EvalVal(v1) n == EvalVal(v2) IN
  \/ ~RefFails(op, m, n) /\ Result(r, RefOp2(op, m, n))
  \/ Running /\ RefFails(op, m, n) /\ Runtime("division") /\ NoAlloc

(* Negative addresses fail at once: index_of_int32.                        *)
InHeap(ptr) == ptr \in 0..HeapSize - 1

Load(r, v) ==
  LET ptr == EvalVal(v) IN
  \/ InHeap(ptr) /\ Result(r, heap[ptr])
  \/ Running /\ ~InHeap(ptr) /\ Runtime("address") /\ NoAlloc

LiveWords == UNION {Words(b, allocations[b]) : b \in DOMAIN allocations}

Store(r, v) ==
  LET ptr == registers[r] IN
  /\ Running /\ NoAlloc
  /\ "store" \in Rules => ptr \in LiveWords
  /\ IF InHeap(ptr)
     THEN heap' = [heap EXCEPT ![ptr] = EvalVal(v)] /\ UNCHANGED <<registers, result, out>>
     ELSE Runtime("address")

Goto(v) == Running /\ EvalVal(v) \notin Blocks /\ Runtime("goto") /\ NoAlloc

PrintArray(v1, v2) ==
  LET base == EvalVal(v1) length == EvalVal(v2) IN
  /\ Running /\ NoAlloc
  /\ out' = IF base < 0 \/ length < 0 \/ base > HeapSize - length
            THEN <<"invalid address">> ELSE <<"addresses", Words(base, length)>>
  /\ UNCHANGED <<heap, registers, result>>

PrintStr(v) ==
  LET t == TextAt(heap, EvalVal(v)) IN
  /\ Running /\ NoAlloc
  /\ IF t.err # "none" THEN Runtime(t.err)
     ELSE out' = <<"text", t.text>> /\ UNCHANGED <<heap, registers, result>>

Malloc(r, v) ==
  LET size == EvalVal(v)
      i == FirstFit(free_regions, size)
      ptr == free_regions[i].base IN
  /\ Running /\ asked' = size /\ UNCHANGED args
  /\ \/ /\ size = 0
        /\ SetRegister(r, 0)
        /\ UNCHANGED <<heap, free_regions, allocations, result, out>>
     \/ (size < 0 \/ (size > 0 /\ i = 0)) /\ Runtime("oom")
     \/ /\ size > 0 /\ i > 0
        /\ free_regions' = Carve(free_regions, i, size)
        /\ SetRegister(r, Wrap(ptr))
        /\ allocations' = [b \in DOMAIN allocations \cup {ptr} |->
                             IF b = ptr THEN size ELSE allocations[b]]
        /\ UNCHANGED <<heap, result, out>>

ForgetfulFree(r) ==   \* mutant: the block stays allocated
  LET ptr == registers[r] IN
  /\ Running /\ asked' = ptr /\ UNCHANGED args
  /\ "free" \in Rules => ptr \in DOMAIN allocations
  /\ \/ ptr \notin DOMAIN allocations /\ Runtime("bad free")
     \/ /\ ptr \in DOMAIN allocations
        /\ UNCHANGED allocations
        /\ free_regions' = MergeRegions(<<Reg(ptr, allocations[ptr])>> \o free_regions)
        /\ UNCHANGED <<heap, registers, result, out>>

Free(r) ==
  LET ptr == registers[r] IN
  /\ Running /\ asked' = ptr /\ UNCHANGED args
  /\ "free" \in Rules => ptr \in DOMAIN allocations
  /\ \/ ptr \notin DOMAIN allocations /\ Runtime("bad free")
     \/ /\ ptr \in DOMAIN allocations
        /\ allocations' = [b \in DOMAIN allocations \ {ptr} |-> allocations[b]]
        /\ free_regions' = MergeRegions(<<Reg(ptr, allocations[ptr])>> \o free_regions)
        /\ UNCHANGED <<heap, registers, result, out>>

Exit(v) ==
  /\ Running /\ result' = "exit" /\ out' = <<"result", EvalVal(v)>>
  /\ NoAlloc /\ UNCHANGED <<heap, registers>>

Abort == Running /\ Runtime("abort") /\ NoAlloc
=============================================================================
