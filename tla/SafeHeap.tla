------------------------------ MODULE SafeHeap ------------------------------
(***************************************************************************)
(* The runtime of memory-safe C: capabilities, objects and the collector   *)
(* of tasks/chibicc-memory-safe/solution/runtime.c, driven by code that    *)
(* the patched compiler generates.                                         *)
(*                                                                         *)
(* Memory is an array of cells, a cell being a word; a word is a token of  *)
(* the runtime or Data.  mem[0] stands for a word of zeros to copy.  The   *)
(* program is arbitrary: it works on the stack of expression temporaries,  *)
(* top at mem[sp], and on the objects it has pointers to.  It reads no     *)
(* uninitialised cell; pointers out of bounds and to frames that were left *)
(* it may use, for the runtime to stop it.                                 *)
(***************************************************************************)
EXTENDS Integers, Sequences, FiniteSets, FiniteSetsExt

CONSTANTS
  Token,         \* tokens that can be issued, a new one each time
  Data,          \* every other word: integers, NULL, CAP_TAG
  GlobalCells,   \* number of cells of the one global object, at address 1
  HeapCells,     \* number of cells libc's malloc has
  StackCells,    \* number of cells of the stack
  MaxLocals,     \* bound on the locals of a function
  MaxSize,       \* bound on the sizes a program asks for
  MaxObjects,    \* bound on the objects registered
  GC_THRESHOLD,
  Uses           \* the kinds of operations the program uses

ASSUME SafeHeapAssumption ==
  /\ Data \notin Token
  /\ {GlobalCells, HeapCells, StackCells, MaxLocals, MaxSize, MaxObjects, GC_THRESHOLD} \subseteq Nat
  /\ GlobalCells > 0 /\ MaxLocals > 0 /\ StackCells > MaxLocals /\ MaxObjects > MaxLocals
  /\ Uses \subseteq {"call", "vla", "derive", "compare", "copy", "free", "calloc", "realloc"}

HeapStart == GlobalCells + 1
StackLow == HeapStart + HeapCells
StackHigh == StackLow + StackCells     \* the first cell above the stack
Cell == 1..StackHigh - 1

VARIABLES
  mem, sp,
  frames,          \* the calls, each with its base, its locals and its VLA
  objects, capabilities, next_object_id, live_heap_bytes,
  halt,            \* TRUE once the runtime stopped the program
  issued,          \* auxiliary: the object each token was issued for
  ended,           \* auxiliary: the objects whose function has returned
  init             \* auxiliary: the cells that were written since they were allocated

heapVars == <<objects, capabilities, next_object_id, live_heap_bytes, issued>>
vars == <<mem, sp, frames, heapVars, halt, ended, init>>

Cells(start, size) == start..start + size - 1

Object == [id: Nat, start: Nat, size: Nat, frame: Nat,
           kind: {"global", "stack", "heap"}, live: BOOLEAN]
Capability == [token: Token, object_id: Nat, lower: Nat, upper: Nat, cursor: Nat]

-----------------------------------------------------------------------------
(* Looking things up.                                                      *)

find_capability(p) == {c \in capabilities : c.token = p}

Live(objs, id) == \E o \in objs : o.id = id /\ o.live

(* The smallest live object with this address; of two, the newer one.  No  *)
(* size is zero here, so an address one past the end is not looked up.     *)
find_object(address) ==
  LET Candidates == {o \in objects :
        o.live /\ address \in Cells(o.start, o.size)}
  IN {o \in Candidates : \A q \in Candidates :
        o.size < q.size \/ (o.size = q.size /\ o.id >= q.id)}

NewObject(id, start, size, kind, frame) ==
  [id |-> id, start |-> start, size |-> size, frame |-> frame, kind |-> kind, live |-> TRUE]

(* make_capability on the table caps returns the token t: the one of an    *)
(* equal capability, or a new one.                                         *)
make_capability(caps, id, lower, upper, cursor, t) ==
  LET Equal == {c \in caps : c.object_id = id /\ c.lower = lower
                              /\ c.upper = upper /\ c.cursor = cursor} IN
  \/ /\ \E c \in Equal : c.token = t
     /\ capabilities' = caps /\ UNCHANGED issued
  \/ /\ Equal = {} /\ t \notin DOMAIN issued
     /\ capabilities' = caps \cup {[token |-> t, object_id |-> id, lower |-> lower,
                                    upper |-> upper, cursor |-> cursor]}
     /\ issued' = [u \in DOMAIN issued \cup {t} |-> IF u = t THEN id ELSE issued[u]]

-----------------------------------------------------------------------------
(* The collector.                                                          *)

(* The heap objects that the tokens in some cells point to.                *)
Targets(objs, cells) ==
  {o \in objs : /\ o.live /\ o.kind = "heap"
                /\ \E a \in cells, c \in capabilities : c.token = mem[a] /\ c.object_id = o.id}

(* The active stack, from the caller's stack pointer to the end of the     *)
(* highest local: expression temporaries lie between registered objects.   *)
RegisteredOnly(bottom) == {}   \* mutant: temporaries are not scanned
OwnFrameOnly(bottom) ==   \* mutant: nor are those of the callers
  bottom..frames[Len(frames)].base - 1

ActiveStack(bottom) ==
  {a \in Cell : bottom <= a /\ \E o \in objects : o.live /\ o.kind = "stack" /\ a < o.start + o.size}

RootCells(bottom) ==
  ActiveStack(bottom)
    \cup UNION {Cells(o.start, o.size) : o \in {q \in objects : q.live /\ q.kind # "heap"}}

(* What is marked: the least set with the roots that is closed under the   *)
(* tokens in its objects.                                                  *)
ShallowMarked(bottom, root) ==   \* mutant: heap objects are not scanned
  Targets(objects, RootCells(bottom)) \cup root

Marked(bottom, root) ==
  LET heap == {o \in objects : o.live /\ o.kind = "heap"}
      roots == Targets(objects, RootCells(bottom)) \cup root
      Closed(S) == /\ roots \subseteq S
                   /\ \A o \in S : Targets(objects, Cells(o.start, o.size)) \subseteq S
  IN {o \in heap : \A S \in SUBSET heap : Closed(S) => o \in S}

(* The objects that stay, and the capabilities of objects that stay.       *)
Kept(bottom, root) ==
  {o \in objects : o.live /\ o.kind # "heap"} \cup Marked(bottom, root)

CapsOf(objs) == {c \in capabilities : Live(objs, c.object_id)}

UncountedBytes(kept) == live_heap_bytes   \* mutant: swept bytes stay counted
AllBytes(kept) ==   \* mutant: objects of returned functions are discounted
  live_heap_bytes - MapThenSumSet(LAMBDA o : o.size, objects \ kept)

BytesOf(kept) ==
  live_heap_bytes
    - MapThenSumSet(LAMBDA o : o.size, {o \in objects : o.live /\ o.kind = "heap"} \ kept)

(* The state a collection leaves behind.                                   *)
Collected(bottom, root) ==
  LET kept == Kept(bottom, root) IN
  [objects |-> kept, capabilities |-> CapsOf(kept), bytes |-> BytesOf(kept)]

Uncollected == [objects |-> objects, capabilities |-> capabilities, bytes |-> live_heap_bytes]

-----------------------------------------------------------------------------
(* The stack of the running function: from the top down its locals, its    *)
(* VLA, its temporaries.                                                   *)

Top == frames[Len(frames)]
Bottom == Top.base - Top.locals - Top.vla
Depth == Bottom - sp

Fail == halt' = TRUE /\ UNCHANGED <<mem, sp, frames, heapVars, ended, init>>

(* n temporaries are popped and the word w pushed; src says what is copied *)
(* from where, fresh which cells are uninitialised before that.            *)
Result(n, w, fresh, src) ==
  LET slot == sp + n - 1 IN
  /\ slot >= StackLow
  /\ sp' = slot
  /\ mem' = [a \in DOMAIN mem |-> IF a = slot THEN w
                                  ELSE IF a \in DOMAIN src THEN mem[src[a]] ELSE mem[a]]
  /\ init' = (init \ (Cells(sp, n) \cup fresh \cup DOMAIN src))
               \cup {slot} \cup {a \in DOMAIN src : src[a] \in init}
  /\ UNCHANGED <<frames, halt, ended>>

Replace(n, w) == Result(n, w, {}, <<>>)

(* A token for an object in the tables that are there.                     *)
Derive(n, id, lower, upper, cursor) ==
  \E t \in Token :
    /\ make_capability(capabilities, id, lower, upper, cursor, t)
    /\ Replace(n, t)
    /\ UNCHANGED <<objects, next_object_id, live_heap_bytes>>

-----------------------------------------------------------------------------
(* Frames.                                                                 *)

(* A call of a function with n arguments and k locals, the parameters      *)
(* first: they take the arguments' places.  The prologue registers every   *)
(* local; every function has one, __alloca_size__.                         *)
Enter(n, k) ==
  LET base == sp + n IN
  /\ n <= Depth /\ n <= k /\ k >= 1
  /\ base - k >= StackLow
  /\ next_object_id + k <= MaxObjects + 1
  /\ frames' = Append(frames, [base |-> base, locals |-> k, vla |-> 0])
  /\ sp' = base - k
  /\ objects' = objects \cup
       {NewObject(next_object_id + i - 1, base - i, 1, "stack", base) : i \in 1..k}
  /\ next_object_id' = next_object_id + k
  /\ UNCHANGED <<mem, capabilities, live_heap_bytes, issued, halt, ended, init>>

FixedLocalsOnly(frame) ==   \* mutant: a VLA outlives its frame
  {IF o.kind = "stack" /\ o.frame = frame /\ o.start >= frame - Top.locals
   THEN [o EXCEPT !.live = FALSE] ELSE o : o \in objects}

leave_frame(frame) ==
  {IF o.kind = "stack" /\ o.frame = frame THEN [o EXCEPT !.live = FALSE] ELSE o : o \in objects}

(* The function returns the temporary it has computed.                     *)
Leave ==
  /\ Len(frames) > 1 /\ Depth = 1
  /\ sp' = Top.base - 1
  /\ mem' = [mem EXCEPT ![Top.base - 1] = mem[sp]]
  /\ init' = (init \ (sp..Top.base - 1)) \cup {Top.base - 1}
  /\ frames' = SubSeq(frames, 1, Len(frames) - 1)
  /\ objects' = leave_frame(Top.base)
  /\ ended' = ended \cup {o.id : o \in {q \in objects : q.kind = "stack" /\ q.start < Top.base}}
  /\ UNCHANGED <<capabilities, next_object_id, live_heap_bytes, issued, halt>>

(* A declaration of a variable-length array makes room for it.             *)
DeclareVla(n) ==
  /\ Depth = 0 /\ Top.vla = 0
  /\ sp - n >= StackLow
  /\ sp' = sp - n
  /\ frames' = [frames EXCEPT ![Len(frames)].vla = n]
  /\ UNCHANGED <<mem, heapVars, halt, ended, init>>

-----------------------------------------------------------------------------
(* Expressions.                                                            *)

PushData == Replace(0, Data) /\ UNCHANGED heapVars

Pop ==
  /\ Depth > 0
  /\ sp' = sp + 1
  /\ init' = init \ {sp}
  /\ UNCHANGED <<mem, frames, heapVars, halt, ended>>

(* The address of a declared object; a VLA is registered when it is first  *)
(* used.                                                                   *)
from_raw(address, n) ==
  \/ \E o \in find_object(address) :
       IF n > o.start + o.size - address
       THEN Fail
       ELSE Derive(0, o.id, address, address + n, address)
  \/ /\ find_object(address) = {}
     /\ next_object_id <= MaxObjects
     /\ objects' = objects \cup {NewObject(next_object_id, address, n, "stack", Top.base)}
     /\ next_object_id' = next_object_id + 1
     /\ \E t \in Token :
          /\ make_capability(capabilities, next_object_id, address, address + n, address, t)
          /\ Replace(0, t)
     /\ UNCHANGED live_heap_bytes

AddressOfGlobal == from_raw(1, GlobalCells)
AddressOfLocal == \E i \in 1..Top.locals : from_raw(Top.base - i, 1)
AddressOfVla == Top.vla > 0 /\ from_raw(Bottom, Top.vla)

(* The capability of a word, if its object is there.                       *)
Usable(w) == {c \in find_capability(w) : Live(objects, c.object_id)}

(* narrow and add answer NULL for NULL, one of the words that Data is.     *)
UncheckedSize(w, n) == Usable(w)   \* mutant: narrowing may extend authority

Narrowable(w, n) == {c \in Usable(w) : n <= c.upper - c.cursor}

Narrow(n) ==
  /\ Depth > 0
  /\ \/ mem[sp] = Data /\ Replace(1, Data) /\ UNCHANGED heapVars
     \/ Narrowable(mem[sp], n) = {} /\ Fail
     \/ \E c \in Narrowable(mem[sp], n) :
          Derive(1, c.object_id, c.cursor, c.cursor + n, c.cursor)

Add(delta) ==
  LET Valid == {c \in Usable(mem[sp]) : c.cursor + delta \in c.lower..c.upper} IN
  /\ Depth > 0
  /\ \/ mem[sp] = Data /\ delta = 0 /\ Replace(1, Data) /\ UNCHANGED heapVars
     \/ Valid = {} /\ Fail
     \/ \E c \in Valid : Derive(1, c.object_id, c.lower, c.upper, c.cursor + delta)

(* The cell at which n cells may be accessed, if any.                      *)
access(w, n) ==
  {c.cursor : c \in {d \in Usable(w) : /\ d.cursor >= d.lower /\ n <= d.upper - d.lower
                                       /\ d.cursor - d.lower <= d.upper - d.lower - n}}

Load ==
  /\ Depth > 0
  /\ \/ access(mem[sp], 1) = {} /\ Fail
     \/ \E a \in access(mem[sp], 1) \cap init : Replace(1, mem[a]) /\ UNCHANGED heapVars

(* The value is on top, the address below it; the value is the result.     *)
Store ==
  /\ Depth > 1
  /\ \/ access(mem[sp + 1], 1) = {} /\ Fail
     \/ \E a \in access(mem[sp + 1], 1) :
          Result(2, mem[sp], {}, [x \in {a} |-> sp]) /\ UNCHANGED heapVars

(* pointer_cursor, for comparisons, differences and casts to an integer:   *)
(* a word that is no token stands for itself, with no object.              *)
Readable(w) == w = Data \/ Usable(w) # {}

ToInteger ==
  /\ Depth > 0
  /\ IF Readable(mem[sp]) THEN Replace(1, Data) /\ UNCHANGED heapVars ELSE Fail

SameObject(v, w) == \E c \in Usable(v), d \in Usable(w) : c.object_id = d.object_id

(* == and !=, and when ordered <, <= and -.                                *)
Compare(ordered) ==
  /\ Depth > 1
  /\ IF /\ Readable(mem[sp]) /\ Readable(mem[sp + 1])
        /\ ordered => SameObject(mem[sp], mem[sp + 1])
     THEN Replace(2, Data) /\ UNCHANGED heapVars
     ELSE Fail

(* memcpy and memmove: the source is on top, the destination the result.   *)
Memcpy(n) ==
  LET from == access(mem[sp], n)
      to == access(mem[sp + 1], n) IN
  /\ Depth > 1
  /\ \/ n > 0 /\ (from = {} \/ to = {}) /\ Fail
     \/ n = 0 /\ Replace(2, mem[sp + 1]) /\ UNCHANGED heapVars
     \/ \E f \in from, d \in to :
          /\ n > 0
          /\ Result(2, mem[sp + 1], {}, [x \in Cells(d, n) |-> f + x - d])
          /\ UNCHANGED heapVars

-----------------------------------------------------------------------------
(* The heap.                                                               *)

Collect ==
  LET after == Collected(sp, {}) IN
  /\ objects' = after.objects /\ capabilities' = after.capabilities
  /\ live_heap_bytes' = after.bytes
  /\ UNCHANGED <<mem, sp, frames, next_object_id, issued, halt, ended, init>>

(* Where libc can place a block of n cells.                                *)
Native(size) == IF size = 0 THEN 1 ELSE size

HeapAddress == HeapStart..StackLow - 1

LibcRoom(objs, n) ==
  {a \in HeapStart..StackLow - n :
     \A o \in {q \in objs : q.kind = "heap"} :
       Cells(a, n) \cap Cells(o.start, Native(o.size)) = {}}

(* The tables malloc finds room in: collected when the threshold is         *)
(* exceeded, and in any case when libc has no room.  The stack is scanned  *)
(* from where the operands were.                                           *)
Prepared(n, size, root) ==
  IF live_heap_bytes + size <= GC_THRESHOLD /\ LibcRoom(objects, Native(size)) # {}
  THEN Uncollected
  ELSE Collected(sp + n, root)

(* malloc of size with n operands; copied[start] is what is copied into    *)
(* the block at start before anything else happens.                        *)
malloc(n, size, root, copied) ==
  \E after \in {Prepared(n, size, root)} :
    LET room == LibcRoom(after.objects, Native(size)) IN
    \/ /\ room = {}
       /\ Replace(n, Data)
       /\ objects' = after.objects /\ capabilities' = after.capabilities
       /\ live_heap_bytes' = after.bytes
       /\ UNCHANGED <<next_object_id, issued>>
    \/ \E start \in room, t \in Token :
         /\ next_object_id <= MaxObjects
         /\ objects' = after.objects \cup {NewObject(next_object_id, start, size, "heap", 0)}
         /\ next_object_id' = next_object_id + 1
         /\ live_heap_bytes' = after.bytes + size
         /\ make_capability(after.capabilities, next_object_id, start, start + size, start, t)
         /\ Result(n, t, Cells(start, Native(size)), copied[start])

NothingCopied == [start \in HeapAddress |-> <<>>]

Malloc(size) == malloc(0, size, {}, NothingCopied)

Calloc(size) == malloc(0, size, {}, [start \in HeapAddress |-> [x \in Cells(start, size) |-> 0]])

(* free does nothing to its operand, whatever it is.                       *)
Free == Depth > 0 /\ Replace(1, Data) /\ UNCHANGED heapVars

heap_object(w) ==
  {o \in objects : /\ o.live /\ o.kind = "heap"
                   /\ \E c \in find_capability(w) :
                        c.object_id = o.id /\ c.cursor = o.start /\ c.lower = o.start}

NoRoot(old) == {}   \* mutant: the old block is not a root while the new one is made

ReallocRoot(old) == {old}

Copied(old, size) ==
  [start \in HeapAddress |->
     [x \in Cells(start, IF old.size < size THEN old.size ELSE size) |-> old.start + x - start]]

Realloc(size) ==
  /\ Depth > 0
  /\ \/ mem[sp] = Data /\ malloc(1, size, {}, NothingCopied)
     \/ heap_object(mem[sp]) = {} /\ Fail
     \/ \E old \in heap_object(mem[sp]) :
          \/ size = 0 /\ Replace(1, Data) /\ UNCHANGED heapVars
          \/ size > 0 /\ malloc(1, size, ReallocRoot(old), Copied(old, size))

-----------------------------------------------------------------------------
Init ==
  \E k \in 1..MaxLocals :
    /\ mem = [a \in 0..StackHigh - 1 |-> Data]
    /\ sp = StackHigh - k
    /\ frames = <<[base |-> StackHigh, locals |-> k, vla |-> 0]>>
    /\ objects = {NewObject(1, 1, GlobalCells, "global", 0)} \cup
         {NewObject(1 + i, StackHigh - i, 1, "stack", StackHigh) : i \in 1..k}
    /\ capabilities = {} /\ issued = <<>>
    /\ next_object_id = k + 2
    /\ live_heap_bytes = 0
    /\ halt = FALSE /\ ended = {}
    /\ init = 0..GlobalCells

Next ==
  /\ ~halt
  /\ \/ PushData \/ Pop
     \/ AddressOfGlobal \/ AddressOfLocal
     \/ Load \/ Store
     \/ Collect
     \/ \E size \in 0..MaxSize :
          \/ Malloc(size)
          \/ "calloc" \in Uses /\ Calloc(size)
          \/ "realloc" \in Uses /\ Realloc(size)
          \/ "copy" \in Uses /\ Memcpy(size)
     \/ "free" \in Uses /\ Free
     \/ "call" \in Uses /\ (Leave \/ \E n \in 0..MaxLocals, k \in 1..MaxLocals : Enter(n, k))
     \/ "vla" \in Uses /\ (AddressOfVla \/ \E n \in 1..MaxSize : DeclareVla(n))
     \/ "derive" \in Uses /\ (\/ \E n \in 1..MaxSize : Narrow(n)
                             \/ \E delta \in -1..1 : Add(delta))
     \/ "compare" \in Uses /\ (ToInteger \/ \E ordered \in BOOLEAN : Compare(ordered))

Spec == Init /\ [][Next]_vars

-----------------------------------------------------------------------------
(* Correctness.                                                            *)

(* Every variable has its type, and the stack pointer stays in the stack.  *)
TypeOK ==
  /\ mem \in [0..StackHigh - 1 -> Token \cup {Data}]
  /\ sp \in StackLow..StackHigh
  /\ \A i \in DOMAIN frames : frames[i] \in [base : Nat, locals : Nat, vla : Nat]
  /\ objects \subseteq Object /\ capabilities \subseteq Capability
  /\ next_object_id \in 1..MaxObjects + 1
  /\ live_heap_bytes \in Nat
  /\ halt \in BOOLEAN
  /\ DOMAIN issued \subseteq Token /\ ended \subseteq 1..MaxObjects
  /\ init \subseteq DOMAIN mem

(* What the program can reach: the tokens in initialised cells of the      *)
(* globals and of the stack, and of heap objects it can reach.             *)
TokensIn(cells) == {mem[a] : a \in cells \cap init} \cap Token

ReachableTokens ==
  LET roots == TokensIn((1..GlobalCells) \cup (sp..StackHigh - 1))
      Held(t) == UNION {TokensIn(Cells(o.start, o.size)) :
                          o \in {q \in objects : /\ q.live /\ q.kind = "heap"
                                                 /\ t \in DOMAIN issued /\ issued[t] = q.id}}
      Closed(S) == roots \subseteq S /\ \A t \in S : Held(t) \subseteq S
  IN {t \in Token : \A S \in SUBSET Token : Closed(S) => t \in S}

(* A pointer that the program can still reach is usable, until the         *)
(* function whose local it points to returns: no collection takes the      *)
(* object or the token away (collect_garbage, scan_capabilities).          *)
ReachableStaysUsable ==
  \A t \in ReachableTokens : issued[t] \notin ended => Usable(t) # {}

(* A pointer into a frame that was left is never usable again, whatever    *)
(* now lies at its address (leave_frame, find_object_id).                  *)
LeftFramesAreStale ==
  \A t \in DOMAIN issued : issued[t] \in ended => Usable(t) = {}

(* What a usable pointer gives access to is a part of its object, and the  *)
(* memory of an object belongs to no other: heap blocks are apart, stack   *)
(* objects lie in the frames that are there (make_capability's callers).   *)
InBounds(c, o) ==
  /\ o.start <= c.lower /\ c.lower <= c.cursor
  /\ c.cursor <= c.upper /\ c.upper <= o.start + o.size

Apart(o, q) == Cells(o.start, o.size) \cap Cells(q.start, q.size) = {}

AuthorityIsSound ==
  /\ \A c \in capabilities, o \in objects : c.object_id = o.id /\ o.live => InBounds(c, o)
  /\ \A o, q \in {x \in objects : x.live} : o # q => Apart(o, q)
  /\ \A o \in objects : o.live /\ o.kind = "stack" => o.start >= sp

(* The count that decides when to collect is the size of the heap objects  *)
(* that are there.                                                         *)
LiveBytesExact ==
  live_heap_bytes = MapThenSumSet(LAMBDA o : o.size, {o \in objects : o.live /\ o.kind = "heap"})

(* realloc neither frees nor changes the block it is given, even when the  *)
(* program has dropped its last pointer to it and making the new one       *)
(* collects.                                                               *)
ReallocKeepsOld ==
  [][\A old \in heap_object(mem[sp]) :
       \/ /\ \E o \in objects' : o.id = old.id /\ o.live
          /\ \A a \in Cells(old.start, old.size) : mem'[a] = mem[a]
       \/ ~ \E size \in 1..MaxSize : Realloc(size)]_vars

=============================================================================
