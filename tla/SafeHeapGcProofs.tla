--------------------------- MODULE SafeHeapGcProofs ---------------------------
(***************************************************************************)
(* Proofs about the collector of SafeHeap, for memories, programs and      *)
(* token sets of any size: no collection takes away an object, or the      *)
(* token of an object, that the program can still reach; the count of live *)
(* heap bytes is exact, and every variable has its type.                   *)
(***************************************************************************)
EXTENDS SafeHeapProofs, FiniteSums

(* A token stands for an object whose function has returned, or is usable. *)
Known(t) == t \in DOMAIN issued /\ (issued[t] \in ended \/ Usable(t) # {})

(* The cells the program has a use for: the global, the stack, and the     *)
(* heap objects that are there, whether it can reach them or not.          *)
InUse(a) ==
  \/ a \in 1..GlobalCells
  \/ a \in sp..StackHigh - 1
  \/ \E o \in objects : o.live /\ o.kind = "heap" /\ a \in Cells(o.start, o.size)

(* Below the stack pointer nothing counts as written.                      *)
MemoryShape ==
  /\ mem \in [0..StackHigh - 1 -> Token \cup {Data}] /\ mem[0] = Data
  /\ init \subseteq 0..StackHigh - 1
  /\ \A a \in init : a >= StackLow => a >= sp

(* The first local of main is registered for ever: it marks the end of the *)
(* active stack that the collector scans.                                  *)
MainShape ==
  /\ frames[1].base = StackHigh /\ frames[1].locals > 0
  /\ \E o \in objects : /\ o.live /\ o.kind = "stack" /\ o.frame = StackHigh
                        /\ o.start = StackHigh - 1 /\ o.size = 1

(* Every token in a cell in use is known.  This is local to a cell: what   *)
(* the sweep drops is not in use any more, and what it keeps it scanned.   *)
KnownInv == \A a \in init : InUse(a) /\ mem[a] \in Token => Known(mem[a])

GcInv == MemoryShape /\ MainShape /\ KnownInv

(* Every temporary was written, those below the frames of callees too: an  *)
(* instruction finds its operands.                                         *)
TemporariesWritten ==
  /\ sp..Bottom - 1 \subseteq init
  /\ \A i \in 1..Len(frames) - 1 : frames[i + 1].base..Floor(frames[i]) - 1 \subseteq init

-----------------------------------------------------------------------------
(* What is known after the step.                                           *)
KnownAfter(t) ==
  /\ t \in DOMAIN issued'
  /\ \/ issued'[t] \in ended'
     \/ \E c \in capabilities' : c.token = t /\ Live(objects', c.object_id)

(* The tables only grow, but for the objects of a function that returns.   *)
IssuedGrows == \A u \in DOMAIN issued : u \in DOMAIN issued' /\ issued'[u] = issued[u]

TablesGrow ==
  /\ IssuedGrows /\ ended \subseteq ended' /\ capabilities \subseteq capabilities'
  /\ \A o \in objects : o.live => o.id \in ended' \/ Live(objects', o.id)

(* The invariant of the next state, in terms of what is known after.       *)
LEMMA KnownNext ==
  ASSUME \A a \in init' : InUse(a)' /\ mem'[a] \in Token => KnownAfter(mem'[a])
  PROVE  KnownInv'
  BY DEF KnownInv, Known, KnownAfter, Usable, find_capability

(* What was known stays known while the tables grow.                       *)
LEMMA StaysKnown ==
  ASSUME HeapInv, KnownInv, TablesGrow, NEW a \in init, InUse(a), mem[a] \in Token
  PROVE  KnownAfter(mem[a])
<1> DEFINE t == mem[a]
<1>1. t \in DOMAIN issued /\ (issued[t] \in ended \/ Usable(t) # {})
  BY DEF KnownInv, Known
<1>2. t \in DOMAIN issued' /\ issued'[t] = issued[t]
  BY <1>1 DEF TablesGrow, IssuedGrows
<1>3. CASE issued[t] \in ended
  BY <1>2, <1>3 DEF TablesGrow, KnownAfter
<1>4. CASE Usable(t) # {}
  <2>1. PICK c \in capabilities : c.token = t /\ Live(objects, c.object_id)
    BY <1>4 DEF Usable, find_capability
  <2>2. PICK o \in objects : o.id = c.object_id /\ o.live
    BY <2>1 DEF Live
  <2>3. issued[t] = c.object_id
    BY <2>1 DEF HeapInv, CapabilityShape
  <2>4. o.id \in ended' \/ Live(objects', o.id)
    BY <2>2 DEF TablesGrow
  <2>5. QED
    BY <1>2, <2>1, <2>2, <2>3, <2>4 DEF TablesGrow, KnownAfter
<1>5. QED
  BY <1>1, <1>3, <1>4

(* A cell that is in use after the step was so before, unless it is new.   *)
LEMMA WasInUse ==
  ASSUME HeapInv, MemoryShape, NEW a \in init, InUse(a)', sp' \in Int, StackLow <= sp',
         \A o \in objects' : o.live /\ o.kind = "heap" /\ a \in Cells(o.start, o.size) => o \in objects
  PROVE  InUse(a)
<1>1. sp \in Int /\ StackLow \in Int /\ StackHigh \in Int /\ a \in Int
  BY Zones DEF HeapInv, StackShape, MemoryShape
<1>2. CASE a \in 1..GlobalCells
  BY <1>2 DEF InUse
<1>3. CASE a \in sp'..StackHigh - 1
  <2>1. a >= StackLow
    BY <1>1, <1>3
  <2>2. a \in sp..StackHigh - 1
    BY <1>1, <1>3, <2>1 DEF MemoryShape
  <2>3. QED
    BY <2>2 DEF InUse
<1>4. CASE \E o \in objects' : o.live /\ o.kind = "heap" /\ a \in Cells(o.start, o.size)
  BY <1>4 DEF InUse
<1>5. QED
  BY <1>2, <1>3, <1>4 DEF InUse

(* A token that was just made is known, and the tables grow.               *)
LEMMA MadeKnown ==
  ASSUME HeapInv, NEW caps \in SUBSET capabilities, NEW id, NEW lower, NEW upper, NEW cursor,
         NEW t \in Token, make_capability(caps, id, lower, upper, cursor, t), Live(objects', id)
  PROVE  KnownAfter(t) /\ IssuedGrows /\ caps \subseteq capabilities'
<1>1. CASE /\ \E c \in caps : c.object_id = id /\ c.token = t
           /\ capabilities' = caps /\ UNCHANGED issued
  <2>1. PICK c \in caps : c.object_id = id /\ c.token = t
    BY <1>1
  <2>2. t \in DOMAIN issued
    BY <2>1 DEF HeapInv, CapabilityShape
  <2>3. QED
    BY <1>1, <2>1, <2>2 DEF KnownAfter, IssuedGrows
<1>2. CASE /\ t \notin DOMAIN issued
           /\ capabilities' = caps \cup {[token |-> t, object_id |-> id, lower |-> lower,
                                          upper |-> upper, cursor |-> cursor]}
           /\ issued' = [u \in DOMAIN issued \cup {t} |-> IF u = t THEN id ELSE issued[u]]
  <2> DEFINE new == [token |-> t, object_id |-> id, lower |-> lower, upper |-> upper, cursor |-> cursor]
  <2>1. new \in capabilities' /\ new.token = t /\ new.object_id = id
    BY <1>2
  <2>2. t \in DOMAIN issued' /\ IssuedGrows
    BY <1>2 DEF IssuedGrows
  <2> HIDE DEF new
  <2>3. KnownAfter(t)
    BY <2>1, <2>2 DEF KnownAfter
  <2>4. QED
    BY <1>2, <2>2, <2>3
<1>3. QED
  BY <1>1, <1>2 DEF make_capability

-----------------------------------------------------------------------------
(* Frames lie at the end of memory: main's is the highest.                 *)
LEMMA MainIsHighest ==
  ASSUME HeapInv, MainShape, NEW i \in 1..Len(frames)
  PROVE  /\ frames[i].base <= StackHigh
         /\ i > 1 => frames[i].base < StackHigh
<1>1. 1 \in 1..Len(frames) /\ i \in Int /\ i >= 1
  BY TopFrame DEF HeapInv, StackShape
<1>2. /\ frames[1].base \in Int /\ frames[1].locals \in Nat /\ frames[1].vla \in Nat
      /\ frames[i].base \in Int
  BY <1>1, TopFrame DEF HeapInv
<1>3. i > 1 => frames[i].base <= Floor(frames[1])
  BY <1>1 DEF HeapInv, StackShape
<1>4. Floor(frames[1]) < StackHigh
  BY <1>2 DEF MainShape, Floor
<1>5. StackHigh \in Int /\ Floor(frames[1]) \in Int
  BY <1>2, Zones DEF Floor
<1>6. i = 1 => frames[i].base = StackHigh
  BY DEF MainShape
<1>7. QED
  BY <1>1, <1>2, <1>3, <1>4, <1>5, <1>6

(* The locals of the running function end below the end of memory.         *)
LEMMA BottomIsLow ==
  ASSUME HeapInv, MainShape
  PROVE  Bottom \in Int /\ StackHigh \in Int /\ Bottom <= StackHigh
<1>1. /\ Len(frames) \in 1..Len(frames) /\ Top = frames[Len(frames)] /\ Bottom = Floor(Top)
      /\ Top.base \in Int /\ Top.locals \in Nat /\ Top.vla \in Nat
  BY TopFrame DEF HeapInv
<1>2. Top.base <= StackHigh /\ StackHigh \in Int
  BY <1>1, MainIsHighest, Zones
<1>3. QED
  BY <1>1, <1>2 DEF Floor

(* The cells of an object are in use, in memory, and none is a temporary.  *)
LEMMA LiveCells ==
  ASSUME HeapInv, MainShape, NEW o \in objects, o.live, NEW a \in Cells(o.start, o.size)
  PROVE  /\ a \in 1..StackHigh - 1 /\ InUse(a)
         /\ a >= StackLow => a >= Bottom
<1>1. /\ o.start \in Int /\ o.size \in Nat /\ InPlace(o) /\ o.kind \in {"global", "stack", "heap"}
  BY ObjectFields DEF HeapInv
<1>2. a \in Int /\ o.start <= a /\ a < o.start + o.size
  BY <1>1, CellsFrom
<1>3. /\ HeapStart \in Int /\ StackLow \in Int /\ StackHigh \in Int /\ 1 <= HeapStart
      /\ HeapStart <= StackLow /\ StackLow <= StackHigh /\ HeapStart = GlobalCells + 1 /\ GlobalCells \in Nat
  BY Zones
<1>4. /\ Bottom \in Int /\ StackLow <= Bottom /\ sp \in Int /\ sp <= Bottom
  BY <1>3, TopFrame DEF HeapInv, StackShape
<1>5. CASE o.kind = "global"
  <2>1. 1 <= a /\ a < HeapStart
    BY <1>1, <1>2, <1>3, <1>5 DEF InPlace
  <2>2. a \in 1..GlobalCells
    BY <1>2, <1>3, <2>1
  <2>3. QED
    BY <1>2, <1>3, <2>1, <2>2 DEF InUse
<1>6. CASE o.kind = "heap"
  <2>1. HeapStart <= a /\ a < StackLow
    BY <1>1, <1>2, <1>3, <1>6 DEF InPlace
  <2>2. QED
    BY <1>2, <1>3, <1>6, <2>1 DEF InUse
<1>7. CASE o.kind = "stack"
  <2>1. PICK i \in 1..Len(frames) : InFrame(o, frames[i])
    BY <1>1, <1>7 DEF InPlace
  <2>2. /\ frames[i].base \in Int /\ frames[i].locals \in Nat /\ frames[i].vla \in Nat
    BY TopFrame DEF HeapInv
  <2>3. o.start + o.size <= frames[i].base
    BY <1>1, <2>1, <2>2 DEF InFrame, Floor
  <2>4. frames[i].base <= StackHigh
    BY MainIsHighest
  <2>5. a < StackHigh
    BY <1>1, <1>2, <1>3, <2>2, <2>3, <2>4
  <2>6. o.start >= Bottom
    BY <1>7, AboveBottom DEF HeapInv
  <2>7. a >= Bottom
    BY <1>1, <1>2, <1>4, <2>6
  <2>8. a \in sp..StackHigh - 1 /\ 1 <= a
    BY <1>2, <1>3, <1>4, <2>5, <2>7
  <2>9. QED
    BY <1>3, <2>7, <2>8 DEF InUse
<1>8. QED
  BY <1>1, <1>5, <1>6, <1>7

(* What access grants are cells of one object that is there.               *)
LEMMA AccessIsInside ==
  ASSUME HeapInv, MainShape, NEW w, NEW n \in Nat, NEW a \in access(w, n), NEW x \in Cells(a, n)
  PROVE  /\ a \in Int
         /\ x \in 1..StackHigh - 1 /\ InUse(x)
         /\ x >= StackLow => x >= Bottom
         /\ \E o \in objects : o.live /\ x \in Cells(o.start, o.size)
<1>1. PICK c \in Usable(w) : /\ a = c.cursor /\ c.cursor >= c.lower /\ n <= c.upper - c.lower
                             /\ c.cursor - c.lower <= c.upper - c.lower - n
  BY DEF access
<1>2. c \in capabilities /\ \E o \in objects : o.id = c.object_id /\ o.live
  BY DEF Usable, find_capability, Live
<1>3. PICK o \in objects : o.id = c.object_id /\ o.live
  BY <1>2
<1>4. InBounds(c, o) /\ c.lower \in Int /\ c.upper \in Int /\ c.cursor \in Int
  BY <1>2, <1>3 DEF HeapInv, CapabilityShape
<1>5. o.start \in Int /\ o.size \in Nat
  BY ObjectFields DEF HeapInv
<1>6. x \in Int /\ a <= x /\ x < a + n /\ a \in Int
  BY <1>1, <1>4, CellsFrom
<1>7. x \in Cells(o.start, o.size)
  BY <1>1, <1>4, <1>5, <1>6, CellsFrom DEF InBounds
<1>8. QED
  BY <1>3, <1>6, <1>7, LiveCells

-----------------------------------------------------------------------------
(* What a step that pops n temporaries and pushes one does to memory.      *)
LEMMA ResultMemory ==
  ASSUME HeapInv, MemoryShape, MainShape, NEW n \in Nat, n <= Depth, NEW w \in Token \cup {Data},
         NEW fresh, NEW src, Result(n, w, fresh, src),
         \A x \in DOMAIN src : /\ x \in 1..StackHigh - 1 /\ src[x] \in 0..StackHigh - 1
                               /\ x >= StackLow => x >= sp + n
  PROVE  /\ MemoryShape' /\ sp' = sp + n - 1 /\ sp' \in StackLow..StackHigh - 1
         /\ UNCHANGED <<frames, ended>>
         /\ \A a \in init' : \/ a = sp' /\ mem'[a] = w
                             \/ a \in DOMAIN src /\ src[a] \in init /\ mem'[a] = mem[src[a]]
                             \/ a \in init \ (fresh \cup Cells(sp, n)) /\ mem'[a] = mem[a]
<1> DEFINE slot == sp + n - 1
<1>1. /\ slot >= StackLow /\ sp' = slot /\ UNCHANGED <<frames, ended>>
      /\ mem' = [a \in DOMAIN mem |-> IF a = slot THEN w
                                      ELSE IF a \in DOMAIN src THEN mem[src[a]] ELSE mem[a]]
      /\ init' = (init \ (Cells(sp, n) \cup fresh \cup DOMAIN src))
                   \cup {slot} \cup {a \in DOMAIN src : src[a] \in init}
  BY DEF Result
<1>2. /\ sp \in Int /\ Bottom \in Int /\ StackHigh \in Int /\ StackLow \in Int /\ StackLow > 0
      /\ Depth = Bottom - sp /\ Bottom <= StackHigh
  <2>1. StackHigh \in Int /\ StackLow \in Int /\ StackLow > 0
    BY Zones
  <2>2. sp \in Int
    BY DEF HeapInv, StackShape
  <2>3. QED
    BY <2>1, <2>2, BottomIsLow, TopFrame DEF HeapInv
<1>3. slot \in Int /\ slot \in StackLow..StackHigh - 1 /\ slot \in 1..StackHigh - 1
  BY <1>1, <1>2
<1>4. DOMAIN mem = 0..StackHigh - 1
  BY DEF MemoryShape
<1>5. mem' \in [0..StackHigh - 1 -> Token \cup {Data}] /\ mem'[0] = Data
  <2>1. \A a \in 0..StackHigh - 1 : mem[a] \in Token \cup {Data}
    BY DEF MemoryShape
  <2>2. \A a \in DOMAIN src : mem[src[a]] \in Token \cup {Data}
    BY <2>1
  <2>3. mem' \in [0..StackHigh - 1 -> Token \cup {Data}]
    BY <1>1, <1>4, <2>1, <2>2
  <2>4. 0 \in DOMAIN mem /\ 0 # slot /\ 0 \notin DOMAIN src
    BY <1>2, <1>3, <1>4
  <2>5. QED
    BY <1>1, <2>3, <2>4 DEF MemoryShape
<1>6. init' \subseteq 0..StackHigh - 1
  <2>1. \A a \in DOMAIN src : a \in 0..StackHigh - 1
    BY <1>2
  <2>2. slot \in 0..StackHigh - 1
    BY <1>2, <1>3
  <2>3. QED
    BY <1>1, <2>1, <2>2 DEF MemoryShape
<1>7. ASSUME NEW a \in init', a >= StackLow PROVE a >= sp'
  <2>1. a \in Int
    BY <1>2, <1>6
  <2>2. CASE a \in init /\ a \notin Cells(sp, n)
    <3>1. a >= sp
      BY <1>7, <2>2 DEF MemoryShape
    <3>2. QED
      BY <1>1, <1>2, <2>1, <2>2, <3>1 DEF Cells
  <2>3. CASE a = slot
    BY <1>1, <1>3, <2>3
  <2>4. CASE a \in DOMAIN src
    BY <1>1, <1>2, <1>7, <2>1, <2>4
  <2>5. QED
    BY <1>1, <2>2, <2>3, <2>4
<1>8. ASSUME NEW a \in init'
      PROVE  \/ a = sp' /\ mem'[a] = w
             \/ a \in DOMAIN src /\ src[a] \in init /\ mem'[a] = mem[src[a]]
             \/ a \in init \ (fresh \cup Cells(sp, n)) /\ mem'[a] = mem[a]
  <2>1. a \in DOMAIN mem
    BY <1>4, <1>6
  <2>2. mem'[a] = IF a = slot THEN w ELSE IF a \in DOMAIN src THEN mem[src[a]] ELSE mem[a]
    BY <1>1, <2>1
  <2>3. CASE a = slot
    BY <1>1, <2>2, <2>3
  <2>4. CASE a # slot /\ a \in DOMAIN src
    BY <1>1, <2>2, <2>4
  <2>5. CASE a # slot /\ a \notin DOMAIN src
    BY <1>1, <2>2, <2>5
  <2>6. QED
    BY <2>3, <2>4, <2>5
<1>9. MemoryShape'
  BY <1>5, <1>6, <1>7 DEF MemoryShape
<1>10. QED
  BY <1>1, <1>3, <1>8, <1>9

(* Every token in use after such a step is known if the word pushed is,    *)
(* what is copied is, and what stays is.                                   *)
LEMMA ResultKnown ==
  ASSUME HeapInv, MemoryShape, MainShape, NEW n \in Nat, n <= Depth, NEW w \in Token \cup {Data},
         NEW fresh, NEW src, Result(n, w, fresh, src), Data \notin Token,
         \A x \in DOMAIN src : /\ x \in 1..StackHigh - 1 /\ src[x] \in 0..StackHigh - 1
                               /\ x >= StackLow => x >= sp + n
                               /\ src[x] \in init /\ mem[src[x]] \in Token => KnownAfter(mem[src[x]]),
         w \in Token => KnownAfter(w),
         \A a \in init \ (fresh \cup Cells(sp, n)) :
           InUse(a)' /\ mem[a] \in Token => KnownAfter(mem[a])
  PROVE  MemoryShape' /\ KnownInv'
<1>1. /\ MemoryShape' /\ sp' = sp + n - 1 /\ sp' \in StackLow..StackHigh - 1
      /\ UNCHANGED <<frames, ended>>
      /\ \A a \in init' : \/ a = sp' /\ mem'[a] = w
                          \/ a \in DOMAIN src /\ src[a] \in init /\ mem'[a] = mem[src[a]]
                          \/ a \in init \ (fresh \cup Cells(sp, n)) /\ mem'[a] = mem[a]
  BY ResultMemory
<1>2. ASSUME NEW a \in init', InUse(a)', mem'[a] \in Token PROVE KnownAfter(mem'[a])
  <2>1. CASE a = sp' /\ mem'[a] = w
    BY <1>2, <2>1
  <2>2. CASE a \in DOMAIN src /\ src[a] \in init /\ mem'[a] = mem[src[a]]
    BY <1>2, <2>2
  <2>3. CASE a \in init \ (fresh \cup Cells(sp, n)) /\ mem'[a] = mem[a]
    BY <1>2, <2>3
  <2>4. QED
    BY <1>1, <2>1, <2>2, <2>3
<1>3. QED
  BY <1>1, <1>2, KnownNext

(* The word on top, and any other temporary, is known if it is a token.    *)
LEMMA QuietGc ==
  ASSUME HeapInv, GcInv, NEW n \in Nat, n <= Depth, NEW w \in Token \cup {Data}, NEW src,
         Result(n, w, {}, src), UNCHANGED <<objects, capabilities, issued>>,
         \A x \in DOMAIN src : /\ x \in 1..StackHigh - 1 /\ src[x] \in 0..StackHigh - 1
                               /\ x >= StackLow => x >= sp + n
                               /\ src[x] \in init => InUse(src[x]),
         w = Data \/ \E a \in init : InUse(a) /\ w = mem[a]
  PROVE  GcInv'
<1>1. /\ sp' \in Int /\ StackLow <= sp' /\ UNCHANGED <<frames, ended>>
  <2>1. /\ sp' = sp + n - 1 /\ sp' \in StackLow..StackHigh - 1 /\ UNCHANGED <<frames, ended>>
    BY ResultMemory DEF GcInv
  <2>2. QED
    BY <2>1, Zones
<1>2. TablesGrow
  BY <1>1 DEF TablesGrow, IssuedGrows, Live
<1>3. \A a \in init : InUse(a) /\ mem[a] \in Token => KnownAfter(mem[a])
  BY <1>2, StaysKnown DEF GcInv
<1>4. \A a \in init : InUse(a)' => InUse(a)
  BY <1>1, WasInUse DEF GcInv
<1>5. w \in Token => KnownAfter(w)
  BY <1>3, SafeHeapAssumption
<1>6. MemoryShape' /\ KnownInv'
  BY <1>3, <1>4, <1>5, ResultKnown, SafeHeapAssumption DEF GcInv
<1>7. MainShape'
  BY <1>1 DEF GcInv, MainShape
<1>8. QED
  BY <1>6, <1>7 DEF GcInv

(* Nothing but the stack pointer may move when the program is stopped.     *)
LEMMA FailGc ==
  ASSUME HeapInv, GcInv, UNCHANGED <<mem, sp, frames, objects, capabilities, issued, ended, init>>
  PROVE  GcInv'
  BY DEF GcInv, MemoryShape, MainShape, KnownInv, Known, InUse, Usable, find_capability, Live

-----------------------------------------------------------------------------
(* The collector keeps what it can find: the object of any usable token in *)
(* a cell that it scans, and the token's capability.                       *)
LEMMA Scanned ==
  ASSUME HeapInv, GcInv, NEW bottom \in Int, sp <= bottom,
         NEW root \in SUBSET {o \in objects : o.live /\ o.kind = "heap"},
         NEW a \in init, mem[a] \in Token,
         \/ a \in 1..GlobalCells
         \/ a \in bottom..StackHigh - 1
         \/ \E o \in Kept(bottom, root) : o.live /\ o.kind = "heap" /\ a \in Cells(o.start, o.size)
  PROVE  /\ mem[a] \in DOMAIN issued
         /\ \/ issued[mem[a]] \in ended
            \/ \E c \in CapsOf(Kept(bottom, root)) :
                 c.token = mem[a] /\ Live(Kept(bottom, root), c.object_id)
<1> DEFINE kept == Kept(bottom, root)
           heap == {o \in objects : o.live /\ o.kind = "heap"}
           roots == Targets(objects, RootCells(bottom)) \cup root
           Closed(S) == /\ roots \subseteq S
                        /\ \A o \in S : Targets(objects, Cells(o.start, o.size)) \subseteq S
<1>1. \A o \in objects : o.live /\ o.kind # "heap" => o \in kept
  BY DEF Kept
<1>2. \A o : o \in Marked(bottom, root) <=> o \in heap /\ \A S \in SUBSET heap : Closed(S) => o \in S
  BY DEF Marked
<1>3. /\ kept \subseteq objects
      /\ \A o \in kept : o.live /\ o.kind = "heap" => o \in Marked(bottom, root)
      /\ \A o \in Marked(bottom, root) : o \in kept
  BY <1>2 DEF Kept
<1>4. InUse(a)
  <2>1. CASE a \in bottom..StackHigh - 1
    <3>1. a \in sp..StackHigh - 1
      BY <2>1, Zones DEF HeapInv, StackShape
    <3>2. QED
      BY <3>1 DEF InUse
  <2>2. QED
    BY <1>3, <2>1 DEF InUse
<1>5. Known(mem[a])
  BY <1>4 DEF GcInv, KnownInv
<1>6. CASE issued[mem[a]] \in ended
  BY <1>5, <1>6 DEF Known
<1>7. CASE Usable(mem[a]) # {}
  <2>1. PICK c \in capabilities : c.token = mem[a] /\ Live(objects, c.object_id)
    BY <1>7 DEF Usable, find_capability
  <2>2. PICK o \in objects : o.id = c.object_id /\ o.live
    BY <2>1 DEF Live
  <2>3. ASSUME o.kind = "heap" PROVE o \in kept
    <3>1. \A cells : a \in cells => o \in Targets(objects, cells)
      BY <2>1, <2>2, <2>3 DEF Targets
    <3>2. ASSUME NEW S \in SUBSET heap, Closed(S) PROVE o \in S
      <4>1. CASE a \in RootCells(bottom)
        BY <3>1, <3>2, <4>1
      <4>2. CASE \E q \in kept : q.live /\ q.kind = "heap" /\ a \in Cells(q.start, q.size)
        <5>1. PICK q \in kept : q.live /\ q.kind = "heap" /\ a \in Cells(q.start, q.size)
          BY <4>2
        <5>2. q \in S
          BY <1>2, <1>3, <3>2, <5>1
        <5>3. QED
          BY <3>1, <3>2, <5>1, <5>2
      <4>3. CASE a \in 1..GlobalCells
        <5>1. PICK g \in objects : g.live /\ g.kind = "global" /\ g.start = 1 /\ g.size = GlobalCells
          BY DEF HeapInv, ObjectShape
        <5>2. a \in Cells(g.start, g.size)
          BY <4>3, <5>1, Zones, CellsFrom
        <5>3. a \in RootCells(bottom)
          BY <5>1, <5>2 DEF RootCells
        <5>4. QED
          BY <4>1, <5>3
      <4>4. CASE a \in bottom..StackHigh - 1
        <5>1. PICK m \in objects : m.live /\ m.kind = "stack" /\ m.start = StackHigh - 1 /\ m.size = 1
          BY DEF GcInv, MainShape
        <5>2. /\ a \in Int /\ bottom <= a /\ a <= StackHigh - 1 /\ StackHigh \in Int
              /\ StackLow > 0 /\ StackLow \in Int /\ StackLow <= bottom
          BY <4>4, Zones DEF HeapInv, StackShape
        <5>3. a \in Cell /\ a < m.start + m.size
          BY <5>1, <5>2 DEF Cell
        <5>4. a \in RootCells(bottom)
          BY <5>1, <5>2, <5>3 DEF RootCells, ActiveStack
        <5>5. QED
          BY <4>1, <5>4
      <4>5. QED
        BY <4>2, <4>3, <4>4
    <3>3. QED
      BY <1>2, <1>3, <2>2, <2>3, <3>2
  <2>4. o \in kept
    BY <1>1, <2>2, <2>3
  <2>5. Live(kept, c.object_id) /\ c \in CapsOf(kept)
    BY <2>2, <2>4 DEF Live, CapsOf
  <2>6. QED
    BY <1>5, <2>1, <2>5 DEF Known
<1>8. QED
  BY <1>5, <1>6, <1>7 DEF Known

(* A collection at the top of the stack.                                   *)
LEMMA CollectGc ==
  ASSUME HeapInv, GcInv, Collect
  PROVE  GcInv'
<1> DEFINE kept == Kept(sp, {})
<1>1. /\ objects' = kept /\ capabilities' = CapsOf(kept)
      /\ UNCHANGED <<mem, sp, frames, issued, ended, init>>
  BY DEF Collect, Collected
<1>2. kept \subseteq objects /\ \A o \in objects : o.live /\ o.kind # "heap" => o \in kept
  BY DEF Kept, Marked
<1>3. sp \in Int /\ sp <= sp /\ {} \in SUBSET {o \in objects : o.live /\ o.kind = "heap"}
  BY DEF HeapInv, StackShape
<1>4. ASSUME NEW a \in init', InUse(a)', mem'[a] \in Token PROVE KnownAfter(mem'[a])
  <2>1. a \in init /\ mem[a] \in Token /\ mem'[a] = mem[a]
    BY <1>1, <1>4
  <2>2. \/ a \in 1..GlobalCells
        \/ a \in sp..StackHigh - 1
        \/ \E o \in kept : o.live /\ o.kind = "heap" /\ a \in Cells(o.start, o.size)
    BY <1>1, <1>4 DEF InUse
  <2>3. /\ mem[a] \in DOMAIN issued
        /\ \/ issued[mem[a]] \in ended
           \/ \E c \in CapsOf(kept) : c.token = mem[a] /\ Live(kept, c.object_id)
    BY <1>3, <2>1, <2>2, Scanned
  <2> HIDE DEF kept
  <2>4. QED
    BY <1>1, <2>1, <2>3 DEF KnownAfter
<1>5. KnownInv'
  BY <1>4, KnownNext
<1>6. MemoryShape'
  BY <1>1 DEF GcInv, MemoryShape
<1>7. MainShape'
  BY <1>1, <1>2 DEF GcInv, MainShape
<1>8. QED
  BY <1>5, <1>6, <1>7 DEF GcInv

-----------------------------------------------------------------------------
(* The tables malloc goes on with, whether it has collected or not: the    *)
(* block it was given is there, and so is what the cells in use point to.  *)
LEMMA PreparedKeeps ==
  ASSUME HeapInv, GcInv, NEW n \in Nat, NEW size,
         NEW root \in SUBSET {o \in objects : o.live /\ o.kind = "heap"}
  PROVE  LET after == Prepared(n, size, root) IN
         /\ after.objects \subseteq objects /\ after.capabilities \subseteq capabilities
         /\ root \subseteq after.objects
         /\ \A o \in objects : o.live /\ o.kind # "heap" => o \in after.objects
         /\ \A a \in init :
              (/\ mem[a] \in Token
               /\ \/ a \in 1..GlobalCells
                  \/ a \in sp + n..StackHigh - 1
                  \/ \E o \in after.objects : o.live /\ o.kind = "heap" /\ a \in Cells(o.start, o.size))
              => /\ mem[a] \in DOMAIN issued
                 /\ \/ issued[mem[a]] \in ended
                    \/ \E c \in after.capabilities :
                         c.token = mem[a] /\ Live(after.objects, c.object_id)
<1> DEFINE after == Prepared(n, size, root)
           Found(a) == \/ a \in 1..GlobalCells
                       \/ a \in sp + n..StackHigh - 1
                       \/ \E o \in after.objects :
                            o.live /\ o.kind = "heap" /\ a \in Cells(o.start, o.size)
           Stays(a) == /\ mem[a] \in DOMAIN issued
                       /\ \/ issued[mem[a]] \in ended
                          \/ \E c \in after.capabilities :
                               c.token = mem[a] /\ Live(after.objects, c.object_id)
<1>1. sp \in Int /\ sp + n \in Int /\ sp <= sp + n
  BY DEF HeapInv, StackShape
<1>2. CASE after = Uncollected
  <2>1. after.objects = objects /\ after.capabilities = capabilities
    BY <1>2 DEF Uncollected
  <2>2. ASSUME NEW a \in init, mem[a] \in Token, Found(a) PROVE Stays(a)
    <3>1. a \in sp + n..StackHigh - 1 => a \in sp..StackHigh - 1
      BY <1>1, Zones
    <3>2. InUse(a)
      BY <2>1, <2>2, <3>1 DEF InUse
    <3>3. mem[a] \in DOMAIN issued /\ (issued[mem[a]] \in ended \/ Usable(mem[a]) # {})
      BY <2>2, <3>2 DEF GcInv, KnownInv, Known
    <3>4. QED
      BY <2>1, <3>3 DEF Usable, find_capability
  <2>3. QED
    BY <2>1, <2>2
<1>3. CASE after = Collected(sp + n, root)
  <2> DEFINE kept == Kept(sp + n, root)
  <2>1. after.objects = kept /\ after.capabilities = CapsOf(kept)
    BY <1>3 DEF Collected
  <2>2. /\ kept \subseteq objects /\ CapsOf(kept) \subseteq capabilities
        /\ root \subseteq kept
        /\ \A o \in objects : o.live /\ o.kind # "heap" => o \in kept
    BY DEF Kept, Marked, CapsOf
  <2>3. \A a \in init : mem[a] \in Token /\ Found(a) => Stays(a)
    BY <1>1, <2>1, Scanned
  <2>4. QED
    BY <2>1, <2>2, <2>3
<1>4. QED
  BY <1>2, <1>3 DEF Prepared

(* A cell in use after an allocation was found by the scan, unless it      *)
(* belongs to the new block.                                               *)
LEMMA FoundAfterResult ==
  ASSUME HeapInv, MemoryShape, NEW n \in Nat, NEW fresh, NEW a \in init \ (fresh \cup Cells(sp, n)),
         NEW objs, InUse(a)', sp' = sp + n - 1, StackLow <= sp',
         \A o \in objects' : o.live /\ o.kind = "heap" =>
           o \in objs \/ Cells(o.start, o.size) \subseteq fresh
  PROVE  \/ a \in 1..GlobalCells
         \/ a \in sp + n..StackHigh - 1
         \/ \E o \in objs : o.live /\ o.kind = "heap" /\ a \in Cells(o.start, o.size)
<1>1. /\ sp \in Int /\ StackLow \in Int /\ StackHigh \in Int /\ a \in Int
      /\ a >= StackLow => a >= sp
  BY Zones DEF HeapInv, StackShape, MemoryShape
<1>2. CASE a \in sp'..StackHigh - 1
  <2>1. a >= sp /\ a <= StackHigh - 1
    BY <1>1, <1>2
  <2>2. ~(a < sp + n)
    BY <1>1, <2>1 DEF Cells
  <2>3. QED
    BY <1>1, <2>1, <2>2
<1>3. QED
  BY <1>2 DEF InUse

(* What an allocation copies into the new block: zeros, or words of the    *)
(* block that is a root.                                                   *)
CopiesRoots(size, root, copied) ==
  \A start \in HeapAddress : \A x \in DOMAIN copied[start] :
    /\ x \in Cells(start, size)
    /\ \/ copied[start][x] = 0
       \/ \E o \in root : copied[start][x] \in Cells(o.start, o.size)

(* An allocation, whether it collects or not, finds room or not.           *)
LEMMA MallocGc ==
  ASSUME HeapInv, GcInv, NEW n \in Nat, n <= Depth, NEW size \in Nat,
         NEW root \in SUBSET {o \in objects : o.live /\ o.kind = "heap"}, NEW copied,
         CopiesRoots(size, root, copied), malloc(n, size, root, copied)
  PROVE  GcInv'
<1> DEFINE after == Prepared(n, size, root)
           Found(a) == \/ a \in 1..GlobalCells
                       \/ a \in sp + n..StackHigh - 1
                       \/ \E o \in after.objects :
                            o.live /\ o.kind = "heap" /\ a \in Cells(o.start, o.size)
           Stays(a) == /\ mem[a] \in DOMAIN issued
                       /\ \/ issued[mem[a]] \in ended
                          \/ \E c \in after.capabilities :
                               c.token = mem[a] /\ Live(after.objects, c.object_id)
<1>1. /\ after.objects \subseteq objects /\ after.capabilities \subseteq capabilities
      /\ root \subseteq after.objects
      /\ \A o \in objects : o.live /\ o.kind # "heap" => o \in after.objects
      /\ \A a \in init : mem[a] \in Token /\ Found(a) => Stays(a)
  BY PreparedKeeps
<1>2. ASSUME after.objects \subseteq objects', UNCHANGED frames PROVE MainShape'
  <2> HIDE DEF after
  <2>1. PICK m \in objects : /\ m.live /\ m.kind = "stack" /\ m.frame = StackHigh
                             /\ m.start = StackHigh - 1 /\ m.size = 1
    BY DEF GcInv, MainShape
  <2>2. m \in objects'
    BY <1>1, <1>2, <2>1
  <2>3. QED
    BY <1>2, <2>1, <2>2 DEF GcInv, MainShape
<1>3. ASSUME after.objects \subseteq objects', after.capabilities \subseteq capabilities',
             ended' = ended, IssuedGrows, NEW a \in init, Stays(a)
      PROVE KnownAfter(mem[a])
  <2> HIDE DEF after
  <2>1. mem[a] \in DOMAIN issued' /\ issued'[mem[a]] = issued[mem[a]]
    BY <1>3 DEF IssuedGrows
  <2>2. \A id : Live(after.objects, id) => Live(objects', id)
    BY <1>3 DEF Live
  <2>3. QED
    BY <1>3, <2>1, <2>2 DEF KnownAfter
<1>4. CASE /\ Replace(n, Data)
           /\ objects' = after.objects /\ capabilities' = after.capabilities
           /\ UNCHANGED issued
  <2> HIDE DEF after
  <2>1. Result(n, Data, {}, <<>>) /\ IssuedGrows
    BY <1>4 DEF Replace, IssuedGrows
  <2>2. /\ sp' = sp + n - 1 /\ sp' \in StackLow..StackHigh - 1 /\ UNCHANGED <<frames, ended>>
    <3>1. MemoryShape /\ MainShape
      BY DEF GcInv
    <3>2. Result(n, Data, {}, <<>>) /\ Data \in Token \cup {Data}
      BY <2>1
    <3>3. ASSUME NEW x \in DOMAIN <<>>
          PROVE  /\ x \in 1..StackHigh - 1 /\ <<>>[x] \in 0..StackHigh - 1
                 /\ x >= StackLow => x >= sp + n
      BY <3>3
    <3>4. QED
      BY <3>1, <3>2, <3>3, ResultMemory
  <2>3. ASSUME NEW a \in init \ ({} \cup Cells(sp, n)), InUse(a)', mem[a] \in Token
        PROVE KnownAfter(mem[a])
    <3>1. Found(a)
      BY <1>4, <2>2, <2>3, FoundAfterResult, Zones DEF GcInv
    <3>2. QED
      BY <1>1, <1>3, <1>4, <2>1, <2>2, <2>3, <3>1
  <2>4. MemoryShape' /\ KnownInv'
    BY <2>1, <2>3, ResultKnown, SafeHeapAssumption DEF GcInv
  <2>5. QED
    BY <1>2, <1>4, <2>2, <2>4 DEF GcInv
<1>5. ASSUME NEW start \in LibcRoom(after.objects, Native(size)), NEW t \in Token,
             objects' = after.objects \cup {NewObject(next_object_id, start, size, "heap", 0)},
             make_capability(after.capabilities, next_object_id, start, start + size, start, t),
             Result(n, t, Cells(start, Native(size)), copied[start])
      PROVE GcInv'
  <2> DEFINE new == NewObject(next_object_id, start, size, "heap", 0)
             fresh == Cells(start, Native(size))
             src == copied[start]
  <2> HIDE DEF after
  <2>1. /\ new.id = next_object_id /\ new.start = start /\ new.size = size /\ new.live
        /\ new \in objects' /\ objects' = after.objects \cup {new}
    BY <1>5 DEF NewObject
  <2>2. /\ start \in Int /\ HeapStart <= start /\ start + Native(size) <= StackLow
        /\ Native(size) \in Nat /\ size <= Native(size) /\ size \in Nat
        /\ HeapStart \in Int /\ StackLow \in Int /\ StackHigh \in Int /\ HeapStart >= 1 /\ StackLow <= StackHigh
        /\ Native(size) > 0
    BY NativeHolds, Zones DEF LibcRoom, Native
  <2>3. start \in HeapAddress
    BY <2>2 DEF HeapAddress
  <2>4. Cells(new.start, new.size) \subseteq fresh
    BY <2>1, <2>2, NativeHolds
  <2> HIDE DEF new
  <2>5. Live(objects', next_object_id)
    BY <2>1 DEF Live
  <2>6. KnownAfter(t) /\ IssuedGrows /\ after.capabilities \subseteq capabilities'
    BY <1>1, <1>5, <2>5, MadeKnown
  <2>7. ASSUME NEW x \in DOMAIN src
        PROVE  /\ x \in 1..StackHigh - 1 /\ ~(x >= StackLow)
               /\ src[x] \in 0..StackHigh - 1
               /\ src[x] = 0 \/ \E o \in root : src[x] \in Cells(o.start, o.size)
    <3>1. x \in Cells(start, size) /\ (src[x] = 0 \/ \E o \in root : src[x] \in Cells(o.start, o.size))
      BY <2>3 DEF CopiesRoots
    <3>2. x \in Int /\ start <= x /\ x < start + size
      BY <2>2, <3>1, CellsFrom
    <3>3. x \in 1..StackHigh - 1 /\ ~(x >= StackLow)
      BY <2>2, <3>2
    <3>4. ASSUME NEW o \in root, src[x] \in Cells(o.start, o.size) PROVE src[x] \in 0..StackHigh - 1
      <4>1. src[x] \in 1..StackHigh - 1
        BY <3>4, LiveCells DEF GcInv
      <4>2. QED
        BY <4>1
    <3>5. QED
      BY <2>2, <3>1, <3>3, <3>4
  <2>8. /\ sp' = sp + n - 1 /\ sp' \in StackLow..StackHigh - 1 /\ UNCHANGED <<frames, ended>>
    BY <1>5, <2>7, ResultMemory DEF GcInv
  <2>9. ASSUME NEW x \in DOMAIN src, src[x] \in init, mem[src[x]] \in Token
        PROVE KnownAfter(mem[src[x]])
    <3>1. src[x] # 0
      BY <2>9, SafeHeapAssumption DEF GcInv, MemoryShape
    <3>2. PICK o \in root : src[x] \in Cells(o.start, o.size)
      BY <2>7, <3>1
    <3>3. Found(src[x])
      BY <1>1, <3>2
    <3>4. QED
      BY <1>1, <1>3, <2>1, <2>6, <2>8, <2>9, <3>3
  <2>10. ASSUME NEW a \in init \ (fresh \cup Cells(sp, n)), InUse(a)', mem[a] \in Token
         PROVE KnownAfter(mem[a])
    <3>1. Found(a)
      BY <2>1, <2>2, <2>4, <2>8, <2>10, FoundAfterResult DEF GcInv
    <3>2. QED
      BY <1>1, <1>3, <2>1, <2>6, <2>8, <2>10, <3>1
  <2>11. MemoryShape' /\ KnownInv'
    BY <1>5, <2>6, <2>7, <2>9, <2>10, ResultKnown, SafeHeapAssumption DEF GcInv
  <2>12. QED
    BY <1>2, <2>1, <2>8, <2>11 DEF GcInv
<1>6. QED
  BY <1>4, <1>5 DEF malloc

-----------------------------------------------------------------------------
(* A token is made for an object that is there after the step, and what is *)
(* added to the objects is not of the heap.                                *)
LEMMA MakeGc ==
  ASSUME HeapInv, GcInv, NEW n \in Nat, n <= Depth, NEW id, NEW lower, NEW upper, NEW cursor,
         NEW t \in Token, make_capability(capabilities, id, lower, upper, cursor, t), Replace(n, t),
         objects \subseteq objects', Live(objects', id),
         \A o \in objects' : o.live /\ o.kind = "heap" => o \in objects
  PROVE  GcInv'
<1>1. KnownAfter(t) /\ IssuedGrows /\ capabilities \subseteq capabilities'
  BY MadeKnown
<1>2. Result(n, t, {}, <<>>)
  BY DEF Replace
<1>3. /\ sp' \in StackLow..StackHigh - 1 /\ UNCHANGED <<frames, ended>>
  BY <1>2, ResultMemory DEF GcInv
<1>4. sp' \in Int /\ StackLow <= sp'
  BY <1>3, Zones
<1>5. TablesGrow
  BY <1>1, <1>3 DEF TablesGrow, Live
<1>6. ASSUME NEW a \in init \ ({} \cup Cells(sp, n)), InUse(a)', mem[a] \in Token
      PROVE KnownAfter(mem[a])
  <2>1. InUse(a)
    BY <1>4, <1>6, WasInUse DEF GcInv
  <2>2. QED
    BY <1>5, <1>6, <2>1, StaysKnown DEF GcInv
<1>7. MemoryShape' /\ KnownInv'
  BY <1>1, <1>2, <1>6, ResultKnown, SafeHeapAssumption DEF GcInv
<1>8. MainShape'
  BY <1>3 DEF GcInv, MainShape
<1>9. QED
  BY <1>7, <1>8 DEF GcInv

(* A token is derived from one that is usable.                             *)
LEMMA DeriveGc ==
  ASSUME HeapInv, GcInv, NEW n \in Nat, n <= Depth, NEW id, NEW lower, NEW upper, NEW cursor,
         Live(objects, id), Derive(n, id, lower, upper, cursor)
  PROVE  GcInv'
<1>1. PICK t \in Token : /\ make_capability(capabilities, id, lower, upper, cursor, t)
                         /\ Replace(n, t) /\ UNCHANGED objects
  BY DEF Derive
<1>2. Live(objects', id)
  BY <1>1 DEF Live
<1>3. QED
  BY <1>1, <1>2, MakeGc

(* Narrowing and arithmetic.                                               *)
LEMMA PointerGc ==
  ASSUME HeapInv, GcInv, NEW n, Narrow(n) \/ Add(n)
  PROVE  GcInv'
<1>1. Depth > 0 /\ 1 <= Depth
  BY TopFrame DEF HeapInv, Narrow, Add
<1>2. ASSUME NEW c \in Usable(mem[sp]), NEW lower, NEW upper, NEW cursor,
             Derive(1, c.object_id, lower, upper, cursor)
      PROVE GcInv'
  <2>1. Live(objects, c.object_id)
    BY DEF Usable
  <2>2. QED
    BY <1>1, <1>2, <2>1, DeriveGc
<1>3. ASSUME Replace(1, Data), UNCHANGED heapVars PROVE GcInv'
  BY <1>1, <1>3, QuietGc DEF Replace, heapVars
<1>4. Fail => GcInv'
  BY FailGc DEF Fail, heapVars
<1>5. CASE Narrow(n)
  BY <1>2, <1>3, <1>4, <1>5 DEF Narrow, Narrowable
<1>6. CASE Add(n)
  BY <1>2, <1>3, <1>4, <1>6 DEF Add
<1>7. QED
  BY <1>5, <1>6

(* The addresses a program can take.                                       *)
LEMMA AddressGc ==
  ASSUME HeapInv, GcInv, AddressOfGlobal \/ AddressOfLocal \/ AddressOfVla
  PROVE  GcInv'
<1>1. PICK address, n : from_raw(address, n)
  BY DEF AddressOfGlobal, AddressOfLocal, AddressOfVla
<1>2. 0 \in Nat /\ 0 <= Depth
  BY TopFrame DEF HeapInv
<1>3. CASE Fail
  BY <1>3, FailGc DEF Fail, heapVars
<1>4. ASSUME NEW o \in find_object(address), Derive(0, o.id, address, address + n, address)
      PROVE GcInv'
  <2>1. Live(objects, o.id)
    BY DEF find_object, Live
  <2>2. QED
    BY <1>2, <1>4, <2>1, DeriveGc
<1>5. ASSUME objects' = objects \cup {NewObject(next_object_id, address, n, "stack", Top.base)},
             NEW t \in Token,
             make_capability(capabilities, next_object_id, address, address + n, address, t),
             Replace(0, t)
      PROVE GcInv'
  <2> DEFINE new == NewObject(next_object_id, address, n, "stack", Top.base)
  <2>1. new.id = next_object_id /\ new.live /\ new.kind = "stack"
    BY DEF NewObject
  <2>2. objects' = objects \cup {new}
    BY <1>5
  <2> HIDE DEF new
  <2>3. /\ Live(objects', next_object_id) /\ objects \subseteq objects'
        /\ \A o \in objects' : o.live /\ o.kind = "heap" => o \in objects
    BY <2>1, <2>2 DEF Live
  <2>4. QED
    BY <1>2, <1>5, <2>3, MakeGc
<1>6. QED
  BY <1>1, <1>3, <1>4, <1>5 DEF from_raw


-----------------------------------------------------------------------------
(* The cells of temporaries, and objects have none of them.                *)
Temporary(a) ==
  \/ a \in sp..Bottom - 1
  \/ \E i \in 1..Len(frames) - 1 : a \in frames[i + 1].base..Floor(frames[i]) - 1

(* The frames of callees end above the bottom of the running one.          *)
LEMMA CalleeAboveBottom ==
  ASSUME HeapInv, NEW i \in 1..Len(frames) - 1
  PROVE  /\ i \in 1..Len(frames) /\ i + 1 \in 1..Len(frames) /\ i \in Int
         /\ Floor(frames[i]) \in Int /\ frames[i + 1].base \in Int
         /\ Bottom \in Int /\ Top.base \in Int /\ Bottom <= Top.base /\ Top.base <= frames[i + 1].base
         /\ Top.base <= Floor(frames[i])
<1>1. Len(frames) \in Nat /\ i \in Int /\ i \in 1..Len(frames) /\ i + 1 \in 1..Len(frames)
      /\ i # Len(frames)
  BY DEF HeapInv, StackShape
<1>2. /\ Floor(frames[i]) \in Int /\ frames[i + 1].base \in Int /\ Floor(frames[i + 1]) \in Int
      /\ frames[i + 1].locals \in Nat /\ frames[i + 1].vla \in Nat
      /\ Top.base <= Floor(frames[i])
      /\ i + 1 # Len(frames) => Top.base <= Floor(frames[i + 1])
  BY <1>1, TopFrame DEF HeapInv
<1>3. /\ Top = frames[Len(frames)] /\ Top.base \in Int /\ Bottom = Floor(Top) /\ Bottom \in Int
      /\ Top.locals \in Nat /\ Top.vla \in Nat
  BY TopFrame DEF HeapInv
<1>4. Bottom <= Top.base /\ Floor(frames[i + 1]) <= frames[i + 1].base
  <2>1. \A f : Floor(f) = f.base - f.locals - f.vla
    BY DEF Floor
  <2>2. Bottom <= Top.base
    BY <1>3, <2>1
  <2>3. Floor(frames[i + 1]) <= frames[i + 1].base
    BY <1>2, <2>1
  <2>4. QED
    BY <2>2, <2>3
<1>5. Top.base <= frames[i + 1].base
  <2>1. CASE i + 1 = Len(frames)
    BY <1>2, <1>3, <2>1
  <2>2. CASE i + 1 # Len(frames)
    BY <1>2, <1>3, <1>4, <2>2
  <2>3. QED
    BY <2>1, <2>2
<1>6. QED
  BY <1>1, <1>2, <1>3, <1>4, <1>5

(* Temporaries lie in the stack.                                           *)
LEMMA LowCells ==
  ASSUME HeapInv, NEW a \in Int, a < StackLow
  PROVE  ~Temporary(a)
<1>1. sp \in Int /\ StackLow \in Int /\ StackLow <= sp /\ Bottom \in Int /\ sp <= Bottom
  BY Zones, TopFrame DEF HeapInv, StackShape
<1>2. a \notin sp..Bottom - 1
  BY <1>1
<1>3. ASSUME NEW i \in 1..Len(frames) - 1 PROVE a \notin frames[i + 1].base..Floor(frames[i]) - 1
  <2>1. /\ frames[i + 1].base \in Int /\ Top.base \in Int /\ Bottom <= Top.base
        /\ Top.base <= frames[i + 1].base
    BY CalleeAboveBottom
  <2>2. a < frames[i + 1].base
    BY <1>1, <2>1
  <2>3. QED
    BY <2>1, <2>2
<1>4. QED
  BY <1>2, <1>3 DEF Temporary

(* No object has the cell of a temporary.                                  *)
LEMMA ObjectsHoldNoTemporary ==
  ASSUME HeapInv, NEW o \in objects, o.live, NEW a \in Cells(o.start, o.size)
  PROVE  ~Temporary(a)
<1>1. /\ o.start \in Int /\ o.size \in Nat /\ InPlace(o) /\ o.kind \in {"global", "stack", "heap"}
  BY ObjectFields DEF HeapInv
<1>2. a \in Int /\ o.start <= a /\ a < o.start + o.size
  BY <1>1, CellsFrom
<1>3. /\ sp \in Int /\ StackLow \in Int /\ StackLow <= sp /\ Bottom \in Int /\ sp <= Bottom
      /\ HeapStart \in Int /\ HeapStart <= StackLow
  BY Zones, TopFrame DEF HeapInv, StackShape
<1>4. CASE o.kind # "stack"
  <2>1. a < StackLow
    BY <1>1, <1>2, <1>3, <1>4 DEF InPlace
  <2>2. QED
    BY <1>2, <2>1, LowCells
<1>5. CASE o.kind = "stack"
  <2>1. PICK j \in 1..Len(frames) : InFrame(o, frames[j])
    BY <1>1, <1>5 DEF InPlace
  <2>2. /\ frames[j].base \in Int /\ frames[j].locals \in Nat /\ frames[j].vla \in Nat
        /\ Floor(frames[j]) \in Int /\ j \in Int /\ Len(frames) \in Nat
    BY TopFrame DEF HeapInv, StackShape
  <2>3. Floor(frames[j]) <= a /\ a < frames[j].base
    <3>1. Floor(frames[j]) = frames[j].base - frames[j].locals - frames[j].vla
      BY DEF Floor
    <3>2. Floor(frames[j]) <= o.start /\ o.start + o.size <= frames[j].base
      BY <1>1, <2>1, <2>2, <3>1 DEF InFrame
    <3>3. QED
      BY <1>1, <1>2, <2>2, <3>2
  <2>4. a >= Bottom
    BY <1>2, <1>3, <1>5, <1>1, AboveBottom DEF HeapInv
  <2>5. a \notin sp..Bottom - 1
    BY <1>2, <1>3, <2>4
  <2>6. ASSUME NEW i \in 1..Len(frames) - 1 PROVE a \notin frames[i + 1].base..Floor(frames[i]) - 1
    <3>1. /\ i \in 1..Len(frames) /\ i + 1 \in 1..Len(frames) /\ i \in Int
          /\ Floor(frames[i]) \in Int /\ frames[i + 1].base \in Int
      BY CalleeAboveBottom
    <3>2. CASE j <= i
      <4>1. Floor(frames[i]) <= Floor(frames[j])
        <5>1. CASE j = i
          BY <2>2, <5>1
        <5>2. CASE j < i
          <6>1. frames[i].base <= Floor(frames[j])
            BY <3>1, <5>2 DEF HeapInv, StackShape
          <6>2. Floor(frames[i]) <= frames[i].base /\ frames[i].base \in Int
            <7>1. frames[i].base \in Int /\ frames[i].locals \in Nat /\ frames[i].vla \in Nat
              BY <3>1, TopFrame DEF HeapInv
            <7>2. QED
              BY <7>1 DEF Floor
          <6>3. QED
            BY <2>2, <3>1, <6>1, <6>2
        <5>3. QED
          BY <2>2, <3>1, <3>2, <5>1, <5>2
      <4>2. QED
        BY <1>2, <2>2, <2>3, <3>1, <4>1
    <3>3. CASE j > i
      <4>1. frames[j].base <= frames[i + 1].base
        <5>1. CASE j = i + 1
          BY <2>2, <5>1
        <5>2. CASE j > i + 1
          <6>1. frames[j].base <= Floor(frames[i + 1])
            BY <3>1, <5>2 DEF HeapInv, StackShape
          <6>2. Floor(frames[i + 1]) <= frames[i + 1].base /\ Floor(frames[i + 1]) \in Int
            <7>1. frames[i + 1].base \in Int /\ frames[i + 1].locals \in Nat /\ frames[i + 1].vla \in Nat
              BY <3>1, TopFrame DEF HeapInv
            <7>2. QED
              BY <7>1 DEF Floor
          <6>3. QED
            BY <2>2, <3>1, <6>1, <6>2
        <5>3. QED
          BY <2>2, <3>1, <3>3, <5>1, <5>2
      <4>2. QED
        BY <1>2, <2>2, <2>3, <3>1, <4>1
    <3>4. QED
      BY <2>2, <3>1, <3>2, <3>3
  <2>7. QED
    BY <2>5, <2>6 DEF Temporary
<1>6. QED
  BY <1>4, <1>5

(* Temporaries are popped and one is pushed; the other cells that are      *)
(* written are no temporaries.                                             *)
LEMMA ResultTemporaries ==
  ASSUME HeapInv, TemporariesWritten, NEW n \in Nat, n <= Depth, NEW w, NEW fresh, NEW src,
         Result(n, w, fresh, src), \A x \in fresh \cup DOMAIN src : ~Temporary(x)
  PROVE  TemporariesWritten'
<1>1. /\ sp' = sp + n - 1 /\ UNCHANGED frames
      /\ init' = (init \ (Cells(sp, n) \cup fresh \cup DOMAIN src))
                   \cup {sp + n - 1} \cup {a \in DOMAIN src : src[a] \in init}
  BY DEF Result
<1>2. sp \in Int /\ Bottom \in Int /\ Depth = Bottom - sp /\ sp <= Bottom /\ Bottom' = Bottom
  BY <1>1, TopFrame DEF HeapInv, StackShape, Bottom, Top
<1>3. ASSUME NEW a \in Int, a >= sp + n, Temporary(a) PROVE a \in init'
  <2>1. a \in init
    BY <1>3 DEF Temporary, TemporariesWritten
  <2>2. a \notin Cells(sp, n)
    BY <1>2, <1>3 DEF Cells
  <2>3. QED
    BY <1>1, <1>3, <2>1, <2>2
<1>4. ASSUME NEW a \in sp'..Bottom - 1 PROVE a \in init'
  <2>1. CASE a = sp + n - 1
    BY <1>1, <2>1
  <2>2. CASE a # sp + n - 1
    <3>1. a \in Int /\ a >= sp + n /\ a \in sp..Bottom - 1
      BY <1>1, <1>2, <1>4, <2>2
    <3>2. QED
      BY <1>3, <3>1 DEF Temporary
  <2>3. QED
    BY <2>1, <2>2
<1>5. ASSUME NEW i \in 1..Len(frames) - 1, NEW a \in frames[i + 1].base..Floor(frames[i]) - 1
      PROVE a \in init'
  <2>1. a \in Int /\ a >= sp + n
    BY <1>2, <1>5, CalleeAboveBottom
  <2>2. QED
    BY <1>3, <1>5, <2>1 DEF Temporary
<1>6. QED
  BY <1>1, <1>2, <1>4, <1>5 DEF TemporariesWritten, Floor

(* Steps that leave the stack alone.                                       *)
LEMMA StillTemporaries ==
  ASSUME TemporariesWritten, UNCHANGED <<sp, frames, init>>
  PROVE  TemporariesWritten'
  BY DEF TemporariesWritten, Bottom, Top, Floor

(* Operands that are popped and replaced.                                  *)
LEMMA ReplaceTemporaries ==
  ASSUME HeapInv, TemporariesWritten, NEW n \in Nat, n <= Depth, NEW w, Replace(n, w)
  PROVE  TemporariesWritten'
  BY ResultTemporaries DEF Replace

(* Temporaries through expressions and allocations.                        *)
LEMMA ExpressionTemporaries ==
  ASSUME HeapInv, MainShape, TemporariesWritten, NEW n \in Nat, NEW ordered \in BOOLEAN,
         \/ PushData \/ Pop \/ Load \/ Store \/ ToInteger \/ Free
         \/ Compare(ordered) \/ Memcpy(n)
  PROVE  TemporariesWritten'
<1>1. /\ Depth \in Nat /\ Depth = Bottom - sp /\ Bottom \in Int /\ sp \in Int
  BY TopFrame DEF HeapInv, StackShape
<1>2. ASSUME NEW k \in {0, 1, 2}, k <= Depth, NEW w, Replace(k, w) PROVE TemporariesWritten'
  BY <1>2, ReplaceTemporaries
<1>3. Fail => TemporariesWritten'
  BY StillTemporaries DEF Fail
<1>4. CASE PushData \/ ToInteger \/ Free \/ Compare(ordered) \/ Load
  BY <1>1, <1>2, <1>3, <1>4 DEF PushData, ToInteger, Free, Compare, Load
<1>5. CASE Pop
  <2>1. sp' = sp + 1 /\ init' = init \ {sp} /\ frames' = frames /\ Bottom' = Bottom
    BY <1>5 DEF Pop, Bottom, Top
  <2>2. sp'..Bottom' - 1 \subseteq init'
    BY <1>1, <2>1 DEF TemporariesWritten
  <2>3. ASSUME NEW i \in 1..Len(frames) - 1, NEW a \in frames[i + 1].base..Floor(frames[i]) - 1
        PROVE a \in init'
    <3>1. a \in init
      BY DEF TemporariesWritten
    <3>2. /\ frames[i + 1].base \in Int /\ Top.base \in Int /\ Bottom <= Top.base
          /\ Top.base <= frames[i + 1].base /\ Floor(frames[i]) \in Int
      BY CalleeAboveBottom
    <3>3. a >= Bottom /\ a \in Int
      BY <1>1, <3>2
    <3>4. Depth > 0
      BY <1>5 DEF Pop
    <3>5. a # sp
      BY <1>1, <3>3, <3>4
    <3>6. QED
      BY <2>1, <3>1, <3>5
  <2>4. QED
    BY <2>1, <2>2, <2>3 DEF TemporariesWritten, Floor
<1>6. CASE Store
  <2>1. ASSUME Depth > 1, NEW a \in access(mem[sp + 1], 1), Result(2, mem[sp], {}, [x \in {a} |-> sp])
        PROVE TemporariesWritten'
    <3>1. a \in Int /\ a \in Cells(a, 1)
      <4>1. PICK c \in Usable(mem[sp + 1]) : a = c.cursor
        BY DEF access
      <4>2. a \in Int
        BY <4>1 DEF Usable, find_capability, HeapInv, CapabilityShape
      <4>3. QED
        BY <4>2, CellsFrom
    <3>2. ~Temporary(a)
      BY <3>1, AccessIsInside, ObjectsHoldNoTemporary
    <3>3. QED
      BY <1>1, <2>1, <3>2, ResultTemporaries
  <2>2. QED
    BY <1>3, <1>6, <2>1 DEF Store
<1>7. CASE Memcpy(n)
  <2>1. ASSUME Depth > 1, NEW f, NEW d \in access(mem[sp + 1], n),
               Result(2, mem[sp + 1], {}, [x \in Cells(d, n) |-> f + x - d])
        PROVE TemporariesWritten'
    <3>1. \A x \in Cells(d, n) : ~Temporary(x)
      BY AccessIsInside, ObjectsHoldNoTemporary
    <3>2. QED
      BY <1>1, <2>1, <3>1, ResultTemporaries
  <2>2. CASE Depth > 1 /\ Replace(2, mem[sp + 1])
    BY <1>1, <1>2, <2>2
  <2>3. QED
    BY <1>3, <1>7, <2>1, <2>2 DEF Memcpy
<1>8. QED
  BY <1>4, <1>5, <1>6, <1>7

(* Temporaries through an allocation: a new block is not in the stack.     *)
LEMMA MallocTemporaries ==
  ASSUME HeapInv, TemporariesWritten, NEW n \in Nat, n <= Depth, NEW size \in Nat,
         NEW root, NEW copied, CopiesRoots(size, root, copied), malloc(n, size, root, copied)
  PROVE  TemporariesWritten'
<1>1. CASE Replace(n, Data)
  BY <1>1, ReplaceTemporaries
<1>2. ASSUME NEW objs, NEW start \in LibcRoom(objs, Native(size)), NEW t,
             Result(n, t, Cells(start, Native(size)), copied[start])
      PROVE TemporariesWritten'
  <2>1. /\ start \in Int /\ HeapStart <= start /\ start + Native(size) <= StackLow
        /\ Native(size) \in Nat /\ Native(size) > 0 /\ size <= Native(size)
        /\ HeapStart \in Int /\ StackLow \in Int
    BY NativeHolds, Zones DEF LibcRoom, Native
  <2>2. start \in HeapAddress
    BY <2>1 DEF HeapAddress
  <2>3. \A x \in DOMAIN copied[start] : x \in Cells(start, Native(size))
    <3>1. Cells(start, size) \subseteq Cells(start, Native(size))
      BY <2>1, NativeHolds
    <3>2. QED
      BY <2>2, <3>1 DEF CopiesRoots
  <2>4. \A x \in Cells(start, Native(size)) : x \in Int /\ x < StackLow
    BY <2>1, CellsFrom
  <2>5. \A x \in Cells(start, Native(size)) \cup DOMAIN copied[start] : ~Temporary(x)
    BY <2>3, <2>4, LowCells
  <2>6. QED
    BY <1>2, <2>5, ResultTemporaries
<1>3. QED
  BY <1>1, <1>2 DEF malloc

(* Temporaries through steps that make a token.                            *)
LEMMA PointerTemporaries ==
  ASSUME HeapInv, TemporariesWritten, NEW n, Narrow(n) \/ Add(n)
  PROVE  TemporariesWritten'
<1>1. Depth \in Nat /\ Depth > 0
  BY TopFrame DEF HeapInv, Narrow, Add
<1>2. \/ Fail
      \/ \E w : Replace(1, w)
  BY DEF Narrow, Add, Derive
<1>3. QED
  BY <1>1, <1>2, ReplaceTemporaries, StillTemporaries DEF Fail

(* The same when it is for a declared object.                              *)
LEMMA AddressTemporaries ==
  ASSUME HeapInv, TemporariesWritten, AddressOfGlobal \/ AddressOfLocal \/ AddressOfVla
  PROVE  TemporariesWritten'
<1>1. Depth \in Nat /\ 0 <= Depth
  BY TopFrame DEF HeapInv
<1>2. PICK address, n : from_raw(address, n)
  BY DEF AddressOfGlobal, AddressOfLocal, AddressOfVla
<1>3. \/ Fail
      \/ \E w : Replace(0, w)
  BY <1>2 DEF from_raw, Derive
<1>4. QED
  BY <1>1, <1>3, ReplaceTemporaries, StillTemporaries DEF Fail

(* The allocation functions; realloc's root is the block it was given.     *)
LEMMA AllocateGc ==
  ASSUME HeapInv, GcInv, TemporariesWritten, NEW size \in Nat, Malloc(size) \/ Calloc(size) \/ Realloc(size)
  PROVE  GcInv' /\ TemporariesWritten'
<1>1. Depth \in Nat /\ 0 <= Depth
  BY TopFrame DEF HeapInv
<1>2. ASSUME NEW old \in objects, old.live, old.kind = "heap"
      PROVE CopiesRoots(size, ReallocRoot(old), Copied(old, size))
  <2>1. old.start \in Int /\ old.size \in Nat
    BY ObjectFields DEF HeapInv
  <2> DEFINE n == IF old.size < size THEN old.size ELSE size
  <2>2. n \in Nat /\ n <= size /\ n <= old.size
    BY <2>1
  <2>3. ASSUME NEW start \in HeapAddress, NEW x \in DOMAIN Copied(old, size)[start]
        PROVE /\ x \in Cells(start, size)
              /\ Copied(old, size)[start][x] \in Cells(old.start, old.size)
    <3>1. start \in Int
      BY Zones DEF HeapAddress
    <3>2. Copied(old, size)[start] = [y \in Cells(start, n) |-> old.start + y - start]
      BY DEF Copied
    <3>3. x \in Cells(start, n) /\ Copied(old, size)[start][x] = old.start + x - start
      BY <3>2
    <3> HIDE DEF n
    <3>4. x \in Int /\ start <= x /\ x < start + n
      BY <2>2, <3>1, <3>3, CellsFrom
    <3>5. x \in Cells(start, size)
      BY <2>2, <3>1, <3>4, CellsFrom
    <3>6. old.start + x - start \in Cells(old.start, old.size)
      BY <2>1, <2>2, <3>1, <3>4, CellsFrom
    <3>7. QED
      BY <3>3, <3>5, <3>6
  <2>4. QED
    BY <2>3 DEF CopiesRoots, ReallocRoot
<1>3. CopiesRoots(size, {}, NothingCopied)
  BY DEF CopiesRoots, NothingCopied
<1>4. CopiesRoots(size, {}, [start \in HeapAddress |-> [x \in Cells(start, size) |-> 0]])
  BY DEF CopiesRoots
<1>5. {} \in SUBSET {o \in objects : o.live /\ o.kind = "heap"}
  OBVIOUS
<1>6. CASE Malloc(size)
  BY <1>1, <1>3, <1>5, <1>6, MallocGc, MallocTemporaries DEF Malloc
<1>7. CASE Calloc(size)
  BY <1>1, <1>4, <1>5, <1>7, MallocGc, MallocTemporaries DEF Calloc
<1>8. CASE Realloc(size)
  <2>1. Depth > 0 /\ 1 <= Depth
    BY <1>1, <1>8 DEF Realloc
  <2>2. CASE malloc(1, size, {}, NothingCopied)
    BY <1>3, <1>5, <2>1, <2>2, MallocGc, MallocTemporaries
  <2>3. CASE Fail
    BY <2>3, FailGc, StillTemporaries DEF Fail, heapVars
  <2>4. CASE Replace(1, Data) /\ UNCHANGED heapVars
    BY <2>1, <2>4, QuietGc, ReplaceTemporaries DEF Replace, heapVars
  <2>5. ASSUME NEW old \in heap_object(mem[sp]), malloc(1, size, ReallocRoot(old), Copied(old, size))
        PROVE GcInv' /\ TemporariesWritten'
    <3>1. old \in objects /\ old.live /\ old.kind = "heap"
      BY DEF heap_object
    <3>2. ReallocRoot(old) \in SUBSET {o \in objects : o.live /\ o.kind = "heap"}
      BY <3>1 DEF ReallocRoot
    <3>3. QED
      BY <1>2, <2>1, <2>5, <3>1, <3>2, MallocGc, MallocTemporaries
  <2>6. QED
    BY <1>8, <2>2, <2>3, <2>4, <2>5 DEF Realloc
<1>9. QED
  BY <1>6, <1>7, <1>8

-----------------------------------------------------------------------------
(* A temporary is in use and was written.                                  *)
LEMMA Temporaries ==
  ASSUME HeapInv, GcInv, TemporariesWritten, NEW i \in {0, 1}, i < Depth
  PROVE  /\ sp + i \in init /\ InUse(sp + i) /\ sp + i \in 0..StackHigh - 1
         /\ mem[sp + i] \in Token \cup {Data}
<1>1. /\ sp \in Int /\ Bottom \in Int /\ Depth = Bottom - sp /\ StackHigh \in Int /\ Bottom <= StackHigh
      /\ StackLow <= sp /\ StackLow \in Int /\ 0 <= StackLow
  BY TopFrame, BottomIsLow, Zones DEF GcInv, HeapInv, StackShape
<1>2. sp + i \in sp..StackHigh - 1 /\ sp + i \in 0..StackHigh - 1 /\ sp + i \in sp..Bottom - 1
  BY <1>1
<1>3. QED
  BY <1>2 DEF InUse, GcInv, MemoryShape, TemporariesWritten

(* Expressions that leave the tables alone: what they push or copy was in  *)
(* a cell in use.                                                          *)
LEMMA ExpressionGc ==
  ASSUME HeapInv, GcInv, TemporariesWritten, NEW n \in Nat, NEW ordered \in BOOLEAN,
         \/ PushData \/ Pop \/ Load \/ Store \/ ToInteger \/ Free
         \/ Compare(ordered) \/ Memcpy(n)
  PROVE  GcInv'
<1> USE DEF heapVars
<1>1. /\ Depth \in Nat /\ Depth = Bottom - sp /\ Bottom \in Int /\ sp \in Int /\ StackLow <= sp
      /\ StackLow \in Int /\ StackHigh \in Int /\ Bottom <= StackHigh /\ StackLow > 0
  BY TopFrame, BottomIsLow, Zones DEF GcInv, HeapInv, StackShape
<1>2. ASSUME NEW k \in {0, 1, 2}, k <= Depth, Replace(k, Data), UNCHANGED heapVars PROVE GcInv'
  <2>1. k \in Nat /\ Result(k, Data, {}, <<>>)
    BY <1>2 DEF Replace
  <2>2. UNCHANGED <<objects, capabilities, issued>>
    BY <1>2
  <2>3. PICK src : src = <<>>
    OBVIOUS
  <2>4. DOMAIN src = {} /\ Result(k, Data, {}, src)
    BY <2>1, <2>3
  <2>5. QED
    BY <1>2, <2>1, <2>2, <2>4, QuietGc
<1>3. Fail => GcInv'
  BY FailGc DEF Fail
<1>4. CASE PushData \/ ToInteger \/ Free \/ Compare(ordered)
  BY <1>1, <1>2, <1>3, <1>4 DEF PushData, ToInteger, Free, Compare
<1>5. CASE Pop
  <2>1. /\ sp' = sp + 1 /\ init' = init \ {sp} /\ Depth > 0
        /\ UNCHANGED <<mem, frames, objects, capabilities, issued, ended>>
    BY <1>5 DEF Pop
  <2>2. \A a \in init' : a \in Int /\ (a >= StackLow => a >= sp')
    BY <1>1, <2>1 DEF GcInv, MemoryShape
  <2>3. MemoryShape'
    BY <2>1, <2>2 DEF GcInv, MemoryShape
  <2>4. MainShape'
    BY <2>1 DEF GcInv, MainShape
  <2>5. \A a : InUse(a)' => InUse(a)
    BY <1>1, <2>1 DEF InUse
  <2>6. \A t : Known(t)' <=> Known(t)
    BY <2>1 DEF Known, Usable, find_capability, Live
  <2>7. KnownInv'
    BY <2>1, <2>5, <2>6 DEF GcInv, KnownInv
  <2>8. QED
    BY <2>3, <2>4, <2>7 DEF GcInv
<1>6. ASSUME NEW k \in {0, 1, 2}, k <= Depth, NEW b \in init, InUse(b), NEW src,
             \A x \in DOMAIN src : /\ x \in 1..StackHigh - 1 /\ src[x] \in 0..StackHigh - 1
                                   /\ x >= StackLow => x >= sp + k
                                   /\ src[x] \in init => InUse(src[x]),
             Result(k, mem[b], {}, src), UNCHANGED heapVars
      PROVE GcInv'
  <2>1. mem[b] \in Token \cup {Data}
    BY DEF GcInv, MemoryShape
  <2>2. PICK w \in Token \cup {Data} : w = mem[b]
    BY <2>1
  <2>3. Result(k, w, {}, src)
    BY <1>6, <2>2
  <2>4. w = Data \/ \E a \in init : InUse(a) /\ w = mem[a]
    BY <1>6, <2>2
  <2>5. k \in Nat
    OBVIOUS
  <2>6. QED
    BY <1>6, <2>3, <2>4, <2>5, QuietGc
<1>7. ASSUME NEW w, NEW a \in access(w, 1) PROVE a \in Int /\ a \in Cells(a, 1) /\ InUse(a)
  <2>1. PICK c \in Usable(w) : a = c.cursor
    BY DEF access
  <2>2. a \in Int
    BY <2>1 DEF Usable, find_capability, HeapInv, CapabilityShape
  <2>3. a \in Cells(a, 1)
    BY <2>2, CellsFrom
  <2>4. QED
    BY <2>2, <2>3, AccessIsInside DEF GcInv
<1>8. CASE Load
  <2>1. ASSUME NEW a \in access(mem[sp], 1) \cap init, Depth > 0, Replace(1, mem[a]), UNCHANGED heapVars
        PROVE GcInv'
    <3>1. 1 <= Depth /\ Result(1, mem[a], {}, <<>>) /\ InUse(a)
      BY <1>1, <1>7, <2>1 DEF Replace
    <3>2. QED
      BY <1>6, <2>1, <3>1
  <2>2. QED
    BY <1>3, <1>8, <2>1 DEF Load
<1>9. CASE Store
  <2>1. ASSUME NEW a \in access(mem[sp + 1], 1), Depth > 1,
               Result(2, mem[sp], {}, [x \in {a} |-> sp]), UNCHANGED heapVars
        PROVE GcInv'
    <3>1. /\ 2 <= Depth /\ sp + 2 <= Bottom
      BY <1>1, <2>1
    <3>2. sp + 0 \in init /\ InUse(sp + 0) /\ sp + 0 \in 0..StackHigh - 1
      BY <1>1, <2>1, Temporaries
    <3>3. sp \in init /\ InUse(sp) /\ sp \in 0..StackHigh - 1
      BY <1>1, <3>2
    <3>4. a \in Int /\ a \in 1..StackHigh - 1 /\ (a >= StackLow => a >= Bottom)
      BY <1>7, AccessIsInside DEF GcInv
    <3>5. a >= StackLow => a >= sp + 2
      BY <1>1, <3>1, <3>4
    <3>6. QED
      BY <1>6, <2>1, <3>1, <3>3, <3>4, <3>5
  <2>2. QED
    BY <1>3, <1>9, <2>1 DEF Store
<1>10. CASE Memcpy(n)
  <2>0. ASSUME Depth > 1 PROVE 2 <= Depth /\ sp + 2 <= Bottom /\ sp + 1 \in init /\ InUse(sp + 1)
    BY <1>1, <2>0, Temporaries
  <2>1. ASSUME NEW f \in access(mem[sp], n), NEW d \in access(mem[sp + 1], n), Depth > 1,
               Result(2, mem[sp + 1], {}, [x \in Cells(d, n) |-> f + x - d]), UNCHANGED heapVars
        PROVE GcInv'
    <3> DEFINE src == [x \in Cells(d, n) |-> f + x - d]
    <3>1. ASSUME NEW x \in Cells(d, n)
          PROVE  /\ x \in 1..StackHigh - 1 /\ (x >= StackLow => x >= sp + 2)
                 /\ f + x - d \in 0..StackHigh - 1 /\ InUse(f + x - d)
      <4>1. d \in Int /\ x \in 1..StackHigh - 1 /\ (x >= StackLow => x >= Bottom)
        BY AccessIsInside DEF GcInv
      <4>2. x \in Int /\ d <= x /\ x < d + n
        BY <4>1, CellsFrom
      <4>3. f \in Int
        <5>1. PICK c \in Usable(mem[sp]) : f = c.cursor
          BY DEF access
        <5>2. QED
          BY <5>1 DEF Usable, find_capability, HeapInv, CapabilityShape
      <4>4. f + x - d \in Cells(f, n)
        BY <4>1, <4>2, <4>3, CellsFrom
      <4>5. f + x - d \in 1..StackHigh - 1 /\ InUse(f + x - d)
        BY <4>4, AccessIsInside DEF GcInv
      <4>6. x >= StackLow => x >= sp + 2
        BY <1>1, <2>0, <2>1, <4>1, <4>2
      <4>7. QED
        BY <4>1, <4>5, <4>6
    <3>2. DOMAIN src = Cells(d, n) /\ \A x \in Cells(d, n) : src[x] = f + x - d
      OBVIOUS
    <3>3. Result(2, mem[sp + 1], {}, src)
      BY <2>1
    <3> HIDE DEF src
    <3>4. QED
      BY <1>6, <2>0, <2>1, <3>1, <3>2, <3>3
  <2>2. CASE Depth > 1 /\ Replace(2, mem[sp + 1]) /\ UNCHANGED heapVars
    <3>1. Result(2, mem[sp + 1], {}, <<>>)
      BY <2>2 DEF Replace
    <3>2. QED
      BY <1>6, <2>0, <2>2, <3>1
  <2>3. QED
    BY <1>3, <1>10, <2>1, <2>2 DEF Memcpy
<1>11. QED
  BY <1>4, <1>5, <1>8, <1>9, <1>10

-----------------------------------------------------------------------------
(* Tokens stay known when nothing but the stack and the objects changes.   *)
LEMMA FramesKnown ==
  ASSUME HeapInv, GcInv, TablesGrow, sp' \in Int, StackLow <= sp',
         \A o \in objects' : o.live /\ o.kind = "heap" => o \in objects,
         \A a \in init' : \E b \in init : (mem'[a] = mem[b] /\ (InUse(a)' => InUse(b))) \/ (a = b /\ mem'[a] = mem[a])
  PROVE  KnownInv'
<1>1. ASSUME NEW a \in init', InUse(a)', mem'[a] \in Token PROVE KnownAfter(mem'[a])
  <2>1. PICK b \in init : (mem'[a] = mem[b] /\ (InUse(a)' => InUse(b))) \/ (a = b /\ mem'[a] = mem[a])
    OBVIOUS
  <2>2. InUse(b) /\ mem'[a] = mem[b]
    BY <1>1, <2>1, WasInUse DEF GcInv
  <2>3. KnownAfter(mem[b])
    BY <1>1, <2>2, StaysKnown DEF GcInv
  <2>4. QED
    BY <2>2, <2>3
<1>2. QED
  BY <1>1, KnownNext

(* A call: the arguments become the first locals.                          *)
LEMMA EnterGc ==
  ASSUME HeapInv, GcInv, TemporariesWritten, NEW n \in Nat, NEW k \in Nat, Enter(n, k)
  PROVE  GcInv' /\ TemporariesWritten'
<1> DEFINE base == sp + n
           new == [base |-> base, locals |-> k, vla |-> 0]
           locals == {NewObject(next_object_id + i - 1, base - i, 1, "stack", base) : i \in 1..k}
<1>1. /\ n <= Depth /\ n <= k /\ base - k >= StackLow
      /\ frames' = Append(frames, new) /\ sp' = base - k
      /\ objects' = objects \cup locals
      /\ UNCHANGED <<mem, capabilities, issued, ended, init>>
  BY DEF Enter
<1>2. /\ sp \in Int /\ base \in Int /\ Bottom \in Int /\ base <= Bottom /\ StackLow \in Int
      /\ Bottom = Floor(Top) /\ Top = frames[Len(frames)] /\ Depth = Bottom - sp
  BY <1>1, TopFrame, Zones DEF HeapInv, StackShape
<1>3. new \in Frame /\ frames \in Seq(Frame) /\ Len(frames) \in Nat /\ Len(frames) >= 1
  BY <1>2 DEF Frame, HeapInv, StackShape
<1>4. new.base = base /\ new.locals = k /\ new.vla = 0
  OBVIOUS
<1>5. \A o \in locals : o.kind = "stack"
  BY DEF NewObject
<1> HIDE DEF new, locals
<1>6. /\ Len(frames') = Len(frames) + 1
      /\ \A i \in 1..Len(frames) : frames'[i] = frames[i]
      /\ frames'[Len(frames) + 1] = new
  BY <1>1, <1>3
<1>7. sp' \in Int /\ StackLow <= sp' /\ sp' <= sp
  BY <1>1, <1>2
<1>8. MemoryShape'
  <2>1. ASSUME NEW a \in init', a >= StackLow PROVE a >= sp'
    <3>1. a \in init /\ a \in Int /\ a >= sp
      BY <1>1, <2>1, Zones DEF GcInv, MemoryShape
    <3>2. QED
      BY <1>2, <1>7, <3>1
  <2>2. QED
    BY <1>1, <2>1 DEF GcInv, MemoryShape
<1>9. MainShape'
  <2>1. frames'[1] = frames[1]
    BY <1>3, <1>6
  <2>2. QED
    BY <1>1, <2>1 DEF GcInv, MainShape
<1>10. KnownInv'
  <2>1. TablesGrow
    BY <1>1 DEF TablesGrow, IssuedGrows, Live
  <2>2. \A o \in objects' : o.live /\ o.kind = "heap" => o \in objects
    BY <1>1, <1>5
  <2>3. QED
    BY <1>1, <1>7, <2>1, <2>2, FramesKnown
<1>11. Bottom' = base - k
  BY <1>2, <1>3, <1>4, <1>6 DEF Bottom, Top
<1>12. sp'..Bottom' - 1 \subseteq init'
  BY <1>1, <1>7, <1>11
<1>13. ASSUME NEW i \in 1..Len(frames') - 1
       PROVE frames'[i + 1].base..Floor(frames'[i]) - 1 \subseteq init'
  <2>1. i \in 1..Len(frames) /\ frames'[i] = frames[i]
    BY <1>3, <1>6
  <2>2. CASE i = Len(frames)
    <3>1. frames'[i + 1].base = base /\ Floor(frames'[i]) = Bottom
      BY <1>2, <1>4, <1>6, <2>1, <2>2
    <3>2. base..Bottom - 1 \subseteq sp..Bottom - 1
      BY <1>2
    <3>3. QED
      BY <1>1, <3>1, <3>2 DEF TemporariesWritten
  <2>3. CASE i # Len(frames)
    <3>1. i \in 1..Len(frames) - 1 /\ i + 1 \in 1..Len(frames)
      BY <1>3, <2>1, <2>3
    <3>2. frames'[i + 1] = frames[i + 1]
      BY <1>6, <3>1
    <3>3. QED
      BY <1>1, <2>1, <3>1, <3>2 DEF TemporariesWritten
  <2>4. QED
    BY <2>2, <2>3
<1>14. TemporariesWritten'
  BY <1>12, <1>13 DEF TemporariesWritten, Floor
<1>15. QED
  BY <1>8, <1>9, <1>10, <1>14 DEF GcInv

(* A return: what points to the locals of the frame is given up, and       *)
(* main's frame is never left.                                             *)
LEMMA LeaveGc ==
  ASSUME HeapInv, GcInv, TemporariesWritten, Leave
  PROVE  GcInv' /\ TemporariesWritten'
<1> DEFINE n == Len(frames)
           slot == Top.base - 1
           Left(o) == o.kind = "stack" /\ o.frame = Top.base
<1>1. /\ n > 1 /\ Depth = 1 /\ sp' = slot
      /\ mem' = [mem EXCEPT ![slot] = mem[sp]]
      /\ init' = (init \ (sp..slot)) \cup {slot}
      /\ frames' = SubSeq(frames, 1, n - 1) /\ objects' = leave_frame(Top.base)
      /\ ended' = ended \cup {o.id : o \in {q \in objects : q.kind = "stack" /\ q.start < Top.base}}
      /\ UNCHANGED <<capabilities, issued>>
  BY DEF Leave
<1>2. /\ frames \in Seq(Frame) /\ n \in Nat /\ sp \in Int /\ StackLow <= sp /\ StackLow \in Int
      /\ Top.base \in Int /\ Top.locals \in Nat /\ Top.vla \in Nat /\ Top = frames[n]
      /\ Bottom = Floor(Top) /\ Bottom \in Int /\ sp = Bottom - 1 /\ n \in 1..n /\ StackLow > 0
      /\ StackHigh \in Int
  <2>1. StackLow \in Int /\ StackLow > 0 /\ StackHigh \in Int
    BY Zones
  <2>2. frames \in Seq(Frame) /\ n \in Nat /\ sp \in Int /\ StackLow <= sp
    BY DEF HeapInv, StackShape
  <2>3. /\ Top.base \in Int /\ Top.locals \in Nat /\ Top.vla \in Nat /\ Top = frames[n]
        /\ Bottom = Floor(Top) /\ Bottom \in Int /\ n \in 1..n /\ Depth = Bottom - sp
    BY TopFrame DEF HeapInv
  <2>4. sp = Bottom - 1
    BY <1>1, <2>2, <2>3
  <2>5. QED
    BY <2>1, <2>2, <2>3, <2>4
<1>3. /\ Len(frames') = n - 1
      /\ \A i \in 1..n - 1 : i \in 1..n /\ i # n /\ frames'[i] = frames[i]
  BY <1>1, <1>2
<1>4. Top.base < StackHigh
  BY <1>1, <1>2, MainIsHighest DEF GcInv
<1>5. slot \in Int /\ sp <= slot /\ slot \in 0..StackHigh - 1 /\ slot # 0 /\ StackLow <= slot
  <2>1. Bottom = Top.base - Top.locals - Top.vla
    BY <1>2 DEF Floor
  <2>2. sp <= slot
    <3>1. Top.base \in Int /\ Top.locals \in Nat /\ Top.vla \in Nat
      BY <1>2
    <3>2. sp = Bottom - 1
      BY <1>2
    <3>3. QED
      BY <2>1, <3>1, <3>2
  <2>3. QED
    BY <1>2, <1>4, <2>2
<1>6. sp \in init /\ InUse(sp) /\ mem[sp] \in Token \cup {Data}
  <2>1. sp + 0 \in init /\ InUse(sp + 0) /\ mem[sp + 0] \in Token \cup {Data}
    BY <1>1, Temporaries
  <2>2. sp + 0 = sp
    BY <1>2
  <2>3. QED
    BY <2>1, <2>2
<1>7. ASSUME NEW a \in init'
      PROVE  \/ a = slot /\ mem'[a] = mem[sp]
             \/ a # slot /\ a \in init /\ a \notin sp..slot /\ mem'[a] = mem[a]
  BY <1>1, <1>5 DEF GcInv, MemoryShape
<1>8. MemoryShape'
  <2>1. mem' \in [0..StackHigh - 1 -> Token \cup {Data}] /\ mem'[0] = Data
    BY <1>1, <1>5, <1>6 DEF GcInv, MemoryShape
  <2>2. init' \subseteq 0..StackHigh - 1
    BY <1>1, <1>5 DEF GcInv, MemoryShape
  <2>3. ASSUME NEW a \in init', a >= StackLow PROVE a >= sp'
    <3>1. CASE a = slot
      BY <1>1, <1>5, <3>1
    <3>2. CASE a \in init /\ a \notin sp..slot
      <4>1. a \in Int /\ a >= sp
        BY <2>2, <2>3, <3>2, Zones DEF GcInv, MemoryShape
      <4>2. QED
        BY <1>1, <1>2, <1>5, <3>2, <4>1
    <3>3. QED
      BY <1>7, <3>1, <3>2
  <2>4. QED
    BY <2>1, <2>2, <2>3 DEF MemoryShape
<1>9. \A o \in objects : ~Left(o) => o \in objects'
  BY <1>1 DEF leave_frame
<1>10. ASSUME NEW x \in objects', x.live PROVE x \in objects
  <2>1. PICK o \in objects : x = IF Left(o) THEN [o EXCEPT !.live = FALSE] ELSE o
    BY <1>1 DEF leave_frame
  <2>2. o \in [id : Nat, start : Int, size : Nat, frame : Int,
               kind : {"global", "stack", "heap"}, live : BOOLEAN]
    BY DEF HeapInv, ObjectShape
  <2>3. QED
    BY <1>10, <2>1, <2>2
<1>11. MainShape'
  <2>1. frames'[1] = frames[1]
    BY <1>1, <1>2, <1>3
  <2>2. PICK m \in objects : /\ m.live /\ m.kind = "stack" /\ m.frame = StackHigh
                             /\ m.start = StackHigh - 1 /\ m.size = 1
    BY DEF GcInv, MainShape
  <2>3. m \in objects'
    BY <1>2, <1>4, <1>9, <2>2
  <2>4. QED
    BY <2>1, <2>2, <2>3 DEF GcInv, MainShape
<1>12. TablesGrow
  <2>1. ASSUME NEW o \in objects, o.live PROVE o.id \in ended' \/ Live(objects', o.id)
    <3>1. CASE Left(o)
      <4>1. PICK i \in 1..n : InFrame(o, frames[i])
        BY <2>1, <3>1, ObjectFields DEF HeapInv, InPlace
      <4>2. frames[i].base \in Int /\ frames[i].locals \in Nat /\ frames[i].vla \in Nat
        BY TopFrame DEF HeapInv
      <4>3. frames[i].base = Top.base
        BY <3>1, <4>1 DEF InFrame
      <4>4. o.start < Top.base
        <5>1. Floor(frames[i]) = frames[i].base - frames[i].locals - frames[i].vla
          BY DEF Floor
        <5>2. QED
          BY <4>1, <4>2, <4>3, <5>1 DEF InFrame
      <4>5. QED
        BY <1>1, <3>1, <4>4
    <3>2. CASE ~Left(o)
      BY <1>9, <2>1, <3>2 DEF Live
    <3>3. QED
      BY <3>1, <3>2
  <2>2. QED
    BY <1>1, <2>1 DEF TablesGrow, IssuedGrows
<1>13. KnownInv'
  <2>1. sp' \in Int /\ StackLow <= sp'
    BY <1>1, <1>5
  <2>2. \A a \in init' : \E b \in init : (mem'[a] = mem[b] /\ (InUse(a)' => InUse(b))) \/ (a = b /\ mem'[a] = mem[a])
    <3>1. ASSUME NEW a \in init'
          PROVE \E b \in init : (mem'[a] = mem[b] /\ (InUse(a)' => InUse(b))) \/ (a = b /\ mem'[a] = mem[a])
      <4>1. CASE a = slot /\ mem'[a] = mem[sp]
        BY <1>6, <4>1
      <4>2. CASE a \in init /\ mem'[a] = mem[a]
        BY <4>2
      <4>3. QED
        BY <1>7, <4>1, <4>2
    <3>2. QED
      BY <3>1
  <2>3. QED
    BY <1>10, <1>12, <2>1, <2>2, FramesKnown
<1>14. /\ n - 1 \in 1..n - 1 /\ Bottom' = Floor(frames[n - 1])
       /\ Floor(frames[n - 1]) \in Int /\ Top.base <= Floor(frames[n - 1])
  <2>1. n - 1 \in 1..n - 1 /\ n - 1 \in 1..n /\ n - 1 # n
    BY <1>1, <1>2
  <2>2. Top' = frames[n - 1]
    BY <1>3, <2>1 DEF Top
  <2>3. Floor(frames[n - 1]) \in Int /\ Top.base <= Floor(frames[n - 1])
    BY <2>1, TopFrame DEF HeapInv
  <2>4. QED
    BY <2>1, <2>2, <2>3 DEF Bottom, Floor
<1>15. ASSUME NEW a \in sp'..Bottom' - 1 PROVE a \in init'
  <2>1. CASE a = slot
    BY <1>1, <2>1
  <2>2. CASE a # slot
    <3>1. a \in Int /\ a >= Top.base /\ a <= Floor(frames[n - 1]) - 1
      BY <1>1, <1>2, <1>5, <1>14, <1>15, <2>2
    <3>2. frames[n - 1 + 1].base = Top.base
      BY <1>2
    <3>3. a \in frames[n - 1 + 1].base..Floor(frames[n - 1]) - 1
      BY <1>2, <1>14, <3>1, <3>2
    <3>4. a \in init
      BY <1>14, <3>3 DEF TemporariesWritten
    <3>5. QED
      BY <1>1, <1>2, <3>1, <3>4
  <2>3. QED
    BY <2>1, <2>2
<1>16. ASSUME NEW i \in 1..Len(frames') - 1, NEW a \in frames'[i + 1].base..Floor(frames'[i]) - 1
       PROVE a \in init'
  <2>1. i \in 1..n - 1 /\ i + 1 \in 1..n - 1
    BY <1>2, <1>3
  <2>2. frames'[i] = frames[i] /\ frames'[i + 1] = frames[i + 1]
    BY <1>3, <2>1
  <2>3. a \in init
    BY <2>1, <2>2 DEF TemporariesWritten
  <2>4. /\ Floor(frames[i]) \in Int /\ frames[i + 1].base \in Int /\ Top.base <= frames[i + 1].base
    BY <2>1, CalleeAboveBottom
  <2>5. a \notin sp..slot
    BY <1>2, <2>2, <2>4
  <2>6. QED
    BY <1>1, <2>3, <2>5
<1>17. TemporariesWritten'
  BY <1>15, <1>16 DEF TemporariesWritten, Floor
<1>18. QED
  BY <1>8, <1>11, <1>13, <1>17 DEF GcInv

(* A variable-length array makes room, in which nothing is written yet.    *)
LEMMA DeclareVlaGc ==
  ASSUME HeapInv, GcInv, TemporariesWritten, NEW k \in Nat, DeclareVla(k)
  PROVE  GcInv' /\ TemporariesWritten'
<1> DEFINE n == Len(frames)
<1>1. /\ Depth = 0 /\ Top.vla = 0 /\ sp - k >= StackLow /\ sp' = sp - k
      /\ frames' = [frames EXCEPT ![n].vla = k]
      /\ UNCHANGED <<mem, objects, capabilities, issued, ended, init>>
  BY DEF DeclareVla, heapVars
<1>2. /\ frames \in Seq(Frame) /\ n \in Nat /\ n \in 1..n /\ sp \in Int
      /\ Top.base \in Int /\ Top.locals \in Nat /\ Top = frames[n] /\ Top \in Frame
      /\ Bottom = Floor(Top) /\ Bottom \in Int /\ sp = Bottom
  BY <1>1, TopFrame DEF HeapInv, StackShape
<1>3. [Top EXCEPT !.vla = k] \in Frame
  BY <1>2 DEF Frame
<1>4. /\ Len(frames') = n
      /\ frames'[n] = [Top EXCEPT !.vla = k]
      /\ \A i \in 1..n : i # n => frames'[i] = frames[i]
  <2>1. frames' = [frames EXCEPT ![n] = [Top EXCEPT !.vla = k]]
    BY <1>1, <1>2
  <2>2. QED
    BY <1>2, <1>3, <2>1
<1>5. frames'[n].base = Top.base /\ frames'[n].locals = Top.locals /\ frames'[n].vla = k
  BY <1>2, <1>4 DEF Frame
<1>6. Bottom' = sp - k
  BY <1>1, <1>2, <1>4, <1>5 DEF Bottom, Top, Floor
<1>7. sp' \in Int /\ StackLow <= sp' /\ sp' <= sp
  BY <1>1, <1>2
<1>8. MemoryShape'
  <2>1. ASSUME NEW a \in init', a >= StackLow PROVE a >= sp'
    <3>1. a \in init /\ a \in Int /\ a >= sp
      BY <1>1, <2>1, Zones DEF GcInv, MemoryShape
    <3>2. QED
      BY <1>2, <1>7, <3>1
  <2>2. QED
    BY <1>1, <2>1 DEF GcInv, MemoryShape
<1>9. frames'[1].base = frames[1].base /\ frames'[1].locals = frames[1].locals
  <2>1. CASE n = 1
    BY <1>2, <1>4, <1>5, <2>1
  <2>2. CASE n # 1
    BY <1>2, <1>4, <2>2
  <2>3. QED
    BY <2>1, <2>2
<1>10. MainShape'
  BY <1>1, <1>9 DEF GcInv, MainShape
<1>11. KnownInv'
  <2>1. TablesGrow
    BY <1>1 DEF TablesGrow, IssuedGrows, Live
  <2>2. QED
    BY <1>1, <1>7, <2>1, FramesKnown
<1>12. sp'..Bottom' - 1 \subseteq init'
  BY <1>1, <1>6, <1>7
<1>13. ASSUME NEW i \in 1..Len(frames') - 1
       PROVE frames'[i + 1].base..Floor(frames'[i]) - 1 \subseteq init'
  <2>1. i \in 1..n - 1 /\ i \in 1..n /\ i # n /\ i + 1 \in 1..n
    BY <1>2, <1>4
  <2>2. frames'[i] = frames[i]
    BY <1>4, <2>1
  <2>3. frames'[i + 1].base = frames[i + 1].base
    BY <1>2, <1>4, <1>5, <2>1
  <2>4. QED
    BY <1>1, <2>1, <2>2, <2>3 DEF TemporariesWritten
<1>14. TemporariesWritten'
  BY <1>12, <1>13 DEF TemporariesWritten, Floor
<1>15. QED
  BY <1>8, <1>10, <1>11, <1>14 DEF GcInv

-----------------------------------------------------------------------------
(* In the beginning no cell holds a token, and there are no temporaries.   *)
LEMMA InitGc ==
  ASSUME Init
  PROVE  GcInv /\ TemporariesWritten
<1>1. PICK k \in 1..MaxLocals :
        /\ mem = [a \in 0..StackHigh - 1 |-> Data]
        /\ sp = StackHigh - k
        /\ frames = <<[base |-> StackHigh, locals |-> k, vla |-> 0]>>
        /\ objects = {NewObject(1, 1, GlobalCells, "global", 0)} \cup
             {NewObject(1 + i, StackHigh - i, 1, "stack", StackHigh) : i \in 1..k}
        /\ init = 0..GlobalCells
  BY DEF Init
<1> DEFINE main == [base |-> StackHigh, locals |-> k, vla |-> 0]
<1>2. /\ k \in Nat /\ k > 0 /\ StackHigh \in Int /\ StackLow \in Int /\ GlobalCells \in Nat
      /\ HeapStart = GlobalCells + 1 /\ HeapStart <= StackLow /\ StackLow <= StackHigh /\ 1 \in 1..k
  BY Zones
<1>3. main \in Frame /\ main.base = StackHigh /\ main.locals = k /\ main.vla = 0
  BY <1>2 DEF Frame
<1>4. Len(frames) = 1 /\ frames[1] = main
  <2> HIDE DEF main
  <2>1. frames = <<main>>
    BY <1>1 DEF main
  <2>2. QED
    BY <1>3, <2>1
<1>5. MemoryShape
  <2>1. 0 \in 0..StackHigh - 1 /\ 0..GlobalCells \subseteq 0..StackHigh - 1
    BY <1>2
  <2>2. \A a \in init : ~(a >= StackLow)
    BY <1>1, <1>2
  <2>3. QED
    BY <1>1, <2>1, <2>2 DEF MemoryShape
<1>6. MainShape
  <2> DEFINE m == NewObject(1 + 1, StackHigh - 1, 1, "stack", StackHigh)
  <2>1. m \in objects
    BY <1>1, <1>2
  <2>2. m.live /\ m.kind = "stack" /\ m.frame = StackHigh /\ m.start = StackHigh - 1 /\ m.size = 1
    BY DEF NewObject
  <2> HIDE DEF m
  <2>3. QED
    BY <1>2, <1>3, <1>4, <2>1, <2>2 DEF MainShape
<1>7. KnownInv
  BY <1>1, <1>5, SafeHeapAssumption DEF KnownInv, MemoryShape
<1>8. TemporariesWritten
  <2>1. Bottom = sp /\ sp \in Int
    BY <1>1, <1>2, <1>3, <1>4 DEF Bottom, Top
  <2>2. sp..Bottom - 1 = {} /\ 1..Len(frames) - 1 = {}
    BY <1>4, <2>1
  <2>3. QED
    BY <2>2 DEF TemporariesWritten
<1>9. QED
  BY <1>5, <1>6, <1>7, <1>8 DEF GcInv

(* Every step of the program, and every step in which it does nothing.     *)
LEMMA NextGc ==
  ASSUME HeapInv, GcInv, TemporariesWritten, [Next]_vars
  PROVE  GcInv' /\ TemporariesWritten'
<1>1. 0..MaxSize \subseteq Nat /\ 0..MaxLocals \subseteq Nat /\ 1..MaxSize \subseteq Nat
      /\ 1..MaxLocals \subseteq Nat /\ TRUE \in BOOLEAN /\ 0 \in Nat
  BY Zones
<1>2. MainShape
  BY DEF GcInv
<1>3. CASE UNCHANGED vars
  BY <1>3, FailGc, StillTemporaries DEF vars, heapVars
<1>4. CASE PushData \/ Pop \/ Load \/ Store \/ ToInteger \/ Free
  BY <1>1, <1>2, <1>4, ExpressionGc, ExpressionTemporaries
<1>5. CASE \/ \E size \in 0..MaxSize : Memcpy(size)
           \/ \E ordered \in BOOLEAN : Compare(ordered)
  BY <1>1, <1>2, <1>5, ExpressionGc, ExpressionTemporaries
<1>6. CASE AddressOfGlobal \/ AddressOfLocal \/ AddressOfVla
  BY <1>6, AddressGc, AddressTemporaries
<1>7. CASE \E size \in 0..MaxSize : Malloc(size) \/ Calloc(size) \/ Realloc(size)
  BY <1>1, <1>7, AllocateGc
<1>8. CASE Collect
  BY <1>8, CollectGc, StillTemporaries DEF Collect
<1>9. CASE Leave
  BY <1>9, LeaveGc
<1>10. CASE \E n \in 0..MaxLocals, k \in 1..MaxLocals : Enter(n, k)
  BY <1>1, <1>10, EnterGc
<1>11. CASE \E n \in 1..MaxSize : DeclareVla(n)
  BY <1>1, <1>11, DeclareVlaGc
<1>12. CASE (\E n \in 1..MaxSize : Narrow(n)) \/ (\E delta \in -1..1 : Add(delta))
  BY <1>12, PointerGc, PointerTemporaries
<1>13. QED
  BY <1>3, <1>4, <1>5, <1>6, <1>7, <1>8, <1>9, <1>10, <1>11, <1>12 DEF Next

(* The invariants hold in every state the program reaches.                 *)
THEOREM GcInvariant == Spec => [](HeapInv /\ GcInv /\ TemporariesWritten)
<1>1. Init => HeapInv /\ GcInv /\ TemporariesWritten
  BY InitInv, InitGc
<1>2. HeapInv /\ GcInv /\ TemporariesWritten /\ [Next]_vars
        => (HeapInv /\ GcInv /\ TemporariesWritten)'
  BY NextInv, NextGc
<1>3. QED
  BY <1>1, <1>2, PTL DEF Spec

(* What the program can reach stays usable (collect_garbage, mark_object,  *)
(* scan_capabilities, sweep_capabilities): neither the object nor the      *)
(* token of a pointer that lies in the globals, the stack or a heap object *)
(* that is reached is taken away, until the function that owns the object  *)
(* returns.                                                                *)
THEOREM ReachableUsable == Spec => []ReachableStaysUsable
<1>1. KnownInv => ReachableStaysUsable
  <2> SUFFICES ASSUME KnownInv PROVE ReachableStaysUsable
    OBVIOUS
  <2> DEFINE S == {t \in Token : Known(t)}
             roots == TokensIn((1..GlobalCells) \cup (sp..StackHigh - 1))
             Held(t) == UNION {TokensIn(Cells(o.start, o.size)) :
                                 o \in {q \in objects : /\ q.live /\ q.kind = "heap"
                                                        /\ t \in DOMAIN issued /\ issued[t] = q.id}}
  <2>1. ASSUME NEW cells, \A a \in cells : InUse(a) PROVE TokensIn(cells) \subseteq S
    BY <2>1 DEF TokensIn, KnownInv
  <2>2. roots \subseteq S
    <3>1. \A a \in (1..GlobalCells) \cup (sp..StackHigh - 1) : InUse(a)
      BY DEF InUse
    <3>2. QED
      BY <2>1, <3>1
  <2>3. ASSUME NEW t PROVE Held(t) \subseteq S
    <3>1. ASSUME NEW o \in objects, o.live, o.kind = "heap"
          PROVE TokensIn(Cells(o.start, o.size)) \subseteq S
      <4>1. \A a \in Cells(o.start, o.size) : InUse(a)
        BY <3>1 DEF InUse
      <4>2. QED
        BY <2>1, <4>1
    <3> HIDE DEF S
    <3>2. QED
      BY <3>1
  <2>4. \A t \in ReachableTokens : t \in S
    <3>1. S \in SUBSET Token /\ \A t \in S : Held(t) \subseteq S
      BY <2>3
    <3> HIDE DEF S
    <3>2. QED
      BY <2>2, <3>1 DEF ReachableTokens
  <2>5. QED
    BY <2>4 DEF ReachableStaysUsable, Known
<1>2. QED
  BY <1>1, GcInvariant, PTL DEF GcInv

-----------------------------------------------------------------------------
(* The block a program gives to realloc, if its pointer is to its start.   *)
LEMMA HeapObject ==
  ASSUME HeapInv, NEW w, NEW old \in heap_object(w)
  PROVE  /\ old \in objects /\ old.live /\ old.kind = "heap" /\ w \in Token
         /\ \A o \in heap_object(w) : o = old
<1>1. PICK c \in capabilities : c.token = w /\ c.object_id = old.id
  BY DEF heap_object, find_capability
<1>2. w \in Token /\ issued[w] = old.id
  BY <1>1 DEF HeapInv, CapabilityShape
<1>3. ASSUME NEW o \in heap_object(w) PROVE o = old
  <2>1. PICK d \in capabilities : d.token = w /\ d.object_id = o.id
    BY DEF heap_object, find_capability
  <2>2. issued[w] = o.id
    BY <2>1 DEF HeapInv, CapabilityShape
  <2>3. QED
    BY <1>2, <2>2 DEF heap_object, HeapInv, ObjectShape
<1>4. QED
  BY <1>2, <1>3 DEF heap_object

(* realloc neither frees nor overwrites the block it copies from           *)
(* (safe_realloc): the block is a root while the new one is made, and libc *)
(* places the new one apart from it.                                       *)
THEOREM ReallocKeepsBlock == Spec => ReallocKeepsOld
<1>1. HeapInv /\ GcInv =>
        \A old \in heap_object(mem[sp]) :
          \/ /\ \E o \in objects' : o.id = old.id /\ o.live
             /\ \A a \in Cells(old.start, old.size) : mem'[a] = mem[a]
          \/ ~ \E size \in 1..MaxSize : Realloc(size)
  <2> SUFFICES ASSUME HeapInv, GcInv, NEW old \in heap_object(mem[sp]),
                      NEW size \in 1..MaxSize, Realloc(size)
               PROVE  /\ \E o \in objects' : o.id = old.id /\ o.live
                      /\ \A a \in Cells(old.start, old.size) : mem'[a] = mem[a]
    OBVIOUS
  <2> DEFINE after == Prepared(1, size, {old})
  <2>1. old \in objects /\ old.live /\ old.kind = "heap" /\ mem[sp] \in Token
    BY HeapObject
  <2>2. malloc(1, size, {old}, Copied(old, size)) /\ size \in Nat /\ size > 0
    <3>1. size \in Nat /\ size > 0
      BY Zones
    <3>2. mem[sp] # Data /\ heap_object(mem[sp]) # {}
      BY <2>1, SafeHeapAssumption
    <3>3. PICK q \in heap_object(mem[sp]) : size > 0 /\ malloc(1, size, ReallocRoot(q), Copied(q, size))
      BY <3>1, <3>2 DEF Realloc
    <3>4. q = old
      BY HeapObject
    <3>5. QED
      BY <3>1, <3>3, <3>4 DEF ReallocRoot
  <2>3. after.objects \subseteq objects /\ old \in after.objects
    <3>1. {old} \in SUBSET {o \in objects : o.live /\ o.kind = "heap"}
      BY <2>1
    <3>2. QED
      BY <3>1, PreparedKeeps
  <2>4. old.start \in Int /\ old.size \in Nat /\ sp \in Int /\ StackLow \in Int /\ StackLow <= sp
    BY <2>1, ObjectFields, Zones DEF HeapInv, StackShape
  <2>5. ASSUME NEW a \in Cells(old.start, old.size)
        PROVE a \in DOMAIN mem /\ a # sp + 1 - 1
    <3>1. a \in 1..StackHigh - 1
      BY <2>1, LiveCells DEF GcInv
    <3>2. a \in DOMAIN mem
      BY <3>1 DEF GcInv, MemoryShape
    <3>3. a < StackLow
      BY <2>1, <2>4, CellsFrom, ObjectFields, Zones DEF HeapInv, InPlace
    <3>4. QED
      BY <2>4, <3>1, <3>2, <3>3
  <2>6. CASE Replace(1, Data) /\ objects' = after.objects
    <3> HIDE DEF after
    <3>1. mem' = [a \in DOMAIN mem |-> IF a = sp + 1 - 1 THEN Data
                                       ELSE IF a \in DOMAIN <<>> THEN mem[<<>>[a]] ELSE mem[a]]
      BY <2>6 DEF Replace, Result
    <3>2. DOMAIN <<>> = {}
      OBVIOUS
    <3>3. \A a \in Cells(old.start, old.size) : mem'[a] = mem[a]
      BY <2>5, <3>1, <3>2
    <3>4. QED
      BY <2>1, <2>3, <2>6, <3>3
  <2>7. ASSUME NEW start \in LibcRoom(after.objects, Native(size)), NEW t,
               objects' = after.objects \cup {NewObject(next_object_id, start, size, "heap", 0)},
               Result(1, t, Cells(start, Native(size)), Copied(old, size)[start])
        PROVE  /\ \E o \in objects' : o.id = old.id /\ o.live
               /\ \A a \in Cells(old.start, old.size) : mem'[a] = mem[a]
    <3> DEFINE src == Copied(old, size)[start]
    <3> HIDE DEF after, src
    <3>1. mem' = [a \in DOMAIN mem |-> IF a = sp + 1 - 1 THEN t
                                       ELSE IF a \in DOMAIN src THEN mem[src[a]] ELSE mem[a]]
      BY <2>7 DEF Result, src
    <3>2. /\ start \in Int /\ HeapStart <= start /\ start + Native(size) <= StackLow
          /\ Native(size) \in Nat /\ Native(size) > 0 /\ size <= Native(size)
          /\ HeapStart \in Int /\ StackLow \in Int
      BY <2>2, <2>7, NativeHolds, Zones DEF LibcRoom, Native
    <3>3. start \in HeapAddress
      BY <3>2 DEF HeapAddress
    <3>4. DOMAIN src \subseteq Cells(start, Native(size))
      <4> DEFINE n == IF old.size < size THEN old.size ELSE size
      <4>1. DOMAIN src = Cells(start, n)
        BY <3>3 DEF Copied, src
      <4>2. n \in Nat /\ n <= Native(size)
        BY <2>2, <2>4, <3>2
      <4> HIDE DEF n
      <4>3. QED
        BY <3>2, <4>1, <4>2 DEF Cells
    <3>5. Cells(start, Native(size)) \cap Cells(old.start, Native(old.size)) = {}
      BY <2>1, <2>3, <2>7 DEF LibcRoom
    <3>6. Cells(old.start, old.size) \subseteq Cells(old.start, Native(old.size))
      BY <2>4, NativeHolds
    <3>7. \A a \in Cells(old.start, old.size) : mem'[a] = mem[a]
      BY <2>5, <3>1, <3>4, <3>5, <3>6
    <3>8. QED
      BY <2>1, <2>3, <2>7, <3>7
  <2>8. QED
    BY <2>2, <2>6, <2>7 DEF malloc
<1>2. QED
  BY <1>1, GcInvariant, PTL DEF ReallocKeepsOld

-----------------------------------------------------------------------------
(* The tables: the count of live heap bytes, and the types.                *)

HeapObjects(objs) == {o \in objs : o.live /\ o.kind = "heap"}

(* The size of some objects, as the collector adds it up.                  *)
Bytes(objs) == MapThenSumSet(LAMBDA o : o.size, objs)

(* The tables are finite, so that sizes can be added up, and the count is  *)
(* the sum.                                                                *)
CountInv == IsFiniteSet(objects) /\ live_heap_bytes = Bytes(HeapObjects(objects))

(* Addresses are not negative, those in dead objects and in capabilities   *)
(* of dead objects too, and numbers begin at one.                          *)
ObjectTyped(o) == o.id >= 1 /\ o.start >= 0 /\ o.frame >= 0

CapabilityTyped(c) == c.lower >= 0 /\ c.upper >= 0 /\ c.cursor >= 0

TypesInv ==
  /\ \A o \in objects : ObjectTyped(o)
  /\ \A c \in capabilities : CapabilityTyped(c)
  /\ next_object_id >= 1 /\ next_object_id <= MaxObjects + 1
  /\ halt \in BOOLEAN
  /\ DOMAIN issued \subseteq Token
  /\ \A id \in ended : id >= 1

TablesInv == CountInv /\ TypesInv

-----------------------------------------------------------------------------
(* The sum of sizes.                                                       *)
Record == [id : Nat, start : Int, size : Nat, frame : Int,
           kind : {"global", "stack", "heap"}, live : BOOLEAN]

Sizes == [o \in Record |-> o.size]

(* The size of some objects as a sum over a set.                           *)
LEMMA BytesAreSum ==
  ASSUME NEW objs \in SUBSET Record, IsFiniteSet(objs)
  PROVE  Bytes(objs) = SumOver(Sizes, objs)
<1> DEFINE Step(g) == [s \in SUBSET objs |-> IF s = {} THEN 0 ELSE Pick(s).size + g[s \ {Pick(s)}]]
           h == CHOOSE g : g = Step(g)
<1>1. Bytes(objs) = h[objs]
  BY DEF Bytes, MapThenSumSet, MapThenFoldSet, Pick
<1>2. \A s \in SUBSET objs : s # {} => Sizes[Pick(s)] = Pick(s).size
  <2>1. ASSUME NEW s \in SUBSET objs, s # {} PROVE Pick(s) \in Record
    BY <2>1 DEF Pick
  <2>2. QED
    BY <2>1 DEF Sizes
<1>3. \A g : Step(g) = SumStep(Sizes, objs, g)
  BY <1>2 DEF SumStep
<1> HIDE DEF Step
<1>4. \E g : g = Step(g)
  BY <1>3, SumExists
<1>5. h = Step(h)
  BY <1>4
<1> HIDE DEF h
<1>6. h = SumStep(Sizes, objs, h)
  BY <1>3, <1>5
<1>7. QED
  BY <1>1, <1>6, SumIs

(* Sizes are numbers, and so is what they add up to.                       *)
LEMMA BytesNat ==
  ASSUME NEW objs \in SUBSET Record, IsFiniteSet(objs)
  PROVE  Bytes(objs) \in Nat
<1>1. \A o \in objs : Sizes[o] \in Nat
  BY DEF Sizes, Record
<1>2. QED
  BY <1>1, BytesAreSum, SumNat

(* What is swept and what is kept add up to what there was.                *)
LEMMA BytesSplit ==
  ASSUME NEW objs \in SUBSET Record, IsFiniteSet(objs), NEW part \in SUBSET objs
  PROVE  Bytes(objs) - Bytes(objs \ part) = Bytes(part)
<1>1. \A o \in objs : Sizes[o] \in Nat
  BY DEF Sizes, Record
<1>2. /\ IsFiniteSet(part) /\ part \in SUBSET Record
      /\ IsFiniteSet(objs \ part) /\ objs \ part \in SUBSET Record
  BY FS_Subset
<1>3. SumOver(Sizes, objs) = SumOver(Sizes, part) + SumOver(Sizes, objs \ part)
  BY <1>1, SumSplit
<1>4. PICK rest : rest = objs \ part
  OBVIOUS
<1>5. /\ Bytes(part) \in Nat /\ Bytes(rest) \in Nat
      /\ Bytes(objs) = Bytes(part) + Bytes(rest)
  BY <1>2, <1>3, <1>4, BytesAreSum, BytesNat
<1>6. Bytes(objs) - Bytes(rest) = Bytes(part)
  BY <1>5
<1>7. QED
  BY <1>4, <1>6

(* A new object adds its size.                                             *)
LEMMA BytesAdd ==
  ASSUME NEW objs \in SUBSET Record, IsFiniteSet(objs), NEW new \in Record, new \notin objs
  PROVE  Bytes(objs \cup {new}) = Bytes(objs) + new.size
<1>1. PICK all : all = objs \cup {new}
  OBVIOUS
<1>2. all \in SUBSET Record /\ IsFiniteSet(all) /\ new \in all /\ objs = all \ {new}
  BY <1>1, FS_AddElement
<1>3. \A o \in all : Sizes[o] \in Nat
  BY <1>2 DEF Sizes, Record
<1>4. SumOver(Sizes, all) = Sizes[new] + SumOver(Sizes, all \ {new})
  BY <1>2, <1>3, SumRemove
<1>5. Sizes[new] = new.size /\ new.size \in Nat
  BY DEF Sizes, Record
<1>6. Bytes(all) = new.size + Bytes(objs) /\ Bytes(objs) \in Nat
  BY <1>2, <1>4, <1>5, BytesAreSum, BytesNat
<1>7. QED
  BY <1>1, <1>5, <1>6

(* Nothing has no size.                                                    *)
LEMMA BytesNone == Bytes({}) = 0
<1>1. SumOver(Sizes, {}) = 0
  BY SumRecursion, FS_EmptySet
<1>2. QED
  BY <1>1, BytesAreSum, FS_EmptySet

(* What is registered are records, and a part of them can be added up.     *)
LEMMA Registered ==
  ASSUME HeapInv, CountInv, NEW objs \in SUBSET objects
  PROVE  objs \in SUBSET Record /\ IsFiniteSet(objs)
  BY FS_Subset DEF CountInv, HeapInv, ObjectShape, Record

(* The count of the next state is exact if it is the size of what is there *)
(* then,                                                                   *)
LEMMA CountNext ==
  ASSUME IsFiniteSet(objects'), live_heap_bytes' = Bytes(HeapObjects(objects'))
  PROVE  CountInv'
<1>1. Bytes(HeapObjects(objects))' = Bytes(HeapObjects(objects'))
  BY DEF Bytes, HeapObjects, MapThenSumSet, MapThenFoldSet
<1>2. QED
  BY <1>1 DEF CountInv

(* so when the heap objects are the same ones.                             *)
LEMMA SameHeap ==
  ASSUME CountInv, IsFiniteSet(objects'), live_heap_bytes' = live_heap_bytes,
         HeapObjects(objects') = HeapObjects(objects)
  PROVE  CountInv'
  BY CountNext DEF CountInv

-----------------------------------------------------------------------------
(* Steps that leave the tables alone.                                      *)
LEMMA QuietTables ==
  ASSUME TablesInv, UNCHANGED <<heapVars, ended>>, halt' \in BOOLEAN
  PROVE  TablesInv'
<1>1. CountInv'
  BY SameHeap DEF TablesInv, CountInv, heapVars
<1>2. TypesInv'
  BY DEF TablesInv, TypesInv, heapVars, ObjectTyped, CapabilityTyped
<1>3. QED
  BY <1>1, <1>2 DEF TablesInv

(* A check that fails leaves the tables alone.                             *)
LEMMA FailTables ==
  ASSUME TablesInv, Fail
  PROVE  TablesInv'
  BY QuietTables DEF Fail

(* So does a value that is returned.                                       *)
LEMMA ResultTables ==
  ASSUME TablesInv, NEW n, NEW w, NEW fresh, NEW src, Result(n, w, fresh, src), UNCHANGED heapVars
  PROVE  TablesInv'
<1>1. UNCHANGED <<halt, ended>>
  BY DEF Result
<1>2. QED
  BY <1>1, QuietTables DEF TablesInv, TypesInv

(* Loads, stores, comparisons and frees keep tables and count right.       *)
LEMMA ExpressionTables ==
  ASSUME TablesInv, NEW n, NEW ordered,
         \/ PushData \/ Pop \/ Load \/ Store \/ ToInteger \/ Free
         \/ Compare(ordered) \/ Memcpy(n) \/ DeclareVla(n)
  PROVE  TablesInv'
<1>1. CASE PushData \/ ToInteger \/ Free \/ Compare(ordered) \/ Load
  BY <1>1, FailTables, ResultTables DEF PushData, ToInteger, Free, Compare, Load, Replace
<1>2. CASE Pop \/ DeclareVla(n)
  BY <1>2, QuietTables DEF Pop, DeclareVla, TablesInv, TypesInv
<1>3. CASE Store
  BY <1>3, FailTables, ResultTables DEF Store
<1>4. CASE Memcpy(n)
  BY <1>4, FailTables, ResultTables DEF Memcpy, Replace
<1>5. QED
  BY <1>1, <1>2, <1>3, <1>4

(* A token that is made for addresses has them.                            *)
LEMMA MadeTyped ==
  ASSUME TypesInv, NEW caps \in SUBSET capabilities, NEW id, NEW lower \in Nat, NEW upper \in Nat,
         NEW cursor \in Nat, NEW t \in Token, make_capability(caps, id, lower, upper, cursor, t)
  PROVE  (\A c \in capabilities' : CapabilityTyped(c)) /\ DOMAIN issued' \subseteq Token
<1>1. CASE capabilities' = caps /\ UNCHANGED issued
  BY <1>1 DEF TypesInv
<1>2. CASE /\ capabilities' = caps \cup {[token |-> t, object_id |-> id, lower |-> lower,
                                          upper |-> upper, cursor |-> cursor]}
           /\ issued' = [u \in DOMAIN issued \cup {t} |-> IF u = t THEN id ELSE issued[u]]
  <2> DEFINE new == [token |-> t, object_id |-> id, lower |-> lower,
                     upper |-> upper, cursor |-> cursor]
  <2>1. CapabilityTyped(new)
    BY DEF CapabilityTyped
  <2>2. capabilities' = caps \cup {new}
    BY <1>2
  <2>3. \A c \in caps : CapabilityTyped(c)
    BY DEF TypesInv
  <2> HIDE DEF new
  <2>4. \A c \in capabilities' : CapabilityTyped(c)
    BY <2>1, <2>2, <2>3
  <2>5. DOMAIN issued' \subseteq Token
    BY <1>2 DEF TypesInv
  <2>6. QED
    BY <2>4, <2>5
<1>3. QED
  BY <1>1, <1>2 DEF make_capability

(* Tokens that are derived from usable ones.                               *)
LEMMA DeriveTables ==
  ASSUME TablesInv, NEW n, NEW id, NEW lower \in Nat, NEW upper \in Nat, NEW cursor \in Nat,
         Derive(n, id, lower, upper, cursor)
  PROVE  TablesInv'
<1>1. PICK t \in Token : /\ make_capability(capabilities, id, lower, upper, cursor, t)
                         /\ Replace(n, t) /\ UNCHANGED <<objects, next_object_id, live_heap_bytes>>
  BY DEF Derive
<1>2. UNCHANGED <<halt, ended>>
  BY <1>1 DEF Replace, Result
<1>3. CountInv'
  BY <1>1, SameHeap DEF TablesInv, CountInv
<1>4. (\A c \in capabilities' : CapabilityTyped(c)) /\ DOMAIN issued' \subseteq Token
  BY <1>1, MadeTyped DEF TablesInv
<1>5. TypesInv'
  BY <1>1, <1>2, <1>4 DEF TablesInv, TypesInv, ObjectTyped, CapabilityTyped
<1>6. QED
  BY <1>3, <1>5 DEF TablesInv

(* Pointer arithmetic and casts do.                                        *)
LEMMA PointerTables ==
  ASSUME HeapInv, TablesInv, NEW n \in Nat, NEW delta \in Int, Narrow(n) \/ Add(delta)
  PROVE  TablesInv'
<1>1. ASSUME NEW w, NEW c \in Usable(w)
      PROVE  c.lower \in Nat /\ c.upper \in Nat /\ c.cursor \in Nat
  <2>1. c \in capabilities
    BY DEF Usable, find_capability
  <2>2. c.lower \in Int /\ c.upper \in Int /\ c.cursor \in Int /\ CapabilityTyped(c)
    BY <2>1 DEF HeapInv, CapabilityShape, TablesInv, TypesInv
  <2>3. QED
    BY <2>2 DEF CapabilityTyped
<1>2. ASSUME Replace(1, Data), UNCHANGED heapVars PROVE TablesInv'
  BY <1>2, ResultTables DEF Replace
<1>3. CASE Narrow(n)
  <2>1. ASSUME NEW c \in Narrowable(mem[sp], n),
               Derive(1, c.object_id, c.cursor, c.cursor + n, c.cursor)
        PROVE  TablesInv'
    <3>1. c.cursor \in Nat /\ c.cursor + n \in Nat
      BY <1>1 DEF Narrowable
    <3>2. QED
      BY <2>1, <3>1, DeriveTables
  <2>2. QED
    BY <1>2, <1>3, <2>1, FailTables DEF Narrow
<1>4. CASE Add(delta)
  <2>1. ASSUME NEW c \in Usable(mem[sp]), c.cursor + delta \in c.lower..c.upper,
               Derive(1, c.object_id, c.lower, c.upper, c.cursor + delta)
        PROVE  TablesInv'
    <3>1. c.lower \in Nat /\ c.upper \in Nat /\ c.cursor \in Nat
      BY <1>1
    <3>2. c.cursor + delta \in Nat
      BY <2>1, <3>1
    <3>3. QED
      BY <2>1, <3>1, <3>2, DeriveTables
  <2>2. QED
    BY <1>2, <1>4, <2>1, FailTables DEF Add
<1>5. QED
  BY <1>3, <1>4

(* The addresses a program can take; a VLA is registered when it is used.  *)
LEMMA FromRawTables ==
  ASSUME HeapInv, TablesInv, NEW address \in Nat, NEW n \in Nat, Top.base >= 0,
         from_raw(address, n)
  PROVE  TablesInv'
<1>1. ASSUME NEW id, Derive(0, id, address, address + n, address) PROVE TablesInv'
  BY <1>1, DeriveTables
<1>2. ASSUME objects' = objects \cup {NewObject(next_object_id, address, n, "stack", Top.base)},
             next_object_id <= MaxObjects, next_object_id' = next_object_id + 1,
             NEW t \in Token, Replace(0, t), live_heap_bytes' = live_heap_bytes,
             make_capability(capabilities, next_object_id, address, address + n, address, t)
      PROVE  TablesInv'
  <2> DEFINE new == NewObject(next_object_id, address, n, "stack", Top.base)
  <2>1. next_object_id \in Nat /\ next_object_id >= 1 /\ MaxObjects \in Nat
    BY SafeHeapAssumption DEF HeapInv, ObjectShape, TablesInv, TypesInv
  <2>2. ObjectTyped(new) /\ new.kind = "stack"
    BY <2>1 DEF ObjectTyped, NewObject
  <2>3. objects' = objects \cup {new} /\ UNCHANGED <<halt, ended>>
    BY <1>2 DEF Replace, Result
  <2> HIDE DEF new
  <2>4. IsFiniteSet(objects')
    BY <2>3, FS_AddElement DEF TablesInv, CountInv
  <2>5. HeapObjects(objects') = HeapObjects(objects)
    BY <2>2, <2>3 DEF HeapObjects
  <2>6. CountInv'
    BY <1>2, <2>4, <2>5, SameHeap DEF TablesInv
  <2>7. (\A c \in capabilities' : CapabilityTyped(c)) /\ DOMAIN issued' \subseteq Token
    <3>1. address + n \in Nat
      OBVIOUS
    <3>2. QED
      BY <1>2, <3>1, MadeTyped DEF TablesInv
  <2>8. \A o \in objects' : ObjectTyped(o)
    BY <2>2, <2>3 DEF TablesInv, TypesInv
  <2>9. next_object_id' >= 1 /\ next_object_id' <= MaxObjects + 1
    BY <1>2, <2>1
  <2>10. TypesInv'
    BY <2>3, <2>7, <2>8, <2>9 DEF TablesInv, TypesInv, ObjectTyped, CapabilityTyped
  <2>11. QED
    BY <2>6, <2>10 DEF TablesInv
<1>3. QED
  BY <1>1, <1>2, FailTables DEF from_raw

(* Taking the address of a local does.                                     *)
LEMMA AddressTables ==
  ASSUME HeapInv, TablesInv, AddressOfGlobal \/ AddressOfLocal \/ AddressOfVla
  PROVE  TablesInv'
<1>1. /\ Top.base \in Int /\ Top.locals \in Nat /\ Top.vla \in Nat
      /\ Bottom = Floor(Top) /\ Bottom \in Int /\ sp \in Int /\ sp <= Bottom
      /\ StackLow \in Int /\ StackLow <= sp /\ StackLow >= 0
  BY TopFrame, Zones DEF HeapInv, StackShape
<1>2. Bottom \in Nat /\ Top.base >= 0 /\ Top.base - Top.locals >= 0
  BY <1>1 DEF Floor
<1>3. CASE AddressOfGlobal
  BY <1>2, <1>3, FromRawTables, Zones DEF AddressOfGlobal
<1>4. CASE AddressOfLocal
  <2>1. PICK i \in 1..Top.locals : from_raw(Top.base - i, 1)
    BY <1>4 DEF AddressOfLocal
  <2>2. Top.base - i \in Nat
    BY <1>1, <1>2
  <2>3. QED
    BY <1>2, <2>1, <2>2, FromRawTables
<1>5. CASE AddressOfVla
  BY <1>1, <1>2, <1>5, FromRawTables DEF AddressOfVla
<1>6. QED
  BY <1>3, <1>4, <1>5

-----------------------------------------------------------------------------
(* Frames.                                                                 *)

(* Objects that are listed by number are finitely many.                    *)
LEMMA ListedFinite ==
  ASSUME NEW k \in Nat, NEW f, DOMAIN f = 1..k
  PROVE  IsFiniteSet({f[i] : i \in 1..k})
<1> DEFINE T == {f[i] : i \in 1..k}
           g == [i \in 1..k |-> f[i]]
<1>1. g \in Surjection(1..k, T)
  BY DEF Surjection
<1>2. IsFiniteSet(1..k)
  BY FS_Interval
<1> HIDE DEF g, T
<1>3. IsFiniteSet(T)
  BY <1>1, <1>2, FS_Surjection
<1>4. QED
  BY <1>3 DEF T

(* Entering a function does.                                               *)
LEMMA EnterTables ==
  ASSUME HeapInv, TablesInv, NEW n \in Nat, NEW k \in Nat, Enter(n, k)
  PROVE  TablesInv'
<1> DEFINE base == sp + n
           f == [i \in 1..k |-> NewObject(next_object_id + i - 1, base - i, 1, "stack", base)]
           new == {f[i] : i \in 1..k}
<1>1. /\ base - k >= StackLow /\ next_object_id + k <= MaxObjects + 1
      /\ objects' = objects \cup new /\ next_object_id' = next_object_id + k
      /\ UNCHANGED <<capabilities, live_heap_bytes, issued, halt, ended>>
  BY DEF Enter
<1>2. base \in Int /\ StackLow >= 0 /\ StackLow \in Int /\ next_object_id \in Nat /\ next_object_id >= 1
  BY Zones DEF HeapInv, StackShape, ObjectShape, TablesInv, TypesInv
<1>3. IsFiniteSet(new)
  <2>1. DOMAIN f = 1..k
    OBVIOUS
  <2> HIDE DEF f
  <2>2. QED
    BY <2>1, ListedFinite
<1>4. \A o \in new : ObjectTyped(o) /\ o.kind = "stack"
  <2>1. ASSUME NEW i \in 1..k PROVE ObjectTyped(f[i]) /\ f[i].kind = "stack"
    <3>1. next_object_id + i - 1 >= 1 /\ base - i >= 0 /\ base >= 0
      BY <1>1, <1>2
    <3>2. QED
      BY <3>1 DEF ObjectTyped, NewObject
  <2> HIDE DEF f
  <2>2. QED
    BY <2>1
<1> HIDE DEF new
<1>5. IsFiniteSet(objects')
  BY <1>1, <1>3, FS_Union DEF TablesInv, CountInv
<1>6. HeapObjects(objects') = HeapObjects(objects)
  BY <1>1, <1>4 DEF HeapObjects
<1>7. CountInv'
  BY <1>1, <1>5, <1>6, SameHeap DEF TablesInv
<1>8. \A o \in objects' : ObjectTyped(o)
  BY <1>1, <1>4 DEF TablesInv, TypesInv
<1>9. next_object_id' >= 1 /\ next_object_id' <= MaxObjects + 1
  BY <1>1, <1>2
<1>10. TypesInv'
  BY <1>1, <1>8, <1>9 DEF TablesInv, TypesInv, ObjectTyped, CapabilityTyped
<1>11. QED
  BY <1>7, <1>10 DEF TablesInv

(* Leaving a function does.                                                *)
LEMMA LeaveTables ==
  ASSUME HeapInv, TablesInv, Leave
  PROVE  TablesInv'
<1> DEFINE Left(o) == o.kind = "stack" /\ o.frame = Top.base
           After(o) == IF Left(o) THEN [o EXCEPT !.live = FALSE] ELSE o
           f == [o \in objects |-> After(o)]
<1>1. /\ objects' = {After(o) : o \in objects}
      /\ ended' = ended \cup {o.id : o \in {q \in objects : q.kind = "stack" /\ q.start < Top.base}}
      /\ UNCHANGED <<capabilities, next_object_id, live_heap_bytes, issued, halt>>
  BY DEF Leave, leave_frame
<1>2. objects \subseteq Record
  BY DEF HeapInv, ObjectShape, Record
<1>3. ASSUME NEW o \in objects
      PROVE  /\ ObjectTyped(o) /\ ObjectTyped(After(o))
             /\ Left(o) => After(o).kind = "stack"
             /\ ~Left(o) => After(o) = o
             /\ o.kind # "stack" => ~Left(o)
  <2>1. ObjectTyped(o)
    BY DEF TablesInv, TypesInv
  <2>2. [o EXCEPT !.live = FALSE].id = o.id /\ [o EXCEPT !.live = FALSE].start = o.start
        /\ [o EXCEPT !.live = FALSE].frame = o.frame /\ [o EXCEPT !.live = FALSE].kind = o.kind
    BY <1>2 DEF Record
  <2>3. QED
    BY <2>1, <2>2 DEF ObjectTyped
<1>4. IsFiniteSet(objects')
  <2>1. f \in Surjection(objects, objects')
    BY <1>1 DEF Surjection
  <2> HIDE DEF f
  <2>2. QED
    BY <2>1, FS_Surjection DEF TablesInv, CountInv
<1> HIDE DEF After, Left, f
<1>5. HeapObjects(objects') = HeapObjects(objects)
  <2>1. ASSUME NEW o \in HeapObjects(objects) PROVE o \in objects'
    <3>1. o \in objects /\ o.kind = "heap"
      BY DEF HeapObjects
    <3>2. After(o) = o
      BY <1>3, <3>1
    <3>3. QED
      BY <1>1, <3>1, <3>2
  <2>2. ASSUME NEW o \in HeapObjects(objects') PROVE o \in objects
    <3>1. o \in objects' /\ o.kind = "heap"
      BY DEF HeapObjects
    <3>2. PICK q \in objects : o = After(q)
      BY <1>1, <3>1
    <3>3. ~Left(q)
      BY <1>3, <3>1, <3>2
    <3>4. QED
      BY <1>3, <3>2, <3>3
  <2>3. QED
    BY <2>1, <2>2 DEF HeapObjects
<1>6. CountInv'
  BY <1>1, <1>4, <1>5, SameHeap DEF TablesInv
<1>7. \A o \in objects' : ObjectTyped(o)
  BY <1>1, <1>3
<1>8. \A id \in ended' : id >= 1
  BY <1>1, <1>3 DEF TablesInv, TypesInv, ObjectTyped
<1>9. TypesInv'
  BY <1>1, <1>7, <1>8 DEF TablesInv, TypesInv, ObjectTyped, CapabilityTyped
<1>10. QED
  BY <1>6, <1>9 DEF TablesInv

-----------------------------------------------------------------------------
(* The heap.                                                               *)

(* A collection discounts what it sweeps: the heap objects that were live  *)
(* and are not marked, whatever becomes of the objects of the stack.       *)
LEMMA CollectedBytes ==
  ASSUME HeapInv, CountInv, NEW bottom, NEW root
  PROVE  LET after == Collected(bottom, root) IN
         /\ after.objects \subseteq objects /\ after.capabilities \subseteq capabilities
         /\ after.bytes = Bytes(HeapObjects(after.objects))
<1> DEFINE kept == Kept(bottom, root)
           heap == HeapObjects(objects)
           marked == Marked(bottom, root)
<1>1. kept \subseteq objects /\ marked \in SUBSET heap /\ HeapObjects(kept) = marked
  <2>1. marked \subseteq heap
    BY DEF Marked, HeapObjects
  <2> HIDE DEF marked
  <2>2. kept = {o \in objects : o.live /\ o.kind # "heap"} \cup marked
    BY DEF Kept, marked
  <2>3. QED
    BY <2>1, <2>2 DEF HeapObjects
<1>2. heap \ kept = heap \ marked
  <2>1. heap \ kept = heap \ HeapObjects(kept)
    BY DEF HeapObjects
  <2>2. QED
    BY <1>1, <2>1
<1>3. heap \in SUBSET Record /\ IsFiniteSet(heap)
  <2>1. heap \in SUBSET objects
    BY DEF HeapObjects
  <2>2. QED
    BY <2>1, Registered
<1>4. BytesOf(kept) = live_heap_bytes - Bytes(heap \ kept)
  BY DEF BytesOf, Bytes, HeapObjects
<1>5. Bytes(heap) - Bytes(heap \ marked) = Bytes(marked)
  BY <1>1, <1>3, BytesSplit
<1>6. BytesOf(kept) = Bytes(HeapObjects(kept))
  BY <1>1, <1>2, <1>4, <1>5 DEF CountInv
<1>7. /\ Collected(bottom, root).objects = kept
      /\ Collected(bottom, root).capabilities \subseteq capabilities
      /\ Collected(bottom, root).bytes = BytesOf(kept)
  BY DEF Collected, CapsOf
<1>8. QED
  BY <1>1, <1>6, <1>7

(* Some objects and capabilities are dropped.                              *)
LEMMA FewerTyped ==
  ASSUME TypesInv, objects' \subseteq objects, capabilities' \subseteq capabilities,
         UNCHANGED <<next_object_id, issued, halt, ended>>
  PROVE  TypesInv'
  BY DEF TypesInv, ObjectTyped, CapabilityTyped

(* A collection does.                                                      *)
LEMMA CollectTables ==
  ASSUME HeapInv, TablesInv, Collect
  PROVE  TablesInv'
<1> DEFINE after == Collected(sp, {})
<1>1. /\ objects' = after.objects /\ capabilities' = after.capabilities /\ live_heap_bytes' = after.bytes
      /\ UNCHANGED <<next_object_id, issued, halt, ended>>
  BY DEF Collect
<1>2. /\ after.objects \subseteq objects /\ after.capabilities \subseteq capabilities
      /\ after.bytes = Bytes(HeapObjects(after.objects))
  BY CollectedBytes DEF TablesInv
<1> HIDE DEF after
<1>3. IsFiniteSet(objects')
  BY <1>1, <1>2, FS_Subset DEF TablesInv, CountInv
<1>4. QED
  BY <1>1, <1>2, <1>3, CountNext, FewerTyped DEF TablesInv

(* malloc does.                                                            *)
LEMMA MallocTables ==
  ASSUME HeapInv, TablesInv, NEW n, NEW size \in Nat, NEW root, NEW copied,
         malloc(n, size, root, copied)
  PROVE  TablesInv'
<1> DEFINE after == Prepared(n, size, root)
<1>1. /\ after.objects \in SUBSET objects /\ after.capabilities \in SUBSET capabilities
      /\ after.bytes = Bytes(HeapObjects(after.objects))
  <2>1. CASE after = Uncollected
    BY <2>1 DEF Uncollected, TablesInv, CountInv
  <2>2. CASE after = Collected(sp + n, root)
    BY <2>2, CollectedBytes DEF TablesInv
  <2>3. QED
    BY <2>1, <2>2 DEF Prepared
<1>2. \/ /\ Replace(n, Data)
         /\ objects' = after.objects /\ capabilities' = after.capabilities
         /\ live_heap_bytes' = after.bytes /\ UNCHANGED <<next_object_id, issued>>
      \/ \E start \in LibcRoom(after.objects, Native(size)), t \in Token :
           /\ next_object_id <= MaxObjects
           /\ objects' = after.objects \cup {NewObject(next_object_id, start, size, "heap", 0)}
           /\ next_object_id' = next_object_id + 1
           /\ live_heap_bytes' = after.bytes + size
           /\ make_capability(after.capabilities, next_object_id, start, start + size, start, t)
           /\ Result(n, t, Cells(start, Native(size)), copied[start])
  BY DEF malloc
<1> HIDE DEF after
<1>3. after.objects \in SUBSET Record /\ IsFiniteSet(after.objects)
  BY <1>1, Registered DEF TablesInv
<1>4. CASE /\ Replace(n, Data)
           /\ objects' = after.objects /\ capabilities' = after.capabilities
           /\ live_heap_bytes' = after.bytes /\ UNCHANGED <<next_object_id, issued>>
  <2>1. UNCHANGED <<halt, ended>>
    BY <1>4 DEF Replace, Result
  <2>2. CountInv'
    BY <1>1, <1>3, <1>4, CountNext
  <2>3. TypesInv'
    BY <1>1, <1>4, <2>1, FewerTyped DEF TablesInv
  <2>4. QED
    BY <2>2, <2>3 DEF TablesInv
<1>5. ASSUME NEW start \in LibcRoom(after.objects, Native(size)), NEW t \in Token,
             next_object_id <= MaxObjects,
             objects' = after.objects \cup {NewObject(next_object_id, start, size, "heap", 0)},
             next_object_id' = next_object_id + 1, live_heap_bytes' = after.bytes + size,
             make_capability(after.capabilities, next_object_id, start, start + size, start, t),
             NEW fresh, NEW src, Result(n, t, fresh, src)
      PROVE  TablesInv'
  <2> DEFINE new == NewObject(next_object_id, start, size, "heap", 0)
  <2>1. UNCHANGED <<halt, ended>>
    BY <1>5 DEF Result
  <2>2. start \in Nat /\ start + size \in Nat
    <3>1. Native(size) \in Nat /\ HeapStart \in Int /\ HeapStart >= 0 /\ StackLow \in Int
      BY NativeHolds, Zones
    <3>2. start \in Nat
      BY <3>1 DEF LibcRoom
    <3>3. QED
      BY <3>2
  <2>3. next_object_id \in Nat /\ next_object_id >= 1 /\ MaxObjects \in Nat
    BY SafeHeapAssumption DEF HeapInv, ObjectShape, TablesInv, TypesInv
  <2>4. /\ new \in Record /\ new.live /\ new.kind = "heap" /\ new.size = size
        /\ new.id = next_object_id /\ ObjectTyped(new)
    BY <2>2, <2>3 DEF NewObject, Record, ObjectTyped
  <2>5. objects' = after.objects \cup {new}
    BY <1>5
  <2> HIDE DEF new
  <2>6. new \notin after.objects
    <3>1. \A o \in objects : o.id \in Nat /\ o.id < next_object_id
      BY ObjectFields DEF HeapInv
    <3>2. QED
      BY <1>1, <2>3, <2>4, <3>1
  <2>7. IsFiniteSet(objects')
    BY <1>3, <2>5, FS_AddElement
  <2>8. live_heap_bytes' = Bytes(HeapObjects(objects'))
    <3>1. HeapObjects(objects') = HeapObjects(after.objects) \cup {new}
      BY <2>4, <2>5 DEF HeapObjects
    <3>2. PICK old : old = HeapObjects(after.objects)
      OBVIOUS
    <3>3. old \in SUBSET Record /\ IsFiniteSet(old) /\ new \notin old
      <4>1. old \in SUBSET after.objects
        BY <3>2 DEF HeapObjects
      <4>2. QED
        BY <1>3, <2>6, <4>1, FS_Subset
    <3>4. Bytes(old \cup {new}) = Bytes(old) + size
      BY <2>4, <3>3, BytesAdd
    <3>5. QED
      BY <1>1, <1>5, <3>1, <3>2, <3>4
  <2>9. CountInv'
    BY <2>7, <2>8, CountNext
  <2>10. (\A c \in capabilities' : CapabilityTyped(c)) /\ DOMAIN issued' \subseteq Token
    BY <1>1, <1>5, <2>2, MadeTyped DEF TablesInv
  <2>11. \A o \in objects' : ObjectTyped(o)
    BY <1>1, <2>4, <2>5 DEF TablesInv, TypesInv
  <2>12. next_object_id' >= 1 /\ next_object_id' <= MaxObjects + 1
    BY <1>5, <2>3
  <2>13. TypesInv'
    BY <2>1, <2>10, <2>11, <2>12 DEF TablesInv, TypesInv, ObjectTyped, CapabilityTyped
  <2>14. QED
    BY <2>9, <2>13 DEF TablesInv
<1>6. QED
  BY <1>2, <1>4, <1>5

(* malloc, calloc and realloc do.                                          *)
LEMMA AllocateTables ==
  ASSUME HeapInv, TablesInv, NEW size \in Nat, Malloc(size) \/ Calloc(size) \/ Realloc(size)
  PROVE  TablesInv'
<1>1. CASE Malloc(size)
  BY <1>1, MallocTables DEF Malloc
<1>2. CASE Calloc(size)
  BY <1>2, MallocTables DEF Calloc
<1>3. CASE Realloc(size)
  <2>1. \/ Fail
        \/ Replace(1, Data) /\ UNCHANGED heapVars
        \/ \E root, copied : malloc(1, size, root, copied)
    BY <1>3 DEF Realloc
  <2>2. QED
    BY <2>1, FailTables, ResultTables, MallocTables DEF Replace
<1>4. QED
  BY <1>1, <1>2, <1>3

-----------------------------------------------------------------------------
(* At the start there is nothing on the heap, and main's objects fit.      *)
LEMMA InitTables ==
  ASSUME Init
  PROVE  TablesInv
<1>1. PICK k \in 1..MaxLocals :
        /\ objects = {NewObject(1, 1, GlobalCells, "global", 0)} \cup
             {NewObject(1 + i, StackHigh - i, 1, "stack", StackHigh) : i \in 1..k}
        /\ capabilities = {} /\ issued = <<>>
        /\ next_object_id = k + 2 /\ live_heap_bytes = 0 /\ halt = FALSE /\ ended = {}
  BY DEF Init
<1> DEFINE global == NewObject(1, 1, GlobalCells, "global", 0)
           f == [i \in 1..k |-> NewObject(1 + i, StackHigh - i, 1, "stack", StackHigh)]
           locals == {f[i] : i \in 1..k}
<1>2. k \in Nat /\ StackHigh \in Int /\ StackHigh - k >= 0
      /\ next_object_id >= 1 /\ next_object_id <= MaxObjects + 1
  <2>1. MaxObjects \in Nat /\ MaxObjects > MaxLocals /\ MaxLocals \in Nat /\ k <= MaxLocals /\ k \in Nat
    BY SafeHeapAssumption
  <2>2. StackHigh \in Int /\ StackHigh - MaxLocals >= 0
    BY Zones
  <2>3. QED
    BY <1>1, <2>1, <2>2
<1>3. ObjectTyped(global) /\ global.kind = "global"
  BY DEF ObjectTyped, NewObject
<1>4. \A o \in locals : ObjectTyped(o) /\ o.kind = "stack"
  <2>1. ASSUME NEW i \in 1..k PROVE ObjectTyped(f[i]) /\ f[i].kind = "stack"
    <3>1. 1 + i >= 1 /\ StackHigh - i >= 0 /\ StackHigh >= 0
      BY <1>2
    <3>2. QED
      BY <3>1 DEF ObjectTyped, NewObject
  <2> HIDE DEF f
  <2>2. QED
    BY <2>1
<1>5. IsFiniteSet(locals)
  <2>1. DOMAIN f = 1..k
    OBVIOUS
  <2> HIDE DEF f
  <2>2. QED
    BY <1>2, <2>1, ListedFinite
<1>6. objects = locals \cup {global}
  BY <1>1
<1> HIDE DEF global, locals
<1>7. IsFiniteSet(objects)
  BY <1>5, <1>6, FS_AddElement
<1>8. HeapObjects(objects) = {}
  BY <1>3, <1>4, <1>6 DEF HeapObjects
<1>9. CountInv
  BY <1>1, <1>7, <1>8, BytesNone DEF CountInv
<1>10. DOMAIN issued = {}
  BY <1>1
<1>11. TypesInv
  BY <1>1, <1>2, <1>3, <1>4, <1>6, <1>10 DEF TypesInv
<1>12. QED
  BY <1>9, <1>11 DEF TablesInv

(* Every step does.                                                        *)
LEMMA NextTables ==
  ASSUME HeapInv, TablesInv, [Next]_vars
  PROVE  TablesInv'
<1>1. 0..MaxSize \subseteq Nat /\ 0..MaxLocals \subseteq Nat /\ 1..MaxSize \subseteq Nat
      /\ 1..MaxLocals \subseteq Nat /\ -1..1 \subseteq Int /\ 0 \in Nat
  BY Zones
<1>2. CASE UNCHANGED vars
  BY <1>2, QuietTables DEF vars, TablesInv, TypesInv
<1>3. CASE \/ PushData \/ Pop \/ Load \/ Store \/ ToInteger \/ Free
           \/ \E size \in 0..MaxSize : Memcpy(size)
           \/ \E ordered \in BOOLEAN : Compare(ordered)
           \/ \E n \in 1..MaxSize : DeclareVla(n)
  BY <1>3, ExpressionTables
<1>4. CASE AddressOfGlobal \/ AddressOfLocal \/ AddressOfVla
  BY <1>4, AddressTables
<1>5. CASE \E size \in 0..MaxSize : Malloc(size) \/ Calloc(size) \/ Realloc(size)
  BY <1>1, <1>5, AllocateTables
<1>6. CASE Collect
  BY <1>6, CollectTables
<1>7. CASE Leave
  BY <1>7, LeaveTables
<1>8. CASE \E n \in 0..MaxLocals, k \in 1..MaxLocals : Enter(n, k)
  BY <1>1, <1>8, EnterTables
<1>9. CASE (\E n \in 1..MaxSize : Narrow(n)) \/ (\E delta \in -1..1 : Add(delta))
  BY <1>1, <1>9, PointerTables
<1>10. QED
  BY <1>2, <1>3, <1>4, <1>5, <1>6, <1>7, <1>8, <1>9 DEF Next

(* The invariants hold in every state the program reaches.                 *)
THEOREM TablesInvariant == Spec => [](HeapInv /\ TablesInv)
<1>1. Init => HeapInv /\ TablesInv
  BY InitInv, InitTables
<1>2. HeapInv /\ TablesInv /\ [Next]_vars => (HeapInv /\ TablesInv)'
  BY NextInv, NextTables
<1>3. QED
  BY <1>1, <1>2, PTL DEF Spec

(* The count that decides when to collect is exact (malloc adds to it,     *)
(* collect_garbage takes off what it sweeps): objects that die with their  *)
(* frame are not in it, and swept ones do not stay in it.                  *)
THEOREM LiveBytes == Spec => []LiveBytesExact
<1>1. CountInv => LiveBytesExact
  BY DEF CountInv, LiveBytesExact, Bytes, HeapObjects
<1>2. QED
  BY <1>1, TablesInvariant, PTL DEF TablesInv

(* Every variable has its type, and the stack pointer stays in the stack.  *)
THEOREM TypeCorrect == Spec => []TypeOK
<1>1. HeapInv /\ GcInv /\ TablesInv => TypeOK
  <2> SUFFICES ASSUME HeapInv, GcInv, TablesInv PROVE TypeOK
    OBVIOUS
  <2>1. mem \in [0..StackHigh - 1 -> Token \cup {Data}] /\ init \subseteq DOMAIN mem
    BY DEF GcInv, MemoryShape
  <2>2. sp \in StackLow..StackHigh
    <3>1. Bottom \in Int /\ Bottom <= StackHigh
      BY BottomIsLow DEF GcInv
    <3>2. QED
      BY <3>1, Zones DEF HeapInv, StackShape
  <2>3. \A i \in DOMAIN frames : frames[i] \in [base : Nat, locals : Nat, vla : Nat]
    <3>1. DOMAIN frames = 1..Len(frames)
      BY DEF HeapInv, StackShape
    <3>2. ASSUME NEW i \in 1..Len(frames) PROVE frames[i] \in [base : Nat, locals : Nat, vla : Nat]
      <4>1. /\ Len(frames) \in 1..Len(frames) /\ Bottom = Floor(Top) /\ Top = frames[Len(frames)]
            /\ Bottom \in Int /\ Top.base \in Int /\ Top.locals \in Nat /\ Top.vla \in Nat
            /\ frames[i].base \in Int /\ frames[i].locals \in Nat /\ frames[i].vla \in Nat
            /\ i # Len(frames) => Top.base <= Floor(frames[i])
        BY TopFrame DEF HeapInv
      <4>2. Bottom >= 0
        BY <2>2, Zones, <4>1 DEF HeapInv, StackShape, StackLow, HeapStart
      <4>3. Top.base >= 0
        <5>1. Bottom = Top.base - Top.locals - Top.vla
          BY <4>1 DEF Floor
        <5>2. QED
          BY <4>1, <4>2, <5>1
      <4>4. frames[i].base >= 0
        BY <4>1, <4>3 DEF Floor
      <4>5. frames[i] \in Frame
        BY DEF HeapInv, StackShape
      <4>6. QED
        BY <4>1, <4>4, <4>5 DEF Frame
    <3>3. QED
      BY <3>1, <3>2
  <2>4. objects \subseteq Object
    <3>1. ASSUME NEW o \in objects PROVE o \in Object
      <4>1. o \in Record /\ ObjectTyped(o)
        BY DEF HeapInv, ObjectShape, Record, TablesInv, TypesInv
      <4>2. QED
        BY <4>1 DEF Record, Object, ObjectTyped
    <3>2. QED
      BY <3>1
  <2>5. capabilities \subseteq Capability
    <3>1. ASSUME NEW c \in capabilities PROVE c \in Capability
      <4>1. c \in [token : Token, object_id : Nat, lower : Int, upper : Int, cursor : Int]
            /\ CapabilityTyped(c)
        BY DEF HeapInv, CapabilityShape, TablesInv, TypesInv
      <4>2. QED
        BY <4>1 DEF Capability, CapabilityTyped
    <3>2. QED
      BY <3>1
  <2>6. next_object_id \in 1..MaxObjects + 1 /\ MaxObjects \in Nat
    BY SafeHeapAssumption DEF HeapInv, ObjectShape, TablesInv, TypesInv
  <2>7. live_heap_bytes \in Nat
    <3>1. HeapObjects(objects) \in SUBSET objects
      BY DEF HeapObjects
    <3>2. QED
      BY <3>1, Registered, BytesNat DEF TablesInv, CountInv
  <2>8. ended \subseteq 1..MaxObjects
    BY <2>6 DEF HeapInv, Staleness, TablesInv, TypesInv
  <2>9. halt \in BOOLEAN /\ DOMAIN issued \subseteq Token
    BY DEF TablesInv, TypesInv
  <2>10. QED
    BY <2>1, <2>2, <2>3, <2>4, <2>5, <2>6, <2>7, <2>8, <2>9 DEF TypeOK
<1>2. QED
  BY <1>1, GcInvariant, TablesInvariant, PTL
=============================================================================
