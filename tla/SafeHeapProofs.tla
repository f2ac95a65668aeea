--------------------------- MODULE SafeHeapProofs ---------------------------
(***************************************************************************)
(* Proofs about SafeHeap: pointers into frames that were left are never    *)
(* usable again, and usable pointers stay inside objects that are apart,   *)
(* for memories, programs and token sets of any size.                      *)
(***************************************************************************)
EXTENDS SafeHeap, TLAPS

(* Frames lie below one another, the temporaries below the last.           *)
Floor(f) == f.base - f.locals - f.vla

Frame == [base : Int, locals : Nat, vla : Nat]

StackShape ==
  /\ sp \in Int /\ StackLow <= sp /\ sp <= Bottom
  /\ frames \in Seq(Frame) /\ Len(frames) >= 1
  /\ \A i, j \in 1..Len(frames) : i < j => frames[j].base <= Floor(frames[i])

(* A registered stack object is a local or the VLA of its frame.           *)
InFrame(o, f) ==
  /\ o.frame = f.base
  /\ \/ o.start \in f.base - f.locals..f.base - 1 /\ o.size = 1
     \/ f.vla > 0 /\ o.start = Floor(f) /\ o.size = f.vla

InPlace(o) ==
  /\ o.kind = "global" => o.start >= 1 /\ o.start + o.size <= HeapStart
  /\ o.kind = "heap" => o.start >= HeapStart /\ o.start + o.size <= StackLow
  /\ o.kind = "stack" /\ o.live => \E i \in 1..Len(frames) : InFrame(o, frames[i])

(* Objects are known by their number, and lie where their kind says; the   *)
(* global stays.                                                           *)
ObjectShape ==
  /\ next_object_id \in Nat
  /\ objects \subseteq [id : Nat, start : Int, size : Nat, frame : Int,
                        kind : {"global", "stack", "heap"}, live : BOOLEAN]
  /\ \A o \in objects : o.id < next_object_id /\ InPlace(o)
  /\ \A o, q \in objects : o.id = q.id => o = q
  /\ \A o, q \in objects : o.live /\ q.live /\ o # q => Apart(o, q)
  /\ \E o \in objects : o.live /\ o.kind = "global" /\ o.start = 1 /\ o.size = GlobalCells

(* A token keeps the object it was issued for.                             *)
CapabilityShape ==
  /\ capabilities \subseteq [token : Token, object_id : Nat, lower : Int, upper : Int, cursor : Int]
  /\ \A c \in capabilities :
       /\ c.object_id < next_object_id
       /\ c.token \in DOMAIN issued /\ issued[c.token] = c.object_id
  /\ \A c \in capabilities, o \in objects : c.object_id = o.id /\ o.live => InBounds(c, o)

Staleness ==
  /\ \A id \in ended : id \in Nat /\ id < next_object_id
  /\ \A o \in objects : o.id \in ended => ~o.live

HeapInv == StackShape /\ ObjectShape /\ CapabilityShape /\ Staleness


-----------------------------------------------------------------------------
(* Ranges of cells that follow one another share none.                     *)
LEMMA RangesApart ==
  ASSUME NEW a \in Int, NEW b \in Int, NEW m \in Int, NEW n \in Int, a + m <= b
  PROVE Cells(a, m) \cap Cells(b, n) = {} /\ Cells(b, n) \cap Cells(a, m) = {}
  BY DEF Cells

(* The zones of memory are where their names say.                          *)
LEMMA Zones ==
  /\ HeapStart \in Int /\ StackLow \in Int /\ StackHigh \in Int /\ HeapStart <= StackLow
  /\ GlobalCells \in Nat /\ GlobalCells > 0 /\ HeapStart = GlobalCells + 1
  /\ MaxLocals \in Nat /\ MaxSize \in Nat
  /\ StackHigh - MaxLocals >= StackLow
  BY SafeHeapAssumption DEF HeapStart, StackLow, StackHigh

(* Nothing but the stack pointer moves.                                    *)
LEMMA MoveSp ==
  ASSUME HeapInv, UNCHANGED <<frames, heapVars, ended>>,
         sp' \in Int, StackLow <= sp', sp' <= Bottom
  PROVE HeapInv'
  BY DEF HeapInv, StackShape, ObjectShape, CapabilityShape, Staleness, heapVars, Bottom, Top,
         InPlace, InFrame, Floor

(* The last frame, and what it says of the stack.                          *)
LEMMA TopFrame ==
  ASSUME StackShape
  PROVE /\ Len(frames) \in 1..Len(frames)
        /\ Top = frames[Len(frames)]
        /\ Top.base \in Int /\ Top.locals \in Nat /\ Top.vla \in Nat
        /\ Bottom = Floor(Top) /\ Bottom \in Int /\ Depth \in Nat /\ Depth = Bottom - sp
        /\ \A i \in 1..Len(frames) : i # Len(frames) => Top.base <= Floor(frames[i])
        /\ \A i \in 1..Len(frames) : /\ frames[i].base \in Int /\ frames[i].locals \in Nat
                                     /\ frames[i].vla \in Nat /\ Floor(frames[i]) \in Int
<1>1. Len(frames) \in Nat /\ Len(frames) \in 1..Len(frames)
  BY DEF StackShape
<1>2. \A i \in 1..Len(frames) : frames[i] \in Frame
  BY DEF StackShape
<1>3. Top \in Frame /\ Top = frames[Len(frames)]
  BY <1>1, <1>2 DEF Top
<1>4. Bottom = Floor(Top) /\ Bottom \in Int /\ sp \in Int /\ sp <= Bottom
  BY <1>3 DEF StackShape, Bottom, Floor, Frame
<1>5. Depth \in Nat /\ Depth = Bottom - sp
  BY <1>4 DEF Depth
<1>6. \A i \in 1..Len(frames) : i # Len(frames) => Top.base <= Floor(frames[i])
  BY <1>1, <1>3 DEF StackShape
<1>7. \A i \in 1..Len(frames) : /\ frames[i].base \in Int /\ frames[i].locals \in Nat
                                /\ frames[i].vla \in Nat /\ Floor(frames[i]) \in Int
  BY <1>2 DEF Floor, Frame
<1>8. Top.base \in Int /\ Top.locals \in Nat /\ Top.vla \in Nat
  BY <1>3 DEF Frame
<1>9. QED
  BY <1>1, <1>3, <1>4, <1>5, <1>6, <1>7, <1>8

(* What the fields of an object are.                                       *)
LEMMA ObjectFields ==
  ASSUME ObjectShape, NEW o \in objects
  PROVE /\ o.id \in Nat /\ o.start \in Int /\ o.size \in Nat /\ o.frame \in Int
        /\ o.kind \in {"global", "stack", "heap"} /\ o.live \in BOOLEAN
        /\ o.id < next_object_id /\ InPlace(o)
  BY DEF ObjectShape

(* An object of the stack starts at or above the bottom of the locals.     *)
LEMMA AboveBottom ==
  ASSUME StackShape, ObjectShape, NEW o \in objects, o.live, o.kind = "stack"
  PROVE o.start >= Bottom
<1>1. PICK i \in 1..Len(frames) : InFrame(o, frames[i])
  BY ObjectFields DEF InPlace
<1>2. /\ frames[i].base \in Int /\ frames[i].locals \in Nat /\ frames[i].vla \in Nat
      /\ Floor(frames[i]) \in Int
  BY TopFrame
<1>3. o.start \in Int /\ o.start >= Floor(frames[i])
  BY <1>1, <1>2, ObjectFields DEF InFrame, Floor
<1>4. i # Len(frames) => Floor(frames[i]) >= Bottom
  BY <1>2, TopFrame DEF Floor
<1>5. i = Len(frames) => Floor(frames[i]) = Bottom
  BY TopFrame
<1>6. QED
  BY <1>2, <1>3, <1>4, <1>5, TopFrame

(* Popping n temporaries and pushing one.                                  *)
LEMMA ResultInv ==
  ASSUME HeapInv, NEW n \in Nat, NEW w, NEW fresh, NEW src, n <= Depth + 1,
         Result(n, w, fresh, src)
  PROVE sp' \in Int /\ StackLow <= sp' /\ sp' <= Bottom /\ UNCHANGED <<frames, ended>>
<1>1. sp \in Int /\ Depth \in Nat /\ Depth = Bottom - sp /\ Bottom \in Int
  BY TopFrame DEF HeapInv, StackShape
<1>2. sp' = sp + n - 1 /\ StackLow <= sp' /\ UNCHANGED <<frames, ended>>
  BY DEF Result
<1>3. QED
  BY <1>1, <1>2

-----------------------------------------------------------------------------
(* Live objects are old ones, or have a new number.                        *)
OldOrNew == \A o \in objects' : o.live => o \in objects \/ o.id >= next_object_id

(* Then what was stale stays so,                                           *)
LEMMA KeepStaleness ==
  ASSUME HeapInv, ObjectShape', OldOrNew, ended' = ended, next_object_id <= next_object_id'
  PROVE Staleness'
<1>1. next_object_id \in Nat /\ next_object_id' \in Nat
  BY DEF HeapInv, ObjectShape
<1>2. \A o \in objects' : o.id \in Nat
  BY DEF ObjectShape
<1>3. QED
  BY <1>1, <1>2 DEF HeapInv, Staleness, OldOrNew

(* and the capabilities that are kept stay what they were,                 *)
LEMMA KeepCapabilities ==
  ASSUME HeapInv, ObjectShape', OldOrNew, capabilities' \subseteq capabilities, issued' = issued,
         next_object_id <= next_object_id'
  PROVE CapabilityShape'
<1>1. next_object_id \in Nat /\ next_object_id' \in Nat
  BY DEF HeapInv, ObjectShape
<1>2. \A c \in capabilities : /\ c.object_id \in Nat /\ c.object_id < next_object_id
                             /\ c.token \in DOMAIN issued /\ issued[c.token] = c.object_id
  BY DEF HeapInv, CapabilityShape
<1>3. ASSUME NEW c \in capabilities', NEW o \in objects', c.object_id = o.id, o.live
      PROVE InBounds(c, o)
  <2>1. o \in objects
    BY <1>1, <1>2, <1>3 DEF OldOrNew
  <2>2. QED
    BY <1>3, <2>1 DEF HeapInv, CapabilityShape
<1>4. capabilities' \subseteq [token : Token, object_id : Nat, lower : Int, upper : Int, cursor : Int]
  BY DEF HeapInv, CapabilityShape
<1>5. QED
  BY <1>1, <1>2, <1>3, <1>4 DEF CapabilityShape, InBounds

(* also when one is made for a part of a live object.                      *)
LEMMA MakeCapability ==
  ASSUME HeapInv, ObjectShape', OldOrNew, next_object_id <= next_object_id',
         NEW caps \in SUBSET capabilities, NEW t \in Token, NEW id \in Nat,
         NEW lower \in Int, NEW upper \in Int, NEW cursor \in Int,
         make_capability(caps, id, lower, upper, cursor, t),
         id < next_object_id',
         \A o \in objects' : o.id = id /\ o.live =>
           /\ o.start <= lower /\ lower <= cursor
           /\ cursor <= upper /\ upper <= o.start + o.size
  PROVE CapabilityShape'
<1> DEFINE new == [token |-> t, object_id |-> id, lower |-> lower, upper |-> upper, cursor |-> cursor]
<1>1. CASE capabilities' = caps /\ UNCHANGED issued
  BY <1>1, KeepCapabilities
<1>2. CASE /\ t \notin DOMAIN issued
           /\ capabilities' = caps \cup {new}
           /\ issued' = [u \in DOMAIN issued \cup {t} |-> IF u = t THEN id ELSE issued[u]]
  <2>1. next_object_id \in Nat /\ next_object_id' \in Nat
    BY DEF HeapInv, ObjectShape
  <2>2. \A c \in capabilities : /\ c.object_id \in Nat /\ c.object_id < next_object_id
                               /\ c.token \in DOMAIN issued /\ issued[c.token] = c.object_id
    BY DEF HeapInv, CapabilityShape
  <2>3. new \in [token : Token, object_id : Nat, lower : Int, upper : Int, cursor : Int]
    OBVIOUS
  <2>4. capabilities' \subseteq [token : Token, object_id : Nat, lower : Int, upper : Int, cursor : Int]
    BY <1>2, <2>3 DEF HeapInv, CapabilityShape
  <2>5. ASSUME NEW c \in capabilities'
        PROVE /\ c.object_id < next_object_id'
              /\ c.token \in DOMAIN issued' /\ issued'[c.token] = c.object_id
    <3>1. CASE c \in caps
      BY <3>1, <1>2, <2>1, <2>2
    <3>2. CASE c = new
      BY <3>2, <1>2
    <3>3. QED
      BY <2>5, <3>1, <3>2, <1>2
  <2>6. ASSUME NEW c \in capabilities', NEW o \in objects', c.object_id = o.id, o.live
        PROVE InBounds(c, o)
    <3>1. CASE c \in caps
      <4>1. o \in objects
        BY <2>1, <2>2, <2>6, <3>1 DEF OldOrNew
      <4>2. QED
        BY <2>6, <3>1, <4>1 DEF HeapInv, CapabilityShape
    <3>2. CASE c = new
      BY <2>6, <3>2 DEF InBounds
    <3>3. QED
      BY <2>6, <3>1, <3>2, <1>2
  <2>7. QED
    BY <2>4, <2>5, <2>6 DEF CapabilityShape, InBounds
<1>3. QED
  BY <1>1, <1>2 DEF make_capability

(* Some objects are dropped, and not a global.                             *)
LEMMA FewerObjects ==
  ASSUME HeapInv, objects' \subseteq objects, UNCHANGED <<frames, next_object_id>>,
         \A o \in objects : o.live /\ o.kind = "global" => o \in objects'
  PROVE ObjectShape' /\ OldOrNew
<1>1. \A o \in objects' : o.id < next_object_id' /\ InPlace(o)'
  BY DEF HeapInv, ObjectShape, InPlace, InFrame, Floor
<1>2. \A o, q \in objects' : /\ o.id = q.id => o = q
                             /\ o.live /\ q.live /\ o # q => Apart(o, q)
  BY DEF HeapInv, ObjectShape
<1>3. \E o \in objects' : o.live /\ o.kind = "global" /\ o.start = 1 /\ o.size = GlobalCells
  BY DEF HeapInv, ObjectShape
<1>4. next_object_id' \in Nat
      /\ objects' \subseteq [id : Nat, start : Int, size : Nat, frame : Int,
                             kind : {"global", "stack", "heap"}, live : BOOLEAN]
  BY DEF HeapInv, ObjectShape
<1>5. OldOrNew
  BY DEF OldOrNew
<1>6. QED
  BY <1>1, <1>2, <1>3, <1>4, <1>5 DEF ObjectShape, Apart

(* The same, and an object is added in a place of its own.                 *)
LEMMA OneMoreObject ==
  ASSUME HeapInv, NEW objs \in SUBSET objects, NEW new,
         new \in [id : Nat, start : Int, size : Nat, frame : Int,
                  kind : {"global", "stack", "heap"}, live : BOOLEAN],
         new.id = next_object_id, InPlace(new),
         \A o \in objs : o.live => Apart(new, o),
         objects' = objs \cup {new}, next_object_id' = next_object_id + 1, frames' = frames,
         \A o \in objects : o.live /\ o.kind = "global" => o \in objs
  PROVE ObjectShape' /\ OldOrNew
<1>1. next_object_id \in Nat /\ next_object_id' \in Nat /\ next_object_id < next_object_id'
  BY DEF HeapInv, ObjectShape
<1>2. \A o \in objs : o.id \in Nat /\ o.id < next_object_id /\ InPlace(o)
  BY DEF HeapInv, ObjectShape
<1>3. \A o \in objects' : o.id < next_object_id' /\ InPlace(o)'
  BY <1>1, <1>2 DEF InPlace, InFrame, Floor
<1>4. \A o, q \in objects' : o.id = q.id => o = q
  BY <1>1, <1>2 DEF HeapInv, ObjectShape
<1>5. ASSUME NEW o \in objects', NEW q \in objects', o.live, q.live, o # q PROVE Apart(o, q)
  <2>1. Apart(new, o) => Apart(o, new)
    BY DEF Apart
  <2>2. CASE o \in objs /\ q \in objs
    BY <1>5, <2>2 DEF HeapInv, ObjectShape
  <2>3. CASE o \in objs /\ q = new
    BY <1>5, <2>1, <2>3
  <2>4. CASE o = new /\ q \in objs
    BY <1>5, <2>4
  <2>5. QED
    BY <1>5, <2>2, <2>3, <2>4
<1>6. objects' \subseteq [id : Nat, start : Int, size : Nat, frame : Int,
                          kind : {"global", "stack", "heap"}, live : BOOLEAN]
  BY DEF HeapInv, ObjectShape
<1>7. \E o \in objects' : o.live /\ o.kind = "global" /\ o.start = 1 /\ o.size = GlobalCells
  BY DEF HeapInv, ObjectShape
<1>8. OldOrNew
  BY <1>1 DEF OldOrNew
<1>9. QED
  BY <1>1, <1>3, <1>4, <1>5, <1>6, <1>7, <1>8 DEF ObjectShape, Apart

-----------------------------------------------------------------------------
(* Steps that leave the tables alone.                                      *)

(* Temporaries are replaced by one, and nothing else changes.              *)
LEMMA QuietResult ==
  ASSUME HeapInv, NEW n \in Nat, NEW w, NEW fresh, NEW src, n <= Depth + 1,
         Result(n, w, fresh, src), UNCHANGED heapVars
  PROVE HeapInv'
  BY ResultInv, MoveSp

(* Nothing changes when the runtime stops the program.                     *)
LEMMA FailInv ==
  ASSUME HeapInv, Fail
  PROVE HeapInv'
  BY MoveSp, TopFrame DEF Fail, HeapInv, StackShape

(* The frames stay what they are when only the top of the stack moves.     *)
LEMMA SameFrames ==
  ASSUME HeapInv, UNCHANGED frames, sp' \in Int, StackLow <= sp', sp' <= Bottom
  PROVE StackShape'
  BY DEF HeapInv, StackShape, Bottom, Top, Floor

(* A token is made for a part of an object that is there.                  *)
LEMMA DeriveInv ==
  ASSUME HeapInv, NEW n \in Nat, n <= Depth + 1, NEW o \in objects, o.live,
         NEW lower \in Int, NEW upper \in Int, NEW cursor \in Int,
         o.start <= lower, lower <= cursor, cursor <= upper, upper <= o.start + o.size,
         Derive(n, o.id, lower, upper, cursor)
  PROVE HeapInv'
<1>1. PICK t \in Token : /\ make_capability(capabilities, o.id, lower, upper, cursor, t)
                         /\ Replace(n, t)
                         /\ UNCHANGED <<objects, next_object_id, live_heap_bytes>>
  BY DEF Derive
<1>2. StackShape' /\ UNCHANGED <<frames, ended>>
  BY <1>1, ResultInv, SameFrames DEF Replace
<1>3. ObjectShape' /\ OldOrNew
  BY <1>1, <1>2, FewerObjects
<1>4. next_object_id \in Nat /\ o.id \in Nat /\ o.id < next_object_id
  BY ObjectFields DEF HeapInv, ObjectShape
<1>5. \A q \in objects' : q.id = o.id => q = o
  BY <1>1 DEF HeapInv, ObjectShape
<1>6. CapabilityShape'
  BY <1>1, <1>3, <1>4, <1>5, MakeCapability
<1>7. Staleness'
  BY <1>1, <1>2, <1>3, <1>4, KeepStaleness
<1>8. QED
  BY <1>2, <1>3, <1>6, <1>7 DEF HeapInv

(* Looking an address up finds the object that has it.                     *)
LEMMA FindObject ==
  ASSUME ObjectShape, NEW address \in Int, NEW o \in objects, o.live,
         address \in Cells(o.start, o.size)
  PROVE find_object(address) = {o}
<1>1. \A q \in objects : q.live /\ address \in Cells(q.start, q.size) => q = o
  BY DEF ObjectShape, Apart
<1>2. o.size \in Nat /\ o.id \in Nat
  BY ObjectFields
<1>3. QED
  BY <1>1, <1>2 DEF find_object

(* The address of a declared object, which is registered if it is new.     *)
LEMMA FromRawInv ==
  ASSUME HeapInv, NEW address \in Int, NEW n \in Nat, from_raw(address, n),
         (\A o \in objects : o.live => address \notin Cells(o.start, o.size)) =>
           LET new == NewObject(next_object_id, address, n, "stack", Top.base) IN
           /\ InPlace(new)
           /\ \A o \in objects : o.live => Apart(new, o)
  PROVE HeapInv'
<1> DEFINE new == NewObject(next_object_id, address, n, "stack", Top.base)
<1>0. 0 <= Depth + 1 /\ 0 \in Nat
  BY TopFrame DEF HeapInv
<1>1. ASSUME NEW o \in find_object(address),
             IF n > o.start + o.size - address THEN Fail
             ELSE Derive(0, o.id, address, address + n, address)
      PROVE HeapInv'
  <2>1. o \in objects /\ o.live /\ address \in Cells(o.start, o.size)
    BY DEF find_object
  <2>2. o.start \in Int /\ o.size \in Nat
    BY <2>1, ObjectFields DEF HeapInv
  <2>3. CASE n > o.start + o.size - address
    BY <1>1, <2>3, FailInv
  <2>4. CASE ~(n > o.start + o.size - address)
    <3>1. Derive(0, o.id, address, address + n, address)
      BY <1>1, <2>4
    <3>2. /\ o.start <= address /\ address <= address + n
          /\ address + n <= o.start + o.size /\ address + n \in Int
      BY <2>1, <2>2, <2>4 DEF Cells
    <3>3. QED
      BY <1>0, <2>1, <3>1, <3>2, DeriveInv
  <2>5. QED
    BY <2>3, <2>4
<1>2. ASSUME find_object(address) = {},
             objects' = objects \cup {new}, next_object_id' = next_object_id + 1,
             NEW t \in Token,
             make_capability(capabilities, next_object_id, address, address + n, address, t),
             Replace(0, t)
      PROVE HeapInv'
  <2>1. \A o \in objects : o.live => address \notin Cells(o.start, o.size)
    BY <1>2, FindObject DEF HeapInv
  <2>2. InPlace(new) /\ \A o \in objects : o.live => Apart(new, o)
    BY <2>1
  <2>3. StackShape' /\ UNCHANGED <<frames, ended>>
    BY <1>0, <1>2, ResultInv, SameFrames DEF Replace
  <2>4. next_object_id \in Nat /\ Top.base \in Int
    BY TopFrame DEF HeapInv, ObjectShape
  <2>5. /\ new \in [id : Nat, start : Int, size : Nat, frame : Int,
                    kind : {"global", "stack", "heap"}, live : BOOLEAN]
        /\ new.id = next_object_id /\ new.start = address /\ new.size = n
    BY <2>4 DEF NewObject
  <2>6. ObjectShape' /\ OldOrNew
    <3> HIDE DEF new
    <3>1. QED
      BY <1>2, <2>2, <2>3, <2>5, OneMoreObject
  <2>7. ASSUME NEW o \in objects', o.id = next_object_id, o.live
        PROVE /\ o.start <= address /\ address <= address
              /\ address <= address + n /\ address + n <= o.start + o.size
    <3>1. o = new
      BY <1>2, <2>4, <2>7, ObjectFields DEF HeapInv
    <3>2. QED
      BY <2>5, <3>1
  <2>8. CapabilityShape'
    BY <1>2, <2>4, <2>6, <2>7, MakeCapability
  <2>9. Staleness'
    BY <1>2, <2>3, <2>4, <2>6, KeepStaleness
  <2>10. QED
    BY <2>3, <2>6, <2>8, <2>9 DEF HeapInv
<1>3. QED
  BY <1>1, <1>2 DEF from_raw

(* Cells are counted from their start.                                     *)
LEMMA CellsFrom ==
  ASSUME NEW a \in Int, NEW n \in Int
  PROVE \A x : x \in Cells(a, n) <=> x \in Int /\ a <= x /\ x < a + n
  BY DEF Cells

(* The addresses a program can take.                                       *)
LEMMA AddressInv ==
  ASSUME HeapInv, AddressOfGlobal \/ AddressOfLocal \/ AddressOfVla
  PROVE HeapInv'
<1> DEFINE new(a, n) == NewObject(next_object_id, a, n, "stack", Top.base)
<1>0. /\ Top.base \in Int /\ Top.locals \in Nat /\ Top.vla \in Nat /\ Len(frames) \in 1..Len(frames)
      /\ Top = frames[Len(frames)] /\ Bottom = Floor(Top) /\ Bottom \in Int
      /\ next_object_id \in Nat /\ StackLow <= Bottom
  BY TopFrame, Zones DEF HeapInv, ObjectShape, StackShape
<1>1. CASE AddressOfGlobal
  <2>1. PICK g \in objects : g.live /\ g.start = 1 /\ g.size = GlobalCells
    BY DEF HeapInv, ObjectShape
  <2>2. 1 \in Cells(g.start, g.size)
    BY <2>1, Zones, CellsFrom
  <2>3. QED
    BY <1>1, <2>1, <2>2, Zones, FromRawInv DEF AddressOfGlobal
<1>2. CASE AddressOfLocal
  <2>1. PICK i \in 1..Top.locals : from_raw(Top.base - i, 1)
    BY <1>2 DEF AddressOfLocal
  <2>2. i \in Int /\ Top.base - i \in Int /\ Top.base - i \in Top.base - Top.locals..Top.base - 1
    BY <1>0, <2>1
  <2>3. InPlace(new(Top.base - i, 1))
    BY <1>0, <2>2 DEF NewObject, InPlace, InFrame
  <2>4. ASSUME NEW o \in objects, o.live, Top.base - i \notin Cells(o.start, o.size)
        PROVE Apart(new(Top.base - i, 1), o)
    <3>1. o.start \in Int /\ o.size \in Nat
      BY ObjectFields DEF HeapInv
    <3>2. \A x : x \in Cells(Top.base - i, 1) => x = Top.base - i
      BY <2>2, CellsFrom
    <3>3. QED
      BY <2>4, <3>2 DEF Apart, NewObject
  <2>5. QED
    BY <2>1, <2>2, <2>3, <2>4, FromRawInv
<1>3. CASE AddressOfVla
  <2>1. Top.vla > 0 /\ from_raw(Bottom, Top.vla)
    BY <1>3 DEF AddressOfVla
  <2>2. InPlace(new(Bottom, Top.vla))
    BY <1>0, <2>1 DEF NewObject, InPlace, InFrame
  <2>3. ASSUME NEW o \in objects, o.live, Bottom \notin Cells(o.start, o.size)
        PROVE Apart(new(Bottom, Top.vla), o)
    <3>1. /\ o.start \in Int /\ o.size \in Nat /\ InPlace(o)
          /\ o.kind \in {"global", "stack", "heap"}
      BY ObjectFields DEF HeapInv
    <3>2. CASE o.kind # "stack"
      <4>1. o.start + o.size <= Bottom
        BY <1>0, <3>1, <3>2, Zones DEF InPlace
      <4>2. QED
        BY <1>0, <3>1, <4>1, RangesApart DEF Apart, NewObject
    <3>3. CASE o.kind = "stack"
      <4>1. PICK i \in 1..Len(frames) : InFrame(o, frames[i])
        BY <2>3, <3>1, <3>3 DEF InPlace
      <4>2. /\ frames[i].base \in Int /\ frames[i].locals \in Nat /\ frames[i].vla \in Nat
            /\ Floor(frames[i]) \in Int
            /\ i # Len(frames) => Top.base <= Floor(frames[i])
        BY TopFrame DEF HeapInv
      <4>3. o.start >= Floor(frames[i])
        BY <3>1, <4>1, <4>2 DEF InFrame, Floor
      <4>4. o.start >= Bottom + Top.vla
        <5>1. CASE i # Len(frames)
          <6>1. Bottom + Top.vla <= Top.base
            BY <1>0 DEF Floor
          <6>2. QED
            BY <1>0, <3>1, <4>2, <4>3, <5>1, <6>1
        <5>2. CASE i = Len(frames)
          <6>1. o.size > 0
            BY <3>1, <4>1, <4>2 DEF InFrame
          <6>2. o.start = Bottom => Bottom \in Cells(o.start, o.size)
            BY <1>0, <3>1, <6>1, CellsFrom
          <6>3. o.start # Bottom
            BY <2>3, <6>2
          <6>4. QED
            BY <1>0, <3>1, <4>1, <5>2, <6>3 DEF InFrame, Floor
        <5>3. QED
          BY <5>1, <5>2
      <4>5. QED
        BY <1>0, <3>1, <4>4, RangesApart DEF Apart, NewObject
    <3>4. QED
      BY <3>2, <3>3
  <2>4. QED
    BY <1>0, <2>1, <2>2, <2>3, FromRawInv
<1>4. QED
  BY <1>1, <1>2, <1>3

-----------------------------------------------------------------------------
(* Frames.                                                                 *)

(* A call: the locals of the new frame are registered below all others.    *)
LEMMA EnterInv ==
  ASSUME HeapInv, NEW n \in Nat, NEW k \in Nat, Enter(n, k)
  PROVE HeapInv'
<1> DEFINE base == sp + n
           new == [base |-> base, locals |-> k, vla |-> 0]
           locals == {NewObject(next_object_id + i - 1, base - i, 1, "stack", base) : i \in 1..k}
<1>1. /\ n <= Depth /\ k >= 1 /\ base - k >= StackLow
      /\ frames' = Append(frames, new) /\ sp' = base - k
      /\ objects' = objects \cup locals /\ next_object_id' = next_object_id + k
      /\ UNCHANGED <<capabilities, issued, ended>>
  BY DEF Enter
<1>2. /\ sp \in Int /\ base \in Int /\ Bottom \in Int /\ base <= Bottom
      /\ StackLow <= base /\ Top = frames[Len(frames)] /\ Len(frames) \in 1..Len(frames)
      /\ Bottom = Floor(Top) /\ Top.base \in Int /\ Top.locals \in Nat /\ Top.vla \in Nat
  BY <1>1, TopFrame, Zones DEF HeapInv, StackShape
<1>3. new \in Frame /\ frames \in Seq(Frame) /\ Len(frames) \in Nat
  BY <1>2 DEF Frame, HeapInv, StackShape
<1>4. /\ frames' \in Seq(Frame) /\ Len(frames') = Len(frames) + 1
      /\ \A i \in 1..Len(frames) : frames'[i] = frames[i]
      /\ frames'[Len(frames) + 1] = new
  <2> HIDE DEF new
  <2>1. QED
    BY <1>1, <1>3
<1>5. ASSUME NEW i \in 1..Len(frames) PROVE base <= Floor(frames[i])
  <2>1. base <= Top.base
    BY <1>2 DEF Floor
  <2>2. Floor(frames[i]) \in Int /\ (i # Len(frames) => Top.base <= Floor(frames[i]))
    BY TopFrame DEF HeapInv
  <2>3. QED
    BY <1>2, <2>1, <2>2
<1>6. \A i, j \in 1..Len(frames') : i < j => frames'[j].base <= Floor(frames'[i])
  <2>1. ASSUME NEW i \in 1..Len(frames'), NEW j \in 1..Len(frames'), i < j
        PROVE frames'[j].base <= Floor(frames'[i])
    <3>1. i \in 1..Len(frames)
      BY <1>3, <1>4, <2>1
    <3>2. CASE j \in 1..Len(frames)
      BY <1>4, <2>1, <3>1, <3>2 DEF HeapInv, StackShape
    <3>3. CASE j = Len(frames) + 1
      BY <1>4, <1>5, <3>1, <3>3
    <3>4. QED
      BY <1>3, <1>4, <3>2, <3>3
  <2>2. QED
    BY <2>1
<1>7. Bottom' = base - k
  BY <1>2, <1>3, <1>4 DEF Bottom, Top
<1>8. StackShape'
  BY <1>1, <1>2, <1>3, <1>4, <1>6, <1>7, Zones DEF StackShape, Floor
<1>9. next_object_id \in Nat /\ next_object_id' \in Nat /\ next_object_id <= next_object_id'
  BY <1>1 DEF HeapInv, ObjectShape
<1>10. ASSUME NEW o \in locals
       PROVE \E i \in 1..k :
               /\ o.id = next_object_id + i - 1 /\ o.start = base - i /\ o.size = 1
               /\ o.frame = base /\ o.kind = "stack" /\ o.live
               /\ o \in [id : Nat, start : Int, size : Nat, frame : Int,
                         kind : {"global", "stack", "heap"}, live : BOOLEAN]
  <2>1. PICK i \in 1..k : o = NewObject(next_object_id + i - 1, base - i, 1, "stack", base)
    OBVIOUS
  <2>2. next_object_id + i - 1 \in Nat /\ base - i \in Int
    BY <1>2, <1>9
  <2>3. QED
    BY <1>2, <2>1, <2>2 DEF NewObject
<1>11. ASSUME NEW o \in locals PROVE o.id < next_object_id' /\ o.id >= next_object_id /\ InPlace(o)'
  <2>1. PICK i \in 1..k : /\ o.id = next_object_id + i - 1 /\ o.start = base - i /\ o.size = 1
                          /\ o.frame = base /\ o.kind = "stack" /\ o.live
    BY <1>10
  <2>2. InFrame(o, new)
    <3>1. o.start \in base - k..base - 1
      BY <1>2, <2>1
    <3>2. new.base = base /\ new.locals = k
      OBVIOUS
    <3> HIDE DEF new, base
    <3>3. QED
      BY <2>1, <3>1, <3>2 DEF InFrame
  <2>3. Len(frames') \in 1..Len(frames') /\ InFrame(o, frames'[Len(frames')])
    <3> HIDE DEF new
    <3>1. QED
      BY <1>3, <1>4, <2>2
  <2>4. InPlace(o)'
    BY <2>1, <2>3 DEF InPlace, InFrame, Floor
  <2>5. QED
    BY <1>1, <1>9, <2>1, <2>4
<1>12. ASSUME NEW o \in objects PROVE o.id < next_object_id' /\ InPlace(o)'
  <2>1. /\ o.id \in Nat /\ o.id < next_object_id /\ InPlace(o)
    BY ObjectFields DEF HeapInv
  <2>2. \A i \in 1..Len(frames) : i \in 1..Len(frames') /\ frames'[i] = frames[i]
    BY <1>3, <1>4
  <2>3. InPlace(o)'
    BY <2>1, <2>2 DEF InPlace, InFrame, Floor
  <2>4. QED
    BY <1>9, <2>1, <2>3
<1>13. ASSUME NEW o \in objects', NEW q \in objects', o.id = q.id PROVE o = q
  <2>1. CASE o \in objects /\ q \in objects
    BY <1>13, <2>1 DEF HeapInv, ObjectShape
  <2>2. CASE o \in locals /\ q \in locals
    <3>1. PICK i \in 1..k : o = NewObject(next_object_id + i - 1, base - i, 1, "stack", base)
      BY <2>2
    <3>2. PICK j \in 1..k : q = NewObject(next_object_id + j - 1, base - j, 1, "stack", base)
      BY <2>2
    <3>3. i = j
      BY <1>9, <1>13, <3>1, <3>2 DEF NewObject
    <3>4. QED
      BY <3>1, <3>2, <3>3
  <2>3. ASSUME NEW x \in objects, NEW y \in locals PROVE x.id # y.id
    BY <1>9, <1>10, <1>11, <2>3, ObjectFields DEF HeapInv
  <2>4. QED
    BY <1>1, <1>13, <2>1, <2>2, <2>3
<1>14. ASSUME NEW o \in locals, NEW q \in objects', q.live, o # q
       PROVE Apart(o, q) /\ Apart(q, o)
  <2>1. PICK i \in 1..k : o.id = next_object_id + i - 1 /\ o.start = base - i /\ o.size = 1
    BY <1>10
  <2>2. CASE q \in locals
    <3>1. PICK j \in 1..k : q.id = next_object_id + j - 1 /\ q.start = base - j /\ q.size = 1
      BY <1>10, <2>2
    <3>2. o \in objects' /\ o.id # q.id
      BY <1>1, <1>13, <1>14
    <3>3. i # j
      BY <2>1, <3>1, <3>2
    <3>4. QED
      BY <1>2, <2>1, <3>1, <3>3, RangesApart DEF Apart
  <2>3. CASE q \in objects /\ q.kind = "stack"
    <3>1. q.start \in Int /\ q.size \in Nat /\ q.start >= Bottom
      BY <1>14, <2>3, AboveBottom, ObjectFields DEF HeapInv
    <3>2. o.start \in Int /\ o.start + 1 <= q.start
      BY <1>2, <2>1, <3>1
    <3>3. QED
      BY <2>1, <3>1, <3>2, RangesApart DEF Apart
  <2>4. CASE q \in objects /\ q.kind # "stack"
    <3>1. q.start \in Int /\ q.size \in Nat /\ q.start + q.size <= StackLow
      BY <2>4, ObjectFields, Zones DEF HeapInv, InPlace
    <3>2. o.start \in Int /\ StackLow <= o.start
      BY <1>1, <1>2, <2>1, Zones
    <3>3. QED
      BY <2>1, <3>1, <3>2, Zones, RangesApart DEF Apart
  <2>5. QED
    BY <1>1, <2>2, <2>3, <2>4
<1>15. \A o, q \in objects' : o.live /\ q.live /\ o # q => Apart(o, q)
  BY <1>1, <1>14 DEF HeapInv, ObjectShape
<1>16. ObjectShape'
  <2>1. objects' \subseteq [id : Nat, start : Int, size : Nat, frame : Int,
                            kind : {"global", "stack", "heap"}, live : BOOLEAN]
    BY <1>1, <1>10 DEF HeapInv, ObjectShape
  <2>2. \E o \in objects' : o.live /\ o.kind = "global" /\ o.start = 1 /\ o.size = GlobalCells
    BY <1>1 DEF HeapInv, ObjectShape
  <2>3. \A o \in objects' : o.id < next_object_id' /\ InPlace(o)'
    BY <1>1, <1>11, <1>12
  <2>4. QED
    BY <1>9, <1>13, <1>15, <2>1, <2>2, <2>3 DEF ObjectShape, Apart
<1>17. OldOrNew
  BY <1>1, <1>11 DEF OldOrNew
<1>18. CapabilityShape' /\ Staleness'
  BY <1>1, <1>9, <1>16, <1>17, KeepCapabilities, KeepStaleness
<1>19. QED
  BY <1>8, <1>16, <1>18 DEF HeapInv

(* A return: the objects of the frame die, their numbers are never live    *)
(* again, and the other frames keep theirs.                                *)
LEMMA LeaveInv ==
  ASSUME HeapInv, Leave
  PROVE HeapInv'
<1> DEFINE n == Len(frames)
           Left(o) == o.kind = "stack" /\ o.frame = Top.base
           After(o) == IF Left(o) THEN [o EXCEPT !.live = FALSE] ELSE o
<1>1. /\ n > 1 /\ Depth = 1 /\ sp' = Top.base - 1
      /\ frames' = SubSeq(frames, 1, n - 1) /\ objects' = leave_frame(Top.base)
      /\ ended' = ended \cup {o.id : o \in {q \in objects : q.kind = "stack" /\ q.start < Top.base}}
      /\ UNCHANGED <<capabilities, next_object_id, issued>>
  BY DEF Leave
<1>2. /\ frames \in Seq(Frame) /\ n \in Nat /\ sp \in Int /\ StackLow <= sp
      /\ Top.base \in Int /\ Top.locals \in Nat /\ Top.vla \in Nat /\ Top = frames[n]
      /\ Bottom = Floor(Top) /\ Bottom \in Int /\ sp = Bottom - 1
  BY <1>1, TopFrame DEF HeapInv, StackShape
<1>3. /\ frames' \in Seq(Frame) /\ Len(frames') = n - 1
      /\ \A i \in 1..n - 1 : i \in 1..n /\ i # n /\ frames'[i] = frames[i]
  BY <1>1, <1>2
<1>4. /\ n - 1 \in 1..n - 1 /\ Bottom' = Floor(frames[n - 1])
      /\ Floor(frames[n - 1]) \in Int /\ Top.base <= Floor(frames[n - 1])
  <2>1. n - 1 \in 1..n - 1 /\ n - 1 \in 1..n /\ n - 1 # n
    BY <1>1, <1>2
  <2>2. Top' = frames[n - 1]
    BY <1>3, <2>1 DEF Top
  <2>3. Floor(frames[n - 1]) \in Int /\ Top.base <= Floor(frames[n - 1])
    BY <2>1, TopFrame DEF HeapInv
  <2>4. QED
    BY <2>1, <2>2, <2>3 DEF Bottom, Floor
<1>5. sp' \in Int /\ StackLow <= sp' /\ sp' <= Bottom'
  <2>1. Bottom <= Top.base
    BY <1>2 DEF Floor
  <2>2. QED
    BY <1>1, <1>2, <1>4, <2>1, Zones
<1>6. \A i, j \in 1..Len(frames') : i < j => frames'[j].base <= Floor(frames'[i])
  <2>1. ASSUME NEW i \in 1..n - 1, NEW j \in 1..n - 1, i < j
        PROVE frames'[j].base <= Floor(frames'[i])
    <3>1. i \in 1..n /\ j \in 1..n /\ frames'[i] = frames[i] /\ frames'[j] = frames[j]
      BY <1>3
    <3>2. frames[j].base <= Floor(frames[i])
      BY <2>1, <3>1 DEF HeapInv, StackShape
    <3>3. QED
      BY <3>1, <3>2
  <2>2. QED
    BY <1>3, <2>1
<1>7. StackShape'
  <2>1. Len(frames') >= 1
    BY <1>1, <1>2, <1>3
  <2>2. QED
    BY <1>3, <1>5, <1>6, <2>1 DEF StackShape, Floor
<1>8. ASSUME NEW x \in objects'
      PROVE \E o \in objects :
              /\ x.id = o.id /\ x.start = o.start /\ x.size = o.size /\ x.frame = o.frame
              /\ x.kind = o.kind /\ x = After(o)
              /\ x.live => x = o /\ ~Left(o)
              /\ x \in [id : Nat, start : Int, size : Nat, frame : Int,
                        kind : {"global", "stack", "heap"}, live : BOOLEAN]
  <2>1. PICK o \in objects : x = After(o)
    BY <1>1 DEF leave_frame
  <2>2. o \in [id : Nat, start : Int, size : Nat, frame : Int,
               kind : {"global", "stack", "heap"}, live : BOOLEAN]
    BY DEF HeapInv, ObjectShape
  <2>3. QED
    BY <2>1, <2>2
<1>9. ASSUME NEW o \in objects, o.live, o.kind = "stack", ~Left(o)
      PROVE o.start >= Top.base /\ \E i \in 1..n - 1 : InFrame(o, frames[i])
  <2>1. PICK i \in 1..n : InFrame(o, frames[i])
    BY <1>9, ObjectFields DEF HeapInv, InPlace
  <2>2. i # n
    BY <1>2, <1>9, <2>1 DEF InFrame
  <2>3. /\ frames[i].base \in Int /\ frames[i].locals \in Nat /\ frames[i].vla \in Nat
        /\ Floor(frames[i]) \in Int /\ Top.base <= Floor(frames[i])
    BY <2>2, TopFrame DEF HeapInv
  <2>4. o.start \in Int /\ o.start >= Floor(frames[i])
    BY <1>9, <2>1, <2>3, ObjectFields DEF HeapInv, InFrame, Floor
  <2>5. i \in 1..n - 1
    BY <1>2, <2>2
  <2>6. QED
    BY <1>2, <2>1, <2>3, <2>4, <2>5
<1>10. next_object_id \in Nat /\ next_object_id' = next_object_id
  BY <1>1 DEF HeapInv, ObjectShape
<1>11. ASSUME NEW x \in objects' PROVE x.id < next_object_id' /\ InPlace(x)'
  <2>1. PICK o \in objects :
          /\ x.id = o.id /\ x.start = o.start /\ x.size = o.size /\ x.frame = o.frame
          /\ x.kind = o.kind
          /\ x.live => x = o /\ ~Left(o)
    BY <1>8
  <2>2. o.id < next_object_id /\ InPlace(o)
    BY ObjectFields DEF HeapInv
  <2>3. x.kind = "stack" /\ x.live => \E i \in 1..Len(frames') : InFrame(x, frames'[i])
    BY <1>3, <1>8, <1>9
  <2>4. InPlace(x)'
    BY <2>1, <2>2, <2>3 DEF InPlace, InFrame, Floor
  <2>5. QED
    BY <1>10, <2>1, <2>2, <2>4
<1>12. \A x, y \in objects' : x.id = y.id => x = y
  BY <1>8 DEF HeapInv, ObjectShape
<1>13. \A x, y \in objects' : x.live /\ y.live /\ x # y => Apart(x, y)
  BY <1>8 DEF HeapInv, ObjectShape
<1>14. \E x \in objects' : x.live /\ x.kind = "global" /\ x.start = 1 /\ x.size = GlobalCells
  <2>1. PICK g \in objects : g.live /\ g.kind = "global" /\ g.start = 1 /\ g.size = GlobalCells
    BY DEF HeapInv, ObjectShape
  <2>2. After(g) = g /\ After(g) \in objects'
    BY <1>1, <2>1 DEF leave_frame
  <2>3. QED
    BY <2>1, <2>2
<1>15. ObjectShape'
  <2>1. objects' \subseteq [id : Nat, start : Int, size : Nat, frame : Int,
                            kind : {"global", "stack", "heap"}, live : BOOLEAN]
    BY <1>8
  <2>2. QED
    BY <1>10, <1>11, <1>12, <1>13, <1>14, <2>1 DEF ObjectShape, Apart
<1>16. OldOrNew
  BY <1>8 DEF OldOrNew
<1>17. CapabilityShape'
  BY <1>1, <1>10, <1>15, <1>16, KeepCapabilities
<1>18. ASSUME NEW x \in objects', x.id \in ended', x.live PROVE FALSE
  <2>1. x \in objects /\ ~Left(x)
    BY <1>8, <1>18
  <2>2. x.id \notin ended
    BY <1>18, <2>1 DEF HeapInv, Staleness
  <2>3. PICK q \in objects : q.id = x.id /\ q.kind = "stack" /\ q.start < Top.base
    BY <1>1, <1>18, <2>2
  <2>4. q = x
    BY <2>1, <2>3 DEF HeapInv, ObjectShape
  <2>5. x.start >= Top.base /\ x.start \in Int
    BY <1>9, <1>18, <2>1, <2>3, <2>4, ObjectFields DEF HeapInv
  <2>6. QED
    BY <1>2, <2>3, <2>4, <2>5
<1>19. \A id \in ended' : id \in Nat /\ id < next_object_id'
  BY <1>1, <1>10, ObjectFields DEF HeapInv, Staleness
<1>20. QED
  BY <1>7, <1>15, <1>17, <1>18, <1>19 DEF HeapInv, Staleness

(* A variable-length array makes room below the locals.                    *)
LEMMA DeclareVlaInv ==
  ASSUME HeapInv, NEW k \in Nat, DeclareVla(k)
  PROVE HeapInv'
<1> DEFINE n == Len(frames)
<1>1. /\ Depth = 0 /\ Top.vla = 0 /\ sp - k >= StackLow /\ sp' = sp - k
      /\ frames' = [frames EXCEPT ![n].vla = k]
      /\ UNCHANGED <<objects, capabilities, next_object_id, issued, ended>>
  BY DEF DeclareVla, heapVars
<1>2. /\ frames \in Seq(Frame) /\ n \in Nat /\ n \in 1..n /\ sp \in Int
      /\ Top.base \in Int /\ Top.locals \in Nat /\ Top = frames[n] /\ Top \in Frame
      /\ Bottom = Floor(Top) /\ Bottom \in Int /\ sp = Bottom
  BY <1>1, TopFrame DEF HeapInv, StackShape
<1>3. [Top EXCEPT !.vla = k] \in Frame
  BY <1>2 DEF Frame
<1>4. /\ frames' \in Seq(Frame) /\ Len(frames') = n
      /\ frames'[n] = [Top EXCEPT !.vla = k]
      /\ \A i \in 1..n : i # n => frames'[i] = frames[i]
  <2>1. frames' = [frames EXCEPT ![n] = [Top EXCEPT !.vla = k]]
    BY <1>1, <1>2
  <2>2. QED
    BY <1>2, <1>3, <2>1
<1>5. frames'[n].base = Top.base /\ frames'[n].locals = Top.locals /\ frames'[n].vla = k
  BY <1>2, <1>4 DEF Frame
<1>6. Bottom' = sp - k
  BY <1>1, <1>2, <1>4, <1>5 DEF Bottom, Top, Floor
<1>7. \A i, j \in 1..n : i < j => frames'[j].base <= Floor(frames'[i])
  <2>1. ASSUME NEW i \in 1..n, NEW j \in 1..n, i < j PROVE frames'[j].base <= Floor(frames'[i])
    <3>1. i # n /\ frames'[i] = frames[i]
      BY <1>2, <1>4, <2>1
    <3>2. frames'[j].base = frames[j].base
      BY <1>2, <1>4, <1>5
    <3>3. QED
      BY <2>1, <3>1, <3>2 DEF HeapInv, StackShape
  <2>2. QED
    BY <2>1
<1>8. StackShape'
  BY <1>1, <1>2, <1>4, <1>6, <1>7, Zones DEF StackShape, Floor
<1>9. ASSUME NEW o \in objects PROVE InPlace(o)'
  <2>1. InPlace(o)
    BY ObjectFields DEF HeapInv
  <2>2. ASSUME NEW i \in 1..n, InFrame(o, frames[i]) PROVE InFrame(o, frames'[i])
    <3>1. CASE i = n
      BY <1>1, <1>2, <1>5, <2>2, <3>1 DEF InFrame
    <3>2. CASE i # n
      BY <1>4, <2>2, <3>2
    <3>3. QED
      BY <3>1, <3>2
  <2>3. QED
    BY <1>4, <2>1, <2>2 DEF InPlace, InFrame, Floor
<1>10. ObjectShape'
  BY <1>1, <1>9 DEF HeapInv, ObjectShape
<1>11. QED
  BY <1>1, <1>8, <1>10 DEF HeapInv, CapabilityShape, Staleness

-----------------------------------------------------------------------------
(* Expressions that leave the tables alone: they pop operands that are     *)
(* there, or stop the program.                                             *)
LEMMA QuietInv ==
  ASSUME HeapInv, NEW n \in Nat, NEW ordered \in BOOLEAN,
         \/ PushData \/ Pop \/ Load \/ Store \/ ToInteger \/ Free
         \/ Compare(ordered) \/ Memcpy(n)
  PROVE HeapInv'
<1>1. /\ Depth \in Nat /\ Depth = Bottom - sp /\ Bottom \in Int /\ sp \in Int /\ StackLow <= sp
      /\ StackLow \in Int
  BY TopFrame, Zones DEF HeapInv, StackShape
<1>2. ASSUME NEW k \in {0, 1, 2}, k <= Depth + 1, NEW w, NEW src,
             Result(k, w, {}, src), UNCHANGED heapVars
      PROVE HeapInv'
  BY <1>2, QuietResult
<1>3. CASE PushData
  BY <1>1, <1>2, <1>3 DEF PushData, Replace
<1>4. CASE Pop
  BY <1>1, <1>4, MoveSp DEF Pop
<1>5. CASE Load
  <2>1. Depth > 0 /\ (Fail \/ \E a : Result(1, mem[a], {}, <<>>) /\ UNCHANGED heapVars)
    BY <1>5 DEF Load, Replace
  <2>2. QED
    BY <1>1, <1>2, <2>1, FailInv
<1>6. CASE Store
  <2>1. Depth > 1
        /\ (Fail \/ \E src : Result(2, mem[sp], {}, src) /\ UNCHANGED heapVars)
    BY <1>6 DEF Store
  <2>2. QED
    BY <1>1, <1>2, <2>1, FailInv
<1>7. CASE ToInteger
  BY <1>1, <1>2, <1>7, FailInv DEF ToInteger, Replace
<1>8. CASE Free
  BY <1>1, <1>2, <1>8 DEF Free, Replace
<1>9. CASE Compare(ordered)
  BY <1>1, <1>2, <1>9, FailInv DEF Compare, Replace
<1>10. CASE Memcpy(n)
  <2>1. Depth > 1
        /\ (Fail \/ \E src : Result(2, mem[sp + 1], {}, src) /\ UNCHANGED heapVars)
    BY <1>10 DEF Memcpy, Replace
  <2>2. QED
    BY <1>1, <1>2, <2>1, FailInv
<1>11. QED
  BY <1>3, <1>4, <1>5, <1>6, <1>7, <1>8, <1>9, <1>10

(* What is derived from a usable pointer stays inside its object.          *)
LEMMA PointerInv ==
  ASSUME HeapInv, NEW n \in Nat, NEW delta \in Int, Narrow(n) \/ Add(delta)
  PROVE HeapInv'
<1>1. Depth \in Nat /\ (Depth > 0 => 1 <= Depth + 1)
  BY TopFrame DEF HeapInv
<1>2. ASSUME NEW w, NEW c \in Usable(w)
      PROVE /\ c.lower \in Int /\ c.upper \in Int /\ c.cursor \in Int
            /\ \E o \in objects : o.live /\ o.id = c.object_id /\ InBounds(c, o)
                                  /\ o.start \in Int /\ o.size \in Nat
  <2>1. c \in capabilities /\ \E o \in objects : o.id = c.object_id /\ o.live
    BY DEF Usable, find_capability, Live
  <2>2. PICK o \in objects : o.id = c.object_id /\ o.live
    BY <2>1
  <2>3. InBounds(c, o) /\ o.start \in Int /\ o.size \in Nat
    BY <2>1, <2>2, ObjectFields DEF HeapInv, CapabilityShape
  <2>4. c.lower \in Int /\ c.upper \in Int /\ c.cursor \in Int
    BY <2>1 DEF HeapInv, CapabilityShape
  <2>5. QED
    BY <2>2, <2>3, <2>4
<1>3. ASSUME Depth > 0, Replace(1, Data), UNCHANGED heapVars PROVE HeapInv'
  BY <1>1, <1>3, QuietResult DEF Replace
<1>4. CASE Narrow(n)
  <2>1. ASSUME NEW c \in Narrowable(mem[sp], n), Depth > 0,
               Derive(1, c.object_id, c.cursor, c.cursor + n, c.cursor)
        PROVE HeapInv'
    <3>1. c \in Usable(mem[sp]) /\ n <= c.upper - c.cursor
      BY <2>1 DEF Narrowable
    <3>2. PICK o \in objects : o.live /\ o.id = c.object_id /\ InBounds(c, o)
                               /\ o.start \in Int /\ o.size \in Nat
      BY <1>2, <3>1
    <3>3. c.lower \in Int /\ c.upper \in Int /\ c.cursor \in Int
      BY <1>2, <3>1
    <3>4. /\ c.cursor + n \in Int /\ o.start <= c.cursor /\ c.cursor <= c.cursor
          /\ c.cursor <= c.cursor + n /\ c.cursor + n <= o.start + o.size
      BY <3>1, <3>2, <3>3 DEF InBounds
    <3>5. Derive(1, o.id, c.cursor, c.cursor + n, c.cursor)
      BY <2>1, <3>2
    <3>6. QED
      BY <1>1, <2>1, <3>2, <3>3, <3>4, <3>5, DeriveInv
  <2>2. QED
    BY <1>3, <1>4, <2>1, FailInv DEF Narrow
<1>5. CASE Add(delta)
  <2>1. ASSUME NEW c \in Usable(mem[sp]), c.cursor + delta \in c.lower..c.upper, Depth > 0,
               Derive(1, c.object_id, c.lower, c.upper, c.cursor + delta)
        PROVE HeapInv'
    <3>1. PICK o \in objects : o.live /\ o.id = c.object_id /\ InBounds(c, o)
                               /\ o.start \in Int /\ o.size \in Nat
      BY <1>2
    <3>2. c.lower \in Int /\ c.upper \in Int /\ c.cursor \in Int
      BY <1>2
    <3>3. /\ c.cursor + delta \in Int /\ o.start <= c.lower /\ c.lower <= c.cursor + delta
          /\ c.cursor + delta <= c.upper /\ c.upper <= o.start + o.size
      BY <2>1, <3>1, <3>2 DEF InBounds
    <3>4. Derive(1, o.id, c.lower, c.upper, c.cursor + delta)
      BY <2>1, <3>1
    <3>5. QED
      BY <1>1, <2>1, <3>1, <3>2, <3>3, <3>4, DeriveInv
  <2>2. QED
    BY <1>3, <1>5, <2>1, FailInv DEF Add
<1>6. QED
  BY <1>4, <1>5

-----------------------------------------------------------------------------
(* The heap.                                                               *)

(* A collection keeps every object that is not of the heap, and adds none. *)
LEMMA CollectedTables ==
  ASSUME HeapInv, NEW bottom, NEW root
  PROVE LET after == Collected(bottom, root) IN
        /\ after.objects \subseteq objects /\ after.capabilities \subseteq capabilities
        /\ \A o \in objects : o.live /\ o.kind # "heap" => o \in after.objects
  BY DEF Collected, Kept, Marked, CapsOf

(* Tables that are smaller, and nothing new in them.                       *)
LEMMA FewerTables ==
  ASSUME HeapInv, objects' \subseteq objects, capabilities' \subseteq capabilities,
         \A o \in objects : o.live /\ o.kind # "heap" => o \in objects',
         UNCHANGED <<frames, next_object_id, issued, ended>>,
         sp' \in Int, StackLow <= sp', sp' <= Bottom
  PROVE HeapInv'
<1>1. StackShape'
  BY SameFrames
<1>2. ObjectShape' /\ OldOrNew
  BY FewerObjects
<1>3. next_object_id <= next_object_id'
  BY DEF HeapInv, ObjectShape
<1>4. CapabilityShape'
  BY <1>2, <1>3, KeepCapabilities
<1>5. Staleness'
  BY <1>2, <1>3, KeepStaleness
<1>6. QED
  BY <1>1, <1>2, <1>4, <1>5 DEF HeapInv

(* A collection changes nothing else.                                      *)
LEMMA CollectInv ==
  ASSUME HeapInv, Collect
  PROVE HeapInv'
<1>1. sp' \in Int /\ StackLow <= sp' /\ sp' <= Bottom
  BY DEF HeapInv, StackShape, Collect
<1>2. /\ objects' \subseteq objects /\ capabilities' \subseteq capabilities
      /\ \A o \in objects : o.live /\ o.kind # "heap" => o \in objects'
      /\ UNCHANGED <<frames, next_object_id, issued, ended>>
  BY CollectedTables DEF Collect
<1>3. QED
  BY <1>1, <1>2, FewerTables

(* A block holds at least the cells asked for.                             *)
LEMMA NativeHolds ==
  ASSUME NEW a \in Int, NEW n \in Nat
  PROVE Native(n) \in Nat /\ n <= Native(n) /\ Cells(a, n) \subseteq Cells(a, Native(n))
<1>1. Native(n) \in Nat /\ n <= Native(n)
  BY DEF Native
<1>2. QED
  BY <1>1 DEF Cells

(* A block in libc's room is in the heap and apart from every object.      *)
LEMMA RoomIsApart ==
  ASSUME HeapInv, NEW objs \in SUBSET objects, NEW size \in Nat,
         NEW start \in LibcRoom(objs, Native(size))
  PROVE LET new == NewObject(next_object_id, start, size, "heap", 0) IN
        /\ start \in Int /\ InPlace(new)
        /\ \A o \in objs : o.live => Apart(new, o)
<1> DEFINE new == NewObject(next_object_id, start, size, "heap", 0)
<1>1. Native(size) \in Nat /\ size <= Native(size)
      /\ HeapStart \in Int /\ StackLow \in Int
  BY NativeHolds, Zones
<1>2. /\ start \in Int /\ HeapStart <= start /\ start + Native(size) <= StackLow
      /\ \A o \in objs : o.kind = "heap" => Cells(start, Native(size)) \cap Cells(o.start, Native(o.size)) = {}
  BY <1>1 DEF LibcRoom
<1>3. start + size <= StackLow
  BY <1>1, <1>2
<1>4. new.kind = "heap" /\ new.start = start /\ new.size = size
  BY DEF NewObject
<1>5. InPlace(new)
  BY <1>2, <1>3, <1>4 DEF InPlace
<1>6. ASSUME NEW o \in objs, o.live PROVE Cells(start, size) \cap Cells(o.start, o.size) = {}
  <2>1. /\ o.start \in Int /\ o.size \in Nat /\ InPlace(o)
        /\ o.kind \in {"global", "stack", "heap"}
    BY ObjectFields DEF HeapInv
  <2>2. CASE o.kind = "heap"
    <3>1. Cells(start, size) \subseteq Cells(start, Native(size))
          /\ Cells(o.start, o.size) \subseteq Cells(o.start, Native(o.size))
      BY <1>2, <2>1, NativeHolds
    <3>2. QED
      BY <1>2, <2>2, <3>1
  <2>3. CASE o.kind = "global"
    <3>1. o.start + o.size <= start
      BY <1>1, <1>2, <2>1, <2>3 DEF InPlace
    <3>2. QED
      BY <1>2, <2>1, <3>1, RangesApart
  <2>4. CASE o.kind = "stack"
    <3>1. o.start >= Bottom /\ Bottom \in Int /\ sp \in Int /\ StackLow <= Bottom
      BY <1>1, <1>6, <2>4, AboveBottom, TopFrame DEF HeapInv, StackShape
    <3>2. start + size <= o.start
      BY <1>1, <1>2, <1>3, <2>1, <3>1
    <3>3. QED
      BY <1>2, <2>1, <3>2, RangesApart
  <2>5. QED
    BY <2>1, <2>2, <2>3, <2>4
<1>7. \A o \in objs : o.live => Apart(new, o)
  BY <1>4, <1>6 DEF Apart
<1>8. QED
  BY <1>2, <1>5, <1>7

(* An allocation, whether it collects or not, finds room or not.           *)
LEMMA MallocInv ==
  ASSUME HeapInv, NEW n \in Nat, n <= Depth + 1, NEW size \in Nat, NEW root, NEW copied,
         malloc(n, size, root, copied)
  PROVE HeapInv'
<1> DEFINE after == Prepared(n, size, root)
<1>1. /\ after.objects \subseteq objects /\ after.capabilities \subseteq capabilities
      /\ \A o \in objects : o.live /\ o.kind # "heap" => o \in after.objects
  <2>1. Uncollected.objects = objects /\ Uncollected.capabilities = capabilities
    BY DEF Uncollected
  <2>2. after = Collected(sp + n, root) \/ after = Uncollected
    BY DEF Prepared
  <2> HIDE DEF after
  <2>3. QED
    BY <2>1, <2>2, CollectedTables
<1>2. ASSUME Replace(n, Data), objects' = after.objects, capabilities' = after.capabilities,
             UNCHANGED <<next_object_id, issued>>
      PROVE HeapInv'
  <2>1. sp' \in Int /\ StackLow <= sp' /\ sp' <= Bottom /\ UNCHANGED <<frames, ended>>
    BY <1>2, ResultInv DEF Replace
  <2> HIDE DEF after
  <2>2. QED
    BY <1>1, <1>2, <2>1, FewerTables
<1>3. ASSUME NEW start \in LibcRoom(after.objects, Native(size)), NEW t \in Token,
             objects' = after.objects \cup {NewObject(next_object_id, start, size, "heap", 0)},
             next_object_id' = next_object_id + 1,
             make_capability(after.capabilities, next_object_id, start, start + size, start, t),
             NEW fresh, NEW src, Result(n, t, fresh, src)
      PROVE HeapInv'
  <2> DEFINE new == NewObject(next_object_id, start, size, "heap", 0)
  <2> HIDE DEF after
  <2>1. StackShape' /\ UNCHANGED <<frames, ended>>
    BY <1>3, ResultInv, SameFrames
  <2>2. start \in Int /\ InPlace(new) /\ \A o \in after.objects : o.live => Apart(new, o)
    BY <1>1, RoomIsApart
  <2>3. next_object_id \in Nat
    BY DEF HeapInv, ObjectShape
  <2>4. /\ new \in [id : Nat, start : Int, size : Nat, frame : Int,
                    kind : {"global", "stack", "heap"}, live : BOOLEAN]
        /\ new.id = next_object_id /\ new.start = start /\ new.size = size
    BY <2>2, <2>3 DEF NewObject
  <2>5. objects' = after.objects \cup {new}
    BY <1>3
  <2>6. ObjectShape' /\ OldOrNew
    <3> HIDE DEF new
    <3>1. QED
      BY <1>1, <1>3, <2>1, <2>2, <2>4, <2>5, OneMoreObject
  <2>7. ASSUME NEW o \in objects', o.id = next_object_id, o.live
        PROVE /\ o.start <= start /\ start <= start
              /\ start <= start + size /\ start + size <= o.start + o.size
    <3>1. \A x \in after.objects : x.id \in Nat /\ x.id < next_object_id
      BY <1>1, ObjectFields DEF HeapInv
    <3>2. o = new
      BY <2>3, <2>5, <2>7, <3>1
    <3>3. QED
      BY <2>2, <2>4, <3>2
  <2>8. next_object_id < next_object_id' /\ next_object_id <= next_object_id'
    BY <1>3, <2>3
  <2>9. start + size \in Int
    BY <2>2
  <2>10. CapabilityShape'
    BY <1>1, <1>3, <2>2, <2>3, <2>6, <2>7, <2>8, <2>9, MakeCapability
  <2>11. Staleness'
    BY <2>1, <2>6, <2>8, KeepStaleness
  <2>12. QED
    BY <2>1, <2>6, <2>10, <2>11 DEF HeapInv
<1>4. QED
  BY <1>2, <1>3 DEF malloc

(* The allocation functions.                                               *)
LEMMA AllocateInv ==
  ASSUME HeapInv, NEW size \in Nat, Malloc(size) \/ Calloc(size) \/ Realloc(size)
  PROVE HeapInv'
<1>1. Depth \in Nat /\ 0 <= Depth + 1 /\ 1 <= Depth + 1
  BY TopFrame DEF HeapInv
<1>2. CASE Malloc(size)
  BY <1>1, <1>2, MallocInv DEF Malloc
<1>3. CASE Calloc(size)
  BY <1>1, <1>3, MallocInv DEF Calloc
<1>4. CASE Realloc(size)
  <2>1. \/ Fail
        \/ Replace(1, Data) /\ UNCHANGED heapVars
        \/ \E root, copied : malloc(1, size, root, copied)
    BY <1>4 DEF Realloc
  <2>2. CASE Replace(1, Data) /\ UNCHANGED heapVars
    BY <1>1, <2>2, QuietResult DEF Replace
  <2>3. CASE \E root, copied : malloc(1, size, root, copied)
    BY <1>1, <2>3, MallocInv
  <2>4. QED
    BY <2>1, <2>2, <2>3, FailInv
<1>5. QED
  BY <1>2, <1>3, <1>4

-----------------------------------------------------------------------------
(* The first frame is main's, and only it and the global are registered.   *)
LEMMA InitInv ==
  ASSUME Init
  PROVE HeapInv
<1>1. PICK k \in 1..MaxLocals :
        /\ sp = StackHigh - k
        /\ frames = <<[base |-> StackHigh, locals |-> k, vla |-> 0]>>
        /\ objects = {NewObject(1, 1, GlobalCells, "global", 0)} \cup
             {NewObject(1 + i, StackHigh - i, 1, "stack", StackHigh) : i \in 1..k}
        /\ capabilities = {} /\ issued = <<>>
        /\ next_object_id = k + 2
        /\ ended = {}
  BY DEF Init
<1> DEFINE main == [base |-> StackHigh, locals |-> k, vla |-> 0]
           global == NewObject(1, 1, GlobalCells, "global", 0)
           Local(i) == NewObject(1 + i, StackHigh - i, 1, "stack", StackHigh)
<1>2. k \in Nat /\ k <= MaxLocals /\ StackHigh - k \in Int /\ StackLow <= StackHigh - k
      /\ StackHigh \in Int
  BY Zones
<1>3. main \in Frame /\ main.base = StackHigh /\ main.locals = k /\ main.vla = 0
  BY <1>2 DEF Frame
<1>4. frames \in Seq(Frame) /\ Len(frames) = 1 /\ frames[1] = main
  <2> HIDE DEF main
  <2>1. frames = <<main>>
    BY <1>1 DEF main
  <2>2. QED
    BY <1>3, <2>1
<1>5. Bottom = sp
  BY <1>1, <1>2, <1>3, <1>4 DEF Bottom, Top
<1>6. StackShape
  BY <1>1, <1>2, <1>4, <1>5 DEF StackShape
<1>7. /\ global \in [id : Nat, start : Int, size : Nat, frame : Int,
                     kind : {"global", "stack", "heap"}, live : BOOLEAN]
      /\ global.id = 1 /\ global.start = 1 /\ global.size = GlobalCells
      /\ global.kind = "global" /\ global.live
      /\ InPlace(global)
  BY Zones DEF NewObject, InPlace
<1>8. ASSUME NEW i \in 1..k
      PROVE /\ Local(i) \in [id : Nat, start : Int, size : Nat, frame : Int,
                             kind : {"global", "stack", "heap"}, live : BOOLEAN]
            /\ Local(i).id = 1 + i /\ Local(i).start = StackHigh - i /\ Local(i).size = 1
            /\ InPlace(Local(i))
  <2>1. /\ Local(i).start = StackHigh - i /\ Local(i).size = 1 /\ Local(i).id = 1 + i
        /\ Local(i).frame = StackHigh /\ Local(i).kind = "stack" /\ Local(i).live
    BY DEF NewObject
  <2>2. Local(i) \in [id : Nat, start : Int, size : Nat, frame : Int,
                      kind : {"global", "stack", "heap"}, live : BOOLEAN]
    BY <1>2 DEF NewObject
  <2>3. StackHigh - i \in StackHigh - k..StackHigh - 1
    BY <1>2
  <2> HIDE DEF Local, main
  <2>4. InFrame(Local(i), main)
    BY <1>3, <2>1, <2>3 DEF InFrame
  <2>5. InPlace(Local(i))
    BY <1>4, <2>1, <2>4 DEF InPlace
  <2>6. QED
    BY <2>1, <2>2, <2>5
<1>9. objects = {global} \cup {Local(i) : i \in 1..k}
  BY <1>1
<1> HIDE DEF global, Local, main
<1>10. \A o \in objects : o = global \/ \E i \in 1..k : o = Local(i)
  BY <1>9
<1>11. ASSUME NEW i \in 1..k
       PROVE Apart(global, Local(i)) /\ Apart(Local(i), global)
  <2>1. 1 + GlobalCells <= StackHigh - i
    BY <1>2, Zones
  <2>2. QED
    BY <1>2, <1>7, <1>8, <2>1, Zones, RangesApart DEF Apart
<1>12. ASSUME NEW i \in 1..k, NEW j \in 1..k, i # j PROVE Apart(Local(i), Local(j))
  BY <1>2, <1>8, <1>12, RangesApart DEF Apart
<1>13. ObjectShape
  <2>1. next_object_id \in Nat /\ next_object_id = k + 2
    BY <1>1, <1>2
  <2>2. ASSUME NEW o \in objects PROVE o.id < next_object_id /\ InPlace(o)
    <3>1. CASE o = global
      BY <1>2, <1>7, <2>1, <3>1
    <3>2. CASE \E i \in 1..k : o = Local(i)
      <4>1. PICK i \in 1..k : o = Local(i)
        BY <3>2
      <4>2. o.id = 1 + i /\ InPlace(o)
        BY <1>8, <4>1
      <4>3. QED
        BY <1>2, <2>1, <4>2
    <3>3. QED
      BY <1>10, <3>1, <3>2
  <2>3. \A o, q \in objects : o.id = q.id => o = q
    BY <1>2, <1>7, <1>8, <1>10
  <2>4. \A o, q \in objects : o.live /\ q.live /\ o # q => Apart(o, q)
    BY <1>10, <1>11, <1>12
  <2>5. objects \subseteq [id : Nat, start : Int, size : Nat, frame : Int,
                           kind : {"global", "stack", "heap"}, live : BOOLEAN]
    BY <1>7, <1>8, <1>10
  <2>6. \E o \in objects : o.live /\ o.kind = "global" /\ o.start = 1 /\ o.size = GlobalCells
    BY <1>7, <1>9
  <2>7. QED
    BY <2>1, <2>2, <2>3, <2>4, <2>5, <2>6 DEF ObjectShape
<1>14. CapabilityShape /\ Staleness
  BY <1>1 DEF CapabilityShape, Staleness
<1>15. QED
  BY <1>6, <1>13, <1>14 DEF HeapInv

(* Every step of the program, and every step in which it does nothing.     *)
LEMMA NextInv ==
  ASSUME HeapInv, [Next]_vars
  PROVE HeapInv'
<1>1. 0..MaxSize \subseteq Nat /\ 0..MaxLocals \subseteq Nat /\ 1..MaxSize \subseteq Nat
      /\ 1..MaxLocals \subseteq Nat /\ -1..1 \subseteq Int /\ TRUE \in BOOLEAN /\ 0 \in Nat
  BY Zones
<1>2. CASE UNCHANGED vars
  BY <1>2, MoveSp DEF vars, HeapInv, StackShape
<1>3. CASE PushData \/ Pop \/ Load \/ Store \/ ToInteger \/ Free
  BY <1>1, <1>3, QuietInv
<1>4. CASE \/ \E size \in 0..MaxSize : Memcpy(size)
           \/ \E ordered \in BOOLEAN : Compare(ordered)
  BY <1>1, <1>4, QuietInv
<1>5. CASE AddressOfGlobal \/ AddressOfLocal \/ AddressOfVla
  BY <1>5, AddressInv
<1>6. CASE \E size \in 0..MaxSize : Malloc(size) \/ Calloc(size) \/ Realloc(size)
  BY <1>1, <1>6, AllocateInv
<1>7. CASE Collect
  BY <1>7, CollectInv
<1>8. CASE Leave
  BY <1>8, LeaveInv
<1>9. CASE \E n \in 0..MaxLocals, k \in 1..MaxLocals : Enter(n, k)
  BY <1>1, <1>9, EnterInv
<1>10. CASE \E n \in 1..MaxSize : DeclareVla(n)
  BY <1>1, <1>10, DeclareVlaInv
<1>11. CASE (\E n \in 1..MaxSize : Narrow(n)) \/ (\E delta \in -1..1 : Add(delta))
  BY <1>1, <1>11, PointerInv
<1>12. QED
  BY <1>2, <1>3, <1>4, <1>5, <1>6, <1>7, <1>8, <1>9, <1>10, <1>11 DEF Next

(* The invariant holds in every state the program reaches.                 *)
THEOREM Invariant == Spec => []HeapInv
<1>1. Init => HeapInv
  BY InitInv
<1>2. HeapInv /\ [Next]_vars => HeapInv'
  BY NextInv
<1>3. QED
  BY <1>1, <1>2, PTL DEF Spec

(* A token that was issued for an object of a frame that was left is no    *)
(* pointer any more (leave_frame, find_object_id): its object is dead or   *)
(* gone, and its number is never given out again.                          *)
THEOREM FramesStale == Spec => []LeftFramesAreStale
<1>1. HeapInv => LeftFramesAreStale
  <2>1. ASSUME HeapInv, NEW t \in DOMAIN issued, issued[t] \in ended, NEW c \in Usable(t)
        PROVE FALSE
    <3>1. c \in capabilities /\ c.token = t /\ \E o \in objects : o.id = c.object_id /\ o.live
      BY <2>1 DEF Usable, find_capability, Live
    <3>2. c.object_id \in ended
      BY <2>1, <3>1 DEF HeapInv, CapabilityShape
    <3>3. QED
      BY <2>1, <3>1, <3>2 DEF HeapInv, Staleness
  <2>2. QED
    BY <2>1 DEF LeftFramesAreStale
<1>2. QED
  BY <1>1, Invariant, PTL

(* A usable capability stays inside its object, live objects share no      *)
(* cell, and none of the stack lies below the top (make_capability,        *)
(* malloc, register_object).                                               *)
THEOREM AuthoritySound == Spec => []AuthorityIsSound
<1>1. HeapInv => AuthorityIsSound
  <2>1. ASSUME HeapInv, NEW o \in objects, o.live, o.kind = "stack" PROVE o.start >= sp
    <3>1. o.start >= Bottom /\ o.start \in Int
      BY <2>1, AboveBottom, ObjectFields DEF HeapInv
    <3>2. sp \in Int /\ Bottom \in Int /\ sp <= Bottom
      BY <2>1, TopFrame DEF HeapInv, StackShape
    <3>3. QED
      BY <3>1, <3>2
  <2>2. QED
    BY <2>1 DEF AuthorityIsSound, HeapInv, ObjectShape, CapabilityShape
<1>2. QED
  BY <1>1, Invariant, PTL

=============================================================================
