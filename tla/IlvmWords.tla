----------------------------- MODULE IlvmWords ------------------------------
(***************************************************************************)
(* The machine words of the ILVM interpreters, the free lists of their     *)
(* allocators and the layout of the arguments in the heap: what eval.rs    *)
(* (Rust) and eval.ml (OCaml) compute, with both versions side by side     *)
(* where the two programs differ.  The code has WordBits = 32 and          *)
(* ByteBits = 8; a word holds four bytes.                                  *)
(***************************************************************************)
EXTENDS Integers, SequencesExt

CONSTANTS
  WordBits,  \* bits of a word
  ByteBits   \* bits of a byte; an ASCII byte has its highest bit clear

ASSUME IlvmWordsAssumption ==
  /\ WordBits \in Nat /\ ByteBits \in Nat \ {0}
  /\ WordBits = 4 * ByteBits
  /\ \E k \in 0..WordBits : WordBits = 2^k   \* the low bits are a remainder

(* What the provers do not know of powers.                                 *)
ASSUME PowersOfTwo ==
  \A k \in 0..WordBits : 2^k \in Nat \ {0} /\ (k > 0 => 2^k = 2 * 2^(k - 1))

Word == -(2^(WordBits - 1)) .. 2^(WordBits - 1) - 1

NoWrap(n) == n   \* mutant

(* Two's-complement wraparound.                                            *)
Wrap(n) == ((n + 2^(WordBits - 1)) % (2^WordBits)) - 2^(WordBits - 1)

Unsigned(n) == n % (2^WordBits)

-----------------------------------------------------------------------------
(* Arithmetic: eval_op1 and eval_op2.                                      *)

(* A word as the set of its bits that are one.                             *)
Bits(n) == {i \in 0..WordBits - 1 : (Unsigned(n) \div 2^i) % 2 = 1}
FromBits(S) == Wrap(MapThenSumSet(LAMBDA i : 2^i, S))

Abs(n) == IF n < 0 THEN -n ELSE n

(* Division truncating toward zero, and the remainder that goes with it.   *)
TruncDiv(m, n) ==
  IF (m < 0) = (n < 0) THEN Abs(m) \div Abs(n) ELSE -(Abs(m) \div Abs(n))
TruncMod(m, n) == m - n * TruncDiv(m, n)

Bool(b) == IF b THEN 1 ELSE 0

Op2 == {"Add", "Sub", "Mul", "Div", "Mod", "BitAnd", "BitOr", "BitXor",
        "Shl", "Shr", "UShr", "LT", "Eq"}

(* The operators every operand is fine for; d is the distance of a shift.  *)
PlainOp2(op, m, n, d) ==
  CASE op = "Add" -> Wrap(m + n)
    [] op = "Sub" -> Wrap(m - n)
    [] op = "Mul" -> Wrap(m * n)
    [] op = "BitAnd" -> FromBits(Bits(m) \cap Bits(n))
    [] op = "BitOr"  -> FromBits(Bits(m) \cup Bits(n))
    [] op = "BitXor" -> FromBits(SymDiff(Bits(m), Bits(n)))
    [] op = "Shl"  -> Wrap(m * 2^d)
    [] op = "Shr"  -> m \div 2^d
    [] op = "UShr" -> Wrap(Unsigned(m) \div 2^d)
    [] op = "LT" -> Bool(m < n)
    [] op = "Eq" -> Bool(m = n)

(* Rust traps when it divides by zero, and when the quotient overflows;    *)
(* built in release mode, it shifts by the distance modulo the word size.  *)
RustTraps(op, m, n) ==
  op \in {"Div", "Mod"} /\ (n = 0 \/ (m = -(2^(WordBits - 1)) /\ n = -1))

RustOp2(op, m, n) ==
  CASE op = "Div" -> TruncDiv(m, n)
    [] op = "Mod" -> TruncMod(m, n)
    [] OTHER -> PlainOp2(op, m, n, n % WordBits)

(* The OCaml interpreter reports a division by zero, divides in 64 bits,   *)
(* so that the overflowing quotient wraps, and masks the distance.         *)
RefFails(op, m, n) == op \in {"Div", "Mod"} /\ n = 0

AbsDistance(n) == Abs(n) % WordBits   \* mutant

ShiftDistance(n) == FromBits(Bits(n) \cap {i \in 0..WordBits - 1 : 2^i < WordBits})

RefOp2(op, m, n) ==
  CASE op = "Div" -> Wrap(TruncDiv(m, n))
    [] op = "Mod" -> Wrap(TruncMod(m, n))
    [] OTHER -> PlainOp2(op, m, n, ShiftDistance(n))

BitNot(n) == FromBits((0..WordBits - 1) \ Bits(n))

-----------------------------------------------------------------------------
(* Strings and arguments: pack_string, string_words, init_heap, print_str. *)

ASCII == 0..2^(ByteBits - 1) - 1

(* Byte k (0..3) of a word, the first one in the highest bits.             *)
ByteOf(word, k) == (Unsigned(word) \div 2^(ByteBits * (3 - k))) % 2^ByteBits

(* The words a string occupies with the NUL byte that ends it.             *)
TightStringWords(s) == (Len(s) + 3) \div 4   \* mutant: no room for the NUL

StringWords(s) == (Len(s) + 4) \div 4

(* Word i (from 0) of a packed string.                                     *)
PackedWord(s, i) ==
  LET Byte(j) == IF j <= Len(s) THEN s[j] ELSE 0 IN
  Wrap(MapThenSumSet(LAMBDA k : Byte(4 * i + k + 1) * 2^(ByteBits * (3 - k)), 0..3))

(* The address of the i-th argument's string.                              *)
ArgAddress(args, i) ==
  2 + Len(args) + MapThenSumSet(LAMBDA j : StringWords(args[j]), 1..i - 1)

HeapStart(args) == ArgAddress(args, Len(args) + 1)

(* heap[1] holds the number of arguments, the words after it the addresses *)
(* of their strings, and then come the strings.                            *)
InitHeap(size, args) ==
  [a \in 0..size - 1 |->
     IF a = 1 THEN Len(args)
     ELSE IF a \in 2..Len(args) + 1 THEN ArgAddress(args, a - 1)
     ELSE LET Owner == {i \in 1..Len(args) : a \in ArgAddress(args, i)..ArgAddress(args, i + 1) - 1}
          IN IF Owner = {} THEN 0
             ELSE LET i == CHOOSE i \in Owner : TRUE IN PackedWord(args[i], a - ArgAddress(args, i))]

(* The bytes from an address to the end of the heap.                       *)
BytesFrom(heap, ptr) ==
  [j \in 1..4 * (Cardinality(DOMAIN heap) - ptr) |->
     ByteOf(heap[ptr + (j - 1) \div 4], (j - 1) % 4)]

(* The text at an address, or why it cannot be printed: what comes first,  *)
(* a NUL, a byte that is not ASCII, or the end of the heap.                *)
TextAt(heap, ptr) ==
  IF ptr \notin DOMAIN heap THEN [err |-> "address", text |-> <<>>]
  ELSE LET bytes == BytesFrom(heap, ptr)
           stop  == SelectInSeq(bytes, LAMBDA b : b = 0 \/ b \notin ASCII)
       IN [err  |-> IF stop = 0 THEN "address"
                    ELSE IF bytes[stop] = 0 THEN "none" ELSE "text",
           text |-> IF stop # 0 /\ bytes[stop] = 0 THEN SubSeq(bytes, 1, stop - 1) ELSE <<>>]

-----------------------------------------------------------------------------
(* Free lists: sequences of regions, a region a base and a size.           *)

Region == [base: Nat, size: Nat]
Reg(base, size) == [base |-> base, size |-> size]
End(r) == r.base + r.size
Words(base, size) == base..base + size - 1

(* malloc/allocate: the first region that is large enough, 0 if none is.   *)
HeadFit(regions, n) ==   \* mutant: looks at the first region only
  IF regions # <<>> /\ Head(regions).size >= n THEN 1 ELSE 0

FirstFit(regions, n) == SelectInSeq(regions, LAMBDA r : r.size >= n)

(* The words are taken from the front of that region.                      *)
Carve(regions, i, n) ==
  IF regions[i].size = n THEN RemoveAt(regions, i)
  ELSE ReplaceAt(regions, i, Reg(regions[i].base + n, regions[i].size - n))

(* Rust's free: a block is inserted before the first region that lies      *)
(* behind it; regions that touch it are joined with it on the way.         *)
InsertForward[call \in Seq(Region) \X Region] ==
  LET l == call[1] b == call[2] IN
  IF l = <<>> THEN <<b>>
  ELSE IF End(b) = Head(l).base THEN <<Reg(b.base, b.size + Head(l).size)>> \o Tail(l)
  ELSE IF End(b) < Head(l).base THEN <<b>> \o l
  ELSE <<Head(l)>> \o InsertForward[<<Tail(l), b>>]

Insert[call \in Seq(Region) \X Region] ==
  LET l == call[1] b == call[2] IN
  IF l = <<>> THEN <<b>>
  ELSE IF End(b) = Head(l).base THEN <<Reg(b.base, b.size + Head(l).size)>> \o Tail(l)
  ELSE IF End(b) < Head(l).base THEN <<b>> \o l
  ELSE IF b.base = End(Head(l)) THEN Insert[<<Tail(l), Reg(Head(l).base, b.size + Head(l).size)>>]
  ELSE <<Head(l)>> \o Insert[<<Tail(l), b>>]

ForwardRelease(regions, b) == InsertForward[<<regions, b>>]   \* mutant: joins only forwards
Release(regions, b) == Insert[<<regions, b>>]

(* OCaml's merge_regions: sort by base, then join neighbours.              *)
Sorting(regions) ==
  CHOOSE p \in Bijection(DOMAIN regions, DOMAIN regions) :
    \A i, j \in DOMAIN regions : i < j => regions[p[i]].base <= regions[p[j]].base

SortByBase(regions) == [i \in DOMAIN regions |-> regions[Sorting(regions)[i]]]

JoinLast(joined, r) ==
  IF joined # <<>> /\ End(Last(joined)) = r.base
  THEN ReplaceAt(joined, Len(joined), Reg(Last(joined).base, Last(joined).size + r.size))
  ELSE Append(joined, r)

MergeRegions(regions) == FoldLeft(JoinLast, <<>>, SortByBase(regions))
=============================================================================
