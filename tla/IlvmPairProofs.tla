--------------------------- MODULE IlvmPairProofs ---------------------------
(***************************************************************************)
(* Proof that the two ILVM interpreters agree, and that the arguments of a *)
(* program stay as init_heap wrote them.  The parts that differ: the OCaml *)
(* interpreter frees by sorting and joining the whole list, where the Rust *)
(* one inserts; it masks the distance of a shift instead of taking a       *)
(* remainder, and refuses negative addresses that Rust reads as large      *)
(* unsigned ones.                                                          *)
(***************************************************************************)
EXTENDS IlvmProofs

-----------------------------------------------------------------------------
(* Separated lists are determined by the words they hold.                  *)

(* A region does not end before it begins.                                 *)
LEMMA EndsLater ==
  ASSUME NEW r \in Region
  PROVE  r.base \in Nat /\ End(r) \in Nat /\ r.base <= End(r)
  BY RegionFields

(* Where two separated lists with the same words agree so far, the next    *)
(* region of the one has a counterpart that begins no later,               *)
LEMMA NextBegins ==
  ASSUME NEW l \in Seq(Region), Separated(l), NEW m \in Seq(Region), Separated(m),
         \A a \in Nat : Holds(l, a) => Holds(m, a),
         NEW n \in 1..Len(l), \A i \in 1..n - 1 : i <= Len(m) /\ m[i] = l[i]
  PROVE  n <= Len(m) /\ m[n].base <= l[n].base
<1>1. Len(l) \in Nat /\ Len(m) \in Nat /\ n \in Nat /\ n >= 1 /\ n <= Len(l)
  BY LenProperties
<1>2. PICK a \in Nat : a = l[n].base /\ Holds(l, a)
  BY HoldsBase
<1>3. l[n] \in Region /\ l[n].size > 0
  BY ElementOfSeq DEF Separated
<1>4. Has(l[n], a)
  BY <1>2, <1>3, RegionFields DEF Has
<1>5. PICK j \in 1..Len(m) : Has(m[j], a)
  BY <1>2 DEF Holds
<1>6. ASSUME j < n PROVE FALSE
  <2>1. j \in 1..n - 1 /\ j \in 1..Len(l)
    BY <1>1, <1>6
  <2>2. Has(l[j], a)
    BY <1>5, <2>1
  <2>3. j = n
    BY <1>4, <2>1, <2>2, OneRegion
  <2>4. QED
    BY <1>1, <1>6, <2>3
<1>7. n <= j /\ n \in 1..Len(m)
  BY <1>1, <1>6
<1>8. m[n] \in Region /\ m[j] \in Region
  BY <1>7, ElementOfSeq
<1>9. m[j].base <= a
  BY <1>5 DEF Has
<1>10. CASE n = j
  BY <1>2, <1>7, <1>9, <1>10
<1>11. CASE n < j
  <2>1. End(m[n]) < m[j].base
    BY <1>7, <1>11 DEF Separated
  <2>2. m[n].base \in Nat /\ End(m[n]) \in Nat /\ m[n].base <= End(m[n]) /\ m[j].base \in Nat
    BY <1>8, EndsLater
  <2>3. QED
    BY <1>2, <1>7, <1>9, <2>1, <2>2
<1>12. QED
  BY <1>1, <1>7, <1>10, <1>11

(* and, if it begins where that begins, ends no earlier.                   *)
LEMMA NextEnds ==
  ASSUME NEW l \in Seq(Region), Separated(l), NEW m \in Seq(Region), Separated(m),
         \A a \in Nat : Holds(l, a) => Holds(m, a),
         NEW n \in 1..Len(l), n <= Len(m), m[n].base = l[n].base,
         \A i \in 1..n - 1 : m[i] = l[i]
  PROVE  End(l[n]) <= End(m[n])
<1>1. Len(l) \in Nat /\ Len(m) \in Nat /\ n \in Nat /\ n >= 1 /\ n <= Len(l) /\ n \in 1..Len(m)
  BY LenProperties
<1>2. l[n] \in Region /\ m[n] \in Region /\ m[n].size > 0
  BY <1>1, ElementOfSeq DEF Separated
<1>3. PICK e \in Nat : e = End(m[n])
  BY <1>2, RegionFields
<1> SUFFICES ASSUME e < End(l[n]) PROVE FALSE
  <2>1. End(l[n]) \in Nat
    BY <1>2, RegionFields
  <2>2. QED
    BY <1>3, <2>1
<1>4. Has(l[n], e)
  BY <1>2, <1>3, RegionFields DEF Has
<1>5. PICK j \in 1..Len(m) : Has(m[j], e)
  BY <1>1, <1>4 DEF Holds
<1>6. ASSUME j < n PROVE FALSE
  <2>1. j \in 1..n - 1 /\ j \in 1..Len(l)
    BY <1>1, <1>6
  <2>2. Has(l[j], e)
    BY <1>5, <2>1
  <2>3. j = n
    BY <1>4, <2>1, <2>2, OneRegion
  <2>4. QED
    BY <1>1, <1>6, <2>3
<1>7. ASSUME j = n PROVE FALSE
  BY <1>3, <1>5, <1>7 DEF Has
<1>8. ASSUME n < j PROVE FALSE
  <2>1. End(m[n]) < m[j].base
    BY <1>1, <1>8 DEF Separated
  <2>2. m[j].base <= e /\ m[j].base \in Nat
    BY <1>5, ElementOfSeq, RegionFields DEF Has
  <2>3. QED
    BY <1>3, <2>1, <2>2
<1>9. QED
  BY <1>1, <1>6, <1>7, <1>8

(* A region is known by its base and its end.                              *)
LEMMA SameRegion ==
  ASSUME NEW r \in Region, NEW t \in Region, r.base = t.base, End(r) = End(t)
  PROVE  r = t
<1>1. r.size = t.size
  BY RegionFields
<1>2. QED
  BY <1>1 DEF Region

(* Two separated lists of the same words are the same list.                *)
LEMMA SameWords ==
  ASSUME NEW l \in Seq(Region), Separated(l), NEW m \in Seq(Region), Separated(m),
         \A a \in Nat : Holds(l, a) <=> Holds(m, a)
  PROVE  l = m
<1>1. Len(l) \in Nat /\ Len(m) \in Nat
  BY LenProperties
<1> DEFINE Same(n) == \A i \in 1..n : (i <= Len(l) <=> i <= Len(m)) /\ (i <= Len(l) => l[i] = m[i])
           T == {n \in Nat : Same(n)}
<1>2. 0 \in T
  OBVIOUS
<1>3. ASSUME NEW n \in Nat, n \in T PROVE n + 1 \in T
  <2>1. PICK k \in Nat : k = n + 1
    OBVIOUS
  <2>2. k >= 1 /\ k - 1 = n
    BY <2>1
  <2>3. ASSUME k <= Len(l) \/ k <= Len(m)
        PROVE  k <= Len(l) /\ k <= Len(m) /\ l[k].base = m[k].base
    <3>1. \A i \in 1..k - 1 : i <= Len(l) /\ i <= Len(m) /\ l[i] = m[i]
      BY <1>1, <1>3, <2>2, <2>3
    <3>2. k <= Len(l) => k <= Len(m) /\ m[k].base <= l[k].base
      <4>1. ASSUME k <= Len(l) PROVE k <= Len(m) /\ m[k].base <= l[k].base
        <5>1. k \in 1..Len(l)
          BY <1>1, <2>2, <4>1
        <5>2. QED
          BY <3>1, <5>1, NextBegins
      <4>2. QED
        BY <4>1
    <3>3. k <= Len(m) => k <= Len(l) /\ l[k].base <= m[k].base
      <4>1. ASSUME k <= Len(m) PROVE k <= Len(l) /\ l[k].base <= m[k].base
        <5>1. k \in 1..Len(m)
          BY <1>1, <2>2, <4>1
        <5>2. QED
          BY <3>1, <5>1, NextBegins
      <4>2. QED
        BY <4>1
    <3>4. k \in 1..Len(l) /\ k \in 1..Len(m)
      BY <1>1, <2>2, <2>3, <3>2, <3>3
    <3>5. l[k].base \in Nat /\ m[k].base \in Nat
      BY <3>4, ElementOfSeq, RegionFields
    <3>6. QED
      BY <2>3, <3>2, <3>3, <3>5
  <2>4. ASSUME k <= Len(l), k <= Len(m), l[k].base = m[k].base PROVE l[k] = m[k]
    <3>1. k \in 1..Len(l) /\ k \in 1..Len(m)
      BY <1>1, <2>2, <2>4
    <3>2. \A i \in 1..k - 1 : l[i] = m[i]
      BY <1>1, <1>3, <2>2, <2>4
    <3>3. End(l[k]) <= End(m[k])
      BY <2>4, <3>1, <3>2, NextEnds
    <3>4. End(m[k]) <= End(l[k])
      BY <2>4, <3>1, <3>2, NextEnds
    <3>5. l[k] \in Region /\ m[k] \in Region
      BY <3>1, ElementOfSeq
    <3>6. End(l[k]) = End(m[k])
      BY <3>3, <3>4, <3>5, RegionFields
    <3>7. QED
      BY <2>4, <3>5, <3>6, SameRegion
  <2>5. (k <= Len(l) <=> k <= Len(m)) /\ (k <= Len(l) => l[k] = m[k])
    BY <2>3, <2>4
  <2>6. ASSUME NEW i \in 1..k
        PROVE (i <= Len(l) <=> i <= Len(m)) /\ (i <= Len(l) => l[i] = m[i])
    <3>1. i = k \/ i \in 1..n
      BY <2>2
    <3>2. QED
      BY <1>3, <2>5, <3>1
  <2>7. QED
    BY <2>1, <2>6
<1>4. \A n \in Nat : Same(n)
  <2> HIDE DEF Same
  <2>1. QED
    BY <1>2, <1>3, NumbersFromZero
<1>5. PICK top \in Nat : top = Len(l) + Len(m)
  BY <1>1
<1>6. Same(top)
  BY <1>4
<1>7. Len(l) = Len(m)
  <2>1. Len(l) > Len(m) => FALSE
    <3>1. Len(l) > Len(m) => Len(l) \in 1..top
      BY <1>1, <1>5
    <3>2. QED
      BY <1>1, <1>6, <3>1
  <2>2. Len(m) > Len(l) => FALSE
    <3>1. Len(m) > Len(l) => Len(m) \in 1..top
      BY <1>1, <1>5
    <3>2. QED
      BY <1>1, <1>6, <3>1
  <2>3. QED
    BY <1>1, <2>1, <2>2
<1>8. \A i \in 1..Len(l) : l[i] = m[i]
  <2>1. \A i \in 1..Len(l) : i \in 1..top
    BY <1>1, <1>5
  <2>2. QED
    BY <1>1, <1>6, <2>1
<1>9. QED
  BY <1>7, <1>8, SeqEqual

-----------------------------------------------------------------------------
(* Joining two neighbours.                                                 *)

(* In a separated list every region ends before the last one does.         *)
LEMMA LastEnds ==
  ASSUME NEW m \in Seq(Region), Separated(m), m # <<>>, NEW i \in 1..Len(m)
  PROVE  Len(m) \in 1..Len(m) /\ Last(m) = m[Len(m)] /\ End(m[i]) <= End(Last(m))
<1>1. Len(m) \in Nat /\ Len(m) > 0
  BY LenProperties, EmptySeq
<1>2. Last(m) = m[Len(m)] /\ Len(m) \in 1..Len(m)
  BY <1>1 DEF Last
<1>3. End(m[i]) \in Nat /\ m[Len(m)].base \in Nat /\ End(m[Len(m)]) \in Nat
      /\ m[Len(m)].base <= End(m[Len(m)])
  <2>1. m[i] \in Region /\ m[Len(m)] \in Region
    BY <1>2, ElementOfSeq
  <2>2. QED
    BY <2>1, EndsLater
<1>4. CASE i = Len(m)
  BY <1>2, <1>3, <1>4
<1>5. CASE i # Len(m)
  <2>1. End(m[i]) < m[Len(m)].base
    BY <1>1, <1>2, <1>5 DEF Separated
  <2>2. QED
    BY <1>2, <1>3, <2>1
<1>6. QED
  BY <1>4, <1>5

(* merge_regions with a region that touches the last one,                  *)
LEMMA JoinTouching ==
  ASSUME NEW m \in Seq(Region), Separated(m), m # <<>>, NEW r \in Region, r.size > 0,
         End(Last(m)) = r.base, NEW k, k = JoinLast(m, r)
  PROVE  /\ k \in Seq(Region) /\ Separated(k) /\ k # <<>> /\ End(Last(k)) = End(r)
         /\ \A a \in Nat : Holds(k, a) <=> Holds(m, a) \/ Has(r, a)
<1>1. PICK n \in Nat : n = Len(m) /\ n >= 1 /\ n \in 1..Len(m)
  BY LenProperties, EmptySeq
<1>2. PICK last \in Region : last = m[n] /\ Last(m) = last /\ last.size > 0
  BY <1>1, ElementOfSeq DEF Last, Separated
<1>3. PICK c : c = Reg(last.base, last.size + r.size)
  OBVIOUS
<1>4. /\ c \in Region /\ c.size > 0 /\ End(c) = End(r)
      /\ \A a \in Nat : Has(c, a) <=> Has(last, a) \/ Has(r, a)
  BY <1>2, <1>3, TwoInOne
<1>5. c.base = last.base
  BY <1>3 DEF Reg
<1>6. k = [m EXCEPT ![n] = c]
  BY <1>1, <1>2, <1>3 DEF JoinLast, ReplaceAt
<1>7. /\ k \in Seq(Region) /\ Len(k) = n
      /\ \A j \in 1..n : k[j] = IF j = n THEN c ELSE m[j]
  BY <1>1, <1>4, <1>6, ExceptSeq
<1>8. k[n] = c /\ k # <<>> /\ End(Last(k)) = End(r)
  BY <1>1, <1>4, <1>7, EmptySeq DEF Last
<1>9. Separated(k)
  <2>1. \A i \in 1..Len(k) : k[i].size > 0
    BY <1>1, <1>4, <1>7 DEF Separated
  <2>2. ASSUME NEW i \in 1..Len(k), NEW j \in 1..Len(k), i < j PROVE End(k[i]) < k[j].base
    <3>1. i # n /\ k[i] = m[i]
      BY <1>1, <1>7, <2>2
    <3>2. k[j].base = m[j].base
      BY <1>2, <1>5, <1>7
    <3>3. End(m[i]) < m[j].base
      BY <1>1, <1>7, <2>2 DEF Separated
    <3>4. QED
      BY <3>1, <3>2, <3>3
  <2>3. QED
    BY <2>1, <2>2 DEF Separated
<1>10. ASSUME NEW a \in Nat PROVE Holds(k, a) <=> Holds(m, a) \/ Has(r, a)
  <2>1. Holds(k, a) => Holds(m, a) \/ Has(r, a)
    <3>1. ASSUME NEW j \in 1..Len(k), Has(k[j], a) PROVE Holds(m, a) \/ Has(r, a)
      BY <1>1, <1>2, <1>4, <1>7, <3>1 DEF Holds
    <3>2. QED
      BY <3>1 DEF Holds
  <2>2. Holds(m, a) => Holds(k, a)
    <3>1. ASSUME NEW j \in 1..Len(m), Has(m[j], a) PROVE Holds(k, a)
      <4>1. Has(k[j], a)
        BY <1>1, <1>2, <1>4, <1>7, <3>1
      <4>2. QED
        BY <1>1, <1>7, <4>1 DEF Holds
    <3>2. QED
      BY <3>1 DEF Holds
  <2>3. Has(r, a) => Holds(k, a)
    BY <1>1, <1>4, <1>7, <1>8 DEF Holds
  <2>4. QED
    BY <2>1, <2>2, <2>3
<1>11. QED
  BY <1>7, <1>8, <1>9, <1>10

(* and with one that lies behind it.                                       *)
LEMMA JoinBehind ==
  ASSUME NEW m \in Seq(Region), Separated(m), NEW r \in Region, r.size > 0,
         m # <<>> => End(Last(m)) < r.base, NEW k, k = JoinLast(m, r)
  PROVE  /\ k \in Seq(Region) /\ Separated(k) /\ k # <<>> /\ End(Last(k)) = End(r)
         /\ \A a \in Nat : Holds(k, a) <=> Holds(m, a) \/ Has(r, a)
<1>1. PICK n \in Nat : n = Len(m)
  BY LenProperties
<1>2. k = Append(m, r)
  <2>1. m # <<>> => End(Last(m)) # r.base
    <3>1. r.base \in Nat
      BY RegionFields
    <3>2. QED
      BY <3>1
  <2>2. QED
    BY <2>1 DEF JoinLast
<1>3. k \in Seq(Region) /\ k # <<>> /\ Len(k) = n + 1 /\ k[n + 1] = r /\ \A i \in 1..n : k[i] = m[i]
  BY <1>1, <1>2, AppendProperties
<1>4. End(Last(k)) = End(r)
  BY <1>3 DEF Last
<1>5. \A i \in 1..Len(k) : i = n + 1 \/ i \in 1..n
  BY <1>1, <1>3
<1>6. Separated(k)
  <2>1. \A i \in 1..Len(k) : k[i].size > 0
    BY <1>1, <1>3, <1>5 DEF Separated
  <2>2. ASSUME NEW i \in 1..Len(k), NEW j \in 1..Len(k), i < j PROVE End(k[i]) < k[j].base
    <3>1. i \in 1..n
      BY <1>1, <1>3, <2>2
    <3>2. CASE j \in 1..n
      BY <1>1, <1>3, <2>2, <3>1, <3>2 DEF Separated
    <3>3. CASE j = n + 1
      <4>1. m # <<>>
        BY <1>1, <3>1, EmptySeq
      <4>2. End(m[i]) <= End(Last(m)) /\ Last(m) = m[n] /\ n \in 1..n
        BY <1>1, <3>1, <4>1, LastEnds
      <4>3. End(m[i]) \in Nat /\ End(m[n]) \in Nat /\ r.base \in Nat
        BY <1>1, <3>1, <4>2, ElementOfSeq, RegionFields
      <4>4. End(m[i]) < r.base
        BY <4>1, <4>2, <4>3
      <4>5. QED
        BY <1>3, <3>1, <3>3, <4>4
    <3>4. QED
      BY <1>5, <3>2, <3>3
  <2>3. QED
    BY <2>1, <2>2 DEF Separated
<1>7. ASSUME NEW a \in Nat PROVE Holds(k, a) <=> Holds(m, a) \/ Has(r, a)
  <2>1. Holds(k, a) => Holds(m, a) \/ Has(r, a)
    BY <1>1, <1>3, <1>5 DEF Holds
  <2>2. \A i \in 1..n : i \in 1..Len(k)
    BY <1>3
  <2>3. Holds(m, a) => Holds(k, a)
    BY <1>1, <1>3, <2>2 DEF Holds
  <2>4. n + 1 \in 1..Len(k)
    BY <1>3
  <2>5. Has(r, a) => Holds(k, a)
    BY <1>3, <2>4 DEF Holds
  <2>6. QED
    BY <2>1, <2>3, <2>5
<1>8. QED
  BY <1>3, <1>4, <1>6, <1>7

-----------------------------------------------------------------------------
(* merge_regions, region by region.                                        *)

(* What the loop of merge_regions has joined when it has seen the regions  *)
(* whose places are in t.                                                  *)
Joining(s, g) ==
  [t \in SUBSET (1..Len(s)) |-> IF t = {} THEN <<>> ELSE JoinLast(g[t \ {Max(t)}], s[Max(t)])]

(* The largest of some numbers.                                            *)
LEMMA Largest ==
  ASSUME NEW n \in Nat, NEW t \in SUBSET (1..n), t # {}
  PROVE  Max(t) \in t /\ \A x \in t : x <= Max(t)
<1> DEFINE T == {y \in Nat : \E x \in t : y = n - x}
<1>1. PICK x \in t : TRUE
  OBVIOUS
<1>2. n - x \in T
  <2>1. x \in 1..n
    OBVIOUS
  <2>2. n - x \in Nat
    BY <2>1
  <2>3. QED
    BY <2>2
<1>3. PICK y \in T : \A k \in T : y <= k
  BY <1>2, LeastNumber
<1>4. PICK m \in t : y = n - m
  BY <1>3
<1>5. ASSUME NEW z \in t PROVE m >= z
  <2>1. z \in 1..n /\ m \in 1..n
    OBVIOUS
  <2>2. n - z \in T
    <3>1. n - z \in Nat
      BY <2>1
    <3>2. QED
      BY <3>1
  <2>3. n - m <= n - z
    BY <1>3, <1>4, <2>2
  <2>4. QED
    BY <2>1, <2>3
<1>6. Max(t) \in t /\ \A z \in t : Max(t) >= z
  BY <1>5 DEF Max
<1>7. QED
  BY <1>6

(* There is such a function: by the number of regions seen.                *)
LEMMA JoiningExists ==
  ASSUME NEW s \in Seq(Region)
  PROVE  \E g : g = Joining(s, g)
<1>1. PICK top \in Nat : top = Len(s)
  BY LenProperties
<1> DEFINE dom(n) == {t \in SUBSET (1..top) : Cardinality(t) <= n}
           Part(n, g) == [t \in dom(n) |-> IF t = {} THEN <<>> ELSE JoinLast(g[t \ {Max(t)}], s[Max(t)])]
           T == {n \in Nat : \E g : g = Part(n, g)}
<1>2. IsFiniteSet(1..top)
  BY FS_Interval
<1>3. \A t \in SUBSET (1..top) : IsFiniteSet(t) /\ Cardinality(t) \in Nat
  BY <1>2, FS_Subset, FS_CardinalityType
<1>4. 0 \in T
  <2>1. \A t \in dom(0) : t = {}
    BY <1>3, FS_EmptySet
  <2> DEFINE g == [t \in dom(0) |-> <<>>]
  <2>2. g = Part(0, g)
    BY <2>1
  <2>3. QED
    BY <2>2
<1>5. ASSUME NEW n \in Nat, n \in T PROVE n + 1 \in T
  <2>1. PICK g : g = Part(n, g)
    BY <1>5
  <2> DEFINE h == Part(n + 1, g)
  <2>2. ASSUME NEW t \in dom(n + 1), t # {} PROVE h[t \ {Max(t)}] = g[t \ {Max(t)}]
    <3> DEFINE r == t \ {Max(t)}
    <3>1. Cardinality(t) \in Nat /\ Cardinality(t) <= n + 1 /\ IsFiniteSet(t) /\ Max(t) \in t
      BY <1>3, <2>2, Largest
    <3>2. Cardinality(r) = Cardinality(t) - 1
      BY <3>1, FS_RemoveElement
    <3>3. r \in dom(n) /\ r \in dom(n + 1)
      <4>1. r \in SUBSET (1..top)
        OBVIOUS
      <4>2. PICK c \in Nat : c = Cardinality(t)
        BY <3>1
      <4>3. Cardinality(r) <= n /\ Cardinality(r) <= n + 1
        BY <3>1, <3>2, <4>2
      <4>4. QED
        BY <4>1, <4>3
    <3> HIDE DEF r
    <3>4. h[r] = IF r = {} THEN <<>> ELSE JoinLast(g[r \ {Max(r)}], s[Max(r)])
      BY <3>3
    <3>5. g[r] = IF r = {} THEN <<>> ELSE JoinLast(g[r \ {Max(r)}], s[Max(r)])
      BY <2>1, <3>3
    <3>6. QED
      BY <3>4, <3>5 DEF r
  <2>3. h = Part(n + 1, h)
    <3>1. \A t \in dom(n + 1) : (IF t = {} THEN <<>> ELSE JoinLast(g[t \ {Max(t)}], s[Max(t)]))
                                = (IF t = {} THEN <<>> ELSE JoinLast(h[t \ {Max(t)}], s[Max(t)]))
      <4> HIDE DEF h
      <4>1. QED
        BY <2>2
    <3>2. QED
      BY <3>1
  <2> HIDE DEF h
  <2>4. \E e : e = Part(n + 1, e)
    BY <2>3
  <2> HIDE DEF Part
  <2>5. QED
    BY <2>4
<1>6. Cardinality(1..top) \in Nat /\ Cardinality(1..top) \in T
  <2>1. Cardinality(1..top) \in Nat
    BY <1>2, FS_CardinalityType
  <2> HIDE DEF T
  <2>2. QED
    BY <1>4, <1>5, <2>1, NumbersFromZero
<1>7. PICK g : g = Part(Cardinality(1..top), g)
  BY <1>6
<1>8. dom(Cardinality(1..top)) = SUBSET (1..top)
  BY <1>2, <1>3, FS_Subset
<1>9. g = Joining(s, g)
  BY <1>1, <1>7, <1>8 DEF Joining
<1>10. QED
  BY <1>9

(* The loop takes the regions one after the other.                         *)
LEMMA JoiningSteps ==
  ASSUME NEW s \in Seq(Region), NEW h, h = Joining(s, h)
  PROVE  /\ h[{}] = <<>>
         /\ \A n \in 1..Len(s) : h[1..n] = JoinLast(h[1..n - 1], s[n])
<1>1. Len(s) \in Nat
  BY LenProperties
<1>2. h[{}] = <<>>
  BY DEF Joining
<1>3. ASSUME NEW n \in 1..Len(s) PROVE h[1..n] = JoinLast(h[1..n - 1], s[n])
  <2>1. PICK t : t = 1..n
    OBVIOUS
  <2>2. t \in SUBSET (1..Len(s)) /\ n \in t /\ t # {} /\ n \in Nat
    <3>1. n \in Nat /\ 1 <= n /\ n <= Len(s)
      BY <1>1
    <3>2. n \in 1..n
      BY <3>1
    <3>3. \A x \in 1..n : x \in 1..Len(s)
      BY <1>1, <3>1
    <3>4. QED
      BY <2>1, <3>1, <3>2, <3>3
  <2>3. Max(t) \in t /\ \A x \in t : x <= Max(t)
    BY <1>1, <2>2, Largest
  <2>4. Max(t) = n
    BY <2>1, <2>2, <2>3
  <2>5. t \ {n} = 1..n - 1
    BY <2>1, <2>2
  <2>6. h[t] = JoinLast(h[t \ {Max(t)}], s[Max(t)])
    BY <2>2 DEF Joining
  <2>7. QED
    BY <2>1, <2>4, <2>5, <2>6
<1>4. QED
  BY <1>2, <1>3

(* merge_regions joins what it has sorted.                                 *)
LEMMA FoldIsJoining ==
  ASSUME NEW s \in Seq(Region)
  PROVE  \E h : h = Joining(s, h) /\ FoldLeft(JoinLast, <<>>, s) = h[1..Len(s)]
<1> DEFINE h == CHOOSE g : g = Joining(s, g)
<1>1. DOMAIN s = 1..Len(s)
  BY LenProperties
<1>2. FoldLeft(JoinLast, <<>>, s) = h[1..Len(s)]
  BY <1>1 DEF FoldLeft, MapThenFoldSet, Joining
<1>3. h = Joining(s, h)
  BY JoiningExists
<1> HIDE DEF h
<1>4. QED
  BY <1>2, <1>3

-----------------------------------------------------------------------------
(* The sorted list and its joined form.                                    *)

(* No region is empty, and none reaches into the next.                     *)
Ascending(s) ==
  /\ \A i \in 1..Len(s) : s[i].size > 0
  /\ \A i, j \in 1..Len(s) : i < j => End(s[i]) <= s[j].base

(* Regions in order are joined to a separated list of the same words.      *)
LEMMA JoinedSeparated ==
  ASSUME NEW s \in Seq(Region), Ascending(s), NEW m, m = FoldLeft(JoinLast, <<>>, s)
  PROVE  /\ m \in Seq(Region) /\ Separated(m)
         /\ \A a \in Nat : Holds(m, a) <=> Holds(s, a)
<1>1. PICK h : h = Joining(s, h) /\ m = h[1..Len(s)]
  BY FoldIsJoining
<1>2. h[{}] = <<>> /\ \A n \in 1..Len(s) : h[1..n] = JoinLast(h[1..n - 1], s[n])
  BY <1>1, JoiningSteps
<1>3. PICK top \in Nat : top = Len(s)
  BY LenProperties
<1> DEFINE Done(n) == n <= top =>
             /\ h[1..n] \in Seq(Region) /\ Separated(h[1..n])
             /\ h[1..n] # <<>> => n >= 1 /\ End(Last(h[1..n])) = End(s[n])
             /\ \A a \in Nat : Holds(h[1..n], a) <=> \E i \in 1..n : Has(s[i], a)
           T == {n \in Nat : Done(n)}
<1>4. 0 \in T
  <2>1. h[1..0] = <<>>
    <3>1. 1..0 = {}
      OBVIOUS
    <3>2. QED
      BY <1>2, <3>1
  <2>2. <<>> \in Seq(Region) /\ Len(<<>>) = 0
    BY EmptySeq
  <2>3. Separated(<<>>) /\ \A a \in Nat : ~Holds(<<>>, a)
    BY <2>2 DEF Separated, Holds
  <2>4. \A i : i \notin 1..0
    OBVIOUS
  <2>5. \A a \in Nat : Holds(h[1..0], a) <=> \E i \in 1..0 : Has(s[i], a)
    BY <2>1, <2>3, <2>4
  <2>6. h[1..0] \in Seq(Region) /\ Separated(h[1..0])
    BY <2>1, <2>2, <2>3
  <2>7. Done(0)
    BY <2>1, <2>5, <2>6
  <2>8. QED
    BY <2>7
<1>5. ASSUME NEW n \in Nat, n \in T PROVE n + 1 \in T
  <2>1. PICK k \in Nat : k = n + 1 /\ k - 1 = n /\ k >= 1
    OBVIOUS
  <2> SUFFICES ASSUME k <= top PROVE Done(k)
    BY <2>1
  <2>2. k \in 1..Len(s) /\ n <= top
    <3>1. k \in 1..top /\ n <= top
      BY <2>1
    <3>2. QED
      BY <1>3, <3>1
  <2>3. PICK j : j = h[1..n]
    OBVIOUS
  <2>4. PICK r : r = s[k] /\ r \in Region /\ r.size > 0
    BY <2>2, ElementOfSeq DEF Ascending
  <2>5. /\ j \in Seq(Region) /\ Separated(j)
        /\ j # <<>> => n >= 1 /\ End(Last(j)) = End(s[n])
        /\ \A a \in Nat : Holds(j, a) <=> \E i \in 1..n : Has(s[i], a)
    BY <1>5, <2>2, <2>3
  <2>6. PICK g : g = h[1..k] /\ g = JoinLast(j, r)
    BY <1>2, <2>1, <2>2, <2>3, <2>4
  <2>7. j # <<>> => End(Last(j)) \in Nat /\ End(Last(j)) <= r.base /\ r.base \in Nat
    <3>1. ASSUME j # <<>> PROVE End(Last(j)) \in Nat /\ End(Last(j)) <= r.base /\ r.base \in Nat
      <4>1. n \in 1..Len(s) /\ n < k
        BY <1>3, <2>1, <2>2, <2>5, <3>1
      <4>2. End(s[n]) <= s[k].base
        BY <2>2, <4>1 DEF Ascending
      <4>3. s[n] \in Region
        BY <4>1, ElementOfSeq
      <4>4. End(s[n]) \in Nat /\ r.base \in Nat
        BY <2>4, <4>3, RegionFields
      <4>5. QED
        BY <2>4, <2>5, <3>1, <4>2, <4>4
    <3>2. QED
      BY <3>1
  <2>8. /\ g \in Seq(Region) /\ Separated(g) /\ g # <<>> /\ End(Last(g)) = End(r)
        /\ \A a \in Nat : Holds(g, a) <=> Holds(j, a) \/ Has(r, a)
    <3>1. CASE j # <<>> /\ End(Last(j)) = r.base
      BY <2>4, <2>5, <2>6, <3>1, JoinTouching
    <3>2. CASE ~(j # <<>> /\ End(Last(j)) = r.base)
      <4>1. j # <<>> => End(Last(j)) < r.base
        BY <2>7, <3>2
      <4>2. QED
        BY <2>4, <2>5, <2>6, <4>1, JoinBehind
    <3>3. QED
      BY <3>1, <3>2
  <2>9. ASSUME NEW a \in Nat PROVE Holds(g, a) <=> \E i \in 1..k : Has(s[i], a)
    <3>1. \A i : i \in 1..k <=> i \in 1..n \/ i = k
      BY <2>1
    <3>2. QED
      BY <2>4, <2>5, <2>8, <3>1
  <2>10. QED
    BY <2>1, <2>4, <2>6, <2>8, <2>9
<1>6. Done(top)
  <2>1. \A n \in Nat : Done(n)
    <3> HIDE DEF Done
    <3>1. QED
      BY <1>4, <1>5, NumbersFromZero
  <2> HIDE DEF Done
  <2>2. QED
    BY <2>1
<1>7. /\ m \in Seq(Region) /\ Separated(m)
      /\ \A a \in Nat : Holds(m, a) <=> \E i \in 1..top : Has(s[i], a)
  BY <1>1, <1>3, <1>6
<1>8. QED
  BY <1>3, <1>7 DEF Holds

(* A block with a free list behind it.                                     *)
LEMMA BlockAndList ==
  ASSUME NEW l \in Seq(Region), NEW b \in Region, NEW s, s = <<b>> \o l
  PROVE  /\ s \in Seq(Region) /\ Len(s) = Len(l) + 1 /\ s[1] = b
         /\ \A i \in 1..Len(l) : s[i + 1] = l[i]
         /\ \A i \in 1..Len(s) : i = 1 \/ (i - 1 \in 1..Len(l) /\ s[i] = l[i - 1])
<1>1. /\ s \in Seq(Region) /\ Len(s) = Len(l) + 1 /\ Len(l) \in Nat /\ s[1] = b
      /\ \A i \in 1..Len(l) : s[i + 1] = l[i]
  OBVIOUS
<1>2. ASSUME NEW i \in 1..Len(s), i # 1 PROVE i - 1 \in 1..Len(l) /\ s[i] = l[i - 1]
  <2>1. i - 1 \in 1..Len(l) /\ (i - 1) + 1 = i
    BY <1>1, <1>2
  <2>2. QED
    BY <1>1, <2>1
<1>3. QED
  BY <1>1, <1>2

(* The block goes behind the last region that begins before it.            *)
LEMMA PlaceOf ==
  ASSUME NEW l \in Seq(Region), Separated(l), NEW b \in Region
  PROVE  \E k \in 0..Len(l) : /\ \A i \in 1..k : l[i].base <= b.base
                              /\ \A i \in k + 1..Len(l) : b.base <= l[i].base
<1>1. PICK n \in Nat : n = Len(l)
  BY LenProperties
<1>2. \A i \in 1..n : l[i].base \in Nat /\ End(l[i]) \in Nat /\ l[i].base <= End(l[i])
  <2>1. \A i \in 1..n : l[i] \in Region
    BY <1>1, ElementOfSeq
  <2>2. QED
    BY <2>1, EndsLater
<1>3. b.base \in Nat
  BY RegionFields
<1> DEFINE T == {k \in 0..n : \A i \in k + 1..n : b.base <= l[i].base}
<1>4. n \in T /\ T \in SUBSET Nat
  OBVIOUS
<1>5. PICK k \in T : \A j \in T : k <= j
  <2> HIDE DEF T
  <2>1. QED
    BY <1>4, LeastNumber
<1>6. k \in 0..n
  OBVIOUS
<1>7. CASE k = 0
  BY <1>1, <1>7
<1>8. CASE k # 0
  <2>1. PICK j \in Nat : j = k - 1 /\ j \in 0..n /\ j < k /\ j + 1 = k
    BY <1>6, <1>8
  <2>2. j \notin T
    BY <1>5, <1>6, <2>1
  <2>3. PICK i \in k..n : ~(b.base <= l[i].base)
    BY <2>1, <2>2
  <2>4. i = k
    <3>1. i \in k + 1..n => b.base <= l[i].base
      OBVIOUS
    <3>2. i \notin k + 1..n
      BY <2>3, <3>1
    <3>3. QED
      BY <1>6, <3>2
  <2>5. k \in 1..n /\ l[k].base <= b.base
    <3>1. k \in 1..n
      BY <1>6, <1>8
    <3>2. QED
      BY <1>2, <1>3, <2>3, <2>4, <3>1
  <2>6. ASSUME NEW x \in 1..k PROVE l[x].base <= b.base
    <3>1. CASE x = k
      BY <2>5, <3>1
    <3>2. CASE x # k
      <4>1. x \in 1..n /\ x < k
        BY <1>6, <3>2
      <4>2. End(l[x]) < l[k].base
        BY <1>1, <2>5, <4>1 DEF Separated
      <4>3. QED
        BY <1>2, <1>3, <2>5, <4>1, <4>2
    <3>3. QED
      BY <3>1, <3>2
  <2>7. \A x \in k + 1..n : b.base <= l[x].base
    OBVIOUS
  <2>8. QED
    BY <1>1, <1>6, <2>6, <2>7
<1>9. QED
  BY <1>7, <1>8

(* p arranges s by the bases of its regions.                               *)
InOrder(s, p) == \A i, j \in DOMAIN s : i < j => s[p[i]].base <= s[p[j]].base

(* List.sort has an order to find.                                         *)
LEMMA OrderExists ==
  ASSUME NEW l \in Seq(Region), Separated(l), NEW b \in Region, NEW s, s = <<b>> \o l
  PROVE  \E p \in Bijection(DOMAIN s, DOMAIN s) : InOrder(s, p)
<1>1. /\ s \in Seq(Region) /\ Len(s) = Len(l) + 1 /\ s[1] = b
      /\ \A i \in 1..Len(l) : s[i + 1] = l[i]
  BY BlockAndList
<1>2. PICK n \in Nat : n = Len(l)
  BY LenProperties
<1>3. DOMAIN s = 1..n + 1
  BY <1>1, <1>2, LenProperties
<1>4. PICK k \in 0..n : (\A i \in 1..k : l[i].base <= b.base) /\ \A i \in k + 1..n : b.base <= l[i].base
  BY <1>2, PlaceOf
<1>5. b.base \in Nat /\ \A i \in 1..n : l[i].base \in Nat
  <2>1. \A i \in 1..n : l[i] \in Region
    BY <1>2, ElementOfSeq
  <2>2. QED
    BY <2>1, RegionFields
<1>6. \A i, j \in 1..n : i < j => l[i].base <= l[j].base
  <2>1. ASSUME NEW i \in 1..n, NEW j \in 1..n, i < j PROVE l[i].base <= l[j].base
    <3>1. End(l[i]) < l[j].base
      BY <1>2, <2>1 DEF Separated
    <3>2. l[i] \in Region
      BY <1>2, ElementOfSeq
    <3>3. l[i].base <= End(l[i]) /\ End(l[i]) \in Nat
      BY <3>2, EndsLater
    <3>4. QED
      BY <1>5, <3>1, <3>3
  <2>2. QED
    BY <2>1
<1> DEFINE D == 1..n + 1
           p == [i \in D |-> IF i <= k THEN i + 1 ELSE IF i = k + 1 THEN 1 ELSE i]
<1>7. /\ \A i \in 1..k : i \in D /\ p[i] = i + 1
      /\ k + 1 \in D /\ p[k + 1] = 1
      /\ \A i \in k + 2..n + 1 : i \in D /\ p[i] = i
  OBVIOUS
<1>8. \A i \in D : i \in 1..k \/ i = k + 1 \/ i \in k + 2..n + 1
  OBVIOUS
<1>9. p \in [D -> D]
  OBVIOUS
<1> HIDE DEF p
<1>10. ASSUME NEW i \in D, NEW j \in D, p[i] = p[j] PROVE i = j
  <2>1. \A x \in D : \/ x \in 1..k /\ p[x] = x + 1
                     \/ x = k + 1 /\ p[x] = 1
                     \/ x \in k + 2..n + 1 /\ p[x] = x
    BY <1>7, <1>8
  <2>2. PICK x, y : x = p[i] /\ y = p[j]
    OBVIOUS
  <2>3. \/ i \in 1..k /\ x = i + 1
        \/ i = k + 1 /\ x = 1
        \/ i \in k + 2..n + 1 /\ x = i
    BY <2>1, <2>2
  <2>4. \/ j \in 1..k /\ y = j + 1
        \/ j = k + 1 /\ y = 1
        \/ j \in k + 2..n + 1 /\ y = j
    BY <2>1, <2>2
  <2>5. x = y
    BY <1>10, <2>2
  <2>6. QED
    BY <2>3, <2>4, <2>5
<1>11. ASSUME NEW t \in D PROVE \E i \in D : p[i] = t
  <2>0. t \in 1..n + 1
    OBVIOUS
  <2>1. CASE t = 1
    BY <1>7, <2>1
  <2>2. CASE t \in 2..k + 1
    <3>1. t - 1 \in 1..k /\ (t - 1) + 1 = t
      BY <2>2
    <3>2. QED
      BY <1>7, <3>1
  <2>3. CASE t \in k + 2..n + 1
    BY <1>7, <2>3
  <2>4. QED
    BY <2>1, <2>2, <2>3
<1>12. p \in Bijection(D, D)
  BY <1>9, <1>10, <1>11 DEF Bijection, Injection, IsInjective, Surjection
<1>13. /\ \A i \in 1..k : i \in 1..n /\ s[p[i]] = l[i]
       /\ s[p[k + 1]] = b
       /\ \A i \in k + 2..n + 1 : i - 1 \in k + 1..n /\ i - 1 \in 1..n /\ s[p[i]] = l[i - 1]
  <2>1. ASSUME NEW i \in 1..k PROVE i \in 1..n /\ s[p[i]] = l[i]
    <3>1. i \in 1..n
      OBVIOUS
    <3>2. QED
      BY <1>1, <1>2, <1>7, <3>1
  <2>2. s[p[k + 1]] = b
    BY <1>1, <1>7
  <2>3. ASSUME NEW i \in k + 2..n + 1
        PROVE  i - 1 \in k + 1..n /\ i - 1 \in 1..n /\ s[p[i]] = l[i - 1]
    <3>1. i - 1 \in k + 1..n /\ i - 1 \in 1..n /\ (i - 1) + 1 = i
      OBVIOUS
    <3>2. QED
      BY <1>1, <1>2, <1>7, <3>1
  <2>4. QED
    BY <2>1, <2>2, <2>3
<1>14. ASSUME NEW i \in D, NEW j \in D, i < j PROVE s[p[i]].base <= s[p[j]].base
  <2>1. CASE i \in 1..k /\ j \in 1..k
    BY <1>6, <1>13, <1>14, <2>1
  <2>2. CASE i \in 1..k /\ j = k + 1
    BY <1>4, <1>13, <2>2
  <2>3. CASE i \in 1..k /\ j \in k + 2..n + 1
    <3>1. i < j - 1 /\ i \in 1..n /\ j - 1 \in 1..n
      BY <2>3
    <3>2. QED
      BY <1>6, <1>13, <2>3, <3>1
  <2>4. CASE i = k + 1 /\ j \in k + 2..n + 1
    BY <1>4, <1>13, <2>4
  <2>5. CASE i \in k + 2..n + 1 /\ j \in k + 2..n + 1
    <3>1. i - 1 < j - 1 /\ i - 1 \in 1..n /\ j - 1 \in 1..n
      BY <1>14, <2>5
    <3>2. QED
      BY <1>6, <1>13, <2>5, <3>1
  <2>6. i \in 1..k \/ i = k + 1 \/ i \in k + 2..n + 1
    BY <1>8
  <2>7. j \in 1..k \/ j = k + 1 \/ j \in k + 2..n + 1
    BY <1>8
  <2>8. ~(i \in k + 2..n + 1 /\ (j \in 1..k \/ j = k + 1)) /\ ~(i = k + 1 /\ (j \in 1..k \/ j = k + 1))
    BY <1>14
  <2>9. QED
    BY <2>1, <2>2, <2>3, <2>4, <2>5, <2>6, <2>7, <2>8
<1>15. QED
  BY <1>3, <1>12, <1>14 DEF InOrder

(* What it returns has the same regions, in order.                         *)
LEMMA SortedAscending ==
  ASSUME NEW l \in Seq(Region), NEW b \in Region, Fits(l, b), NEW s, s = <<b>> \o l,
         NEW t, t = SortByBase(s)
  PROVE  /\ t \in Seq(Region) /\ Ascending(t)
         /\ \A a \in Nat : Holds(t, a) <=> Has(b, a) \/ Holds(l, a)
<1>1. /\ s \in Seq(Region) /\ Len(s) = Len(l) + 1 /\ s[1] = b
      /\ \A i \in 1..Len(l) : s[i + 1] = l[i]
      /\ \A i \in 1..Len(s) : i = 1 \/ (i - 1 \in 1..Len(l) /\ s[i] = l[i - 1])
  BY BlockAndList
<1>2. PICK n \in Nat : n = Len(s) /\ n = Len(l) + 1 /\ DOMAIN s = 1..n
  BY <1>1, LenProperties
<1> DEFINE p == Sorting(s)
<1>3. p \in Bijection(DOMAIN s, DOMAIN s) /\ InOrder(s, p)
  <2>1. \E q \in Bijection(DOMAIN s, DOMAIN s) : InOrder(s, q)
    BY OrderExists DEF Fits
  <2>2. p = CHOOSE q \in Bijection(DOMAIN s, DOMAIN s) : InOrder(s, q)
    BY DEF Sorting, InOrder
  <2>3. QED
    BY <2>1, <2>2
<1>4. t = [i \in 1..n |-> s[p[i]]]
  BY <1>2 DEF SortByBase
<1> HIDE DEF p
<1>5. /\ p \in [1..n -> 1..n]
      /\ \A i, j \in 1..n : p[i] = p[j] => i = j
      /\ \A j \in 1..n : \E i \in 1..n : p[i] = j
  BY <1>2, <1>3 DEF Bijection, Injection, IsInjective, Surjection
<1>6. \A i, j \in 1..n : i < j => s[p[i]].base <= s[p[j]].base
  BY <1>2, <1>3 DEF InOrder
<1>7. \A i \in 1..n : s[i] \in Region /\ s[i].size > 0
  <2>1. ASSUME NEW i \in 1..n PROVE s[i] \in Region /\ s[i].size > 0
    <3>1. s[i] \in Region
      BY <1>1, <1>2, ElementOfSeq
    <3>2. CASE i = 1
      BY <1>1, <3>1, <3>2 DEF Fits
    <3>3. CASE i - 1 \in 1..Len(l) /\ s[i] = l[i - 1]
      BY <3>1, <3>3 DEF Fits, Separated
    <3>4. QED
      BY <1>1, <1>2, <3>2, <3>3
  <2>2. QED
    BY <2>1
<1>8. ASSUME NEW i \in 1..n, NEW j \in 1..n, NEW a \in Nat, Has(s[i], a), Has(s[j], a) PROVE i = j
  <2>1. CASE i = 1 /\ j = 1
    BY <2>1
  <2>2. ASSUME i = 1, j # 1 PROVE FALSE
    <3>1. j - 1 \in 1..Len(l) /\ s[j] = l[j - 1]
      BY <1>1, <1>2, <2>2
    <3>2. Holds(l, a) /\ Has(b, a)
      BY <1>1, <1>8, <2>2, <3>1 DEF Holds
    <3>3. QED
      BY <3>2 DEF Fits
  <2>3. ASSUME j = 1, i # 1 PROVE FALSE
    <3>1. i - 1 \in 1..Len(l) /\ s[i] = l[i - 1]
      BY <1>1, <1>2, <2>3
    <3>2. Holds(l, a) /\ Has(b, a)
      BY <1>1, <1>8, <2>3, <3>1 DEF Holds
    <3>3. QED
      BY <3>2 DEF Fits
  <2>4. CASE i # 1 /\ j # 1
    <3>1. i - 1 \in 1..Len(l) /\ s[i] = l[i - 1] /\ j - 1 \in 1..Len(l) /\ s[j] = l[j - 1]
      BY <1>1, <1>2, <2>4
    <3>2. Has(l[i - 1], a) /\ Has(l[j - 1], a)
      BY <1>8, <3>1
    <3>3. i - 1 = j - 1
      BY <3>1, <3>2, OneRegion DEF Fits
    <3>4. QED
      BY <3>3
  <2>5. QED
    BY <2>1, <2>2, <2>3, <2>4
<1>9. t \in [1..n -> Region] /\ t \in Seq(Region) /\ Len(t) = n
  <2>1. \A i \in 1..n : p[i] \in 1..n /\ s[p[i]] \in Region
    BY <1>5, <1>7
  <2>2. t \in [1..n -> Region]
    BY <1>4, <2>1
  <2>3. QED
    BY <2>2
<1>10. \A i \in 1..n : t[i] = s[p[i]] /\ p[i] \in 1..n
  BY <1>4, <1>5
<1>11. Ascending(t)
  <2>1. \A i \in 1..n : t[i].size > 0
    BY <1>7, <1>10
  <2>2. ASSUME NEW i \in 1..n, NEW j \in 1..n, i < j PROVE End(t[i]) <= t[j].base
    <3>1. PICK r, q : r = t[i] /\ q = t[j] /\ r \in Region /\ q \in Region /\ q.size > 0
      BY <1>7, <1>10
    <3>2. /\ r.base \in Nat /\ End(r) \in Nat
      BY <3>1, RegionFields
    <3>3. q.base \in Nat /\ End(q) \in Nat /\ q.base < End(q)
      BY <3>1, RegionFields
    <3>4. r.base <= q.base
      BY <1>6, <1>10, <2>2, <3>1
    <3>5. ASSUME q.base < End(r) PROVE FALSE
      <4>1. Has(r, q.base) /\ Has(q, q.base)
        BY <3>2, <3>3, <3>4, <3>5 DEF Has
      <4>2. Has(s[p[i]], q.base) /\ Has(s[p[j]], q.base)
        BY <1>10, <3>1, <4>1
      <4>3. p[i] = p[j]
        BY <1>8, <1>10, <3>3, <4>2
      <4>4. i = j
        BY <1>5, <4>3
      <4>5. QED
        BY <2>2, <4>4
    <3>6. QED
      BY <3>1, <3>2, <3>3, <3>5
  <2>3. QED
    BY <1>9, <2>1, <2>2 DEF Ascending
<1>12. ASSUME NEW a \in Nat PROVE Holds(t, a) <=> Has(b, a) \/ Holds(l, a)
  <2>1. Holds(t, a) <=> Holds(s, a)
    <3>1. Holds(t, a) => Holds(s, a)
      <4>1. ASSUME NEW i \in 1..n, Has(t[i], a) PROVE Holds(s, a)
        <5>1. PICK j \in 1..n : j = p[i] /\ t[i] = s[j]
          BY <1>10
        <5>2. QED
          BY <1>2, <4>1, <5>1 DEF Holds
      <4>2. QED
        BY <1>9, <4>1 DEF Holds
    <3>2. Holds(s, a) => Holds(t, a)
      <4>1. ASSUME NEW j \in 1..n, Has(s[j], a) PROVE Holds(t, a)
        <5>1. PICK i \in 1..n : p[i] = j
          BY <1>5
        <5>2. QED
          BY <1>9, <1>10, <4>1, <5>1 DEF Holds
      <4>2. QED
        BY <1>2, <4>1 DEF Holds
    <3>3. QED
      BY <3>1, <3>2
  <2>2. Holds(s, a) => Has(b, a) \/ Holds(l, a)
    BY <1>1 DEF Holds
  <2>3. 1 \in 1..Len(s) /\ \A i \in 1..Len(l) : i + 1 \in 1..Len(s)
    BY <1>2
  <2>4. Has(b, a) \/ Holds(l, a) => Holds(s, a)
    BY <1>1, <2>3 DEF Holds
  <2>5. QED
    BY <2>1, <2>2, <2>4
<1>13. QED
  BY <1>9, <1>11, <1>12

(* Both interpreters free a block to the same list.                        *)
LEMMA MergeIsRelease ==
  ASSUME NEW l \in Seq(Region), NEW b \in Region, Fits(l, b)
  PROVE  MergeRegions(<<b>> \o l) = Release(l, b)
<1>1. PICK s, t, m : s = <<b>> \o l /\ t = SortByBase(s) /\ m = FoldLeft(JoinLast, <<>>, t)
  OBVIOUS
<1>2. /\ t \in Seq(Region) /\ Ascending(t)
      /\ \A a \in Nat : Holds(t, a) <=> Has(b, a) \/ Holds(l, a)
  BY <1>1, SortedAscending
<1>3. m \in Seq(Region) /\ Separated(m) /\ \A a \in Nat : Holds(m, a) <=> Holds(t, a)
  BY <1>1, <1>2, JoinedSeparated
<1>4. PICK r : r = Release(l, b)
  OBVIOUS
<1>5. r \in Seq(Region) /\ Separated(r) /\ \A a \in Nat : Holds(r, a) <=> Has(b, a) \/ Holds(l, a)
  BY <1>4, ReleaseAdds DEF Inserted
<1>6. m = r
  BY <1>2, <1>3, <1>5, SameWords
<1>7. QED
  BY <1>1, <1>4, <1>6 DEF MergeRegions

-----------------------------------------------------------------------------
(* Remainders, powers and the distance of a shift.                         *)

(* Division with remainder has one result.                                 *)
LEMMA Division ==
  ASSUME NEW n \in Nat, n > 0, NEW q \in Int, NEW r \in 0..n - 1, NEW m, m = n * q + r
  PROVE  m \in Int /\ m \div n = q /\ m % n = r
<1>1. n * q \in Int /\ m \in Int
  OBVIOUS
<1>2. PICK d, e : d = m \div n /\ e = m % n
  OBVIOUS
<1>3. d \in Int /\ e \in 0..n - 1
  BY <1>1, <1>2
<1>4. m = n * d + e
  <2>1. m = n * (m \div n) + (m % n)
    BY <1>1, Z3
  <2>2. QED
    BY <1>2, <2>1
<1>5. ASSUME q < d PROVE FALSE
  <2>1. PICK x \in Nat : d = (q + 1) + x
    <3>1. d - (q + 1) \in Nat
      BY <1>3, <1>5
    <3>2. d = (q + 1) + (d - (q + 1))
      BY <1>3
    <3>3. QED
      BY <3>1, <3>2
  <2>2. n * d = (n * q + n) + n * x
    BY <2>1
  <2>3. n * x \in Nat
    OBVIOUS
  <2>4. PICK y, z : y = n * q /\ z = n * x /\ y \in Int /\ z \in Nat
    BY <1>1, <2>3
  <2>5. y + r = ((y + n) + z) + e
    BY <1>4, <2>2, <2>4
  <2>6. QED
    BY <1>3, <2>4, <2>5
<1>6. ASSUME d < q PROVE FALSE
  <2>1. PICK x \in Nat : q = (d + 1) + x
    <3>1. q - (d + 1) \in Nat
      BY <1>3, <1>6
    <3>2. q = (d + 1) + (q - (d + 1))
      BY <1>3
    <3>3. QED
      BY <3>1, <3>2
  <2>2. n * q = (n * d + n) + n * x
    BY <1>3, <2>1
  <2>3. n * x \in Nat /\ n * d \in Int
    BY <1>3
  <2>4. PICK y, z : y = n * d /\ z = n * x /\ y \in Int /\ z \in Nat
    BY <2>3
  <2>5. y + e = ((y + n) + z) + r
    BY <1>4, <2>2, <2>4
  <2>6. QED
    BY <1>3, <2>4, <2>5
<1>7. d = q
  BY <1>3, <1>5, <1>6
<1>8. e = r
  <2>1. PICK y \in Int : y = n * q
    BY <1>1
  <2>2. y + r = y + e
    BY <1>4, <1>7, <2>1
  <2>3. QED
    BY <1>3, <2>2
<1>9. QED
  BY <1>1, <1>2, <1>7, <1>8

(* A number as quotient and remainder.                                     *)
LEMMA Remainder ==
  ASSUME NEW m \in Int, NEW n \in Nat, n > 0
  PROVE  /\ m \div n \in Int /\ m % n \in 0..n - 1 /\ m = n * (m \div n) + (m % n)
         /\ m \in Nat => m \div n \in Nat
<1>1. m \div n \in Int /\ m % n \in 0..n - 1
  OBVIOUS
<1>2. m = n * (m \div n) + (m % n)
  BY Z3
<1>3. m \in Nat => m \div n \in Nat
  BY Quotient
<1>4. QED
  BY <1>1, <1>2, <1>3

(* A word wraps to itself.                                                 *)
LEMMA WrapSame ==
  ASSUME NEW n \in Word
  PROVE  Wrap(n) = n
<1>0. PICK h, p : h = Half /\ p = 2^WordBits
  OBVIOUS
<1>1. h = Half /\ p = 2^WordBits /\ h \in Nat /\ p \in Nat /\ p > 0 /\ p = 2 * h
  BY <1>0, WordRange
<1>2. n \in -h..h - 1
  BY <1>1, WordRange
<1>3. PICK m \in 0..p - 1 : m = n + h
  BY <1>1, <1>2
<1>4. m = p * 0 + m
  BY <1>1
<1>5. m % p = m
  BY <1>1, <1>4, Division
<1>6. Wrap(n) = (m % p) - h
  BY <1>1, <1>3 DEF Wrap, Half
<1>7. QED
  BY <1>1, <1>2, <1>3, <1>5, <1>6

-----------------------------------------------------------------------------
(* Powers of two.                                                          *)

(* Each is twice the one before,                                           *)
LEMMA Double ==
  ASSUME NEW k \in Nat, k + 1 <= WordBits
  PROVE  2^k \in Nat /\ 2^k > 0 /\ 2^(k + 1) = 2 * 2^k /\ 2^(k + 1) \in Nat
<1>1. PICK j : j = k + 1
  OBVIOUS
<1>2. WordBits \in Nat
  BY WordRange
<1>3. k \in 0..WordBits /\ j \in 0..WordBits /\ j > 0 /\ j - 1 = k
  BY <1>1, <1>2
<1>4. 2^j = 2 * 2^k /\ 2^j \in Nat /\ 2^k \in Nat /\ 2^k > 0
  BY <1>3, PowersOfTwo
<1>5. QED
  BY <1>1, <1>4

(* larger than its exponent,                                               *)
LEMMA PowerLarge ==
  ASSUME NEW k \in Nat, k <= WordBits
  PROVE  2^k \in Nat /\ 2^k > k
<1> DEFINE T == {j \in Nat : j <= WordBits => 2^j \in Nat /\ 2^j > j}
<1>1. 0 \in T
  <2>1. 2^0 = 1
    OBVIOUS
  <2>2. QED
    BY <2>1
<1>2. ASSUME NEW j \in Nat, j \in T PROVE j + 1 \in T
  <2>1. ASSUME j + 1 <= WordBits PROVE 2^(j + 1) \in Nat /\ 2^(j + 1) > j + 1
    <3>1. j <= WordBits
      BY <2>1, WordRange
    <3>2. 2^j \in Nat /\ 2^j > j
      BY <1>2, <3>1
    <3>3. 2^(j + 1) = 2 * 2^j
      BY <2>1, Double
    <3>4. PICK p, q : p = 2^j /\ q = 2^(j + 1)
      OBVIOUS
    <3>5. q = 2 * p /\ p \in Nat /\ p > j
      BY <3>2, <3>3, <3>4
    <3>6. q \in Nat /\ q > j + 1
      BY <3>5
    <3>7. QED
      BY <3>4, <3>6
  <2>2. QED
    BY <2>1
<1>3. k \in T
  <2> HIDE DEF T
  <2>1. QED
    BY <1>1, <1>2, NumbersFromZero
<1>4. QED
  BY <1>3

(* and a factor of those that follow.                                      *)
LEMMA PowerFactor ==
  ASSUME NEW k \in Nat, NEW d \in Nat, k + d <= WordBits
  PROVE  2^k \in Nat /\ 2^k > 0 /\ \E c \in Nat : 2^(k + d) = 2^k * c /\ c >= 1 /\ (d > 0 => c >= 2)
<1>1. WordBits \in Nat
  BY WordRange
<1>2. PICK p : p = 2^k /\ p \in Nat /\ p > 0
  <2>1. k <= WordBits
    BY <1>1
  <2>2. 2^k \in Nat /\ 2^k > k
    BY <2>1, PowerLarge
  <2>3. PICK p : p = 2^k
    OBVIOUS
  <2>4. QED
    BY <2>2, <2>3
<1> DEFINE T == {e \in Nat : k + e <= WordBits =>
                   \E c \in Nat : 2^(k + e) = p * c /\ c >= 1 /\ (e > 0 => c >= 2)}
<1>3. 0 \in T
  <2>1. k + 0 = k /\ p * 1 = p
    BY <1>2
  <2>2. 2^(k + 0) = p * 1
    BY <1>2, <2>1
  <2>3. QED
    BY <2>2
<1>4. ASSUME NEW e \in Nat, e \in T PROVE e + 1 \in T
  <2>1. ASSUME k + (e + 1) <= WordBits
        PROVE  \E c \in Nat : 2^(k + (e + 1)) = p * c /\ c >= 1 /\ (e + 1 > 0 => c >= 2)
    <3>1. k + e <= WordBits /\ k + e \in Nat /\ (k + e) + 1 <= WordBits /\ k + (e + 1) = (k + e) + 1
      BY <1>1, <2>1
    <3>2. PICK c \in Nat : 2^(k + e) = p * c /\ c >= 1
      BY <1>4, <3>1
    <3>3. 2^((k + e) + 1) = 2 * 2^(k + e)
      BY <3>1, Double
    <3>4. 2^(k + (e + 1)) = 2 * (p * c)
      BY <3>1, <3>2, <3>3
    <3>5. 2 * (p * c) = p * (2 * c) /\ 2 * c \in Nat /\ 2 * c >= 2
      BY <1>2, <3>2
    <3>6. QED
      BY <3>4, <3>5
  <2>2. QED
    BY <2>1
<1>5. d \in T
  <2> HIDE DEF T
  <2>1. QED
    BY <1>3, <1>4, NumbersFromZero
<1>6. QED
  BY <1>2, <1>5

(* The bits of u below the j-th that are one.                              *)
Low(u, j) == {i \in 0..j - 1 : (u \div 2^i) % 2 = 1}

(* One more bit.                                                           *)
LEMMA OneMoreBit ==
  ASSUME NEW u \in Nat, NEW p \in Nat, p > 0
  PROVE  u % (2 * p) = p * ((u \div p) % 2) + (u % p)
<1>1. PICK q, r : q = u \div p /\ r = u % p
  OBVIOUS
<1>2. q \in Nat /\ r \in 0..p - 1 /\ u = p * q + r
  BY <1>1, Remainder
<1>3. PICK h, b : h = q \div 2 /\ b = q % 2
  OBVIOUS
<1>4. h \in Int /\ b \in 0..2 - 1 /\ q = 2 * h + b
  BY <1>2, <1>3, Remainder
<1>5. b = 0 \/ b = 1
  BY <1>4
<1>6. PICK s : s = p * b + r
  OBVIOUS
<1>7. s \in 0..(2 * p) - 1
  <2>1. CASE b = 0
    BY <1>2, <1>6, <2>1
  <2>2. CASE b = 1
    BY <1>2, <1>6, <2>2
  <2>3. QED
    BY <1>5, <2>1, <2>2
<1>8. u = (2 * p) * h + s
  <2>1. p * (2 * h + b) = (2 * p) * h + p * b
    BY <1>4
  <2>2. p * b \in Int /\ (2 * p) * h \in Int /\ p * q \in Int
    BY <1>2, <1>4
  <2>3. QED
    BY <1>2, <1>4, <1>6, <2>1, <2>2
<1>9. PICK t : t = 2 * p /\ t \in Nat /\ t > 0
  OBVIOUS
<1>10. u % t = s
  BY <1>4, <1>7, <1>8, <1>9, Division
<1>11. QED
  BY <1>1, <1>3, <1>6, <1>9, <1>10

(* The low bits add up to a remainder.                                     *)
LEMMA LowBits ==
  ASSUME NEW u \in Nat, NEW k \in Nat, k <= WordBits
  PROVE  SumOver(Power, Low(u, k)) = u % 2^k
<1>0. WordBits \in Nat
  BY WordRange
<1> DEFINE T == {j \in Nat : j <= WordBits => SumOver(Power, Low(u, j)) = u % 2^j}
<1>1. 0 \in T
  <2>1. Low(u, 0) = {}
    BY DEF Low
  <2>2. SumOver(Power, {}) = 0
    BY SumRecursion, FS_EmptySet
  <2>3. 2^0 = 1
    OBVIOUS
  <2>4. u % 1 = 0
    OBVIOUS
  <2>5. QED
    BY <2>1, <2>2, <2>3, <2>4
<1>2. ASSUME NEW j \in Nat, j \in T PROVE j + 1 \in T
  <2>1. ASSUME j + 1 <= WordBits PROVE SumOver(Power, Low(u, j + 1)) = u % 2^(j + 1)
    <3>1. PICK p : p = 2^j /\ p \in Nat /\ p > 0 /\ 2^(j + 1) = 2 * p
      BY <2>1, Double
    <3>2. SumOver(Power, Low(u, j)) = u % p
      BY <1>0, <1>2, <2>1, <3>1
    <3>3. PICK b : b = (u \div p) % 2
      OBVIOUS
    <3>4. u % 2^(j + 1) = p * b + (u % p)
      BY <3>1, <3>3, OneMoreBit
    <3>5. b = 0 \/ b = 1
      <4>1. u \div p \in Nat
        BY <3>1, Remainder
      <4>2. QED
        BY <3>3, <4>1
    <3>6. u % p \in Nat
      BY <3>1, Remainder
    <3>7. CASE b = 0
      <4>1. \A i : i \in Low(u, j + 1) <=> i \in Low(u, j)
        BY <3>1, <3>3, <3>7 DEF Low
      <4>2. Low(u, j + 1) = Low(u, j)
        BY <4>1
      <4>3. p * b = 0
        BY <3>1, <3>7
      <4>4. QED
        BY <3>2, <3>4, <3>6, <4>2, <4>3
    <3>8. CASE b = 1
      <4>1. PICK S : S = Low(u, j + 1)
        OBVIOUS
      <4>2. j \in S /\ S \in SUBSET (0..WordBits - 1)
        BY <1>0, <2>1, <3>1, <3>3, <3>8, <4>1 DEF Low
      <4>3. \A i : i \in S \ {j} <=> i \in Low(u, j)
        BY <4>1 DEF Low
      <4>4. S \ {j} = Low(u, j)
        BY <4>3
      <4>5. IsFiniteSet(S) /\ \A x \in S : Power[x] \in Nat
        <5>1. IsFiniteSet(S)
          BY <4>2, BitsAddUp
        <5>2. \A x \in S : Power[x] \in Nat
          BY <4>2, WordRange DEF Power
        <5>3. QED
          BY <5>1, <5>2
      <4>6. SumOver(Power, S) = Power[j] + SumOver(Power, S \ {j})
        <5>1. j \in S
          BY <4>2
        <5>2. IsFiniteSet(S)
          BY <4>5
        <5>3. \A x \in S : Power[x] \in Nat
          BY <4>5
        <5>4. \A x \in S : SumOver(Power, S) = Power[x] + SumOver(Power, S \ {x})
          BY <5>2, <5>3, SumRemove
        <5>5. QED
          BY <5>1, <5>4
      <4>7. Power[j] = p
        BY <3>1, <4>2 DEF Power
      <4>8. p * b = p
        BY <3>1, <3>8
      <4>9. QED
        BY <3>2, <3>4, <4>1, <4>4, <4>6, <4>7, <4>8
    <3>9. QED
      BY <3>5, <3>7, <3>8
  <2>2. QED
    BY <2>1
<1>3. k \in T
  <2> HIDE DEF T
  <2>1. QED
    BY <1>1, <1>2, NumbersFromZero
<1>4. QED
  BY <1>3

(* Powers grow with the exponent.                                          *)
LEMMA PowerOrder ==
  ASSUME NEW k \in 0..WordBits, NEW i \in 0..WordBits
  PROVE  2^i < 2^k <=> i < k
<1>0. WordBits \in Nat /\ k \in Nat /\ i \in Nat /\ k <= WordBits /\ i <= WordBits
  BY WordRange
<1>1. CASE i < k
  <2>1. PICK d : d = k - i /\ d \in Nat /\ d > 0 /\ i + d = k
    BY <1>0, <1>1
  <2>2. PICK c \in Nat : 2^i \in Nat /\ 2^i > 0 /\ 2^(i + d) = 2^i * c /\ c >= 2
    BY <1>0, <2>1, PowerFactor
  <2>3. PICK p : p = 2^i /\ p \in Nat /\ p > 0
    BY <2>2
  <2>4. p < p * c
    <3>1. p * c >= p * 2
      BY <2>2, <2>3
    <3>2. p * 2 > p /\ p * c \in Nat
      BY <2>2, <2>3
    <3>3. QED
      BY <2>3, <3>1, <3>2
  <2>5. QED
    BY <1>1, <2>1, <2>2, <2>3, <2>4
<1>2. CASE k <= i
  <2>1. PICK d : d = i - k /\ d \in Nat /\ k + d = i
    BY <1>0, <1>2
  <2>2. PICK c \in Nat : 2^k \in Nat /\ 2^k > 0 /\ 2^(k + d) = 2^k * c /\ c >= 1
    BY <1>0, <2>1, PowerFactor
  <2>3. PICK p : p = 2^k /\ p \in Nat /\ p > 0
    BY <2>2
  <2>4. p <= p * c /\ p * c \in Nat
    BY <2>2, <2>3
  <2>5. ~(i < k)
    BY <1>0, <1>2
  <2>6. QED
    BY <2>1, <2>2, <2>3, <2>4, <2>5
<1>3. QED
  BY <1>0, <1>1, <1>2

(* The low bits of a word, read unsigned or not.                           *)
LEMMA LowUnsigned ==
  ASSUME NEW n \in Int, NEW k \in Nat, k <= WordBits
  PROVE  Unsigned(n) % 2^k = n % 2^k
<1>0. WordBits \in Nat
  BY WordRange
<1>1. PICK d : d = WordBits - k /\ d \in Nat /\ k + d = WordBits
  BY <1>0
<1>2. PICK c \in Nat : 2^k \in Nat /\ 2^k > 0 /\ 2^(k + d) = 2^k * c /\ c >= 1
  <2>1. k \in Nat /\ d \in Nat /\ k + d <= WordBits
    BY <1>0, <1>1
  <2>2. 2^k \in Nat /\ 2^k > 0
    BY <2>1, PowerFactor
  <2>3. \E c \in Nat : 2^(k + d) = 2^k * c /\ c >= 1
    BY <2>1, PowerFactor
  <2>4. QED
    BY <2>2, <2>3
<1>3. PICK p, m : p = 2^k /\ m = 2^WordBits
  OBVIOUS
<1>4. p \in Nat /\ p > 0 /\ m = p * c
  BY <1>1, <1>2, <1>3
<1>5. m \in Nat /\ m > 0
  <2>1. p * c >= p * 1
    BY <1>2, <1>4
  <2>2. p * c \in Nat /\ p * 1 = p
    BY <1>2, <1>4
  <2>3. QED
    BY <1>4, <2>1, <2>2
<1>6. PICK u, q : u = n % m /\ q = n \div m
  OBVIOUS
<1>7. q \in Int /\ u \in 0..m - 1 /\ n = m * q + u
  BY <1>5, <1>6, Remainder
<1>8. PICK s, r : s = u \div p /\ r = u % p
  OBVIOUS
<1>9. s \in Int /\ r \in 0..p - 1 /\ u = p * s + r
  <2>1. u \in Int
    BY <1>5, <1>7
  <2>2. QED
    BY <1>4, <1>8, <2>1, Remainder
<1>10. PICK t : t = c * q + s /\ t \in Int
  BY <1>2, <1>7, <1>9
<1>11. n = p * t + r
  <2>1. p * (c * q + s) = (p * c) * q + p * s
    BY <1>2, <1>4, <1>7, <1>9
  <2>2. (p * c) * q \in Int /\ p * s \in Int /\ r \in Int
    BY <1>2, <1>4, <1>7, <1>9
  <2>3. QED
    BY <1>4, <1>7, <1>9, <1>10, <2>1, <2>2
<1>12. n % p = r
  BY <1>4, <1>9, <1>10, <1>11, Division
<1>13. QED
  BY <1>3, <1>6, <1>8, <1>12 DEF Unsigned

(* Masking a shift's distance is taking a remainder.                       *)
LEMMA SameDistance ==
  ASSUME NEW n \in Word
  PROVE  ShiftDistance(n) = n % WordBits
<1>0. WordBits \in Nat /\ WordBits >= 4 /\ n \in Int
  BY WordRange
<1>1. PICK k \in 0..WordBits : WordBits = 2^k
  BY IlvmWordsAssumption
<1>2. PICK w, u : w = WordBits /\ u = Unsigned(n)
  OBVIOUS
<1>3. k \in Nat /\ k <= w /\ k < w /\ w \in Nat
  <2>1. k \in Nat /\ k <= w /\ w \in Nat
    BY <1>0, <1>2
  <2>2. 2^k > k
    BY <1>2, <2>1, PowerLarge
  <2>3. QED
    BY <1>1, <1>2, <2>1, <2>2
<1>4. u \in Nat
  BY <1>0, <1>2, UnsignedIsNat
<1>5. \A i \in 0..w - 1 : 2^i < w <=> i < k
  BY <1>0, <1>1, <1>2, PowerOrder
<1>6. PICK S : S = Bits(n) \cap {i \in 0..WordBits - 1 : 2^i < WordBits}
  OBVIOUS
<1>7. S = Low(u, k)
  <2>1. \A i : i \in S <=> i \in 0..w - 1 /\ (u \div 2^i) % 2 = 1 /\ 2^i < w
    BY <1>2, <1>6 DEF Bits
  <2>2. \A i : i \in Low(u, k) <=> i \in 0..k - 1 /\ (u \div 2^i) % 2 = 1
    BY DEF Low
  <2>3. \A i : i \in 0..k - 1 <=> i \in 0..w - 1 /\ i < k
    BY <1>3
  <2>4. \A i : i \in S <=> i \in Low(u, k)
    BY <1>5, <2>1, <2>2, <2>3
  <2>5. QED
    BY <2>4
<1>8. SumOver(Power, S) = n % w
  <2>1. SumOver(Power, Low(u, k)) = u % 2^k
    BY <1>2, <1>3, <1>4, LowBits
  <2>2. u % 2^k = n % 2^k
    BY <1>0, <1>2, <1>3, LowUnsigned
  <2>3. QED
    BY <1>1, <1>2, <1>7, <2>1, <2>2
<1>9. n % w \in Word
  <2>1. PICK h : h = Half
    OBVIOUS
  <2>2. h \in Nat /\ Word = -h..h - 1
    BY <2>1, WordRange
  <2>3. n % w \in 0..w - 1
    BY <1>0, <1>2
  <2>4. w - 1 <= h - 1
    <3>1. w - 1 \in Nat /\ w - 1 <= WordBits
      BY <1>0, <1>2
    <3>2. 2^(w - 1) > w - 1
      BY <3>1, PowerLarge
    <3>3. QED
      BY <1>2, <1>3, <2>1, <2>2, <3>2 DEF Half
  <2>5. QED
    BY <1>3, <2>2, <2>3, <2>4
<1>10. S \in SUBSET (0..WordBits - 1)
  BY <1>6
<1>11. FromBits(S) = Wrap(SumOver(Power, S))
  BY <1>10, BitsAddUp
<1>12. Wrap(n % w) = n % w
  BY <1>9, WrapSame
<1>13. QED
  BY <1>2, <1>6, <1>8, <1>11, <1>12 DEF ShiftDistance

-----------------------------------------------------------------------------
(* The definitions that the two interpreters share.                        *)

(* Wrapping around,                                                        *)
LEMMA SameWrap ==
  ASSUME NEW n
  PROVE  Ref!Wrap(n) = Wrap(n)
  BY DEF Ref!Wrap, Wrap

(* the complement of a word,                                               *)
LEMMA SameNot ==
  ASSUME NEW n
  PROVE  Ref!BitNot(n) = BitNot(n)
  BY DEF Ref!BitNot, BitNot, Ref!FromBits, FromBits, Ref!Bits, Bits, Ref!Wrap, Wrap,
         Ref!Unsigned, Unsigned, Ref!MapThenSumSet, MapThenSumSet, Ref!MapThenFoldSet, MapThenFoldSet

(* the first region that fits,                                             *)
LEMMA SameFit ==
  ASSUME NEW l, NEW n
  PROVE  Ref!FirstFit(l, n) = FirstFit(l, n)
  BY DEF Ref!FirstFit, FirstFit, Ref!SelectInSeq, SelectInSeq, Ref!Min, Min

(* regions,                                                                *)
LEMMA SameReg ==
  ASSUME NEW b, NEW n
  PROVE  Ref!Reg(b, n) = Reg(b, n)
  BY DEF Ref!Reg, Reg

(* what malloc leaves of them,                                             *)
LEMMA SameCarve ==
  ASSUME NEW l, NEW i, NEW n
  PROVE  Ref!Carve(l, i, n) = Carve(l, i, n)
  BY DEF Ref!Carve, Carve, Ref!RemoveAt, RemoveAt, Ref!ReplaceAt, ReplaceAt, Ref!Reg, Reg

(* merge_regions,                                                          *)
LEMMA SameMerge ==
  ASSUME NEW l
  PROVE  Ref!MergeRegions(l) = MergeRegions(l)
  BY DEF Ref!MergeRegions, MergeRegions, Ref!SortByBase, SortByBase, Ref!Sorting, Sorting,
         Ref!Bijection, Bijection, Ref!Injection, Injection, Ref!Surjection, Surjection,
         Ref!IsInjective, IsInjective, Ref!JoinLast, JoinLast, Ref!FoldLeft, FoldLeft,
         Ref!MapThenFoldSet, MapThenFoldSet, Ref!Max, Max, Ref!End, End, Ref!Last, Last,
         Ref!ReplaceAt, ReplaceAt, Ref!Reg, Reg

(* the text at an address,                                                 *)
LEMMA SameText ==
  ASSUME NEW h, NEW p
  PROVE  Ref!TextAt(h, p) = TextAt(h, p)
  BY DEF Ref!TextAt, TextAt, Ref!BytesFrom, BytesFrom, Ref!ByteOf, ByteOf, Ref!Unsigned, Unsigned,
         Ref!ASCII, ASCII, Ref!SelectInSeq, SelectInSeq, Ref!Min, Min, Ref!Cardinality, Cardinality

(* operators with a given distance of the shift,                           *)
LEMMA SamePlain ==
  ASSUME NEW op, NEW m, NEW n, NEW d
  PROVE  Ref!PlainOp2(op, m, n, d) = PlainOp2(op, m, n, d)
  BY DEF Ref!PlainOp2, PlainOp2, Ref!FromBits, FromBits, Ref!Bits, Bits, Ref!Wrap, Wrap,
         Ref!Unsigned, Unsigned, Ref!MapThenSumSet, MapThenSumSet, Ref!MapThenFoldSet, MapThenFoldSet,
         Ref!SymDiff, SymDiff, Ref!Bool, Bool

(* division and remainder,                                                 *)
LEMMA SameQuotient ==
  ASSUME NEW m, NEW n
  PROVE  Ref!TruncDiv(m, n) = TruncDiv(m, n) /\ Ref!TruncMod(m, n) = TruncMod(m, n)
  BY DEF Ref!TruncDiv, TruncDiv, Ref!TruncMod, TruncMod, Ref!Abs, Abs

(* the masked distance,                                                    *)
LEMMA SameShift ==
  ASSUME NEW n
  PROVE  Ref!ShiftDistance(n) = ShiftDistance(n)
  BY DEF Ref!ShiftDistance, ShiftDistance, Ref!FromBits, FromBits, Ref!Bits, Bits, Ref!Wrap, Wrap,
         Ref!Unsigned, Unsigned, Ref!MapThenSumSet, MapThenSumSet, Ref!MapThenFoldSet, MapThenFoldSet

(* every operator,                                                         *)
LEMMA SameOp2 ==
  ASSUME NEW op, NEW m, NEW n
  PROVE  /\ Ref!RefOp2(op, m, n) = RefOp2(op, m, n)
         /\ Ref!RefFails(op, m, n) <=> RefFails(op, m, n)
<1>1. Ref!RefOp2(op, m, n) = RefOp2(op, m, n)
  BY SamePlain, SameQuotient, SameShift, SameWrap DEF Ref!RefOp2, RefOp2
<1>2. Ref!RefFails(op, m, n) <=> RefFails(op, m, n)
  BY DEF Ref!RefFails, RefFails
<1>3. QED
  BY <1>1, <1>2

(* the addresses of the arguments,                                         *)
LEMMA SameStrings ==
  ASSUME NEW as, NEW i
  PROVE  Ref!ArgAddress(as, i) = ArgAddress(as, i)
  BY DEF Ref!ArgAddress, ArgAddress, Ref!StringWords, StringWords,
         Ref!MapThenSumSet, MapThenSumSet, Ref!MapThenFoldSet, MapThenFoldSet

(* and the heap that holds them.                                           *)
LEMMA SameHeap ==
  ASSUME NEW n, NEW as
  PROVE  Ref!InitHeap(n, as) = InitHeap(n, as)
  BY DEF Ref!InitHeap, InitHeap, Ref!PackedWord, PackedWord, Ref!ArgAddress, ArgAddress,
         Ref!StringWords, StringWords, Ref!MapThenSumSet, MapThenSumSet,
         Ref!MapThenFoldSet, MapThenFoldSet, Ref!Wrap, Wrap

-----------------------------------------------------------------------------
(* The instructions.                                                       *)

(* A number below the divisor is its remainder.                            *)
LEMMA SmallRemainder ==
  ASSUME NEW n \in Nat, NEW u \in Nat, n < u
  PROVE  n % u = n
<1>1. PICK q, r : q = 0 /\ r = n
  OBVIOUS
<1>2. q \in Int /\ r \in 0..u - 1 /\ n = u * q + r /\ u > 0
  BY <1>1
<1>3. n % u = r
  BY <1>2, Division
<1>4. QED
  BY <1>1, <1>3

(* A word as an address: the Rust interpreter reads a negative one as an   *)
(* address beyond every heap.                                              *)
LEMMA AddressOf ==
  ASSUME NEW n \in Word
  PROVE  /\ n \in Int /\ Usize(n) \in Nat
         /\ n >= 0 => Usize(n) = n
         /\ n < 0 => Usize(n) > HeapSize
<1>1. PICK h, u, s : h = Half /\ u = UsizeMod /\ s = HeapSize
  OBVIOUS
<1>2. h \in Nat /\ n \in -h..h - 1 /\ n \in Int
  BY <1>1, WordRange
<1>3. u \in Nat /\ u >= 4 * h /\ s \in Nat /\ s < h
  <2>1. PICK k : k = 2^WordBits
    OBVIOUS
  <2>2. k = 2 * h
    BY <1>1, <2>1, WordRange
  <2>3. u \in Nat /\ 2 * k <= u
    BY <1>1, <2>1, IlvmProgramAssumption
  <2>4. s \in Nat /\ s < h
    BY <1>1, IlvmProgramAssumption DEF Half
  <2>5. QED
    BY <1>2, <2>2, <2>3, <2>4
<1>4. u > 0 /\ h > 0
  BY <1>2, <1>3
<1>5. Usize(n) = n % u
  BY <1>1 DEF Usize
<1>6. CASE n >= 0
  <2>1. n \in Nat /\ n < u
    BY <1>2, <1>3, <1>6
  <2>2. n % u = n
    BY <1>3, <2>1, SmallRemainder
  <2>3. QED
    BY <1>1, <1>2, <1>5, <1>6, <2>1, <2>2
<1>7. CASE n < 0
  <2>1. PICK m : m = n + u /\ m \in 0..u - 1 /\ m > s
    BY <1>2, <1>3, <1>4, <1>7
  <2>2. n = u * (-1) + m
    BY <1>2, <1>3, <2>1
  <2>3. n % u = m
    BY <1>2, <1>3, <1>4, <2>1, <2>2, Division
  <2>4. QED
    BY <1>1, <1>2, <1>3, <1>5, <1>7, <2>1, <2>3
<1>8. QED
  BY <1>2, <1>6, <1>7

(* Both read the same operands,                                            *)
LEMMA SameOperand ==
  ASSUME Agreement, NEW v
  PROVE  Ref!EvalVal(v) = EvalVal(v)
  BY DEF Agreement, EvalVal, Ref!EvalVal

(* assign them,                                                            *)
LEMMA BothAssign ==
  ASSUME Agreement, NoAlloc, NEW r, NEW n, Assign(r, n), UNCHANGED <<heap, halt, out>>, Ref!Result(r, n)
  PROVE  Agreement'
<1>1. registers' = ref_registers'
  BY DEF Agreement, Assign, Ref!Result, Ref!SetRegister
<1>2. heap' = ref_heap' /\ out' = ref_out' /\ halt' = result'
  BY DEF Agreement, Ref!Result
<1>3. free_list' = free_regions' /\ live' = allocations'
  BY DEF Agreement, NoAlloc, Ref!Result, Ref!NoAlloc
<1>4. QED
  BY <1>1, <1>2, <1>3 DEF Agreement

(* and fail alike.                                                         *)
LEMMA BothFail ==
  ASSUME Agreement, UNCHANGED live, NEW why, Fail(why), Ref!Runtime(why)
  PROVE  Agreement'
<1>1. heap' = ref_heap' /\ registers' = ref_registers' /\ out' = ref_out' /\ halt' = result'
  BY DEF Agreement, Fail, Ref!Runtime
<1>2. free_list' = free_regions' /\ live' = allocations'
  BY DEF Agreement, Fail, Ref!Runtime
<1>3. QED
  BY <1>1, <1>2 DEF Agreement

(* Copying an operand,                                                     *)
LEMMA CopyAgrees ==
  ASSUME Agreement, NEW r, NEW v, Copy(r, v), Ref!Copy(r, v)
  PROVE  Agreement'
  BY SameOperand, BothAssign DEF Copy, Ref!Copy

(* the complement,                                                         *)
LEMMA NotAgrees ==
  ASSUME Agreement, NEW r, NEW v, Not(r, v), Ref!Not(r, v)
  PROVE  Agreement'
  BY SameOperand, SameNot, BothAssign DEF Not, Ref!Not

(* and the size of the heap.                                               *)
LEMMA MemSizeAgrees ==
  ASSUME Agreement, NEW r, MemSize(r), Ref!MemSize(r)
  PROVE  Agreement'
  BY SameWrap, BothAssign DEF MemSize, Ref!MemSize

(* Operators that do not trap give the same result.                        *)
LEMMA OpsAgree ==
  ASSUME NEW op \in Op2, NEW m \in Word, NEW n \in Word, ~RustTraps(op, m, n)
  PROVE  RefOp2(op, m, n) = RustOp2(op, m, n)
<1>1. CASE op = "Div"
  <2>1. n # 0 /\ ~(m = -Half /\ n = -1)
    BY <1>1 DEF RustTraps, Half
  <2>2. Wrap(TruncDiv(m, n)) = TruncDiv(m, n)
    BY <2>1, DivIsWord, WrapSame
  <2>3. QED
    BY <1>1, <2>2 DEF RefOp2, RustOp2
<1>2. CASE op = "Mod"
  <2>1. n # 0
    BY <1>2 DEF RustTraps
  <2>2. Wrap(TruncMod(m, n)) = TruncMod(m, n)
    BY <2>1, ModIsWord, WrapSame
  <2>3. QED
    BY <1>2, <2>2 DEF RefOp2, RustOp2
<1>3. CASE op # "Div" /\ op # "Mod"
  <2>1. ShiftDistance(n) = n % WordBits
    BY SameDistance
  <2>2. QED
    BY <1>3, <2>1 DEF RefOp2, RustOp2
<1>4. QED
  BY <1>1, <1>2, <1>3

(* Arithmetic, apart from what makes Rust panic.                           *)
LEMMA BinOpAgrees ==
  ASSUME IlvmInv, Agreement, NEW r \in Registers, NEW op \in Ops, NEW v \in Val, NEW w \in Val,
         PairBinOp(r, op, v, w)
  PROVE  Agreement'
<1>1. PICK m, n : m = EvalVal(v) /\ n = EvalVal(w)
  OBVIOUS
<1>2. m \in Word /\ n \in Word /\ op \in Op2
  BY <1>1, Operand, IlvmProgramAssumption
<1>3. ~RustTraps(op, m, n) /\ BinOp(r, op, v, w) /\ Ref!BinOp(r, op, v, w)
  BY <1>1 DEF PairBinOp
<1>4. NoAlloc /\ Assign(r, RustOp2(op, m, n)) /\ UNCHANGED <<heap, halt, out>>
  BY <1>1, <1>3 DEF BinOp
<1>5. ~RefFails(op, m, n)
  BY <1>3 DEF RefFails, RustTraps
<1>6. Ref!EvalVal(v) = m /\ Ref!EvalVal(w) = n
  BY <1>1, SameOperand
<1>7. Ref!Result(r, Ref!RefOp2(op, m, n))
  BY <1>3, <1>5, <1>6, SameOp2 DEF Ref!BinOp
<1>8. Ref!RefOp2(op, m, n) = RustOp2(op, m, n)
  BY <1>2, <1>3, SameOp2, OpsAgree
<1>9. Ref!Result(r, RustOp2(op, m, n))
  BY <1>7, <1>8
<1>10. QED
  BY <1>4, <1>9, BothAssign

(* An address is in the heap for both, or for neither.                     *)
LEMMA SameInHeap ==
  ASSUME NEW n \in Word
  PROVE  /\ Ref!InHeap(n) <=> ~(Usize(n) >= HeapSize)
         /\ Ref!InHeap(n) => Usize(n) = n /\ n \in 0..HeapSize - 1
<1>1. PICK s, a : s = HeapSize /\ a = Usize(n)
  OBVIOUS
<1>2. /\ s \in Nat /\ n \in Int /\ a \in Nat
      /\ n >= 0 => a = n
      /\ n < 0 => a > s
  BY <1>1, AddressOf, IlvmProgramAssumption
<1>3. Ref!InHeap(n) <=> n \in 0..s - 1
  BY <1>1 DEF Ref!InHeap
<1>4. n \in 0..s - 1 <=> ~(a >= s)
  BY <1>2
<1>5. n \in 0..s - 1 => a = n
  BY <1>2
<1>6. QED
  BY <1>1, <1>3, <1>4, <1>5

(* Loads,                                                                  *)
LEMMA LoadAgrees ==
  ASSUME IlvmInv, Agreement, NEW r \in Registers, NEW v \in Val, Load(r, v), Ref!Load(r, v)
  PROVE  Agreement'
<1>1. PICK n, p : n = EvalVal(v) /\ p = Usize(n)
  OBVIOUS
<1>2. n \in Word /\ Ref!EvalVal(v) = n
  BY <1>1, Operand, SameOperand
<1>3. NoAlloc /\ (p >= HeapSize => Fail("address"))
      /\ (~(p >= HeapSize) => Assign(r, heap[p]) /\ UNCHANGED <<heap, halt, out>>)
  BY <1>1 DEF Load
<1>4. \/ Ref!InHeap(n) /\ Ref!Result(r, ref_heap[n])
      \/ ~Ref!InHeap(n) /\ Ref!Runtime("address")
  BY <1>2 DEF Ref!Load
<1>5. CASE Ref!InHeap(n)
  <2>1. ~(p >= HeapSize) /\ p = n
    BY <1>1, <1>2, <1>5, SameInHeap
  <2>2. Ref!Result(r, heap[p])
    BY <1>4, <1>5, <2>1 DEF Agreement
  <2>3. QED
    BY <1>3, <2>1, <2>2, BothAssign
<1>6. CASE ~Ref!InHeap(n)
  <2>1. p >= HeapSize
    BY <1>1, <1>2, <1>6, SameInHeap
  <2>2. UNCHANGED live
    BY <1>3 DEF NoAlloc
  <2>3. QED
    BY <1>3, <1>4, <1>6, <2>1, <2>2, BothFail
<1>7. QED
  BY <1>5, <1>6

(* and stores.                                                             *)
LEMMA StoreAgrees ==
  ASSUME IlvmInv, Agreement, NEW r \in Registers, NEW v \in Val, Store(r, v), Ref!Store(r, v)
  PROVE  Agreement'
<1>1. PICK n, p, x : n = registers[r] /\ p = Usize(n) /\ x = EvalVal(v)
  OBVIOUS
<1>2. n \in Word /\ ref_registers[r] = n /\ Ref!EvalVal(v) = x
  BY <1>1, SameOperand DEF IlvmInv, Agreement
<1>3. NoAlloc /\ (p >= HeapSize => Fail("address"))
      /\ (~(p >= HeapSize) => heap' = [heap EXCEPT ![p] = x] /\ UNCHANGED <<registers, halt, out>>)
  BY <1>1 DEF Store
<1>4. Ref!NoAlloc /\ (~Ref!InHeap(n) => Ref!Runtime("address"))
      /\ (Ref!InHeap(n) => ref_heap' = [ref_heap EXCEPT ![n] = x]
                           /\ UNCHANGED <<ref_registers, result, ref_out>>)
  BY <1>2 DEF Ref!Store
<1>5. CASE Ref!InHeap(n)
  <2>1. ~(p >= HeapSize) /\ p = n
    BY <1>1, <1>2, <1>5, SameInHeap
  <2>2. heap' = ref_heap'
    BY <1>3, <1>4, <1>5, <2>1 DEF Agreement
  <2>3. registers' = ref_registers' /\ halt' = result' /\ out' = ref_out'
    BY <1>3, <1>4, <1>5, <2>1 DEF Agreement
  <2>4. free_list' = free_regions' /\ live' = allocations'
    BY <1>3, <1>4 DEF Agreement, NoAlloc, Ref!NoAlloc
  <2>5. QED
    BY <2>2, <2>3, <2>4 DEF Agreement
<1>6. CASE ~Ref!InHeap(n)
  <2>1. p >= HeapSize
    BY <1>1, <1>2, <1>6, SameInHeap
  <2>2. UNCHANGED live
    BY <1>3 DEF NoAlloc
  <2>3. QED
    BY <1>3, <1>4, <1>6, <2>1, <2>2, BothFail
<1>7. QED
  BY <1>5, <1>6

(* A block that does not exist,                                            *)
LEMMA GotoAgrees ==
  ASSUME Agreement, NEW v, Goto(v), Ref!Goto(v)
  PROVE  Agreement'
  BY BothFail DEF Goto, Ref!Goto, NoAlloc

(* abort,                                                                  *)
LEMMA AbortAgrees ==
  ASSUME Agreement, Abort, Ref!Abort
  PROVE  Agreement'
  BY BothFail DEF Abort, Ref!Abort, NoAlloc

(* Only the output changes, or the program leaves with it.                 *)
LEMMA BothPrint ==
  ASSUME Agreement, NoAlloc, Ref!NoAlloc, UNCHANGED <<heap, registers>>,
         UNCHANGED <<ref_heap, ref_registers>>, halt' = result', out' = ref_out'
  PROVE  Agreement'
<1>1. heap' = ref_heap' /\ registers' = ref_registers'
  BY DEF Agreement
<1>2. free_list' = free_regions' /\ live' = allocations'
  BY DEF Agreement, NoAlloc, Ref!NoAlloc
<1>3. QED
  BY <1>1, <1>2 DEF Agreement

(* exit,                                                                   *)
LEMMA ExitAgrees ==
  ASSUME Agreement, NEW v, Exit(v), Ref!Exit(v)
  PROVE  Agreement'
<1>1. halt' = result'
  BY DEF Exit, Ref!Exit
<1>2. out' = ref_out'
  BY SameOperand DEF Exit, Ref!Exit
<1>3. NoAlloc /\ Ref!NoAlloc /\ UNCHANGED <<heap, registers>> /\ UNCHANGED <<ref_heap, ref_registers>>
  BY DEF Exit, Ref!Exit
<1>4. QED
  BY <1>1, <1>2, <1>3, BothPrint

(* the text at an address, or why it cannot be printed,                    *)
LEMMA PrintStrAgrees ==
  ASSUME IlvmInv, Agreement, NEW v \in Val, PrintStr(v), Ref!PrintStr(v)
  PROVE  Agreement'
<1>1. PICK n, p, t : n = EvalVal(v) /\ p = Usize(n) /\ t = TextAt(heap, p)
  OBVIOUS
<1>2. n \in Word /\ Ref!EvalVal(v) = n
  BY <1>1, Operand, SameOperand
<1>3. Running /\ NoAlloc /\ (t.err # "none" => Fail(t.err))
      /\ (~(t.err # "none") => out' = <<"text", t.text>> /\ UNCHANGED <<heap, registers, halt>>)
  BY <1>1 DEF PrintStr
<1>4. Ref!TextAt(ref_heap, n) = t
  <2>1. ref_heap = heap /\ Ref!TextAt(heap, n) = TextAt(heap, n)
    BY SameText DEF Agreement
  <2>2. CASE Ref!InHeap(n)
    BY <1>1, <1>2, <2>1, <2>2, SameInHeap
  <2>3. CASE ~Ref!InHeap(n)
    <3>1. DOMAIN heap = 0..HeapSize - 1
      BY <1>3, RunningHeap
    <3>2. n \notin DOMAIN heap
      BY <2>3, <3>1 DEF Ref!InHeap
    <3>3. p \notin DOMAIN heap
      <4>1. p >= HeapSize /\ p \in Nat /\ HeapSize \in Nat
        BY <1>1, <1>2, <2>3, SameInHeap, AddressOf, IlvmProgramAssumption
      <4>2. QED
        BY <3>1, <4>1
    <3>4. QED
      BY <1>1, <2>1, <3>2, <3>3 DEF TextAt
  <2>4. QED
    BY <2>2, <2>3
<1>5. Ref!NoAlloc /\ (t.err # "none" => Ref!Runtime(t.err))
      /\ (~(t.err # "none") => ref_out' = <<"text", t.text>> /\ UNCHANGED <<ref_heap, ref_registers, result>>)
  BY <1>2, <1>4 DEF Ref!PrintStr
<1>6. CASE t.err # "none"
  <2>1. UNCHANGED live
    BY <1>3 DEF NoAlloc
  <2>2. Fail(t.err) /\ Ref!Runtime(t.err)
    BY <1>3, <1>5, <1>6
  <2>3. QED
    BY <2>1, <2>2, BothFail
<1>7. CASE ~(t.err # "none")
  <2>1. out' = ref_out' /\ UNCHANGED <<heap, registers>> /\ UNCHANGED <<ref_heap, ref_registers>>
    BY <1>3, <1>5, <1>7
  <2>2. halt' = result'
    BY <1>3, <1>5, <1>7 DEF Agreement
  <2>3. QED
    BY <1>3, <1>5, <2>1, <2>2, BothPrint
<1>8. QED
  BY <1>6, <1>7

(* and the addresses of an array, where both test its end alike.           *)
LEMMA PrintArrayAgrees ==
  ASSUME IlvmInv, Agreement, NEW v \in Val, NEW w \in Val, PairArray(v, w)
  PROVE  Agreement'
<1>1. PICK m, n, s : m = EvalVal(v) /\ n = EvalVal(w) /\ s = HeapSize
  OBVIOUS
<1>2. m \in Word /\ n \in Word /\ Ref!EvalVal(v) = m /\ Ref!EvalVal(w) = n
  BY <1>1, Operand, SameOperand
<1>3. m >= 0 /\ n >= 0 /\ m + n # s /\ PrintArray(v, w) /\ Ref!PrintArray(v, w)
  BY <1>1 DEF PairArray
<1>4. m \in Nat /\ n \in Nat /\ s \in Nat /\ Usize(m) = m /\ Usize(n) = n
  BY <1>1, <1>2, <1>3, AddressOf, IlvmProgramAssumption
<1>5. Usize(m + n) = m + n
  <2>1. PICK h, u, k : h = Half /\ u = UsizeMod /\ k = m + n
    OBVIOUS
  <2>2. h \in Nat /\ m <= h - 1 /\ n <= h - 1
    BY <1>2, <2>1, WordRange
  <2>3. u \in Nat /\ u >= 4 * h
    <3>1. PICK e : e = 2^WordBits
      OBVIOUS
    <3>2. e = 2 * h
      BY <2>1, <3>1, WordRange
    <3>3. u \in Nat /\ 2 * e <= u
      BY <2>1, <3>1, IlvmProgramAssumption
    <3>4. QED
      BY <2>2, <3>2, <3>3
  <2>4. k \in Nat /\ k < u
    BY <1>4, <2>1, <2>2, <2>3
  <2>5. k % u = k
    BY <2>3, <2>4, SmallRemainder
  <2>6. QED
    BY <2>1, <2>5 DEF Usize
<1>6. PICK o : o = IF m + n >= s THEN <<"invalid address">> ELSE <<"addresses", m..m + n - 1>>
  OBVIOUS
<1>7. NoAlloc /\ out' = o /\ UNCHANGED <<heap, registers, halt>>
  <2>1. PICK e : e = m + n
    OBVIOUS
  <2>2. /\ NoAlloc /\ UNCHANGED <<heap, registers, halt>>
        /\ out' = IF e >= s THEN <<"invalid address">> ELSE <<"addresses", m..e - 1>>
    BY <1>1, <1>3, <1>4, <1>5, <2>1 DEF PrintArray
  <2>3. m..e - 1 = m..m + n - 1
    <3>1. e - 1 = m + n - 1
      BY <1>4, <2>1
    <3>2. QED
      BY <3>1
  <2>4. QED
    BY <1>6, <2>1, <2>2, <2>3
<1>8. Ref!NoAlloc /\ ref_out' = o /\ UNCHANGED <<ref_heap, ref_registers, result>>
  <2>1. /\ Ref!NoAlloc /\ UNCHANGED <<ref_heap, ref_registers, result>>
        /\ ref_out' = IF m < 0 \/ n < 0 \/ m > s - n
                      THEN <<"invalid address">> ELSE <<"addresses", Ref!Words(m, n)>>
    BY <1>1, <1>2, <1>3 DEF Ref!PrintArray
  <2>2. (m < 0 \/ n < 0 \/ m > s - n) <=> m + n >= s
    BY <1>3, <1>4
  <2>3. Ref!Words(m, n) = m..m + n - 1
    BY DEF Ref!Words
  <2>4. QED
    BY <1>6, <2>1, <2>2, <2>3
<1>9. halt' = result'
  BY <1>7, <1>8 DEF Agreement
<1>10. QED
  BY <1>7, <1>8, <1>9, BothPrint

(* The regions of the free list are no larger than the heap, so that a     *)
(* negative operand of malloc is out of memory in both.                    *)
LEMMA NoHugeRegion ==
  ASSUME IlvmInv, Running, NEW n \in Nat, n > HeapSize
  PROVE  FirstFit(free_list, n) = 0
<1>1. PICK l, i, s : l = free_list /\ i = FirstFit(l, n) /\ s = HeapSize
  OBVIOUS
<1>2. Good(l, live, alloc_blocks, Start) /\ l \in Seq(Region) /\ Start \in Nat /\ s \in Nat
  BY <1>1, RunningHeap, IlvmProgramAssumption DEF Good
<1>3. CASE i # 0
  <2>1. i \in 1..Len(l) /\ l[i].size >= n
    BY <1>1, <1>2, <1>3, FirstFits
  <2>2. PICK r : r = l[i] /\ r \in Region /\ r.base \in Nat /\ r.size \in Nat /\ End(r) = r.base + r.size
    BY <1>2, <2>1, ElementOfSeq, RegionFields
  <2>3. PICK a : a = (r.base + r.size) - 1
    OBVIOUS
  <2>4. r.size > s /\ a \in Nat /\ a >= s /\ r.base <= a /\ a < End(r)
    BY <1>1, <1>2, <2>1, <2>2, <2>3
  <2>5. Holds(l, a)
    BY <2>1, <2>2, <2>4 DEF Holds, Has
  <2>6. a \in Start..HeapSize - 1
    BY <1>2, <2>4, <2>5 DEF Good
  <2>7. QED
    BY <1>1, <1>2, <2>4, <2>6
<1>4. QED
  BY <1>1, <1>3

(* malloc chooses the same address, or none.                               *)
LEMMA MallocAgrees ==
  ASSUME IlvmInv, Agreement, NEW r \in Registers, NEW v \in Val, Malloc(r, v), Ref!Malloc(r, v)
  PROVE  Agreement'
<1>1. PICK m, n, l, i, p : /\ m = EvalVal(v) /\ n = Usize(m) /\ l = free_list /\ i = FirstFit(l, n)
                           /\ p = l[i].base
  OBVIOUS
<1>2. m \in Word /\ Ref!EvalVal(v) = m /\ free_regions = l
  BY <1>1, Operand, SameOperand DEF Agreement
<1>3. m \in Int /\ n \in Nat /\ (m >= 0 => n = m) /\ (m < 0 => n > HeapSize) /\ HeapSize \in Nat
  BY <1>1, <1>2, AddressOf, IlvmProgramAssumption
<1>4. Running /\ UNCHANGED out
  BY DEF Malloc
<1>5. \/ n = 0 /\ Assign(r, 0) /\ UNCHANGED <<heap, free_list, alloc_blocks, halt, live>>
      \/ n > 0 /\ i = 0 /\ Fail("oom") /\ UNCHANGED live
      \/ /\ n > 0 /\ i > 0
         /\ free_list' = Carve(free_list, i, n)
         /\ Assign(r, Wrap(p))
         /\ live' = [b \in DOMAIN live \cup {p} |-> IF b = p THEN n ELSE live[b]]
         /\ UNCHANGED <<heap, halt>>
  BY <1>1 DEF Malloc
<1>6. PICK j, q : j = FirstFit(l, m) /\ q = l[j].base
  OBVIOUS
<1>7. \/ /\ m = 0 /\ Ref!SetRegister(r, 0)
         /\ UNCHANGED <<ref_heap, free_regions, allocations, result, ref_out>>
      \/ (m < 0 \/ (m > 0 /\ j = 0)) /\ Ref!Runtime("oom")
      \/ /\ m > 0 /\ j > 0
         /\ free_regions' = Carve(free_regions, j, m)
         /\ Ref!SetRegister(r, Wrap(q))
         /\ allocations' = [b \in DOMAIN allocations \cup {q} |-> IF b = q THEN m ELSE allocations[b]]
         /\ UNCHANGED <<ref_heap, result, ref_out>>
  BY <1>2, <1>6, SameFit, SameCarve, SameWrap DEF Ref!Malloc
<1>8. CASE m < 0
  <2>1. i = 0 /\ n > 0
    BY <1>1, <1>3, <1>4, <1>8, NoHugeRegion
  <2>2. Fail("oom") /\ UNCHANGED live
    BY <1>5, <2>1
  <2>3. Ref!Runtime("oom")
    BY <1>3, <1>7, <1>8
  <2>4. QED
    BY <2>2, <2>3, BothFail
<1>9. CASE m = 0
  <2>1. n = 0
    BY <1>3, <1>9
  <2>2. Assign(r, 0) /\ UNCHANGED <<heap, free_list, alloc_blocks, halt, live>>
    BY <1>5, <2>1
  <2>3. /\ Ref!SetRegister(r, 0)
        /\ UNCHANGED <<ref_heap, free_regions, allocations, result, ref_out>>
    BY <1>7, <1>9
  <2>4. registers' = ref_registers'
    BY <2>2, <2>3 DEF Agreement, Assign, Ref!SetRegister
  <2>5. heap' = ref_heap' /\ out' = ref_out' /\ halt' = result'
    BY <1>4, <2>2, <2>3 DEF Agreement
  <2>6. free_list' = free_regions' /\ live' = allocations'
    BY <2>2, <2>3 DEF Agreement
  <2>7. QED
    BY <2>4, <2>5, <2>6 DEF Agreement
<1>10. CASE m > 0
  <2>1. n = m /\ n > 0 /\ i = j /\ p = q
    BY <1>1, <1>3, <1>6, <1>10
  <2>2. i \in Nat
    <3>1. l \in Seq(Region)
      BY <1>1, <1>4, RunningHeap DEF Good
    <3>2. i = 0 \/ i \in 1..Len(l)
      BY <1>1, <1>3, <3>1, FirstFits
    <3>3. QED
      BY <3>2
  <2>3. CASE i = 0
    <3>1. Fail("oom") /\ UNCHANGED live
      BY <1>5, <2>1, <2>3
    <3>2. Ref!Runtime("oom")
      BY <1>3, <1>7, <1>10, <2>1, <2>3
    <3>3. QED
      BY <3>1, <3>2, BothFail
  <2>4. CASE i > 0
    <3>1. /\ free_list' = Carve(free_list, i, n)
          /\ Assign(r, Wrap(p))
          /\ live' = [b \in DOMAIN live \cup {p} |-> IF b = p THEN n ELSE live[b]]
          /\ UNCHANGED <<heap, halt>>
      BY <1>5, <2>1, <2>2, <2>4
    <3>2. /\ free_regions' = Carve(free_regions, i, n)
          /\ Ref!SetRegister(r, Wrap(p))
          /\ allocations' = [b \in DOMAIN allocations \cup {p} |-> IF b = p THEN n ELSE allocations[b]]
          /\ UNCHANGED <<ref_heap, result, ref_out>>
      BY <1>3, <1>7, <1>10, <2>1, <2>2, <2>4
    <3>3. free_list' = free_regions' /\ live' = allocations'
      BY <3>1, <3>2 DEF Agreement
    <3>4. registers' = ref_registers'
      BY <3>1, <3>2 DEF Agreement, Assign, Ref!SetRegister
    <3>5. heap' = ref_heap' /\ out' = ref_out' /\ halt' = result'
      BY <1>4, <3>1, <3>2 DEF Agreement
    <3>6. QED
      BY <3>3, <3>4, <3>5 DEF Agreement
  <2>5. QED
    BY <2>2, <2>3, <2>4
<1>11. QED
  BY <1>3, <1>8, <1>9, <1>10

(* A live block can be inserted into the free list.                        *)
LEMMA LiveFits ==
  ASSUME NEW l, NEW blocks, NEW table, NEW lo, Good(l, blocks, table, lo),
         NEW p \in DOMAIN blocks, NEW r, r = Reg(p, blocks[p])
  PROVE  r \in Region /\ Fits(l, r) /\ l \in Seq(Region)
<1>1. p \in Nat /\ blocks[p] \in Nat /\ blocks[p] > 0
  BY BlockWords
<1>2. r \in Region /\ r.base = p /\ r.size = blocks[p]
  BY <1>1 DEF Reg, Region
<1>3. \A a \in Nat : Has(r, a) <=> a \in Words(p, blocks[p])
  BY <1>1, <1>2 DEF Has, Words, End
<1>4. \A a \in Nat : Holds(l, a) <=> a \in lo..HeapSize - 1 /\ ~Taken(blocks, a)
  BY DEF Good
<1>5. \A a \in Nat : ~(Has(r, a) /\ Holds(l, a))
  BY <1>3, <1>4 DEF Taken
<1>6. QED
  BY <1>1, <1>2, <1>5 DEF Fits, Good

(* free of a live block leaves the same free list.                         *)
LEMMA FreeAgrees ==
  ASSUME IlvmInv, Agreement, NEW r \in Registers, PairFree(r)
  PROVE  Agreement'
<1>1. PICK n, p : n = registers[r] /\ p = Usize(n)
  OBVIOUS
<1>2. Running /\ (p \in DOMAIN alloc_blocks => p \in DOMAIN live) /\ Free(r) /\ Ref!Free(r)
  BY <1>1 DEF PairFree, Free
<1>3. n \in Word /\ ref_registers[r] = n
  BY <1>1 DEF IlvmInv, Agreement
<1>4. n \in Int /\ p \in Nat /\ (n >= 0 => p = n) /\ (n < 0 => p > HeapSize) /\ HeapSize \in Nat
  BY <1>1, <1>3, AddressOf, IlvmProgramAssumption
<1>5. Good(free_list, live, alloc_blocks, Start) /\ live = allocations /\ free_list = free_regions
  BY <1>2, RunningHeap DEF Agreement
<1>6. /\ \A b \in DOMAIN alloc_blocks : b \in 0..HeapSize
      /\ \A b \in DOMAIN live : b \in Nat /\ b \in DOMAIN alloc_blocks /\ alloc_blocks[b] = live[b]
  <2>1. \A b \in DOMAIN alloc_blocks : b \in 0..HeapSize
    BY <1>5 DEF Good
  <2>2. \A b \in DOMAIN live : b \in DOMAIN alloc_blocks /\ alloc_blocks[b] = live[b]
    BY <1>5 DEF Good
  <2>3. \A b \in 0..HeapSize : b \in Nat
    BY <1>4
  <2>4. QED
    BY <2>1, <2>2, <2>3
<1>7. (p \notin DOMAIN alloc_blocks <=> n \notin DOMAIN allocations) /\ (n \in DOMAIN allocations => p = n)
  <2>1. CASE n >= 0
    BY <1>2, <1>4, <1>5, <1>6, <2>1
  <2>2. CASE n < 0
    <3>1. p \notin DOMAIN alloc_blocks
      BY <1>4, <1>6, <2>2
    <3>2. n \notin DOMAIN allocations
      BY <1>4, <1>5, <1>6, <2>2
    <3>3. QED
      BY <3>1, <3>2
  <2>3. QED
    BY <1>4, <2>1, <2>2
<1>8. CASE n \notin DOMAIN allocations
  <2>1. Fail("bad free") /\ UNCHANGED live
    BY <1>1, <1>2, <1>7, <1>8 DEF Free
  <2>2. Ref!Runtime("bad free")
    BY <1>2, <1>3, <1>8 DEF Ref!Free
  <2>3. QED
    BY <2>1, <2>2, BothFail
<1>9. CASE n \in DOMAIN allocations
  <2>1. p = n /\ n \in DOMAIN live /\ p \in DOMAIN alloc_blocks /\ alloc_blocks[n] = live[n]
    BY <1>5, <1>6, <1>7, <1>9
  <2>2. PICK b : b = Reg(n, live[n])
    OBVIOUS
  <2>3. /\ free_list' = Release(free_list, b)
        /\ live' = [c \in DOMAIN live \ {n} |-> live[c]]
        /\ UNCHANGED <<heap, registers, halt, out>>
    BY <1>1, <1>2, <2>1, <2>2 DEF Free
  <2>4. /\ free_regions' = MergeRegions(<<b>> \o free_list)
        /\ allocations' = [c \in DOMAIN live \ {n} |-> live[c]]
        /\ UNCHANGED <<ref_heap, ref_registers, result, ref_out>>
    BY <1>2, <1>3, <1>5, <1>9, <2>2, SameReg, SameMerge DEF Ref!Free
  <2>5. b \in Region /\ Fits(free_list, b) /\ free_list \in Seq(Region)
    BY <1>5, <2>1, <2>2, LiveFits
  <2>6. free_list' = free_regions'
    BY <2>3, <2>4, <2>5, MergeIsRelease
  <2>7. heap' = ref_heap' /\ registers' = ref_registers' /\ halt' = result' /\ out' = ref_out'
    BY <2>3, <2>4 DEF Agreement
  <2>8. live' = allocations'
    BY <2>3, <2>4
  <2>9. QED
    BY <2>6, <2>7, <2>8 DEF Agreement
<1>10. QED
  BY <1>8, <1>9

-----------------------------------------------------------------------------
(* The two interpreters.                                                   *)

(* Both start alike.                                                       *)
LEMMA InitAgrees == PairInit => Agreement
<1>0. SUFFICES ASSUME Init, Ref!Init PROVE Agreement
  BY DEF PairInit
<1>1. PICK s : s = HeapStart(args)
  OBVIOUS
<1>2. Ref!HeapStart(args) = s
  BY <1>1, SameStrings DEF HeapStart, Ref!HeapStart
<1>3. heap = ref_heap
  BY <1>0, <1>1, <1>2, SameHeap DEF Init, Ref!Init, Empty, Ref!Empty
<1>4. registers = ref_registers
  BY <1>0, <1>1, <1>2, SameWrap DEF Init, Ref!Init
<1>5. halt = result /\ out = ref_out
  BY <1>0, <1>1, <1>2 DEF Init, Ref!Init
<1>6. free_list = free_regions
  BY <1>0, <1>1, <1>2, SameReg DEF Init, Ref!Init
<1>7. live = allocations
  BY <1>0 DEF Init, Ref!Init, Empty, Ref!Empty
<1>8. QED
  BY <1>3, <1>4, <1>5, <1>6, <1>7 DEF Agreement

(* Every instruction keeps them alike.                                     *)
LEMMA NextAgrees ==
  ASSUME IlvmInv, Agreement, [PairNext]_pairVars
  PROVE  Agreement'
<1>1. CASE PairMemory
  <2>1. PICK r \in Registers, v \in Val :
          \/ Malloc(r, v) /\ Ref!Malloc(r, v)
          \/ PairFree(r)
          \/ Load(r, v) /\ Ref!Load(r, v)
          \/ Store(r, v) /\ Ref!Store(r, v)
          \/ MemSize(r) /\ Ref!MemSize(r)
    BY <1>1 DEF PairMemory
  <2>2. QED
    BY <2>1, MallocAgrees, FreeAgrees, LoadAgrees, StoreAgrees, MemSizeAgrees
<1>2. CASE PairCompute
  <2>1. PICK r \in Registers, v \in Val :
          \/ Copy(r, v) /\ Ref!Copy(r, v)
          \/ Not(r, v) /\ Ref!Not(r, v)
          \/ \E op \in Ops, w \in Val : PairBinOp(r, op, v, w)
    BY <1>2 DEF PairCompute
  <2>2. QED
    BY <2>1, CopyAgrees, NotAgrees, BinOpAgrees
<1>3. CASE PairOutput
  <2>1. PICK v \in Val :
          \/ PrintStr(v) /\ Ref!PrintStr(v)
          \/ \E w \in Val : PairArray(v, w)
    BY <1>3 DEF PairOutput
  <2>2. QED
    BY <2>1, PrintStrAgrees, PrintArrayAgrees
<1>4. CASE PairLeave
  <2>1. \/ \E v \in Val : Goto(v) /\ Ref!Goto(v)
        \/ \E v \in Val : Exit(v) /\ Ref!Exit(v)
        \/ Abort /\ Ref!Abort
    BY <1>4 DEF PairLeave
  <2>2. QED
    BY <2>1, GotoAgrees, ExitAgrees, AbortAgrees
<1>5. CASE UNCHANGED pairVars
  BY <1>5 DEF pairVars, vars, machine, Agreement
<1>6. QED
  BY <1>1, <1>2, <1>3, <1>4, <1>5 DEF PairNext

(* On every program, apart from the instructions that IlvmPair leaves out, *)
(* eval.rs and eval.ml have the same registers, heap, output, end and free *)
(* list.                                                                   *)
THEOREM InterpretersAgree == PairSpec => []Agreement
<1>1. PairInit => IlvmInv /\ Agreement
  BY InitInv, InitAgrees DEF PairInit
<1>2. IlvmInv /\ Agreement /\ [PairNext]_pairVars => (IlvmInv /\ Agreement)'
  BY PairNextInv, NextAgrees
<1>3. QED
  BY <1>1, <1>2, PTL DEF PairSpec

-----------------------------------------------------------------------------
(* The bytes of a packed word.                                             *)

(* Powers of two multiply.                                                 *)
LEMMA PowerSum ==
  ASSUME NEW k \in Nat, NEW d \in Nat, k + d <= WordBits
  PROVE  2^(k + d) = 2^k * 2^d
<1>1. WordBits \in Nat
  BY WordRange
<1>2. PICK p : p = 2^k /\ p \in Nat
  <2>1. k <= WordBits
    BY <1>1
  <2>2. 2^k \in Nat
    BY <2>1, PowerLarge
  <2>3. QED
    BY <2>2
<1> DEFINE T == {e \in Nat : k + e <= WordBits => 2^(k + e) = p * 2^e}
<1>3. 0 \in T
  <2>1. k + 0 = k /\ p * 1 = p
    BY <1>2
  <2>2. 2^0 = 1
    OBVIOUS
  <2>3. 2^(k + 0) = p * 2^0
    BY <1>2, <2>1, <2>2
  <2>4. QED
    BY <2>3
<1>4. ASSUME NEW e \in Nat, e \in T PROVE e + 1 \in T
  <2>1. ASSUME k + (e + 1) <= WordBits
        PROVE  2^(k + (e + 1)) = p * 2^(e + 1)
    <3>1. /\ k + e <= WordBits /\ k + e \in Nat /\ (k + e) + 1 <= WordBits /\ k + (e + 1) = (k + e) + 1
          /\ e + 1 <= WordBits
      BY <1>1, <2>1
    <3>2. 2^(k + e) = p * 2^e
      BY <1>4, <3>1
    <3>3. 2^((k + e) + 1) = 2 * 2^(k + e)
      BY <3>1, Double
    <3>4. 2^(e + 1) = 2 * 2^e /\ 2^e \in Nat
      BY <3>1, Double
    <3>5. PICK c : c = 2^e /\ c \in Nat
      BY <3>4
    <3>6. 2 * (p * c) = p * (2 * c)
      BY <1>2, <3>5
    <3>7. QED
      BY <3>1, <3>2, <3>3, <3>4, <3>5, <3>6
  <2>2. QED
    BY <2>1
<1>5. d \in T
  <2> HIDE DEF T
  <2>1. QED
    BY <1>3, <1>4, NumbersFromZero
<1>6. QED
  BY <1>2, <1>5

(* One more digit.                                                         *)
LEMMA TwoPlaces ==
  ASSUME NEW m \in Nat, NEW p \in Nat, NEW a \in 0..m - 1, NEW b \in 0..p - 1
  PROVE  p * a + b \in 0..(p * m) - 1
<1>1. a \in Nat /\ a <= m - 1 /\ b \in Nat /\ b <= p - 1
  OBVIOUS
<1>2. p * a <= p * (m - 1)
  BY <1>1
<1>3. p * (m - 1) = (p * m) - p
  OBVIOUS
<1>4. p * a \in Nat /\ p * m \in Nat
  BY <1>1
<1>5. PICK x, y : x = p * a /\ y = p * m
  OBVIOUS
<1>6. x \in Nat /\ y \in Nat /\ x <= y - p
  BY <1>2, <1>3, <1>4, <1>5
<1>7. x + b \in 0..y - 1
  BY <1>1, <1>6
<1>8. QED
  BY <1>5, <1>7

(* Dividing twice is dividing by the product.                              *)
LEMMA DivideTwice ==
  ASSUME NEW n \in Nat, NEW p \in Nat, p > 0, NEW m \in Nat, m > 0
  PROVE  n \div (p * m) = (n \div p) \div m
<1>1. PICK x, b : x = n \div p /\ b = n % p
  OBVIOUS
<1>2. x \in Nat /\ b \in 0..p - 1 /\ n = p * x + b
  BY <1>1, Remainder
<1>3. PICK y, c : y = x \div m /\ c = x % m
  OBVIOUS
<1>4. y \in Int /\ c \in 0..m - 1 /\ x = m * y + c
  BY <1>2, <1>3, Remainder
<1>5. PICK r, t : r = p * c + b /\ t = p * m
  OBVIOUS
<1>6. r \in 0..t - 1
  BY <1>2, <1>4, <1>5, TwoPlaces
<1>7. n = t * y + r
  <2>1. p * (m * y + c) = (p * m) * y + p * c
    BY <1>4
  <2>2. p * c \in Int /\ (p * m) * y \in Int /\ b \in Int
    BY <1>2, <1>4
  <2>3. QED
    BY <1>2, <1>4, <1>5, <2>1, <2>2
<1>8. t \in Nat /\ t > 0
  <2>1. p * m >= p * 1
    OBVIOUS
  <2>2. p * m \in Nat /\ p * 1 = p
    OBVIOUS
  <2>3. QED
    BY <1>5, <2>1, <2>2
<1>9. n \div t = y
  BY <1>4, <1>6, <1>7, <1>8, Division
<1>10. QED
  BY <1>1, <1>3, <1>5, <1>9

(* The last digit, and those before it.                                    *)
LEMMA LastPlace ==
  ASSUME NEW p \in Nat, NEW a \in Nat, NEW b \in 0..p - 1
  PROVE  p * a + b \in Nat /\ (p * a + b) \div p = a /\ (p * a + b) % p = b
<1>1. p > 0 /\ a \in Int /\ b \in Nat
  OBVIOUS
<1>2. PICK n : n = p * a + b
  OBVIOUS
<1>3. n \div p = a /\ n % p = b
  BY <1>1, <1>2, Division
<1>4. p * a \in Nat
  OBVIOUS
<1>5. QED
  BY <1>1, <1>2, <1>3, <1>4

(* A number of four digits, the first of which is below q.                 *)
LEMMA FourPlaces ==
  ASSUME NEW p \in Nat, NEW q \in Nat, q <= p,
         NEW a \in 0..q - 1, NEW b \in 0..p - 1, NEW c \in 0..p - 1, NEW d \in 0..p - 1,
         NEW n, n = p * (p * (p * a + b) + c) + d
  PROVE  /\ n \in 0..(p * (p * (p * q))) - 1
         /\ n % p = d /\ (n \div p) % p = c
         /\ (n \div (p * p)) % p = b /\ (n \div (p * (p * p))) % p = a
<1>1. PICK x, y : x = p * a + b /\ y = p * x + c
  OBVIOUS
<1>2. n = p * y + d
  BY <1>1
<1>3. p > 0 /\ a \in Nat /\ a \in 0..p - 1
  OBVIOUS
<1>4. x \in Nat /\ x \div p = a /\ x % p = b
  BY <1>1, <1>3, LastPlace
<1>5. y \in Nat /\ y \div p = x /\ y % p = c
  BY <1>1, <1>4, LastPlace
<1>6. n \in Nat /\ n \div p = y /\ n % p = d
  BY <1>2, <1>5, LastPlace
<1>7. p * p \in Nat /\ p * p > 0
  <2>1. p * p >= p * 1
    BY <1>3
  <2>2. p * p \in Nat /\ p * 1 = p
    OBVIOUS
  <2>3. QED
    BY <1>3, <2>1, <2>2
<1>8. PICK s : s = p * p /\ s \in Nat /\ s > 0
  BY <1>7
<1>9. n \div s = x
  BY <1>3, <1>5, <1>6, <1>8, DivideTwice
<1>10. y \div s = a
  BY <1>3, <1>4, <1>5, <1>8, DivideTwice
<1>11. n \div (p * s) = a
  BY <1>3, <1>6, <1>8, <1>10, DivideTwice
<1>12. a % p = a
  BY <1>3, SmallRemainder
<1>13. n \in 0..(p * (p * (p * q))) - 1
  <2>1. PICK g : g = p * q /\ g \in Nat
    OBVIOUS
  <2>2. x \in 0..g - 1
    BY <1>1, <2>1, TwoPlaces
  <2>3. PICK h : h = p * g /\ h \in Nat
    BY <2>1
  <2>4. y \in 0..h - 1
    BY <1>1, <2>1, <2>2, <2>3, TwoPlaces
  <2>5. n \in 0..(p * h) - 1
    BY <1>2, <2>3, <2>4, TwoPlaces
  <2>6. QED
    BY <2>1, <2>3, <2>5
<1>14. QED
  BY <1>4, <1>5, <1>6, <1>8, <1>9, <1>11, <1>12, <1>13

(* The places of the bytes in a word.                                      *)
LEMMA BytePlaces ==
  \E p \in Nat, q \in Nat :
    /\ q > 0 /\ p = 2 * q /\ ASCII = 0..q - 1 /\ 2^ByteBits = p
    /\ 2^(ByteBits * 0) = 1 /\ 2^(ByteBits * 1) = p /\ 2^(ByteBits * 2) = p * p
    /\ 2^(ByteBits * 3) = p * (p * p)
    /\ Half = p * (p * (p * q))
<1>1. PICK b : b = ByteBits
  OBVIOUS
<1>2. b \in Nat /\ b >= 1 /\ WordBits = 4 * b
  BY <1>1, IlvmWordsAssumption
<1>3. PICK p, q : p = 2^b /\ q = 2^(b - 1)
  OBVIOUS
<1>4. b - 1 \in Nat /\ (b - 1) + 1 = b /\ b <= WordBits
  BY <1>2
<1>5. q \in Nat /\ q > 0 /\ p = 2 * q /\ p \in Nat
  BY <1>3, <1>4, Double
<1>6. 2^(b + b) = p * p
  <2>1. b + b <= WordBits
    BY <1>2
  <2>2. QED
    BY <1>2, <1>3, <2>1, PowerSum
<1>7. 2^(b + (b + b)) = p * (p * p)
  <2>1. b + b \in Nat /\ b + (b + b) <= WordBits
    BY <1>2
  <2>2. QED
    BY <1>2, <1>3, <1>6, <2>1, PowerSum
<1>8. 2^((b + (b + b)) + (b - 1)) = (p * (p * p)) * q
  <2>1. b + (b + b) \in Nat /\ (b + (b + b)) + (b - 1) <= WordBits
    BY <1>2
  <2>2. QED
    BY <1>3, <1>4, <1>7, <2>1, PowerSum
<1>9. Half = (p * (p * p)) * q
  <2>1. (b + (b + b)) + (b - 1) = WordBits - 1
    BY <1>2
  <2>2. QED
    BY <1>8, <2>1 DEF Half
<1>10. (p * (p * p)) * q = p * (p * (p * q))
  BY <1>5
<1>11. b * 0 = 0 /\ b * 1 = b /\ b * 2 = b + b /\ b * 3 = b + (b + b)
  BY <1>2
<1>12. 2^0 = 1
  OBVIOUS
<1>13. ASCII = 0..q - 1
  BY <1>1, <1>3 DEF ASCII
<1>14. 2^ByteBits = p /\ Half = p * (p * (p * q))
  BY <1>1, <1>3, <1>9, <1>10
<1>15. 2^(ByteBits * 0) = 1 /\ 2^(ByteBits * 1) = p /\ 2^(ByteBits * 2) = p * p
       /\ 2^(ByteBits * 3) = p * (p * p)
  BY <1>1, <1>3, <1>6, <1>7, <1>11, <1>12
<1>16. QED
  BY <1>5, <1>13, <1>14, <1>15

(* A sum of four.                                                          *)
LEMMA SumOfFour ==
  ASSUME NEW f, \A k \in 0..3 : f[k] \in Nat
  PROVE  SumOver(f, 0..3) = f[0] + (f[1] + (f[2] + f[3]))
<1>1. PICK A, B, C, D : A = 0..3 /\ B = {1, 2, 3} /\ C = {2, 3} /\ D = {3}
  OBVIOUS
<1>2. A \ {0} = B /\ B \ {1} = C /\ C \ {2} = D /\ D \ {3} = {}
  <2>1. A = {0, 1, 2, 3}
    BY <1>1
  <2>2. QED
    BY <1>1, <2>1
<1>3. B \subseteq A /\ C \subseteq A /\ D \subseteq A /\ 0 \in A /\ 1 \in B /\ 2 \in C /\ 3 \in D
  BY <1>1
<1>4. IsFiniteSet(A)
  <2>1. PICK z, t : z = 0 /\ t = 3
    OBVIOUS
  <2>2. z \in Int /\ t \in Int
    BY <2>1
  <2>3. QED
    BY <1>1, <2>1, <2>2, FS_Interval
<1>5. IsFiniteSet(B) /\ IsFiniteSet(C) /\ IsFiniteSet(D)
  BY <1>3, <1>4, FS_Subset
<1>6. \A k \in A : f[k] \in Nat
  BY <1>1
<1>7. \A x \in A : SumOver(f, A) = f[x] + SumOver(f, A \ {x})
  BY <1>4, <1>6, SumRemove
<1>8. \A x \in B : SumOver(f, B) = f[x] + SumOver(f, B \ {x})
  BY <1>3, <1>5, <1>6, SumRemove
<1>9. \A x \in C : SumOver(f, C) = f[x] + SumOver(f, C \ {x})
  BY <1>3, <1>5, <1>6, SumRemove
<1>10. \A x \in D : SumOver(f, D) = f[x] + SumOver(f, D \ {x})
  BY <1>3, <1>5, <1>6, SumRemove
<1>11. SumOver(f, {}) = 0
  BY SumRecursion, FS_EmptySet
<1>12. SumOver(f, A) = f[0] + SumOver(f, B) /\ SumOver(f, B) = f[1] + SumOver(f, C)
  BY <1>2, <1>3, <1>7, <1>8
<1>13. SumOver(f, C) = f[2] + SumOver(f, D) /\ SumOver(f, D) = f[3] + SumOver(f, {})
  BY <1>2, <1>3, <1>9, <1>10
<1>14. f[3] \in Nat
  OBVIOUS
<1>15. SumOver(f, D) = f[3]
  BY <1>11, <1>13, <1>14
<1>16. QED
  BY <1>1, <1>12, <1>13, <1>15

(* Every byte of a packed word can be read back.                           *)
LEMMA ByteBack ==
  ASSUME NEW s \in Seq(ASCII), NEW i \in Nat, NEW k \in 0..3
  PROVE  ByteOf(PackedWord(s, i), k) = ByteAt(s, 4 * i + k + 1)
<1>1. PICK p \in Nat, q \in Nat :
        /\ q > 0 /\ p = 2 * q /\ ASCII = 0..q - 1 /\ 2^ByteBits = p
        /\ 2^(ByteBits * 0) = 1 /\ 2^(ByteBits * 1) = p /\ 2^(ByteBits * 2) = p * p
        /\ 2^(ByteBits * 3) = p * (p * p)
        /\ Half = p * (p * (p * q))
  BY BytePlaces
<1>2. PICK a, b, c, d : /\ a = ByteAt(s, 4 * i + 0 + 1) /\ b = ByteAt(s, 4 * i + 1 + 1)
                        /\ c = ByteAt(s, 4 * i + 2 + 1) /\ d = ByteAt(s, 4 * i + 3 + 1)
  OBVIOUS
<1>3. a \in 0..q - 1 /\ b \in 0..q - 1 /\ c \in 0..q - 1 /\ d \in 0..q - 1
  <2>1. \A j \in 0..3 : 4 * i + j + 1 \in Nat /\ 4 * i + j + 1 >= 1
    OBVIOUS
  <2>2. \A j \in 0..3 : ByteAt(s, 4 * i + j + 1) \in 0..q - 1
    BY <1>1, <2>1, ByteIsAscii
  <2>3. QED
    BY <1>2, <2>2
<1>4. q <= p /\ b \in 0..p - 1 /\ c \in 0..p - 1 /\ d \in 0..p - 1
  BY <1>1, <1>3
<1>5. PICK f : f = Packed(s, i)
  OBVIOUS
<1>6. f[0] = a * (p * (p * p)) /\ f[1] = b * (p * p) /\ f[2] = c * p /\ f[3] = d * 1
  <2>1. \A j \in 0..3 : f[j] = ByteAt(s, 4 * i + j + 1) * 2^(ByteBits * (3 - j))
    BY <1>5 DEF Packed
  <2>2. 3 - 0 = 3 /\ 3 - 1 = 2 /\ 3 - 2 = 1 /\ 3 - 3 = 0
    OBVIOUS
  <2>3. f[0] = a * 2^(ByteBits * 3)
    BY <1>2, <2>1, <2>2
  <2>4. f[1] = b * 2^(ByteBits * 2)
    BY <1>2, <2>1, <2>2
  <2>5. f[2] = c * 2^(ByteBits * 1)
    BY <1>2, <2>1, <2>2
  <2>6. f[3] = d * 2^(ByteBits * 0)
    BY <1>2, <2>1, <2>2
  <2>7. QED
    BY <1>1, <2>3, <2>4, <2>5, <2>6
<1>7. PICK n : n = p * (p * (p * a + b) + c) + d
  OBVIOUS
<1>8. SumOver(f, 0..3) = n
  <2>1. SumOver(f, 0..3) = f[0] + (f[1] + (f[2] + f[3]))
    BY <1>5, PackedAddsUp, SumOfFour
  <2>2. a \in Nat /\ b \in Nat /\ c \in Nat /\ d \in Nat /\ p \in Nat
    BY <1>3
  <2>3. n = a * (p * (p * p)) + (b * (p * p) + (c * p + d * 1))
    <3>1. p * (p * a + b) = a * (p * p) + b * p
      BY <2>2
    <3>2. p * ((a * (p * p) + b * p) + c) = (a * (p * (p * p)) + b * (p * p)) + c * p
      BY <2>2
    <3>3. PICK x, y, z : x = a * (p * (p * p)) /\ y = b * (p * p) /\ z = c * p
      OBVIOUS
    <3>4. x \in Nat /\ y \in Nat /\ z \in Nat
      BY <2>2, <3>3
    <3>5. n = ((x + y) + z) + d
      BY <1>7, <3>1, <3>2, <3>3
    <3>6. d * 1 = d
      BY <2>2
    <3>7. ((x + y) + z) + d = x + (y + (z + d))
      BY <2>2, <3>4
    <3>8. QED
      BY <3>3, <3>5, <3>6, <3>7
  <2>4. QED
    BY <1>6, <2>1, <2>3
<1>9. /\ n \in 0..(p * (p * (p * q))) - 1
      /\ n % p = d /\ (n \div p) % p = c
      /\ (n \div (p * p)) % p = b /\ (n \div (p * (p * p))) % p = a
  <2>1. q <= p /\ p \in Nat /\ q \in Nat
    BY <1>1
  <2> DEFINE P(w, x, y, z) ==
        \A m : m = p * (p * (p * w + x) + y) + z =>
          /\ m \in 0..(p * (p * (p * q))) - 1
          /\ m % p = z /\ (m \div p) % p = y
          /\ (m \div (p * p)) % p = x /\ (m \div (p * (p * p))) % p = w
  <2>2. \A w \in 0..q - 1, x \in 0..p - 1, y \in 0..p - 1, z \in 0..p - 1 : P(w, x, y, z)
    BY <2>1, FourPlaces, Zenon
  <2>3. P(a, b, c, d)
    <3> HIDE DEF P
    <3>1. QED
      BY <1>3, <1>4, <2>2
  <2>4. QED
    BY <1>7, <2>3, Zenon
<1>10. PackedWord(s, i) = n /\ Unsigned(n) = n
  <2>1. PICK h : h = Half
    OBVIOUS
  <2>2. h \in Nat /\ 2^WordBits = 2 * h /\ Word = -h..h - 1
    BY <2>1, WordRange
  <2>3. n \in 0..h - 1
    BY <1>1, <1>9, <2>1
  <2>4. n \in Word /\ n \in Nat /\ n < 2 * h /\ 2 * h \in Nat
    BY <2>2, <2>3
  <2>5. Wrap(n) = n
    BY <2>4, WrapSame
  <2>6. n % (2 * h) = n
    BY <2>4, SmallRemainder
  <2>7. PackedWord(s, i) = Wrap(SumOver(Packed(s, i), 0..3))
    BY PackedAddsUp
  <2>8. QED
    BY <1>5, <1>8, <2>2, <2>5, <2>6, <2>7 DEF Unsigned
<1>11. ByteOf(PackedWord(s, i), k) = (n \div 2^(ByteBits * (3 - k))) % p
  BY <1>1, <1>10 DEF ByteOf
<1>12. CASE k = 0
  <2>1. 3 - k = 3
    BY <1>12
  <2>2. QED
    BY <1>1, <1>2, <1>9, <1>11, <1>12, <2>1
<1>13. CASE k = 1
  <2>1. 3 - k = 2
    BY <1>13
  <2>2. QED
    BY <1>1, <1>2, <1>9, <1>11, <1>13, <2>1
<1>14. CASE k = 2
  <2>1. 3 - k = 1
    BY <1>14
  <2>2. QED
    BY <1>1, <1>2, <1>9, <1>11, <1>14, <2>1
<1>15. CASE k = 3
  <2>1. 3 - k = 0
    BY <1>15
  <2>2. n \div 1 = n
    <3>1. n \in Nat
      BY <1>9
    <3>2. QED
      BY <3>1
  <2>3. QED
    BY <1>1, <1>2, <1>9, <1>11, <1>15, <2>1, <2>2
<1>16. QED
  BY <1>12, <1>13, <1>14, <1>15

-----------------------------------------------------------------------------
(* print_str at the address of a string.                                   *)

(* The words of a string have room for its bytes and the NUL.              *)
LEMMA StringFits ==
  ASSUME NEW s \in Seq(ASCII)
  PROVE  /\ Len(s) \in Nat /\ StringWords(s) \in Nat /\ StringWords(s) >= 1
         /\ 4 * StringWords(s) >= Len(s) + 1
<1>1. PICK n, w, r : n = Len(s) + 4 /\ w = StringWords(s) /\ r = n % 4
  OBVIOUS
<1>2. Len(s) \in Nat /\ n \in Nat /\ n >= 4
  BY <1>1
<1>3. w = n \div 4
  BY <1>1 DEF StringWords
<1>4. w \in Int /\ r \in 0..3 /\ n = 4 * w + r
  BY <1>1, <1>2, <1>3
<1>5. QED
  BY <1>1, <1>2, <1>4

(* The bytes of the heap from the address of a string on begin with that   *)
(* string and a NUL.                                                       *)
LEMMA BytesOfString ==
  ASSUME NEW h \in [0..HeapSize - 1 -> Word], NEW s \in Seq(ASCII), NEW p \in Nat,
         p + StringWords(s) <= HeapSize,
         \A k \in 0..StringWords(s) - 1 : h[p + k] = PackedWord(s, k)
  PROVE  /\ p \in DOMAIN h
         /\ \E m \in Nat : /\ m >= Len(s) + 1
                           /\ DOMAIN BytesFrom(h, p) = 1..m /\ Len(BytesFrom(h, p)) = m
         /\ \A j \in 1..Len(s) + 1 : BytesFrom(h, p)[j] = ByteAt(s, j)
<1>1. PICK z, w, n : z = HeapSize /\ w = StringWords(s) /\ n = Len(s)
  OBVIOUS
<1>2. z \in Nat /\ w \in Nat /\ w >= 1 /\ n \in Nat /\ 4 * w >= n + 1 /\ p + w <= z
  BY <1>1, StringFits, IlvmProgramAssumption
<1>3. p \in DOMAIN h
  <2>1. p \in 0..z - 1
    BY <1>2
  <2>2. DOMAIN h = 0..z - 1
    BY <1>1
  <2>3. QED
    BY <2>1, <2>2
<1>4. Cardinality(DOMAIN h) = z
  <2>1. PICK a, b : a = 0 /\ b = z - 1
    OBVIOUS
  <2>2. a \in Int /\ b \in Int /\ b - a + 1 = z /\ (a > b => z = 0)
    BY <1>2, <2>1
  <2>3. Cardinality(a..b) = z
    BY <2>2, FS_Interval
  <2>4. DOMAIN h = a..b
    BY <1>1, <2>1
  <2>5. QED
    BY <2>3, <2>4
<1>5. PICK m : m = 4 * (z - p)
  OBVIOUS
<1>6. m \in Nat /\ m >= n + 1
  BY <1>2, <1>5
<1>7. PICK B : B = BytesFrom(h, p)
  OBVIOUS
<1>8. B = [j \in 1..m |-> ByteOf(h[p + (j - 1) \div 4], (j - 1) % 4)]
  BY <1>4, <1>5, <1>7 DEF BytesFrom
<1>9. DOMAIN B = 1..m /\ Len(B) = m
  <2>1. PICK T : T = {B[j] : j \in 1..m}
    OBVIOUS
  <2>2. B \in [1..m -> T]
    BY <1>8, <2>1
  <2>3. B \in Seq(T)
    BY <1>6, <2>2, SeqDef
  <2>4. PICK l : l = Len(B)
    OBVIOUS
  <2>5. l \in Nat /\ DOMAIN B = 1..l /\ DOMAIN B = 1..m
    BY <2>2, <2>3, <2>4, LenProperties
  <2>6. l = m
    BY <1>6, <2>5
  <2>7. QED
    BY <2>4, <2>5, <2>6
<1>10. ASSUME NEW j \in 1..n + 1 PROVE B[j] = ByteAt(s, j)
  <2>1. PICK x, y : x = (j - 1) \div 4 /\ y = (j - 1) % 4
    OBVIOUS
  <2>2. j \in Nat /\ j - 1 \in Nat /\ j <= n + 1
    BY <1>2
  <2>3. x \in Int /\ y \in 0..3 /\ j - 1 = 4 * x + y
    BY <2>1, <2>2
  <2>4. x \in Nat /\ x \in 0..w - 1 /\ 4 * x + y + 1 = j /\ j \in 1..m
    BY <1>2, <1>6, <2>2, <2>3
  <2>5. B[j] = ByteOf(h[p + x], y)
    BY <1>8, <2>1, <2>4
  <2>6. h[p + x] = PackedWord(s, x)
    BY <1>1, <2>4
  <2>7. ByteOf(PackedWord(s, x), y) = ByteAt(s, 4 * x + y + 1)
    BY <2>3, <2>4, ByteBack
  <2>8. QED
    BY <2>4, <2>5, <2>6, <2>7
<1>11. QED
  BY <1>1, <1>3, <1>6, <1>7, <1>9, <1>10

(* The least of a set.                                                     *)
LEMMA LeastIs ==
  ASSUME NEW I \in SUBSET Nat, NEW e \in I, \A j \in I : e <= j
  PROVE  Min(I) = e
<1>1. \A j \in I : (\A y \in I : j <= y) => j = e
  OBVIOUS
<1>2. QED
  BY <1>1 DEF Min

(* Sequences that begin with the same elements.                            *)
LEMMA SameBeginning ==
  ASSUME NEW S, NEW u, NEW v, NEW k \in Nat, \A j \in 1..k : u[j] \in S /\ v[j] \in S /\ u[j] = v[j]
  PROVE  SubSeq(u, 1, k) = SubSeq(v, 1, k)
<1>1. PICK a, b : a = SubSeq(u, 1, k) /\ b = SubSeq(v, 1, k)
  OBVIOUS
<1>2. a \in Seq(S) /\ Len(a) = k /\ \A j \in 1..k : a[j] = u[j]
  BY <1>1, SubSeqProperties
<1>3. b \in Seq(S) /\ Len(b) = k /\ \A j \in 1..k : b[j] = v[j]
  BY <1>1, SubSeqProperties
<1>4. \A j \in 1..Len(a) : a[j] = b[j]
  BY <1>2, <1>3
<1>5. QED
  BY <1>1, <1>2, <1>3, <1>4, SeqEqual

(* A string up to its first NUL.                                           *)
UpToNul(s) ==
  LET nul == SelectInSeq(s, LAMBDA b : b = 0) IN IF nul = 0 THEN s ELSE SubSeq(s, 1, nul - 1)

(* It is what can be printed at the address of the string.                 *)
LEMMA TextOfString ==
  ASSUME NEW h \in [0..HeapSize - 1 -> Word], NEW s \in Seq(ASCII), NEW p \in Nat,
         p + StringWords(s) <= HeapSize,
         \A k \in 0..StringWords(s) - 1 : h[p + k] = PackedWord(s, k)
  PROVE  TextAt(h, p) = [err |-> "none", text |-> UpToNul(s)]
<1>1. PICK B, n : B = BytesFrom(h, p) /\ n = Len(s)
  OBVIOUS
<1>2. n \in Nat /\ p \in DOMAIN h
  BY <1>1, BytesOfString, StringFits
<1>3. PICK m \in Nat : m >= n + 1 /\ DOMAIN B = 1..m /\ Len(B) = m
  BY <1>1, BytesOfString
<1>4. \A j \in 1..n + 1 : B[j] = ByteAt(s, j)
  BY <1>1, BytesOfString
<1> DEFINE I == {j \in 1..Len(B) : B[j] = 0 \/ B[j] \notin ASCII}
           N == {j \in 1..Len(s) : s[j] = 0}
           stop == IF I # {} THEN Min(I) ELSE 0
<1>5. TextAt(h, p) = [err  |-> IF stop = 0 THEN "address"
                               ELSE IF B[stop] = 0 THEN "none" ELSE "text",
                      text |-> IF stop # 0 /\ B[stop] = 0 THEN SubSeq(B, 1, stop - 1) ELSE <<>>]
  BY <1>1, <1>2 DEF TextAt, SelectInSeq
<1>6. PICK nul : /\ nul = IF N # {} THEN Min(N) ELSE 0
                 /\ UpToNul(s) = IF nul = 0 THEN s ELSE SubSeq(s, 1, nul - 1)
  BY DEF UpToNul, SelectInSeq
<1>7. I \in SUBSET Nat /\ N \in SUBSET Nat
  OBVIOUS
<1>8. \A j \in 1..n : s[j] \in ASCII /\ B[j] = s[j]
  <2>1. \A j \in 1..n : s[j] \in ASCII
    BY <1>1, ElementOfSeq
  <2>2. \A j \in 1..n : j \in 1..n + 1 /\ j <= n
    BY <1>2
  <2>3. QED
    BY <1>1, <1>4, <2>1, <2>2 DEF ByteAt
<1>9. B[n + 1] = 0
  <2>1. n + 1 \in 1..n + 1 /\ ~(n + 1 <= n)
    BY <1>2
  <2>2. QED
    BY <1>1, <1>4, <2>1 DEF ByteAt
<1>10. \A j \in 1..n : j \in I <=> j \in N
  <2>1. \A j \in 1..n : j \in 1..Len(B)
    BY <1>2, <1>3
  <2>2. QED
    BY <1>1, <1>8, <2>1
<1>11. n + 1 \in I
  <2>1. n + 1 \in 1..Len(B)
    BY <1>2, <1>3
  <2>2. QED
    BY <1>9, <2>1
<1>12. N \subseteq 1..n
  BY <1>1
<1> HIDE DEF I, N
<1>13. ASSUME NEW e \in 1..n + 1, B[e] = 0, Min(I) = e
       PROVE  TextAt(h, p) = [err |-> "none", text |-> SubSeq(B, 1, e - 1)]
  <2>1. stop = e /\ e # 0
    BY <1>2, <1>11, <1>13
  <2> HIDE DEF stop
  <2>2. QED
    BY <1>5, <1>13, <2>1
<1>14. ASSUME NEW e \in 1..n + 1
       PROVE  SubSeq(B, 1, e - 1) = SubSeq(s, 1, e - 1)
  <2>1. PICK k : k = e - 1
    OBVIOUS
  <2>2. k \in Int /\ k >= 0 /\ 1..k \subseteq 1..n
    BY <1>2, <2>1
  <2>3. \A j \in 1..k : B[j] \in ASCII /\ s[j] \in ASCII /\ B[j] = s[j]
    BY <1>8, <2>2
  <2>4. (\A j \in 1..k : B[j] \in ASCII /\ s[j] \in ASCII /\ B[j] = s[j]) /\ k \in Nat
    BY <2>2, <2>3
  <2>5. SubSeq(B, 1, k) = SubSeq(s, 1, k)
    BY <2>4, SameBeginning
  <2>6. QED
    BY <2>1, <2>5
<1>15. CASE N = {}
  <2>1. nul = 0
    BY <1>6, <1>15
  <2>2. \A j \in I : n + 1 <= j
    <3>1. \A j \in I : j \in Nat /\ j >= 1
      BY <1>7 DEF I
    <3>2. \A j \in I : ~(j \in 1..n)
      BY <1>10, <1>15
    <3>3. QED
      BY <1>2, <3>1, <3>2
  <2>3. Min(I) = n + 1
    BY <1>7, <1>11, <2>2, LeastIs
  <2>4. n + 1 \in 1..n + 1 /\ (n + 1) - 1 = n
    BY <1>2
  <2>5. TextAt(h, p) = [err |-> "none", text |-> SubSeq(s, 1, n)]
    BY <1>9, <1>13, <1>14, <2>3, <2>4
  <2>6. SubSeq(s, 1, n) = s
    BY <1>1, SubSeqFull
  <2>7. UpToNul(s) = s
    BY <1>6, <2>1
  <2>8. QED
    BY <1>1, <2>5, <2>6, <2>7
<1>16. CASE N # {}
  <2>1. PICK e \in N : \A j \in N : e <= j
    BY <1>7, <1>16, LeastNumber
  <2>2. Min(N) = e /\ nul = e
    BY <1>6, <1>7, <1>16, <2>1, LeastIs
  <2>3. e \in 1..n /\ e \in 1..n + 1 /\ e # 0 /\ e \in I
    BY <1>2, <1>10, <1>12, <2>1
  <2>4. B[e] = 0
    BY <1>8, <2>1, <2>3 DEF N
  <2>5. \A j \in I : e <= j
    <3>1. ASSUME NEW j \in I PROVE e <= j
      <4>1. j \in Nat /\ j >= 1
        BY <1>7 DEF I
      <4>2. CASE j <= n
        <5>1. j \in 1..n
          BY <1>2, <4>1, <4>2
        <5>2. QED
          BY <1>10, <2>1, <5>1
      <4>3. CASE ~(j <= n)
        BY <1>2, <2>3, <4>1, <4>3
      <4>4. QED
        BY <4>2, <4>3
    <3>2. QED
      BY <3>1
  <2>6. Min(I) = e
    BY <1>7, <2>3, <2>5, LeastIs
  <2>7. TextAt(h, p) = [err |-> "none", text |-> SubSeq(s, 1, e - 1)]
    BY <1>13, <1>14, <2>3, <2>4, <2>6
  <2>8. UpToNul(s) = SubSeq(s, 1, e - 1)
    BY <1>6, <2>2, <2>3
  <2>9. QED
    BY <2>7, <2>8
<1>17. QED
  BY <1>15, <1>16

-----------------------------------------------------------------------------
(* init_heap.                                                              *)

(* Positions in a list, and the one behind them.                           *)
LEMMA Positions ==
  \A c \in Nat : \A i \in 1..c :
    i \in Nat /\ i >= 1 /\ i <= c /\ i \in 1..c + 1 /\ i + 1 \in 1..c + 1 /\ (i + 1) - 1 = i
  OBVIOUS

(* The strings of the arguments lie one behind the other.                  *)
LEMMA NextAddress ==
  ASSUME NEW as \in Seq(Seq(ASCII)), NEW i \in 1..Len(as)
  PROVE  ArgAddress(as, i + 1) = ArgAddress(as, i) + StringWords(as[i])
<1>1. PICK c, f, j : c = Len(as) /\ f = Lengths(as) /\ j = i + 1
  OBVIOUS
<1>2. c \in Nat /\ i \in 1..c
  BY <1>1, Strings
<1>3. i \in Nat /\ i >= 1 /\ i \in 1..c + 1 /\ j \in 1..c + 1 /\ j - 1 = i
  BY <1>1, <1>2, Positions
<1>4. PICK S, T : S = 1..i - 1 /\ T = 1..j - 1
  OBVIOUS
<1>5. /\ ArgAddress(as, i) = 2 + c + SumOver(f, S)
      /\ ArgAddress(as, j) = 2 + c + SumOver(f, T)
      /\ IsFiniteSet(S) /\ IsFiniteSet(T) /\ \A x \in T : f[x] \in Nat
  BY <1>1, <1>3, <1>4, AddressIsSum
<1>6. i \in T /\ T \ {i} = S
  BY <1>2, <1>3, <1>4
<1>7. SumOver(f, T) = f[i] + SumOver(f, S)
  <2>1. \A x \in T : SumOver(f, T) = f[x] + SumOver(f, T \ {x})
    BY <1>5, SumRemove
  <2>2. QED
    BY <1>6, <2>1
<1>8. f[i] = StringWords(as[i]) /\ f[i] \in Nat
  BY <1>1, <1>5, <1>6 DEF Lengths
<1>9. SumOver(f, S) \in Nat
  BY <1>5, <1>6, SumNat
<1>10. PICK s, t, w, a, b : /\ s = SumOver(f, S) /\ t = SumOver(f, T) /\ w = f[i]
                            /\ a = ArgAddress(as, i) /\ b = ArgAddress(as, j)
  OBVIOUS
<1>11. b = a + w
  <2>1. a = 2 + c + s /\ b = 2 + c + t /\ t = w + s
    BY <1>5, <1>7, <1>10
  <2>2. c \in Nat /\ s \in Nat /\ w \in Nat
    BY <1>2, <1>8, <1>9, <1>10
  <2>3. QED
    BY <2>1, <2>2
<1>12. QED
  BY <1>1, <1>8, <1>10, <1>11

(* Their addresses ascend.                                                 *)
LEMMA AddressesAscend ==
  ASSUME NEW as \in Seq(Seq(ASCII)), NEW i \in 1..Len(as) + 1, NEW k \in 1..Len(as) + 1, i <= k
  PROVE  ArgAddress(as, i) <= ArgAddress(as, k)
<1>1. PICK c, f, S, T : c = Len(as) /\ f = Lengths(as) /\ S = 1..i - 1 /\ T = 1..k - 1
  OBVIOUS
<1>2. c \in Nat /\ S \in SUBSET T
  <2>1. c \in Nat /\ i \in 1..c + 1 /\ k \in 1..c + 1
    BY <1>1, Strings
  <2>2. \A x, y \in 1..c + 1 : x <= y => 1..x - 1 \subseteq 1..y - 1
    BY <2>1
  <2>3. QED
    BY <1>1, <2>1, <2>2
<1>3. /\ ArgAddress(as, i) = 2 + c + SumOver(f, S)
      /\ ArgAddress(as, k) = 2 + c + SumOver(f, T)
      /\ IsFiniteSet(S) /\ IsFiniteSet(T) /\ \A j \in T : f[j] \in Nat
  BY <1>1, AddressIsSum
<1>4. SumOver(f, T) = SumOver(f, S) + SumOver(f, T \ S)
  BY <1>2, <1>3, SumSplit
<1>5. SumOver(f, S) \in Nat /\ SumOver(f, T \ S) \in Nat
  <2>1. IsFiniteSet(T \ S)
    BY <1>3, FS_Subset
  <2>2. SumOver(f, T \ S) \in Nat
    BY <1>3, <2>1, SumNat
  <2>3. SumOver(f, S) \in Nat
    BY <1>2, <1>3, SumNat
  <2>4. QED
    BY <2>2, <2>3
<1>6. PICK s, t, d, a, b : /\ s = SumOver(f, S) /\ t = SumOver(f, T) /\ d = SumOver(f, T \ S)
                           /\ a = ArgAddress(as, i) /\ b = ArgAddress(as, k)
  OBVIOUS
<1>7. a <= b
  BY <1>2, <1>3, <1>4, <1>5, <1>6
<1>8. QED
  BY <1>6, <1>7

(* A word behind the addresses belongs to one string at most.              *)
LEMMA OneOwner ==
  ASSUME NEW as \in Seq(Seq(ASCII)), NEW i \in 1..Len(as), NEW j \in 1..Len(as), NEW a \in Int,
         a \in ArgAddress(as, i)..ArgAddress(as, i + 1) - 1,
         a \in ArgAddress(as, j)..ArgAddress(as, j + 1) - 1
  PROVE  ~(i < j)
<1> SUFFICES ASSUME i < j PROVE FALSE
  OBVIOUS
<1>1. PICK c, k, l : c = Len(as) /\ k = i + 1 /\ l = j + 1
  OBVIOUS
<1>2. c \in Nat /\ i \in 1..c + 1 /\ k \in 1..c + 1 /\ j \in 1..c + 1 /\ l \in 1..c + 1 /\ k <= j
  <2>1. c \in Nat /\ i \in 1..c /\ j \in 1..c
    BY <1>1, Strings
  <2>2. \A x, y \in 1..c : x < y => x + 1 <= y
    BY <2>1
  <2>3. k <= j
    BY <1>1, <2>1, <2>2
  <2>4. QED
    BY <1>1, <2>1, <2>3, Positions
<1>3. ArgAddress(as, k) <= ArgAddress(as, j)
  BY <1>1, <1>2, AddressesAscend
<1>4. PICK x, y, z, w : /\ x = ArgAddress(as, i) /\ y = ArgAddress(as, k)
                        /\ z = ArgAddress(as, j) /\ w = ArgAddress(as, l)
  OBVIOUS
<1>5. x \in Nat /\ y \in Nat /\ z \in Nat /\ w \in Nat
  BY <1>1, <1>2, <1>4, Addresses
<1>6. a \in x..y - 1 /\ a \in z..w - 1
  BY <1>1, <1>4
<1>7. y <= z
  BY <1>3, <1>4
<1>8. a <= y - 1 /\ z <= a
  BY <1>5, <1>6
<1>9. QED
  BY <1>5, <1>7, <1>8

(* init_heap: the address of every argument, and its string.               *)
LEMMA StringInHeap ==
  ASSUME NEW as \in Arguments, HeapStart(as) <= HeapSize, NEW i \in 1..Len(as)
  PROVE  /\ i + 1 \in 0..HeapStart(as) - 1
         /\ InitHeap(HeapSize, as)[i + 1] = ArgAddress(as, i)
         /\ ArgAddress(as, i) \in Nat /\ ArgAddress(as, i) + StringWords(as[i]) <= HeapStart(as)
         /\ \A k \in 0..StringWords(as[i]) - 1 :
              /\ ArgAddress(as, i) + k \in 0..HeapStart(as) - 1
              /\ InitHeap(HeapSize, as)[ArgAddress(as, i) + k] = PackedWord(as[i], k)
<1>1. as \in Seq(Seq(ASCII)) /\ HeapSize \in Nat
  BY IlvmProgramAssumption
<1>2. PICK c, s, z, p, q, w : /\ c = Len(as) /\ s = HeapStart(as) /\ z = HeapSize
                              /\ p = ArgAddress(as, i) /\ q = ArgAddress(as, i + 1)
                              /\ w = StringWords(as[i])
  OBVIOUS
<1>3. c \in Nat /\ s \in Nat /\ 2 + c <= s /\ s <= z /\ z \in Nat
  BY <1>1, <1>2, StartNat
<1>4. i \in 1..c /\ i \in 1..c + 1 /\ i + 1 \in 1..c + 1 /\ as[i] \in Seq(ASCII)
  <2>1. i \in 1..c
    BY <1>2
  <2>2. QED
    BY <1>1, <1>2, <1>3, <2>1, Strings, Positions
<1>5. w \in Nat
  BY <1>2, <1>4, StringWordsNat
<1>6. p \in Nat /\ 2 + c <= p
  BY <1>1, <1>2, <1>4, Addresses
<1>7. q \in Nat /\ q <= s
  BY <1>1, <1>2, <1>4, Addresses
<1>8. q = p + w
  BY <1>1, <1>2, NextAddress
<1> DEFINE Owner(a) == {o \in 1..Len(as) : a \in ArgAddress(as, o)..ArgAddress(as, o + 1) - 1}
           Value(a) ==
             IF a = 1 THEN Len(as)
             ELSE IF a \in 2..Len(as) + 1 THEN ArgAddress(as, a - 1)
             ELSE IF Owner(a) = {} THEN 0
                  ELSE PackedWord(as[CHOOSE o \in Owner(a) : TRUE],
                                  a - ArgAddress(as, CHOOSE o \in Owner(a) : TRUE))
<1>9. \A a \in 0..z - 1 : InitHeap(HeapSize, as)[a] = Value(a)
  BY <1>2 DEF InitHeap
<1>10. i + 1 \in 0..s - 1 /\ InitHeap(HeapSize, as)[i + 1] = p
  <2>1. i + 1 \in 0..s - 1 /\ i + 1 \in 0..z - 1 /\ i + 1 # 1 /\ i + 1 \in 2..c + 1 /\ (i + 1) - 1 = i
    BY <1>3, <1>4
  <2>2. Value(i + 1) = p
    BY <1>2, <2>1
  <2>3. QED
    BY <1>9, <2>1, <2>2
<1>11. ASSUME NEW k \in 0..w - 1
       PROVE  p + k \in 0..s - 1 /\ InitHeap(HeapSize, as)[p + k] = PackedWord(as[i], k)
  <2>1. PICK a : a = p + k
    OBVIOUS
  <2>2. a \in Int /\ a \in p..q - 1 /\ a \in 0..s - 1 /\ a \in 0..z - 1 /\ a - p = k
    BY <1>3, <1>5, <1>6, <1>7, <1>8, <2>1
  <2>3. a # 1 /\ a \notin 2..c + 1
    BY <1>3, <1>6, <2>2
  <2>4. i \in Owner(a)
    BY <1>2, <2>2
  <2>5. \A o \in Owner(a) : o = i
    <3>1. ASSUME NEW o \in Owner(a) PROVE o = i
      <4>1. o \in 1..Len(as) /\ a \in ArgAddress(as, o)..ArgAddress(as, o + 1) - 1
        BY <3>1
      <4>2. a \in ArgAddress(as, i)..ArgAddress(as, i + 1) - 1
        BY <1>2, <2>2
      <4>3. ~(i < o) /\ ~(o < i)
        BY <1>1, <2>2, <4>1, <4>2, OneOwner
      <4>4. o \in Int /\ i \in Int
        BY <4>1
      <4>5. QED
        BY <4>3, <4>4
    <3>2. QED
      BY <3>1
  <2>6. Value(a) = PackedWord(as[i], a - p)
    <3>1. PICK x : x = CHOOSE o \in Owner(a) : TRUE
      OBVIOUS
    <3>2. x = i
      <4> HIDE DEF Owner
      <4>1. QED
        BY <2>4, <2>5, <3>1
    <3>3. Owner(a) # {}
      BY <2>4
    <3> HIDE DEF Owner
    <3>4. QED
      BY <1>2, <2>3, <3>1, <3>2, <3>3
  <2> HIDE DEF Value
  <2>7. QED
    BY <1>9, <2>1, <2>2, <2>6
<1>12. QED
  BY <1>2, <1>6, <1>7, <1>8, <1>10, <1>11

-----------------------------------------------------------------------------
(* The words in front of the first free one are as init_heap left them.    *)
ArgsHeld ==
  halt # "no heap" =>
    /\ Start <= HeapSize
    /\ \A a \in 0..Start - 1 : heap[a] = InitHeap(HeapSize, args)[a]

(* Then every argument can be printed.                                     *)
LEMMA HeldIntact == IlvmInv /\ ArgsHeld => ArgsIntact
<1>0. SUFFICES ASSUME IlvmInv, ArgsHeld, halt # "no heap", NEW i \in DOMAIN args
               PROVE  TextAt(heap, heap[i + 1]) = [err |-> "none", text |-> UpToNul(args[i])]
  BY DEF ArgsIntact, UpToNul
<1>1. args \in Arguments /\ heap \in [0..HeapSize - 1 -> Word]
  BY <1>0 DEF IlvmInv
<1>2. PICK as, p, s, w : as = args /\ p = ArgAddress(args, i) /\ s = args[i] /\ w = StringWords(s)
  OBVIOUS
<1>3. as \in Seq(Seq(ASCII)) /\ i \in 1..Len(as) /\ s \in Seq(ASCII)
  <2>1. as \in Seq(Seq(ASCII))
    BY <1>1, <1>2, IlvmProgramAssumption
  <2>2. i \in 1..Len(as)
    BY <1>0, <1>2, <2>1, LenProperties
  <2>3. QED
    BY <1>2, <2>1, <2>2, Strings
<1>4. HeapStart(as) <= HeapSize /\ \A a \in 0..HeapStart(as) - 1 : heap[a] = InitHeap(HeapSize, as)[a]
  BY <1>0, <1>2 DEF ArgsHeld, Start
<1>5. /\ i + 1 \in 0..HeapStart(as) - 1 /\ InitHeap(HeapSize, as)[i + 1] = p
      /\ p \in Nat /\ p + w <= HeapStart(as)
      /\ \A k \in 0..w - 1 : /\ p + k \in 0..HeapStart(as) - 1
                             /\ InitHeap(HeapSize, as)[p + k] = PackedWord(s, k)
  BY <1>1, <1>2, <1>3, <1>4, StringInHeap
<1>6. heap[i + 1] = p /\ \A k \in 0..w - 1 : heap[p + k] = PackedWord(s, k)
  BY <1>4, <1>5
<1>7. p + w <= HeapSize
  <2>1. PICK h, z : h = HeapStart(as) /\ z = HeapSize
    OBVIOUS
  <2>2. h \in Nat /\ z \in Nat /\ w \in Nat /\ p \in Nat /\ h <= z /\ p + w <= h
    BY <1>1, <1>2, <1>3, <1>4, <1>5, <2>1, StartNat, StringWordsNat, IlvmProgramAssumption
  <2>3. p + w <= z
    BY <2>2
  <2>4. QED
    BY <2>1, <2>3
<1>8. TextAt(heap, p) = [err |-> "none", text |-> UpToNul(s)]
  BY <1>1, <1>2, <1>3, <1>5, <1>6, <1>7, TextOfString
<1>9. QED
  BY <1>2, <1>6, <1>8

(* init_heap.                                                              *)
LEMMA InitHeld == Init => ArgsHeld
<1>0. SUFFICES ASSUME Init, halt # "no heap" PROVE ArgsHeld
  BY DEF ArgsHeld
<1>1. ~(Start > HeapSize) /\ heap = InitHeap(HeapSize, args) /\ args \in Arguments
  BY <1>0 DEF Init, Start
<1>2. Start \in Nat /\ HeapSize \in Nat
  BY <1>1, StartNat, IlvmProgramAssumption DEF Start
<1>3. Start <= HeapSize
  <2>1. PICK x, y : x = Start /\ y = HeapSize
    OBVIOUS
  <2>2. x \in Nat /\ y \in Nat /\ ~(x > y)
    BY <1>1, <1>2, <2>1
  <2>3. x <= y
    BY <2>2
  <2>4. QED
    BY <2>1, <2>3
<1>4. QED
  BY <1>1, <1>3 DEF ArgsHeld

(* What does not store keeps the heap.                                     *)
LEMMA OnlyStoreWrites ==
  ASSUME Next
  PROVE  Running /\ args' = args /\ (heap' = heap \/ \E r \in Registers, v \in Val : Store(r, v))
<1>1. CASE Memory
  BY <1>1 DEF Memory, Malloc, Free, Load, MemSize, NoAlloc, Fail, Store
<1>2. CASE Compute
  BY <1>2 DEF Compute, Copy, Not, BinOp, NoAlloc, Fail
<1>3. CASE Output
  BY <1>3 DEF Output, PrintStr, PrintArray, NoAlloc, Fail
<1>4. CASE Leave
  BY <1>4 DEF Leave, Goto, Exit, Abort, NoAlloc, Fail
<1>5. QED
  BY <1>1, <1>2, <1>3, <1>4 DEF Next

(* A store inside a live block does not reach the arguments.               *)
LEMMA StoreHeld ==
  ASSUME IlvmInv, ArgsHeld, "store" \in Rules, NEW r \in Registers, NEW v \in Val, Store(r, v)
  PROVE  ArgsHeld'
<1>1. PICK p : p = Usize(registers[r])
  OBVIOUS
<1>2. Running /\ args' = args /\ p \in LiveWords
  BY <1>1 DEF Store, NoAlloc
<1>3. Good(free_list, live, alloc_blocks, Start) /\ heap \in [0..HeapSize - 1 -> Word] /\ Start \in Nat
  BY <1>2, RunningHeap
<1>4. p \in Start..HeapSize - 1
  <2>1. PICK b \in DOMAIN live : p \in Words(b, live[b])
    BY <1>2 DEF LiveWords
  <2>2. QED
    BY <1>3, <2>1 DEF Good
<1>5. heap' = [heap EXCEPT ![p] = EvalVal(v)]
  <2>1. HeapSize \in Nat
    BY IlvmProgramAssumption
  <2>2. ~(p >= HeapSize)
    BY <1>3, <1>4, <2>1
  <2>3. QED
    BY <1>1, <2>2 DEF Store
<1>6. Start' = Start /\ Start <= HeapSize
  BY <1>2 DEF Start, ArgsHeld, Running
<1>7. \A a \in 0..Start - 1 : heap'[a] = heap[a]
  <2>1. \A a \in 0..Start - 1 : a # p
    BY <1>3, <1>4
  <2>2. \A a \in 0..Start - 1 : a \in DOMAIN heap
    <3>1. DOMAIN heap = 0..HeapSize - 1 /\ HeapSize \in Nat
      BY <1>3, IlvmProgramAssumption
    <3>2. QED
      BY <1>3, <1>6, <3>1
  <2>3. QED
    BY <1>5, <2>1, <2>2
<1>8. \A a \in 0..Start - 1 : heap[a] = InitHeap(HeapSize, args)[a]
  BY <1>2 DEF ArgsHeld, Running
<1>9. QED
  BY <1>2, <1>6, <1>7, <1>8 DEF ArgsHeld

(* No step of a program that stores inside its blocks reaches them.        *)
LEMMA NextHeld ==
  ASSUME IlvmInv, ArgsHeld, "store" \in Rules, [Next]_vars
  PROVE  ArgsHeld'
<1>1. ASSUME heap' = heap, args' = args, halt = "no heap" => halt' = "no heap" PROVE ArgsHeld'
  BY <1>1 DEF ArgsHeld, Start
<1>2. CASE UNCHANGED vars
  BY <1>1, <1>2 DEF vars, machine
<1>3. CASE Next
  <2>1. Running /\ args' = args /\ (heap' = heap \/ \E r \in Registers, v \in Val : Store(r, v))
    BY <1>3, OnlyStoreWrites
  <2>2. CASE heap' = heap
    BY <1>1, <2>1, <2>2 DEF Running
  <2>3. CASE \E r \in Registers, v \in Val : Store(r, v)
    BY <2>3, StoreHeld
  <2>4. QED
    BY <2>1, <2>2, <2>3
<1>4. QED
  BY <1>2, <1>3

(* The interpreters side by side do what the Rust interpreter does.        *)
LEMMA PairStepIsNext == ASSUME [PairNext]_pairVars PROVE [Next]_vars
<1>1. CASE PairMemory
  BY <1>1 DEF PairMemory, PairFree, Memory, Next
<1>2. CASE PairCompute
  BY <1>2 DEF PairCompute, PairBinOp, Compute, Next
<1>3. CASE PairOutput
  BY <1>3 DEF PairOutput, PairArray, Output, Next
<1>4. CASE PairLeave
  BY <1>4 DEF PairLeave, Leave, Next
<1>5. CASE UNCHANGED pairVars
  BY <1>5 DEF pairVars
<1>6. QED
  BY <1>1, <1>2, <1>3, <1>4, <1>5 DEF PairNext

(* init_heap and print_str: a program that stores inside its own blocks    *)
(* only, and frees only live blocks, can print every argument it was       *)
(* started with, whatever it does,                                         *)
THEOREM ArgumentsIntact ==
  ASSUME "store" \in Rules, "free" \in Rules
  PROVE  Spec => []ArgsIntact
<1>1. "store" \in Rules /\ "free" \in Rules
  OBVIOUS
<1>2. Init => IlvmInv /\ ArgsHeld
  BY InitInv, InitHeld
<1>3. IlvmInv /\ ArgsHeld /\ [Next]_vars => IlvmInv' /\ ArgsHeld'
  BY <1>1, NextInv, NextHeld
<1>4. IlvmInv /\ ArgsHeld => ArgsIntact
  BY HeldIntact
<1>5. QED
  BY <1>2, <1>3, <1>4, PTL DEF Spec

(* and in both interpreters side by side, as far as they are compared.     *)
THEOREM PairArguments ==
  ASSUME "store" \in Rules
  PROVE  PairSpec => []ArgsIntact
<1>1. "store" \in Rules
  OBVIOUS
<1>2. PairInit => IlvmInv /\ ArgsHeld
  BY InitInv, InitHeld DEF PairInit
<1>3. IlvmInv /\ ArgsHeld /\ [PairNext]_pairVars => IlvmInv' /\ ArgsHeld'
  BY <1>1, PairNextInv, PairStepIsNext, NextHeld
<1>4. IlvmInv /\ ArgsHeld => ArgsIntact
  BY HeldIntact
<1>5. QED
  BY <1>2, <1>3, <1>4, PTL DEF PairSpec
=============================================================================
