----------------------------- MODULE IlvmProofs ------------------------------
(***************************************************************************)
(* Proofs about the allocator of the ILVM interpreter: the free list is    *)
(* the exact complement of the live blocks, and malloc and free keep what  *)
(* IlvmAlloc promises, for words, heaps and programs of any size.          *)
(***************************************************************************)
EXTENDS IlvmPair, FiniteSums, SequenceTheorems

(* What a call of Insert returns, if f is what the calls it makes return.  *)
InsertBody(f, l, b) ==
  IF l = <<>> THEN <<b>>
  ELSE IF End(b) = Head(l).base THEN <<Reg(b.base, b.size + Head(l).size)>> \o Tail(l)
  ELSE IF End(b) < Head(l).base THEN <<b>> \o l
  ELSE IF b.base = End(Head(l)) THEN f[<<Tail(l), Reg(Head(l).base, b.size + Head(l).size)>>]
  ELSE <<Head(l)>> \o f[<<Tail(l), b>>]

Short(n) == {l \in Seq(Region) : Len(l) <= n}

InsertsShort(f, n) == f = [p \in Short(n) \X Region |-> InsertBody(f, p[1], p[2])]

(* Regions that are joined are a region.                                   *)
LEMMA Joined ==
  ASSUME NEW b \in Region, NEW c \in Region
  PROVE  Reg(c.base, b.size + c.size) \in Region
  BY DEF Region, Reg

(* The first region of a list and the rest.                                *)
LEMMA HeadAndTail ==
  ASSUME NEW l \in Seq(Region), l # <<>>
  PROVE  Head(l) \in Region /\ Tail(l) \in Seq(Region) /\ Len(l) \in Nat /\ Len(Tail(l)) = Len(l) - 1
         /\ Len(l) > 0
  OBVIOUS

(* A call depends on the calls it makes only.                              *)
LEMMA BodySame ==
  ASSUME NEW f, NEW g, NEW l \in Seq(Region), NEW b \in Region,
         l # <<>> => \A c \in Region : f[<<Tail(l), c>>] = g[<<Tail(l), c>>]
  PROVE  InsertBody(f, l, b) = InsertBody(g, l, b)
<1>1. CASE l = <<>>
  BY <1>1 DEF InsertBody
<1>2. CASE l # <<>>
  <2>1. Head(l) \in Region
    BY <1>2, HeadAndTail
  <2>2. PICK c : c = Reg(Head(l).base, b.size + Head(l).size)
    OBVIOUS
  <2>3. c \in Region
    BY <2>1, <2>2, Joined
  <2>4. f[<<Tail(l), c>>] = g[<<Tail(l), c>>] /\ f[<<Tail(l), b>>] = g[<<Tail(l), b>>]
    BY <1>2, <2>3
  <2>5. QED
    BY <2>2, <2>4 DEF InsertBody
<1>3. QED
  BY <1>1, <1>2

(* What such a function returns.                                           *)
LEMMA ShortCall ==
  ASSUME NEW f, NEW n, InsertsShort(f, n), NEW l \in Short(n), NEW b \in Region
  PROVE  f[<<l, b>>] = InsertBody(f, l, b)
  BY DEF InsertsShort

(* Functions that insert in short lists agree,                             *)
LEMMA ShortAgree ==
  ASSUME NEW f, NEW g, NEW m \in Nat, NEW n \in Nat, InsertsShort(f, m), InsertsShort(g, n),
         NEW l \in Seq(Region), Len(l) <= m, Len(l) <= n, NEW b \in Region
  PROVE  f[<<l, b>>] = g[<<l, b>>]
<1> DEFINE T == {k \in Nat : \A s \in Seq(Region), c \in Region :
                   Len(s) = k /\ k <= m /\ k <= n => f[<<s, c>>] = g[<<s, c>>]}
<1>1. ASSUME NEW s \in Seq(Region), NEW c \in Region, Len(s) <= m, Len(s) <= n,
             s # <<>> => \A d \in Region : f[<<Tail(s), d>>] = g[<<Tail(s), d>>]
      PROVE  f[<<s, c>>] = g[<<s, c>>]
  <2>1. s \in Short(m) /\ s \in Short(n)
    BY <1>1 DEF Short
  <2>2. f[<<s, c>>] = InsertBody(f, s, c) /\ g[<<s, c>>] = InsertBody(g, s, c)
    BY <2>1, ShortCall
  <2>3. InsertBody(f, s, c) = InsertBody(g, s, c)
    BY <1>1, BodySame
  <2>4. QED
    BY <2>2, <2>3
<1>2. 0 \in T
  <2>1. ASSUME NEW s \in Seq(Region), NEW c \in Region, Len(s) = 0 PROVE f[<<s, c>>] = g[<<s, c>>]
    <3>1. s = <<>> /\ Len(s) <= m /\ Len(s) <= n
      BY <2>1
    <3>2. s # <<>> => \A d \in Region : f[<<Tail(s), d>>] = g[<<Tail(s), d>>]
      BY <3>1
    <3>3. QED
      BY <1>1, <3>1, <3>2
  <2>2. QED
    BY <2>1
<1>3. ASSUME NEW k \in Nat, k \in T PROVE k + 1 \in T
  <2>1. ASSUME NEW s \in Seq(Region), NEW c \in Region, Len(s) = k + 1, k + 1 <= m, k + 1 <= n
        PROVE  f[<<s, c>>] = g[<<s, c>>]
    <3>1. s # <<>>
      BY <2>1
    <3>2. Tail(s) \in Seq(Region) /\ Len(Tail(s)) = k /\ k <= m /\ k <= n
      BY <2>1, <3>1, HeadAndTail
    <3>3. \A d \in Region : f[<<Tail(s), d>>] = g[<<Tail(s), d>>]
      BY <1>3, <3>2
    <3>4. QED
      BY <1>1, <2>1, <3>3
  <2>2. QED
    BY <2>1
<1>4. Len(l) \in Nat /\ Len(l) \in T
  <2> HIDE DEF T
  <2>1. QED
    BY <1>2, <1>3, NumbersFromZero
<1>5. QED
  BY <1>4

(* and there is one for lists of any length.                               *)
LEMMA ShortExists ==
  ASSUME NEW n \in Nat
  PROVE  \E f : InsertsShort(f, n)
<1> DEFINE T == {k \in Nat : \E f : InsertsShort(f, k)}
<1>1. 0 \in T
  <2> DEFINE f == [p \in Short(0) \X Region |-> <<p[2]>>]
  <2>1. \A l \in Short(0) : l = <<>>
    BY DEF Short
  <2>2. \A l \in Short(0), b \in Region : InsertBody(f, l, b) = <<b>>
    BY <2>1 DEF InsertBody
  <2>3. [p \in Short(0) \X Region |-> InsertBody(f, p[1], p[2])] = [p \in Short(0) \X Region |-> <<p[2]>>]
    <3> HIDE DEF f
    <3>1. QED
      BY <2>2
  <2>4. InsertsShort(f, 0)
    BY <2>3 DEF InsertsShort
  <2> HIDE DEF f
  <2>5. QED
    BY <2>4
<1>2. ASSUME NEW k \in Nat, k \in T PROVE k + 1 \in T
  <2>1. PICK f : InsertsShort(f, k)
    BY <1>2
  <2> DEFINE h == [p \in Short(k + 1) \X Region |-> InsertBody(f, p[1], p[2])]
  <2>2. ASSUME NEW l \in Short(k + 1), NEW b \in Region PROVE InsertBody(f, l, b) = InsertBody(h, l, b)
    <3>1. ASSUME l # <<>>, NEW c \in Region PROVE f[<<Tail(l), c>>] = h[<<Tail(l), c>>]
      <4>1. Tail(l) \in Seq(Region) /\ Len(Tail(l)) <= k
        BY <3>1, HeadAndTail DEF Short
      <4>2. Tail(l) \in Short(k) /\ Tail(l) \in Short(k + 1)
        BY <4>1, HeadAndTail, <3>1 DEF Short
      <4>3. f[<<Tail(l), c>>] = InsertBody(f, Tail(l), c)
        BY <2>1, <4>2, ShortCall
      <4>4. h[<<Tail(l), c>>] = InsertBody(f, Tail(l), c)
        BY <4>2
      <4>5. QED
        BY <4>3, <4>4
    <3>2. l \in Seq(Region)
      BY DEF Short
    <3> HIDE DEF h
    <3>3. QED
      BY <3>1, <3>2, BodySame
  <2>3. h = [p \in Short(k + 1) \X Region |-> InsertBody(h, p[1], p[2])]
    <3>1. PICK g : g = h
      OBVIOUS
    <3>2. \A l \in Short(k + 1), b \in Region : InsertBody(f, l, b) = InsertBody(g, l, b)
      BY <2>2, <3>1
    <3>3. [p \in Short(k + 1) \X Region |-> InsertBody(f, p[1], p[2])]
            = [p \in Short(k + 1) \X Region |-> InsertBody(g, p[1], p[2])]
      BY <3>2
    <3>4. QED
      BY <3>1, <3>3
  <2>4. InsertsShort(h, k + 1)
    BY <2>3 DEF InsertsShort
  <2> HIDE DEF h
  <2>5. QED
    BY <2>4
<1>3. QED
  <2> HIDE DEF T
  <2>1. n \in T
    BY <1>1, <1>2, NumbersFromZero
  <2>2. QED
    BY <2>1 DEF T

(* So Insert is what its definition says.                                  *)
LEMMA InsertCall ==
  ASSUME NEW l \in Seq(Region), NEW b \in Region
  PROVE  Insert[<<l, b>>] = InsertBody(Insert, l, b)
<1> DEFINE For(n) == CHOOSE f : InsertsShort(f, n)
           F == [p \in Seq(Region) \X Region |-> For(Len(p[1]))[p]]
<1>1. \A n \in Nat : InsertsShort(For(n), n)
  BY ShortExists
<1> HIDE DEF For
<1>2. ASSUME NEW s \in Seq(Region), NEW c \in Region PROVE For(Len(s))[<<s, c>>] = InsertBody(F, s, c)
  <2>1. Len(s) \in Nat /\ s \in Short(Len(s))
    BY DEF Short
  <2>2. For(Len(s))[<<s, c>>] = InsertBody(For(Len(s)), s, c)
    BY <1>1, <2>1, ShortCall
  <2>3. ASSUME s # <<>>, NEW d \in Region PROVE For(Len(s))[<<Tail(s), d>>] = F[<<Tail(s), d>>]
    <3>1. Tail(s) \in Seq(Region) /\ Len(Tail(s)) \in Nat /\ Len(Tail(s)) <= Len(s)
      BY <2>3, HeadAndTail
    <3>2. F[<<Tail(s), d>>] = For(Len(Tail(s)))[<<Tail(s), d>>]
      BY <3>1
    <3>3. InsertsShort(For(Len(s)), Len(s)) /\ InsertsShort(For(Len(Tail(s))), Len(Tail(s)))
      BY <1>1, <2>1, <3>1
    <3>4. PICK f, g, m, n, t : /\ f = For(Len(s)) /\ g = For(Len(Tail(s)))
                               /\ m = Len(s) /\ n = Len(Tail(s)) /\ t = Tail(s)
      OBVIOUS
    <3>5. /\ m \in Nat /\ n \in Nat /\ InsertsShort(f, m) /\ InsertsShort(g, n)
          /\ t \in Seq(Region) /\ Len(t) <= m /\ Len(t) <= n
      BY <2>1, <3>1, <3>3, <3>4
    <3>6. f[<<t, d>>] = g[<<t, d>>]
      BY <3>5, ShortAgree
    <3>7. QED
      BY <3>2, <3>4, <3>6
  <2> HIDE DEF F
  <2>4. InsertBody(For(Len(s)), s, c) = InsertBody(F, s, c)
    BY <2>3, BodySame
  <2>5. QED
    BY <2>2, <2>4
<1>3. F = [p \in Seq(Region) \X Region |-> InsertBody(F, p[1], p[2])]
  <2>1. PICK g : g = F
    OBVIOUS
  <2>2. \A s \in Seq(Region), c \in Region : For(Len(s))[<<s, c>>] = InsertBody(g, s, c)
    BY <1>2, <2>1
  <2>3. [p \in Seq(Region) \X Region |-> For(Len(p[1]))[p]]
          = [p \in Seq(Region) \X Region |-> InsertBody(g, p[1], p[2])]
    BY <2>2
  <2>4. QED
    BY <2>1, <2>3
<1>4. \E g : g = [p \in Seq(Region) \X Region |-> InsertBody(g, p[1], p[2])]
  <2> HIDE DEF F
  <2>1. QED
    BY <1>3
<1>5. Insert = [p \in Seq(Region) \X Region |-> InsertBody(Insert, p[1], p[2])]
  BY <1>4 DEF Insert, InsertBody
<1>6. QED
  BY <1>5

-----------------------------------------------------------------------------
(* Free lists: which words they hold.                                      *)
Has(r, a) == r.base <= a /\ a < End(r)

Holds(l, a) == \E i \in 1..Len(l) : Has(l[i], a)

(* No region is empty, and neighbours do not touch.                        *)
Separated(l) ==
  /\ \A i \in 1..Len(l) : l[i].size > 0
  /\ \A i, j \in 1..Len(l) : i < j => End(l[i]) < l[j].base

(* A block that can be inserted, and what the list is then.                *)
Fits(l, b) == Separated(l) /\ b.size > 0 /\ \A a \in Nat : ~(Has(b, a) /\ Holds(l, a))

Inserted(l, b, m) ==
  /\ m \in Seq(Region) /\ Separated(m)
  /\ \A a \in Nat : Holds(m, a) <=> Has(b, a) \/ Holds(l, a)

(* The fields of a region.                                                 *)
LEMMA RegionFields ==
  ASSUME NEW r \in Region
  PROVE  r.base \in Nat /\ r.size \in Nat /\ End(r) = r.base + r.size /\ End(r) \in Nat
  BY DEF Region, End

(* A region before all others.                                             *)
LEMMA PutFirst ==
  ASSUME NEW r \in Region, r.size > 0, NEW l \in Seq(Region), Separated(l),
         \A j \in 1..Len(l) : End(r) < l[j].base, NEW s, s = <<r>> \o l
  PROVE  /\ s \in Seq(Region) /\ Separated(s)
         /\ \A a : Holds(s, a) <=> Has(r, a) \/ Holds(l, a)
<1>2. /\ s \in Seq(Region) /\ Len(s) = Len(l) + 1 /\ Len(l) \in Nat /\ s[1] = r
      /\ \A i \in 1..Len(l) : s[i + 1] = l[i]
  OBVIOUS
<1>3. \A i \in 1..Len(s) : i = 1 \/ (i - 1 \in 1..Len(l) /\ s[i] = l[i - 1])
  <2>1. ASSUME NEW i \in 1..Len(s), i # 1 PROVE i - 1 \in 1..Len(l) /\ s[i] = l[i - 1]
    <3>1. i - 1 \in 1..Len(l) /\ (i - 1) + 1 = i
      BY <1>2, <2>1
    <3>2. s[(i - 1) + 1] = l[i - 1]
      BY <1>2, <3>1
    <3>3. QED
      BY <3>1, <3>2
  <2>2. QED
    BY <2>1
<1>4. Separated(s)
  <2>1. ASSUME NEW i \in 1..Len(s), NEW j \in 1..Len(s), i < j PROVE End(s[i]) < s[j].base
    <3>1. j # 1 /\ j - 1 \in 1..Len(l) /\ s[j] = l[j - 1]
      BY <1>2, <1>3, <2>1
    <3>2. CASE i = 1
      BY <1>2, <3>1, <3>2
    <3>3. CASE i # 1
      <4>1. i - 1 \in 1..Len(l) /\ s[i] = l[i - 1] /\ i - 1 < j - 1
        BY <1>2, <1>3, <2>1, <3>1, <3>3
      <4>2. QED
        BY <3>1, <4>1 DEF Separated
    <3>4. QED
      BY <3>2, <3>3
  <2>2. \A i \in 1..Len(s) : s[i].size > 0
    BY <1>2, <1>3 DEF Separated
  <2>3. QED
    BY <2>1, <2>2 DEF Separated
<1>5. ASSUME NEW a PROVE Holds(s, a) <=> Has(r, a) \/ Holds(l, a)
  <2>1. Holds(s, a) => Has(r, a) \/ Holds(l, a)
    BY <1>2, <1>3 DEF Holds
  <2>2. Has(r, a) => Holds(s, a)
    <3>1. 1 \in 1..Len(s)
      BY <1>2
    <3>2. QED
      BY <1>2, <3>1 DEF Holds
  <2>3. Holds(l, a) => Holds(s, a)
    <3>1. \A i \in 1..Len(l) : i + 1 \in 1..Len(s)
      BY <1>2
    <3>2. QED
      BY <1>2, <3>1 DEF Holds
  <2>4. QED
    BY <2>1, <2>2, <2>3
<1>6. QED
  BY <1>2, <1>4, <1>5

(* The first region, and the others.                                       *)
LEMMA TakeFirst ==
  ASSUME NEW l \in Seq(Region), l # <<>>, Separated(l)
  PROVE  /\ Head(l) \in Region /\ Head(l).size > 0
         /\ Tail(l) \in Seq(Region) /\ Separated(Tail(l))
         /\ \A j \in 1..Len(Tail(l)) : End(Head(l)) < Tail(l)[j].base
         /\ \A a : Holds(l, a) <=> Has(Head(l), a) \/ Holds(Tail(l), a)
<1>1. PICK h, t : h = Head(l) /\ t = Tail(l)
  OBVIOUS
<1>2. /\ h \in Region /\ t \in Seq(Region) /\ Len(t) = Len(l) - 1 /\ Len(l) \in Nat /\ Len(l) > 0
      /\ h = l[1] /\ \A i \in 1..Len(t) : t[i] = l[i + 1]
  BY <1>1
<1>3. \A i \in 1..Len(t) : i + 1 \in 1..Len(l) /\ 1 < i + 1
  BY <1>2
<1>4. 1 \in 1..Len(l)
  BY <1>2
<1>5. h.size > 0 /\ \A j \in 1..Len(t) : End(h) < t[j].base
  BY <1>2, <1>3, <1>4 DEF Separated
<1>6. Separated(t)
  <2>1. ASSUME NEW i \in 1..Len(t), NEW j \in 1..Len(t), i < j PROVE End(t[i]) < t[j].base
    <3>1. i + 1 < j + 1
      BY <1>2, <2>1
    <3>2. QED
      BY <1>2, <1>3, <3>1 DEF Separated
  <2>2. \A i \in 1..Len(t) : t[i].size > 0
    BY <1>2, <1>3 DEF Separated
  <2>3. QED
    BY <2>1, <2>2 DEF Separated
<1>7. ASSUME NEW a PROVE Holds(l, a) <=> Has(h, a) \/ Holds(t, a)
  <2>1. \A i \in 1..Len(l) : i = 1 \/ (i - 1 \in 1..Len(t) /\ (i - 1) + 1 = i)
    BY <1>2
  <2>2. \A i \in 1..Len(l) : i = 1 \/ (i - 1 \in 1..Len(t) /\ l[i] = t[i - 1])
    BY <1>2, <2>1
  <2>3. QED
    BY <1>2, <1>3, <1>4, <2>2 DEF Holds
<1>8. QED
  BY <1>1, <1>2, <1>5, <1>6, <1>7

(* Two regions that touch make one.                                        *)
LEMMA TwoInOne ==
  ASSUME NEW r \in Region, NEW q \in Region, End(r) = q.base, r.size > 0
  PROVE  LET c == Reg(r.base, r.size + q.size) IN
         /\ c \in Region /\ c.size > 0 /\ End(c) = End(q)
         /\ \A a \in Nat : Has(c, a) <=> Has(r, a) \/ Has(q, a)
<1>1. /\ r.base \in Nat /\ r.size \in Nat /\ q.base \in Nat /\ q.size \in Nat
      /\ r.base + r.size = q.base
  BY RegionFields
<1>2. PICK c : c = Reg(r.base, r.size + q.size)
  OBVIOUS
<1>3. c \in Region /\ c.base = r.base /\ c.size = r.size + q.size
  BY <1>1, <1>2 DEF Reg, Region
<1>4. End(c) = q.base + q.size /\ End(q) = q.base + q.size /\ End(r) = q.base
  BY <1>1, <1>3 DEF End
<1>5. \A a \in Nat : Has(c, a) <=> Has(r, a) \/ Has(q, a)
  BY <1>1, <1>3, <1>4 DEF Has
<1>6. QED
  BY <1>1, <1>2, <1>3, <1>4, <1>5

(* Regions that share no word and do not touch lie apart.                  *)
LEMMA LiesBehind ==
  ASSUME NEW b \in Region, b.size > 0, NEW h \in Region, h.size > 0,
         \A a \in Nat : ~(Has(b, a) /\ Has(h, a)), End(b) > h.base
  PROVE  b.base >= End(h)
<1>1. /\ b.base \in Nat /\ b.size \in Nat /\ h.base \in Nat /\ h.size \in Nat
      /\ End(b) = b.base + b.size /\ End(h) = h.base + h.size
  BY RegionFields
<1>2. ASSUME b.base < End(h) PROVE FALSE
  <2>1. CASE b.base >= h.base
    <3>1. Has(b, b.base) /\ Has(h, b.base)
      BY <1>1, <1>2, <2>1 DEF Has
    <3>2. QED
      BY <1>1, <3>1
  <2>2. CASE b.base < h.base
    <3>1. Has(b, h.base) /\ Has(h, h.base)
      BY <1>1, <2>2 DEF Has
    <3>2. QED
      BY <1>1, <3>1
  <2>3. QED
    BY <1>1, <2>1, <2>2
<1>3. QED
  BY <1>1, <1>2

(* The first word of a region is in the list.                              *)
LEMMA HoldsBase ==
  ASSUME NEW l \in Seq(Region), Separated(l), NEW j \in 1..Len(l)
  PROVE  l[j].base \in Nat /\ Holds(l, l[j].base)
<1>1. l[j] \in Region /\ l[j].size > 0
  BY DEF Separated
<1>2. Has(l[j], l[j].base)
  BY <1>1, RegionFields DEF Has
<1>3. QED
  BY <1>1, <1>2, RegionFields DEF Holds

(* A list behind some address holds words behind it only.                  *)
LEMMA HoldsBehind ==
  ASSUME NEW l \in Seq(Region), NEW e \in Nat, \A j \in 1..Len(l) : e < l[j].base,
         NEW a \in Nat, Holds(l, a)
  PROVE  e < a
<1>1. PICK i \in 1..Len(l) : Has(l[i], a)
  BY DEF Holds
<1>2. l[i].base \in Nat
  BY RegionFields
<1>3. QED
  BY <1>1, <1>2 DEF Has

(* One call of Insert, when the calls it makes are right.                  *)
LEMMA InsertStep ==
  ASSUME NEW l \in Seq(Region), NEW b \in Region, Fits(l, b),
         l # <<>> => \A c \in Region : Fits(Tail(l), c) => Inserted(Tail(l), c, Insert[<<Tail(l), c>>])
  PROVE  Inserted(l, b, Insert[<<l, b>>])
<1>1. CASE l = <<>>
  <2>1. PICK none : none = l
    OBVIOUS
  <2>2. PICK m : m = <<b>>
    OBVIOUS
  <2>3. Len(none) = 0 /\ none \in Seq(Region) /\ m = <<b>> \o none
    BY <1>1, <2>1, <2>2
  <2>4. b.size > 0 /\ Separated(none) /\ \A j \in 1..Len(none) : End(b) < none[j].base
    BY <2>1, <2>3 DEF Fits
  <2>5. m \in Seq(Region) /\ Separated(m) /\ \A a : Holds(m, a) <=> Has(b, a) \/ Holds(none, a)
    BY <2>3, <2>4, PutFirst
  <2>6. Insert[<<l, b>>] = m
    BY <1>1, <2>2, InsertCall DEF InsertBody
  <2>7. QED
    BY <2>1, <2>5, <2>6 DEF Inserted
<1>2. CASE l # <<>>
  <2>1. PICK h, t : h = Head(l) /\ t = Tail(l)
    OBVIOUS
  <2>2. /\ h \in Region /\ h.size > 0 /\ t \in Seq(Region) /\ Separated(t)
        /\ \A j \in 1..Len(t) : End(h) < t[j].base
        /\ \A a : Holds(l, a) <=> Has(h, a) \/ Holds(t, a)
    BY <1>2, <2>1, TakeFirst DEF Fits
  <2>3. Separated(l) /\ b.size > 0 /\ \A a \in Nat : ~(Has(b, a) /\ Holds(l, a))
    BY DEF Fits
  <2>4. /\ b.base \in Nat /\ b.size \in Nat /\ h.base \in Nat /\ h.size \in Nat
        /\ End(b) \in Nat /\ End(h) \in Nat /\ End(h) = h.base + h.size /\ End(b) = b.base + b.size
    BY <2>2, RegionFields
  <2>5. Insert[<<l, b>>] =
          IF End(b) = h.base THEN <<Reg(b.base, b.size + h.size)>> \o t
          ELSE IF End(b) < h.base THEN <<b>> \o l
          ELSE IF b.base = End(h) THEN Insert[<<t, Reg(h.base, b.size + h.size)>>]
          ELSE <<h>> \o Insert[<<t, b>>]
    BY <1>2, <2>1, InsertCall DEF InsertBody
  <2>6. CASE End(b) = h.base
    <3>1. PICK c : c = Reg(b.base, b.size + h.size)
      OBVIOUS
    <3>2. /\ c \in Region /\ c.size > 0 /\ End(c) = End(h)
          /\ \A a \in Nat : Has(c, a) <=> Has(b, a) \/ Has(h, a)
      BY <2>2, <2>3, <2>6, <3>1, TwoInOne
    <3>3. Insert[<<l, b>>] = <<c>> \o t
      BY <2>5, <2>6, <3>1
    <3>4. PICK m : m = <<c>> \o t
      OBVIOUS
    <3>5. \A j \in 1..Len(t) : End(c) < t[j].base
      BY <2>2, <3>2
    <3>6. m \in Seq(Region) /\ Separated(m) /\ \A a : Holds(m, a) <=> Has(c, a) \/ Holds(t, a)
      BY <2>2, <3>2, <3>4, <3>5, PutFirst
    <3>7. \A a \in Nat : Holds(m, a) <=> Has(b, a) \/ Holds(l, a)
      BY <2>2, <3>2, <3>6
    <3>8. Insert[<<l, b>>] = m
      BY <3>3, <3>4
    <3>9. QED
      BY <3>6, <3>7, <3>8 DEF Inserted
  <2>7. CASE End(b) < h.base
    <3>1. ASSUME NEW j \in 1..Len(l) PROVE End(b) < l[j].base
      <4>1. l[j].base \in Nat /\ Holds(l, l[j].base)
        BY <2>3, HoldsBase
      <4>2. Has(h, l[j].base) \/ Holds(t, l[j].base)
        BY <2>2, <4>1
      <4>3. h.base <= l[j].base
        <5>1. Holds(t, l[j].base) => End(h) < l[j].base
          BY <2>2, <2>4, <4>1, HoldsBehind
        <5>2. QED
          BY <2>4, <4>1, <4>2, <5>1 DEF Has
      <4>4. QED
        BY <2>4, <2>7, <4>1, <4>3
    <3>2. Insert[<<l, b>>] = <<b>> \o l
      BY <2>4, <2>5, <2>7
    <3>3. PICK m : m = <<b>> \o l
      OBVIOUS
    <3>4. m \in Seq(Region) /\ Separated(m) /\ \A a : Holds(m, a) <=> Has(b, a) \/ Holds(l, a)
      BY <2>3, <3>1, <3>3, PutFirst
    <3>5. QED
      BY <3>2, <3>3, <3>4 DEF Inserted
  <2>8. CASE End(b) > h.base
    <3>1. b.base >= End(h)
      BY <2>2, <2>3, <2>8, LiesBehind
    <3>2. \A a \in Nat : ~(Has(h, a) /\ Holds(t, a)) /\ ~(Has(b, a) /\ Holds(t, a))
      <4>1. ASSUME NEW a \in Nat, Has(h, a), Holds(t, a) PROVE FALSE
        <5>1. End(h) < a
          BY <2>2, <2>4, <4>1, HoldsBehind
        <5>2. QED
          BY <2>4, <4>1, <5>1 DEF Has
      <4>2. QED
        BY <2>2, <2>3, <4>1
    <3>3. CASE b.base = End(h)
      <4>1. PICK c : c = Reg(h.base, b.size + h.size)
        OBVIOUS
      <4>2. b.size + h.size = h.size + b.size
        BY <2>4
      <4>3. /\ c \in Region /\ c.size > 0
            /\ \A a \in Nat : Has(c, a) <=> Has(h, a) \/ Has(b, a)
        BY <2>2, <3>3, <4>1, <4>2, TwoInOne
      <4>4. Fits(t, c)
        BY <2>2, <3>2, <4>3 DEF Fits
      <4>5. Inserted(t, c, Insert[<<t, c>>])
        BY <1>2, <2>1, <4>3, <4>4
      <4>6. Insert[<<l, b>>] = Insert[<<t, c>>]
        BY <2>4, <2>5, <2>8, <3>3, <4>1
      <4>7. QED
        BY <2>2, <4>3, <4>5, <4>6 DEF Inserted
    <3>4. CASE b.base # End(h)
      <4>1. Fits(t, b)
        BY <2>2, <2>3, <3>2 DEF Fits
      <4>2. PICK m : m = Insert[<<t, b>>]
        OBVIOUS
      <4>3. /\ m \in Seq(Region) /\ Separated(m)
            /\ \A a \in Nat : Holds(m, a) <=> Has(b, a) \/ Holds(t, a)
        BY <1>2, <2>1, <4>1, <4>2 DEF Inserted
      <4>4. ASSUME NEW j \in 1..Len(m) PROVE End(h) < m[j].base
        <5>1. m[j].base \in Nat /\ Holds(m, m[j].base)
          BY <4>3, HoldsBase
        <5>2. Has(b, m[j].base) \/ Holds(t, m[j].base)
          BY <4>3, <5>1
        <5>3. Holds(t, m[j].base) => End(h) < m[j].base
          BY <2>2, <2>4, <5>1, HoldsBehind
        <5>4. Has(b, m[j].base) => End(h) < m[j].base
          BY <2>4, <3>1, <3>4, <5>1 DEF Has
        <5>5. QED
          BY <5>2, <5>3, <5>4
      <4>5. Insert[<<l, b>>] = <<h>> \o m
        BY <2>4, <2>5, <2>8, <3>4, <4>2
      <4>6. PICK k : k = <<h>> \o m
        OBVIOUS
      <4>7. k \in Seq(Region) /\ Separated(k) /\ \A a : Holds(k, a) <=> Has(h, a) \/ Holds(m, a)
        BY <2>2, <4>3, <4>4, <4>6, PutFirst
      <4>8. \A a \in Nat : Holds(k, a) <=> Has(b, a) \/ Holds(l, a)
        BY <2>2, <4>3, <4>7
      <4>9. QED
        BY <4>5, <4>6, <4>7, <4>8 DEF Inserted
    <3>5. QED
      BY <3>3, <3>4
  <2>9. QED
    BY <2>4, <2>6, <2>7, <2>8
<1>3. QED
  BY <1>1, <1>2

(* free: a block that shares no word with the free list is added to it,    *)
(* and the list stays separated.                                           *)
LEMMA ReleaseAdds ==
  ASSUME NEW l \in Seq(Region), NEW b \in Region, Fits(l, b)
  PROVE  Inserted(l, b, Release(l, b))
<1> DEFINE T == {n \in Nat : \A s \in Seq(Region), c \in Region :
                   Len(s) = n /\ Fits(s, c) => Inserted(s, c, Insert[<<s, c>>])}
<1>1. 0 \in T
  <2>1. ASSUME NEW s \in Seq(Region), NEW c \in Region, Len(s) = 0, Fits(s, c)
        PROVE  Inserted(s, c, Insert[<<s, c>>])
    <3>1. s = <<>>
      BY <2>1
    <3>2. QED
      BY <2>1, <3>1, InsertStep
  <2>2. QED
    BY <2>1
<1>2. ASSUME NEW n \in Nat, n \in T PROVE n + 1 \in T
  <2>1. ASSUME NEW s \in Seq(Region), NEW c \in Region, Len(s) = n + 1, Fits(s, c)
        PROVE  Inserted(s, c, Insert[<<s, c>>])
    <3>1. s # <<>>
      BY <2>1
    <3>2. Tail(s) \in Seq(Region) /\ Len(Tail(s)) = n
      BY <2>1, <3>1, HeadAndTail
    <3>3. \A d \in Region : Fits(Tail(s), d) => Inserted(Tail(s), d, Insert[<<Tail(s), d>>])
      BY <1>2, <3>2
    <3>4. QED
      BY <2>1, <3>3, InsertStep
  <2>2. QED
    BY <2>1
<1>3. Len(l) \in Nat /\ Len(l) \in T
  <2> HIDE DEF T
  <2>1. QED
    BY <1>1, <1>2, NumbersFromZero
<1>4. QED
  BY <1>3 DEF Release

-----------------------------------------------------------------------------
(* malloc: the first region that is large enough, and what is left of it.  *)

(* No word is in two regions.                                              *)
LEMMA OneRegion ==
  ASSUME NEW l \in Seq(Region), Separated(l), NEW a \in Nat,
         NEW i \in 1..Len(l), NEW j \in 1..Len(l), Has(l[i], a), Has(l[j], a)
  PROVE  i = j
<1>1. /\ l[i].base \in Nat /\ End(l[i]) \in Nat
      /\ l[j].base \in Nat /\ End(l[j]) \in Nat
  BY RegionFields
<1>2. ~(i < j)
  BY <1>1 DEF Separated, Has
<1>3. ~(j < i)
  BY <1>1 DEF Separated, Has
<1>4. QED
  BY <1>2, <1>3

(* The region FirstFit chooses is large enough; if it chooses none, none   *)
(* is.                                                                     *)
LEMMA FirstFits ==
  ASSUME NEW l \in Seq(Region), NEW n \in Nat, NEW i, i = FirstFit(l, n)
  PROVE  \/ i = 0 /\ \A j \in 1..Len(l) : l[j].size < n
         \/ i \in 1..Len(l) /\ l[i].size >= n
<1> DEFINE I == {j \in 1..Len(l) : l[j].size >= n}
<1>1. i = IF I # {} THEN Min(I) ELSE 0
  BY DEF FirstFit, SelectInSeq
<1>2. I \in SUBSET Nat /\ I \subseteq 1..Len(l)
  OBVIOUS
<1>3. CASE I = {}
  <2>1. \A j \in 1..Len(l) : l[j].size < n
    BY <1>3, RegionFields
  <2>2. QED
    BY <1>1, <1>3, <2>1
<1>4. CASE I # {}
  <2>1. Min(I) \in I
    <3> HIDE DEF I
    <3>1. \E m \in I : \A k \in I : m <= k
      BY <1>2, <1>4, LeastNumber
    <3>2. QED
      BY <3>1 DEF Min
  <2>2. QED
    BY <1>1, <1>4, <2>1
<1>5. QED
  BY <1>3, <1>4

(* A list with one region taken out.                                       *)
LEMMA TakeOut ==
  ASSUME NEW l \in Seq(Region), Separated(l), NEW i \in 1..Len(l), NEW m, m = RemoveAt(l, i)
  PROVE  /\ m \in Seq(Region) /\ Separated(m)
         /\ \A a \in Nat : Holds(m, a) <=> Holds(l, a) /\ ~Has(l[i], a)
<1>1. PICK p, q : p = SubSeq(l, 1, i - 1) /\ q = SubSeq(l, i + 1, Len(l))
  OBVIOUS
<1>2. Len(l) \in Nat /\ i \in Nat /\ 1 <= i /\ i <= Len(l)
  OBVIOUS
<1>3. p \in Seq(Region) /\ Len(p) = i - 1 /\ \A k \in 1..i - 1 : p[k] = l[k]
  BY <1>1, <1>2
<1>4. q \in Seq(Region) /\ Len(q) = Len(l) - i /\ \A k \in 1..Len(l) - i : q[k] = l[k + i]
  BY <1>1, <1>2
<1>5. m = p \o q
  BY <1>1 DEF RemoveAt
<1>6. m \in Seq(Region) /\ Len(m) = Len(l) - 1
  BY <1>2, <1>3, <1>4, <1>5
<1>7. \A k \in 1..Len(m) : m[k] = IF k < i THEN l[k] ELSE l[k + 1]
  <2>1. ASSUME NEW k \in 1..Len(m) PROVE m[k] = IF k < i THEN l[k] ELSE l[k + 1]
    <3>1. CASE k < i
      BY <1>2, <1>3, <1>4, <1>5, <1>6, <3>1
    <3>2. CASE k >= i
      <4>1. k - (i - 1) \in 1..Len(l) - i /\ (k - (i - 1)) + i = k + 1
        BY <1>2, <1>6, <3>2
      <4>2. m[k] = q[k - (i - 1)]
        BY <1>2, <1>3, <1>4, <1>5, <1>6, <3>2
      <4>3. q[k - (i - 1)] = l[k + 1]
        BY <1>4, <4>1
      <4>4. QED
        BY <1>2, <3>2, <4>2, <4>3
    <3>3. QED
      BY <1>2, <3>1, <3>2
  <2>2. QED
    BY <2>1
<1> DEFINE At(k) == IF k < i THEN k ELSE k + 1
<1>8. \A k \in 1..Len(m) : At(k) \in 1..Len(l) /\ At(k) # i /\ m[k] = l[At(k)]
  BY <1>2, <1>6, <1>7
<1>9. \A k, j \in 1..Len(m) : k < j => At(k) < At(j)
  BY <1>2, <1>6
<1>10. \A j \in 1..Len(l) : j # i => \E k \in 1..Len(m) : At(k) = j
  <2>1. ASSUME NEW j \in 1..Len(l), j # i PROVE \E k \in 1..Len(m) : At(k) = j
    <3>1. CASE j < i
      <4>1. j \in 1..Len(m) /\ At(j) = j
        BY <1>2, <1>6, <3>1
      <4>2. QED
        BY <4>1
    <3>2. CASE j > i
      <4>1. j - 1 \in 1..Len(m) /\ At(j - 1) = j
        BY <1>2, <1>6, <3>2
      <4>2. QED
        BY <4>1
    <3>3. QED
      BY <1>2, <2>1, <3>1, <3>2
  <2>2. QED
    BY <2>1
<1> HIDE DEF At
<1>11. Separated(m)
  BY <1>8, <1>9 DEF Separated
<1>12. ASSUME NEW a \in Nat PROVE Holds(m, a) <=> Holds(l, a) /\ ~Has(l[i], a)
  <2>1. Holds(m, a) => Holds(l, a) /\ ~Has(l[i], a)
    <3>1. ASSUME NEW k \in 1..Len(m), Has(m[k], a) PROVE Holds(l, a) /\ ~Has(l[i], a)
      <4>1. At(k) \in 1..Len(l) /\ At(k) # i /\ Has(l[At(k)], a)
        BY <1>8, <3>1
      <4>2. ~Has(l[i], a)
        BY <4>1, OneRegion
      <4>3. QED
        BY <4>1, <4>2 DEF Holds
    <3>2. QED
      BY <3>1 DEF Holds
  <2>2. Holds(l, a) /\ ~Has(l[i], a) => Holds(m, a)
    BY <1>8, <1>10 DEF Holds
  <2>3. QED
    BY <2>1, <2>2
<1>13. QED
  BY <1>6, <1>11, <1>12

(* A list with words taken from the front of one region.                   *)
LEMMA TakeFront ==
  ASSUME NEW l \in Seq(Region), Separated(l), NEW i \in 1..Len(l),
         NEW n \in Nat, 0 < n, n < l[i].size,
         NEW m, m = ReplaceAt(l, i, Reg(l[i].base + n, l[i].size - n))
  PROVE  /\ m \in Seq(Region) /\ Separated(m)
         /\ \A a \in Nat : Holds(m, a) <=> Holds(l, a) /\ a \notin Words(l[i].base, n)
<1>1. PICK r : r = Reg(l[i].base + n, l[i].size - n)
  OBVIOUS
<1>2. l[i].base \in Nat /\ l[i].size \in Nat /\ End(l[i]) = l[i].base + l[i].size
  BY RegionFields
<1>3. r \in Region /\ r.base = l[i].base + n /\ r.size = l[i].size - n
  <2>1. PICK b, s : b = l[i].base + n /\ s = l[i].size - n
    OBVIOUS
  <2>2. b \in Nat /\ s \in Nat
    BY <1>2, <2>1
  <2>3. QED
    BY <1>1, <2>1, <2>2 DEF Reg, Region
<1>4. r.size > 0 /\ End(r) = End(l[i]) /\ l[i].base < r.base
  BY <1>2, <1>3 DEF End
<1>5. m = [l EXCEPT ![i] = r]
  BY <1>1 DEF ReplaceAt
<1>6. m \in Seq(Region) /\ Len(m) = Len(l)
  <2>1. [l EXCEPT ![i] = r] \in Seq(Region) /\ Len([l EXCEPT ![i] = r]) = Len(l)
    BY <1>3, ExceptSeq
  <2>2. QED
    BY <1>5, <2>1
<1>7. \A k \in 1..Len(m) : m[k] = IF k = i THEN r ELSE l[k]
  BY <1>5
<1>8. Separated(m)
  <2>1. ASSUME NEW k \in 1..Len(m), NEW j \in 1..Len(m), k < j PROVE End(m[k]) < m[j].base
    <3>1. End(l[k]) < l[j].base
      BY <1>6, <2>1 DEF Separated
    <3>2. End(m[k]) = End(l[k])
      BY <1>4, <1>7
    <3>3. l[j].base <= m[j].base /\ l[j].base \in Nat /\ m[j].base \in Nat /\ End(l[k]) \in Nat
      <4>1. l[k].base \in Nat /\ End(l[k]) \in Nat /\ l[j].base \in Nat /\ r.base \in Nat
        <5>1. k \in 1..Len(l) /\ j \in 1..Len(l)
          BY <1>6
        <5>2. l[k] \in Region /\ l[j] \in Region
          BY <5>1
        <5>3. QED
          BY <1>3, <5>2, RegionFields
      <4>2. CASE j = i
        BY <1>4, <1>7, <4>1, <4>2
      <4>3. CASE j # i
        BY <1>7, <4>1, <4>3
      <4>4. QED
        BY <4>2, <4>3
    <3>4. QED
      BY <3>1, <3>2, <3>3
  <2>2. \A k \in 1..Len(m) : m[k].size > 0
    BY <1>4, <1>6, <1>7 DEF Separated
  <2>3. QED
    BY <2>1, <2>2 DEF Separated
<1>9. \A a \in Nat : Has(r, a) <=> Has(l[i], a) /\ a \notin Words(l[i].base, n)
  <2>1. ASSUME NEW a \in Nat PROVE Has(r, a) <=> Has(l[i], a) /\ a \notin Words(l[i].base, n)
    <3>1. a \in Words(l[i].base, n) <=> l[i].base <= a /\ a < l[i].base + n
      BY <1>2 DEF Words
    <3>2. QED
      BY <1>2, <1>3, <1>4, <3>1 DEF Has
  <2>2. QED
    BY <2>1
<1>10. \A a \in Nat : a \in Words(l[i].base, n) => Has(l[i], a)
  BY <1>2 DEF Words, Has
<1>11. ASSUME NEW a \in Nat PROVE Holds(m, a) <=> Holds(l, a) /\ a \notin Words(l[i].base, n)
  <2>1. \A k \in 1..Len(l) : Has(l[k], a) /\ a \in Words(l[i].base, n) => k = i
    BY <1>10, OneRegion
  <2>2. Holds(m, a) => Holds(l, a) /\ a \notin Words(l[i].base, n)
    BY <1>6, <1>7, <1>9, <2>1 DEF Holds
  <2>3. Holds(l, a) /\ a \notin Words(l[i].base, n) => Holds(m, a)
    BY <1>6, <1>7, <1>9 DEF Holds
  <2>4. QED
    BY <2>2, <2>3
<1>12. QED
  BY <1>6, <1>8, <1>11

(* malloc: the list loses exactly the words of the new block.              *)
LEMMA CarveTakes ==
  ASSUME NEW l \in Seq(Region), Separated(l), NEW i \in 1..Len(l),
         NEW n \in Nat, 0 < n, n <= l[i].size, NEW m, m = Carve(l, i, n)
  PROVE  /\ m \in Seq(Region) /\ Separated(m)
         /\ \A a \in Nat : Holds(m, a) <=> Holds(l, a) /\ a \notin Words(l[i].base, n)
<1>1. l[i].base \in Nat /\ l[i].size \in Nat /\ End(l[i]) = l[i].base + l[i].size
  BY RegionFields
<1>2. CASE l[i].size = n
  <2>1. m = RemoveAt(l, i)
    BY <1>2 DEF Carve
  <2>2. \A a \in Nat : Has(l[i], a) <=> a \in Words(l[i].base, n)
    BY <1>1, <1>2 DEF Has, Words
  <2>3. /\ m \in Seq(Region) /\ Separated(m)
        /\ \A a \in Nat : Holds(m, a) <=> Holds(l, a) /\ ~Has(l[i], a)
    BY <2>1, TakeOut
  <2>4. QED
    BY <2>2, <2>3
<1>3. CASE n < l[i].size
  <2>1. m = ReplaceAt(l, i, Reg(l[i].base + n, l[i].size - n))
    BY <1>1, <1>3 DEF Carve
  <2>2. QED
    BY <1>3, <2>1, TakeFront
<1>4. QED
  BY <1>1, <1>2, <1>3

(* Free words that follow one another are all in one region.               *)
LEMMA GapInRegion ==
  ASSUME NEW l \in Seq(Region), Separated(l), NEW base \in Nat, NEW n \in Nat, 0 < n,
         \A a \in Words(base, n) : Holds(l, a)
  PROVE  \E i \in 1..Len(l) : n <= l[i].size
<1>1. base \in Words(base, n)
  BY DEF Words
<1>2. PICK i \in 1..Len(l) : Has(l[i], base)
  BY <1>1 DEF Holds
<1>3. l[i].base \in Nat /\ l[i].size \in Nat /\ End(l[i]) = l[i].base + l[i].size /\ End(l[i]) \in Nat
  BY RegionFields
<1>4. ASSUME End(l[i]) < base + n PROVE FALSE
  <2>1. End(l[i]) \in Words(base, n)
    BY <1>2, <1>3, <1>4 DEF Words, Has
  <2>2. PICK j \in 1..Len(l) : Has(l[j], End(l[i]))
    BY <2>1 DEF Holds
  <2>3. l[j].base \in Nat /\ End(l[j]) \in Nat
    BY RegionFields
  <2>4. j # i
    BY <1>3, <2>2 DEF Has
  <2>5. ~(i < j)
    BY <1>3, <2>2, <2>3 DEF Has, Separated
  <2>6. ~(j < i)
    BY <1>3, <2>2, <2>3 DEF Has, Separated
  <2>7. QED
    BY <2>4, <2>5, <2>6
<1>5. n <= l[i].size
  BY <1>2, <1>3, <1>4 DEF Has
<1>6. QED
  BY <1>5

-----------------------------------------------------------------------------
(* The allocator's tables.                                                 *)

Taken(blocks, a) == \E b \in DOMAIN blocks : a \in Words(b, blocks[b])

(* The free list l holds the words from lo to the end of the heap that no  *)
(* live block has; live blocks share no word, and the table knows them.    *)
Good(l, blocks, table, lo) ==
  /\ l \in Seq(Region) /\ Separated(l)
  /\ \A a \in Nat : Holds(l, a) <=> a \in lo..HeapSize - 1 /\ ~Taken(blocks, a)
  /\ \A b \in DOMAIN blocks : b \in DOMAIN table /\ table[b] = blocks[b]
  /\ \A b \in DOMAIN blocks : \A a \in Words(b, blocks[b]) : a \in lo..HeapSize - 1
  /\ \A b, c \in DOMAIN blocks : \A a : a \in Words(b, blocks[b]) /\ a \in Words(c, blocks[c]) => b = c
  /\ \A b \in DOMAIN table : b \in 0..HeapSize /\ table[b] \in 1..HeapSize

(* The blocks when one is allocated, and when one is freed.                *)
With(blocks, p, n) == [b \in DOMAIN blocks \cup {p} |-> IF b = p THEN n ELSE blocks[b]]
Without(blocks, p) == [b \in DOMAIN blocks \ {p} |-> blocks[b]]

(* A live block has words of its own.                                      *)
LEMMA BlockWords ==
  ASSUME NEW l, NEW blocks, NEW table, NEW lo, Good(l, blocks, table, lo), NEW b \in DOMAIN blocks
  PROVE  /\ b \in Nat /\ blocks[b] \in Nat /\ blocks[b] > 0 /\ b \in Words(b, blocks[b])
         /\ b \in DOMAIN table /\ table[b] = blocks[b]
<1>1. b \in DOMAIN table /\ table[b] = blocks[b]
  BY DEF Good
<1>2. HeapSize \in Nat
  BY IlvmProgramAssumption
<1>3. b \in 0..HeapSize /\ table[b] \in 1..HeapSize
  BY <1>1 DEF Good
<1>4. b \in Nat /\ blocks[b] \in Nat /\ blocks[b] > 0
  BY <1>1, <1>2, <1>3
<1>5. b \in Words(b, blocks[b])
  BY <1>4 DEF Words
<1>6. QED
  BY <1>1, <1>4, <1>5

(* A block from the front of a free region.                                *)
LEMMA NewBlock ==
  ASSUME NEW l, NEW blocks, NEW table, NEW lo \in Nat, Good(l, blocks, table, lo),
         NEW i \in 1..Len(l), NEW n \in Nat, 0 < n, n <= l[i].size, NEW p, p = l[i].base
  PROVE  /\ p \in Nat /\ p \notin DOMAIN blocks
         /\ \A a \in Words(p, n) : a \in lo..HeapSize - 1 /\ ~Taken(blocks, a)
<1>1. l \in Seq(Region)
  BY DEF Good
<1>2. p \in Nat /\ l[i].size \in Nat /\ End(l[i]) = p + l[i].size
  BY <1>1, RegionFields
<1>3. ASSUME NEW a \in Words(p, n) PROVE a \in lo..HeapSize - 1 /\ ~Taken(blocks, a)
  <2>1. a \in Nat /\ Has(l[i], a)
    BY <1>2, <1>3 DEF Words, Has
  <2>2. Holds(l, a)
    BY <2>1 DEF Holds
  <2>3. QED
    BY <2>1, <2>2 DEF Good
<1>4. p \in Words(p, n)
  BY <1>2 DEF Words
<1>5. p \notin DOMAIN blocks
  <2>1. ~Taken(blocks, p)
    BY <1>3, <1>4
  <2>2. QED
    BY <2>1, BlockWords DEF Taken
<1>6. QED
  BY <1>2, <1>3, <1>5

(* malloc keeps the tables good.                                           *)
LEMMA MallocGood ==
  ASSUME NEW l, NEW blocks, NEW table, NEW lo \in Nat, Good(l, blocks, table, lo),
         NEW i \in 1..Len(l), NEW n \in Nat, 0 < n, n <= l[i].size, NEW p, p = l[i].base,
         NEW m, m = Carve(l, i, n), NEW bs, bs = With(blocks, p, n), NEW ts, ts = With(table, p, n)
  PROVE  Good(m, bs, ts, lo)
<1>1. /\ p \in Nat /\ p \notin DOMAIN blocks
      /\ \A a \in Words(p, n) : a \in lo..HeapSize - 1 /\ ~Taken(blocks, a)
  BY NewBlock
<1>2. l \in Seq(Region) /\ Separated(l)
  BY DEF Good
<1>3. /\ m \in Seq(Region) /\ Separated(m)
      /\ \A a \in Nat : Holds(m, a) <=> Holds(l, a) /\ a \notin Words(p, n)
  BY <1>2, CarveTakes
<1>4. DOMAIN bs = DOMAIN blocks \cup {p} /\ bs[p] = n /\ \A b \in DOMAIN blocks : bs[b] = blocks[b]
  BY <1>1 DEF With
<1>5. DOMAIN ts = DOMAIN table \cup {p} /\ ts[p] = n /\ \A b \in DOMAIN table : b # p => ts[b] = table[b]
  BY DEF With
<1>6. \A a : Taken(bs, a) <=> Taken(blocks, a) \/ a \in Words(p, n)
  BY <1>4 DEF Taken
<1>7. \A a \in Nat : Holds(m, a) <=> a \in lo..HeapSize - 1 /\ ~Taken(bs, a)
  <2>1. \A a \in Nat : Holds(l, a) <=> a \in lo..HeapSize - 1 /\ ~Taken(blocks, a)
    BY DEF Good
  <2>2. QED
    BY <1>3, <1>6, <2>1
<1>8. \A b \in DOMAIN bs : b \in DOMAIN ts /\ ts[b] = bs[b]
  <2>1. \A b \in DOMAIN blocks : b \in DOMAIN table /\ table[b] = blocks[b]
    BY DEF Good
  <2>2. QED
    BY <1>1, <1>4, <1>5, <2>1
<1>9. \A b \in DOMAIN bs : \A a \in Words(b, bs[b]) : a \in lo..HeapSize - 1
  <2>1. \A b \in DOMAIN blocks : \A a \in Words(b, blocks[b]) : a \in lo..HeapSize - 1
    BY DEF Good
  <2>2. QED
    BY <1>1, <1>4, <2>1
<1>10. \A b, c \in DOMAIN bs : \A a : a \in Words(b, bs[b]) /\ a \in Words(c, bs[c]) => b = c
  <2>1. \A b, c \in DOMAIN blocks : \A a : a \in Words(b, blocks[b]) /\ a \in Words(c, blocks[c]) => b = c
    BY DEF Good
  <2>2. \A b \in DOMAIN blocks : \A a : ~(a \in Words(b, blocks[b]) /\ a \in Words(p, n))
    BY <1>1 DEF Taken
  <2>3. QED
    BY <1>4, <2>1, <2>2
<1>11. \A b \in DOMAIN ts : b \in 0..HeapSize /\ ts[b] \in 1..HeapSize
  <2>1. \A b \in DOMAIN table : b \in 0..HeapSize /\ table[b] \in 1..HeapSize
    BY DEF Good
  <2>2. p \in 0..HeapSize /\ n \in 1..HeapSize
    <3>1. p \in Words(p, n) /\ p + n - 1 \in Words(p, n)
      BY <1>1 DEF Words
    <3>2. p \in lo..HeapSize - 1 /\ p + n - 1 \in lo..HeapSize - 1
      BY <1>1, <3>1
    <3>3. QED
      BY <1>1, <3>2, IlvmProgramAssumption
  <2>3. QED
    BY <1>5, <2>1, <2>2
<1>12. QED
  BY <1>3, <1>7, <1>8, <1>9, <1>10, <1>11 DEF Good

(* free of a live block keeps the tables good.                             *)
LEMMA FreeGood ==
  ASSUME NEW l, NEW blocks, NEW table, NEW lo \in Nat, Good(l, blocks, table, lo),
         NEW p \in DOMAIN blocks,
         NEW m, m = Release(l, Reg(p, table[p])), NEW bs, bs = Without(blocks, p)
  PROVE  Good(m, bs, table, lo)
<1>1. p \in Nat /\ blocks[p] \in Nat /\ blocks[p] > 0 /\ table[p] = blocks[p]
  BY BlockWords
<1>2. PICK r : r = Reg(p, blocks[p])
  OBVIOUS
<1>3. r \in Region /\ r.size > 0 /\ \A a \in Nat : Has(r, a) <=> a \in Words(p, blocks[p])
  <2>1. r \in Region /\ r.base = p /\ r.size = blocks[p]
    BY <1>1, <1>2 DEF Reg, Region
  <2>2. QED
    BY <1>1, <2>1 DEF Has, Words, End
<1>4. l \in Seq(Region) /\ Separated(l) /\ m = Release(l, r)
  BY <1>1, <1>2 DEF Good
<1>5. \A a \in Nat : Holds(l, a) <=> a \in lo..HeapSize - 1 /\ ~Taken(blocks, a)
  BY DEF Good
<1>6. Fits(l, r)
  <2>1. \A a \in Nat : ~(Has(r, a) /\ Holds(l, a))
    BY <1>3, <1>5 DEF Taken
  <2>2. QED
    BY <1>3, <1>4, <2>1 DEF Fits
<1>7. m \in Seq(Region) /\ Separated(m) /\ \A a \in Nat : Holds(m, a) <=> Has(r, a) \/ Holds(l, a)
  BY <1>3, <1>4, <1>6, ReleaseAdds DEF Inserted
<1>8. DOMAIN bs = DOMAIN blocks \ {p} /\ \A b \in DOMAIN bs : bs[b] = blocks[b]
  BY DEF Without
<1>9. \A b \in DOMAIN blocks : \A a \in Words(b, blocks[b]) : a \in lo..HeapSize - 1
  BY DEF Good
<1>10. \A b, c \in DOMAIN blocks : \A a : a \in Words(b, blocks[b]) /\ a \in Words(c, blocks[c]) => b = c
  BY DEF Good
<1>11. \A a : Taken(bs, a) <=> Taken(blocks, a) /\ a \notin Words(p, blocks[p])
  <2>1. ASSUME NEW a, Taken(bs, a) PROVE Taken(blocks, a) /\ a \notin Words(p, blocks[p])
    BY <1>8, <1>10, <2>1 DEF Taken
  <2>2. ASSUME NEW a, Taken(blocks, a), a \notin Words(p, blocks[p]) PROVE Taken(bs, a)
    BY <1>8, <2>2 DEF Taken
  <2>3. QED
    BY <2>1, <2>2
<1>12. \A a \in Nat : Holds(m, a) <=> a \in lo..HeapSize - 1 /\ ~Taken(bs, a)
  BY <1>3, <1>5, <1>7, <1>9, <1>11
<1>13. \A b \in DOMAIN bs : b \in DOMAIN table /\ table[b] = bs[b]
  BY <1>8, BlockWords
<1>14. \A b \in DOMAIN bs : \A a \in Words(b, bs[b]) : a \in lo..HeapSize - 1
  BY <1>8, <1>9
<1>15. \A b, c \in DOMAIN bs : \A a : a \in Words(b, bs[b]) /\ a \in Words(c, bs[c]) => b = c
  BY <1>8, <1>10
<1>16. \A b \in DOMAIN table : b \in 0..HeapSize /\ table[b] \in 1..HeapSize
  BY DEF Good
<1>17. QED
  BY <1>7, <1>12, <1>13, <1>14, <1>15, <1>16 DEF Good

-----------------------------------------------------------------------------
(* Words.                                                                  *)

Half == 2^(WordBits - 1)

(* The range of a word.                                                    *)
LEMMA WordRange ==
  /\ WordBits \in Nat /\ WordBits >= 4 /\ Half \in Nat /\ Half >= 2
  /\ 2^WordBits = 2 * Half /\ Word = -Half..Half - 1
  /\ \A d \in 0..WordBits - 1 : 2^d \in Nat /\ 2^d > 0
<1>1. WordBits \in Nat /\ WordBits >= 4
  BY IlvmWordsAssumption
<1>2. /\ WordBits - 1 \in 0..WordBits /\ WordBits - 2 \in 0..WordBits /\ WordBits \in 0..WordBits
      /\ (WordBits - 1) - 1 = WordBits - 2
  BY <1>1
<1>3. Half \in Nat \ {0} /\ Half = 2 * 2^(WordBits - 2) /\ 2^(WordBits - 2) \in Nat \ {0}
  BY <1>1, <1>2, PowersOfTwo DEF Half
<1>4. 2^WordBits = 2 * Half
  BY <1>1, <1>2, PowersOfTwo DEF Half
<1>5. Half >= 2
  BY <1>3
<1>6. Word = -Half..Half - 1
  BY DEF Word, Half
<1>7. \A d \in 0..WordBits - 1 : d \in 0..WordBits
  BY <1>1
<1>8. \A d \in 0..WordBits - 1 : 2^d \in Nat /\ 2^d > 0
  BY <1>7, PowersOfTwo
<1>9. QED
  BY <1>1, <1>3, <1>4, <1>5, <1>6, <1>8

(* Wrapping an integer around gives a word.                                *)
LEMMA WrapIsWord ==
  ASSUME NEW n \in Int
  PROVE  Wrap(n) \in Word
<1>1. PICK h, p, k : h = Half /\ p = 2^WordBits /\ k = n + h
  OBVIOUS
<1>2. h \in Nat /\ p = 2 * h /\ p > 0 /\ p \in Nat /\ k \in Int
  BY <1>1, WordRange
<1>3. k % p \in 0..p - 1
  BY <1>2
<1>4. Wrap(n) = (k % p) - h
  BY <1>1 DEF Wrap, Half
<1>5. Wrap(n) \in -h..h - 1
  BY <1>2, <1>3, <1>4
<1>6. QED
  BY <1>1, <1>5, WordRange

(* A word read as unsigned is not negative.                                *)
LEMMA UnsignedIsNat ==
  ASSUME NEW n \in Int
  PROVE  Unsigned(n) \in Nat
<1>1. PICK p : p = 2^WordBits
  OBVIOUS
<1>2. p \in Nat /\ p > 0
  BY <1>1, WordRange
<1>3. n % p \in 0..p - 1
  BY <1>2
<1>4. QED
  BY <1>1, <1>2, <1>3 DEF Unsigned

(* What the bits of a word are worth.                                      *)
Power == [i \in 0..WordBits - 1 |-> 2^i]

(* The word of some bits is their sum.                                     *)
LEMMA BitsAddUp ==
  ASSUME NEW S \in SUBSET (0..WordBits - 1)
  PROVE  FromBits(S) = Wrap(SumOver(Power, S)) /\ SumOver(Power, S) \in Nat /\ IsFiniteSet(S)
<1> DEFINE Step(g) == [s \in SUBSET S |-> IF s = {} THEN 0 ELSE 2^Pick(s) + g[s \ {Pick(s)}]]
           h == CHOOSE g : g = Step(g)
<1>1. MapThenSumSet(LAMBDA i : 2^i, S) = h[S]
  BY DEF MapThenSumSet, MapThenFoldSet, Pick
<1>2. IsFiniteSet(S)
  <2>1. PICK w : w = WordBits - 1
    OBVIOUS
  <2>2. w \in Int
    BY <2>1, WordRange
  <2>3. IsFiniteSet(0..w)
    BY <2>2, FS_Interval
  <2>4. QED
    BY <2>1, <2>3, FS_Subset
<1>3. \A s \in SUBSET S : s # {} => Power[Pick(s)] = 2^Pick(s)
  BY DEF Pick, Power
<1>4. \A x \in S : Power[x] \in Nat
  BY WordRange DEF Power
<1>5. \A g : Step(g) = SumStep(Power, S, g)
  BY <1>3 DEF SumStep
<1> HIDE DEF Step
<1>6. \E g : g = Step(g)
  BY <1>2, <1>5, SumExists
<1>7. h = Step(h)
  BY <1>6
<1> HIDE DEF h
<1>8. h = SumStep(Power, S, h)
  BY <1>5, <1>7
<1>9. SumOver(Power, S) = h[S] /\ SumOver(Power, S) \in Nat
  BY <1>2, <1>4, <1>8, SumIs, SumNat
<1>10. FromBits(S) = Wrap(h[S])
  BY <1>1 DEF FromBits
<1>11. QED
  BY <1>2, <1>9, <1>10

(* It is a word.                                                           *)
LEMMA FromBitsIsWord ==
  ASSUME NEW S \in SUBSET (0..WordBits - 1)
  PROVE  FromBits(S) \in Word
<1>1. PICK k : k = SumOver(Power, S)
  OBVIOUS
<1>2. FromBits(S) = Wrap(k) /\ k \in Int
  BY <1>1, BitsAddUp
<1>3. QED
  BY <1>2, WrapIsWord

(* Quotients of integers.                                                  *)
LEMMA Quotient ==
  ASSUME NEW m \in Nat, NEW n \in Nat, n > 0
  PROVE  /\ m \div n \in Nat /\ m \div n <= m
         /\ n >= 2 => 2 * (m \div n) <= m
         /\ n * (m \div n) <= m
<1>1. PICK q : q = m \div n
  OBVIOUS
<1>2. m \div n \in Int /\ m % n \in 0..n - 1 /\ m = n * (m \div n) + (m % n)
  <2>1. m \div n \in Int /\ m % n \in 0..n - 1
    OBVIOUS
  <2>2. m = n * (m \div n) + (m % n)
    BY Z3
  <2>3. QED
    BY <2>1, <2>2
<1>3. q \in Int /\ q >= 0
  <2>1. ASSUME q <= -1 PROVE FALSE
    <3>1. n * q <= n * (-1)
      BY <1>1, <1>2, <2>1
    <3>2. n * q = m - (m % n) /\ m % n <= n - 1
      BY <1>1, <1>2
    <3>3. QED
      BY <3>1, <3>2, <1>2
  <2>2. QED
    BY <1>1, <1>2, <2>1
<1>4. n * q <= m
  BY <1>1, <1>2, <1>3
<1>5. q <= n * q /\ (n >= 2 => 2 * q <= n * q)
  <2>1. q <= n * q
    BY <1>3
  <2>2. ASSUME n >= 2 PROVE 2 * q <= n * q
    BY <1>3, <2>2
  <2>3. QED
    BY <2>1, <2>2
<1>6. n * q \in Int
  BY <1>3
<1>7. QED
  BY <1>1, <1>2, <1>3, <1>4, <1>5, <1>6

(* The absolute value.                                                     *)
LEMMA AbsOf ==
  ASSUME NEW n \in Int
  PROVE  Abs(n) \in Nat /\ (n < 0 => Abs(n) = -n) /\ (n >= 0 => Abs(n) = n) /\ (n # 0 => Abs(n) > 0)
  BY DEF Abs

(* Division that does not trap.                                            *)
LEMMA DivIsWord ==
  ASSUME NEW m \in Word, NEW n \in Word, n # 0, ~(m = -Half /\ n = -1)
  PROVE  TruncDiv(m, n) \in Word
<1>1. PICK h : h = Half
  OBVIOUS
<1>2. h \in Nat /\ h >= 2 /\ m \in -h..h - 1 /\ n \in -h..h - 1 /\ m \in Int /\ n \in Int
  BY <1>1, WordRange
<1>3. PICK a, b, q : a = Abs(m) /\ b = Abs(n) /\ q = a \div b
  OBVIOUS
<1>4. /\ a \in Nat /\ b \in Nat /\ b > 0 /\ a <= h /\ (a = h => m = -h)
      /\ (b = 1 => n = 1 \/ n = -1)
  BY <1>2, <1>3, AbsOf
<1>5. q \in Nat /\ q <= a /\ (b >= 2 => 2 * q <= a)
  BY <1>3, <1>4, Quotient
<1>6. TruncDiv(m, n) = IF (m < 0) = (n < 0) THEN q ELSE -q
  BY <1>3 DEF TruncDiv
<1>7. CASE (m < 0) = (n < 0)
  <2>1. q <= h - 1
    <3>1. CASE b >= 2
      BY <1>2, <1>4, <1>5, <3>1
    <3>2. CASE b = 1
      <4>1. a # h
        BY <1>1, <1>2, <1>4, <1>7, <3>2
      <4>2. QED
        BY <1>2, <1>4, <1>5, <4>1
    <3>3. QED
      BY <1>4, <3>1, <3>2
  <2>2. q \in -h..h - 1
    BY <1>2, <1>5, <2>1
  <2>3. QED
    BY <1>1, <1>6, <1>7, <2>2, WordRange
<1>8. CASE (m < 0) # (n < 0)
  <2>1. -q \in -h..h - 1
    BY <1>2, <1>4, <1>5
  <2>2. TruncDiv(m, n) = -q
    BY <1>6, <1>8
  <2>3. QED
    BY <1>1, <2>1, <2>2, WordRange
<1>9. QED
  BY <1>7, <1>8

(* The remainder lies between zero and the dividend.                       *)
LEMMA ModIsWord ==
  ASSUME NEW m \in Word, NEW n \in Word, n # 0
  PROVE  TruncMod(m, n) \in Word
<1>1. PICK h : h = Half
  OBVIOUS
<1>2. h \in Nat /\ h >= 2 /\ m \in -h..h - 1 /\ n \in -h..h - 1 /\ m \in Int /\ n \in Int
  BY <1>1, WordRange
<1>3. PICK a, b, q : a = Abs(m) /\ b = Abs(n) /\ q = a \div b
  OBVIOUS
<1>4. a \in Nat /\ b \in Nat /\ b > 0
  BY <1>2, <1>3, AbsOf
<1>5. q \in Nat /\ b * q <= a /\ b * q \in Nat
  BY <1>3, <1>4, Quotient
<1>6. PICK t : t = TruncDiv(m, n)
  OBVIOUS
<1>7. t = IF (m < 0) = (n < 0) THEN q ELSE -q
  BY <1>3, <1>6 DEF TruncDiv
<1>8. n * t = IF m < 0 THEN -(b * q) ELSE b * q
  <2>1. CASE m < 0 /\ n < 0
    <3>1. n = -b /\ t = q
      BY <1>2, <1>3, <1>7, <2>1, AbsOf
    <3>2. QED
      BY <1>4, <1>5, <2>1, <3>1
  <2>2. CASE m < 0 /\ ~(n < 0)
    <3>1. n = b /\ t = -q
      BY <1>2, <1>3, <1>7, <2>2, AbsOf
    <3>2. QED
      BY <1>4, <1>5, <2>2, <3>1
  <2>3. CASE ~(m < 0) /\ n < 0
    <3>1. n = -b /\ t = -q
      BY <1>2, <1>3, <1>7, <2>3, AbsOf
    <3>2. QED
      BY <1>4, <1>5, <2>3, <3>1
  <2>4. CASE ~(m < 0) /\ ~(n < 0)
    <3>1. n = b /\ t = q
      BY <1>2, <1>3, <1>7, <2>4, AbsOf
    <3>2. QED
      BY <1>4, <1>5, <2>4, <3>1
  <2>5. QED
    BY <2>1, <2>2, <2>3, <2>4
<1>9. PICK w : w = n * t
  OBVIOUS
<1>10. TruncMod(m, n) = m - w
  BY <1>6, <1>9 DEF TruncMod
<1>11. PICK v : v = b * q
  OBVIOUS
<1>12. v \in Nat /\ v <= a /\ w = IF m < 0 THEN -v ELSE v
  BY <1>5, <1>8, <1>9, <1>11
<1>13. a = IF m < 0 THEN -m ELSE m
  BY <1>2, <1>3, AbsOf
<1>14. m - w \in -h..h - 1
  BY <1>2, <1>12, <1>13
<1>15. QED
  BY <1>1, <1>10, <1>14, WordRange

(* Shifting a word right.                                                  *)
LEMMA ShiftIsWord ==
  ASSUME NEW m \in Word, NEW p \in Nat, p > 0
  PROVE  m \div p \in Word
<1>1. PICK h : h = Half
  OBVIOUS
<1>2. h \in Nat /\ m \in -h..h - 1 /\ m \in Int
  BY <1>1, WordRange
<1>3. m \div p \in -h..h - 1
  <2>1. PICK q, t : q = m \div p /\ t = m % p
    OBVIOUS
  <2>2. q \in Int /\ t \in 0..p - 1
    BY <1>2, <2>1
  <2>3. m \div p \in Int /\ m % p \in Int
    BY <1>2
  <2>4. m = p * (m \div p) + (m % p)
    BY <1>2, Z3
  <2>5. m = p * q + t
    BY <2>1, <2>4
  <2>6. CASE m >= 0
    <3>1. m \in Nat
      BY <1>2, <2>6
    <3>2. q \in Nat /\ q <= m
      BY <2>1, <3>1, Quotient
    <3>3. QED
      BY <1>2, <2>1, <3>2
  <2>7. CASE m < 0
    <3>1. ASSUME q >= 0 PROVE FALSE
      <4>1. p * q >= 0
        BY <2>2, <3>1
      <4>2. QED
        BY <1>2, <2>2, <2>5, <2>7, <4>1
    <3>2. ASSUME q < m PROVE FALSE
      <4>1. PICK k : k = m - q
        OBVIOUS
      <4>2. k \in Nat /\ k > 0 /\ q = m - k
        BY <1>2, <2>2, <3>2, <4>1
      <4>3. p * q = p * m - p * k
        BY <1>2, <4>2
      <4>4. p * k >= p
        BY <4>2
      <4>5. p * m <= m
        BY <1>2, <2>7
      <4>6. p * m \in Int /\ p * k \in Int
        BY <1>2, <4>2
      <4>7. QED
        BY <1>2, <2>2, <2>5, <4>3, <4>4, <4>5, <4>6
    <3>3. QED
      BY <1>2, <2>1, <2>2, <2>7, <3>1, <3>2
  <2>8. QED
    BY <1>2, <2>6, <2>7
<1>4. QED
  BY <1>1, <1>3, WordRange

(* Every operation on words that does not trap gives a word.               *)
LEMMA PlainIsWord ==
  ASSUME NEW op \in Op2 \ {"Div", "Mod"}, NEW m \in Word, NEW n \in Word, NEW d \in 0..WordBits - 1
  PROVE  PlainOp2(op, m, n, d) \in Word
<1>1. m \in Int /\ n \in Int /\ 0 \in Word /\ 1 \in Word
  BY WordRange
<1>2. PICK p : p = 2^d
  OBVIOUS
<1>3. p \in Nat /\ p > 0
  BY <1>2, WordRange
<1>4. CASE op = "Add"
  BY <1>1, <1>4, WrapIsWord DEF PlainOp2
<1>5. CASE op = "Sub"
  BY <1>1, <1>5, WrapIsWord DEF PlainOp2
<1>6. CASE op = "Mul"
  <2>1. PICK k : k = m * n
    OBVIOUS
  <2>2. k \in Int
    BY <1>1, <2>1
  <2>3. QED
    BY <1>6, <2>1, <2>2, WrapIsWord DEF PlainOp2
<1>7. CASE op = "BitAnd"
  <2>1. Bits(m) \cap Bits(n) \in SUBSET (0..WordBits - 1)
    BY DEF Bits
  <2>2. QED
    BY <1>7, <2>1, FromBitsIsWord DEF PlainOp2
<1>8. CASE op = "BitOr"
  <2>1. Bits(m) \cup Bits(n) \in SUBSET (0..WordBits - 1)
    BY DEF Bits
  <2>2. QED
    BY <1>8, <2>1, FromBitsIsWord DEF PlainOp2
<1>9. CASE op = "BitXor"
  <2>1. SymDiff(Bits(m), Bits(n)) \in SUBSET (0..WordBits - 1)
    BY DEF Bits, SymDiff
  <2>2. QED
    BY <1>9, <2>1, FromBitsIsWord DEF PlainOp2
<1>10. CASE op = "Shl"
  <2>1. PICK k : k = m * p
    OBVIOUS
  <2>2. k \in Int
    BY <1>1, <1>3, <2>1
  <2>3. PlainOp2(op, m, n, d) = Wrap(k)
    BY <1>2, <1>10, <2>1 DEF PlainOp2
  <2>4. QED
    BY <2>2, <2>3, WrapIsWord
<1>11. CASE op = "Shr"
  <2>1. PlainOp2(op, m, n, d) = m \div p
    BY <1>2, <1>11 DEF PlainOp2
  <2>2. QED
    BY <1>3, <2>1, ShiftIsWord
<1>12. CASE op = "UShr"
  <2>1. PICK u, k : u = Unsigned(m) /\ k = u \div p
    OBVIOUS
  <2>2. u \in Nat
    BY <1>1, <2>1, UnsignedIsNat
  <2>3. k \in Int
    BY <1>3, <2>1, <2>2, Quotient
  <2>4. PlainOp2(op, m, n, d) = Wrap(k)
    BY <1>2, <1>12, <2>1 DEF PlainOp2
  <2>5. QED
    BY <2>3, <2>4, WrapIsWord
<1>13. CASE op = "LT"
  BY <1>1, <1>13 DEF PlainOp2, Bool
<1>14. CASE op = "Eq"
  BY <1>1, <1>14 DEF PlainOp2, Bool
<1>15. QED
  BY <1>4, <1>5, <1>6, <1>7, <1>8, <1>9, <1>10, <1>11, <1>12, <1>13, <1>14 DEF Op2

(* Every binary operation of the Rust interpreter gives a word.            *)
LEMMA Op2IsWord ==
  ASSUME NEW op \in Op2, NEW m \in Word, NEW n \in Word, ~RustTraps(op, m, n)
  PROVE  RustOp2(op, m, n) \in Word
<1>1. CASE op = "Div"
  BY <1>1, DivIsWord DEF RustTraps, RustOp2, Half
<1>2. CASE op = "Mod"
  BY <1>2, ModIsWord DEF RustTraps, RustOp2
<1>3. CASE op \notin {"Div", "Mod"}
  <2>1. PICK w, d : w = WordBits /\ d = n % w
    OBVIOUS
  <2>2. w \in Nat /\ w > 0 /\ n \in Int
    BY <2>1, WordRange
  <2>3. d \in 0..w - 1
    BY <2>1, <2>2
  <2>4. RustOp2(op, m, n) = PlainOp2(op, m, n, d)
    BY <1>3, <2>1 DEF RustOp2
  <2>5. QED
    BY <1>3, <2>1, <2>3, <2>4, PlainIsWord
<1>4. QED
  BY <1>1, <1>2, <1>3

(* So does the complement of the bits.                                     *)
LEMMA NotIsWord ==
  ASSUME NEW n
  PROVE  BitNot(n) \in Word
  BY FromBitsIsWord DEF BitNot

-----------------------------------------------------------------------------
(* The arguments in the heap.                                              *)

(* The words the strings of some arguments occupy.                         *)
LEMMA StringWordsNat ==
  ASSUME NEW s \in Seq(ASCII)
  PROVE  StringWords(s) \in Nat
<1>1. PICK k : k = Len(s) + 4
  OBVIOUS
<1>2. k \in Nat
  BY <1>1
<1>3. k \div 4 \in Nat
  BY <1>2, Quotient
<1>4. QED
  BY <1>1, <1>3 DEF StringWords

(* A list of strings.                                                      *)
LEMMA Strings ==
  ASSUME NEW as \in Seq(Seq(ASCII))
  PROVE  Len(as) \in Nat /\ \A j \in 1..Len(as) : as[j] \in Seq(ASCII)
  BY LenProperties, ElementOfSeq

Lengths(as) == [j \in 1..Len(as) |-> StringWords(as[j])]

(* An address is the sum of the lengths before it.                         *)
LEMMA AddressIsSum ==
  ASSUME NEW as \in Seq(Seq(ASCII)), NEW i \in 1..Len(as) + 1
  PROVE  /\ ArgAddress(as, i) = 2 + Len(as) + SumOver(Lengths(as), 1..i - 1)
         /\ IsFiniteSet(1..i - 1) /\ \A j \in 1..i - 1 : Lengths(as)[j] \in Nat
<1>1. PICK S, c : S = 1..i - 1 /\ c = Len(as)
  OBVIOUS
<1> DEFINE f == Lengths(as)
           Step(g) == [s \in SUBSET S |-> IF s = {} THEN 0 ELSE StringWords(as[Pick(s)]) + g[s \ {Pick(s)}]]
           h == CHOOSE g : g = Step(g)
<1>2. ArgAddress(as, i) = 2 + Len(as) + h[S]
  BY <1>1 DEF ArgAddress, MapThenSumSet, MapThenFoldSet, Pick
<1>3. IsFiniteSet(S) /\ S \subseteq 1..Len(as)
  <2>1. PICK w : w = i - 1
    OBVIOUS
  <2>2. c \in Nat /\ i \in 1..c + 1
    BY <1>1, Strings
  <2>3. w \in Int /\ w <= c
    BY <2>1, <2>2
  <2>4. IsFiniteSet(1..w) /\ 1..w \subseteq 1..c
    BY <2>2, <2>3, FS_Interval
  <2>5. QED
    BY <1>1, <2>1, <2>4
<1>4. \A j \in S : f[j] = StringWords(as[j]) /\ as[j] \in Seq(ASCII)
  BY <1>3, Strings DEF Lengths
<1>5. \A s \in SUBSET S : s # {} => Pick(s) \in S
  BY DEF Pick
<1>6. \A j \in S : f[j] \in Nat
  BY <1>4, StringWordsNat
<1> HIDE DEF f
<1>7. \A s \in SUBSET S : s # {} => f[Pick(s)] = StringWords(as[Pick(s)])
  BY <1>4, <1>5
<1>8. \A g : Step(g) = SumStep(f, S, g)
  BY <1>7 DEF SumStep
<1> HIDE DEF Step
<1>9. \E g : g = Step(g)
  BY <1>3, <1>8, SumExists
<1>10. h = Step(h)
  BY <1>9
<1> HIDE DEF h
<1>11. h = SumStep(f, S, h)
  BY <1>8, <1>10
<1>12. h[S] = SumOver(f, S)
  BY <1>3, <1>11, SumIs
<1>13. QED
  BY <1>1, <1>2, <1>3, <1>6, <1>12 DEF f

(* Addresses of arguments are numbers, and below the first free word.      *)
LEMMA Addresses ==
  ASSUME NEW as \in Seq(Seq(ASCII)), NEW i \in 1..Len(as) + 1
  PROVE  /\ ArgAddress(as, i) \in Nat /\ 2 + Len(as) <= ArgAddress(as, i)
         /\ ArgAddress(as, i) <= HeapStart(as)
<1>1. PICK k, f, S, T : k = Len(as) + 1 /\ f = Lengths(as) /\ S = 1..i - 1 /\ T = 1..k - 1
  OBVIOUS
<1>2. k \in 1..Len(as) + 1 /\ Len(as) \in Nat /\ S \subseteq T
  <2>1. PICK c : c = Len(as)
    OBVIOUS
  <2>2. c \in Nat /\ i \in 1..c + 1
    BY <2>1, Strings
  <2>3. c + 1 \in 1..c + 1 /\ 1..i - 1 \subseteq 1..(c + 1) - 1
    BY <2>2
  <2>4. QED
    BY <1>1, <2>1, <2>2, <2>3
<1>3. /\ ArgAddress(as, i) = 2 + Len(as) + SumOver(f, S)
      /\ ArgAddress(as, k) = 2 + Len(as) + SumOver(f, T)
      /\ IsFiniteSet(S) /\ IsFiniteSet(T) /\ \A j \in T : f[j] \in Nat
  BY <1>1, <1>2, AddressIsSum
<1>4. SumOver(f, S) \in Nat /\ SumOver(f, T) \in Nat
  BY <1>2, <1>3, SumNat
<1>5. SumOver(f, S) <= SumOver(f, T)
  <2>1. S \in SUBSET T
    BY <1>2
  <2>2. SumOver(f, T) = SumOver(f, S) + SumOver(f, T \ S)
    BY <1>3, <2>1, SumSplit
  <2>3. IsFiniteSet(T \ S)
    BY <1>3, FS_Subset
  <2>4. SumOver(f, T \ S) \in Nat
    BY <1>3, <2>3, SumNat
  <2>5. QED
    BY <1>4, <2>2, <2>4
<1>6. HeapStart(as) = ArgAddress(as, k)
  BY <1>1 DEF HeapStart
<1>7. PICK a, b, c, s, t : /\ a = ArgAddress(as, i) /\ b = ArgAddress(as, k) /\ c = Len(as)
                           /\ s = SumOver(f, S) /\ t = SumOver(f, T)
  OBVIOUS
<1>8. c \in Nat /\ s \in Nat /\ t \in Nat /\ s <= t /\ a = 2 + c + s /\ b = 2 + c + t
  BY <1>2, <1>3, <1>4, <1>5, <1>7
<1>9. a \in Nat /\ 2 + c <= a /\ a <= b
  BY <1>8
<1>10. QED
  BY <1>6, <1>7, <1>9

(* The first free word lies behind the addresses.                          *)
LEMMA StartNat ==
  ASSUME NEW as \in Arguments
  PROVE  HeapStart(as) \in Nat /\ HeapStart(as) >= 2 + Len(as) /\ Len(as) \in Nat
<1>1. as \in Seq(Seq(ASCII))
  BY IlvmProgramAssumption
<1>2. Len(as) \in Nat /\ Len(as) + 1 \in 1..Len(as) + 1
  <2>1. PICK c : c = Len(as)
    OBVIOUS
  <2>2. c \in Nat
    BY <1>1, <2>1, Strings
  <2>3. c + 1 \in 1..c + 1
    BY <2>2
  <2>4. QED
    BY <2>1, <2>2, <2>3
<1>3. QED
  BY <1>1, <1>2, Addresses DEF HeapStart

(* Bytes are numbers.                                                      *)
LEMMA AsciiNat == ASCII \subseteq Nat
<1>1. PICK b : b = ByteBits - 1
  OBVIOUS
<1>2. b \in 0..WordBits
  BY <1>1, IlvmWordsAssumption
<1>3. 2^b \in Nat
  BY <1>2, PowersOfTwo
<1>4. QED
  BY <1>1, <1>3 DEF ASCII

(* The bytes of a string and the NUL behind it.                            *)
ByteAt(s, j) == IF j <= Len(s) THEN s[j] ELSE 0

(* A byte is ASCII.                                                        *)
LEMMA ByteIsAscii ==
  ASSUME NEW s \in Seq(ASCII), NEW j \in Nat, j >= 1
  PROVE  ByteAt(s, j) \in ASCII /\ ByteAt(s, j) \in Nat
<1>1. Len(s) \in Nat /\ \A e \in 1..Len(s) : s[e] \in ASCII
  BY LenProperties, ElementOfSeq
<1>2. CASE j <= Len(s)
  <2>1. j \in 1..Len(s)
    BY <1>1, <1>2
  <2>2. s[j] \in ASCII
    BY <1>1, <2>1
  <2>3. QED
    BY <1>2, <2>2, AsciiNat DEF ByteAt
<1>3. CASE ~(j <= Len(s))
  <2>1. 0 \in ASCII
    <3>1. PICK b : b = ByteBits - 1
      OBVIOUS
    <3>2. b \in 0..WordBits
      BY <3>1, IlvmWordsAssumption
    <3>3. 2^b \in Nat \ {0}
      BY <3>2, PowersOfTwo
    <3>4. QED
      BY <3>1, <3>3 DEF ASCII
  <2>2. QED
    BY <1>3, <2>1 DEF ByteAt
<1>4. QED
  BY <1>2, <1>3

(* What the bytes of a packed word are worth.                              *)
Packed(s, i) == [k \in 0..3 |-> ByteAt(s, 4 * i + k + 1) * 2^(ByteBits * (3 - k))]

(* A word of a packed string is their sum.                                 *)
LEMMA PackedAddsUp ==
  ASSUME NEW s \in Seq(ASCII), NEW i \in Nat
  PROVE  /\ PackedWord(s, i) = Wrap(SumOver(Packed(s, i), 0..3))
         /\ IsFiniteSet(0..3) /\ \A k \in 0..3 : Packed(s, i)[k] \in Nat
<1> DEFINE Byte(j) == ByteAt(s, j)
           f == Packed(s, i)
           Step(g) == [t \in SUBSET (0..3) |->
                         IF t = {} THEN 0
                         ELSE Byte(4 * i + Pick(t) + 1) * 2^(ByteBits * (3 - Pick(t))) + g[t \ {Pick(t)}]]
           h == CHOOSE g : g = Step(g)
<1>1. PackedWord(s, i) = Wrap(h[0..3])
  BY DEF PackedWord, MapThenSumSet, MapThenFoldSet, Pick, ByteAt
<1>2. IsFiniteSet(0..3)
  <2>1. PICK z, t : z = 0 /\ t = 3
    OBVIOUS
  <2>2. z \in Int /\ t \in Int
    BY <2>1
  <2>3. QED
    BY <2>1, <2>2, FS_Interval
<1>3. \A t \in SUBSET (0..3) : t # {} => Pick(t) \in 0..3
  BY DEF Pick
<1>4. \A k \in 0..3 : f[k] \in Nat
  <2>1. ASSUME NEW j \in Nat, j >= 1 PROVE Byte(j) \in Nat
    BY <2>1, ByteIsAscii
  <2>2. ASSUME NEW k \in 0..3 PROVE 2^(ByteBits * (3 - k)) \in Nat
    <3>1. PICK b : b = ByteBits * (3 - k)
      OBVIOUS
    <3>2. k = 0 \/ k = 1 \/ k = 2 \/ k = 3
      OBVIOUS
    <3>3. b = 3 * ByteBits \/ b = 2 * ByteBits \/ b = ByteBits \/ b = 0
      BY <3>1, <3>2, IlvmWordsAssumption
    <3>4. b \in 0..WordBits
      BY <3>3, IlvmWordsAssumption
    <3>5. QED
      BY <3>1, <3>4, PowersOfTwo
  <2>3. ASSUME NEW k \in 0..3 PROVE f[k] \in Nat
    <3>1. PICK j, p : j = 4 * i + k + 1 /\ p = 2^(ByteBits * (3 - k))
      OBVIOUS
    <3>2. j \in Nat /\ j >= 1
      BY <3>1
    <3>3. p \in Nat
      BY <2>2, <3>1
    <3>4. f[k] = Byte(j) * p
      BY <3>1 DEF Packed
    <3> HIDE DEF Byte
    <3>5. PICK b : b = Byte(j)
      OBVIOUS
    <3>6. b \in Nat
      BY <2>1, <3>2, <3>5
    <3>7. b * p \in Nat
      BY <3>3, <3>6
    <3>8. QED
      BY <3>4, <3>5, <3>7
  <2> HIDE DEF f
  <2>4. QED
    BY <2>3
<1>5. \A k \in 0..3 : f[k] = Byte(4 * i + k + 1) * 2^(ByteBits * (3 - k))
  BY DEF Packed
<1> HIDE DEF f, Byte
<1>6. \A g : Step(g) = SumStep(f, 0..3, g)
  <2>1. \A t \in SUBSET (0..3) : t # {} =>
          f[Pick(t)] = Byte(4 * i + Pick(t) + 1) * 2^(ByteBits * (3 - Pick(t)))
    BY <1>3, <1>5
  <2>2. QED
    BY <2>1 DEF SumStep
<1> HIDE DEF Step
<1>7. \E g : g = Step(g)
  BY <1>2, <1>6, SumExists
<1>8. h = Step(h)
  BY <1>7
<1> HIDE DEF h
<1>9. h = SumStep(f, 0..3, h)
  BY <1>6, <1>8
<1>10. h[0..3] = SumOver(f, 0..3)
  BY <1>2, <1>9, SumIs
<1>11. QED
  BY <1>1, <1>2, <1>4, <1>10 DEF f

(* It is a word.                                                           *)
LEMMA PackedIsWord ==
  ASSUME NEW s \in Seq(ASCII), NEW i \in Nat
  PROVE  PackedWord(s, i) \in Word
<1>1. PICK n : n = SumOver(Packed(s, i), 0..3)
  OBVIOUS
<1>2. n \in Int
  <2>1. n \in Nat
    BY <1>1, PackedAddsUp, SumNat
  <2>2. QED
    BY <2>1
<1>3. PackedWord(s, i) = Wrap(n)
  BY <1>1, PackedAddsUp
<1>4. QED
  BY <1>2, <1>3, WrapIsWord

(* init_heap fills the heap with words.                                    *)
LEMMA InitHeapWords ==
  ASSUME NEW as \in Arguments, HeapStart(as) <= HeapSize
  PROVE  InitHeap(HeapSize, as) \in [0..HeapSize - 1 -> Word]
<1>1. as \in Seq(Seq(ASCII)) /\ HeapSize \in Nat /\ HeapSize < Half
  BY IlvmProgramAssumption DEF Half
<1>2. PICK c, s : c = Len(as) /\ s = HeapStart(as)
  OBVIOUS
<1>3. c \in Nat /\ s \in Nat /\ 2 + c <= s /\ s <= HeapSize
  BY <1>2, StartNat
<1>4. \A n \in Nat : n <= HeapSize => n \in Word
  BY <1>1, WordRange
<1>5. ASSUME NEW i \in 1..c + 1 PROVE ArgAddress(as, i) \in Nat /\ ArgAddress(as, i) <= HeapSize
  <2>1. /\ ArgAddress(as, i) \in Nat
        /\ ArgAddress(as, i) <= s
    BY <1>1, <1>2, Addresses
  <2>2. PICK a, z : a = ArgAddress(as, i) /\ z = HeapSize
    OBVIOUS
  <2>3. a \in Nat /\ a <= s /\ z \in Nat /\ s <= z
    BY <1>1, <1>3, <2>1, <2>2
  <2>4. a \in Nat /\ a <= z
    BY <1>3, <2>3
  <2>5. QED
    BY <2>2, <2>4
<1> DEFINE Value(a) ==
     IF a = 1 THEN Len(as)
     ELSE IF a \in 2..Len(as) + 1 THEN ArgAddress(as, a - 1)
     ELSE LET Owner == {i \in 1..Len(as) : a \in ArgAddress(as, i)..ArgAddress(as, i + 1) - 1}
          IN IF Owner = {} THEN 0
             ELSE LET i == CHOOSE i \in Owner : TRUE IN PackedWord(as[i], a - ArgAddress(as, i))
<1>6. ASSUME NEW a \in 0..HeapSize - 1 PROVE Value(a) \in Word
  <2> DEFINE Owner == {i \in 1..Len(as) : a \in ArgAddress(as, i)..ArgAddress(as, i + 1) - 1}
             o == CHOOSE i \in Owner : TRUE
  <2>1. CASE a = 1
    <3>1. Value(a) = c
      BY <1>2, <2>1
    <3> HIDE DEF Value
    <3>2. c \in Nat /\ c <= HeapSize
      BY <1>1, <1>3
    <3>3. QED
      BY <1>4, <3>1, <3>2
  <2>2. CASE a # 1 /\ a \in 2..c + 1
    <3>1. Value(a) = ArgAddress(as, a - 1)
      BY <1>2, <2>2
    <3>2. a - 1 \in 1..c + 1
      BY <1>3, <2>2
    <3> HIDE DEF Value
    <3>3. QED
      BY <1>4, <1>5, <3>1, <3>2
  <2>3. CASE a # 1 /\ a \notin 2..c + 1 /\ Owner = {}
    <3>1. Value(a) = 0
      BY <1>2, <2>3
    <3> HIDE DEF Value
    <3>2. 0 \in Nat /\ 0 <= HeapSize
      BY <1>1
    <3>3. QED
      BY <1>4, <3>1, <3>2
  <2>4. CASE a # 1 /\ a \notin 2..c + 1 /\ Owner # {}
    <3>1. Value(a) = PackedWord(as[o], a - ArgAddress(as, o))
      BY <1>2, <2>4
    <3>2. o \in Owner
      BY <2>4
    <3>3. o \in 1..c /\ a \in ArgAddress(as, o)..ArgAddress(as, o + 1) - 1
      BY <1>2, <3>2
    <3> HIDE DEF o, Owner, Value
    <3>4. as[o] \in Seq(ASCII)
      BY <1>1, <1>2, <3>3, Strings
    <3>5. o \in 1..c + 1 /\ o + 1 \in 1..c + 1
      BY <1>3, <3>3
    <3>6. PICK b, e : b = ArgAddress(as, o) /\ e = ArgAddress(as, o + 1)
      OBVIOUS
    <3>7. b \in Nat /\ e \in Nat
      BY <1>5, <3>5, <3>6
    <3>8. a - b \in Nat
      <4>1. a \in Int
        BY <1>1
      <4>2. a \in b..e - 1
        BY <3>3, <3>6
      <4>3. QED
        BY <3>7, <4>1, <4>2
    <3>9. QED
      BY <3>1, <3>4, <3>6, <3>8, PackedIsWord
  <2>5. QED
    BY <2>1, <2>2, <2>3, <2>4
<1>7. InitHeap(HeapSize, as) = [a \in 0..HeapSize - 1 |-> Value(a)]
  BY DEF InitHeap
<1> HIDE DEF Value
<1>8. QED
  BY <1>6, <1>7

-----------------------------------------------------------------------------
(* The inductive invariant.                                                *)

Ends == {"running", "no heap", "exit", "abort", "goto", "panic",
         "address", "text", "oom", "bad free"}

IlvmInv ==
  /\ args \in Arguments
  /\ registers \in [Registers -> Word]
  /\ halt \in Ends
  /\ halt = "no heap" => free_list = <<>> /\ alloc_blocks = Empty
  /\ halt # "no heap" =>
       /\ heap \in [0..HeapSize - 1 -> Word]
       /\ Good(free_list, live, alloc_blocks, Start)

(* What the arguments leave of the heap is free, and no block is live.     *)
LEMMA InitGood ==
  ASSUME NEW s \in Nat, s <= HeapSize,
         NEW l, l = IF s < HeapSize THEN <<Reg(s, HeapSize - s)>> ELSE <<>>
  PROVE  Good(l, Empty, Empty, s)
<1>1. DOMAIN Empty = {} /\ HeapSize \in Nat
  BY IlvmProgramAssumption DEF Empty
<1>2. PICK e : e = Empty
  OBVIOUS
<1>3. DOMAIN e = {} /\ \A a : ~Taken(e, a)
  BY <1>1, <1>2 DEF Taken
<1>4. l \in Seq(Region) /\ Separated(l) /\ \A a \in Nat : Holds(l, a) <=> a \in s..HeapSize - 1
  <2>1. CASE s < HeapSize
    <3>1. PICK r : r = Reg(s, HeapSize - s)
      OBVIOUS
    <3>2. PICK n : n = HeapSize - s
      OBVIOUS
    <3>3. n \in Nat /\ n > 0 /\ s + n = HeapSize
      BY <1>1, <2>1, <3>2
    <3>4. r \in Region /\ r.base = s /\ r.size = n
      BY <3>1, <3>2, <3>3 DEF Reg, Region
    <3>5. l = <<r>> /\ Len(l) = 1 /\ l[1] = r /\ l \in Seq(Region)
      BY <2>1, <3>1, <3>4
    <3>6. Separated(l)
      BY <3>3, <3>4, <3>5 DEF Separated
    <3>7. \A a \in Nat : Has(r, a) <=> a \in s..HeapSize - 1
      BY <1>1, <3>3, <3>4 DEF Has, End
    <3>8. \A a : Holds(l, a) <=> Has(r, a)
      BY <3>5 DEF Holds
    <3>9. QED
      BY <3>5, <3>6, <3>7, <3>8
  <2>2. CASE s = HeapSize
    <3>1. l \in Seq(Region) /\ Len(l) = 0
      BY <1>1, <2>2
    <3>2. Separated(l) /\ \A a : ~Holds(l, a)
      BY <3>1 DEF Separated, Holds
    <3>3. \A a \in Nat : a \notin s..HeapSize - 1
      BY <1>1, <2>2
    <3>4. QED
      BY <3>1, <3>2, <3>3
  <2>3. QED
    BY <1>1, <2>1, <2>2
<1>5. Good(l, e, e, s)
  BY <1>3, <1>4 DEF Good
<1>6. QED
  BY <1>2, <1>5

(* The invariant holds when the program starts.                            *)
LEMMA InitInv == Init => IlvmInv
<1> SUFFICES ASSUME Init PROVE IlvmInv
  OBVIOUS
<1>1. PICK s : s = HeapStart(args)
  OBVIOUS
<1>2. args \in Arguments /\ s \in Nat
  BY <1>1, StartNat DEF Init
<1>3. registers \in [Registers -> Word]
  <2>1. Wrap(s) \in Word /\ 0 \in Word
    BY <1>2, WrapIsWord, WordRange
  <2>2. registers = [r \in Registers |-> IF r = R0 THEN Wrap(s) ELSE 0]
    BY <1>1 DEF Init
  <2>3. QED
    BY <2>1, <2>2
<1>4. CASE s > HeapSize
  <2>1. ~(s < HeapSize) /\ HeapSize \in Nat
    BY <1>2, <1>4, IlvmProgramAssumption
  <2>2. halt = "no heap" /\ free_list = <<>> /\ alloc_blocks = Empty
    BY <1>1, <1>4, <2>1 DEF Init
  <2>3. QED
    BY <1>2, <1>3, <2>2 DEF IlvmInv, Ends
<1>5. CASE s <= HeapSize
  <2>1. HeapSize \in Nat /\ ~(s > HeapSize)
    BY <1>2, <1>5, IlvmProgramAssumption
  <2>2. halt = "running" /\ heap = InitHeap(HeapSize, args) /\ alloc_blocks = Empty /\ live = Empty
    BY <1>1, <2>1 DEF Init
  <2>3. free_list = IF s < HeapSize THEN <<Reg(s, HeapSize - s)>> ELSE <<>>
    BY <1>1 DEF Init
  <2>4. heap \in [0..HeapSize - 1 -> Word]
    BY <1>1, <1>2, <1>5, <2>2, InitHeapWords
  <2>5. Good(free_list, Empty, Empty, s)
    BY <1>2, <1>5, <2>3, InitGood
  <2>6. Good(free_list, live, alloc_blocks, Start)
    BY <1>1, <2>2, <2>5 DEF Start
  <2>7. QED
    BY <1>2, <1>3, <2>2, <2>4, <2>6 DEF IlvmInv, Ends
<1>6. QED
  BY <1>2, <1>4, <1>5, IlvmProgramAssumption

(* Operands are words.                                                     *)
LEMMA Operand ==
  ASSUME IlvmInv, NEW v \in Val
  PROVE  EvalVal(v) \in Word
  BY IlvmProgramAssumption DEF IlvmInv, EvalVal, Val

(* An operand taken as an address is not negative.                         *)
LEMMA Address ==
  ASSUME NEW n \in Word
  PROVE  Usize(n) \in Nat
<1>1. PICK u, k : u = UsizeMod /\ k = 2^WordBits
  OBVIOUS
<1>2. k \in Nat /\ k > 0 /\ n \in Int
  BY <1>1, WordRange
<1>3. u \in Nat /\ u > 0
  BY <1>1, <1>2, IlvmProgramAssumption
<1>4. n % u \in 0..u - 1
  BY <1>2, <1>3
<1>5. QED
  BY <1>1, <1>3, <1>4 DEF Usize

(* The allocator's part of the next state.                                 *)
LEMMA NextGood ==
  ASSUME IlvmInv, Running, args' = args, halt' \in Ends, halt' # "no heap",
         registers' \in [Registers -> Word], heap' \in [0..HeapSize - 1 -> Word],
         Good(free_list', live', alloc_blocks', Start)
  PROVE  IlvmInv'
<1>1. Start' = Start
  BY DEF Start
<1>2. Good(free_list', live', alloc_blocks', Start')
  BY <1>1
<1>3. args' \in Arguments
  BY DEF IlvmInv
<1>4. QED
  BY <1>2, <1>3 DEF IlvmInv

(* Instructions that leave the allocator alone.                            *)
LEMMA NoAllocInv ==
  ASSUME IlvmInv, Running, NoAlloc, halt' \in Ends, halt' # "no heap",
         registers' \in [Registers -> Word], heap' \in [0..HeapSize - 1 -> Word]
  PROVE  IlvmInv'
<1>1. Good(free_list, live, alloc_blocks, Start)
  BY DEF IlvmInv, Running
<1>2. Good(free_list', live', alloc_blocks', Start)
  BY <1>1 DEF NoAlloc
<1>3. QED
  BY <1>2, NextGood DEF NoAlloc

(* What the invariant says of a program that runs.                         *)
LEMMA RunningHeap ==
  ASSUME IlvmInv, Running
  PROVE  /\ heap \in [0..HeapSize - 1 -> Word] /\ registers \in [Registers -> Word]
         /\ halt \in Ends /\ halt # "no heap" /\ Good(free_list, live, alloc_blocks, Start)
         /\ args \in Arguments /\ Start \in Nat
  BY StartNat DEF IlvmInv, Running, Start

(* Instructions that assign a register only,                               *)
LEMMA AssignInv ==
  ASSUME IlvmInv, Running, NoAlloc, NEW r \in Registers, NEW n \in Word, Assign(r, n),
         UNCHANGED <<heap, halt, out>>
  PROVE  IlvmInv'
<1>1. registers' \in [Registers -> Word]
  BY RunningHeap DEF Assign
<1>2. QED
  BY <1>1, RunningHeap, NoAllocInv

(* and those that end the program with an error.                           *)
LEMMA FailInv ==
  ASSUME IlvmInv, Running, NoAlloc, NEW why \in Ends \ {"no heap"}, Fail(why)
  PROVE  IlvmInv'
  BY RunningHeap, NoAllocInv DEF Fail

-----------------------------------------------------------------------------
(* Every instruction keeps the invariant.                                  *)

LEMMA CopyInv ==
  ASSUME IlvmInv, NEW r \in Registers, NEW v \in Val, Copy(r, v)
  PROVE  IlvmInv'
<1>1. EvalVal(v) \in Word
  BY Operand
<1>2. QED
  BY <1>1, AssignInv DEF Copy

(* The complement of a word.                                               *)
LEMMA NotInv ==
  ASSUME IlvmInv, NEW r \in Registers, NEW v \in Val, Not(r, v)
  PROVE  IlvmInv'
<1>1. BitNot(EvalVal(v)) \in Word
  BY NotIsWord
<1>2. QED
  BY <1>1, AssignInv DEF Not

(* Arithmetic, with the quotients that panic.                              *)
LEMMA BinOpInv ==
  ASSUME IlvmInv, NEW r \in Registers, NEW op \in Ops, NEW v \in Val, NEW w \in Val, BinOp(r, op, v, w)
  PROVE  IlvmInv'
<1>1. EvalVal(v) \in Word /\ EvalVal(w) \in Word /\ op \in Op2
  BY Operand, IlvmProgramAssumption
<1>2. CASE RustTraps(op, EvalVal(v), EvalVal(w))
  BY <1>2, FailInv DEF BinOp, Ends
<1>3. CASE ~RustTraps(op, EvalVal(v), EvalVal(w))
  <2>1. RustOp2(op, EvalVal(v), EvalVal(w)) \in Word
    BY <1>1, <1>3, Op2IsWord
  <2>2. /\ Running /\ NoAlloc /\ Assign(r, RustOp2(op, EvalVal(v), EvalVal(w)))
        /\ UNCHANGED <<heap, halt, out>>
    BY <1>3 DEF BinOp
  <2>3. QED
    BY <2>1, <2>2, AssignInv
<1>4. QED
  BY <1>2, <1>3

(* Load, inside the heap or not.                                           *)
LEMMA LoadInv ==
  ASSUME IlvmInv, NEW r \in Registers, NEW v \in Val, Load(r, v)
  PROVE  IlvmInv'
<1>1. PICK p : p = Usize(EvalVal(v))
  OBVIOUS
<1>2. p \in Nat /\ Running /\ NoAlloc /\ HeapSize \in Nat
  BY <1>1, Operand, Address, IlvmProgramAssumption DEF Load
<1>3. CASE p >= HeapSize
  BY <1>1, <1>2, <1>3, FailInv DEF Load, Ends
<1>4. CASE p < HeapSize
  <2>1. heap[p] \in Word
    <3>1. p \in 0..HeapSize - 1
      BY <1>2, <1>4
    <3>2. QED
      BY <1>2, <3>1, RunningHeap
  <2>2. Assign(r, heap[p]) /\ UNCHANGED <<heap, halt, out>>
    BY <1>1, <1>2, <1>4 DEF Load
  <2>3. QED
    BY <1>2, <2>1, <2>2, AssignInv
<1>5. QED
  BY <1>2, <1>3, <1>4

(* Store, inside the heap or not.                                          *)
LEMMA StoreInv ==
  ASSUME IlvmInv, NEW r \in Registers, NEW v \in Val, Store(r, v)
  PROVE  IlvmInv'
<1>1. PICK p : p = Usize(registers[r])
  OBVIOUS
<1>2. Running /\ NoAlloc
  BY DEF Store
<1>3. CASE p >= HeapSize
  BY <1>1, <1>2, <1>3, FailInv DEF Store, Ends
<1>4. CASE ~(p >= HeapSize)
  <2>1. EvalVal(v) \in Word
    BY Operand
  <2>2. heap' = [heap EXCEPT ![p] = EvalVal(v)] /\ UNCHANGED <<registers, halt, out>>
    BY <1>1, <1>4 DEF Store
  <2>3. heap' \in [0..HeapSize - 1 -> Word]
    <3>1. PICK S, x : S = 0..HeapSize - 1 /\ x = EvalVal(v)
      OBVIOUS
    <3>2. heap \in [S -> Word] /\ x \in Word /\ heap' = [heap EXCEPT ![p] = x]
      BY <1>2, <2>1, <2>2, <3>1, RunningHeap
    <3>3. heap' \in [S -> Word]
      BY <3>2
    <3>4. QED
      BY <3>1, <3>3
  <2>4. QED
    BY <1>2, <2>2, <2>3, RunningHeap, NoAllocInv
<1>5. QED
  BY <1>3, <1>4

(* Instructions that print.                                                *)
LEMMA OutputInv ==
  ASSUME IlvmInv, Running, NoAlloc, UNCHANGED <<heap, registers, halt>>
  PROVE  IlvmInv'
  BY RunningHeap, NoAllocInv

(* print_str, of a text or of what is none.                                *)
LEMMA PrintStrInv ==
  ASSUME IlvmInv, NEW v \in Val, PrintStr(v)
  PROVE  IlvmInv'
<1>1. PICK t : t = TextAt(heap, Usize(EvalVal(v)))
  OBVIOUS
<1>2. t.err \in {"address", "none", "text"}
  <2>1. CASE Usize(EvalVal(v)) \notin DOMAIN heap
    BY <1>1, <2>1 DEF TextAt
  <2>2. CASE Usize(EvalVal(v)) \in DOMAIN heap
    BY <1>1, <2>2 DEF TextAt
  <2>3. QED
    BY <2>1, <2>2
<1>3. Running /\ NoAlloc
  BY DEF PrintStr
<1>4. CASE t.err # "none"
  <2>1. Fail(t.err)
    BY <1>1, <1>4 DEF PrintStr
  <2>2. t.err \in Ends \ {"no heap"}
    BY <1>2, <1>4 DEF Ends
  <2>3. QED
    BY <1>3, <2>1, <2>2, FailInv
<1>5. CASE t.err = "none"
  <2>1. UNCHANGED <<heap, registers, halt>>
    BY <1>1, <1>5 DEF PrintStr
  <2>2. QED
    BY <1>3, <2>1, OutputInv
<1>6. QED
  BY <1>4, <1>5

(* print of an array.                                                      *)
LEMMA PrintArrayInv ==
  ASSUME IlvmInv, NEW v \in Val, NEW w \in Val, PrintArray(v, w)
  PROVE  IlvmInv'
  BY OutputInv DEF PrintArray

(* A goto to a block that does not exist.                                  *)
LEMMA GotoInv ==
  ASSUME IlvmInv, NEW v \in Val, Goto(v)
  PROVE  IlvmInv'
  BY FailInv DEF Goto, Ends

(* exit.                                                                   *)
LEMMA ExitInv ==
  ASSUME IlvmInv, NEW v \in Val, Exit(v)
  PROVE  IlvmInv'
  BY RunningHeap, NoAllocInv DEF Exit, Ends

(* abort.                                                                  *)
LEMMA AbortInv ==
  ASSUME IlvmInv, Abort
  PROVE  IlvmInv'
  BY FailInv DEF Abort, Ends

(* The size of the heap is a word.                                         *)
LEMMA MemSizeInv ==
  ASSUME IlvmInv, NEW r \in Registers, MemSize(r)
  PROVE  IlvmInv'
<1>1. HeapSize \in Int
  BY IlvmProgramAssumption
<1>2. Wrap(HeapSize) \in Word
  BY <1>1, WrapIsWord
<1>3. QED
  BY <1>2, AssignInv DEF MemSize

(* A register that is assigned a word.                                     *)
LEMMA AssignWord ==
  ASSUME IlvmInv, Running, NEW r \in Registers, NEW n \in Word, Assign(r, n)
  PROVE  registers' \in [Registers -> Word]
  BY RunningHeap DEF Assign

(* malloc: of nothing, in vain, or of a block.                             *)
LEMMA MallocInv ==
  ASSUME IlvmInv, NEW r \in Registers, NEW v \in Val, Malloc(r, v)
  PROVE  IlvmInv'
<1>1. PICK n, i, p : /\ n = Usize(EvalVal(v)) /\ i = FirstFit(free_list, n) /\ p = free_list[i].base
  OBVIOUS
<1>2. n \in Nat /\ asked' = n /\ Running /\ args' = args
  BY <1>1, Operand, Address DEF Malloc
<1>3. free_list \in Seq(Region)
  BY <1>2, RunningHeap DEF Good
<1>4. CASE n = 0 /\ Assign(r, 0) /\ UNCHANGED <<heap, free_list, alloc_blocks, halt, live>>
  <2>1. registers' \in [Registers -> Word]
    <3>1. 0 \in Word
      BY WordRange
    <3>2. QED
      BY <1>2, <1>4, <3>1, AssignWord
  <2>2. Good(free_list', live', alloc_blocks', Start)
    BY <1>2, <1>4, RunningHeap
  <2>3. QED
    BY <1>2, <1>4, <2>1, <2>2, RunningHeap, NextGood
<1>5. CASE n > 0 /\ i = 0 /\ Fail("oom") /\ UNCHANGED live
  <2>1. Good(free_list', live', alloc_blocks', Start)
    BY <1>2, <1>5, RunningHeap DEF Fail
  <2>2. halt' = "oom" /\ UNCHANGED <<heap, registers>>
    BY <1>5 DEF Fail
  <2>3. QED
    BY <1>2, <2>1, <2>2, RunningHeap, NextGood DEF Ends
<1>6. CASE /\ n > 0 /\ i > 0
           /\ free_list' = Carve(free_list, i, n)
           /\ Assign(r, Wrap(p))
           /\ alloc_blocks' = [b \in DOMAIN alloc_blocks \cup {p} |-> IF b = p THEN n ELSE alloc_blocks[b]]
           /\ live' = [b \in DOMAIN live \cup {p} |-> IF b = p THEN n ELSE live[b]]
           /\ UNCHANGED <<heap, halt>>
  <2>1. i # 0
    BY <1>6
  <2>2. i \in 1..Len(free_list) /\ free_list[i].size >= n
    BY <1>1, <1>2, <1>3, <2>1, FirstFits
  <2>3. free_list[i].size \in Nat /\ p \in Nat
    BY <1>1, <1>3, <2>2, RegionFields
  <2>4. 0 < n /\ n <= free_list[i].size
    BY <1>2, <1>6, <2>2, <2>3
  <2>5. alloc_blocks' = With(alloc_blocks, p, n) /\ live' = With(live, p, n)
    BY <1>6 DEF With
  <2>6. Good(free_list', live', alloc_blocks', Start)
    <3>1. Good(free_list, live, alloc_blocks, Start) /\ Start \in Nat
      BY <1>2, RunningHeap
    <3>2. free_list' = Carve(free_list, i, n)
      BY <1>6
    <3>3. QED
      BY <1>1, <1>2, <2>2, <2>4, <2>5, <3>1, <3>2, MallocGood
  <2>7. registers' \in [Registers -> Word]
    <3>1. Wrap(p) \in Word
      BY <2>3, WrapIsWord
    <3>2. QED
      BY <1>2, <1>6, <3>1, AssignWord
  <2>8. QED
    BY <1>2, <1>6, <2>6, <2>7, RunningHeap, NextGood
<1>7. QED
  BY <1>1, <1>4, <1>5, <1>6 DEF Malloc

(* free of a live block, or of an address that never was one's.            *)
LEMMA FreeInv ==
  ASSUME IlvmInv, NEW r \in Registers, Free(r),
         Usize(registers[r]) \in DOMAIN alloc_blocks => Usize(registers[r]) \in DOMAIN live
  PROVE  IlvmInv'
<1>1. PICK p : p = Usize(registers[r])
  OBVIOUS
<1>2. Running /\ args' = args
  BY DEF Free
<1>3. CASE p \notin DOMAIN alloc_blocks
  <2>1. Fail("bad free") /\ UNCHANGED live
    BY <1>1, <1>3 DEF Free
  <2>2. Good(free_list', live', alloc_blocks', Start)
    BY <1>2, <2>1, RunningHeap DEF Fail
  <2>3. halt' = "bad free" /\ UNCHANGED <<heap, registers>>
    BY <2>1 DEF Fail
  <2>4. QED
    BY <1>2, <2>2, <2>3, RunningHeap, NextGood DEF Ends
<1>4. CASE p \in DOMAIN alloc_blocks
  <2>1. /\ free_list' = Release(free_list, Reg(p, alloc_blocks[p]))
        /\ live' = [b \in DOMAIN live \ {p} |-> live[b]]
        /\ UNCHANGED <<heap, registers, alloc_blocks, halt, out>>
    BY <1>1, <1>4 DEF Free
  <2>2. live' = Without(live, p) /\ p \in DOMAIN live
    BY <1>1, <1>4, <2>1 DEF Without
  <2>3. Good(free_list', live', alloc_blocks, Start)
    BY <1>2, <2>1, <2>2, RunningHeap, FreeGood
  <2>4. QED
    BY <1>2, <2>1, <2>3, RunningHeap, NextGood
<1>5. QED
  BY <1>3, <1>4

-----------------------------------------------------------------------------
(* The theorems.                                                           *)

(* A program that frees a block frees a live one: a rule of the program,   *)
(* or the case that IlvmPair is restricted to.                             *)
FreesLive(r) == Usize(registers[r]) \in DOMAIN alloc_blocks => Usize(registers[r]) \in DOMAIN live

(* The rule says so.                                                       *)
LEMMA RuledFree ==
  ASSUME IlvmInv, "free" \in Rules, NEW r \in Registers, Free(r)
  PROVE  FreesLive(r)
  BY DEF Free, FreesLive

(* Nothing happens.                                                        *)
LEMMA StutterInv == ASSUME IlvmInv, UNCHANGED vars PROVE IlvmInv'
<1>1. UNCHANGED <<args, registers, halt, free_list, alloc_blocks, heap, live>>
  BY DEF vars, machine
<1>2. Start' = Start
  BY <1>1 DEF Start
<1>3. CASE halt = "no heap"
  BY <1>1, <1>3 DEF IlvmInv
<1>4. CASE halt # "no heap"
  <2>1. Good(free_list, live, alloc_blocks, Start)
    BY <1>4 DEF IlvmInv
  <2>2. Good(free_list', live', alloc_blocks', Start')
    BY <1>1, <1>2, <2>1
  <2>3. QED
    BY <1>1, <1>4, <2>2 DEF IlvmInv
<1>5. QED
  BY <1>3, <1>4

(* One step of a program that obeys the rule,                              *)
LEMMA NextInv ==
  ASSUME IlvmInv, "free" \in Rules, [Next]_vars
  PROVE  IlvmInv'
<1>1. CASE Memory
  <2>1. PICK r \in Registers, v \in Val : Malloc(r, v) \/ Free(r) \/ Load(r, v) \/ Store(r, v) \/ MemSize(r)
    BY <1>1 DEF Memory
  <2>2. QED
    BY <2>1, MallocInv, FreeInv, RuledFree, LoadInv, StoreInv, MemSizeInv DEF FreesLive
<1>2. CASE Compute
  <2>1. PICK r \in Registers, v \in Val :
          Copy(r, v) \/ Not(r, v) \/ \E op \in Ops, w \in Val : BinOp(r, op, v, w)
    BY <1>2 DEF Compute
  <2>2. QED
    BY <2>1, CopyInv, NotInv, BinOpInv
<1>3. CASE Output
  BY <1>3, PrintStrInv, PrintArrayInv DEF Output
<1>4. CASE Leave
  BY <1>4, GotoInv, ExitInv, AbortInv DEF Leave
<1>5. CASE UNCHANGED vars
  BY <1>5, StutterInv
<1>6. QED
  BY <1>1, <1>2, <1>3, <1>4, <1>5 DEF Next

(* and one of the two interpreters side by side.                           *)
LEMMA PairNextInv ==
  ASSUME IlvmInv, [PairNext]_pairVars
  PROVE  IlvmInv'
<1>1. CASE PairMemory
  <2>1. PICK r \in Registers, v \in Val : Malloc(r, v) \/ PairFree(r) \/ Load(r, v) \/ Store(r, v) \/ MemSize(r)
    BY <1>1 DEF PairMemory
  <2>2. PairFree(r) => IlvmInv'
    BY FreeInv DEF PairFree
  <2>3. QED
    BY <2>1, <2>2, MallocInv, LoadInv, StoreInv, MemSizeInv
<1>2. CASE PairCompute
  <2>1. PICK r \in Registers, v \in Val :
          Copy(r, v) \/ Not(r, v) \/ \E op \in Ops, w \in Val : BinOp(r, op, v, w)
    BY <1>2 DEF PairCompute, PairBinOp
  <2>2. QED
    BY <2>1, CopyInv, NotInv, BinOpInv
<1>3. CASE PairOutput
  <2>1. PICK v \in Val : PrintStr(v) \/ \E w \in Val : PrintArray(v, w)
    BY <1>3 DEF PairOutput, PairArray
  <2>2. QED
    BY <2>1, PrintStrInv, PrintArrayInv
<1>4. CASE PairLeave
  <2>1. Abort \/ \E v \in Val : Goto(v) \/ Exit(v)
    BY <1>4 DEF PairLeave
  <2>2. QED
    BY <2>1, GotoInv, ExitInv, AbortInv
<1>5. CASE UNCHANGED pairVars
  BY <1>5, StutterInv DEF pairVars
<1>6. QED
  BY <1>1, <1>2, <1>3, <1>4, <1>5 DEF PairNext

(* The invariant holds in the Rust interpreter on a program that frees     *)
(* only live blocks (eval_rec),                                            *)
THEOREM IlvmInvariant ==
  ASSUME "free" \in Rules
  PROVE  Spec => []IlvmInv
<1>1. "free" \in Rules
  OBVIOUS
<1>2. Init => IlvmInv
  BY InitInv
<1>3. IlvmInv /\ [Next]_vars => IlvmInv'
  BY <1>1, NextInv
<1>4. QED
  BY <1>2, <1>3, PTL DEF Spec

(* and beside the OCaml interpreter, as far as the two are compared.       *)
THEOREM PairInvariant == PairSpec => []IlvmInv
<1>1. PairInit => IlvmInv
  BY InitInv DEF PairInit
<1>2. IlvmInv /\ [PairNext]_pairVars => IlvmInv'
  BY PairNextInv
<1>3. QED
  BY <1>1, <1>2, PTL DEF PairSpec

(* The invariant says that the state has its type.                         *)
LEMMA InvTypes == IlvmInv => TypeOK
<1> SUFFICES ASSUME IlvmInv PROVE TypeOK
  OBVIOUS
<1>1. CASE halt = "no heap"
  <2>1. free_list \in Seq(Region) /\ DOMAIN alloc_blocks = {}
    <3>1. free_list = <<>> /\ alloc_blocks = Empty
      BY <1>1 DEF IlvmInv
    <3>2. <<>> \in Seq(Region) /\ DOMAIN Empty = {}
      BY DEF Empty
    <3>3. QED
      BY <3>1, <3>2
  <2>2. QED
    BY <1>1, <2>1 DEF IlvmInv, TypeOK
<1>2. CASE halt # "no heap"
  <2>1. Good(free_list, live, alloc_blocks, Start)
    BY <1>2 DEF IlvmInv
  <2>2. QED
    BY <1>2, <2>1 DEF IlvmInv, TypeOK, Good, Ends
<1>3. QED
  BY <1>1, <1>2

(* The words of the live blocks are those that are taken.                  *)
LEMMA LiveIsTaken == \A a : a \in LiveWords <=> Taken(live, a)
  BY DEF LiveWords, Taken

(* The invariant says that the free list is the complement.                *)
LEMMA InvComplement == IlvmInv => FreeListIsComplement
<1>0. SUFFICES ASSUME IlvmInv, halt # "no heap" PROVE FreeListIsComplement
  BY DEF FreeListIsComplement
<1>1. Good(free_list, live, alloc_blocks, Start) /\ Start \in Nat /\ HeapSize \in Nat
  BY <1>0, StartNat, IlvmProgramAssumption DEF IlvmInv, Start
<1>2. PICK l, s : l = free_list /\ s = Start
  OBVIOUS
<1>3. l \in Seq(Region) /\ Separated(l) /\ DOMAIN l = 1..Len(l) /\ Len(l) \in Nat
  <2>1. l \in Seq(Region) /\ Separated(l)
    BY <1>1, <1>2 DEF Good
  <2>2. QED
    BY <2>1, LenProperties
<1>4. \A a \in Nat : Holds(l, a) <=> a \in s..HeapSize - 1 /\ a \notin LiveWords
  BY <1>1, <1>2, LiveIsTaken DEF Good
<1>5. \A a : (\E i \in DOMAIN l : a \in Words(l[i].base, l[i].size)) <=> a \in Nat /\ Holds(l, a)
  <2>1. ASSUME NEW a, NEW i \in 1..Len(l)
        PROVE  a \in Words(l[i].base, l[i].size) <=> a \in Nat /\ Has(l[i], a)
    <3>1. PICK r : r = l[i]
      OBVIOUS
    <3>2. r \in Region
      BY <1>3, <3>1
    <3>3. PICK b, n : b = r.base /\ n = r.size
      OBVIOUS
    <3>4. b \in Nat /\ n \in Nat /\ End(r) = b + n
      BY <3>2, <3>3, RegionFields
    <3>5. a \in b..b + n - 1 <=> a \in Nat /\ b <= a /\ a < b + n
      BY <3>4
    <3>6. QED
      BY <3>1, <3>3, <3>4, <3>5 DEF Words, Has
  <2>2. QED
    BY <1>3, <2>1 DEF Holds
<1>6. UNION {Words(l[i].base, l[i].size) : i \in DOMAIN l} = (s..HeapSize - 1) \ LiveWords
  <2>1. \A a \in s..HeapSize - 1 : a \in Nat
    <3>1. PICK e : e = HeapSize - 1
      OBVIOUS
    <3>2. s \in Nat /\ e \in Int
      BY <1>1, <1>2, <3>1
    <3>3. \A a \in s..e : a \in Nat
      BY <3>2
    <3>4. QED
      BY <3>1, <3>3
  <2>2. QED
    BY <1>4, <1>5, <2>1
<1>7. \A i \in DOMAIN l : l[i].size > 0 /\ (i > 1 => End(l[i - 1]) < l[i].base)
  <2>1. ASSUME NEW i \in DOMAIN l, i > 1 PROVE End(l[i - 1]) < l[i].base
    <3>1. PICK c : c = Len(l)
      OBVIOUS
    <3>2. c \in Nat /\ i \in 1..c
      BY <1>3, <2>1, <3>1
    <3>3. i - 1 \in 1..c /\ i - 1 < i
      BY <2>1, <3>2
    <3>4. QED
      BY <1>3, <3>1, <3>2, <3>3 DEF Separated
  <2>2. QED
    BY <1>3, <2>1 DEF Separated
<1>8. \A b \in DOMAIN live : b \in DOMAIN alloc_blocks /\ alloc_blocks[b] = live[b]
  BY <1>1 DEF Good
<1>9. QED
  BY <1>2, <1>6, <1>7, <1>8 DEF FreeListIsComplement

(* malloc and free: while a program frees only what is live, the free list *)
(* is exactly the complement of the live blocks, in maximal regions in the *)
(* order of their addresses.                                               *)
THEOREM FreeListComplement ==
  ASSUME "free" \in Rules
  PROVE  Spec => []FreeListIsComplement
  BY IlvmInvariant, InvComplement, PTL

(* So it is beside the OCaml interpreter.                                  *)
THEOREM PairFreeList == PairSpec => []FreeListIsComplement
  BY PairInvariant, InvComplement, PTL

(* Registers and heap hold words, whatever is computed, and blocks lie in  *)
(* the heap (eval_op1, eval_op2, init_heap, malloc).                       *)
THEOREM IlvmTypes ==
  ASSUME "free" \in Rules
  PROVE  Spec => []TypeOK
  BY IlvmInvariant, InvTypes, PTL

(* Registers and heap of the Rust interpreter hold words in the pair too.  *)
THEOREM PairTypes == PairSpec => []TypeOK
  BY PairInvariant, InvTypes, PTL

-----------------------------------------------------------------------------
(* malloc and free do what IlvmAlloc promises.                             *)

AllocStep == [Alloc!AllocNext]_(Alloc!allocVars)

(* A gap of IlvmAlloc, in terms of the tables.                             *)
LEMMA GapMeans ==
  ASSUME NEW b, NEW n
  PROVE  Alloc!Gap(b, n) <=> \A a \in Words(b, n) : a \in Start..HeapSize - 1 /\ ~Taken(live, a)
<1>1. Alloc!Words(b, n) = Words(b, n) /\ \A c, k : Alloc!Words(c, k) = Words(c, k)
  BY DEF Alloc!Words, Words
<1>2. \A a : a \in Alloc!Used <=> Taken(live, a)
  BY <1>1 DEF Alloc!Used, Taken
<1>3. QED
  BY <1>1, <1>2 DEF Alloc!Gap

(* The first free word depends on the arguments only.                      *)
LEMMA SameStart ==
  ASSUME args' = args
  PROVE  Start' = Start
  BY DEF Start

(* Steps that do not show,                                                 *)
LEMMA HiddenStep ==
  ASSUME UNCHANGED <<args, live, asked, halt>>
  PROVE  AllocStep
  BY SameStart DEF AllocStep, Alloc!allocVars

(* and other ends of the program.                                          *)
LEMMA StopStep ==
  ASSUME Running, UNCHANGED <<args, live, asked>>, halt' \notin {"oom", "bad free"}
  PROVE  AllocStep
<1>1. Alloc!Stop
  BY SameStart DEF Alloc!Stop, Running
<1>2. QED
  BY <1>1 DEF AllocStep, Alloc!AllocNext

(* Instructions other than malloc and free.                                *)
LEMMA OtherStep ==
  ASSUME Running, NoAlloc, halt' = halt \/ halt' \notin {"oom", "bad free"}
  PROVE  AllocStep
  BY HiddenStep, StopStep DEF NoAlloc

(* malloc grants a block, nothing, or runs out of memory.                  *)
LEMMA MallocStep ==
  ASSUME IlvmInv, NEW r \in Registers, NEW v \in Val, Malloc(r, v)
  PROVE  AllocStep
<1>1. PICK n, i, p : /\ n = Usize(EvalVal(v)) /\ i = FirstFit(free_list, n) /\ p = free_list[i].base
  OBVIOUS
<1>2. n \in Nat /\ asked' = n /\ Running /\ args' = args /\ Start' = Start /\ halt = "running"
  BY <1>1, Operand, Address, SameStart DEF Malloc, Running
<1>3. Good(free_list, live, alloc_blocks, Start) /\ Start \in Nat
  BY <1>2, RunningHeap
<1>4. free_list \in Seq(Region) /\ Separated(free_list)
  BY <1>3 DEF Good
<1>5. CASE n = 0 /\ UNCHANGED <<live, halt>>
  <2>1. Alloc!GrantNothing
    BY <1>2, <1>5 DEF Alloc!GrantNothing
  <2>2. QED
    BY <2>1 DEF AllocStep, Alloc!AllocNext
<1>6. CASE n > 0 /\ i = 0 /\ Fail("oom") /\ UNCHANGED live
  <2>1. halt' = "oom"
    BY <1>6 DEF Fail
  <2>2. \A j \in 1..Len(free_list) : free_list[j].size < n
    <3>1. i = 0 /\ i \notin 1..Len(free_list)
      BY <1>6
    <3>2. \/ i = 0 /\ \A j \in 1..Len(free_list) : free_list[j].size < n
          \/ i \in 1..Len(free_list) /\ free_list[i].size >= n
      BY <1>1, <1>2, <1>4, FirstFits
    <3>3. QED
      BY <3>1, <3>2
  <2>3. ASSUME NEW base \in Start..HeapSize - 1, Alloc!Gap(base, n) PROVE FALSE
    <3>1. base \in Nat
      BY <1>3
    <3>2. \A a \in Words(base, n) : a \in Start..HeapSize - 1 /\ ~Taken(live, a)
      BY <2>3, GapMeans
    <3>3. \A a \in Words(base, n) : a \in Nat
      BY <1>2, <3>1 DEF Words
    <3>4. \A a \in Words(base, n) : Holds(free_list, a)
      BY <1>3, <3>2, <3>3 DEF Good
    <3>5. 0 < n
      BY <1>6
    <3>6. PICK j \in 1..Len(free_list) : n <= free_list[j].size
      BY <1>2, <1>4, <3>1, <3>4, <3>5, GapInRegion
    <3>7. free_list[j].size \in Nat
      BY <1>4, RegionFields
    <3>8. QED
      BY <1>2, <2>2, <3>6, <3>7
  <2>4. Alloc!OutOfMemory
    BY <1>2, <1>6, <2>1, <2>3 DEF Alloc!OutOfMemory
  <2>5. QED
    BY <2>4 DEF AllocStep, Alloc!AllocNext
<1>7. CASE /\ n > 0 /\ i > 0
           /\ live' = [b \in DOMAIN live \cup {p} |-> IF b = p THEN n ELSE live[b]]
           /\ UNCHANGED halt
  <2>1. i # 0
    BY <1>7
  <2>2. i \in 1..Len(free_list) /\ free_list[i].size >= n
    BY <1>1, <1>2, <1>4, <2>1, FirstFits
  <2>3. free_list[i].size \in Nat
    BY <1>4, <2>2, RegionFields
  <2>4. 0 < n /\ n <= free_list[i].size
    BY <1>2, <1>7, <2>2, <2>3
  <2>5. p \in Nat /\ \A a \in Words(p, n) : a \in Start..HeapSize - 1 /\ ~Taken(live, a)
    BY <1>1, <1>2, <1>3, <2>2, <2>4, NewBlock
  <2>6. Alloc!Gap(p, n)
    BY <2>5, GapMeans
  <2>7. p \in Start..HeapSize - 1
    <3>1. p \in Words(p, n)
      BY <1>2, <2>4, <2>5 DEF Words
    <3>2. QED
      BY <2>5, <3>1
  <2>8. Alloc!Grant(p)
    BY <1>2, <1>7, <2>6 DEF Alloc!Grant
  <2>9. QED
    BY <2>7, <2>8 DEF AllocStep, Alloc!AllocNext
<1>8. QED
  BY <1>1, <1>5, <1>6, <1>7 DEF Malloc

(* free drops a block or is an error.                                      *)
LEMMA FreeStep ==
  ASSUME IlvmInv, NEW r \in Registers, Free(r), FreesLive(r)
  PROVE  AllocStep
<1>1. PICK p : p = Usize(registers[r])
  OBVIOUS
<1>2. asked' = p /\ Running /\ Start' = Start /\ halt = "running"
  BY <1>1, SameStart DEF Free, Running
<1>3. Good(free_list, live, alloc_blocks, Start)
  BY <1>2, RunningHeap
<1>4. CASE p \notin DOMAIN alloc_blocks
  <2>1. p \notin DOMAIN live
    BY <1>3, <1>4 DEF Good
  <2>2. halt' = "bad free" /\ live' = live
    BY <1>1, <1>4 DEF Free, Fail
  <2>3. Alloc!BadFree
    BY <1>2, <2>1, <2>2 DEF Alloc!BadFree
  <2>4. QED
    BY <2>3 DEF AllocStep, Alloc!AllocNext
<1>5. CASE p \in DOMAIN alloc_blocks
  <2>1. p \in DOMAIN live
    BY <1>1, <1>5 DEF FreesLive
  <2>2. live' = [b \in DOMAIN live \ {p} |-> live[b]] /\ halt' = halt
    BY <1>1, <1>5 DEF Free
  <2>3. Alloc!Drop
    BY <1>2, <2>1, <2>2 DEF Alloc!Drop
  <2>4. QED
    BY <2>3 DEF AllocStep, Alloc!AllocNext
<1>6. QED
  BY <1>4, <1>5

(* Load does not show, or stops.                                           *)
LEMMA LoadStep ==
  ASSUME NEW r \in Registers, NEW v \in Val, Load(r, v)
  PROVE  AllocStep
<1>1. Running /\ NoAlloc /\ (halt' = halt \/ halt' = "address")
  BY DEF Load, Fail
<1>2. QED
  BY <1>1, OtherStep

(* Store does not show, or stops.                                          *)
LEMMA StoreStep ==
  ASSUME NEW r \in Registers, NEW v \in Val, Store(r, v)
  PROVE  AllocStep
<1>1. Running /\ NoAlloc /\ (halt' = halt \/ halt' = "address")
  BY DEF Store, Fail
<1>2. QED
  BY <1>1, OtherStep

(* Arithmetic does not show, or stops.                                     *)
LEMMA ComputeStep ==
  ASSUME NEW r \in Registers, NEW v \in Val,
         Copy(r, v) \/ Not(r, v) \/ MemSize(r) \/ \E op \in Ops, w \in Val : BinOp(r, op, v, w)
  PROVE  AllocStep
<1>1. Running /\ NoAlloc /\ (halt' = halt \/ halt' = "panic")
  <2>1. ASSUME NEW op \in Ops, NEW w \in Val, BinOp(r, op, v, w)
        PROVE  Running /\ NoAlloc /\ (halt' = halt \/ halt' = "panic")
    BY <2>1 DEF BinOp, Fail
  <2>2. QED
    BY <2>1 DEF Copy, Not, MemSize
<1>2. QED
  BY <1>1, OtherStep

(* Printing does not show, or stops.                                       *)
LEMMA OutputStep ==
  ASSUME NEW v \in Val, PrintStr(v) \/ \E w \in Val : PrintArray(v, w)
  PROVE  AllocStep
<1>1. Running /\ NoAlloc /\ (halt' = halt \/ halt' \in {"address", "text"})
  <2>1. CASE PrintStr(v)
    <3>1. PICK t : t = TextAt(heap, Usize(EvalVal(v)))
      OBVIOUS
    <3>2. t.err = "none" \/ t.err \in {"address", "text"}
      <4>1. CASE Usize(EvalVal(v)) \notin DOMAIN heap
        BY <3>1, <4>1 DEF TextAt
      <4>2. CASE Usize(EvalVal(v)) \in DOMAIN heap
        BY <3>1, <4>2 DEF TextAt
      <4>3. QED
        BY <4>1, <4>2
    <3>3. QED
      BY <2>1, <3>1, <3>2 DEF PrintStr, Fail
  <2>2. ASSUME NEW w \in Val, PrintArray(v, w)
        PROVE  Running /\ NoAlloc /\ halt' = halt
    BY <2>2 DEF PrintArray
  <2>3. QED
    BY <2>1, <2>2
<1>2. QED
  BY <1>1, OtherStep

(* The ways to stop.                                                       *)
LEMMA LeaveStep ==
  ASSUME Abort \/ \E v \in Val : Goto(v) \/ Exit(v)
  PROVE  AllocStep
<1>1. Running /\ NoAlloc /\ halt' \in {"abort", "goto", "exit"}
  BY DEF Abort, Goto, Exit, Fail
<1>2. QED
  BY <1>1, OtherStep

(* The start is one of IlvmAlloc.                                          *)
LEMMA InitAlloc == Init => Alloc!AllocInit
<1>0. SUFFICES ASSUME Init PROVE Alloc!AllocInit
  OBVIOUS
<1>1. PICK s, z : s = HeapStart(args) /\ z = HeapSize
  OBVIOUS
<1>2. s \in Nat /\ s >= 2 /\ z \in Nat /\ Start = s
  <2>1. args \in Arguments
    BY <1>0 DEF Init
  <2>2. PICK c : c = Len(args)
    OBVIOUS
  <2>3. s \in Nat /\ c \in Nat /\ s >= 2 + c
    BY <1>1, <2>1, <2>2, StartNat
  <2>4. QED
    BY <1>1, <2>3, IlvmProgramAssumption DEF Start
<1>3. halt = IF s > z THEN "no heap" ELSE "running"
  BY <1>0, <1>1 DEF Init
<1>4. halt = "running" => s \in 2..z
  BY <1>2, <1>3
<1>5. live = [b \in {} |-> 0]
  BY <1>0 DEF Init, Empty
<1>6. QED
  BY <1>1, <1>2, <1>3, <1>4, <1>5 DEF Alloc!AllocInit

(* Steps of a program that obeys the rule are steps of IlvmAlloc, or none. *)
LEMMA NextAlloc ==
  ASSUME IlvmInv, "free" \in Rules, [Next]_vars
  PROVE  AllocStep
<1>1. CASE Memory
  <2>1. PICK r \in Registers, v \in Val : Malloc(r, v) \/ Free(r) \/ Load(r, v) \/ Store(r, v) \/ MemSize(r)
    BY <1>1 DEF Memory
  <2>2. Free(r) => AllocStep
    BY FreeStep, RuledFree
  <2>3. QED
    BY <2>1, <2>2, MallocStep, LoadStep, StoreStep, ComputeStep
<1>2. CASE Compute
  <2>1. PICK r \in Registers, v \in Val :
          Copy(r, v) \/ Not(r, v) \/ \E op \in Ops, w \in Val : BinOp(r, op, v, w)
    BY <1>2 DEF Compute
  <2>2. QED
    BY <2>1, ComputeStep
<1>3. CASE Output
  BY <1>3, OutputStep DEF Output
<1>4. CASE Leave
  BY <1>4, LeaveStep DEF Leave
<1>5. CASE UNCHANGED vars
  BY <1>5, HiddenStep DEF vars, machine
<1>6. QED
  BY <1>1, <1>2, <1>3, <1>4, <1>5 DEF Next

(* So are the steps of the pair.                                           *)
LEMMA PairNextAlloc ==
  ASSUME IlvmInv, [PairNext]_pairVars
  PROVE  AllocStep
<1>1. CASE PairMemory
  <2>1. PICK r \in Registers, v \in Val : Malloc(r, v) \/ PairFree(r) \/ Load(r, v) \/ Store(r, v) \/ MemSize(r)
    BY <1>1 DEF PairMemory
  <2>2. PairFree(r) => AllocStep
    BY FreeStep DEF PairFree, FreesLive
  <2>3. QED
    BY <2>1, <2>2, MallocStep, LoadStep, StoreStep, ComputeStep
<1>2. CASE PairCompute
  <2>1. PICK r \in Registers, v \in Val :
          Copy(r, v) \/ Not(r, v) \/ \E op \in Ops, w \in Val : BinOp(r, op, v, w)
    BY <1>2 DEF PairCompute, PairBinOp
  <2>2. QED
    BY <2>1, ComputeStep
<1>3. CASE PairOutput
  <2>1. PICK v \in Val : PrintStr(v) \/ \E w \in Val : PrintArray(v, w)
    BY <1>3 DEF PairOutput, PairArray
  <2>2. QED
    BY <2>1, OutputStep
<1>4. CASE PairLeave
  <2>1. Abort \/ \E v \in Val : Goto(v) \/ Exit(v)
    BY <1>4 DEF PairLeave
  <2>2. QED
    BY <2>1, LeaveStep
<1>5. CASE UNCHANGED pairVars
  BY <1>5, HiddenStep DEF pairVars, vars, machine
<1>6. QED
  BY <1>1, <1>2, <1>3, <1>4, <1>5 DEF PairNext

(* malloc and free implement IlvmAlloc: a block is made of words that no   *)
(* live block has, out of memory means that no gap is wide enough, and     *)
(* free accepts the live blocks only.                                      *)
THEOREM AllocKept ==
  ASSUME "free" \in Rules
  PROVE  Spec => AllocPromise
<1>1. "free" \in Rules
  OBVIOUS
<1>2. Init => Alloc!AllocInit
  BY InitAlloc
<1>3. IlvmInv /\ [Next]_vars => [Alloc!AllocNext]_(Alloc!allocVars)
  BY <1>1, NextAlloc DEF AllocStep
<1>4. QED
  BY <1>1, <1>2, <1>3, IlvmInvariant, PTL DEF Spec, AllocPromise, Alloc!AllocSpec

(* The Rust interpreter keeps the promise in the pair too.                 *)
THEOREM PairAlloc == PairSpec => AllocPromise
<1>1. PairInit => Alloc!AllocInit
  BY InitAlloc DEF PairInit
<1>2. IlvmInv /\ [PairNext]_pairVars => [Alloc!AllocNext]_(Alloc!allocVars)
  BY PairNextAlloc DEF AllocStep
<1>3. QED
  BY <1>1, <1>2, PairInvariant, PTL DEF PairSpec, AllocPromise, Alloc!AllocSpec
=============================================================================
