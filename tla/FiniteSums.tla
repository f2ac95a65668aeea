----------------------------- MODULE FiniteSums -----------------------------
(***************************************************************************)
(* Induction over numbers in terms of sets, and sums over finite sets: the *)
(* facts that the proofs about SafeHeap and the ILVM need of MapThenSumSet. *)
(***************************************************************************)
EXTENDS Integers, FiniteSets, FiniteSetsExt, FiniteSetTheorems, WellFoundedInduction, TLAPS

(* Every set of numbers that is not empty has a least member.              *)
LEMMA LeastNumber ==
  ASSUME NEW T \in SUBSET Nat, T # {}
  PROVE  \E m \in T : \A k \in T : m <= k
<1> DEFINE R == OpToRel(<, Nat)
<1>1. IsWellFoundedOn(R, Nat)
  BY NatLessThanWellFounded
<1>2. \A k, m \in Nat : <<k, m>> \in R <=> k < m
  BY DEF OpToRel
<1> HIDE DEF R
<1>3. PICK m \in T : \A k \in T : <<k, m>> \notin R
  BY <1>1, WFMin
<1>4. \A k \in T : ~(k < m)
  BY <1>2, <1>3
<1>5. QED
  BY <1>4

(* Induction: a set that has zero and the successors of its numbers has    *)
(* every number.                                                           *)
LEMMA NumbersFromZero ==
  ASSUME NEW T, 0 \in T, \A n \in Nat : n \in T => n + 1 \in T
  PROVE  Nat \subseteq T
<1> SUFFICES ASSUME Nat \ T # {} PROVE FALSE
  OBVIOUS
<1>1. PICK m \in Nat \ T : \A k \in Nat \ T : m <= k
  BY LeastNumber
<1>2. m - 1 \in Nat /\ m - 1 \in T
  BY <1>1
<1>3. m \in T
  BY <1>2
<1>4. QED
  BY <1>1, <1>3

-----------------------------------------------------------------------------
(* The sum of f over a set, and the equation that defines it.              *)
SumOver(f, S) == MapThenSumSet(LAMBDA x : f[x], S)

Pick(s) == CHOOSE x \in s : TRUE

SumStep(f, S, g) ==
  [s \in SUBSET S |-> IF s = {} THEN 0 ELSE f[Pick(s)] + g[s \ {Pick(s)}]]

(* The member picked is one, and the rest is smaller.                      *)
LEMMA Picked ==
  ASSUME NEW s, IsFiniteSet(s), s # {}
  PROVE  /\ Pick(s) \in s /\ IsFiniteSet(s \ {Pick(s)})
         /\ Cardinality(s) \in Nat /\ Cardinality(s \ {Pick(s)}) = Cardinality(s) - 1
         /\ Cardinality(s \ {Pick(s)}) \in Nat
<1>1. Pick(s) \in s
  BY DEF Pick
<1>2. QED
  BY <1>1, FS_RemoveElement, FS_CardinalityType

(* The equation has a solution.                                            *)
LEMMA SumExists ==
  ASSUME NEW f, NEW S, IsFiniteSet(S)
  PROVE  \E g : g = SumStep(f, S, g)
<1> DEFINE dom(n) == {s \in SUBSET S : Cardinality(s) <= n}
           Part(n, g) == [s \in dom(n) |-> IF s = {} THEN 0 ELSE f[Pick(s)] + g[s \ {Pick(s)}]]
           T == {n \in Nat : \E g : g = Part(n, g)}
<1>1. \A s \in SUBSET S : IsFiniteSet(s) /\ Cardinality(s) \in Nat
  BY FS_Subset, FS_CardinalityType
<1>2. 0 \in T
  <2>1. \A s \in dom(0) : s = {}
    BY <1>1, FS_EmptySet
  <2> DEFINE g == [s \in dom(0) |-> 0]
  <2>2. g = Part(0, g)
    BY <2>1
  <2>3. QED
    BY <2>2
<1>3. ASSUME NEW n \in Nat, n \in T PROVE n + 1 \in T
  <2>1. PICK g : g = Part(n, g)
    BY <1>3
  <2> DEFINE h == Part(n + 1, g)
  <2>2. ASSUME NEW s \in dom(n + 1), s # {} PROVE h[s \ {Pick(s)}] = g[s \ {Pick(s)}]
    <3> DEFINE r == s \ {Pick(s)}
    <3>1. Cardinality(s) \in Nat /\ Cardinality(s) <= n + 1 /\ IsFiniteSet(s)
      BY <1>1
    <3>2. Cardinality(r) = Cardinality(s) - 1
      BY <2>2, <3>1, Picked
    <3>3. r \in dom(n) /\ r \in dom(n + 1)
      BY <3>1, <3>2
    <3> HIDE DEF r
    <3>4. h[r] = IF r = {} THEN 0 ELSE f[Pick(r)] + g[r \ {Pick(r)}]
      BY <3>3
    <3>5. g[r] = IF r = {} THEN 0 ELSE f[Pick(r)] + g[r \ {Pick(r)}]
      BY <2>1, <3>3
    <3>6. QED
      BY <3>4, <3>5 DEF r
  <2>3. h = Part(n + 1, h)
    <3>1. \A s \in dom(n + 1) : (IF s = {} THEN 0 ELSE f[Pick(s)] + g[s \ {Pick(s)}])
                                = (IF s = {} THEN 0 ELSE f[Pick(s)] + h[s \ {Pick(s)}])
      <4> HIDE DEF h
      <4>1. QED
        BY <2>2
    <3>2. QED
      BY <3>1
  <2> HIDE DEF h
  <2>4. \E e : e = Part(n + 1, e)
    BY <2>3
  <2> HIDE DEF Part
  <2>5. QED
    BY <2>4
<1>4. Cardinality(S) \in Nat /\ Cardinality(S) \in T
  <2> HIDE DEF T
  <2>1. QED
    BY <1>1, <1>2, <1>3, NumbersFromZero
<1>5. PICK g : g = Part(Cardinality(S), g)
  BY <1>4
<1>6. dom(Cardinality(S)) = SUBSET S
  BY <1>1, FS_Subset
<1>7. g = SumStep(f, S, g)
  BY <1>5, <1>6 DEF SumStep
<1>8. QED
  BY <1>7

(* Solutions agree wherever what they add up is the same.                  *)
LEMMA SumUnique ==
  ASSUME NEW f, NEW S, NEW g, g = SumStep(f, S, g),
         NEW e, NEW R, NEW h, h = SumStep(e, R, h),
         NEW t, IsFiniteSet(t), t \subseteq S, t \subseteq R, \A x \in t : f[x] = e[x]
  PROVE  g[t] = h[t]
<1> DEFINE T == {n \in Nat : \A s \in SUBSET t : Cardinality(s) = n => g[s] = h[s]}
<1>1. \A s \in SUBSET t : IsFiniteSet(s) /\ Cardinality(s) \in Nat
  BY FS_Subset, FS_CardinalityType
<1>2. ASSUME NEW s \in SUBSET t
      PROVE /\ g[s] = IF s = {} THEN 0 ELSE f[Pick(s)] + g[s \ {Pick(s)}]
            /\ h[s] = IF s = {} THEN 0 ELSE e[Pick(s)] + h[s \ {Pick(s)}]
  <2>1. s \in SUBSET S /\ s \in SUBSET R
    OBVIOUS
  <2>2. QED
    BY <2>1 DEF SumStep
<1>3. 0 \in T
  <2>1. \A s \in SUBSET t : Cardinality(s) = 0 => s = {}
    BY <1>1, FS_EmptySet
  <2>2. QED
    BY <1>2, <2>1
<1>4. ASSUME NEW n \in Nat, n \in T PROVE n + 1 \in T
  <2>1. ASSUME NEW s \in SUBSET t, Cardinality(s) = n + 1 PROVE g[s] = h[s]
    <3>1. s # {}
      BY <1>4, <2>1, FS_EmptySet
    <3>2. Pick(s) \in s /\ Cardinality(s \ {Pick(s)}) = n /\ s \ {Pick(s)} \in SUBSET t
      BY <1>1, <2>1, <3>1, Picked
    <3>3. g[s \ {Pick(s)}] = h[s \ {Pick(s)}]
      BY <1>4, <3>2
    <3>4. f[Pick(s)] = e[Pick(s)]
      BY <3>2
    <3>5. QED
      BY <1>2, <3>1, <3>3, <3>4
  <2>2. QED
    BY <2>1
<1>5. t \in SUBSET t /\ Cardinality(t) \in Nat
  BY <1>1
<1>6. Cardinality(t) \in T
  <2> HIDE DEF T
  <2>1. QED
    BY <1>3, <1>4, <1>5, NumbersFromZero
<1>7. QED
  BY <1>5, <1>6

(* Whatever solves the equation gives the sum.                             *)
LEMMA SumIs ==
  ASSUME NEW f, NEW S, IsFiniteSet(S), NEW g, g = SumStep(f, S, g)
  PROVE  SumOver(f, S) = g[S]
<1> DEFINE h == CHOOSE k : k = SumStep(f, S, k)
<1>1. SumOver(f, S) = h[S]
  BY DEF SumOver, MapThenSumSet, MapThenFoldSet, SumStep, Pick
<1>2. h = SumStep(f, S, h)
  BY SumExists
<1> HIDE DEF h
<1>3. h[S] = g[S]
  BY <1>2, SumUnique
<1>4. QED
  BY <1>1, <1>3

(* The empty sum, and one step of the others.                              *)
LEMMA SumRecursion ==
  ASSUME NEW f, NEW S, IsFiniteSet(S)
  PROVE  SumOver(f, S) = IF S = {} THEN 0 ELSE f[Pick(S)] + SumOver(f, S \ {Pick(S)})
<1>1. PICK g : g = SumStep(f, S, g)
  BY SumExists
<1>2. SumOver(f, S) = g[S]
  BY <1>1, SumIs
<1>3. g[S] = IF S = {} THEN 0 ELSE f[Pick(S)] + g[S \ {Pick(S)}]
  BY <1>1 DEF SumStep
<1>4. ASSUME S # {} PROVE SumOver(f, S \ {Pick(S)}) = g[S \ {Pick(S)}]
  <2> DEFINE R == S \ {Pick(S)}
  <2>1. IsFiniteSet(R) /\ R \subseteq S
    BY FS_Subset
  <2> HIDE DEF R
  <2>2. PICK h : h = SumStep(f, R, h)
    BY <2>1, SumExists
  <2>3. SumOver(f, R) = h[R]
    BY <2>1, <2>2, SumIs
  <2>4. h[R] = g[R]
    BY <1>1, <2>1, <2>2, SumUnique
  <2>5. QED
    BY <2>3, <2>4 DEF R
<1>5. QED
  BY <1>2, <1>3, <1>4

(* A sum depends on the values that are added only.                        *)
LEMMA SumSame ==
  ASSUME NEW f, NEW e, NEW S, IsFiniteSet(S), \A x \in S : f[x] = e[x]
  PROVE  SumOver(f, S) = SumOver(e, S)
<1>1. PICK g : g = SumStep(f, S, g)
  BY SumExists
<1>2. PICK h : h = SumStep(e, S, h)
  BY SumExists
<1>3. g[S] = h[S]
  BY <1>1, <1>2, SumUnique
<1>4. QED
  BY <1>1, <1>2, <1>3, SumIs

(* Sums of numbers are numbers.                                            *)
LEMMA SumNat ==
  ASSUME NEW f, NEW S, IsFiniteSet(S), \A x \in S : f[x] \in Nat
  PROVE  SumOver(f, S) \in Nat
<1> DEFINE T == {n \in Nat : \A s \in SUBSET S : Cardinality(s) = n => SumOver(f, s) \in Nat}
<1>1. \A s \in SUBSET S : IsFiniteSet(s) /\ Cardinality(s) \in Nat
  BY FS_Subset, FS_CardinalityType
<1>2. 0 \in T
  <2>1. \A s \in SUBSET S : Cardinality(s) = 0 => s = {}
    BY <1>1, FS_EmptySet
  <2>2. SumOver(f, {}) = 0
    BY SumRecursion, FS_EmptySet
  <2>3. QED
    BY <2>1, <2>2
<1>3. ASSUME NEW n \in Nat, n \in T PROVE n + 1 \in T
  <2>1. ASSUME NEW s \in SUBSET S, Cardinality(s) = n + 1 PROVE SumOver(f, s) \in Nat
    <3>1. s # {} /\ IsFiniteSet(s)
      BY <1>1, <1>3, <2>1, FS_EmptySet
    <3>2. Pick(s) \in s /\ Cardinality(s \ {Pick(s)}) = n /\ s \ {Pick(s)} \in SUBSET S
      BY <1>1, <2>1, <3>1, Picked
    <3>3. SumOver(f, s \ {Pick(s)}) \in Nat /\ f[Pick(s)] \in Nat
      BY <1>3, <3>2
    <3>4. QED
      BY <3>1, <3>3, SumRecursion
  <2>2. QED
    BY <2>1
<1>4. Cardinality(S) \in Nat /\ Cardinality(S) \in T
  <2> HIDE DEF T
  <2>1. QED
    BY <1>1, <1>2, <1>3, NumbersFromZero
<1>5. QED
  BY <1>4

(* The order in which members are added does not matter.                   *)
LEMMA SumRemove ==
  ASSUME NEW f, NEW S, IsFiniteSet(S), \A x \in S : f[x] \in Nat, NEW m \in S
  PROVE  SumOver(f, S) = f[m] + SumOver(f, S \ {m})
<1> DEFINE T == {n \in Nat : \A s \in SUBSET S : \A x \in s :
                   Cardinality(s) = n => SumOver(f, s) = f[x] + SumOver(f, s \ {x})}
<1>1. \A s \in SUBSET S : /\ IsFiniteSet(s) /\ Cardinality(s) \in Nat /\ SumOver(f, s) \in Nat
  BY FS_Subset, FS_CardinalityType, SumNat
<1>2. 0 \in T
  <2>1. \A s \in SUBSET S : Cardinality(s) = 0 => s = {}
    BY <1>1, FS_EmptySet
  <2>2. QED
    BY <2>1
<1>3. ASSUME NEW n \in Nat, n \in T PROVE n + 1 \in T
  <2>1. ASSUME NEW s \in SUBSET S, NEW x \in s, Cardinality(s) = n + 1
        PROVE SumOver(f, s) = f[x] + SumOver(f, s \ {x})
    <3> DEFINE p == Pick(s)
    <3>1. /\ IsFiniteSet(s) /\ p \in s /\ Cardinality(s \ {p}) = n
          /\ SumOver(f, s) = f[p] + SumOver(f, s \ {p})
      BY <1>1, <2>1, Picked, SumRecursion
    <3> HIDE DEF p
    <3>2. CASE x = p
      BY <3>1, <3>2
    <3>3. CASE x # p
      <4>1. Cardinality(s \ {x}) = n
        BY <2>1, <3>1, FS_RemoveElement
      <4>2. /\ s \ {p} \in SUBSET S /\ x \in s \ {p} /\ s \ {x} \in SUBSET S /\ p \in s \ {x}
            /\ (s \ {p}) \ {x} = (s \ {x}) \ {p} /\ (s \ {p}) \ {x} \in SUBSET S
        BY <3>1, <3>3
      <4>3. SumOver(f, s \ {p}) = f[x] + SumOver(f, (s \ {p}) \ {x})
        BY <1>3, <3>1, <4>2
      <4>4. SumOver(f, s \ {x}) = f[p] + SumOver(f, (s \ {x}) \ {p})
        BY <1>3, <4>1, <4>2
      <4>5. f[x] \in Nat /\ f[p] \in Nat /\ SumOver(f, (s \ {p}) \ {x}) \in Nat
        BY <1>1, <3>1, <4>2
      <4>6. SumOver(f, s \ {x}) = f[p] + SumOver(f, (s \ {p}) \ {x})
        BY <4>2, <4>4
      <4>7. PICK both : both = SumOver(f, (s \ {p}) \ {x})
        OBVIOUS
      <4>8. SumOver(f, s) = f[p] + (f[x] + both) /\ SumOver(f, s \ {x}) = f[p] + both /\ both \in Nat
        BY <3>1, <4>3, <4>5, <4>6, <4>7
      <4>9. PICK u, v : u = f[x] /\ v = f[p] /\ u \in Nat /\ v \in Nat
        BY <4>5
      <4>10. v + (u + both) = u + (v + both)
        BY <4>8, <4>9
      <4>11. QED
        BY <4>8, <4>9, <4>10
    <3>4. QED
      BY <3>2, <3>3
  <2>2. QED
    BY <2>1
<1>4. Cardinality(S) \in Nat /\ Cardinality(S) \in T
  <2> HIDE DEF T
  <2>1. QED
    BY <1>1, <1>2, <1>3, NumbersFromZero
<1>5. QED
  BY <1>4

(* The sum over a part, and over the rest.                                 *)
LEMMA SumSplit ==
  ASSUME NEW f, NEW S, IsFiniteSet(S), \A x \in S : f[x] \in Nat, NEW P \in SUBSET S
  PROVE  SumOver(f, S) = SumOver(f, P) + SumOver(f, S \ P)
<1> DEFINE T == {n \in Nat : \A s \in SUBSET S :
                   Cardinality(s) = n => SumOver(f, S) = SumOver(f, s) + SumOver(f, S \ s)}
<1>1. \A s \in SUBSET S : /\ IsFiniteSet(s) /\ Cardinality(s) \in Nat /\ SumOver(f, s) \in Nat
  BY FS_Subset, FS_CardinalityType, SumNat
<1>2. 0 \in T
  <2>1. \A s \in SUBSET S : Cardinality(s) = 0 => s = {}
    BY <1>1, FS_EmptySet
  <2>2. SumOver(f, {}) = 0 /\ S \ {} = S
    BY SumRecursion, FS_EmptySet
  <2>3. SumOver(f, S) \in Nat
    BY <1>1
  <2>4. QED
    BY <2>1, <2>2, <2>3
<1>3. ASSUME NEW n \in Nat, n \in T PROVE n + 1 \in T
  <2>1. ASSUME NEW s \in SUBSET S, Cardinality(s) = n + 1
        PROVE SumOver(f, S) = SumOver(f, s) + SumOver(f, S \ s)
    <3>1. s # {}
      BY <1>3, <2>1, FS_EmptySet
    <3>2. PICK x \in s : TRUE
      BY <3>1
    <3>3. Cardinality(s \ {x}) = n /\ s \ {x} \in SUBSET S
      BY <1>1, <2>1, FS_RemoveElement
    <3>4. SumOver(f, S) = SumOver(f, s \ {x}) + SumOver(f, S \ (s \ {x}))
      BY <1>3, <3>3
    <3>5. SumOver(f, s) = f[x] + SumOver(f, s \ {x})
      BY <1>1, SumRemove
    <3>6. SumOver(f, S \ (s \ {x})) = f[x] + SumOver(f, (S \ (s \ {x})) \ {x})
      <4>1. S \ (s \ {x}) \in SUBSET S /\ x \in S \ (s \ {x})
        OBVIOUS
      <4>2. QED
        BY <1>1, <4>1, SumRemove
    <3>7. (S \ (s \ {x})) \ {x} = S \ s
      OBVIOUS
    <3>8. /\ SumOver(f, s) \in Nat /\ SumOver(f, s \ {x}) \in Nat /\ SumOver(f, S \ s) \in Nat
          /\ f[x] \in Nat
      BY <1>1, <3>3
    <3>9. PICK u, without, rest : /\ u = f[x] /\ without = SumOver(f, s \ {x}) /\ rest = SumOver(f, S \ s)
                                 /\ u \in Nat /\ without \in Nat /\ rest \in Nat
      BY <3>8
    <3>10. /\ SumOver(f, s) = u + without /\ SumOver(f, S \ (s \ {x})) = u + rest
           /\ SumOver(f, S) = without + SumOver(f, S \ (s \ {x}))
      BY <3>4, <3>5, <3>6, <3>7, <3>9
    <3>11. SumOver(f, S) = without + (u + rest)
      BY <3>10
    <3>12. without + (u + rest) = (u + without) + rest
      BY <3>9
    <3>13. QED
      BY <3>9, <3>10, <3>11, <3>12
  <2>2. QED
    BY <2>1
<1>4. Cardinality(P) \in Nat /\ Cardinality(P) \in T
  <2> HIDE DEF T
  <2>1. QED
    BY <1>1, <1>2, <1>3, NumbersFromZero
<1>5. QED
  BY <1>4
=============================================================================
