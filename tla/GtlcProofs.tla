----------------------------- MODULE GtlcProofs -----------------------------
(***************************************************************************)
(* Proofs about Gtlc and GtlcMigration.                                    *)
(***************************************************************************)
EXTENDS GtlcMigration, FiniteSums, SequenceTheorems

(* A sequence of growing sets is nested.                                   *)
LEMMA Nested ==
  ASSUME NEW N \in Nat, NEW F,
         \A k \in 0..N : k + 1 \in 0..N => F[k] \subseteq F[k + 1]
  PROVE  \A m \in 0..N : \A k \in 0..m : F[k] \subseteq F[m]
<1> DEFINE T == {m \in Nat : m \in 0..N => \A k \in 0..m : F[k] \subseteq F[m]}
<1>1. 0 \in T
  OBVIOUS
<1>2. ASSUME NEW m \in Nat, m \in T PROVE m + 1 \in T
  <2>1. ASSUME m + 1 \in 0..N, NEW k \in 0..(m + 1) PROVE F[k] \subseteq F[m + 1]
    <3>1. m \in 0..N /\ F[m] \subseteq F[m + 1]
      BY <2>1
    <3>2. k = m + 1 \/ k \in 0..m
      OBVIOUS
    <3>3. QED
      BY <1>2, <3>1, <3>2
  <2>2. QED
    BY <2>1
<1> HIDE DEF T
<1>3. Nat \subseteq T
  BY <1>1, <1>2, NumbersFromZero
<1>4. QED
  BY <1>3 DEF T

-----------------------------------------------------------------------------
(* Types by height: what TypesOfHeight is, and induction over types.       *)

TypesBody(n, g) ==
  IF n = 0 THEN Base
  ELSE LET lower == g[n - 1] IN Base \cup ({"fun"} \X lower \X lower)

LEMMA TypesExist ==
  \E g : g = [n \in 0..MaxTypeHeight |-> TypesBody(n, g)]
<1> DEFINE Dom(m) == {n \in 0..MaxTypeHeight : n < m}
           Up(g, m) == g = [n \in Dom(m) |-> TypesBody(n, g)]
           T == {m \in Nat : \E g : Up(g, m)}
<1>1. 0 \in T
  <2>1. PICK g : g = [n \in Dom(0) |-> 0]
    OBVIOUS
  <2>2. Dom(0) = {}
    BY GtlcAssumption
  <2>3. Up(g, 0)
    BY <2>1, <2>2
  <2> HIDE DEF Up
  <2>4. QED
    BY <2>3
<1>2. ASSUME NEW m \in Nat, m \in T PROVE m + 1 \in T
  <2>1. PICK g : Up(g, m)
    BY <1>2
  <2>2. PICK h : h = [n \in Dom(m + 1) |-> TypesBody(n, g)]
    OBVIOUS
  <2>3. ASSUME NEW n \in Dom(m + 1) PROVE TypesBody(n, g) = TypesBody(n, h)
    <3>1. ASSUME n # 0 PROVE g[n - 1] = h[n - 1]
      <4>1. n - 1 \in Dom(m) /\ n - 1 \in Dom(m + 1)
        BY <3>1, GtlcAssumption
      <4>2. g[n - 1] = TypesBody(n - 1, g) /\ h[n - 1] = TypesBody(n - 1, g)
        BY <2>1, <2>2, <4>1
      <4>3. QED
        BY <4>2
    <3>2. QED
      BY <3>1 DEF TypesBody
  <2>4. Up(h, m + 1)
    BY <2>2, <2>3
  <2> HIDE DEF Up
  <2>5. QED
    BY <2>4
<1> HIDE DEF Up
<1> HIDE DEF T
<1>3. MaxTypeHeight + 1 \in T
  BY <1>1, <1>2, NumbersFromZero, GtlcAssumption
<1>4. PICK g : Up(g, MaxTypeHeight + 1)
  BY <1>3 DEF T
<1>5. Dom(MaxTypeHeight + 1) = 0..MaxTypeHeight
  BY GtlcAssumption
<1> HIDE DEF Dom
<1>6. QED
  BY <1>4, <1>5 DEF Up

LEMMA TypesUnfold ==
  \A n \in 0..MaxTypeHeight : TypesOfHeight[n] = TypesBody(n, TypesOfHeight)
<1>1. TypesOfHeight = CHOOSE g : g = [n \in 0..MaxTypeHeight |-> TypesBody(n, g)]
  BY DEF TypesOfHeight, TypesBody
<1>2. TypesOfHeight = [n \in 0..MaxTypeHeight |-> TypesBody(n, TypesOfHeight)]
  BY <1>1, TypesExist
<1>3. QED
  BY <1>2

(* Types lower than n.                                                     *)
LowTypes(n) == UNION {TypesOfHeight[k] : k \in {k \in 0..MaxTypeHeight : k < n}}

LEMMA TypesGrow ==
  \A k \in 0..MaxTypeHeight : k + 1 \in 0..MaxTypeHeight => TypesOfHeight[k] \subseteq TypesOfHeight[k + 1]
<1> DEFINE T == {k \in Nat : k + 1 \in 0..MaxTypeHeight => TypesOfHeight[k] \subseteq TypesOfHeight[k + 1]}
<1>1. 0 \in T
  <2>1. ASSUME 1 \in 0..MaxTypeHeight PROVE TypesOfHeight[0] \subseteq TypesOfHeight[1]
    <3>1. 0 \in 0..MaxTypeHeight /\ 1 # 0 /\ 1 - 1 = 0
      BY GtlcAssumption
    <3>2. TypesOfHeight[0] = Base
      BY <3>1, TypesUnfold DEF TypesBody
    <3>3. TypesOfHeight[1] = TypesBody(1, TypesOfHeight)
      BY <2>1, TypesUnfold
    <3>4. QED
      BY <3>1, <3>2, <3>3 DEF TypesBody
  <2>2. QED
    BY <2>1
<1>2. ASSUME NEW k \in Nat, k \in T PROVE k + 1 \in T
  <2>1. ASSUME k + 2 \in 0..MaxTypeHeight PROVE TypesOfHeight[k + 1] \subseteq TypesOfHeight[k + 2]
    <3>1. k + 1 \in 0..MaxTypeHeight /\ k + 1 # 0 /\ k + 2 # 0 /\ k + 1 - 1 = k /\ k + 2 - 1 = k + 1
      BY <2>1, GtlcAssumption
    <3>2. TypesOfHeight[k] \subseteq TypesOfHeight[k + 1]
      BY <1>2, <3>1
    <3>3. /\ TypesOfHeight[k + 1] = TypesBody(k + 1, TypesOfHeight)
          /\ TypesOfHeight[k + 2] = TypesBody(k + 2, TypesOfHeight)
      BY <2>1, <3>1, TypesUnfold
    <3>4. /\ TypesOfHeight[k + 1] = Base \cup ({"fun"} \X TypesOfHeight[k] \X TypesOfHeight[k])
          /\ TypesOfHeight[k + 2] = Base \cup ({"fun"} \X TypesOfHeight[k + 1] \X TypesOfHeight[k + 1])
      BY <3>1, <3>3 DEF TypesBody
    <3>5. QED
      BY <3>2, <3>4
  <2>2. k + 1 + 1 = k + 2
    OBVIOUS
  <2>3. QED
    BY <2>1, <2>2
<1> HIDE DEF T
<1>3. Nat \subseteq T
  BY <1>1, <1>2, NumbersFromZero
<1>4. QED
  BY <1>3, GtlcAssumption DEF T

LEMMA TypesNested ==
  \A m \in 0..MaxTypeHeight : \A k \in 0..m : TypesOfHeight[k] \subseteq TypesOfHeight[m]
BY TypesGrow, Nested, GtlcAssumption

(* Every type has one of four shapes, and there are no others.             *)
LEMMA TypeShape ==
  /\ Base \subseteq Types
  /\ \A t \in Base : ~IsArr(t)
  /\ Ill \notin Types
  /\ \A t \in Types : t \in Base \/ IsArr(t)
  /\ \A t \in Types : IsArr(t) => t[2] \in Types /\ t[3] \in Types /\ t = Arr(t[2], t[3])
<1>1. MaxTypeHeight \in 0..MaxTypeHeight
  BY GtlcAssumption
<1>2. Types = TypesBody(MaxTypeHeight, TypesOfHeight)
  BY <1>1, TypesUnfold DEF Types
<1>3. CASE MaxTypeHeight = 0
  BY <1>2, <1>3 DEF TypesBody, Base, IsArr, Ground, Int_, Bool_, Any, Ill
<1>4. CASE MaxTypeHeight # 0
  <2>1. PICK L : L = TypesOfHeight[MaxTypeHeight - 1]
    OBVIOUS
  <2>2. L \subseteq Types
    BY <1>1, <1>4, <2>1, TypesNested, GtlcAssumption DEF Types
  <2>3. Types = Base \cup ({"fun"} \X L \X L)
    BY <1>2, <1>4, <2>1 DEF TypesBody
  <2>4. \A t \in {"fun"} \X L \X L : IsArr(t) /\ t[2] \in L /\ t[3] \in L /\ t = Arr(t[2], t[3])
    BY DEF IsArr, Ground, Arr
  <2>5. \A t \in Base : ~IsArr(t)
    BY DEF Base, IsArr, Ground, Int_, Bool_, Any
  <2>6. Ill \notin Types
    <3>1. Ill \notin Base /\ Ill[1] = "ill"
      BY DEF Ill, Base, Int_, Bool_, Any
    <3>2. QED
      BY <2>3, <2>4, <3>1 DEF IsArr, Ground
  <2>7. QED
    BY <2>2, <2>3, <2>4, <2>5, <2>6
<1>5. QED
  BY <1>3, <1>4

LEMMA LowTypesFacts ==
  ASSUME NEW n \in Nat
  PROVE  /\ LowTypes(0) = {} /\ LowTypes(MaxTypeHeight + 1) = Types
         /\ LowTypes(n) \subseteq LowTypes(n + 1) /\ LowTypes(n) \subseteq Types
         /\ \A t \in LowTypes(n + 1) : IsArr(t) => t[2] \in LowTypes(n) /\ t[3] \in LowTypes(n)
<1>1. LowTypes(0) = {}
  BY GtlcAssumption DEF LowTypes
<1>2. MaxTypeHeight \in 0..MaxTypeHeight /\ MaxTypeHeight < MaxTypeHeight + 1
  BY GtlcAssumption
<1>3. LowTypes(n) \subseteq Types /\ LowTypes(MaxTypeHeight + 1) \subseteq Types
  BY <1>2, TypesNested DEF LowTypes, Types
<1>4. Types \subseteq LowTypes(MaxTypeHeight + 1)
  BY <1>2 DEF LowTypes, Types
<1>5. LowTypes(n) \subseteq LowTypes(n + 1)
  BY GtlcAssumption DEF LowTypes
<1>6. ASSUME NEW t \in LowTypes(n + 1), IsArr(t) PROVE t[2] \in LowTypes(n) /\ t[3] \in LowTypes(n)
  <2>1. PICK k \in 0..MaxTypeHeight : k < n + 1 /\ t \in TypesOfHeight[k]
    BY DEF LowTypes
  <2>2. k # 0
    BY <1>6, <2>1, TypesUnfold, TypeShape DEF TypesBody
  <2>3. k - 1 \in 0..MaxTypeHeight /\ k - 1 < n
    BY <2>1, <2>2, GtlcAssumption
  <2>4. t \in Base \/ t \in {"fun"} \X TypesOfHeight[k - 1] \X TypesOfHeight[k - 1]
    BY <2>1, <2>2, TypesUnfold DEF TypesBody
  <2>5. t[2] \in TypesOfHeight[k - 1] /\ t[3] \in TypesOfHeight[k - 1]
    BY <1>6, <2>4, TypeShape
  <2>6. QED
    BY <2>3, <2>5 DEF LowTypes
<1>7. QED
  BY <1>1, <1>3, <1>4, <1>5, <1>6

(* Induction over types: a set has every type if it has every function     *)
(* type whose domain and codomain it has, and the others.                  *)
LEMMA TypeInduction ==
  ASSUME NEW S, \A t \in Types : (IsArr(t) => t[2] \in S /\ t[3] \in S) => t \in S
  PROVE  Types \subseteq S
<1> DEFINE T == {n \in Nat : LowTypes(n) \subseteq S}
<1>1. 0 \in T
  BY LowTypesFacts
<1>2. ASSUME NEW n \in Nat, n \in T PROVE n + 1 \in T
  <2>1. n + 1 \in Nat
    OBVIOUS
  <2>2. LowTypes(n + 1) \subseteq Types
    BY <2>1, LowTypesFacts
  <2>3. \A t \in LowTypes(n + 1) : IsArr(t) => t[2] \in S /\ t[3] \in S
    BY <1>2, LowTypesFacts
  <2>4. QED
    BY <2>1, <2>2, <2>3
<1>3. MaxTypeHeight + 1 \in Nat
  BY GtlcAssumption
<1> HIDE DEF T
<1>4. MaxTypeHeight + 1 \in T
  BY <1>1, <1>2, <1>3, NumbersFromZero
<1>5. QED
  BY <1>3, <1>4, LowTypesFacts DEF T

-----------------------------------------------------------------------------
(* Functions on pairs of types.                                            *)

TypeLeqBody(p, g) ==
  LET less == p[1] more == p[2] IN
  \/ less = Any
  \/ less = more
  \/ IsArr(less) /\ IsArr(more) /\ \A i \in 2..3 : g[<<less[i], more[i]>>]

ConsistentBody(p, g) ==
  LET left == p[1] right == p[2] IN
  \/ Any \in {left, right}
  \/ left = right
  \/ /\ IsArr(left) /\ IsArr(right)
     /\ \A i \in 2..3 : g[<<left[i], right[i]>>]

CommonBranchTypeBody(p, g) ==
  LET left == p[1] right == p[2] IN
  CASE left = right -> left
    [] left # right /\ left = Any -> right
    [] left # right /\ right = Any -> left
    [] OTHER -> IF IsArr(left) /\ IsArr(right) /\ consistent(left, right)
                  THEN Arr(g[<<left[2], right[2]>>], g[<<left[3], right[3]>>])
                  ELSE Any

TypeDistanceBody(p, g) ==
  LET less == p[1] more == p[2] IN
  CASE less = Any /\ IsArr(more) -> Plus(1, Plus(g[<<Any, more[2]>>], g[<<Any, more[3]>>]))
    [] IsArr(less) /\ IsArr(more) -> Plus(g[<<less[2], more[2]>>], g[<<less[3], more[3]>>])
    [] OTHER -> IF less = more THEN 0 ELSE IF less = Any THEN 1 ELSE None

LEMMA TypeLeqUnfold ==
  \A p \in Types \X Types : TypeLeq[p] = TypeLeqBody(p, TypeLeq)
<1> DEFINE Dom(n) == Types \X LowTypes(n)
           Up(g, n) == g = [p \in Dom(n) |-> TypeLeqBody(p, g)]
           T == {n \in Nat : \E g : Up(g, n)}
<1>1. 0 \in T
  <2>1. PICK g : g = [p \in Dom(0) |-> 0]
    OBVIOUS
  <2>2. Dom(0) = {}
    BY LowTypesFacts
  <2>3. Up(g, 0)
    BY <2>1, <2>2
  <2> HIDE DEF Up
  <2>4. QED
    BY <2>3
<1>2. ASSUME NEW n \in Nat, n \in T PROVE n + 1 \in T
  <2>1. PICK g : Up(g, n)
    BY <1>2
  <2>2. PICK h : h = [p \in Dom(n + 1) |-> TypeLeqBody(p, g)]
    OBVIOUS
  <2>3. ASSUME NEW q \in Dom(n) PROVE g[q] = h[q]
    <3>1. q \in Dom(n + 1)
      BY LowTypesFacts
    <3> HIDE DEF Dom
    <3>2. QED
      BY <2>1, <2>2, <3>1
  <2>4. ASSUME NEW p \in Dom(n + 1) PROVE TypeLeqBody(p, g) = TypeLeqBody(p, h)
    <3>1. p[1] \in Types /\ p[2] \in LowTypes(n + 1)
      BY LowTypesFacts
    <3>2. PICK l, m : l = p[1] /\ m = p[2]
      OBVIOUS
    <3>3. ASSUME IsArr(l), IsArr(m), NEW i \in 2..3
          PROVE  g[<<l[i], m[i]>>] = h[<<l[i], m[i]>>]
      <4>1. <<l[i], m[i]>> \in Dom(n)
        BY <3>1, <3>2, <3>3, LowTypesFacts, TypeShape
      <4>2. QED
        BY <2>3, <4>1
    <3>4. QED
      BY <3>2, <3>3 DEF TypeLeqBody
  <2>5. Up(h, n + 1)
    BY <2>2, <2>4
  <2> HIDE DEF Up
  <2>6. QED
    BY <2>5
<1> HIDE DEF Up
<1> HIDE DEF T
<1>3. MaxTypeHeight + 1 \in T
  BY <1>1, <1>2, NumbersFromZero, GtlcAssumption
<1>4. PICK g : Up(g, MaxTypeHeight + 1)
  BY <1>3 DEF T
<1>5. Dom(MaxTypeHeight + 1) = Types \X Types
  BY LowTypesFacts, GtlcAssumption
<1> HIDE DEF Dom
<1>6. \E f : f = [p \in Types \X Types |-> TypeLeqBody(p, f)]
  BY <1>4, <1>5 DEF Up
<1>7. TypeLeq = CHOOSE f : f = [p \in Types \X Types |-> TypeLeqBody(p, f)]
  BY DEF TypeLeq, TypeLeqBody
<1>8. TypeLeq = [p \in Types \X Types |-> TypeLeqBody(p, TypeLeq)]
  BY <1>6, <1>7
<1>9. QED
  BY <1>8

LEMMA ConsistentUnfold ==
  \A p \in Types \X Types : Consistent[p] = ConsistentBody(p, Consistent)
<1> DEFINE Dom(n) == Types \X LowTypes(n)
           Up(g, n) == g = [p \in Dom(n) |-> ConsistentBody(p, g)]
           T == {n \in Nat : \E g : Up(g, n)}
<1>1. 0 \in T
  <2>1. PICK g : g = [p \in Dom(0) |-> 0]
    OBVIOUS
  <2>2. Dom(0) = {}
    BY LowTypesFacts
  <2>3. Up(g, 0)
    BY <2>1, <2>2
  <2> HIDE DEF Up
  <2>4. QED
    BY <2>3
<1>2. ASSUME NEW n \in Nat, n \in T PROVE n + 1 \in T
  <2>1. PICK g : Up(g, n)
    BY <1>2
  <2>2. PICK h : h = [p \in Dom(n + 1) |-> ConsistentBody(p, g)]
    OBVIOUS
  <2>3. ASSUME NEW q \in Dom(n) PROVE g[q] = h[q]
    <3>1. q \in Dom(n + 1)
      BY LowTypesFacts
    <3> HIDE DEF Dom
    <3>2. QED
      BY <2>1, <2>2, <3>1
  <2>4. ASSUME NEW p \in Dom(n + 1) PROVE ConsistentBody(p, g) = ConsistentBody(p, h)
    <3>1. p[1] \in Types /\ p[2] \in LowTypes(n + 1)
      BY LowTypesFacts
    <3>2. PICK l, m : l = p[1] /\ m = p[2]
      OBVIOUS
    <3>3. ASSUME IsArr(l), IsArr(m), NEW i \in 2..3
          PROVE  g[<<l[i], m[i]>>] = h[<<l[i], m[i]>>]
      <4>1. <<l[i], m[i]>> \in Dom(n)
        BY <3>1, <3>2, <3>3, LowTypesFacts, TypeShape
      <4>2. QED
        BY <2>3, <4>1
    <3>4. QED
      BY <3>2, <3>3 DEF ConsistentBody
  <2>5. Up(h, n + 1)
    BY <2>2, <2>4
  <2> HIDE DEF Up
  <2>6. QED
    BY <2>5
<1> HIDE DEF Up
<1> HIDE DEF T
<1>3. MaxTypeHeight + 1 \in T
  BY <1>1, <1>2, NumbersFromZero, GtlcAssumption
<1>4. PICK g : Up(g, MaxTypeHeight + 1)
  BY <1>3 DEF T
<1>5. Dom(MaxTypeHeight + 1) = Types \X Types
  BY LowTypesFacts, GtlcAssumption
<1> HIDE DEF Dom
<1>6. \E f : f = [p \in Types \X Types |-> ConsistentBody(p, f)]
  BY <1>4, <1>5 DEF Up
<1>7. Consistent = CHOOSE f : f = [p \in Types \X Types |-> ConsistentBody(p, f)]
  BY DEF Consistent, ConsistentBody
<1>8. Consistent = [p \in Types \X Types |-> ConsistentBody(p, Consistent)]
  BY <1>6, <1>7
<1>9. QED
  BY <1>8

LEMMA CommonBranchTypeUnfold ==
  \A p \in Types \X Types : CommonBranchType[p] = CommonBranchTypeBody(p, CommonBranchType)
<1> DEFINE Dom(n) == Types \X LowTypes(n)
           Up(g, n) == g = [p \in Dom(n) |-> CommonBranchTypeBody(p, g)]
           T == {n \in Nat : \E g : Up(g, n)}
<1>1. 0 \in T
  <2>1. PICK g : g = [p \in Dom(0) |-> 0]
    OBVIOUS
  <2>2. Dom(0) = {}
    BY LowTypesFacts
  <2>3. Up(g, 0)
    BY <2>1, <2>2
  <2> HIDE DEF Up
  <2>4. QED
    BY <2>3
<1>2. ASSUME NEW n \in Nat, n \in T PROVE n + 1 \in T
  <2>1. PICK g : Up(g, n)
    BY <1>2
  <2>2. PICK h : h = [p \in Dom(n + 1) |-> CommonBranchTypeBody(p, g)]
    OBVIOUS
  <2>3. ASSUME NEW q \in Dom(n) PROVE g[q] = h[q]
    <3>1. q \in Dom(n + 1)
      BY LowTypesFacts
    <3> HIDE DEF Dom
    <3>2. QED
      BY <2>1, <2>2, <3>1
  <2>4. ASSUME NEW p \in Dom(n + 1) PROVE CommonBranchTypeBody(p, g) = CommonBranchTypeBody(p, h)
    <3>1. p[1] \in Types /\ p[2] \in LowTypes(n + 1)
      BY LowTypesFacts
    <3>2. PICK l, m : l = p[1] /\ m = p[2]
      OBVIOUS
    <3>3. ASSUME IsArr(l), IsArr(m), NEW i \in 2..3
          PROVE  g[<<l[i], m[i]>>] = h[<<l[i], m[i]>>]
      <4>1. <<l[i], m[i]>> \in Dom(n)
        BY <3>1, <3>2, <3>3, LowTypesFacts, TypeShape
      <4>2. QED
        BY <2>3, <4>1
    <3>4. 2 \in 2..3 /\ 3 \in 2..3
      OBVIOUS
    <3>5. QED
      BY <3>2, <3>3, <3>4 DEF CommonBranchTypeBody
  <2>5. Up(h, n + 1)
    BY <2>2, <2>4
  <2> HIDE DEF Up
  <2>6. QED
    BY <2>5
<1> HIDE DEF Up
<1> HIDE DEF T
<1>3. MaxTypeHeight + 1 \in T
  BY <1>1, <1>2, NumbersFromZero, GtlcAssumption
<1>4. PICK g : Up(g, MaxTypeHeight + 1)
  BY <1>3 DEF T
<1>5. Dom(MaxTypeHeight + 1) = Types \X Types
  BY LowTypesFacts, GtlcAssumption
<1> HIDE DEF Dom
<1>6. \E f : f = [p \in Types \X Types |-> CommonBranchTypeBody(p, f)]
  BY <1>4, <1>5 DEF Up
<1>7. CommonBranchType = CHOOSE f : f = [p \in Types \X Types |-> CommonBranchTypeBody(p, f)]
  BY DEF CommonBranchType, CommonBranchTypeBody
<1>8. CommonBranchType = [p \in Types \X Types |-> CommonBranchTypeBody(p, CommonBranchType)]
  BY <1>6, <1>7
<1>9. QED
  BY <1>8

LEMMA TypeDistanceUnfold ==
  \A p \in Types \X Types : TypeDistance[p] = TypeDistanceBody(p, TypeDistance)
<1> DEFINE Dom(n) == Types \X LowTypes(n)
           Up(g, n) == g = [p \in Dom(n) |-> TypeDistanceBody(p, g)]
           T == {n \in Nat : \E g : Up(g, n)}
<1>1. 0 \in T
  <2>1. PICK g : g = [p \in Dom(0) |-> 0]
    OBVIOUS
  <2>2. Dom(0) = {}
    BY LowTypesFacts
  <2>3. Up(g, 0)
    BY <2>1, <2>2
  <2> HIDE DEF Up
  <2>4. QED
    BY <2>3
<1>2. ASSUME NEW n \in Nat, n \in T PROVE n + 1 \in T
  <2>1. PICK g : Up(g, n)
    BY <1>2
  <2>2. PICK h : h = [p \in Dom(n + 1) |-> TypeDistanceBody(p, g)]
    OBVIOUS
  <2>3. ASSUME NEW q \in Dom(n) PROVE g[q] = h[q]
    <3>1. q \in Dom(n + 1)
      BY LowTypesFacts
    <3> HIDE DEF Dom
    <3>2. QED
      BY <2>1, <2>2, <3>1
  <2>4. ASSUME NEW p \in Dom(n + 1) PROVE TypeDistanceBody(p, g) = TypeDistanceBody(p, h)
    <3>1. p[1] \in Types /\ p[2] \in LowTypes(n + 1)
      BY LowTypesFacts
    <3>2. PICK l, m : l = p[1] /\ m = p[2]
      OBVIOUS
    <3>3. ASSUME IsArr(l), IsArr(m), NEW i \in 2..3
          PROVE  g[<<l[i], m[i]>>] = h[<<l[i], m[i]>>]
      <4>1. <<l[i], m[i]>> \in Dom(n)
        BY <3>1, <3>2, <3>3, LowTypesFacts, TypeShape
      <4>2. QED
        BY <2>3, <4>1
    <3>4. ASSUME IsArr(m), NEW i \in 2..3
          PROVE  g[<<Any, m[i]>>] = h[<<Any, m[i]>>]
      <4>1. <<Any, m[i]>> \in Dom(n)
        BY <3>1, <3>2, <3>4, LowTypesFacts, TypeShape DEF Base
      <4>2. QED
        BY <2>3, <4>1
    <3>5. 2 \in 2..3 /\ 3 \in 2..3
      OBVIOUS
    <3>6. QED
      BY <3>2, <3>3, <3>4, <3>5 DEF TypeDistanceBody
  <2>5. Up(h, n + 1)
    BY <2>2, <2>4
  <2> HIDE DEF Up
  <2>6. QED
    BY <2>5
<1> HIDE DEF Up
<1> HIDE DEF T
<1>3. MaxTypeHeight + 1 \in T
  BY <1>1, <1>2, NumbersFromZero, GtlcAssumption
<1>4. PICK g : Up(g, MaxTypeHeight + 1)
  BY <1>3 DEF T
<1>5. Dom(MaxTypeHeight + 1) = Types \X Types
  BY LowTypesFacts, GtlcAssumption
<1> HIDE DEF Dom
<1>6. \E f : f = [p \in Types \X Types |-> TypeDistanceBody(p, f)]
  BY <1>4, <1>5 DEF Up
<1>7. TypeDistance = CHOOSE f : f = [p \in Types \X Types |-> TypeDistanceBody(p, f)]
  BY DEF TypeDistance, TypeDistanceBody
<1>8. TypeDistance = [p \in Types \X Types |-> TypeDistanceBody(p, TypeDistance)]
  BY <1>6, <1>7
<1>9. QED
  BY <1>8

-----------------------------------------------------------------------------
(* The orders on types.                                                    *)

LEMMA LeqCases ==
  ASSUME NEW l \in Types, NEW m \in Types
  PROVE  type_leq(l, m) <=>
           \/ l = Any \/ l = m
           \/ IsArr(l) /\ IsArr(m) /\ type_leq(l[2], m[2]) /\ type_leq(l[3], m[3])
<1>1. TypeLeq[<<l, m>>] = TypeLeqBody(<<l, m>>, TypeLeq)
  BY TypeLeqUnfold
<1>2. \A i : i \in 2..3 <=> i = 2 \/ i = 3
  OBVIOUS
<1>3. QED
  BY <1>1, <1>2 DEF TypeLeqBody, type_leq

LEMMA ConsistentCases ==
  ASSUME NEW l \in Types, NEW m \in Types
  PROVE  consistent(l, m) <=>
           \/ l = Any \/ m = Any \/ l = m
           \/ IsArr(l) /\ IsArr(m) /\ consistent(l[2], m[2]) /\ consistent(l[3], m[3])
<1>1. Consistent[<<l, m>>] = ConsistentBody(<<l, m>>, Consistent)
  BY ConsistentUnfold
<1>2. \A i : i \in 2..3 <=> i = 2 \/ i = 3
  OBVIOUS
<1>3. QED
  BY <1>1, <1>2 DEF ConsistentBody, consistent

LEMMA LeqReflexive == \A t \in Types : type_leq(t, t) /\ type_leq(Any, t)
  BY LeqCases, TypeShape DEF Base

LEMMA LeqTransitive ==
  \A m \in Types : \A k, l \in Types : type_leq(k, l) /\ type_leq(l, m) => type_leq(k, m)
<1> DEFINE S == {m \in Types : \A k, l \in Types : type_leq(k, l) /\ type_leq(l, m) => type_leq(k, m)}
<1>1. ASSUME NEW m \in Types, IsArr(m) => m[2] \in S /\ m[3] \in S PROVE m \in S
  <2>1. ASSUME NEW k \in Types, NEW l \in Types, type_leq(k, l), type_leq(l, m)
        PROVE  type_leq(k, m)
    <3>1. CASE k = Any \/ k = l \/ l = m
      BY <2>1, <3>1, LeqReflexive
    <3>2. CASE ~(k = Any \/ k = l \/ l = m)
      <4>1. ~IsArr(Any)
        BY TypeShape DEF Base
      <4>2. IsArr(k) /\ IsArr(l) /\ type_leq(k[2], l[2]) /\ type_leq(k[3], l[3])
        BY <2>1, <3>2, LeqCases
      <4>3. IsArr(m) /\ type_leq(l[2], m[2]) /\ type_leq(l[3], m[3])
        BY <2>1, <3>2, <4>1, <4>2, LeqCases
      <4>4. type_leq(k[2], m[2]) /\ type_leq(k[3], m[3])
        BY <1>1, <4>2, <4>3, TypeShape
      <4>5. QED
        BY <4>2, <4>3, <4>4, LeqCases
    <3>3. QED
      BY <3>1, <3>2
  <2>2. QED
    BY <2>1
<1> HIDE DEF S
<1>2. Types \subseteq S
  BY <1>1, TypeInduction
<1>3. QED
  BY <1>2 DEF S

(* What is consistent stays so when it becomes less precise.               *)
LEMMA ConsistentBelow ==
  \A s \in Types : \A t, k, l \in Types :
    type_leq(k, s) /\ type_leq(l, t) /\ consistent(s, t) => consistent(k, l)
<1> DEFINE S == {s \in Types : \A t, k, l \in Types :
                   type_leq(k, s) /\ type_leq(l, t) /\ consistent(s, t) => consistent(k, l)}
<1>1. ASSUME NEW s \in Types, IsArr(s) => s[2] \in S /\ s[3] \in S PROVE s \in S
  <2>1. ASSUME NEW t \in Types, NEW k \in Types, NEW l \in Types,
               type_leq(k, s), type_leq(l, t), consistent(s, t)
        PROVE  consistent(k, l)
    <3>0. ~IsArr(Any) /\ \A u \in Types : u = Any \/ IsArr(u) \/ u \in {Int_, Bool_}
      BY TypeShape DEF Base
    <3>1. CASE k = Any \/ l = Any
      BY <3>1, ConsistentCases
    <3>2. CASE k # Any /\ l # Any /\ IsArr(s) /\ IsArr(t)
      <4>1. consistent(s[2], t[2]) /\ consistent(s[3], t[3])
        <5>1. consistent(s[2], s[2]) /\ consistent(s[3], s[3])
          BY <3>2, ConsistentCases, TypeShape
        <5>2. QED
          BY <2>1, <3>0, <3>2, <5>1, ConsistentCases
      <4>2. IsArr(k) /\ type_leq(k[2], s[2]) /\ type_leq(k[3], s[3])
        BY <2>1, <3>2, LeqCases, LeqReflexive, TypeShape
      <4>3. IsArr(l) /\ type_leq(l[2], t[2]) /\ type_leq(l[3], t[3])
        BY <2>1, <3>2, LeqCases, LeqReflexive, TypeShape
      <4>4. consistent(k[2], l[2]) /\ consistent(k[3], l[3])
        BY <1>1, <3>2, <4>1, <4>2, <4>3, TypeShape
      <4>5. QED
        BY <4>2, <4>3, <4>4, ConsistentCases
    <3>3. CASE k # Any /\ l # Any /\ ~(IsArr(s) /\ IsArr(t))
      <4>1. s # Any /\ t # Any
        BY <2>1, <3>0, <3>3, LeqCases
      <4>2. s = t
        BY <2>1, <3>3, <4>1, ConsistentCases
      <4>3. k = s /\ l = t
        BY <2>1, <3>3, <4>2, LeqCases
      <4>4. QED
        BY <4>2, <4>3, ConsistentCases
    <3>4. QED
      BY <3>1, <3>2, <3>3
  <2>2. QED
    BY <2>1
<1> HIDE DEF S
<1>2. Types \subseteq S
  BY <1>1, TypeInduction
<1>3. QED
  BY <1>2 DEF S

Steps(l, m) == TypeDistance[<<l, m>>]

LEMMA StepsCases ==
  ASSUME NEW l \in Types, NEW m \in Types
  PROVE  Steps(l, m) =
           IF l = Any /\ IsArr(m) THEN Plus(1, Plus(Steps(Any, m[2]), Steps(Any, m[3])))
           ELSE IF IsArr(l) /\ IsArr(m) THEN Plus(Steps(l[2], m[2]), Steps(l[3], m[3]))
           ELSE IF l = m THEN 0 ELSE IF l = Any THEN 1 ELSE None
<1>1. TypeDistance[<<l, m>>] = TypeDistanceBody(<<l, m>>, TypeDistance)
  BY TypeDistanceUnfold
<1>2. ~IsArr(Any)
  BY TypeShape DEF Base
<1>3. QED
  BY <1>1, <1>2 DEF TypeDistanceBody, Steps

(* A type has a distance from exactly the types above it.                  *)
LEMMA TypeDistances ==
  \A m \in Types : \A l \in Types :
    IF type_leq(l, m) THEN Steps(l, m) \in Nat ELSE Steps(l, m) = None
<1> DEFINE D(l, m) == IF type_leq(l, m) THEN Steps(l, m) \in Nat
                      ELSE Steps(l, m) = None
           S == {m \in Types : \A l \in Types : D(l, m)}
<1>1. ASSUME NEW m \in Types, IsArr(m) => m[2] \in S /\ m[3] \in S PROVE m \in S
  <2>1. ASSUME NEW l \in Types PROVE D(l, m)
    <3>1. Steps(l, m) = IF l = Any /\ IsArr(m) THEN Plus(1, Plus(Steps(Any, m[2]), Steps(Any, m[3])))
                        ELSE IF IsArr(l) /\ IsArr(m) THEN Plus(Steps(l[2], m[2]), Steps(l[3], m[3]))
                        ELSE IF l = m THEN 0 ELSE IF l = Any THEN 1 ELSE None
      BY StepsCases
    <3>2. Any \in Types /\ ~IsArr(Any)
      BY TypeShape DEF Base
    <3>3. CASE l = Any /\ IsArr(m)
      <4>1. PICK d, c : /\ d = Steps(Any, m[2]) /\ c = Steps(Any, m[3])
                        /\ d \in Nat /\ c \in Nat
        BY <1>1, <3>2, <3>3, LeqReflexive, TypeShape
      <4>2. Steps(l, m) \in Nat
        BY <3>1, <3>3, <4>1 DEF Plus, None
      <4>3. QED
        BY <3>3, <4>2, LeqReflexive
    <3>4. CASE IsArr(l) /\ IsArr(m)
      <4>1. PICK d, c : d = Steps(l[2], m[2]) /\ c = Steps(l[3], m[3])
        OBVIOUS
      <4>2. /\ IF type_leq(l[2], m[2]) THEN d \in Nat ELSE d = None
            /\ IF type_leq(l[3], m[3]) THEN c \in Nat ELSE c = None
        BY <1>1, <3>4, <4>1, TypeShape
      <4>3. Steps(l, m) = Plus(d, c)
        BY <3>1, <3>2, <3>4, <4>1
      <4>4. type_leq(l, m) <=> type_leq(l[2], m[2]) /\ type_leq(l[3], m[3])
        BY <3>2, <3>4, LeqCases, LeqReflexive, TypeShape
      <4>5. QED
        BY <4>2, <4>3, <4>4 DEF Plus, None
    <3>5. CASE ~(l = Any /\ IsArr(m)) /\ ~(IsArr(l) /\ IsArr(m))
      <4>1. Steps(l, m) = IF l = m THEN 0 ELSE IF l = Any THEN 1 ELSE None
        BY <3>1, <3>5
      <4>2. type_leq(l, m) <=> l = m \/ l = Any
        BY <3>5, LeqCases
      <4>3. QED
        BY <4>1, <4>2
    <3>6. QED
      BY <3>3, <3>4, <3>5
  <2> HIDE DEF D
  <2>2. QED
    BY <2>1
<1> HIDE DEF S
<1>2. Types \subseteq S
  BY <1>1, TypeInduction
<1>3. QED
  BY <1>2 DEF S

LEMMA TypeDistanceOfSame == \A t \in Types : Steps(t, t) = 0
<1> DEFINE S == {t \in Types : Steps(t, t) = 0}
<1>1. ASSUME NEW t \in Types, IsArr(t) => t[2] \in S /\ t[3] \in S PROVE t \in S
  <2>1. ~IsArr(Any)
    BY TypeShape DEF Base
  <2>2. QED
    BY <1>1, <2>1, StepsCases DEF Plus, None
<1> HIDE DEF S
<1>2. Types \subseteq S
  BY <1>1, TypeInduction
<1>3. QED
  BY <1>2 DEF S

(* Distances add up along a chain.                                         *)
LEMMA TypeDistancesAdd ==
  \A m \in Types : \A k, l \in Types :
    type_leq(k, l) /\ type_leq(l, m) =>
      Steps(k, m) = Steps(k, l) + Steps(l, m)
<1> DEFINE A(k, l, m) == type_leq(k, l) /\ type_leq(l, m) =>
             Steps(k, m) = Steps(k, l) + Steps(l, m)
           S == {m \in Types : \A k, l \in Types : A(k, l, m)}
<1>0. Any \in Types /\ ~IsArr(Any)
  BY TypeShape DEF Base
<1>1. ASSUME NEW l \in Types, NEW m \in Types
      PROVE  /\ l = m => Steps(l, m) = 0
             /\ l = Any /\ m # Any /\ ~IsArr(m) => Steps(l, m) = 1
             /\ l = Any /\ IsArr(m) =>
                  Steps(l, m) = 1 + (Steps(Any, m[2]) + Steps(Any, m[3]))
             /\ IsArr(l) /\ IsArr(m) /\ type_leq(l[2], m[2]) /\ type_leq(l[3], m[3]) =>
                  Steps(l, m) = Steps(l[2], m[2]) + Steps(l[3], m[3])
  <2>1. ASSUME l = m PROVE Steps(l, m) = 0
    BY <2>1, TypeDistanceOfSame
  <2>2. ASSUME l = Any, m # Any, ~IsArr(m) PROVE Steps(l, m) = 1
    BY <1>0, <2>2, StepsCases
  <2>3. ASSUME l = Any, IsArr(m)
        PROVE  Steps(l, m) = 1 + (Steps(Any, m[2]) + Steps(Any, m[3]))
    <3>1. PICK d, c : /\ d = Steps(Any, m[2]) /\ c = Steps(Any, m[3])
                      /\ d \in Nat /\ c \in Nat
      BY <1>0, <2>3, TypeDistances, LeqReflexive, TypeShape
    <3>2. Steps(l, m) = Plus(1, Plus(d, c))
      BY <2>3, <3>1, StepsCases
    <3>3. QED
      BY <3>1, <3>2 DEF Plus, None
  <2>4. ASSUME IsArr(l), IsArr(m), type_leq(l[2], m[2]), type_leq(l[3], m[3])
        PROVE  Steps(l, m) = Steps(l[2], m[2]) + Steps(l[3], m[3])
    <3>1. PICK d, c : /\ d = Steps(l[2], m[2]) /\ c = Steps(l[3], m[3])
                      /\ d \in Nat /\ c \in Nat
      BY <2>4, TypeDistances, TypeShape
    <3>2. Steps(l, m) = Plus(d, c)
      BY <1>0, <2>4, <3>1, StepsCases
    <3>3. QED
      BY <3>1, <3>2 DEF Plus, None
  <2>5. QED
    BY <2>1, <2>2, <2>3, <2>4
<1>2. ASSUME NEW m \in Types, IsArr(m) => m[2] \in S /\ m[3] \in S PROVE m \in S
  <2>1. ASSUME NEW k \in Types, NEW l \in Types, type_leq(k, l), type_leq(l, m)
        PROVE  Steps(k, m) = Steps(k, l) + Steps(l, m)
    <3>1. type_leq(k, m) /\ Steps(k, m) \in Nat
          /\ Steps(k, l) \in Nat /\ Steps(l, m) \in Nat
      BY <2>1, LeqTransitive, TypeDistances
    <3>2. CASE k = l \/ l = m
      BY <1>1, <3>1, <3>2
    <3>3. CASE k # l /\ l # m /\ ~IsArr(l)
      BY <2>1, <3>1, <3>3, <1>0, LeqCases
    <3>4. CASE k # l /\ l # m /\ IsArr(l)
      <4>1. IsArr(m) /\ type_leq(l[2], m[2]) /\ type_leq(l[3], m[3])
        BY <1>0, <2>1, <3>4, LeqCases
      <4>2. /\ l[2] \in Types /\ l[3] \in Types /\ m[2] \in Types /\ m[3] \in Types
        BY <3>4, <4>1, TypeShape
      <4>3. PICK d, c : /\ d = Steps(l[2], m[2]) /\ c = Steps(l[3], m[3])
                        /\ d \in Nat /\ c \in Nat /\ Steps(l, m) = d + c
        BY <1>1, <3>4, <4>1, <4>2, TypeDistances
      <4>4. CASE k = Any
        <5>1. PICK p, q : /\ p = Steps(Any, l[2]) /\ q = Steps(Any, l[3])
                          /\ p \in Nat /\ q \in Nat /\ Steps(k, l) = 1 + (p + q)
          BY <1>0, <1>1, <3>4, <4>2, <4>4, TypeDistances, LeqReflexive
        <5>2. Steps(Any, m[2]) = p + d /\ Steps(Any, m[3]) = q + c
          BY <1>0, <1>2, <4>1, <4>2, <4>3, <5>1, LeqReflexive
        <5>3. Steps(k, m) = 1 + ((p + d) + (q + c))
          BY <1>0, <1>1, <4>1, <4>4, <5>2
        <5>4. QED
          BY <4>3, <5>1, <5>3
      <4>5. CASE k # Any
        <5>1. IsArr(k) /\ type_leq(k[2], l[2]) /\ type_leq(k[3], l[3])
          BY <2>1, <3>4, <4>5, LeqCases
        <5>2. k[2] \in Types /\ k[3] \in Types
          BY <5>1, TypeShape
        <5>3. PICK p, q : /\ p = Steps(k[2], l[2]) /\ q = Steps(k[3], l[3])
                          /\ p \in Nat /\ q \in Nat /\ Steps(k, l) = p + q
          BY <1>1, <3>4, <4>2, <5>1, <5>2, TypeDistances
        <5>4. Steps(k[2], m[2]) = p + d /\ Steps(k[3], m[3]) = q + c
          BY <1>2, <4>1, <4>2, <4>3, <5>1, <5>2, <5>3
        <5>5. type_leq(k[2], m[2]) /\ type_leq(k[3], m[3])
          BY <4>1, <4>2, <5>1, <5>2, LeqTransitive
        <5>6. Steps(k, m) = (p + d) + (q + c)
          BY <1>1, <4>1, <5>1, <5>4, <5>5
        <5>7. QED
          BY <4>3, <5>3, <5>6
      <4>6. QED
        BY <4>4, <4>5
    <3>5. QED
      BY <3>2, <3>3, <3>4
  <2>2. QED
    BY <2>1
<1> HIDE DEF S
<1>3. Types \subseteq S
  BY <1>2, TypeInduction
<1>4. QED
  BY <1>3 DEF S

-----------------------------------------------------------------------------
(* Trees by height: expressions and elaborated terms.                      *)

ExprsOver(lower) ==
  {e \in [op : DOMAIN Arity \ {"cast"}, x : Labels, n : Int, t : Types, subs : Seq(lower)] :
     Formed(e)}

IRsOver(lower) ==
  {e \in [op : DOMAIN Arity \ {"ann"}, x : Labels, n : Int,
          from : Types, to : Types, subs : Seq(lower)] : Formed(e)}

ExprsOfHeightBody(n, g) == LET lower == IF n = 0 THEN {} ELSE g[n - 1] IN ExprsOver(lower)
IRsOfHeightBody(n, g) == LET lower == IF n = 0 THEN {} ELSE g[n - 1] IN IRsOver(lower)

LEMMA ExprsOfHeightUnfold ==
  \A p \in 0..MaxHeight : ExprsOfHeight[p] = ExprsOfHeightBody(p, ExprsOfHeight)
<1> DEFINE Dom(n) == {k \in 0..MaxHeight : k < n}
           Up(g, n) == g = [p \in Dom(n) |-> ExprsOfHeightBody(p, g)]
           T == {n \in Nat : \E g : Up(g, n)}
<1>1. 0 \in T
  <2>1. PICK g : g = [p \in Dom(0) |-> 0]
    OBVIOUS
  <2>2. Dom(0) = {}
    BY GtlcAssumption
  <2>3. Up(g, 0)
    BY <2>1, <2>2
  <2> HIDE DEF Up
  <2>4. QED
    BY <2>3
<1>2. ASSUME NEW n \in Nat, n \in T PROVE n + 1 \in T
  <2>1. PICK g : Up(g, n)
    BY <1>2
  <2>2. PICK h : h = [p \in Dom(n + 1) |-> ExprsOfHeightBody(p, g)]
    OBVIOUS
  <2>3. ASSUME NEW q \in Dom(n) PROVE g[q] = h[q]
    <3>1. q \in Dom(n + 1)
      BY GtlcAssumption
    <3> HIDE DEF Dom
    <3>2. QED
      BY <2>1, <2>2, <3>1
  <2>4. ASSUME NEW p \in Dom(n + 1) PROVE ExprsOfHeightBody(p, g) = ExprsOfHeightBody(p, h)
    <3>1. ASSUME p # 0 PROVE g[p - 1] = h[p - 1]
      <4>1. p - 1 \in Dom(n)
        BY <3>1, GtlcAssumption
      <4>2. QED
        BY <2>3, <4>1
    <3>2. QED
      BY <3>1 DEF ExprsOfHeightBody
  <2>5. Up(h, n + 1)
    BY <2>2, <2>4
  <2> HIDE DEF Up
  <2>6. QED
    BY <2>5
<1> HIDE DEF Up
<1> HIDE DEF T
<1>3. MaxHeight + 1 \in T
  BY <1>1, <1>2, NumbersFromZero, GtlcAssumption
<1>4. PICK g : Up(g, MaxHeight + 1)
  BY <1>3 DEF T
<1>5. Dom(MaxHeight + 1) = 0..MaxHeight
  BY GtlcAssumption
<1> HIDE DEF Dom
<1>6. \E f : f = [p \in 0..MaxHeight |-> ExprsOfHeightBody(p, f)]
  BY <1>4, <1>5 DEF Up
<1>7. ExprsOfHeight = CHOOSE f : f = [p \in 0..MaxHeight |-> ExprsOfHeightBody(p, f)]
  BY DEF ExprsOfHeight, ExprsOfHeightBody, ExprsOver
<1>8. ExprsOfHeight = [p \in 0..MaxHeight |-> ExprsOfHeightBody(p, ExprsOfHeight)]
  BY <1>6, <1>7
<1>9. QED
  BY <1>8

LEMMA IRsOfHeightUnfold ==
  \A p \in 0..(2 * MaxHeight) : IRsOfHeight[p] = IRsOfHeightBody(p, IRsOfHeight)
<1> DEFINE Dom(n) == {k \in 0..(2 * MaxHeight) : k < n}
           Up(g, n) == g = [p \in Dom(n) |-> IRsOfHeightBody(p, g)]
           T == {n \in Nat : \E g : Up(g, n)}
<1>1. 0 \in T
  <2>1. PICK g : g = [p \in Dom(0) |-> 0]
    OBVIOUS
  <2>2. Dom(0) = {}
    BY GtlcAssumption
  <2>3. Up(g, 0)
    BY <2>1, <2>2
  <2> HIDE DEF Up
  <2>4. QED
    BY <2>3
<1>2. ASSUME NEW n \in Nat, n \in T PROVE n + 1 \in T
  <2>1. PICK g : Up(g, n)
    BY <1>2
  <2>2. PICK h : h = [p \in Dom(n + 1) |-> IRsOfHeightBody(p, g)]
    OBVIOUS
  <2>3. ASSUME NEW q \in Dom(n) PROVE g[q] = h[q]
    <3>1. q \in Dom(n + 1)
      BY GtlcAssumption
    <3> HIDE DEF Dom
    <3>2. QED
      BY <2>1, <2>2, <3>1
  <2>4. ASSUME NEW p \in Dom(n + 1) PROVE IRsOfHeightBody(p, g) = IRsOfHeightBody(p, h)
    <3>1. ASSUME p # 0 PROVE g[p - 1] = h[p - 1]
      <4>1. p - 1 \in Dom(n)
        BY <3>1, GtlcAssumption
      <4>2. QED
        BY <2>3, <4>1
    <3>2. QED
      BY <3>1 DEF IRsOfHeightBody
  <2>5. Up(h, n + 1)
    BY <2>2, <2>4
  <2> HIDE DEF Up
  <2>6. QED
    BY <2>5
<1> HIDE DEF Up
<1> HIDE DEF T
<1>3. 2 * MaxHeight + 1 \in T
  BY <1>1, <1>2, NumbersFromZero, GtlcAssumption
<1>4. PICK g : Up(g, 2 * MaxHeight + 1)
  BY <1>3 DEF T
<1>5. Dom(2 * MaxHeight + 1) = 0..(2 * MaxHeight)
  BY GtlcAssumption
<1> HIDE DEF Dom
<1>6. \E f : f = [p \in 0..(2 * MaxHeight) |-> IRsOfHeightBody(p, f)]
  BY <1>4, <1>5 DEF Up
<1>7. IRsOfHeight = CHOOSE f : f = [p \in 0..(2 * MaxHeight) |-> IRsOfHeightBody(p, f)]
  BY DEF IRsOfHeight, IRsOfHeightBody, IRsOver
<1>8. IRsOfHeight = [p \in 0..(2 * MaxHeight) |-> IRsOfHeightBody(p, IRsOfHeight)]
  BY <1>6, <1>7
<1>9. QED
  BY <1>8

LowExprs(n) == UNION {ExprsOfHeight[k] : k \in {k \in 0..MaxHeight : k < n}}

LEMMA ExprsGrow ==
  \A k \in 0..MaxHeight : k + 1 \in 0..MaxHeight => ExprsOfHeight[k] \subseteq ExprsOfHeight[k + 1]
<1> DEFINE T == {k \in Nat : k + 1 \in 0..MaxHeight => ExprsOfHeight[k] \subseteq ExprsOfHeight[k + 1]}
<1>1. ASSUME NEW S, NEW U, S \subseteq U PROVE ExprsOver(S) \subseteq ExprsOver(U)
  BY <1>1 DEF ExprsOver
<1>2. ASSUME NEW k \in Nat, k + 1 \in 0..MaxHeight PROVE ExprsOfHeight[k + 1] = ExprsOver(ExprsOfHeight[k])
  <2>1. k + 1 # 0 /\ k + 1 - 1 = k
    OBVIOUS
  <2>2. ExprsOfHeight[k + 1] = ExprsOfHeightBody(k + 1, ExprsOfHeight)
    BY <1>2, ExprsOfHeightUnfold
  <2>3. QED
    BY <2>1, <2>2 DEF ExprsOfHeightBody
<1>3. 0 \in T
  <2>1. ASSUME 1 \in 0..MaxHeight PROVE ExprsOfHeight[0] \subseteq ExprsOfHeight[1]
    <3>1. ExprsOfHeight[0] = ExprsOver({})
      BY ExprsOfHeightUnfold, GtlcAssumption DEF ExprsOfHeightBody
    <3>2. ExprsOfHeight[0 + 1] = ExprsOver(ExprsOfHeight[0])
      BY <1>2, <2>1
    <3>3. QED
      BY <1>1, <3>1, <3>2
  <2>2. QED
    BY <2>1
<1>4. ASSUME NEW k \in Nat, k \in T PROVE k + 1 \in T
  <2>1. ASSUME k + 1 + 1 \in 0..MaxHeight PROVE ExprsOfHeight[k + 1] \subseteq ExprsOfHeight[k + 1 + 1]
    <3>1. k + 1 \in Nat /\ k + 1 \in 0..MaxHeight
      BY <2>1, GtlcAssumption
    <3>2. ExprsOfHeight[k] \subseteq ExprsOfHeight[k + 1]
      BY <1>4, <3>1
    <3>3. ExprsOfHeight[k + 1] = ExprsOver(ExprsOfHeight[k]) /\ ExprsOfHeight[k + 1 + 1] = ExprsOver(ExprsOfHeight[k + 1])
      BY <1>2, <2>1, <3>1
    <3>4. QED
      BY <1>1, <3>2, <3>3
  <2>2. QED
    BY <2>1
<1> HIDE DEF T
<1>5. Nat \subseteq T
  BY <1>3, <1>4, NumbersFromZero
<1>6. QED
  BY <1>5, GtlcAssumption DEF T

LEMMA LowExprsFacts ==
  ASSUME NEW n \in Nat
  PROVE  /\ LowExprs(0) = {} /\ LowExprs(MaxHeight + 1) = Exprs
         /\ LowExprs(n) \subseteq LowExprs(n + 1) /\ LowExprs(n) \subseteq Exprs
         /\ LowExprs(n + 1) \subseteq ExprsOver(LowExprs(n))
<1>1. LowExprs(0) = {}
  BY GtlcAssumption DEF LowExprs
<1>2. MaxHeight \in Nat /\ MaxHeight \in 0..MaxHeight /\ MaxHeight < MaxHeight + 1
  BY GtlcAssumption
<1>3. \A k \in 0..MaxHeight : ExprsOfHeight[k] \subseteq ExprsOfHeight[MaxHeight]
  BY <1>2, ExprsGrow, Nested
<1>4. LowExprs(n) \subseteq Exprs /\ LowExprs(MaxHeight + 1) \subseteq Exprs
  BY <1>3 DEF LowExprs, Exprs
<1>5. Exprs \subseteq LowExprs(MaxHeight + 1)
  BY <1>2 DEF LowExprs, Exprs
<1>6. LowExprs(n) \subseteq LowExprs(n + 1)
  BY GtlcAssumption DEF LowExprs
<1>7. ASSUME NEW e \in LowExprs(n + 1) PROVE e \in ExprsOver(LowExprs(n))
  <2>1. PICK k \in 0..MaxHeight : k < n + 1 /\ e \in ExprsOfHeight[k]
    BY DEF LowExprs
  <2>2. e \in ExprsOfHeightBody(k, ExprsOfHeight)
    BY <2>1, ExprsOfHeightUnfold
  <2>3. PICK lower : lower = IF k = 0 THEN {} ELSE ExprsOfHeight[k - 1]
    OBVIOUS
  <2>4. lower \subseteq LowExprs(n)
    BY <2>1, <2>3, GtlcAssumption DEF LowExprs
  <2>5. e \in ExprsOver(lower)
    BY <2>2, <2>3 DEF ExprsOfHeightBody
  <2>6. QED
    BY <2>4, <2>5 DEF ExprsOver
<1>8. QED
  BY <1>1, <1>4, <1>5, <1>6, <1>7

LEMMA ExprInduction ==
  ASSUME NEW S, \A e \in Exprs : (\A i \in DOMAIN e.subs : e.subs[i] \in S) => e \in S
  PROVE  Exprs \subseteq S
<1> DEFINE T == {n \in Nat : LowExprs(n) \subseteq S}
<1>1. 0 \in T
  BY LowExprsFacts
<1>2. ASSUME NEW n \in Nat, n \in T PROVE n + 1 \in T
  <2>1. n + 1 \in Nat
    OBVIOUS
  <2>2. ASSUME NEW e \in LowExprs(n + 1) PROVE e \in S
    <3>1. e \in Exprs /\ e \in ExprsOver(LowExprs(n))
      BY <2>1, LowExprsFacts
    <3>2. \A i \in DOMAIN e.subs : e.subs[i] \in LowExprs(n)
      BY <3>1 DEF ExprsOver
    <3>3. QED
      BY <1>2, <3>1, <3>2
  <2>3. QED
    BY <2>1, <2>2
<1>3. MaxHeight + 1 \in Nat
  BY GtlcAssumption
<1> HIDE DEF T
<1>4. MaxHeight + 1 \in T
  BY <1>1, <1>2, <1>3, NumbersFromZero
<1>5. QED
  BY <1>3, <1>4, LowExprsFacts DEF T

LEMMA ExprsAreOver == Exprs \subseteq ExprsOver(Exprs)
<1>1. MaxHeight + 1 \in Nat
  BY GtlcAssumption
<1>2. Exprs \subseteq LowExprs(MaxHeight + 1) /\ LowExprs(MaxHeight + 1) \subseteq ExprsOver(LowExprs(MaxHeight + 1))
  <2>1. ASSUME NEW e \in Exprs PROVE e \in ExprsOver(Exprs)
    <3>1. e \in LowExprs(MaxHeight + 1 + 1)
      BY <1>1, LowExprsFacts
    <3>2. QED
      BY <1>1, <3>1, LowExprsFacts
  <2>2. QED
    BY <1>1, <2>1, LowExprsFacts
<1>3. QED
  BY <1>1, <1>2, LowExprsFacts

LowIRs(n) == UNION {IRsOfHeight[k] : k \in {k \in 0..(2 * MaxHeight) : k < n}}

LEMMA IRsGrow ==
  \A k \in 0..(2 * MaxHeight) : k + 1 \in 0..(2 * MaxHeight) => IRsOfHeight[k] \subseteq IRsOfHeight[k + 1]
<1> DEFINE T == {k \in Nat : k + 1 \in 0..(2 * MaxHeight) => IRsOfHeight[k] \subseteq IRsOfHeight[k + 1]}
<1>1. ASSUME NEW S, NEW U, S \subseteq U PROVE IRsOver(S) \subseteq IRsOver(U)
  BY <1>1 DEF IRsOver
<1>2. ASSUME NEW k \in Nat, k + 1 \in 0..(2 * MaxHeight) PROVE IRsOfHeight[k + 1] = IRsOver(IRsOfHeight[k])
  <2>1. k + 1 # 0 /\ k + 1 - 1 = k
    OBVIOUS
  <2>2. IRsOfHeight[k + 1] = IRsOfHeightBody(k + 1, IRsOfHeight)
    BY <1>2, IRsOfHeightUnfold
  <2>3. QED
    BY <2>1, <2>2 DEF IRsOfHeightBody
<1>3. 0 \in T
  <2>1. ASSUME 1 \in 0..(2 * MaxHeight) PROVE IRsOfHeight[0] \subseteq IRsOfHeight[1]
    <3>1. IRsOfHeight[0] = IRsOver({})
      BY IRsOfHeightUnfold, GtlcAssumption DEF IRsOfHeightBody
    <3>2. IRsOfHeight[0 + 1] = IRsOver(IRsOfHeight[0])
      BY <1>2, <2>1
    <3>3. QED
      BY <1>1, <3>1, <3>2
  <2>2. QED
    BY <2>1
<1>4. ASSUME NEW k \in Nat, k \in T PROVE k + 1 \in T
  <2>1. ASSUME k + 1 + 1 \in 0..(2 * MaxHeight) PROVE IRsOfHeight[k + 1] \subseteq IRsOfHeight[k + 1 + 1]
    <3>1. k + 1 \in Nat /\ k + 1 \in 0..(2 * MaxHeight)
      BY <2>1, GtlcAssumption
    <3>2. IRsOfHeight[k] \subseteq IRsOfHeight[k + 1]
      BY <1>4, <3>1
    <3>3. IRsOfHeight[k + 1] = IRsOver(IRsOfHeight[k]) /\ IRsOfHeight[k + 1 + 1] = IRsOver(IRsOfHeight[k + 1])
      BY <1>2, <2>1, <3>1
    <3>4. QED
      BY <1>1, <3>2, <3>3
  <2>2. QED
    BY <2>1
<1> HIDE DEF T
<1>5. Nat \subseteq T
  BY <1>3, <1>4, NumbersFromZero
<1>6. QED
  BY <1>5, GtlcAssumption DEF T

LEMMA LowIRsFacts ==
  ASSUME NEW n \in Nat
  PROVE  /\ LowIRs(0) = {} /\ LowIRs(2 * MaxHeight + 1) = IRs
         /\ LowIRs(n) \subseteq LowIRs(n + 1) /\ LowIRs(n) \subseteq IRs
         /\ LowIRs(n + 1) \subseteq IRsOver(LowIRs(n))
<1>1. LowIRs(0) = {}
  BY GtlcAssumption DEF LowIRs
<1>2. 2 * MaxHeight \in Nat /\ 2 * MaxHeight \in 0..(2 * MaxHeight) /\ 2 * MaxHeight < 2 * MaxHeight + 1
  BY GtlcAssumption
<1>3. \A k \in 0..(2 * MaxHeight) : IRsOfHeight[k] \subseteq IRsOfHeight[2 * MaxHeight]
  BY <1>2, IRsGrow, Nested
<1>4. LowIRs(n) \subseteq IRs /\ LowIRs(2 * MaxHeight + 1) \subseteq IRs
  BY <1>3 DEF LowIRs, IRs
<1>5. IRs \subseteq LowIRs(2 * MaxHeight + 1)
  BY <1>2 DEF LowIRs, IRs
<1>6. LowIRs(n) \subseteq LowIRs(n + 1)
  BY GtlcAssumption DEF LowIRs
<1>7. ASSUME NEW e \in LowIRs(n + 1) PROVE e \in IRsOver(LowIRs(n))
  <2>1. PICK k \in 0..(2 * MaxHeight) : k < n + 1 /\ e \in IRsOfHeight[k]
    BY DEF LowIRs
  <2>2. e \in IRsOfHeightBody(k, IRsOfHeight)
    BY <2>1, IRsOfHeightUnfold
  <2>3. PICK lower : lower = IF k = 0 THEN {} ELSE IRsOfHeight[k - 1]
    OBVIOUS
  <2>4. lower \subseteq LowIRs(n)
    BY <2>1, <2>3, GtlcAssumption DEF LowIRs
  <2>5. e \in IRsOver(lower)
    BY <2>2, <2>3 DEF IRsOfHeightBody
  <2>6. QED
    BY <2>4, <2>5 DEF IRsOver
<1>8. QED
  BY <1>1, <1>4, <1>5, <1>6, <1>7

LEMMA IRInduction ==
  ASSUME NEW S, \A e \in IRs : (\A i \in DOMAIN e.subs : e.subs[i] \in S) => e \in S
  PROVE  IRs \subseteq S
<1> DEFINE T == {n \in Nat : LowIRs(n) \subseteq S}
<1>1. 0 \in T
  BY LowIRsFacts
<1>2. ASSUME NEW n \in Nat, n \in T PROVE n + 1 \in T
  <2>1. n + 1 \in Nat
    OBVIOUS
  <2>2. ASSUME NEW e \in LowIRs(n + 1) PROVE e \in S
    <3>1. e \in IRs /\ e \in IRsOver(LowIRs(n))
      BY <2>1, LowIRsFacts
    <3>2. \A i \in DOMAIN e.subs : e.subs[i] \in LowIRs(n)
      BY <3>1 DEF IRsOver
    <3>3. QED
      BY <1>2, <3>1, <3>2
  <2>3. QED
    BY <2>1, <2>2
<1>3. 2 * MaxHeight + 1 \in Nat
  BY GtlcAssumption
<1> HIDE DEF T
<1>4. 2 * MaxHeight + 1 \in T
  BY <1>1, <1>2, <1>3, NumbersFromZero
<1>5. QED
  BY <1>3, <1>4, LowIRsFacts DEF T

LEMMA IRsAreOver == IRs \subseteq IRsOver(IRs)
<1>1. 2 * MaxHeight + 1 \in Nat
  BY GtlcAssumption
<1>2. IRs \subseteq LowIRs(2 * MaxHeight + 1) /\ LowIRs(2 * MaxHeight + 1) \subseteq IRsOver(LowIRs(2 * MaxHeight + 1))
  <2>1. ASSUME NEW e \in IRs PROVE e \in IRsOver(IRs)
    <3>1. e \in LowIRs(2 * MaxHeight + 1 + 1)
      BY <1>1, LowIRsFacts
    <3>2. QED
      BY <1>1, <3>1, LowIRsFacts
  <2>2. QED
    BY <1>1, <2>1, LowIRsFacts
<1>3. QED
  BY <1>1, <1>2, LowIRsFacts

(* What a node is made of.                                                 *)
LEMMA ExprFields ==
  ASSUME NEW e \in Exprs
  PROVE  /\ e.op \in DOMAIN Arity \ {"cast"} /\ e.x \in Labels /\ e.n \in Int /\ e.t \in Types
         /\ e.subs \in Seq(Exprs) /\ Len(e.subs) = Arity[e.op]
         /\ DOMAIN e.subs = 1..Arity[e.op]
         /\ \A i \in DOMAIN e.subs : e.subs[i] \in Exprs
         /\ e.op \in {"var", "fun", "let"} => e.x \in Names
         /\ e = [op |-> e.op, x |-> e.x, n |-> e.n, t |-> e.t, subs |-> e.subs]
<1>1. e \in ExprsOver(Exprs)
  BY ExprsAreOver
<1>2. /\ e \in [op : DOMAIN Arity \ {"cast"}, x : Labels, n : Int, t : Types, subs : Seq(Exprs)]
      /\ Formed(e)
  BY <1>1 DEF ExprsOver
<1>3. e.subs \in Seq(Exprs) /\ Len(e.subs) = Arity[e.op]
  BY <1>2 DEF Formed
<1>4. DOMAIN e.subs = 1..Arity[e.op] /\ \A i \in DOMAIN e.subs : e.subs[i] \in Exprs
  BY <1>3, LenProperties, ElementOfSeq
<1>5. QED
  BY <1>2, <1>3, <1>4 DEF Formed

LEMMA LowExprParts ==
  ASSUME NEW n \in Nat, NEW e \in LowExprs(n + 1), NEW i \in DOMAIN e.subs
  PROVE  e \in Exprs /\ e.subs[i] \in LowExprs(n)
<1>1. e \in ExprsOver(LowExprs(n)) /\ n + 1 \in Nat
  BY LowExprsFacts
<1>2. QED
  BY <1>1, LowExprsFacts DEF ExprsOver

-----------------------------------------------------------------------------
(* The order on expressions, and their distances.                          *)

SyntaxLeqBody(p, g) ==
  LET left == p[1] right == p[2] IN
  /\ SameNode(left, right)
  /\ type_leq(left.t, right.t)
  /\ \A i \in DOMAIN left.subs : g[<<left.subs[i], right.subs[i]>>]

SyntaxDistanceBody(p, g) ==
  LET less == p[1] more == p[2] IN
  IF SameNode(less, more)
    THEN Plus(TypeDistance[<<less.t, more.t>>],
              Total([i \in DOMAIN less.subs |-> g[<<less.subs[i], more.subs[i]>>]]))
    ELSE None

LEMMA SyntaxLeqUnfold ==
  \A p \in Exprs \X Exprs : SyntaxLeq[p] = SyntaxLeqBody(p, SyntaxLeq)
<1> DEFINE Dom(n) == LowExprs(n) \X Exprs
           Up(g, n) == g = [p \in Dom(n) |-> SyntaxLeqBody(p, g)]
           T == {n \in Nat : \E g : Up(g, n)}
<1>1. 0 \in T
  <2>1. PICK g : g = [p \in Dom(0) |-> 0]
    OBVIOUS
  <2>2. Dom(0) = {}
    BY LowExprsFacts
  <2>3. Up(g, 0)
    BY <2>1, <2>2
  <2> HIDE DEF Up
  <2>4. QED
    BY <2>3
<1>2. ASSUME NEW n \in Nat, n \in T PROVE n + 1 \in T
  <2>1. PICK g : Up(g, n)
    BY <1>2
  <2>2. PICK h : h = [p \in Dom(n + 1) |-> SyntaxLeqBody(p, g)]
    OBVIOUS
  <2>3. ASSUME NEW q \in Dom(n) PROVE g[q] = h[q]
    <3>1. q \in Dom(n + 1)
      BY LowExprsFacts
    <3> HIDE DEF Dom
    <3>2. QED
      BY <2>1, <2>2, <3>1
  <2>4. ASSUME NEW p \in Dom(n + 1) PROVE SyntaxLeqBody(p, g) = SyntaxLeqBody(p, h)
    <3>1. p[1] \in LowExprs(n + 1) /\ p[2] \in Exprs
      BY LowExprsFacts
    <3>2. PICK l, m : l = p[1] /\ m = p[2]
      OBVIOUS
    <3>3. ASSUME SameNode(l, m), NEW i \in DOMAIN l.subs
          PROVE  g[<<l.subs[i], m.subs[i]>>] = h[<<l.subs[i], m.subs[i]>>]
      <4>1. m.subs[i] \in Exprs
        BY <3>1, <3>2, <3>3, ExprFields DEF SameNode
      <4>2. l.subs[i] \in LowExprs(n)
        BY <3>1, <3>2, LowExprParts
      <4>3. <<l.subs[i], m.subs[i]>> \in Dom(n)
        BY <4>1, <4>2
      <4>4. QED
        BY <2>3, <4>3
    <3>4. QED
      BY <3>2, <3>3 DEF SyntaxLeqBody
  <2>5. Up(h, n + 1)
    BY <2>2, <2>4
  <2> HIDE DEF Up
  <2>6. QED
    BY <2>5
<1> HIDE DEF Up
<1> HIDE DEF T
<1>3. MaxHeight + 1 \in T
  BY <1>1, <1>2, NumbersFromZero, GtlcAssumption
<1>4. PICK g : Up(g, MaxHeight + 1)
  BY <1>3 DEF T
<1>5. Dom(MaxHeight + 1) = Exprs \X Exprs
  BY LowExprsFacts, GtlcAssumption
<1> HIDE DEF Dom
<1>6. \E f : f = [p \in Exprs \X Exprs |-> SyntaxLeqBody(p, f)]
  BY <1>4, <1>5 DEF Up
<1>7. SyntaxLeq = CHOOSE f : f = [p \in Exprs \X Exprs |-> SyntaxLeqBody(p, f)]
  BY DEF SyntaxLeq, SyntaxLeqBody
<1>8. SyntaxLeq = [p \in Exprs \X Exprs |-> SyntaxLeqBody(p, SyntaxLeq)]
  BY <1>6, <1>7
<1>9. QED
  BY <1>8

LEMMA SyntaxDistanceUnfold ==
  \A p \in Exprs \X Exprs : SyntaxDistance[p] = SyntaxDistanceBody(p, SyntaxDistance)
<1> DEFINE Dom(n) == LowExprs(n) \X Exprs
           Up(g, n) == g = [p \in Dom(n) |-> SyntaxDistanceBody(p, g)]
           T == {n \in Nat : \E g : Up(g, n)}
<1>1. 0 \in T
  <2>1. PICK g : g = [p \in Dom(0) |-> 0]
    OBVIOUS
  <2>2. Dom(0) = {}
    BY LowExprsFacts
  <2>3. Up(g, 0)
    BY <2>1, <2>2
  <2> HIDE DEF Up
  <2>4. QED
    BY <2>3
<1>2. ASSUME NEW n \in Nat, n \in T PROVE n + 1 \in T
  <2>1. PICK g : Up(g, n)
    BY <1>2
  <2>2. PICK h : h = [p \in Dom(n + 1) |-> SyntaxDistanceBody(p, g)]
    OBVIOUS
  <2>3. ASSUME NEW q \in Dom(n) PROVE g[q] = h[q]
    <3>1. q \in Dom(n + 1)
      BY LowExprsFacts
    <3> HIDE DEF Dom
    <3>2. QED
      BY <2>1, <2>2, <3>1
  <2>4. ASSUME NEW p \in Dom(n + 1) PROVE SyntaxDistanceBody(p, g) = SyntaxDistanceBody(p, h)
    <3>1. p[1] \in LowExprs(n + 1) /\ p[2] \in Exprs
      BY LowExprsFacts
    <3>2. PICK l, m : l = p[1] /\ m = p[2]
      OBVIOUS
    <3>3. ASSUME SameNode(l, m), NEW i \in DOMAIN l.subs
          PROVE  g[<<l.subs[i], m.subs[i]>>] = h[<<l.subs[i], m.subs[i]>>]
      <4>1. m.subs[i] \in Exprs
        BY <3>1, <3>2, <3>3, ExprFields DEF SameNode
      <4>2. l.subs[i] \in LowExprs(n)
        BY <3>1, <3>2, LowExprParts
      <4>3. <<l.subs[i], m.subs[i]>> \in Dom(n)
        BY <4>1, <4>2
      <4>4. QED
        BY <2>3, <4>3
    <3>4. ASSUME SameNode(l, m)
          PROVE  [i \in DOMAIN l.subs |-> g[<<l.subs[i], m.subs[i]>>]]
                   = [i \in DOMAIN l.subs |-> h[<<l.subs[i], m.subs[i]>>]]
      BY <3>3, <3>4
    <3>5. QED
      BY <3>2, <3>4 DEF SyntaxDistanceBody
  <2>5. Up(h, n + 1)
    BY <2>2, <2>4
  <2> HIDE DEF Up
  <2>6. QED
    BY <2>5
<1> HIDE DEF Up
<1> HIDE DEF T
<1>3. MaxHeight + 1 \in T
  BY <1>1, <1>2, NumbersFromZero, GtlcAssumption
<1>4. PICK g : Up(g, MaxHeight + 1)
  BY <1>3 DEF T
<1>5. Dom(MaxHeight + 1) = Exprs \X Exprs
  BY LowExprsFacts, GtlcAssumption
<1> HIDE DEF Dom
<1>6. \E f : f = [p \in Exprs \X Exprs |-> SyntaxDistanceBody(p, f)]
  BY <1>4, <1>5 DEF Up
<1>7. SyntaxDistance = CHOOSE f : f = [p \in Exprs \X Exprs |-> SyntaxDistanceBody(p, f)]
  BY DEF SyntaxDistance, SyntaxDistanceBody
<1>8. SyntaxDistance = [p \in Exprs \X Exprs |-> SyntaxDistanceBody(p, SyntaxDistance)]
  BY <1>6, <1>7
<1>9. QED
  BY <1>8

LEMMA SyntaxLeqCases ==
  ASSUME NEW l \in Exprs, NEW m \in Exprs
  PROVE  syntax_leq(l, m) <=>
           /\ SameNode(l, m) /\ type_leq(l.t, m.t)
           /\ \A i \in DOMAIN l.subs : syntax_leq(l.subs[i], m.subs[i])
<1>1. SyntaxLeq[<<l, m>>] = SyntaxLeqBody(<<l, m>>, SyntaxLeq)
  BY SyntaxLeqUnfold
<1>2. QED
  BY <1>1 DEF SyntaxLeqBody, syntax_leq

LEMMA SyntaxLeqReflexive == \A e \in Exprs : syntax_leq(e, e)
<1> DEFINE S == {e \in Exprs : syntax_leq(e, e)}
<1>1. ASSUME NEW e \in Exprs, \A i \in DOMAIN e.subs : e.subs[i] \in S PROVE e \in S
  <2>1. type_leq(e.t, e.t) /\ SameNode(e, e)
    BY ExprFields, LeqReflexive DEF SameNode
  <2>2. QED
    BY <1>1, <2>1, SyntaxLeqCases
<1> HIDE DEF S
<1>2. Exprs \subseteq S
  BY <1>1, ExprInduction
<1>3. QED
  BY <1>2 DEF S

(* The sum of the distances of at most three parts.                        *)
Parts(f, n) == f = [i \in 1..n |-> f[i]]
SumsOf(h, f, g, n) == \A i \in 1..n : f[i] \in Nat /\ g[i] \in Nat /\ h[i] = f[i] + g[i]

LEMMA TotalOf ==
  ASSUME NEW n \in 0..3, NEW f, Parts(f, n)
  PROVE  Total(f) = IF n = 0 THEN 0 ELSE IF n = 1 THEN f[1]
                    ELSE IF n = 2 THEN Plus(f[1], f[2]) ELSE Plus(f[1], Plus(f[2], f[3]))
<1>1. f \in Seq({f[i] : i \in 1..n})
  <2>1. f \in [1..n -> {f[i] : i \in 1..n}]
    BY DEF Parts
  <2>2. QED
    BY <2>1, IsASeq
<1>2. Len(f) = n
  <2>1. PICK len : len = Len(f)
    OBVIOUS
  <2>2. len \in Nat /\ DOMAIN f = 1..len
    BY <1>1, <2>1, LenProperties
  <2>3. 1..len = 1..n
    BY <2>2 DEF Parts
  <2>4. len = n
    BY <2>2, <2>3
  <2>5. QED
    BY <2>1, <2>4
<1>3. n = 0 \/ n = 1 \/ n = 2 \/ n = 3
  OBVIOUS
<1>4. QED
  BY <1>2, <1>3 DEF Total

LEMMA TotalOfNumbers ==
  ASSUME NEW n \in 0..3, NEW f, Parts(f, n),
         \A i \in 1..n : f[i] \in Nat \cup {None}
  PROVE  IF \A i \in 1..n : f[i] # None THEN Total(f) \in Nat ELSE Total(f) = None
<1>1. n = 0 \/ n = 1 \/ n = 2 \/ n = 3
  OBVIOUS
<1>2. None \notin Nat
  BY DEF None
<1>3. ASSUME NEW a \in Nat \cup {None}, NEW b \in Nat \cup {None}
      PROVE  IF a # None /\ b # None THEN Plus(a, b) \in Nat ELSE Plus(a, b) = None
  BY DEF Plus, None
<1>4. CASE n = 0
  BY <1>4, TotalOf
<1>5. CASE n = 1
  BY <1>2, <1>5, TotalOf
<1>6. CASE n = 2
  <2>1. \A i : i \in 1..n <=> i = 1 \/ i = 2
    BY <1>6
  <2>2. Total(f) = Plus(f[1], f[2])
    BY <1>6, TotalOf
  <2>3. f[1] \in Nat \cup {None} /\ f[2] \in Nat \cup {None}
    BY <2>1
  <2>4. IF f[1] # None /\ f[2] # None THEN Total(f) \in Nat ELSE Total(f) = None
    BY <1>3, <2>2, <2>3
  <2>5. (\A i \in 1..n : f[i] # None) <=> f[1] # None /\ f[2] # None
    BY <2>1
  <2>6. QED
    BY <2>4, <2>5
<1>7. CASE n = 3
  <2>1. \A i : i \in 1..n <=> i = 1 \/ i = 2 \/ i = 3
    BY <1>7
  <2>2. Total(f) = Plus(f[1], Plus(f[2], f[3]))
    BY <1>7, TotalOf
  <2>3. f[1] \in Nat \cup {None} /\ f[2] \in Nat \cup {None} /\ f[3] \in Nat \cup {None}
    BY <2>1
  <2>4. Plus(f[2], f[3]) \in Nat \cup {None}
        /\ (Plus(f[2], f[3]) # None <=> f[2] # None /\ f[3] # None)
    BY <1>2, <1>3, <2>3
  <2>5. IF f[1] # None /\ Plus(f[2], f[3]) # None THEN Total(f) \in Nat ELSE Total(f) = None
    BY <1>3, <2>2, <2>3, <2>4
  <2>6. (\A i \in 1..n : f[i] # None) <=> f[1] # None /\ f[2] # None /\ f[3] # None
    BY <2>1
  <2>7. QED
    BY <2>4, <2>5, <2>6
<1>8. QED
  BY <1>1, <1>4, <1>5, <1>6, <1>7

LEMMA TotalsAdd ==
  ASSUME NEW n \in 0..3, NEW f, NEW g, NEW h, Parts(f, n), Parts(g, n), Parts(h, n),
         SumsOf(h, f, g, n)
  PROVE  Total(h) = Total(f) + Total(g)
<1>1. n = 0 \/ n = 1 \/ n = 2 \/ n = 3
  OBVIOUS
<1>2. \A a, b \in Nat : Plus(a, b) = a + b
  BY DEF Plus, None
<1>3. CASE n = 0
  BY <1>3, TotalOf
<1>4. CASE n = 1
  <2>1. f[1] \in Nat /\ g[1] \in Nat /\ h[1] = f[1] + g[1]
    BY <1>4 DEF SumsOf
  <2>2. Total(f) = f[1] /\ Total(g) = g[1] /\ Total(h) = h[1]
    BY <1>4, TotalOf
  <2>3. QED
    BY <2>1, <2>2
<1>5. CASE n = 2
  <2>1. /\ f[1] \in Nat /\ f[2] \in Nat /\ g[1] \in Nat /\ g[2] \in Nat
        /\ h[1] = f[1] + g[1] /\ h[2] = f[2] + g[2]
    BY <1>5 DEF SumsOf
  <2>2. Total(f) = Plus(f[1], f[2])
    BY <1>5, TotalOf
  <2>3. Total(g) = Plus(g[1], g[2])
    BY <1>5, TotalOf
  <2>4. Total(h) = Plus(h[1], h[2])
    BY <1>5, TotalOf
  <2>5. h[1] \in Nat /\ h[2] \in Nat
    BY <2>1
  <2>6. Total(f) = f[1] + f[2] /\ Total(g) = g[1] + g[2] /\ Total(h) = h[1] + h[2]
    BY <1>2, <2>1, <2>2, <2>3, <2>4, <2>5
  <2>7. QED
    BY <2>1, <2>6
<1>6. CASE n = 3
  <2>1. ASSUME NEW a \in Nat, NEW b \in Nat, NEW c \in Nat
        PROVE  Plus(a, Plus(b, c)) = a + (b + c)
    <3>1. Plus(b, c) = b + c /\ b + c \in Nat
      BY <1>2
    <3>2. QED
      BY <1>2, <3>1
  <2>2. /\ f[1] \in Nat /\ f[2] \in Nat /\ f[3] \in Nat /\ g[1] \in Nat /\ g[2] \in Nat /\ g[3] \in Nat
        /\ h[1] = f[1] + g[1] /\ h[2] = f[2] + g[2] /\ h[3] = f[3] + g[3]
    BY <1>6 DEF SumsOf
  <2>3. h[1] \in Nat /\ h[2] \in Nat /\ h[3] \in Nat
    BY <2>2
  <2>4. Total(f) = f[1] + (f[2] + f[3])
    <3>1. Total(f) = Plus(f[1], Plus(f[2], f[3]))
      BY <1>6, TotalOf
    <3>2. f[1] \in Nat /\ f[2] \in Nat /\ f[3] \in Nat
      BY <2>2
    <3>3. QED
      BY <2>1, <3>1, <3>2
  <2>5. Total(g) = g[1] + (g[2] + g[3])
    <3>1. Total(g) = Plus(g[1], Plus(g[2], g[3]))
      BY <1>6, TotalOf
    <3>2. g[1] \in Nat /\ g[2] \in Nat /\ g[3] \in Nat
      BY <2>2
    <3>3. QED
      BY <2>1, <3>1, <3>2
  <2>6. Total(h) = h[1] + (h[2] + h[3])
    <3>1. Total(h) = Plus(h[1], Plus(h[2], h[3]))
      BY <1>6, TotalOf
    <3>2. QED
      BY <2>1, <2>3, <3>1
  <2>7. QED
    BY <2>2, <2>4, <2>5, <2>6
<1>7. QED
  BY <1>1, <1>3, <1>4, <1>5, <1>6

-----------------------------------------------------------------------------
(* Distances of expressions.                                               *)

ExprSteps(l, m) == SyntaxDistance[<<l, m>>]
PartSteps(l, m) == [i \in DOMAIN l.subs |-> ExprSteps(l.subs[i], m.subs[i])]

LEMMA ExprStepsCases ==
  ASSUME NEW l \in Exprs, NEW m \in Exprs
  PROVE  ExprSteps(l, m) =
           IF SameNode(l, m) THEN Plus(Steps(l.t, m.t), Total(PartSteps(l, m))) ELSE None
<1>1. SyntaxDistance[<<l, m>>] = SyntaxDistanceBody(<<l, m>>, SyntaxDistance)
  BY SyntaxDistanceUnfold
<1>2. QED
  BY <1>1 DEF SyntaxDistanceBody, ExprSteps, PartSteps, Steps

LEMMA PartDomain ==
  ASSUME NEW e \in Exprs
  PROVE  \E n \in 0..3 : DOMAIN e.subs = 1..n
<1>1. DOMAIN e.subs = 1..Arity[e.op] /\ e.op \in DOMAIN Arity
  BY ExprFields
<1>2. Arity[e.op] \in 0..3
  BY <1>1 DEF Arity
<1>3. QED
  BY <1>1, <1>2

(* syntax_distance of two expressions is a number if the second is a       *)
(* migration of the first, and otherwise there is none.                    *)
THEOREM ExprDistances ==
  \A l \in Exprs : \A m \in Exprs :
    IF syntax_leq(l, m) THEN ExprSteps(l, m) \in Nat ELSE ExprSteps(l, m) = None
<1> DEFINE D(l, m) == IF syntax_leq(l, m) THEN ExprSteps(l, m) \in Nat
                      ELSE ExprSteps(l, m) = None
           S == {l \in Exprs : \A m \in Exprs : D(l, m)}
<1>0. None \notin Nat
  BY DEF None
<1>1. ASSUME NEW l \in Exprs, \A i \in DOMAIN l.subs : l.subs[i] \in S PROVE l \in S
  <2>1. ASSUME NEW m \in Exprs PROVE D(l, m)
    <3>1. CASE ~SameNode(l, m)
      BY <3>1, ExprStepsCases, SyntaxLeqCases
    <3>2. CASE SameNode(l, m)
      <4>1. PICK n \in 0..3 : DOMAIN l.subs = 1..n
        BY PartDomain
      <4>2. PICK f : f = PartSteps(l, m)
        OBVIOUS
      <4>3. \A i \in 1..n : m.subs[i] \in Exprs /\ D(l.subs[i], m.subs[i])
        BY <1>1, <3>2, <4>1, ExprFields DEF SameNode
      <4>4. Parts(f, n) /\ \A i \in 1..n : f[i] = ExprSteps(l.subs[i], m.subs[i])
        BY <4>1, <4>2 DEF Parts, PartSteps
      <4>5. /\ \A i \in 1..n : f[i] \in Nat \cup {None}
            /\ \A i \in 1..n : f[i] # None <=> syntax_leq(l.subs[i], m.subs[i])
        BY <1>0, <4>3, <4>4
      <4>6. IF \A i \in 1..n : f[i] # None THEN Total(f) \in Nat ELSE Total(f) = None
        BY <4>4, <4>5, TotalOfNumbers
      <4>7. IF type_leq(l.t, m.t) THEN Steps(l.t, m.t) \in Nat ELSE Steps(l.t, m.t) = None
        BY ExprFields, TypeDistances
      <4>8. ExprSteps(l, m) = Plus(Steps(l.t, m.t), Total(f))
        BY <3>2, <4>2, ExprStepsCases
      <4>9. syntax_leq(l, m) <=> type_leq(l.t, m.t) /\ \A i \in 1..n : f[i] # None
        BY <3>2, <4>1, <4>5, SyntaxLeqCases
      <4>10. PICK a, b : a = Steps(l.t, m.t) /\ b = Total(f)
        OBVIOUS
      <4>11. CASE syntax_leq(l, m)
        <5>1. a \in Nat /\ b \in Nat /\ ExprSteps(l, m) = Plus(a, b)
          BY <4>6, <4>7, <4>8, <4>9, <4>10, <4>11
        <5>2. QED
          BY <4>11, <5>1 DEF Plus, None
      <4>12. CASE ~syntax_leq(l, m)
        <5>1. (a = None \/ b = None) /\ ExprSteps(l, m) = Plus(a, b)
          BY <4>6, <4>7, <4>8, <4>9, <4>10, <4>12
        <5>2. QED
          BY <4>12, <5>1 DEF Plus
      <4>13. QED
        BY <4>11, <4>12
    <3>3. QED
      BY <3>1, <3>2
  <2> HIDE DEF D
  <2>2. QED
    BY <2>1
<1> HIDE DEF S
<1>2. Exprs \subseteq S
  BY <1>1, ExprInduction
<1>3. QED
  BY <1>2 DEF S

LEMMA SyntaxLeqTransitive ==
  \A k \in Exprs : \A l, m \in Exprs : syntax_leq(k, l) /\ syntax_leq(l, m) => syntax_leq(k, m)
<1> DEFINE S == {k \in Exprs : \A l, m \in Exprs :
                   syntax_leq(k, l) /\ syntax_leq(l, m) => syntax_leq(k, m)}
<1>1. ASSUME NEW k \in Exprs, \A i \in DOMAIN k.subs : k.subs[i] \in S PROVE k \in S
  <2>1. ASSUME NEW l \in Exprs, NEW m \in Exprs, syntax_leq(k, l), syntax_leq(l, m)
        PROVE  syntax_leq(k, m)
    <3>1. /\ SameNode(k, l) /\ type_leq(k.t, l.t) /\ SameNode(l, m) /\ type_leq(l.t, m.t)
          /\ \A i \in DOMAIN k.subs : syntax_leq(k.subs[i], l.subs[i])
          /\ \A i \in DOMAIN l.subs : syntax_leq(l.subs[i], m.subs[i])
      BY <2>1, SyntaxLeqCases
    <3>2. SameNode(k, m) /\ DOMAIN k.subs = DOMAIN l.subs /\ DOMAIN l.subs = DOMAIN m.subs
      BY <3>1 DEF SameNode
    <3>3. type_leq(k.t, m.t)
      BY <3>1, ExprFields, LeqTransitive
    <3>4. \A i \in DOMAIN k.subs : syntax_leq(k.subs[i], m.subs[i])
      BY <1>1, <3>1, <3>2, ExprFields
    <3>5. QED
      BY <3>2, <3>3, <3>4, SyntaxLeqCases
  <2>2. QED
    BY <2>1
<1> HIDE DEF S
<1>2. Exprs \subseteq S
  BY <1>1, ExprInduction
<1>3. QED
  BY <1>2 DEF S

(* Along a chain of migrations the distances add up.                       *)
THEOREM ExprDistancesAdd ==
  \A k \in Exprs : \A l, m \in Exprs :
    syntax_leq(k, l) /\ syntax_leq(l, m) => ExprSteps(k, m) = ExprSteps(k, l) + ExprSteps(l, m)
<1> DEFINE A(k, l, m) == syntax_leq(k, l) /\ syntax_leq(l, m) =>
                           ExprSteps(k, m) = ExprSteps(k, l) + ExprSteps(l, m)
           S == {k \in Exprs : \A l, m \in Exprs : A(k, l, m)}
<1>1. ASSUME NEW k \in Exprs, \A i \in DOMAIN k.subs : k.subs[i] \in S PROVE k \in S
  <2>1. ASSUME NEW l \in Exprs, NEW m \in Exprs, syntax_leq(k, l), syntax_leq(l, m)
        PROVE  ExprSteps(k, m) = ExprSteps(k, l) + ExprSteps(l, m)
    <3>1. /\ SameNode(k, l) /\ type_leq(k.t, l.t) /\ SameNode(l, m) /\ type_leq(l.t, m.t)
          /\ \A i \in DOMAIN k.subs : syntax_leq(k.subs[i], l.subs[i])
          /\ \A i \in DOMAIN l.subs : syntax_leq(l.subs[i], m.subs[i])
      BY <2>1, SyntaxLeqCases
    <3>2. SameNode(k, m) /\ DOMAIN k.subs = DOMAIN l.subs /\ DOMAIN l.subs = DOMAIN m.subs
      BY <3>1 DEF SameNode
    <3>3. PICK n \in 0..3 : DOMAIN k.subs = 1..n
      BY PartDomain
    <3>4. PICK f, g, h : f = PartSteps(k, l) /\ g = PartSteps(l, m) /\ h = PartSteps(k, m)
      OBVIOUS
    <3>5. Parts(f, n) /\ Parts(g, n) /\ Parts(h, n)
      BY <3>2, <3>3, <3>4 DEF Parts, PartSteps
    <3>6. \A i \in 1..n : /\ f[i] = ExprSteps(k.subs[i], l.subs[i])
                          /\ g[i] = ExprSteps(l.subs[i], m.subs[i])
                          /\ h[i] = ExprSteps(k.subs[i], m.subs[i])
      BY <3>2, <3>3, <3>4 DEF PartSteps
    <3>7. \A i \in 1..n : k.subs[i] \in Exprs /\ l.subs[i] \in Exprs /\ m.subs[i] \in Exprs
      BY <3>2, <3>3, ExprFields
    <3>8. \A i \in 1..n : f[i] \in Nat /\ g[i] \in Nat
      BY <3>1, <3>2, <3>3, <3>6, <3>7, ExprDistances
    <3>9. \A i \in 1..n : h[i] = f[i] + g[i]
      BY <1>1, <3>1, <3>2, <3>3, <3>6, <3>7
    <3>10. Total(h) = Total(f) + Total(g) /\ Total(f) \in Nat /\ Total(g) \in Nat
      <4>1. Total(h) = Total(f) + Total(g)
        <5>1. SumsOf(h, f, g, n)
          BY <3>8, <3>9 DEF SumsOf
        <5>2. QED
          BY <3>5, <5>1, TotalsAdd
      <4>2. \A i \in 1..n : /\ f[i] \in Nat \cup {None} /\ f[i] # None
                            /\ g[i] \in Nat \cup {None} /\ g[i] # None
        BY <3>8 DEF None
      <4>3. QED
        BY <3>5, <4>1, <4>2, TotalOfNumbers
    <3>11. /\ Steps(k.t, m.t) = Steps(k.t, l.t) + Steps(l.t, m.t)
           /\ Steps(k.t, l.t) \in Nat /\ Steps(l.t, m.t) \in Nat
      BY <3>1, ExprFields, TypeDistances, TypeDistancesAdd
    <3>12. /\ ExprSteps(k, l) = Plus(Steps(k.t, l.t), Total(f))
           /\ ExprSteps(l, m) = Plus(Steps(l.t, m.t), Total(g))
           /\ ExprSteps(k, m) = Plus(Steps(k.t, m.t), Total(h))
      BY <3>1, <3>2, <3>4, ExprStepsCases
    <3>13. PICK a, b, c, d : /\ a = Steps(k.t, l.t) /\ b = Steps(l.t, m.t)
                             /\ c = Total(f) /\ d = Total(g)
      OBVIOUS
    <3>14. /\ a \in Nat /\ b \in Nat /\ c \in Nat /\ d \in Nat
           /\ ExprSteps(k, l) = Plus(a, c) /\ ExprSteps(l, m) = Plus(b, d)
           /\ ExprSteps(k, m) = Plus(a + b, c + d)
      BY <3>10, <3>11, <3>12, <3>13
    <3>15. QED
      BY <3>14 DEF Plus, None
  <2>2. \A l, m \in Exprs : A(k, l, m)
    BY <2>1
  <2> HIDE DEF A
  <2>3. QED
    BY <2>2
<1> HIDE DEF S
<1>2. Exprs \subseteq S
  BY <1>1, ExprInduction
<1>3. QED
  BY <1>2 DEF S

-----------------------------------------------------------------------------
(* The types of expressions are types, or Ill.                             *)

OrIll == Types \cup {Ill}

LEMMA CommonCases ==
  ASSUME NEW l \in Types, NEW m \in Types
  PROVE  common_branch_type(l, m) =
           IF l = m THEN l ELSE IF l = Any THEN m ELSE IF m = Any THEN l
           ELSE IF IsArr(l) /\ IsArr(m) /\ consistent(l, m)
                  THEN Arr(common_branch_type(l[2], m[2]), common_branch_type(l[3], m[3]))
                  ELSE Any
<1>1. CommonBranchType[<<l, m>>] = CommonBranchTypeBody(<<l, m>>, CommonBranchType)
  BY CommonBranchTypeUnfold
<1>2. QED
  BY <1>1 DEF CommonBranchTypeBody, common_branch_type

LEMMA TypesStep ==
  ASSUME NEW n \in Nat, n + 1 \in 0..MaxTypeHeight
  PROVE  /\ TypesOfHeight[n + 1] = Base \cup ({"fun"} \X TypesOfHeight[n] \X TypesOfHeight[n])
         /\ TypesOfHeight[n + 1] \subseteq Types
<1>1. TypesOfHeight[n + 1] = TypesBody(n + 1, TypesOfHeight)
  BY TypesUnfold
<1>2. n + 1 # 0 /\ n + 1 - 1 = n
  OBVIOUS
<1>3. MaxTypeHeight \in 0..MaxTypeHeight /\ n + 1 \in 0..MaxTypeHeight
  BY GtlcAssumption
<1>4. QED
  BY <1>1, <1>2, <1>3, TypesNested DEF TypesBody, Types

LEMMA TypesStart == TypesOfHeight[0] = Base /\ Base \subseteq Types
<1>1. TypesOfHeight[0] = TypesBody(0, TypesOfHeight)
  BY TypesUnfold, GtlcAssumption
<1>2. QED
  BY <1>1, TypeShape DEF TypesBody

(* A function type of a level has its parts in the level below.            *)
LEMMA ArrowParts ==
  ASSUME NEW n \in Nat, n + 1 \in 0..MaxTypeHeight, NEW t \in TypesOfHeight[n + 1], IsArr(t)
  PROVE  t[2] \in TypesOfHeight[n] /\ t[3] \in TypesOfHeight[n] /\ t \in Types
<1>1. t \in {"fun"} \X TypesOfHeight[n] \X TypesOfHeight[n]
  BY TypesStep, TypeShape
<1>2. QED
  BY <1>1, TypesStep

LEMMA ArrowOfParts ==
  ASSUME NEW n \in Nat, n + 1 \in 0..MaxTypeHeight,
         NEW a \in TypesOfHeight[n], NEW b \in TypesOfHeight[n]
  PROVE  Arr(a, b) \in TypesOfHeight[n + 1] /\ IsArr(Arr(a, b))
BY TypesStep DEF Arr, IsArr, Ground

LEMMA CommonInTypes == \A l, m \in Types : common_branch_type(l, m) \in Types
<1> DEFINE L(n) == TypesOfHeight[n]
           T == {n \in Nat : n \in 0..MaxTypeHeight =>
                   \A l \in L(n) : \A m \in L(n) : common_branch_type(l, m) \in L(n)}
<1>1. 0 \in T
  <2>1. ASSUME NEW l \in L(0), NEW m \in L(0) PROVE common_branch_type(l, m) \in L(0)
    <3>1. l \in Base /\ m \in Base /\ L(0) = Base /\ Any \in Base
      BY TypesStart DEF Base
    <3>2. ~IsArr(l) /\ l \in Types /\ m \in Types
      BY <3>1, TypeShape
    <3>3. QED
      BY <3>1, <3>2, CommonCases
  <2>2. QED
    BY <2>1
<1>2. ASSUME NEW n \in Nat, n \in T PROVE n + 1 \in T
  <2>1. ASSUME n + 1 \in 0..MaxTypeHeight, NEW l \in L(n + 1), NEW m \in L(n + 1)
        PROVE  common_branch_type(l, m) \in L(n + 1)
    <3>1. l \in Types /\ m \in Types
      BY <2>1, TypesStep
    <3>2. CASE IsArr(l) /\ IsArr(m)
      <4>1. l[2] \in L(n) /\ l[3] \in L(n) /\ m[2] \in L(n) /\ m[3] \in L(n)
        BY <2>1, <3>2, ArrowParts
      <4>2. n \in 0..MaxTypeHeight
        BY <2>1, GtlcAssumption
      <4>3. common_branch_type(l[2], m[2]) \in L(n)
        BY <1>2, <4>1, <4>2
      <4>4. common_branch_type(l[3], m[3]) \in L(n)
        BY <1>2, <4>1, <4>2
      <4>5. Arr(common_branch_type(l[2], m[2]), common_branch_type(l[3], m[3])) \in L(n + 1)
        BY <2>1, <4>3, <4>4, ArrowOfParts
      <4>6. Any \in L(n + 1)
        BY <2>1, TypesStep DEF Base
      <4> HIDE DEF L
      <4>7. QED
        BY <2>1, <3>1, <4>5, <4>6, CommonCases
    <3>3. CASE ~(IsArr(l) /\ IsArr(m))
      <4>1. Any \in L(n + 1)
        BY <2>1, TypesStep DEF Base
      <4> HIDE DEF L
      <4>2. QED
        BY <2>1, <3>1, <3>3, <4>1, CommonCases
    <3>4. QED
      BY <3>2, <3>3
  <2> HIDE DEF L
  <2>2. QED
    BY <2>1
<1> HIDE DEF T
<1>3. Nat \subseteq T
  BY <1>1, <1>2, NumbersFromZero
<1>4. MaxTypeHeight \in T /\ MaxTypeHeight \in 0..MaxTypeHeight
  BY <1>3, GtlcAssumption
<1>5. QED
  BY <1>4 DEF T, Types

LEMMA IllIsNoType == \A t \in OrIll : t # Ill => t \in Types
BY DEF OrIll

LEMMA ExtendTypes ==
  ASSUME NEW env \in TypeEnvs, NEW x \in Names, NEW t \in OrIll
  PROVE  Extend(env, x, t) \in TypeEnvs
BY DEF TypeEnvs, Extend, OrIll

LEMMA TypesOfNames ==
  ASSUME NEW env \in TypeEnvs, NEW x \in Names
  PROVE  env[x] \in OrIll
BY DEF TypeEnvs, OrIll

LEMMA BaseTypes == Int_ \in Types /\ Bool_ \in Types /\ Any \in Types
BY TypeShape DEF Base

LEMMA AppliedTyped ==
  ASSUME NEW f \in Types, NEW a \in Types
  PROVE  Applied(f, a) \in OrIll
<1>1. CASE IsArr(f)
  BY <1>1, TypeShape DEF Applied, OrIll, require_consistent
<1>2. CASE ~IsArr(f)
  BY <1>2, BaseTypes DEF Applied, OrIll
<1>3. QED
  BY <1>1, <1>2

(* The names of the constructors.                                          *)
LEMMA Ops ==
  /\ DOMAIN Arity = {"int", "bool", "var", "fun", "app", "bin", "if", "let", "ann", "cast"}
  /\ Arity["int"] = 0 /\ Arity["bool"] = 0 /\ Arity["var"] = 0 /\ Arity["fun"] = 1
  /\ Arity["app"] = 2 /\ Arity["bin"] = 2 /\ Arity["if"] = 3 /\ Arity["let"] = 2
  /\ Arity["ann"] = 1 /\ Arity["cast"] = 1
BY DEF Arity

LEMMA TypeOfPartsTyped ==
  ASSUME NEW e \in Exprs, e.op \notin {"int", "bool", "var", "fun", "let"},
         NEW ts, \A i \in DOMAIN e.subs : ts[i] \in Types
  PROVE  TypeOfParts(e, ts) \in OrIll
<1>1. /\ e.op \in {"app", "bin", "if", "ann"} /\ e.t \in Types
      /\ DOMAIN e.subs = 1..Arity[e.op]
  BY ExprFields, Ops
<1>2. CASE e.op = "app"
  <2>1. ts[1] \in Types /\ ts[2] \in Types
    BY <1>1, <1>2, Ops
  <2>2. TypeOfParts(e, ts) = Applied(ts[1], ts[2])
    BY <1>2 DEF TypeOfParts
  <2>3. QED
    BY <2>1, <2>2, AppliedTyped
<1>3. CASE e.op = "bin"
  BY <1>3, BaseTypes DEF TypeOfParts, require_consistent, OrIll
<1>4. CASE e.op = "if"
  <2>1. ts[2] \in Types /\ ts[3] \in Types
    BY <1>1, <1>4, Ops
  <2>2. common_branch_type(ts[2], ts[3]) \in Types
    BY <2>1, CommonInTypes
  <2>3. QED
    BY <1>4, <2>2 DEF TypeOfParts, require_consistent, OrIll
<1>5. CASE e.op = "ann"
  BY <1>1, <1>5 DEF TypeOfParts, require_consistent, OrIll
<1>6. QED
  BY <1>1, <1>2, <1>3, <1>4, <1>5

TypeOfBody(p, g) ==
  LET env == p[1] e == p[2] IN
  CASE e.op = "int" -> Int_
    [] e.op = "bool" -> Bool_
    [] e.op = "var" -> env[e.x]
    [] e.op = "fun" -> Arrow(e.t, g[<<Extend(env, e.x, e.t), e.subs[1]>>])
    [] e.op = "let" ->
         LET value == g[<<env, e.subs[1]>>]
         IN  IF value = Ill THEN Ill ELSE g[<<Extend(env, e.x, value), e.subs[2]>>]
    [] OTHER ->
         LET ts == [i \in DOMAIN e.subs |-> g[<<env, e.subs[i]>>]]
         IN  IF \E i \in DOMAIN ts : ts[i] = Ill THEN Ill ELSE TypeOfParts(e, ts)

PartTypes(env, e, g) == [i \in DOMAIN e.subs |-> g[<<env, e.subs[i]>>]]

(* The type of a node, by its constructor.                                 *)
LEMMA TypeOfBodyLeaf ==
  ASSUME NEW env, NEW e, NEW g
  PROVE  /\ e.op = "int" => TypeOfBody(<<env, e>>, g) = Int_
         /\ e.op = "bool" => TypeOfBody(<<env, e>>, g) = Bool_
         /\ e.op = "var" => TypeOfBody(<<env, e>>, g) = env[e.x]
<1>1. CASE e.op = "int"
  BY <1>1 DEF TypeOfBody
<1>2. CASE e.op = "bool"
  BY <1>2 DEF TypeOfBody
<1>3. CASE e.op = "var"
  BY <1>3 DEF TypeOfBody
<1>4. QED
  BY <1>1, <1>2, <1>3

LEMMA TypeOfBodyFun ==
  ASSUME NEW env, NEW e, NEW g, e.op = "fun"
  PROVE  TypeOfBody(<<env, e>>, g) = Arrow(e.t, g[<<Extend(env, e.x, e.t), e.subs[1]>>])
BY DEF TypeOfBody

LEMMA TypeOfBodyLet ==
  ASSUME NEW env, NEW e, NEW g, e.op = "let", NEW value, value = g[<<env, e.subs[1]>>]
  PROVE  TypeOfBody(<<env, e>>, g) =
           IF value = Ill THEN Ill ELSE g[<<Extend(env, e.x, value), e.subs[2]>>]
BY DEF TypeOfBody

LEMMA TypeOfBodyOther ==
  ASSUME NEW env, NEW e, NEW g, e.op \notin {"int", "bool", "var", "fun", "let"},
         NEW ts, ts = PartTypes(env, e, g)
  PROVE  TypeOfBody(<<env, e>>, g) =
           IF \E i \in DOMAIN e.subs : ts[i] = Ill THEN Ill ELSE TypeOfParts(e, ts)
BY DEF TypeOfBody, PartTypes

(* One level: if the parts have types, so does the node.                   *)
LEMMA TypeOfBodyTyped ==
  ASSUME NEW n \in Nat, NEW g, \A q \in TypeEnvs \X LowExprs(n) : g[q] \in OrIll,
         NEW env \in TypeEnvs, NEW e \in LowExprs(n + 1)
  PROVE  TypeOfBody(<<env, e>>, g) \in OrIll
<1>1. e \in Exprs /\ \A i \in DOMAIN e.subs : e.subs[i] \in LowExprs(n)
  BY LowExprsFacts, LowExprParts
<1>2. /\ e.op \in DOMAIN Arity \ {"cast"} /\ e.t \in Types /\ DOMAIN e.subs = 1..Arity[e.op]
      /\ e.op \in {"var", "fun", "let"} => e.x \in Names
  BY <1>1, ExprFields
<1>3. \A i \in DOMAIN e.subs : g[<<env, e.subs[i]>>] \in OrIll
  BY <1>1
<1>4. CASE e.op = "int" \/ e.op = "bool"
  <2>1. Int_ \in OrIll /\ Bool_ \in OrIll
    BY BaseTypes DEF OrIll
  <2>2. QED
    BY <1>4, <2>1, TypeOfBodyLeaf
<1>5. CASE e.op = "var"
  <2>1. env[e.x] \in OrIll
    BY <1>2, <1>5, TypesOfNames
  <2>2. QED
    BY <1>5, <2>1, TypeOfBodyLeaf
<1>6. CASE e.op = "fun"
  <2>1. Arrow(e.t, g[<<Extend(env, e.x, e.t), e.subs[1]>>]) \in OrIll
    BY DEF Arrow, OrIll
  <2>2. QED
    BY <1>6, <2>1, TypeOfBodyFun
<1>7. CASE e.op = "let"
  <2>1. PICK value : value = g[<<env, e.subs[1]>>]
    OBVIOUS
  <2>2. e.subs[1] \in LowExprs(n) /\ e.subs[2] \in LowExprs(n) /\ e.x \in Names
    BY <1>1, <1>2, <1>7, Ops
  <2>3. value \in OrIll
    BY <2>1, <2>2
  <2>4. Extend(env, e.x, value) \in TypeEnvs
    BY <2>2, <2>3, ExtendTypes
  <2>5. g[<<Extend(env, e.x, value), e.subs[2]>>] \in OrIll
    BY <2>2, <2>4
  <2>6. Ill \in OrIll
    BY DEF OrIll
  <2>7. QED
    BY <1>7, <2>1, <2>5, <2>6, TypeOfBodyLet
<1>8. CASE e.op \notin {"int", "bool", "var", "fun", "let"}
  <2>1. PICK ts : ts = PartTypes(env, e, g)
    OBVIOUS
  <2>2. \A i \in DOMAIN e.subs : ts[i] \in OrIll
    BY <1>3, <2>1 DEF PartTypes
  <2>3. (\A i \in DOMAIN e.subs : ts[i] # Ill) => TypeOfParts(e, ts) \in OrIll
    BY <1>1, <1>8, <2>2, IllIsNoType, TypeOfPartsTyped
  <2>4. Ill \in OrIll
    BY DEF OrIll
  <2>5. TypeOfBody(<<env, e>>, g) =
          IF \E i \in DOMAIN e.subs : ts[i] = Ill THEN Ill ELSE TypeOfParts(e, ts)
    BY <1>8, <2>1, TypeOfBodyOther
  <2>6. QED
    BY <2>3, <2>4, <2>5
<1>9. QED
  BY <1>4, <1>5, <1>6, <1>7, <1>8

LEMMA TypeOfUnfold ==
  \A p \in TypeEnvs \X Exprs : TypeOf[p] = TypeOfBody(p, TypeOf)
<1> DEFINE Dom(n) == TypeEnvs \X LowExprs(n)
           Up(g, n) == g = [p \in Dom(n) |-> TypeOfBody(p, g)] /\ \A p \in Dom(n) : g[p] \in OrIll
           T == {n \in Nat : \E g : Up(g, n)}
<1>1. 0 \in T
  <2>1. PICK g : g = [p \in Dom(0) |-> 0]
    OBVIOUS
  <2>2. Dom(0) = {}
    BY LowExprsFacts
  <2>3. Up(g, 0)
    BY <2>1, <2>2
  <2> HIDE DEF Up
  <2>4. QED
    BY <2>3
<1>2. ASSUME NEW n \in Nat, n \in T PROVE n + 1 \in T
  <2>1. PICK g : Up(g, n)
    BY <1>2
  <2>2. PICK h : h = [p \in Dom(n + 1) |-> TypeOfBody(p, g)]
    OBVIOUS
  <2>3. ASSUME NEW q \in Dom(n) PROVE g[q] = h[q]
    <3>1. q \in Dom(n + 1)
      BY LowExprsFacts
    <3> HIDE DEF Dom
    <3>2. QED
      BY <2>1, <2>2, <3>1
  <2>4. ASSUME NEW p \in Dom(n + 1) PROVE TypeOfBody(p, g) = TypeOfBody(p, h)
    <3>1. PICK env, e : env = p[1] /\ e = p[2] /\ p = <<env, e>>
      BY LowExprsFacts
    <3>2. env \in TypeEnvs /\ e \in LowExprs(n + 1)
      BY <3>1
    <3>3. e \in Exprs /\ \A i \in DOMAIN e.subs : e.subs[i] \in LowExprs(n)
      BY <3>2, LowExprsFacts, LowExprParts
    <3>4. /\ e.op \in DOMAIN Arity \ {"cast"} /\ e.t \in Types /\ DOMAIN e.subs = 1..Arity[e.op]
          /\ e.op \in {"var", "fun", "let"} => e.x \in Names
      BY <3>3, ExprFields
    <3>5. ASSUME NEW d \in TypeEnvs, NEW i \in DOMAIN e.subs
          PROVE  g[<<d, e.subs[i]>>] = h[<<d, e.subs[i]>>] /\ g[<<d, e.subs[i]>>] \in OrIll
      <4>1. <<d, e.subs[i]>> \in Dom(n)
        BY <3>3
      <4>2. g[<<d, e.subs[i]>>] \in OrIll
        BY <2>1, <4>1
      <4>3. QED
        BY <2>3, <4>1, <4>2
    <3>6. CASE e.op \in {"int", "bool", "var"}
      <4>1. TypeOfBody(<<env, e>>, g) = TypeOfBody(<<env, e>>, h)
        BY <3>6, TypeOfBodyLeaf
      <4>2. QED
        BY <3>1, <4>1
    <3>7. CASE e.op = "fun"
      <4>1. Extend(env, e.x, e.t) \in TypeEnvs
        BY <3>2, <3>4, <3>7, ExtendTypes DEF OrIll
      <4>2. 1 \in DOMAIN e.subs
        BY <3>4, <3>7, Ops
      <4>3. g[<<Extend(env, e.x, e.t), e.subs[1]>>] = h[<<Extend(env, e.x, e.t), e.subs[1]>>]
        BY <3>5, <4>1, <4>2
      <4>4. QED
        <5>1. TypeOfBody(<<env, e>>, g) = TypeOfBody(<<env, e>>, h)
          BY <3>7, <4>3, TypeOfBodyFun
        <5>2. QED
          BY <3>1, <5>1
    <3>8. CASE e.op = "let"
      <4>1. 1 \in DOMAIN e.subs /\ 2 \in DOMAIN e.subs /\ e.x \in Names
        BY <3>4, <3>8, Ops
      <4>2. PICK value : value = g[<<env, e.subs[1]>>]
        OBVIOUS
      <4>3. value = h[<<env, e.subs[1]>>] /\ value \in OrIll
        BY <3>2, <3>5, <4>1, <4>2
      <4>4. Extend(env, e.x, value) \in TypeEnvs
        BY <3>2, <4>1, <4>3, ExtendTypes
      <4>5. g[<<Extend(env, e.x, value), e.subs[2]>>] = h[<<Extend(env, e.x, value), e.subs[2]>>]
        BY <3>5, <4>1, <4>4
      <4>6. QED
        <5>1. TypeOfBody(<<env, e>>, g) =
                IF value = Ill THEN Ill ELSE g[<<Extend(env, e.x, value), e.subs[2]>>]
          BY <3>8, <4>2, TypeOfBodyLet
        <5>2. TypeOfBody(<<env, e>>, h) =
                IF value = Ill THEN Ill ELSE h[<<Extend(env, e.x, value), e.subs[2]>>]
          BY <3>8, <4>3, TypeOfBodyLet
        <5>3. QED
          BY <3>1, <4>5, <5>1, <5>2
    <3>9. CASE e.op \notin {"int", "bool", "var", "fun", "let"}
      <4>1. \A i \in DOMAIN e.subs : g[<<env, e.subs[i]>>] = h[<<env, e.subs[i]>>]
        BY <3>2, <3>5
      <4>2. PICK ts : ts = PartTypes(env, e, g)
        OBVIOUS
      <4>3. ts = PartTypes(env, e, h)
        BY <4>1, <4>2 DEF PartTypes
      <4>4. TypeOfBody(<<env, e>>, g) = TypeOfBody(<<env, e>>, h)
        <5>1. TypeOfBody(<<env, e>>, g) =
                IF \E i \in DOMAIN e.subs : ts[i] = Ill THEN Ill ELSE TypeOfParts(e, ts)
          BY <3>9, <4>2, TypeOfBodyOther
        <5>2. TypeOfBody(<<env, e>>, h) =
                IF \E i \in DOMAIN e.subs : ts[i] = Ill THEN Ill ELSE TypeOfParts(e, ts)
          BY <3>9, <4>3, TypeOfBodyOther
        <5>3. QED
          BY <5>1, <5>2
      <4>5. QED
        BY <3>1, <4>4
    <3>10. QED
      BY <3>6, <3>7, <3>8, <3>9
  <2>5. ASSUME NEW p \in Dom(n + 1) PROVE h[p] \in OrIll
    <3>1. p = <<p[1], p[2]>> /\ p[1] \in TypeEnvs /\ p[2] \in LowExprs(n + 1)
      OBVIOUS
    <3>2. h[p] = TypeOfBody(<<p[1], p[2]>>, g)
      BY <2>2, <3>1
    <3>3. \A q \in TypeEnvs \X LowExprs(n) : g[q] \in OrIll
      BY <2>1
    <3>4. QED
      BY <3>1, <3>2, <3>3, TypeOfBodyTyped
  <2>6. Up(h, n + 1)
    <3> HIDE DEF Dom
    <3>1. QED
      BY <2>2, <2>4, <2>5
  <2> HIDE DEF Up
  <2>7. QED
    BY <2>6
<1> HIDE DEF Up
<1> HIDE DEF T
<1>3. MaxHeight + 1 \in T
  BY <1>1, <1>2, NumbersFromZero, GtlcAssumption
<1>4. PICK g : Up(g, MaxHeight + 1)
  BY <1>3 DEF T
<1>5. Dom(MaxHeight + 1) = TypeEnvs \X Exprs
  BY LowExprsFacts, GtlcAssumption
<1> HIDE DEF Dom
<1>6. \E f : f = [p \in TypeEnvs \X Exprs |-> TypeOfBody(p, f)]
  BY <1>4, <1>5 DEF Up
<1>7. TypeOf = CHOOSE f : f = [p \in TypeEnvs \X Exprs |-> TypeOfBody(p, f)]
  BY DEF TypeOf, TypeOfBody
<1>8. TypeOf = [p \in TypeEnvs \X Exprs |-> TypeOfBody(p, TypeOf)]
  BY <1>6, <1>7
<1>9. QED
  BY <1>8

LEMMA TypeOfTyped == \A p \in TypeEnvs \X Exprs : TypeOf[p] \in OrIll
<1> DEFINE T == {n \in Nat : \A p \in TypeEnvs \X LowExprs(n) : TypeOf[p] \in OrIll}
<1>1. 0 \in T
  BY LowExprsFacts
<1>2. ASSUME NEW n \in Nat, n \in T PROVE n + 1 \in T
  <2>1. ASSUME NEW p \in TypeEnvs \X LowExprs(n + 1) PROVE TypeOf[p] \in OrIll
    <3>1. PICK env, e : p = <<env, e>> /\ env \in TypeEnvs /\ e \in LowExprs(n + 1)
      OBVIOUS
    <3>2. n + 1 \in Nat /\ e \in Exprs
      BY <3>1, LowExprsFacts
    <3>3. TypeOf[p] = TypeOfBody(<<env, e>>, TypeOf)
      BY <3>1, <3>2, TypeOfUnfold
    <3>4. \A q \in TypeEnvs \X LowExprs(n) : TypeOf[q] \in OrIll
      BY <1>2
    <3>5. QED
      BY <3>1, <3>3, <3>4, TypeOfBodyTyped
  <2>2. QED
    BY <2>1
<1> HIDE DEF T
<1>3. MaxHeight + 1 \in T /\ MaxHeight + 1 \in Nat
  BY <1>1, <1>2, NumbersFromZero, GtlcAssumption
<1>4. QED
  BY <1>3, LowExprsFacts DEF T

LEMMA TypeOfNode ==
  ASSUME NEW env \in TypeEnvs, NEW e \in Exprs
  PROVE  type_of(env, e) = TypeOfBody(<<env, e>>, TypeOf) /\ type_of(env, e) \in OrIll
<1>1. TypeOf[<<env, e>>] = TypeOfBody(<<env, e>>, TypeOf) /\ TypeOf[<<env, e>>] \in OrIll
  BY TypeOfUnfold, TypeOfTyped
<1>2. QED
  BY <1>1 DEF type_of

LEMMA TypeOfLeaf ==
  ASSUME NEW env \in TypeEnvs, NEW e \in Exprs
  PROVE  /\ e.op = "int" => type_of(env, e) = Int_
         /\ e.op = "bool" => type_of(env, e) = Bool_
         /\ e.op = "var" => type_of(env, e) = env[e.x]
<1>1. type_of(env, e) = TypeOfBody(<<env, e>>, TypeOf)
  BY TypeOfNode
<1>2. QED
  BY <1>1, TypeOfBodyLeaf

LEMMA TypeOfFun ==
  ASSUME NEW env \in TypeEnvs, NEW e \in Exprs, e.op = "fun"
  PROVE  type_of(env, e) = Arrow(e.t, type_of(Extend(env, e.x, e.t), e.subs[1]))
BY TypeOfNode, TypeOfBodyFun DEF type_of

LEMMA TypeOfLet ==
  ASSUME NEW env \in TypeEnvs, NEW e \in Exprs, e.op = "let",
         NEW value, value = type_of(env, e.subs[1])
  PROVE  type_of(env, e) =
           IF value = Ill THEN Ill ELSE type_of(Extend(env, e.x, value), e.subs[2])
<1>1. value = TypeOf[<<env, e.subs[1]>>]
  BY DEF type_of
<1>2. TypeOfBody(<<env, e>>, TypeOf) =
        IF value = Ill THEN Ill ELSE TypeOf[<<Extend(env, e.x, value), e.subs[2]>>]
  BY <1>1, TypeOfBodyLet
<1>3. QED
  BY <1>2, TypeOfNode DEF type_of

LEMMA TypeOfOther ==
  ASSUME NEW env \in TypeEnvs, NEW e \in Exprs, e.op \notin {"int", "bool", "var", "fun", "let"},
         NEW ts, ts = [i \in DOMAIN e.subs |-> type_of(env, e.subs[i])]
  PROVE  type_of(env, e) =
           IF \E i \in DOMAIN e.subs : ts[i] = Ill THEN Ill ELSE TypeOfParts(e, ts)
<1>1. ts = PartTypes(env, e, TypeOf)
  BY DEF type_of, PartTypes
<1>2. TypeOfBody(<<env, e>>, TypeOf) =
        IF \E i \in DOMAIN e.subs : ts[i] = Ill THEN Ill ELSE TypeOfParts(e, ts)
  BY <1>1, TypeOfBodyOther
<1>3. QED
  BY <1>2, TypeOfNode

-----------------------------------------------------------------------------
(* Elaboration.                                                            *)

LEMMA TypeKinds ==
  /\ Int_ # Bool_ /\ Int_ # Any /\ Bool_ # Any
  /\ ~IsArr(Int_) /\ ~IsArr(Bool_) /\ ~IsArr(Any)
  /\ Ground(Int_) = "int" /\ Ground(Bool_) = "bool" /\ Ground(Any) = "any"
  /\ Int_ \in Types /\ Bool_ \in Types /\ Any \in Types
  /\ \A t \in Types : t = Int_ \/ t = Bool_ \/ t = Any \/ IsArr(t)
  /\ \A t : IsArr(t) <=> Ground(t) = "fun"
<1>1. \A t \in Types : t = Int_ \/ t = Bool_ \/ t = Any \/ IsArr(t)
  BY TypeShape DEF Base
<1>2. Int_ \in Types /\ Bool_ \in Types /\ Any \in Types
  BY BaseTypes
<1>3. QED
  BY <1>1, <1>2 DEF Int_, Bool_, Any, IsArr, Ground

LEMMA ArrowFields ==
  ASSUME NEW a, NEW b
  PROVE  Arr(a, b)[2] = a /\ Arr(a, b)[3] = b /\ IsArr(Arr(a, b))
BY DEF Arr, IsArr, Ground

LEMMA DynamicType == Dynamic \in Types /\ IsArr(Dynamic)
<1>1. 0 \in Nat /\ 0 + 1 \in 0..MaxTypeHeight
  BY GtlcAssumption
<1>2. Any \in TypesOfHeight[0]
  BY TypesStart DEF Base
<1>3. Arr(Any, Any) \in TypesOfHeight[0 + 1]
  BY <1>1, <1>2, ArrowOfParts
<1>4. Arr(Any, Any) \in Types
  BY <1>1, <1>3, TypesStep
<1>5. QED
  BY <1>4, ArrowFields DEF Dynamic

(* What a well-typed function or let says of its parts.                    *)
LEMMA WellTypedFun ==
  ASSUME NEW env \in TypeEnvs, NEW e \in Exprs, e.op = "fun", type_of(env, e) # Ill,
         NEW d, d = Extend(env, e.x, e.t)
  PROVE  /\ d \in TypeEnvs /\ 1 \in DOMAIN e.subs /\ e.x \in Names /\ e.t \in Types
         /\ type_of(d, e.subs[1]) \in Types
         /\ type_of(env, e) = Arr(e.t, type_of(d, e.subs[1]))
         /\ type_of(env, e) \in Types
<1>1. /\ e.x \in Names /\ e.t \in Types /\ 1 \in DOMAIN e.subs /\ e.subs[1] \in Exprs
  BY ExprFields, Ops
<1>2. d \in TypeEnvs
  BY <1>1, ExtendTypes DEF OrIll
<1>3. PICK b : b = type_of(d, e.subs[1])
  OBVIOUS
<1>4. type_of(env, e) = Arrow(e.t, b)
  BY <1>3, TypeOfFun
<1>5. Arr(e.t, b) \in Types /\ type_of(env, e) = Arr(e.t, b)
  BY <1>4 DEF Arrow
<1>6. b \in Types
  <2>1. PICK t : t = Arr(e.t, b)
    OBVIOUS
  <2>2. t \in Types /\ IsArr(t) /\ t[3] = b
    BY <1>5, <2>1, ArrowFields
  <2>3. QED
    BY <2>2, TypeShape
<1>7. QED
  BY <1>1, <1>2, <1>3, <1>5, <1>6

LEMMA WellTypedLet ==
  ASSUME NEW env \in TypeEnvs, NEW e \in Exprs, e.op = "let", type_of(env, e) # Ill,
         NEW v, v = type_of(env, e.subs[1]), NEW d, d = Extend(env, e.x, v)
  PROVE  /\ 1 \in DOMAIN e.subs /\ 2 \in DOMAIN e.subs /\ e.x \in Names
         /\ v \in Types /\ d \in TypeEnvs
         /\ type_of(d, e.subs[2]) = type_of(env, e)
<1>1. /\ e.x \in Names /\ 1 \in DOMAIN e.subs /\ 2 \in DOMAIN e.subs /\ e.subs[1] \in Exprs
  BY ExprFields, Ops
<1>2. v \in OrIll
  BY <1>1, TypeOfNode
<1>3. d \in TypeEnvs
  BY <1>1, <1>2, ExtendTypes
<1>4. v # Ill /\ type_of(env, e) = type_of(d, e.subs[2])
  BY TypeOfLet
<1>5. QED
  BY <1>1, <1>2, <1>3, <1>4, IllIsNoType

LEMMA WellTypedOther ==
  ASSUME NEW env \in TypeEnvs, NEW e \in Exprs, e.op \notin {"int", "bool", "var", "fun", "let"},
         type_of(env, e) # Ill
  PROVE  /\ e.op \in {"app", "bin", "if", "ann"}
         /\ \A i \in DOMAIN e.subs : type_of(env, e.subs[i]) \in Types
         /\ type_of(env, e) = TypeOfParts(e, [i \in DOMAIN e.subs |-> type_of(env, e.subs[i])])
<1>1. e.op \in {"app", "bin", "if", "ann"} /\ \A i \in DOMAIN e.subs : e.subs[i] \in Exprs
  BY ExprFields, Ops
<1>2. PICK ts : ts = [i \in DOMAIN e.subs |-> type_of(env, e.subs[i])]
  OBVIOUS
<1>3. type_of(env, e) = IF \E i \in DOMAIN e.subs : ts[i] = Ill THEN Ill ELSE TypeOfParts(e, ts)
  BY <1>2, TypeOfOther
<1>4. (\A i \in DOMAIN e.subs : ts[i] # Ill) /\ type_of(env, e) = TypeOfParts(e, ts)
  BY <1>3
<1>5. \A i \in DOMAIN e.subs : type_of(env, e.subs[i]) \in Types
  BY <1>1, <1>2, <1>4, TypeOfNode, IllIsNoType
<1>6. QED
  BY <1>1, <1>2, <1>4, <1>5

(* The types of the nodes that bind nothing, by constructor.               *)
LEMMA WellTypedApp ==
  ASSUME NEW env \in TypeEnvs, NEW e \in Exprs, e.op = "app", type_of(env, e) # Ill,
         NEW f, f = type_of(env, e.subs[1])
  PROVE  /\ IsArr(f) => type_of(env, e) = f[3]
         /\ ~IsArr(f) => f = Any /\ type_of(env, e) = Any
<1>1. PICK ts : ts = [i \in DOMAIN e.subs |-> type_of(env, e.subs[i])]
  OBVIOUS
<1>2. type_of(env, e) = TypeOfParts(e, ts)
  BY <1>1, WellTypedOther
<1>3. ts[1] = f
  <2>1. 1 \in DOMAIN e.subs
    BY ExprFields, Ops
  <2>2. QED
    BY <1>1, <2>1
<1>4. TypeOfParts(e, ts) = Applied(f, ts[2])
  BY <1>3 DEF TypeOfParts
<1>5. QED
  BY <1>2, <1>4, TypeKinds DEF Applied, require_consistent

LEMMA WellTypedBin ==
  ASSUME NEW env \in TypeEnvs, NEW e \in Exprs, e.op = "bin", type_of(env, e) # Ill
  PROVE  type_of(env, e) = Int_
<1>1. PICK ts : ts = [i \in DOMAIN e.subs |-> type_of(env, e.subs[i])]
  OBVIOUS
<1>2. type_of(env, e) = TypeOfParts(e, ts)
  BY <1>1, WellTypedOther
<1>3. QED
  BY <1>2 DEF TypeOfParts, require_consistent

LEMMA WellTypedIf ==
  ASSUME NEW env \in TypeEnvs, NEW e \in Exprs, e.op = "if", type_of(env, e) # Ill
  PROVE  type_of(env, e) = common_branch_type(type_of(env, e.subs[2]), type_of(env, e.subs[3]))
<1>1. PICK ts : ts = [i \in DOMAIN e.subs |-> type_of(env, e.subs[i])]
  OBVIOUS
<1>2. type_of(env, e) = TypeOfParts(e, ts)
  BY <1>1, WellTypedOther
<1>3. 2 \in DOMAIN e.subs /\ 3 \in DOMAIN e.subs
  BY ExprFields, Ops
<1>4. TypeOfParts(e, ts) = require_consistent(consistent(ts[1], Bool_), common_branch_type(ts[2], ts[3]))
  BY DEF TypeOfParts
<1>5. type_of(env, e) = common_branch_type(ts[2], ts[3])
  BY <1>2, <1>4 DEF require_consistent
<1>6. QED
  BY <1>1, <1>3, <1>5

LEMMA WellTypedAnn ==
  ASSUME NEW env \in TypeEnvs, NEW e \in Exprs, e.op = "ann", type_of(env, e) # Ill
  PROVE  type_of(env, e) = e.t
<1>1. PICK ts : ts = [i \in DOMAIN e.subs |-> type_of(env, e.subs[i])]
  OBVIOUS
<1>2. type_of(env, e) = TypeOfParts(e, ts)
  BY <1>1, WellTypedOther
<1>3. QED
  BY <1>2 DEF TypeOfParts, require_consistent

ElaborateBody(p, g) ==
  LET env == p[1] e == p[2]
      part(i) == g[<<env, e.subs[i]>>]
      under(t, i) == g[<<Extend(env, e.x, t), e.subs[i]>>]
  IN CASE e.op = "int" -> Elaborated(e, Int_, <<>>)
       [] e.op = "bool" -> Elaborated(e, Bool_, <<>>)
       [] e.op = "var" -> Elaborated(e, env[e.x], <<>>)
       [] e.op = "fun" ->
            LET body == under(e.t, 1)
            IN  Elaborated(e, Arr(e.t, body.t), <<body.ir>>)
       [] e.op = "app" -> elaborate_application(e, part(1), part(2))
       [] e.op = "bin" ->
            Elaborated(e, Int_, <<cast_ir(part(1), Int_), cast_ir(part(2), Int_)>>)
       [] e.op = "if" -> elaborate_if(e, part(1), part(2), part(3))
       [] e.op = "let" ->
            LET value == part(1) body == under(value.t, 2)
            IN  Elaborated(e, body.t, <<value.ir, body.ir>>)
       [] e.op = "ann" -> [t |-> e.t, ir |-> cast_ir(part(1), e.t)]

LEMMA ElaborateBodyLeaf ==
  ASSUME NEW env, NEW e, NEW g
  PROVE  /\ e.op = "int" => ElaborateBody(<<env, e>>, g) = Elaborated(e, Int_, <<>>)
         /\ e.op = "bool" => ElaborateBody(<<env, e>>, g) = Elaborated(e, Bool_, <<>>)
         /\ e.op = "var" => ElaborateBody(<<env, e>>, g) = Elaborated(e, env[e.x], <<>>)
<1>1. CASE e.op = "int"
  BY <1>1 DEF ElaborateBody
<1>2. CASE e.op = "bool"
  BY <1>2 DEF ElaborateBody
<1>3. CASE e.op = "var"
  BY <1>3 DEF ElaborateBody
<1>4. QED
  BY <1>1, <1>2, <1>3

LEMMA ElaborateBodyFun ==
  ASSUME NEW env, NEW e, NEW g, e.op = "fun",
         NEW b, b = g[<<Extend(env, e.x, e.t), e.subs[1]>>]
  PROVE  ElaborateBody(<<env, e>>, g) = Elaborated(e, Arr(e.t, b.t), <<b.ir>>)
BY DEF ElaborateBody

LEMMA ElaborateBodyLet ==
  ASSUME NEW env, NEW e, NEW g, e.op = "let",
         NEW v, v = g[<<env, e.subs[1]>>], NEW b, b = g[<<Extend(env, e.x, v.t), e.subs[2]>>]
  PROVE  ElaborateBody(<<env, e>>, g) = Elaborated(e, b.t, <<v.ir, b.ir>>)
BY DEF ElaborateBody

(* The nodes that bind nothing, made of their parts.                       *)
OfParts(e, ps) ==
  CASE e.op = "app" -> elaborate_application(e, ps[1], ps[2])
    [] e.op = "bin" -> Elaborated(e, Int_, <<cast_ir(ps[1], Int_), cast_ir(ps[2], Int_)>>)
    [] e.op = "if" -> elaborate_if(e, ps[1], ps[2], ps[3])
    [] e.op = "ann" -> [t |-> e.t, ir |-> cast_ir(ps[1], e.t)]

LEMMA ElaborateBodyOther ==
  ASSUME NEW env, NEW e \in Exprs, NEW g, e.op \in {"app", "bin", "if", "ann"},
         NEW ps, ps = PartTypes(env, e, g)
  PROVE  ElaborateBody(<<env, e>>, g) = OfParts(e, ps)
<1>1. DOMAIN e.subs = 1..Arity[e.op] /\ \A i \in DOMAIN e.subs : ps[i] = g[<<env, e.subs[i]>>]
  BY ExprFields DEF PartTypes
<1>2. CASE e.op = "app"
  <2>1. ps[1] = g[<<env, e.subs[1]>>] /\ ps[2] = g[<<env, e.subs[2]>>]
    BY <1>1, <1>2, Ops
  <2>2. QED
    BY <1>2, <2>1 DEF ElaborateBody, OfParts
<1>3. CASE e.op = "bin"
  <2>1. ps[1] = g[<<env, e.subs[1]>>] /\ ps[2] = g[<<env, e.subs[2]>>]
    BY <1>1, <1>3, Ops
  <2>2. QED
    BY <1>3, <2>1 DEF ElaborateBody, OfParts
<1>4. CASE e.op = "if"
  <2>1. /\ ps[1] = g[<<env, e.subs[1]>>] /\ ps[2] = g[<<env, e.subs[2]>>]
        /\ ps[3] = g[<<env, e.subs[3]>>]
    BY <1>1, <1>4, Ops
  <2>2. QED
    BY <1>4, <2>1 DEF ElaborateBody, OfParts
<1>5. CASE e.op = "ann"
  <2>1. ps[1] = g[<<env, e.subs[1]>>]
    BY <1>1, <1>5, Ops
  <2>2. QED
    BY <1>5, <2>1 DEF ElaborateBody, OfParts
<1>6. QED
  BY <1>2, <1>3, <1>4, <1>5

(* The type of what is elaborated, if those of its parts are right.        *)
TypedParts(env, e, ps) == \A i \in DOMAIN e.subs : ps[i].t = type_of(env, e.subs[i])

LEMMA OfPartsTyped ==
  ASSUME NEW env \in TypeEnvs, NEW e \in Exprs, e.op \in {"app", "bin", "if", "ann"},
         type_of(env, e) # Ill,
         NEW ps, TypedParts(env, e, ps)
  PROVE  OfParts(e, ps).t = type_of(env, e)
<1>1. DOMAIN e.subs = 1..Arity[e.op]
  BY ExprFields
<1>2. CASE e.op = "app"
  <2>1. ps[1].t = type_of(env, e.subs[1])
    BY <1>1, <1>2, Ops DEF TypedParts
  <2>2. PICK f, a : f = ps[1] /\ a = ps[2]
    OBVIOUS
  <2>3. OfParts(e, ps) = elaborate_application(e, f, a)
    BY <1>2, <2>2 DEF OfParts
  <2>4. elaborate_application(e, f, a).t = IF IsArr(f.t) THEN f.t[3] ELSE Any
    BY DEF elaborate_application, Elaborated
  <2>5. QED
    BY <1>2, <2>1, <2>2, <2>3, <2>4, WellTypedApp
<1>3. CASE e.op = "bin"
  <2>1. OfParts(e, ps).t = Int_
    BY <1>3 DEF OfParts, Elaborated
  <2>2. QED
    BY <1>3, <2>1, WellTypedBin
<1>4. CASE e.op = "if"
  <2>1. ps[2].t = type_of(env, e.subs[2]) /\ ps[3].t = type_of(env, e.subs[3])
    BY <1>1, <1>4, Ops DEF TypedParts
  <2>2. PICK c, y, n : c = ps[1] /\ y = ps[2] /\ n = ps[3]
    OBVIOUS
  <2>3. OfParts(e, ps) = elaborate_if(e, c, y, n)
    BY <1>4, <2>2 DEF OfParts
  <2>4. elaborate_if(e, c, y, n).t = common_branch_type(y.t, n.t)
    BY DEF elaborate_if, Elaborated
  <2>5. QED
    BY <1>4, <2>1, <2>2, <2>3, <2>4, WellTypedIf
<1>5. CASE e.op = "ann"
  <2>1. OfParts(e, ps).t = e.t
    BY <1>5 DEF OfParts
  <2>2. QED
    BY <1>5, <2>1, WellTypedAnn
<1>6. QED
  BY <1>2, <1>3, <1>4, <1>5

(* One level of elaboration.                                               *)
WellTypedBelow(n) == {p \in TypeEnvs \X LowExprs(n) : TypeOf[p] # Ill}

LEMMA WellTypedBelowFacts ==
  ASSUME NEW n \in Nat
  PROVE  /\ WellTypedBelow(0) = {} /\ WellTypedBelow(MaxHeight + 1) = Typable
         /\ WellTypedBelow(n) \subseteq WellTypedBelow(n + 1)
         /\ \A p \in WellTypedBelow(n + 1) :
              /\ p = <<p[1], p[2]>> /\ p[1] \in TypeEnvs /\ p[2] \in LowExprs(n + 1) /\ p[2] \in Exprs
              /\ type_of(p[1], p[2]) # Ill
<1>1. LowExprs(0) = {} /\ LowExprs(MaxHeight + 1) = Exprs /\ LowExprs(n) \subseteq LowExprs(n + 1)
  BY LowExprsFacts
<1>2. LowExprs(n + 1) \subseteq Exprs
  <2>1. n + 1 \in Nat
    OBVIOUS
  <2>2. QED
    BY <2>1, LowExprsFacts
<1>3. WellTypedBelow(0) = {}
  BY <1>1 DEF WellTypedBelow
<1>4. WellTypedBelow(MaxHeight + 1) = Typable
  BY <1>1 DEF WellTypedBelow, Typable
<1>5. WellTypedBelow(n) \subseteq WellTypedBelow(n + 1)
  BY <1>1 DEF WellTypedBelow
<1>6. ASSUME NEW p \in WellTypedBelow(n + 1)
      PROVE  /\ p = <<p[1], p[2]>> /\ p[1] \in TypeEnvs /\ p[2] \in LowExprs(n + 1) /\ p[2] \in Exprs
             /\ type_of(p[1], p[2]) # Ill
  <2>1. p \in TypeEnvs \X LowExprs(n + 1) /\ TypeOf[p] # Ill
    BY DEF WellTypedBelow
  <2>2. p = <<p[1], p[2]>> /\ p[1] \in TypeEnvs /\ p[2] \in LowExprs(n + 1)
    BY <2>1
  <2>3. QED
    BY <1>2, <2>1, <2>2 DEF type_of
<1>7. QED
  BY <1>3, <1>4, <1>5, <1>6

LEMMA InWellTypedBelow ==
  ASSUME NEW n, NEW env \in TypeEnvs, NEW e \in LowExprs(n), type_of(env, e) # Ill
  PROVE  <<env, e>> \in WellTypedBelow(n)
BY DEF WellTypedBelow, type_of

Agree(n, g, h) ==
  \A q \in WellTypedBelow(n) : g[q] = h[q] /\ g[q].t = type_of(q[1], q[2])

(* The parts that elaboration visits are well-typed; what it makes of a    *)
(* node depends on them alone, and has the node's type.                    *)
LEMMA ElaborateStep ==
  ASSUME NEW n \in Nat, NEW g, NEW h, Agree(n, g, h),
         NEW env \in TypeEnvs, NEW e \in LowExprs(n + 1), type_of(env, e) # Ill
  PROVE  /\ ElaborateBody(<<env, e>>, g) = ElaborateBody(<<env, e>>, h)
         /\ ElaborateBody(<<env, e>>, g).t = type_of(env, e)
<1>1. e \in Exprs /\ \A i \in DOMAIN e.subs : e.subs[i] \in LowExprs(n)
  BY LowExprsFacts, LowExprParts
<1>2. ASSUME NEW d \in TypeEnvs, NEW i \in DOMAIN e.subs, type_of(d, e.subs[i]) # Ill
      PROVE  /\ g[<<d, e.subs[i]>>] = h[<<d, e.subs[i]>>]
             /\ g[<<d, e.subs[i]>>].t = type_of(d, e.subs[i])
  <2>1. <<d, e.subs[i]>> \in WellTypedBelow(n)
    BY <1>1, <1>2, InWellTypedBelow
  <2>2. QED
    BY <2>1 DEF Agree
<1>3. Ill \notin Types
  BY TypeShape
<1>4. CASE e.op = "int"
  <2>1. ElaborateBody(<<env, e>>, g) = Elaborated(e, Int_, <<>>)
    BY <1>4, ElaborateBodyLeaf
  <2>2. ElaborateBody(<<env, e>>, h) = Elaborated(e, Int_, <<>>)
    BY <1>4, ElaborateBodyLeaf
  <2>3. type_of(env, e) = Int_
    BY <1>1, <1>4, TypeOfLeaf
  <2>4. Elaborated(e, Int_, <<>>).t = Int_
    BY DEF Elaborated
  <2>5. QED
    BY <2>1, <2>2, <2>3, <2>4
<1>5. CASE e.op = "bool"
  <2>1. ElaborateBody(<<env, e>>, g) = Elaborated(e, Bool_, <<>>)
    BY <1>5, ElaborateBodyLeaf
  <2>2. ElaborateBody(<<env, e>>, h) = Elaborated(e, Bool_, <<>>)
    BY <1>5, ElaborateBodyLeaf
  <2>3. type_of(env, e) = Bool_
    BY <1>1, <1>5, TypeOfLeaf
  <2>4. Elaborated(e, Bool_, <<>>).t = Bool_
    BY DEF Elaborated
  <2>5. QED
    BY <2>1, <2>2, <2>3, <2>4
<1>6. CASE e.op = "var"
  <2>1. ElaborateBody(<<env, e>>, g) = Elaborated(e, env[e.x], <<>>)
    BY <1>6, ElaborateBodyLeaf
  <2>2. ElaborateBody(<<env, e>>, h) = Elaborated(e, env[e.x], <<>>)
    BY <1>6, ElaborateBodyLeaf
  <2>3. type_of(env, e) = env[e.x]
    BY <1>1, <1>6, TypeOfLeaf
  <2>4. Elaborated(e, env[e.x], <<>>).t = env[e.x]
    BY DEF Elaborated
  <2>5. QED
    BY <2>1, <2>2, <2>3, <2>4
<1>7. CASE e.op = "fun"
  <2>1. PICK d : d = Extend(env, e.x, e.t)
    OBVIOUS
  <2>2. /\ d \in TypeEnvs /\ 1 \in DOMAIN e.subs /\ type_of(d, e.subs[1]) \in Types
        /\ type_of(env, e) = Arr(e.t, type_of(d, e.subs[1]))
    BY <1>1, <1>7, <2>1, WellTypedFun
  <2>3. PICK b : b = g[<<d, e.subs[1]>>]
    OBVIOUS
  <2>4. b = h[<<d, e.subs[1]>>] /\ b.t = type_of(d, e.subs[1])
    BY <1>2, <1>3, <2>2, <2>3
  <2>5. ElaborateBody(<<env, e>>, g) = Elaborated(e, Arr(e.t, b.t), <<b.ir>>)
    BY <1>7, <2>1, <2>3, ElaborateBodyFun
  <2>6. ElaborateBody(<<env, e>>, h) = Elaborated(e, Arr(e.t, b.t), <<b.ir>>)
    BY <1>7, <2>1, <2>4, ElaborateBodyFun
  <2>7. QED
    BY <2>2, <2>4, <2>5, <2>6 DEF Elaborated
<1>8. CASE e.op = "let"
  <2>1. PICK vt : vt = type_of(env, e.subs[1])
    OBVIOUS
  <2>2. PICK d : d = Extend(env, e.x, vt)
    OBVIOUS
  <2>3. /\ 1 \in DOMAIN e.subs /\ 2 \in DOMAIN e.subs
        /\ vt \in Types /\ d \in TypeEnvs
        /\ type_of(d, e.subs[2]) = type_of(env, e)
    BY <1>1, <1>8, <2>1, <2>2, WellTypedLet
  <2>4. PICK v : v = g[<<env, e.subs[1]>>]
    OBVIOUS
  <2>5. v = h[<<env, e.subs[1]>>] /\ v.t = vt
    BY <1>2, <1>3, <2>1, <2>3, <2>4
  <2>6. PICK b : b = g[<<Extend(env, e.x, v.t), e.subs[2]>>]
    OBVIOUS
  <2>7. b = h[<<Extend(env, e.x, v.t), e.subs[2]>>] /\ b.t = type_of(env, e)
    BY <1>2, <2>2, <2>3, <2>5, <2>6
  <2>8. ElaborateBody(<<env, e>>, g) = Elaborated(e, b.t, <<v.ir, b.ir>>)
    BY <1>8, <2>4, <2>6, ElaborateBodyLet
  <2>9. ElaborateBody(<<env, e>>, h) = Elaborated(e, b.t, <<v.ir, b.ir>>)
    BY <1>8, <2>5, <2>7, ElaborateBodyLet
  <2>10. QED
    BY <2>7, <2>8, <2>9 DEF Elaborated
<1>9. CASE e.op \notin {"int", "bool", "var", "fun", "let"}
  <2>1. /\ e.op \in {"app", "bin", "if", "ann"}
        /\ \A i \in DOMAIN e.subs : type_of(env, e.subs[i]) \in Types
    BY <1>1, <1>9, WellTypedOther
  <2>2. PICK ps : ps = PartTypes(env, e, g)
    OBVIOUS
  <2>3. ASSUME NEW i \in DOMAIN e.subs
        PROVE  /\ g[<<env, e.subs[i]>>] = h[<<env, e.subs[i]>>]
               /\ ps[i].t = type_of(env, e.subs[i])
    BY <1>2, <1>3, <2>1, <2>2 DEF PartTypes
  <2>4. ps = PartTypes(env, e, h)
    BY <2>2, <2>3 DEF PartTypes
  <2>5. ElaborateBody(<<env, e>>, g) = OfParts(e, ps)
    BY <1>1, <2>1, <2>2, ElaborateBodyOther
  <2>6. ElaborateBody(<<env, e>>, h) = OfParts(e, ps)
    BY <1>1, <2>1, <2>4, ElaborateBodyOther
  <2>7. TypedParts(env, e, ps)
    BY <2>3 DEF TypedParts
  <2>8. OfParts(e, ps).t = type_of(env, e)
    BY <1>1, <2>1, <2>7, OfPartsTyped
  <2>9. QED
    BY <2>5, <2>6, <2>8
<1>10. QED
  BY <1>4, <1>5, <1>6, <1>7, <1>8, <1>9

LEMMA ElaborateUnfold ==
  \A p \in Typable :
    Elaborate[p] = ElaborateBody(p, Elaborate) /\ Elaborate[p].t = type_of(p[1], p[2])
<1> DEFINE Up(g, n) == /\ g = [p \in WellTypedBelow(n) |-> ElaborateBody(p, g)]
                       /\ \A p \in WellTypedBelow(n) : g[p].t = type_of(p[1], p[2])
           T == {n \in Nat : \E g : Up(g, n)}
<1>1. 0 \in T
  <2>1. PICK g : g = [p \in WellTypedBelow(0) |-> 0]
    OBVIOUS
  <2>2. WellTypedBelow(0) = {}
    BY WellTypedBelowFacts
  <2>3. Up(g, 0)
    BY <2>1, <2>2
  <2> HIDE DEF Up
  <2>4. QED
    BY <2>3
<1>2. ASSUME NEW n \in Nat, n \in T PROVE n + 1 \in T
  <2>1. PICK g : Up(g, n)
    BY <1>2
  <2>2. PICK h : h = [p \in WellTypedBelow(n + 1) |-> ElaborateBody(p, g)]
    OBVIOUS
  <2>3. ASSUME NEW q \in WellTypedBelow(n) PROVE g[q] = h[q] /\ g[q].t = type_of(q[1], q[2])
    <3>1. q \in WellTypedBelow(n + 1)
      BY WellTypedBelowFacts
    <3>2. QED
      BY <2>1, <2>2, <3>1
  <2>4. ASSUME NEW p \in WellTypedBelow(n + 1)
        PROVE  /\ ElaborateBody(p, g) = ElaborateBody(p, h)
               /\ ElaborateBody(p, g).t = type_of(p[1], p[2])
    <3>1. PICK env, e : env = p[1] /\ e = p[2]
      OBVIOUS
    <3>2. /\ p = <<env, e>> /\ env \in TypeEnvs /\ e \in LowExprs(n + 1)
          /\ type_of(env, e) # Ill
      BY <3>1, WellTypedBelowFacts
    <3>3. /\ ElaborateBody(<<env, e>>, g) = ElaborateBody(<<env, e>>, h)
          /\ ElaborateBody(<<env, e>>, g).t = type_of(env, e)
      <4>1. Agree(n, g, h)
        BY <2>3 DEF Agree
      <4>2. QED
        BY <3>2, <4>1, ElaborateStep
    <3>4. QED
      BY <3>1, <3>2, <3>3
  <2>5. h = [p \in WellTypedBelow(n + 1) |-> ElaborateBody(p, h)]
    BY <2>2, <2>4
  <2>6. \A p \in WellTypedBelow(n + 1) : h[p].t = type_of(p[1], p[2])
    BY <2>2, <2>4
  <2>7. Up(h, n + 1)
    BY <2>5, <2>6
  <2> HIDE DEF Up
  <2>8. QED
    BY <2>7
<1> HIDE DEF Up
<1> HIDE DEF T
<1>3. MaxHeight + 1 \in T
  BY <1>1, <1>2, NumbersFromZero, GtlcAssumption
<1>4. PICK g : Up(g, MaxHeight + 1)
  BY <1>3 DEF T
<1>5. WellTypedBelow(MaxHeight + 1) = Typable
  BY WellTypedBelowFacts, GtlcAssumption
<1>6. \E f : f = [p \in Typable |-> ElaborateBody(p, f)]
  BY <1>4, <1>5 DEF Up
<1>7. Elaborate = CHOOSE f : f = [p \in Typable |-> ElaborateBody(p, f)]
  BY DEF Elaborate, ElaborateBody
<1>8. Elaborate = [p \in Typable |-> ElaborateBody(p, Elaborate)]
  BY <1>6, <1>7
<1> DEFINE A == {n \in Nat : \A p \in WellTypedBelow(n) : Elaborate[p].t = type_of(p[1], p[2])}
<1>9. 0 \in A
  BY WellTypedBelowFacts
<1>10. ASSUME NEW n \in Nat, n \in A PROVE n + 1 \in A
  <2>1. ASSUME NEW p \in WellTypedBelow(n + 1) PROVE Elaborate[p].t = type_of(p[1], p[2])
    <3>1. PICK env, e : env = p[1] /\ e = p[2]
      OBVIOUS
    <3>2. /\ p = <<env, e>> /\ env \in TypeEnvs /\ e \in LowExprs(n + 1) /\ e \in Exprs
          /\ type_of(env, e) # Ill
      BY <3>1, WellTypedBelowFacts
    <3>3. p \in Typable
      BY <3>2 DEF Typable, type_of
    <3>4. Elaborate[p] = ElaborateBody(p, Elaborate)
      BY <1>8, <3>3
    <3>5. Agree(n, Elaborate, Elaborate)
      BY <1>10 DEF Agree
    <3>6. ElaborateBody(<<env, e>>, Elaborate).t = type_of(env, e)
      BY <3>2, <3>5, ElaborateStep
    <3>7. QED
      BY <3>1, <3>2, <3>4, <3>6
  <2>2. QED
    BY <2>1
<1> HIDE DEF A
<1>11. MaxHeight + 1 \in A
  BY <1>9, <1>10, NumbersFromZero, GtlcAssumption
<1>12. QED
  BY <1>5, <1>8, <1>11 DEF A
LEMMA ElaborateNode ==
  ASSUME NEW env \in TypeEnvs, NEW e \in Exprs, type_of(env, e) # Ill
  PROVE  /\ elaborate(env, e) = ElaborateBody(<<env, e>>, Elaborate)
         /\ elaborate(env, e).t = type_of(env, e)
<1>1. <<env, e>> \in Typable
  BY DEF Typable, type_of
<1>2. Elaborate[<<env, e>>] = ElaborateBody(<<env, e>>, Elaborate) /\ Elaborate[<<env, e>>].t = type_of(env, e)
  BY <1>1, ElaborateUnfold
<1>3. QED
  BY <1>2 DEF elaborate

(* The elaborated term of each node, from those of its parts.              *)
Term(env, e) == elaborate(env, e).ir
CastTerm(env, e, t) == cast_ir(elaborate(env, e), t)

LEMMA TermOfLeaf ==
  ASSUME NEW env \in TypeEnvs, NEW e \in Exprs, e.op \in {"int", "bool", "var"},
         type_of(env, e) # Ill
  PROVE  Term(env, e) = INode(e.op, e.x, e.n, <<>>)
<1>1. elaborate(env, e) = ElaborateBody(<<env, e>>, Elaborate)
  BY ElaborateNode
<1>2. PICK t : ElaborateBody(<<env, e>>, Elaborate) = Elaborated(e, t, <<>>)
  <2>1. CASE e.op = "int"
    BY <2>1, ElaborateBodyLeaf
  <2>2. CASE e.op = "bool"
    BY <2>2, ElaborateBodyLeaf
  <2>3. CASE e.op = "var"
    BY <2>3, ElaborateBodyLeaf
  <2>4. QED
    BY <2>1, <2>2, <2>3
<1>3. QED
  BY <1>1, <1>2 DEF Term, Elaborated

LEMMA TermOfFun ==
  ASSUME NEW env \in TypeEnvs, NEW e \in Exprs, e.op = "fun", type_of(env, e) # Ill
  PROVE  Term(env, e) = INode("fun", e.x, e.n, <<Term(Extend(env, e.x, e.t), e.subs[1])>>)
<1>1. PICK b : b = elaborate(Extend(env, e.x, e.t), e.subs[1])
  OBVIOUS
<1>2. elaborate(env, e) = Elaborated(e, Arr(e.t, b.t), <<b.ir>>)
  <2>1. b = Elaborate[<<Extend(env, e.x, e.t), e.subs[1]>>]
    BY <1>1 DEF elaborate
  <2>2. ElaborateBody(<<env, e>>, Elaborate) = Elaborated(e, Arr(e.t, b.t), <<b.ir>>)
    BY <2>1, ElaborateBodyFun
  <2>3. QED
    BY <2>2, ElaborateNode
<1>3. QED
  BY <1>1, <1>2 DEF Term, Elaborated

LEMMA TermOfLet ==
  ASSUME NEW env \in TypeEnvs, NEW e \in Exprs, e.op = "let", type_of(env, e) # Ill,
         NEW vt, vt = type_of(env, e.subs[1])
  PROVE  Term(env, e) =
           INode("let", e.x, e.n, <<Term(env, e.subs[1]), Term(Extend(env, e.x, vt), e.subs[2])>>)
<1>1. PICK v : v = elaborate(env, e.subs[1])
  OBVIOUS
<1>2. v.t = vt
  <2>1. e.subs[1] \in Exprs
    BY ExprFields, Ops
  <2>2. type_of(env, e.subs[1]) # Ill
    <3>1. PICK d : d = Extend(env, e.x, vt)
      OBVIOUS
    <3>2. vt \in Types
      BY <3>1, WellTypedLet
    <3>3. QED
      BY <3>2, TypeShape
  <2>3. QED
    BY <1>1, <2>1, <2>2, ElaborateNode
<1>3. PICK b : b = elaborate(Extend(env, e.x, v.t), e.subs[2])
  OBVIOUS
<1>4. elaborate(env, e) = Elaborated(e, b.t, <<v.ir, b.ir>>)
  <2>1. v = Elaborate[<<env, e.subs[1]>>] /\ b = Elaborate[<<Extend(env, e.x, v.t), e.subs[2]>>]
    BY <1>1, <1>3 DEF elaborate
  <2>2. ElaborateBody(<<env, e>>, Elaborate) = Elaborated(e, b.t, <<v.ir, b.ir>>)
    BY <2>1, ElaborateBodyLet
  <2>3. QED
    BY <2>2, ElaborateNode
<1>5. QED
  BY <1>1, <1>2, <1>3, <1>4 DEF Term, Elaborated

(* The elaborated parts of a node that binds nothing.                      *)
PartTerms(env, e) == [i \in DOMAIN e.subs |-> elaborate(env, e.subs[i])]

LEMMA TermOfOther ==
  ASSUME NEW env \in TypeEnvs, NEW e \in Exprs, e.op \in {"app", "bin", "if", "ann"},
         type_of(env, e) # Ill
  PROVE  /\ elaborate(env, e) = OfParts(e, PartTerms(env, e))
         /\ \A i \in DOMAIN e.subs : PartTerms(env, e)[i] = elaborate(env, e.subs[i])
         /\ \A i \in DOMAIN e.subs : elaborate(env, e.subs[i]).t = type_of(env, e.subs[i])
<1>1. PartTerms(env, e) = PartTypes(env, e, Elaborate)
  BY DEF PartTerms, PartTypes, elaborate
<1>2. ElaborateBody(<<env, e>>, Elaborate) = OfParts(e, PartTerms(env, e))
  BY <1>1, ElaborateBodyOther
<1>3. elaborate(env, e) = OfParts(e, PartTerms(env, e))
  BY <1>2, ElaborateNode
<1>4. ASSUME NEW i \in DOMAIN e.subs PROVE elaborate(env, e.subs[i]).t = type_of(env, e.subs[i])
  <2>1. e.subs[i] \in Exprs
    BY ExprFields
  <2>2. type_of(env, e.subs[i]) # Ill
    BY WellTypedOther, TypeShape
  <2>3. QED
    BY <2>1, <2>2, ElaborateNode
<1>5. QED
  BY <1>3, <1>4 DEF PartTerms

LEMMA TermOfApp ==
  ASSUME NEW env \in TypeEnvs, NEW e \in Exprs, e.op = "app", type_of(env, e) # Ill,
         NEW f, f = type_of(env, e.subs[1])
  PROVE  /\ IsArr(f) =>
              Term(env, e) = INode("app", e.x, e.n,
                <<Term(env, e.subs[1]), CastTerm(env, e.subs[2], f[2])>>)
         /\ ~IsArr(f) =>
              Term(env, e) = INode("app", e.x, e.n,
                <<CastTerm(env, e.subs[1], Dynamic), CastTerm(env, e.subs[2], Any)>>)
<1>1. 1 \in DOMAIN e.subs /\ 2 \in DOMAIN e.subs
  BY ExprFields, Ops
<1>2. PICK g, a : g = elaborate(env, e.subs[1]) /\ a = elaborate(env, e.subs[2])
  OBVIOUS
<1>3. PICK ps : ps = PartTerms(env, e)
  OBVIOUS
<1>4. ps[1] = g /\ ps[2] = a /\ g.t = f /\ elaborate(env, e) = OfParts(e, ps)
  BY <1>1, <1>2, <1>3, TermOfOther
<1>5. elaborate(env, e) = elaborate_application(e, g, a)
  BY <1>4 DEF OfParts
<1>6. CASE IsArr(f)
  <2>1. elaborate(env, e) = Elaborated(e, f[3], <<g.ir, cast_ir(a, f[2])>>)
    BY <1>4, <1>5, <1>6 DEF elaborate_application
  <2>2. QED
    BY <1>2, <1>6, <2>1 DEF Term, CastTerm, Elaborated
<1>7. CASE ~IsArr(f)
  <2>1. elaborate(env, e) = Elaborated(e, Any, <<cast_ir(g, Dynamic), cast_ir(a, Any)>>)
    BY <1>4, <1>5, <1>7 DEF elaborate_application
  <2>2. QED
    BY <1>2, <1>7, <2>1 DEF Term, CastTerm, Elaborated
<1>8. QED
  BY <1>6, <1>7

LEMMA TermOfBin ==
  ASSUME NEW env \in TypeEnvs, NEW e \in Exprs, e.op = "bin", type_of(env, e) # Ill
  PROVE  Term(env, e) = INode("bin", e.x, e.n,
           <<CastTerm(env, e.subs[1], Int_), CastTerm(env, e.subs[2], Int_)>>)
<1>1. 1 \in DOMAIN e.subs /\ 2 \in DOMAIN e.subs
  BY ExprFields, Ops
<1>2. PICK g, a : g = elaborate(env, e.subs[1]) /\ a = elaborate(env, e.subs[2])
  OBVIOUS
<1>3. PICK ps : ps = PartTerms(env, e)
  OBVIOUS
<1>4. ps[1] = g /\ ps[2] = a /\ elaborate(env, e) = OfParts(e, ps)
  BY <1>1, <1>2, <1>3, TermOfOther
<1>5. elaborate(env, e) = Elaborated(e, Int_, <<cast_ir(g, Int_), cast_ir(a, Int_)>>)
  BY <1>4 DEF OfParts
<1>6. QED
  BY <1>2, <1>5 DEF Term, CastTerm, Elaborated

LEMMA TermOfIf ==
  ASSUME NEW env \in TypeEnvs, NEW e \in Exprs, e.op = "if", type_of(env, e) # Ill
  PROVE  Term(env, e) = INode("if", e.x, e.n,
           <<CastTerm(env, e.subs[1], Bool_), CastTerm(env, e.subs[2], type_of(env, e)),
             CastTerm(env, e.subs[3], type_of(env, e))>>)
<1>1. 1 \in DOMAIN e.subs /\ 2 \in DOMAIN e.subs /\ 3 \in DOMAIN e.subs
  BY ExprFields, Ops
<1>2. PICK c, y, n : c = elaborate(env, e.subs[1]) /\ y = elaborate(env, e.subs[2]) /\ n = elaborate(env, e.subs[3])
  OBVIOUS
<1>3. PICK ps : ps = PartTerms(env, e)
  OBVIOUS
<1>4. /\ ps[1] = c /\ ps[2] = y /\ ps[3] = n /\ elaborate(env, e) = OfParts(e, ps)
      /\ y.t = type_of(env, e.subs[2]) /\ n.t = type_of(env, e.subs[3])
  BY <1>1, <1>2, <1>3, TermOfOther
<1>5. elaborate(env, e) = elaborate_if(e, c, y, n)
  BY <1>4 DEF OfParts
<1>6. PICK t : t = type_of(env, e)
  OBVIOUS
<1>7. common_branch_type(y.t, n.t) = t
  BY <1>4, <1>6, WellTypedIf
<1>8. elaborate(env, e) = Elaborated(e, t, <<cast_ir(c, Bool_), cast_ir(y, t), cast_ir(n, t)>>)
  BY <1>5, <1>7 DEF elaborate_if
<1>9. QED
  BY <1>2, <1>6, <1>8 DEF Term, CastTerm, Elaborated

LEMMA TermOfAnn ==
  ASSUME NEW env \in TypeEnvs, NEW e \in Exprs, e.op = "ann", type_of(env, e) # Ill
  PROVE  Term(env, e) = CastTerm(env, e.subs[1], e.t)
<1>1. 1 \in DOMAIN e.subs
  BY ExprFields, Ops
<1>2. PICK g : g = elaborate(env, e.subs[1])
  OBVIOUS
<1>3. PICK ps : ps = PartTerms(env, e)
  OBVIOUS
<1>4. ps[1] = g /\ elaborate(env, e) = OfParts(e, ps)
  BY <1>1, <1>2, <1>3, TermOfOther
<1>5. elaborate(env, e) = [t |-> e.t, ir |-> cast_ir(g, e.t)]
  BY <1>4 DEF OfParts
<1>6. QED
  BY <1>2, <1>5 DEF Term, CastTerm

CastNode(from, to, r) ==
  [op |-> "cast", x |-> "", n |-> 0, from |-> from, to |-> to, subs |-> <<r>>]

LEMMA CastTermIs ==
  ASSUME NEW env \in TypeEnvs, NEW e \in Exprs, type_of(env, e) # Ill, NEW t
  PROVE  CastTerm(env, e, t) = CastNode(type_of(env, e), t, Term(env, e))
<1>1. elaborate(env, e).t = type_of(env, e)
  BY ElaborateNode
<1>2. QED
  BY <1>1 DEF CastTerm, Term, CastNode, cast_ir

-----------------------------------------------------------------------------
(* Elaborated terms are trees of the bounded height.                       *)

LEMMA INodeOver ==
  ASSUME NEW L, NEW op \in DOMAIN Arity \ {"ann"}, NEW x \in Labels, NEW n \in Int,
         NEW subs \in Seq(L), Len(subs) = Arity[op], op \in {"var", "fun", "let"} => x \in Names
  PROVE  INode(op, x, n, subs) \in IRsOver(L)
BY BaseTypes DEF INode, IRsOver, Formed

LEMMA PairOver ==
  ASSUME NEW L, NEW x \in Labels, NEW n \in Int, NEW a \in L, NEW b \in L
  PROVE  INode("app", x, n, <<a, b>>) \in IRsOver(L)
<1>1. <<a, b>> \in Seq(L) /\ Len(<<a, b>>) = Arity["app"] /\ "app" \in DOMAIN Arity \ {"ann"}
  BY Ops
<1>2. QED
  BY <1>1, INodeOver

LEMMA CastOver ==
  ASSUME NEW L, NEW r \in L, NEW from \in Types, NEW to \in Types
  PROVE  CastNode(from, to, r) \in IRsOver(L)
<1>1. PICK q : q = <<r>>
  OBVIOUS
<1>2. q \in Seq(L) /\ Len(q) = 1
  BY <1>1
<1>3. PICK none : none = ""
  BY Zenon
<1>4. CastNode(from, to, r) =
        [op |-> "cast", x |-> none, n |-> 0, from |-> from, to |-> to, subs |-> q]
  BY <1>1, <1>3, Zenon DEF CastNode
<1>5. none \in Labels
  BY <1>3, Zenon DEF Labels
<1>6. 0 \in Int /\ "cast" \in DOMAIN Arity \ {"ann"} /\ Arity["cast"] = 1
  BY Ops
<1>7. CastNode(from, to, r) \in [op : DOMAIN Arity \ {"ann"}, x : Labels, n : Int,
                                from : Types, to : Types, subs : Seq(L)]
  BY <1>2, <1>4, <1>5, <1>6
<1>8. Formed(CastNode(from, to, r))
  BY <1>2, <1>4, <1>6 DEF Formed
<1>9. QED
  BY <1>7, <1>8 DEF IRsOver

LEMMA IRsOverGrow == ASSUME NEW S, NEW U, S \subseteq U PROVE IRsOver(S) \subseteq IRsOver(U)
BY DEF IRsOver

LEMMA IRLevels ==
  /\ IRsOfHeight[0] = IRsOver({})
  /\ \A k \in Nat : k + 1 \in 0..(2 * MaxHeight) =>
       /\ IRsOfHeight[k + 1] = IRsOver(IRsOfHeight[k])
       /\ IRsOfHeight[k] \subseteq IRsOfHeight[k + 1]
<1>1. IRsOfHeight[0] = IRsOver({})
  BY IRsOfHeightUnfold, GtlcAssumption DEF IRsOfHeightBody
<1>2. ASSUME NEW k \in Nat, k + 1 \in 0..(2 * MaxHeight)
      PROVE  /\ IRsOfHeight[k + 1] = IRsOver(IRsOfHeight[k])
             /\ IRsOfHeight[k] \subseteq IRsOfHeight[k + 1]
  <2>1. k + 1 # 0 /\ k + 1 - 1 = k
    OBVIOUS
  <2>2. IRsOfHeight[k + 1] = IRsOfHeightBody(k + 1, IRsOfHeight)
    BY <1>2, IRsOfHeightUnfold
  <2>3. IRsOfHeight[k + 1] = IRsOver(IRsOfHeight[k])
    BY <2>1, <2>2 DEF IRsOfHeightBody
  <2>4. k \in 0..(2 * MaxHeight)
    BY <1>2, GtlcAssumption
  <2>5. QED
    BY <1>2, <2>3, <2>4, IRsGrow
<1>3. QED
  BY <1>1, <1>2

LEMMA LeafOver ==
  ASSUME NEW env \in TypeEnvs, NEW e \in Exprs, e.op \in {"int", "bool", "var"},
         type_of(env, e) # Ill, NEW L
  PROVE  Term(env, e) \in IRsOver(L)
<1>1. /\ e.op \in DOMAIN Arity \ {"ann"} /\ e.x \in Labels /\ e.n \in Int
      /\ e.op \in {"var", "fun", "let"} => e.x \in Names
  BY ExprFields, Ops
<1>2. <<>> \in Seq(L) /\ Len(<<>>) = Arity[e.op]
  BY Ops
<1>3. INode(e.op, e.x, e.n, <<>>) \in IRsOver(L)
  BY <1>1, <1>2, INodeOver
<1>4. QED
  BY <1>3, TermOfLeaf

LEMMA PartsTyped ==
  ASSUME NEW env \in TypeEnvs, NEW e \in Exprs, e.op \in {"app", "bin", "if", "ann"},
         type_of(env, e) # Ill
  PROVE  /\ DOMAIN e.subs = 1..Arity[e.op]
         /\ \A i \in DOMAIN e.subs : e.subs[i] \in Exprs /\ type_of(env, e.subs[i]) \in Types
<1>1. e.op \notin {"int", "bool", "var", "fun", "let"}
  OBVIOUS
<1>2. \A i \in DOMAIN e.subs : type_of(env, e.subs[i]) \in Types
  BY <1>1, WellTypedOther
<1>3. QED
  BY <1>2, ExprFields

PartsIn(e, L) ==
  \A d \in TypeEnvs : \A i \in DOMAIN e.subs :
    type_of(d, e.subs[i]) # Ill => Term(d, e.subs[i]) \in L

LEMMA CastPartOver ==
  ASSUME NEW env \in TypeEnvs, NEW e \in Exprs, NEW L, PartsIn(e, L), NEW i \in DOMAIN e.subs,
         type_of(env, e.subs[i]) \in Types, NEW t \in Types
  PROVE  CastTerm(env, e.subs[i], t) \in IRsOver(L)
<1>1. type_of(env, e.subs[i]) # Ill /\ e.subs[i] \in Exprs
  BY TypeShape, ExprFields
<1>2. Term(env, e.subs[i]) \in L
  BY <1>1 DEF PartsIn
<1>3. PICK r, from : r = Term(env, e.subs[i]) /\ from = type_of(env, e.subs[i])
  OBVIOUS
<1>4. CastTerm(env, e.subs[i], t) = CastNode(from, t, r)
  BY <1>1, <1>3, CastTermIs
<1>5. QED
  BY <1>2, <1>3, <1>4, CastOver

LEMMA NodeOver ==
  ASSUME NEW env \in TypeEnvs, NEW e \in Exprs, type_of(env, e) # Ill,
         NEW L, L \subseteq IRsOver(L), PartsIn(e, L)
  PROVE  Term(env, e) \in IRsOver(IRsOver(L))
<1>1. /\ e.op \in DOMAIN Arity /\ e.x \in Labels /\ e.n \in Int /\ e.t \in Types
      /\ e.op \in {"var", "fun", "let"} => e.x \in Names
      /\ DOMAIN e.subs = 1..Arity[e.op]
  BY ExprFields
<1>2. Any \in Types /\ Int_ \in Types /\ Bool_ \in Types /\ Dynamic \in Types
  BY BaseTypes, DynamicType
<1>3. CASE e.op \in {"int", "bool", "var"}
  BY <1>3, LeafOver
<1>4. CASE e.op = "fun"
  <2>1. PICK d : d = Extend(env, e.x, e.t)
    OBVIOUS
  <2>2. d \in TypeEnvs /\ 1 \in DOMAIN e.subs /\ type_of(d, e.subs[1]) \in Types
    BY <1>4, <2>1, WellTypedFun
  <2>3. PICK b : b = Term(d, e.subs[1])
    OBVIOUS
  <2>4. b \in IRsOver(L)
    BY <2>2, <2>3, TypeShape DEF PartsIn
  <2>5. <<b>> \in Seq(IRsOver(L)) /\ Len(<<b>>) = Arity["fun"] /\ "fun" \in DOMAIN Arity \ {"ann"}
    BY <2>4, Ops
  <2>6. INode("fun", e.x, e.n, <<b>>) \in IRsOver(IRsOver(L))
    BY <1>1, <1>4, <2>5, INodeOver
  <2>7. QED
    BY <1>4, <2>1, <2>3, <2>6, TermOfFun
<1>5. CASE e.op = "let"
  <2>1. PICK vt : vt = type_of(env, e.subs[1])
    OBVIOUS
  <2>2. PICK d : d = Extend(env, e.x, vt)
    OBVIOUS
  <2>3. /\ 1 \in DOMAIN e.subs /\ 2 \in DOMAIN e.subs /\ vt \in Types /\ d \in TypeEnvs
        /\ type_of(d, e.subs[2]) # Ill
    BY <1>5, <2>1, <2>2, WellTypedLet
  <2>4. PICK v, b : v = Term(env, e.subs[1]) /\ b = Term(d, e.subs[2])
    OBVIOUS
  <2>5. v \in IRsOver(L) /\ b \in IRsOver(L)
    BY <2>1, <2>3, <2>4, TypeShape DEF PartsIn
  <2>6. <<v, b>> \in Seq(IRsOver(L)) /\ Len(<<v, b>>) = Arity["let"] /\ "let" \in DOMAIN Arity \ {"ann"}
    BY <2>5, Ops
  <2>7. INode("let", e.x, e.n, <<v, b>>) \in IRsOver(IRsOver(L))
    BY <1>1, <1>5, <2>6, INodeOver
  <2>8. QED
    BY <1>5, <2>1, <2>2, <2>4, <2>7, TermOfLet
<1>6. CASE e.op = "app"
  <2>1. /\ 1 \in DOMAIN e.subs /\ 2 \in DOMAIN e.subs
        /\ type_of(env, e.subs[1]) \in Types /\ type_of(env, e.subs[2]) \in Types
    BY <1>1, <1>6, Ops, PartsTyped
  <2>2. PICK f : f = type_of(env, e.subs[1])
    OBVIOUS
  <2>4. CASE IsArr(f)
    <3>1. Term(env, e.subs[1]) \in IRsOver(L)
      BY <2>1, TypeShape DEF PartsIn
    <3>2. f[2] \in Types
      BY <2>1, <2>2, <2>4, TypeShape
    <3>3. CastTerm(env, e.subs[2], f[2]) \in IRsOver(L)
      BY <2>1, <3>2, CastPartOver
    <3>4. Term(env, e) =
            INode("app", e.x, e.n, <<Term(env, e.subs[1]), CastTerm(env, e.subs[2], f[2])>>)
      BY <1>6, <2>2, <2>4, TermOfApp
    <3>5. QED
      BY <1>1, <3>1, <3>3, <3>4, PairOver
  <2>5. CASE ~IsArr(f)
    <3>1. CastTerm(env, e.subs[1], Dynamic) \in IRsOver(L)
      BY <1>2, <2>1, CastPartOver
    <3>2. CastTerm(env, e.subs[2], Any) \in IRsOver(L)
      BY <1>2, <2>1, CastPartOver
    <3>3. Term(env, e) =
            INode("app", e.x, e.n,
              <<CastTerm(env, e.subs[1], Dynamic), CastTerm(env, e.subs[2], Any)>>)
      BY <1>6, <2>2, <2>5, TermOfApp
    <3>4. QED
      BY <1>1, <3>1, <3>2, <3>3, PairOver
  <2>6. QED
    BY <2>4, <2>5
<1>7. CASE e.op = "bin"
  <2>1. /\ 1 \in DOMAIN e.subs /\ 2 \in DOMAIN e.subs
        /\ type_of(env, e.subs[1]) \in Types /\ type_of(env, e.subs[2]) \in Types
    BY <1>1, <1>7, Ops, PartsTyped
  <2>2. PICK a, b : a = CastTerm(env, e.subs[1], Int_) /\ b = CastTerm(env, e.subs[2], Int_)
    OBVIOUS
  <2>3. a \in IRsOver(L) /\ b \in IRsOver(L)
    BY <1>2, <2>1, <2>2, CastPartOver
  <2>4. <<a, b>> \in Seq(IRsOver(L)) /\ Len(<<a, b>>) = Arity["bin"] /\ "bin" \in DOMAIN Arity \ {"ann"}
    BY <2>3, Ops
  <2>5. INode("bin", e.x, e.n, <<a, b>>) \in IRsOver(IRsOver(L))
    BY <1>1, <1>7, <2>4, INodeOver
  <2>6. QED
    BY <1>7, <2>2, <2>5, TermOfBin
<1>8. CASE e.op = "if"
  <2>1. /\ 1 \in DOMAIN e.subs /\ 2 \in DOMAIN e.subs /\ 3 \in DOMAIN e.subs
        /\ type_of(env, e.subs[1]) \in Types /\ type_of(env, e.subs[2]) \in Types
        /\ type_of(env, e.subs[3]) \in Types
    BY <1>1, <1>8, Ops, PartsTyped
  <2>2. PICK t : t = type_of(env, e)
    OBVIOUS
  <2>3. t \in Types
    BY <2>2, TypeOfNode, IllIsNoType
  <2>4. PICK a, b, c : /\ a = CastTerm(env, e.subs[1], Bool_) /\ b = CastTerm(env, e.subs[2], t)
                       /\ c = CastTerm(env, e.subs[3], t)
    OBVIOUS
  <2>5. a \in IRsOver(L)
    BY <1>2, <2>1, <2>4, CastPartOver
  <2>6. b \in IRsOver(L)
    BY <2>1, <2>3, <2>4, CastPartOver
  <2>7. c \in IRsOver(L)
    BY <2>1, <2>3, <2>4, CastPartOver
  <2>8. /\ <<a, b, c>> \in Seq(IRsOver(L)) /\ Len(<<a, b, c>>) = Arity["if"]
        /\ "if" \in DOMAIN Arity \ {"ann"}
    BY <2>5, <2>6, <2>7, Ops
  <2>9. INode("if", e.x, e.n, <<a, b, c>>) \in IRsOver(IRsOver(L))
    BY <1>1, <1>8, <2>8, INodeOver
  <2>10. QED
    BY <1>8, <2>2, <2>4, <2>9, TermOfIf
<1>9. CASE e.op = "ann"
  <2>1. 1 \in DOMAIN e.subs /\ type_of(env, e.subs[1]) \in Types
    BY <1>1, <1>9, Ops, PartsTyped
  <2>2. CastTerm(env, e.subs[1], e.t) \in IRsOver(L)
    BY <1>1, <2>1, CastPartOver
  <2>3. IRsOver(L) \subseteq IRsOver(IRsOver(L))
    BY IRsOverGrow
  <2>4. QED
    BY <1>9, <2>2, <2>3, TermOfAnn
<1>10. e.op \in {"int", "bool", "var", "fun", "let", "app", "bin", "if", "ann"}
  BY ExprFields, Ops
<1>11. QED
  BY <1>3, <1>4, <1>5, <1>6, <1>7, <1>8, <1>9, <1>10

LEMMA TermsAreIRs ==
  ASSUME NEW env \in TypeEnvs, NEW e \in Exprs, type_of(env, e) # Ill
  PROVE  Term(env, e) \in IRs
<1> DEFINE Bounded(n) == \A d \in TypeEnvs : \A f \in ExprsOfHeight[n] :
                           type_of(d, f) # Ill => Term(d, f) \in IRsOfHeight[2 * n]
           T == {n \in Nat : n \in 0..MaxHeight => Bounded(n)}
<1>1. \A n \in 0..MaxHeight : ExprsOfHeight[n] \subseteq Exprs
  <2>1. MaxHeight \in Nat /\ MaxHeight \in 0..MaxHeight
    BY GtlcAssumption
  <2>2. QED
    BY <2>1, ExprsGrow, Nested DEF Exprs
<1>2. 0 \in T
  <2>1. ASSUME NEW d \in TypeEnvs, NEW f \in ExprsOfHeight[0], type_of(d, f) # Ill
        PROVE  Term(d, f) \in IRsOfHeight[2 * 0]
    <3>1. f \in Exprs
      BY <1>1, GtlcAssumption
    <3>2. f \in ExprsOver({})
      BY ExprsOfHeightUnfold, GtlcAssumption DEF ExprsOfHeightBody
    <3>3. Len(f.subs) = 0
      BY <3>2 DEF ExprsOver
    <3>4. f.op \in {"int", "bool", "var"}
      BY <3>1, <3>3, ExprFields, Ops
    <3>5. QED
      BY <2>1, <3>1, <3>4, LeafOver, IRLevels
  <2>2. QED
    BY <2>1
<1>3. ASSUME NEW n \in Nat, n \in T PROVE n + 1 \in T
  <2>1. ASSUME n + 1 \in 0..MaxHeight, NEW d \in TypeEnvs, NEW f \in ExprsOfHeight[n + 1],
               type_of(d, f) # Ill
        PROVE  Term(d, f) \in IRsOfHeight[2 * (n + 1)]
    <3>1. n \in 0..MaxHeight /\ Bounded(n)
      BY <1>3, <2>1, GtlcAssumption
    <3>2. PICK L : L = IRsOfHeight[2 * n]
      OBVIOUS
    <3>3. f \in Exprs
      BY <1>1, <2>1
    <3>4. f \in ExprsOver(ExprsOfHeight[n])
      <4>1. n + 1 # 0 /\ n + 1 - 1 = n
        OBVIOUS
      <4>2. ExprsOfHeight[n + 1] = ExprsOfHeightBody(n + 1, ExprsOfHeight)
        BY <2>1, ExprsOfHeightUnfold
      <4>3. QED
        BY <2>1, <4>1, <4>2 DEF ExprsOfHeightBody
    <3>5. \A i \in DOMAIN f.subs : f.subs[i] \in ExprsOfHeight[n]
      BY <3>4 DEF ExprsOver
    <3>6. PartsIn(f, L)
      BY <3>1, <3>2, <3>5 DEF PartsIn
    <3>7. PICK k \in Nat : k = 2 * n
      OBVIOUS
    <3>8. k + 1 \in 0..(2 * MaxHeight) /\ k + 1 + 1 \in 0..(2 * MaxHeight) /\ k + 1 \in Nat
      BY <2>1, <3>7, GtlcAssumption
    <3>9. IRsOfHeight[k + 1] = IRsOver(L) /\ L \subseteq IRsOver(L)
      BY <3>2, <3>7, <3>8, IRLevels
    <3>10. IRsOfHeight[k + 1 + 1] = IRsOver(IRsOver(L))
      BY <3>8, <3>9, IRLevels
    <3>11. k + 1 + 1 = 2 * (n + 1)
      BY <3>7
    <3>12. Term(d, f) \in IRsOver(IRsOver(L))
      BY <2>1, <3>3, <3>6, <3>9, NodeOver
    <3>13. QED
      BY <3>10, <3>11, <3>12
  <2>2. QED
    BY <2>1
<1> HIDE DEF T
<1>4. MaxHeight \in T
  BY <1>2, <1>3, NumbersFromZero, GtlcAssumption
<1>5. Bounded(MaxHeight)
  BY <1>4, GtlcAssumption DEF T
<1>6. QED
  BY <1>5 DEF Exprs, IRs

-----------------------------------------------------------------------------
(* The typing of elaborated terms: those that elaboration makes of well-   *)
(* typed expressions, and their casts.                                     *)

TermTyped(env, r, t) ==
  /\ env \in TypeEnvs /\ r \in IRs /\ t \in Types
  /\ \E e \in Exprs :
       /\ type_of(env, e) # Ill
       /\ \/ r = Term(env, e) /\ t = type_of(env, e)
          \/ r = CastTerm(env, e, t)

LEMMA IRFields ==
  ASSUME NEW r \in IRs
  PROVE  /\ r.op \in DOMAIN Arity \ {"ann"} /\ r.n \in Int /\ r.from \in Types /\ r.to \in Types
         /\ DOMAIN r.subs = 1..Arity[r.op]
         /\ \A i \in DOMAIN r.subs : r.subs[i] \in IRs
         /\ r.op \in {"var", "fun", "let"} => r.x \in Names
<1>1. r \in IRsOver(IRs)
  BY IRsAreOver
<1>2. /\ r \in [op : DOMAIN Arity \ {"ann"}, x : Labels, n : Int,
                from : Types, to : Types, subs : Seq(IRs)]
      /\ Formed(r)
  BY <1>1 DEF IRsOver
<1>3. r.subs \in Seq(IRs) /\ Len(r.subs) = Arity[r.op]
  BY <1>2 DEF Formed
<1>4. DOMAIN r.subs = 1..Arity[r.op] /\ \A i \in DOMAIN r.subs : r.subs[i] \in IRs
  BY <1>3, LenProperties, ElementOfSeq
<1>5. QED
  BY <1>2, <1>3, <1>4 DEF Formed

LEMMA INodeFields ==
  ASSUME NEW op, NEW x, NEW n, NEW subs
  PROVE  /\ INode(op, x, n, subs).op = op /\ INode(op, x, n, subs).x = x
         /\ INode(op, x, n, subs).n = n /\ INode(op, x, n, subs).subs = subs
BY DEF INode

LEMMA CastNodeFields ==
  ASSUME NEW from, NEW to, NEW r
  PROVE  /\ CastNode(from, to, r).op = "cast" /\ CastNode(from, to, r).from = from
         /\ CastNode(from, to, r).to = to /\ CastNode(from, to, r).subs[1] = r
<1>1. PICK q, none : none = ""
  BY Zenon
<1>2. CastNode(from, to, r) =
        [op |-> "cast", x |-> none, n |-> 0, from |-> from, to |-> to, subs |-> <<r>>]
  BY <1>1, Zenon DEF CastNode
<1>3. QED
  BY <1>2

LEMMA TermOps ==
  ASSUME NEW env \in TypeEnvs, NEW e \in Exprs, type_of(env, e) # Ill, e.op # "ann"
  PROVE  Term(env, e).op = e.op
<1>1. CASE e.op \in {"int", "bool", "var"}
  BY <1>1, TermOfLeaf, INodeFields
<1>2. CASE e.op = "fun"
  <2>1. PICK subs : Term(env, e) = INode("fun", e.x, e.n, subs)
    BY <1>2, TermOfFun
  <2>2. QED
    BY <1>2, <2>1, INodeFields
<1>3. CASE e.op = "let"
  <2>1. PICK subs : Term(env, e) = INode("let", e.x, e.n, subs)
    BY <1>3, TermOfLet
  <2>2. QED
    BY <1>3, <2>1, INodeFields
<1>4. CASE e.op = "app"
  <2>1. PICK subs : Term(env, e) = INode("app", e.x, e.n, subs)
    BY <1>4, TermOfApp
  <2>2. QED
    BY <1>4, <2>1, INodeFields
<1>5. CASE e.op = "bin"
  <2>1. PICK subs : Term(env, e) = INode("bin", e.x, e.n, subs)
    BY <1>5, TermOfBin
  <2>2. QED
    BY <1>5, <2>1, INodeFields
<1>6. CASE e.op = "if"
  <2>1. PICK subs : Term(env, e) = INode("if", e.x, e.n, subs)
    BY <1>6, TermOfIf
  <2>2. QED
    BY <1>6, <2>1, INodeFields
<1>7. e.op \in {"int", "bool", "var", "fun", "let", "app", "bin", "if", "ann"}
  BY ExprFields, Ops
<1>8. QED
  BY <1>1, <1>2, <1>3, <1>4, <1>5, <1>6, <1>7

LEMMA TermTypedCases ==
  ASSUME NEW env, NEW r, NEW t, TermTyped(env, r, t)
  PROVE  /\ r.op = "cast" => \E e \in Exprs : type_of(env, e) # Ill /\ r = CastTerm(env, e, t)
         /\ r.op # "cast" =>
              \E e \in Exprs : /\ type_of(env, e) # Ill /\ r = Term(env, e)
                               /\ t = type_of(env, e) /\ e.op = r.op
<1>1. env \in TypeEnvs
  BY DEF TermTyped
<1>2. PICK e \in Exprs : /\ type_of(env, e) # Ill
                         /\ (r = Term(env, e) /\ t = type_of(env, e)) \/ r = CastTerm(env, e, t)
  BY DEF TermTyped
<1>3. CASE r = CastTerm(env, e, t)
  <2>1. r.op = "cast"
    BY <1>1, <1>2, <1>3, CastTermIs, CastNodeFields
  <2>2. QED
    BY <1>2, <1>3, <2>1
<1>4. CASE r = Term(env, e) /\ t = type_of(env, e) /\ e.op = "ann"
  <2>1. r = CastTerm(env, e.subs[1], e.t) /\ e.t = t
    BY <1>1, <1>2, <1>4, TermOfAnn, WellTypedAnn
  <2>2. 1 \in DOMAIN e.subs
    BY <1>4, ExprFields, Ops
  <2>3. e.subs[1] \in Exprs /\ type_of(env, e.subs[1]) \in Types
    BY <1>1, <1>2, <1>4, <2>2, PartsTyped
  <2>4. type_of(env, e.subs[1]) # Ill
    BY <2>3, TypeShape
  <2>5. r.op = "cast"
    BY <1>1, <2>1, <2>3, <2>4, CastTermIs, CastNodeFields
  <2>6. QED
    BY <2>1, <2>3, <2>4, <2>5
<1>5. CASE r = Term(env, e) /\ t = type_of(env, e) /\ e.op # "ann"
  <2>1. r.op = e.op
    BY <1>1, <1>2, <1>5, TermOps
  <2>2. e.op # "cast"
    BY ExprFields
  <2>3. QED
    BY <1>2, <1>5, <2>1, <2>2
<1>6. QED
  BY <1>2, <1>3, <1>4, <1>5

LEMMA TermTypedOf ==
  ASSUME NEW env \in TypeEnvs, NEW e \in Exprs, type_of(env, e) \in Types, Term(env, e) \in IRs
  PROVE  TermTyped(env, Term(env, e), type_of(env, e))
BY TypeShape DEF TermTyped

LEMMA CastTypedOf ==
  ASSUME NEW env \in TypeEnvs, NEW e \in Exprs, type_of(env, e) \in Types, NEW t \in Types,
         CastTerm(env, e, t) \in IRs
  PROVE  TermTyped(env, CastTerm(env, e, t), t)
BY TypeShape DEF TermTyped

(* What a typed term's parts are typed with, by constructor.               *)
LEMMA TermTypedLeaf ==
  ASSUME NEW env, NEW r, NEW t, TermTyped(env, r, t)
  PROVE  /\ r.op = "int" => t = Int_
         /\ r.op = "bool" => t = Bool_
         /\ r.op = "var" => r.x \in Names /\ t = env[r.x]
<1>1. ASSUME r.op \in {"int", "bool", "var"}
      PROVE  /\ r.op = "int" => t = Int_
             /\ r.op = "bool" => t = Bool_
             /\ r.op = "var" => r.x \in Names /\ t = env[r.x]
  <2>1. env \in TypeEnvs
    BY DEF TermTyped
  <2>2. PICK e \in Exprs : /\ type_of(env, e) # Ill /\ r = Term(env, e)
                           /\ t = type_of(env, e) /\ e.op = r.op
    BY <1>1, TermTypedCases
  <2>3. r = INode(e.op, e.x, e.n, <<>>)
    BY <1>1, <2>1, <2>2, TermOfLeaf
  <2>4. r.x = e.x
    BY <2>3, INodeFields
  <2>5. r.op = "var" => r.x \in Names
    BY <2>2, <2>4, ExprFields
  <2>6. QED
    BY <2>1, <2>2, <2>4, <2>5, TypeOfLeaf
<1>2. QED
  BY <1>1

LEMMA TermTypedFun ==
  ASSUME NEW env, NEW r, NEW t, TermTyped(env, r, t), r.op = "fun"
  PROVE  r.x \in Names /\ IsArr(t) /\ TermTyped(Extend(env, r.x, t[2]), r.subs[1], t[3])
<1>1. env \in TypeEnvs /\ r \in IRs
  BY DEF TermTyped
<1>2. PICK e \in Exprs : /\ type_of(env, e) # Ill /\ r = Term(env, e)
                         /\ t = type_of(env, e) /\ e.op = "fun"
  BY TermTypedCases
<1>3. PICK d : d = Extend(env, e.x, e.t)
  OBVIOUS
<1>4. /\ d \in TypeEnvs /\ 1 \in DOMAIN e.subs /\ e.x \in Names
      /\ type_of(d, e.subs[1]) \in Types /\ t = Arr(e.t, type_of(d, e.subs[1]))
  BY <1>1, <1>2, <1>3, WellTypedFun
<1>5. PICK b : b = Term(d, e.subs[1])
  OBVIOUS
<1>6. r = INode("fun", e.x, e.n, <<b>>)
  BY <1>1, <1>2, <1>3, <1>5, TermOfFun
<1>7. r.x = e.x /\ r.subs[1] = b
  BY <1>6, INodeFields
<1>8. IsArr(t) /\ t[2] = e.t /\ t[3] = type_of(d, e.subs[1])
  BY <1>4, ArrowFields
<1>9. e.subs[1] \in Exprs
  BY <1>4, ExprFields
<1>10. b \in IRs
  BY <1>4, <1>5, <1>9, TermsAreIRs, TypeShape
<1>11. TermTyped(d, b, t[3])
  BY <1>4, <1>5, <1>8, <1>9, <1>10, TermTypedOf
<1>12. QED
  BY <1>3, <1>4, <1>7, <1>8, <1>11

LEMMA TermTypedCast ==
  ASSUME NEW env, NEW r, NEW t, TermTyped(env, r, t), r.op = "cast"
  PROVE  t = r.to /\ r.from \in Types /\ TermTyped(env, r.subs[1], r.from)
<1>1. env \in TypeEnvs /\ r \in IRs /\ t \in Types
  BY DEF TermTyped
<1>2. PICK e \in Exprs : type_of(env, e) # Ill /\ r = CastTerm(env, e, t)
  BY TermTypedCases
<1>3. r = CastNode(type_of(env, e), t, Term(env, e))
  BY <1>1, <1>2, CastTermIs
<1>4. r.to = t /\ r.from = type_of(env, e) /\ r.subs[1] = Term(env, e)
  BY <1>3, CastNodeFields
<1>5. Term(env, e) \in IRs /\ type_of(env, e) \in Types
  BY <1>1, <1>2, TermsAreIRs, TypeOfNode, IllIsNoType
<1>6. QED
  BY <1>1, <1>4, <1>5, TermTypedOf

LEMMA TermTypedLet ==
  ASSUME NEW env, NEW r, NEW t, TermTyped(env, r, t), r.op = "let"
  PROVE  /\ r.x \in Names
         /\ \E d \in Types : TermTyped(env, r.subs[1], d) /\ TermTyped(Extend(env, r.x, d), r.subs[2], t)
<1>1. env \in TypeEnvs /\ r \in IRs /\ t \in Types
  BY DEF TermTyped
<1>2. PICK e \in Exprs : /\ type_of(env, e) # Ill /\ r = Term(env, e)
                         /\ t = type_of(env, e) /\ e.op = "let"
  BY TermTypedCases
<1>3. PICK vt : vt = type_of(env, e.subs[1])
  OBVIOUS
<1>4. PICK d : d = Extend(env, e.x, vt)
  OBVIOUS
<1>5. /\ 1 \in DOMAIN e.subs /\ 2 \in DOMAIN e.subs /\ e.x \in Names /\ vt \in Types
      /\ d \in TypeEnvs /\ type_of(d, e.subs[2]) = t
  BY <1>1, <1>2, <1>3, <1>4, WellTypedLet
<1>6. PICK v, b : v = Term(env, e.subs[1]) /\ b = Term(d, e.subs[2])
  OBVIOUS
<1>7. r = INode("let", e.x, e.n, <<v, b>>)
  BY <1>1, <1>2, <1>3, <1>4, <1>6, TermOfLet
<1>8. r.x = e.x /\ r.subs[1] = v /\ r.subs[2] = b
  BY <1>7, INodeFields
<1>9. e.subs[1] \in Exprs /\ e.subs[2] \in Exprs
  BY <1>5, ExprFields
<1>10. v \in IRs /\ b \in IRs
  BY <1>1, <1>3, <1>5, <1>6, <1>9, TermsAreIRs, TypeShape
<1>11. TermTyped(env, v, vt)
  BY <1>1, <1>3, <1>5, <1>6, <1>9, <1>10, TermTypedOf
<1>12. TermTyped(d, b, t)
  BY <1>1, <1>5, <1>6, <1>9, <1>10, TermTypedOf
<1>13. QED
  BY <1>4, <1>5, <1>8, <1>11, <1>12

LEMMA TermTypedApp ==
  ASSUME NEW env, NEW r, NEW t, TermTyped(env, r, t), r.op = "app"
  PROVE  \E f \in Types : /\ IsArr(f) /\ t = f[3]
                          /\ TermTyped(env, r.subs[1], f) /\ TermTyped(env, r.subs[2], f[2])
<1>1. env \in TypeEnvs /\ r \in IRs /\ t \in Types
  BY DEF TermTyped
<1>2. PICK e \in Exprs : /\ type_of(env, e) # Ill /\ r = Term(env, e)
                         /\ t = type_of(env, e) /\ e.op = "app"
  BY TermTypedCases
<1>3. PICK f : f = type_of(env, e.subs[1])
  OBVIOUS
<1>4. 1 \in DOMAIN e.subs /\ 2 \in DOMAIN e.subs
  BY <1>2, ExprFields, Ops
<1>5. /\ e.subs[1] \in Exprs /\ e.subs[2] \in Exprs /\ f \in Types
      /\ type_of(env, e.subs[2]) \in Types
  BY <1>1, <1>2, <1>3, <1>4, PartsTyped
<1>6. r.subs[1] \in IRs /\ r.subs[2] \in IRs
  <2>1. 1 \in DOMAIN r.subs /\ 2 \in DOMAIN r.subs
    BY <1>1, IRFields, Ops
  <2>2. QED
    BY <1>1, <2>1, IRFields
<1>7. CASE IsArr(f)
  <2>1. PICK g, a : g = Term(env, e.subs[1]) /\ a = CastTerm(env, e.subs[2], f[2])
    OBVIOUS
  <2>2. r = INode("app", e.x, e.n, <<g, a>>)
    BY <1>1, <1>2, <1>3, <1>7, <2>1, TermOfApp
  <2>3. r.subs[1] = g /\ r.subs[2] = a
    BY <2>2, INodeFields
  <2>4. f[2] \in Types
    BY <1>5, <1>7, TypeShape
  <2>5. TermTyped(env, g, f)
    BY <1>1, <1>3, <1>5, <1>6, <2>1, <2>3, TermTypedOf
  <2>6. TermTyped(env, a, f[2])
    BY <1>1, <1>5, <1>6, <2>1, <2>3, <2>4, CastTypedOf
  <2>7. t = f[3]
    BY <1>1, <1>2, <1>3, <1>7, WellTypedApp
  <2>8. QED
    BY <1>5, <1>7, <2>3, <2>5, <2>6, <2>7
<1>8. CASE ~IsArr(f)
  <2>1. PICK g, a : g = CastTerm(env, e.subs[1], Dynamic) /\ a = CastTerm(env, e.subs[2], Any)
    OBVIOUS
  <2>2. r = INode("app", e.x, e.n, <<g, a>>)
    BY <1>1, <1>2, <1>3, <1>8, <2>1, TermOfApp
  <2>3. r.subs[1] = g /\ r.subs[2] = a
    BY <2>2, INodeFields
  <2>4. Dynamic \in Types /\ IsArr(Dynamic) /\ Any \in Types /\ Dynamic[2] = Any /\ Dynamic[3] = Any
    BY DynamicType, TypeKinds, ArrowFields DEF Dynamic
  <2>5. TermTyped(env, g, Dynamic)
    BY <1>1, <1>3, <1>5, <1>6, <2>1, <2>3, <2>4, CastTypedOf
  <2>6. TermTyped(env, a, Any)
    BY <1>1, <1>5, <1>6, <2>1, <2>3, <2>4, CastTypedOf
  <2>7. t = Any
    BY <1>1, <1>2, <1>3, <1>8, WellTypedApp
  <2>8. QED
    BY <2>3, <2>4, <2>5, <2>6, <2>7
<1>9. QED
  BY <1>7, <1>8

LEMMA TermTypedBin ==
  ASSUME NEW env, NEW r, NEW t, TermTyped(env, r, t), r.op = "bin"
  PROVE  t = Int_ /\ TermTyped(env, r.subs[1], Int_) /\ TermTyped(env, r.subs[2], Int_)
<1>1. env \in TypeEnvs /\ r \in IRs /\ t \in Types
  BY DEF TermTyped
<1>2. PICK e \in Exprs : /\ type_of(env, e) # Ill /\ r = Term(env, e)
                         /\ t = type_of(env, e) /\ e.op = "bin"
  BY TermTypedCases
<1>3. 1 \in DOMAIN e.subs /\ 2 \in DOMAIN e.subs
  BY <1>2, ExprFields, Ops
<1>4. /\ e.subs[1] \in Exprs /\ e.subs[2] \in Exprs /\ type_of(env, e.subs[1]) \in Types
      /\ type_of(env, e.subs[2]) \in Types
  BY <1>1, <1>2, <1>3, PartsTyped
<1>5. r.subs[1] \in IRs /\ r.subs[2] \in IRs
  <2>1. 1 \in DOMAIN r.subs /\ 2 \in DOMAIN r.subs
    BY <1>1, IRFields, Ops
  <2>2. QED
    BY <1>1, <2>1, IRFields
<1>6. PICK g, a : g = CastTerm(env, e.subs[1], Int_) /\ a = CastTerm(env, e.subs[2], Int_)
  OBVIOUS
<1>7. r = INode("bin", e.x, e.n, <<g, a>>)
  BY <1>1, <1>2, <1>6, TermOfBin
<1>8. r.subs[1] = g /\ r.subs[2] = a
  BY <1>7, INodeFields
<1>9. Int_ \in Types
  BY BaseTypes
<1>10. TermTyped(env, g, Int_)
  BY <1>1, <1>4, <1>5, <1>6, <1>8, <1>9, CastTypedOf
<1>11. TermTyped(env, a, Int_)
  BY <1>1, <1>4, <1>5, <1>6, <1>8, <1>9, CastTypedOf
<1>12. QED
  BY <1>1, <1>2, <1>8, <1>10, <1>11, WellTypedBin

LEMMA TermTypedIf ==
  ASSUME NEW env, NEW r, NEW t, TermTyped(env, r, t), r.op = "if"
  PROVE  TermTyped(env, r.subs[1], Bool_) /\ TermTyped(env, r.subs[2], t) /\ TermTyped(env, r.subs[3], t)
<1>1. env \in TypeEnvs /\ r \in IRs /\ t \in Types
  BY DEF TermTyped
<1>2. PICK e \in Exprs : /\ type_of(env, e) # Ill /\ r = Term(env, e)
                         /\ t = type_of(env, e) /\ e.op = "if"
  BY TermTypedCases
<1>3. 1 \in DOMAIN e.subs /\ 2 \in DOMAIN e.subs /\ 3 \in DOMAIN e.subs
  BY <1>2, ExprFields, Ops
<1>4. /\ e.subs[1] \in Exprs /\ e.subs[2] \in Exprs /\ e.subs[3] \in Exprs
      /\ type_of(env, e.subs[1]) \in Types /\ type_of(env, e.subs[2]) \in Types
      /\ type_of(env, e.subs[3]) \in Types
  BY <1>1, <1>2, <1>3, PartsTyped
<1>5. r.subs[1] \in IRs /\ r.subs[2] \in IRs /\ r.subs[3] \in IRs
  <2>1. 1 \in DOMAIN r.subs /\ 2 \in DOMAIN r.subs /\ 3 \in DOMAIN r.subs
    BY <1>1, IRFields, Ops
  <2>2. QED
    BY <1>1, <2>1, IRFields
<1>6. PICK a, b, c : /\ a = CastTerm(env, e.subs[1], Bool_) /\ b = CastTerm(env, e.subs[2], t)
                     /\ c = CastTerm(env, e.subs[3], t)
  OBVIOUS
<1>7. r = INode("if", e.x, e.n, <<a, b, c>>)
  BY <1>1, <1>2, <1>6, TermOfIf
<1>8. r.subs[1] = a /\ r.subs[2] = b /\ r.subs[3] = c
  BY <1>7, INodeFields
<1>9. Bool_ \in Types
  BY BaseTypes
<1>10. TermTyped(env, a, Bool_)
  BY <1>1, <1>4, <1>5, <1>6, <1>8, <1>9, CastTypedOf
<1>11. TermTyped(env, b, t)
  BY <1>1, <1>4, <1>5, <1>6, <1>8, CastTypedOf
<1>12. TermTyped(env, c, t)
  BY <1>1, <1>4, <1>5, <1>6, <1>8, CastTypedOf
<1>13. QED
  BY <1>8, <1>10, <1>11, <1>12

-----------------------------------------------------------------------------
(* The typing of values.  A value may contain itself no more than the set  *)
(* Values lets it, so their typing is the largest relation that obeys the  *)
(* rule: a closure's environment has the types that its body was           *)
(* elaborated with, a proxy's function has the type that it is cast from,  *)
(* and a tagged value has the type of its tag.                             *)

TaggedRule(R, v) ==
  v.v = "tagged" /\ \E s \in {Int_, Bool_, Dynamic} : v.tag = Ground(s) /\ <<v.of, s>> \in R

ClosureRule(R, v, t) ==
  /\ v.v = "closure" /\ v.env \in ValueEnvs /\ v.x \in Names
  /\ \E env \in TypeEnvs :
       /\ TermTyped(Extend(env, v.x, t[2]), v.body, t[3])
       /\ \A x \in Names : env[x] # Ill => <<v.env[x], env[x]>> \in R

ProxyRule(R, v, t) ==
  v.v = "proxy" /\ v.to = t /\ v.from \in Types /\ IsArr(v.from) /\ <<v.f, v.from>> \in R

VRule(R, v, t) ==
  /\ t = Int_ => v.v = "int"
  /\ t = Bool_ => v.v = "bool"
  /\ t = Any => TaggedRule(R, v)
  /\ IsArr(t) => ClosureRule(R, v, t) \/ ProxyRule(R, v, t)

Obeys(R) == R \subseteq Values \X Types /\ \A p \in R : VRule(R, p[1], p[2])

ValueTyping == UNION {R \in SUBSET (Values \X Types) : Obeys(R)}

ValueTyped(v, t) == <<v, t>> \in ValueTyping

EnvTyped(vals, env) ==
  /\ vals \in ValueEnvs /\ env \in TypeEnvs
  /\ \A x \in Names : env[x] # Ill => ValueTyped(vals[x], env[x])

LEMMA RuleGrows ==
  ASSUME NEW R, NEW S, R \subseteq S, NEW v, NEW t, VRule(R, v, t)
  PROVE  VRule(S, v, t)
<1>1. TaggedRule(R, v) => TaggedRule(S, v)
  BY DEF TaggedRule
<1>2. ClosureRule(R, v, t) => ClosureRule(S, v, t)
  BY DEF ClosureRule
<1>3. ProxyRule(R, v, t) => ProxyRule(S, v, t)
  BY DEF ProxyRule
<1>4. QED
  BY <1>1, <1>2, <1>3 DEF VRule

LEMMA TypingObeys == Obeys(ValueTyping)
<1>1. ValueTyping \subseteq Values \X Types
  BY DEF ValueTyping
<1>2. ASSUME NEW p \in ValueTyping PROVE VRule(ValueTyping, p[1], p[2])
  <2>1. PICK R \in SUBSET (Values \X Types) : Obeys(R) /\ p \in R
    BY DEF ValueTyping
  <2>2. R \subseteq ValueTyping
    BY <2>1 DEF ValueTyping
  <2>3. VRule(R, p[1], p[2])
    BY <2>1 DEF Obeys
  <2>4. QED
    BY <2>2, <2>3, RuleGrows
<1>3. QED
  BY <1>1, <1>2 DEF Obeys

LEMMA TypedObeys ==
  ASSUME NEW v, NEW t, ValueTyped(v, t)
  PROVE  v \in Values /\ t \in Types /\ VRule(ValueTyping, v, t)
<1>1. PICK p : p = <<v, t>>
  OBVIOUS
<1>2. p \in ValueTyping /\ p[1] = v /\ p[2] = t
  BY <1>1 DEF ValueTyped
<1>3. p \in Values \X Types /\ VRule(ValueTyping, p[1], p[2])
  BY <1>2, TypingObeys DEF Obeys
<1>4. QED
  BY <1>2, <1>3

LEMMA ObeyingIsTyped ==
  ASSUME NEW v \in Values, NEW t \in Types, VRule(ValueTyping, v, t)
  PROVE  ValueTyped(v, t)
<1>1. PICK p : p = <<v, t>>
  OBVIOUS
<1>2. p \in Values \X Types /\ p[1] = v /\ p[2] = t
  BY <1>1
<1>3. PICK R : R = ValueTyping \cup {p}
  OBVIOUS
<1>4. R \in SUBSET (Values \X Types) /\ ValueTyping \subseteq R
  BY <1>2, <1>3, TypingObeys DEF Obeys
<1>5. ASSUME NEW q \in R PROVE VRule(R, q[1], q[2])
  <2>1. VRule(ValueTyping, q[1], q[2])
    <3>1. CASE q \in ValueTyping
      BY <3>1, TypingObeys DEF Obeys
    <3>2. CASE q = p
      BY <1>2, <3>2
    <3>3. QED
      BY <1>3, <3>1, <3>2
  <2>2. QED
    BY <1>4, <2>1, RuleGrows
<1>6. Obeys(R)
  BY <1>4, <1>5 DEF Obeys
<1>7. p \in ValueTyping
  BY <1>3, <1>4, <1>6 DEF ValueTyping
<1>8. QED
  BY <1>1, <1>7 DEF ValueTyped

(* What the type of a value says of it.                                    *)
LEMMA TypedBase ==
  ASSUME NEW v, NEW t, ValueTyped(v, t)
  PROVE  (t = Int_ => v.v = "int") /\ (t = Bool_ => v.v = "bool")
BY TypedObeys DEF VRule

LEMMA TypedAny ==
  ASSUME NEW v, ValueTyped(v, Any)
  PROVE  v.v = "tagged" /\ \E s \in {Int_, Bool_, Dynamic} : v.tag = Ground(s) /\ ValueTyped(v.of, s)
<1>1. TaggedRule(ValueTyping, v)
  BY TypedObeys DEF VRule
<1>2. QED
  BY <1>1 DEF TaggedRule, ValueTyped

LEMMA TypedFunction ==
  ASSUME NEW v, NEW t, ValueTyped(v, t), IsArr(t)
  PROVE  \/ /\ v.v = "closure" /\ v.x \in Names
            /\ \E env : /\ EnvTyped(v.env, env)
                        /\ TermTyped(Extend(env, v.x, t[2]), v.body, t[3])
         \/ v.v = "proxy" /\ v.to = t /\ v.from \in Types /\ IsArr(v.from) /\ ValueTyped(v.f, v.from)
<1>1. ClosureRule(ValueTyping, v, t) \/ ProxyRule(ValueTyping, v, t)
  BY TypedObeys DEF VRule
<1>2. CASE ClosureRule(ValueTyping, v, t)
  BY <1>2 DEF ClosureRule, EnvTyped, ValueTyped
<1>3. CASE ProxyRule(ValueTyping, v, t)
  BY <1>3 DEF ProxyRule, ValueTyped
<1>4. QED
  BY <1>1, <1>2, <1>3

LEMMA TypedIsValue ==
  ASSUME NEW v, NEW t, ValueTyped(v, t)
  PROVE  IsValue(v)
<1>1. t \in Types
  BY TypedObeys
<1>2. CASE IsArr(t)
  <2>1. v.v = "closure" \/ v.v = "proxy"
    BY <1>2, TypedFunction
  <2>2. QED
    BY <2>1 DEF IsValue
<1>3. CASE t = Any
  <2>1. v.v = "tagged"
    BY <1>3, TypedAny
  <2>2. QED
    BY <2>1 DEF IsValue
<1>4. CASE t = Int_ \/ t = Bool_
  <2>1. v.v = "int" \/ v.v = "bool"
    BY <1>4, TypedBase
  <2>2. QED
    BY <2>1 DEF IsValue
<1>5. QED
  BY <1>1, <1>2, <1>3, <1>4, TypeKinds

(* The results that a computation of a type may have.                      *)
Good(r, t) ==
  \/ ValueTyped(r, t)
  \/ r.v = "divergent"
  \/ r.v = "failed" /\ r.why = "cast"

LEMMA GoodValue ==
  ASSUME NEW r, NEW t, Good(r, t), IsValue(r)
  PROVE  ValueTyped(r, t)
BY DEF Good, IsValue

LEMMA GoodEnded ==
  ASSUME NEW r, NEW t, NEW u, Good(r, t), ~IsValue(r)
  PROVE  Good(r, u)
BY TypedIsValue DEF Good

LEMMA TypedGood == ASSUME NEW v, NEW t, ValueTyped(v, t) PROVE Good(v, t)
BY DEF Good

LEMMA GoodCastFailure == ASSUME NEW t PROVE Good(Failed("cast"), t)
BY DEF Good, Failed

LEMMA GoodDivergence == ASSUME NEW t PROVE Good(Divergent, t)
BY DEF Good, Divergent

LEMMA GoodNew ==
  ASSUME NEW v, NEW t \in Types, VRule(ValueTyping, v, t)
  PROVE  Good(New(v), t)
<1>1. CASE v \in Values
  BY <1>1, ObeyingIsTyped, TypedGood DEF New
<1>2. CASE v \notin Values
  BY <1>2, GoodDivergence DEF New
<1>3. QED
  BY <1>1, <1>2

LEMMA GoodInt == ASSUME NEW n PROVE Good(New(VInt(n)), Int_)
<1>1. PICK v : v = VInt(n)
  OBVIOUS
<1>2. v.v = "int"
  BY <1>1 DEF VInt
<1>3. VRule(ValueTyping, v, Int_)
  BY <1>2, TypeKinds DEF VRule
<1>4. QED
  BY <1>1, <1>3, GoodNew, TypeKinds

LEMMA GoodBool == ASSUME NEW b PROVE Good(New(VBool(b)), Bool_)
<1>1. PICK v : v = VBool(b)
  OBVIOUS
<1>2. v.v = "bool"
  BY <1>1 DEF VBool
<1>3. VRule(ValueTyping, v, Bool_)
  BY <1>2, TypeKinds DEF VRule
<1>4. QED
  BY <1>1, <1>3, GoodNew, TypeKinds

LEMMA FunctionRule ==
  ASSUME NEW R, NEW v, NEW t, IsArr(t), ClosureRule(R, v, t) \/ ProxyRule(R, v, t)
  PROVE  VRule(R, v, t)
BY TypeKinds DEF VRule

LEMMA GoodClosure ==
  ASSUME NEW x \in Names, NEW body, NEW vals, NEW env, NEW t \in Types, IsArr(t),
         EnvTyped(vals, env), TermTyped(Extend(env, x, t[2]), body, t[3])
  PROVE  Good(New(Closure(x, body, vals)), t)
<1>1. PICK v : v = Closure(x, body, vals)
  OBVIOUS
<1>2. v.v = "closure" /\ v.x = x /\ v.body = body /\ v.env = vals
  BY <1>1 DEF Closure
<1>3. ClosureRule(ValueTyping, v, t)
  BY <1>2 DEF ClosureRule, EnvTyped, ValueTyped
<1>4. VRule(ValueTyping, v, t)
  BY <1>3, FunctionRule
<1>5. QED
  BY <1>1, <1>4, GoodNew

LEMMA GoodProxy ==
  ASSUME NEW f, NEW s \in Types, IsArr(s), NEW t \in Types, IsArr(t), ValueTyped(f, s)
  PROVE  Good(New(Proxy(f, s, t)), t)
<1>1. PICK v : v = Proxy(f, s, t)
  OBVIOUS
<1>2. v.v = "proxy" /\ v.f = f /\ v.from = s /\ v.to = t
  BY <1>1 DEF Proxy
<1>3. ProxyRule(ValueTyping, v, t)
  BY <1>2 DEF ProxyRule, ValueTyped
<1>4. VRule(ValueTyping, v, t)
  BY <1>3, FunctionRule
<1>5. QED
  BY <1>1, <1>4, GoodNew

LEMMA GoodTagged ==
  ASSUME NEW s \in {Int_, Bool_, Dynamic}, NEW w, ValueTyped(w, s)
  PROVE  Good(New(Tagged(Ground(s), w)), Any)
<1>1. PICK v : v = Tagged(Ground(s), w)
  OBVIOUS
<1>2. v.v = "tagged" /\ v.tag = Ground(s) /\ v.of = w
  BY <1>1 DEF Tagged
<1>3. TaggedRule(ValueTyping, v)
  BY <1>2 DEF TaggedRule, ValueTyped
<1>4. VRule(ValueTyping, v, Any)
  BY <1>3, TypeKinds DEF VRule
<1>5. QED
  BY <1>1, <1>4, GoodNew, TypeKinds

-----------------------------------------------------------------------------
(* Guarded casts.                                                          *)

LEMMA WrapSound ==
  ASSUME NEW s \in Types, IsArr(s), NEW t \in Types, IsArr(t), NEW v, ValueTyped(v, s)
  PROVE  Good(wrap_function(s, t, v), t)
<1>1. v.v \in {"closure", "proxy"}
  BY TypedFunction
<1>2. wrap_function(s, t, v) = New(Proxy(v, s, t))
  BY <1>1 DEF wrap_function
<1>3. QED
  BY <1>2, GoodProxy

LEMMA CastFunctionSound ==
  ASSUME NEW s \in Types, IsArr(s), NEW t \in Types, IsArr(t), NEW v, ValueTyped(v, s)
  PROVE  Good(cast_function(s, t, v), t)
<1>1. CASE s = t
  BY <1>1, TypedGood DEF cast_function
<1>2. CASE s # t
  BY <1>2, WrapSound DEF cast_function
<1>3. QED
  BY <1>1, <1>2

LEMMA FromAnySound ==
  ASSUME NEW t \in Types, t # Any, NEW v, ValueTyped(v, Any)
  PROVE  Good(cast_from_any(t, v), t)
<1>1. PICK s \in {Int_, Bool_, Dynamic} : v.v = "tagged" /\ v.tag = Ground(s) /\ ValueTyped(v.of, s)
  BY TypedAny
<1>2. Dynamic \in Types /\ IsArr(Dynamic)
  BY DynamicType
<1>3. CASE v.tag # Ground(t)
  <2>1. cast_from_any(t, v) = Failed("cast")
    BY <1>3 DEF cast_from_any
  <2>2. QED
    BY <2>1, GoodCastFailure
<1>4. CASE v.tag = Ground(t) /\ IsArr(t)
  <2>1. s = Dynamic
    BY <1>1, <1>4, TypeKinds
  <2>2. cast_from_any(t, v) = cast_function(Dynamic, t, v.of)
    BY <1>1, <1>4 DEF cast_from_any
  <2>3. QED
    BY <1>1, <1>2, <1>4, <2>1, <2>2, CastFunctionSound
<1>5. CASE v.tag = Ground(t) /\ ~IsArr(t)
  <2>1. s = t
    BY <1>1, <1>2, <1>5, TypeKinds
  <2>2. cast_from_any(t, v) = v.of
    BY <1>1, <1>5 DEF cast_from_any
  <2>3. QED
    BY <1>1, <2>1, <2>2, TypedGood
<1>6. QED
  BY <1>3, <1>4, <1>5

LEMMA ToAnySound ==
  ASSUME NEW s \in Types, s # Any, NEW v, ValueTyped(v, s)
  PROVE  Good(cast_to_any(s, v), Any)
<1>1. PICK inner : inner = IF IsArr(s) THEN cast_function(s, Dynamic, v) ELSE v
  OBVIOUS
<1>2. PICK d : d = IF IsArr(s) THEN Dynamic ELSE s
  OBVIOUS
<1>3. Dynamic \in Types /\ IsArr(Dynamic)
  BY DynamicType
<1>4. d \in {Int_, Bool_, Dynamic} /\ Ground(d) = Ground(s)
  BY <1>2, <1>3, TypeKinds
<1>5. Good(inner, d)
  <2>1. CASE IsArr(s)
    BY <1>1, <1>2, <1>3, <2>1, CastFunctionSound
  <2>2. CASE ~IsArr(s)
    BY <1>1, <1>2, <2>2, TypedGood
  <2>3. QED
    BY <2>1, <2>2
<1>6. cast_to_any(s, v) = IF IsValue(inner) THEN New(Tagged(Ground(s), inner)) ELSE inner
  BY <1>1 DEF cast_to_any
<1>7. CASE IsValue(inner)
  <2>1. ValueTyped(inner, d)
    BY <1>5, <1>7, GoodValue
  <2>2. Good(New(Tagged(Ground(d), inner)), Any)
    BY <1>4, <2>1, GoodTagged
  <2>3. QED
    BY <1>4, <1>6, <1>7, <2>2
<1>8. CASE ~IsValue(inner)
  BY <1>5, <1>6, <1>8, GoodEnded
<1>9. QED
  BY <1>7, <1>8

LEMMA ThroughAnySound ==
  ASSUME NEW s \in Types, s # Any, NEW t \in Types, t # Any, NEW v, ValueTyped(v, s)
  PROVE  Good(cast_through_any(s, t, v), t)
<1>1. PICK tagged : tagged = cast_to_any(s, v)
  OBVIOUS
<1>2. Good(tagged, Any)
  BY <1>1, ToAnySound
<1>3. cast_through_any(s, t, v) = IF IsValue(tagged) THEN cast_from_any(t, tagged) ELSE tagged
  BY <1>1 DEF cast_through_any
<1>4. CASE IsValue(tagged)
  BY <1>2, <1>3, <1>4, GoodValue, FromAnySound
<1>5. CASE ~IsValue(tagged)
  BY <1>2, <1>3, <1>5, GoodEnded
<1>6. QED
  BY <1>4, <1>5

LEMMA CastSound ==
  ASSUME NEW s \in Types, NEW t \in Types, NEW r, Good(r, s)
  PROVE  Good(cast(s, t, r), t)
<1>1. CASE ~IsValue(r)
  <2>1. cast(s, t, r) = r
    BY <1>1 DEF cast
  <2>2. QED
    BY <1>1, <2>1, GoodEnded
<1>2. CASE IsValue(r)
  <2>1. ValueTyped(r, s)
    BY <1>2, GoodValue
  <2>2. CASE s = t
    <3>1. cast(s, t, r) = r
      BY <1>2, <2>2 DEF cast
    <3>2. QED
      BY <2>2, <3>1
  <2>3. CASE s # t /\ s = Any
    <3>1. cast(s, t, r) = cast_from_any(t, r)
      BY <1>2, <2>3 DEF cast
    <3>2. QED
      BY <2>1, <2>3, <3>1, FromAnySound
  <2>4. CASE s # t /\ s # Any /\ t = Any
    <3>1. cast(s, t, r) = cast_to_any(s, r)
      BY <1>2, <2>4 DEF cast
    <3>2. QED
      BY <2>1, <2>4, <3>1, ToAnySound
  <2>5. CASE s # t /\ s # Any /\ t # Any
    <3>1. cast(s, t, r) = IF IsArr(s) /\ IsArr(t) THEN wrap_function(s, t, r)
                          ELSE cast_through_any(s, t, r)
      BY <1>2, <2>5 DEF cast
    <3>2. CASE IsArr(s) /\ IsArr(t)
      BY <2>1, <3>1, <3>2, WrapSound
    <3>3. CASE ~(IsArr(s) /\ IsArr(t))
      BY <2>1, <2>5, <3>1, <3>3, ThroughAnySound
    <3>4. QED
      BY <3>2, <3>3
  <2>6. QED
    BY <2>2, <2>3, <2>4, <2>5
<1>3. QED
  BY <1>1, <1>2

-----------------------------------------------------------------------------
(* Evaluation, by the depth that is left.                                  *)

MachineBody(depth, g) ==
  [evaluate |-> [p \in ValueEnvs \X IRs |->
     IF depth = 0 THEN Divergent ELSE Evaluated(p[1], p[2], g[depth - 1])],
   apply |-> [p \in Values \X Values |->
     IF depth = 0 THEN Divergent ELSE AppliedTo(p[1], p[2], g[depth - 1])]]

LEMMA MachineBodyDepends ==
  ASSUME NEW depth \in Nat, NEW g, NEW h, depth # 0 => g[depth - 1] = h[depth - 1]
  PROVE  MachineBody(depth, g) = MachineBody(depth, h)
<1>1. CASE depth = 0
  BY <1>1 DEF MachineBody
<1>2. CASE depth # 0
  <2>1. PICK m : m = g[depth - 1]
    OBVIOUS
  <2>2. m = h[depth - 1]
    BY <1>2, <2>1
  <2>3. MachineBody(depth, g) =
          [evaluate |-> [p \in ValueEnvs \X IRs |-> Evaluated(p[1], p[2], m)],
           apply |-> [p \in Values \X Values |-> AppliedTo(p[1], p[2], m)]]
    BY <1>2, <2>1 DEF MachineBody
  <2>4. MachineBody(depth, h) =
          [evaluate |-> [p \in ValueEnvs \X IRs |-> Evaluated(p[1], p[2], m)],
           apply |-> [p \in Values \X Values |-> AppliedTo(p[1], p[2], m)]]
    BY <1>2, <2>2 DEF MachineBody
  <2>5. QED
    BY <2>3, <2>4
<1>3. QED
  BY <1>1, <1>2

LEMMA MachineExists ==
  \E g : g = [n \in 0..MaxDepth |-> MachineBody(n, g)]
<1> DEFINE Dom(m) == {n \in 0..MaxDepth : n < m}
           Up(g, m) == g = [n \in Dom(m) |-> MachineBody(n, g)]
           T == {m \in Nat : \E g : Up(g, m)}
<1>1. 0 \in T
  <2>1. PICK g : g = [n \in Dom(0) |-> 0]
    OBVIOUS
  <2>2. Dom(0) = {}
    BY GtlcAssumption
  <2>3. Up(g, 0)
    BY <2>1, <2>2
  <2> HIDE DEF Up
  <2>4. QED
    BY <2>3
<1>2. ASSUME NEW m \in Nat, m \in T PROVE m + 1 \in T
  <2>1. PICK g : Up(g, m)
    BY <1>2
  <2>2. PICK h : h = [n \in Dom(m + 1) |-> MachineBody(n, g)]
    OBVIOUS
  <2>3. ASSUME NEW n \in Dom(m + 1) PROVE MachineBody(n, g) = MachineBody(n, h)
    <3>1. ASSUME n # 0 PROVE g[n - 1] = h[n - 1]
      <4>1. n - 1 \in Dom(m) /\ n - 1 \in Dom(m + 1)
        BY <3>1, GtlcAssumption
      <4>2. g[n - 1] = MachineBody(n - 1, g) /\ h[n - 1] = MachineBody(n - 1, g)
        BY <2>1, <2>2, <4>1
      <4>3. QED
        BY <4>2
    <3>2. n \in Nat
      BY GtlcAssumption
    <3>3. QED
      BY <3>1, <3>2, MachineBodyDepends
  <2>4. Up(h, m + 1)
    BY <2>2, <2>3
  <2> HIDE DEF Up
  <2>5. QED
    BY <2>4
<1> HIDE DEF Up
<1> HIDE DEF T
<1>3. MaxDepth + 1 \in T
  BY <1>1, <1>2, NumbersFromZero, GtlcAssumption
<1>4. PICK g : Up(g, MaxDepth + 1)
  BY <1>3 DEF T
<1>5. Dom(MaxDepth + 1) = 0..MaxDepth
  BY GtlcAssumption
<1> HIDE DEF Dom
<1>6. QED
  BY <1>4, <1>5 DEF Up

LEMMA MachineUnfold ==
  \A n \in 0..MaxDepth : Machine[n] = MachineBody(n, Machine)
<1>1. Machine = CHOOSE g : g = [n \in 0..MaxDepth |-> MachineBody(n, g)]
  BY DEF Machine, MachineBody
<1>2. Machine = [n \in 0..MaxDepth |-> MachineBody(n, Machine)]
  BY <1>1, MachineExists
<1>3. QED
  BY <1>2

LEMMA MachineAt ==
  ASSUME NEW n \in 0..MaxDepth
  PROVE  /\ \A p \in ValueEnvs \X IRs :
              Machine[n].evaluate[p] =
                IF n = 0 THEN Divergent ELSE Evaluated(p[1], p[2], Machine[n - 1])
         /\ \A p \in Values \X Values :
              Machine[n].apply[p] =
                IF n = 0 THEN Divergent ELSE AppliedTo(p[1], p[2], Machine[n - 1])
<1>1. PICK e : e = [p \in ValueEnvs \X IRs |->
                      IF n = 0 THEN Divergent ELSE Evaluated(p[1], p[2], Machine[n - 1])]
  OBVIOUS
<1>2. PICK a : a = [p \in Values \X Values |->
                      IF n = 0 THEN Divergent ELSE AppliedTo(p[1], p[2], Machine[n - 1])]
  OBVIOUS
<1>3. Machine[n] = [evaluate |-> e, apply |-> a]
  BY <1>1, <1>2, MachineUnfold DEF MachineBody
<1>4. Machine[n].evaluate = e /\ Machine[n].apply = a
  BY <1>3
<1>5. QED
  BY <1>1, <1>2, <1>4

EvaluateSound(m) ==
  \A vals, env, r, t :
    EnvTyped(vals, env) /\ TermTyped(env, r, t) => Good(m.evaluate[<<vals, r>>], t)

ApplySound(m) ==
  \A f, a, t : ValueTyped(f, t) /\ IsArr(t) /\ ValueTyped(a, t[2]) => Good(m.apply[<<f, a>>], t[3])

LEMMA SoundEvaluate ==
  ASSUME NEW m, EvaluateSound(m), NEW vals, NEW env, EnvTyped(vals, env),
         NEW r, NEW t, TermTyped(env, r, t)
  PROVE  Good(m.evaluate[<<vals, r>>], t)
BY DEF EvaluateSound

LEMMA SoundApply ==
  ASSUME NEW m, ApplySound(m), NEW f, NEW a, NEW t, ValueTyped(f, t), IsArr(t), ValueTyped(a, t[2])
  PROVE  Good(m.apply[<<f, a>>], t[3])
BY DEF ApplySound

LEMMA EnvExtended ==
  ASSUME NEW vals, NEW env, EnvTyped(vals, env), NEW x \in Names, NEW v, NEW t, ValueTyped(v, t)
  PROVE  EnvTyped(Extend(vals, x, v), Extend(env, x, t))
<1>1. v \in Values /\ t \in Types
  BY TypedObeys
<1>2. Extend(env, x, t) \in TypeEnvs
  BY <1>1, ExtendTypes DEF EnvTyped, OrIll
<1>3. Extend(vals, x, v) \in ValueEnvs
  BY <1>1 DEF EnvTyped, ValueEnvs, Extend
<1>4. ASSUME NEW y \in Names, Extend(env, x, t)[y] # Ill
      PROVE  ValueTyped(Extend(vals, x, v)[y], Extend(env, x, t)[y])
  <2>1. env \in TypeEnvs /\ vals \in ValueEnvs
    BY DEF EnvTyped
  <2>2. CASE y = x
    <3>1. Extend(vals, x, v)[y] = v /\ Extend(env, x, t)[y] = t
      BY <2>1, <2>2 DEF Extend, TypeEnvs, ValueEnvs
    <3>2. QED
      BY <3>1
  <2>3. CASE y # x
    <3>1. Extend(vals, x, v)[y] = vals[y] /\ Extend(env, x, t)[y] = env[y]
      BY <2>1, <2>3 DEF Extend, TypeEnvs, ValueEnvs
    <3>2. QED
      BY <1>4, <3>1 DEF EnvTyped
  <2>4. QED
    BY <2>2, <2>3
<1>5. QED
  BY <1>2, <1>3, <1>4 DEF EnvTyped

(* One step of evaluate.                                                   *)
LEMMA EvaluatedSound ==
  ASSUME NEW m, EvaluateSound(m), ApplySound(m), NEW vals, NEW env, EnvTyped(vals, env),
         NEW r, NEW t, TermTyped(env, r, t)
  PROVE  Good(Evaluated(vals, r, m), t)
<1>1. r \in IRs /\ t \in Types /\ env \in TypeEnvs
  BY DEF TermTyped
<1>2. CASE r.op = "int"
  <2>1. Evaluated(vals, r, m) = New(VInt(r.n))
    BY <1>2 DEF Evaluated
  <2>2. t = Int_
    BY <1>2, TermTypedLeaf
  <2>3. QED
    BY <2>1, <2>2, GoodInt
<1>3. CASE r.op = "bool"
  <2>1. Evaluated(vals, r, m) = New(VBool(r.n = 1))
    BY <1>3 DEF Evaluated
  <2>2. t = Bool_
    BY <1>3, TermTypedLeaf
  <2>3. PICK b : b = (r.n = 1)
    OBVIOUS
  <2>4. QED
    BY <2>1, <2>2, <2>3, GoodBool
<1>4. CASE r.op = "var"
  <2>1. Evaluated(vals, r, m) = vals[r.x]
    BY <1>4 DEF Evaluated
  <2>2. r.x \in Names /\ t = env[r.x]
    BY <1>4, TermTypedLeaf
  <2>3. t # Ill
    BY <1>1, TypeShape
  <2>4. ValueTyped(vals[r.x], t)
    BY <2>2, <2>3 DEF EnvTyped
  <2>5. QED
    BY <2>1, <2>4, TypedGood
<1>5. CASE r.op = "fun"
  <2>1. Evaluated(vals, r, m) = New(Closure(r.x, r.subs[1], vals))
    BY <1>5 DEF Evaluated
  <2>2. r.x \in Names /\ IsArr(t) /\ TermTyped(Extend(env, r.x, t[2]), r.subs[1], t[3])
    BY <1>5, TermTypedFun
  <2>3. QED
    BY <1>1, <2>1, <2>2, GoodClosure
<1>6. CASE r.op = "cast"
  <2>1. PICK v : v = m.evaluate[<<vals, r.subs[1]>>]
    OBVIOUS
  <2>2. Evaluated(vals, r, m) = cast(r.from, r.to, v)
    BY <1>6, <2>1 DEF Evaluated
  <2>3. t = r.to /\ r.from \in Types /\ TermTyped(env, r.subs[1], r.from)
    BY <1>6, TermTypedCast
  <2>4. Good(v, r.from)
    BY <2>1, <2>3, SoundEvaluate
  <2>5. QED
    BY <1>1, <2>2, <2>3, <2>4, CastSound
<1>7. CASE r.op = "app"
  <2>1. PICK f, a : f = m.evaluate[<<vals, r.subs[1]>>] /\ a = m.evaluate[<<vals, r.subs[2]>>]
    OBVIOUS
  <2>2. Evaluated(vals, r, m) = IF ~IsValue(f) THEN f ELSE IF ~IsValue(a) THEN a ELSE m.apply[<<f, a>>]
    BY <1>7, <2>1 DEF Evaluated
  <2>3. PICK s \in Types : /\ IsArr(s) /\ t = s[3]
                           /\ TermTyped(env, r.subs[1], s) /\ TermTyped(env, r.subs[2], s[2])
    BY <1>7, TermTypedApp
  <2>4. Good(f, s)
    BY <2>1, <2>3, SoundEvaluate
  <2>5. Good(a, s[2])
    BY <2>1, <2>3, SoundEvaluate
  <2>6. CASE ~IsValue(f)
    BY <2>2, <2>4, <2>6, GoodEnded
  <2>7. CASE IsValue(f) /\ ~IsValue(a)
    BY <2>2, <2>5, <2>7, GoodEnded
  <2>8. CASE IsValue(f) /\ IsValue(a)
    <3>1. ValueTyped(f, s)
      BY <2>4, <2>8, GoodValue
    <3>2. ValueTyped(a, s[2])
      BY <2>5, <2>8, GoodValue
    <3>3. Good(m.apply[<<f, a>>], s[3])
      BY <2>3, <3>1, <3>2, SoundApply
    <3>4. QED
      BY <2>2, <2>3, <2>8, <3>3
  <2>9. QED
    BY <2>6, <2>7, <2>8
<1>8. CASE r.op = "bin"
  <2>1. PICK a, b : a = m.evaluate[<<vals, r.subs[1]>>] /\ b = m.evaluate[<<vals, r.subs[2]>>]
    OBVIOUS
  <2>2. Evaluated(vals, r, m) =
          IF ~IsValue(b) THEN b ELSE IF ~IsValue(a) THEN a ELSE evaluate_binary(r.x, a, b)
    BY <1>8, <2>1 DEF Evaluated
  <2>3. t = Int_ /\ TermTyped(env, r.subs[1], Int_) /\ TermTyped(env, r.subs[2], Int_)
    BY <1>8, TermTypedBin
  <2>4. Good(a, Int_)
    BY <2>1, <2>3, SoundEvaluate
  <2>5. Good(b, Int_)
    BY <2>1, <2>3, SoundEvaluate
  <2>6. CASE ~IsValue(b)
    BY <2>2, <2>3, <2>5, <2>6
  <2>7. CASE IsValue(b) /\ ~IsValue(a)
    BY <2>2, <2>3, <2>4, <2>7
  <2>8. CASE IsValue(b) /\ IsValue(a)
    <3>1. a.v = "int" /\ b.v = "int"
      BY <2>4, <2>5, <2>8, GoodValue, TypedBase
    <3>2. PICK n : evaluate_binary(r.x, a, b) = New(VInt(n))
      BY <3>1 DEF evaluate_binary
    <3>3. QED
      BY <2>2, <2>3, <2>8, <3>2, GoodInt
  <2>9. QED
    BY <2>6, <2>7, <2>8
<1>9. CASE r.op = "if"
  <2>1. PICK c, y, n : /\ c = m.evaluate[<<vals, r.subs[1]>>] /\ y = m.evaluate[<<vals, r.subs[2]>>]
                       /\ n = m.evaluate[<<vals, r.subs[3]>>]
    OBVIOUS
  <2>2. TermTyped(env, r.subs[1], Bool_) /\ TermTyped(env, r.subs[2], t) /\ TermTyped(env, r.subs[3], t)
    BY <1>9, TermTypedIf
  <2>3. Good(c, Bool_)
    BY <2>1, <2>2, SoundEvaluate
  <2>4. Good(y, t)
    BY <2>1, <2>2, SoundEvaluate
  <2>5. Good(n, t)
    BY <2>1, <2>2, SoundEvaluate
  <2>6. CASE ~IsValue(c)
    <3>1. Evaluated(vals, r, m) = c
      BY <1>9, <2>1, <2>6 DEF Evaluated
    <3>2. QED
      BY <2>3, <2>6, <3>1, GoodEnded
  <2>7. CASE IsValue(c)
    <3>1. c.v = "bool"
      BY <2>3, <2>7, GoodValue, TypedBase
    <3>2. Evaluated(vals, r, m) = m.evaluate[<<vals, r.subs[IF c.n = 1 THEN 2 ELSE 3]>>]
      BY <1>9, <2>1, <2>7, <3>1 DEF Evaluated
    <3>3. Evaluated(vals, r, m) = y \/ Evaluated(vals, r, m) = n
      BY <2>1, <3>2
    <3>4. QED
      BY <2>4, <2>5, <3>3
  <2>8. QED
    BY <2>6, <2>7
<1>10. CASE r.op = "let"
  <2>1. PICK v : v = m.evaluate[<<vals, r.subs[1]>>]
    OBVIOUS
  <2>2. Evaluated(vals, r, m) =
          IF ~IsValue(v) THEN v ELSE m.evaluate[<<Extend(vals, r.x, v), r.subs[2]>>]
    BY <1>10, <2>1 DEF Evaluated
  <2>3. r.x \in Names
    BY <1>10, TermTypedLet
  <2>4. PICK d \in Types : /\ TermTyped(env, r.subs[1], d)
                           /\ TermTyped(Extend(env, r.x, d), r.subs[2], t)
    BY <1>10, TermTypedLet
  <2>5. Good(v, d)
    BY <2>1, <2>4, SoundEvaluate
  <2>6. CASE ~IsValue(v)
    BY <2>2, <2>5, <2>6, GoodEnded
  <2>7. CASE IsValue(v)
    <3>1. ValueTyped(v, d)
      BY <2>5, <2>7, GoodValue
    <3>2. PICK w, g : w = Extend(vals, r.x, v) /\ g = Extend(env, r.x, d)
      OBVIOUS
    <3>3. EnvTyped(w, g)
      BY <2>3, <3>1, <3>2, EnvExtended
    <3>4. Good(m.evaluate[<<w, r.subs[2]>>], t)
      BY <2>4, <3>2, <3>3, SoundEvaluate
    <3>5. QED
      BY <2>2, <2>7, <3>2, <3>4
  <2>8. QED
    BY <2>6, <2>7
<1>11. r.op \in {"int", "bool", "var", "fun", "cast", "app", "bin", "if", "let"}
  BY <1>1, IRFields, Ops
<1>12. QED
  BY <1>2, <1>3, <1>4, <1>5, <1>6, <1>7, <1>8, <1>9, <1>10, <1>11

(* One step of apply.                                                      *)
LEMMA AppliedSound ==
  ASSUME NEW m, EvaluateSound(m), ApplySound(m), NEW f, NEW a, NEW t,
         ValueTyped(f, t), IsArr(t), ValueTyped(a, t[2])
  PROVE  Good(AppliedTo(f, a, m), t[3])
<1>1. t \in Types /\ t[2] \in Types /\ t[3] \in Types
  <2>1. t \in Types
    BY TypedObeys
  <2>2. QED
    BY <2>1, TypeShape
<1>2. CASE f.v = "closure"
  <2>1. f.x \in Names
    BY <1>2, TypedFunction
  <2>2. PICK env : /\ EnvTyped(f.env, env)
                   /\ TermTyped(Extend(env, f.x, t[2]), f.body, t[3])
    BY <1>2, TypedFunction
  <2>3. PICK w, g : w = Extend(f.env, f.x, a) /\ g = Extend(env, f.x, t[2])
    OBVIOUS
  <2>4. EnvTyped(w, g)
    BY <2>1, <2>2, <2>3, EnvExtended
  <2>5. Good(m.evaluate[<<w, f.body>>], t[3])
    BY <2>2, <2>3, <2>4, SoundEvaluate
  <2>6. AppliedTo(f, a, m) = m.evaluate[<<w, f.body>>]
    BY <1>2, <2>3 DEF AppliedTo
  <2>7. QED
    BY <2>5, <2>6
<1>3. CASE f.v = "proxy"
  <2>1. PICK s : s = f.from
    OBVIOUS
  <2>2. f.to = t /\ s \in Types /\ IsArr(s) /\ ValueTyped(f.f, s)
    BY <1>3, <2>1, TypedFunction
  <2>3. s[2] \in Types /\ s[3] \in Types
    BY <2>2, TypeShape
  <2>4. PICK b : b = cast(t[2], s[2], a)
    OBVIOUS
  <2>5. Good(b, s[2])
    BY <1>1, <2>3, <2>4, TypedGood, CastSound
  <2>6. ArgumentCast(f)[1] = t[2] /\ ArgumentCast(f)[2] = s[2]
    BY <2>1, <2>2 DEF ArgumentCast
  <2>7. AppliedTo(f, a, m) =
          IF ~IsValue(b) THEN b ELSE cast(s[3], t[3], m.apply[<<f.f, b>>])
    BY <1>3, <2>1, <2>2, <2>4, <2>6 DEF AppliedTo
  <2>8. CASE ~IsValue(b)
    BY <2>5, <2>7, <2>8, GoodEnded
  <2>9. CASE IsValue(b)
    <3>1. ValueTyped(b, s[2])
      BY <2>5, <2>9, GoodValue
    <3>2. Good(m.apply[<<f.f, b>>], s[3])
      BY <2>2, <3>1, SoundApply
    <3>3. Good(cast(s[3], t[3], m.apply[<<f.f, b>>]), t[3])
      BY <1>1, <2>3, <3>2, CastSound
    <3>4. QED
      BY <2>7, <2>9, <3>3
  <2>10. QED
    BY <2>8, <2>9
<1>4. f.v = "closure" \/ f.v = "proxy"
  BY TypedFunction
<1>5. QED
  BY <1>2, <1>3, <1>4

LEMMA MachineSound == \A n \in 0..MaxDepth : EvaluateSound(Machine[n]) /\ ApplySound(Machine[n])
<1> DEFINE T == {n \in Nat : n \in 0..MaxDepth => EvaluateSound(Machine[n]) /\ ApplySound(Machine[n])}
<1>1. ASSUME NEW n \in 0..MaxDepth,
             n # 0 => EvaluateSound(Machine[n - 1]) /\ ApplySound(Machine[n - 1])
      PROVE  EvaluateSound(Machine[n]) /\ ApplySound(Machine[n])
  <2>1. PICK m, low : m = Machine[n] /\ low = Machine[n - 1]
    OBVIOUS
  <2>2. ASSUME NEW vals, NEW env, NEW r, NEW t, EnvTyped(vals, env), TermTyped(env, r, t)
        PROVE  Good(m.evaluate[<<vals, r>>], t)
    <3>1. PICK p : p = <<vals, r>>
      OBVIOUS
    <3>2. p \in ValueEnvs \X IRs /\ p[1] = vals /\ p[2] = r
      BY <2>2, <3>1 DEF EnvTyped, TermTyped
    <3>3. m.evaluate[p] = IF n = 0 THEN Divergent ELSE Evaluated(vals, r, low)
      BY <2>1, <3>2, MachineAt
    <3>4. CASE n = 0
      BY <3>1, <3>3, <3>4, GoodDivergence
    <3>5. CASE n # 0
      <4>1. EvaluateSound(low) /\ ApplySound(low)
        BY <1>1, <2>1, <3>5
      <4>2. Good(Evaluated(vals, r, low), t)
        BY <2>2, <4>1, EvaluatedSound
      <4>3. QED
        BY <3>1, <3>3, <3>5, <4>2
    <3>6. QED
      BY <3>4, <3>5
  <2>3. ASSUME NEW f, NEW a, NEW t, ValueTyped(f, t), IsArr(t), ValueTyped(a, t[2])
        PROVE  Good(m.apply[<<f, a>>], t[3])
    <3>1. PICK p : p = <<f, a>>
      OBVIOUS
    <3>2. p \in Values \X Values /\ p[1] = f /\ p[2] = a
      BY <2>3, <3>1, TypedObeys
    <3>3. m.apply[p] = IF n = 0 THEN Divergent ELSE AppliedTo(f, a, low)
      BY <2>1, <3>2, MachineAt
    <3>4. CASE n = 0
      BY <3>1, <3>3, <3>4, GoodDivergence
    <3>5. CASE n # 0
      <4>1. EvaluateSound(low) /\ ApplySound(low)
        BY <1>1, <2>1, <3>5
      <4>2. Good(AppliedTo(f, a, low), t[3])
        BY <2>3, <4>1, AppliedSound
      <4>3. QED
        BY <3>1, <3>3, <3>5, <4>2
    <3>6. QED
      BY <3>4, <3>5
  <2>4. EvaluateSound(m)
    BY <2>2 DEF EvaluateSound
  <2>5. ApplySound(m)
    BY <2>3 DEF ApplySound
  <2>6. QED
    BY <2>1, <2>4, <2>5
<1>2. 0 \in T
  <2>1. 0 \in 0..MaxDepth
    BY GtlcAssumption
  <2>2. QED
    BY <1>1, <2>1
<1>3. ASSUME NEW n \in Nat, n \in T PROVE n + 1 \in T
  <2>1. ASSUME n + 1 \in 0..MaxDepth PROVE EvaluateSound(Machine[n + 1]) /\ ApplySound(Machine[n + 1])
    <3>1. n \in 0..MaxDepth /\ n + 1 - 1 = n
      BY <2>1, GtlcAssumption
    <3>2. EvaluateSound(Machine[n]) /\ ApplySound(Machine[n])
      BY <1>3, <3>1
    <3>3. QED
      BY <1>1, <2>1, <3>1, <3>2
  <2>2. QED
    BY <2>1
<1> HIDE DEF T
<1>4. Nat \subseteq T
  BY <1>2, <1>3, NumbersFromZero
<1>5. QED
  BY <1>4, GtlcAssumption DEF T

(* semantics.ml: a well-typed program is elaborated at its type, and its   *)
(* evaluation returns a value of that type, diverges, or fails in a        *)
(* guarded cast.                                                           *)
THEOREM ResultsTyped ==
  ASSUME NEW e \in Exprs, infer(e) # Ill
  PROVE  /\ elaborate(NoTypes, e).t = infer(e) /\ infer(e) \in Types
         /\ Good(Result(e), infer(e))
<1>1. NoTypes \in TypeEnvs
  BY DEF NoTypes, TypeEnvs
<1>2. PICK t : t = infer(e)
  OBVIOUS
<1>3. t = type_of(NoTypes, e) /\ t # Ill
  BY <1>2 DEF infer
<1>4. t \in Types
  BY <1>1, <1>3, TypeOfNode, IllIsNoType
<1>5. elaborate(NoTypes, e).t = t
  BY <1>1, <1>3, ElaborateNode
<1>6. PICK r : r = Term(NoTypes, e)
  OBVIOUS
<1>7. TermTyped(NoTypes, r, t)
  BY <1>1, <1>3, <1>4, <1>6, TermsAreIRs, TermTypedOf
<1>8. EnvTyped(NoValues, NoTypes)
  BY <1>1 DEF EnvTyped, NoValues, NoTypes, ValueEnvs
<1>9. MaxDepth \in 0..MaxDepth
  BY GtlcAssumption
<1>10. EvaluateSound(Machine[MaxDepth])
  BY <1>9, MachineSound
<1>11. Good(Machine[MaxDepth].evaluate[<<NoValues, r>>], t)
  BY <1>7, <1>8, <1>10, SoundEvaluate
<1>12. Result(e) = Machine[MaxDepth].evaluate[<<NoValues, r>>]
  BY <1>6 DEF Result, evaluate, Term
<1>13. QED
  BY <1>2, <1>4, <1>5, <1>11, <1>12

=============================================================================
