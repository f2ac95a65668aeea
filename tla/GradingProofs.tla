---------------------------- MODULE GradingProofs ---------------------------
(***************************************************************************)
(* Proofs about Grading.                                                   *)
(***************************************************************************)
EXTENDS Grading, GtlcProofs

-----------------------------------------------------------------------------
(* Cases, distances and scores.                                            *)

LEMMA CaseFields ==
  ASSUME NEW c \in Cases
  PROVE  c.program \in Exprs /\ c.oracle \in Exprs
BY DEF Cases

(* What the assumption says of a case of a suite.                          *)
LEMMA SuiteFacts ==
  ASSUME NEW s \in Suites, NEW k \in 1..Len(s)
  PROVE  /\ s[k] \in Cases
         /\ \A e \in Submissions(s[k]) \cup {s[k].program, s[k].oracle} : Runnable(s[k], e)
         /\ Submissions(s[k]) \subseteq Exprs
<1>1. s \in Seq(Cases) /\ DOMAIN s = 1..Len(s)
  BY GradingAssumption, LenProperties
<1>2. s[k] \in Cases
  BY <1>1, ElementOfSeq
<1>3. \A e \in Submissions(s[k]) \cup {s[k].program, s[k].oracle} : Runnable(s[k], e)
  BY <1>1, GradingAssumption
<1>4. QED
  BY <1>2, <1>3 DEF Runnable

LEMMA SuiteLength == \A s \in Suites : Len(s) \in Nat
BY GradingAssumption, LenProperties

LEMMA CheckTrue ==
  ASSUME NEW l, NEW m
  PROVE  check(l, m) = "true" <=> infer(l) # Ill /\ infer(m) # Ill /\ syntax_leq(l, m)
BY DEF check

LEMMA DistanceOf ==
  ASSUME NEW l, NEW m
  PROVE  distance(l, m) = IF infer(l) = Ill \/ infer(m) = Ill THEN None ELSE ExprSteps(l, m)
BY DEF distance, ExprSteps

(* precision_distance exists exactly where is_migration holds.             *)
LEMMA DistanceExists ==
  ASSUME NEW l \in Exprs, NEW m \in Exprs
  PROVE  IF check(l, m) = "true" THEN distance(l, m) \in Nat ELSE distance(l, m) = None
BY CheckTrue, DistanceOf, ExprDistances

LEMMA Scores ==
  ASSUME NEW d \in Nat, NEW m \in Nat
  PROVE  /\ score(d, m) \in Nat /\ 2 * score(d, m) >= Unit
         /\ m = d => score(d, m) = Unit
<1>1. Unit \in Nat /\ Unit % 2 = 0
  BY GradingAssumption
<1>2. PICK p : p = precision(d, m)
  OBVIOUS
<1>3. p \in Nat
  <2>1. CASE d = 0
    BY <1>1, <1>2, <2>1 DEF precision
  <2>2. CASE d # 0
    <3>1. Unit * m \in Nat
      BY <1>1
    <3>2. (Unit * m) \div d \in Nat
      BY <3>1, <2>2
    <3>3. QED
      BY <1>2, <2>2, <3>2 DEF precision
  <2>3. QED
    BY <2>1, <2>2
<1>4. m = d => p = Unit
  BY <1>1, <1>2 DEF precision
<1>5. score(d, m) = (Unit + p) \div 2
  BY <1>2 DEF score
<1>6. (Unit + p) \div 2 \in Nat /\ 2 * ((Unit + p) \div 2) >= Unit
  BY <1>1, <1>3
<1>7. p = Unit => (Unit + p) \div 2 = Unit
  BY <1>1
<1>8. QED
  BY <1>4, <1>5, <1>6, <1>7

(* What a careful tool emits for a fixture that was accepted passes every  *)
(* step of the verifier.                                                   *)
LEMMA CarefulPasses ==
  ASSUME NEW c \in Cases, Prepared(c), NEW e \in {c.oracle, c.program}
  PROVE  /\ infer(e) # Ill /\ check(c.program, e) = "true" /\ check(e, c.oracle) = "true"
         /\ outcomes(c, e) = outcomes(c, c.program)
         /\ distance(c.program, c.oracle) \in Nat /\ distance(c.program, e) \in Nat
<1>1. c.program \in Exprs /\ c.oracle \in Exprs /\ e \in Exprs
  BY CaseFields
<1>2. check(c.program, c.oracle) = "true" /\ outcomes(c, c.oracle) = outcomes(c, c.program)
  BY DEF Prepared
<1>3. infer(c.program) # Ill /\ infer(c.oracle) # Ill /\ syntax_leq(c.program, c.oracle)
  BY <1>2, CheckTrue
<1>4. syntax_leq(c.program, c.program) /\ syntax_leq(c.oracle, c.oracle)
  BY <1>1, SyntaxLeqReflexive
<1>5. check(c.program, e) = "true" /\ check(e, c.oracle) = "true" /\ infer(e) # Ill
  BY <1>3, <1>4, CheckTrue
<1>6. distance(c.program, c.oracle) \in Nat /\ distance(c.program, e) \in Nat
  BY <1>1, <1>2, <1>5, DistanceExists
<1>7. QED
  BY <1>2, <1>5, <1>6

-----------------------------------------------------------------------------
(* Filling a context.                                                      *)

FillContextBody(p, g) ==
  LET context == p[1] e == p[2] IN
  IF context = Hole THEN e
  ELSE [context EXCEPT !.subs =
          [i \in DOMAIN context.subs |-> g[<<context.subs[i], e>>]]]

LEMMA FillContextUnfold ==
  \A p \in Exprs \X Exprs : FillContext[p] = FillContextBody(p, FillContext)
<1> DEFINE Dom(n) == LowExprs(n) \X Exprs
           Up(g, n) == g = [p \in Dom(n) |-> FillContextBody(p, g)]
           T == {n \in Nat : \E g : Up(g, n)}
<1>1. 0 \in T
  <2>1. PICK g : g = [p \in Dom(0) |-> 0]
    OBVIOUS
  <2>2. Dom(0) = {}
    BY LowExprsFacts
  <2>3. Up(g, 0)
    BY <2>1, <2>2
  <2> HIDE DEF Up
  <2>4. QED
    BY <2>3
<1>2. ASSUME NEW n \in Nat, n \in T PROVE n + 1 \in T
  <2>1. PICK g : Up(g, n)
    BY <1>2
  <2>2. PICK h : h = [p \in Dom(n + 1) |-> FillContextBody(p, g)]
    OBVIOUS
  <2>3. ASSUME NEW q \in Dom(n) PROVE g[q] = h[q]
    <3>1. q \in Dom(n + 1)
      BY LowExprsFacts
    <3> HIDE DEF Dom
    <3>2. QED
      BY <2>1, <2>2, <3>1
  <2>4. ASSUME NEW p \in Dom(n + 1) PROVE FillContextBody(p, g) = FillContextBody(p, h)
    <3>1. PICK c, e : c = p[1] /\ e = p[2]
      OBVIOUS
    <3>2. c \in LowExprs(n + 1) /\ e \in Exprs
      BY <3>1
    <3>3. ASSUME NEW i \in DOMAIN c.subs PROVE g[<<c.subs[i], e>>] = h[<<c.subs[i], e>>]
      <4>1. <<c.subs[i], e>> \in Dom(n)
        BY <3>2, LowExprParts
      <4>2. QED
        BY <2>3, <4>1
    <3>4. [i \in DOMAIN c.subs |-> g[<<c.subs[i], e>>]] = [i \in DOMAIN c.subs |-> h[<<c.subs[i], e>>]]
      BY <3>3
    <3>5. QED
      BY <3>1, <3>4 DEF FillContextBody
  <2>5. Up(h, n + 1)
    BY <2>2, <2>4
  <2> HIDE DEF Up
  <2>6. QED
    BY <2>5
<1> HIDE DEF Up
<1> HIDE DEF T
<1>3. MaxHeight + 1 \in T
  BY <1>1, <1>2, NumbersFromZero, GtlcAssumption
<1>4. PICK g : Up(g, MaxHeight + 1)
  BY <1>3 DEF T
<1>5. Dom(MaxHeight + 1) = Exprs \X Exprs
  BY LowExprsFacts, GtlcAssumption
<1> HIDE DEF Dom
<1>6. \E f : f = [p \in Exprs \X Exprs |-> FillContextBody(p, f)]
  BY <1>4, <1>5 DEF Up
<1>7. FillContext = CHOOSE f : f = [p \in Exprs \X Exprs |-> FillContextBody(p, f)]
  BY DEF FillContext, FillContextBody
<1>8. FillContext = [p \in Exprs \X Exprs |-> FillContextBody(p, FillContext)]
  BY <1>6, <1>7
<1>9. QED
  BY <1>8

(* What is filled into a context stays below its holes.                    *)
LEMMA Filling ==
  ASSUME NEW c \in Exprs, NEW e \in Exprs
  PROVE  /\ c = Hole => fill_context(c, e) = e
         /\ c # Hole =>
              /\ fill_context(c, e).op = c.op /\ fill_context(c, e).x = c.x
              /\ fill_context(c, e).n = c.n /\ fill_context(c, e).t = c.t
              /\ DOMAIN fill_context(c, e).subs = DOMAIN c.subs
              /\ \A i \in DOMAIN c.subs : fill_context(c, e).subs[i] = fill_context(c.subs[i], e)
<1>1. fill_context(c, e) = FillContextBody(<<c, e>>, FillContext)
  BY FillContextUnfold DEF fill_context
<1>2. CASE c = Hole
  BY <1>1, <1>2 DEF FillContextBody
<1>3. CASE c # Hole
  <2>1. PICK s : s = [i \in DOMAIN c.subs |-> FillContext[<<c.subs[i], e>>]]
    OBVIOUS
  <2>2. fill_context(c, e) = [c EXCEPT !.subs = s]
    BY <1>1, <1>3, <2>1 DEF FillContextBody
  <2>3. c = [op |-> c.op, x |-> c.x, n |-> c.n, t |-> c.t, subs |-> c.subs]
    BY ExprFields
  <2>4. fill_context(c, e) = [op |-> c.op, x |-> c.x, n |-> c.n, t |-> c.t, subs |-> s]
    BY <2>2, <2>3
  <2>5. DOMAIN s = DOMAIN c.subs /\ \A i \in DOMAIN c.subs : s[i] = fill_context(c.subs[i], e)
    BY <2>1 DEF fill_context
  <2>6. QED
    BY <1>3, <2>4, <2>5
<1>4. QED
  BY <1>2, <1>3

(* The fillings of a context by an expression and by a migration of it     *)
(* are an expression and a migration of it.                                *)
LEMMA FillingMigrates ==
  ASSUME NEW l \in Exprs, NEW m \in Exprs, syntax_leq(l, m)
  PROVE  \A c \in Exprs :
           fill_context(c, l) \in Exprs /\ fill_context(c, m) \in Exprs =>
             syntax_leq(fill_context(c, l), fill_context(c, m))
<1> DEFINE S == {c \in Exprs : fill_context(c, l) \in Exprs /\ fill_context(c, m) \in Exprs =>
                   syntax_leq(fill_context(c, l), fill_context(c, m))}
<1>1. ASSUME NEW c \in Exprs, \A i \in DOMAIN c.subs : c.subs[i] \in S PROVE c \in S
  <2>1. CASE c = Hole
    BY <2>1, Filling
  <2>2. ASSUME c # Hole, NEW a \in Exprs, NEW b \in Exprs,
               a = fill_context(c, l), b = fill_context(c, m)
        PROVE  syntax_leq(a, b)
    <3>1. /\ a.op = c.op /\ a.x = c.x /\ a.n = c.n /\ a.t = c.t /\ DOMAIN a.subs = DOMAIN c.subs
          /\ \A i \in DOMAIN c.subs : a.subs[i] = fill_context(c.subs[i], l)
      BY <2>2, Filling
    <3>2. /\ b.op = c.op /\ b.x = c.x /\ b.n = c.n /\ b.t = c.t /\ DOMAIN b.subs = DOMAIN c.subs
          /\ \A i \in DOMAIN c.subs : b.subs[i] = fill_context(c.subs[i], m)
      BY <2>2, Filling
    <3>3. \A i \in DOMAIN a.subs : a.subs[i] \in Exprs /\ b.subs[i] \in Exprs
      BY <2>2, <3>1, <3>2, ExprFields
    <3>4. \A i \in DOMAIN a.subs : syntax_leq(a.subs[i], b.subs[i])
      BY <1>1, <3>1, <3>2, <3>3
    <3>5. SameNode(a, b) /\ type_leq(a.t, b.t)
      BY <3>1, <3>2, ExprFields, LeqReflexive DEF SameNode
    <3>6. QED
      BY <2>2, <3>4, <3>5, SyntaxLeqCases
  <2>3. QED
    BY <2>1, <2>2
<1> HIDE DEF S
<1>2. Exprs \subseteq S
  BY <1>1, ExprInduction
<1>3. QED
  BY <1>2 DEF S

-----------------------------------------------------------------------------
(* Conditionals whose types keep their order.                              *)

LEMMA UnderTyped ==
  ASSUME NEW env \in TypeEnvs, NEW e \in Exprs, NEW k \in DOMAIN e.subs
  PROVE  Under(env, e, k) \in TypeEnvs
<1>1. CASE e.op = "fun"
  <2>1. Extend(env, e.x, e.t) \in TypeEnvs
    BY <1>1, ExprFields, ExtendTypes DEF OrIll
  <2>2. QED
    BY <1>1, <2>1 DEF Under
<1>2. CASE e.op = "let" /\ k = 2
  <2>1. e.x \in Names /\ e.subs[1] \in Exprs
    BY <1>2, ExprFields, Ops
  <2>2. Extend(env, e.x, type_of(env, e.subs[1])) \in TypeEnvs
    BY <2>1, TypeOfNode, ExtendTypes
  <2>3. QED
    BY <1>2, <2>2 DEF Under
<1>3. CASE e.op # "fun" /\ ~(e.op = "let" /\ k = 2)
  BY <1>3 DEF Under
<1>4. QED
  BY <1>1, <1>2, <1>3

SteadyJoinsBody(p, g) ==
  LET less_env == p[1][1] less == p[1][2] more_env == p[2][1] more == p[2][2] IN
  /\ less.op = "if" => type_leq(type_of(less_env, less), type_of(more_env, more))
  /\ \A k \in DOMAIN less.subs \cap DOMAIN more.subs :
       g[<<<<Under(less_env, less, k), less.subs[k]>>,
           <<Under(more_env, more, k), more.subs[k]>>>>]

LEMMA SteadyJoinsUnfold ==
  \A p \in (TypeEnvs \X Exprs) \X (TypeEnvs \X Exprs) : SteadyJoins[p] = SteadyJoinsBody(p, SteadyJoins)
<1> DEFINE Dom(n) == (TypeEnvs \X LowExprs(n)) \X (TypeEnvs \X Exprs)
           Up(g, n) == g = [p \in Dom(n) |-> SteadyJoinsBody(p, g)]
           T == {n \in Nat : \E g : Up(g, n)}
<1>1. 0 \in T
  <2>1. PICK g : g = [p \in Dom(0) |-> 0]
    OBVIOUS
  <2>2. Dom(0) = {}
    BY LowExprsFacts
  <2>3. Up(g, 0)
    BY <2>1, <2>2
  <2> HIDE DEF Up
  <2>4. QED
    BY <2>3
<1>2. ASSUME NEW n \in Nat, n \in T PROVE n + 1 \in T
  <2>1. PICK g : Up(g, n)
    BY <1>2
  <2>2. PICK h : h = [p \in Dom(n + 1) |-> SteadyJoinsBody(p, g)]
    OBVIOUS
  <2>3. ASSUME NEW q \in Dom(n) PROVE g[q] = h[q]
    <3>1. q \in Dom(n + 1)
      BY LowExprsFacts
    <3> HIDE DEF Dom
    <3>2. QED
      BY <2>1, <2>2, <3>1
  <2>4. ASSUME NEW p \in Dom(n + 1) PROVE SteadyJoinsBody(p, g) = SteadyJoinsBody(p, h)
    <3>1. PICK el, l, em, m : el = p[1][1] /\ l = p[1][2] /\ em = p[2][1] /\ m = p[2][2]
      OBVIOUS
    <3>2. el \in TypeEnvs /\ l \in LowExprs(n + 1) /\ em \in TypeEnvs /\ m \in Exprs
      BY <3>1
    <3>3. ASSUME NEW k \in DOMAIN l.subs \cap DOMAIN m.subs
          PROVE  g[<<<<Under(el, l, k), l.subs[k]>>, <<Under(em, m, k), m.subs[k]>>>>]
                   = h[<<<<Under(el, l, k), l.subs[k]>>, <<Under(em, m, k), m.subs[k]>>>>]
      <4>1. l \in Exprs /\ l.subs[k] \in LowExprs(n) /\ m.subs[k] \in Exprs
        BY <3>2, LowExprParts, ExprFields
      <4>2. Under(el, l, k) \in TypeEnvs /\ Under(em, m, k) \in TypeEnvs
        BY <3>2, <4>1, UnderTyped
      <4>3. <<<<Under(el, l, k), l.subs[k]>>, <<Under(em, m, k), m.subs[k]>>>> \in Dom(n)
        BY <4>1, <4>2
      <4>4. QED
        BY <2>3, <4>3
    <3>4. QED
      BY <3>1, <3>3 DEF SteadyJoinsBody
  <2>5. Up(h, n + 1)
    BY <2>2, <2>4
  <2> HIDE DEF Up
  <2>6. QED
    BY <2>5
<1> HIDE DEF Up
<1> HIDE DEF T
<1>3. MaxHeight + 1 \in T
  BY <1>1, <1>2, NumbersFromZero, GtlcAssumption
<1>4. PICK g : Up(g, MaxHeight + 1)
  BY <1>3 DEF T
<1>5. Dom(MaxHeight + 1) = (TypeEnvs \X Exprs) \X (TypeEnvs \X Exprs)
  BY LowExprsFacts, GtlcAssumption
<1> HIDE DEF Dom
<1>6. \E f : f = [p \in (TypeEnvs \X Exprs) \X (TypeEnvs \X Exprs) |-> SteadyJoinsBody(p, f)]
  BY <1>4, <1>5 DEF Up
<1>7. SteadyJoins = CHOOSE f : f = [p \in (TypeEnvs \X Exprs) \X (TypeEnvs \X Exprs) |-> SteadyJoinsBody(p, f)]
  BY DEF SteadyJoins, SteadyJoinsBody
<1>8. SteadyJoins = [p \in (TypeEnvs \X Exprs) \X (TypeEnvs \X Exprs) |-> SteadyJoinsBody(p, SteadyJoins)]
  BY <1>6, <1>7
<1>9. QED
  BY <1>8

Joins(el, l, em, m) == SteadyJoins[<<<<el, l>>, <<em, m>>>>]

LEMMA JoinsCases ==
  ASSUME NEW el \in TypeEnvs, NEW l \in Exprs, NEW em \in TypeEnvs, NEW m \in Exprs,
         Joins(el, l, em, m)
  PROVE  /\ l.op = "if" => type_leq(type_of(el, l), type_of(em, m))
         /\ \A k \in DOMAIN l.subs \cap DOMAIN m.subs :
              Joins(Under(el, l, k), l.subs[k], Under(em, m, k), m.subs[k])
<1>1. PICK p : p = <<<<el, l>>, <<em, m>>>>
  OBVIOUS
<1>2. p \in (TypeEnvs \X Exprs) \X (TypeEnvs \X Exprs)
  BY <1>1
<1>3. SteadyJoinsBody(p, SteadyJoins)
  BY <1>1, <1>2, SteadyJoinsUnfold DEF Joins
<1>4. QED
  BY <1>1, <1>3 DEF SteadyJoinsBody, Joins

-----------------------------------------------------------------------------
(* The static gradual guarantee.                                           *)

(* What is less precise than a type is not higher.                         *)
LEMMA LessIsLower ==
  \A n \in 0..MaxTypeHeight : \A l \in Types, m \in TypesOfHeight[n] :
    type_leq(l, m) => l \in TypesOfHeight[n]
<1> DEFINE T == {n \in Nat : n \in 0..MaxTypeHeight =>
                   \A l \in Types, m \in TypesOfHeight[n] :
                     type_leq(l, m) => l \in TypesOfHeight[n]}
<1>1. 0 \in T
  <2>1. ASSUME NEW l \in Types, NEW m \in Base, type_leq(l, m) PROVE l \in Base
    BY <2>1, LeqCases, TypeShape DEF Base
  <2>2. QED
    BY <2>1, TypesStart
<1>2. ASSUME NEW n \in Nat, n \in T PROVE n + 1 \in T
  <2>1. ASSUME n + 1 \in 0..MaxTypeHeight, NEW l \in Types, NEW m \in TypesOfHeight[n + 1],
               type_leq(l, m)
        PROVE  l \in TypesOfHeight[n + 1]
    <3>1. m \in Types /\ Any \in TypesOfHeight[n + 1]
      BY <2>1, TypesStep DEF Base
    <3>2. CASE l = Any \/ l = m
      BY <3>1, <3>2
    <3>3. CASE /\ IsArr(l) /\ IsArr(m)
               /\ type_leq(l[2], m[2]) /\ type_leq(l[3], m[3])
      <4>1. m[2] \in TypesOfHeight[n] /\ m[3] \in TypesOfHeight[n] /\ n \in 0..MaxTypeHeight
        BY <2>1, <3>3, ArrowParts, GtlcAssumption
      <4>2. l[2] \in Types /\ l[3] \in Types /\ l = Arr(l[2], l[3])
        BY <3>3, TypeShape
      <4>3. l[2] \in TypesOfHeight[n] /\ l[3] \in TypesOfHeight[n]
        BY <1>2, <3>3, <4>1, <4>2
      <4>4. QED
        BY <2>1, <4>2, <4>3, ArrowOfParts
    <3>4. QED
      BY <2>1, <3>1, <3>2, <3>3, LeqCases
  <2>2. QED
    BY <2>1
<1> HIDE DEF T
<1>3. Nat \subseteq T
  BY <1>1, <1>2, NumbersFromZero
<1>4. QED
  BY <1>3, GtlcAssumption DEF T


(* Functions over less precise types exist where the more precise do.      *)
LEMMA ArrowBelow ==
  ASSUME NEW a \in Types, NEW b \in Types, NEW c \in Types, NEW d \in Types,
         type_leq(a, c), type_leq(b, d), Arrow(c, d) # Ill
  PROVE  Arrow(a, b) # Ill /\ type_leq(Arrow(a, b), Arrow(c, d))
<1>1. Arr(c, d) \in Types /\ Arrow(c, d) = Arr(c, d)
  BY DEF Arrow
<1>2. IsArr(Arr(c, d)) /\ Arr(c, d)[2] = c /\ Arr(c, d)[3] = d
  BY ArrowFields
<1>3. PICK t : t = Arr(c, d)
  OBVIOUS
<1>4. MaxTypeHeight \in Nat /\ t \in TypesOfHeight[MaxTypeHeight]
  BY <1>1, <1>3, GtlcAssumption DEF Types
<1>5. MaxTypeHeight # 0
  <2>1. ASSUME MaxTypeHeight = 0 PROVE FALSE
    <3>1. t \in Base
      BY <1>4, <2>1, TypesStart
    <3>2. QED
      BY <1>2, <1>3, <3>1, TypeShape
  <2>2. QED
    BY <2>1
<1>6. PICK n \in Nat : n + 1 = MaxTypeHeight
  <2>1. MaxTypeHeight - 1 \in Nat /\ (MaxTypeHeight - 1) + 1 = MaxTypeHeight
    BY <1>4, <1>5
  <2>2. QED
    BY <2>1
<1>7. n + 1 \in 0..MaxTypeHeight /\ n \in 0..MaxTypeHeight /\ t \in TypesOfHeight[n + 1] /\ IsArr(t)
  BY <1>2, <1>3, <1>4, <1>6
<1>8. c \in TypesOfHeight[n] /\ d \in TypesOfHeight[n]
  <2>1. t[2] \in TypesOfHeight[n] /\ t[3] \in TypesOfHeight[n]
    BY <1>7, ArrowParts
  <2>2. QED
    BY <1>2, <1>3, <2>1
<1>9. a \in TypesOfHeight[n] /\ b \in TypesOfHeight[n]
  BY <1>7, <1>8, LessIsLower
<1>10. Arr(a, b) \in TypesOfHeight[n + 1]
  BY <1>7, <1>9, ArrowOfParts
<1>11. Arr(a, b) \in Types
  BY <1>7, <1>10, TypesStep
<1>12. Arrow(a, b) = Arr(a, b) /\ Arr(a, b) # Ill
  BY <1>11, TypeShape DEF Arrow
<1>13. type_leq(Arr(a, b), Arr(c, d))
  <2>1. PICK s : s = Arr(a, b)
    OBVIOUS
  <2>2. s \in Types /\ t \in Types /\ IsArr(s) /\ IsArr(t) /\ s[2] = a /\ s[3] = b /\ t[2] = c /\ t[3] = d
    BY <1>1, <1>2, <1>3, <1>11, <2>1, ArrowFields
  <2>3. type_leq(s, t)
    BY <2>2, LeqCases
  <2>4. QED
    BY <1>3, <2>1, <2>3
<1>14. QED
  BY <1>1, <1>12, <1>13

(* An expression is typed at a less precise type than another.             *)
Below(t, u) == u # Ill => t # Ill /\ type_leq(t, u)
EnvBelow(el, em) == \A x \in Names : Below(el[x], em[x])

LEMMA ExtendBelow ==
  ASSUME NEW el \in TypeEnvs, NEW em \in TypeEnvs, NEW x \in Names, NEW t, NEW u,
         EnvBelow(el, em), Below(t, u)
  PROVE  EnvBelow(Extend(el, x, t), Extend(em, x, u))
<1>1. \A y \in Names : /\ Extend(el, x, t)[y] = (IF y = x THEN t ELSE el[y])
                        /\ Extend(em, x, u)[y] = (IF y = x THEN u ELSE em[y])
  BY DEF TypeEnvs, Extend
<1>2. QED
  BY <1>1 DEF EnvBelow

(* Whether a function may be applied, at less precise types.               *)
LEMMA AppliedBelow ==
  ASSUME NEW f \in Types, NEW a \in Types, NEW g \in Types, NEW b \in Types,
         type_leq(f, g), type_leq(a, b)
  PROVE  Below(Applied(f, a), Applied(g, b))
<1>1. SUFFICES ASSUME Applied(g, b) # Ill
               PROVE  Applied(f, a) # Ill /\ type_leq(Applied(f, a), Applied(g, b))
  BY DEF Below
<1>2. ~IsArr(Any) /\ Any \in Types /\ Any # Ill /\ Ill \notin Types
  BY TypeShape DEF Base
<1>3. CASE f = Any
  <2>1. Applied(f, a) = Any
    BY <1>2, <1>3 DEF Applied
  <2>2. Applied(g, b) \in Types
    BY <1>1, AppliedTyped, IllIsNoType
  <2>3. QED
    BY <1>2, <2>1, <2>2, LeqReflexive
<1>4. CASE f # Any
  <2>1. IsArr(g)
    <3>1. CASE f = g
      BY <1>1, <1>4, <3>1 DEF Applied
    <3>2. CASE f # g
      BY <1>4, <3>2, LeqCases
    <3>3. QED
      BY <3>1, <3>2
  <2>2. IsArr(f) /\ type_leq(f[2], g[2]) /\ type_leq(f[3], g[3])
    BY <1>4, <2>1, LeqCases, LeqReflexive, TypeShape
  <2>3. f[2] \in Types /\ f[3] \in Types /\ g[2] \in Types /\ g[3] \in Types
    BY <2>1, <2>2, TypeShape
  <2>4. consistent(b, g[2]) /\ Applied(g, b) = g[3]
    BY <1>1, <1>2, <2>1 DEF Applied, require_consistent
  <2>5. consistent(a, f[2])
    BY <2>2, <2>3, <2>4, ConsistentBelow
  <2>6. Applied(f, a) = f[3]
    BY <1>2, <2>2, <2>5 DEF Applied, require_consistent
  <2>7. QED
    BY <1>2, <2>2, <2>3, <2>4, <2>6
<1>5. QED
  BY <1>3, <1>4

(* The nodes that bind nothing, but conditionals.                          *)
LEMMA PartsBelow ==
  ASSUME NEW l \in Exprs, NEW m \in Exprs, SameNode(l, m), type_leq(l.t, m.t),
         l.op \in {"app", "bin", "ann"}, NEW s, NEW t,
         \A i \in DOMAIN l.subs : s[i] \in Types /\ t[i] \in Types /\ type_leq(s[i], t[i])
  PROVE  Below(TypeOfParts(l, s), TypeOfParts(m, t))
<1>1. m.op = l.op /\ DOMAIN l.subs = 1..Arity[l.op] /\ l.t \in Types /\ m.t \in Types
  BY ExprFields DEF SameNode
<1>2. CASE l.op = "app"
  <2>1. 1 \in DOMAIN l.subs /\ 2 \in DOMAIN l.subs
    BY <1>1, <1>2, Ops
  <2>2. TypeOfParts(l, s) = Applied(s[1], s[2]) /\ TypeOfParts(m, t) = Applied(t[1], t[2])
    BY <1>1, <1>2 DEF TypeOfParts
  <2>3. s[1] \in Types /\ s[2] \in Types /\ t[1] \in Types /\ t[2] \in Types
        /\ type_leq(s[1], t[1]) /\ type_leq(s[2], t[2])
    BY <2>1
  <2>4. QED
    BY <2>2, <2>3, AppliedBelow
<1>3. CASE l.op = "bin"
  <2>1. 1 \in DOMAIN l.subs /\ 2 \in DOMAIN l.subs
    BY <1>1, <1>3, Ops
  <2>2. \A i \in 1..2 : consistent(t[i], Int_) => consistent(s[i], Int_)
    <3>1. \A i \in 1..2 : i \in DOMAIN l.subs
      BY <2>1
    <3>2. QED
      BY <3>1, BaseTypes, LeqReflexive, ConsistentBelow
  <2>3. /\ TypeOfParts(l, s) = require_consistent(\A i \in 1..2 : consistent(s[i], Int_), Int_)
        /\ TypeOfParts(m, t) = require_consistent(\A i \in 1..2 : consistent(t[i], Int_), Int_)
    BY <1>1, <1>3 DEF TypeOfParts
  <2>4. QED
    BY <2>2, <2>3, BaseTypes, LeqReflexive DEF require_consistent, Below
<1>4. CASE l.op = "ann"
  <2>1. 1 \in DOMAIN l.subs
    BY <1>1, <1>4, Ops
  <2>2. consistent(t[1], m.t) => consistent(s[1], l.t)
    BY <1>1, <2>1, ConsistentBelow
  <2>3. l.t # Ill
    BY <1>1, TypeShape
  <2>4. /\ TypeOfParts(l, s) = require_consistent(consistent(s[1], l.t), l.t)
        /\ TypeOfParts(m, t) = require_consistent(consistent(t[1], m.t), m.t)
    BY <1>1, <1>4 DEF TypeOfParts
  <2>5. QED
    BY <2>2, <2>3, <2>4 DEF require_consistent, Below
<1>5. QED
  BY <1>2, <1>3, <1>4

(* A conditional whose condition and branches have less precise types.     *)
LEMMA IfBelow ==
  ASSUME NEW l \in Exprs, NEW m \in Exprs, SameNode(l, m), l.op = "if", NEW s, NEW t,
         \A i \in DOMAIN l.subs : s[i] \in Types /\ t[i] \in Types /\ type_leq(s[i], t[i]),
         TypeOfParts(m, t) # Ill
  PROVE  TypeOfParts(l, s) # Ill
<1>1. m.op = l.op /\ DOMAIN l.subs = 1..3
  BY ExprFields, Ops DEF SameNode
<1>2. 1 \in DOMAIN l.subs /\ 2 \in DOMAIN l.subs /\ 3 \in DOMAIN l.subs
  BY <1>1
<1>3. /\ TypeOfParts(l, s) = require_consistent(consistent(s[1], Bool_), common_branch_type(s[2], s[3]))
      /\ TypeOfParts(m, t) = require_consistent(consistent(t[1], Bool_), common_branch_type(t[2], t[3]))
  BY <1>1 DEF TypeOfParts
<1>4. consistent(t[1], Bool_)
  BY <1>3 DEF require_consistent
<1>5. consistent(s[1], Bool_)
  BY <1>2, <1>4, BaseTypes, LeqReflexive, ConsistentBelow
<1>6. common_branch_type(s[2], s[3]) \in Types
  BY <1>2, CommonInTypes
<1>7. QED
  BY <1>3, <1>5, <1>6, TypeShape DEF require_consistent

(* Parts of a node whose environments are in order.                        *)
Guaranteed(l, m) ==
  \A el, em \in TypeEnvs :
    EnvBelow(el, em) /\ Joins(el, l, em, m) => Below(type_of(el, l), type_of(em, m))

(* A node that binds nothing.                                              *)
LEMMA OtherGuaranteed ==
  ASSUME NEW l \in Exprs, NEW m \in Exprs, SameNode(l, m), type_leq(l.t, m.t),
         l.op \notin {"int", "bool", "var", "fun", "let"},
         NEW el \in TypeEnvs, NEW em \in TypeEnvs, Joins(el, l, em, m),
         \A i \in DOMAIN l.subs : Below(type_of(el, l.subs[i]), type_of(em, m.subs[i]))
  PROVE  Below(type_of(el, l), type_of(em, m))
<1>1. SUFFICES ASSUME type_of(em, m) # Ill
               PROVE  type_of(el, l) # Ill /\ type_leq(type_of(el, l), type_of(em, m))
  BY DEF Below
<1>2. PICK s : s = [i \in DOMAIN l.subs |-> type_of(el, l.subs[i])]
  OBVIOUS
<1>3. PICK t : t = [i \in DOMAIN m.subs |-> type_of(em, m.subs[i])]
  OBVIOUS
<1>4. /\ m.op = l.op /\ DOMAIN m.subs = DOMAIN l.subs
      /\ l.op \in {"app", "bin", "if", "ann"}
  BY ExprFields, Ops DEF SameNode
<1>5. type_of(em, m) = IF \E i \in DOMAIN m.subs : t[i] = Ill THEN Ill ELSE TypeOfParts(m, t)
  BY <1>3, <1>4, TypeOfOther
<1>6. type_of(el, l) = IF \E i \in DOMAIN l.subs : s[i] = Ill THEN Ill ELSE TypeOfParts(l, s)
  BY <1>2, <1>4, TypeOfOther
<1>7. (\A i \in DOMAIN l.subs : t[i] # Ill) /\ type_of(em, m) = TypeOfParts(m, t)
  BY <1>1, <1>4, <1>5
<1>8. ASSUME NEW i \in DOMAIN l.subs
      PROVE  s[i] \in Types /\ t[i] \in Types /\ type_leq(s[i], t[i])
  <2>1. s[i] = type_of(el, l.subs[i]) /\ t[i] = type_of(em, m.subs[i])
    BY <1>2, <1>3, <1>4
  <2>2. s[i] # Ill /\ type_leq(s[i], t[i]) /\ t[i] # Ill
    BY <1>7, <2>1 DEF Below
  <2>3. l.subs[i] \in Exprs /\ m.subs[i] \in Exprs
    BY <1>4, ExprFields
  <2>4. s[i] \in OrIll /\ t[i] \in OrIll
    BY <2>1, <2>3, TypeOfNode
  <2>5. QED
    BY <2>2, <2>4, IllIsNoType
<1>9. \A i \in DOMAIN l.subs : s[i] # Ill
  BY <1>8, TypeShape
<1>10. type_of(el, l) = TypeOfParts(l, s)
  BY <1>6, <1>9
<1>11. CASE l.op = "if"
  <2>1. TypeOfParts(l, s) # Ill
    BY <1>1, <1>7, <1>8, <1>11, IfBelow
  <2>2. type_leq(type_of(el, l), type_of(em, m))
    BY <1>11, JoinsCases
  <2>3. QED
    BY <1>10, <2>1, <2>2
<1>12. CASE l.op # "if"
  <2>1. l.op \in {"app", "bin", "ann"}
    BY <1>4, <1>12
  <2>2. Below(TypeOfParts(l, s), TypeOfParts(m, t))
    BY <1>8, <2>1, PartsBelow
  <2>3. QED
    BY <1>1, <1>7, <1>10, <2>2 DEF Below
<1>13. QED
  BY <1>11, <1>12

(* A binder, and the other nodes: what holds of its parts holds of a node. *)
LEMMA NodeGuaranteed ==
  ASSUME NEW l \in Exprs, NEW m \in Exprs, SameNode(l, m), type_leq(l.t, m.t),
         \A i \in DOMAIN l.subs : Guaranteed(l.subs[i], m.subs[i])
  PROVE  Guaranteed(l, m)
<1> SUFFICES ASSUME NEW el \in TypeEnvs, NEW em \in TypeEnvs,
                    EnvBelow(el, em), Joins(el, l, em, m)
             PROVE  Below(type_of(el, l), type_of(em, m))
  BY DEF Guaranteed
<1>1. /\ m.op = l.op /\ m.x = l.x /\ DOMAIN m.subs = DOMAIN l.subs
      /\ DOMAIN l.subs = 1..Arity[l.op]
      /\ l.t \in Types /\ m.t \in Types
      /\ l.op \in {"var", "fun", "let"} => l.x \in Names
  BY ExprFields DEF SameNode
<1>2. \A i \in DOMAIN l.subs : l.subs[i] \in Exprs /\ m.subs[i] \in Exprs
  BY <1>1, ExprFields
<1>3. ASSUME NEW i \in DOMAIN l.subs, NEW dl \in TypeEnvs, NEW dm \in TypeEnvs,
             EnvBelow(dl, dm), Under(el, l, i) = dl, Under(em, m, i) = dm
      PROVE  Below(type_of(dl, l.subs[i]), type_of(dm, m.subs[i]))
  <2>1. Joins(dl, l.subs[i], dm, m.subs[i])
    BY <1>1, <1>3, JoinsCases
  <2>2. Guaranteed(l.subs[i], m.subs[i])
    OBVIOUS
  <2>3. QED
    BY <1>3, <2>1, <2>2 DEF Guaranteed
<1>4. CASE l.op \in {"int", "bool"}
  <2>1. type_of(el, l) = type_of(em, m) /\ type_of(el, l) \in {Int_, Bool_}
    BY <1>1, <1>4, TypeOfLeaf
  <2>2. QED
    BY <2>1, BaseTypes, TypeShape, LeqReflexive DEF Below
<1>5. CASE l.op = "var"
  <2>1. type_of(el, l) = el[l.x] /\ type_of(em, m) = em[l.x]
    BY <1>1, <1>5, TypeOfLeaf
  <2>2. QED
    BY <1>1, <1>5, <2>1 DEF EnvBelow
<1>6. CASE l.op = "fun"
  <2>1. 1 \in DOMAIN l.subs /\ l.x \in Names
    BY <1>1, <1>6, Ops
  <2>2. PICK dl, dm : dl = Extend(el, l.x, l.t) /\ dm = Extend(em, m.x, m.t)
    OBVIOUS
  <2>3. dl \in TypeEnvs /\ dm \in TypeEnvs
    BY <1>1, <2>1, <2>2, ExtendTypes DEF OrIll
  <2>4. EnvBelow(dl, dm)
    <3>1. Below(l.t, m.t)
      BY <1>1, TypeShape DEF Below
    <3>2. QED
      BY <1>1, <2>1, <2>2, <3>1, ExtendBelow
  <2>5. Under(el, l, 1) = dl /\ Under(em, m, 1) = dm
    BY <1>1, <1>6, <2>2 DEF Under
  <2>6. PICK b, d : b = type_of(dl, l.subs[1]) /\ d = type_of(dm, m.subs[1])
    OBVIOUS
  <2>7. Below(b, d)
    BY <1>3, <2>1, <2>3, <2>4, <2>5, <2>6
  <2>8. b \in OrIll /\ d \in OrIll
    BY <1>2, <2>1, <2>3, <2>6, TypeOfNode
  <2>9. type_of(el, l) = Arrow(l.t, b) /\ type_of(em, m) = Arrow(m.t, d)
    BY <1>1, <1>6, <2>2, <2>6, TypeOfFun
  <2>10. ASSUME Arrow(m.t, d) # Ill PROVE d # Ill
    <3>1. Arr(m.t, d) \in Types
      BY <2>10 DEF Arrow
    <3>2. PICK t : t = Arr(m.t, d)
      OBVIOUS
    <3>3. IsArr(t) /\ t[3] = d /\ t \in Types
      BY <3>1, <3>2, ArrowFields
    <3>4. QED
      BY <3>3, TypeShape
  <2>11. ASSUME Arrow(m.t, d) # Ill
         PROVE  Arrow(l.t, b) # Ill /\ type_leq(Arrow(l.t, b), Arrow(m.t, d))
    <3>1. d \in Types /\ b \in Types /\ type_leq(b, d)
      BY <2>7, <2>8, <2>10, <2>11, IllIsNoType DEF Below
    <3>2. QED
      BY <1>1, <2>11, <3>1, ArrowBelow
  <2>12. QED
    BY <2>9, <2>11 DEF Below
<1>7. CASE l.op = "let"
  <2>1. 1 \in DOMAIN l.subs /\ 2 \in DOMAIN l.subs /\ l.x \in Names
    BY <1>1, <1>7, Ops
  <2>2. PICK v, w : v = type_of(el, l.subs[1]) /\ w = type_of(em, m.subs[1])
    OBVIOUS
  <2>3. v \in OrIll /\ w \in OrIll
    BY <1>2, <2>1, <2>2, TypeOfNode
  <2>4. Under(el, l, 1) = el /\ Under(em, m, 1) = em
    BY <1>1, <1>7 DEF Under
  <2>5. Below(v, w)
    BY <1>3, <2>1, <2>2, <2>4
  <2>6. PICK dl, dm : dl = Extend(el, l.x, v) /\ dm = Extend(em, m.x, w)
    OBVIOUS
  <2>7. dl \in TypeEnvs /\ dm \in TypeEnvs
    BY <1>1, <2>1, <2>3, <2>6, ExtendTypes
  <2>8. EnvBelow(dl, dm)
    BY <1>1, <2>1, <2>5, <2>6, ExtendBelow
  <2>9. Under(el, l, 2) = dl /\ Under(em, m, 2) = dm
    BY <1>1, <1>7, <2>2, <2>6 DEF Under
  <2>10. Below(type_of(dl, l.subs[2]), type_of(dm, m.subs[2]))
    BY <1>3, <2>1, <2>7, <2>8, <2>9
  <2>11. /\ type_of(el, l) = IF v = Ill THEN Ill ELSE type_of(dl, l.subs[2])
         /\ type_of(em, m) = IF w = Ill THEN Ill ELSE type_of(dm, m.subs[2])
    BY <1>1, <1>7, <2>2, <2>6, TypeOfLet
  <2>12. QED
    BY <2>5, <2>10, <2>11 DEF Below
<1>8. CASE l.op \notin {"int", "bool", "var", "fun", "let"}
  <2>1. ASSUME NEW i \in DOMAIN l.subs
        PROVE  Below(type_of(el, l.subs[i]), type_of(em, m.subs[i]))
    <3>1. Under(el, l, i) = el /\ Under(em, m, i) = em
      BY <1>1, <1>8 DEF Under
    <3>2. QED
      BY <1>3, <2>1, <3>1
  <2>2. QED
    BY <1>8, <2>1, OtherGuaranteed
<1>9. QED
  BY <1>4, <1>5, <1>6, <1>7, <1>8

(* semantics.ml: for all expressions, if a migration of an expression has  *)
(* a type and no conditional changes its type the wrong way, then the      *)
(* expression has a type too, which is less precise or the same.           *)
THEOREM TypesFollowPrecision ==
  ASSUME NEW l \in Exprs, NEW m \in Exprs, syntax_leq(l, m),
         NEW el \in TypeEnvs, NEW em \in TypeEnvs, EnvBelow(el, em),
         SteadyJoins[<<<<el, l>>, <<em, m>>>>], type_of(em, m) # Ill
  PROVE  type_of(el, l) # Ill /\ type_leq(type_of(el, l), type_of(em, m))
<1> DEFINE S == {e \in Exprs : \A d \in Exprs : syntax_leq(e, d) => Guaranteed(e, d)}
<1>1. ASSUME NEW e \in Exprs, \A i \in DOMAIN e.subs : e.subs[i] \in S PROVE e \in S
  <2>1. ASSUME NEW d \in Exprs, syntax_leq(e, d) PROVE Guaranteed(e, d)
    <3>1. /\ SameNode(e, d) /\ type_leq(e.t, d.t)
          /\ \A i \in DOMAIN e.subs : syntax_leq(e.subs[i], d.subs[i])
      BY <2>1, SyntaxLeqCases
    <3>2. \A i \in DOMAIN e.subs : d.subs[i] \in Exprs
      BY <3>1, ExprFields DEF SameNode
    <3>3. \A i \in DOMAIN e.subs : Guaranteed(e.subs[i], d.subs[i])
      BY <1>1, <3>1, <3>2
    <3>4. QED
      BY <3>1, <3>3, NodeGuaranteed
  <2>2. QED
    BY <2>1
<1> HIDE DEF S
<1>2. Exprs \subseteq S
  BY <1>1, ExprInduction
<1>3. Guaranteed(l, m)
  BY <1>2 DEF S
<1>4. QED
  BY <1>3 DEF Guaranteed, Joins, Below

-----------------------------------------------------------------------------
(* The inductive invariant.                                                *)

Busy == phase \in {"type-check", "is-migration", "contexts", "expert", "score"}

(* The fixtures are the outcomes of the programs that were prepared.       *)
FixturesRecorded ==
  /\ Len(fixtures) \in Nat
  /\ fixtures = [k \in 1..Len(fixtures) |-> outcomes(suite[k], suite[k].program)]
  /\ \A k \in 1..Len(fixtures) : Prepared(suite[k])

(* The current challenge, and what the tool emitted for it.                *)
InHand ==
  Busy => /\ graded < Len(suite) /\ migrated \in Submissions(Case)
          /\ phase \in {"contexts", "expert", "score"} => check(Case.program, migrated) = "true"

(* Before the tool is run nothing is graded.                               *)
NotBegun ==
  /\ phase = "install" => fixtures = <<>>
  /\ phase \in {"install", "prepare"} => graded = 0 /\ total = 0 /\ manner = "expert"

(* A tool that was careful so far has earned its part so far.              *)
Earned ==
  phase # "done" =>
    /\ manner = "expert" => total = Unit * graded
    /\ manner = "careful" => 2 * total >= Unit * graded

Followed ==
  Busy => /\ manner = "expert" => migrated = Case.oracle
          /\ manner = "careful" => migrated \in {Case.oracle, Case.program}

IInv ==
  /\ suite \in Suites
  /\ TypeOK /\ FixturesRecorded /\ InHand /\ NotBegun /\ Earned /\ Followed /\ CarefulToolsEarn

LEMMA InitIInv == Init => IInv
<1> SUFFICES ASSUME Init PROVE IInv
  OBVIOUS
<1>1. Len(suite) \in Nat /\ Len(fixtures) = 0
  BY SuiteLength DEF Init
<1>2. TypeOK
  BY <1>1 DEF Init, TypeOK, Done
<1>3. FixturesRecorded
  <2>1. fixtures = [k \in 1..Len(fixtures) |-> outcomes(suite[k], suite[k].program)]
    BY <1>1 DEF Init
  <2>2. QED
    BY <1>1, <2>1 DEF FixturesRecorded
<1>4. CarefulToolsEarn
  BY DEF Init, CarefulToolsEarn, Done
<1>5. Unit * 0 = 0
  BY GradingAssumption
<1>6. Earned
  BY <1>5 DEF Init, Earned
<1>7. QED
  BY <1>2, <1>3, <1>4, <1>6 DEF Init, IInv, InHand, NotBegun, Followed, Busy

(* The challenge in hand is one whose fixtures were accepted.              *)
LEMMA Hand ==
  ASSUME IInv, Busy
  PROVE  /\ Case \in Cases /\ Prepared(Case) /\ migrated \in Exprs
         /\ fixtures[graded + 1] = outcomes(Case, Case.program)
         /\ graded \in Nat /\ graded + 1 \in 1..Len(suite) /\ Len(suite) \in Nat
         /\ Len(fixtures) = Len(suite)
<1>1. Len(suite) \in Nat /\ Len(fixtures) = Len(suite) /\ graded \in Nat /\ graded < Len(suite)
  BY SuiteLength DEF IInv, TypeOK, InHand, Busy
<1>2. graded + 1 \in 1..Len(suite)
  BY <1>1
<1>3. Case \in Cases /\ migrated \in Exprs
  BY <1>2, SuiteFacts DEF IInv, InHand, Case
<1>4. Prepared(Case) /\ fixtures[graded + 1] = outcomes(Case, Case.program)
  BY <1>1, <1>2 DEF IInv, FixturesRecorded, Case
<1>5. QED
  BY <1>1, <1>2, <1>3, <1>4

(* Giving up is the end for a tool that was not careful.                   *)
LEMMA AbandonStep ==
  ASSUME IInv, Abandon, phase # "done",
         manner = "other" \/ suite = <<>> \/ Len(fixtures) # Len(suite)
  PROVE  IInv'
<1> USE DEF Abandon
<1>1. TypeOK'
  BY DEF IInv, TypeOK, Done, NoReward
<1>2. FixturesRecorded'
  BY DEF IInv, FixturesRecorded
<1>3. CarefulToolsEarn'
  BY DEF CarefulToolsEarn, Done
<1>4. InHand' /\ NotBegun' /\ Earned' /\ Followed' /\ suite' \in Suites
  BY DEF IInv, InHand, NotBegun, Earned, Followed, Busy
<1>5. QED
  BY <1>1, <1>2, <1>3, <1>4 DEF IInv

(* Going on to the next step.                                              *)
LEMMA GoOnStep ==
  ASSUME IInv, NEW next \in {"prepare", "migrate", "is-migration", "contexts", "expert", "score"},
         GoOn(next), phase # "done",
         next = "prepare" => phase = "install",
         next = "migrate" => phase = "prepare" /\ Len(fixtures) = Len(suite),
         next \in {"is-migration", "contexts", "expert", "score"} => Busy,
         next \in {"contexts", "expert", "score"} => check(Case.program, migrated) = "true"
  PROVE  IInv'
<1> USE DEF GoOn
<1>1. TypeOK'
  BY DEF IInv, TypeOK, Done, Busy
<1>2. FixturesRecorded'
  BY DEF IInv, FixturesRecorded
<1>3. CarefulToolsEarn'
  BY DEF CarefulToolsEarn, Done
<1>4. InHand'
  BY DEF IInv, InHand, Busy, Case
<1>5. NotBegun' /\ Earned' /\ suite' \in Suites
  BY DEF IInv, NotBegun, Earned, Busy
<1>6. Followed'
  BY DEF IInv, Followed, Busy, Case
<1>7. QED
  BY <1>1, <1>2, <1>3, <1>4, <1>5, <1>6 DEF IInv

(* Crediting a challenge: a careful tool must earn at least half of it.    *)
LEMMA CreditStep ==
  ASSUME IInv, Busy, NEW points \in Nat, Credit(points),
         manner = "expert" => points = Unit, manner = "careful" => 2 * points >= Unit
  PROVE  IInv'
<1> USE DEF Credit
<1>1. graded \in Nat /\ total \in Nat /\ Len(suite) \in Nat /\ graded + 1 \in 0..Len(suite)
  BY Hand DEF IInv, TypeOK
<1>2. TypeOK'
  BY <1>1 DEF IInv, TypeOK, Done, Busy
<1>3. FixturesRecorded'
  BY DEF IInv, FixturesRecorded
<1>4. CarefulToolsEarn'
  BY DEF CarefulToolsEarn, Done
<1>5. InHand' /\ NotBegun' /\ Followed' /\ suite' \in Suites
  BY DEF IInv, InHand, NotBegun, Followed, Busy
<1>6. Earned'
  <2>1. Unit \in Nat
    BY GradingAssumption
  <2>2. PICK w : w = Unit * graded
    OBVIOUS
  <2>3. Unit * (graded + 1) = w + Unit /\ w \in Nat
    BY <1>1, <2>1, <2>2
  <2>4. /\ manner = "expert" => total = w
        /\ manner = "careful" => 2 * total >= w
    BY <2>2 DEF IInv, Earned, Busy
  <2>5. manner = "expert" => total + points = Unit * (graded + 1)
    BY <2>1, <2>3, <2>4
  <2>6. manner = "careful" => 2 * (total + points) >= Unit * (graded + 1)
    BY <1>1, <2>1, <2>3, <2>4
  <2>7. QED
    BY <2>5, <2>6 DEF Earned
<1>7. QED
  BY <1>2, <1>3, <1>4, <1>5, <1>6 DEF IInv

LEMMA PrepareStep == IInv /\ Prepare => IInv'
<1> SUFFICES ASSUME IInv, Prepare PROVE IInv'
  OBVIOUS
<1> DEFINE n == Len(fixtures)
           c == suite[n + 1]
<1>1. n \in Nat /\ Len(suite) \in Nat /\ n < Len(suite) /\ phase = "prepare"
  BY SuiteLength DEF IInv, FixturesRecorded, Prepare
<1>2. CASE ~Prepared(c) /\ Abandon
  BY <1>1, <1>2, AbandonStep
<1>3. CASE /\ Prepared(c) /\ fixtures' = Append(fixtures, outcomes(c, c.program))
           /\ UNCHANGED <<suite, phase, migrated, graded, total, reward, manner>>
  <2>1. PICK S : S = {outcomes(suite[k], suite[k].program) : k \in 1..(n + 1)}
    OBVIOUS
  <2>2. fixtures \in Seq(S)
    <3>1. fixtures \in [1..n -> S]
      <4>1. fixtures = [k \in 1..n |-> outcomes(suite[k], suite[k].program)]
        BY DEF IInv, FixturesRecorded
      <4>2. \A k \in 1..n : outcomes(suite[k], suite[k].program) \in S
        BY <1>1, <2>1
      <4>3. QED
        BY <4>1, <4>2
    <3>2. QED
      BY <1>1, <3>1, IsASeq
  <2>3. outcomes(c, c.program) \in S
    <3>1. PICK m : m = n + 1
      OBVIOUS
    <3>2. m \in 1..m /\ S = {outcomes(suite[k], suite[k].program) : k \in 1..m}
      BY <1>1, <2>1, <3>1
    <3>3. outcomes(suite[m], suite[m].program) \in S
      BY <3>2
    <3>4. QED
      BY <3>1, <3>3
  <2>4. /\ Len(fixtures') = n + 1 /\ fixtures' \in Seq(S)
        /\ \A k \in 1..n : fixtures'[k] = fixtures[k]
        /\ fixtures'[n + 1] = outcomes(c, c.program)
    BY <1>3, <2>2, <2>3, AppendProperties
  <2>5. DOMAIN fixtures' = 1..(n + 1)
    BY <2>4, LenProperties
  <2>6. \A k \in 1..(n + 1) : fixtures'[k] = outcomes(suite[k], suite[k].program)
    <3>1. \A k \in 1..n : fixtures[k] = outcomes(suite[k], suite[k].program)
      BY DEF IInv, FixturesRecorded
    <3>2. QED
      BY <1>1, <2>4, <3>1
  <2>7. fixtures' = [k \in 1..(n + 1) |-> outcomes(suite[k], suite[k].program)]
    <3>1. fixtures' = [k \in 1..(n + 1) |-> fixtures'[k]]
      BY <2>4, <2>5
    <3>2. QED
      BY <2>6, <3>1
  <2>8. \A k \in 1..(n + 1) : Prepared(suite[k])
    BY <1>1, <1>3 DEF IInv, FixturesRecorded
  <2>9. FixturesRecorded'
    BY <1>1, <1>3, <2>4, <2>7, <2>8 DEF FixturesRecorded
  <2>10. TypeOK'
    BY <1>1, <1>3, <2>4 DEF IInv, TypeOK, Done
  <2>11. CarefulToolsEarn'
    BY <1>1, <1>3 DEF CarefulToolsEarn, Done
  <2>12. InHand' /\ NotBegun' /\ Earned' /\ Followed' /\ suite' \in Suites
    BY <1>1, <1>3 DEF IInv, InHand, NotBegun, Earned, Followed, Busy
  <2>13. QED
    BY <2>9, <2>10, <2>11, <2>12 DEF IInv
<1>4. QED
  BY <1>2, <1>3 DEF Prepare

LEMMA MigrateStep == IInv /\ (Migrate \/ MigratorFails) => IInv'
<1> SUFFICES ASSUME IInv, Migrate \/ MigratorFails PROVE IInv'
  OBVIOUS
<1>1. /\ phase = "migrate" /\ graded < Len(suite)
      /\ graded \in Nat /\ total \in Nat /\ Len(suite) \in Nat
  BY SuiteLength DEF IInv, TypeOK, Migrate, MigratorFails
<1>2. CASE Migrate
  <2>1. PICK e \in Submissions(Case) :
          /\ migrated' = e /\ phase' = "type-check" /\ manner' = Manner(e)
          /\ UNCHANGED <<suite, fixtures, graded, total, reward>>
    BY <1>2 DEF Migrate
  <2>2. /\ Manner(e) \in {"expert", "careful", "other"}
        /\ Manner(e) = "expert" => e = Case.oracle /\ manner = "expert"
        /\ Manner(e) = "careful" => e \in {Case.oracle, Case.program} /\ manner \in {"expert", "careful"}
    BY DEF IInv, TypeOK, Manner
  <2>3. TypeOK'
    BY <1>1, <2>1, <2>2 DEF IInv, TypeOK, Done
  <2>4. FixturesRecorded' /\ suite' \in Suites
    BY <2>1 DEF IInv, FixturesRecorded
  <2>5. CarefulToolsEarn'
    BY <2>1 DEF CarefulToolsEarn, Done
  <2>6. InHand' /\ NotBegun'
    BY <1>1, <2>1 DEF InHand, NotBegun, Busy, Case
  <2>7. Followed'
    BY <2>1, <2>2 DEF Followed, Busy, Case
  <2>8. Earned'
    <3>1. PICK w : w = Unit * graded
      OBVIOUS
    <3>2. total = w => 2 * total >= w
      BY <1>1
    <3>3. /\ manner = "expert" => total = w
          /\ manner = "careful" => 2 * total >= w
      BY <1>1, <3>1 DEF IInv, Earned
    <3>4. QED
      BY <2>1, <2>2, <3>1, <3>2, <3>3 DEF Earned
  <2>9. QED
    BY <2>3, <2>4, <2>5, <2>6, <2>7, <2>8 DEF IInv
<1>3. CASE MigratorFails
  <2> USE <1>3 DEF MigratorFails
  <2>1. TypeOK'
    BY <1>1 DEF IInv, TypeOK, Done
  <2>2. FixturesRecorded' /\ suite' \in Suites
    BY DEF IInv, FixturesRecorded
  <2>3. CarefulToolsEarn'
    BY <1>1 DEF CarefulToolsEarn, Done
  <2>4. InHand' /\ NotBegun' /\ Followed' /\ Earned'
    BY <1>1 DEF InHand, NotBegun, Followed, Earned, Busy
  <2>5. QED
    BY <2>1, <2>2, <2>3, <2>4 DEF IInv
<1>4. QED
  BY <1>2, <1>3

LEMMA WriteRewardStep == IInv /\ WriteReward => IInv'
<1> SUFFICES ASSUME IInv, WriteReward PROVE IInv'
  OBVIOUS
<1>1. /\ phase = "migrate" /\ graded = Len(suite) /\ phase' = "done"
      /\ reward' = IF suite = <<>> THEN <<0, 1>> ELSE <<total, Len(suite)>>
      /\ UNCHANGED <<suite, fixtures, migrated, graded, total, manner>>
  BY DEF WriteReward
<1>2. TypeOK'
  BY <1>1 DEF IInv, TypeOK, Done, NoReward
<1>3. FixturesRecorded' /\ suite' \in Suites
  BY <1>1 DEF IInv, FixturesRecorded
<1>4. CarefulToolsEarn'
  <2>1. /\ manner = "expert" => total = Unit * Len(suite)
        /\ manner = "careful" => 2 * total >= Unit * Len(suite)
    BY <1>1 DEF IInv, Earned
  <2>2. suite # <<>> => reward'[1] = total /\ reward'[2] = Len(suite) /\ reward' = <<total, Len(suite)>>
    BY <1>1
  <2>3. QED
    BY <1>1, <2>1, <2>2 DEF CarefulToolsEarn
<1>5. InHand' /\ NotBegun' /\ Followed' /\ Earned'
  BY <1>1 DEF InHand, NotBegun, Followed, Earned, Busy
<1>6. QED
  BY <1>2, <1>3, <1>4, <1>5 DEF IInv

(* The steps that check what was emitted.                                  *)
LEMMA CheckSteps ==
  IInv /\ (TypeCheck \/ IsMigration \/ RunContexts \/ CompareWithExpert \/ PrecisionGrade) => IInv'
<1> SUFFICES ASSUME IInv,
                    TypeCheck \/ IsMigration \/ RunContexts \/ CompareWithExpert \/ PrecisionGrade
             PROVE  IInv'
  OBVIOUS
<1>1. Busy /\ phase # "done"
  BY DEF Busy, TypeCheck, IsMigration, RunContexts, CompareWithExpert, PrecisionGrade
<1>2. /\ Case \in Cases /\ Prepared(Case) /\ migrated \in Exprs
      /\ fixtures[graded + 1] = outcomes(Case, Case.program)
  BY <1>1, Hand
<1>3. manner \in {"expert", "careful", "other"}
  BY DEF IInv, TypeOK
<1>4. manner # "other" => migrated \in {Case.oracle, Case.program}
  BY <1>1, <1>3 DEF IInv, Followed
<1>5. manner # "other" =>
        /\ infer(migrated) # Ill /\ check(Case.program, migrated) = "true"
        /\ check(migrated, Case.oracle) = "true"
        /\ outcomes(Case, migrated) = fixtures[graded + 1]
        /\ distance(Case.program, Case.oracle) \in Nat /\ distance(Case.program, migrated) \in Nat
  BY <1>2, <1>4, CarefulPasses
<1>6. manner = "expert" => migrated = Case.oracle
  BY <1>1 DEF IInv, Followed
<1>7. phase \in {"contexts", "expert", "score"} => check(Case.program, migrated) = "true"
  BY <1>1 DEF IInv, InHand
<1>8. CASE TypeCheck
  BY <1>1, <1>5, <1>8, AbandonStep, GoOnStep DEF TypeCheck
<1>9. CASE IsMigration
  BY <1>1, <1>5, <1>9, GoOnStep, CreditStep, GradingAssumption DEF IsMigration
<1>10. CASE RunContexts
  BY <1>1, <1>5, <1>7, <1>10, GoOnStep, CreditStep, GradingAssumption DEF RunContexts
<1>11. CASE CompareWithExpert
  BY <1>1, <1>5, <1>7, <1>11, AbandonStep, GoOnStep DEF CompareWithExpert, AtMostExpert
<1>12. CASE PrecisionGrade
  <2>1. PICK d, m : d = distance(Case.program, Case.oracle) /\ m = distance(Case.program, migrated)
    OBVIOUS
  <2>2. IF None \in {d, m} THEN Abandon ELSE Credit(score(d, m))
    BY <1>12, <2>1 DEF PrecisionGrade
  <2>3. d \in Nat \cup {None} /\ m \in Nat \cup {None}
    BY <1>2, <2>1, CaseFields, DistanceExists
  <2>4. manner # "other" => d \in Nat /\ m \in Nat
    BY <1>5, <2>1
  <2>5. None \notin Nat
    BY DEF None
  <2>6. manner = "expert" => m = d
    BY <1>6, <2>1
  <2>7. CASE None \in {d, m}
    BY <1>1, <2>2, <2>4, <2>5, <2>7, AbandonStep
  <2>8. CASE None \notin {d, m}
    <3>1. d \in Nat /\ m \in Nat /\ Credit(score(d, m))
      BY <2>2, <2>3, <2>8
    <3>2. /\ score(d, m) \in Nat /\ 2 * score(d, m) >= Unit
          /\ manner = "expert" => score(d, m) = Unit
      BY <2>6, <3>1, Scores
    <3>3. PICK points : points = score(d, m)
      OBVIOUS
    <3>4. QED
      BY <1>1, <3>1, <3>2, <3>3, CreditStep
  <2>9. QED
    BY <2>7, <2>8
<1>13. QED
  BY <1>8, <1>9, <1>10, <1>11, <1>12

LEMMA StepIInv == IInv /\ [Next]_vars => IInv'
<1> SUFFICES ASSUME IInv, [Next]_vars PROVE IInv'
  OBVIOUS
<1>1. CASE Install
  <2>1. phase = "install" /\ fixtures = <<>>
    BY <1>1 DEF Install, IInv, NotBegun
  <2>2. suite \in Seq(Cases)
    BY GradingAssumption DEF IInv
  <2>3. suite = <<>> \/ Len(fixtures) # Len(suite)
    BY <2>1, <2>2, EmptySeq
  <2>4. QED
    BY <1>1, <2>1, <2>3, AbandonStep, GoOnStep DEF Install
<1>2. CASE BeginGrading
  BY <1>2, GoOnStep DEF BeginGrading
<1>3. CASE UNCHANGED vars
  <2>1. TypeOK' /\ CarefulToolsEarn'
    BY <1>3 DEF vars, IInv, TypeOK, CarefulToolsEarn, Done
  <2>2. FixturesRecorded' /\ suite' \in Suites
    BY <1>3 DEF vars, IInv, FixturesRecorded
  <2>3. InHand' /\ NotBegun' /\ Followed' /\ Earned'
    BY <1>3 DEF vars, IInv, InHand, NotBegun, Followed, Earned, Busy, Case
  <2>4. QED
    BY <2>1, <2>2, <2>3 DEF IInv
<1>4. QED
  BY <1>1, <1>2, <1>3, PrepareStep, MigrateStep, WriteRewardStep, CheckSteps DEF Next

(* The state has its type.                                                 *)
THEOREM TypeCorrect == Spec => []TypeOK
<1>1. IInv => TypeOK
  BY DEF IInv
<1>2. QED
  BY <1>1, InitIInv, StepIInv, PTL DEF Spec

(* instruction.md: whatever the suite and whatever its programs, a tool    *)
(* that always emits the expert's migration earns the full reward, and one *)
(* that now and then leaves a program as it is at least half of it.        *)
THEOREM CarefulReward == Spec => []CarefulToolsEarn
<1>1. IInv => CarefulToolsEarn
  BY DEF IInv
<1>2. QED
  BY <1>1, InitIInv, StepIInv, PTL DEF Spec

(* migration.ml: whatever a tool emits, the distance that is-migration and *)
(* precision-distance compute exists for migrations only, and the steps    *)
(* from the program to it and on to the expert's migration add up.         *)
THEOREM DistancesAddUp == Spec => []PrecisionIsDistance
<1>1. ASSUME IInv PROVE PrecisionIsDistance
  <2> SUFFICES ASSUME phase = "is-migration"
               PROVE  LET steps(less, more) == distance(less, more) IN
                      /\ (check(Case.program, migrated) = "true") = (steps(Case.program, migrated) # None)
                      /\ (check(migrated, Case.oracle) = "true") = (steps(migrated, Case.oracle) # None)
                      /\ None \notin {steps(Case.program, migrated), steps(migrated, Case.oracle)} =>
                           steps(Case.program, Case.oracle)
                             = steps(Case.program, migrated) + steps(migrated, Case.oracle)
    BY DEF PrecisionIsDistance
  <2>1. PICK l, m, o : l = Case.program /\ m = migrated /\ o = Case.oracle
    OBVIOUS
  <2>2. l \in Exprs /\ m \in Exprs /\ o \in Exprs
    BY <1>1, <2>1, Hand, CaseFields DEF Busy
  <2>3. None \notin Nat
    BY DEF None
  <2>4. check(l, m) = "true" <=> distance(l, m) # None
    BY <2>2, <2>3, DistanceExists
  <2>5. check(m, o) = "true" <=> distance(m, o) # None
    BY <2>2, <2>3, DistanceExists
  <2>6. ASSUME distance(l, m) # None, distance(m, o) # None
        PROVE  distance(l, o) = distance(l, m) + distance(m, o)
    <3>1. /\ infer(l) # Ill /\ infer(m) # Ill /\ infer(o) # Ill
          /\ syntax_leq(l, m) /\ syntax_leq(m, o)
      BY <2>4, <2>5, <2>6, CheckTrue
    <3>2. ExprSteps(l, o) = ExprSteps(l, m) + ExprSteps(m, o)
      BY <2>2, <3>1, ExprDistancesAdd
    <3>3. QED
      BY <3>1, <3>2, DistanceOf
  <2>7. QED
    BY <2>1, <2>4, <2>5, <2>6
<1>2. QED
  BY <1>1, InitIInv, StepIInv, PTL DEF Spec

(* semantics.ml and migration.ml: whatever a tool emits and whatever the   *)
(* context, if it is a migration that type-checks there and no conditional *)
(* changes its type the wrong way, then the original type-checks there, at *)
(* a less precise type or the same.                                        *)
THEOREM MigrationsTypeBelow == Spec => []StaticGuarantee
<1>1. ASSUME IInv, phase = "contexts", NEW k \in DOMAIN Case.contexts, Steady(InContext(k))
      PROVE  /\ infer(InContext(k)[1]) # Ill
             /\ type_leq(infer(InContext(k)[1]), infer(InContext(k)[2]))
  <2>1. Busy /\ graded + 1 \in 1..Len(suite) /\ Case \in Cases /\ migrated \in Exprs
    BY <1>1, Hand DEF Busy
  <2>2. /\ migrated \in Submissions(Case) /\ check(Case.program, migrated) = "true"
        /\ suite \in Suites
    BY <1>1, <2>1 DEF IInv, InHand
  <2>3. Runnable(Case, Case.program) /\ Runnable(Case, migrated)
    BY <2>1, <2>2, SuiteFacts DEF Case
  <2>4. PICK c : c = Case.contexts[k].source
    OBVIOUS
  <2>5. c \in Exprs
    <3>1. Case.contexts \in Seq([source : Exprs, expected : Outcomes])
      BY <2>1 DEF Cases
    <3>2. Case.contexts[k] \in [source : Exprs, expected : Outcomes]
      BY <1>1, <3>1, LenProperties, ElementOfSeq
    <3>3. QED
      BY <2>4, <3>2
  <2>6. PICK l, m : l = fill_context(c, Case.program) /\ m = fill_context(c, migrated)
    OBVIOUS
  <2>7. l \in Exprs /\ m \in Exprs
    BY <1>1, <2>3, <2>4, <2>6 DEF Runnable, Filled
  <2>8. syntax_leq(Case.program, migrated) /\ Case.program \in Exprs
    BY <2>1, <2>2, CheckTrue, CaseFields
  <2>9. syntax_leq(l, m)
    BY <2>1, <2>5, <2>6, <2>7, <2>8, FillingMigrates
  <2>10. InContext(k)[1] = l /\ InContext(k)[2] = m
    BY <2>4, <2>6 DEF InContext
  <2>11. infer(m) # Ill /\ SteadyJoins[<<<<NoTypes, l>>, <<NoTypes, m>>>>]
    BY <1>1, <2>10 DEF Steady
  <2>12. NoTypes \in TypeEnvs /\ EnvBelow(NoTypes, NoTypes)
    BY DEF NoTypes, TypeEnvs, EnvBelow, Below
  <2>13. infer(l) # Ill /\ type_leq(infer(l), infer(m))
    BY <2>7, <2>9, <2>11, <2>12, TypesFollowPrecision DEF infer
  <2>14. QED
    BY <2>10, <2>13
<1>2. IInv => StaticGuarantee
  BY <1>1 DEF StaticGuarantee
<1>3. QED
  BY <1>2, InitIInv, StepIInv, PTL DEF Spec

-----------------------------------------------------------------------------
(* Type soundness.                                                         *)

(* A value that the typing relates to a type is one that Sound accepts.    *)
LEMMA TypedHasType ==
  ASSUME NEW v, NEW t, ValueTyped(v, t)
  PROVE  HasType(v, t)
<1>1. t \in Types
  BY TypedObeys
<1>2. CASE t = Any
  <2>1. PICK s \in {Int_, Bool_, Dynamic} : v.v = "tagged" /\ v.tag = Ground(s) /\ ValueTyped(v.of, s)
    BY <1>2, TypedAny
  <2>2. CASE s = Dynamic
    <3>1. IsArr(s)
      BY <2>2, DynamicType
    <3>2. v.tag = "fun" /\ v.of.v \in {"closure", "proxy"}
      BY <2>1, <3>1, TypedFunction, TypeKinds
    <3>3. QED
      BY <1>2, <2>1, <3>2, TypeKinds DEF HasType
  <2>3. CASE s = Int_ \/ s = Bool_
    <3>1. v.of.v = v.tag /\ v.tag # "fun"
      BY <2>1, <2>3, TypedBase, TypeKinds
    <3>2. QED
      BY <1>2, <2>1, <3>1, TypeKinds DEF HasType
  <2>4. QED
    BY <2>2, <2>3
<1>3. CASE IsArr(t)
  <2>1. v.v \in {"closure", "proxy"}
    BY <1>3, TypedFunction
  <2>2. t # Any
    BY <1>3, TypeKinds
  <2>3. QED
    BY <1>3, <2>1, <2>2 DEF HasType
<1>4. CASE t = Int_ \/ t = Bool_
  <2>1. v.v = Ground(t)
    BY <1>4, TypedBase, TypeKinds
  <2>2. t # Any /\ ~IsArr(t)
    BY <1>4, TypeKinds
  <2>3. QED
    BY <2>1, <2>2 DEF HasType
<1>5. QED
  BY <1>1, <1>2, <1>3, <1>4, TypeKinds

LEMMA ProgramsSound == ASSUME NEW e \in Exprs PROVE Sound(e)
<1>1. PICK t, r : t = infer(e) /\ r = Result(e)
  OBVIOUS
<1>2. ASSUME t # Ill
      PROVE  /\ elaborate(NoTypes, e).t = t
             /\ IF IsValue(r) THEN HasType(r, t) ELSE r.v = "failed" => r.why = "cast"
  <2>1. elaborate(NoTypes, e).t = t /\ Good(r, t)
    BY <1>1, <1>2, ResultsTyped
  <2>2. CASE IsValue(r)
    BY <2>1, <2>2, GoodValue, TypedHasType
  <2>3. CASE ~IsValue(r)
    <3>1. r.v = "divergent" \/ (r.v = "failed" /\ r.why = "cast")
      BY <2>1, <2>3, TypedIsValue DEF Good
    <3>2. QED
      BY <2>1, <2>3, <3>1
  <2>4. QED
    BY <2>2, <2>3
<1>3. QED
  BY <1>1, <1>2 DEF Sound

(* semantics.ml: whatever the suite and whatever a tool emits, alone and   *)
(* in every context, the checker and the elaborator agree, and a program   *)
(* that type-checks returns a value of its type, diverges, or fails in a   *)
(* guarded cast, in which no assertion and no lookup of the evaluator and  *)
(* no other of its run-time errors is met.                                 *)
THEOREM TypeSoundness == Spec => []OnlyCastsFail
<1>1. ASSUME IInv, phase = "type-check"
      PROVE  \A e \in {migrated} \cup Filled(Case, migrated) : Sound(e)
  <2>1. Busy /\ graded + 1 \in 1..Len(suite) /\ migrated \in Exprs
    BY <1>1, Hand DEF Busy
  <2>2. migrated \in Submissions(Case) /\ suite \in Suites
    BY <1>1, <2>1 DEF IInv, InHand
  <2>3. Runnable(Case, migrated)
    BY <2>1, <2>2, SuiteFacts DEF Case
  <2>4. QED
    BY <2>1, <2>3, ProgramsSound DEF Runnable
<1>2. ASSUME IInv, phase = "prepare", NEW k \in DOMAIN suite
      PROVE  \A e \in Filled(suite[k], suite[k].program) : Sound(e)
  <2>1. suite \in Suites
    BY <1>2 DEF IInv
  <2>2. k \in 1..Len(suite)
    BY <2>1, GradingAssumption, LenProperties
  <2>3. Runnable(suite[k], suite[k].program)
    BY <2>1, <2>2, SuiteFacts
  <2>4. QED
    BY <2>3, ProgramsSound DEF Runnable
<1>3. IInv => OnlyCastsFail
  BY <1>1, <1>2 DEF OnlyCastsFail
<1>4. QED
  BY <1>3, InitIInv, StepIInv, PTL DEF Spec
=============================================================================
