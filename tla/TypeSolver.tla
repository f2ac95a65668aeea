----------------------------- MODULE TypeSolver -----------------------------
(***************************************************************************)
(* The solutions that the solver may give TypeWhich: cgen.rs asserts the   *)
(* constraints of TypeWhich, and z3 answers with some assignment of types  *)
(* that satisfies them and violates as few soft constraints as any.  What  *)
(* makes an assignment a solution is Satisfies; the search only proposes   *)
(* candidates.  Types are finite trees, so unification has an occurs check.*)
(***************************************************************************)
EXTENDS TypeWhich

(* What the solver may give metavariables that nothing constrains; all of  *)
(* them are given the same.                                                *)
CONSTANT Fillers

RECURSIVE Walk(_, _), Resolved(_, _), Reach(_, _, _)

Walk(s, t) == IF IsMeta(t) /\ t \in DOMAIN s THEN Walk(s, s[t]) ELSE t

Resolved(s, t) ==
  LET w == Walk(s, t) IN
  IF IsMeta(w) THEN w
  ELSE [i \in DOMAIN w |-> IF i = 1 THEN w[1] ELSE Resolved(s, w[i])]

(* The type that accessors lead to, if they are those of its constructors. *)
Reach(s, t, accessors) ==
  LET w == Walk(s, t) IN
  IF accessors = <<>> THEN {w}
  ELSE IF Ground(w) = Head(accessors).tag
         THEN Reach(s, w[Head(accessors).i], Tail(accessors))
         ELSE {}

-----------------------------------------------------------------------------
(* Meaning of constraints under an assignment of types to all of their     *)
(* metavariables.                                                          *)

(* ground(t): a type that may be coerced to and from any.                  *)
Groundable(t) == \A i \in 2..Len(t) : t[i] = Any

Holds(s, c) ==
  LET left == Resolved(s, c.left) right == Resolved(s, c.right) IN
  CASE c.kind = "same" -> left = right
    [] c.kind = "ground" -> Groundable(left)
    [] c.kind = "overload" -> left \in {Int_, Str_, Any}
    [] c.kind = "strengthen" -> left = right \/ (left = Any /\ Groundable(right))
    [] c.kind = "weaken" -> left = right \/ (right = Any /\ Groundable(left))
    [] c.kind = "position" -> \A u \in Reach(s, left, c.place) : u = Any
    [] c.kind = "user" -> TRUE

SoftKinds == {"strengthen", "weaken", "user"}
Soft(phi) == {c \in phi : c.kind \in SoftKinds}
Violations(s, phi) ==
  Cardinality({c \in Soft(phi) : Resolved(s, c.left) # Resolved(s, c.right)})

Satisfies(s, phi) == \A c \in phi : Holds(s, c)

Metas(phi) == UNION {MetasOf(c.left) \cup MetasOf(c.right) : c \in phi}

-----------------------------------------------------------------------------
(* negative_any: the places of a type that must be any, given a precise    *)
(* model of it: arguments, and the contents of boxes and vectors.          *)

Accessor(tag, i) == [tag |-> tag, i |-> i]

(* A mutant of PlacesBelow: the contents of boxes are left alone.          *)
OnlyArguments(tag) == [any |-> IF tag = "fun" THEN {2} ELSE {},
                       below |-> CASE tag = "fun" -> {3} [] tag = "list" -> {2}
                                   [] tag = "pair" -> {2, 3} [] OTHER -> {}]

(* Which components of a type must be any, and which it looks into.        *)
PlacesBelow(tag) ==
  CASE tag = "fun" -> [any |-> {2}, below |-> {3}]
    [] tag = "list" -> [any |-> {}, below |-> {2}]
    [] tag = "pair" -> [any |-> {}, below |-> {2, 3}]
    [] tag \in {"box", "vect"} -> [any |-> {2}, below |-> {}]
    [] OTHER -> [any |-> {}, below |-> {}]

RECURSIVE NegativePlaces(_, _)
NegativePlaces(t, accessors) ==
  LET places == PlacesBelow(Ground(t))
      to(i) == Append(accessors, Accessor(Ground(t), i))
  IN {to(i) : i \in places.any} \cup UNION {NegativePlaces(t[i], to(i)) : i \in places.below}

negative_any(model, t) ==
  {Constraint("position", t, t, accessors) :
     accessors \in NegativePlaces(Resolved(model, t), <<>>)}

-----------------------------------------------------------------------------
(* The search.  A partial function from metavariables to types that may    *)
(* hold others; failure is the empty set.                                  *)

RECURSIVE Unified(_, _, _), UnifiedAll(_, _, _)

Unified(s, left, right) ==
  LET l == Walk(s, left) r == Walk(s, right) IN
  CASE l = r -> {s}
    [] l # r /\ IsMeta(l) -> IF l \in MetasOf(Resolved(s, r)) THEN {} ELSE {Bind(s, l, r)}
    [] l # r /\ ~IsMeta(l) /\ IsMeta(r) -> Unified(s, r, l)
    [] OTHER -> IF Ground(l) = Ground(r) THEN UnifiedAll(s, Parts(l), Parts(r)) ELSE {}

UnifiedAll(s, lefts, rights) ==
  IF lefts = <<>> THEN {s}
  ELSE UNION {UnifiedAll(s1, Tail(lefts), Tail(rights)) :
                s1 \in Unified(s, Head(lefts), Head(rights))}

MadeGround(s, t) ==
  LET parts == Parts(Walk(s, t)) IN UnifiedAll(s, parts, [i \in DOMAIN parts |-> Any])

(* How a constraint may be met, and at which cost; demands are types that  *)
(* must be ground.                                                         *)
Option(s, demands, cost) == [s |-> s, demands |-> demands, cost |-> cost]

Options(s, c) ==
  LET met(ss, demands, cost) == {Option(s1, demands, cost) : s1 \in ss}
      equal == met(Unified(s, c.left, c.right), {}, 0)
  IN CASE c.kind = "same" -> equal
       [] c.kind = "ground" -> met({s}, {c.left}, 0)
       [] c.kind = "overload" ->
            UNION {met(Unified(s, c.left, t), {}, 0) : t \in {Int_, Str_, Any}}
       [] c.kind = "strengthen" -> equal \cup met(Unified(s, c.left, Any), {c.right}, 1)
       [] c.kind = "weaken" -> equal \cup met(Unified(s, c.right, Any), {c.left}, 1)
       [] c.kind = "user" -> equal \cup met({s}, {}, 1)

(* The substitution extended by what demands and positions already imply.  *)
RECURSIVE Settled(_, _, _)
Settled(s, demands, positions) ==
  IF demands # {} THEN
    LET t == CHOOSE t \in demands : TRUE
    IN  UNION {Settled(s1, demands \ {t}, positions) : s1 \in MadeGround(s, t)}
  ELSE IF positions # {} THEN
    LET c == CHOOSE c \in positions : TRUE
        reached == Reach(s, c.left, c.place)
    IN UNION {Settled(s1, {}, positions \ {c}) :
                s1 \in IF reached = {} THEN {s}
                       ELSE Unified(s, CHOOSE u \in reached : TRUE, Any)}
  ELSE {s}

RECURSIVE Search(_, _, _, _, _)
Search(s, demands, positions, todo, budget) ==
  UNION {
    IF todo = {} THEN {s1}
    ELSE LET c == CHOOSE c \in todo : \A d \in todo : c.kind = "same" \/ d.kind # "same" IN
         UNION {Search(o.s, demands \cup o.demands, positions, todo \ {c}, budget - o.cost) :
                  o \in {o \in Options(s1, c) : o.cost <= budget}}
    : s1 \in Settled(s, demands, positions)}

(* What s leaves free is filled.                                           *)
Completed(s, phi) ==
  LET metas == Metas(phi)
      free == UNION {MetasOf(Resolved(s, m)) : m \in metas}
      filled(t) == [m \in DOMAIN s \cup free |-> IF m \in DOMAIN s THEN s[m] ELSE t]
  IN {[m \in metas |-> Resolved(filled(t), m)] : t \in IF free = {} THEN {Any} ELSE Fillers}

Candidates(phi, budget) ==
  LET positions == {c \in phi : c.kind = "position"}
  IN {s \in UNION {Completed(s, phi) :
             s \in Search([m \in {} |-> Any], {}, positions, phi \ positions, budget)} :
        Satisfies(s, phi)}

RECURSIVE Cheapest(_, _)
Cheapest(phi, budget) ==
  LET found == Candidates(phi, budget) IN
  IF found # {} \/ budget = Cardinality(Soft(phi)) THEN found ELSE Cheapest(phi, budget + 1)

(* The models that solver.check may find; none if it is unsatisfiable.     *)
Models(phi, optimizer) ==
  IF optimizer THEN Cheapest(phi, 0) ELSE Candidates(phi, Cardinality(Soft(phi)))
=============================================================================
