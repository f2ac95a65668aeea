------------------------------ MODULE TypeWhich -----------------------------
(***************************************************************************)
(* TypeWhich, the migration tool of gradual-type-migration/solution: the   *)
(* constraints that a program generates and the coercions that it puts     *)
(* into the program for them (cgen.rs), the annotation with a solution,    *)
(* and the type checker of its results (type_check.rs).  Programs are the  *)
(* trees of Gtlc with more constructors: a coercion is a node "coerce"     *)
(* whose t is the arrow from its source to its target, and a letrec has a  *)
(* node "bind" for each binding before its body.                           *)
(***************************************************************************)
EXTENDS Gtlc, FiniteSets, Functions

LOCAL S == INSTANCE SequencesExt

Unit_  == <<"unit">>
Str_   == <<"str">>
Float_ == <<"float">>
ListOf(t)    == <<"list", t>>
PairOf(s, t) == <<"pair", s, t>>
BoxOf(t)     == <<"box", t>>
VectOf(t)    == <<"vect", t>>

(* A metavariable is named by the place in the program that introduces it  *)
(* and its role there.  Unknown is a type that the source does not give.   *)
Meta(place, role) == <<"meta", place, role>>
IsMeta(t) == t[1] = "meta"
Unknown == <<"unknown">>

(* The components of a type.                                               *)
Parts(t) == IF IsMeta(t) THEN <<>> ELSE Tail(t)

RECURSIVE MetasOf(_)
MetasOf(t) == IF IsMeta(t) THEN {t} ELSE UNION {MetasOf(s) : s \in Range(Parts(t))}

-----------------------------------------------------------------------------
(* Constructors that Gtlc has not.                                         *)

Literal(t)            == Node("literal", "", 0, t, <<>>)
Fix(x, t, body)       == Node("fix", x, 0, t, <<body>>)
Unary(o, e)           == Node("unary", o, 0, Any, <<e>>)
AddOverload(l, r)     == Node("overload", "", 0, Any, <<l, r>>)
Binding(x, t, e)      == Node("bind", x, 0, t, <<e>>)
LetRec(bindings, e)   == Node("letrec", "", 0, Any, Append(bindings, e))
Empty(t)              == Node("empty", "", 0, t, <<>>)
Data(op, subs)        == Node(op, "", 0, Any, subs)
Coerce(from, to, e)   == Node("coerce", "", 0, Arr(from, to), <<e>>)

(* The operand and the result types of operators.                          *)
UnOpTyp(o) ==
  CASE o = "not" -> <<Bool_, Bool_>>
    [] o = "print" -> <<Str_, Unit_>>
    [] o = "exit" -> <<Int_, Any>>
    [] o = "int->float" -> <<Int_, Float_>>
    [] o = "and" -> <<Any, Dynamic>>

BinOpTyp(o) ==
  CASE o \in {"+", "*"} -> <<Int_, Int_, Int_>>
    [] o = "=" -> <<Int_, Int_, Bool_>>
    [] o = "printf" -> <<Str_, ListOf(Any), Unit_>>
    [] o = "and" -> <<Any, Any, Any>>

LitTyp(e) == CASE e.op = "int" -> Int_ [] e.op = "bool" -> Bool_ [] OTHER -> e.t
IsLit(e) == e.op \in {"int", "bool", "literal"}
TypeTests == {"is_bool", "is_int", "is_string", "is_list", "is_fun"}

-----------------------------------------------------------------------------
(* Environments.                                                           *)

Bind(env, x, v) == [y \in DOMAIN env \cup {x} |-> IF y = x THEN v ELSE env[y]]
NoBinding == [y \in {} |-> Ill]

-----------------------------------------------------------------------------
(* What the parser and fresh_types make of the types in the source.        *)

RECURSIVE Erase(_), Freshen(_, _), Named(_, _)

(* Without ascriptions and coercions.                                      *)
Erase(e) ==
  IF e.op \in {"ann", "coerce"} THEN Erase(e.subs[1])
  ELSE [e EXCEPT !.subs = [i \in DOMAIN e.subs |-> Erase(e.subs[i])]]

Annotated == {"fun", "fix", "empty", "bind"}

Freshen(e, place) ==
  [e EXCEPT !.t = IF e.op \in Annotated THEN Meta(place, "typ") ELSE e.t,
            !.subs = [i \in DOMAIN e.subs |-> Freshen(e.subs[i], Append(place, i))]]

fresh_types(e) == Freshen(Erase(e), <<>>)

Given(t, default) == IF t = Unknown THEN default ELSE t

(* A missing type is a metavariable, but any on a fun.                     *)
Named(e, place) ==
  [e EXCEPT
     !.t = CASE e.op = "fun" -> Given(e.t, Any)
             [] e.op = "coerce" ->
                  Arr(Given(e.t[2], Meta(place, "from")), Given(e.t[3], Meta(place, "to")))
             [] e.op \notin {"fun", "coerce"} -> Given(e.t, Meta(place, "typ")),
     !.subs = [i \in DOMAIN e.subs |-> Named(e.subs[i], Append(place, i))]]

parse(e) == Named(e, <<>>)
-----------------------------------------------------------------------------
(* Constraints.  Those of strengthen, weaken and a coercion in the source  *)
(* are also the soft constraints that their two types be equal.  The place *)
(* tells coercions of equal types apart.                                   *)

Constraint(kind, left, right, place) ==
  [kind |-> kind, left |-> left, right |-> right, place |-> place]

same(left, right)                == Constraint("same", left, right, <<>>)
strengthen(t, target, place)     == Constraint("strengthen", t, target, place)
weaken(t, target, place)         == Constraint("weaken", t, target, place)
user(from, to, place)            == Constraint("user", from, to, place)
ground(t)                        == Constraint("ground", t, t, <<>>)
overload(t)                      == Constraint("overload", t, t, <<>>)

(* What a rule asks of a node whose parts have the types ts: the types     *)
(* parts are coerced to, if any, further constraints, the type of the result. *)
Rule(needs, others, result) == [needs |-> needs, others |-> others, result |-> result]
Nothing == <<>>
Keep == <<"keep">>
Needed(rule) == {i \in DOMAIN rule.needs : rule.needs[i] # Keep}

(* A mutant of ApplicationRule: an argument need not have the domain.      *)
AnyArgumentRule(alpha, beta, ts) == Rule(<<Arr(alpha, beta)>>, {}, beta)

ApplicationRule(alpha, beta, ts) ==
  Rule(<<Arr(alpha, beta)>>, {same(ts[2], alpha)}, beta)

(* Functions, operators, conditionals and annotations.                     *)
CoreRule(env, e, place, ts) ==
  CASE IsLit(e) -> Rule(Nothing, {}, LitTyp(e))
    [] e.op = "var" -> Rule(Nothing, {}, env[e.x])
    [] e.op = "fun" -> Rule(Nothing, {}, Arr(e.t, ts[1]))
    [] e.op \in {"fix", "bind"} -> Rule(Nothing, {same(e.t, ts[1])}, e.t)
    [] e.op = "app" -> ApplicationRule(Meta(place, "alpha"), Meta(place, "beta"), ts)
    [] e.op = "unary" -> Rule(<<UnOpTyp(e.x)[1]>>, {}, UnOpTyp(e.x)[2])
    [] e.op = "bin" ->
         Rule(<<BinOpTyp(e.x)[1], BinOpTyp(e.x)[2]>>, {}, BinOpTyp(e.x)[3])
    [] e.op \in {"let", "letrec"} -> Rule(Nothing, {}, ts[Len(ts)])
    [] e.op = "ann" -> Rule(Nothing, {ground(ts[1]), ground(e.t)}, e.t)
    [] e.op = "overload" -> Rule(Nothing, {same(ts[1], ts[2]), overload(ts[1])}, ts[1])
    [] e.op = "if" -> Rule(<<Bool_>>, {same(ts[2], ts[3])}, ts[2])
    [] e.op = "coerce" ->
         Rule(Nothing, {user(e.t[2], e.t[3], place), same(e.t[2], ts[1])}, e.t[3])

PairListRule(e, place, ts) ==
  LET alpha == Meta(place, "alpha") beta == Meta(place, "beta") IN
  CASE e.op = "pair"  -> Rule(Nothing, {}, PairOf(ts[1], ts[2]))
    [] e.op = "fst"   -> Rule(<<PairOf(alpha, beta)>>, {}, alpha)
    [] e.op = "snd"   -> Rule(<<PairOf(alpha, beta)>>, {}, beta)
    [] e.op = "cons"  -> Rule(<<Keep, ListOf(ts[1])>>, {}, ListOf(ts[1]))
    [] e.op = "empty" -> Rule(Nothing, {}, ListOf(e.t))
    [] e.op = "head"  -> Rule(<<ListOf(alpha)>>, {}, alpha)
    [] e.op = "tail"  -> Rule(<<ListOf(alpha)>>, {}, ListOf(alpha))
    [] e.op = "is_empty" -> Rule(<<ListOf(alpha)>>, {}, Bool_)

StoreRule(e, place, ts) ==
  LET alpha == Meta(place, "alpha") IN
  CASE e.op = "box"        -> Rule(Nothing, {}, BoxOf(ts[1]))
    [] e.op = "unbox"      -> Rule(<<BoxOf(alpha)>>, {}, alpha)
    [] e.op = "boxset"     -> Rule(<<BoxOf(ts[2])>>, {}, Unit_)
    [] e.op = "vector"     -> Rule(<<Int_>>, {}, VectOf(ts[2]))
    [] e.op = "vector-ref" -> Rule(<<VectOf(alpha), Int_>>, {}, alpha)
    [] e.op = "vector-set" -> Rule(<<VectOf(ts[3]), Int_>>, {}, Unit_)
    [] e.op = "vector-len" -> Rule(<<VectOf(alpha)>>, {}, Int_)
    [] e.op \in TypeTests  -> Rule(Nothing, {same(ts[1], Any)}, Bool_)

PairListOps == {"pair", "fst", "snd", "cons", "empty", "head", "tail", "is_empty"}
StoreOps == {"box", "unbox", "boxset", "vector", "vector-ref", "vector-set", "vector-len"}

RuleOf(env, e, place, ts) ==
  CASE e.op \in PairListOps -> PairListRule(e, place, ts)
    [] e.op \in StoreOps \cup TypeTests -> StoreRule(e, place, ts)
    [] OTHER -> CoreRule(env, e, place, ts)

(* Nodes whose type is that of a part of theirs, or given.                 *)
NotWeakened(e, rigid_vars) ==
  \/ e.op \in {"let", "letrec", "bind", "ann", "if", "coerce"}
  \/ e.op = "var" /\ rigid_vars

(* The node with coercions around its parts and itself, its type, and all  *)
(* the constraints.                                                        *)
Generated(e, place, parts, rule, weakened) ==
  LET alpha == Meta(place, "out")
      coerced == [i \in DOMAIN parts |->
                    IF i \in Needed(rule)
                      THEN Coerce(parts[i].t, rule.needs[i], parts[i].exp)
                      ELSE parts[i].exp]
      node == [e EXCEPT !.subs = coerced]
      phi == (UNION {parts[i].phi : i \in DOMAIN parts}) \cup rule.others
             \cup {strengthen(parts[i].t, rule.needs[i], Append(place, i)) :
                     i \in Needed(rule)}
  IN IF weakened
       THEN [t |-> alpha, exp |-> Coerce(rule.result, alpha, node),
             phi |-> phi \cup {weaken(rule.result, alpha, place)}]
       ELSE [t |-> rule.result, exp |-> node, phi |-> phi]

BindAll(env, bindings) ==
  S!FoldLeft(LAMBDA acc, b : Bind(acc, b.x, b.t), env, bindings)

RECURSIVE cgen(_, _, _, _)
cgen(env, e, place, rigid_vars) ==
  LET part(i, inner) == cgen(inner, e.subs[i], Append(place, i), rigid_vars)
      parts ==
        CASE e.op \in {"fun", "fix"} -> <<part(1, Bind(env, e.x, e.t))>>
          [] e.op = "let" ->
               LET first == part(1, env) IN <<first, part(2, Bind(env, e.x, first.t))>>
          [] e.op = "letrec" ->
               LET inner == BindAll(env, S!Front(e.subs))
               IN  [i \in DOMAIN e.subs |-> part(i, inner)]
          [] OTHER -> [i \in DOMAIN e.subs |-> part(i, env)]
      ts == [i \in DOMAIN parts |-> parts[i].t]
  IN Generated(e, place, parts, RuleOf(env, e, place, ts), ~NotWeakened(e, rigid_vars))
-----------------------------------------------------------------------------
(* A solution is a function from metavariables to types.  A type that no   *)
(* solution covers stays as it is.                                         *)

RECURSIVE annotate_typ(_, _), annotate(_, _)
annotate_typ(solution, t) ==
  IF IsMeta(t) THEN (IF t \in DOMAIN solution THEN solution[t] ELSE t)
  ELSE [i \in DOMAIN t |-> IF i = 1 THEN t[1] ELSE annotate_typ(solution, t[i])]

(* A mutant of Redundant: a coercion to any is taken to be implicit.      *)
ToAny(t) == t[2] = t[3] \/ t[3] = Any

Redundant(t) == t[2] = t[3]

annotate(solution, e) ==
  LET typ == annotate_typ(solution, e.t)
      subs == [i \in DOMAIN e.subs |-> annotate(solution, e.subs[i])]
  IN IF e.op = "coerce" /\ Redundant(typ) THEN subs[1]
     ELSE [e EXCEPT !.t = typ, !.subs = subs]

-----------------------------------------------------------------------------
(* type_check.rs.  An error and a panic on a mismatch are both Ill.        *)

Component(t, tag, i) == IF Ground(t) = tag THEN t[i] ELSE Ill

CheckedCore(e, ts) ==
  CASE IsLit(e) -> LitTyp(e)
    [] e.op = "fun" -> Arr(e.t, ts[1])
    [] e.op \in {"fix", "bind", "ann"} -> require_consistent(e.t = ts[1], e.t)
    [] e.op = "app" ->
         IF IsArr(ts[1]) THEN require_consistent(ts[1][2] = ts[2], ts[1][3]) ELSE Ill
    [] e.op = "unary" -> require_consistent(ts[1] = UnOpTyp(e.x)[1], UnOpTyp(e.x)[2])
    [] e.op = "bin" ->
         require_consistent(\A i \in 1..2 : ts[i] = BinOpTyp(e.x)[i], BinOpTyp(e.x)[3])
    [] e.op \in {"let", "letrec"} -> ts[Len(ts)]
    [] e.op = "overload" ->
         require_consistent(ts[1] = ts[2] /\ ts[1] \in {Int_, Str_, Any}, ts[1])
    [] e.op = "if" -> require_consistent(ts[1] = Bool_ /\ ts[2] = ts[3], ts[2])
    [] e.op = "coerce" -> require_consistent(e.t[2] = ts[1], e.t[3])

CheckedPairList(e, ts) ==
  CASE e.op = "pair"  -> PairOf(ts[1], ts[2])
    [] e.op = "fst"   -> Component(ts[1], "pair", 2)
    [] e.op = "snd"   -> Component(ts[1], "pair", 3)
    [] e.op = "cons"  -> require_consistent(ts[2] = ListOf(ts[1]), ts[2])
    [] e.op = "empty" -> ListOf(e.t)
    [] e.op = "head"  -> Component(ts[1], "list", 2)
    [] e.op = "tail"  -> require_consistent(Ground(ts[1]) = "list", ts[1])
    [] e.op = "is_empty" -> require_consistent(Ground(ts[1]) = "list", Bool_)

CheckedStore(e, ts) ==
  CASE e.op = "box"        -> BoxOf(ts[1])
    [] e.op = "unbox"      -> Component(ts[1], "box", 2)
    [] e.op = "boxset"     -> require_consistent(ts[1] = BoxOf(ts[2]), Unit_)
    [] e.op = "vector"     -> require_consistent(ts[1] = Int_, VectOf(ts[2]))
    [] e.op = "vector-ref" -> IF ts[2] = Int_ THEN Component(ts[1], "vect", 2) ELSE Ill
    [] e.op = "vector-set" ->
         require_consistent(ts[2] = Int_ /\ ts[1] = VectOf(ts[3]), Unit_)
    [] e.op = "vector-len" -> require_consistent(Ground(ts[1]) = "vect", Int_)
    [] e.op \in TypeTests  -> require_consistent(ts[1] = Any, Bool_)

RECURSIVE tcheck(_, _)
tcheck(env, e) ==
  LET part(i, inner) == tcheck(inner, e.subs[i])
      ts == CASE e.op \in {"fun", "fix"} -> <<part(1, Bind(env, e.x, e.t))>>
              [] e.op = "let" ->
                   LET first == part(1, env) IN <<first, part(2, Bind(env, e.x, first))>>
              [] e.op = "letrec" ->
                   LET inner == BindAll(env, S!Front(e.subs))
                   IN  [i \in DOMAIN e.subs |-> part(i, inner)]
              [] OTHER -> [i \in DOMAIN e.subs |-> part(i, env)]
  IN CASE e.op = "var" -> IF e.x \in DOMAIN env THEN env[e.x] ELSE Ill
       [] e.op # "var" /\ Ill \in Range(ts) -> Ill
       [] e.op \in PairListOps -> CheckedPairList(e, ts)
       [] e.op \in StoreOps \cup TypeTests -> CheckedStore(e, ts)
       [] OTHER -> CheckedCore(e, ts)

-----------------------------------------------------------------------------
(* Comparison of a result with a program that may have annotations.        *)

Agrees(t, given) == IsMeta(given) \/ t = given

RECURSIVE matches_roughly(_, _)
matches_roughly(self, other) ==
  CASE other.op = "ann" -> matches_roughly(self, other.subs[1])
    [] other.op # "ann" /\ self.op = "coerce" -> matches_roughly(self.subs[1], other)
    [] IsLit(self) \/ IsLit(other) -> IsLit(self) /\ IsLit(other)
    [] OTHER ->
         /\ self.op = other.op
         /\ self.op \in {"bin", "unary"} => self.x = other.x
         /\ self.op \in Annotated => Agrees(self.t, other.t)
         /\ Len(self.subs) = Len(other.subs)
         /\ \A i \in DOMAIN self.subs : matches_roughly(self.subs[i], other.subs[i])
=============================================================================
