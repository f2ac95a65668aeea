-------------------------------- MODULE Gtlc --------------------------------
(***************************************************************************)
(* The gradually typed lambda calculus of                                  *)
(* src/tasks/gradual-type-migration/environment/gtlc: consistency, static  *)
(* types, elaboration to casts, guarded evaluation, and the precision      *)
(* order of migrations.  An expression is a tree whose nodes carry the     *)
(* constructor op, a name x (identifier or operator), a literal n, a type  *)
(* decoration t, and the subexpressions.  A missing annotation is any, as  *)
(* every reader of the code's option makes it.  What the code computes by  *)
(* recursion over trees are recursive functions here, whose domains are    *)
(* the trees of bounded height.                                            *)
(***************************************************************************)
EXTENDS Integers, Sequences

CONSTANTS
  MaxDepth,   \* evaluation nested deeper than this is taken to diverge
  MaxTypeHeight, \* types are trees of at most this height
  MaxHeight,  \* expressions are trees of at most this height
  Names,      \* the identifiers
  Values      \* the values that fit into memory: others are taken to diverge

(* A function type, which has a height, is always there.                   *)
ASSUME GtlcAssumption ==
  {MaxDepth, MaxTypeHeight} \subseteq Nat \ {0} /\ MaxHeight \in Nat

-----------------------------------------------------------------------------
(* Types.  The first component is what ground_tag returns.                 *)

Int_  == <<"int">>
Bool_ == <<"bool">>
Any   == <<"any">>
Arr(domain, codomain) == <<"fun", domain, codomain>>

Ground(t) == t[1]
IsArr(t) == Ground(t) = "fun"
Dynamic == Arr(Any, Any)
Ill == <<"ill">>                  \* Static_error

Base == {Int_, Bool_, Any}

TypesOfHeight[n \in 0..MaxTypeHeight] ==
  IF n = 0 THEN Base
  ELSE LET lower == TypesOfHeight[n - 1] IN Base \cup ({"fun"} \X lower \X lower)

Types == TypesOfHeight[MaxTypeHeight]

Consistent[p \in Types \X Types] ==
  LET left == p[1] right == p[2] IN
  \/ Any \in {left, right}
  \/ left = right
  \/ /\ IsArr(left) /\ IsArr(right)
     /\ \A i \in 2..3 : Consistent[<<left[i], right[i]>>]

consistent(left, right) == Consistent[<<left, right>>]

TypeLeq[p \in Types \X Types] ==
  LET less == p[1] more == p[2] IN
  \/ less = Any
  \/ less = more
  \/ IsArr(less) /\ IsArr(more) /\ \A i \in 2..3 : TypeLeq[<<less[i], more[i]>>]

type_leq(less, more) == TypeLeq[<<less, more>>]

CommonBranchType[p \in Types \X Types] ==
  LET left == p[1] right == p[2] IN
  CASE left = right -> left
    [] left # right /\ left = Any -> right
    [] left # right /\ right = Any -> left
    [] OTHER -> IF IsArr(left) /\ IsArr(right) /\ consistent(left, right)
                  THEN Arr(CommonBranchType[<<left[2], right[2]>>],
                           CommonBranchType[<<left[3], right[3]>>])
                  ELSE Any

common_branch_type(left, right) == CommonBranchType[<<left, right>>]

-----------------------------------------------------------------------------
(* Expressions.                                                            *)

Node(op, x, n, t, subs) == [op |-> op, x |-> x, n |-> n, t |-> t, subs |-> subs]

LitInt(n)        == Node("int", "", n, Any, <<>>)
LitBool(b)       == Node("bool", "", IF b THEN 1 ELSE 0, Any, <<>>)
Var(x)           == Node("var", x, 0, Any, <<>>)
Fun(x, t, body)  == Node("fun", x, 0, t, <<body>>)
App(f, a)        == Node("app", "", 0, Any, <<f, a>>)
Bin(o, l, r)     == Node("bin", o, 0, Any, <<l, r>>)
If(c, yes, no)   == Node("if", "", 0, Any, <<c, yes, no>>)
Let(x, e, body)  == Node("let", x, 0, Any, <<e, body>>)
Ann(e, t)        == Node("ann", "", 0, t, <<e>>)

Labels == Names \cup {"", "+", "*"}

Arity == [int |-> 0, bool |-> 0, var |-> 0, fun |-> 1, app |-> 2, bin |-> 2,
          if |-> 3, let |-> 2, ann |-> 1, cast |-> 1]

Formed(e) ==
  Len(e.subs) = Arity[e.op] /\ (e.op \in {"var", "fun", "let"} => e.x \in Names)

ExprsOfHeight[n \in 0..MaxHeight] ==
  LET lower == IF n = 0 THEN {} ELSE ExprsOfHeight[n - 1] IN
  {e \in [op : DOMAIN Arity \ {"cast"}, x : Labels, n : Int, t : Types, subs : Seq(lower)] :
     Formed(e)}

Exprs == ExprsOfHeight[MaxHeight]

(* The nearest binding of a name is the one that is found.                 *)
Extend(env, x, v) == [env EXCEPT ![x] = v]

-----------------------------------------------------------------------------
(* Static semantics.  A name without a binding has the type Ill.           *)

TypeEnvs == [Names -> Types \cup {Ill}]
NoTypes == [x \in Names |-> Ill]

require_consistent(holds, t) == IF holds THEN t ELSE Ill

(* The type of a function, if it is not too high.                          *)
Arrow(domain, codomain) ==
  IF Arr(domain, codomain) \in Types THEN Arr(domain, codomain) ELSE Ill

(* A mutant of Applied: the result of a function of type any is taken to   *)
(* have the type of the argument.                                          *)
AppliedToAny(function, argument) ==
  CASE IsArr(function) ->
         require_consistent(consistent(argument, function[2]), function[3])
    [] function = Any -> argument
    [] OTHER -> Ill

Applied(function, argument) ==
  CASE IsArr(function) ->
         require_consistent(consistent(argument, function[2]), function[3])
    [] function = Any -> Any
    [] OTHER -> Ill

(* The type of a node that binds nothing, whose parts have the types ts.   *)
TypeOfParts(e, ts) ==
  CASE e.op = "app" -> Applied(ts[1], ts[2])
    [] e.op = "bin" ->
         require_consistent(\A i \in 1..2 : consistent(ts[i], Int_), Int_)
    [] e.op = "if" ->
         require_consistent(consistent(ts[1], Bool_), common_branch_type(ts[2], ts[3]))
    [] e.op = "ann" -> require_consistent(consistent(ts[1], e.t), e.t)

TypeOf[p \in TypeEnvs \X Exprs] ==
  LET env == p[1] e == p[2] IN
  CASE e.op = "int" -> Int_
    [] e.op = "bool" -> Bool_
    [] e.op = "var" -> env[e.x]
    [] e.op = "fun" -> Arrow(e.t, TypeOf[<<Extend(env, e.x, e.t), e.subs[1]>>])
    [] e.op = "let" ->
         LET value == TypeOf[<<env, e.subs[1]>>]
         IN  IF value = Ill THEN Ill ELSE TypeOf[<<Extend(env, e.x, value), e.subs[2]>>]
    [] OTHER ->
         LET ts == [i \in DOMAIN e.subs |-> TypeOf[<<env, e.subs[i]>>]]
         IN  IF \E i \in DOMAIN ts : ts[i] = Ill THEN Ill ELSE TypeOfParts(e, ts)

type_of(env, e) == TypeOf[<<env, e>>]

infer(e) == type_of(NoTypes, e)

-----------------------------------------------------------------------------
(* Elaboration.  An elaborated term is a tree of the same shape in which   *)
(* casts, and only they, use the fields from and to.                       *)

INode(op, x, n, subs) ==
  [op |-> op, x |-> x, n |-> n, from |-> Any, to |-> Any, subs |-> subs]
cast_ir(part, target) ==
  [op |-> "cast", x |-> "", n |-> 0, from |-> part.t, to |-> target,
   subs |-> <<part.ir>>]

IRsOfHeight[n \in 0..(2 * MaxHeight)] ==
  LET lower == IF n = 0 THEN {} ELSE IRsOfHeight[n - 1] IN
  {e \in [op : DOMAIN Arity \ {"ann"}, x : Labels, n : Int,
          from : Types, to : Types, subs : Seq(lower)] : Formed(e)}

IRs == IRsOfHeight[2 * MaxHeight]

Elaborated(e, t, subs) == [t |-> t, ir |-> INode(e.op, e.x, e.n, subs)]

elaborate_application(e, f, a) ==
  IF IsArr(f.t)
    THEN Elaborated(e, f.t[3], <<f.ir, cast_ir(a, f.t[2])>>)
    ELSE Elaborated(e, Any, <<cast_ir(f, Dynamic), cast_ir(a, Any)>>)

elaborate_if(e, c, yes, no) ==
  LET t == common_branch_type(yes.t, no.t)
  IN  Elaborated(e, t, <<cast_ir(c, Bool_), cast_ir(yes, t), cast_ir(no, t)>>)

(* Elaboration is called on well-typed expressions only (run, infer).      *)
Typable == {p \in TypeEnvs \X Exprs : TypeOf[p] # Ill}

Elaborate[p \in Typable] ==
  LET env == p[1] e == p[2]
      part(i) == Elaborate[<<env, e.subs[i]>>]
      under(t, i) == Elaborate[<<Extend(env, e.x, t), e.subs[i]>>]
  IN CASE e.op = "int" -> Elaborated(e, Int_, <<>>)
       [] e.op = "bool" -> Elaborated(e, Bool_, <<>>)
       [] e.op = "var" -> Elaborated(e, env[e.x], <<>>)
       [] e.op = "fun" ->
            LET body == under(e.t, 1)
            IN  Elaborated(e, Arr(e.t, body.t), <<body.ir>>)
       [] e.op = "app" -> elaborate_application(e, part(1), part(2))
       [] e.op = "bin" ->
            Elaborated(e, Int_, <<cast_ir(part(1), Int_), cast_ir(part(2), Int_)>>)
       [] e.op = "if" -> elaborate_if(e, part(1), part(2), part(3))
       [] e.op = "let" ->
            LET value == part(1) body == under(value.t, 2)
            IN  Elaborated(e, body.t, <<value.ir, body.ir>>)
       [] e.op = "ann" -> [t |-> e.t, ir |-> cast_ir(part(1), e.t)]

elaborate(env, e) == Elaborate[<<env, e>>]

-----------------------------------------------------------------------------
(* Evaluation.  A computation that does not return a value is a record     *)
(* too: failed with a reason (Runtime_error), or divergent.                *)

VInt(n)              == [v |-> "int", n |-> n]
VBool(b)             == [v |-> "bool", n |-> IF b THEN 1 ELSE 0]
Closure(x, body, env) == [v |-> "closure", x |-> x, body |-> body, env |-> env]
Proxy(f, from, to)   == [v |-> "proxy", f |-> f, from |-> from, to |-> to]
Tagged(tag, value)   == [v |-> "tagged", tag |-> tag, of |-> value]
Failed(why)          == [v |-> "failed", why |-> why]
Divergent            == [v |-> "divergent"]
Unbound              == [v |-> "unbound"]

ValueEnvs == [Names -> Values \cup {Unbound}]
NoValues == [x \in Names |-> Unbound]

IsValue(r) == r.v \notin {"failed", "divergent", "unbound"}

(* A new value, if it fits.                                                *)
New(value) == IF value \in Values THEN value ELSE Divergent

wrap_function(source, target, value) ==
  IF value.v \in {"closure", "proxy"}
    THEN New(Proxy(value, source, target))
    ELSE Failed("not-a-function")

(* cast of a function type to another.                                     *)
cast_function(source, target, value) ==
  IF source = target THEN value ELSE wrap_function(source, target, value)

cast_from_any(target, value) ==
  CASE value.v # "tagged" \/ value.tag # Ground(target) -> Failed("cast")
    [] OTHER -> IF IsArr(target) THEN cast_function(Dynamic, target, value.of) ELSE value.of

(* A mutant of cast_to_any: a function keeps no checks but its tag.        *)
TagOnly(source, value) == New(Tagged(Ground(source), value))

cast_to_any(source, value) ==
  LET inner == IF IsArr(source) THEN cast_function(source, Dynamic, value) ELSE value
  IN  IF IsValue(inner) THEN New(Tagged(Ground(source), inner)) ELSE inner

(* What is neither a function type nor any is cast through any.            *)
cast_through_any(source, target, value) ==
  LET tagged == cast_to_any(source, value)
  IN  IF IsValue(tagged) THEN cast_from_any(target, tagged) ELSE tagged

(* A cast of what may not be a value; a computation that ended stays so.   *)
cast(source, target, value) ==
  CASE ~IsValue(value) \/ source = target -> value
    [] IsValue(value) /\ source # target /\ source = Any -> cast_from_any(target, value)
    [] IsValue(value) /\ source # target /\ source # Any /\ target = Any ->
         cast_to_any(source, value)
    [] OTHER -> IF IsArr(source) /\ IsArr(target)
                  THEN wrap_function(source, target, value)
                  ELSE cast_through_any(source, target, value)

evaluate_binary(o, left, right) ==
  IF left.v = "int" /\ right.v = "int"
    THEN New(VInt(IF o = "+" THEN left.n + right.n ELSE left.n * right.n))
    ELSE Failed("not-an-integer")

(* A mutant of ArgumentCast: arguments are cast in the results' direction. *)
CovariantCast(proxy) == <<proxy.from[2], proxy.to[2]>>

(* What a proxy casts its argument from and to: the other way round than   *)
(* its result.                                                             *)
ArgumentCast(proxy) == <<proxy.to[2], proxy.from[2]>>

(* One step of evaluate and of apply, the rest being done by lower.  OCaml *)
(* evaluates the operands of an arithmetic operator from the right.        *)
Evaluated(env, e, lower) ==
  LET sub(i) == lower.evaluate[<<env, e.subs[i]>>]
  IN CASE e.op = "int" -> New(VInt(e.n))
       [] e.op = "bool" -> New(VBool(e.n = 1))
       [] e.op = "var" -> env[e.x]
       [] e.op = "fun" -> New(Closure(e.x, e.subs[1], env))
       [] e.op = "cast" -> cast(e.from, e.to, sub(1))
       [] e.op = "app" ->
            LET f == sub(1) IN
            IF ~IsValue(f) THEN f ELSE
            LET a == sub(2) IN
            IF ~IsValue(a) THEN a ELSE lower.apply[<<f, a>>]
       [] e.op = "bin" ->
            LET right == sub(2) IN
            IF ~IsValue(right) THEN right ELSE
            LET left == sub(1) IN
            IF ~IsValue(left) THEN left ELSE evaluate_binary(e.x, left, right)
       [] e.op = "if" ->
            LET c == sub(1) IN
            CASE ~IsValue(c) -> c
              [] IsValue(c) /\ c.v = "bool" -> sub(IF c.n = 1 THEN 2 ELSE 3)
              [] OTHER -> Failed("not-a-boolean")
       [] e.op = "let" ->
            LET value == sub(1) IN
            IF ~IsValue(value) THEN value
            ELSE lower.evaluate[<<Extend(env, e.x, value), e.subs[2]>>]

AppliedTo(f, a, lower) ==
  CASE f.v = "closure" -> lower.evaluate[<<Extend(f.env, f.x, a), f.body>>]
    [] f.v = "proxy" ->
         LET argument == cast(ArgumentCast(f)[1], ArgumentCast(f)[2], a) IN
         IF ~IsValue(argument) THEN argument
         ELSE cast(f.from[3], f.to[3], lower.apply[<<f.f, argument>>])
    [] OTHER -> Failed("not-a-function")

(* The evaluator with so much depth left.                                  *)
Machine[depth \in 0..MaxDepth] ==
  [evaluate |-> [p \in ValueEnvs \X IRs |->
     IF depth = 0 THEN Divergent ELSE Evaluated(p[1], p[2], Machine[depth - 1])],
   apply |-> [p \in Values \X Values |->
     IF depth = 0 THEN Divergent ELSE AppliedTo(p[1], p[2], Machine[depth - 1])]]

evaluate(env, e, depth) == Machine[depth].evaluate[<<env, e>>]
apply(f, a, depth) == Machine[depth].apply[<<f, a>>]

Result(e) == evaluate(NoValues, elaborate(NoTypes, e).ir, MaxDepth)

-----------------------------------------------------------------------------
(* Observations.                                                           *)

observe(r) ==
  CASE r.v \in {"int", "bool"} -> <<r.v, r.n>>
    [] r.v \in {"closure", "proxy"} -> <<"function">>
    [] r.v = "tagged" ->
         (CASE r.of.v \in {"int", "bool"} -> <<r.of.v, r.of.n>>
            [] r.of.v \in {"closure", "proxy"} -> <<"function">>
            [] OTHER -> <<"assertion-failure">>)
    [] r.v = "failed" -> <<"runtime-failure">>
    [] r.v = "divergent" -> <<"divergence">>

run(e) == IF infer(e) = Ill THEN <<"static-failure">> ELSE observe(Result(e))
=============================================================================
