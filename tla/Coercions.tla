------------------------------ MODULE Coercions -----------------------------
(***************************************************************************)
(* The evaluator that TypeWhich's benchmark driver runs programs with:     *)
(* type-directed coercion insertion (insert_coercions.rs), evaluation      *)
(* (eval.rs), and the precision order (precision.rs).  A panic is a        *)
(* failure of its own; a coercion application is a node "prim" whose t is  *)
(* the coercion.                                                           *)
(***************************************************************************)
EXTENDS TypeWhich

Id        == <<"id">>
Tag(g)    == <<"tag", g>>
Untag(g)  == <<"untag", g>>
Wrap(dom, rng) == <<"wrap", dom, rng>>
Doomed    == <<"doomed">>
seq(k1, k2) == CASE k1 = Id -> k2 [] k1 # Id /\ k2 = Id -> k1 [] OTHER -> <<"seq", k1, k2>>
Panic == Failed("panic")

RECURSIVE coerce(_, _)
coerce(src, dst) ==
  CASE IsArr(src) /\ IsArr(dst) -> Wrap(coerce(dst[2], src[2]), coerce(src[3], dst[3]))
    [] src \in {Int_, Bool_} /\ dst = Any -> Tag(Ground(src))
    [] IsArr(src) /\ dst = Any -> seq(Wrap(coerce(Any, src[2]), coerce(src[3], Any)), Tag("fun"))
    [] src = Any /\ dst \in {Int_, Bool_} -> Untag(Ground(dst))
    [] src = Any /\ IsArr(dst) -> seq(Untag("fun"), Wrap(coerce(dst[2], Any), coerce(Any, dst[3])))
    [] OTHER -> IF src = dst THEN Id ELSE Doomed

-----------------------------------------------------------------------------
(* Insertion: the type of an expression and the expression with coercions. *)
(* Ill stands for what ends the command: an unbound identifier, or a       *)
(* construct that is not supported.                                        *)

Typed(t, exp) == [t |-> t, exp |-> exp]
NotSupported(e) == Typed(Ill, e)

prim(k, e) == Node("prim", "", 0, k, <<e>>)
PrimUnlessId(k, e) == IF k = Id THEN e ELSE prim(k, e)

join(left, right) == IF left = right THEN left ELSE Any
fun_typ(t) == IF IsArr(t) THEN <<t[2], t[3]>> ELSE <<Any, Any>>

InsertedApp(e, f, a) ==
  LET t == fun_typ(f.t) IN
  Typed(t[2], [e EXCEPT !.subs = <<prim(coerce(f.t, Arr(t[1], t[2])), f.exp),
                                   prim(coerce(a.t, t[1]), a.exp)>>])

(* The operand types are taken the wrong way round; they are always equal. *)
InsertedBin(e, l, r) ==
  LET op == BinOpTyp(e.x) IN
  Typed(op[3], [e EXCEPT !.subs = <<prim(coerce(l.t, op[2]), l.exp),
                                    prim(coerce(r.t, op[1]), r.exp)>>])

InsertedIf(e, c, yes, no) ==
  LET t == join(yes.t, no.t) IN
  Typed(t, [e EXCEPT !.subs = <<prim(coerce(c.t, Bool_), c.exp),
                                PrimUnlessId(coerce(yes.t, t), yes.exp),
                                PrimUnlessId(coerce(no.t, t), no.exp)>>])

RECURSIVE ins(_, _)
ins(env, e) ==
  LET inner == IF e.op = "fun" THEN Bind(env, e.x, e.t) ELSE env
      parts == [i \in DOMAIN e.subs |-> ins(inner, e.subs[i])]
  IN CASE \E i \in DOMAIN parts : parts[i].t = Ill -> NotSupported(e)
       [] e.op \in {"int", "bool"} -> Typed(LitTyp(e), e)
       [] e.op = "var" -> Typed(IF e.x \in DOMAIN env THEN env[e.x] ELSE Ill, e)
       [] OTHER ->
            CASE e.op = "fun" ->
                   Typed(Arr(e.t, parts[1].t), [e EXCEPT !.subs = <<parts[1].exp>>])
              [] e.op = "app" -> InsertedApp(e, parts[1], parts[2])
              [] e.op = "bin" -> InsertedBin(e, parts[1], parts[2])
              [] e.op = "if" -> InsertedIf(e, parts[1], parts[2], parts[3])
              [] e.op = "ann" -> Typed(e.t, prim(coerce(parts[1].t, e.t), parts[1].exp))
              [] e.op = "coerce" -> Typed(e.t[3], [e EXCEPT !.subs = <<parts[1].exp>>])
              [] OTHER -> NotSupported(e)

insert_coercions(e) == ins(NoBinding, e)

-----------------------------------------------------------------------------
(* Evaluation.  A closure carries the coercions of its argument and result *)
(* that wrapping it has accumulated.                                       *)

CoercedClosure(x, body, env, dom, rng) ==
  [v |-> "closure", x |-> x, body |-> body, env |-> env, dom |-> dom, rng |-> rng]

ground_typ(value) == IF value.v = "closure" THEN "fun" ELSE value.v

(* A mutant of Rewrapped: coercions compose the other way round.          *)
Backwards(value, dom, rng) ==
  [value EXCEPT !.dom = seq(value.dom, dom), !.rng = seq(rng, value.rng)]

(* A closure wrapped once more: arguments meet the newest coercion first,  *)
(* results meet it last.                                                   *)
Rewrapped(value, dom, rng) ==
  [value EXCEPT !.dom = seq(dom, value.dom), !.rng = seq(value.rng, rng)]

RECURSIVE eval_k(_, _)
eval_k(k, value) ==
  CASE ~IsValue(value) \/ k = Id -> value
    [] IsValue(value) /\ k = Doomed -> Failed("doomed")
    [] IsValue(value) /\ k[1] = "seq" -> eval_k(k[3], eval_k(k[2], value))
    [] IsValue(value) /\ k[1] = "tag" ->
         IF value.v = "tagged" THEN Panic
         ELSE IF ground_typ(value) = k[2] THEN Tagged(k[2], value)
         ELSE Failed("tag on another type")
    [] IsValue(value) /\ k[1] = "untag" ->
         IF value.v = "tagged" /\ value.tag = k[2] THEN value.of ELSE Failed("untag")
    [] OTHER ->
         IF value.v = "closure" THEN Rewrapped(value, k[2], k[3])
         ELSE Failed("wrap on a non-function")

RECURSIVE eval(_, _, _)
eval(env, e, depth) ==
  LET sub(i) == eval(env, e.subs[i], depth - 1)
  IN CASE depth = 0 -> Divergent
       [] depth > 0 /\ e.op = "int" -> VInt(e.n)
       [] depth > 0 /\ e.op = "bool" -> VBool(e.n = 1)
       [] depth > 0 /\ e.op = "var" ->
            IF e.x \in DOMAIN env THEN env[e.x] ELSE Panic
       [] depth > 0 /\ e.op = "fun" -> CoercedClosure(e.x, e.subs[1], env, Id, Id)
       [] depth > 0 /\ e.op = "prim" -> eval_k(e.t, sub(1))
       [] depth > 0 /\ e.op = "coerce" -> eval_k(coerce(e.t[2], e.t[3]), sub(1))
       [] depth > 0 /\ e.op = "app" ->
            LET f == sub(1) IN
            IF ~IsValue(f) THEN f ELSE
            LET a == sub(2) IN
            IF ~IsValue(a) THEN a ELSE
            IF f.v # "closure" THEN Panic ELSE
            LET argument == eval_k(f.dom, a) IN
            IF ~IsValue(argument) THEN argument
            ELSE eval_k(f.rng, eval(Bind(f.env, f.x, argument), f.body, depth - 1))
       [] depth > 0 /\ e.op = "bin" ->
            LET l == sub(1) IN
            IF e.x # "+" THEN Panic ELSE
            IF ~IsValue(l) THEN l ELSE
            LET r == sub(2) IN
            IF ~IsValue(r) THEN r
            ELSE IF l.v = "int" /\ r.v = "int" THEN VInt(l.n + r.n)
            ELSE Panic
       [] depth > 0 /\ e.op = "if" ->
            LET c == sub(1) IN
            CASE ~IsValue(c) -> c
              [] c.v = "bool" -> sub(IF c.n = 1 THEN 2 ELSE 3)
              [] OTHER -> Panic
       [] OTHER -> Panic

(* What the command eval makes of a program: an answer, an error, a panic. *)
answer(r) ==
  CASE r.v \in {"int", "bool"} -> <<r.v, r.n>>
    [] r.v = "closure" -> <<"function">>
    [] r.v = "tagged" -> (IF r.of.v = "closure" THEN <<"function">> ELSE <<r.of.v, r.of.n>>)
    [] r.v = "divergent" -> <<"divergence">>
    [] r.v = "failed" -> <<r.why>>

-----------------------------------------------------------------------------
(* Precision, the more precise first; names of binders do not matter.      *)

(* A mutant of BelowAll: any is the more precise.                          *)
AnyFirst(t1, t2) == t1 = Any \/ IsMeta(t2)

BelowAll(t1, t2) == t2 = Any \/ IsMeta(t2)

RECURSIVE typ_lt(_, _), exp_lt_rec(_, _, _)

typ_lt(t1, t2) ==
  \/ BelowAll(t1, t2)
  \/ t1 = t2 /\ Len(t1) = 1
  \/ /\ Ground(t1) = Ground(t2) /\ Ground(t1) \in {"fun", "pair", "vect"}
     /\ \A i \in 2..Len(t1) : typ_lt(t1[i], t2[i])

exp_lt_rec(env, e1, e2) ==
  /\ e1.op = e2.op
  /\ CASE IsLit(e1) -> e1.n = e2.n /\ e1.t = e2.t
       [] e1.op = "var" -> e1.x \in DOMAIN env /\ env[e1.x] = e2.x
       [] e1.op = "fun" ->
            /\ typ_lt(e1.t, e2.t)
            /\ exp_lt_rec(Bind(env, e1.x, e2.x), e1.subs[1], e2.subs[1])
       [] e1.op \in {"app", "bin", "if"} ->
            /\ e1.x = e2.x
            /\ \A i \in DOMAIN e1.subs : exp_lt_rec(env, e1.subs[i], e2.subs[i])
       [] OTHER -> FALSE

exp_lt(e1, e2) == exp_lt_rec([x \in {} |-> ""], e1, e2)
=============================================================================
