----------------------------- MODULE InsAndOuts -----------------------------
(***************************************************************************)
(* The second inference of TypeWhich (ins_and_outs): the coercions of a    *)
(* program are flows between types, closed under the rules of its paper;   *)
(* a type variable is solved by the kinds that flow into it.  A type       *)
(* variable X has variables X? and X! for its argument and its result.     *)
(***************************************************************************)
EXTENDS TypeWhich

LOCAL S == INSTANCE FiniteSetsExt

CONSTANT MaxNesting  \* a closure whose variables nest deeper is taken to grow forever

Null_ == <<"null">>
ArgOf(x) == <<"arg", x>>
RetOf(x) == <<"ret", x>>
Unsolved == Meta(<<>>, "4444")

is_metavar(t) == Ground(t) \in {"meta", "arg", "ret"}
is_base(t)    == t \in {Any, Bool_, Int_, Null_}
get_arg(t) == CASE IsArr(t) -> t[2] [] is_metavar(t) -> ArgOf(t) [] OTHER -> Ill
get_ret(t) == CASE IsArr(t) -> t[3] [] is_metavar(t) -> RetOf(t) [] OTHER -> Ill

(* ||t||x for a t that is no variable.                                     *)
kind_of_typ_var(t, x) == IF IsArr(t) THEN Arr(ArgOf(x), RetOf(x)) ELSE t

is_kind(t, x) ==
  /\ ~is_metavar(t)
  /\ IsArr(t) => t = Arr(get_arg(x), get_ret(x))

dyn_consistent(k, t) == k \in {Null_, Any} \/ t = Any \/ (IsArr(k) /\ IsArr(t))

least_upper_bound(k, l) ==
  CASE k = Null_ -> l
    [] k # Null_ /\ l = Null_ -> k
    [] OTHER -> IF k = l THEN k ELSE Any

-----------------------------------------------------------------------------
(* From and to programs of TypeWhich.  A fun's t is the arrow from its     *)
(* argument's type to its result's.  A construct outside the fragment is   *)
(* an error.                                                               *)

InFragment == {"int", "bool", "var", "fun", "app", "if", "let"}

RECURSIVE Supported(_), from_exp(_, _), to_typ(_), to_exp(_)

Supported(e) ==
  /\ e.op \in InFragment \/ (e.op = "bin" /\ e.x = "+") \/ (e.op = "literal" /\ e.t = Unit_)
  /\ \A i \in DOMAIN e.subs : Supported(e.subs[i])

from_exp(e, place) ==
  LET sub(i) == from_exp(e.subs[i], Append(place, i))
      typed(t, subs) == [e EXCEPT !.t = t, !.subs = subs]
  IN CASE e.op = "fun" -> typed(Arr(e.t, Meta(place, "result")), <<sub(1)>>)
       [] e.op = "let" ->
            App(Fun(e.x, Arr(Meta(place, "typ"), Meta(place, "result")), sub(2)), sub(1))
       [] e.op = "literal" -> typed(Null_, <<>>)
       [] OTHER -> typed(e.t, [i \in DOMAIN e.subs |-> sub(i)])

(* X? and X! have no type in TypeWhich; decoration leaves none.            *)
to_typ(t) ==
  CASE t = Null_ -> Unit_
    [] IsArr(t) -> Arr(to_typ(t[2]), to_typ(t[3]))
    [] OTHER -> t

to_exp(e) ==
  [e EXCEPT !.t = CASE e.op = "fun" -> to_typ(e.t[2]) [] e.op = "coerce" -> to_typ(e.t)
                    [] OTHER -> to_typ(e.t),
            !.subs = [i \in DOMAIN e.subs |-> to_exp(e.subs[i])]]

-----------------------------------------------------------------------------
(* Compilation: coercions, and the flows that they are.                    *)

Compiled(t, exp, flows) == [t |-> t, exp |-> exp, flows |-> flows]

(* A part coerced to a type; nothing if it has that type.                  *)
CoercedTo(part, t) ==
  IF part.t = t THEN part
  ELSE Compiled(t, Coerce(part.t, t, part.exp), part.flows \cup {<<part.t, t>>})

CompiledApp(e, f, a) ==
  LET argument == CoercedTo(a, get_arg(f.t))
      function == CoercedTo(f, Arr(get_arg(f.t), get_ret(f.t)))
  IN Compiled(get_ret(f.t), [e EXCEPT !.subs = <<function.exp, argument.exp>>],
              function.flows \cup argument.flows)

(* A conditional's test is not constrained.                                *)
CompiledIf(e, c, yes, no, alpha) ==
  LET left == CoercedTo(yes, alpha) right == CoercedTo(no, alpha) IN
  Compiled(alpha, [e EXCEPT !.subs = <<c.exp, left.exp, right.exp>>],
           c.flows \cup left.flows \cup right.flows)

(* Ill is the panic of an application of what can be no function.          *)
RECURSIVE compile(_, _, _)
compile(env, e, place) ==
  LET part(i, inner) == compile(inner, e.subs[i], Append(place, i))
      parts == IF e.op = "fun" THEN <<part(1, Bind(env, e.x, e.t[2]))>>
               ELSE [i \in DOMAIN e.subs |-> part(i, env)]
      broken == \E i \in DOMAIN parts : parts[i].t = Ill
  IN CASE broken -> Compiled(Ill, e, {})
       [] ~broken /\ IsLit(e) -> Compiled(LitTyp(e), e, {})
       [] ~broken /\ e.op = "var" -> Compiled(env[e.x], e, {})
       [] ~broken /\ e.op = "fun" ->
            LET body == CoercedTo(parts[1], e.t[3])
            IN  Compiled(e.t, [e EXCEPT !.subs = <<body.exp>>], body.flows)
       [] ~broken /\ e.op = "app" ->
            IF get_arg(parts[1].t) = Ill THEN Compiled(Ill, e, {})
            ELSE CompiledApp(e, parts[1], parts[2])
       [] ~broken /\ e.op = "if" ->
            CompiledIf(e, parts[1], parts[2], parts[3], Meta(place, "if"))
       [] ~broken /\ e.op = "bin" ->
            LET l == CoercedTo(parts[1], Int_) r == CoercedTo(parts[2], Int_)
            IN  Compiled(Int_, [e EXCEPT !.subs = <<l.exp, r.exp>>], l.flows \cup r.flows)

(* The program is used by, and given arguments from, anything.             *)
RECURSIVE comp(_, _)
comp(t, pos) ==
  CASE is_metavar(t) -> {IF pos THEN <<t, Any>> ELSE <<Any, t>>}
    [] IsArr(t) -> comp(t[2], ~pos) \cup comp(t[3], pos)
    [] OTHER -> {}

compile_coercions(e) ==
  LET c == compile(NoBinding, e, <<>>) IN
  IF c.t = Ill THEN c ELSE [c EXCEPT !.flows = @ \cup comp(c.t, TRUE)]

compile_portable(e) ==
  IF Supported(e) THEN compile_coercions(from_exp(e, <<>>)) ELSE Compiled(Ill, e, {})

-----------------------------------------------------------------------------
(* The closure.  Each rule adds the flows that one pass over a set finds,  *)
(* and is repeated until it finds none.  Flows from a type to itself are   *)
(* left out.  The rounds stop when one ends with nothing left to pull or   *)
(* factor, whatever flow the other rules would still add.                  *)

Proper(flows) == {f \in flows : f[1] # f[2]}

(* The flows out of the variables that kinds flow into.                    *)
Through(cs) ==
  {pair \in cs \X cs : /\ is_metavar(pair[1][2]) /\ is_kind(pair[1][1], pair[1][2])
                       /\ pair[2][1] = pair[1][2]}

Pull(cs) == {<<pair[1][1], pair[2][2]>> : pair \in {p \in Through(cs) : is_metavar(p[2][2])}}

Factor(cs) ==
  LET into == {f \in cs : is_metavar(f[2]) /\ ~is_metavar(f[1])}
      kind(f) == kind_of_typ_var(f[1], f[2])
  IN {<<f[1], kind(f)>> : f \in into} \cup {<<kind(f), f[2]>> : f \in into}

ExpFun(cs) ==
  {<<Dynamic, f[2]>> : f \in {g \in cs : g[1] = Any /\ IsArr(g[2])}}
  \cup {<<f[1], Dynamic>> : f \in {g \in cs : g[2] = Any /\ IsArr(g[1])}}

(* A mutant of BetweenBases: a base type flows on into a base type.        *)
Never(k, t) == FALSE

BetweenBases(k, t) == is_base(k) /\ is_base(t)

(* A kind flows on through a variable, but from base type to base type.    *)
Tran(cs) ==
  {<<pair[1][1], pair[2][2]>> :
     pair \in {p \in Through(cs) : /\ dyn_consistent(p[1][1], p[2][2])
                                   /\ ~BetweenBases(p[1][1], p[2][2])}}

SplitFun(cs) ==
  LET arrows == {f \in cs : IsArr(f[1]) /\ IsArr(f[2])}
  IN {<<f[2][2], f[1][2]>> : f \in arrows} \cup {<<f[1][3], f[2][3]>> : f \in arrows}

(* How deep the variables of a type nest.                                  *)
RECURSIVE Nesting(_)
Nesting(t) ==
  CASE Ground(t) \in {"arg", "ret"} -> 1 + Nesting(t[2])
    [] IsArr(t) -> (IF Nesting(t[2]) > Nesting(t[3]) THEN Nesting(t[2]) ELSE Nesting(t[3]))
    [] OTHER -> 0

Grown(cs, found) == cs \cup Proper(found)

(* The computation goes on forever when variables nest ever deeper.        *)
Endless(cs) == \E f \in cs : Nesting(f[1]) > MaxNesting \/ Nesting(f[2]) > MaxNesting

RECURSIVE pull_and_factor(_), tran_and_exp_fun(_), split_fun(_), compute_closure(_)

pull_and_factor(cs) ==
  LET expanded == Grown(cs, Pull(cs) \cup Factor(cs))
  IN  IF expanded = cs \/ Endless(cs) THEN cs ELSE pull_and_factor(expanded)

tran_and_exp_fun(cs) ==
  LET expanded == Grown(cs, ExpFun(cs) \cup Tran(cs))
  IN  IF expanded = cs \/ Endless(cs) THEN cs ELSE tran_and_exp_fun(expanded)

split_fun(cs) ==
  LET expanded == Grown(cs, SplitFun(cs))
  IN  IF expanded = cs \/ Endless(cs) THEN cs ELSE split_fun(expanded)

compute_closure(cs) ==
  LET once == split_fun(tran_and_exp_fun(pull_and_factor(cs)))
      again == pull_and_factor(once)
  IN  IF again = once \/ Endless(again) THEN again
      ELSE compute_closure(split_fun(tran_and_exp_fun(again)))

-----------------------------------------------------------------------------
(* The solution: the upper bound of what flows into a variable.            *)

Lubs(cs) ==
  LET solved == {f[2] : f \in {g \in cs : is_metavar(g[2]) /\ ~is_metavar(g[1])}}
      kinds(x) == {kind_of_typ_var(f[1], x) :
                     f \in {g \in cs : g[2] = x /\ ~is_metavar(g[1])}}
  IN [x \in solved |-> S!FoldSet(least_upper_bound, Null_, kinds(x))]

RECURSIVE solve_recursively(_, _), decorate_typ(_, _), decorate(_, _)

solve_recursively(t, lubs) ==
  CASE IsArr(t) -> Arr(solve_recursively(t[2], lubs), solve_recursively(t[3], lubs))
    [] is_metavar(t) -> IF t \in DOMAIN lubs THEN lubs[t] ELSE Unsolved
    [] OTHER -> t

solve_closure(cs) ==
  LET lubs == Lubs(cs) IN [x \in DOMAIN lubs |-> solve_recursively(lubs[x], lubs)]

decorate_typ(t, solution) ==
  CASE IsArr(t) -> Arr(decorate_typ(t[2], solution), decorate_typ(t[3], solution))
    [] is_metavar(t) ->
         IF t \in DOMAIN solution THEN decorate_typ(solution[t], solution) ELSE Unsolved
    [] OTHER -> t

decorate(e, solution) ==
  LET typ == decorate_typ(e.t, solution)
      subs == [i \in DOMAIN e.subs |-> decorate(e.subs[i], solution)]
  IN IF e.op = "coerce" /\ typ[2] = typ[3] THEN subs[1]
     ELSE [e EXCEPT !.t = typ, !.subs = subs]
=============================================================================
