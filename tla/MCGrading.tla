------------------------------ MODULE MCGrading -----------------------------
(***************************************************************************)
(* An instance of Grading for TLC: challenges of tests/cases.yaml by their *)
(* numbers there, and suites with a fixture that must not be accepted.     *)
(***************************************************************************)
EXTENDS Grading

f == Var("f")
x == Var("x")
y == Var("y")
i == Var("i")

Small == Base \cup {Arr(s, t) : s, t \in Base \cup {Dynamic}}

AnyHole == Ann(Hole, Any)
Ctx(source, expected) == [source |-> source, expected |-> expected]
Challenge(program, oracle, contexts) ==
  [program |-> program, oracle |-> oracle, contexts |-> contexts]

(* A tool that decorates the program in any way, or emits another program. *)
RECURSIVE Rewritten(_), RewrittenAll(_)

RewrittenAll(es) ==
  IF es = <<>> THEN {<<>>}
  ELSE {<<e>> \o rest : e \in Rewritten(Head(es)), rest \in RewrittenAll(Tail(es))}

Rewritten(e) ==
  {[e EXCEPT !.t = t, !.subs = subs] :
     t \in IF e.op \in {"fun", "ann"} THEN Small ELSE {e.t},
     subs \in RewrittenAll(e.subs)}

Decorated(case) ==
  Rewritten(case.program) \cup {case.oracle, Fun("z", Any, Var("z")), Var("z")}

FargMismatch(tf, tx) ==
  App(Fun("f", tf, App(f, LitBool(TRUE))), Fun("x", tx, Bin("+", x, LitInt(100))))
Case01 == Challenge(FargMismatch(Any, Any), FargMismatch(Arr(Bool_, Int_), Any),
                    <<Ctx(Hole, <<"runtime-failure">>)>>)

Rank2PolyId(ti, ta) ==
  App(Fun("i", ti, App(Fun("a", ta, App(i, LitBool(TRUE))), App(i, LitInt(5)))),
      Fun("x", Any, x))
Case02 == Challenge(Rank2PolyId(Any, Any), Rank2PolyId(Dynamic, Any),
  <<Ctx(Hole, <<"bool", 1>>), Ctx(If(AnyHole, LitInt(11), LitInt(12)), <<"int", 11>>)>>)

FInFOut(tf, ty, tx) ==
  App(Fun("f", tf, App(Fun("y", ty, f), App(f, LitInt(5)))),
      Fun("x", tx, Bin("+", LitInt(10), x)))
Case04 == Challenge(FInFOut(Any, Any, Any), FInFOut(Arr(Int_, Int_), Int_, Int_),
  <<Ctx(Bin("+", App(Hole, LitInt(0)), LitInt(1)), <<"int", 11>>)>>)

Order3Fun(tf, tx) == Fun("f", tf, Fun("x", tx, App(x, App(f, x))))
Case05 == Challenge(Order3Fun(Any, Any), Order3Fun(Arr(Dynamic, Any), Dynamic),
  <<Ctx(App(App(AnyHole, Fun("a", Any, Var("a"))), Fun("b", Any, LitBool(TRUE))), <<"bool", 1>>),
    Ctx(App(App(AnyHole, Fun("a", Any, LitInt(0))),
            Fun("b", Any, Bin("+", Var("b"), LitInt(1)))), <<"int", 1>>),
    Ctx(App(App(AnyHole, Fun("a", Any, LitBool(TRUE))),
            Fun("b", Any, If(Var("b"), LitInt(8), LitInt(9)))), <<"int", 8>>)>>)

DoubleF(t) == Fun("f", t, App(f, App(f, LitBool(TRUE))))
Case07 == Challenge(DoubleF(Any), DoubleF(Dynamic),
  <<Ctx(App(App(AnyHole, Fun("x", Any, Fun("y", Any, y))), LitInt(17)), <<"int", 17>>),
    Ctx(App(AnyHole, Fun("x", Any, If(x, LitBool(FALSE), LitBool(TRUE)))), <<"bool", 1>>),
    Ctx(Bin("+", App(AnyHole, Fun("x", Any, LitInt(3))), LitInt(4)), <<"int", 7>>)>>)

IfTag(tt, tx) ==
  Fun("tag", tt, Fun("x", tx, If(Var("tag"), Bin("+", x, LitInt(1)),
                                 If(x, LitInt(1), LitInt(0)))))
Case10 == Challenge(IfTag(Any, Any), IfTag(Bool_, Any),
  <<Ctx(App(App(AnyHole, LitBool(TRUE)), LitInt(1)), <<"int", 2>>),
    Ctx(App(App(AnyHole, LitBool(FALSE)), LitBool(TRUE)), <<"int", 1>>)>>)

AddTwoApplies(t) == Fun("x", t, Bin("+", App(x, LitInt(4)), App(x, LitBool(TRUE))))
Case13 == Challenge(AddTwoApplies(Any), AddTwoApplies(Arr(Any, Int_)),
  <<Ctx(App(AnyHole, Fun("y", Any, LitInt(1))), <<"int", 2>>),
    Ctx(App(AnyHole, Fun("y", Int_, LitInt(2))), <<"runtime-failure">>),
    Ctx(App(AnyHole, Fun("y", Bool_, LitInt(3))), <<"runtime-failure">>)>>)

IndirectApplySelf(tx, ty) == Fun("x", tx, App(App(Fun("y", ty, x), x), x))
Case18 == Challenge(IndirectApplySelf(Any, Any), IndirectApplySelf(Dynamic, Dynamic),
  <<Ctx(App(AnyHole, Fun("z", Any, LitInt(3))), <<"int", 3>>),
    Ctx(App(AnyHole, Fun("z", Any, LitBool(TRUE))), <<"bool", 1>>),
    Ctx(App(App(AnyHole, Fun("z", Any, Fun("w", Any, Var("w")))), LitBool(FALSE)),
        <<"bool", 0>>)>>)

ApplySelf(t) == Fun("x", t, App(x, x))
Case20 == Challenge(ApplySelf(Any), ApplySelf(Dynamic),
  <<Ctx(App(App(AnyHole, Fun("z", Any, Var("z"))), LitInt(7)), <<"int", 7>>),
    Ctx(App(AnyHole, Fun("z", Any, LitInt(5))), <<"int", 5>>),
    Ctx(App(AnyHole, Fun("z", Any, LitBool(TRUE))), <<"bool", 1>>),
    Ctx(App(App(AnyHole, Fun("z", Any, Fun("w", Any, Var("w")))), LitBool(FALSE)),
        <<"bool", 0>>)>>)

UnreachableUse(tx, ta) ==
  App(Fun("x", tx, If(LitBool(TRUE), LitInt(1), Bin("+", x, LitInt(1)))),
      Ann(LitBool(TRUE), ta))
Case22 == Challenge(UnreachableUse(Any, Any), UnreachableUse(Any, Any),
  <<Ctx(Hole, <<"int", 1>>)>>)

(* Two challenges that are not in cases.yaml: branches whose types drift   *)
(* apart, and a program that diverges.                                     *)
Branches(t) == Fun("x", t, Let("y", Bin("*", LitInt(2), LitInt(2)),
                               If(LitBool(TRUE), x, y)))
CaseBranches == Challenge(Branches(Any), Branches(Int_),
  <<Ctx(App(AnyHole, LitBool(TRUE)), <<"runtime-failure">>), Ctx(App(AnyHole, LitInt(3)), <<"int", 3>>)>>)

Omega(s, t) == App(Fun("x", s, App(x, x)), Fun("x", t, App(x, x)))
CaseOmega == Challenge(Omega(Any, Any), Omega(Dynamic, Dynamic), <<Ctx(Hole, <<"divergence">>)>>)

(* Fixtures the verifier must refuse: a wrong outcome, an expert migration *)
(* that changes behaviour, one that is none, no contexts, no hole.         *)
WrongOutcome  == [Case22 EXCEPT !.contexts = <<Ctx(Hole, <<"runtime-failure">>)>>]
WrongExpert   == [Case22 EXCEPT !.oracle = UnreachableUse(Int_, Any)]
NoMigration   == [Case22 EXCEPT !.program = UnreachableUse(Int_, Any)]
NoContexts    == [Case22 EXCEPT !.contexts = <<>>]
NoHole        == [Case22 EXCEPT !.contexts = <<Ctx(LitInt(1), <<"int", 1>>)>>]

GoodSuites == {<<>>, <<Case10, Case01>>, <<Case04, Case02>>, <<Case13, Case18>>,
               <<Case22, Case07>>, <<Case05, Case20>>,
               <<CaseBranches, CaseOmega>>}
BadSuites == {<<Case13, c>> : c \in {WrongOutcome, WrongExpert, NoMigration, NoContexts, NoHole}}

AllNames == {"HOLE", "a", "b", "f", "i", "tag", "w", "x", "y", "z"}

(* Values, nested deeper than any that these programs compute.             *)
RECURSIVE ValuesOfHeight(_)
ValuesOfHeight(n) ==
  [v : {"int", "bool"}, n : Int] \cup
  IF n = 0 THEN {}
  ELSE LET lower == ValuesOfHeight(n - 1) IN
       [v : {"closure"}, x : AllNames, body : IRs, env : [AllNames -> lower \cup {Unbound}]]
       \cup [v : {"proxy"}, f : lower, from : Types, to : Types]
       \cup [v : {"tagged"}, tag : {"int", "bool", "fun"}, of : lower]

AllValues == ValuesOfHeight(8)

AllSuites == GoodSuites \cup BadSuites

(* Scores are exact.                                                       *)
ASSUME UnitAssumption ==
  \A s \in GoodSuites : \A k \in DOMAIN s :
    LET steps == distance(s[k].program, s[k].oracle)
    IN  steps \in Nat \ {0} => Unit % (2 * steps) = 0
=============================================================================
