---------------------------- MODULE MCBenchmark -----------------------------
(***************************************************************************)
(* Instances of Benchmark for TLC: programs, options and contexts.         *)
(***************************************************************************)
EXTENDS Benchmark

x == Var("x")
f == Var("f")
T == LitBool(TRUE)
N(n) == LitInt(n)
F(y, e) == Fun(y, Unknown, e)
Id_ == F("y", Var("y"))

(* Bodies of a function of x, and what it may be applied to.               *)
Atoms == {x, N(1), T}
Bodies ==
  Atoms \cup {Bin("+", x, a) : a \in Atoms} \cup {App(x, a) : a \in Atoms}
  \cup {If(c, a, b) : c \in {x, T}, a \in Atoms, b \in Atoms}
  \cup {App(Id_, x), App(Id_, N(1)), App(F("y", x), T), F("y", x), App(App(x, x), N(1)), App(x, App(x, N(1))),
        Bin("+", App(x, N(1)), App(x, T))}
Functions == {F("x", b) : b \in Bodies}
Applied_ == {App(g, a) : g \in Functions, a \in {N(1), T, Id_}}

(* Programs of the suite of the task and of the tests of TypeWhich.        *)
Suite ==
  {App(F("f", App(f, T)), F("x", Bin("+", x, N(100)))),
   App(F("i", App(F("a", App(Var("i"), T)), App(Var("i"), N(5)))), F("x", x)),
   App(F("f", App(F("y", f), App(f, N(5)))), F("x", Bin("+", N(10), x))),
   F("f", F("x", App(x, App(f, x)))),
   F("f", App(f, App(f, T))),
   F("tag", F("x", If(Var("tag"), Bin("+", x, N(1)), If(x, N(1), N(0)))))}

Cons_(a, b) == Data("cons", <<a, b>>)
Nil == Empty(Unknown)
Unwrap == {"fst", "snd", "head", "tail", "is_empty", "unbox", "vector-len"}
Extended ==
  {F("x", Data(o, <<x>>)) : o \in Unwrap \cup TypeTests}
  \cup {Data("fst", <<Data("pair", <<N(1), T>>)>>), F("x", Bin("+", Data("snd", <<Data("pair", <<T, x>>)>>), N(1))),
   Data("head", <<Cons_(T, Cons_(N(1), Nil))>>), F("x", Cons_(x, Nil)), F("x", Cons_(Data("head", <<x>>), x)),
   F("x", Data("boxset", <<x, N(1)>>)), Data("unbox", <<Data("box", <<T>>)>>), F("x", Data("box", <<x>>)),
   Data("box", <<N(1)>>), Data("vector", <<N(2), T>>),
   F("x", Data("vector-set", <<x, N(0), N(1)>>)), F("x", Data("vector-ref", <<Data("vector", <<N(2), x>>), x>>)),
   F("x", AddOverload(x, N(1))), AddOverload(N(1), T), F("x", AddOverload(x, x)),
   F("x", If(Unary("not", x), N(1), T)),
   Fix("f", Unknown, F("x", If(Bin("=", x, N(0)), T, App(f, Bin("+", x, N(1)))))),
   LetRec(<<Binding("f", Unknown, F("x", App(Var("g"), x))), Binding("g", Unknown, F("x", App(f, Bin("+", x, N(1)))))>>, App(f, T)),
   Let("i", Id_, Let("n", App(Var("i"), N(1)), App(Var("i"), T))),
   Let("x", N(1), Bin("+", x, T)), App(F("x", x), Literal(Unit_)), F("x", Unary("print", x)),
   F("x", If(Data("is_int", <<x>>), Bin("+", x, N(1)), x))}

Annotated_ ==
  {Fun("x", Int_, x), Fun("x", Any, Bin("+", x, N(1))),
   LetRec(<<Binding("x", Int_, T)>>, x), Fix("x", Bool_, N(1)),
   Coerce(Unknown, Any, N(1)), Bin("+", Coerce(Any, Unknown, Coerce(Unknown, Any, T)), N(1)),
   Coerce(Any, Int_, T), Ann(N(1), Int_), Ann(N(1), Any), Fun("x", Any, Coerce(Any, Dynamic, x)),
   App(Fun("x", Bool_, x), N(1))}

(* Operators in operators: what the printer puts no parentheses around.     *)
Nested ==
  {F("x", Bin("*", Bin("+", N(1), N(2)), x)), F("x", Bin("*", N(2), Bin("+", x, N(1)))),
   F("x", Bin("+", N(1), If(T, x, N(2)))), F("x", Bin("+", Bin("*", x, N(2)), N(1)))}

Input(source, annot, rigid, optimizer, context, io) ==
  [source |-> source, annot |-> annot, rigid_vars |-> rigid, optimizer |-> optimizer,
   context |-> context, ins_and_outs |-> io]

(* As the submitted script runs it, and with variables that may be weakened. *)
Default == {Input(e, "ignore", rigid, TRUE, TRUE, FALSE) :
              e \in Functions \cup Applied_ \cup Suite \cup Extended \cup Nested, rigid \in BOOLEAN}
Hard == {Input(e, "hard", TRUE, TRUE, context, FALSE) :
           e \in Suite \cup Extended \cup Annotated_, context \in BOOLEAN}
Precise == {Input(e, "ignore", TRUE, TRUE, FALSE, FALSE) : e \in Functions \cup Suite \cup Extended}
NotOptimized == {Input(F("x", e), "ignore", TRUE, FALSE, TRUE, FALSE) :
                   e \in {x, Bin("+", x, N(1)), If(x, N(1), T)}}
InOut == {Input(e, "ignore", TRUE, TRUE, TRUE, TRUE) :
            e \in Functions \cup Applied_ \cup Suite \cup Extended}

AllInputs == Default \cup Hard \cup Precise \cup NotOptimized \cup InOut

(* Uses of the hole at type any.                                           *)
Any_ == Ann(Hole, Any)
AllContexts ==
  {Hole, App(Any_, N(1)), App(Any_, T), App(Any_, Fun("z", Any, Var("z"))),
   App(Any_, Fun("z", Any, N(1))), App(App(Any_, Fun("z", Any, Var("z"))), N(1)),
   App(Ann(Any_, Arr(Int_, Int_)), N(1))}

(* Versions of programs that are as usable and more precise.               *)
Known ==
  {<<e, parse(e)>> : e \in Functions}
  \cup {<<App(F("y", Var("y")), N(1)), App(Fun("y", Int_, Var("y")), N(1))>>}

SomeTypes == {Int_, Any}

AllNames == {"HOLE", "a", "f", "i", "n", "tag", "x", "y", "z"}
=============================================================================
