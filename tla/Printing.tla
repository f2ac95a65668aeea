------------------------------ MODULE Printing ------------------------------
(***************************************************************************)
(* The printer of TypeWhich (pretty.rs), by what a parser of GTLC reads    *)
(* from the text it prints: which annotations and ascriptions are there,   *)
(* and whether every operand stands where the grammar takes it, in         *)
(* parentheses or not.                                                     *)
(***************************************************************************)
EXTENDS TypeWhich

GtlcOps == {"int", "bool", "var", "fun", "app", "bin", "if", "let", "ann", "coerce"}

RECURSIVE InGtlc(_)
InGtlc(e) ==
  /\ e.op \in GtlcOps
  /\ e.op = "bin" => e.x \in {"+", "*"}
  /\ \A i \in DOMAIN e.subs : InGtlc(e.subs[i])

is_atom(e) == IsLit(e) \/ e.op \in {"var", "empty"}
is_fun_exp(e) == e.op \in {"fun", "fix", "if", "let", "cons"}
is_add_or_looser(e) == e.op = "bin" \/ is_fun_exp(e)
is_coercion(e) == e.op = "coerce" /\ is_atom(e.subs[1])
skip_coercion(e) == IF e.op = "coerce" THEN e.subs[1] ELSE e

(* A coercion that is printed as an ascription, in parentheses.            *)
Ascribed(e) == is_coercion(e) /\ e.t[3] = Any

-----------------------------------------------------------------------------
(* How tightly the text of an expression binds: the level of the grammar   *)
(* that derives it.  Coercions that are not printed bind like their parts. *)
RECURSIVE Level(_)
Level(e) ==
  CASE is_atom(e) \/ Ascribed(e) -> 5
    [] e.op = "app" -> 4
    [] e.op = "bin" -> IF e.x = "*" THEN 3 ELSE 2
    [] e.op = "ann" -> 1
    [] e.op = "coerce" /\ ~Ascribed(e) -> Level(e.subs[1])
    [] OTHER -> 0

(* The part that is printed in the place of the i-th.                      *)
Operand(e, i) == IF e.op = "app" /\ i = 2 THEN skip_coercion(e.subs[2]) ELSE e.subs[i]

Parenthesised(e, i) ==
  LET part == Operand(e, i) IN
  CASE e.op \in {"app", "bin"} /\ i = 1 -> is_fun_exp(part)
    [] e.op = "app" /\ i = 2 -> ~(is_atom(part) \/ is_coercion(part))
    [] e.op = "bin" /\ i = 2 -> is_add_or_looser(part)
    [] OTHER -> FALSE

Taken(e, i) ==
  CASE e.op = "app" -> <<4, 5>>[i]
    [] e.op = "bin" -> Level(e) + (i - 1)
    [] e.op = "ann" -> 2
    [] OTHER -> 0

ReadType(t) == MetasOf(t) = {} \/ IsMeta(t)

RECURSIVE ReadsBack(_), AsRead(_)

(* The text is derived the way it was printed.                             *)
ReadsBack(e) ==
  /\ e.op \in {"fun", "ann"} => ReadType(e.t)
  /\ \A i \in DOMAIN e.subs :
       /\ e.op # "coerce" => Parenthesised(e, i) \/ Level(Operand(e, i)) >= Taken(e, i)
       /\ ReadsBack(e.subs[i])

(* What is read then.                                                      *)
AsRead(e) ==
  CASE Ascribed(e) -> Ann(e.subs[1], Any)
    [] e.op = "coerce" /\ ~Ascribed(e) -> AsRead(e.subs[1])
    [] OTHER -> [e EXCEPT !.t = IF IsMeta(e.t) THEN Any ELSE e.t,
                          !.subs = [i \in DOMAIN e.subs |-> AsRead(Operand(e, i))]]
=============================================================================
