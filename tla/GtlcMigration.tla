--------------------------- MODULE GtlcMigration ----------------------------
(***************************************************************************)
(* migration.ml: when an expression is a migration of another, and how     *)
(* many single steps of precision lie between them.  Both first infer the  *)
(* types of both expressions, and a static error ends the command.         *)
(***************************************************************************)
EXTENDS Gtlc

None == -1       \* OCaml's None where a number may be returned

SameNode(left, right) ==
  /\ left.op = right.op /\ left.x = right.x /\ left.n = right.n
  /\ DOMAIN left.subs = DOMAIN right.subs

SyntaxLeq[p \in Exprs \X Exprs] ==
  LET left == p[1] right == p[2] IN
  /\ SameNode(left, right)
  /\ type_leq(left.t, right.t)
  /\ \A i \in DOMAIN left.subs : SyntaxLeq[<<left.subs[i], right.subs[i]>>]

syntax_leq(left, right) == SyntaxLeq[<<left, right>>]

(* What the command is-migration answers.                                  *)
check(original, migrated) ==
  CASE Ill \in {infer(original), infer(migrated)} -> "static-error"
    [] OTHER -> IF syntax_leq(original, migrated) THEN "true" ELSE "false"

(* A mutant of Plus: a part without a distance counts as nothing.          *)
PlusSome(m, n) == (IF m = None THEN 0 ELSE m) + (IF n = None THEN 0 ELSE n)

(* let* over two options.                                                  *)
Plus(m, n) == IF None \in {m, n} THEN None ELSE m + n

TypeDistance[p \in Types \X Types] ==
  LET less == p[1] more == p[2] IN
  CASE less = Any /\ IsArr(more) ->
         Plus(1, Plus(TypeDistance[<<Any, more[2]>>], TypeDistance[<<Any, more[3]>>]))
    [] IsArr(less) /\ IsArr(more) ->
         Plus(TypeDistance[<<less[2], more[2]>>], TypeDistance[<<less[3], more[3]>>])
    [] OTHER -> IF less = more THEN 0 ELSE IF less = Any THEN 1 ELSE None

(* The distances of the parts of an expression, of which it has at most three. *)
Total(parts) ==
  CASE Len(parts) = 0 -> 0
    [] Len(parts) = 1 -> parts[1]
    [] Len(parts) = 2 -> Plus(parts[1], parts[2])
    [] Len(parts) = 3 -> Plus(parts[1], Plus(parts[2], parts[3]))

SyntaxDistance[p \in Exprs \X Exprs] ==
  LET less == p[1] more == p[2] IN
  IF SameNode(less, more)
    THEN Plus(TypeDistance[<<less.t, more.t>>],
              Total([i \in DOMAIN less.subs |-> SyntaxDistance[<<less.subs[i], more.subs[i]>>]]))
    ELSE None

(* What precision-distance prints; None if the command fails.              *)
distance(less, more) ==
  IF Ill \in {infer(less), infer(more)} THEN None ELSE SyntaxDistance[<<less, more>>]
=============================================================================
