----------------------------- MODULE Benchmark ------------------------------
(***************************************************************************)
(* The benchmark driver of TypeWhich (benchmark.rs): it runs a migration   *)
(* tool, here the command of Migrate, with a time limit, runs the program  *)
(* before and after migration, alone and in a context, and judges what the *)
(* tool did.  Each behaviour is one benchmark of the driver's loop.        *)
(***************************************************************************)
EXTENDS Migrate, Coercions

LOCAL M == INSTANCE GtlcMigration

CONSTANTS
  Contexts,         \* programs with a HOLE
  PipeRoom,         \* the nodes of the largest program whose text fits into a pipe
  KnownCompatible   \* pairs of a program and a more precise one that is as usable

VARIABLES
  child,    \* the tool's process
  verdict   \* the outcome's result

benchVars == <<vars, child, verdict>>

Hole == Var("HOLE")
NoContext == Var("")
NoProgram == Var("")

RECURSIVE Fill(_, _)
Fill(context, e) ==
  IF context = Hole THEN e
  ELSE [context EXCEPT !.subs = [i \in DOMAIN context.subs |-> Fill(context.subs[i], e)]]

Original == parse(input.source)

-----------------------------------------------------------------------------
(* What the driver measures of a program.                                  *)

Star(e) == IF e.op \in {"fun", "ann"} /\ e.t = Any THEN 1 ELSE 0
Counted(e) == IsLit(e) \/ e.op \in {"var", "app", "bin", "ann", "fun", "if"}

RECURSIVE Countable(_), count_stars(_)
Countable(e) == Counted(e) /\ \A i \in DOMAIN e.subs : Countable(e.subs[i])
count_stars(e) ==
  Star(e) + SumFunction([i \in DOMAIN e.subs |-> count_stars(e.subs[i])])

(* eval of a program: whether it ends without a coercion error; a      *)
(* construct that is not supported and a panic of the evaluator end the    *)
(* driver, and a program that does not end keeps it for ever.              *)
Ran(e) ==
  IF insert_coercions(e).t = Ill THEN "panic"
  ELSE LET r == eval(NoBinding, insert_coercions(e).exp, MaxDepth) IN
       CASE IsValue(r) -> "ok"
         [] r = Panic -> "panic"
         [] r = Divergent -> "hangs"
         [] OTHER -> "error"

RanCounted(e) == IF Countable(e) THEN Ran(e) ELSE "panic"

check_if_compatible(migrated, expected) ==
  expected # NoProgram /\ exp_lt(expected, migrated)

-----------------------------------------------------------------------------
(* The verdict on a migration.                                             *)

Judged(outcome, manually_verify) == [outcome |-> outcome, manually_verify |-> manually_verify]
Pending == Judged("pending", FALSE)

Alone(before, after, verify) ==
  CASE <<before, after>> = <<"ok", "error">> -> Judged("new runtime error", FALSE)
    [] <<before, after>> = <<"ok", "ok">> -> Judged("fully compatible", verify)
    [] <<before, after>> = <<"error", "error">> -> Judged("fully compatible", FALSE)
    [] <<before, after>> = <<"error", "ok">> -> Judged("error eliminated", FALSE)

InContext(runs, verify) ==
  CASE runs = <<"ok", "ok", "ok", "error">> -> Judged("restricted", FALSE)
    [] runs = <<"ok", "ok", "ok", "ok">> -> Judged("fully compatible", verify)
    [] OTHER -> Judged("disaster", FALSE)

Verdict(original, migrated, context, expected) ==
  LET runs == <<RanCounted(original), RanCounted(migrated)>>
              \o (IF context = NoContext THEN <<>>
                  ELSE <<Ran(Fill(context, original)), Ran(Fill(context, migrated))>>)
      ended == SelectSeq(runs, LAMBDA r : r \in {"panic", "hangs"})
      verify == /\ count_stars(original) # count_stars(migrated)
                /\ ~check_if_compatible(migrated, expected)
  IN CASE expected # NoProgram /\ ~check_if_compatible(original, expected) ->
            Judged("disaster", FALSE)
       [] OTHER ->
            CASE ended # <<>> -> Judged("driver " \o ended[1], FALSE)
              [] ended = <<>> /\ context = NoContext -> Alone(runs[1], runs[2], verify)
              [] OTHER -> InContext(runs, verify)

-----------------------------------------------------------------------------
BenchInit == Init /\ child = "running" /\ verdict = Pending

Tool == child = "running" /\ Next /\ UNCHANGED <<child, verdict>>

Ended == (Rejected \ {"endless"}) \cup {"printed", "printed otherwise"}

(* A mutant of ExitCode: an error that is no panic goes unnoticed.         *)
PanicCode == IF phase = "panic" THEN "failed" ELSE "succeeded"

ExitCode == IF phase \in Rejected THEN "failed" ELSE "succeeded"

RECURSIVE Nodes(_)
Nodes(e) == 1 + SumFunction([i \in DOMAIN e.subs |-> Nodes(e.subs[i])])

(* Nothing reads the tool's output while it runs: a tool that prints more  *)
(* than the pipe takes is stuck.                                           *)
Exit ==
  /\ child = "running"
  /\ phase \in Ended
  /\ phase \notin Rejected => Nodes(program) <= PipeRoom
  /\ child' = ExitCode
  /\ UNCHANGED <<vars, verdict>>

(* A mutant of TimedOut: what goes on forever is waited for.               *)
OnlyWhileWorking == phase \in Ended

TimedOut == TRUE

(* wait_timeout: however far the tool is, it is killed.                    *)
Timeout ==
  /\ child = "running"
  /\ TimedOut
  /\ child' = "killed"
  /\ UNCHANGED <<vars, verdict>>

Reject ==
  /\ child \in {"failed", "killed"}
  /\ verdict = Pending
  /\ verdict' = Judged("rejection", FALSE)
  /\ UNCHANGED <<vars, child>>

Assess ==
  /\ child = "succeeded"
  /\ phase = "printed"
  /\ verdict = Pending
  /\ \E context \in Contexts \cup {NoContext},
        expected \in {NoProgram} \cup {p[2] : p \in {q \in KnownCompatible : q[1] = input.source}} :
       verdict' = Verdict(Original, program, context, expected)
  /\ UNCHANGED <<vars, child>>

(* Text that Migrate does not follow.                                      *)
AssessOther ==
  /\ child = "succeeded"
  /\ phase = "printed otherwise"
  /\ verdict = Pending
  /\ verdict' = Judged("not followed", FALSE)
  /\ UNCHANGED <<vars, child>>

BenchNext == Tool \/ Exit \/ Timeout \/ Reject \/ Assess \/ AssessOther

(* The clock goes on, whether the tool does or not, and the driver does not *)
(* wait for anything once the tool has failed or has been killed.          *)
BenchSpec ==
  BenchInit /\ [][BenchNext]_benchVars /\ WF_benchVars(Timeout) /\ WF_benchVars(Reject)

-----------------------------------------------------------------------------
(* Properties.                                                             *)

Phases == {"started", "parsed", "generated", "constrained", "compiled", "closed",
           "inferred", "checked", "printed", "printed otherwise"} \cup Rejected
Outcomes == {"pending", "rejection", "disaster", "new runtime error", "fully compatible",
             "restricted", "error eliminated", "driver panic", "driver hangs", "not followed"}

(* The state of the command and of the driver, and that a tool that        *)
(* succeeded has printed a program.                                        *)
TypeOK ==
  /\ phase \in Phases /\ child \in {"running", "failed", "succeeded", "killed"}
  /\ verdict.outcome \in Outcomes /\ verdict.manually_verify \in BOOLEAN
  /\ child = "running" => verdict = Pending
  /\ child = "succeeded" => phase \in {"printed", "printed otherwise"}
  /\ cost \in 0..Cardinality(phi)

Unconstrained == input.annot = "ignore"

RECURSIVE Unconditional(_)
Unconditional(e) ==
  [e EXCEPT !.subs = [i \in DOMAIN e.subs |->
     IF e.op = "if" /\ i = 1 THEN LitBool(TRUE) ELSE Unconditional(e.subs[i])]]

(* Constraints always have a solution when annotations are ignored, and    *)
(* what a solution makes of the program has the type that was solved for   *)
(* and differs from the source in types and coercions only: cgen.rs        *)
(* against type_check.rs.                                                  *)
WellTyped ==
  /\ phase \notin {"unsat (precise type)", "unsat (context)", "type error"}
  /\ phase = "checked" =>
       tcheck(NoBinding, program) = typ /\ matches_roughly(program, fresh_types(input.source))

(* InsAndOuts puts no constraint on what a conditional tests; nothing else *)
(* it makes is ill-typed.                                                  *)
OnlyTestsIllTyped ==
  phase = "type error" => tcheck(NoBinding, Unconditional(program)) # Ill

InferenceSucceeds ==
  /\ Unconstrained /\ ~input.ins_and_outs => WellTyped
  /\ input.ins_and_outs => OnlyTestsIllTyped

(* A program of type t may be used by a context that knows nothing of it.  *)
RECURSIVE Usable(_)
Usable(t) ==
  CASE Ground(t) = "fun" -> t[2] = Any /\ Usable(t[3])
    [] Ground(t) = "list" -> Usable(t[2])
    [] Ground(t) = "pair" -> Usable(t[2]) /\ Usable(t[3])
    [] Ground(t) \in {"box", "vect"} -> t[2] = Any
    [] OTHER -> TRUE

(* With the optimizer and without --precise: the modes of the tool whose   *)
(* results are meant to be safe in every context.                          *)
SafeMode == input.context /\ input.optimizer

JustPrinted == phase = "printed" /\ child = "running"

(* cgen.rs:394: the final type has any wherever the context may put        *)
(* something in, although it was constrained by the places of another      *)
(* model's type.                                                           *)
ContextSafe == phase = "checked" /\ SafeMode /\ ~input.ins_and_outs => Usable(typ)

RECURSIVE Coercions_(_)
Coercions_(e) ==
  (IF e.op = "coerce" THEN 1 ELSE 0) + SumFunction([i \in DOMAIN e.subs |-> Coercions_(e.subs[i])])

(* The soft constraints that a model violates are the coercions that       *)
(* annotation leaves in the program, so that minimising one minimises the  *)
(* other.                                                                  *)
CostIsCoercions ==
  phase = "checked" /\ ~input.ins_and_outs => Coercions_(program) = cost

(* flow.rs:24-30 asserts that no rule makes a flow from a base type to a   *)
(* base type; none does, and the rounds do not end while pulling,          *)
(* factoring or splitting would still find a flow.                         *)
FlowsWellFormed ==
  phase \in {"closed", "endless"} =>
    /\ \A flow \in phi : is_base(flow[1]) /\ is_base(flow[2]) =>
         flow \in compile_portable(fresh_types(input.source)).flows
    /\ phase = "closed" => pull_and_factor(phi) = phi /\ split_fun(phi) = phi

(* What eval makes of a program in a context; coercion errors are alike.   *)
Behaviour(context, e) ==
  LET r == eval(NoBinding, insert_coercions(Fill(context, e)).exp, MaxDepth) IN
  IF IsValue(r) THEN answer(r) ELSE IF r \in {Panic, Divergent} THEN <<r.v>> ELSE <<"error">>

Alike(e1, e2) == \A context \in Contexts : Behaviour(context, e1) = Behaviour(context, e2)

(* The printed result of either inference gives the answer of the original *)
(* in every context, and fails or goes on for ever where it does.          *)
BehaviourPreserved ==
  JustPrinted /\ SafeMode /\ Countable(Original) => Alike(Original, program)

RECURSIVE Ascribes(_), Unannotated(_)
Ascribes(e) == e.op = "ann" \/ \E i \in DOMAIN e.subs : Ascribes(e.subs[i])
Unannotated(e) ==
  /\ e.op = "fun" => e.t \in {Unknown, Any}
  /\ \A i \in DOMAIN e.subs : Unannotated(e.subs[i])

(* Where no coercion is printed as an ascription, the result is a          *)
(* migration of the original for gtlc: it is well-typed there, has the     *)
(* same syntax, and no annotation that the tool is to keep is lost.        *)
MigrationUnlessAscribed ==
  /\ JustPrinted /\ ~input.ins_and_outs
  /\ input.annot = "hard" \/ Unannotated(Original)
  /\ Countable(Original) /\ ~Ascribes(Original) /\ ~Ascribes(program)
  /\ infer(Original) # Ill
  => M!check(Original, program) = "true"

(* The driver never counts a context-safe migration as a new error, an     *)
(* eliminated one or a restriction, and calls it fully compatible with     *)
(* every context that the original runs in.                                *)
SafeIsCompatible ==
  child = "succeeded" /\ SafeMode /\ Countable(Original) =>
    /\ verdict.outcome \notin {"new runtime error", "error eliminated", "restricted"}
    /\ verdict.outcome = "disaster" => \E context \in Contexts : Ran(Fill(context, Original)) # "ok"

(* precision.rs: a migration that the driver need not verify, because a    *)
(* version that behaves like the original is at least as precise, behaves  *)
(* like the original, however it was made.                                 *)
KnownIsCompatible ==
  JustPrinted =>
    \A pair \in KnownCompatible :
      /\ pair[1] = input.source
      /\ Alike(Original, pair[2])
      /\ check_if_compatible(program, pair[2])
      => Alike(Original, program)

(* The driver's time limit: no tool is waited for in vain, neither one that *)
(* never ends nor one that waits for its output to be read, and every tool *)
(* that fails or is killed gets its verdict and does not hold up the rest. *)
EveryToolJudged ==
  /\ <>(child # "running")
  /\ [](child \in {"failed", "killed"} => <>(verdict.outcome = "rejection"))
=============================================================================
