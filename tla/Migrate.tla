------------------------------ MODULE Migrate -------------------------------
(***************************************************************************)
(* The command migrate of TypeWhich (main.rs, typeinf_options): a program  *)
(* is parsed, constraints are generated and solved twice, the coercions    *)
(* are decorated, the result is type-checked and printed.  With            *)
(* ins_and_outs the flows are closed and solved instead.                   *)
(***************************************************************************)
EXTENDS TypeSolver, InsAndOuts, Printing

CONSTANT Inputs  \* source programs with the options of the command

VARIABLES
  input,     \* what the command was given
  phase,     \* how far it is
  program,   \* the program as it is now
  typ,       \* its type
  phi,       \* the constraints asserted so far, or the flows
  precise,   \* the type in the first model
  cost       \* how many soft constraints the last model violates

vars == <<input, phase, program, typ, phi, precise, cost>>

Init ==
  /\ input \in Inputs
  /\ phase = "started"
  /\ program = input.source
  /\ typ = Unknown
  /\ phi = {}
  /\ precise = Unknown
  /\ cost = 0

Rejected == {"unsat (precise type)", "unsat (context)", "panic", "endless", "type error"}
Goes(from, to) == phase = from /\ phase' = to

(* A mutant of Parse: annotations are ignored, hard or not.                *)
ParseUnread ==
  /\ Goes("started", "parsed")
  /\ program' = fresh_types(program)
  /\ UNCHANGED <<input, typ, phi, precise, cost>>

(* Annotations are ignored unless they are hard; ins_and_outs never reads them. *)
Parse ==
  /\ Goes("started", "parsed")
  /\ program' = IF input.annot = "ignore" \/ input.ins_and_outs
                  THEN fresh_types(program) ELSE parse(program)
  /\ UNCHANGED <<input, typ, phi, precise, cost>>

-----------------------------------------------------------------------------
(* typeinf_options.                                                        *)

Generate ==
  /\ ~input.ins_and_outs
  /\ Goes("parsed", IF input.context THEN "generated" ELSE "constrained")
  /\ LET g == cgen(NoBinding, program, <<>>, input.rigid_vars) IN
     /\ program' = g.exp
     /\ typ' = g.t
     /\ phi' = g.phi
  /\ UNCHANGED <<input, precise, cost>>

(* A mutant of SafeContext: the precise type is kept.                      *)
AnyContext(model) == {}

(* What makes the result safe in every context, given the precise type.    *)
SafeContext(model) == negative_any(model, typ)

SolvePrecise ==
  /\ phase = "generated"
  /\ LET models == Models(phi, input.optimizer) IN
     \/ \E model \in models :
          /\ phase' = "constrained"
          /\ phi' = phi \cup SafeContext(model)
          /\ precise' = annotate_typ(model, typ)
     \/ /\ models = {}
        /\ phase' = "unsat (precise type)"
        /\ UNCHANGED <<phi, precise>>
  /\ UNCHANGED <<input, program, typ, cost>>

SolveFinal ==
  /\ phase = "constrained"
  /\ LET models == Models(phi, input.optimizer) IN
     \/ \E model \in models :
          /\ phase' = "inferred"
          /\ program' = annotate(model, program)
          /\ typ' = annotate_typ(model, typ)
          /\ cost' = Violations(model, phi)
     \/ /\ models = {}
        /\ phase' = "unsat (context)"
        /\ UNCHANGED <<program, typ, cost>>
  /\ UNCHANGED <<input, phi, precise>>

-----------------------------------------------------------------------------
(* typeinf_portable.                                                       *)

Compile ==
  /\ phase = "parsed"
  /\ input.ins_and_outs
  /\ LET compiled == compile_portable(program) IN
     \/ /\ compiled.t # Ill
        /\ phase' = "compiled"
        /\ program' = compiled.exp
        /\ typ' = compiled.t
        /\ phi' = compiled.flows
     \/ /\ compiled.t = Ill
        /\ phase' = "panic"
        /\ UNCHANGED <<program, typ, phi>>
  /\ UNCHANGED <<input, precise, cost>>

Close ==
  /\ phase = "compiled"
  /\ LET closure == compute_closure(phi) IN
     /\ phase' = IF Endless(closure) THEN "endless" ELSE "closed"
     /\ phi' = closure
  /\ UNCHANGED <<input, program, typ, precise, cost>>

Decorate ==
  /\ Goes("closed", "inferred")
  /\ LET solution == solve_closure(phi) IN
     /\ program' = to_exp(decorate(program, solution))
     /\ typ' = to_typ(decorate_typ(typ, solution))
  /\ UNCHANGED <<input, phi, precise, cost>>

-----------------------------------------------------------------------------
TypeCheck ==
  /\ phase = "inferred"
  /\ phase' = IF tcheck(NoBinding, program) = Ill THEN "type error" ELSE "checked"
  /\ UNCHANGED <<input, program, typ, phi, precise, cost>>

(* What is printed of a GTLC program, if that reads back.                  *)
PrintText ==
  /\ Goes("checked", "printed")
  /\ InGtlc(program) /\ ReadsBack(program)
  /\ program' = AsRead(program)
  /\ UNCHANGED <<input, typ, phi, precise, cost>>

PrintOther ==
  /\ Goes("checked", "printed otherwise")
  /\ ~(InGtlc(program) /\ ReadsBack(program))
  /\ UNCHANGED <<input, program, typ, phi, precise, cost>>

Next == \/ Parse \/ Generate \/ SolvePrecise \/ SolveFinal
        \/ Compile \/ Close \/ Decorate
        \/ TypeCheck \/ PrintText \/ PrintOther

Spec == Init /\ [][Next]_vars
=============================================================================
