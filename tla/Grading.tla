------------------------------- MODULE Grading ------------------------------
(***************************************************************************)
(* The grader of gradual-type-migration, tests/verifier.ml: it validates   *)
(* its fixtures, runs the submitted tool on every challenge, checks what   *)
(* the tool emitted in several steps, and writes one reward.  The steps    *)
(* that run the reference GTLC executable are those of GtlcMigration.      *)
(***************************************************************************)
EXTENDS GtlcMigration

CONSTANTS
  Suites,          \* the contents cases.yaml may have: sequences of cases
  Submissions(_),  \* the programs that the submitted tool may emit for a case
  Unit             \* points of a full score; scores are multiples of 1 / Unit

VARIABLES
  suite,     \* the cases
  phase,     \* the step that run() takes next
  fixtures,  \* per prepared case, the outcomes of its original program
  migrated,  \* what the tool emitted for the current case
  graded,    \* challenges graded so far
  total,     \* their scores, in points
  reward,    \* reward.txt: points, and the number of challenges they are for
  manner     \* auxiliary: whether every submission so far was the expert's
             \* ("expert") or that or the original ("careful")

vars == <<suite, phase, fixtures, migrated, graded, total, reward, manner>>

Hole == Var("HOLE")
NoProgram == Hole
NoReward == <<>>
Done == phase = "done"

-----------------------------------------------------------------------------
(* Contexts and the commands of the trusted executable.                    *)

HasHole[context \in Exprs] ==
  context = Hole \/ \E i \in DOMAIN context.subs : HasHole[context.subs[i]]

has_hole(context) == HasHole[context]

FillContext[p \in Exprs \X Exprs] ==
  LET context == p[1] e == p[2] IN
  IF context = Hole THEN e
  ELSE [context EXCEPT !.subs =
          [i \in DOMAIN context.subs |-> FillContext[<<context.subs[i], e>>]]]

fill_context(context, e) == FillContext[<<context, e>>]

Filled(case, e) == {fill_context(case.contexts[k].source, e) : k \in DOMAIN case.contexts}

outcomes(case, e) ==
  [k \in DOMAIN case.contexts |-> run(fill_context(case.contexts[k].source, e))]

expected_outcomes(case) == [k \in DOMAIN case.contexts |-> case.contexts[k].expected]

validate_fixture(case) ==
  case.contexts # <<>> /\ \A k \in DOMAIN case.contexts : has_hole(case.contexts[k].source)

(* A mutant of Prepared: the expert's migration is not run.                *)
ExpertNotRun(case) ==
  /\ validate_fixture(case)
  /\ check(case.program, case.oracle) = "true"
  /\ outcomes(case, case.program) = expected_outcomes(case)

(* Both the original and the expert's migration must do what is recorded.  *)
Prepared(case) ==
  /\ validate_fixture(case)
  /\ check(case.program, case.oracle) = "true"
  /\ outcomes(case, case.program) = expected_outcomes(case)
  /\ outcomes(case, case.oracle) = expected_outcomes(case)

precision(expert_steps, migrated_steps) ==
  IF expert_steps = 0 THEN Unit ELSE (Unit * migrated_steps) \div expert_steps

score(expert_steps, migrated_steps) ==
  (Unit + precision(expert_steps, migrated_steps)) \div 2

(* What cases.yaml may record of a program in a context.                   *)
Outcomes ==
  {<<"function">>, <<"runtime-failure">>, <<"divergence">>} \cup ({"int", "bool"} \X Int)

Cases ==
  [program : Exprs, oracle : Exprs, contexts : Seq([source : Exprs, expected : Outcomes])]

Runnable(case, e) == e \in Exprs /\ Filled(case, e) \subseteq Exprs

(* A submitted tool is arbitrary; whatever it emits is not too high, alone *)
(* and in the contexts.  Half a full score is a number of points.          *)
ASSUME GradingAssumption ==
  /\ Unit \in Nat \ {0} /\ Unit % 2 = 0
  /\ Suites \subseteq Seq(Cases)
  /\ \A s \in Suites : \A k \in DOMAIN s :
       \A e \in Submissions(s[k]) \cup {s[k].program, s[k].oracle} : Runnable(s[k], e)

-----------------------------------------------------------------------------
(* The pipeline.                                                           *)

Init ==
  /\ suite \in Suites
  /\ phase = "install"
  /\ fixtures = <<>> /\ migrated = NoProgram
  /\ graded = 0 /\ total = 0
  /\ reward = NoReward
  /\ manner = "expert"

Case == suite[graded + 1]

(* A mutant of Abandon: the verifier ends without writing a reward.        *)
AbandonSilently ==
  phase' = "done"
  /\ UNCHANGED <<suite, fixtures, migrated, graded, total, reward, manner>>

(* An exception that run() catches, or a missing tool: a reward of zero.   *)
Abandon ==
  /\ phase' = "done" /\ reward' = <<0, 1>>
  /\ UNCHANGED <<suite, fixtures, migrated, graded, total, manner>>

GoOn(next) ==
  /\ phase' = next
  /\ UNCHANGED <<suite, fixtures, migrated, graded, total, reward, manner>>

(* The result of grade, an error being worth nothing, added by grade_all.  *)
Credit(points) ==
  /\ total' = total + points /\ graded' = graded + 1
  /\ phase' = "migrate" /\ migrated' = NoProgram
  /\ UNCHANGED <<suite, fixtures, reward, manner>>

(* install_trusted_gtlc may find another executable, and the tool may be   *)
(* missing.                                                                *)
Install == phase = "install" /\ (GoOn("prepare") \/ Abandon)

Prepare ==
  LET case == suite[Len(fixtures) + 1] IN
  /\ phase = "prepare" /\ Len(fixtures) < Len(suite)
  /\ \/ /\ Prepared(case)
        /\ fixtures' = Append(fixtures, outcomes(case, case.program))
        /\ UNCHANGED <<suite, phase, migrated, graded, total, reward, manner>>
     \/ ~Prepared(case) /\ Abandon

BeginGrading == phase = "prepare" /\ Len(fixtures) = Len(suite) /\ GoOn("migrate")

Manner(e) ==
  CASE e = Case.oracle -> manner
    [] e # Case.oracle /\ e = Case.program /\ manner # "other" -> "careful"
    [] OTHER -> "other"

(* The tool emits a program, or fails, or exceeds its time or its output.  *)
Migrate ==
  /\ phase = "migrate" /\ graded < Len(suite)
  /\ \E e \in Submissions(Case) :
       /\ migrated' = e /\ phase' = "type-check"
       /\ manner' = Manner(e)
       /\ UNCHANGED <<suite, fixtures, graded, total, reward>>

MigratorFails ==
  /\ phase = "migrate" /\ graded < Len(suite)
  /\ total' = total /\ graded' = graded + 1 /\ manner' = "other"
  /\ UNCHANGED <<suite, phase, fixtures, migrated, reward>>

(* Hard_reward_zero.                                                       *)
TypeCheck ==
  /\ phase = "type-check"
  /\ IF infer(migrated) = Ill THEN Abandon ELSE GoOn("is-migration")

IsMigration ==
  /\ phase = "is-migration"
  /\ IF check(Case.program, migrated) = "true" THEN GoOn("contexts") ELSE Credit(0)

RunContexts ==
  /\ phase = "contexts"
  /\ IF outcomes(Case, migrated) = fixtures[graded + 1] THEN GoOn("expert") ELSE Credit(0)

(* A mutant of AtMostExpert: nobody compares with the expert.              *)
Anything(e) == TRUE

AtMostExpert(e) == check(e, Case.oracle) = "true"

CompareWithExpert ==
  /\ phase = "expert"
  /\ IF AtMostExpert(migrated) THEN GoOn("score") ELSE Abandon

PrecisionGrade ==
  LET expert_steps == distance(Case.program, Case.oracle)
      migrated_steps == distance(Case.program, migrated)
  IN /\ phase = "score"
     /\ IF None \in {expert_steps, migrated_steps} THEN Abandon
        ELSE Credit(score(expert_steps, migrated_steps))

(* No fixtures at all are worth nothing.                                   *)
WriteReward ==
  /\ phase = "migrate" /\ graded = Len(suite)
  /\ phase' = "done"
  /\ reward' = IF suite = <<>> THEN <<0, 1>> ELSE <<total, Len(suite)>>
  /\ UNCHANGED <<suite, fixtures, migrated, graded, total, manner>>

Next ==
  \/ Install \/ Prepare \/ BeginGrading
  \/ Migrate \/ MigratorFails \/ TypeCheck \/ IsMigration \/ RunContexts
  \/ CompareWithExpert \/ PrecisionGrade \/ WriteReward

Spec == Init /\ [][Next]_vars

-----------------------------------------------------------------------------
(* Properties.                                                             *)

(* The state has its type: the reward is written once the verifier is      *)
(* done, and fixtures are prepared and challenges graded in order.         *)
TypeOK ==
  /\ phase \in {"install", "prepare", "migrate", "type-check", "is-migration",
               "contexts", "expert", "score", "done"}
  /\ Len(fixtures) <= Len(suite) /\ graded \in 0..Len(suite) /\ total \in Nat
  /\ manner \in {"expert", "careful", "other"}
  /\ (reward # NoReward) = Done
  /\ phase \notin {"install", "prepare", "done"} => Len(fixtures) = Len(suite)

(* A value of a type, as guarded casts leave it.                           *)
HasType(value, t) ==
  CASE t = Any -> value.v = "tagged" /\ value.of.v \in
                    (IF value.tag = "fun" THEN {"closure", "proxy"} ELSE {value.tag})
    [] IsArr(t) -> value.v \in {"closure", "proxy"}
    [] OTHER -> value.v = Ground(t)

Sound(e) ==
  LET t == infer(e) r == Result(e) IN
  t # Ill => /\ elaborate(NoTypes, e).t = t
             /\ IF IsValue(r) THEN HasType(r, t)
                ELSE r.v = "failed" => r.why = "cast"

(* semantics.ml: the type checker and the elaborator agree, and a          *)
(* well-typed program returns a value of its type, diverges, or fails in a *)
(* guarded cast: the evaluator's other run-time errors, its assertion and  *)
(* its lookups never fail.  For the original and everything a tool may     *)
(* emit, alone and in every context.                                       *)
OnlyCastsFail ==
  /\ phase = "type-check" =>
       \A e \in {migrated} \cup Filled(Case, migrated) : Sound(e)
  /\ phase = "prepare" =>
       \A k \in DOMAIN suite : \A e \in Filled(suite[k], suite[k].program) : Sound(e)

(* What a subexpression sees of its environment.                           *)
Under(env, e, k) ==
  CASE e.op = "fun" -> Extend(env, e.x, e.t)
    [] e.op = "let" /\ k = 2 -> Extend(env, e.x, type_of(env, e.subs[1]))
    [] OTHER -> env

(* No conditional of less has a more precise type than it has in more.     *)
SteadyJoins[p \in (TypeEnvs \X Exprs) \X (TypeEnvs \X Exprs)] ==
  LET less_env == p[1][1] less == p[1][2] more_env == p[2][1] more == p[2][2] IN
  /\ less.op = "if" => type_leq(type_of(less_env, less), type_of(more_env, more))
  /\ \A k \in DOMAIN less.subs \cap DOMAIN more.subs :
       SteadyJoins[<<<<Under(less_env, less, k), less.subs[k]>>,
                     <<Under(more_env, more, k), more.subs[k]>>>>]

(* The original and what was emitted for it, in a context of the case.     *)
InContext(k) == <<fill_context(Case.contexts[k].source, Case.program),
                  fill_context(Case.contexts[k].source, migrated)>>

Steady(pair) ==
  infer(pair[2]) # Ill /\ SteadyJoins[<<<<NoTypes, pair[1]>>, <<NoTypes, pair[2]>>>>]

(* semantics.ml: where a migration type-checks in a context, so does the   *)
(* original, at a less precise type; the search for migrations rests on    *)
(* this.  Not so for a conditional whose branches become incompatible:     *)
(* branches of types any and int are cast to int, but of bool and int to any. *)
StaticGuarantee ==
  phase = "contexts" =>
    \A k \in DOMAIN Case.contexts : Steady(InContext(k)) =>
      LET less == infer(InContext(k)[1]) more == infer(InContext(k)[2]) IN
      less # Ill /\ type_leq(less, more)

(* And there a migration does what the original does or fails a cast.      *)
GradualGuarantee ==
  phase = "contexts" =>
    \A k \in DOMAIN Case.contexts : Steady(InContext(k)) =>
      run(InContext(k)[2]) \in {run(InContext(k)[1]), <<"runtime-failure">>}

(* migration.ml: a distance exists exactly between an expression and its   *)
(* migrations, and steps add up along a chain of migrations, so that the   *)
(* fraction of the expert's steps is what remains to be done.              *)
PrecisionIsDistance ==
  phase = "is-migration" =>
    LET steps(less, more) == distance(less, more) IN
    /\ (check(Case.program, migrated) = "true") = (steps(Case.program, migrated) # None)
    /\ (check(migrated, Case.oracle) = "true") = (steps(migrated, Case.oracle) # None)
    /\ None \notin {steps(Case.program, migrated), steps(migrated, Case.oracle)} =>
         steps(Case.program, Case.oracle)
           = steps(Case.program, migrated) + steps(migrated, Case.oracle)

(* instruction.md, of the expert's migration: there may be several that    *)
(* are equally precise, and a tool may emit any of them.                   *)
EquallyPreciseIsGraded ==
  [][phase = "expert" /\ distance(Case.program, migrated) = distance(Case.program, Case.oracle)
       => phase' = "score"]_vars

(* instruction.md: the expert's migrations earn a full reward, and a tool  *)
(* that emits them or leaves a program as it is earns at least half of it; *)
(* nothing it can emit makes the verifier give up.  Holds for every suite  *)
(* whose fixtures the verifier accepts.                                    *)
CarefulToolsEarn ==
  Done /\ suite # <<>> /\ Len(fixtures) = Len(suite) =>
    /\ manner = "expert" => reward = <<Unit * Len(suite), Len(suite)>>
    /\ manner = "careful" => 2 * reward[1] >= Unit * reward[2]
=============================================================================
