# A verification project for plbench

plbench is a benchmark of programming-language tasks.  Each directory of `src/tasks` holds what
a task gives to its solver (`environment/`), a reference solution (`solution/`) and a grader
(`tests/`).  There is no single running program: the system is the set of reference solutions
and reference interpreters, and it is their logic that this project models.

## 1. Inventory

| Component | State | Operations | What is hard | What makes it correct |
|---|---|---|---|---|
| Simple actors, `tasks/simple_actors/solution/actor.py` | per process: registry of owned actors, listener, the call being served; per call: connection, reply | create, call, terminate, serve loop, exit finalizer | several processes, threads and connections interleave; processes are killed; ports are reused; calls may wait for one another | a call runs at most once and its answer says whether it ran; terminated actors stay dead with their tree; every call ends and every actor exits with its program |
| ILVM interpreters, `tasks/ilvm-interpreter/solution/ilvm` (Rust) and `tasks/ilvm-self-hosting-compiler/tests/ilvm_ref` (OCaml) | heap, registers, free list, allocated blocks | malloc, free, load, store, print, print_str, arithmetic, goto, exit | long legal sequences of malloc and free; stale block tables; boundaries of the heap and of 32-bit words | live blocks never overlap; malloc fails only when nothing fits; the runtime errors of Language.md are detected; arguments can be read back |
| Memory-safe C runtime, `tasks/chibicc-memory-safe/solution/runtime.c` and the compiler patch | objects, capabilities, frames, heap roots | register, narrow, add, access, leave_frame, malloc, realloc, free, collect_garbage | a collection between any two steps; addresses reused by frames and blocks; capabilities kept past their object | no reachable object is collected; an access through a capability stays in the object it was made for |
| Gradual types: `tasks/gradual-type-migration/environment/gtlc` (calculus and migration), `tests/verifier.ml` | grading pipeline | consistency, casts, grade | failing steps of the grading pipeline | migrations only make types more precise and keep the program's result; grades follow from the pipeline's steps |
| TypeWhich, `tasks/gradual-type-migration/solution/typewhich` | a program with coercions, its constraints, the solver; the flows of InsAndOuts | constraints, two rounds of solving, annotation; compile, close, decorate; type check, print | the solver may return any best model, and the second round another kind of type than the first; rounds that stop early or never; text that is read again | inference succeeds and its result is well-typed; it can be used by every context and behaves like the original |
| TypeWhich's benchmark driver, `benchmark.rs`, with its evaluator and precision order | the tool's process, outcomes | run a tool with a time limit, run both programs alone and in a context, judge | a tool that never ends or is never read; evaluation with accumulated coercions | every tool gets a verdict; safe results are called compatible |
| MiniScheme interpreters, `tasks/scheme-semantics-engineering/environment/minischeme-reference`, `tasks/ilvm-self-hosting-compiler/tests/minischeme_ref`, `tasks/scheme-typeinf/environment/minischeme` | environments, store | evaluation, set!, letrec | use before initialisation, aliasing of mutated variables | agreement of the copies |
| Scheme to ILVM compiler, `tasks/ilvm-self-hosting-compiler/solution/compile_scheme_to_ilvm.py` | value stack, call stack, closures in generated code | closure conversion, calls, tail calls | stack discipline of generated code | generated code keeps the stacks balanced |
| Lean developments, `tasks/lean_cbv_lc_termination`, `tasks/scheme-semantics-engineering` example | - | - | - | already machine-checked proofs |
| Graders (`tests/test_suite.py`, `verifier.py`, ...), `tasks/build_data_race_detector`, `tasks/caml_light_checked_exceptions`, `unvetted_tasks`, Docker environments, `scripts` | files of a run | run, compare, score | little beyond running other programs | - |

The components do not call one another, apart from the ones listed together: a solution is run
by its grader, and the OCaml interpreters are compared with solutions.

## 2. Plan

Modules are written from the components where most goes wrong to those where least does:

1. **Actors** (done): the protocol between processes, its abstract promise, the proofs of its safety
   and of the refinement.
2. **ILVM** (done): both interpreters over one set of word and allocator operators, an abstract
   allocator, and the two run in lockstep.  Proved: the allocator, its refinement, that the
   interpreters agree, and that the arguments stay printable: every property the runs check.
3. **Memory-safe C** (done, every checked property proved): next the relocation of initialised globals
   and the string functions.
4. **Gradual types** (done): the calculus, the order of migrations and the verifier, proved as far as
   section 6 says; TypeWhich's inference with the solver as a choice among best models, InsAndOuts, the printed text, and the
   benchmark driver over both.  The task's order and semantics (`GtlcMigration`) judge what TypeWhich prints.
5. **MiniScheme**: one machine per interpreter (store, environments, `set!`, `letrec`) and a
   lockstep module like `IlvmPair`; the type checker of `scheme-typeinf` against its declarative rules.
6. **Scheme to ILVM compiler**: the stack discipline of the generated code as a machine over
   `IlvmProgram`'s instructions.

Abstract specifications worth stating: `ActorRpc` and `IlvmAlloc` (done), a garbage-collected store
without addresses for `SafeHeap`.
Theorems worth proving: those of section 6, next TypeWhich, once its operators are recursive functions
and not RECURSIVE operators, as those of `Gtlc` have become.

## 3. Modules

Every module's header says which file it follows; `PROJECT.json` maps each definition to lines.
Operators commented "mutant" are plausible slips of the code, not part of any specification: a run
with one of them in the place of its neighbour violates the property it is listed with.

### Actors: `Actors`, `ActorRpc`, `ActorsProofs`, `MCActors`

A process is a row of functions: `status` (`init` while its constructor runs, `serving` in accept,
`busy` in a method, `closing` after a termination request, `exiting` in the exit finalizer, `dead`),
`addr` its listener, `owned` the dictionary `_owned_processes`, `todo` what the finalizer has left.
An operation user code starts (`req`, `pc`, `reply`) is one connection: `spawned` (in the executor or
waiting for a thread), `queued` in the accept backlog, `served`, `closed` (the request of a
termination was answered), `joining` (`process.join`), `done`; `lost` is a connection whose caller is
gone. `execs` counts how often a method was started; it is auxiliary.

| Code | Actions |
|---|---|
| `create`, `_actor_process_main` up to the startup message | `Create`, `ConstructorOk`, `ConstructorFail`, `CreateReturn`, `CreateRaise` |
| `_call` behind `asyncio.to_thread` | `Start`, `Connect`, `ConnectRefused`, `SerializeFails` |
| the serve loop | `AcceptCall`, `RejectCall`, `AcceptBroken`, `AcceptTerminate`, `Respond`, `RespondToDead` |
| `terminate` | `Start`, `Connect`, `TerminatePop`, `TerminateJoined` |
| listener closed, exit finalizer, multiprocessing's own exit function | `CloseListener`, `FinalizerSend`, `FinalizerSkip`, `FinalizerNext`, `Exit`, `MainExit` |
| a killed process | `Crash` |

User code is arbitrary within `MayReach`, which pairs may create or use one another: `Mutual` lets
everybody use everybody, `Layered` only downwards.

### ILVM: `IlvmWords`, `IlvmProgram`, `IlvmAlloc`, `IlvmRust`, `IlvmRef`, `IlvmPair`, `IlvmProofs`, `IlvmPairProofs`

`IlvmWords` holds the pure part, for words of any width (`WordBits`, `ByteBits`): wraparound,
truncated division, shifts, packed strings, and both free-list algorithms (first fit; insertion with
joining in Rust, sort and merge in OCaml; `Sorting` is any order by bases, since the provers know
neither `SortSeq` nor its permutations). The recursive functions among them take one argument,
a pair where the code has two, since the provers know functions of one argument only. `IlvmRust` and `IlvmRef` are the two machines: registers,
heap, free list, allocated blocks, output, and one action per instruction, with the error branches
in their order. The program is not fixed: in every state any instruction with operands from small
sets may come next, of the kinds in `Uses`, so a run covers all programs of such instructions.
`IlvmPair` performs each instruction on both machines; `Agreement` compares registers, heap, output
and verdict. `Rules` names programs that Language.md allows (`"free"`: only live blocks
are freed; `"store"`: stores go to owned words). `IlvmAlloc` is what an allocator promises:
`malloc` grants words that are in no live block, and fails only if no gap is long enough.

### Memory-safe C: `SafeHeap`, `SafeHeapProofs`, `SafeHeapGcProofs`, `FiniteSums`, `MCSafeHeap`

Memory is an array of word cells: one global object, libc's heap, and the stack, which grows
downwards. `objects`, `capabilities`, `next_object_id` and `live_heap_bytes` are the runtime's
variables. `frames` and `sp` are the generated code's: a frame has one-word locals, perhaps a VLA,
and below them the temporaries that chibicc pushes while it evaluates an expression; all operands
are popped into registers before the runtime is called, which is why the collector sees exactly the
cells from `sp` on. Freed and dropped cells keep their contents, so that the collector may meet
stale words, as it does in reality. `init` (cells written since they were allocated), `issued` and
`ended` are auxiliary. A token is new whenever one is issued; a collision of 48 random bits with a
swept token is not modelled. A runtime error ends the program (`halt`).

| Code | Actions |
|---|---|
| prologue, epilogue with `__safe_leave_frame` | `Enter`, `Leave` |
| address of a declared object, `__safe_from_raw(_global)` | `AddressOfGlobal`, `AddressOfLocal`, `DeclareVla`, `AddressOfVla` |
| `__safe_narrow`, `__safe_add` | `Narrow`, `Add` |
| `__safe_access` in loads, stores, `memcpy`, `memmove` | `Load`, `Store`, `Memcpy` |
| `pointer_cursor` in casts, comparisons, differences | `ToInteger`, `Compare` |
| `malloc`, `calloc`, `realloc`, `free`, `__safe_collect` | `Malloc`, `Calloc`, `Realloc`, `Free`, `Collect` |

`Marked` is the least set closed under the tokens in marked blocks, which is what the recursion of
`scan_capabilities` and `mark_object` computes; its termination rests on the `marked` flag.

### Gradual types: `Gtlc`, `GtlcMigration`, `Grading`, `GtlcProofs`, `GradingProofs`, `MCGrading`

`Gtlc` is the calculus as functions on trees: `type_of`, `elaborate` (a tree with casts), `evaluate`,
`cast` and `observe`, one operator per function of `semantics.ml`. A computation returns a value, or a
record that says how it failed. Evaluation is big-step; nested deeper than `MaxDepth` it counts as
divergent, which stands for the time limit of `command.ml`. Operands of arithmetic are evaluated from
the right, as OCaml does; which of two failures comes first would otherwise be lost. OCaml's stack and
wraparound of 63-bit integers are not modelled. What the code computes by recursion over types and
expressions is a recursive function here, and not a RECURSIVE operator, so that it can be proved about;
a function needs a domain, and so `Types`, `Exprs` and `Values` are the trees of bounded height
(`MaxTypeHeight`, `MaxHeight`) over `Names`. A result that would be higher is refused (`Arrow`), or
counts as divergent (`New`). `elaborate` is defined on what `infer` accepts (`Typable`), as `run` asks it
first. `GtlcMigration` is the precision order (`check`) and
the number of steps between two expressions (`distance`).

`Grading` is the verifier, whose trusted executable's commands are those operators. `fixtures` are the
outcomes recorded while preparing, `migrated` what the tool emitted, `graded` and `total` where
`grade_all` stands, `reward` the file. The tool is arbitrary: `Submissions` are the programs that it may emit for
a case; in the runs those that differ from the original in decorations, the expert's, and some others. `manner`, which remembers what
the tool did so far, is auxiliary.

| Code | Actions |
|---|---|
| `install_trusted_gtlc`, `prepare_fixture` | `Install`, `Prepare`, `BeginGrading` |
| `run_migrator` | `Migrate`, `MigratorFails` (a failure, a timeout, too much output) |
| `grade` | `TypeCheck`, `IsMigration`, `RunContexts`, `CompareWithExpert`, `PrecisionGrade` |
| `run`, `write_reward` | `WriteReward`; `Abandon`, part of the steps that raise |

### TypeWhich: `TypeWhich`, `TypeSolver`, `InsAndOuts`, `Printing`, `Migrate`, `Coercions`, `Benchmark`, `MCBenchmark`

Programs are the trees of `Gtlc` with more constructors. `TypeWhich` has the pure part: what the parser
and `fresh_types` make of types, the rule of every construct (`RuleOf`: the types its parts are coerced
to, further constraints, the type of the result), `cgen` that walks the program by these rules and puts
coercions around parts and results, `annotate`, and the type checker. Metavariables are named by their
places in the program. `TypeSolver` stands for Z3: `Models` are the assignments of finite types that
satisfy the constraints, of least `Violations` with the optimizer; those that leave a metavariable
free fill it with any of `Fillers`. The search (`Search`) is unification with the choices that
constraints offer, and every assignment it returns is tested against their meaning (`Holds`).
`negative_any` is a set of constraints on places of the type, reached by accessors as in the code.
`InsAndOuts` compiles a program to flows, closes them in the code's rounds and solves them.
`Printing` says what a reader gets from the text: whether the grammar takes each operand where it is
printed (`ReadsBack`), and which program it then reads (`AsRead`).

| Code | Actions |
|---|---|
| `migrate_main`, `fresh_types`, `parse` | `Parse` |
| `typeinf_options` | `Generate`, `SolvePrecise`, `SolveFinal` |
| `typeinf_portable` | `Compile`, `Close`, `Decorate` |
| `tcheck`, the printed result | `TypeCheck`, `PrintText`; `PrintOther` when the text is not GTLC's or does not read back |
| `benchmark_one`: the tool's process | `Tool` (a step of `Migrate`), `Exit`, `Timeout` |
| `benchmark_one`: the verdict | `Reject`, `Assess`, `AssessOther` |

`Coercions` is the evaluator that the driver uses: coercions inserted by type, closures that carry the
coercions wrapped around them, and the driver's own precision order. An unsatisfiable set of
constraints, a failed assertion, an unsupported construct and a closure that grows for ever are ends of
the command of their own (`Rejected`).

## 4. Runs

| Run | What it shows | Bounds, and why they do |
|---|---|---|
| `actors_safe` | calls are accounted for; terminated actors stay dead with their tree, and only stopped ones are joined; `ActorRpc` is implemented | a program and two actors, three operations: one termination, one call that races it, one more from the actor itself; two processes can own, call and terminate each other |
| `actors_live` | every operation ends and every process exits after Main | two threads per executor, one place in each queue: both limits are met by two operations |
| `actors_crash` | programs that only call downwards never wait in a circle and never stop early (deadlock checked); a kill at any moment loses no registration and leaves no caller waiting | one kill, one thread; what calls report after a kill is proved for any number of kills (6) |
| `actors_port_reuse` | **violated**: a reference to a terminated actor reaches a later actor on the same port | one port is enough |
| `ilvm_pair` | the free list is the complement of the live blocks, the promise of `IlvmAlloc`, agreement of the interpreters | four words allow three blocks with gaps on both sides; 4-bit registers reach every overflow, the least word and -1 are among the immediates |
| `ilvm_pair_args` | arguments survive allocation; all instructions agree | strings of lengths around a word's end |
| `ilvm_double_free` | **violated**: see 7 | the shortest program |
| `safe_heap` | what the program reaches stays usable, `realloc` keeps the old block, the byte count is exact | chains of two blocks below a local, three heap cells so that blocks are placed in the gap of a swept one, threshold and memory both met |
| `safe_frames` | the same with calls and VLAs; pointers to left frames stay dead; authority stays in its object, objects are disjoint | one callee at a time below main, with one or two locals or a VLA; four objects, two tokens, so a frame is entered again where another was |
| `grading` | well-typed programs fail in casts only, migrations type-check at more precise types and keep what programs do, distances add up, and a tool that emits the expert's or the original programs is never worth nothing | twelve challenges, ten of them from cases.yaml, each with every decoration by types of up to three arrows; suites of two, so that one challenge's end affects another; five broken fixtures |
| `grading_expert` | **violated**: see 7 | the same |
| `migrate` | inference succeeds and is well-typed; the result is usable by every context; soft constraints are coercions; flows are well-formed; text that is read again is a migration and behaves like the original in every context; the driver judges so; no tool is waited for in vain and every one that fails or is killed is rejected | 721 pairs of program and options: every body of one or two operators over `x`, `1` and `true`, alone and applied, the suites of the task and of TypeWhich's tests, one program or two for every construct, annotated programs in hard mode; seven contexts; every solution the solver may choose |

Between them the runs use every action. Deadlock is not checked where the system may stop: runs in
which user code may make actors wait for one another, runs that end with a verdict, a halted program.
The bounds in guards are `MaxCrash`, `Op` (each operation is used once), `MaxObjects`, `Token`,
`MaxLocals`, `MaxSize`; `MaxDepth` (60 in `grading`: the state graph
is the same at 25, so what is deeper diverges; 30 in `migrate`), `MaxTypeHeight` and `MaxHeight` (6 and 12, more than
any program of the suites reaches in any context), `Names`, `Values` (all that nest less deep than 8; no program's values nest deeper before it has diverged),
`Suites`, `Submissions` and `Unit` (120 points make every score exact) in `Grading`;
`MaxNesting` (4: the state graph is the same at 2 and at 6),
`Fillers` (a type that could still be moved to any, and any) and `PipeRoom` (12 nodes, so that some results of the suite fill the pipe) in `Benchmark`; and in the ILVM modules the sets of operands and the length of the output.

## 5. Fairness

`Actors` and `Benchmark` have liveness properties. `FairSpec` is weakly fair, per process, for the serve loop,
the response, the finalizer and the two ends of creation, and per operation for the thread that
carries it: the operating system schedules every process and thread, and each of these steps stays
enabled until it is taken. A constructor and a method that can return are assumed to do so. Nothing
is assumed of user code starting operations, of Main ending or of processes being killed. Two actors
that call each other wait for ever; that is the program's doing, so the liveness properties except
behaviours that end in such a circle (`WaitCycle`), and `NoWaitCycle` shows that a layered program
has none. `BenchSpec` is weakly fair for `Timeout`, since `wait_timeout` returns after thirty seconds
whatever the tool does, and for `Reject`, which waits for nothing. Nothing is assumed of the tool; the driver's
own evaluations have no time limit, and one that does not end is the outcome `driver hangs`.

## 6. Proofs

`ActorsProofs`, for every number of processes, ports and operations, under `ActorsAssumption`:

- `TypeCorrect`: `Spec => []TypeOK`. Inductive with `TypeInv`, which adds that references are
  held only to actors with an address and that a connection is served by the process that accepted it.
- `CallsAreAccountedFor`: `Spec => []CallsAccountedFor`. `CallInv` adds what `pc` says of `execs`
  and `reply`: before a connection is served nothing was executed, while it is served exactly one
  execution has no answer, and an answer is final. Without these a second `AcceptCall` of the same
  connection could not be excluded.
- `TerminatedForGood`: `PortReuse = FALSE /\ Spec => []TerminatedStaysDead`. `StopInv` says that
  the listener of a target is gone for good once a termination of it has returned, and that calls
  started later are directed at such targets. The hypothesis is needed: `actors_port_reuse` is the
  counterexample without it.

Its second part is about the family of processes, with any number of killed ones:

- `TerminatedTree`: `Spec => []TerminateTakesTree`, also when ports are reused. `FamilyInv` says what
  the parent and its dictionary know of a process, and that a process which was not killed ends after
  its children (`Ending`); then the set of dead processes is closed under children, and the tree of a
  dead one is part of it. `JoinInv` says that a termination joins a child of its caller.
- `ServingActorsRegistered`: `Spec => []ServingIsRegistered`, and `ExitJoinsStopped`:
  `Spec => []JoinsOnlyStopped`, if no port is given out twice. `RegisteredInv` has to speak of every
  process that is not on its way out, not only of those that serve, and `FinalInv` of the finalizer's
  own requests: each arrives at the actor it was made for. With reused ports the latter is not so,
  since a request can end at a stranger.
- `NobodyWaitsInCircles`: `Spec => []NoWaitCycle`, if no port is reused and every set of processes has
  one that may reach none of the others (`MayReach` is acyclic; `Layered` is). `WaitInv`: whom a process
  waits for it may reach.  A set of processes that wait for one another would have no such member.

Its third part, `CallersSeeRpc`: `Spec => ImplementsRpc` if no process is killed and no port reused,
the instance of `actors_safe` at every size. `ServeInv` is what the mapping needs: a connection that has not
ended belongs to a caller still in the method that opened it, and an accepted one is the call
its actor is running. One lemma per abstract action. The two hypotheses are those of the abstract
promise itself: `ActorRpc` knows neither kills nor ports.

`SafeHeapProofs`, for memories, programs and token sets of any size, under `SafeHeapAssumption`:

- `FramesStale`: `Spec => []LeftFramesAreStale`, and `AuthoritySound`: `Spec => []AuthorityIsSound`.
  Both follow from one inductive invariant, `HeapInv`. `StackShape`: frames lie below one another and
  the temporaries below the last. `ObjectShape`: numbers are unique and never given out twice, every
  object lies in the zone of its kind, a live stack object is a local or the VLA of a frame that is
  there, live objects are apart. `CapabilityShape`: a token keeps the object it was issued for, and
  its bounds are inside it. `Staleness`: the objects of left frames are dead. `StackShape` and the
  third part of `ObjectShape` are what makes the disjointness inductive: a new frame's locals can only
  be apart from objects that are known to lie above it. One lemma per operation; the operations that
  only derive, drop or add an object share `DeriveInv`, `FewerTables` and `OneMoreObject`.

`SafeHeapGcProofs` is about the collector:

- `ReachableUsable`: `Spec => []ReachableStaysUsable`, and `ReallocKeepsBlock`: `Spec => ReallocKeepsOld`.
  Reachability is not inductive as it stands, because an operation may write any reachable word
  anywhere. `KnownInv` is: every token in a written cell that the program has a use for (global,
  stack, live heap objects, whether reachable or not) stands for a usable object or for one whose
  function has returned. A collection keeps it because it is local to a cell: a cell of a swept object
  is not in use afterwards, and what a kept cell holds was scanned. Two more facts
  are needed. `MainShape`: main's first local is registered for ever, since the collector scans the stack
  up to the highest registered object. `TemporariesWritten`: every temporary was pushed, so the operands
  of an instruction are cells that `KnownInv` speaks of. The assumption `MaxObjects > MaxLocals` says that there
  are numbers for main's frame; the code numbers objects with 64 bits.

Its second part is about the count of bytes:

- `LiveBytes`: `Spec => []LiveBytesExact`, and `TypeCorrect`: `Spec => []TypeOK`. `CountInv` adds that
  the tables are finite, without which a sum says nothing; `TypesInv` types dead objects and
  capabilities of dead objects too, which `HeapInv` leaves alone.

`IlvmProofs`, for words, heaps, arguments and programs of any size, under `PowersOfTwo` and
`IlvmProgramAssumption`, as long as the program frees live blocks only (`"free" \in Rules`, or
`PairFree` in the pair). The hypothesis is needed: `ilvm_double_free` is the counterexample without it.

- `FreeListComplement`, `PairFreeList`: `[]FreeListIsComplement`. `AllocKept`, `PairAlloc`: the refinement
  `AllocPromise` of `IlvmAlloc`. `IlvmTypes`, `PairTypes`: `[]TypeOK`. All follow from `IlvmInv`, which says that
  arguments, registers and heap hold words and that `Good` holds of the tables: the free list is
  `Separated` (in the order of addresses, with a gap between neighbours) and holds exactly the words of
  no live block; live blocks share no word, lie in the heap above the arguments, and the table knows
  their sizes. `Separated` is what makes `free` correct: `Insert` joins at most
  two neighbours, and that is enough only if no two regions touched before.
- `ReleaseAdds`: what `Insert` computes, for lists of any length. `FirstFits`, `CarveTakes`: what `malloc`
  chooses and leaves. `Op2IsWord`, `PackedIsWord` and the like: what is computed is a word.

Stores may go anywhere (`"store"` need not be in `Rules`): the allocator's tables are not kept in the heap.

`IlvmPairProofs`, for all the same sizes:

- `InterpretersAgree`: `PairSpec => []Agreement`. `IlvmInv /\ Agreement` is inductive; one lemma per
  instruction. Where the programs differ, the proof shows why the results do not:
- `free`. `MergeIsRelease`: two separated lists that hold the same words are equal (`SameWords`); `Release`
  gives such a list (`ReleaseAdds`), and so do sorting and joining, since a separated list with one more
  block, sorted, has only neighbours that do not overlap (`SortedAscending`), and joining those that touch
  leaves the words as they are (`JoinedSeparated`). `Good` supplies the hypothesis, that a block being freed shares no
  word with the free list; on a double free, which `PairFree` leaves out, it does not hold.
- Shifts. `SameDistance`: the low k bits of a word add up to its remainder by 2^k (`LowBits`), also if the
  word is negative.
- Addresses. `AddressOf`: Rust reads a negative word as an address beyond every heap, so it fails where
  OCaml refuses it; and no region is that large (`NoHugeRegion`), so a negative `malloc` fails in both.
- Division. What does not trap is a word, so OCaml's wrapping changes nothing (`OpsAgree`).

- `ArgumentsIntact`: `Spec => []ArgsIntact`, and `PairArguments` for the pair, of programs that store inside
  live blocks only (`"store" \in Rules`). `ArgsHeld` says that the words below the first free one are as
  `init_heap` left them. A store cannot reach them, because `Good` keeps the live blocks above them. That
  they spell the arguments is arithmetic: a packed word is a number of four digits, so every
  byte can be read back (`FourPlaces`, `ByteBack`); the strings lie one behind the other (`NextAddress`), so
  each word has one owner (`OneOwner`); and a string's words have room for its NUL (`StringFits`), where `print_str`
  stops (`TextOfString`). The first bit of a packed word is never set since the characters are ASCII.

`GradingProofs` and `GtlcProofs`, for every suite, every submission and expressions of any height, under
`GtlcAssumption` and `GradingAssumption`:

- `TypeCorrect`: `[]TypeOK`. `CarefulReward`: `[]CarefulToolsEarn`, whatever the suite's programs do and
  whether they end. `IInv` says what the verifier knows at each step: the fixtures are the outcomes of
  accepted cases (`FixturesRecorded`), what is compared in contexts, with the expert and by distance is a
  migration (`InHand`), and a tool that was careful so far has its part of the points so far (`Earned`). Without
  the first nothing says that the outcomes a careful tool is compared with are those of its own
  emission. A step that gives up is then shown not to be taken for a careful tool: `check` is reflexive
  (`SyntaxLeqReflexive`) and a distance exists where `check` holds.
- `DistancesAddUp`: `[]PrecisionIsDistance`, from `ExprDistances` (a distance is a number exactly between an
  expression and its migrations) and `ExprDistancesAdd` (distances add up along a chain), which hold for all expressions.
- `MigrationsTypeBelow`: `[]StaticGuarantee`, from `TypesFollowPrecision`, the static gradual guarantee for all
  expressions and environments. Its cases rest on `ConsistentBelow` (consistency is kept when both types become
  less precise) and on `ArrowBelow` (a less precise function type is not higher, so `Arrow` does not refuse it); the
  case of a conditional is the hypothesis `SteadyJoins`, which cannot be dropped (7). `FillingMigrates`: a context filled with a
  migration is a migration of the context filled with the original.

- `TypeSoundness`: `[]OnlyCastsFail`, from `ResultsTyped`, type soundness of elaboration and evaluation for every
  expression, every depth and every set of values. `TermTyped` relates an elaborated term to a type: it is
  what elaboration makes of a well-typed expression, or a cast of that; one lemma per
  constructor says what its parts are typed with (`TermTypedApp` ...), and `TermsAreIRs` that a term is at most twice as high as its
  expression. `ValueTyping` is the largest relation between values and types that obeys a
  rule: a closure's environment has the types its body was elaborated with, a proxy's function the type
  it is cast from, a tagged value the type of its tag. The largest, since nothing says that values are
  well-founded, and it needs no induction over them: to type a new value is to show the rule
  (`ObeyingIsTyped`). Then every cast turns a good result of one type into a good one of another (`CastSound`; the only failure it
  adds is its own), one step of `evaluate` and of `apply` is sound if those with less depth are
  (`EvaluatedSound`, `AppliedSound`), and the rest is induction over the depth (`MachineSound`).

The argument is induction over types and expressions, in the form of sets (`TypeInduction`,
`ExprInduction`: a set that has a tree whenever it has its parts has every tree), which follows from
induction over heights. A recursive function is a `CHOOSE`, so that it satisfies its equation has to
be shown: for each (`TypeLeqUnfold`, `TypeOfUnfold`, `SyntaxDistanceUnfold` ...) a function that satisfies it up to a height is
extended by a level. That is why the domains are bounded, and why `SteadyJoins` visits only places
that both expressions have.

Some assumptions were added for the proofs. `MaxTypeHeight` is at least 1, so that there is a function
type for `elaborate_application` to cast to. `PowersOfTwo` states the
recursion of `2^k` up to the width of a word, since none of the provers knows exponents. The width of a word is a power
of two (32 in the code): without it masking a distance is not a remainder. And the arguments
are sequences of ASCII characters, as `init_heap` refuses any other.

`FiniteSums` holds induction in the form the provers can use. The theorems on induction take an operator as
a parameter; in terms of sets (`LeastNumber`: every non-empty set of numbers has a least one;
`NumbersFromZero`: a set with zero and all successors has every number) they are first-order, and follow
from well-foundedness. That is how sums over finite sets are shown to exist, which `live_heap_bytes` needs, and how
`Insert` is proved by the length of its list.

Each proof has the three facts (initial state, step with one case per action, consequence) and one
temporal step. TLC checks the proved properties in `actors_safe`, `actors_crash`, `safe_heap`, `safe_frames`,
`ilvm_pair`, `ilvm_pair_args` and `grading`.

Only model-checked:

- the liveness properties (fairness and ENABLED are beyond the prover);
- `GradualGuarantee`. It does not hold for every `MaxDepth`: a migration evaluates more casts in other
  places than the original, so at the last level one may be cut off where the other is not; the run has
  depth enough that none is.
- TypeWhich and its driver (`TypeWhich`, `TypeSolver`, `InsAndOuts`, `Printing`, `Migrate`, `Coercions`, `Benchmark`), whose
  operators are recursive over expressions, types and sequences of constraints: the modules declare them
  RECURSIVE, and hold no theorem.

## 7. Findings

1. `actor.py`: references name a port, and ports are reused, so a call through a reference of a
   terminated actor may run on another actor instead of raising `ActorDiedError`.
2. `eval.rs`, `free`: the block table is not updated, so a double free is accepted.
3. `verifier.ml`, `grade`: a submission that passes every check but is not below the expert's
   migration ends the grading of all challenges with a reward of zero, although instruction.md says
   that any of several equally precise ones may be emitted. Case 01 of cases.yaml has such a pair.

Other differences are known and left out of the properties by name. `eval.rs`, `print(array(..))` (line
72), reports a range that ends with the last word of the heap as out of bounds, though Language.md
274-276 does so only for addresses that are; the OCaml interpreter prints it, and `PairArray` leaves
such ranges out. `eval.rs` panics on a zero divisor and on the least word divided by -1, where the
OCaml interpreter reports an error or wraps around; the runs of the pair exclude these programs
(`RustTraps`). And the type of a conditional is not monotone:
`((fun x. if true then x else 1) : any) true` fails, since branches of types any and int are cast to
int, but with `x : bool` both branches become any and it returns true; `GradualGuarantee` therefore
speaks of programs whose conditionals only become more precise (`SteadyJoins`).

Of TypeWhich, where each is kept out of a property by the condition named:

- A coercion of an atom to any is printed as an ascription `(e : any)`. instruction.md requires that
  `is-migration` accepts what is emitted, and a new ascription is not accepted, as for
  `fun x. if true then x else 1`; in `gtlc` it may also change the type of a conditional, and so what
  the program does. `MigrationUnlessAscribed` speaks of results without one. Ascriptions of the
  source are dropped (`fresh_types`), though its comment says that they stay as `Ann(e, Any)`.
- Some operands are printed without the parentheses they need: a sum on the left of `*`, and a
  conditional on the right of `+` inside a coercion (`ReadsBack`); then another program is read, or none.
- `--annot hard`: `cgen` inserts no coercion at an ascription although its comment says so, and
  `(1 : any)` ends in a type error; `InferenceSucceeds` is about ignored annotations.
- Without the optimizer the second round may choose a type of another kind than the first, and the result
  is not safe in every context: `SafeMode`.
- InsAndOuts constrains no test of a conditional (`OnlyTestsIllTyped`), its closure need not end, as
  for self-application, and its rounds may stop with a constrained variable left over, which is then
  printed like an unannotated one: `fun x. (x x) 1`.
- The driver panics on programs with `let`, and on a migration that removes an error; it calls a migration a
  disaster when the original fails in the context; a rejected tool keeps the migration of an earlier
  run. `SafeIsCompatible` speaks of `Countable` programs.
- parser.rs says that every annotation becomes a metavariable, but `fun x. e` gets any (parser.y:90).

## 8. Not modelled

Parsers as such (tokens and grammars; what the parser of TypeWhich makes of missing types is), the
front end and `main` of ILVM (command line and text, duplicate block numbers), pickling and its errors
beyond their occurrence, Lean files (already proofs), test suites, images and scripts;
of the memory-safe C runtime the function registry, initialised global pointers, strings, `printf`
and accesses smaller than a word; of TypeWhich the Grift front end with its printing and `--compare`,
Z3's answer "unknown" (the command panics or reports it), infinite types, the driver's YAML files, `assert_unusable` and
LaTeX summaries. The MiniScheme components and the Scheme compiler are planned (2); so is the rest of the
gradual types' command line.
