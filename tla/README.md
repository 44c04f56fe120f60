# ppy-rev: a model of its search for inputs that reach a goal

ppy-rev lifts a binary through Ghidra into RevIR and looks for an input that makes `main`
reach a goal: an address, a call with a given argument, or a return value. The answer is
`sat` with inputs, or one of several ways of not knowing, or `unsat`, "every path was explored
within the input bounds" (docs/solving.md:123). This directory holds TLA+ modules that model
how the program comes to that answer, from the export of a binary to the checked answer, TLC
configurations that check them on small programs, and TLAPS proofs of the results that hold
for every program, budget and solver behaviour.

The question behind most of the work is: **when may the search say `unsat`, and can it lose an
input without saying so?** An input can be lost in a timed-out solver call, in a pruned branch,
in a goal state that is split off and thrown away, in a library model that gives up half way,
or when a later run forgets what an earlier one skipped. Tests sample a few programs, with a
solver that always answers; a model can let it fail anywhere.

Around it stand three more. **Is the program that is searched the program that was given?**
(lifting, simplification, slicing, specialization of interpreters: `Pipeline`, `Specialize`.)
**Is the answer that comes out the one that was found?** (bounds on lengths, extraction, replay,
native check: `Solve`.) **Do the processes around it leave each other alone and come to an end?**
(`ExportCache`, `Sandbox`.)

Paths below are relative to `src/src/ppy_rev/` unless they begin with `docs/` or `tests/`.

## 1. Inventory

| component | state it keeps | operations | what makes it correct |
|---|---|---|---|
| Symbolic search (`symbolic/executor.py`, `state.py`) | heap of waiting states, the running state (frames, memory, constraints, visits, I/O), identifiers, statistics, `Exploration` | `explore`, `resume`, `_run`/`_step`, every operation, `_fork`, calls with goal and avoid conditions, `_dispatch`, `_return` | no input that reaches the goal disappears unrecorded; goal states come out shallowest first; heap keys never tie; the search ends |
| Solutions and verdict (`solve.py`) | solutions, goal states without a printable model, how far it has looked | `_solutions`, `_find`, `_status` | reported inputs reach the goal; `unsat` only when nothing was left behind; the loop of resumes ends |
| Goal reachability (`analysis/reachability.py`) | per function: blocks that reach a return, blocks that reach the goal; a worklist | `_backward`, the interprocedural fixpoint, `can_reach` | a denied state can never reach the goal; the fixpoint settles and is the least one |
| Concolic search (`symbolic/concolic.py`, `_follow_seed`) | the seed, the heap of flips, tried conditions, seen inputs, covered blocks | seeded run, collect, pop, solve, stop | every untaken choice is queued, solved or on record; `unsat` only when all were |
| Path merging (`symbolic/regions.py`, `_fork_and_merge`, `_merge`) | deferred checks, arrivals at the join | fork inside a region, run to the join, merge, check what escaped | a merged state stands for exactly the paths that arrived |
| Path memory (`symbolic/memory.py`) | a chain of copy-on-write layers | fork, load, store, checkpoint, written_since, flatten | forks do not see each other; `written_since` misses no byte |
| Library models (`summaries/`) | streams, positions, files, clock, random state | one model per function: returns, raises, or splits | options are exhaustive and exclusive; concrete and symbolic agree |
| Concrete execution (`execution/`) | frames, pages, streams | `step`, calls, traps, startup | it is the reference semantics |
| Brute force (`execution/brute.py`) | a counter of candidates | enumerate | never claims unsat |
| Chained solving (`analysis/chain.py`, `_solve_chain`) | the answers of the phases so far | solve a phase, pass its answer on | answers of different phases never mix; a failed phase ends the chain |
| Slicing (`analysis/slicing.py`) | needed values, callees and memory | dependency closure | skipping an operation changes no goal |
| Lifting and SSA (`lift/`) | blocks, dominators, versions | split, place phis, rename | every use sees its definition |
| IR, validation, simplification (`ir/`, `simplify/`) | functions being rewritten | folding, CSE, DCE, forwarding, interface narrowing | observable behaviour, faults included, is kept |
| Ghidra front end (`ghidra/`) | the export cache on disk, a child process | lookup, store, clear, run with a timeout | a lookup only ever sees a whole export, of the right key |
| Native verification (`verify/sandbox.py`) | a child process, a feeder and two drain threads | run, time out, clean up | always returns; never kills what it does not own |
| VM recovery (`vm/`) | a worklist of walks, what is known on each, what attempts have withdrawn | detect, specialize, lift | the residual function does what the interpreter does or refuses; attempts end |
| Expressions, encoding, solver backend | hash-consed terms | fold, encode, ask | meaning is preserved; the solver is only asked |
| Discovery, source emission, command line | none | score, print, parse | not about state |

**How they interact.** The whole pipeline runs in one thread: front end → lift → simplify →
analyses → search. `solve_module` builds an `Executor`, which calls the solver synchronously
(each call with a timeout), the library models synchronously, and `can_reach` whenever it
forks. `_solutions` resumes a stopped executor when it wants more goal states. Concolic search
drives the *same* executor once per seed. Only the front end (a cache directory shared by
processes, a child process) and the sandbox (three threads, a child process, a container) are
concurrent.

**What is hard.** The nondeterminism that matters in the search is not scheduling but answers:
the solver may decline any question, any budget may run out between any two states, a library
model may fail in the middle. `PROJECT.json` lists these hazards at the line where each bites.

## 2. Plan

Done so far, in this order:

1. `Program`: the instructions of a RevIR program as data, and what it means, step by step,
   for a run to go on to the goal.
2. `Search`: `Executor` and `_solutions`/`_status` over such a program; `MCSearch` with its
   programs and exact semantics; `SearchProofs`.
3. `Reachability`: the fixpoints behind `can_reach`, which `Search` assumes something of;
   `MCReachability`, `ReachabilityProofs`.
4. `Concolic`: the seeded search and its verdict; `MCConcolic`, `ConcolicProofs`.
5. `PathMemory`: layers, `fork`, `checkpoint`, `written_since`, flattening, as an implementation
   of `ForkMemory`, a memory for each path; `MCPathMemory`, `PathMemoryProofs`.

6. `Regions`: which blocks of a function make a region, where its paths meet, which values are
   still needed there and where addresses come from; `Merge`, over it: the search of one function
   with `_fork_and_merge` and `_merge`; `MCMerge`, `MergeProofs`.
7. `Streams`: the library models that read and write streams, symbolic against concrete, scanf's
   directives among them: whether the options a model splits into are exclusive and complete,
   which `Program` leaves to the instruction; `MCStreams`, `StreamsProofs`.

8. `ExportMap`, the cache of exports as its users see it, and `ExportCache`, several commands
   with their Ghidra processes on one cache directory; `MCExportCache`, `ExportCacheProofs`.
9. `Inputs`, `Goals`, `Chain` and `Sandbox`, and over them `Solve`: `solve_module` from a request to
   the checked answer; `MCSolve`, `SolveProofs` (with the sandbox).
10. `Ir`, `Validate` and `Machine` (what RevIR is, when it is valid, what it does), `Recovery` and
   `Lift` (from p-code to SSA), `Fold`, `Passes`, `Interfaces`, `Slicing`, and `Pipeline`, which
   runs them in order; `MCPipeline`.
11. `Specialize`, on the same IR and machine: the residual program of a bytecode interpreter;
   `MCSpecialize`.

Which extends which: `Search` is built on `Program` and `Merge` on `Regions`; `PathMemory` and
`ExportCache` each instantiate their abstract specification; `Solve` composes `Inputs`, `Goals`,
`Chain` and `Sandbox`. On `Ir` are built `Validate`, `Recovery` and then `Lift`, `Fold` and then `Passes`,
`Interfaces` and then `Slicing`; `Machine` uses `Slicing` and `Lift`; `Pipeline` composes `Machine`,
`Passes` and `Validate`, `Specialize` composes `Machine` and `Validate`.

Left, in the order of importance:

12. Proof that `Folded` is exact wherever `SameIO` tells all of the I/O.
13. Helper functions run inside a region: frames in `Merge`, and the unchecked return address
   (executor.py:1026), after which a goal state may be one that no input reaches.
14. Jump tables and floating point in `Lift`; the library models of strings, memory, formatting
   and the heap; detection of interpreters (`vm/detect.py`).

## 3. Modules and the code they model

### Program

A program point (`Points`) is a position in a block, `Data` is what instructions compute with
(registers and memory together), and `Code` gives each point one `Instruction`: straight-line
operations, division, memory access, branch, switch, call, return. A call carries the
`CallCondition`s on its arguments (`avoidArgs`, `goalArg`); an import has the `options` its
library model would split the state into, each with how it ends.

A symbolic expression denotes a function of the input. A model state therefore keeps the data
of *every* input; a constraint is the set of inputs that satisfy it; "folds to true" is "holds
for all inputs". This keeps every decision of the executor and drops every term it builds.

`Goalward(point, stack, data)` says that a concrete run goes on from there to the goal. It is a
constant. `GoalwardAssumption` says that a run that goes on to the goal does so by a step of the
machine, and that `can_reach` never denies it (the part `ReachabilityProofs` justifies);
`GoalwardConverse` says that a run that takes a step the analysis models (`GoalwardAlong`) to where it goes
on to the goal goes on to it. Each is one direction only, and what is left open between them is what the
analysis does not know: what an unmodelled instruction does, or a call below the depth limit. The
theorems hold for any `Goalward` in between, the real one among them. `MCSearch` defines it exactly, by
running.

### Search

| in the code | in the model |
|---|---|
| `Executor._pending`, heappush/heappop by `(decisions, id)` | `pending`, `Pop`, `Before` |
| the state in `_run`'s loop | `run`, one action per turn of the loop |
| position in `_call_conditions`' two loops, and its `reached` list | `handled`, `split` |
| `Exploration.reached`, `.incomplete`, `.budget_exhausted` | `reached`, `incomplete` (the reasons), `exhausted` |
| `Statistics.states`, `.steps`, `.hiding_approximations` | `states`, `steps`, `hiding` |
| `resume`'s loop and its budget checks | `OutOfStates`, `OutOfSteps`, `OutOfTime`, `Pop`, `LoopEnds` |
| `_observe` | `Observe` (avoid before goal) |
| `_operation`, load/store, `_restrict_pointer`, `_require_divisor` | `Compute`, `AccessKnown`, `AccessSymbolic`, `Divide` |
| `_terminator`, `_fork` | `Branch`, `Switch`, `Fork`, `Halt`, `Unsupported` |
| `_return` | `ReturnToCaller`, `ReturnFromMain` |
| `_call_conditions` | `AvoidArgument`, `GoalArgument` |
| `_call`, `_dispatch`, a library model with `_split` | `CallFunction`, `CallElsewhere`, `CallImport` |
| `_solutions`, `_find`'s extraction | `Resume`, `TryReached`, `PickEnds`, `TryUnpreferred` |
| `_status` | `Verdict`, `Conclude` |

The solver (`Answers`) tells the truth about satisfiability or, for the conditions in the
constant `Hard`, may also answer `unknown`, differently each time. `dropped` is a history
variable: the inputs left behind at the two places where the code neither records a reason nor
keeps a state on an undecided or unmodelled case *and* `Verdict` cannot know — a goal call whose
condition is not decided, a library model that faults after splitting — and at a pointer whose
unmodelled candidates are excluded. Every other loss is an error of the model's invariant. `hurried`,
a history variable too, tells whether a call whose only outcome left was a deferred one has gone on at once
(section 5).

Left out of `Search`: merging (in `Merge`), seeded execution (in `Concolic`), selecting helpers,
statistics nobody decides on, notes and progress.

### Reachability

`_backward` is modelled with its worklist (`Visit`, one turn each), the interprocedural loop
with its `changed` flag and its order of functions (`KeepReturns`, `KeepReaches`), and
`can_reach` (`CanReach`) as the scan from the innermost frame outward. After the fixpoint the
module *walks*: it takes any control flow the program's blocks, calls, tail calls, tables and
unresolved targets allow. `pruned` remembers that `can_reach` has denied a state of the walk. A
position after a tail call does not exist: the block's end returns to the caller.

### Concolic

An input is the sequence of choices its path takes and how it ends; a path condition is a
sequence of choices. `Start` to `Finish` are one seeded run, choice by choice; `Follow` adds the
flips of one choice; `Collect`, `NoModel`, `SeenModel`, `NewSeed` are the loop of
`concolic_search`; `Verdict` is `_concolic_status`. `lost` is its history variable: what a flip
the solver gave up on, a run that forgot its predecessor's `incomplete`, or a run cut short by a
budget left behind. Choices over values the seed does not assign (which fork as usual) and the
alternatives of library models (`_seeded_outcomes`, the same mechanism) are left out.

### ForkMemory and PathMemory

`ForkMemory` is the promise: `contents` gives every path a memory of its own; a fork copies it, a
write changes one copy. `PathMemory` is the code: `cells` are the `_Layer` objects ever made,
`chain[m]` is a memory's `_layer` with its parents (a layer's parent never changes, so a chain
is a sequence). `Fork`, `Checkpoint`, `Write` (`store`, and `write_byte` for a single byte, with the
flattening it triggers) and `Discard` are the operations; `Read` is `read_byte`, `WrittenSince` is
`written_since`. Two history variables state the promise of its docstring: `marks`, the
checkpoints a memory descends from, and `owed`, what was written on the way since each.
`PrivateCopies` maps the layers to `contents` by reading every byte; its second half,
`EachAsPromised`, says the same operation by operation, so that a lost write cannot pass for a
stuttering step. Mappings and
permissions are left out: an access they forbid raises and changes nothing.

### Regions

A function is a sequence of blocks with phis, operations and a terminator. Dominators,
post-dominators and loops (`ir/cfg.py`, `_innermost_loop`, `_continuing`, `_returning`, `_loop_join`)
are stated by what they mean, over `Reached`, the closure of a set along edges, and not by the
iterations that compute them. `Region` is `RegionFinder._find` with every way to have none: no join, a
block with a call that may not come back, a cycle inside, more blocks than `MAX_REGION_BLOCKS`.
`UsableAfter` is liveness at the join (`_live_at_entry`); `Addressing` and `AddressSlots` follow
addresses back to what they are computed from and where that is loaded from. `LocationOf` knows
constant addresses, addresses loaded from a constant address, and any other value.
The results agree with those tests/unit/test_regions.py expects of its functions.

### Merge

| in the code | in the model |
|---|---|
| `_pending`, the state in `_run` | `pending` (a set: the order is in `Search`), `run`, `Pop` |
| nested calls of `_fork_and_merge` and `_run_region` | `stack`, one record each: `pending` is `todo`, `shared_constraints` is `shared`, then `arrived`, `escaped`, `stopped` |
| `_step` inside or outside a region | `Execute`, `Finish`, `Return`, `Jump`, `Decided`, `Bounded`, with `Yield` and `Continue` for what it returned |
| `_fork`, checked or deferred | `Fork`, `Children`, `Answer` |
| `_fork_and_merge` | `Enter` before, `Leave` after the region has run |
| `_run_region`'s loop | `Arrive`, `Escape`, or a step |
| `_possible_states`, the filter of `stopped` | `Possible` (`Maybe`, `Kept`), `PossibleStops` |
| `_merge`, `_same_io`, `_choose`, `_address_cells` | `Mergeable` and `Folded`, `SameIO`, `Choice` and `Disagree`, `AddressCells` |

A state keeps its frame's values, its memory and its I/O for *every* input, as in `Search`; an
expression is a constant when it is the same for all of them, and two outputs are the same when
they are for every input (the code compares expressions by identity, so it may merge less, never
more). `_merge` reads memory through `written_since`; here every cell is folded, which
`PathMemoryProofs!SameElsewhere` justifies. `rand`, `read` and `print` are the calls a region may
hold; a call of a function is one operation and forbids a region, a helper that always returns is
left out, and so are indirect jumps. `OwnRun` runs one input alone; it is what merged states are
held against.

### Streams

One program makes calls on one stream. A path has one `position` for all of its inputs, and for
each input what the program could see so far: what calls returned (`saw`), memory, a std::string.

| in the code | in the model |
|---|---|
| `io.stdin`, `OpenFile.content`, `stdin_position`, `positions` | `data[i].content`, `position` |
| `io.unknown_from`, `_truncate`, `_at_end`, `approximate` | `cut`, `Truncated`, `AtEnd` and `Looked`, `noted` |
| `unique_value` of a line's length | `Past`, with `undecided` when the solver does not answer |
| `_split` | `Split`: one path for each option some input satisfies |
| `_Scan`, `_Scanner.run`, `_step`, `_finish` | `scan`, `Scan` (the scans after each directive), `Step`, `Finish` |
| `_getchar`, `_fgetc`, `_gets`, `_fgets`, `_getline`, `_read`, `_fread`, `_istream_read`, `_istream_number`, `_scanf`, `_fscanf`, `_feof`, `_ftell`, `_seek`, `_written`, `_fopen` | the operators of those names; `Calls...` is the action |
| the same functions of `summaries/concrete.py`, `scanning.scan` | `Own...` |
| `io.stdin_reads`, `stdin_solution` | `reads`, `Answer` |

The two sides are written separately from their two sources and meet only in helpers on
sequences. Left out: `sscanf`, `%x` and `%o`, an `ifstream` opened again, a file
read through two handles, saturation of numbers (three bytes never saturate), buffers too small for a line, answers for files. A solver that
gives up in one call gives up on every path of it; since no property relates two paths but by
their inputs, mixing the two shows nothing new. `Strays` names three places where the sides are
known to differ in silence: inputs taken through one are not compared any further.

* scanf and `>> n` on stdin take the end of a stream that was cut short for the end of the input
  (symbolic.py:2106); every other read of it leaves a note.
* A file opened again after a cut is still cut short (symbolic.py:899).
* `in >> s` at the end of the input clears the string in the interpreter only (concrete.py:498).

A fourth needs two live handles, which no program here has: every call is on the handle of the last
`fopen`. A file opened again while it is open gets a new handle with a position of its own in the
interpreter (concrete.py:358), but the handle it has, moved back to the start, in the symbolic model
(symbolic.py:900); what is read through the older handle afterwards differs, and no note is left.

### ExportMap and ExportCache

`ExportMap` is the promise: a map from keys to exports, each put in whole by someone who meant to
(`Offer`, then `Put`) or taken out whole. `ExportCache` is several runs of `export_binary`, each
with its Ghidra process, runs of `ppy-rev cache clear`, and someone who rebuilds the binary.

| in the code | in the model |
|---|---|
| `file_sha256`, `lookup`, reading the export | `Hash`, `Lookup`, `Load` |
| the copy of the binary for Ghidra, the child | `Copy`, `ChildEnds` (external: it may write an export or fail) |
| `communicate(timeout=...)`, `killpg` | `Wait`, `TimesOut`, `Kill` |
| reading the child's output | `LoadOutput` |
| `store`: mkstemp, write, replace, unlink on failure | `MakePartial`, `Write`, `Replace`, `WriteFails` |
| `clear`: `iterdir`, then `is_file` and `unlink` for each | `List`, `Check`, `Unlink`, `Cleared` |
| Ctrl-C or SIGKILL, at any of these | `Interrupt` (which runs the `except` and `finally` parts), `Crash` |

`files` is the directory; a file is whole or not yet. What `Write` and `Replace` did stays done when a
command is killed. A power cut is not modelled: `store` does not fsync before it renames (cache.py:64),
so that a key's name could stand for a file cut short, and `OnlyWholeExports` says nothing of that. The cache's key is made of the binary's
content when it was hashed; an export is named by the content that was copied, so that the two may
differ when `Rebuild` came between: `Swapped`.

### Inputs, Goals, Chain, Sandbox and Solve

`Inputs` is what an input is (bytes of arguments, a window of stdin, a file), what a request admits
(length, prefix, suffix, alphabet: `symbolic/inputs.py`), what of an input an answer holds and what an
answer blocks. `Goals` is the choice of goal and avoids (`_select_goals`) and the two ways it is put to
work, in the executor and as the watches of a replay: a goal may be a call with a certain text.
`Chain` finds the staged driver and its stages. `Sandbox` is `run_sandboxed`: the waiting thread
(`WaitReturns`, `WaitTimesOut`, `KillClient`, `Join`, `RemoveContainer`), the three worker threads
(`Feed`, `Drain`), and, external, client, container and target with pipes that hold `PipeSize` chunks.

`Solve` composes them. The symbolic search is a sequence of goal paths here, found until a budget
ends it (`Explore`, `Concolic`; what is inside is `Search` and `Concolic`).

| in `solve.py` | in the model |
|---|---|
| `_select_goals`, `_executor_goal` | `Select`, `ChosenGoals`, `Avoided` |
| `_solutions`: pick, resume for more, the second look | `PickPath`, `MorePaths`, `NoMorePaths`, `Again`, `NeverAgain` |
| `shortest` and `_shortest_line` | `Ask`, `Bisect`, `Bisected`, `AskLine`, `BisectLine`, `BisectedLine` |
| `extract`: dropping bounds that fail, blocking, deduplication | `Model`, `Unbind`, `Extracted` |
| `_verify`, `verify_on`, `_run_native` | `Verify`, `NativeEnds`, `NativeRaises` with the actions of `Sandbox` |
| `_brute_force` | `Try`, `GiveUp`: candidates by length and alphabet, cap and clock |
| `_solve_from_function`, `_solve_chain` | `SelectFunctions`, `ExploreStage`, `StageModel`, `StageFails` |
| `_status` | `StatusOfSearch`, `Status`, `Conclude` |

A question to the solver is a step of its own; it is answered truthfully or not at all, and `sure`
remembers that none that has an answer went without. A path carries the inputs that take it, the
events of its run, and how far it reads. `JobsAssumption` says what makes such data a program: no input
takes two paths, what a path does not read does not tell the inputs that take it from others
(`PathOK`), and a driver marked `staged` reads a line for each stage and hands it that one
(`GivesEachALine`). TLC evaluates it on the run's jobs, the proofs use it.

### Ir, Validate, Machine

`Ir` is RevIR: operands are numbered variables or constants with their width, all operations have
one shape, and `BinaryValue`/`UnaryValue` compute with wrapped integers as `ir/semantics.py` does.
`Validate` is `ir/validate.py`: single definitions, definitions that dominate uses, phis that cover the
predecessors, widths, registers of calls and returns. `Machine` runs RevIR on numbers
(`execution/interpreter.py`) and, written separately from the p-code manual's meaning of each
operation, the p-code itself as the processor would: `RunIr` and `RunProcessor`. A run yields its memory, the
instructions it met, the imports called with what they read, and how it ended.

### Recovery, Lift, Fold, Passes, Interfaces, Slicing and Pipeline

`Recovery` is `lift/cfg.py` and `lift/storage.py`: instructions reached from an entry, leaders,
blocks, the preheader of a loop into the entry, synthetic blocks of jumps into other functions,
registers that overlap grouped into one. `Lift` is `lift/ssa.py`: reading and writing variables, unsealed
blocks, trivial phis, call interfaces, traps. `Fold` is `simplify/fold.py`; `Passes` the forwarding of
loads and stores, common subexpressions, dead code and control-flow cleanup; `Interfaces` the
narrowing of registers across calls, from `abi.py`'s convention for code outside; `Slicing` is
`analysis/slicing.py`.

These are algorithms on data, so they are operators (recursive ones where the code iterates), and
the state machine is `Pipeline`: `LiftFunction` for each function, `Trim`, then for each function
`Fold`, `Forward`, `Cse`, `Dce`, `Cfg` and `NextRound` until `Simplified`, and `SliceAway`. Between any two of
them the module is a program, and its runs are compared with what the processor did with the
p-code (`promise`, computed once).

### Specialize

| in `vm/specialize.py` | in the model |
|---|---|
| `specialize`'s loop over attempts, what each withdraws | `attempt`, `doubts`, `Restart`, `WithdrawClobber`, `WithdrawCells`, `WithdrawPhi`, `Generalize` |
| the worklist of `_Attempt.run` | `work`, the last walk first |
| `_walk`, one native block | `Step`: `RunBlock`, then `Continues`, `Forks`, `Strays`, `Leaves`, `TailCalls`, `Repeats` or `Arrives` |
| values and the snapshot facts they follow from | `[o, facts]`; `Use` makes facts into guards |
| `_memory`, stores, wild writes | `Recalled`, `TakenForGranted`, `StoreFact`, `Clobber` |
| `_arrive`, `_counter`, `_generalize`, `_iteration_state` | `Arrives`, `Resolved`, `LoopKey`, `Generalize`, `Joins`, `NewIteration` |
| `_freeze`, guards in front | `Complete`, `Frozen`, `GuardsInOrder` |

`build.entered` is history: what each walk that comes to the loop from outside knows there, beside the
key. Where that is more than one thing (`EnteredApart`), `Translates` says nothing; section 5 tells why.
`fails` marks the interpreters that `specialize` has to give up, because the counter depends on the
input, because they need more iterations, attempts or visits than are allowed, or because of a tail
call; `AttemptsEnd` says that these fail and all others are translated. The records for the listing
are left out.

## 4. Runs

| run | states | asks |
|---|---|---|
| `search_address` | 1,778 | An address goal behind a loop, a division, a symbolic load, calls and a library split with a deferred outcome; the solver may give up on every question, and the budgets of states and steps run out. No input is lost unrecorded (`Covered`), heap keys never tie and goal states come out in order, unless a deferred outcome went on at once (`FewestDecisionsFirst`), solutions are solutions (`SolutionsReachGoal`), and the resumes for more come to an end (`Termination`). |
| `search_limits` | 941 | A function solved until it returns as asked or calls the goal with the right argument, one input for each way a path can end without an answer before that: branch and call depth, unmodelled code, unresolved pointers and targets, approximations, avoided messages, timeouts. `unsat` is never drawn from it (`UnsatIsExhaustive`). |
| `reachability` | 322 | Five functions, with mutual recursion, tail calls, a table and unresolved targets: the fixpoint settles, equals the least one (`Exact`), and no denied walk meets a goal; a denial is never taken back. |
| `concolic` | 43,581 | Eight inputs, every limit and solver timeouts: an input that reaches the goal is on the followed path, behind a waiting flip, on record or in `lost` (`Frontier`); `unsat` is exhaustive but for `lost`. |
| `path_memory` | 105,288 | Two paths fork, checkpoint, write one byte or two, flatten and end in every order over at most six layers: `written_since` omits nothing (`NoOmission`), what neither path reports is equal (`AgreeElsewhere`), and the layers implement `ForkMemory`, each operation as promised (`PrivateCopies`). |
| `merge` | 1,778 | Eleven functions over three input bits: loops of diamonds, the loop clang splits in two, guards that exit, an impossible goal, arms that leave a loop, a side that prints, nested branches, pointers picked by a branch, a loop its input keeps going. Each input is in one state and no state is a ghost (`OneStateEach`), a path that stops does so as each of its inputs does alone (`EndsAsRun`), loops of diamonds stay one path (`LoopsStayMerged`), and no address turns symbolic by merging (`AddressesStayKnown`). |
| `streams` | 18,945 | Every program of three calls out of twenty-four, on stdin or a file, over 81 inputs of three bytes. What the symbolic models let an input see is what the interpreter lets it see (`Faithful`); an input is on one path at most, and a call loses it only where what is left of its stream has two blanks in a row, or, for `in >> s`, ends in one (`OnePathEach`: scanf skips at most one blank, and `in >> s` wants a token behind it); the answer cut off behind the last read makes the program do the same again (`AnswerReplays`). |
| `export_cache` | 368,102 | Two commands and a `cache clear` while the binary is rebuilt, Ghidra hangs, disks fill up and commands are interrupted or killed. A lookup only ever finds whole exports (`OnlyWholeExports`); a command ends with the export of what it hashed, unless the binary was swapped under some command's hands (`RightExport`); only `clear` can make a command fail on a file that was there (`OnlyClearsDisturb`); the directory implements `ExportMap` (`ActsAsMap`); and each command that is not killed comes to an end (`EveryoneEnds`). |
| `solve` | 238,278 | Twenty-three jobs: arguments, stdin, a file, prefix, suffix, length and alphabet, goals told by text, brute force, concolic, a driver of stages, one function alone, native checks of a target that hangs or floods its pipes. The bounds leave exactly the shortest inputs (`ShortestFirst`); with a solver that always answers no answer is lost (`AnswersTaken`); `unsat` means that no input the request admits reaches the goal when it is run (`UnsatMeansNone`); answers replay (`AnswersVerify`); stages found one by one drive the whole program (`ChainDrives`); nothing is left running (`NothingRuns`), and `solve_module` returns (`Returns`). |
| `pipeline` | 12,348 | Machine code lifted to SSA, simplified and sliced. After every pass the module is valid (`AllValid`) and does on every input what the processor does with the p-code, faults, calls and order of instructions included (`Behaves`); no function needs the last round (`ReachesFixpoint`); skipping what the slice leaves out changes no protected instruction met (`SliceKeepsGoals`). |
| `specialize` | 5,561 | Interpreters with their counter in a phi or in memory (at a fixed address, behind one pointer, or behind one read again each time), prologues that branch, unknown values, cells that count, wild stores and calls, jumps to nowhere, and bytecode that branches on its input. The residual function is valid, and from every entry state does what the interpreter does or refuses before doing anything, unless two ways into the loop brought different knowledge there (`Translates`); an attempt that is given up has withdrawn something new and nothing withdrawn comes back, and only a counter that depends on the input, a limit or a tail call makes it fail (`AttemptsEnd`). |

One run finds that the code does something else than its documentation says:

| run | what TLC finds |
|---|---|
| `goal_call` | The solver times out on a goal call's condition (executor.py:866). The goal state is not kept, the running state goes on without its inputs, nothing is recorded, and the verdict is `unsat` though an input reaches the goal. |

`unsat` in the passing runs is therefore stated as `UnsatIsExhaustive`, with the named exceptions
in `dropped` and `lost`; `UnsatMeansUnreachable` is what the documentation promises.

**Bounds.** Two to ten inputs and a dozen points suffice for the search because inputs only
interact through conditions: a loss needs one input that reaches the goal and one that keeps the
state alive beside it. Call depth 2 meets both sides of the depth limit, two visits both sides of
the visit limit, eight states and a bound on steps (`search_address`) make budgets run out before
and after goal states were found; `MaxSteps` is also where the counter stops counting.
`search_address` sets `Hard` to every condition. In `Reachability`, `MaxDepth` (4) bounds the walk
and five functions force a second pass of the fixpoint. `MaxRuns` 5 and `MaxSteps` 9 in `Concolic`
are both reached and both survived. In `path_memory` a chain is flattened at depth 3 instead of
49 (`FlattenDepth`), and six layers (`MaxLayers`) are enough for a checkpoint, a fork after it, a
write before and a flattening after it. In `merge`, three bits give two branches and one more
question; regions of up to five blocks (`MaxRegionBlocks`) hold every region of the programs and
refuse none of them, two trips round a loop are one more than leave leftovers in the frame, and
`MaxVisits` (3) stops only the loop that its input keeps going. A run that has not ended after
`MaxRun` (60) operations does not end. Its solver either decides everything or may fail on the
impossible, on everything and on one side of the first bit (`Undecidable`). In `streams`, three
bytes hold a token, a blank and what follows it, a sign and two digits, or a line longer than the
string kept in its object (`Small` is 1 instead of 15); three calls (`MaxCalls`) cut a stream, move
in it and read it again.

In `export_cache`, each command runs once, two contents are enough for a rebuild at any point, and
one key's options stand for all; `clear` removes in any order. In `solve`, an input
has up to three bytes of five values: two printable, one not, NUL and newline; `BruteMaxLength` (2,
in the code 8) ends the candidates of two letters, and `BruteCap` (11, in the code 8,000,000) those of
three; a pipe holds one chunk, which the target fills and overfills (`MaxOutput` 2, `OutputLimit` 1); `Width` 2 has negative numbers.

In `pipeline` and `specialize` a byte has two bits and an address four (`Byte`, `PointerWidth`),
with the first two addresses unmapped, so that values wrap, addresses alias and pointers fault
within sixteen cells; nothing in the algorithms depends on a byte's width but through these two.
`Rounds` is the code's 20. A run of more than `Fuel` steps (40; 400) does not end: two such runs are
compared as far as they came in `pipeline`, and not at all in `specialize`. `MaxKeys` (2),
`MaxIterations` (10) and `MaxAttempts` (3, in the code 24; no interpreter here needs more but those
meant to fail) are all reached, as is `MaxBlockVisits` (4, in the code 256).

**Deadlock** is checked except where the modelled thing really stops: in `reachability`, where the
walked program ends, in `path_memory`, where the layers are used up, in `merge` and `streams`, where
the last path or the program ends, in `export_cache`, when all commands have, and in `solve`, after
the answer. `Pipeline` and `Specialize` have an explicit last step.

**Fairness.** The analyser is one thread, and whatever it waits for comes back: each solver call has
a timeout. `Search`, `Specialize` and the solving half of `Solve` assume weak fairness of their steps,
`Reachability` of its `Solve` part: they do not stop while they can go on. No fairness is assumed of
solver answers, of the clock, or of the walked program. `Termination` holds only of programs whose
undecided loops fork (the run `search_address`). `ExportCache` assumes weak fairness of each
command's next step, the expiry of its wait included (`communicate(timeout=...)` returns), but not of
Ghidra, of `clear`, of interrupts or of crashes; a killed command is over. `Sandbox` assumes it of the waiting
thread, the feeder and each drain, since the operating system runs them, and of nothing the target or the
container runtime does: the timeouts are what ends a run. `Concolic`, `Merge`, `Streams`, `PathMemory` and
`Pipeline` state no liveness (`ReachesFixpoint` is the invariant that stands for it).

Each property has a mutant, a plausible slip in one mapped definition that makes TLC violate
it; the mutated operators sit beside what they mutate, marked as such or named for the slip.

## 5. What else was met

These came up while modelling and have no run of their own. Where a model needs an exception for one,
the exception is named there.

* Soundness of `unsat`: a concolic run forgets what earlier runs left incomplete (concolic.py:59,
  solve.py:386; `lost`). A library model that faults for one of its options loses the others, and
  no reason to doubt `unsat` is recorded (symbolic.py:252; `dropped`). `--from` and `--chain` call a
  function unsatisfiable that was looked at in isolation.
* A loop no input decides never returns to `resume`, where the budgets are (executor.py:434), so that
  neither `--timeout` nor `--max-steps` stops it; `_ArgvFlow.run` need not settle when a program walks
  its arguments in a loop.
* "Fewest symbolic decisions first" (executor.py:351) has an exception: a library model defers an
  outcome by counting it deeper (symbolic.py:1434, `atoi` of an unusual number), but when it is the only
  outcome left, `_call` sees one successor that is the calling state (executor.py:953) and the run goes on
  with it at once, ahead of shallower states that wait. A goal state may then be recorded before one with
  fewer decisions: without `~ hurried`, TLC finds `FewestDecisionsFirst` violated.
* `_same_io` (executor.py:1416) compares neither the random generator nor clock nor open files: merged
  states go on with the last side's. `MergeProofs!MergingExact` shows that this is all a merge leaves out: of
  what `Merge` models, the generator is the one thing that has to be assumed alike (`DrawsAlike`).
* `fgetc(stdin)` and `fread` move the position and write no window down (symbolic.py:974): the answer
  made of the windows is too short. An `fgets` with room for the NUL alone returns its buffer if there is
  anything left and NULL otherwise, and reads nothing (concrete.py:390, symbolic.py:1068): on an answer that
  ends there it returns NULL. `AnswerReplays` leaves programs with such calls out (`Recorded`). scanf and `>> n` on stdin take the end of a stream that was cut
  short for the end of the input (symbolic.py:2106); `Strays` in `Streams` names this and two more, and
  section 3 a fourth, files opened again while they are open, which the module leaves out.
* A path with printable answers, but fewer than asked for, is never asked for others (`AnswersTaken`
  says so). When only a file matters, `_block` is false and all answers look alike: there is one. Of
  several argument strings an answer holds the first, and of a file read by lines the first line
  (solve.py:1107), whose replay may then end elsewhere (`AnswersVerify`). Brute force ignores
  `--prefix` and `--suffix`. Prefixes longer than the window of stdin raise `IndexError`.
* One native run that fails raises `SandboxError` and loses the solutions already found; a runtime that does
  not answer to `rm` within its time raises `TimeoutExpired`, with the container perhaps still there
  (the exception in `NothingRuns`); a target that exits with 125 and prints nothing is taken for a
  failure of the runtime.
* The cache may hold the export of a binary swapped between hash and copy (frontend.py:23;
  `RightExport`), for all later commands.
* A recursive `main` is taken by slicing.py:93 for one nobody calls, so that what only its return
  needs may be skipped, and the sliced run can miss a protected instruction. Programs of `pipeline`
  that recurse do so in other functions. The slice also assumes that functions that
  only print neither fault nor run forever (`Assumed`).
* **`vm/specialize.py`, "Knowledge is used soundly":** when the interpreter's prologue branches on
  its input and both sides come to the loop with the same counter and key, the second arrival
  reuses the block that was made from what the first knew of memory and values (specialize.py:763).
  If one side stores to a byte of the snapshot that the loop reads and no iteration writes, the
  residual function returns a wrong value with no guard failing. Of the interpreters
  of the run whose prologue branches (`BranchingVm`), the two that store on one side only are such: without
  `~EnteredApart`, TLC finds `Translates` violated by one of them. Where both sides do the same, store
  different known values (which are part of the key) or one side returns, it holds. `_fork` straight to the header does not go through `_arrive`, so that
  bytecode is unrolled there rather than joined.
* Minor: an instruction without p-code has no `InstructionStart`; the users of a removed phi are not
  passed on, so that phis that are not minimal can remain (folding removes them); only outputs the
  convention or a direct observer may look at are kept for indirect calls.

## 6. Theorems

All are proved by TLAPS for every value of the constants that satisfies the modules' assumptions.

* **`SearchProofs!TypeCorrect`** (`Spec => []TypeOK`), from `ProgramAssumption` and `SearchAssumption`.
  Type correctness is inductive by itself; it includes that stacks stay below the
  call depth and that at most one goal state is split off at a time.
* **`SearchProofs!AlwaysCovered`** (`Spec => []Covered`) and **`AlwaysExhaustive`**
  (`Spec => []UnsatIsExhaustive`), from these and `GoalwardAssumption`. The inductive invariant is
  `TypeOK /\ Covered /\ Screened /\ SplitAtCall /\ BetweenRuns /\ Drained /\ Claimed`. `Covered` alone
  is not inductive: when a call is dispatched one must know that the running state has no
  goal input left that `_call_conditions` should have split off (`Screened`), that split-off goal
  states exist only there (`SplitAtCall`), and that a popped state begins with no condition looked
  at (`BetweenRuns`). For the verdict one needs that the loop stops only with the heap empty, a
  budget gone or a goal reached (`Drained`), and that the verdict is drawn from the state it is read in
  (`Claimed`). The proof follows one input through each action: an action either keeps it on
  a state that still leads to the goal, or records a reason, or puts it into `dropped`.
* **`SearchProofs!SolutionsSound`** (`Spec => []SolutionsReachGoal`), **`OrderKept`**
  (`Spec => []FewestDecisionsFirst`) and **`NumbersDiffer`** (`Spec => []DistinctIds`), from the assumptions of
  `Program` and `Search`, `GoalwardConverse` among them. All three are about what a step makes of the
  running state: a state that goes on has the running state's number or a new one, is no shallower, and has
  inputs on their way to the goal only if they were so before the step (`Follows`); a goal state's inputs
  all were, and it is as deep as the running state (`Arrives`). Given that, ending a run (`Ending`) and
  going on with it (`GoingOn`) keep the invariant, once for all actions. The invariant is `Order /\ Truth /\
  Shunned`, on top of that of `Covered`. `Order`: no waiting state has the running one's
  number, and while nothing hurried, goal states are no deeper than what is alive and the running state is
  the shallowest. `Truth`: an input of a state on its way to the goal there is one that reaches the goal, and
  every input of a goal state reaches it. `Shunned`: inputs whose arguments were looked at are not avoided by
  them, without which a goal call could be taken for a solution although it prints what must not be printed.
* **`ConcolicProofs!TypeCorrect`, `AlwaysFrontier`** (`Spec => []Frontier`) and **`AlwaysExhaustive`**
  (`Spec => []UnsatIsExhaustive`), from `ConcolicAssumption`. `Frontier` is not inductive: a flip that was
  ever tried is not queued again, so what a run adds to the queue does not tell what still waits.
  The invariant says that an input leaves the followed path only at a choice that left a flip (`Trail`,
  `Apart`), that each finished run left, for every input that reaches the goal and is not on record, a flip
  that input takes and the followed one does not (`Traced`), and that a flip that has left the queue has an
  input that was followed (`Settled`). Of the inputs that were followed take one that stays with a given
  input longest: its flip on that input's way has no followed input, so it waits (`Waits`). The order in which
  flips are tried does not matter, nor what the solver gives up on, as long as that is in `lost`.
* **`ReachabilityProofs!TypeCorrect`, `PruningSound`** (`Spec => []PrunedNeverReachGoal`) and
  **`DenialStays`** (`Spec => DenialIsFinal`), from `ReachabilityAssumption`. The invariant adds to
  `TypeOK`: what `_backward` has is closed under predecessors up to its worklist (`Closing`),
  what it has handed over is closed and contains its seeds (`ReturnsKept`, `ReachesClosed`),
  functions this pass left unchanged satisfy the equations (`PassSoFar`), so all do when nothing
  changed (`Fixpoint`), and a denied walk is still denied (`Final`). `PruningSound` is what
  `GoalwardAssumption` asks of `CanReach`. **`FixpointExact`** (`Spec => []Exact`) says that the fixpoint is the
  least one. What is stored leads to the goal (`Led`, inductive on top of the invariant above): the seeds and
  the predecessors of what leads there do so too. It compares with `Leading`, the blocks found in as many rounds as
  there are blocks; that no more rounds are needed is a count: each round adds a block or is the last
  (`LeadingComplete`).

* **`PathMemoryProofs!TypeCorrect`, `TopIsPrivate`, `NothingOmitted`, `SameElsewhere`**
  (`Spec => []` of `TypeOK`, `OwnLayer`, `NoOmission`, `AgreeElsewhere`) and the refinement,
  **`Promised`** (`Spec => EachAsPromised`) and, with it, **`Implements`** (`Spec => PrivateCopies`:
  the layers are a `ForkMemory`, operation by operation), from `MemoryAssumption`.
  The conjunction of the four invariants is inductive. `OwnLayer` carries the rest:
  a write changes a layer that is at the top of one chain, in no other, and that no
  checkpoint stands on. A byte is read from the first layer of the chain that has it; that there is a first
  is `Least`, from the well-foundedness of `<`.

* **`ExportCacheProofs!TypeCorrect`, `WholeExports`, `RightExports`, `Undisturbed`**
  (`Spec => []` of `TypeOK`, `OnlyWholeExports`, `RightExport`, `OnlyClearsDisturb`) and the
  refinement, **`Implements`** (`Spec => ActsAsMap`), from `CacheAssumption`, for any number of
  commands and clears. The invariant says of each command what it knows at
  its stage (`StageOf`: which content it copied, and that what it stores was made from it), what its
  partial file holds (`PartialOf`: the whole export once it comes to the rename), and that only a clear
  can have taken the file it found or writes (`CountsOn`); of each name in the cache, that it holds
  a whole export of its binary, or of what somebody swapped for it (`WholeOf`). Every action but the
  rename and the clear's unlink touches one command and its own partial file, which is most of the argument
  (`Leaving`, `OthersStep`). In the refinement a command offers its export when it has loaded Ghidra's
  output, puts it at `os.replace`, and a clear takes it at the unlink; all else stutters.

* **`MergeProofs!AlwaysOneStateEach`** (`Spec => []OneStateEach`), from `MergeAssumption`, for any functions,
  inputs, visit limit and solver. A path is the sequence of its conditions, and a merged state's path is
  what its parts had met before the branch with, behind it, the union of what each has met since; so `_merge`
  is exact only if all it folds begin alike. The invariant therefore says of each region call that all it
  holds, and all the calls inside it hold, begins with the same `shared` conditions (`Common`); that an input
  is in one place of one part of the search (`Divided`, `TidyStack`); and, for `NoGhosts`, that what is outside
  of every region was found possible (`Possibly`). The lemmas follow the search: what a filter keeps
  (`Kept`, `Upto`, `Picks`), how a fork divides the inputs of a state, that folding the arrivals of a join holds
  what they held, and how a call that ends hands its parts to the one below it. Only the whole
  stack keeps the invariant: states that escape become `todo` of a call whose `shared` is smaller.

* **`StreamsProofs!AlwaysOnePathEach`** (`Spec => OnPaths = Inputs /\ []Exclusive /\ OnePathEach`), from `StreamAssumption`, for any inputs of one
  length, calls, solver and any number of calls. The invariant is `StreamsInv`: every path is at a place of what its
  stream holds, which is of one length for all its inputs, and the paths exclude each other. What carries the
  proof are lemmas about each of the models, which divide the inputs of a path (`Divides`) and keep them all
  (`Complete`) but for blanks. Where a model splits it does so on the length of a run of bytes, and each input has
  exactly one (`RunExists`, `RunUnique`); a `%d` needs for that a width that is not zero, which
  `parse_directives` refuses (`DirectiveOK`). A scan is followed through its directives: its parts, each taken
  through one more, are parts again (`PartsThen`). Which inputs are lost must be said of the stream each call finds,
  not of the whole input: a seek back after a cut leaves a short content, and `in >> s` there loses an input that
  does not end in a blank. (TLC shows this with four calls; the run makes three.)
* **`StreamsProofs!AlwaysFaithful`** (`Spec => []Faithful`), from the same assumption, in which `None` is neither a
  number nor `Eof`. The invariant is `FaithInv`: on top of `StreamsInv`, each input's own run is a record of what it
  has seen (`IsOwn`), and each path agrees with the runs of the inputs it speaks honestly of (`Agrees`). Results,
  memory and the string alone are not inductive: the next call reads on from a place, so that position and content
  must agree too, unless the stream was cut; and after a cut, where they differ, that nothing is left of the
  path's stream (`Drained`), so that whichever call looks at it next says so (`CutNotes`). For each call it is
  shown that each path of the model does what the interpreter's function does alone (`Follows`). A model that
  splits on a run of bytes and an interpreter that looks for the byte behind it find one place (`RunBefore`,
  `BeforeUnique`); a scan goes side by side with the interpreter's, directive by directive (`Locks`): at one place, with as
  many values assigned and stored, ended by the same directive. Inputs taken through the three places
  of `Strays` are left out of `Honest` from then on, as in the run.
* **`StreamsProofs!AlwaysAnswerReplays`** (`Spec => []AnswerReplays`), from the same assumption, in which `Small` is not
  zero (a `std::string` keeps fifteen bytes in its object): what `stdin_solution` makes of a path's windows
  shows the program, run on that alone, what the path showed it, for programs whose reads are all written
  down and that left no byte they had looked at. The invariant is `FaithInv /\ ReplaysInv`. That the run on the answer
  has done the same so far is not inductive: the next call makes the answer longer, and the calls before it must have
  done the same on the longer one. `ReplaysInv` therefore says that the windows end at or before the place where the
  run is, and that for every n from their end to the end of the input the run on the first n bytes has done the
  same (`Shown`, `Cuts`). For each call there are two things to show. Its windows show what its run has read
  (`Tells`, `Shows`): scans and reads hand out exactly that, `gets` and `fgets` a line that `Window` closes behind
  its newline, and `getline` may leave out the newline itself, since a path that was split off for
  short strings hands out no more than `Small` bytes. And a run with no less than that to read does the same
  (`AloneCuts`): through the directives of a scan, side by side with the scan of the whole (`Twin`), and for a getline
  that finds the end of the input where there was a newline (`LineEnds`). A scan that stopped at a byte
  it looked at and left would find the end of the input there instead, hence `~peeked`. `Consumed` and
  `Replay` are recursive functions; that they exist, and what one more step makes of them, is proved here
  (`ConsumingExists`, `ConsumedMore`, `RerunningExists`, `RerunMore`).

* **`SolveProofs`**, from the assumptions of `Solve`, `JobsAssumption` among them, and of `Sandbox`, for any
  jobs, budgets and sizes. **`NothingLeftRunning`** (`Spec => []NothingRuns`) and **`AlwaysOutputKept`**
  (`Spec => []OutputKept`) follow from `SandboxInv`: where the waiting thread is tells what it knows of
  client and container (`Contained`), and what was written is in the pipe or was drained, and of that the
  first part is kept (`Drained`). **`AlwaysUnsatMeansNone`, `AlwaysAnswersTaken`, `AlwaysAnswersVerify`**
  (`Spec => []` of `UnsatMeansNone`, `AnswersTaken`, `AnswersVerify`) follow from `SearchInv`, which is
  `Phases /\ Explored /\ Answering /\ Covered`: an exploration that found nothing and was cut short by nothing
  had nothing to find; each solution is an answer of an input of its path; each path that was
  looked at is settled, is looked at, or waits for its second look. `AnswersVerify` needs that an
  answer fills to an input that takes the path the answered one takes (what is cut off is what no path has
  read), and that executor and replay stop at the same outcome (`SameWatch`). **`AlwaysShortestFirst`**
  (`Spec => []ShortestFirst`) follows from `Narrowed` on top of that: every shortest input has its bounds
  between the ends of the search that is going on, and behind those that are fixed.
  **`AlwaysChainDrives`** (`Spec => []ChainDrives`) follows from `Chaining`, also on top of `SearchInv`: the
  stages that were solved are the first of the plan, and each accepts its line; a number that
  `_render_numbers` has signed is read as the number it was (`RenderedPasses`). What takes the lines through
  the driver is an induction over its calls (`DriverAccepts`, from `GoesOnDriving`): before each call as many
  lines are read as calls so far read one, and the line last read is the answer to the stage that is called
  (`StagesAre`: the plan has the k-th stage that main calls in the k-th place). That a driver reads so, a line
  for each stage and nothing checked but by stages, is `GivesEachALine`; `JobsAssumption` has it for the jobs marked
  `staged`, and without it the code has no reason to expect the lines to fit.

The runs repeat what is proved where that is cheap; `OwnLayer`, `OutputKept` and the types of `PathMemory`
and `Reachability` are proved and not run.

Model-checked only:

* `Termination`, `Settles`, `EveryoneEnds`, `Returns` and `AttemptsEnd`: liveness, or with it.
* `LoopsStayMerged` and `AddressesStayKnown` of `Merge`: true of the functions of the run that they are about,
  not of all; what a function must be like for them is what `Regions` computes.
* `Pipeline` and `Specialize`: their algorithms are recursive over programs, in recursive operators.

## 7. Not modelled

* Expression folding, encoding and bit-vector arithmetic of the symbolic engine: data; `Search` keeps
  what an expression denotes. Z3: external; assumed never to lie, and to give up as it likes.
* Parsing of Ghidra's JSON and finding an installation: I/O without state.
* Heuristics that rank goals and inputs by words in strings (`Goals` has their result), detection of
  interpreters (`vm/detect.py`), which proposes what `Specialize` is given, `vm/lift.py`, which takes the
  snapshot and prints a listing, and the listing's records.
* Library models of strings, formatting, numbers in memory and the heap; jump tables and
  floating-point p-code in `Lift`; printing and parsing of RevIR; process startup
  (initializers) of the interpreter.
* Emission of source, rendering, the command line.
* Helper functions and indirect jumps inside a merged region; values a concolic seed does not assign.
