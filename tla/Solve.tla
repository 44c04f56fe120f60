---------------------------------- MODULE Solve ----------------------------------
(***************************************************************************)
(* solve_module (solve.py): from a request to a status and the inputs that *)
(* answer it.                                                              *)
(*                                                                         *)
(* The symbolic search is in Search and Concolic; here it is a sequence of *)
(* goal paths, found one after another until a budget ends it.  A path     *)
(* stands for the set of inputs that take it.  Every question to the       *)
(* solver is a step of its own, answered truthfully or not at all: and no  *)
(* answer, in solve_with, is the answer to an impossible question.         *)
(* _solutions takes those questions apart (shortest, extract); then an     *)
(* answer is replayed and, when asked for, run in the sandbox.             *)
(***************************************************************************)
EXTENDS Inputs, Goals, Chain, Sandbox, Integers

CONSTANTS
    Jobs,              \* what can be asked: see MCSolve
    PreferencePaths,   \* PREFERENCE_PATHS
    BruteMaxLength,    \* _BRUTE_MAX_LENGTH
    BruteCap,          \* _BRUTE_CANDIDATE_CAP
    Width              \* bits of a number that sscanf stores

\* What becomes of a search that proves nothing.
Fallback == {"budget exhausted", "analysis incomplete", "unsupported semantics", "unknown"}

\* A path reads what there is, and nothing else tells the inputs that take it from others:
\* not the bytes behind what it reads.
PathOK(path, kinds) ==
    /\ Len(path.reads) \in Nat /\ DOMAIN path.reads = 1..Len(path.reads)
    /\ \A n \in DOMAIN path.reads :
          LET window == path.reads[n]
          IN window[1] \in 0..kinds.stdin /\ window[2] \in window[1]..kinds.stdin
    /\ path.readTo \in 0..kinds.file
    /\ \A i \in path.takes :
          \A stdin \in [1..kinds.stdin -> AnyByte], file \in [1..kinds.file -> AnyByte] :
             /\ \A p \in 1..ReadTo(i.stdin, path.reads) : stdin[p] = i.stdin[p]
             /\ \A p \in 1..path.readTo : file[p] = i.file[p]
             => [argv |-> i.argv, stdin |-> stdin, file |-> file] \in path.takes

\* How many of the first n calls of main read a line, and how many are stages.
ReadersAmong(calls, n) ==
    Cardinality({k \in 1..n : calls[Main][k] \in DOMAIN calls /\ IsReader(calls, calls[Main][k])})
StagesAmong(calls, sink, n) == Cardinality({k \in 1..n : IsStage(calls, sink, calls[Main][k])})

\* A driver reads each stage a line of its own: the n-th line is the last one read when the n-th
\* stage is called, no line is read behind them, and nothing else that it calls checks one.
GivesEachALine(calls, functions, sink) ==
    LET main == calls[Main]
    IN /\ \A n \in DOMAIN main : IsStage(calls, sink, main[n]) =>
             main[n] \in DOMAIN functions /\ ReadersAmong(calls, n) = StagesAmong(calls, sink, n)
       /\ \A f \in Range(main) \cap DOMAIN calls \cap DOMAIN functions :
             IsReader(calls, f) \/ IsStage(calls, sink, f)
       /\ ReadersAmong(calls, Len(main)) <= StagesAmong(calls, sink, Len(main))

\* Numbers that sscanf stores have its width.
FunctionOK(paths) ==
    /\ Len(paths) \in Nat /\ DOMAIN paths = 1..Len(paths)
    /\ \A k \in DOMAIN paths : paths[k].numbers \in Seq(0..(2^Width - 1))

ChainOK(program, staged) ==
    /\ program.calls[Main] \in Seq(Range(program.calls[Main]))
    /\ \A f \in DOMAIN program.functions : FunctionOK(program.functions[f])
    /\ staged => \A sink \in Sinks(program.calls) :
                    GivesEachALine(program.calls, program.functions, sink)

\* No input takes two paths.
JobOK(j) ==
    LET paths == j.program.paths
    IN /\ j.mode \in {"module", "from", "chain"}
       /\ \A n \in {j.kinds.argv, j.kinds.stdin, j.kinds.file, j.request.length,
                    j.request.maxLength, Len(j.request.prefix), Len(j.request.suffix), Len(paths)} :
             n \in Nat
       /\ j.request.solutions \in Int
       /\ j.request.strategy \in {"auto", "symbolic", "concolic", "brute"}
       /\ j.offered = Offered(j.kinds, j.request)
       /\ j.program.outcome \in Fallback
       /\ DOMAIN paths = 1..Len(paths)
       /\ \A k \in DOMAIN paths : PathOK(paths[k], j.kinds)
       /\ \A k, l \in DOMAIN paths : k # l => paths[k].takes \cap paths[l].takes = {}
       /\ j.mode = "chain" => ChainOK(j.program, j.staged)

ASSUME JobsAssumption == \A j \in Jobs : JobOK(j)
ASSUME WidthAssumption == Width \in Nat \ {0} /\ 2^Width \in Nat \ {0}

VARIABLES
    job,           \* what is asked: a program, a request, how to answer it
    goal, avoid,   \* the outcomes chosen
    at,            \* where solve_module is
    run,           \* the exploration: goal paths it meets, how many are found, how it ended
    by,            \* the strategy at work
    index,         \* how many of them _solutions has looked at
    unpreferred,   \* those without an input it prefers, in its order
    look,          \* extract, at work on one path
    solutions,
    status,
    plan,          \* the functions to solve on their own, in order
    lines,         \* the lines that answer them
    sure           \* history: no question that has an answer went without

control == <<job, goal, avoid, by>>
progress == <<index, unpreferred>>
results == <<solutions, status, plan, lines>>
vars == <<control, at, run, progress, look, results, sure, sandboxVars>>

Request == job.request
Program == job.program
Kinds == job.kinds
\* The inputs the request admits: those that satisfy the initial state's constraints.
Admitted == job.offered
Path(k) == Program.paths[k]
NotLooking == [path |-> 0]
NoGoal == Given(0, "none")

\* The numbers of a set, smallest first.
InOrder(S) ==
    CHOOSE q \in [1..Cardinality(S) -> S] : \A j, k \in DOMAIN q : j < k => q[j] < q[k]

\* Paths that reach the goal, in the order the search meets them: those some input takes, and
\* those it has not noticed that none does.
GoalPaths == InOrder({k \in DOMAIN Program.paths :
                         /\ FirstSearched(Path(k).trace, goal, avoid) = "goal"
                         /\ Path(k).stale \/ Path(k).takes \cap Admitted # {}})

NotRun == [met |-> <<>>, found |-> 0, ended |-> "no"]

Init ==
    /\ job \in Jobs
    /\ goal = NoGoal /\ avoid = {} /\ at = "start" /\ by = "symbolic"
    /\ run = NotRun /\ index = 0 /\ unpreferred = <<>> /\ look = NotLooking
    /\ solutions = <<>> /\ status = "analysis incomplete" /\ plan = <<>> /\ lines = <<>> /\ sure = TRUE
    /\ SandboxInit

-----------------------------------------------------------------------------
(* Strategies.                                                              *)

\* _select_goals and the choice of what to begin with.
Select ==
    /\ at = "start" /\ job.mode = "module"
    /\ LET chosen == ChosenGoals(Program, Request)
       IN IF chosen = {} THEN at' = "failed" /\ UNCHANGED <<goal, avoid, by>>
          ELSE \E g \in chosen :
                  /\ goal' = g /\ avoid' = Avoided(Program, Request, g)
                  /\ by' = IF Request.strategy = "auto" THEN "symbolic" ELSE Request.strategy
                  /\ at' = IF Request.strategy = "brute" THEN "brute" ELSE "explore"
    /\ UNCHANGED <<job, run, progress, look, results, sure, sandboxVars>>

\* Executor.resume: n goal paths in all (one more when the last step meets two), unless a
\* budget runs out, or the others are cut short (by a question without an answer, by code that
\* is not modelled).
Found(met, before, n) ==
    LET Met(k, e) == [met |-> met, found |-> k, ended |-> e]
    IN {Met(k, "no") : k \in n..Least(n + 1, Len(met))}
       \cup {Met(k, "exhausted") : k \in {Len(met)} \cap 0..(n + 1)}
       \cup {Met(k, "budget") : k \in before..Least(n - 1, Len(met))}
       \cup {Met(k, "cut") : k \in before..(Least(n, Len(met)) - 1)}

Explore ==
    /\ at = "explore" /\ by = "symbolic"
    /\ run' \in Found(GoalPaths, 0, Largest(1, Request.solutions))
    /\ at' = "pick"
    /\ UNCHANGED <<control, progress, look, results, sure, sandboxVars>>

\* A path that an input takes can be followed.
Followed == {k \in Range(GoalPaths) : Path(k).takes \cap Admitted # {}}

\* concolic_search ends at the first goal path; only then, or when it was asked for by
\* name, does its exploration replace the other one.
Concolic ==
    /\ at = "explore" /\ by = "concolic"
    /\ \/ \E k \in Followed :
            run' = [met |-> <<k>>, found |-> 1, ended |-> "exhausted"] /\ at' = "pick"
       \/ /\ Request.strategy = "concolic"
          /\ \E e \in {"budget", "cut"} \cup (IF Followed = {} THEN {"exhausted"} ELSE {}) :
                run' = [met |-> <<>>, found |-> 0, ended |-> e]
          /\ at' = "pick"
       \/ /\ Request.strategy = "auto"
          /\ at' = "done" /\ UNCHANGED run
    /\ index' = 0 /\ unpreferred' = <<>>
    /\ UNCHANGED <<control, look, results, sure, sandboxVars>>

\* Mutant: a path that was found and gave no answer is taken for one that was not.
StatusOfSearch ==
    IF solutions # <<>> THEN "sat"
    ELSE IF run.ended = "budget" THEN "budget exhausted"
    ELSE IF run.ended = "cut" THEN IF by = "symbolic" THEN Program.outcome ELSE "analysis incomplete"
    ELSE IF Program.complete THEN "unsat" ELSE "analysis incomplete"

\* _status and _concolic_status.  Program.outcome is what becomes of a search that is cut short.
Status ==
    IF solutions # <<>> THEN "sat"
    ELSE IF run.found > 0 THEN "unknown"
    ELSE IF run.ended = "budget" THEN "budget exhausted"
    ELSE IF run.ended = "cut" THEN IF by = "symbolic" THEN Program.outcome ELSE "analysis incomplete"
    ELSE IF Program.complete THEN "unsat" ELSE "analysis incomplete"

Conclude ==
    /\ at = "status"
    /\ status' = Status
    /\ IF by = "symbolic" /\ Request.strategy = "auto" /\ Status \in Fallback
       THEN by' = "concolic" /\ at' = "explore" ELSE by' = by /\ at' = "done"
    /\ UNCHANGED <<job, goal, avoid, run, progress, look, solutions, plan, lines, sure, sandboxVars>>

-----------------------------------------------------------------------------
(* _solutions.                                                              *)

HasPreference == Request.charset = {}
Enough == Len(solutions) >= Request.solutions

LookAt(k, preferred, second) ==
    [path |-> k, preferred |-> preferred, second |-> second, ends |-> <<>>, low |-> 0, high |-> 0, line |-> 0,
     bounded |-> TRUE, blocked |-> {}, found |-> FALSE]

PickPath ==
    /\ at = "pick" /\ ~Enough /\ index < run.found
    /\ look' = LookAt(run.met[index + 1], HasPreference, FALSE)
    /\ index' = index + 1 /\ at' = "ask"
    /\ UNCHANGED <<control, run, unpreferred, results, sure, sandboxVars>>

\* A few more goal paths are looked for when those found gave nothing that is preferred.
MorePaths ==
    /\ at = "pick" /\ ~Enough /\ index >= run.found
    /\ HasPreference /\ index < PreferencePaths /\ run.ended \notin {"exhausted", "cut"}
    /\ \E more \in (IF run.ended = "budget" THEN {run} ELSE Found(run.met, run.found, index + 1)) :
          /\ run' = more
          /\ at' = IF index >= more.found THEN "again" ELSE "pick"
    /\ UNCHANGED <<control, progress, look, results, sure, sandboxVars>>

NoMorePaths ==
    /\ at = "pick"
    /\ Enough \/ (index >= run.found
                  /\ (~HasPreference \/ index >= PreferencePaths \/ run.ended \in {"exhausted", "cut"}))
    /\ at' = "again"
    /\ UNCHANGED <<control, run, progress, look, results, sure, sandboxVars>>

\* Mutant: printable input is required.
NeverAgain ==
    /\ at = "again"
    /\ at' = "status"
    /\ UNCHANGED <<control, run, progress, look, results, sure, sandboxVars>>

\* The paths without a preferred input, without the preference.
Again ==
    /\ at = "again"
    /\ IF unpreferred = <<>> \/ Enough
       THEN at' = "status" /\ UNCHANGED <<unpreferred, look>>
       ELSE /\ look' = LookAt(Head(unpreferred), FALSE, TRUE)
            /\ unpreferred' = Tail(unpreferred) /\ at' = "ask"
    /\ UNCHANGED <<control, run, index, results, sure, sandboxVars>>

-----------------------------------------------------------------------------
(* extract, one question after another.                                     *)

Fits(i, q) ==
    /\ q.preferred => Printably(i)
    /\ \A k \in DOMAIN q.ends : i.argv[k][q.ends[k]] = NUL
    /\ q.line > 0 => NEWLINE \in Range(SubSeq(i.stdin, 1, q.line))
    /\ \A answer \in q.blocked : ~Blocks(answer, i)
Models(q) == {i \in Path(q.path).takes \cap Admitted : Fits(i, q)}
Unbounded(q) == [q EXCEPT !.ends = <<>>, !.line = 0]

\* Every answer but the truth is a silence.
Answers(q) == IF Models(q) = {} THEN {FALSE} ELSE {TRUE, FALSE}
Silence(q, answer) == sure' = (sure /\ (answer \/ Models(q) = {}))

\* Where extract goes when it is done with the length of argv strings: to the first line.
NextBound(q) ==
    IF Len(q.ends) < Kinds.argv
    THEN look' = [q EXCEPT !.low = 1, !.high = ArgvCapacity(Request)] /\ at' = "bisect"
    ELSE look' = q /\ at' = IF Kinds.stdin > 0 THEN "line" ELSE "model"

\* Back to the loop over the paths.
Back(found) ==
    /\ at' = IF look.second THEN "again" ELSE "pick"
    /\ unpreferred' = IF ~look.second /\ look.preferred /\ ~found
                      THEN Append(unpreferred, look.path) ELSE unpreferred
    /\ look' = NotLooking

Ask ==
    /\ at = "ask"
    /\ \E answer \in Answers(look) :
          /\ Silence(look, answer)
          /\ IF answer THEN NextBound(look) /\ UNCHANGED unpreferred ELSE Back(FALSE)
    /\ UNCHANGED <<control, run, index, results, sandboxVars>>

\* Mutant: the middle is left out when it will do.
HalvedBelow(q, middle, answer) ==
    IF answer THEN [q EXCEPT !.high = middle - 1] ELSE [q EXCEPT !.low = middle + 1]

Halved(q, middle, answer) ==
    IF answer THEN [q EXCEPT !.high = middle] ELSE [q EXCEPT !.low = middle + 1]

Bisect ==
    /\ at = "bisect" /\ look.low < look.high
    /\ LET middle == (look.low + look.high) \div 2
           q == [look EXCEPT !.ends = Append(@, middle)]
       IN \E answer \in Answers(q) :
             look' = Halved(look, middle, answer) /\ Silence(q, answer)
    /\ UNCHANGED <<control, at, run, progress, results, sandboxVars>>

Bisected ==
    /\ at = "bisect" /\ look.low >= look.high
    /\ NextBound([look EXCEPT !.ends = Append(@, look.low)])
    /\ UNCHANGED <<control, run, progress, results, sure, sandboxVars>>

\* _shortest_line: can the first line end at all?
AskLine ==
    /\ at = "line"
    /\ LET q == [look EXCEPT !.line = Kinds.stdin]
       IN \E answer \in Answers(q) :
             /\ Silence(q, answer)
             /\ look' = [look EXCEPT !.low = 1, !.high = Kinds.stdin]
             /\ at' = IF answer THEN "bisectLine" ELSE "model"
    /\ UNCHANGED <<control, run, progress, results, sandboxVars>>

BisectLine ==
    /\ at = "bisectLine" /\ look.low < look.high
    /\ LET middle == (look.low + look.high) \div 2
           q == [look EXCEPT !.line = middle]
       IN \E answer \in Answers(q) :
             look' = Halved(look, middle, answer) /\ Silence(q, answer)
    /\ UNCHANGED <<control, at, run, progress, results, sandboxVars>>

BisectedLine ==
    /\ at = "bisectLine" /\ look.low >= look.high
    /\ look' = [look EXCEPT !.line = look.low] /\ at' = "model"
    /\ UNCHANGED <<control, run, progress, results, sure, sandboxVars>>

Bounded(q) == q.ends # <<>> \/ q.line > 0
AlreadySeen(answer) == \E k \in DOMAIN solutions : Seen(solutions[k].answer) = Seen(answer)

\* A model: an answer, blocked from now on.
Model ==
    /\ at = "model" /\ ~Enough
    /\ \E i \in Models(look) :
          LET answer == Answer(i, Path(look.path))
          IN /\ look' = [look EXCEPT !.blocked = @ \cup {answer}, !.found = TRUE]
             /\ IF AlreadySeen(answer) THEN UNCHANGED <<at, solutions>>
                ELSE /\ at' = "verify"
                     /\ solutions' = Append(solutions, [answer |-> answer, path |-> look.path,
                                                        verified |-> FALSE, native |-> "none"])
    /\ UNCHANGED <<control, run, progress, status, plan, lines, sure, sandboxVars>>

\* Other solutions may need longer strings.
Unbind ==
    /\ at = "model" /\ ~Enough /\ Bounded(look) /\ FALSE \in Answers(look)
    /\ look' = Unbounded(look) /\ Silence(look, FALSE)
    /\ UNCHANGED <<control, at, run, progress, results, sandboxVars>>

Extracted ==
    /\ at = "model"
    /\ \/ Enough /\ UNCHANGED sure
       \/ ~Enough /\ ~Bounded(look) /\ FALSE \in Answers(look) /\ Silence(look, FALSE)
    /\ Back(look.found)
    /\ UNCHANGED <<control, run, index, results, sandboxVars>>

-----------------------------------------------------------------------------
(* _verify: the replay, and the native run.                                 *)

\* run_program, of a program whose inputs are told apart by their paths.
Trace(i) == LET k == CHOOSE k \in DOMAIN Program.paths : i \in Path(k).takes IN Path(k).trace
Reached(answer) ==
    FirstWatched(Trace(Replayed(answer, Kinds, ArgvCapacity(Request))), goal, avoid) = "goal"

Latest == Len(solutions)
AfterVerify == at' = IF by = "brute" THEN "done" ELSE "model"

\* An answer that needs a debugger, a time or a file is not run natively.
Verify ==
    /\ at = "verify"
    /\ LET answer == solutions[Latest].answer
           needs == Kinds.file > 0 \/ (by # "brute" /\ Path(solutions[Latest].path).special)
           native == IF ~Request.native THEN "none" ELSE IF needs THEN "not run" ELSE "running"
       IN /\ solutions' = [solutions EXCEPT ![Latest].verified = Reached(answer),
                                            ![Latest].native = native]
          /\ IF native = "running" THEN at' = "native" /\ StartRun
             ELSE AfterVerify /\ UNCHANGED sandboxVars
    /\ status' = IF by = "brute" THEN "sat" ELSE status
    /\ UNCHANGED <<control, run, progress, look, plan, lines, sure>>

\* _run_native: what was kept of the output is searched for the goal's text.
NativeEnds ==
    /\ at = "native" /\ waiter = "ended"
    /\ \E result \in IF exit = "timeout" THEN {"failed"}
                     ELSE IF goal.text = Silent THEN {"nothing to look for"}
                     ELSE IF kept["stdout"] = 0 THEN {"failed"} ELSE {"failed", "passed"} :
          solutions' = [solutions EXCEPT ![Latest].native = result]
    /\ AfterVerify
    /\ UNCHANGED <<control, run, progress, look, status, plan, lines, sure, sandboxVars>>

\* A SandboxError, or the removal's timeout, ends solve_module, with all it has found.
NativeRaises ==
    /\ at = "native" /\ waiter = "raised"
    /\ at' = "failed" /\ solutions' = <<>>
    /\ UNCHANGED <<control, run, progress, look, status, plan, lines, sure, sandboxVars>>

-----------------------------------------------------------------------------
(* Brute force: one argv string, or stdin.  `index` counts what was tried.   *)

Alphabet == SetToSeq(IF Request.charset = {} THEN Printable ELSE Request.charset)
Spaces(lengths) == FoldLeft(LAMBDA sum, l : sum + Len(Alphabet)^l, 0, lengths)

\* Lengths, as long as all of them fit under the cap.
Fitting ==
    LET longest == IF Kinds.argv > 0 THEN ArgvCapacity(Request) - 1 ELSE Kinds.stdin
        lengths == IF Request.length > 0 THEN <<Request.length>>
                   ELSE [l \in 1..Least(longest, BruteMaxLength) |-> l]
    IN FoldLeft(LAMBDA fit, l : IF Spaces(Append(fit, l)) <= BruteCap THEN Append(fit, l) ELSE fit,
                <<>>, lengths)

\* The n-th string of the lengths: shortest first, then in the order of the alphabet.
NthCandidate(n) ==
    LET k == CHOOSE k \in DOMAIN Fitting :
                 Spaces(SubSeq(Fitting, 1, k - 1)) <= n /\ n < Spaces(SubSeq(Fitting, 1, k))
        rest == n - Spaces(SubSeq(Fitting, 1, k - 1))
    IN [p \in 1..Fitting[k] |->
            Alphabet[((rest \div Len(Alphabet)^(Fitting[k] - p)) % Len(Alphabet)) + 1]]

Try ==
    /\ at = "brute" /\ index < Spaces(Fitting)
    /\ Kinds.argv + (IF Kinds.stdin > 0 THEN 1 ELSE 0) = 1 /\ Kinds.file = 0
    /\ LET s == NthCandidate(index)
           answer == [argv |-> IF Kinds.argv > 0 THEN s ELSE None,
                      stdin |-> IF Kinds.stdin > 0 THEN s ELSE None, file |-> None]
       IN IF Reached(answer)
          THEN /\ solutions' = <<[answer |-> answer, path |-> 0, verified |-> FALSE, native |-> "none"]>>
               /\ at' = "verify" /\ UNCHANGED index
          ELSE index' = index + 1 /\ UNCHANGED <<at, solutions>>
    /\ UNCHANGED <<control, run, unpreferred, look, status, plan, lines, sure, sandboxVars>>

\* All tried, the deadline, or an input it does not handle: the status stays what it was.
GiveUp ==
    /\ at = "brute"
    /\ at' = "done"
    /\ UNCHANGED <<control, run, progress, look, results, sure, sandboxVars>>

-----------------------------------------------------------------------------
(* Functions in isolation, and chains of them.  The functions of a program   *)
(* have paths of their own, told apart by the line in their first argument   *)
(* or, when they read numbers with sscanf, by those.                         *)

Function(f) == Program.functions[f]

SelectFunctions ==
    /\ at = "start" /\ job.mode # "module"
    /\ IF job.mode = "from" THEN plan' = <<job.from>> /\ at' = "stage"
       ELSE IF Sinks(Program.calls) = {} THEN plan' = <<>> /\ at' = "failed"
       ELSE \E sink \in Sinks(Program.calls) :
               /\ plan' = Stages(Program.calls, sink)
               /\ at' = IF plan' = <<>> THEN "failed" ELSE "stage"
    /\ UNCHANGED <<control, run, progress, look, solutions, status, lines, sure, sandboxVars>>

Stage == plan[Len(lines) + 1]
Returning(f) == InOrder({k \in DOMAIN Function(f) : Function(f)[k].returns})

ExploreStage ==
    /\ at = "stage"
    /\ run' \in Found(Returning(Stage), 0, Largest(1, Request.solutions))
    /\ at' = "stageModel"
    /\ UNCHANGED <<control, progress, look, results, sure, sandboxVars>>

\* _render_numbers: each number as signed at its width.
Signed(raw) == IF raw >= 2^(Width - 1) THEN raw - 2^Width ELSE raw
Rendered(path, line) ==
    IF path.numbers = <<>> THEN [text |-> line, numbers |-> <<>>]
    ELSE [text |-> None, numbers |-> [k \in DOMAIN path.numbers |-> Signed(path.numbers[k])]]

Passes(f, line) ==
    \E k \in DOMAIN Function(f) :
       LET path == Function(f)[k] IN
       /\ path.returns
       /\ IF path.numbers = <<>> THEN line.text \in path.lines
          ELSE line.numbers # <<>> /\ [j \in DOMAIN line.numbers |-> line.numbers[j] % 2^Width] = path.numbers

\* A call of the driver, given the lines: what reads takes the next one, what checks is given
\* the last one that was read.
Called(given, d, f) ==
    IF f \notin DOMAIN Program.calls THEN d
    ELSE IF IsReader(Program.calls, f)
         THEN IF d.read = Len(given) THEN [d EXCEPT !.ok = FALSE]
              ELSE [read |-> d.read + 1, line |-> given[d.read + 1], ok |-> d.ok]
    ELSE IF f \in DOMAIN Program.functions THEN [d EXCEPT !.ok = d.ok /\ Passes(f, d.line)]
    ELSE d

NoLine == [text |-> None, numbers |-> <<>>]
DriverPasses(given) ==
    LET after[n \in 0..Len(Program.calls[Main])] ==
            IF n = 0 THEN [read |-> 0, line |-> NoLine, ok |-> TRUE]
            ELSE Called(given, after[n - 1], Program.calls[Main][n])
    IN after[Len(Program.calls[Main])].ok

Answered(given) ==
    <<[answer |-> given, path |-> 0,
       verified |-> job.mode = "chain" /\ DriverPasses(given), native |-> "none"]>>

\* Mutant: a stage without an answer is passed over.
StageModelOrNot ==
    /\ at = "stageModel" /\ run.found = 0
    /\ plan' = SubSeq(plan, 1, Len(lines)) \o SubSeq(plan, Len(lines) + 2, Len(plan))
    /\ at' = IF Len(lines) < Len(plan') THEN "stage" ELSE "done"
    /\ status' = IF lines = <<>> THEN "unsat" ELSE "sat"
    /\ solutions' = IF at' = "stage" \/ lines = <<>> THEN <<>> ELSE Answered(lines)
    /\ UNCHANGED <<control, run, progress, look, lines, sure, sandboxVars>>

\* The stage has no answer: its status is the chain's, and nothing behind it is solved.
StageFails ==
    /\ at = "stageModel"
    /\ status' = IF run.found > 0 THEN "unknown" ELSE IF run.ended = "budget" THEN "budget exhausted"
                 ELSE IF run.ended = "cut" THEN Program.outcome ELSE "unsat"
    /\ run.found > 0 => sure' = FALSE
    /\ run.found = 0 => UNCHANGED sure
    /\ at' = "done"
    /\ UNCHANGED <<control, run, progress, look, solutions, plan, lines, sandboxVars>>

\* A model of the first path that returns; the last stage's answer makes the solution.
StageModel ==
    /\ at = "stageModel" /\ run.found > 0
    /\ LET path == Function(Stage)[run.met[1]]
       IN \E line \in path.lines : lines' = Append(lines, Rendered(path, line))
    /\ IF Len(lines') < Len(plan) THEN at' = "stage" /\ UNCHANGED <<solutions, status>>
       ELSE at' = "done" /\ status' = "sat" /\ solutions' = Answered(lines')
    /\ UNCHANGED <<control, run, progress, look, plan, sure, sandboxVars>>

-----------------------------------------------------------------------------

Searching == Select \/ Explore \/ Concolic \/ Conclude \/ PickPath \/ MorePaths \/ NoMorePaths \/ Again
Extracting ==
    \/ Ask \/ Bisect \/ Bisected \/ AskLine \/ BisectLine \/ BisectedLine
    \/ Model \/ Unbind \/ Extracted
Checking == Verify \/ NativeEnds \/ NativeRaises
Solving == Searching \/ Extracting \/ Checking \/ Try \/ GiveUp
           \/ SelectFunctions \/ ExploreStage \/ StageFails \/ StageModel

Native ==
    /\ Waiting \/ Working \/ Runtime \/ Target
    /\ UNCHANGED <<control, at, run, progress, look, results, sure>>

Next == Solving \/ Native

Spec == Init /\ [][Next]_vars /\ WF_vars(Solving) /\ SandboxFairness

-----------------------------------------------------------------------------

TypeOK ==
    /\ SandboxTypeOK
    /\ at \in {"start", "explore", "pick", "again", "ask", "bisect", "line", "bisectLine", "model",
               "verify", "native", "brute", "stage", "stageModel", "status", "done", "failed"}
    /\ run.found \in 0..Len(run.met)
    /\ Len(solutions) <= Largest(1, Request.solutions) /\ sure \in BOOLEAN

\* How long the strings of an input are.
ArgvLength(i, k) == Len(Before(i.argv[k], NUL))
LineLength(i) == Len(Before(i.stdin, NEWLINE))
Shorter(i, j) ==
    \/ \E k \in DOMAIN i.argv : /\ ArgvLength(i, k) < ArgvLength(j, k)
                                /\ \A l \in 1..(k - 1) : ArgvLength(i, l) = ArgvLength(j, l)
    \/ /\ \A k \in DOMAIN i.argv : ArgvLength(i, k) = ArgvLength(j, k)
       /\ LineLength(i) < LineLength(j)
Shortest(S) == {i \in S : ~ \E j \in S : Shorter(j, i)}

\* The questions about lengths leave the shortest inputs of a path, all of them and no
\* others: the first argv string as short as it can be, then the next, then the first line of
\* stdin ended as early as it can be.  (No bound can be put on a string that fills its bytes,
\* and with one among the shortest inputs none may be left.)
ShortestFirst ==
    LET shortest == Shortest(Models(Unbounded(look)))
        ending == \A i \in shortest : \A k \in DOMAIN i.argv : NUL \in Range(i.argv[k])
    IN at = "model" /\ sure /\ Bounded(look) /\ look.blocked = {} /\ ending =>
           Models(look) = shortest

\* When the solver always answered, each answer that a goal path has is among the solutions,
\* unless there are as many as asked for: the preference for printable input costs none, but
\* on a path that has some, where the others are never asked for.
AnswersTaken ==
    at = "done" /\ job.mode = "module" /\ by # "brute" /\ sure /\ ~Enough =>
        \A k \in {run.met[n] : n \in 1..run.found} : \A i \in Path(k).takes \cap Admitted :
            \/ AlreadySeen(Answer(i, Path(k)))
            \/ HasPreference /\ ~Printably(i)
               /\ \E j \in Path(k).takes \cap Admitted : Printably(j)

\* What is called unsatisfiable is: no input the request admits makes the program reach the
\* goal when it is run, however often the solver was silent.
UnsatMeansNone ==
    at = "done" /\ job.mode = "module" /\ by # "brute" /\ status = "unsat" =>
        \A k \in DOMAIN Program.paths :
            FirstWatched(Path(k).trace, goal, avoid) = "goal" => Path(k).takes \cap Admitted = {}

\* An answer of the search takes the program to the goal when it is replayed: it holds what
\* the path has read, and the watches stop where the search did.  Two argv strings are given the
\* same answer, and of a file read by lines only the first line is kept.
AnswersVerify ==
    \A n \in DOMAIN solutions :
        at \in {"pick", "again", "done"} /\ job.mode = "module" /\ by # "brute"
        /\ Kinds.argv <= 1 /\ ~Path(solutions[n].path).byLine => solutions[n].verified

\* A driver whose stages are each given a line of their own passes them all with the lines
\* that were found for them one by one; there is one for each stage.
ChainDrives ==
    at = "done" /\ job.mode = "chain" /\ status = "sat" =>
        /\ Len(lines) = Len(plan) /\ Len(solutions) = 1
        /\ job.staged => solutions[1].verified

\* solve_module comes to an end, whatever the target and the container runtime do.
Returns == <>(at \in {"done", "failed"})
=============================================================================
