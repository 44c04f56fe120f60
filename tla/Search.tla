-------------------------------- MODULE Search --------------------------------
(***************************************************************************)
(* The symbolic search: Executor.resume and everything it calls, then the  *)
(* extraction of solutions and the verdict solve.py draws from it.         *)
(*                                                                         *)
(* One state runs at a time.  `pending` is the heap of states that wait,   *)
(* `run` the state being executed; a step of _run is one action, because   *)
(* what _run does between two looks at the budgets is what termination is  *)
(* about.                                                                  *)
(***************************************************************************)
EXTENDS Program, FiniteSets

CONSTANTS
    Hard,             \* conditions the solver may fail to decide
    MaxStates,        \* Budget.max_states
    MaxSteps,         \* Budget.max_steps
    MaxVisits,        \* Budget.max_branch_visits
    MayTimeOut,       \* whether Budget.max_seconds can run out
    Solutions,        \* SolveRequest.solutions
    Preferred,        \* inputs that satisfy _printable_preference
    HasPreference,    \* no charset was asked for
    PreferencePaths,  \* PREFERENCE_PATHS
    Initialized,      \* every constructor was run: Initialization.complete
    NoState           \* `run` when no state is running

ASSUME SearchAssumption ==
    /\ Hard \subseteq SUBSET Inputs /\ Preferred \subseteq Inputs
    /\ MaxStates \in Nat /\ MaxSteps \in Nat /\ MaxVisits \in Nat
    /\ MayTimeOut \in BOOLEAN /\ HasPreference \in BOOLEAN /\ Initialized \in BOOLEAN
    /\ Solutions \in Nat /\ PreferencePaths \in Nat

\* Mutant of IncompleteReasons: an undecided branch is forgotten.
DecidedReasons == {"unsupported", "branch-bound", "call-depth"}

\* INCOMPLETE_REASONS; STEP_BUDGET is in the set in the code, but nothing raises it.
IncompleteReasons == {"unsupported", "branch-bound", "call-depth", "solver-unknown"}
Exhaustions == {"none", "states", "steps", "seconds"}
Statuses == {"sat", "unknown", "timeout", "incomplete", "budget-exhausted",
             "unsupported", "unsat"}

VARIABLES
    pending,     \* Executor._pending: the heap, as the set of its states
    run,         \* the state _run advances, or NoState between two runs
    handled,     \* how many of a call's CallConditions have been looked at
    split,       \* goal states _call_conditions split off the running state
    phase,       \* where resume and _solutions are
    nextId,      \* Executor._next_state
    states,      \* Statistics.states
    steps,       \* Statistics.steps, counted up to MaxSteps + 1
    reached,     \* Exploration.reached
    incomplete,  \* the reasons in Exploration.incomplete
    hiding,      \* whether Statistics.hiding_approximations is not empty
    exhausted,   \* Exploration.budget_exhausted
    wanted,      \* max_reached of the running resume
    index,       \* how many reached states _solutions has tried
    unpreferred, \* reached states with no model among the preferred inputs
    solutions,   \* the inputs extracted as solutions
    status,      \* what solve_module reports, or "none" until it does
    dropped,     \* history: inputs left behind by an answer nobody recorded
    hurried      \* history: a deferred outcome went on at once, before what waits

engine == <<run, handled, split, nextId, states, steps>>
record == <<pending, reached, incomplete, hiding, dropped, hurried>>
verdict == <<exhausted, wanted, index, unpreferred, solutions, status>>
vars == <<pending, run, handled, split, phase, nextId, states, steps, reached,
          incomplete, hiding, exhausted, wanted, index, unpreferred, solutions,
          status, dropped, hurried>>

-----------------------------------------------------------------------------
(* Symbolic states and the solver.                                          *)

SymbolicState ==
    [id : Nat, decisions : Nat, at : Points, stack : Stacks, cond : SUBSET Inputs,
     data : [Inputs -> Data], visits : [Points -> Nat]]

Where(s, D) == {i \in Inputs : s.data[i] \in D}
Always(s, D) == Where(s, D) = Inputs      \* the condition folds to sx.TRUE
Never(s, D) == Where(s, D) = {}           \* the condition folds to sx.FALSE
Assume(s, D) == [s EXCEPT !.cond = @ \cap Where(s, D)]
GoTo(s, p) == [s EXCEPT !.at = p]
Update(s, f) == [s EXCEPT !.data = [i \in Inputs |-> f[s.data[i]]]]

\* The solver is sound: it answers sat or unsat truthfully, or not at all.
Answers(cond) ==
    {IF cond = {} THEN "unsat" ELSE "sat"} \cup (IF cond \in Hard THEN {"unknown"} ELSE {})

\* Mutant of Refuted: an answer that did not come counts as a no.
NotConfirmed(answer) == answer # "sat"

\* A path is given up only on a definite unsat.
Refuted(answer) == answer = "unsat"

\* Mutant of Before: the newest state first, as a stack would have it.
NewestFirst(s, t) == s.id > t.id

\* heapq order: (decisions, id).
Before(s, t) == s.decisions < t.decisions \/ (s.decisions = t.decisions /\ s.id < t.id)

Tick == steps' = IF steps > MaxSteps THEN steps ELSE steps + 1

-----------------------------------------------------------------------------
(* How a run ends: its successors go to the heap, its stops are recorded.   *)

Yield(successors, goals, reasons) ==
    /\ pending' = pending \cup successors
    /\ reached' = reached \o goals \o split
    /\ incomplete' = incomplete \cup (reasons \cap IncompleteReasons)
    /\ run' = NoState /\ handled' = 0 /\ split' = <<>>
    /\ phase' = "loop"

\* A _Stop, or a stop returned without successors.
Stops(reason) == Yield({}, <<>>, {reason})

\* _step returned None: the run goes on with `s`.
Continue(s) ==
    /\ run' = s /\ handled' = 0
    /\ UNCHANGED <<pending, reached, incomplete, split, phase>>

\* _call returned None: the run goes on, unless goal states were split off; then the
\* state goes back to the heap while they are recorded.
Resumes(s) == IF split = <<>> THEN Continue(s) ELSE Yield({s}, <<>>, {})

\* Mutant of NewId: every child takes the number the counter stands at.
StaleId(k) == nextId

\* new_state_id: the k-th identifier handed out in one step.
NewId(k) == nextId + k

NoFork == UNCHANGED <<nextId, states>>
Exact == UNCHANGED <<hiding, dropped, hurried>>

Here == Code[run.at]
Running(op) ==
    /\ phase = "run"
    /\ run.at \notin AvoidPoints \cup GoalPoints
    /\ Here.op = op
    /\ UNCHANGED verdict

-----------------------------------------------------------------------------
(* resume: the loop over the heap.                                          *)

MoreWanted == pending # {} /\ Len(reached) < wanted

Exhaust(budget) ==
    /\ exhausted' = budget
    /\ phase' = "pick"
    /\ UNCHANGED <<engine, record, wanted, index, unpreferred, solutions, status>>

OutOfStates == phase = "loop" /\ MoreWanted /\ states > MaxStates /\ Exhaust("states")
OutOfSteps ==
    phase = "loop" /\ MoreWanted /\ states <= MaxStates /\ steps > MaxSteps /\ Exhaust("steps")
OutOfTime ==
    /\ phase = "loop" /\ MoreWanted /\ states <= MaxStates /\ steps <= MaxSteps
    /\ MayTimeOut \/ exhausted = "seconds"
    /\ Exhaust("seconds")

\* heappop: fewest decisions first, then the oldest id.
Pop ==
    /\ phase = "loop" /\ MoreWanted
    /\ states <= MaxStates /\ steps <= MaxSteps /\ exhausted # "seconds"
    /\ \E s \in pending :
          /\ \A t \in pending \ {s} : Before(s, t)
          /\ run' = s
          /\ pending' = pending \ {s}
    /\ phase' = "run"
    /\ UNCHANGED <<handled, split, nextId, states, steps, reached, incomplete, hiding,
                   dropped, hurried, verdict>>

LoopEnds ==
    /\ phase = "loop" /\ ~ MoreWanted
    /\ phase' = "pick"
    /\ UNCHANGED <<engine, record, verdict>>

-----------------------------------------------------------------------------
(* _observe and the operations.                                             *)

\* An avoided address is looked at before the goal's.
Observe ==
    /\ phase = "run" /\ run.at \in AvoidPoints \cup GoalPoints
    /\ IF run.at \in AvoidPoints THEN Stops("avoided") ELSE Yield({}, <<run>>, {"goal"})
    /\ NoFork /\ Exact /\ UNCHANGED <<steps, verdict>>

\* Straight-line operations, the jump after them, and calls the slice skips.
Compute ==
    /\ Running("compute")
    /\ Continue(GoTo(Update(run, Here.effect), Here.next))
    /\ Tick /\ NoFork /\ Exact

\* _require_divisor and _restrict_pointer: assume the condition, stop if it cannot hold.
Require(s) ==
    \E answer \in Answers(s.cond) :
        IF Refuted(answer) THEN Stops("fault") ELSE Continue(s)

Onward(s) == GoTo(Update(s, Here.effect), Here.next)

Divide ==
    /\ Running("divide")
    /\ CASE Always(run, Here.when) -> Continue(Onward(run))
         [] Never(run, Here.when) -> Stops("fault")
         [] OTHER -> Require(Onward(Assume(run, Here.when)))
    /\ Tick /\ NoFork /\ Exact

\* load and store.  A known address that is not mapped faults, unless it is one the
\* analysis lost (`gap`, _fault_stop).
Known(s) == \A i, j \in Inputs : s.data[i] = s.data[j]

AccessKnown ==
    /\ Running("access") /\ Known(run)
    /\ IF Always(run, Here.when) THEN Continue(Onward(run))
       ELSE Stops(IF Here.gap THEN "unsupported" ELSE "fault")
    /\ Tick /\ NoFork /\ Exact

\* A symbolic address is restricted to its usable candidates, whether the others
\* fault or were lost, unless there are too many to list.
AccessSymbolic ==
    /\ Running("access") /\ ~ Known(run)
    /\ IF Here.wide THEN Stops("unsupported") /\ UNCHANGED dropped
       ELSE /\ Require(Onward(Assume(run, Here.when)))
            /\ dropped' = IF Here.gap THEN dropped \cup (run.cond \ Where(run, Here.when))
                          ELSE dropped
    /\ Tick /\ NoFork /\ UNCHANGED <<hiding, hurried>>

Unsupported ==
    /\ Running("unsupported")
    /\ Stops("unsupported")
    /\ Tick /\ NoFork /\ Exact

\* A non-returning call returned.
Halt ==
    /\ Running("halt")
    /\ Stops("fault")
    /\ NoFork /\ Exact /\ UNCHANGED steps

-----------------------------------------------------------------------------
(* Control flow.                                                            *)

\* _fork: one child per choice, the last one in the forking state itself.  The last
\* side is taken as feasible, unasked, when every other one was not.
Unconstrained(choice) == run.cond   \* mutant of Side: the condition is not added
Side(choice) == run.cond \cap Where(run, choice.when)

Child(choices, k, deeper) ==
    [run EXCEPT !.id = IF k = Len(choices) THEN run.id ELSE NewId(k),
                !.cond = Side(choices[k]), !.at = choices[k].to,
                !.visits = [run.visits EXCEPT ![run.at] = @ + 1],
                !.decisions = run.decisions + deeper]

\* Every side is asked about, but not the last one when every other was refuted.
Asked(choices, answer, k) ==
    k < Len(choices) \/ \E j \in 1..(Len(choices) - 1) : ~ Refuted(answer[j])

Kept(choices, answer) ==
    {k \in 1..Len(choices) : answer[k] = "sat" /\ CanReach(choices[k].to, run.stack)}

Children(choices, answer) ==
    LET kept == Kept(choices, answer)
        deeper == IF \E j, k \in kept : j # k THEN 1 ELSE 0
    IN {Child(choices, k, deeper) : k \in kept}

Fork(choices) ==
    LET n == Len(choices)
        more == IF n = 0 THEN 0 ELSE n - 1
    IN IF run.visits[run.at] >= MaxVisits THEN Stops("branch-bound") /\ NoFork
       ELSE /\ \E answer \in [1..n -> {"sat", "unsat", "unknown"}] :
                 /\ \A k \in 1..n :
                       answer[k] \in IF Asked(choices, answer, k) THEN Answers(Side(choices[k]))
                                     ELSE {"sat"}
                 /\ Yield(Children(choices, answer), <<>>,
                          {"solver-unknown" : k \in {k \in 1..n : answer[k] = "unknown"}})
            /\ nextId' = nextId + more /\ states' = states + more

Decided(choices) == {k \in 1..Len(choices) : Always(run, choices[k].when)}

Branch ==
    /\ Running("branch")
    /\ IF Decided(Here.choices) # {}
       THEN NoFork /\ \E k \in Decided(Here.choices) : Continue(GoTo(run, Here.choices[k].to))
       ELSE Fork(Here.choices)
    /\ Exact /\ UNCHANGED steps

\* IndirectJump: a symbolic target must provably stay among the recovered ones.
Elsewhere(choices) == run.cond \ UNION {Side(choices[k]) : k \in 1..Len(choices)}

Switch ==
    /\ Running("switch")
    /\ CASE Decided(Here.choices) # {} ->
                NoFork /\ \E k \in Decided(Here.choices) : Continue(GoTo(run, Here.choices[k].to))
         [] Decided(Here.choices) = {} /\ Known(run) -> Stops("unsupported") /\ NoFork
         [] OTHER ->
                \E answer \in Answers(Elsewhere(Here.choices)) :
                    IF answer # "unsat" THEN Stops("unsupported") /\ NoFork
                    ELSE Fork(Here.choices)
    /\ Exact /\ UNCHANGED steps

\* _return: the return address is assumed to be the caller's, and nobody asks whether
\* that can hold, unless it folds to false.
ReturnToCaller ==
    /\ Running("return") /\ run.stack # <<>>
    /\ IF Never(run, Here.when) THEN Stops("fault")
       ELSE Continue([Assume(run, Here.when) EXCEPT !.at = Head(run.stack),
                                                    !.stack = Tail(run.stack)])
    /\ NoFork /\ Exact /\ UNCHANGED steps

ReturnFromMain ==
    /\ Running("return") /\ run.stack = <<>>
    /\ IF Never(run, Here.when) THEN Stops("fault")
       ELSE IF OnReturn = {} THEN Stops("returned")
       ELSE \E goal \in OnReturn :
              LET final == Assume(Assume(run, Here.when), goal) IN
              \E answer \in Answers(final.cond) :
                CASE answer = "sat" -> Yield({}, <<final>>, {"goal"})
                  [] answer = "unsat" -> Stops("returned")
                  [] answer = "unknown" -> Stops("solver-unknown")
    /\ NoFork /\ Exact /\ UNCHANGED steps

-----------------------------------------------------------------------------
(* Calls: the conditions on the arguments first, then the callee.           *)

AvoidsLeft == handled < Len(Here.avoidArgs)
NextArgument(s) ==
    run' = s /\ handled' = handled + 1 /\ UNCHANGED <<pending, reached, incomplete, phase>>

\* An argument that may be the avoided message is assumed not to be.
AvoidArgument ==
    /\ Running("call") /\ AvoidsLeft
    /\ LET avoided == Here.avoidArgs[handled + 1]
           rest == Assume(run, Data \ avoided)
       IN CASE Never(run, avoided) -> NextArgument(run) /\ UNCHANGED split
            [] Always(run, avoided) -> Stops("avoided")
            [] OTHER ->
                 \E answer \in Answers(rest.cond) :
                    IF Refuted(answer) THEN Stops("avoided")
                    ELSE NextArgument(rest) /\ UNCHANGED split
    /\ NoFork /\ Exact /\ UNCHANGED steps

\* A goal call splits off a goal state if the solver says it can happen; the running
\* state goes on without those inputs whatever the solver said.
GoalArgument ==
    /\ Running("call") /\ handled = Len(Here.avoidArgs)
    /\ CASE Never(run, Here.goalArg) ->
                NextArgument(run) /\ UNCHANGED split /\ NoFork /\ Exact
         [] Always(run, Here.goalArg) ->
                Yield({}, <<run>>, {"goal"}) /\ NoFork /\ Exact
         [] OTHER ->
                LET goal == [Assume(run, Here.goalArg) EXCEPT !.id = NewId(1)] IN
                /\ \E answer \in Answers(goal.cond) :
                      /\ split' = IF answer = "sat" THEN <<goal>> ELSE <<>>
                      /\ dropped' = IF answer = "unknown" THEN dropped \cup goal.cond
                                    ELSE dropped
                /\ NextArgument(Assume(run, Data \ Here.goalArg))
                /\ nextId' = nextId + 1 /\ states' = states + 1
                /\ UNCHANGED <<hiding, hurried>>
    /\ UNCHANGED steps

Calling(target) ==
    Running("call") /\ handled = Len(Here.avoidArgs) + 1 /\ Here.target = target

\* Mutant of TooDeep: the innermost frame is not counted.
TooDeepBelow(stack) == Len(stack) >= MaxCallDepth

TooDeep(stack) == Len(stack) + 1 >= MaxCallDepth

CallFunction ==
    /\ Calling("function")
    /\ IF TooDeep(run.stack) THEN Stops("call-depth")
       ELSE Resumes([run EXCEPT !.at = Here.callee, !.stack = <<Here.next>> \o @])
    /\ Tick /\ NoFork /\ Exact

\* An indirect call through a symbolic pointer, an address that is no function, an
\* import without a model.
CallElsewhere ==
    /\ Calling("unresolved") \/ Calling("missing")
    /\ Stops("unsupported")
    /\ Tick /\ NoFork /\ Exact

\* _split: one state per live option, dropped only on a definite unsat.  The last one
\* continues in the calling state, renumbered; later ones count as deeper.
Rank(S, j) == Cardinality({i \in S : i <= j})

Live == {j \in 1..Len(Here.options) : ~ Never(run, Here.options[j].when)}
MayKeep(j) == Always(run, Here.options[j].when) \/ Answers(Side(Here.options[j])) # {"unsat"}
MustKeep(j) == Always(run, Here.options[j].when) \/ "unsat" \notin Answers(Side(Here.options[j]))

Outcome(chosen, j) ==
    LET option == Here.options[j]
        spread == IF Cardinality(chosen) > 1 THEN Rank(chosen, j) ELSE 0
    IN [GoTo(Update(run, option.effect), Here.next)
        EXCEPT !.cond = Side(option),
               !.id = IF Cardinality(Live) = 1 THEN run.id ELSE NewId(Rank(Live, j)),
               !.decisions = run.decisions + spread + option.delay]

\* A model that raises after splitting answers with one Failed in place of every
\* outcome it had: the states of the other options are gone.
Raising(chosen) == {j \in chosen : Here.options[j].ends \in {"faults", "unsupported"}}
Raises(chosen) ==
    LET first == CHOOSE j \in Raising(chosen) : \A k \in Raising(chosen) : j <= k
        gone == {j \in chosen : Here.options[j].ends \in {"returns", "unsupported"}}
    IN IF Here.options[first].ends = "faults"
       THEN /\ Stops("fault")
            /\ dropped' = dropped \cup UNION {Side(Here.options[j]) : j \in gone}
       ELSE Stops("unsupported") /\ UNCHANGED dropped

CallImport ==
    /\ Calling("import")
    /\ \E chosen \in SUBSET Live :
          /\ \A j \in Live : (j \in chosen => MayKeep(j)) /\ (MustKeep(j) => j \in chosen)
          /\ LET returning == {j \in chosen : Here.options[j].ends = "returns"}
                 last == {j \in Live : \A k \in Live : k <= j}
             IN IF Raising(chosen) # {} THEN Raises(chosen)
                ELSE /\ UNCHANGED dropped
                     /\ IF returning = last /\ chosen = last /\ last # {}
                        THEN \E j \in last : Resumes(Outcome(chosen, j))
                        ELSE Yield({Outcome(chosen, j) : j \in returning}, <<>>,
                                   {"exited" : j \in chosen \ returning})
    /\ nextId' = IF Cardinality(Live) > 1 THEN nextId + Cardinality(Live) ELSE nextId
    /\ states' = IF Cardinality(Live) > 1 THEN states + Cardinality(Live) - 1 ELSE states
    /\ hiding' = (hiding \/ Here.hides)
    /\ hurried' = (hurried \/ (phase' = "run" /\ run'.decisions # run.decisions))
    /\ Tick

-----------------------------------------------------------------------------
(* _solutions: models of the goal states, and the search resumed for more.  *)

Finding == phase = "pick" /\ Cardinality(solutions) < Solutions
OutOfReached == index >= Len(reached)
GivesUpLooking == ~ HasPreference \/ index >= PreferencePaths \/ pending = {}

\* Mutant of ResumedInVain: a resume that found nothing is tried again.
NeverInVain == FALSE

\* The resume for this goal state has returned without it.
ResumedInVain == wanted > index

\* executor.resume(index + 1): no goal state is left to try.
Resume ==
    /\ Finding /\ OutOfReached /\ ~ GivesUpLooking /\ ~ ResumedInVain
    /\ wanted' = index + 1
    /\ phase' = "loop"
    /\ UNCHANGED <<engine, record, exhausted, index, unpreferred, solutions, status>>

\* What `extract` may find in a goal state under the condition `extra`: every model,
\* as many as are wanted, or fewer when the solver gives up on one of its questions.
Extracts(s, extra, found) ==
    LET models == s.cond \cap extra
        total == Cardinality(solutions \cup found)
    IN /\ found \subseteq models
       /\ total <= Solutions
       /\ found = {} => "unsat" \in Answers(models) \/ models \in Hard
       /\ found # {} => \/ total = Solutions \/ models \subseteq found
                        \/ (models \ found) \in Hard

\* A failed first look puts the state aside, for a second look without the preference.
TryReached ==
    /\ Finding /\ ~ OutOfReached
    /\ index' = index + 1
    /\ LET s == reached[index + 1] IN
       \E found \in SUBSET s.cond :
          /\ Extracts(s, IF HasPreference THEN Preferred ELSE Inputs, found)
          /\ solutions' = solutions \cup found
          /\ unpreferred' = IF found = {} /\ HasPreference THEN Append(unpreferred, s)
                            ELSE unpreferred
    /\ UNCHANGED <<engine, record, phase, exhausted, wanted, status>>

PickEnds ==
    /\ phase = "pick"
    /\ \/ Cardinality(solutions) >= Solutions
       \/ OutOfReached /\ (GivesUpLooking \/ ResumedInVain)
    /\ phase' = "fallback"
    /\ UNCHANGED <<engine, record, verdict>>

TryUnpreferred ==
    /\ phase = "fallback" /\ Cardinality(solutions) < Solutions /\ unpreferred # <<>>
    /\ LET s == Head(unpreferred) IN
       \E found \in SUBSET s.cond :
          Extracts(s, Inputs, found) /\ solutions' = solutions \cup found
    /\ unpreferred' = Tail(unpreferred)
    /\ UNCHANGED <<engine, record, phase, exhausted, wanted, index, status>>

-----------------------------------------------------------------------------
(* _status.                                                                 *)

\* Mutant of Verdict: only the budgets are looked at, not what was left unexplored.
VerdictOfBudgets ==
    IF solutions # {} THEN "sat"
    ELSE IF reached # <<>> THEN "unknown"
    ELSE IF exhausted # "none" THEN "budget-exhausted"
    ELSE "unsat"

Verdict ==
    IF solutions # {} THEN "sat"
    ELSE IF reached # <<>> THEN "unknown"
    ELSE IF exhausted = "seconds" THEN "timeout"
    ELSE IF hiding THEN "incomplete"
    ELSE IF exhausted # "none" THEN "budget-exhausted"
    ELSE IF "solver-unknown" \in incomplete THEN "unknown"
    ELSE IF "unsupported" \in incomplete THEN "unsupported"
    ELSE IF incomplete # {} \/ ~ Initialized THEN "incomplete"
    ELSE "unsat"

Conclude ==
    /\ phase = "fallback"
    /\ Cardinality(solutions) >= Solutions \/ unpreferred = <<>>
    /\ phase' = "done" /\ status' = Verdict
    /\ UNCHANGED <<engine, record, exhausted, wanted, index, unpreferred, solutions>>

-----------------------------------------------------------------------------

InitialState ==
    [id |-> 1, decisions |-> 0, at |-> Start, stack |-> <<>>, cond |-> Inputs,
     data |-> InitialData, visits |-> [p \in Points |-> 0]]

Init ==
    /\ pending = {InitialState} /\ run = NoState /\ handled = 0 /\ split = <<>>
    /\ phase = "loop"
    /\ nextId = 1 /\ states = 1 /\ steps = 0
    /\ reached = <<>> /\ incomplete = {} /\ hiding = FALSE
    /\ dropped = {} /\ hurried = FALSE
    /\ exhausted = "none"
    /\ wanted = IF Solutions > 1 THEN Solutions ELSE 1
    /\ index = 0 /\ unpreferred = <<>> /\ solutions = {} /\ status = "none"

Explore == OutOfStates \/ OutOfSteps \/ OutOfTime \/ Pop \/ LoopEnds
Operate ==
    Observe \/ Compute \/ Divide \/ AccessKnown \/ AccessSymbolic \/ Unsupported \/ Halt
Transfer == Branch \/ Switch \/ ReturnToCaller \/ ReturnFromMain
CallSteps == AvoidArgument \/ GoalArgument \/ CallFunction \/ CallElsewhere \/ CallImport
Solve == Resume \/ TryReached \/ PickEnds \/ TryUnpreferred \/ Conclude
Finished == phase = "done" /\ UNCHANGED vars

Next == Explore \/ Operate \/ Transfer \/ CallSteps \/ Solve \/ Finished

Spec == Init /\ [][Next]_vars

\* One thread runs the search and nothing it waits for can keep it from its next step:
\* every solver call has a timeout.
FairSpec == Spec /\ WF_vars(Next)

-----------------------------------------------------------------------------
(* Properties.                                                              *)

Current == IF phase = "run" THEN {run} ELSE {}
Alive == pending \cup Current \cup {split[k] : k \in 1..Len(split)}

QueueOK ==
    /\ pending \subseteq SymbolicState
    /\ phase \in {"loop", "run", "pick", "fallback", "done"}
    /\ IF phase = "run" THEN run \in SymbolicState ELSE run = NoState
    /\ split \in Seq(SymbolicState) /\ Len(split) <= 1
    /\ reached \in Seq(SymbolicState)
    /\ handled \in Nat /\ incomplete \subseteq IncompleteReasons

CountersOK ==
    /\ nextId \in Nat /\ states \in Nat /\ steps \in Nat
    /\ hiding \in BOOLEAN /\ hurried \in BOOLEAN /\ dropped \subseteq Inputs

VerdictOK ==
    /\ exhausted \in Exhaustions /\ wanted \in Nat /\ index \in Nat
    /\ unpreferred \in Seq(SymbolicState) /\ solutions \subseteq Inputs
    /\ status \in Statuses \cup {"none"}

TypeOK == QueueOK /\ CountersOK /\ VerdictOK

\* States wait under keys that never tie: heapq compares (decisions, id, State), and
\* two equal pairs would make it compare State objects, which have no order.
DistinctIds ==
    /\ \A s, t \in Alive : s.id = t.id => s = t
    /\ \A s \in Alive : s.id <= nextId

\* Which inputs `s` still leads to the goal.
Leads(s) == {i \in s.cond : Goalward(s.at, s.stack, s.data[i])}

\* An input that reaches the goal is never lost track of: some state still leads it
\* there or has arrived, or the search has recorded that it cannot tell.
Covered ==
    \A i \in Reaching \ dropped :
        \/ incomplete # {} \/ hiding
        \/ \E s \in Alive : i \in Leads(s)
        \/ \E k \in 1..Len(reached) : i \in reached[k].cond

\* `unsat` is a claim about the program: apart from the inputs in `dropped`, none
\* reaches the goal.
UnsatIsExhaustive == status = "unsat" => Reaching \subseteq dropped

\* ... and what the documentation promises has no exception.
UnsatMeansUnreachable == status = "unsat" => Reaching = {}

\* Goal states come out fewest decisions first (executor.py:351): nothing still waiting is
\* shallower, unless the only outcome left of a call was one that counts as deeper and
\* went on at once; and what waits is never tied, so that the queue knows which is next.
FewestDecisionsFirst ==
    /\ DistinctIds
    /\ ~ hurried => \A k \in 1..Len(reached), s \in pending : reached[k].decisions <= s.decisions

\* What is reported as a solution reaches the goal, avoiding what it must.
SolutionsReachGoal == solutions \subseteq Reaching

\* The search comes to a verdict.
Termination == <>(phase = "done")
=============================================================================
