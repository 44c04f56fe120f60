------------------------------- MODULE Concolic -------------------------------
(***************************************************************************)
(* Concolic search: concolic_search, the seeded runs of the executor it    *)
(* drives (_follow_seed), and the verdict _concolic_status draws from it.  *)
(*                                                                         *)
(* A program is the choices each input takes and how its path ends.  A     *)
(* path condition is a sequence of choices; the inputs that satisfy it are *)
(* those whose path begins with it.                                        *)
(***************************************************************************)
EXTENDS Integers, Sequences, FiniteSets

CONSTANTS
    Inputs,
    Path,         \* the choices an input takes, each [site, side]
    Sides,        \* the sides of a site
    Ending,       \* how an input's path ends: "goal", "returned" or "unsupported"
    Hides,        \* inputs whose path makes an approximation that may hide others
    CanReach(_),  \* GoalReachability.can_reach, after these choices
    Seed,         \* the input the first run follows
    Hard,         \* path conditions the solver may fail to decide
    MaxRuns,      \* SolveRequest.max_concolic_runs
    MaxSteps,     \* Budget.max_steps, in choices, over all runs
    MaxVisits,    \* Budget.max_branch_visits
    MayTimeOut    \* whether a time limit can run out

Begins(prefix, path) ==
    Len(prefix) <= Len(path) /\ prefix = SubSeq(path, 1, Len(prefix))
Matching(conditions) == {i \in Inputs : Begins(conditions, Path[i])}

\* What a choice can be.
Taken == UNION {{[site |-> site, side |-> side] : side \in Sides[site]} : site \in DOMAIN Sides}

\* The inputs that reach the goal, or whose path goes on where the model ends.
Reaching == {i \in Inputs : Ending[i] \in {"goal", "unsupported"}}

ASSUME ConcolicAssumption ==
    /\ Seed \in Inputs /\ Hides \subseteq Inputs
    /\ MaxRuns \in Nat \ {0} /\ MaxSteps \in Nat /\ MaxVisits \in Nat
    /\ MayTimeOut \in BOOLEAN
    /\ \A i \in Inputs : Path[i] \in Seq(Taken)
    \* Choices decide the path: inputs part at a choice, and one path has one end.
    /\ \A i, j \in Inputs :
          /\ \A k \in 1..Len(Path[i]) :
                j \in Matching(SubSeq(Path[i], 1, k - 1)) =>
                    Len(Path[j]) >= k /\ Path[i][k].site = Path[j][k].site
          /\ Path[i] = Path[j] => Ending[i] = Ending[j]
    \* Nothing that leads to the goal is denied.
    /\ \A i \in Reaching : \A k \in 0..Len(Path[i]) : CanReach(SubSeq(Path[i], 1, k))

VARIABLES
    phase,       \* "start", "run", "collect", "choose", "verdict", "done"
    current,     \* the input the runs follow
    position,    \* how many of its choices this run has followed
    flips,       \* Executor.flips: what this run did not take
    queue,       \* the heap of untried flips
    tried,       \* conditions that were ever queued or denied
    seen,        \* inputs that were followed
    covered,     \* Statistics.blocks: the choices some run has taken
    counter,     \* how many flips were queued
    runs,        \* how many runs were made
    steps,       \* Statistics.steps, which no run resets
    reached,     \* whether this run's exploration reached the goal
    incomplete,  \* what this run's exploration left out, as inputs
    hiding,      \* Statistics.hiding_approximations is not empty
    status,      \* the verdict, or "none"
    lost         \* history: inputs left behind with nothing recorded

run == <<position, reached, incomplete, flips>>
search == <<queue, tried, counter>>
vars == <<phase, current, run, search, seen, covered, runs, steps, hiding, status, lost>>

Followed == SubSeq(Path[current], 1, position)
Choice(conditions) == conditions[Len(conditions)]

-----------------------------------------------------------------------------
(* A seeded run.                                                            *)

\* Executor.explore: a new exploration; what the last one left out is forgotten.
Start ==
    /\ phase = "start"
    /\ position' = 0 /\ reached' = FALSE /\ incomplete' = {} /\ flips' = {}
    /\ lost' = lost \cup incomplete
    /\ phase' = "run"
    /\ UNCHANGED <<current, search, seen, covered, runs, steps, hiding, status>>

EndRun == phase' = "collect" /\ runs' = runs + 1

\* The budgets are looked at between two choices, and count every run so far.
OutOfBudget ==
    /\ phase = "run"
    /\ steps > MaxSteps \/ MayTimeOut
    /\ EndRun
    /\ lost' = lost \cup Matching(Followed)
    /\ UNCHANGED <<current, run, search, seen, covered, steps, hiding, status>>

Visits(site) == Cardinality({k \in 1..position : Path[current][k].site = site})

\* Mutant of Others: only the choice taken is remembered, not the way to it.
OnlyChoice(prefix, choice) ==
    {<<[choice EXCEPT !.side = side]>> : side \in Sides[choice.site] \ {choice.side}}

\* What the seed did not take: the path so far, and another side.
Others(prefix, choice) ==
    {Append(prefix, [choice EXCEPT !.side = side]) :
        side \in Sides[choice.site] \ {choice.side}}

MoreChoices == phase = "run" /\ steps <= MaxSteps /\ position < Len(Path[current])

\* _fork's bound on one branch comes before the seed is asked.
TooManyVisits ==
    /\ MoreChoices /\ Visits(Path[current][position + 1].site) >= MaxVisits
    /\ incomplete' = Matching(Followed)
    /\ EndRun
    /\ UNCHANGED <<current, position, reached, flips, search, seen, covered, steps, hiding,
                   status, lost>>

\* _follow_seed: the run ends where the goal can no longer be reached.
Follow ==
    /\ MoreChoices
    /\ LET choice == Path[current][position + 1] IN
       /\ Visits(choice.site) < MaxVisits
       /\ flips' = flips \cup Others(Followed, choice)
       /\ covered' = covered \cup {choice}
       /\ IF CanReach(Append(Followed, choice)) THEN UNCHANGED <<phase, runs>> ELSE EndRun
    /\ position' = position + 1 /\ steps' = steps + 1
    /\ UNCHANGED <<current, reached, incomplete, search, seen, hiding, status, lost>>

\* The path ends.
Finish ==
    /\ phase = "run" /\ steps <= MaxSteps /\ position = Len(Path[current])
    /\ reached' = (Ending[current] = "goal")
    /\ incomplete' = IF Ending[current] = "unsupported" THEN Matching(Followed) ELSE {}
    /\ hiding' = (hiding \/ current \in Hides)
    /\ EndRun
    /\ UNCHANGED <<current, position, flips, search, seen, covered, steps, status, lost>>

-----------------------------------------------------------------------------
(* Between two runs.                                                        *)

Found ==
    /\ phase = "collect" /\ reached
    /\ phase' = "verdict"
    /\ UNCHANGED <<current, run, search, seen, covered, runs, steps, hiding, status, lost>>

\* Mutant of Fresh: a flip is known by its last choice alone.
FreshChoice(conditions) == \A other \in tried : Choice(other) # Choice(conditions)

Fresh(conditions) == conditions \notin tried

\* Flips that are new and can reach the goal are queued, in the order of the run.
Queued == {c \in flips : Fresh(c) /\ CanReach(c)}
Entry(c) ==
    [conditions |-> c, depth |-> Len(c),
     novel |-> IF Choice(c) \in covered THEN 1 ELSE 0,
     number |-> counter + Cardinality({other \in Queued : Len(other) <= Len(c)})]

Collect ==
    /\ phase = "collect" /\ ~ reached
    /\ queue' = queue \cup {Entry(c) : c \in Queued}
    /\ tried' = tried \cup flips
    /\ counter' = counter + Cardinality(Queued)
    /\ phase' = "choose"
    /\ UNCHANGED <<current, run, seen, covered, runs, steps, hiding, status, lost>>

\* The heap's order: code no run covered first, then the deepest, then the oldest.
Precedes(a, b) ==
    \/ a.novel < b.novel
    \/ a.novel = b.novel /\ a.depth > b.depth
    \/ a.novel = b.novel /\ a.depth = b.depth /\ a.number <= b.number

First == {a \in queue : \A b \in queue : Precedes(a, b)}

\* Mutant of MayPop: the run limit is passed by one.
MayPopMore == phase = "choose" /\ queue # {} /\ runs <= MaxRuns

MayPop == phase = "choose" /\ queue # {} /\ runs < MaxRuns

Drop(flip) ==
    /\ queue' = queue \ {flip}
    /\ UNCHANGED <<phase, current, run, tried, counter, seen, covered, runs, steps, hiding,
                   status>>

\* A flip without a model is dropped, whether it was refuted or not decided.
NoModel ==
    /\ MayPop
    /\ \E flip \in First :
          /\ \/ Matching(flip.conditions) = {} /\ UNCHANGED lost
             \/ /\ flip.conditions \in Hard
                /\ lost' = lost \cup Matching(flip.conditions)
          /\ Drop(flip)

\* A model that was already followed.
SeenModel ==
    /\ MayPop
    /\ \E flip \in First :
          Matching(flip.conditions) \cap seen # {} /\ Drop(flip)
    /\ UNCHANGED lost

\* Any model becomes the next seed.
NewSeed ==
    /\ MayPop
    /\ \E flip \in First : \E model \in Matching(flip.conditions) \ seen :
          /\ queue' = queue \ {flip}
          /\ current' = model /\ seen' = seen \cup {model}
    /\ phase' = "start"
    /\ UNCHANGED <<run, tried, counter, covered, runs, steps, hiding, status, lost>>

\* No flip is left, or no run and no time for the next one.
GiveUp ==
    /\ phase = "choose"
    /\ queue = {} \/ runs >= MaxRuns \/ MayTimeOut
    /\ phase' = "verdict"
    /\ UNCHANGED <<current, run, search, seen, covered, runs, steps, hiding, status, lost>>

-----------------------------------------------------------------------------

Exhausted == queue = {}

\* Mutant of Verdict: the search counts as complete when a run limit stopped it.
VerdictOfRuns ==
    IF reached THEN {"sat", "unknown"}
    ELSE IF hiding \/ incomplete # {} THEN {"incomplete"} ELSE {"unsat"}

\* _concolic_status, with every constructor run.  A reached goal may still have no model.
Verdict ==
    IF reached THEN {"sat", "unknown"}
    ELSE IF ~ Exhausted THEN {"budget-exhausted"}
    ELSE IF hiding \/ incomplete # {} THEN {"incomplete"}
    ELSE {"unsat"}

Conclude ==
    /\ phase = "verdict"
    /\ status' \in Verdict
    /\ phase' = "done"
    /\ UNCHANGED <<current, run, search, seen, covered, runs, steps, hiding, lost>>

Finished == phase = "done" /\ UNCHANGED vars

Init ==
    /\ phase = "start" /\ current = Seed /\ seen = {Seed}
    /\ position = 0 /\ flips = {} /\ reached = FALSE /\ incomplete = {}
    /\ queue = {} /\ tried = {} /\ counter = 0
    /\ covered = {} /\ runs = 0 /\ steps = 0 /\ hiding = FALSE
    /\ status = "none" /\ lost = {}

Run == Start \/ OutOfBudget \/ TooManyVisits \/ Follow \/ Finish
Choose == Found \/ Collect \/ NoModel \/ SeenModel \/ NewSeed \/ GiveUp
Next == Run \/ Choose \/ Conclude \/ Finished

Spec == Init /\ [][Next]_vars

-----------------------------------------------------------------------------
(* Properties.                                                              *)

TypeOK ==
    /\ phase \in {"start", "run", "collect", "choose", "verdict", "done"}
    /\ current \in seen /\ seen \subseteq Inputs
    /\ position \in Nat /\ (phase # "start" => position <= Len(Path[current]))
    /\ {flip.conditions : flip \in queue} \subseteq tried
    /\ runs \in 0..MaxRuns
    /\ incomplete \subseteq Inputs /\ lost \subseteq Inputs

\* Until the search ends, an input that reaches the goal is on the path being followed,
\* behind a flip that waits, or on record as left out.
Frontier ==
    phase \in {"run", "collect", "choose"} /\ ~ reached =>
        \A i \in Reaching \ (lost \cup incomplete) :
            \/ phase = "run" /\ i \in Matching(Followed)
            \/ phase # "choose" /\ \E c \in flips : i \in Matching(c)
            \/ \E flip \in queue : i \in Matching(flip.conditions)

\* unsat claims that every path was followed.
UnsatIsExhaustive == status = "unsat" => Reaching \subseteq lost
=============================================================================
