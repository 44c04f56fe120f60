----------------------------- MODULE Reachability -----------------------------
(***************************************************************************)
(* GoalReachability: which blocks can still reach the goal, and the        *)
(* question a search asks of it before it keeps a state.                   *)
(*                                                                         *)
(* First the two analyses run, one backward closure per function, with     *)
(* their worklists.  Then a program whose control flow they describe is    *)
(* walked, branch by branch and call by call, whatever its data; `pruned`  *)
(* remembers that can_reach has said no.                                   *)
(***************************************************************************)
EXTENDS Integers, Sequences, FiniteSets

CONSTANTS
    Functions,    \* how many functions there are; a function is its position
    Blocks,       \* the blocks of a function, 0 the entry
    Program,      \* the blocks of each function
    Main,         \* where the walk starts
    MaxDepth      \* Budget.max_call_depth

Function == 1..Functions
Callees == {"none", "function", "import", "unresolved"}

\* One position of a block: whether it is a goal's address, and what it calls.
Position == [goal : BOOLEAN, target : Callees, callee : Function]

\* A tail call is the last position of a block that then returns.
Endings == {"goto", "table", "return", "tail", "unresolved", "stop"}
Block == [body : Seq(Position), ends : Endings, to : SUBSET Blocks]

ASSUME ReachabilityAssumption ==
    /\ Functions \in Nat \ {0} /\ 0 \in Blocks /\ IsFiniteSet(Blocks)
    /\ Program \in [Function -> [Blocks -> Block]]
    /\ \A f \in Function, b \in Blocks :
          Program[f][b].to # {} => Program[f][b].ends \in {"goto", "table"}
    /\ Main \in Function /\ MaxDepth \in Nat \ {0}

VARIABLES
    phase,        \* "returns", "goal" or "walk"
    function,     \* the function whose closure is computed
    work,         \* _backward's worklist
    reached,      \* _backward's result so far
    changed,      \* whether this pass over the functions has changed reaches_goal
    returns,      \* reaches_return
    reaches,      \* reaches_goal
    frames,       \* the walk: the frames, innermost first
    pruned        \* history: can_reach has denied a state of this walk

solver == <<phase, function, work, reached, changed, returns, reaches>>
walk == <<frames, pruned>>
vars == <<solver, walk>>

\* A frame at the start of a block.
StartOf(f, b) == [function |-> f, block |-> b, position |-> 1]

Frame == [function : Function, block : Blocks, position : Nat \ {0}]

-----------------------------------------------------------------------------
(* The analyses.                                                            *)

Predecessors(f, b) == {p \in Blocks : b \in Program[f][p].to}

\* Mutant of Returns: a tail call is not followed by a return.
PlainReturns(f) == {b \in Blocks : Program[f][b].ends = "return"}

\* _returns: Return, TailCall and IndirectJump, whether its targets are known or not.
Returns(f) == {b \in Blocks : Program[f][b].ends \in {"return", "tail", "table", "unresolved"}}

\* _touches_goal, by what is known of the callees so far.
Touches(known, here) ==
    \/ here.goal
    \/ here.target = "unresolved"
    \/ here.target = "function" /\ 0 \in known[here.callee]

\* Mutant of Touching: any call may reach the goal.
AnyCall(known, f) ==
    {b \in Blocks : \/ \E k \in 1..Len(Program[f][b].body) :
                          LET here == Program[f][b].body[k] IN
                          here.goal \/ here.target \in {"unresolved", "function"}
                    \/ Program[f][b].ends = "unresolved"}

Touching(known, f) ==
    {b \in Blocks : \/ \E k \in 1..Len(Program[f][b].body) : Touches(known, Program[f][b].body[k])
                    \/ Program[f][b].ends = "unresolved"}

\* Mutant of Visit: predecessors are queued but not marked.
VisitUnmarked(b) ==
    reached' = reached /\ work' = (work \ {b}) \cup (Predecessors(function, b) \ reached)

\* One turn of _backward's loop.
Visit(b) ==
    LET new == Predecessors(function, b) \ reached IN
    reached' = reached \cup new /\ work' = (work \ {b}) \cup new

Propagate ==
    /\ phase # "walk" /\ \E b \in work : Visit(b)
    /\ UNCHANGED <<phase, function, changed, returns, reaches, walk>>

\* _backward starts from the seeds of the next function.
Backward(seeds) == reached' = seeds /\ work' = seeds

KeepReturns ==
    /\ phase = "returns" /\ work = {}
    /\ returns' = [returns EXCEPT ![function] = reached]
    /\ IF function < Functions
       THEN phase' = "returns" /\ function' = function + 1 /\ Backward(Returns(function + 1))
       ELSE phase' = "goal" /\ function' = 1 /\ Backward(Touching(reaches, 1))
    /\ UNCHANGED <<changed, reaches, walk>>

\* Mutants of Progress: only the last function of a pass counts; every pass counts.
LastProgress == reached # reaches[function]
AlwaysProgress == TRUE

Progress == changed \/ reached # reaches[function]

\* A result is seen by the functions after it, and by every one in the next pass.
KeepReaches ==
    /\ phase = "goal" /\ work = {}
    /\ LET known == [reaches EXCEPT ![function] = reached]
           next == IF function < Functions THEN function + 1 ELSE 1
       IN /\ reaches' = known
          /\ function' = next
          /\ Backward(Touching(known, next))
    /\ changed' = (Progress /\ function < Functions)
    /\ phase' = IF function < Functions \/ Progress THEN "goal" ELSE "walk"
    /\ UNCHANGED <<returns, walk>>

-----------------------------------------------------------------------------
(* can_reach.                                                               *)

CanReach(stack) ==
    \E depth \in 1..Len(stack) :
        /\ stack[depth].block \in reaches[stack[depth].function]
        /\ \A inner \in 1..(depth - 1) :
              stack[inner].block \in returns[stack[inner].function]

-----------------------------------------------------------------------------
(* The control flow of a running program.                                   *)

Top == Head(frames)
Here == Program[Top.function][Top.block]
At(position) == <<[Top EXCEPT !.position = position]>> \o Tail(frames)

Moves(stack) ==
    /\ frames' = stack
    /\ pruned' = (pruned \/ ~ CanReach(stack))
    /\ UNCHANGED solver

Walking == phase = "walk" /\ frames # <<>>
Inside == Walking /\ Top.position <= Len(Here.body)
AtEnd == Walking /\ Top.position > Len(Here.body)

AtGoal == Inside /\ Here.body[Top.position].goal

\* An operation, or an import that comes back.
Advance ==
    /\ Inside /\ Here.body[Top.position].target # "function"
    /\ Moves(At(Top.position + 1))

\* A call, to a known function or, through a pointer, to any.
Enter ==
    /\ Inside /\ Len(frames) < MaxDepth
    /\ \E f \in Function :
          /\ \/ Here.body[Top.position].target = "function" /\ f = Here.body[Top.position].callee
             \/ Here.body[Top.position].target = "unresolved"
          /\ Moves(<<StartOf(f, 0)>> \o At(Top.position + 1))

\* Jump, Branch and IndirectJump.
Transfer ==
    /\ AtEnd
    /\ \E b \in Here.to : Moves(<<StartOf(Top.function, b)>> \o Tail(frames))

\* A jump through a pointer with no known target may go to any block, or leave.
Jump ==
    /\ AtEnd /\ Here.ends = "unresolved"
    /\ \E b \in Blocks : Moves(<<StartOf(Top.function, b)>> \o Tail(frames))

Leave ==
    /\ AtEnd /\ Here.ends \in {"return", "tail"}
    /\ Moves(Tail(frames))

-----------------------------------------------------------------------------

Init ==
    /\ phase = "returns" /\ function = 1
    /\ reached = Returns(1) /\ work = Returns(1) /\ changed = FALSE
    /\ returns = [f \in Function |-> {}] /\ reaches = [f \in Function |-> {}]
    /\ frames = <<StartOf(Main, 0)>> /\ pruned = FALSE

Solve == Propagate \/ KeepReturns \/ KeepReaches
Walk == Advance \/ Enter \/ Transfer \/ Jump \/ Leave

Next == Solve \/ Walk

Spec == Init /\ [][Next]_vars

\* The analyses are a loop of the analyser, not of the program: they just run.
FairSpec == Spec /\ WF_vars(Solve)

-----------------------------------------------------------------------------
(* What the analyses are to find: along jumps and into calls, a block leads *)
(* to a goal instruction or to code nobody can name.                        *)

Nodes == Function \X Blocks

After(n) ==
    LET here == Program[n[1]][n[2]] IN
    ({n[1]} \X here.to) \cup
    {<<here.body[k].callee, 0>> : k \in {k \in 1..Len(here.body) : here.body[k].target = "function"}}

AtOnce(n) ==
    LET here == Program[n[1]][n[2]] IN
    \/ \E k \in 1..Len(here.body) : here.body[k].goal \/ here.body[k].target = "unresolved"
    \/ here.ends = "unresolved"

Before(n) == {m \in Nodes : n \in After(m)}

\* Nodes that lead there in as many steps as there are nodes, or fewer.
Leading ==
    LET within[k \in 0..Cardinality(Nodes)] ==
            IF k = 0 THEN {n \in Nodes : AtOnce(n)}
            ELSE UNION {{n} \cup Before(n) : n \in within[k - 1]}
    IN within[Cardinality(Nodes)]

-----------------------------------------------------------------------------
(* Properties.                                                              *)

TypeOK ==
    /\ phase \in {"returns", "goal", "walk"} /\ function \in Function
    /\ work \subseteq reached /\ reached \subseteq Blocks /\ changed \in BOOLEAN
    /\ returns \in [Function -> SUBSET Blocks] /\ reaches \in [Function -> SUBSET Blocks]
    /\ frames \in Seq(Frame) /\ pruned \in BOOLEAN

\* "pruning never discards a state that could reach the goal" (reachability.py:7): a
\* walk that was denied once never executes a goal instruction.
PrunedNeverReachGoal == pruned => ~ AtGoal

\* The fixpoint is the least one: no block is kept without a way to the goal through the
\* jumps and calls of the program, so pruning prunes what the analysis can know.
Exact ==
    phase = "walk" =>
        \A f \in Function : reaches[f] = {b \in Blocks : <<f, b>> \in Leading}

\* An answer does not change its mind: nothing a denied state does makes can_reach say
\* yes, so it does not matter at which of its forks a state is asked about.
DenialIsFinal == [][phase = "walk" /\ ~ CanReach(frames) => ~ CanReach(frames)']_vars

\* The passes over mutually recursive functions come to an end.
Settles == <>(phase = "walk")
=============================================================================
