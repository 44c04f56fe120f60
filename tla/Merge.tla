---------------------------------- MODULE Merge ----------------------------------
(***************************************************************************)
(* Path merging: the search of one function whose branches may be run      *)
(* through a region to the join and folded into one state.                 *)
(*                                                                         *)
(* A symbolic state stands for all inputs at once: `data` says what its    *)
(* values, memory and I/O are at each input, `path` is the sequence of its *)
(* conditions, each the set of inputs that satisfy it.  An expression is   *)
(* constant when it is the same at every input.                            *)
(*                                                                         *)
(* Calls to other functions are single operations here; pruning, goal      *)
(* arguments, budgets and the order of the heap are in Search.             *)
(***************************************************************************)
EXTENDS Regions

CONSTANTS
    Programs,      \* the functions that are searched, a sequence
    Inputs,        \* what stdin may be: sequences of bytes
    Cells,         \* memory
    MaxVisits,     \* Budget.max_branch_visits
    Undecidable,   \* sets of conditions a solver may fail to decide
    MaxRun,        \* bound: operations and branches of a run that ends
    Loops          \* functions whose branches all meet again in the same iteration

\* A function has an entry, and its blocks end in blocks of the function.
WellFormed(f) ==
    /\ 1 \in Blocks(f)
    /\ \A b \in Blocks(f) :
          /\ Len(f[b].ops) \in Nat /\ DOMAIN f[b].ops = 1..Len(f[b].ops)
          /\ f[b].last.kind = "jump" => f[b].last.targets[1] \in Blocks(f)
          /\ f[b].last.kind = "branch" => \A side \in 1..2 : f[b].last.targets[side] \in Blocks(f)

\* What ir/validate.py makes sure of: every value that is used is made, and made before, on
\* every way from the entry; and lift/cfg.py: nothing leads back to the entry.
Validated(f) ==
    /\ IsFiniteSet(Edges(f)) /\ IsFiniteSet(Defined(f))
    /\ \A op \in Operations(f) : Reads(op) \subseteq Defined(f)
    /\ \A b \in Blocks(f) :
          /\ ToSet(f[b].last.uses) \subseteq Defined(f)
          /\ \A t \in Targets(f, b) : PhiUses(f, b, t) \subseteq Defined(f)
          /\ f[b].last.kind = "jump" => 1 \in DOMAIN f[b].last.targets
          /\ f[b].last.kind = "branch" => {1, 2} \subseteq DOMAIN f[b].last.targets
                                         /\ 1 \in DOMAIN f[b].last.uses
    /\ PhiOuts(f, 1) = {} /\ \A id \in Defined(f) : <<1, id>> \notin LiveAt(f)

ASSUME MergeAssumption ==
    /\ MaxVisits \in Nat /\ MaxRun \in Nat /\ Inputs # {} /\ IsFiniteSet(Inputs)
    /\ \A p \in DOMAIN Programs : WellFormed(Programs[p]) /\ Validated(Programs[p])
    /\ \A hard \in Undecidable : hard \subseteq SUBSET Inputs

\* `run` when no state is running.
NoState == [block |-> 0]

VARIABLES
    prog,          \* the function that is searched
    hard,          \* the conditions this solver may fail to decide
    pending,       \* Executor._pending
    run,           \* the state _run advances, outside every region
    stack,         \* the calls of _fork_and_merge and _run_region in progress
    ended          \* paths that stopped: how, and in which state

vars == <<prog, hard, pending, run, stack, ended>>
fixed == <<prog, hard>>
outside == <<pending, run, ended>>

\* RegionFinder keeps what it computed for each function.
RegionOf == [p \in DOMAIN Programs |-> [b \in Blocks(Programs[p]) |-> Region(Programs[p], b)]]
Addresses == [p \in DOMAIN Programs |-> Addressing(Programs[p])]
SlotsOf == [p \in DOMAIN Programs |-> AddressSlots(Programs[p])]
Usable ==
    [p \in DOMAIN Programs |->
        [b \in Blocks(Programs[p]) |->
            {id \in Defined(Programs[p]) : UsableAfter(Programs[p], b, id)}]]

Code == Programs[prog]

-----------------------------------------------------------------------------
(* What one operation does at one input.                                    *)

NoIO == [read |-> 0, printed |-> <<>>, drawn |-> 0]
Fresh == [values |-> <<>>, cells |-> [c \in Cells |-> 0], io |-> NoIO]

\* A function with one value put into it, or with those of another one.
Put(f, x, v) == [y \in DOMAIN f \cup {x} |-> IF y = x THEN v ELSE f[y]]
Over(g, f) == [y \in DOMAIN g \cup DOMAIN f |-> IF y \in DOMAIN g THEN g[y] ELSE f[y]]

Operands(op, d) == [k \in DOMAIN op.uses |-> d.values[op.uses[k]]]
Address(op, d) == IF op.base = None THEN op.cell ELSE d.values[op.base]
NextByte(i, d) == IF d.io.read < Len(i) THEN i[d.io.read + 1] ELSE 0

\* The value an operation defines.
Result(op, i, d) ==
    CASE op.kind = "read" -> NextByte(i, d)
      [] op.kind = "rand" -> d.io.drawn
      [] op.kind = "load" -> d.cells[Address(op, d)]
      [] OTHER -> op.by[Operands(op, d)]

\* What it does to memory and to the process's I/O.
Effect(op, i, d) ==
    LET wrote == IF op.kind = "store" THEN Put(d.cells, Address(op, d), Operands(op, d)[1]) ELSE d.cells
        io == CASE op.kind = "read" -> [d.io EXCEPT !.read = @ + 1]
                [] op.kind = "rand" -> [d.io EXCEPT !.drawn = @ + 1]
                [] op.kind = "print" -> [d.io EXCEPT !.printed = Append(@, Operands(op, d)[1])]
                [] OTHER -> d.io
    IN [values |-> IF op.out = None THEN d.values ELSE Put(d.values, op.out, Result(op, i, d)),
        cells |-> wrote, io |-> io]

\* _transfer: the phis of a block take their values together.
Transferred(f, from, to, d) ==
    LET phis == ToSet(f[to].phis)
        taken == [id \in {phi.out : phi \in phis} |->
                     d.values[(CHOOSE phi \in phis : phi.out = id).from[from]]]
    IN [d EXCEPT !.values = Over(taken, @)]

-----------------------------------------------------------------------------
(* Symbolic states.                                                         *)

AtEach(s, F(_, _)) == [i \in Inputs |-> F(i, s.data[i])]
IsConst(values) == Cardinality(Range(values)) = 1
ValueOf(s, id) == [i \in Inputs |-> s.data[i].values[id]]
Where(values, wanted) == {i \in Inputs : values[i] \in wanted}
Conjunction(path) == {i \in Inputs : \A k \in DOMAIN path : i \in path[k]}
Cond(s) == Conjunction(s.path)

\* The elements of a sequence at some of its places, in order.
Kept(seq, places) ==
    LET upto[n \in 0..Len(seq)] ==
            IF n = 0 THEN <<>>
            ELSE IF n \in places THEN Append(upto[n - 1], seq[n]) ELSE upto[n - 1]
    IN upto[Len(seq)]

\* add_constraint
Assume(s, condition) == IF condition = Inputs THEN s ELSE [s EXCEPT !.path = Append(@, condition)]

GoTo(s, to) ==
    LET enter(i, d) == Transferred(Code, s.block, to, d)
    IN [s EXCEPT !.block = to, !.position = 0, !.data = AtEach(s, enter)]

Block(s) == Code[s.block]
AtOperation(s) == s.position < Len(Block(s).ops)
Operation(s) == Block(s).ops[s.position + 1]

-----------------------------------------------------------------------------
(* Where the running state is, and where a step leaves what it made.        *)

NewState == [block |-> 1, position |-> 0, data |-> [i \in Inputs |-> Fresh], path |-> <<>>,
             visits |-> [b \in Blocks(Code) |-> 0]]

InRegion == stack # <<>>
Top == Last(stack)
Current == IF InRegion THEN Last(Top.todo) ELSE run
Runs == IF InRegion THEN Top.todo # <<>> ELSE run # NoState
AtJoin(s) == s.block = Top.region.join /\ s.position = 0
HasLeft(s) == s.block \notin Top.region.blocks /\ s.position = 0
Working == Runs /\ (InRegion => ~ AtJoin(Current) /\ ~ HasLeft(Current))

\* The region without the state _run_region has popped.
Popped == [Top EXCEPT !.todo = Front(@)]
Below == Front(stack)

\* Successors and stopped paths go to the region around, if there is one, or to the search.
HandTo(around, successors, stops) ==
    /\ IF around = <<>>
       THEN /\ pending' = pending \cup ToSet(successors)
            /\ ended' = ended \cup ToSet(stops)
            /\ run' = NoState /\ stack' = <<>>
       ELSE /\ stack' = [around EXCEPT ![Len(around)].todo = @ \o successors,
                                       ![Len(around)].stopped = @ \o stops]
            /\ UNCHANGED outside
    /\ UNCHANGED fixed

\* A step that returned successors and stopped paths.
Yield(successors, stops) ==
    HandTo(IF InRegion THEN Append(Below, Popped) ELSE <<>>, successors, stops)

\* A step that returned None: the same state goes on.
Continue(s) ==
    /\ IF InRegion
       THEN stack' = Append(Below, [Popped EXCEPT !.todo = Append(@, s)]) /\ UNCHANGED run
       ELSE run' = s /\ UNCHANGED stack
    /\ UNCHANGED <<fixed, pending, ended>>

Stops(states, how) == [k \in DOMAIN states |-> [how |-> how, state |-> states[k]]]
Stop(how) == Yield(<<>>, Stops(<<Current>>, how))

-----------------------------------------------------------------------------
(* Operations and terminators.                                              *)

Pop ==
    /\ run = NoState /\ ~ InRegion
    /\ \E s \in pending : run' = s /\ pending' = pending \ {s}
    /\ UNCHANGED <<fixed, stack, ended>>

Execute ==
    /\ Working /\ AtOperation(Current)
    /\ Operation(Current).kind \notin {"exit", "goal"}
    /\ LET does(i, d) == Effect(Operation(Current), i, d)
       IN Continue([Current EXCEPT !.position = @ + 1, !.data = AtEach(Current, does)])

\* exit, or an instruction of the goal.
Finish ==
    /\ Working /\ AtOperation(Current)
    /\ Operation(Current).kind \in {"exit", "goal"}
    /\ Stop(Operation(Current).kind)

At(kinds) == Working /\ ~ AtOperation(Current) /\ Block(Current).last.kind \in kinds

\* Return from the outermost frame, or a call that should not have come back.
Return == At({"return", "halt"}) /\ Stop(Block(Current).last.kind)

Jump == At({"jump"}) /\ Continue(GoTo(Current, Block(Current).last.targets[1]))

Condition(s) == ValueOf(s, Block(s).last.uses[1])
TrueTarget(s) == Block(s).last.targets[1]
FalseTarget(s) == Block(s).last.targets[2]

\* A branch whose condition folds.
Decided ==
    /\ At({"branch"}) /\ IsConst(Condition(Current))
    /\ Continue(GoTo(Current, IF 0 \in Range(Condition(Current)) THEN FalseTarget(Current)
                               ELSE TrueTarget(Current)))

Branching == At({"branch"}) /\ ~ IsConst(Condition(Current))

Visited(s) == [s EXCEPT !.visits[s.block] = @ + 1]

TooOften(s) == s.visits[s.block] >= MaxVisits

Bounded == Branching /\ TooOften(Current) /\ Stop("bound")

\* _fork: one state per side.
Children(s) ==
    LET zero == Where(Condition(s), {0})
    IN <<GoTo(Assume(Visited(s), Inputs \ zero), TrueTarget(s)),
         GoTo(Assume(Visited(s), zero), FalseTarget(s))>>

\* Inside a region nothing is asked; what the solver fails to decide it fails to decide.
Answer(s, undecided) ==
    IF InRegion THEN "sat"
    ELSE IF Cond(s) \in undecided THEN "unknown"
    ELSE IF Cond(s) = {} THEN "unsat" ELSE "sat"

\* The parent was feasible: if the first side is not, the second is not asked about.
Fork ==
    /\ Branching /\ ~ TooOften(Current)
    /\ RegionOf[prog][Current.block] = None
    /\ \E undecided \in SUBSET hard :
          LET children == Children(Current)
              first == Answer(children[1], undecided)
              answers == <<first, IF first = "unsat" THEN "sat" ELSE Answer(children[2], undecided)>>
              answered(answer) == Kept(children, {k \in 1..2 : answers[k] = answer})
          IN Yield(answered("sat"), Stops(answered("unknown"), "unknown"))

-----------------------------------------------------------------------------
(* Regions: _fork_and_merge and _run_region.                                *)

Enter ==
    /\ Branching /\ ~ TooOften(Current)
    /\ RegionOf[prog][Current.block] # None
    /\ stack' = Append(IF InRegion THEN Append(Below, Popped) ELSE <<>>,
                       [region |-> RegionOf[prog][Current.block], shared |-> Len(Current.path),
                        todo |-> Children(Current), arrived |-> <<>>, escaped |-> <<>>,
                        stopped |-> <<>>])
    /\ run' = NoState
    /\ UNCHANGED <<fixed, pending, ended>>

Arrive ==
    /\ InRegion /\ Runs /\ AtJoin(Current)
    /\ stack' = Append(Below, [Popped EXCEPT !.arrived = Append(@, Current)])
    /\ UNCHANGED <<fixed, outside>>

\* A path that leaves the loop goes on unmerged.
Escape ==
    /\ InRegion /\ Runs /\ ~ AtJoin(Current) /\ HasLeft(Current)
    /\ stack' = Append(Below, [Popped EXCEPT !.escaped = Append(@, Current)])
    /\ UNCHANGED <<fixed, outside>>

\* _possible_states: only a definite unsat drops a path.
Maybe(s, undecided) == Cond(s) # {} \/ Cond(s) \in undecided
Possible(states, undecided) ==
    Kept(states, {k \in DOMAIN states : Maybe(states[k], undecided)})

\* The same for paths that stopped on the way.
PossibleStops(stops, undecided) ==
    Kept(stops, {k \in DOMAIN stops : Maybe(stops[k].state, undecided)})

-----------------------------------------------------------------------------
(* _merge.                                                                  *)

\* Mutant of SameIO: paths need not have read and printed the same.
AnyIO(s, t) == TRUE

\* _same_io
SameIO(s, t) ==
    \A i \in Inputs : /\ s.data[i].io.read = t.data[i].io.read
                      /\ s.data[i].io.printed = t.data[i].io.printed

\* _choose gives up when constants disagree where an address may come from.
Disagree(candidates) == Cardinality({Range(v) : v \in {v \in candidates : IsConst(v)}}) > 1

CellOf(s, c) == [i \in Inputs |-> s.data[i].cells[c]]
Known(s) == DOMAIN s.data[CHOOSE i \in Inputs : TRUE].values

\* _resolve_location: the cell a slot is, where that is known.
Resolved(s, slot) ==
    CASE slot[1] = "const" -> {slot[2]}
      [] slot[1] = "load" -> IF IsConst(CellOf(s, slot[2])) THEN Range(CellOf(s, slot[2])) ELSE {}
      [] OTHER -> IF slot[2] \in Known(s) /\ IsConst(ValueOf(s, slot[2]))
                  THEN Range(ValueOf(s, slot[2])) ELSE {}

AddressCells(s) == (UNION {Resolved(s, slot) : slot \in SlotsOf[prog]}) \cap Cells

\* The values of the frame the paths have to agree about.
Shared(states, join) == {id \in Usable[prog][join] : \A k \in DOMAIN states : id \in Known(states[k])}

Mergeable(states, join) ==
    /\ \A k \in DOMAIN states : SameIO(states[k], Last(states))
    /\ \A id \in Shared(states, join) \cap Addresses[prog] :
          ~ Disagree({ValueOf(states[k], id) : k \in DOMAIN states})
    /\ \A c \in AddressCells(Last(states)) :
          ~ Disagree({CellOf(states[k], c) : k \in DOMAIN states})

\* Mutant of Selector: without the side of the branch itself.
LateSelector(s, shared) == Conjunction(SubSeq(s.path, shared + 2, Len(s.path)))

\* The conditions a path met since the branch.
Selector(s, shared) == Conjunction(SubSeq(s.path, shared + 1, Len(s.path)))

\* _choose: the first path whose selector holds, or the last path.
Choice(selectors, i) ==
    LET holding == {k \in 1..(Len(selectors) - 1) : i \in selectors[k]}
    IN IF holding = {} THEN Len(selectors) ELSE Min(holding)

\* The last path takes the others' memory and live values; its I/O stays its own.
Folded(states, shared, join) ==
    LET last == Last(states)
        selectors == [k \in DOMAIN states |-> Selector(states[k], shared)]
        chosen(i) == states[Choice(selectors, i)].data[i]
        fold(i, d) ==
            [d EXCEPT !.values = Over([id \in Shared(states, join) |-> chosen(i).values[id]], @),
                      !.cells = chosen(i).cells]
        merged == [last EXCEPT !.data = AtEach(last, fold),
                               !.path = SubSeq(@, 1, shared),
                               !.visits = [b \in DOMAIN @ |->
                                              Max({states[k].visits[b] : k \in DOMAIN states})]]
    IN Assume(merged, UNION Range(selectors))

Arrivals(top) ==
    IF Len(top.arrived) > 1 /\ Mergeable(top.arrived, top.region.join)
    THEN <<Folded(top.arrived, top.shared, top.region.join)>>
    ELSE top.arrived

Leave ==
    /\ InRegion /\ ~ Runs
    /\ \E undecided \in SUBSET hard :
          HandTo(Below, Possible(Arrivals(Top) \o Top.escaped, undecided),
                 PossibleStops(Top.stopped, undecided))

-----------------------------------------------------------------------------

Init ==
    /\ prog \in DOMAIN Programs /\ hard \in Undecidable
    /\ pending = {NewState} /\ run = NoState /\ stack = <<>> /\ ended = {}

Next ==
    \/ Pop \/ Execute \/ Finish \/ Return \/ Jump \/ Decided \/ Bounded \/ Fork
    \/ Enter \/ Arrive \/ Escape \/ Leave

Spec == Init /\ [][Next]_vars

-----------------------------------------------------------------------------
(* The run of one input, alone.                                             *)

MoreOf(f, i, m) ==
    LET block == f[m.block]
        op == block.ops[m.position + 1]
        enter(to) == [m EXCEPT !.block = to, !.position = 0,
                               !.data = Transferred(f, m.block, to, @)]
    IN IF m.how # "running" THEN m
       ELSE IF m.position < Len(block.ops)
       THEN IF op.kind \in {"exit", "goal"} THEN [m EXCEPT !.how = op.kind]
            ELSE [m EXCEPT !.position = @ + 1, !.data = Effect(op, i, @)]
       ELSE CASE block.last.kind = "jump" -> enter(block.last.targets[1])
              [] block.last.kind = "branch" ->
                    enter(block.last.targets[IF m.data.values[block.last.uses[1]] = 0 THEN 2 ELSE 1])
              [] OTHER -> [m EXCEPT !.how = block.last.kind]

OwnRun(f, i, length) ==
    LET at[n \in 0..length] ==
            IF n = 0 THEN [block |-> 1, position |-> 0, data |-> Fresh, how |-> "running"]
            ELSE LET so == at[n - 1] IN MoreOf(f, i, so)
    IN at[length]

Own == [p \in DOMAIN Programs |-> [i \in Inputs |-> OwnRun(Programs[p], i, MaxRun)]]

-----------------------------------------------------------------------------
(* Properties.                                                              *)

Suspended(top) == ToSet(top.todo) \cup ToSet(top.arrived) \cup ToSet(top.escaped)
                  \cup {e.state : e \in ToSet(top.stopped)}
Alive == pending \cup ({run} \ {NoState})
AllStates == Alive \cup (UNION {Suspended(stack[k]) : k \in DOMAIN stack})
             \cup {e.state : e \in ended}

\* A path the search gave up on.
GivenUp == {"bound", "unknown"}

\* The states and the region calls have the shape the code gives them.
StateOK(s) ==
    /\ s.block \in Blocks(Code) /\ s.position \in 0..Len(Block(s).ops)
    /\ s.visits \in [Blocks(Code) -> 0..MaxVisits]
    /\ s.path \in Seq(SUBSET Inputs) /\ DOMAIN s.data = Inputs
TypeOK ==
    /\ prog \in DOMAIN Programs /\ hard \in Undecidable
    /\ \A s \in AllStates : StateOK(s)
    /\ run # NoState => stack = <<>>
    /\ \A k \in DOMAIN stack : \A s \in Suspended(stack[k]) : Len(s.path) >= stack[k].shared

\* Merged states are exact: a path that stops does so where, and with the memory and the
\* output with which, the own run of each of its inputs stops.
EndsAsRun ==
    \A e \in ended : e.how \notin GivenUp =>
        \A i \in Cond(e.state) :
            LET own == Own[prog][i]
            IN /\ own.how = e.how /\ own.block = e.state.block
               /\ own.data.cells = e.state.data[i].cells
               /\ own.data.io.printed = e.state.data[i].io.printed

\* What _same_io does not ask: the paths that meet have drawn as many random numbers.
DrawsAlike ==
    InRegion => \A s, t \in ToSet(Top.arrived) : \A i \in Inputs :
                    s.data[i].io.drawn = t.data[i].io.drawn

\* Every run that ends does so within MaxRun steps.
LongEnough ==
    \A i \in Inputs : \A n \in Nat :
        OwnRun(Code, i, n).how # "running" => OwnRun(Code, i, MaxRun).how # "running"

\* No input is lost: whatever the solver answers, merging, escaping and stopping inside a
\* region leave each one in a state that goes on, has stopped, or is known to be given up.
Accounted == \A i \in Inputs : \E s \in AllStates : i \in Cond(s)

\* The forks nobody checked inside a region leave nothing impossible behind: a state or a
\* stopped path without inputs is only there because the solver could not say so.
NoGhosts ==
    {} \notin hard => \A s \in Alive \cup {e.state : e \in ended} : Cond(s) # {}

\* Paths stay mutually exclusive, as _merge takes for granted of its selectors: each input
\* is in exactly one state, and each state has an input.
OneStateEach ==
    /\ Accounted /\ NoGhosts
    /\ \A s, t \in AllStates : s # t => Cond(s) \cap Cond(t) = {}

\* A loop of diamonds costs one state per iteration: its paths are one again after each.
LoopsStayMerged == prog \in Loops => Cardinality(Alive) <= 1

\* Merging makes no address symbolic that was known on each path by itself.
AddressesStayKnown ==
    Working /\ AtOperation(Current) /\ Operation(Current).base # None
        => IsConst(ValueOf(Current, Operation(Current).base))
=============================================================================
