------------------------------- MODULE MCSearch -------------------------------
(***************************************************************************)
(* Small programs for the search, and their exact concrete semantics.      *)
(***************************************************************************)
EXTENDS Search

Anything == SUBSET Inputs          \* the solver may give up on any question
MCInitialData == [i \in Inputs |-> i]
Identity == [d \in Data |-> d]

\* An instruction that does nothing; the programs override what they use.
Nop ==
    [op |-> "compute", next |-> 1, effect |-> Identity, when |-> Data,
     wide |-> FALSE, gap |-> FALSE, choices |-> <<>>,
     target |-> "function", callee |-> 1, options |-> <<>>, hides |-> FALSE,
     avoidArgs |-> <<>>, goalArg |-> {}]

Jump(to) == [Nop EXCEPT !.next = to]
Set(f, to) == [Nop EXCEPT !.effect = f, !.next = to]
Guard(op, ok, to) == [Nop EXCEPT !.op = op, !.when = ok, !.next = to]
If(yes, there, otherwise) ==
    [Nop EXCEPT !.op = "branch",
                !.choices = <<[when |-> yes, to |-> there],
                              [when |-> Data \ yes, to |-> otherwise]>>]
Table(choices) == [Nop EXCEPT !.op = "switch", !.choices = choices]
CallTo(callee, to) == [Nop EXCEPT !.op = "call", !.callee = callee, !.next = to]
Import(options, to) ==
    [Nop EXCEPT !.op = "call", !.target = "import", !.options = options, !.next = to]
Returns(D, f) == [when |-> D, effect |-> f, ends |-> "returns", delay |-> 0]
Deferred(D, f) == [Returns(D, f) EXCEPT !.delay = 3]   \* an unusual number's shape
Prints(avoided, goal, to) ==
    [Import(<<Returns(Data, Identity)>>, to)
     EXCEPT !.avoidArgs = avoided, !.goalArg = goal]
Stops_(D, how) == [when |-> D, effect |-> Identity, ends |-> how, delay |-> 0]
Op(op) == [Nop EXCEPT !.op = op]

Add(n) == [d \in Data |-> (d + n) % Cardinality(Data)]

-----------------------------------------------------------------------------
(* Concrete runs: at most one successor of a configuration.  Code the analysis *)
(* cannot model goes on to the next point in these programs.                *)

AtGoal(c) ==
    LET ins == Code[c[1]] IN
    /\ c[1] \notin AvoidPoints /\ ~ CallsAvoided(ins, c[3])
    /\ \/ c[1] \in GoalPoints
       \/ CallsGoal(ins, c[3])
       \/ /\ ins.op = "return" /\ c[2] = <<>> /\ c[3] \in ins.when
          /\ \E goal \in OnReturn : c[3] \in goal

After(c) ==
    LET ins == Code[c[1]]  stack == c[2]  d == c[3] IN
    IF c[1] \in AvoidPoints \/ CallsAvoided(ins, d) THEN {}
    ELSE CASE ins.op \in {"compute", "unsupported"} -> {<<ins.next, stack, ins.effect[d]>>}
           [] ins.op \in {"divide", "access"} ->
                 IF d \in ins.when \/ ins.gap THEN {<<ins.next, stack, ins.effect[d]>>}
                 ELSE {}
           [] ins.op \in {"branch", "switch"} ->
                 {<<ins.choices[j].to, stack, d>> :
                     j \in {j \in 1..Len(ins.choices) : d \in ins.choices[j].when}}
           [] ins.op = "call" /\ ins.target = "function" ->
                 {<<ins.callee, <<ins.next>> \o stack, d>>}
           [] ins.op = "call" /\ ins.target = "import" ->
                 {<<ins.next, stack, ins.options[j].effect[d]>> :
                     j \in {j \in 1..Len(ins.options) : /\ d \in ins.options[j].when
                                                        /\ ins.options[j].ends \in {"returns", "unsupported"}}}
           [] ins.op = "call" -> {<<ins.next, stack, d>>}
           [] ins.op = "return" /\ d \in ins.when /\ stack # <<>> ->
                 {<<Head(stack), Tail(stack), d>>}
           [] OTHER -> {}

\* No run of these programs that reaches the goal takes this many steps.
LongestRun == 24

RECURSIVE RunsToGoal(_, _)
RunsToGoal(c, fuel) ==
    \/ AtGoal(c)
    \/ fuel > 0 /\ \E next \in After(c) : RunsToGoal(next, fuel - 1)

MCGoalward(p, stack, d) == RunsToGoal(<<p, stack, d>>, LongestRun)

\* What control flow alone allows, whatever the data.
ControlAfter(c) ==
    LET ins == Code[c[1]] IN
    CASE ins.op \in {"branch", "switch"} ->
            {<<ins.choices[j].to, c[2]>> : j \in 1..Len(ins.choices)}
      [] ins.op = "call" /\ ins.target = "function" -> {<<ins.callee, <<ins.next>> \o c[2]>>}
      [] ins.op = "return" -> IF c[2] = <<>> THEN {} ELSE {<<Head(c[2]), Tail(c[2])>>}
      [] ins.op = "halt" -> {}
      [] OTHER -> {<<ins.next, c[2]>>}

RECURSIVE Closure(_)
Closure(S) ==
    LET more == S \cup {n \in UNION {ControlAfter(c) : c \in S} : Len(n[2]) <= MaxCallDepth}
    IN IF more = S THEN S ELSE Closure(more)

\* An unresolved call may reach anything; with Goal.on_return nothing is pruned.
MCCanReach(p, stack) ==
    \/ OnReturn # {}
    \/ \E c \in Closure({<<p, stack>>}) :
          \/ c[1] \in GoalPoints \/ Code[c[1]].goalArg # {}
          \/ Code[c[1]].op = "call" /\ Code[c[1]].target = "unresolved"

-----------------------------------------------------------------------------
(* Programs.                                                                *)

\* main calls a checker that counts down in a loop, divides, loads through the input
\* and dispatches on it; all but input 1 reach the goal, at different depths.
Checker == [p \in Points |->
    CASE p = 1 -> If({0, 1}, 2, 3)
      [] p = 2 -> CallTo(5, 4)
      [] p = 3 -> Table(<<[when |-> {2}, to |-> 9], [when |-> {3}, to |-> 10]>>)
      [] p = 4 -> If({3}, 14, 12)
      [] p = 5 -> Set(Add(3), 6)
      [] p = 6 -> If({0, 3}, 7, 5)
      [] p = 7 -> Guard("divide", {1, 2, 3}, 8)
      [] p = 8 -> [Op("return") EXCEPT !.when = {2, 3}]
      [] p = 9 -> Guard("access", {0, 1, 2}, 11)
      [] p = 10 -> Import(<<Returns({0, 1}, Identity), Returns({2}, Add(1)),
                            Returns({3}, Add(2))>>, 13)
      [] p = 11 -> Import(<<Returns({0}, Identity), Deferred({1, 2, 3}, Add(3))>>, 14)
      [] p = 13 -> If({1}, 14, 12)
      [] OTHER -> Jump(1)]

\* main reads a number and prints a message: the goal is puts(success), the failure
\* message is avoided, both by the argument of the call.
Messages == [p \in Points |->
    CASE p = 1 -> Import(<<Returns({0, 1}, Identity), Returns({2, 3}, Identity)>>, 2)
      [] p = 2 -> Prints(<<{0}>>, {}, 3)
      [] p = 3 -> If({1, 2}, 4, 5)
      [] p = 4 -> Prints(<<{3}, {2}>>, {1}, 5)
      [] p = 5 -> Import(<<Stops_({0, 1, 2, 3}, "exits")>>, 6)
      [] OTHER -> Op("return")]

\* Every way a path can end without an answer, one per input, and the function's return
\* behind each; input 10 returns, with a value it may not return.  The last three print:
\* two failure messages and the one asked for, after which the program exits.  An
\* executor takes a goal of any kinds at once; here a return and a call are asked for.
Limits == [p \in Points |->
    CASE p = 1 -> Table([k \in 1..12 |->
                            [when |-> IF k = 12 THEN {11, 12, 13} ELSE {k - 1},
                             to |-> CASE k = 9 -> 16 [] k = 10 -> 15 [] k = 11 -> 14
                                      [] k = 12 -> 18 [] OTHER -> k + 1]])
      [] p = 2 -> CallTo(10, 14)
      [] p = 3 -> If({0}, 14, 3)                            \* a loop the input decides
      [] p = 4 -> [Guard("access", {2}, 14) EXCEPT !.wide = TRUE]
      [] p = 5 -> [CallTo(1, 14) EXCEPT !.target = "unresolved"]
      [] p = 6 -> [CallTo(1, 14) EXCEPT !.target = "missing"]
      [] p = 7 -> Set([d \in Data |-> 0], 11)
      [] p = 8 -> Import(<<Stops_({6}, "unsupported"), Returns({7}, Identity)>>, 14)
      [] p = 9 -> [Import(<<Returns({7}, [d \in Data |-> 0])>>, 12) EXCEPT !.hides = TRUE]
      [] p = 10 -> If({0}, 17, 14)                          \* endless recursion
      [] p = 11 -> [Guard("access", {2}, 14) EXCEPT !.gap = TRUE]
      [] p = 12 -> If({0}, 13, 14)
      [] p = 13 -> Op("halt")
      [] p = 15 -> [Op("unsupported") EXCEPT !.next = 14]
      [] p = 17 -> CallTo(10, 14)
      [] p = 18 -> Prints(<<{11}, {12}>>, {13}, 19)
      [] p = 19 -> Import(<<Stops_({11, 12, 13}, "exits")>>, 14)
      [] p = 16 -> Table(<<[when |-> {1}, to |-> 14], [when |-> {2}, to |-> 3]>>)
      [] OTHER -> Op("return")]

ReturnsAsked == {Data \ {10}}
=============================================================================
