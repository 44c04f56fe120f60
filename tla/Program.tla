------------------------------- MODULE Program -------------------------------
(***************************************************************************)
(* The lifted program a search explores, and what running it on one input  *)
(* means.                                                                  *)
(*                                                                         *)
(* A program point stands for a position inside a block of a RevIR         *)
(* function, the data for everything an instruction reads (registers and   *)
(* memory).  A symbolic expression is what it denotes, a function of the   *)
(* input, so a state keeps the data of every input at once, and a          *)
(* condition on the data is the set of data on which it holds.             *)
(***************************************************************************)
EXTENDS Integers, Sequences

CONSTANTS
    Inputs,        \* what the environment may supply: argv, stdin, files
    Data,          \* the values the program computes with
    Points,        \* the positions control can be at
    Code,          \* the instruction at each point
    Start,         \* the first point of main
    InitialData,   \* the data each input starts main with
    GoalPoints,    \* Goal.addresses
    AvoidPoints,   \* Goal.avoid
    OnReturn,      \* Goal.on_return: {} or the singleton of the goal's data set
    MaxCallDepth   \* Budget.max_call_depth

Ops == {"compute", "divide", "access", "branch", "switch", "call", "return",
        "unsupported", "halt"}
Targets == {"function", "import", "unresolved", "missing"}
Ends == {"returns", "exits", "faults", "unsupported"}

Choice == [when : SUBSET Data, to : Points]
Option == [when : SUBSET Data, effect : [Data -> Data], ends : Ends, delay : Nat]

\* One instruction.  `when` is the data that keeps going: divisors that are not
\* zero, addresses that are mapped, return addresses the caller pushed.
Instruction ==
    [op : Ops, next : Points, effect : [Data -> Data], when : SUBSET Data,
     wide : BOOLEAN, gap : BOOLEAN, choices : Seq(Choice),
     target : Targets, callee : Points, options : Seq(Option), hides : BOOLEAN,
     avoidArgs : Seq(SUBSET Data), goalArg : SUBSET Data]

\* The frames below the innermost one, each as the point its caller resumes at.
Stacks == UNION {[1..n -> Points] : n \in 0..(MaxCallDepth - 1)}

ASSUME ProgramAssumption ==
    /\ Inputs # {} /\ MaxCallDepth \in Nat \ {0}
    /\ \A p \in Points :
          /\ Code[p] \in Instruction
          /\ \A j, k \in 1..Len(Code[p].choices) :
                j # k => Code[p].choices[j].when \cap Code[p].choices[k].when = {}
    /\ Start \in Points
    /\ InitialData \in [Inputs -> Data]
    /\ GoalPoints \subseteq Points /\ AvoidPoints \subseteq Points
    /\ OnReturn \subseteq SUBSET Data /\ \A a, b \in OnReturn : a = b

-----------------------------------------------------------------------------
(***************************************************************************)
(* Goalward is a property of concrete machine configurations: "from here   *)
(* the run goes on to the goal".  It is a parameter, constrained only by   *)
(* what one instruction does, so a theorem that mentions it holds for the  *)
(* real set of configurations whose run reaches the goal.                  *)
(***************************************************************************)
CONSTANTS Goalward(_, _, _), CanReach(_, _)

\* The call itself is the goal: Goal.calls.
CallsGoal(ins, d) == ins.op = "call" /\ d \in ins.goalArg

\* The call prints an avoided message: Goal.avoid_calls.
CallsAvoided(ins, d) ==
    ins.op = "call" /\ \E j \in 1..Len(ins.avoidArgs) : d \in ins.avoidArgs[j]

\* The run continues to the goal from what a call does.  A call the analysis
\* cannot model, or one below the depth limit, promises nothing.
GoalwardCall(ins, stack, d) ==
    CASE ins.target = "function" ->
            Len(stack) + 1 >= MaxCallDepth \/ Goalward(ins.callee, <<ins.next>> \o stack, d)
      [] ins.target = "import" ->
            \/ ins.hides
            \/ \E j \in 1..Len(ins.options) :
                  /\ d \in ins.options[j].when
                  /\ \/ ins.options[j].ends = "unsupported"
                     \/ /\ ins.options[j].ends = "returns"
                        /\ Goalward(ins.next, stack, ins.options[j].effect[d])
      [] OTHER -> TRUE

GoalwardReturn(ins, stack, d) ==
    /\ d \in ins.when
    /\ IF stack = <<>> THEN \E goal \in OnReturn : d \in goal
       ELSE Goalward(Head(stack), Tail(stack), d)

GoalwardStep(p, stack, d) ==
    LET ins == Code[p] IN
    \/ p \notin AvoidPoints /\ p \in GoalPoints
    \/ /\ p \notin AvoidPoints
       /\ ~ CallsAvoided(ins, d)
       /\ CASE ins.op = "compute" -> Goalward(ins.next, stack, ins.effect[d])
            [] ins.op = "divide" -> d \in ins.when /\ Goalward(ins.next, stack, ins.effect[d])
            [] ins.op = "access" ->
                  \/ ins.gap /\ d \notin ins.when
                  \/ d \in ins.when /\ Goalward(ins.next, stack, ins.effect[d])
            [] ins.op \in {"branch", "switch"} ->
                  \/ \E j \in 1..Len(ins.choices) :
                        d \in ins.choices[j].when /\ Goalward(ins.choices[j].to, stack, d)
                  \/ /\ ins.op = "switch"
                     /\ \A j \in 1..Len(ins.choices) : d \notin ins.choices[j].when
            [] ins.op = "call" -> CallsGoal(ins, d) \/ GoalwardCall(ins, stack, d)
            [] ins.op = "return" -> GoalwardReturn(ins, stack, d)
            [] ins.op = "unsupported" -> TRUE
            [] ins.op = "halt" -> FALSE

\* What Goalward may be: one step of a run that reaches the goal stays on it,
\* and GoalReachability.can_reach never denies it.
ASSUME GoalwardAssumption ==
    \A p \in Points, stack \in Stacks, d \in Data :
        Goalward(p, stack, d) => GoalwardStep(p, stack, d) /\ CanReach(p, stack)

\* The steps a run takes as the analysis models them, from which it goes on to the goal.
GoalwardAlong(ins, stack, d) ==
    CASE ins.op = "compute" -> Goalward(ins.next, stack, ins.effect[d])
      [] ins.op \in {"divide", "access"} ->
            d \in ins.when /\ Goalward(ins.next, stack, ins.effect[d])
      [] ins.op \in {"branch", "switch"} ->
            \E j \in 1..Len(ins.choices) :
                d \in ins.choices[j].when /\ Goalward(ins.choices[j].to, stack, d)
      [] ins.op = "call" /\ ins.target = "function" ->
            Len(stack) + 1 < MaxCallDepth /\ Goalward(ins.callee, <<ins.next>> \o stack, d)
      [] ins.op = "call" /\ ins.target = "import" ->
            \E j \in 1..Len(ins.options) :
                /\ d \in ins.options[j].when /\ ins.options[j].ends = "returns"
                /\ Goalward(ins.next, stack, ins.options[j].effect[d])
      [] ins.op = "return" -> GoalwardReturn(ins, stack, d)
      [] OTHER -> FALSE

\* What Goalward has to be: a run that is at the goal, or takes such a step to where it
\* goes on to the goal, goes on to the goal.
ASSUME GoalwardConverse ==
    \A p \in Points \ AvoidPoints, stack \in Stacks, d \in Data :
        \/ p \in GoalPoints
        \/ /\ ~ CallsAvoided(Code[p], d)
           /\ CallsGoal(Code[p], d) \/ GoalwardAlong(Code[p], stack, d)
        => Goalward(p, stack, d)

\* The inputs that reach the goal, where Goalward is exact.
Reaching == {i \in Inputs : Goalward(Start, <<>>, InitialData[i])}
=============================================================================
