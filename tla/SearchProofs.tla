----------------------------- MODULE SearchProofs -----------------------------
(***************************************************************************)
(* Proofs about the search, for every program, every solver and every      *)
(* budget.                                                                 *)
(***************************************************************************)
EXTENDS Search, TLAPS, SequenceTheorems, FiniteSetTheorems

-----------------------------------------------------------------------------
(* The data.                                                                *)

\* The innermost frame pushed below the depth limit leaves a stack within it.
LEMMA PushedStack ==
    ASSUME NEW stack \in Stacks, NEW p \in Points, ~ TooDeep(stack)
    PROVE  <<p>> \o stack \in Stacks
<1>1. PICK n \in 0..(MaxCallDepth - 1) : stack \in [1..n -> Points]
  BY DEF Stacks
<1>2. stack \in Seq(Points) /\ Len(stack) = n
  BY <1>1
<1>3. n + 1 \in 0..(MaxCallDepth - 1)
  BY <1>2, ProgramAssumption DEF TooDeep
<1>4. <<p>> \in Seq(Points) /\ Len(<<p>>) = 1
  OBVIOUS
<1>5. <<p>> \o stack \in Seq(Points) /\ Len(<<p>> \o stack) = n + 1
  BY <1>2, <1>4, ConcatProperties
<1>6. <<p>> \o stack \in [1..(n + 1) -> Points]
  BY <1>5, LenProperties
<1>. QED
  BY <1>3, <1>6 DEF Stacks

\* Returning to the caller leaves a stack within the limit.
LEMMA PoppedStack ==
    ASSUME NEW stack \in Stacks, stack # <<>>
    PROVE  Head(stack) \in Points /\ Tail(stack) \in Stacks
<1>1. PICK n \in 0..(MaxCallDepth - 1) : stack \in [1..n -> Points]
  BY DEF Stacks
<1>2. stack \in Seq(Points) /\ Len(stack) = n
  BY <1>1
<1>3. n - 1 \in 0..(MaxCallDepth - 1)
  BY <1>1, <1>2, ProgramAssumption
<1>4. Head(stack) \in Points /\ Tail(stack) \in Seq(Points) /\ Len(Tail(stack)) = n - 1
  BY <1>2, HeadTailProperties
<1>5. Tail(stack) \in [1..(n - 1) -> Points]
  BY <1>4, LenProperties
<1>. QED
  BY <1>3, <1>4, <1>5 DEF Stacks

\* What Code says of the point a state is at.
LEMMA HereIsInstruction ==
    ASSUME NEW s \in SymbolicState
    PROVE  Code[s.at] \in Instruction
BY ProgramAssumption DEF SymbolicState

\* Assuming a condition, moving and computing keep a state a state.
LEMMA StateAlgebra ==
    ASSUME NEW s \in SymbolicState, NEW D, NEW p \in Points, NEW f \in [Data -> Data]
    PROVE  /\ Assume(s, D) \in SymbolicState
           /\ GoTo(s, p) \in SymbolicState
           /\ Update(s, f) \in SymbolicState
BY DEF Assume, GoTo, Update, SymbolicState, Where

\* There is an input, so a condition does not fold to both constants.
LEMMA AlwaysOrNever == \A s, D : ~ (Always(s, D) /\ Never(s, D))
BY ProgramAssumption DEF Always, Never

-----------------------------------------------------------------------------
(* How a step of _run leaves the queue typed.                               *)

LEMMA YieldQueue ==
    ASSUME TypeOK, NEW successors \in SUBSET SymbolicState,
           NEW goals \in Seq(SymbolicState), NEW reasons,
           Yield(successors, goals, reasons)
    PROVE  QueueOK'
<1>1. reached \o goals \o split \in Seq(SymbolicState)
  BY ConcatProperties DEF TypeOK, QueueOK
<1>. QED
  BY <1>1 DEF TypeOK, QueueOK, Yield

LEMMA StopQueue ==
    ASSUME TypeOK, NEW reason, Stops(reason)
    PROVE  QueueOK'
BY YieldQueue, EmptySeq DEF Stops

LEMMA ContinueQueue ==
    ASSUME TypeOK, phase = "run", NEW s \in SymbolicState, Continue(s)
    PROVE  QueueOK'
BY DEF TypeOK, QueueOK, Continue

LEMMA ResumesQueue ==
    ASSUME TypeOK, phase = "run", NEW s \in SymbolicState, Resumes(s)
    PROVE  QueueOK'
BY YieldQueue, ContinueQueue, EmptySeq DEF Resumes

LEMMA RunningFacts ==
    ASSUME TypeOK, phase = "run"
    PROVE  /\ run \in SymbolicState /\ Here \in Instruction
           /\ Here.next \in Points /\ Here.effect \in [Data -> Data]
           /\ run.stack \in Stacks /\ Here.callee \in Points
           /\ Here.choices \in Seq(Choice) /\ Here.options \in Seq(Option)
<1>1. run \in SymbolicState
  BY DEF TypeOK, QueueOK
<1>2. Here \in Instruction
  BY <1>1, HereIsInstruction DEF Here
<1>. QED
  BY <1>1, <1>2 DEF Instruction, SymbolicState

\* new_state_id, and the counters a fork moves.
LEMMA TickType == ASSUME TypeOK, Tick PROVE steps' \in Nat
BY DEF TypeOK, CountersOK, Tick

LEMMA UnchangedVerdict == ASSUME TypeOK, UNCHANGED verdict PROVE VerdictOK'
BY DEF TypeOK, VerdictOK, verdict

LEMMA NewIdType == ASSUME TypeOK, NEW k \in Nat PROVE NewId(k) \in Nat
BY DEF TypeOK, CountersOK, NewId

\* A state with some of its fields replaced.
LEMMA Replaced ==
    ASSUME NEW s \in SymbolicState, NEW id \in Nat, NEW cond \in SUBSET Inputs,
           NEW at \in Points, NEW visits \in [Points -> Nat], NEW decisions \in Nat
    PROVE  [s EXCEPT !.id = id, !.cond = cond, !.at = at, !.visits = visits,
                     !.decisions = decisions] \in SymbolicState
BY DEF SymbolicState

\* A child of a fork is a state.
LEMMA ChildType ==
    ASSUME TypeOK, phase = "run", NEW choices \in Seq(Choice),
           NEW k \in 1..Len(choices), NEW deeper \in Nat
    PROVE  Child(choices, k, deeper) \in SymbolicState
<1>1. choices[k] \in Choice
  BY ElementOfSeq
<1>2. run \in SymbolicState
  BY RunningFacts
<1>3. choices[k].to \in Points /\ Side(choices[k]) \subseteq Inputs
  BY <1>1, <1>2 DEF Choice, Side, SymbolicState
<1>4. NewId(k) \in Nat
  BY NewIdType, LenProperties
<1>5. run.visits \in [Points -> Nat] /\ run.at \in Points
  BY <1>2 DEF SymbolicState
<1>6. [run.visits EXCEPT ![run.at] = @ + 1] \in [Points -> Nat]
  BY <1>5
<1>. DEFINE id == IF k = Len(choices) THEN run.id ELSE NewId(k)
            visits == [run.visits EXCEPT ![run.at] = @ + 1]
            decisions == run.decisions + deeper
<1>7. id \in Nat /\ decisions \in Nat /\ visits \in [Points -> Nat]
  BY <1>2, <1>4, <1>6 DEF SymbolicState
<1>8. [run EXCEPT !.id = id, !.cond = Side(choices[k]), !.at = choices[k].to,
                  !.visits = visits, !.decisions = decisions] \in SymbolicState
  <2>. HIDE DEF id, visits, decisions
  <2>. QED
    BY <1>2, <1>3, <1>7, Replaced
<1>. QED
  BY <1>8 DEF Child

LEMMA ForkQueue ==
    ASSUME TypeOK, phase = "run", NEW choices \in Seq(Choice), Fork(choices)
    PROVE  QueueOK' /\ nextId' \in Nat /\ states' \in Nat
<1>. DEFINE unknown(answer) == {"solver-unknown" : k \in {k \in 1..Len(choices) : answer[k] = "unknown"}}
<1>1. Len(choices) \in Nat
  BY LenProperties
<1>2. CASE run.visits[run.at] >= MaxVisits
  BY <1>2, StopQueue DEF Fork, NoFork, TypeOK, CountersOK
<1>3. CASE ~ (run.visits[run.at] >= MaxVisits)
  <2>1. PICK answer : Yield(Children(choices, answer), <<>>, unknown(answer))
    BY <1>3 DEF Fork
  <2>2. Children(choices, answer) \in SUBSET SymbolicState
    BY ChildType DEF Children, Kept
  <2>3. QueueOK'
    BY <2>1, <2>2, YieldQueue, EmptySeq
  <2>4. PICK more \in Nat : nextId' = nextId + more /\ states' = states + more
    BY <1>1, <1>3 DEF Fork
  <2>. QED
    BY <2>3, <2>4 DEF TypeOK, CountersOK
<1>. QED
  BY <1>2, <1>3

-----------------------------------------------------------------------------
(* What an import's model answers.                                          *)

\* Live options are finitely many, and their ranks are numbers.
LEMMA RankType ==
    ASSUME TypeOK, phase = "run", NEW S \in SUBSET (1..Len(Here.options)), NEW j
    PROVE  Cardinality(S) \in Nat /\ Rank(S, j) \in Nat
<1>1. Len(Here.options) \in Int
  <2>1. Here.options \in Seq(Option)
    BY RunningFacts
  <2>. QED
    BY <2>1, LenProperties
<1>2. IsFiniteSet(1..Len(Here.options))
  BY <1>1, FS_Interval
<1>3. IsFiniteSet(S)
  BY <1>2, FS_Subset
<1>4. IsFiniteSet({i \in S : i <= j})
  BY <1>3, FS_Subset
<1>. QED
  BY <1>3, <1>4, FS_CardinalityType DEF Rank

LEMMA Renumbered ==
    ASSUME NEW s \in SymbolicState, NEW id \in Nat, NEW cond \in SUBSET Inputs,
           NEW decisions \in Nat
    PROVE  [s EXCEPT !.cond = cond, !.id = id, !.decisions = decisions] \in SymbolicState
BY DEF SymbolicState

LEMMA OutcomeType ==
    ASSUME TypeOK, phase = "run", NEW chosen \in SUBSET (1..Len(Here.options)), NEW j \in Live
    PROVE  Outcome(chosen, j) \in SymbolicState
<1>. DEFINE option == Here.options[j]
            spread == IF Cardinality(chosen) > 1 THEN Rank(chosen, j) ELSE 0
            id == IF Cardinality(Live) = 1 THEN run.id ELSE NewId(Rank(Live, j))
            decisions == run.decisions + spread + option.delay
            base == GoTo(Update(run, option.effect), Here.next)
<1>1. Live \in SUBSET (1..Len(Here.options))
  BY DEF Live
<1>2. option \in Option
  BY <1>1, RunningFacts, ElementOfSeq
<1>3. run \in SymbolicState /\ Here.next \in Points
  BY RunningFacts
<1>4. base \in SymbolicState
  BY <1>2, <1>3, StateAlgebra DEF Option
<1>5. Side(option) \subseteq Inputs
  BY <1>3 DEF Side, SymbolicState
<1>6. spread \in Nat
  BY RankType
<1>7. decisions \in Nat
  BY <1>2, <1>3, <1>6 DEF SymbolicState, Option
<1>8. id \in Nat
  <2>1. Rank(Live, j) \in Nat
    BY <1>1, RankType
  <2>. QED
    BY <1>3, <2>1, NewIdType DEF SymbolicState
<1>9. [base EXCEPT !.cond = Side(option), !.id = id, !.decisions = decisions] \in SymbolicState
  <2>. HIDE DEF base, option, id, decisions
  <2>. QED
    BY <1>4, <1>5, <1>7, <1>8, Renumbered
<1>. QED
  BY <1>9 DEF Outcome

LEMMA ImportQueue ==
    ASSUME TypeOK, CallImport
    PROVE  QueueOK' /\ CountersOK'
<1>1. phase = "run" /\ Live \in SUBSET (1..Len(Here.options))
  BY DEF CallImport, Calling, Running, Live
<1>2. nextId' \in Nat /\ states' \in Nat
  <2>1. /\ nextId' = IF Cardinality(Live) > 1 THEN nextId + Cardinality(Live) ELSE nextId
        /\ states' = IF Cardinality(Live) > 1 THEN states + Cardinality(Live) - 1 ELSE states
    BY DEF CallImport
  <2>. QED
    BY <1>1, <2>1, RankType DEF TypeOK, CountersOK
<1>3. steps' \in Nat /\ hiding' \in BOOLEAN /\ hurried' \in BOOLEAN
  <2>1. Here.hides \in BOOLEAN
    BY <1>1, RunningFacts DEF Instruction
  <2>2. steps' \in Nat /\ hiding' \in BOOLEAN
    BY <2>1, TickType DEF CallImport, TypeOK, CountersOK
  <2>3. hurried' = (hurried \/ (phase' = "run" /\ run'.decisions # run.decisions))
    BY DEF CallImport
  <2>4. hurried' \in BOOLEAN
    BY <2>3, Zenon
  <2>. QED
    BY <2>2, <2>4
<1>4. PICK chosen \in SUBSET Live :
        LET returning == {j \in chosen : Here.options[j].ends = "returns"}
            last == {j \in Live : \A k \in Live : k <= j}
        IN IF Raising(chosen) # {} THEN Raises(chosen)
           ELSE /\ UNCHANGED dropped
                /\ IF returning = last /\ chosen = last /\ last # {}
                   THEN \E j \in last : Resumes(Outcome(chosen, j))
                   ELSE Yield({Outcome(chosen, j) : j \in returning}, <<>>,
                              {"exited" : j \in chosen \ returning})
  BY DEF CallImport
<1>5. chosen \in SUBSET (1..Len(Here.options))
  BY <1>1
<1>6. ASSUME Raising(chosen) # {}
      PROVE  QueueOK' /\ dropped' \subseteq Inputs
  <2>1. \A option : Side(option) \subseteq Inputs
    BY <1>1, RunningFacts DEF Side, SymbolicState
  <2>2. QueueOK'
    BY <1>4, <1>6, StopQueue DEF Raises
  <2>. QED
    BY <1>4, <1>6, <2>1, <2>2 DEF Raises, TypeOK, CountersOK
<1>7. ASSUME Raising(chosen) = {}
      PROVE  QueueOK' /\ dropped' \subseteq Inputs
  <2>1. \A j \in Live : Outcome(chosen, j) \in SymbolicState
    BY <1>1, <1>5, OutcomeType
  <2>2. ASSUME NEW j \in Live, Resumes(Outcome(chosen, j))
        PROVE  QueueOK'
    BY <1>1, <2>1, <2>2, ResumesQueue
  <2>3. ASSUME NEW returning \in SUBSET Live, NEW reasons,
               Yield({Outcome(chosen, j) : j \in returning}, <<>>, reasons)
        PROVE  QueueOK'
    BY <2>1, <2>3, YieldQueue, EmptySeq
  <2>4. QueueOK'
    BY <1>4, <1>7, <2>2, <2>3
  <2>. QED
    BY <1>4, <1>7, <2>4 DEF TypeOK, CountersOK
<1>. QED
  BY <1>2, <1>3, <1>6, <1>7 DEF CountersOK

-----------------------------------------------------------------------------
(* Type correctness.                                                        *)

LEMMA InitTyped == Init => TypeOK
<1>1. InitialState \in SymbolicState
  <2>1. <<>> \in Stacks
    <3>1. 0 \in 0..(MaxCallDepth - 1)
      BY ProgramAssumption
    <3>2. <<>> \in [1..0 -> Points]
      OBVIOUS
    <3>. QED
      BY <3>1, <3>2 DEF Stacks
  <2>. QED
    BY <2>1, ProgramAssumption DEF InitialState, SymbolicState
<1>2. <<>> \in Seq(SymbolicState) /\ Len(<<>>) = 0
  BY EmptySeq
<1>3. Init => QueueOK
  BY <1>1, <1>2 DEF Init, QueueOK
<1>4. Init => CountersOK
  <2>1. {} \subseteq Inputs /\ 0 \in Nat /\ 1 \in Nat /\ FALSE \in BOOLEAN
    OBVIOUS
  <2>. QED
    BY <2>1 DEF Init, CountersOK
<1>5. Init => VerdictOK
  BY <1>2, SearchAssumption DEF Init, VerdictOK, Exhaustions
<1>. QED
  BY <1>3, <1>4, <1>5 DEF TypeOK

LEMMA ExploreTyped == TypeOK /\ Explore => TypeOK'
<1>. SUFFICES ASSUME TypeOK, Explore PROVE TypeOK'
  OBVIOUS
<1>. USE DEF TypeOK, QueueOK, CountersOK, VerdictOK
<1>1. ASSUME NEW budget \in Exhaustions, Exhaust(budget), phase = "loop"
      PROVE  TypeOK'
  BY <1>1 DEF Exhaust, engine, record
<1>2. CASE OutOfStates
  BY <1>1, <1>2 DEF OutOfStates, Exhaustions
<1>3. CASE OutOfSteps
  BY <1>1, <1>3 DEF OutOfSteps, Exhaustions
<1>4. CASE OutOfTime
  BY <1>1, <1>4 DEF OutOfTime, Exhaustions
<1>5. CASE Pop
  BY <1>5 DEF Pop, verdict
<1>6. CASE LoopEnds
  BY <1>6 DEF LoopEnds, engine, record, verdict
<1>. QED
  BY <1>2, <1>3, <1>4, <1>5, <1>6 DEF Explore

LEMMA OperateTyped == TypeOK /\ Operate => TypeOK'
<1>. SUFFICES ASSUME TypeOK, Operate PROVE TypeOK'
  OBVIOUS
<1>1. phase = "run" /\ run \in SymbolicState
  <2>1. phase = "run"
    BY DEF Operate, Observe, Compute, Divide, AccessKnown, AccessSymbolic, Unsupported, Halt,
           Running
  <2>. QED
    BY <2>1, RunningFacts
<1>2. VerdictOK'
  <2>1. UNCHANGED verdict
    BY DEF Operate, Observe, Compute, Divide, AccessKnown, AccessSymbolic, Unsupported, Halt,
           Running
  <2>. QED
    BY <2>1, UnchangedVerdict
<1>3. CountersOK'
  <2>1. CASE AccessSymbolic
    <3>1. run.cond \subseteq Inputs
      BY <1>1 DEF SymbolicState
    <3>2. dropped' \subseteq Inputs
      BY <2>1, <3>1 DEF AccessSymbolic, TypeOK, CountersOK
    <3>. QED
      BY <2>1, <3>2, TickType DEF AccessSymbolic, NoFork, TypeOK, CountersOK
  <2>2. CASE ~ AccessSymbolic
    <3>1. NoFork /\ Exact /\ (Tick \/ UNCHANGED steps)
      BY <2>2 DEF Operate, Observe, Compute, Divide, AccessKnown, Unsupported, Halt
    <3>. QED
      BY <3>1, TickType DEF NoFork, Exact, TypeOK, CountersOK
  <2>. QED
    BY <2>1, <2>2
<1>4. \A D : Onward(Assume(run, D)) \in SymbolicState /\ Onward(run) \in SymbolicState
  BY <1>1, RunningFacts, StateAlgebra DEF Onward
<1>5. ASSUME NEW D, Require(Onward(Assume(run, D))) PROVE QueueOK'
  BY <1>1, <1>4, <1>5, StopQueue, ContinueQueue DEF Require
<1>6. QueueOK'
  <2>1. CASE Observe
    <3>1. <<run>> \in Seq(SymbolicState) /\ {} \in SUBSET SymbolicState
      BY <1>1
    <3>. QED
      BY <2>1, <3>1, StopQueue, YieldQueue DEF Observe
  <2>2. CASE Compute
    <3>1. GoTo(Update(run, Here.effect), Here.next) \in SymbolicState
      BY <1>1, RunningFacts, StateAlgebra
    <3>. QED
      BY <1>1, <2>2, <3>1, ContinueQueue DEF Compute
  <2>3. CASE Divide
    BY <1>1, <1>4, <1>5, <2>3, StopQueue, ContinueQueue DEF Divide
  <2>4. CASE AccessKnown
    BY <1>1, <1>4, <2>4, StopQueue, ContinueQueue DEF AccessKnown
  <2>5. CASE AccessSymbolic
    BY <1>5, <2>5, StopQueue DEF AccessSymbolic
  <2>6. CASE Unsupported \/ Halt
    BY <2>6, StopQueue DEF Unsupported, Halt
  <2>. QED
    BY <2>1, <2>2, <2>3, <2>4, <2>5, <2>6 DEF Operate
<1>. QED
  BY <1>2, <1>3, <1>6 DEF TypeOK

LEMMA TransferTyped == TypeOK /\ Transfer => TypeOK'
<1>. SUFFICES ASSUME TypeOK, Transfer PROVE TypeOK'
  OBVIOUS
<1>1. phase = "run" /\ run \in SymbolicState
  <2>1. phase = "run"
    BY DEF Transfer, Branch, Switch, ReturnToCaller, ReturnFromMain, Running
  <2>. QED
    BY <2>1, RunningFacts
<1>2. VerdictOK'
  <2>1. UNCHANGED verdict
    BY DEF Transfer, Branch, Switch, ReturnToCaller, ReturnFromMain, Running
  <2>. QED
    BY <2>1, UnchangedVerdict
<1>3. UNCHANGED <<steps, hiding, dropped, hurried>>
  BY DEF Transfer, Branch, Switch, ReturnToCaller, ReturnFromMain, Exact
<1>4. ASSUME NoFork PROVE CountersOK'
  BY <1>3, <1>4 DEF NoFork, TypeOK, CountersOK
<1>5. ASSUME Fork(Here.choices) PROVE QueueOK' /\ CountersOK'
  <2>1. Here.choices \in Seq(Choice)
    BY <1>1, RunningFacts
  <2>. QED
    BY <1>1, <1>3, <1>5, <2>1, ForkQueue DEF TypeOK, CountersOK
<1>6. ASSUME NEW k \in Decided(Here.choices), Continue(GoTo(run, Here.choices[k].to))
      PROVE  QueueOK'
  <2>1. Here.choices[k].to \in Points
    <3>1. Here.choices[k] \in Choice
      BY <1>1, RunningFacts, ElementOfSeq DEF Decided
    <3>. QED
      BY <3>1 DEF Choice
  <2>2. GoTo(run, Here.choices[k].to) \in SymbolicState
    BY <1>1, <2>1, StateAlgebra DEF GoTo, SymbolicState
  <2>. QED
    BY <1>1, <1>6, <2>2, ContinueQueue
<1>7. CASE Branch
  BY <1>2, <1>4, <1>5, <1>6, <1>7 DEF Branch, TypeOK
<1>8. CASE Switch
  BY <1>2, <1>4, <1>5, <1>6, <1>8, StopQueue DEF Switch, TypeOK
<1>9. CASE ReturnToCaller
  <2>. DEFINE assumed == Assume(run, Here.when)
              back == [assumed EXCEPT !.at = Head(run.stack), !.stack = Tail(run.stack)]
  <2>1. assumed \in SymbolicState
    BY <1>1, RunningFacts, StateAlgebra
  <2>2. Head(run.stack) \in Points /\ Tail(run.stack) \in Stacks
    BY <1>1, <1>9, RunningFacts, PoppedStack DEF ReturnToCaller
  <2>3. back \in SymbolicState
    <3>. HIDE DEF assumed
    <3>. QED
      BY <2>1, <2>2 DEF SymbolicState
  <2>. QED
    BY <1>1, <1>2, <1>4, <1>9, <2>3, StopQueue, ContinueQueue DEF ReturnToCaller, TypeOK
<1>10. CASE ReturnFromMain
  <2>1. ASSUME NEW goal PROVE Assume(Assume(run, Here.when), goal) \in SymbolicState
    BY <1>1, RunningFacts, StateAlgebra
  <2>2. ASSUME NEW s \in SymbolicState, Yield({}, <<s>>, {"goal"}) PROVE QueueOK'
    <3>1. <<s>> \in Seq(SymbolicState) /\ {} \in SUBSET SymbolicState
      OBVIOUS
    <3>. QED
      BY <2>2, <3>1, YieldQueue
  <2>3. QueueOK'
    BY <1>10, <2>1, <2>2, StopQueue DEF ReturnFromMain, Answers
  <2>. QED
    BY <1>2, <1>4, <1>10, <2>3 DEF ReturnFromMain, TypeOK
<1>. QED
  BY <1>7, <1>8, <1>9, <1>10 DEF Transfer

LEMMA CallTyped == TypeOK /\ CallSteps => TypeOK'
<1>. SUFFICES ASSUME TypeOK, CallSteps PROVE TypeOK'
  OBVIOUS
<1>1. phase = "run" /\ run \in SymbolicState
  <2>1. phase = "run"
    BY DEF CallSteps, AvoidArgument, GoalArgument, CallFunction, CallElsewhere, CallImport,
           Calling, Running
  <2>. QED
    BY <2>1, RunningFacts
<1>2. VerdictOK'
  <2>1. UNCHANGED verdict
    BY DEF CallSteps, AvoidArgument, GoalArgument, CallFunction, CallElsewhere, CallImport,
           Calling, Running
  <2>. QED
    BY <2>1, UnchangedVerdict
<1>3. \A D : Assume(run, D) \in SymbolicState
  BY <1>1, RunningFacts, StateAlgebra
<1>4. ASSUME NEW s \in SymbolicState, NextArgument(s),
             split' \in Seq(SymbolicState), Len(split') <= 1
      PROVE  QueueOK'
  BY <1>1, <1>4 DEF NextArgument, TypeOK, QueueOK
<1>5. CASE AvoidArgument
  <2>1. CountersOK'
    BY <1>5 DEF AvoidArgument, NoFork, Exact, TypeOK, CountersOK
  <2>2. ASSUME NEW s \in SymbolicState, NextArgument(s), UNCHANGED split PROVE QueueOK'
    BY <1>4, <2>2 DEF TypeOK, QueueOK
  <2>3. QueueOK'
    BY <1>1, <1>3, <1>5, <2>2, StopQueue DEF AvoidArgument
  <2>. QED
    BY <1>2, <2>1, <2>3 DEF TypeOK
<1>6. CASE GoalArgument
  <2>. DEFINE goal == [Assume(run, Here.goalArg) EXCEPT !.id = NewId(1)]
  <2>1. goal \in SymbolicState
    <3>1. NewId(1) \in Nat
      BY NewIdType
    <3>. QED
      BY <1>3, <3>1 DEF SymbolicState
  <2>. HIDE DEF goal
  <2>2. <<run>> \in Seq(SymbolicState) /\ <<goal>> \in Seq(SymbolicState)
        /\ <<>> \in Seq(SymbolicState) /\ {} \in SUBSET SymbolicState
        /\ Len(<<goal>>) = 1 /\ Len(<<>>) = 0
    BY <1>1, <2>1
  <2>3. CASE Never(run, Here.goalArg)
    <3>1. NextArgument(run) /\ UNCHANGED split /\ NoFork /\ Exact /\ UNCHANGED steps
      BY <1>6, <2>3, AlwaysOrNever DEF GoalArgument
    <3>. QED
      BY <1>1, <1>2, <1>4, <3>1 DEF NoFork, Exact, TypeOK, QueueOK, CountersOK
  <2>4. CASE Always(run, Here.goalArg)
    <3>1. Yield({}, <<run>>, {"goal"}) /\ NoFork /\ Exact /\ UNCHANGED steps
      BY <1>6, <2>4, AlwaysOrNever DEF GoalArgument
    <3>2. QueueOK'
      BY <2>2, <3>1, YieldQueue
    <3>. QED
      BY <1>2, <3>1, <3>2 DEF NoFork, Exact, TypeOK, CountersOK
  <2>5. CASE ~ Never(run, Here.goalArg) /\ ~ Always(run, Here.goalArg)
    <3>1. /\ split' = <<goal>> \/ split' = <<>>
          /\ dropped' = dropped \cup goal.cond \/ dropped' = dropped
          /\ NextArgument(Assume(run, Data \ Here.goalArg))
          /\ nextId' = nextId + 1 /\ states' = states + 1
          /\ UNCHANGED <<hiding, hurried, steps>>
      BY <1>6, <2>5 DEF GoalArgument, goal
    <3>2. goal.cond \subseteq Inputs
      BY <2>1 DEF SymbolicState
    <3>3. CountersOK'
      BY <3>1, <3>2 DEF TypeOK, CountersOK
    <3>4. split' \in Seq(SymbolicState) /\ Len(split') <= 1
      <4>1. 0 <= 1 /\ 1 <= 1
        OBVIOUS
      <4>2. CASE split' = <<goal>>
        BY <2>2, <4>1, <4>2, Zenon
      <4>3. CASE split' = <<>>
        BY <2>2, <4>1, <4>3, Zenon
      <4>. QED
        BY <3>1, <4>2, <4>3
    <3>. QED
      BY <1>2, <1>3, <1>4, <3>1, <3>3, <3>4 DEF TypeOK
  <2>. QED
    BY <2>3, <2>4, <2>5
<1>7. CASE CallFunction
  <2>1. CountersOK'
    BY <1>7, TickType DEF CallFunction, NoFork, Exact, TypeOK, CountersOK
  <2>2. ASSUME ~ TooDeep(run.stack)
        PROVE  [run EXCEPT !.at = Here.callee, !.stack = <<Here.next>> \o run.stack]
                  \in SymbolicState
    <3>1. <<Here.next>> \o run.stack \in Stacks
      BY <1>1, <2>2, RunningFacts, PushedStack
    <3>. QED
      BY <1>1, <3>1, RunningFacts DEF SymbolicState
  <2>3. QueueOK'
    BY <1>1, <1>7, <2>2, StopQueue, ResumesQueue DEF CallFunction
  <2>. QED
    BY <1>2, <2>1, <2>3 DEF TypeOK
<1>8. CASE CallElsewhere
  BY <1>2, <1>8, StopQueue, TickType DEF CallElsewhere, NoFork, Exact, TypeOK, CountersOK
<1>9. CASE CallImport
  BY <1>2, <1>9, ImportQueue DEF TypeOK
<1>. QED
  BY <1>5, <1>6, <1>7, <1>8, <1>9 DEF CallSteps

LEMMA SolveTyped == TypeOK /\ (Solve \/ Finished) => TypeOK'
<1>. SUFFICES ASSUME TypeOK, Solve \/ Finished PROVE TypeOK'
  OBVIOUS
<1>1. CASE Resume
  BY <1>1 DEF Resume, Finding, engine, record, TypeOK, QueueOK, CountersOK, VerdictOK
<1>2. CASE TryReached
  <2>1. index + 1 \in 1..Len(reached)
    BY <1>2, LenProperties DEF TryReached, OutOfReached, TypeOK, QueueOK, VerdictOK
  <2>2. reached[index + 1] \in SymbolicState
    BY <2>1, ElementOfSeq DEF TypeOK, QueueOK
  <2>3. unpreferred' \in Seq(SymbolicState)
    BY <1>2, <2>2, AppendProperties DEF TryReached, TypeOK, VerdictOK
  <2>4. solutions' \subseteq Inputs
    BY <1>2, <2>2 DEF TryReached, TypeOK, VerdictOK, SymbolicState
  <2>5. QueueOK' /\ CountersOK'
    BY <1>2 DEF TryReached, engine, record, TypeOK, QueueOK, CountersOK
  <2>. QED
    BY <1>2, <2>3, <2>4, <2>5 DEF TryReached, TypeOK, VerdictOK
<1>3. CASE PickEnds
  BY <1>3 DEF PickEnds, engine, record, verdict, TypeOK, QueueOK, CountersOK, VerdictOK
<1>4. CASE TryUnpreferred
  <2>1. Head(unpreferred) \in SymbolicState /\ Tail(unpreferred) \in Seq(SymbolicState)
    BY <1>4, HeadTailProperties DEF TryUnpreferred, TypeOK, VerdictOK
  <2>2. solutions' \subseteq Inputs
    BY <1>4, <2>1 DEF TryUnpreferred, TypeOK, VerdictOK, SymbolicState
  <2>3. QueueOK' /\ CountersOK'
    BY <1>4 DEF TryUnpreferred, engine, record, TypeOK, QueueOK, CountersOK
  <2>. QED
    BY <1>4, <2>1, <2>2, <2>3 DEF TryUnpreferred, TypeOK, VerdictOK
<1>5. CASE Conclude
  <2>1. Verdict \in Statuses
    BY DEF Verdict, Statuses
  <2>. QED
    BY <1>5, <2>1 DEF Conclude, engine, record, TypeOK, QueueOK, CountersOK, VerdictOK
<1>6. CASE Finished
  BY <1>6 DEF Finished, vars, TypeOK, QueueOK, CountersOK, VerdictOK
<1>. QED
  BY <1>1, <1>2, <1>3, <1>4, <1>5, <1>6 DEF Solve

\* Every variable keeps its type: stacks stay below the depth limit, and a state runs
\* exactly while _run does.
THEOREM TypeCorrect == Spec => []TypeOK
<1>1. Init => TypeOK
  BY InitTyped
<1>2. TypeOK /\ [Next]_vars => TypeOK'
  <2>1. TypeOK /\ UNCHANGED vars => TypeOK'
    BY DEF vars, TypeOK, QueueOK, CountersOK, VerdictOK
  <2>. QED
    BY <2>1, ExploreTyped, OperateTyped, TransferTyped, CallTyped, SolveTyped DEF Next
<1>. QED
  BY <1>1, <1>2, PTL DEF Spec

-----------------------------------------------------------------------------
(***************************************************************************)
(* The search loses no input without saying so, and hence `unsat` is a     *)
(* claim about every input but those in `dropped`.                         *)
(*                                                                         *)
(* Covered is not inductive by itself.  It needs to know that a call whose *)
(* conditions were all looked at has no goal input left (Screened), that   *)
(* nothing but such a call holds split-off goal states (SplitAtCall), that *)
(* a state popped from the heap starts with none of its conditions looked  *)
(* at (BetweenRuns), and, for the verdict, that the search stops looking   *)
(* only for a reason (Drained) and that the verdict is drawn from the      *)
(* final state (Claimed).                                                  *)
(***************************************************************************)

Screened ==
    phase = "run" /\ handled = Len(Here.avoidArgs) + 1
        => \A i \in run.cond : run.data[i] \notin Here.goalArg

SplitAtCall ==
    split # <<>> =>
        phase = "run" /\ Here.op = "call" /\ handled = Len(Here.avoidArgs) + 1

BetweenRuns == phase # "run" => handled = 0

Drained ==
    phase \in {"pick", "fallback", "done"} =>
        exhausted # "none" \/ pending = {} \/ reached # <<>>

Claimed == wanted >= 1 /\ (status # "none" => phase = "done" /\ status = Verdict)

Inv ==
    /\ TypeOK /\ Covered /\ Screened /\ SplitAtCall /\ BetweenRuns
    /\ Drained /\ Claimed

\* What Covered says of one input.
Accounted(i) ==
    \/ incomplete # {} \/ hiding \/ i \in dropped
    \/ \E s \in Alive : i \in Leads(s)
    \/ \E k \in 1..Len(reached) : i \in reached[k].cond

LEMMA CoveredIsAccounted == Covered <=> \A i \in Reaching : Accounted(i)
BY DEF Covered, Accounted

-----------------------------------------------------------------------------
(* What one step of _run owes the inputs the running state leads.           *)

\* A run that ends hands each of them to a successor or a goal state, or says why not.
LEMMA YieldCovers ==
    ASSUME TypeOK, phase = "run", NEW successors \in SUBSET SymbolicState,
           NEW goals \in Seq(SymbolicState), NEW reasons,
           Yield(successors, goals, reasons), hiding => hiding', dropped \subseteq dropped',
           NEW i, Accounted(i),
           i \in Leads(run) => \/ reasons \cap IncompleteReasons # {}
                               \/ hiding' \/ i \in dropped'
                               \/ \E s \in successors : i \in Leads(s)
                               \/ \E k \in 1..Len(goals) : i \in goals[k].cond
    PROVE  Accounted(i)'
<1>. DEFINE all == reached \o goals \o split
<1>1. reached \in Seq(SymbolicState) /\ split \in Seq(SymbolicState)
  BY DEF TypeOK, QueueOK
<1>2. /\ reached \o goals \in Seq(SymbolicState)
      /\ Len(reached) \in Nat /\ Len(goals) \in Nat /\ Len(split) \in Nat
      /\ Len(all) = Len(reached) + Len(goals) + Len(split)
  BY <1>1, ConcatProperties, LenProperties
<1>3. \A k \in 1..Len(reached) : k \in 1..Len(all) /\ all[k] = reached[k]
  BY <1>1, <1>2, ConcatProperties
<1>4. \A k \in 1..Len(goals) :
         Len(reached) + k \in 1..Len(all) /\ all[Len(reached) + k] = goals[k]
  BY <1>1, <1>2, ConcatProperties
<1>5. \A k \in 1..Len(split) :
         LET j == Len(reached) + Len(goals) + k IN j \in 1..Len(all) /\ all[j] = split[k]
  BY <1>1, <1>2, ConcatProperties
<1>. HIDE DEF all
<1>6. /\ reached' = all /\ pending' = pending \cup successors
      /\ incomplete' = incomplete \cup (reasons \cap IncompleteReasons)
  BY DEF Yield, all
<1>7. CASE incomplete # {} \/ hiding \/ i \in dropped
  BY <1>6, <1>7 DEF Accounted
<1>8. CASE \E s \in pending : i \in Leads(s)
  BY <1>6, <1>8 DEF Accounted, Alive, Leads
<1>9. CASE i \in Leads(run)
  <2>1. CASE reasons \cap IncompleteReasons # {} \/ hiding' \/ i \in dropped'
    BY <1>6, <2>1 DEF Accounted
  <2>2. CASE \E s \in successors : i \in Leads(s)
    BY <1>6, <2>2 DEF Accounted, Alive, Leads
  <2>3. CASE \E k \in 1..Len(goals) : i \in goals[k].cond
    BY <1>4, <1>6, <2>3 DEF Accounted
  <2>. QED
    BY <1>9, <2>1, <2>2, <2>3
<1>10. CASE \E k \in 1..Len(split) : i \in Leads(split[k])
  BY <1>5, <1>6, <1>10 DEF Accounted, Leads
<1>11. CASE \E k \in 1..Len(reached) : i \in reached[k].cond
  BY <1>3, <1>6, <1>11 DEF Accounted
<1>. QED
  BY <1>7, <1>8, <1>9, <1>10, <1>11 DEF Accounted, Alive, Current

\* A run that goes on as `s` keeps them in `s`, or sets them aside.
LEMMA ContinueCovers ==
    ASSUME phase = "run", phase' = "run", NEW s, run' = s,
           UNCHANGED <<pending, reached, incomplete>>,
           hiding => hiding', dropped \subseteq dropped',
           split' = split \/ split = <<>>,
           NEW i, Accounted(i),
           i \in Leads(run) => \/ i \in Leads(s) \/ hiding' \/ i \in dropped'
                               \/ \E k \in 1..Len(split') : i \in Leads(split'[k])
    PROVE  Accounted(i)'
<1>1. CASE incomplete # {} \/ hiding \/ i \in dropped
  BY <1>1 DEF Accounted
<1>2. CASE \E t \in pending : i \in Leads(t)
  BY <1>2 DEF Accounted, Alive, Leads
<1>3. CASE i \in Leads(run)
  BY <1>3 DEF Accounted, Alive, Current, Leads
<1>4. CASE \E k \in 1..Len(split) : i \in Leads(split[k])
  <2>1. split' = split
    BY <1>4
  <2>. QED
    BY <1>4, <2>1 DEF Accounted, Alive, Leads
<1>5. CASE \E k \in 1..Len(reached) : i \in reached[k].cond
  BY <1>5 DEF Accounted
<1>. QED
  BY <1>1, <1>2, <1>3, <1>4, <1>5 DEF Accounted, Alive, Current

\* A stop that is recorded owes nothing; one that is not, only what can still reach.
LEMMA StopCovers ==
    ASSUME TypeOK, phase = "run", NEW reason, Stops(reason),
           hiding => hiding', dropped \subseteq dropped', NEW i, Accounted(i),
           i \in Leads(run) => reason \in IncompleteReasons \/ hiding' \/ i \in dropped'
    PROVE  Accounted(i)'
<1>1. {} \in SUBSET SymbolicState /\ <<>> \in Seq(SymbolicState)
  BY EmptySeq
<1>2. Yield({}, <<>>, {reason})
  BY DEF Stops
<1>3. i \in Leads(run) =>
        {reason} \cap IncompleteReasons # {} \/ hiding' \/ i \in dropped'
  OBVIOUS
<1>. QED
  BY <1>1, <1>2, <1>3, YieldCovers

\* What is known of an input the running state leads.
LEMMA LeadsFacts ==
    ASSUME TypeOK, phase = "run", NEW i \in Leads(run)
    PROVE  /\ i \in Inputs /\ i \in run.cond /\ run.data[i] \in Data
           /\ Goalward(run.at, run.stack, run.data[i])
           /\ GoalwardStep(run.at, run.stack, run.data[i])
<1>1. run \in SymbolicState
  BY RunningFacts
<1>2. /\ i \in run.cond /\ run.data[i] \in Data /\ run.at \in Points /\ run.stack \in Stacks
      /\ i \in Inputs
  BY <1>1 DEF SymbolicState, Leads
<1>3. Goalward(run.at, run.stack, run.data[i])
  BY DEF Leads
<1>. QED
  BY <1>2, <1>3, GoalwardAssumption

\* Answers that say no say the truth.
LEMMA RefutedIsEmpty ==
    ASSUME NEW cond, NEW answer \in Answers(cond), Refuted(answer)
    PROVE  cond = {}
BY DEF Answers, Refuted

\* Moving and computing: where an input of the result stands.
LEMMA OnwardLeads ==
    ASSUME TypeOK, phase = "run", NEW i \in Inputs, NEW D,
           i \in run.cond, run.data[i] \in D,
           Goalward(Here.next, run.stack, Here.effect[run.data[i]])
    PROVE  i \in Leads(Onward(Assume(run, D))) /\ i \in Leads(Onward(run))
<1>1. run \in SymbolicState
  BY RunningFacts
<1>. QED
  BY <1>1 DEF Leads, Onward, GoTo, Update, Assume, Where, SymbolicState

LEMMA OperateCovers ==
    ASSUME Inv, Operate, NEW i, Accounted(i)
    PROVE  Accounted(i)'
<1>1. phase = "run" /\ run \in SymbolicState /\ TypeOK
  <2>1. phase = "run"
    BY DEF Operate, Observe, Compute, Divide, AccessKnown, AccessSymbolic, Unsupported, Halt,
           Running
  <2>. QED
    BY <2>1, RunningFacts DEF Inv
<1>2. (hiding => hiding') /\ dropped \subseteq dropped'
  BY DEF Operate, Observe, Compute, Divide, AccessKnown, AccessSymbolic, Unsupported, Halt,
         Exact
<1>3. ASSUME NEW s, Continue(s), Here.op # "call",
             i \in Leads(run) => i \in Leads(s) \/ i \in dropped'
      PROVE  Accounted(i)'
  <2>1. /\ phase' = "run" /\ run' = s /\ UNCHANGED <<pending, reached, incomplete>>
        /\ split' = split
    BY <1>1, <1>3 DEF Continue
  <2>. QED
    BY <1>1, <1>2, <1>3, <2>1, ContinueCovers
<1>4. CASE Observe
  <2>1. CASE run.at \in AvoidPoints
    <3>1. i \notin Leads(run)
      BY <1>1, <2>1, LeadsFacts DEF GoalwardStep
    <3>. QED
      BY <1>1, <1>2, <1>4, <2>1, <3>1, StopCovers DEF Observe
  <2>2. CASE run.at \notin AvoidPoints
    <3>1. <<run>> \in Seq(SymbolicState) /\ {} \in SUBSET SymbolicState
          /\ 1 \in 1..Len(<<run>>) /\ <<run>>[1] = run
      BY <1>1
    <3>2. i \in Leads(run) => \E k \in 1..Len(<<run>>) : i \in <<run>>[k].cond
      BY <3>1 DEF Leads
    <3>3. Yield({}, <<run>>, {"goal"})
      BY <1>4, <2>2 DEF Observe
    <3>. QED
      BY <1>1, <1>2, <3>1, <3>2, <3>3, YieldCovers
  <2>. QED
    BY <2>1, <2>2
<1>5. CASE Compute
  <2>1. Here.op = "compute" /\ run.at \notin AvoidPoints \cup GoalPoints
    BY <1>5 DEF Compute, Running
  <2>2. i \in Leads(run) => i \in Leads(Onward(run))
    BY <1>1, <2>1, LeadsFacts, OnwardLeads DEF GoalwardStep, Here
  <2>. QED
    BY <1>3, <1>5, <2>1, <2>2 DEF Compute, Onward
<1>6. ASSUME NEW answer \in Answers(Onward(Assume(run, Here.when)).cond), Refuted(answer),
             i \in Leads(run), run.data[i] \in Here.when
      PROVE  FALSE
  <2>1. i \in Onward(Assume(run, Here.when)).cond
    BY <1>1, <1>6, LeadsFacts DEF Onward, GoTo, Update, Assume, Where, SymbolicState
  <2>. QED
    BY <1>6, <2>1, RefutedIsEmpty
<1>7. CASE Divide
  <2>1. Here.op = "divide" /\ run.at \notin AvoidPoints \cup GoalPoints
    BY <1>7 DEF Divide, Running
  <2>2. i \in Leads(run) => /\ i \in Leads(Onward(Assume(run, Here.when)))
                            /\ i \in Leads(Onward(run))
                            /\ run.data[i] \in Here.when /\ i \in Inputs
    BY <1>1, <2>1, LeadsFacts, OnwardLeads DEF GoalwardStep, Here
  <2>3. CASE Always(run, Here.when)
    BY <1>3, <1>7, <2>1, <2>2, <2>3, AlwaysOrNever DEF Divide
  <2>4. CASE Never(run, Here.when)
    <3>1. i \notin Leads(run)
      BY <2>2, <2>4 DEF Never, Where
    <3>2. Stops("fault")
      BY <1>7, <2>4, AlwaysOrNever DEF Divide
    <3>. QED
      BY <1>1, <1>2, <3>1, <3>2, StopCovers
  <2>5. CASE ~ Always(run, Here.when) /\ ~ Never(run, Here.when)
    <3>1. Require(Onward(Assume(run, Here.when)))
      BY <1>7, <2>5 DEF Divide
    <3>. QED
      BY <1>1, <1>2, <1>3, <1>6, <2>1, <2>2, <3>1, StopCovers DEF Require
  <2>. QED
    BY <2>3, <2>4, <2>5
<1>8. ASSUME Running("access"), i \in Leads(run)
      PROVE  /\ i \in Inputs /\ i \in run.cond
             /\ \/ Here.gap /\ run.data[i] \notin Here.when
                \/ /\ run.data[i] \in Here.when
                   /\ i \in Leads(Onward(Assume(run, Here.when)))
                   /\ i \in Leads(Onward(run))
  BY <1>1, <1>8, LeadsFacts, OnwardLeads DEF Running, GoalwardStep, Here
<1>9. CASE AccessKnown
  <2>1. Running("access") /\ Here.op = "access"
    BY <1>9 DEF AccessKnown, Running
  <2>2. CASE Always(run, Here.when)
    <3>1. i \in Leads(run) => run.data[i] \in Here.when
      BY <1>8, <2>1, <2>2 DEF Always, Where
    <3>. QED
      BY <1>3, <1>8, <1>9, <2>1, <2>2, <3>1 DEF AccessKnown
  <2>3. CASE ~ Always(run, Here.when)
    <3>1. i \in Leads(run) => run.data[i] \notin Here.when
      BY <1>8, <1>9, <2>1, <2>3 DEF AccessKnown, Known, Always, Where
    <3>2. i \in Leads(run) => Here.gap
      BY <1>8, <2>1, <3>1
    <3>3. Stops(IF Here.gap THEN "unsupported" ELSE "fault")
      BY <1>9, <2>3 DEF AccessKnown
    <3>. QED
      BY <1>1, <1>2, <3>2, <3>3, StopCovers DEF IncompleteReasons
  <2>. QED
    BY <2>2, <2>3
<1>10. CASE AccessSymbolic
  <2>1. Running("access") /\ Here.op = "access"
    BY <1>10 DEF AccessSymbolic, Running
  <2>2. CASE Here.wide
    <3>1. Stops("unsupported")
      BY <1>10, <2>2 DEF AccessSymbolic
    <3>. QED
      BY <1>1, <1>2, <3>1, StopCovers DEF IncompleteReasons
  <2>3. CASE ~ Here.wide
    <3>1. /\ Require(Onward(Assume(run, Here.when)))
          /\ dropped' = IF Here.gap THEN dropped \cup (run.cond \ Where(run, Here.when))
                       ELSE dropped
      BY <1>10, <2>3 DEF AccessSymbolic
    <3>2. i \in Leads(run) =>
             i \in dropped' \/ (run.data[i] \in Here.when
                               /\ i \in Leads(Onward(Assume(run, Here.when))))
      BY <1>8, <2>1, <3>1 DEF Where
    <3>. QED
      BY <1>1, <1>2, <1>3, <1>6, <2>1, <3>1, <3>2, StopCovers DEF Require
  <2>. QED
    BY <2>2, <2>3
<1>11. CASE Unsupported
  BY <1>1, <1>2, <1>11, StopCovers DEF Unsupported, IncompleteReasons
<1>12. CASE Halt
  <2>1. i \notin Leads(run)
    BY <1>1, <1>12, LeadsFacts DEF Halt, Running, GoalwardStep, Here
  <2>. QED
    BY <1>1, <1>2, <1>12, <2>1, StopCovers DEF Halt
<1>. QED
  BY <1>4, <1>5, <1>7, <1>9, <1>10, <1>11, <1>12 DEF Operate

-----------------------------------------------------------------------------
(* Control flow.                                                            *)

\* A side a led input takes is kept, or its answer was "unknown".
LEMMA ForkCovers ==
    ASSUME TypeOK, phase = "run", Fork(Here.choices), UNCHANGED <<hiding, dropped>>,
           NEW i, Accounted(i),
           i \in Leads(run) => \E j \in 1..Len(Here.choices) :
                                 /\ run.data[i] \in Here.choices[j].when
                                 /\ Goalward(Here.choices[j].to, run.stack, run.data[i])
    PROVE  Accounted(i)'
<1>. DEFINE choices == Here.choices
            unknown(answer) ==
               {"solver-unknown" : k \in {k \in 1..Len(choices) : answer[k] = "unknown"}}
<1>1. choices \in Seq(Choice) /\ run \in SymbolicState
  BY RunningFacts
<1>2. CASE run.visits[run.at] >= MaxVisits
  BY <1>2, StopCovers DEF Fork, IncompleteReasons
<1>3. CASE ~ (run.visits[run.at] >= MaxVisits)
  <2>1. PICK answer \in [1..Len(choices) -> {"sat", "unsat", "unknown"}] :
          /\ \A k \in 1..Len(choices) :
                answer[k] \in IF Asked(choices, answer, k) THEN Answers(Side(choices[k]))
                              ELSE {"sat"}
          /\ Yield(Children(choices, answer), <<>>, unknown(answer))
    BY <1>3 DEF Fork
  <2>2. Children(choices, answer) \in SUBSET SymbolicState
    BY <1>1, ChildType DEF Children, Kept
  <2>3. ASSUME i \in Leads(run)
        PROVE  \/ unknown(answer) \cap IncompleteReasons # {}
               \/ \E s \in Children(choices, answer) : i \in Leads(s)
    <3>1. PICK j \in 1..Len(choices) :
            /\ run.data[i] \in choices[j].when
            /\ Goalward(choices[j].to, run.stack, run.data[i])
      BY <2>3
    <3>2. /\ i \in Inputs /\ i \in Side(choices[j]) /\ run.data[i] \in Data
          /\ run.stack \in Stacks /\ run.data \in [Inputs -> Data]
      BY <1>1, <2>3, <3>1, LeadsFacts DEF Side, Where, SymbolicState
    <3>3. choices[j].to \in Points
      <4>1. choices[j] \in Choice
        BY <1>1, ElementOfSeq
      <4>. QED
        BY <4>1 DEF Choice
    <3>4. CanReach(choices[j].to, run.stack)
      BY <3>1, <3>2, <3>3, GoalwardAssumption
    <3>5. answer[j] \in {"sat", "unknown"}
      BY <2>1, <3>2 DEF Answers
    <3>6. CASE answer[j] = "unknown"
      BY <3>6 DEF IncompleteReasons
    <3>7. CASE answer[j] = "sat"
      <4>1. PICK deeper : \A k \in Kept(choices, answer) :
                             Child(choices, k, deeper) \in Children(choices, answer)
        BY DEF Children
      <4>2. Child(choices, j, deeper) \in Children(choices, answer)
        BY <3>4, <3>7, <4>1 DEF Kept
      <4>3. i \in Leads(Child(choices, j, deeper))
        <5>1. /\ Child(choices, j, deeper).cond = Side(choices[j])
              /\ Child(choices, j, deeper).at = choices[j].to
              /\ Child(choices, j, deeper).stack = run.stack
              /\ Child(choices, j, deeper).data = run.data
          BY <1>1 DEF Child, SymbolicState
        <5>. QED
          BY <3>1, <3>2, <5>1 DEF Leads
      <4>. QED
        BY <4>2, <4>3
    <3>. QED
      BY <3>5, <3>6, <3>7
  <2>4. <<>> \in Seq(SymbolicState)
    BY EmptySeq
  <2>. HIDE DEF unknown
  <2>. QED
    BY <2>1, <2>2, <2>3, <2>4, YieldCovers
<1>. QED
  BY <1>2, <1>3

LEMMA TransferCovers ==
    ASSUME Inv, Transfer, NEW i, Accounted(i)
    PROVE  Accounted(i)'
<1>1. phase = "run" /\ run \in SymbolicState /\ TypeOK
  <2>1. phase = "run"
    BY DEF Transfer, Branch, Switch, ReturnToCaller, ReturnFromMain, Running
  <2>. QED
    BY <2>1, RunningFacts DEF Inv
<1>2. UNCHANGED <<hiding, dropped>>
  BY DEF Transfer, Branch, Switch, ReturnToCaller, ReturnFromMain, Exact
<1>3. ASSUME NEW s, Continue(s), i \in Leads(run) => i \in Leads(s)
      PROVE  Accounted(i)'
  <2>1. /\ phase' = "run" /\ run' = s /\ UNCHANGED <<pending, reached, incomplete>>
        /\ split' = split
    BY <1>1, <1>3 DEF Continue
  <2>. QED
    BY <1>1, <1>2, <1>3, <2>1, ContinueCovers
\* The side whose condition folds to true is the side every input takes.
<1>4. ASSUME NEW k \in Decided(Here.choices), Continue(GoTo(run, Here.choices[k].to)),
             i \in Leads(run) => \E j \in 1..Len(Here.choices) :
                                   /\ run.data[i] \in Here.choices[j].when
                                   /\ Goalward(Here.choices[j].to, run.stack, run.data[i])
      PROVE  Accounted(i)'
  <2>1. ASSUME i \in Leads(run) PROVE i \in Leads(GoTo(run, Here.choices[k].to))
    <3>1. PICK j \in 1..Len(Here.choices) :
            /\ run.data[i] \in Here.choices[j].when
            /\ Goalward(Here.choices[j].to, run.stack, run.data[i])
      BY <1>4, <2>1
    <3>2. run.data[i] \in Here.choices[k].when /\ k \in 1..Len(Here.choices)
      BY <1>1, <2>1, LeadsFacts DEF Decided, Always, Where
    <3>3. j = k
      BY <1>1, <3>1, <3>2, ProgramAssumption DEF Here, SymbolicState
    <3>. QED
      BY <1>1, <2>1, <3>1, <3>3, LeadsFacts DEF Leads, GoTo, SymbolicState
  <2>. QED
    BY <1>3, <1>4, <2>1
<1>5. CASE Branch
  <2>1. i \in Leads(run) => \E j \in 1..Len(Here.choices) :
                              /\ run.data[i] \in Here.choices[j].when
                              /\ Goalward(Here.choices[j].to, run.stack, run.data[i])
    BY <1>1, <1>5, LeadsFacts DEF Branch, Running, GoalwardStep, Here
  <2>. QED
    BY <1>1, <1>2, <1>4, <1>5, <2>1, ForkCovers DEF Branch
<1>6. CASE Switch
  <2>1. i \in Leads(run) =>
          \/ \E j \in 1..Len(Here.choices) :
                /\ run.data[i] \in Here.choices[j].when
                /\ Goalward(Here.choices[j].to, run.stack, run.data[i])
          \/ \A j \in 1..Len(Here.choices) : run.data[i] \notin Here.choices[j].when
    BY <1>1, <1>6, LeadsFacts DEF Switch, Running, GoalwardStep, Here
  <2>2. CASE Decided(Here.choices) # {}
    <3>1. PICK k \in Decided(Here.choices) : Continue(GoTo(run, Here.choices[k].to))
      BY <1>6, <2>2 DEF Switch
    <3>2. i \in Leads(run) => run.data[i] \in Here.choices[k].when
                              /\ k \in 1..Len(Here.choices)
      BY <1>1, LeadsFacts DEF Decided, Always, Where
    <3>. QED
      BY <1>4, <2>1, <3>1, <3>2
  <2>3. CASE Stops("unsupported")
    BY <1>1, <1>2, <2>3, StopCovers DEF IncompleteReasons
  <2>4. CASE \E answer \in Answers(Elsewhere(Here.choices)) :
                answer = "unsat" /\ Fork(Here.choices)
    <3>1. Elsewhere(Here.choices) = {} /\ Fork(Here.choices)
      BY <2>4, RefutedIsEmpty DEF Refuted
    <3>2. i \in Leads(run) => \E j \in 1..Len(Here.choices) : run.data[i] \in Here.choices[j].when
      BY <1>1, <3>1, LeadsFacts DEF Elsewhere, Side, Where
    <3>. QED
      BY <1>1, <1>2, <2>1, <3>1, <3>2, ForkCovers
  <2>. QED
    BY <1>6, <2>2, <2>3, <2>4 DEF Switch
<1>7. CASE ReturnToCaller
  <2>. DEFINE back == [Assume(run, Here.when) EXCEPT !.at = Head(run.stack),
                                                     !.stack = Tail(run.stack)]
  <2>1. ASSUME i \in Leads(run)
        PROVE  /\ i \in Inputs /\ i \in run.cond /\ run.data[i] \in Here.when
               /\ Goalward(Head(run.stack), Tail(run.stack), run.data[i])
    BY <1>1, <1>7, <2>1, LeadsFacts
       DEF ReturnToCaller, Running, GoalwardStep, GoalwardReturn, Here
  <2>2. CASE Never(run, Here.when)
    <3>1. i \notin Leads(run)
      BY <2>1, <2>2 DEF Never, Where
    <3>. QED
      BY <1>1, <1>2, <1>7, <2>2, <3>1, StopCovers DEF ReturnToCaller
  <2>3. CASE ~ Never(run, Here.when)
    <3>1. i \in Leads(run) => i \in Leads(back)
      BY <1>1, <2>1 DEF Leads, Assume, Where, SymbolicState
    <3>2. Continue(back)
      BY <1>7, <2>3 DEF ReturnToCaller
    <3>. QED
      BY <1>3, <3>1, <3>2
  <2>. QED
    BY <2>2, <2>3
<1>8. CASE ReturnFromMain
  <2>1. ASSUME i \in Leads(run)
        PROVE  /\ i \in Inputs /\ i \in run.cond /\ run.data[i] \in Here.when
               /\ \E goal \in OnReturn : run.data[i] \in goal
    BY <1>1, <1>8, <2>1, LeadsFacts
       DEF ReturnFromMain, Running, GoalwardStep, GoalwardReturn, Here
  <2>2. CASE Never(run, Here.when)
    <3>1. i \notin Leads(run)
      BY <2>1, <2>2 DEF Never, Where
    <3>. QED
      BY <1>1, <1>2, <1>8, <2>2, <3>1, StopCovers DEF ReturnFromMain
  <2>3. CASE ~ Never(run, Here.when) /\ OnReturn = {}
    <3>1. i \notin Leads(run)
      BY <2>1, <2>3
    <3>. QED
      BY <1>1, <1>2, <1>8, <2>3, <3>1, StopCovers DEF ReturnFromMain
  <2>4. CASE ~ Never(run, Here.when) /\ OnReturn # {}
    <3>1. PICK goal \in OnReturn :
            LET final == Assume(Assume(run, Here.when), goal) IN
            \E answer \in Answers(final.cond) :
              CASE answer = "sat" -> Yield({}, <<final>>, {"goal"})
                [] answer = "unsat" -> Stops("returned")
                [] answer = "unknown" -> Stops("solver-unknown")
      BY <1>8, <2>4 DEF ReturnFromMain
    <3>. DEFINE final == Assume(Assume(run, Here.when), goal)
    <3>2. final \in SymbolicState
      BY <1>1, RunningFacts, StateAlgebra
    <3>3. i \in Leads(run) => i \in final.cond
      <4>1. i \in Leads(run) => run.data[i] \in goal
        BY <2>1, <3>1, ProgramAssumption
      <4>. QED
        BY <1>1, <2>1, <4>1 DEF Assume, Where, SymbolicState
    <3>. HIDE DEF final
    <3>4. PICK answer \in Answers(final.cond) :
            CASE answer = "sat" -> Yield({}, <<final>>, {"goal"})
              [] answer = "unsat" -> Stops("returned")
              [] answer = "unknown" -> Stops("solver-unknown")
      BY <3>1 DEF final
    <3>5. CASE answer = "sat"
      <4>1. /\ <<final>> \in Seq(SymbolicState) /\ {} \in SUBSET SymbolicState
            /\ 1 \in 1..Len(<<final>>) /\ <<final>>[1] = final
        BY <3>2
      <4>2. i \in Leads(run) => \E k \in 1..Len(<<final>>) : i \in <<final>>[k].cond
        BY <3>3, <4>1
      <4>3. Yield({}, <<final>>, {"goal"})
        BY <3>4, <3>5
      <4>. QED
        BY <1>1, <1>2, <4>1, <4>2, <4>3, YieldCovers
    <3>6. CASE answer = "unsat"
      <4>1. Stops("returned")
        BY <3>4, <3>6
      <4>2. i \notin Leads(run)
        BY <3>3, <3>6, RefutedIsEmpty DEF Refuted
      <4>. QED
        BY <1>1, <1>2, <4>1, <4>2, StopCovers
    <3>7. CASE answer = "unknown"
      <4>1. Stops("solver-unknown")
        BY <3>4, <3>7
      <4>. QED
        BY <1>1, <1>2, <4>1, StopCovers DEF IncompleteReasons
    <3>. QED
      BY <3>5, <3>6, <3>7 DEF Answers
  <2>. QED
    BY <2>2, <2>3, <2>4
<1>. QED
  BY <1>5, <1>6, <1>7, <1>8 DEF Transfer

-----------------------------------------------------------------------------
(* Calls.                                                                   *)

\* A call that goes on as `s`, or is put back while its goal states are recorded.
LEMMA ResumesCovers ==
    ASSUME TypeOK, phase = "run", NEW s \in SymbolicState, Resumes(s),
           hiding => hiding', dropped \subseteq dropped', NEW i, Accounted(i),
           i \in Leads(run) => i \in Leads(s) \/ hiding' \/ i \in dropped'
    PROVE  Accounted(i)'
<1>1. CASE split = <<>>
  <2>1. Continue(s)
    BY <1>1 DEF Resumes
  <2>2. /\ phase' = "run" /\ run' = s /\ UNCHANGED <<pending, reached, incomplete>>
        /\ split' = split
    BY <2>1 DEF Continue
  <2>. QED
    BY <2>2, ContinueCovers
<1>2. CASE split # <<>>
  <2>1. Yield({s}, <<>>, {})
    BY <1>2 DEF Resumes
  <2>2. {s} \in SUBSET SymbolicState /\ <<>> \in Seq(SymbolicState)
    BY EmptySeq
  <2>3. i \in Leads(run) => (\E t \in {s} : i \in Leads(t)) \/ hiding' \/ i \in dropped'
    OBVIOUS
  <2>. QED
    BY <2>1, <2>2, <2>3, YieldCovers
<1>. QED
  BY <1>1, <1>2

LEMMA ArgumentCovers ==
    ASSUME Inv, AvoidArgument \/ GoalArgument, NEW i, Accounted(i)
    PROVE  Accounted(i)'
<1>1. /\ phase = "run" /\ run \in SymbolicState /\ TypeOK
      /\ Here.op = "call" /\ run.at \notin AvoidPoints \cup GoalPoints
  <2>1. Running("call")
    BY DEF AvoidArgument, GoalArgument
  <2>. QED
    BY <2>1, RunningFacts DEF Inv, Running
<1>2. ASSUME i \in Leads(run)
      PROVE  /\ i \in Inputs /\ i \in run.cond /\ run.data[i] \in Data
             /\ Goalward(run.at, run.stack, run.data[i])
             /\ \A j \in 1..Len(Here.avoidArgs) : run.data[i] \notin Here.avoidArgs[j]
  BY <1>1, <1>2, LeadsFacts DEF GoalwardStep, CallsAvoided, Here
<1>3. handled \in Nat /\ handled # Len(Here.avoidArgs) + 1 /\ split = <<>>
  <2>1. handled \in Nat /\ Len(Here.avoidArgs) \in Nat
    <3>1. Here.avoidArgs \in Seq(SUBSET Data)
      BY <1>1, RunningFacts DEF Instruction
    <3>. QED
      BY <1>1, <3>1, LenProperties DEF TypeOK, QueueOK
  <2>2. handled # Len(Here.avoidArgs) + 1
    BY <2>1 DEF AvoidArgument, GoalArgument, AvoidsLeft
  <2>. QED
    BY <2>1, <2>2 DEF Inv, SplitAtCall
<1>4. ASSUME NEW s, NextArgument(s), hiding => hiding', dropped \subseteq dropped',
             i \in Leads(run) => \/ i \in Leads(s) \/ i \in dropped'
                                 \/ \E k \in 1..Len(split') : i \in Leads(split'[k])
      PROVE  Accounted(i)'
  <2>1. /\ phase' = "run" /\ run' = s /\ UNCHANGED <<pending, reached, incomplete>>
        /\ split' = split \/ split = <<>>
    BY <1>1, <1>3, <1>4 DEF NextArgument
  <2>. QED
    BY <1>1, <1>4, <2>1, ContinueCovers
<1>5. \A D : i \in Leads(run) /\ run.data[i] \in D => i \in Leads(Assume(run, D))
  BY <1>1, <1>2 DEF Leads, Assume, Where, SymbolicState
<1>6. CASE AvoidArgument
  <2>. DEFINE avoided == Here.avoidArgs[handled + 1]
              rest == Assume(run, Data \ avoided)
  <2>1. i \in Leads(run) => run.data[i] \notin avoided
    <3>1. handled + 1 \in 1..Len(Here.avoidArgs)
      <4>1. Len(Here.avoidArgs) \in Nat
        BY <1>1, RunningFacts, LenProperties DEF Instruction
      <4>. QED
        BY <1>3, <1>6, <4>1 DEF AvoidArgument, AvoidsLeft
    <3>. QED
      BY <1>2, <3>1
  <2>2. i \in Leads(run) => i \in Leads(rest)
    BY <1>2, <1>5, <2>1
  <2>3. UNCHANGED <<hiding, dropped>>
    BY <1>6 DEF AvoidArgument, Exact
  <2>4. CASE NextArgument(run) \/ NextArgument(rest)
    BY <1>4, <2>2, <2>3, <2>4
  <2>5. CASE Stops("avoided") /\ Always(run, avoided)
    <3>1. i \notin Leads(run)
      BY <1>2, <2>1, <2>5 DEF Always, Where
    <3>. QED
      BY <1>1, <2>3, <2>5, <3>1, StopCovers
  <2>6. CASE Stops("avoided") /\ \E answer \in Answers(rest.cond) : Refuted(answer)
    <3>1. rest.cond = {}
      BY <2>6, RefutedIsEmpty
    <3>2. i \notin Leads(run)
      BY <2>2, <3>1 DEF Leads
    <3>. QED
      BY <1>1, <2>3, <2>6, <3>2, StopCovers
  <2>. QED
    BY <1>6, <2>4, <2>5, <2>6, AlwaysOrNever DEF AvoidArgument
<1>7. CASE GoalArgument
  <2>. DEFINE goal == [Assume(run, Here.goalArg) EXCEPT !.id = NewId(1)]
              rest == Assume(run, Data \ Here.goalArg)
  <2>1. CASE Never(run, Here.goalArg)
    <3>1. NextArgument(run) /\ Exact
      BY <1>7, <2>1, AlwaysOrNever DEF GoalArgument
    <3>. QED
      BY <1>4, <3>1 DEF Exact
  <2>2. CASE Always(run, Here.goalArg)
    <3>1. Yield({}, <<run>>, {"goal"}) /\ Exact
      BY <1>7, <2>2, AlwaysOrNever DEF GoalArgument
    <3>2. <<run>> \in Seq(SymbolicState) /\ {} \in SUBSET SymbolicState
          /\ 1 \in 1..Len(<<run>>) /\ <<run>>[1] = run
      BY <1>1
    <3>3. i \in Leads(run) => \E k \in 1..Len(<<run>>) : i \in <<run>>[k].cond
      BY <3>2 DEF Leads
    <3>. QED
      BY <1>1, <3>1, <3>2, <3>3, YieldCovers DEF Exact
  <2>3. CASE ~ Never(run, Here.goalArg) /\ ~ Always(run, Here.goalArg)
    <3>1. PICK answer \in Answers(goal.cond) :
            /\ split' = IF answer = "sat" THEN <<goal>> ELSE <<>>
            /\ dropped' = IF answer = "unknown" THEN dropped \cup goal.cond ELSE dropped
      BY <1>7, <2>3 DEF GoalArgument
    <3>2. NextArgument(rest) /\ UNCHANGED hiding
      BY <1>7, <2>3 DEF GoalArgument
    <3>3. i \in Leads(run) /\ run.data[i] \in Here.goalArg =>
             i \in goal.cond /\ i \in Leads(goal)
      BY <1>1, <1>2 DEF Leads, Assume, Where, SymbolicState
    <3>4. i \in Leads(run) /\ run.data[i] \notin Here.goalArg => i \in Leads(rest)
      BY <1>2, <1>5
    <3>. HIDE DEF goal, rest
    <3>5. CASE answer = "sat"
      <4>1. split' = <<goal>> /\ 1 \in 1..Len(split') /\ split'[1] = goal
        BY <3>1, <3>5
      <4>. QED
        BY <1>4, <3>1, <3>2, <3>3, <3>4, <3>5, <4>1
    <3>6. CASE answer = "unsat"
      <4>1. goal.cond = {}
        BY <3>6, RefutedIsEmpty DEF Refuted
      <4>. QED
        BY <1>4, <3>1, <3>2, <3>3, <3>4, <3>6, <4>1
    <3>7. CASE answer = "unknown"
      BY <1>4, <3>1, <3>2, <3>3, <3>4, <3>7
    <3>. QED
      BY <3>5, <3>6, <3>7 DEF Answers
  <2>. QED
    BY <2>1, <2>2, <2>3
<1>. QED
  BY <1>6, <1>7

\* What is known of an input whose call's conditions were all looked at.
LEMMA CallLeads ==
    ASSUME Inv, NEW target, Calling(target), NEW i \in Leads(run)
    PROVE  /\ i \in Inputs /\ i \in run.cond /\ run.data[i] \in Data
           /\ GoalwardCall(Here, run.stack, run.data[i])
<1>1. /\ phase = "run" /\ run.at \notin AvoidPoints \cup GoalPoints /\ Here.op = "call"
      /\ handled = Len(Here.avoidArgs) + 1 /\ TypeOK
  BY DEF Calling, Running, Inv
<1>2. run.data[i] \notin Here.goalArg
  BY <1>1, LeadsFacts DEF Inv, Screened
<1>3. CallsGoal(Here, run.data[i]) \/ GoalwardCall(Here, run.stack, run.data[i])
  BY <1>1, LeadsFacts DEF GoalwardStep, Here
<1>. QED
  BY <1>1, <1>2, <1>3, LeadsFacts DEF CallsGoal

LEMMA FunctionCovers ==
    ASSUME Inv, CallFunction \/ CallElsewhere, NEW i, Accounted(i)
    PROVE  Accounted(i)'
<1>1. phase = "run" /\ run \in SymbolicState /\ TypeOK
  <2>1. phase = "run"
    BY DEF CallFunction, CallElsewhere, Calling, Running
  <2>. QED
    BY <2>1, RunningFacts DEF Inv
<1>2. UNCHANGED <<hiding, dropped>>
  BY DEF CallFunction, CallElsewhere, Exact
<1>3. CASE CallElsewhere
  BY <1>1, <1>2, <1>3, StopCovers DEF CallElsewhere, IncompleteReasons
<1>4. CASE CallFunction /\ TooDeep(run.stack)
  BY <1>1, <1>2, <1>4, StopCovers DEF CallFunction, IncompleteReasons
<1>5. CASE CallFunction /\ ~ TooDeep(run.stack)
  <2>. DEFINE inside == [run EXCEPT !.at = Here.callee, !.stack = <<Here.next>> \o run.stack]
  <2>1. inside \in SymbolicState
    <3>1. <<Here.next>> \o run.stack \in Stacks
      BY <1>1, <1>5, RunningFacts, PushedStack
    <3>. QED
      BY <1>1, <3>1, RunningFacts DEF SymbolicState
  <2>2. ASSUME i \in Leads(run) PROVE i \in Leads(inside)
    <3>1. Calling("function") /\ Here.target = "function"
      BY <1>5 DEF CallFunction, Calling
    <3>2. Goalward(Here.callee, <<Here.next>> \o run.stack, run.data[i])
      BY <1>5, <2>2, <3>1, CallLeads DEF GoalwardCall, TooDeep
    <3>. QED
      BY <1>1, <2>2, <3>1, <3>2, CallLeads DEF Leads, SymbolicState
  <2>3. Resumes(inside)
    BY <1>1, <1>5 DEF CallFunction, SymbolicState
  <2>. HIDE DEF inside
  <2>. QED
    BY <1>1, <1>2, <2>1, <2>2, <2>3, ResumesCovers
<1>. QED
  BY <1>3, <1>4, <1>5

\* What the option of an import does with an input it lets through.
LEMMA OutcomeLeads ==
    ASSUME TypeOK, phase = "run", NEW i \in Inputs, i \in run.cond,
           NEW chosen \in SUBSET Live, NEW j \in Live,
           run.data[i] \in Here.options[j].when,
           Goalward(Here.next, run.stack, Here.options[j].effect[run.data[i]])
    PROVE  i \in Leads(Outcome(chosen, j))
<1>. DEFINE option == Here.options[j]
            base == GoTo(Update(run, option.effect), Here.next)
            out == Outcome(chosen, j)
<1>1. run \in SymbolicState
  BY RunningFacts
<1>2. /\ base.at = Here.next /\ base.stack = run.stack
      /\ base.data[i] = option.effect[run.data[i]]
      /\ base \in SymbolicState
  <2>1. option \in Option
    BY RunningFacts, ElementOfSeq DEF Live
  <2>2. base \in SymbolicState
    BY <1>1, <2>1, RunningFacts, StateAlgebra DEF Option
  <2>. QED
    BY <1>1, <2>2 DEF GoTo, Update, SymbolicState
<1>3. /\ out.at = base.at /\ out.stack = base.stack /\ out.data = base.data
      /\ out.cond = Side(option)
  <2>. DEFINE id == IF Cardinality(Live) = 1 THEN run.id ELSE NewId(Rank(Live, j))
              spread == IF Cardinality(chosen) > 1 THEN Rank(chosen, j) ELSE 0
              decisions == run.decisions + spread + option.delay
  <2>1. out = [base EXCEPT !.cond = Side(option), !.id = id, !.decisions = decisions]
    BY DEF Outcome
  <2>. HIDE DEF out, base, id, decisions
  <2>. QED
    BY <1>2, <2>1 DEF SymbolicState
<1>4. i \in Side(option)
  BY <1>1 DEF Side, Where, SymbolicState
<1>. QED
  BY <1>2, <1>3, <1>4 DEF Leads

LEMMA ImportCovers ==
    ASSUME Inv, CallImport, NEW i, Accounted(i)
    PROVE  Accounted(i)'
<1>1. /\ phase = "run" /\ run \in SymbolicState /\ TypeOK
      /\ Calling("import") /\ Here.target = "import"
  <2>1. phase = "run" /\ Calling("import") /\ Here.target = "import"
    BY DEF CallImport, Calling, Running
  <2>. QED
    BY <2>1, RunningFacts DEF Inv
<1>2. hiding' = (hiding \/ Here.hides) /\ (hiding => hiding')
  BY DEF CallImport
<1>3. PICK chosen \in SUBSET Live :
        /\ \A j \in Live : (j \in chosen => MayKeep(j)) /\ (MustKeep(j) => j \in chosen)
        /\ LET returning == {j \in chosen : Here.options[j].ends = "returns"}
               last == {j \in Live : \A k \in Live : k <= j}
           IN IF Raising(chosen) # {} THEN Raises(chosen)
              ELSE /\ UNCHANGED dropped
                   /\ IF returning = last /\ chosen = last /\ last # {}
                      THEN \E j \in last : Resumes(Outcome(chosen, j))
                      ELSE Yield({Outcome(chosen, j) : j \in returning}, <<>>,
                                 {"exited" : j \in chosen \ returning})
  BY DEF CallImport
<1>4. Live \in SUBSET (1..Len(Here.options)) /\ chosen \in SUBSET (1..Len(Here.options))
  BY DEF Live
\* An option a led input takes is always kept.
<1>5. ASSUME i \in Leads(run), ~ Here.hides
      PROVE  \E j \in chosen :
                /\ i \in Side(Here.options[j]) /\ i \in Inputs /\ i \in run.cond
                /\ run.data[i] \in Here.options[j].when
                /\ \/ Here.options[j].ends = "unsupported"
                   \/ /\ Here.options[j].ends = "returns"
                      /\ Goalward(Here.next, run.stack, Here.options[j].effect[run.data[i]])
  <2>1. PICK j \in 1..Len(Here.options) :
          /\ run.data[i] \in Here.options[j].when
          /\ \/ Here.options[j].ends = "unsupported"
             \/ /\ Here.options[j].ends = "returns"
                /\ Goalward(Here.next, run.stack, Here.options[j].effect[run.data[i]])
    BY <1>1, <1>5, CallLeads DEF GoalwardCall
  <2>2. i \in Inputs /\ i \in run.cond /\ i \in Where(run, Here.options[j].when)
    BY <1>1, <1>5, <2>1, LeadsFacts DEF Where
  <2>3. i \in Side(Here.options[j]) /\ j \in Live
    BY <2>1, <2>2 DEF Side, Live, Never
  <2>4. "unsat" \notin Answers(Side(Here.options[j]))
    BY <2>3 DEF Answers
  <2>5. j \in chosen
    BY <1>3, <2>3, <2>4 DEF MustKeep
  <2>. QED
    BY <2>1, <2>2, <2>3, <2>5
<1>6. CASE Raising(chosen) # {}
  <2>1. Raises(chosen)
    BY <1>3, <1>6
  <2>2. CASE Stops("unsupported") /\ UNCHANGED dropped
    BY <1>1, <1>2, <2>2, StopCovers DEF IncompleteReasons
  <2>3. CASE /\ Stops("fault")
             /\ dropped' = dropped \cup
                   UNION {Side(Here.options[j]) :
                            j \in {j \in chosen : Here.options[j].ends \in {"returns", "unsupported"}}}
    <3>1. i \in Leads(run) => hiding' \/ i \in dropped'
      BY <1>2, <1>5, <2>3
    <3>. QED
      BY <1>1, <1>2, <2>3, <3>1, StopCovers
  <2>. QED
    BY <2>1, <2>2, <2>3 DEF Raises
<1>7. CASE Raising(chosen) = {}
  <2>1. UNCHANGED dropped
    BY <1>3, <1>7
  <2>2. ASSUME i \in Leads(run), ~ Here.hides
        PROVE  \E j \in chosen : /\ Here.options[j].ends = "returns"
                                 /\ i \in Leads(Outcome(chosen, j))
    <3>1. PICK j \in chosen :
            /\ i \in Inputs /\ i \in run.cond /\ run.data[i] \in Here.options[j].when
            /\ \/ Here.options[j].ends = "unsupported"
               \/ /\ Here.options[j].ends = "returns"
                  /\ Goalward(Here.next, run.stack, Here.options[j].effect[run.data[i]])
      BY <1>5, <2>2
    <3>2. Here.options[j].ends = "returns"
      BY <1>7, <3>1 DEF Raising
    <3>3. Goalward(Here.next, run.stack, Here.options[j].effect[run.data[i]])
      BY <3>1, <3>2
    <3>4. i \in Leads(Outcome(chosen, j))
      BY <1>1, <3>1, <3>3, OutcomeLeads
    <3>. QED
      BY <3>2, <3>4
  <2>3. \A j \in Live : Outcome(chosen, j) \in SymbolicState
    BY <1>1, <1>4, OutcomeType
  <2>4. ASSUME NEW j \in Live, chosen \subseteq {j}, Resumes(Outcome(chosen, j))
        PROVE  Accounted(i)'
    <3>1. i \in Leads(run) => i \in Leads(Outcome(chosen, j)) \/ hiding'
      BY <1>2, <2>2, <2>4
    <3>. QED
      BY <1>1, <1>2, <2>1, <2>3, <2>4, <3>1, ResumesCovers
  <2>5. ASSUME NEW reasons,
               Yield({Outcome(chosen, j) : j \in {j \in chosen : Here.options[j].ends = "returns"}},
                     <<>>, reasons)
        PROVE  Accounted(i)'
    <3>. DEFINE outcomes ==
                  {Outcome(chosen, j) : j \in {j \in chosen : Here.options[j].ends = "returns"}}
    <3>1. outcomes \in SUBSET SymbolicState /\ <<>> \in Seq(SymbolicState)
      BY <2>3, EmptySeq
    <3>2. i \in Leads(run) => hiding' \/ \E s \in outcomes : i \in Leads(s)
      BY <1>2, <2>2
    <3>. HIDE DEF outcomes
    <3>3. Yield(outcomes, <<>>, reasons)
      BY <2>5 DEF outcomes
    <3>. QED
      BY <1>1, <1>2, <2>1, <3>1, <3>2, <3>3, YieldCovers
  <2>6. \A j, k : LET last == {m \in Live : \A n \in Live : n <= m}
                 IN j \in last /\ k \in last => j = k
    BY <1>1, <1>4, RunningFacts, LenProperties
  <2>. QED
    BY <1>3, <1>7, <2>4, <2>5, <2>6
<1>. QED
  BY <1>6, <1>7

LEMMA CallCovers ==
    ASSUME Inv, CallSteps, NEW i, Accounted(i)
    PROVE  Accounted(i)'
BY ArgumentCovers, FunctionCovers, ImportCovers DEF CallSteps

-----------------------------------------------------------------------------
(* The heap and the solutions.                                              *)

LEMMA ExploreCovers ==
    ASSUME Inv, Explore, NEW i, Accounted(i)
    PROVE  Accounted(i)'
<1>1. phase = "loop" /\ TypeOK
  BY DEF Explore, OutOfStates, OutOfSteps, OutOfTime, Pop, LoopEnds, Inv
<1>2. Current = {}
  BY <1>1 DEF Current
<1>3. CASE Pop
  <2>1. PICK s \in pending : run' = s /\ pending' = pending \ {s}
    BY <1>3 DEF Pop
  <2>2. phase' = "run" /\ UNCHANGED <<split, reached, incomplete, hiding, dropped>>
    BY <1>3 DEF Pop
  <2>3. Alive' = Alive
    BY <1>2, <2>1, <2>2 DEF Alive, Current
  <2>. QED
    BY <2>2, <2>3 DEF Accounted, Leads
<1>4. CASE ~ Pop
  <2>1. phase' = "pick" /\ UNCHANGED <<pending, split, reached, incomplete, hiding, dropped>>
    BY <1>4 DEF Explore, OutOfStates, OutOfSteps, OutOfTime, LoopEnds, Exhaust, engine, record
  <2>2. Alive' = Alive
    BY <1>2, <2>1 DEF Alive, Current
  <2>. QED
    BY <2>1, <2>2 DEF Accounted, Leads
<1>. QED
  BY <1>3, <1>4

LEMMA SolveCovers ==
    ASSUME Inv, Solve \/ Finished \/ UNCHANGED vars, NEW i, Accounted(i)
    PROVE  Accounted(i)'
<1>1. CASE Solve
  <2>1. phase # "run" /\ phase' # "run"
        /\ UNCHANGED <<pending, split, reached, incomplete, hiding, dropped>>
    BY <1>1 DEF Solve, Resume, TryReached, PickEnds, TryUnpreferred, Conclude, Finding,
                engine, record
  <2>2. Alive' = Alive
    BY <2>1 DEF Alive, Current
  <2>. QED
    BY <2>1, <2>2 DEF Accounted, Leads
<1>2. CASE UNCHANGED vars
  <2>1. Alive' = Alive
    BY <1>2 DEF Alive, Current, vars
  <2>. QED
    BY <1>2, <2>1 DEF Accounted, Leads, vars
<1>. QED
  BY <1>1, <1>2 DEF Finished

-----------------------------------------------------------------------------
(* The other parts of the invariant.                                        *)

\* What every step of _run does to the variables those parts are about.
LEMMA RunSteps ==
    ASSUME Inv, Operate \/ Transfer \/ CallSteps
    PROVE  /\ phase = "run" /\ phase' \in {"run", "loop"} /\ UNCHANGED verdict
           /\ \/ handled' = 0 /\ split' = <<>>
              \/ AvoidArgument \/ GoalArgument
<1>1. phase = "run" /\ UNCHANGED verdict
  BY DEF Operate, Transfer, CallSteps, Observe, Compute, Divide, AccessKnown, AccessSymbolic,
         Unsupported, Halt, Branch, Switch, ReturnToCaller, ReturnFromMain, AvoidArgument,
         GoalArgument, CallFunction, CallElsewhere, CallImport, Calling, Running
<1>2. ASSUME NEW S, NEW goals, NEW reasons, Yield(S, goals, reasons)
      PROVE  phase' = "loop" /\ handled' = 0 /\ split' = <<>>
  BY <1>2 DEF Yield
<1>3. ASSUME NEW s, Continue(s), split = <<>>
      PROVE  phase' = "run" /\ handled' = 0 /\ split' = <<>>
  BY <1>1, <1>3 DEF Continue
<1>4. ASSUME NEW reason, Stops(reason)
      PROVE  phase' = "loop" /\ handled' = 0 /\ split' = <<>>
  BY <1>2, <1>4 DEF Stops
<1>5. ASSUME NEW s, Resumes(s)
      PROVE  phase' \in {"run", "loop"} /\ handled' = 0 /\ split' = <<>>
  BY <1>2, <1>3, <1>5 DEF Resumes
<1>6. CASE Operate
  <2>1. split = <<>> \/ Observe
    BY <1>6 DEF Operate, Compute, Divide, AccessKnown, AccessSymbolic, Unsupported, Halt,
                Running, Inv, SplitAtCall
  <2>2. ASSUME NEW s, Require(s), split = <<>>
        PROVE  phase' \in {"run", "loop"} /\ handled' = 0 /\ split' = <<>>
    BY <1>3, <1>4, <2>2 DEF Require
  <2>3. CASE Observe
    BY <1>1, <1>2, <1>4, <2>3 DEF Observe
  <2>4. CASE ~ Observe
    BY <1>1, <1>3, <1>4, <1>6, <2>1, <2>2, <2>4
       DEF Operate, Compute, Divide, AccessKnown, AccessSymbolic, Unsupported, Halt
  <2>. QED
    BY <2>3, <2>4
<1>7. CASE Transfer
  <2>1. split = <<>>
    BY <1>7 DEF Transfer, Branch, Switch, ReturnToCaller, ReturnFromMain, Running, Inv,
                SplitAtCall
  <2>2. ASSUME Fork(Here.choices)
        PROVE  phase' = "loop" /\ handled' = 0 /\ split' = <<>>
    BY <1>2, <1>4, <2>2 DEF Fork
  <2>3. CASE Branch
    BY <1>1, <1>3, <2>1, <2>2, <2>3 DEF Branch
  <2>4. CASE Switch
    BY <1>1, <1>3, <1>4, <2>1, <2>2, <2>4 DEF Switch
  <2>5. CASE ReturnToCaller
    BY <1>1, <1>3, <1>4, <2>1, <2>5 DEF ReturnToCaller
  <2>6. CASE ReturnFromMain
    BY <1>1, <1>2, <1>4, <2>6 DEF ReturnFromMain, Answers
  <2>. QED
    BY <1>7, <2>3, <2>4, <2>5, <2>6 DEF Transfer
<1>8. CASE AvoidArgument \/ GoalArgument
  <2>1. ASSUME NEW s, NextArgument(s) PROVE phase' = "run"
    BY <1>1, <2>1 DEF NextArgument
  <2>2. CASE AvoidArgument
    BY <1>1, <1>4, <2>1, <2>2, AlwaysOrNever DEF AvoidArgument
  <2>3. CASE GoalArgument
    BY <1>1, <1>2, <2>1, <2>3, AlwaysOrNever DEF GoalArgument
  <2>. QED
    BY <1>1, <1>8, <2>2, <2>3
<1>9. CASE CallFunction
  BY <1>1, <1>4, <1>5, <1>9 DEF CallFunction
<1>10. CASE CallElsewhere
  BY <1>1, <1>4, <1>10 DEF CallElsewhere
<1>11. CASE CallImport
  <2>1. PICK chosen : \/ Raises(chosen)
                      \/ \E j : Resumes(Outcome(chosen, j))
                      \/ \E S, reasons : Yield(S, <<>>, reasons)
    BY <1>11 DEF CallImport
  <2>. QED
    BY <1>1, <1>2, <1>4, <1>5, <2>1 DEF Raises
<1>. QED
  BY <1>6, <1>7, <1>8, <1>9, <1>10, <1>11 DEF CallSteps

\* A step that is done with its call leaves nothing of it behind.
LEMMA AfreshKeeps ==
    ASSUME TypeOK', handled' = 0, split' = <<>>
    PROVE  Screened' /\ SplitAtCall' /\ BetweenRuns'
<1>1. ASSUME phase' = "run" PROVE Len(Here'.avoidArgs) \in Nat
  <2>1. run' \in SymbolicState
    BY <1>1 DEF TypeOK, QueueOK
  <2>2. Here' \in Instruction
    BY <2>1, HereIsInstruction DEF Here
  <2>. QED
    BY <2>2, LenProperties DEF Instruction
<1>. QED
  BY <1>1 DEF Screened, SplitAtCall, BetweenRuns

LEMMA ArgumentKeeps ==
    ASSUME Inv, TypeOK', AvoidArgument \/ GoalArgument
    PROVE  Screened' /\ SplitAtCall' /\ BetweenRuns'
<1>1. /\ phase = "run" /\ run \in SymbolicState /\ TypeOK /\ Here.op = "call"
      /\ handled \in Nat /\ Len(Here.avoidArgs) \in Nat
  <2>1. Running("call")
    BY DEF AvoidArgument, GoalArgument
  <2>2. phase = "run" /\ TypeOK /\ Here.op = "call" /\ handled \in Nat
    BY <2>1 DEF Inv, Running, TypeOK, QueueOK
  <2>3. run \in SymbolicState /\ Here \in Instruction
    BY <2>2, RunningFacts
  <2>. QED
    BY <2>2, <2>3, LenProperties DEF Instruction
<1>2. handled # Len(Here.avoidArgs) + 1 /\ split = <<>>
  BY <1>1 DEF AvoidArgument, GoalArgument, AvoidsLeft, Inv, SplitAtCall
<1>3. ASSUME NEW S, NEW goals, NEW reasons, Yield(S, goals, reasons)
      PROVE  Screened' /\ SplitAtCall' /\ BetweenRuns'
  BY <1>3, AfreshKeeps DEF Yield
<1>4. ASSUME NEW D, NextArgument(run) \/ NextArgument(Assume(run, D))
      PROVE  /\ phase' = "run" /\ handled' = handled + 1 /\ Here' = Here
             /\ run'.data = run.data /\ run'.cond \subseteq run.cond
  BY <1>1, <1>4 DEF NextArgument, Here, Assume, SymbolicState
<1>5. CASE AvoidArgument
  <2>1. CASE \E D : (NextArgument(run) \/ NextArgument(Assume(run, D))) /\ UNCHANGED split
    <3>1. handled + 1 # Len(Here.avoidArgs) + 1
      BY <1>1, <1>5 DEF AvoidArgument, AvoidsLeft
    <3>. QED
      BY <1>2, <1>4, <2>1, <3>1 DEF Screened, SplitAtCall, BetweenRuns
  <2>2. CASE Stops("avoided")
    BY <1>3, <2>2 DEF Stops
  <2>. QED
    BY <1>5, <2>1, <2>2, AlwaysOrNever DEF AvoidArgument
<1>6. CASE GoalArgument
  <2>1. handled = Len(Here.avoidArgs)
    BY <1>6 DEF GoalArgument
  <2>2. CASE Never(run, Here.goalArg)
    <3>1. NextArgument(run) /\ UNCHANGED split
      BY <1>6, <2>2, AlwaysOrNever DEF GoalArgument
    <3>2. \A i \in run.cond : run.data[i] \notin Here.goalArg
      BY <1>1, <2>2 DEF Never, Where, SymbolicState
    <3>. QED
      BY <1>2, <1>4, <3>1, <3>2 DEF NextArgument, Screened, SplitAtCall, BetweenRuns
  <2>3. CASE Always(run, Here.goalArg)
    <3>1. Yield({}, <<run>>, {"goal"})
      BY <1>6, <2>3, AlwaysOrNever DEF GoalArgument
    <3>. QED
      BY <1>3, <3>1
  <2>4. CASE ~ Never(run, Here.goalArg) /\ ~ Always(run, Here.goalArg)
    <3>1. NextArgument(Assume(run, Data \ Here.goalArg))
      BY <1>6, <2>4 DEF GoalArgument
    <3>2. \A i \in run'.cond : run'.data[i] \notin Here.goalArg
      BY <1>1, <3>1 DEF NextArgument, Assume, Where, SymbolicState
    <3>. QED
      BY <1>1, <1>4, <2>1, <3>1, <3>2 DEF Screened, SplitAtCall, BetweenRuns
  <2>. QED
    BY <2>2, <2>3, <2>4
<1>. QED
  BY <1>5, <1>6

LEMMA PartsKeep ==
    ASSUME Inv, [Next]_vars, TypeOK'
    PROVE  Screened' /\ SplitAtCall' /\ BetweenRuns'
<1>1. CASE Operate \/ Transfer \/ CallSteps
  BY <1>1, RunSteps, ArgumentKeeps, AfreshKeeps
<1>2. CASE Explore \/ Solve
  <2>1. phase # "run" /\ UNCHANGED <<handled, split>>
    BY <1>2 DEF Explore, OutOfStates, OutOfSteps, OutOfTime, Pop, LoopEnds, Exhaust, Solve,
                Resume, TryReached, PickEnds, TryUnpreferred, Conclude, Finding, engine, record
  <2>2. handled' = 0 /\ split' = <<>>
    BY <2>1 DEF Inv, BetweenRuns, SplitAtCall
  <2>. QED
    BY <2>2, AfreshKeeps
<1>3. CASE UNCHANGED vars
  BY <1>3 DEF vars, Inv, Screened, SplitAtCall, BetweenRuns, Here
<1>. QED
  BY <1>1, <1>2, <1>3 DEF Next, Finished

\* The search stops looking only when a budget ran out, no state waits, or goal states
\* were found.
LEMMA VerdictKeeps ==
    ASSUME Inv, [Next]_vars
    PROVE  Drained' /\ Claimed'
<1>1. CASE Operate \/ Transfer \/ CallSteps
  <2>1. phase = "run" /\ phase' \in {"run", "loop"} /\ UNCHANGED verdict
    BY <1>1, RunSteps
  <2>. QED
    BY <2>1 DEF verdict, Inv, Drained, Claimed
<1>2. CASE OutOfStates \/ OutOfSteps \/ OutOfTime
  <2>1. phase = "loop" /\ phase' = "pick" /\ exhausted' # "none"
        /\ UNCHANGED <<wanted, status>>
    BY <1>2 DEF OutOfStates, OutOfSteps, OutOfTime, Exhaust
  <2>. QED
    BY <2>1 DEF Inv, Drained, Claimed
<1>3. CASE Pop
  BY <1>3 DEF Pop, verdict, Inv, Drained, Claimed
<1>4. CASE LoopEnds
  <2>1. pending = {} \/ reached # <<>>
    BY <1>4, EmptySeq DEF LoopEnds, MoreWanted, Inv, Claimed, TypeOK, VerdictOK
  <2>. QED
    BY <1>4, <2>1 DEF LoopEnds, record, verdict, Inv, Drained, Claimed
<1>5. CASE Resume
  BY <1>5 DEF Resume, Finding, Inv, TypeOK, VerdictOK, Drained, Claimed
<1>6. CASE TryReached \/ PickEnds \/ TryUnpreferred
  <2>1. /\ phase \in {"pick", "fallback"} /\ phase' \in {"pick", "fallback"}
        /\ UNCHANGED <<exhausted, pending, reached, wanted, status>>
    BY <1>6 DEF TryReached, PickEnds, TryUnpreferred, Finding, record, verdict
  <2>. QED
    BY <2>1 DEF Inv, Drained, Claimed
<1>7. CASE Conclude
  <2>1. UNCHANGED <<solutions, reached, exhausted, hiding, incomplete>>
    BY <1>7 DEF Conclude, record
  <2>2. Verdict' = Verdict
    BY <2>1 DEF Verdict
  <2>. QED
    BY <1>7, <2>2 DEF Conclude, record, Inv, Drained, Claimed
<1>8. CASE UNCHANGED vars
  BY <1>8 DEF vars, Inv, Drained, Claimed, Verdict
<1>. QED
  BY <1>1, <1>2, <1>3, <1>4, <1>5, <1>6, <1>7, <1>8 DEF Next, Explore, Solve, Finished

-----------------------------------------------------------------------------
(* The theorems.                                                            *)

LEMMA InitInv == Init => Inv
<1>. SUFFICES ASSUME Init PROVE Inv
  OBVIOUS
<1>1. TypeOK
  BY InitTyped
<1>2. Covered
  <2>1. InitialState \in Alive
    BY DEF Init, Alive
  <2>2. \A i \in Reaching : i \in Leads(InitialState)
    BY DEF Reaching, Leads, InitialState
  <2>. QED
    BY <2>1, <2>2 DEF Covered
<1>3. Screened /\ SplitAtCall /\ BetweenRuns /\ Drained
  BY DEF Init, Screened, SplitAtCall, BetweenRuns, Drained
<1>4. Claimed
  BY SearchAssumption DEF Init, Claimed
<1>. QED
  BY <1>1, <1>2, <1>3, <1>4 DEF Inv

LEMMA NextInv == Inv /\ [Next]_vars => Inv'
<1>. SUFFICES ASSUME Inv, [Next]_vars PROVE Inv'
  OBVIOUS
<1>1. TypeOK'
  <2>1. TypeOK
    BY DEF Inv
  <2>2. CASE UNCHANGED vars
    BY <2>1, <2>2 DEF vars, TypeOK, QueueOK, CountersOK, VerdictOK
  <2>. QED
    BY <2>1, <2>2, ExploreTyped, OperateTyped, TransferTyped, CallTyped, SolveTyped DEF Next
<1>2. \A i : Accounted(i) => Accounted(i)'
  BY ExploreCovers, OperateCovers, TransferCovers, CallCovers, SolveCovers DEF Next
<1>3. Covered'
  <2>1. \A i \in Reaching : Accounted(i)'
    BY <1>2, CoveredIsAccounted DEF Inv
  <2>. QED
    BY <2>1 DEF Covered, Accounted
<1>. QED
  BY <1>1, <1>3, PartsKeep, VerdictKeeps DEF Inv

LEMMA SearchInv == Spec => []Inv
BY InitInv, NextInv, PTL DEF Spec

\* Whatever the program, the solver and the budgets: an input that reaches the goal is
\* led there, has arrived, or was left behind by something the search recorded, except
\* for those a model's fault, an undecided goal call or a lost pointer took (`dropped`).
THEOREM AlwaysCovered == Spec => []Covered
<1>1. Inv => Covered
  BY DEF Inv
<1>. QED
  BY <1>1, SearchInv, PTL

\* `unsat` is exhaustive, apart from the same three gaps.
THEOREM AlwaysExhaustive == Spec => []UnsatIsExhaustive
<1>1. Inv => UnsatIsExhaustive
  <2>. SUFFICES ASSUME Inv, status = "unsat" PROVE Reaching \subseteq dropped
    BY DEF UnsatIsExhaustive
  <2>1. phase = "done" /\ Verdict = "unsat"
    BY DEF Inv, Claimed
  <2>2. reached = <<>> /\ exhausted = "none" /\ ~ hiding /\ incomplete = {}
    BY <2>1 DEF Verdict, Inv, TypeOK, QueueOK, CountersOK
  <2>3. pending = {} /\ split = <<>>
    BY <2>1, <2>2 DEF Inv, Drained, SplitAtCall
  <2>4. Alive = {}
    BY <2>1, <2>3, EmptySeq DEF Alive, Current
  <2>. QED
    BY <2>2, <2>4, EmptySeq DEF Inv, Covered
<1>. QED
  BY <1>1, SearchInv, PTL

-----------------------------------------------------------------------------
(***************************************************************************)
(* What the search reports as a solution is one, and goal states come out  *)
(* fewest decisions first.                                                 *)
(*                                                                         *)
(* Both are about what a step of _run makes of the running state: states   *)
(* that go on from it (Follows) and goal states (Arrives).  Neither is     *)
(* inductive by itself.  For the order one must also know that nothing     *)
(* that waits shares the running state's number or is shallower (Order);   *)
(* for the solutions, that every state's inputs stand where their runs     *)
(* stand (Truth), and that a call's goal is only looked for among inputs   *)
(* it does not avoid (Shunned).                                            *)
(***************************************************************************)

Waiting == pending \cup {split[k] : k \in 1..Len(split)}

Order ==
    /\ DistinctIds
    /\ phase = "run" => \A t \in Waiting : t.id # run.id
    /\ \A k \in 1..Len(split) : split[k].decisions = run.decisions
    /\ ~ hurried =>
           /\ \A k \in 1..Len(reached), s \in Alive : reached[k].decisions <= s.decisions
           /\ phase = "run" => \A s \in Alive : run.decisions <= s.decisions

Truth ==
    /\ \A s \in pending \cup Current : \A i \in s.cond :
           Goalward(s.at, s.stack, s.data[i]) => i \in Reaching
    /\ \A k \in 1..Len(split) : split[k].cond \subseteq Reaching
    /\ \A k \in 1..Len(reached) : reached[k].cond \subseteq Reaching
    /\ \A k \in 1..Len(unpreferred) : unpreferred[k].cond \subseteq Reaching
    /\ solutions \subseteq Reaching

Shunned ==
    phase = "run" => \A j \in 1..Len(Here.avoidArgs), i \in run.cond :
                        j <= handled => run.data[i] \notin Here.avoidArgs[j]

Good == Order /\ Truth

-----------------------------------------------------------------------------
(* What a step of _run makes of the running state.                          *)

\* An input that is on its way to the goal in `s` was so in the running state.
Follows(s) ==
    /\ s \in SymbolicState
    /\ run.decisions <= s.decisions
    /\ s.id = run.id \/ (nextId < s.id /\ s.id <= nextId')
    /\ \A i \in s.cond :
          /\ i \in run.cond
          /\ Goalward(s.at, s.stack, s.data[i]) => Goalward(run.at, run.stack, run.data[i])

\* Every input of a goal state was on its way to the goal.
Arrives(s) ==
    /\ s \in SymbolicState /\ s.decisions = run.decisions
    /\ \A i \in s.cond : i \in run.cond /\ Goalward(run.at, run.stack, run.data[i])

\* What no step of _run does: take back a number, a solution or the history.
Steady ==
    /\ nextId' \in Nat /\ nextId <= nextId'
    /\ hurried => hurried'
    /\ UNCHANGED <<unpreferred, solutions>>

\* What is known of the running state's place among the others.
LEMMA RunAlive ==
    ASSUME TypeOK, Good, phase = "run"
    PROVE  /\ run \in SymbolicState /\ run.id \in Nat /\ run.decisions \in Nat
           /\ run.id <= nextId /\ nextId \in Nat /\ run \in Alive
           /\ \A s \in Waiting : s \in Alive /\ s.id <= nextId /\ s.id # run.id
           /\ Waiting \subseteq SymbolicState
<1>1. run \in SymbolicState /\ nextId \in Nat
  BY RunningFacts DEF TypeOK, CountersOK
<1>2. run \in Alive /\ \A s \in Waiting : s \in Alive
  BY DEF Alive, Current, Waiting
<1>3. \A s \in Alive : s.id <= nextId
  BY DEF Good, Order, DistinctIds
<1>4. \A k \in 1..Len(split) : split[k] \in SymbolicState
  BY ElementOfSeq DEF TypeOK, QueueOK
<1>5. Waiting \subseteq SymbolicState
  BY <1>4 DEF Waiting, TypeOK, QueueOK
<1>. QED
  BY <1>1, <1>2, <1>3, <1>5 DEF Good, Order, SymbolicState

-----------------------------------------------------------------------------
(* A run that ends.                                                         *)

LEMMA Ending ==
    ASSUME TypeOK, Good, Steady, phase = "run",
           NEW successors \in SUBSET SymbolicState, NEW goals \in Seq(SymbolicState),
           NEW reasons, Yield(successors, goals, reasons),
           \A s \in successors : Follows(s),
           \A s, t \in successors : s.id = t.id => s = t,
           \A k \in 1..Len(goals) : Arrives(goals[k])
    PROVE  Good'
<1>. DEFINE all == reached \o goals \o split
<1>1. /\ reached \in Seq(SymbolicState) /\ split \in Seq(SymbolicState)
      /\ pending \subseteq SymbolicState
  BY DEF TypeOK, QueueOK
<1>2. /\ reached' = all /\ pending' = pending \cup successors /\ split' = <<>>
      /\ phase' = "loop"
  BY DEF Yield
<1>3. ASSUME NEW k \in 1..Len(all)
      PROVE  \/ \E j \in 1..Len(reached) : all[k] = reached[j]
             \/ \E j \in 1..Len(goals) : all[k] = goals[j]
             \/ \E j \in 1..Len(split) : all[k] = split[j]
  <2>1. /\ reached \o goals \in Seq(SymbolicState)
        /\ Len(reached) \in Nat /\ Len(goals) \in Nat /\ Len(split) \in Nat
        /\ Len(reached \o goals) = Len(reached) + Len(goals)
        /\ Len(all) = Len(reached) + Len(goals) + Len(split)
    BY <1>1, ConcatProperties, LenProperties
  <2>2. CASE k <= Len(reached)
    <3>1. all[k] = reached[k] /\ k \in 1..Len(reached)
      BY <1>1, <2>1, <2>2, ConcatProperties
    <3>. QED
      BY <3>1
  <2>3. CASE Len(reached) < k /\ k <= Len(reached) + Len(goals)
    <3>1. all[k] = goals[k - Len(reached)] /\ k - Len(reached) \in 1..Len(goals)
      BY <1>1, <2>1, <2>3, ConcatProperties
    <3>. QED
      BY <3>1
  <2>4. CASE Len(reached) + Len(goals) < k
    <3>1. /\ all[k] = split[k - Len(reached \o goals)]
          /\ k - Len(reached \o goals) \in 1..Len(split)
      BY <1>1, <2>1, <2>4, ConcatProperties
    <3>. QED
      BY <3>1
  <2>. QED
    BY <2>1, <2>2, <2>3, <2>4
<1>. HIDE DEF all
<1>4. Len(split') = 0 /\ Current' = {}
  BY <1>2, EmptySeq DEF Current
<1>5. Alive' = pending \cup successors /\ Waiting' = pending \cup successors
  BY <1>2, <1>4 DEF Alive, Waiting
<1>6. DistinctIds'
  <2>1. \A s \in pending : s.id <= nextId /\ s.id # run.id /\ s \in Alive /\ s.id \in Nat
    BY <1>1, RunAlive DEF Waiting, SymbolicState
  <2>2. \A s \in successors : s.id = run.id \/ (nextId < s.id /\ s.id <= nextId')
    BY DEF Follows
  <2>3. \A s \in pending, t \in successors : s.id # t.id
    <3>1. nextId \in Nat /\ \A t \in successors : t.id \in Nat
      BY RunAlive DEF SymbolicState
    <3>. QED
      BY <2>1, <2>2, <3>1
  <2>4. \A s, t \in pending : s.id = t.id => s = t
    BY <2>1 DEF Good, Order, DistinctIds
  <2>5. \A s \in pending \cup successors : s.id <= nextId'
    BY <2>1, <2>2, RunAlive DEF Steady
  <2>. QED
    BY <1>5, <2>3, <2>4, <2>5 DEF DistinctIds
<1>7. ASSUME ~ hurried', NEW k \in 1..Len(all), NEW s \in pending \cup successors
      PROVE  all[k].decisions <= s.decisions
  <2>1. ~ hurried /\ \A t \in pending : t \in Alive
    BY <1>7 DEF Steady, Alive
  <2>2. \A j \in 1..Len(reached) : /\ reached[j].decisions <= run.decisions
                                   /\ \A t \in pending : reached[j].decisions <= t.decisions
    BY <2>1, RunAlive DEF Good, Order
  <2>3. \A t \in pending : run.decisions <= t.decisions
    BY <2>1 DEF Good, Order
  <2>4. \A t \in successors : run.decisions <= t.decisions
    BY DEF Follows
  <2>5. \A t \in pending \cup successors : run.decisions <= t.decisions /\ t.decisions \in Nat
    BY <1>1, <2>3, <2>4 DEF SymbolicState
  <2>6. CASE \E j \in 1..Len(reached) : all[k] = reached[j]
    <3>1. PICK j \in 1..Len(reached) : all[k] = reached[j]
      BY <2>6
    <3>2. reached[j] \in SymbolicState
      BY <1>1, ElementOfSeq
    <3>3. reached[j].decisions \in Nat
      BY <3>2 DEF SymbolicState
    <3>. QED
      BY <2>2, <2>5, <3>1, <3>3, RunAlive
  <2>7. CASE \E j \in 1..Len(goals) : all[k] = goals[j]
    BY <2>5, <2>7 DEF Arrives
  <2>8. CASE \E j \in 1..Len(split) : all[k] = split[j]
    BY <2>5, <2>8 DEF Good, Order
  <2>. QED
    BY <1>3, <2>6, <2>7, <2>8
<1>8. Order'
  BY <1>2, <1>4, <1>5, <1>6, <1>7 DEF Order
<1>9. \A i \in run.cond : Goalward(run.at, run.stack, run.data[i]) => i \in Reaching
  BY DEF Good, Truth, Current
<1>10. \A s \in pending \cup successors : \A i \in s.cond :
          Goalward(s.at, s.stack, s.data[i]) => i \in Reaching
  BY <1>9 DEF Good, Truth, Follows
<1>11. ASSUME NEW k \in 1..Len(all) PROVE all[k].cond \subseteq Reaching
  <2>1. \A j \in 1..Len(goals) : goals[j].cond \subseteq Reaching
    BY <1>9 DEF Arrives
  <2>. QED
    BY <1>3, <2>1 DEF Good, Truth
<1>12. Truth'
  BY <1>2, <1>4, <1>10, <1>11 DEF Truth, Good, Steady
<1>. QED
  BY <1>8, <1>12 DEF Good

LEMMA Stopping ==
    ASSUME TypeOK, Good, Steady, phase = "run", NEW reason, Stops(reason)
    PROVE  Good'
<1>1. <<>> \in Seq(SymbolicState) /\ Len(<<>>) = 0 /\ {} \in SUBSET SymbolicState
  BY EmptySeq
<1>2. Yield({}, <<>>, {reason})
  BY DEF Stops
<1>3. /\ \A s \in {} : Follows(s) /\ \A t \in {} : s.id = t.id => s = t
      /\ \A k \in 1..Len(<<>>) : Arrives(<<>>[k])
  BY <1>1
<1>. QED
  BY <1>1, <1>2, <1>3, Ending

LEMMA Reached ==
    ASSUME TypeOK, Good, Steady, phase = "run", NEW s, Arrives(s), Yield({}, <<s>>, {"goal"})
    PROVE  Good'
<1>1. <<s>> \in Seq(SymbolicState) /\ {} \in SUBSET SymbolicState
      /\ \A k \in 1..Len(<<s>>) : <<s>>[k] = s
  BY DEF Arrives
<1>. QED
  BY <1>1, Ending

-----------------------------------------------------------------------------
(* A run that goes on.                                                      *)

LEMMA GoingOn ==
    ASSUME TypeOK, Good, Steady, phase = "run", phase' = "run", NEW s, run' = s, Follows(s),
           UNCHANGED <<pending, reached, split>>,
           s.decisions # run.decisions => hurried' /\ split = <<>>
    PROVE  Good'
<1>1. Waiting' = Waiting /\ Alive' = Waiting \cup {s} /\ Alive = Waiting \cup {run}
      /\ Current' = {s} /\ Current = {run}
  BY DEF Waiting, Alive, Current
<1>2. \A t \in Waiting : t.id # s.id
  BY RunAlive DEF Follows, SymbolicState
<1>3. DistinctIds'
  <2>1. s.id <= nextId' /\ \A t \in Waiting : t.id <= nextId'
    BY RunAlive DEF Follows, Steady, SymbolicState
  <2>2. \A t, u \in Waiting : t.id = u.id => t = u
    BY <1>1 DEF Good, Order, DistinctIds
  <2>. QED
    BY <1>1, <1>2, <2>1, <2>2 DEF DistinctIds
<1>4. \A k \in 1..Len(split) : split[k].decisions = s.decisions
  BY EmptySeq DEF Good, Order
<1>5. ASSUME ~ hurried'
      PROVE  /\ \A k \in 1..Len(reached), t \in Alive' : reached[k].decisions <= t.decisions
             /\ \A t \in Alive' : s.decisions <= t.decisions
  <2>1. s.decisions = run.decisions /\ ~ hurried
    BY <1>5 DEF Steady
  <2>. QED
    BY <1>1, <2>1, RunAlive DEF Good, Order
<1>6. Order'
  BY <1>1, <1>2, <1>3, <1>4, <1>5 DEF Order
<1>7. \A i \in s.cond : Goalward(s.at, s.stack, s.data[i]) => i \in Reaching
  BY <1>1 DEF Good, Truth, Follows
<1>8. Truth'
  BY <1>1, <1>7 DEF Good, Truth, Steady
<1>. QED
  BY <1>6, <1>8 DEF Good

LEMMA Continuing ==
    ASSUME TypeOK, Good, Steady, phase = "run", NEW s, Continue(s), Follows(s),
           s.decisions = run.decisions
    PROVE  Good'
BY GoingOn DEF Continue

\* A call that goes on as `s`, or is put back while its goal states are recorded.
LEMMA Resuming ==
    ASSUME TypeOK, Good, Steady, phase = "run", NEW s, Resumes(s), Follows(s),
           s.decisions # run.decisions /\ phase' = "run" => hurried'
    PROVE  Good'
<1>1. CASE split = <<>>
  <2>1. /\ phase' = "run" /\ run' = s /\ UNCHANGED <<pending, reached, split>>
    BY <1>1 DEF Resumes, Continue
  <2>. QED
    BY <1>1, <2>1, GoingOn
<1>2. CASE split # <<>>
  <2>1. Yield({s}, <<>>, {})
    BY <1>2 DEF Resumes
  <2>2. {s} \in SUBSET SymbolicState /\ <<>> \in Seq(SymbolicState) /\ Len(<<>>) = 0
    BY EmptySeq DEF Follows
  <2>3. /\ \A t \in {s} : Follows(t) /\ \A u \in {s} : t.id = u.id => t = u
        /\ \A k \in 1..Len(<<>>) : Arrives(<<>>[k])
    BY <2>2
  <2>. QED
    BY <2>1, <2>2, <2>3, Ending
<1>. QED
  BY <1>1, <1>2

-----------------------------------------------------------------------------
(* Operations.                                                              *)

\* A state with the running state's number and depth whose inputs are on their way only if
\* they were.
LEMMA Following ==
    ASSUME TypeOK, phase = "run", NEW s \in SymbolicState,
           s.id = run.id, s.decisions = run.decisions,
           \A i \in s.cond :
              /\ i \in run.cond
              /\ Goalward(s.at, s.stack, s.data[i]) => Goalward(run.at, run.stack, run.data[i])
    PROVE  Follows(s)
<1>1. run.decisions \in Nat
  BY RunningFacts DEF SymbolicState
<1>. QED
  BY <1>1 DEF Follows

\* A run that is not avoided and takes a step along the way was on its way.
LEMMA Along ==
    ASSUME TypeOK, phase = "run", run.at \notin AvoidPoints, NEW i \in Inputs,
           \/ run.at \in GoalPoints
           \/ /\ ~ CallsAvoided(Here, run.data[i])
              /\ \/ CallsGoal(Here, run.data[i])
                 \/ GoalwardAlong(Here, run.stack, run.data[i])
    PROVE  Goalward(run.at, run.stack, run.data[i])
<1>1. run.at \in Points \ AvoidPoints /\ run.stack \in Stacks /\ run.data[i] \in Data
  BY RunningFacts DEF SymbolicState
<1>. QED
  BY <1>1, GoalwardConverse DEF Here

LEMMA AlongOperation ==
    ASSUME TypeOK, NEW op, Running(op), op # "call", NEW i \in Inputs,
           GoalwardAlong(Here, run.stack, run.data[i])
    PROVE  Goalward(run.at, run.stack, run.data[i])
<1>1. phase = "run" /\ run.at \notin AvoidPoints /\ ~ CallsAvoided(Here, run.data[i])
  BY DEF Running, CallsAvoided
<1>. QED
  BY <1>1, Along

\* Moving and computing, under a condition or none.
LEMMA OnwardShape ==
    ASSUME TypeOK, phase = "run", NEW s \in {run, Assume(run, Here.when)}
    PROVE  LET t == Onward(s) IN
           /\ t \in SymbolicState /\ t.id = run.id /\ t.decisions = run.decisions
           /\ t.cond = s.cond /\ t.at = Here.next /\ t.stack = run.stack
           /\ \A i \in Inputs : t.data[i] = Here.effect[run.data[i]]
           /\ s.cond \subseteq run.cond /\ run.cond \subseteq Inputs
<1>1. run \in SymbolicState /\ s \in SymbolicState
  BY RunningFacts, StateAlgebra
<1>2. s.id = run.id /\ s.decisions = run.decisions /\ s.stack = run.stack /\ s.data = run.data
      /\ s.cond \subseteq run.cond
  BY <1>1 DEF Assume, SymbolicState
<1>3. Onward(s) \in SymbolicState
  BY <1>1, RunningFacts, StateAlgebra DEF Onward
<1>. QED
  BY <1>1, <1>2, <1>3 DEF Onward, GoTo, Update, SymbolicState

LEMMA OnwardFollows ==
    ASSUME TypeOK, Running("compute") \/ Running("divide") \/ Running("access"),
           NEW s \in {run, Assume(run, Here.when)},
           Here.op # "compute" => \A i \in s.cond : run.data[i] \in Here.when
    PROVE  Follows(Onward(s)) /\ Onward(s).decisions = run.decisions
<1>. DEFINE t == Onward(s)
<1>1. phase = "run" /\ Here.op \in {"compute", "divide", "access"}
  BY DEF Running
<1>2. /\ t \in SymbolicState /\ t.id = run.id /\ t.decisions = run.decisions
      /\ t.cond = s.cond /\ t.at = Here.next /\ t.stack = run.stack
      /\ \A i \in Inputs : t.data[i] = Here.effect[run.data[i]]
      /\ s.cond \subseteq run.cond /\ run.cond \subseteq Inputs
  BY <1>1, OnwardShape
<1>. HIDE DEF t
<1>3. ASSUME NEW i \in t.cond, Goalward(t.at, t.stack, t.data[i])
      PROVE  Goalward(run.at, run.stack, run.data[i])
  <2>1. i \in Inputs /\ Goalward(Here.next, run.stack, Here.effect[run.data[i]])
    BY <1>2, <1>3
  <2>2. GoalwardAlong(Here, run.stack, run.data[i])
    BY <1>1, <1>2, <2>1 DEF GoalwardAlong
  <2>. QED
    BY <2>1, <2>2, AlongOperation
<1>4. Follows(t)
  BY <1>1, <1>2, <1>3, Following
<1>. QED
  BY <1>2, <1>4 DEF t

LEMMA OperateGood ==
    ASSUME Inv, Good, Steady, Operate
    PROVE  Good'
<1>1. phase = "run" /\ run \in SymbolicState /\ TypeOK /\ run.cond \subseteq Inputs
  <2>1. phase = "run"
    BY DEF Operate, Observe, Compute, Divide, AccessKnown, AccessSymbolic, Unsupported, Halt,
           Running
  <2>. QED
    BY <2>1, RunningFacts DEF Inv, SymbolicState
<1>2. ASSUME NEW s, Continue(s), Follows(s), s.decisions = run.decisions PROVE Good'
  BY <1>1, <1>2, Continuing
<1>3. ASSUME NEW reason, Stops(reason) PROVE Good'
  BY <1>1, <1>3, Stopping
<1>4. ASSUME Running("divide") \/ Running("access"), Require(Onward(Assume(run, Here.when)))
      PROVE  Good'
  <2>1. \A i \in Assume(run, Here.when).cond : run.data[i] \in Here.when
    BY <1>1 DEF Assume, Where, SymbolicState
  <2>2. Follows(Onward(Assume(run, Here.when)))
        /\ Onward(Assume(run, Here.when)).decisions = run.decisions
    BY <1>1, <1>4, <2>1, OnwardFollows
  <2>. QED
    BY <1>2, <1>3, <1>4, <2>2 DEF Require
<1>5. ASSUME Running("divide") \/ Running("access"), Always(run, Here.when),
             Continue(Onward(run))
      PROVE  Good'
  <2>1. \A i \in run.cond : run.data[i] \in Here.when
    BY <1>1, <1>5 DEF Always, Where
  <2>. QED
    BY <1>1, <1>2, <1>5, <2>1, OnwardFollows
<1>6. CASE Observe
  <2>1. CASE run.at \in AvoidPoints
    BY <1>3, <1>6, <2>1 DEF Observe
  <2>2. CASE run.at \notin AvoidPoints
    <3>1. run.at \in GoalPoints /\ Yield({}, <<run>>, {"goal"})
      BY <1>6, <2>2 DEF Observe
    <3>2. Arrives(run)
      BY <1>1, <2>2, <3>1, Along DEF Arrives
    <3>. QED
      BY <1>1, <3>1, <3>2, Reached
  <2>. QED
    BY <2>1, <2>2
<1>7. CASE Compute
  <2>1. Running("compute") /\ Here.op = "compute" /\ Continue(Onward(run))
    BY <1>7 DEF Compute, Running, Onward
  <2>. QED
    BY <1>1, <1>2, <2>1, OnwardFollows
<1>8. CASE Divide
  BY <1>3, <1>4, <1>5, <1>8 DEF Divide
<1>9. CASE AccessKnown
  BY <1>3, <1>5, <1>9 DEF AccessKnown
<1>10. CASE AccessSymbolic
  BY <1>3, <1>4, <1>10 DEF AccessSymbolic
<1>11. CASE Unsupported \/ Halt
  BY <1>3, <1>11 DEF Unsupported, Halt
<1>. QED
  BY <1>6, <1>7, <1>8, <1>9, <1>10, <1>11 DEF Operate

-----------------------------------------------------------------------------
(* Control flow.                                                            *)

\* An input that takes a side and goes on to the goal from there was on its way.
LEMMA AlongChoice ==
    ASSUME TypeOK, Running("branch") \/ Running("switch"), NEW i \in run.cond,
           NEW k \in 1..Len(Here.choices), run.data[i] \in Here.choices[k].when,
           Goalward(Here.choices[k].to, run.stack, run.data[i])
    PROVE  Goalward(run.at, run.stack, run.data[i])
<1>1. phase = "run" /\ Here.op \in {"branch", "switch"}
  BY DEF Running
<1>2. i \in Inputs
  BY <1>1, RunningFacts DEF SymbolicState
<1>3. GoalwardAlong(Here, run.stack, run.data[i])
  BY <1>1 DEF GoalwardAlong
<1>. QED
  BY <1>2, <1>3, AlongOperation

LEMMA ChildShape ==
    ASSUME TypeOK, phase = "run", NEW k \in 1..Len(Here.choices), NEW deeper \in Nat
    PROVE  LET s == Child(Here.choices, k, deeper) IN
           /\ s \in SymbolicState /\ s.decisions = run.decisions + deeper
           /\ s.id = IF k = Len(Here.choices) THEN run.id ELSE NewId(k)
           /\ s.cond = Side(Here.choices[k]) /\ s.at = Here.choices[k].to
           /\ s.stack = run.stack /\ s.data = run.data
<1>. DEFINE id == IF k = Len(Here.choices) THEN run.id ELSE NewId(k)
            visits == [run.visits EXCEPT ![run.at] = @ + 1]
            decisions == run.decisions + deeper
            s == Child(Here.choices, k, deeper)
<1>1. run \in SymbolicState /\ s \in SymbolicState
  BY RunningFacts, ChildType
<1>2. s = [run EXCEPT !.id = id, !.cond = Side(Here.choices[k]), !.at = Here.choices[k].to,
                      !.visits = visits, !.decisions = decisions]
  BY DEF Child
<1>. HIDE DEF id, visits, s
<1>3. /\ s.decisions = decisions /\ s.id = id /\ s.cond = Side(Here.choices[k])
      /\ s.at = Here.choices[k].to /\ s.stack = run.stack /\ s.data = run.data
  BY <1>1, <1>2 DEF SymbolicState
<1>. QED
  BY <1>1, <1>3 DEF s, id

LEMMA ForkGood ==
    ASSUME TypeOK, Good, Steady, Running("branch") \/ Running("switch"), Fork(Here.choices)
    PROVE  Good'
<1>. DEFINE choices == Here.choices
            n == Len(choices)
            unknown(answer) == {"solver-unknown" : k \in {k \in 1..n : answer[k] = "unknown"}}
<1>1. phase = "run" /\ run \in SymbolicState /\ n \in Nat
  <2>1. phase = "run"
    BY DEF Running
  <2>. QED
    BY <2>1, RunningFacts, LenProperties
<1>2. CASE run.visits[run.at] >= MaxVisits
  BY <1>1, <1>2, Stopping DEF Fork
<1>3. CASE ~ (run.visits[run.at] >= MaxVisits)
  <2>1. PICK answer : Yield(Children(choices, answer), <<>>, unknown(answer))
    BY <1>3 DEF Fork
  <2>2. nextId' = nextId + (IF n = 0 THEN 0 ELSE n - 1)
    BY <1>3 DEF Fork
  <2>3. PICK deeper \in Nat : Children(choices, answer) =
                                 {Child(choices, k, deeper) : k \in Kept(choices, answer)}
    BY DEF Children
  <2>4. Kept(choices, answer) \subseteq 1..n
    BY DEF Kept
  <2>5. ASSUME NEW k \in 1..n PROVE Follows(Child(choices, k, deeper))
    <3>. DEFINE s == Child(choices, k, deeper)
    <3>1. /\ s \in SymbolicState /\ s.decisions = run.decisions + deeper
          /\ s.id = IF k = n THEN run.id ELSE NewId(k)
          /\ s.cond = Side(choices[k]) /\ s.at = choices[k].to
          /\ s.stack = run.stack /\ s.data = run.data
      BY <1>1, ChildShape
    <3>. HIDE DEF s
    <3>2. run.decisions <= s.decisions
      BY <1>1, <3>1 DEF SymbolicState
    <3>3. s.id = run.id \/ (nextId < s.id /\ s.id <= nextId')
      BY <1>1, <2>2, <3>1 DEF NewId, TypeOK, CountersOK
    <3>4. ASSUME NEW i \in s.cond
          PROVE  /\ i \in run.cond
                 /\ Goalward(s.at, s.stack, s.data[i]) => Goalward(run.at, run.stack, run.data[i])
      <4>1. i \in run.cond /\ run.data[i] \in choices[k].when
        BY <3>1, <3>4 DEF Side, Where
      <4>. QED
        BY <3>1, <4>1, AlongChoice
    <3>5. Follows(s)
      BY <3>1, <3>2, <3>3, <3>4 DEF Follows
    <3>. QED
      BY <3>5 DEF s
  <2>6. ASSUME NEW j \in 1..n, NEW k \in 1..n,
               Child(choices, j, deeper).id = Child(choices, k, deeper).id
        PROVE  j = k
    <3>1. /\ Child(choices, j, deeper).id = IF j = n THEN run.id ELSE NewId(j)
          /\ Child(choices, k, deeper).id = IF k = n THEN run.id ELSE NewId(k)
      BY <1>1, ChildShape
    <3>2. nextId \in Nat /\ run.id \in Nat /\ run.id <= nextId
      BY <1>1, RunAlive
    <3>3. j \in Nat /\ k \in Nat /\ 1 <= j /\ 1 <= k
      BY <1>1
    <3>4. (IF j = n THEN run.id ELSE nextId + j) = (IF k = n THEN run.id ELSE nextId + k)
      BY <2>6, <3>1 DEF NewId
    <3>. HIDE DEF choices, n
    <3>. QED
      BY <3>2, <3>3, <3>4
  <2>. HIDE DEF choices, n, unknown
  <2>7. /\ \A s \in Children(choices, answer) : Follows(s)
        /\ \A s, t \in Children(choices, answer) : s.id = t.id => s = t
    BY <2>3, <2>4, <2>5, <2>6
  <2>8. /\ Children(choices, answer) \in SUBSET SymbolicState
        /\ <<>> \in Seq(SymbolicState) /\ Len(<<>>) = 0
        /\ \A k \in 1..Len(<<>>) : Arrives(<<>>[k])
    BY <2>7, EmptySeq DEF Follows
  <2>. QED
    BY <1>1, <2>1, <2>7, <2>8, Ending
<1>. QED
  BY <1>2, <1>3

LEMMA TransferGood ==
    ASSUME Inv, Good, Steady, Transfer
    PROVE  Good'
<1>1. /\ phase = "run" /\ run \in SymbolicState /\ TypeOK /\ run.cond \subseteq Inputs
      /\ run.at \notin AvoidPoints
  <2>1. phase = "run" /\ run.at \notin AvoidPoints
    BY DEF Transfer, Branch, Switch, ReturnToCaller, ReturnFromMain, Running
  <2>. QED
    BY <2>1, RunningFacts DEF Inv, SymbolicState
<1>2. ASSUME NEW reason, Stops(reason) PROVE Good'
  BY <1>1, <1>2, Stopping
\* The side whose condition folds to true is the side every input takes.
<1>3. ASSUME Running("branch") \/ Running("switch"), NEW k \in Decided(Here.choices),
             Continue(GoTo(run, Here.choices[k].to))
      PROVE  Good'
  <2>. DEFINE s == GoTo(run, Here.choices[k].to)
  <2>1. k \in 1..Len(Here.choices) /\ \A i \in run.cond : run.data[i] \in Here.choices[k].when
    BY <1>1 DEF Decided, Always, Where
  <2>2. Here.choices[k].to \in Points
    <3>1. Here.choices[k] \in Choice
      BY <1>1, <2>1, RunningFacts, ElementOfSeq
    <3>. QED
      BY <3>1 DEF Choice
  <2>3. /\ s \in SymbolicState /\ s.id = run.id /\ s.decisions = run.decisions
        /\ s.cond = run.cond /\ s.at = Here.choices[k].to /\ s.stack = run.stack
        /\ s.data = run.data
    BY <1>1, <2>2 DEF GoTo, SymbolicState
  <2>. HIDE DEF s
  <2>4. \A i \in s.cond :
           Goalward(s.at, s.stack, s.data[i]) => Goalward(run.at, run.stack, run.data[i])
    BY <1>1, <1>3, <2>1, <2>3, AlongChoice
  <2>5. Follows(s)
    BY <1>1, <2>3, <2>4, Following
  <2>. QED
    BY <1>1, <1>3, <2>3, <2>5, Continuing DEF s
<1>4. CASE Branch
  <2>1. Running("branch")
    BY <1>4 DEF Branch
  <2>. QED
    BY <1>1, <1>3, <1>4, <2>1, ForkGood DEF Branch
<1>5. CASE Switch
  <2>1. Running("switch")
    BY <1>5 DEF Switch
  <2>2. ASSUME Fork(Here.choices) PROVE Good'
    BY <1>1, <2>1, <2>2, ForkGood
  <2>. QED
    BY <1>2, <1>3, <1>5, <2>1, <2>2 DEF Switch
<1>6. ASSUME Running("return"), NEW i \in run.cond, run.data[i] \in Here.when,
             IF run.stack = <<>> THEN \E goal \in OnReturn : run.data[i] \in goal
             ELSE Goalward(Head(run.stack), Tail(run.stack), run.data[i])
      PROVE  Goalward(run.at, run.stack, run.data[i])
  <2>1. Here.op = "return" /\ i \in Inputs
    BY <1>1, <1>6 DEF Running
  <2>2. GoalwardAlong(Here, run.stack, run.data[i])
    BY <1>6, <2>1 DEF GoalwardAlong, GoalwardReturn
  <2>. QED
    BY <1>1, <1>6, <2>1, <2>2, AlongOperation
<1>7. CASE ReturnToCaller
  <2>. DEFINE assumed == Assume(run, Here.when)
              back == [assumed EXCEPT !.at = Head(run.stack), !.stack = Tail(run.stack)]
  <2>1. assumed \in SymbolicState /\ assumed.id = run.id /\ assumed.data = run.data
        /\ assumed.decisions = run.decisions /\ assumed.cond = run.cond \cap Where(run, Here.when)
    BY <1>1, RunningFacts, StateAlgebra DEF Assume, SymbolicState
  <2>2. Head(run.stack) \in Points /\ Tail(run.stack) \in Stacks /\ run.stack # <<>>
    BY <1>1, <1>7, RunningFacts, PoppedStack DEF ReturnToCaller
  <2>3. /\ back \in SymbolicState /\ back.id = run.id /\ back.data = run.data
        /\ back.decisions = run.decisions /\ back.cond = run.cond \cap Where(run, Here.when)
        /\ back.at = Head(run.stack) /\ back.stack = Tail(run.stack)
    <3>. HIDE DEF assumed
    <3>. QED
      BY <2>1, <2>2 DEF SymbolicState
  <2>. HIDE DEF back
  <2>4. ASSUME NEW i \in back.cond, Goalward(back.at, back.stack, back.data[i])
        PROVE  Goalward(run.at, run.stack, run.data[i])
    <3>1. Running("return") /\ i \in run.cond /\ run.data[i] \in Here.when
      BY <1>7, <2>3, <2>4 DEF ReturnToCaller, Where
    <3>. QED
      BY <1>6, <2>2, <2>3, <2>4, <3>1
  <2>5. Follows(back)
    BY <1>1, <2>3, <2>4, Following
  <2>6. ASSUME Continue(back) PROVE Good'
    BY <1>1, <2>3, <2>5, <2>6, Continuing
  <2>. QED
    BY <1>2, <1>7, <2>6 DEF ReturnToCaller, back
<1>8. CASE ReturnFromMain
  <2>1. ASSUME NEW goal \in OnReturn,
               Yield({}, <<Assume(Assume(run, Here.when), goal)>>, {"goal"})
        PROVE  Good'
    <3>. DEFINE final == Assume(Assume(run, Here.when), goal)
    <3>1. /\ final \in SymbolicState /\ final.decisions = run.decisions
          /\ \A i \in final.cond : /\ i \in run.cond /\ run.data[i] \in Here.when
                                   /\ run.data[i] \in goal
      BY <1>1, RunningFacts, StateAlgebra DEF Assume, Where, SymbolicState
    <3>2. Running("return") /\ run.stack = <<>>
      BY <1>8 DEF ReturnFromMain
    <3>. HIDE DEF final
    <3>3. Arrives(final)
      BY <1>6, <2>1, <3>1, <3>2 DEF Arrives
    <3>. QED
      BY <1>1, <2>1, <3>3, Reached DEF final
  <2>. QED
    BY <1>2, <1>8, <2>1 DEF ReturnFromMain, Answers
<1>. QED
  BY <1>4, <1>5, <1>7, <1>8 DEF Transfer

-----------------------------------------------------------------------------
(* Calls.                                                                   *)

\* Inputs that a call neither avoids nor takes off the way were on their way.
LEMMA AlongCall ==
    ASSUME Inv, Shunned, Running("call"), handled >= Len(Here.avoidArgs), NEW i \in run.cond,
           \/ run.data[i] \in Here.goalArg
           \/ GoalwardAlong(Here, run.stack, run.data[i])
    PROVE  Goalward(run.at, run.stack, run.data[i])
<1>1. /\ TypeOK /\ phase = "run" /\ run.at \notin AvoidPoints /\ Here.op = "call"
      /\ handled \in Nat
  BY DEF Inv, Running, TypeOK, QueueOK
<1>2. i \in Inputs /\ Len(Here.avoidArgs) \in Nat
  BY <1>1, RunningFacts, LenProperties DEF SymbolicState, Instruction
<1>3. ~ CallsAvoided(Here, run.data[i])
  BY <1>1, <1>2 DEF Shunned, CallsAvoided
<1>. QED
  BY <1>1, <1>2, <1>3, Along DEF CallsGoal

\* Assuming something of an argument loses inputs and nothing else.
LEMMA AssumedFollows ==
    ASSUME TypeOK, phase = "run", NEW D
    PROVE  /\ Follows(run) /\ Follows(Assume(run, D))
           /\ Assume(run, D).decisions = run.decisions
<1>1. run \in SymbolicState /\ Assume(run, D) \in SymbolicState
  BY RunningFacts, StateAlgebra
<1>. QED
  BY <1>1, Following DEF Assume, SymbolicState

LEMMA ArgumentGood ==
    ASSUME Inv, Good, Steady, Shunned, AvoidArgument \/ GoalArgument
    PROVE  Good'
<1>1. phase = "run" /\ run \in SymbolicState /\ TypeOK /\ Running("call")
  <2>1. phase = "run" /\ Running("call")
    BY DEF AvoidArgument, GoalArgument, Running
  <2>. QED
    BY <2>1, RunningFacts DEF Inv
<1>2. ASSUME NEW s, NextArgument(s), UNCHANGED split, Follows(s), s.decisions = run.decisions
      PROVE  Good'
  BY <1>1, <1>2, GoingOn DEF NextArgument
<1>3. CASE AvoidArgument
  <2>1. ASSUME Stops("avoided") PROVE Good'
    BY <1>1, <2>1, Stopping
  <2>2. ASSUME NEW D, NextArgument(run) \/ NextArgument(Assume(run, D)), UNCHANGED split
        PROVE  Good'
    BY <1>1, <1>2, <2>2, AssumedFollows
  <2>. QED
    BY <1>3, <2>1, <2>2, AlwaysOrNever DEF AvoidArgument
<1>4. CASE GoalArgument
  <2>. DEFINE goal == [Assume(run, Here.goalArg) EXCEPT !.id = NewId(1)]
              rest == Assume(run, Data \ Here.goalArg)
  <2>1. handled = Len(Here.avoidArgs) /\ handled \in Nat
    BY <1>1, <1>4 DEF GoalArgument, TypeOK, QueueOK
  <2>2. \A i \in run.cond :
           run.data[i] \in Here.goalArg => Goalward(run.at, run.stack, run.data[i])
    BY <1>1, <2>1, AlongCall
  <2>3. CASE Never(run, Here.goalArg)
    <3>1. NextArgument(run) /\ UNCHANGED split
      BY <1>4, <2>3, AlwaysOrNever DEF GoalArgument
    <3>. QED
      BY <1>1, <1>2, <3>1, AssumedFollows
  <2>4. CASE Always(run, Here.goalArg)
    <3>1. Yield({}, <<run>>, {"goal"})
      BY <1>4, <2>4, AlwaysOrNever DEF GoalArgument
    <3>2. \A i \in run.cond : run.data[i] \in Here.goalArg
      BY <1>1, <2>4 DEF Always, Where, SymbolicState
    <3>3. Arrives(run)
      BY <1>1, <2>2, <3>2 DEF Arrives
    <3>. QED
      BY <1>1, <3>1, <3>3, Reached
  <2>5. CASE ~ Never(run, Here.goalArg) /\ ~ Always(run, Here.goalArg)
    <3>1. /\ split' = <<goal>> \/ split' = <<>>
          /\ NextArgument(rest) /\ nextId' = nextId + 1
      BY <1>4, <2>5 DEF GoalArgument
    <3>2. /\ run' = rest /\ phase' = "run" /\ UNCHANGED <<pending, reached>>
      BY <1>1, <3>1 DEF NextArgument
    <3>3. /\ rest.id = run.id /\ rest.decisions = run.decisions /\ rest.at = run.at
          /\ rest.stack = run.stack /\ rest.data = run.data /\ rest.cond \subseteq run.cond
      BY <1>1 DEF Assume, SymbolicState
    <3>4. /\ goal.id = nextId + 1 /\ goal.decisions = run.decisions
          /\ \A i \in goal.cond : i \in run.cond /\ run.data[i] \in Here.goalArg
      BY <1>1 DEF Assume, Where, SymbolicState, NewId
    <3>. HIDE DEF goal, rest
    <3>5. \A k \in 1..Len(split') : split'[k] = goal
      BY <3>1
    <3>6. /\ Waiting' \subseteq pending \cup {goal} /\ Current' = {rest} /\ Current = {run}
          /\ Alive' = Waiting' \cup {rest} /\ pending \subseteq Waiting
          /\ \A t \in pending : t \in Alive
      BY <1>1, <3>2, <3>5 DEF Waiting, Current, Alive
    <3>7. \A t \in pending : t.id <= nextId /\ t.id # run.id /\ t.id \in Nat
      BY <1>1, <3>6, RunAlive DEF SymbolicState
    <3>8. /\ \A t \in Waiting' : t.id # rest.id /\ t.id <= nextId'
          /\ rest.id <= nextId'
          /\ \A t, u \in Waiting' : t.id = u.id => t = u
      <4>1. \A t, u \in pending : t.id = u.id => t = u
        BY <3>6 DEF Good, Order, DistinctIds
      <4>. QED
        BY <1>1, <3>1, <3>3, <3>4, <3>6, <3>7, <4>1, RunAlive
    <3>9. DistinctIds'
      BY <3>6, <3>8 DEF DistinctIds
    <3>10. ASSUME ~ hurried'
           PROVE  /\ \A k \in 1..Len(reached), t \in Alive' : reached[k].decisions <= t.decisions
                  /\ \A t \in Alive' : rest.decisions <= t.decisions
      <4>1. ~ hurried /\ run \in Alive
        BY <1>1, <3>10, RunAlive DEF Steady
      <4>2. \A t \in Alive' : \E u \in Alive : t.decisions = u.decisions
        BY <3>3, <3>4, <3>6, <4>1
      <4>. QED
        BY <1>1, <3>3, <4>1, <4>2 DEF Good, Order
    <3>11. Order'
      BY <3>2, <3>3, <3>4, <3>5, <3>8, <3>9, <3>10 DEF Order
    <3>12. \A i \in run.cond : Goalward(run.at, run.stack, run.data[i]) => i \in Reaching
      BY <3>6 DEF Good, Truth
    <3>13. goal.cond \subseteq Reaching
      BY <2>2, <3>4, <3>12
    <3>14. \A i \in rest.cond : Goalward(rest.at, rest.stack, rest.data[i]) => i \in Reaching
      BY <3>3, <3>12
    <3>15. Truth'
      BY <3>2, <3>5, <3>6, <3>13, <3>14 DEF Good, Truth, Steady
    <3>. QED
      BY <3>11, <3>15 DEF Good
  <2>. QED
    BY <2>3, <2>4, <2>5
<1>. QED
  BY <1>3, <1>4

LEMMA FunctionGood ==
    ASSUME Inv, Good, Steady, Shunned, CallFunction \/ CallElsewhere
    PROVE  Good'
<1>1. phase = "run" /\ run \in SymbolicState /\ TypeOK /\ Running("call")
  <2>1. phase = "run" /\ Running("call")
    BY DEF CallFunction, CallElsewhere, Calling, Running
  <2>. QED
    BY <2>1, RunningFacts DEF Inv
<1>2. ASSUME NEW reason, Stops(reason) PROVE Good'
  BY <1>1, <1>2, Stopping
<1>3. CASE CallElsewhere
  BY <1>2, <1>3 DEF CallElsewhere
<1>4. CASE CallFunction /\ TooDeep(run.stack)
  BY <1>2, <1>4 DEF CallFunction
<1>5. CASE CallFunction /\ ~ TooDeep(run.stack)
  <2>. DEFINE inside == [run EXCEPT !.at = Here.callee, !.stack = <<Here.next>> \o run.stack]
  <2>1. /\ Calling("function") /\ Here.target = "function" /\ Here.op = "call"
        /\ handled >= Len(Here.avoidArgs)
    <3>1. Len(Here.avoidArgs) \in Nat
      BY <1>1, RunningFacts, LenProperties DEF Instruction
    <3>. QED
      BY <1>5, <3>1 DEF CallFunction, Calling, Running
  <2>2. <<Here.next>> \o run.stack \in Stacks /\ Here.callee \in Points
    BY <1>1, <1>5, RunningFacts, PushedStack
  <2>3. /\ inside \in SymbolicState /\ inside.id = run.id /\ inside.decisions = run.decisions
        /\ inside.cond = run.cond /\ inside.data = run.data /\ inside.at = Here.callee
        /\ inside.stack = <<Here.next>> \o run.stack
    BY <1>1, <2>2 DEF SymbolicState
  <2>4. Resumes(inside)
    BY <1>1, <1>5 DEF CallFunction, SymbolicState
  <2>. HIDE DEF inside
  <2>5. Len(run.stack) + 1 < MaxCallDepth
    <3>1. Len(run.stack) \in Nat
      BY <1>1, RunningFacts DEF Stacks
    <3>. QED
      BY <1>5, <3>1, ProgramAssumption DEF TooDeep
  <2>6. ASSUME NEW i \in inside.cond, Goalward(inside.at, inside.stack, inside.data[i])
        PROVE  Goalward(run.at, run.stack, run.data[i])
    <3>1. GoalwardAlong(Here, run.stack, run.data[i])
      BY <2>1, <2>3, <2>5, <2>6 DEF GoalwardAlong
    <3>. QED
      BY <1>1, <2>1, <2>3, <3>1, AlongCall
  <2>7. Follows(inside)
    BY <1>1, <2>3, <2>6, Following
  <2>. QED
    BY <1>1, <2>3, <2>4, <2>7, Resuming
<1>. QED
  BY <1>3, <1>4, <1>5

\* Live options have numbers of their own, up to their count.
LEMMA Ranks ==
    ASSUME TypeOK, phase = "run"
    PROVE  /\ Live \in SUBSET (1..Len(Here.options)) /\ Cardinality(Live) \in Nat
           /\ \A j \in Live : Rank(Live, j) \in 1..Cardinality(Live)
           /\ \A j, k \in Live : Rank(Live, j) = Rank(Live, k) => j = k
           /\ Cardinality(Live) = 1 => \A j, k \in Live : j = k
<1>1. Live \in SUBSET (1..Len(Here.options)) /\ Len(Here.options) \in Nat
  BY RunningFacts, LenProperties DEF Live
<1>2. IsFiniteSet(Live)
  <2>1. IsFiniteSet(1..Len(Here.options))
    BY <1>1, FS_Interval
  <2>. QED
    BY <1>1, <2>1, FS_Subset
<1>. DEFINE Below(j) == {i \in Live : i <= j}
<1>3. ASSUME NEW j PROVE /\ IsFiniteSet(Below(j)) /\ Cardinality(Below(j)) \in Nat
                         /\ Cardinality(Below(j)) <= Cardinality(Live)
  BY <1>2, FS_Subset, FS_CardinalityType
<1>4. ASSUME NEW j \in Live, NEW k \in Live, j < k
      PROVE  Cardinality(Below(j)) # Cardinality(Below(k))
  <2>1. \A i \in Live : i \in Int
    BY <1>1
  <2>2. \A i \in Live : i <= j => i <= k
    BY <1>4, <2>1
  <2>3. k \in Below(k) /\ k \notin Below(j)
    BY <1>4, <2>1
  <2>4. Below(j) \in SUBSET Below(k)
    BY <2>2
  <2>5. Below(j) # Below(k)
    BY <2>3
  <2>. QED
    BY <1>3, <2>4, <2>5, FS_Subset
<1>5. ASSUME NEW j \in Live PROVE Cardinality(Below(j)) # 0
  <2>1. j \in Below(j)
    BY <1>1
  <2>. QED
    BY <1>3, <2>1, FS_EmptySet
<1>6. Cardinality(Live) \in Nat
  BY <1>2, FS_CardinalityType
<1>7. Cardinality(Live) = 1 => \A j, k \in Live : j = k
  BY <1>2, FS_Singleton
<1>8. \A j : Rank(Live, j) = Cardinality(Below(j))
  BY DEF Rank
<1>9. \A j, k \in Live : j = k \/ j < k \/ k < j
  BY <1>1
<1>. HIDE DEF Below
<1>10. \A j \in Live : Rank(Live, j) \in 1..Cardinality(Live)
  BY <1>3, <1>5, <1>6, <1>8
<1>11. \A j, k \in Live : Rank(Live, j) = Rank(Live, k) => j = k
  BY <1>4, <1>8, <1>9
<1>. QED
  BY <1>1, <1>6, <1>7, <1>10, <1>11

LEMMA OutcomeShape ==
    ASSUME TypeOK, phase = "run", NEW chosen \in SUBSET Live, NEW j \in Live
    PROVE  LET s == Outcome(chosen, j)  option == Here.options[j] IN
           /\ s \in SymbolicState /\ run.decisions <= s.decisions
           /\ s.id = IF Cardinality(Live) = 1 THEN run.id ELSE NewId(Rank(Live, j))
           /\ s.cond = Side(option) /\ s.at = Here.next /\ s.stack = run.stack
           /\ \A i \in Inputs : s.data[i] = option.effect[run.data[i]]
<1>. DEFINE option == Here.options[j]
            base == GoTo(Update(run, option.effect), Here.next)
            id == IF Cardinality(Live) = 1 THEN run.id ELSE NewId(Rank(Live, j))
            spread == IF Cardinality(chosen) > 1 THEN Rank(chosen, j) ELSE 0
            decisions == run.decisions + spread + option.delay
            s == Outcome(chosen, j)
<1>1. chosen \in SUBSET (1..Len(Here.options)) /\ option \in Option
  BY RunningFacts, ElementOfSeq DEF Live
<1>2. s \in SymbolicState
  BY <1>1, OutcomeType
<1>3. run \in SymbolicState
  BY RunningFacts
<1>4. base \in SymbolicState
  BY <1>1, <1>3, RunningFacts, StateAlgebra DEF Option
<1>5. base.at = Here.next /\ base.stack = run.stack
      /\ \A i \in Inputs : base.data[i] = option.effect[run.data[i]]
  BY <1>3 DEF GoTo, Update, SymbolicState
<1>6. run.decisions <= decisions
  <2>1. spread \in Nat /\ option.delay \in Nat /\ run.decisions \in Nat
    BY <1>1, <1>3, RankType DEF Option, SymbolicState
  <2>. HIDE DEF spread, option
  <2>. QED
    BY <2>1
<1>7. s = [base EXCEPT !.cond = Side(option), !.id = id, !.decisions = decisions]
  BY DEF Outcome
<1>. HIDE DEF base, id, decisions, s
<1>8. /\ s.decisions = decisions /\ s.id = id /\ s.cond = Side(option)
      /\ s.at = base.at /\ s.stack = base.stack /\ s.data = base.data
  BY <1>4, <1>7 DEF SymbolicState
<1>. QED
  BY <1>2, <1>5, <1>6, <1>8 DEF s, id

\* An outcome that returns goes on with inputs that were on their way.
LEMMA OutcomeFollows ==
    ASSUME Inv, Good, Shunned, Calling("import"), NEW chosen \in SUBSET Live, NEW j \in Live,
           Here.options[j].ends = "returns",
           nextId' = IF Cardinality(Live) > 1 THEN nextId + Cardinality(Live) ELSE nextId
    PROVE  Follows(Outcome(chosen, j))
<1>. DEFINE s == Outcome(chosen, j)
            option == Here.options[j]
<1>1. /\ TypeOK /\ phase = "run" /\ Running("call") /\ Here.op = "call"
      /\ Here.target = "import" /\ handled = Len(Here.avoidArgs) + 1
  BY DEF Inv, Calling, Running
<1>2. /\ s \in SymbolicState /\ run.decisions <= s.decisions
      /\ s.id = IF Cardinality(Live) = 1 THEN run.id ELSE NewId(Rank(Live, j))
      /\ s.cond = Side(option) /\ s.at = Here.next /\ s.stack = run.stack
      /\ \A i \in Inputs : s.data[i] = option.effect[run.data[i]]
  BY <1>1, OutcomeShape
<1>. HIDE DEF s
<1>3. s.id = run.id \/ (nextId < s.id /\ s.id <= nextId')
  <2>1. /\ Cardinality(Live) \in Nat /\ Rank(Live, j) \in 1..Cardinality(Live)
        /\ nextId \in Nat
    BY <1>1, Ranks, RunAlive
  <2>. QED
    BY <1>2, <2>1 DEF NewId
<1>4. ASSUME NEW i \in s.cond
      PROVE  /\ i \in run.cond
             /\ Goalward(s.at, s.stack, s.data[i]) => Goalward(run.at, run.stack, run.data[i])
  <2>1. /\ i \in run.cond /\ i \in Inputs /\ run.data[i] \in option.when
        /\ j \in 1..Len(Here.options)
    BY <1>2, <1>4 DEF Side, Where, Live
  <2>2. ASSUME Goalward(s.at, s.stack, s.data[i])
        PROVE  Goalward(run.at, run.stack, run.data[i])
    <3>1. GoalwardAlong(Here, run.stack, run.data[i])
      BY <1>1, <1>2, <2>1, <2>2 DEF GoalwardAlong
    <3>2. handled >= Len(Here.avoidArgs)
      <4>1. Len(Here.avoidArgs) \in Nat
        BY <1>1, RunningFacts, LenProperties DEF Instruction
      <4>. QED
        BY <1>1, <4>1
    <3>. QED
      BY <1>1, <2>1, <3>1, <3>2, AlongCall
  <2>. QED
    BY <2>1, <2>2
<1>5. Follows(s)
  BY <1>2, <1>3, <1>4 DEF Follows
<1>. QED
  BY <1>5 DEF s

LEMMA ImportGood ==
    ASSUME Inv, Good, Steady, Shunned, CallImport
    PROVE  Good'
<1>1. phase = "run" /\ run \in SymbolicState /\ TypeOK /\ Calling("import")
  <2>1. phase = "run" /\ Calling("import")
    BY DEF CallImport, Calling, Running
  <2>. QED
    BY <2>1, RunningFacts DEF Inv
<1>2. nextId' = IF Cardinality(Live) > 1 THEN nextId + Cardinality(Live) ELSE nextId
  BY DEF CallImport
<1>3. hurried' = (hurried \/ (phase' = "run" /\ run'.decisions # run.decisions))
  BY DEF CallImport
<1>4. PICK chosen \in SUBSET Live :
        LET returning == {j \in chosen : Here.options[j].ends = "returns"}
            last == {j \in Live : \A k \in Live : k <= j}
        IN IF Raising(chosen) # {} THEN Raises(chosen)
           ELSE IF returning = last /\ chosen = last /\ last # {}
                THEN \E j \in last : Resumes(Outcome(chosen, j))
                ELSE Yield({Outcome(chosen, j) : j \in returning}, <<>>,
                           {"exited" : j \in chosen \ returning})
  BY DEF CallImport
<1>. DEFINE returning == {j \in chosen : Here.options[j].ends = "returns"}
<1>5. \A j \in returning : j \in Live /\ Follows(Outcome(chosen, j))
  BY <1>1, <1>2, OutcomeFollows
<1>6. ASSUME NEW reason, Stops(reason) PROVE Good'
  BY <1>1, <1>6, Stopping
<1>7. ASSUME NEW j \in returning, Resumes(Outcome(chosen, j)) PROVE Good'
  <2>. DEFINE s == Outcome(chosen, j)
  <2>. HIDE DEF s
  <2>1. Resumes(s) /\ Follows(s)
    BY <1>5, <1>7 DEF s
  <2>2. phase' = "run" => run' = s
    BY <2>1 DEF Resumes, Continue, Yield
  <2>3. s.decisions # run.decisions /\ phase' = "run" => hurried'
    BY <1>3, <2>2
  <2>. QED
    BY <1>1, <2>1, <2>3, Resuming
<1>8. ASSUME NEW reasons, Yield({Outcome(chosen, j) : j \in returning}, <<>>, reasons)
      PROVE  Good'
  <2>. DEFINE outcomes == {Outcome(chosen, j) : j \in returning}
  <2>1. ASSUME NEW j \in returning, NEW k \in returning,
               Outcome(chosen, j).id = Outcome(chosen, k).id
        PROVE  j = k
    <3>1. j \in Live /\ k \in Live
      BY <1>5
    <3>2. CASE Cardinality(Live) = 1
      BY <1>1, <3>1, <3>2, Ranks
    <3>3. CASE Cardinality(Live) # 1
      <4>1. /\ Outcome(chosen, j).id = NewId(Rank(Live, j))
            /\ Outcome(chosen, k).id = NewId(Rank(Live, k))
        BY <1>1, <3>1, <3>3, OutcomeShape
      <4>2. nextId + Rank(Live, j) = nextId + Rank(Live, k)
        BY <2>1, <4>1 DEF NewId
      <4>3. nextId \in Nat /\ Rank(Live, j) \in Nat /\ Rank(Live, k) \in Nat
        BY <1>1, <3>1, Ranks, RunAlive
      <4>4. Rank(Live, j) = Rank(Live, k)
        BY <4>2, <4>3
      <4>. QED
        BY <1>1, <3>1, <4>4, Ranks
    <3>. QED
      BY <3>2, <3>3
  <2>2. \A s \in outcomes : Follows(s)
    BY <1>5
  <2>3. \A s, t \in outcomes : s.id = t.id => s = t
    BY <2>1
  <2>. HIDE DEF outcomes
  <2>4. /\ outcomes \in SUBSET SymbolicState /\ <<>> \in Seq(SymbolicState) /\ Len(<<>>) = 0
        /\ \A k \in 1..Len(<<>>) : Arrives(<<>>[k])
    BY <2>2, EmptySeq DEF Follows
  <2>5. Yield(outcomes, <<>>, reasons)
    BY <1>8 DEF outcomes
  <2>. QED
    BY <1>1, <2>2, <2>3, <2>4, <2>5, Ending
<1>9. CASE Raising(chosen) # {}
  <2>1. Raises(chosen)
    BY <1>4, <1>9
  <2>. QED
    BY <1>6, <2>1 DEF Raises
<1>10. CASE Raising(chosen) = {}
  BY <1>4, <1>7, <1>8, <1>10
<1>. QED
  BY <1>9, <1>10

LEMMA CallGood ==
    ASSUME Inv, Good, Steady, Shunned, CallSteps
    PROVE  Good'
BY ArgumentGood, FunctionGood, ImportGood DEF CallSteps

-----------------------------------------------------------------------------
(* The heap and the solutions.                                              *)

LEMMA ExploreGood ==
    ASSUME Inv, Good, Explore
    PROVE  Good'
<1>1. phase = "loop" /\ TypeOK /\ split = <<>> /\ Len(split) = 0
  <2>1. phase = "loop"
    BY DEF Explore, OutOfStates, OutOfSteps, OutOfTime, Pop, LoopEnds
  <2>. QED
    BY <2>1, EmptySeq DEF Inv, SplitAtCall
<1>2. Current = {} /\ Alive = pending /\ Waiting = pending
  BY <1>1 DEF Current, Alive, Waiting
<1>3. UNCHANGED <<split, nextId, reached, hurried, unpreferred, solutions>>
  BY DEF Explore, OutOfStates, OutOfSteps, OutOfTime, Pop, LoopEnds, Exhaust, engine, record,
         verdict
<1>4. CASE Pop
  <2>1. PICK s \in pending : /\ run' = s /\ pending' = pending \ {s}
                             /\ \A t \in pending \ {s} : Before(s, t)
    BY <1>4 DEF Pop
  <2>2. phase' = "run"
    BY <1>4 DEF Pop
  <2>3. Current' = {s} /\ Waiting' = pending \ {s} /\ Alive' = pending
    BY <1>1, <1>3, <2>1, <2>2 DEF Current, Waiting, Alive
  <2>4. DistinctIds'
    BY <1>2, <1>3, <2>3 DEF Good, Order, DistinctIds
  <2>5. \A t \in pending \ {s} : t.id # s.id
    BY <1>2, <2>1 DEF Good, Order, DistinctIds
  <2>6. \A t \in pending : t.decisions \in Nat
    BY <1>1 DEF TypeOK, QueueOK, SymbolicState
  <2>7. \A t \in pending : s.decisions <= t.decisions
    BY <2>1, <2>6 DEF Before
  <2>8. Order'
    BY <1>1, <1>2, <1>3, <2>1, <2>3, <2>4, <2>5, <2>7 DEF Good, Order
  <2>9. Truth'
    BY <1>1, <1>2, <1>3, <2>1, <2>3 DEF Good, Truth
  <2>. QED
    BY <2>8, <2>9 DEF Good
<1>5. CASE ~ Pop
  <2>1. phase' = "pick" /\ UNCHANGED <<pending, run>>
    BY <1>5 DEF Explore, OutOfStates, OutOfSteps, OutOfTime, LoopEnds, Exhaust, engine, record
  <2>2. Current' = {} /\ Waiting' = pending /\ Alive' = pending
    BY <1>1, <1>3, <2>1 DEF Current, Waiting, Alive
  <2>3. DistinctIds'
    BY <1>2, <1>3, <2>2 DEF Good, Order, DistinctIds
  <2>4. Order'
    BY <1>1, <1>2, <1>3, <2>1, <2>2, <2>3 DEF Good, Order
  <2>5. Truth'
    BY <1>1, <1>2, <1>3, <2>1, <2>2 DEF Good, Truth
  <2>. QED
    BY <2>4, <2>5 DEF Good
<1>. QED
  BY <1>4, <1>5

\* Extraction takes its models from goal states, whose inputs all reach the goal.
LEMMA SolveGood ==
    ASSUME Inv, Good, Solve \/ UNCHANGED vars
    PROVE  Good'
<1>1. /\ UNCHANGED <<pending, run, split, nextId, reached, hurried>>
      /\ phase' = "run" <=> phase = "run"
  BY DEF Solve, Resume, TryReached, PickEnds, TryUnpreferred, Conclude, Finding, engine,
         record, vars
<1>2. Current' = Current /\ Waiting' = Waiting /\ Alive' = Alive
  BY <1>1 DEF Current, Waiting, Alive
<1>3. Order'
  <2>1. DistinctIds'
    BY <1>1, <1>2 DEF Good, Order, DistinctIds
  <2>. QED
    BY <1>1, <1>2, <2>1 DEF Good, Order
<1>4. ASSUME /\ \A k \in 1..Len(unpreferred') : unpreferred'[k].cond \subseteq Reaching
             /\ solutions' \subseteq Reaching
      PROVE  Good'
  <2>1. Truth'
    BY <1>1, <1>2, <1>4 DEF Good, Truth
  <2>. QED
    BY <1>3, <2>1 DEF Good
<1>5. CASE TryReached
  <2>. DEFINE s == reached[index + 1]
  <2>1. index + 1 \in 1..Len(reached) /\ s.cond \subseteq Reaching
    <3>1. index \in Nat /\ Len(reached) \in Nat /\ ~ (index >= Len(reached))
      BY <1>5, LenProperties DEF TryReached, OutOfReached, Inv, TypeOK, QueueOK, VerdictOK
    <3>2. index + 1 \in 1..Len(reached)
      BY <3>1
    <3>. QED
      BY <3>2 DEF Good, Truth
  <2>2. PICK found \in SUBSET s.cond :
           /\ solutions' = solutions \cup found
           /\ unpreferred' = IF found = {} /\ HasPreference THEN Append(unpreferred, s)
                             ELSE unpreferred
    BY <1>5 DEF TryReached
  <2>3. unpreferred \in Seq(SymbolicState) /\ s \in SymbolicState
    BY <2>1, ElementOfSeq DEF Inv, TypeOK, QueueOK, VerdictOK
  <2>. HIDE DEF s
  <2>4. ASSUME NEW k \in 1..Len(unpreferred') PROVE unpreferred'[k].cond \subseteq Reaching
    <3>1. CASE unpreferred' = unpreferred
      BY <2>4, <3>1 DEF Good, Truth
    <3>2. CASE unpreferred' = Append(unpreferred, s)
      <4>1. /\ Len(unpreferred) \in Nat /\ Len(unpreferred') = Len(unpreferred) + 1
            /\ \A j \in 1..Len(unpreferred) : unpreferred'[j] = unpreferred[j]
            /\ unpreferred'[Len(unpreferred) + 1] = s
        BY <2>3, <3>2, AppendProperties, LenProperties
      <4>2. k \in 1..Len(unpreferred) \/ k = Len(unpreferred) + 1
        BY <2>4, <4>1
      <4>. QED
        BY <2>1, <4>1, <4>2 DEF Good, Truth
    <3>. QED
      BY <2>2, <3>1, <3>2
  <2>5. solutions' \subseteq Reaching
    BY <2>1, <2>2 DEF Good, Truth
  <2>. QED
    BY <1>4, <2>4, <2>5
<1>6. CASE TryUnpreferred
  <2>1. /\ unpreferred # <<>> /\ unpreferred' = Tail(unpreferred)
        /\ \E found \in SUBSET Head(unpreferred).cond : solutions' = solutions \cup found
    BY <1>6 DEF TryUnpreferred
  <2>2. unpreferred \in Seq(SymbolicState)
    BY DEF Inv, TypeOK, VerdictOK
  <2>3. /\ Len(unpreferred) \in Nat \ {0} /\ Head(unpreferred) = unpreferred[1]
        /\ Len(Tail(unpreferred)) = Len(unpreferred) - 1
        /\ \A k \in 1..Len(Tail(unpreferred)) : Tail(unpreferred)[k] = unpreferred[k + 1]
    BY <2>1, <2>2, HeadTailProperties, EmptySeq, LenProperties
  <2>4. 1 \in 1..Len(unpreferred)
    BY <2>3
  <2>5. Head(unpreferred).cond \subseteq Reaching
    BY <2>3, <2>4 DEF Good, Truth
  <2>6. \A k \in 1..Len(unpreferred') : k + 1 \in 1..Len(unpreferred)
                                        /\ unpreferred'[k] = unpreferred[k + 1]
    BY <2>1, <2>3
  <2>. QED
    BY <1>4, <2>1, <2>5, <2>6 DEF Good, Truth
<1>7. CASE Resume \/ PickEnds \/ Conclude \/ UNCHANGED vars
  <2>1. UNCHANGED <<unpreferred, solutions>>
    BY <1>7 DEF Resume, PickEnds, Conclude, verdict, vars
  <2>. QED
    BY <1>4, <2>1 DEF Good, Truth
<1>. QED
  BY <1>5, <1>6, <1>7 DEF Solve

-----------------------------------------------------------------------------
(* The other parts of the argument.                                         *)

LEMMA RunsAreSteady ==
    ASSUME Inv, TypeOK', Operate \/ Transfer \/ CallSteps
    PROVE  Steady
<1>1. phase = "run" /\ TypeOK /\ UNCHANGED <<unpreferred, solutions>>
  BY RunSteps DEF Inv, verdict
<1>2. nextId \in Nat /\ nextId' \in Nat
  BY <1>1 DEF TypeOK, CountersOK
<1>3. CASE CallImport
  <2>1. Cardinality(Live) \in Nat
    BY <1>1, Ranks
  <2>2. nextId' = IF Cardinality(Live) > 1 THEN nextId + Cardinality(Live) ELSE nextId
    BY <1>3 DEF CallImport
  <2>3. hurried => hurried'
    BY <1>3 DEF CallImport
  <2>. QED
    BY <1>1, <1>2, <2>1, <2>2, <2>3 DEF Steady
<1>4. CASE Branch \/ Switch
  <2>1. Len(Here.choices) \in Nat
    BY <1>1, RunningFacts, LenProperties
  <2>2. \/ UNCHANGED nextId
        \/ nextId' = nextId + (IF Len(Here.choices) = 0 THEN 0 ELSE Len(Here.choices) - 1)
    BY <1>4 DEF Branch, Switch, Fork, NoFork
  <2>3. UNCHANGED hurried
    BY <1>4 DEF Branch, Switch, Exact
  <2>4. nextId <= nextId'
    BY <1>2, <2>1, <2>2
  <2>. QED
    BY <1>1, <1>2, <2>3, <2>4 DEF Steady
<1>5. CASE GoalArgument
  <2>1. (UNCHANGED nextId \/ nextId' = nextId + 1) /\ UNCHANGED hurried
    BY <1>5 DEF GoalArgument, NoFork, Exact
  <2>. QED
    BY <1>1, <1>2, <2>1 DEF Steady
<1>6. CASE Operate \/ ReturnToCaller \/ ReturnFromMain \/ AvoidArgument \/ CallFunction
           \/ CallElsewhere
  <2>1. UNCHANGED <<nextId, hurried>>
    BY <1>6 DEF Operate, Observe, Compute, Divide, AccessKnown, AccessSymbolic, Unsupported,
                Halt, ReturnToCaller, ReturnFromMain, AvoidArgument, CallFunction,
                CallElsewhere, NoFork, Exact
  <2>. QED
    BY <1>1, <1>2, <2>1 DEF Steady
<1>. QED
  BY <1>3, <1>4, <1>5, <1>6 DEF Transfer, CallSteps

\* An argument that may be an avoided message is assumed not to be before the next one
\* is looked at.
LEMMA AvoidArgumentShuns ==
    ASSUME Inv, Shunned, AvoidArgument
    PROVE  Shunned'
<1>1. /\ phase = "run" /\ run \in SymbolicState /\ TypeOK /\ handled \in Nat
      /\ Len(Here.avoidArgs) \in Nat /\ handled < Len(Here.avoidArgs)
  <2>1. phase = "run" /\ TypeOK /\ handled \in Nat
    BY DEF AvoidArgument, Running, Inv, TypeOK, QueueOK
  <2>. QED
    BY <2>1, RunningFacts, LenProperties DEF AvoidArgument, AvoidsLeft, Instruction
<1>. DEFINE avoided == Here.avoidArgs[handled + 1]
<1>2. ASSUME NEW s, NextArgument(s), s.at = run.at, s.data = run.data, s.cond \subseteq run.cond,
             \A i \in s.cond : run.data[i] \notin avoided
      PROVE  Shunned'
  <2>1. Here' = Here /\ run'.data = run.data /\ handled' = handled + 1 /\ run'.cond = s.cond
    BY <1>2 DEF NextArgument, Here
  <2>2. ASSUME NEW j \in 1..Len(Here.avoidArgs), NEW i \in s.cond, j <= handled + 1
        PROVE  run.data[i] \notin Here.avoidArgs[j]
    <3>1. CASE j <= handled
      BY <1>1, <1>2, <3>1 DEF Shunned
    <3>2. CASE j = handled + 1
      BY <1>2, <3>2
    <3>. QED
      BY <1>1, <2>2, <3>1, <3>2
  <2>. QED
    BY <2>1, <2>2 DEF Shunned
<1>3. CASE Never(run, avoided)
  <2>1. NextArgument(run)
    BY <1>3, AlwaysOrNever DEF AvoidArgument
  <2>2. \A i \in run.cond : run.data[i] \notin avoided
    BY <1>1, <1>3 DEF Never, Where, SymbolicState
  <2>. QED
    BY <1>2, <2>1, <2>2
<1>4. CASE ~ Never(run, avoided)
  <2>1. Stops("avoided") \/ NextArgument(Assume(run, Data \ avoided))
    BY <1>4 DEF AvoidArgument
  <2>2. CASE Stops("avoided")
    BY <2>2 DEF Stops, Yield, Shunned
  <2>3. CASE NextArgument(Assume(run, Data \ avoided))
    <3>. DEFINE rest == Assume(run, Data \ avoided)
    <3>1. /\ rest.at = run.at /\ rest.data = run.data /\ rest.cond \subseteq run.cond
          /\ \A i \in rest.cond : run.data[i] \notin avoided
      BY <1>1 DEF Assume, Where, SymbolicState
    <3>. QED
      BY <1>2, <2>3, <3>1
  <2>. QED
    BY <2>1, <2>2, <2>3
<1>. QED
  BY <1>3, <1>4

LEMMA GoalArgumentShuns ==
    ASSUME Inv, Shunned, GoalArgument
    PROVE  Shunned'
<1>1. /\ phase = "run" /\ run \in SymbolicState /\ handled = Len(Here.avoidArgs)
      /\ Len(Here.avoidArgs) \in Nat
  <2>1. phase = "run" /\ TypeOK
    BY DEF GoalArgument, Running, Inv
  <2>. QED
    BY <2>1, RunningFacts, LenProperties DEF GoalArgument, Instruction
<1>2. ASSUME phase' = "run"
      PROVE  Here' = Here /\ run'.data = run.data /\ run'.cond \subseteq run.cond
  <2>1. \/ NextArgument(run)
        \/ NextArgument(Assume(run, Data \ Here.goalArg))
        \/ Yield({}, <<run>>, {"goal"})
    BY DEF GoalArgument
  <2>2. ~ Yield({}, <<run>>, {"goal"})
    BY <1>2 DEF Yield
  <2>. QED
    BY <1>1, <2>1, <2>2 DEF NextArgument, Here, Assume, SymbolicState
<1>3. \A j \in 1..Len(Here.avoidArgs), i \in run.cond : run.data[i] \notin Here.avoidArgs[j]
  BY <1>1 DEF Shunned
<1>. QED
  BY <1>2, <1>3 DEF Shunned

LEMMA ShunnedKeeps ==
    ASSUME Inv, Shunned, [Next]_vars, TypeOK'
    PROVE  Shunned'
<1>1. ASSUME handled' = 0 PROVE Shunned'
  BY <1>1 DEF Shunned
<1>2. CASE Operate \/ Transfer \/ CallSteps
  BY <1>1, <1>2, RunSteps, AvoidArgumentShuns, GoalArgumentShuns
<1>3. CASE Explore \/ Solve
  <2>1. phase # "run" /\ UNCHANGED handled
    BY <1>3 DEF Explore, OutOfStates, OutOfSteps, OutOfTime, Pop, LoopEnds, Exhaust, Solve,
                Resume, TryReached, PickEnds, TryUnpreferred, Conclude, Finding, engine, record
  <2>. QED
    BY <1>1, <2>1 DEF Inv, BetweenRuns
<1>4. CASE UNCHANGED vars
  BY <1>4 DEF vars, Shunned, Here
<1>. QED
  BY <1>2, <1>3, <1>4 DEF Next, Finished

-----------------------------------------------------------------------------
(* The theorems.                                                            *)

LEMMA InitGood == Init => Good /\ Shunned
<1>. SUFFICES ASSUME Init PROVE Good /\ Shunned
  OBVIOUS
<1>1. /\ pending = {InitialState} /\ split = <<>> /\ reached = <<>> /\ unpreferred = <<>>
      /\ solutions = {} /\ nextId = 1 /\ phase = "loop"
  BY DEF Init
<1>2. Current = {} /\ Waiting = {InitialState} /\ Alive = {InitialState}
  BY <1>1, EmptySeq DEF Current, Waiting, Alive
<1>3. InitialState.id = 1 /\ InitialState.at = Start /\ InitialState.stack = <<>>
      /\ InitialState.cond = Inputs /\ InitialState.data = InitialData
  BY DEF InitialState
<1>4. Order
  BY <1>1, <1>2, <1>3, EmptySeq DEF Order, DistinctIds
<1>5. Truth
  BY <1>1, <1>2, <1>3, EmptySeq DEF Truth, Reaching
<1>. QED
  BY <1>1, <1>4, <1>5 DEF Good, Shunned

LEMMA NextGood == Inv /\ Inv' /\ Good /\ Shunned /\ [Next]_vars => Good' /\ Shunned'
<1>. SUFFICES ASSUME Inv, Inv', Good, Shunned, [Next]_vars PROVE Good' /\ Shunned'
  OBVIOUS
<1>1. TypeOK'
  BY DEF Inv
<1>2. Shunned'
  BY <1>1, ShunnedKeeps
<1>3. CASE Operate \/ Transfer \/ CallSteps
  <2>1. Steady
    BY <1>1, <1>3, RunsAreSteady
  <2>. QED
    BY <1>2, <1>3, <2>1, OperateGood, TransferGood, CallGood
<1>4. CASE Explore \/ Solve \/ UNCHANGED vars
  BY <1>2, <1>4, ExploreGood, SolveGood
<1>. QED
  BY <1>2, <1>3, <1>4 DEF Next, Finished

LEMMA GoodInv == Spec => []Good
BY InitGood, NextGood, SearchInv, PTL DEF Spec

\* The states that wait, the one that runs and the ones split off it never share a number:
\* the heap is never asked to compare two states whose keys tie (heapq on the tuples of
\* Executor._pending).
THEOREM NumbersDiffer == Spec => []DistinctIds
<1>1. Good => DistinctIds
  BY DEF Good, Order
<1>. QED
  BY <1>1, GoodInv, PTL

\* Goal states come out fewest decisions first, whatever the program and the solver: no
\* state that waits is shallower than one Exploration.reached holds, unless a deferred
\* outcome of a call went on at once.
THEOREM OrderKept == Spec => []FewestDecisionsFirst
<1>1. Good => FewestDecisionsFirst
  BY DEF Good, Order, FewestDecisionsFirst, Alive
<1>. QED
  BY <1>1, GoodInv, PTL

\* Whatever is reported as a solution reaches the goal in the program as it is analysed,
\* and avoids what it must: _solutions takes its models from goal states only, and every
\* input a goal state still allows has run there.
THEOREM SolutionsSound == Spec => []SolutionsReachGoal
<1>1. Good => SolutionsReachGoal
  BY DEF Good, Truth, SolutionsReachGoal
<1>. QED
  BY <1>1, GoodInv, PTL
=============================================================================
