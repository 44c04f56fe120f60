--------------------------- MODULE ReachabilityProofs ---------------------------
(***************************************************************************)
(* Pruning is sound: a state can_reach has denied never executes a goal    *)
(* instruction; and the fixpoint it asks is the least one.                 *)
(*                                                                         *)
(* The invariant follows the two fixpoints.  While a closure runs, every   *)
(* block that has left the worklist has its predecessors in the result     *)
(* (Closing).  A pass over the functions that has changed nothing so far   *)
(* has left every function it passed with all its seeds (PassSoFar), so    *)
(* when the walk begins the stored sets are closed and contain their seeds *)
(* (Sound), and then no step of the walk can turn a no into a yes.         *)
(* What is stored leads to the goal (Led): whatever a closure starts from  *)
(* or adds is a node before one that does, and those are all in Leading,   *)
(* which runs out of nodes to add before its rounds end (LeadingComplete). *)
(***************************************************************************)
EXTENDS Reachability, TLAPS, SequenceTheorems, FiniteSetTheorems, WellFoundedInduction

Seeded(kind, f) ==
    /\ kind = "returns" => Returns(f) \subseteq reached
    /\ kind = "goal" => Touching(reaches, f) \subseteq reached

Closed(f, S) == \A b \in S : Predecessors(f, b) \subseteq S

Closing ==
    phase # "walk" =>
        /\ \A b \in reached \ work : Predecessors(function, b) \subseteq reached
        /\ Seeded(phase, function)

ReturnsKept ==
    \A f \in Function : (phase = "returns" => f < function) =>
        Returns(f) \subseteq returns[f] /\ Closed(f, returns[f])

ReachesClosed == \A f \in Function : Closed(f, reaches[f])

PassSoFar ==
    phase = "goal" /\ ~ changed =>
        \A f \in Function : f < function => Touching(reaches, f) \subseteq reaches[f]

Fixpoint == phase = "walk" => \A f \in Function : Touching(reaches, f) \subseteq reaches[f]

Final == pruned => phase = "walk" /\ ~ CanReach(frames)

Inv == TypeOK /\ Closing /\ ReturnsKept /\ ReachesClosed /\ PassSoFar /\ Fixpoint /\ Final

-----------------------------------------------------------------------------
(* The program and the walk are typed.                                      *)

LEMMA BlockType ==
    ASSUME NEW f \in Function, NEW b \in Blocks
    PROVE  /\ Program[f][b] \in Block
           /\ Program[f][b].body \in Seq(Position)
           /\ Program[f][b].to \subseteq Blocks
           /\ Program[f][b].to # {} => Program[f][b].ends \in {"goto", "table"}
BY ReachabilityAssumption DEF Block

\* A frame whose control moves is a frame of the same function.
LEMMA FrameMoves ==
    ASSUME NEW x \in Frame, NEW n \in Nat \ {0}
    PROVE  /\ [x EXCEPT !.position = n] \in Frame
           /\ [x EXCEPT !.position = n].function = x.function
           /\ [x EXCEPT !.position = n].block = x.block
BY DEF Frame

LEMMA FrameStarts ==
    ASSUME NEW f \in Function, NEW b \in Blocks
    PROVE  StartOf(f, b) \in Frame /\ StartOf(f, b).function = f /\ StartOf(f, b).block = b
BY DEF Frame, StartOf

\* Where the walk stands.
LEMMA WalkFacts ==
    ASSUME TypeOK, Walking
    PROVE  /\ Top \in Frame /\ Tail(frames) \in Seq(Frame)
           /\ frames = <<Top>> \o Tail(frames)
           /\ Here.body \in Seq(Position) /\ Here.to \subseteq Blocks
           /\ Here.to # {} => Here.ends \in {"goto", "table"}
           /\ Top.function \in Function /\ Top.block \in Blocks
<1>1. Top \in Frame /\ Tail(frames) \in Seq(Frame) /\ frames = <<Top>> \o Tail(frames)
  BY HeadTailProperties, ConcatProperties DEF TypeOK, Walking, Top
<1>2. Top.function \in Function /\ Top.block \in Blocks
  BY <1>1 DEF Frame
<1>3. Here.body \in Seq(Position) /\ Here.to \subseteq Blocks
      /\ (Here.to # {} => Here.ends \in {"goto", "table"})
  BY <1>2, BlockType DEF Here
<1>. QED
  BY <1>1, <1>2, <1>3

\* The position the walk is at, inside a block.
LEMMA InsideFacts ==
    ASSUME TypeOK, Inside
    PROVE  /\ Top.position + 1 \in Nat \ {0}
           /\ Top.position \in 1..Len(Here.body)
           /\ Here.body[Top.position] \in Position
<1>1. Top.position \in Nat \ {0}
  BY WalkFacts DEF Inside, Frame
<1>2. Here.body \in Seq(Position) /\ Top.position <= Len(Here.body)
  BY WalkFacts DEF Inside
<1>3. Len(Here.body) \in Nat
  BY <1>2, LenProperties
<1>4. Top.position \in 1..Len(Here.body)
  BY <1>1, <1>2, <1>3
<1>. QED
  BY <1>1, <1>2, <1>4, ElementOfSeq

-----------------------------------------------------------------------------
(* can_reach, frame by frame.                                               *)

\* The innermost frame reaches the goal itself, or returns to a frame that does.
LEMMA CanReachTop ==
    ASSUME NEW x \in Frame, NEW rest \in Seq(Frame)
    PROVE  CanReach(<<x>> \o rest) <=>
               \/ x.block \in reaches[x.function]
               \/ x.block \in returns[x.function] /\ CanReach(rest)
<1>. DEFINE s == <<x>> \o rest
<1>1. /\ Len(rest) \in Nat /\ Len(s) = Len(rest) + 1
      /\ s[1] = x /\ \A k \in 1..Len(rest) : s[k + 1] = rest[k]
  BY LenProperties
<1>2. ASSUME CanReach(s), x.block \notin reaches[x.function]
      PROVE  x.block \in returns[x.function] /\ CanReach(rest)
  <2>1. PICK d \in 1..Len(s) : /\ s[d].block \in reaches[s[d].function]
                               /\ \A e \in 1..(d - 1) : s[e].block \in returns[s[e].function]
    BY <1>2 DEF CanReach
  <2>2. d # 1
    BY <1>1, <1>2, <2>1
  <2>3. d - 1 \in 1..Len(rest) /\ s[d] = rest[d - 1] /\ 1 \in 1..(d - 1)
    BY <1>1, <2>1, <2>2
  <2>5. ASSUME NEW e \in 1..((d - 1) - 1)
        PROVE  rest[e].block \in returns[rest[e].function]
    <3>1. e + 1 \in 1..(d - 1) /\ e \in 1..Len(rest)
      BY <1>1, <2>1, <2>3
    <3>. QED
      BY <1>1, <2>1, <3>1
  <2>6. rest[d - 1].block \in reaches[rest[d - 1].function]
    BY <2>1, <2>3
  <2>. QED
    BY <1>1, <2>1, <2>3, <2>5, <2>6 DEF CanReach
<1>3. ASSUME x.block \in reaches[x.function]
      PROVE  CanReach(s)
  BY <1>1, <1>3 DEF CanReach
<1>4. ASSUME x.block \in returns[x.function], CanReach(rest)
      PROVE  CanReach(s)
  <2>1. PICK d \in 1..Len(rest) :
           /\ rest[d].block \in reaches[rest[d].function]
           /\ \A e \in 1..(d - 1) : rest[e].block \in returns[rest[e].function]
    BY <1>4 DEF CanReach
  <2>2. d + 1 \in 1..Len(s) /\ s[d + 1].block \in reaches[s[d + 1].function]
    BY <1>1, <2>1
  <2>3. ASSUME NEW e \in 1..((d + 1) - 1)
        PROVE  s[e].block \in returns[s[e].function]
    <3>1. CASE e = 1
      BY <1>1, <1>4, <3>1
    <3>2. CASE e # 1
      <4>1. e - 1 \in 1..(d - 1) /\ e - 1 \in 1..Len(rest) /\ (e - 1) + 1 = e
        BY <1>1, <2>1, <2>3, <3>2
      <4>2. s[e] = rest[e - 1]
        BY <1>1, <4>1
      <4>. QED
        BY <2>1, <4>1, <4>2
    <3>. QED
      BY <3>1, <3>2
  <2>. QED
    BY <2>2, <2>3 DEF CanReach
<1>. QED
  BY <1>2, <1>3, <1>4

-----------------------------------------------------------------------------
(* The analyses preserve the invariant.                                     *)

LEMMA SeedsAreBlocks ==
    ASSUME NEW known, NEW f
    PROVE  Returns(f) \subseteq Blocks /\ Touching(known, f) \subseteq Blocks
BY DEF Returns, Touching

LEMMA PropagateStep ==
    ASSUME Inv, Propagate
    PROVE  Inv'
<1>. PICK b \in work : Visit(b)
  BY DEF Propagate
<1>1. UNCHANGED <<phase, function, changed, returns, reaches, frames, pruned>> /\ phase # "walk"
  BY DEF Propagate, walk
<1>. DEFINE new == Predecessors(function, b) \ reached
<1>2. reached' = reached \cup new /\ work' = (work \ {b}) \cup new /\ new \subseteq Blocks
  BY DEF Visit, Predecessors
<1>3. TypeOK'
  BY <1>1, <1>2 DEF Inv, TypeOK
<1>4. Closing'
  <2>1. Seeded(phase, function)'
    BY <1>1, <1>2 DEF Inv, Closing, Seeded, Touching, Touches, Returns
  <2>2. ASSUME NEW c \in reached' \ work'
        PROVE  Predecessors(function, c) \subseteq reached'
    <3>1. c = b \/ c \in reached \ work
      BY <1>2, <2>2
    <3>. QED
      BY <1>1, <1>2, <3>1 DEF Inv, Closing
  <2>. QED
    BY <1>1, <2>1, <2>2 DEF Closing, Predecessors
<1>5. ReturnsKept' /\ ReachesClosed' /\ PassSoFar' /\ Fixpoint'
  BY <1>1 DEF Inv, ReturnsKept, ReachesClosed, PassSoFar, Fixpoint, Closed, Predecessors,
              Touching, Touches, Returns
<1>6. Final'
  BY <1>1 DEF Inv, Final
<1>. QED
  BY <1>3, <1>4, <1>5, <1>6 DEF Inv

LEMMA KeepReturnsStep ==
    ASSUME Inv, KeepReturns
    PROVE  Inv'
<1>1. /\ phase = "returns" /\ work = {}
      /\ UNCHANGED <<changed, reaches, frames, pruned>>
      /\ returns' = [returns EXCEPT ![function] = reached]
      /\ TypeOK /\ ~ pruned
  BY DEF KeepReturns, walk, Inv, Final
<1>2. Returns(function) \subseteq reached /\ Closed(function, reached)
  BY <1>1 DEF Inv, Closing, Seeded, Closed
<1>3. Functions \in Nat \ {0} /\ function \in 1..Functions
  BY <1>1, ReachabilityAssumption DEF TypeOK, Function
<1>4. \A f \in Function : f < function \/ f = function =>
          Returns(f) \subseteq returns'[f] /\ Closed(f, returns'[f])
  BY <1>1, <1>2, <1>3 DEF Inv, ReturnsKept, TypeOK
<1>5. /\ ReachesClosed' /\ Final'
  BY <1>1 DEF Inv, ReachesClosed, Final, Closed, Predecessors
<1>6. CASE function < Functions
  <2>1. /\ phase' = "returns" /\ function' = function + 1
        /\ reached' = Returns(function + 1) /\ work' = reached'
    BY <1>1, <1>6 DEF KeepReturns, Backward
  <2>2. function' \in Function
    BY <1>3, <1>6, <2>1 DEF Function
  <2>3. TypeOK'
    BY <1>1, <2>1, <2>2, SeedsAreBlocks DEF TypeOK
  <2>4. Closing'
    BY <2>1 DEF Closing, Seeded, Returns
  <2>5. ReturnsKept'
    BY <1>3, <1>4, <2>1 DEF ReturnsKept, Closed, Predecessors, Returns, Function
  <2>6. PassSoFar' /\ Fixpoint'
    BY <2>1 DEF PassSoFar, Fixpoint
  <2>. QED
    BY <1>5, <2>3, <2>4, <2>5, <2>6 DEF Inv
<1>7. CASE ~ (function < Functions)
  <2>1. /\ phase' = "goal" /\ function' = 1
        /\ reached' = Touching(reaches, 1) /\ work' = reached'
    BY <1>1, <1>7 DEF KeepReturns, Backward
  <2>2. function' \in Function
    BY <1>3, <2>1 DEF Function
  <2>3. TypeOK'
    BY <1>1, <2>1, <2>2, SeedsAreBlocks DEF TypeOK
  <2>4. Closing'
    BY <1>1, <2>1 DEF Closing, Seeded, Touching, Touches
  <2>5. ReturnsKept'
    BY <1>3, <1>4, <1>7, <2>1 DEF ReturnsKept, Closed, Predecessors, Returns, Function
  <2>6. PassSoFar' /\ Fixpoint'
    BY <2>1 DEF PassSoFar, Fixpoint, Function
  <2>. QED
    BY <1>5, <2>3, <2>4, <2>5, <2>6 DEF Inv
<1>. QED
  BY <1>6, <1>7

LEMMA KeepReachesStep ==
    ASSUME Inv, KeepReaches
    PROVE  Inv'
<1>. DEFINE known == [reaches EXCEPT ![function] = reached]
            next == IF function < Functions THEN function + 1 ELSE 1
<1>1. /\ phase = "goal" /\ work = {} /\ TypeOK /\ ~ pruned
      /\ UNCHANGED <<returns, frames, pruned>>
      /\ reaches' = known /\ function' = next
      /\ reached' = Touching(known, next) /\ work' = reached'
      /\ changed' = (Progress /\ function < Functions)
      /\ phase' = IF function < Functions \/ Progress THEN "goal" ELSE "walk"
  BY DEF KeepReaches, Backward, walk, Inv, Final
<1>2. Touching(reaches, function) \subseteq reached /\ Closed(function, reached)
  BY <1>1 DEF Inv, Closing, Seeded, Closed
<1>3. Functions \in Nat \ {0} /\ function \in 1..Functions /\ next \in Function
  BY <1>1, ReachabilityAssumption DEF TypeOK, Function
<1>4. TypeOK'
  <2>1. known \in [Function -> SUBSET Blocks]
    BY <1>1 DEF TypeOK
  <2>2. changed' \in BOOLEAN /\ phase' \in {"goal", "walk"}
    BY <1>1 DEF Progress, TypeOK
  <2>. QED
    BY <1>1, <1>3, <2>1, <2>2, SeedsAreBlocks DEF TypeOK
<1>5. Closing'
  <2>1. Seeded(phase, function)'
    BY <1>1 DEF Seeded, Touching, Touches
  <2>. QED
    BY <1>1, <2>1 DEF Closing
<1>6. ReturnsKept' /\ Final'
  BY <1>1 DEF Inv, ReturnsKept, Final, Closed, Predecessors, Returns
<1>7. ReachesClosed'
  BY <1>1, <1>2 DEF Inv, ReachesClosed, Closed, Predecessors, TypeOK
\* Where nothing has changed, what was stored is what was there.
<1>8. ASSUME ~ Progress
      PROVE  /\ known = reaches
             /\ \A f \in Function : f < function \/ f = function =>
                    Touching(reaches, f) \subseteq reaches[f]
  <2>1. reached = reaches[function] /\ ~ changed
    BY <1>8 DEF Progress
  <2>2. known = reaches
    BY <1>1, <2>1 DEF TypeOK
  <2>. QED
    BY <1>1, <1>2, <2>1, <2>2 DEF Inv, PassSoFar
<1>9. PassSoFar'
  <2>1. ASSUME phase' = "goal", ~ changed', NEW f \in Function, f < function'
        PROVE  Touching(known, f) \subseteq known[f]
    <3>1. CASE function < Functions
      <4>1. ~ Progress /\ function' = function + 1
        BY <1>1, <2>1, <3>1
      <4>2. f < function \/ f = function
        BY <1>3, <2>1, <4>1 DEF Function
      <4>. QED
        BY <1>8, <4>1, <4>2
    <3>2. CASE ~ (function < Functions)
      BY <1>1, <2>1, <3>2 DEF Function
    <3>. QED
      BY <3>1, <3>2
  <2>. QED
    BY <1>1, <2>1 DEF PassSoFar, Touching, Touches
<1>10. Fixpoint'
  <2>1. ASSUME phase' = "walk", NEW f \in Function
        PROVE  Touching(known, f) \subseteq known[f]
    <3>1. ~ Progress /\ ~ (function < Functions)
      BY <1>1, <2>1
    <3>2. f < function \/ f = function
      BY <1>3, <3>1 DEF Function
    <3>. QED
      BY <1>8, <3>1, <3>2
  <2>. QED
    BY <1>1, <2>1 DEF Fixpoint, Touching, Touches
<1>. QED
  BY <1>4, <1>5, <1>6, <1>7, <1>9, <1>10 DEF Inv

-----------------------------------------------------------------------------
(* Once the sets are stored, no step of the walk turns a no into a yes.     *)

\* What the stored sets promise of one block.
LEMMA Sound ==
    ASSUME Inv, phase = "walk", NEW f \in Function, NEW b \in Blocks
    PROVE  /\ \A k \in 1..Len(Program[f][b].body) :
                  Touches(reaches, Program[f][b].body[k]) => b \in reaches[f]
           /\ Program[f][b].ends = "unresolved" => b \in reaches[f]
           /\ Program[f][b].ends \in {"return", "tail"} => b \in returns[f]
           /\ \A c \in Program[f][b].to :
                  (c \in reaches[f] => b \in reaches[f]) /\ (c \in returns[f] => b \in returns[f])
<1>1. Touching(reaches, f) \subseteq reaches[f] /\ Returns(f) \subseteq returns[f]
  BY DEF Inv, Fixpoint, ReturnsKept
<1>2. Closed(f, reaches[f]) /\ Closed(f, returns[f])
  BY DEF Inv, ReachesClosed, ReturnsKept
<1>3. b \in Touching(reaches, f) => b \in reaches[f]
  BY <1>1
<1>4. b \in Returns(f) => b \in returns[f]
  BY <1>1
<1>. QED
  BY <1>2, <1>3, <1>4 DEF Touching, Returns, Closed, Predecessors

\* The innermost frame of the walk, and what can_reach makes of it.
LEMMA Asked ==
    ASSUME TypeOK, Walking
    PROVE  CanReach(frames) <=>
               \/ Top.block \in reaches[Top.function]
               \/ Top.block \in returns[Top.function] /\ CanReach(Tail(frames))
BY WalkFacts, CanReachTop

LEMMA MovesStep ==
    ASSUME Inv, Walking, NEW stack \in Seq(Frame),
           CanReach(stack) => CanReach(frames), Moves(stack)
    PROVE  Inv' /\ (~ CanReach(frames) => ~ CanReach(frames)')
<1>1. /\ frames' = stack /\ pruned' = (pruned \/ ~ CanReach(stack)) /\ phase = "walk"
      /\ UNCHANGED <<phase, function, work, reached, changed, returns, reaches>>
  BY DEF Moves, solver, Walking
<1>2. CanReach(frames)' <=> CanReach(stack)
  BY <1>1 DEF CanReach
<1>3. TypeOK'
  BY <1>1 DEF Inv, TypeOK
<1>4. Closing' /\ ReturnsKept' /\ ReachesClosed' /\ PassSoFar' /\ Fixpoint'
  BY <1>1 DEF Inv, Closing, ReturnsKept, ReachesClosed, PassSoFar, Fixpoint, Closed,
              Predecessors, Touching, Touches, Returns
<1>5. Final'
  BY <1>1, <1>2 DEF Inv, Final
<1>. QED
  BY <1>2, <1>3, <1>4, <1>5 DEF Inv

\* The innermost frame moves to `x`; a no would become a yes only if `x` reached the goal,
\* or returned, where the frame did not.
LEMMA TopMoves ==
    ASSUME Inv, Walking, NEW x \in Frame,
           x.block \in reaches[x.function] => Top.block \in reaches[Top.function],
           x.block \in returns[x.function] => Top.block \in returns[Top.function],
           Moves(<<x>> \o Tail(frames))
    PROVE  Inv' /\ (~ CanReach(frames) => ~ CanReach(frames)')
<1>1. TypeOK /\ Tail(frames) \in Seq(Frame)
  BY WalkFacts DEF Inv
<1>2. <<x>> \o Tail(frames) \in Seq(Frame)
  BY <1>1, ConcatProperties
<1>3. CanReach(<<x>> \o Tail(frames)) => CanReach(frames)
  BY <1>1, CanReachTop, Asked
<1>. QED
  BY <1>2, <1>3, MovesStep

LEMMA AdvanceStep ==
    ASSUME Inv, Advance
    PROVE  Inv' /\ (~ CanReach(frames) => ~ CanReach(frames)')
<1>1. Walking /\ Inside /\ TypeOK
  BY DEF Advance, Inside, Inv
<1>. DEFINE x == [Top EXCEPT !.position = Top.position + 1]
<1>2. x \in Frame /\ x.function = Top.function /\ x.block = Top.block
  BY <1>1, WalkFacts, InsideFacts, FrameMoves
<1>3. Moves(<<x>> \o Tail(frames))
  BY DEF Advance, At
<1>. HIDE DEF x
<1>. QED
  BY <1>1, <1>2, <1>3, TopMoves

LEMMA EnterStep ==
    ASSUME Inv, Enter
    PROVE  Inv' /\ (~ CanReach(frames) => ~ CanReach(frames)')
<1>1. Walking /\ Inside /\ TypeOK /\ phase = "walk"
  BY DEF Enter, Inside, Inv, Walking
<1>. PICK f \in Function :
        /\ \/ Here.body[Top.position].target = "function" /\ f = Here.body[Top.position].callee
           \/ Here.body[Top.position].target = "unresolved"
        /\ Moves(<<StartOf(f, 0)>> \o At(Top.position + 1))
  BY DEF Enter
<1>. DEFINE x == [Top EXCEPT !.position = Top.position + 1]
            callee == StartOf(f, 0)
            caller == <<x>> \o Tail(frames)
<1>. callee \in Frame /\ callee.function = f /\ callee.block = 0
  BY ReachabilityAssumption, FrameStarts
<1>. HIDE DEF callee
<1>2. /\ x \in Frame /\ Tail(frames) \in Seq(Frame)
      /\ x.function = Top.function /\ x.block = Top.block
      /\ Top.function \in Function /\ Top.block \in Blocks
  BY <1>1, WalkFacts, InsideFacts, FrameMoves
<1>3. caller \in Seq(Frame) /\ <<callee>> \o caller \in Seq(Frame)
  BY <1>2, ConcatProperties
\* The callee's entry reaches the goal only if the calling block does.
<1>4. 0 \in reaches[f] => Top.block \in reaches[Top.function]
  <2>1. 0 \in reaches[f] => Touches(reaches, Here.body[Top.position])
    BY DEF Touches
  <2>. QED
    BY <1>1, <1>2, <2>1, InsideFacts, Sound DEF Here
<1>5. CanReach(<<callee>> \o caller) => CanReach(frames)
  <2>1. CanReach(<<callee>> \o caller) => 0 \in reaches[f] \/ CanReach(caller)
    BY <1>2, <1>3, CanReachTop
  <2>2. CanReach(caller) => CanReach(frames)
    BY <1>1, <1>2, CanReachTop, Asked
  <2>. QED
    BY <1>1, <1>4, <2>1, <2>2, Asked
<1>6. Moves(<<callee>> \o caller)
  BY DEF At, callee
<1>. HIDE DEF caller
<1>. QED
  BY <1>1, <1>3, <1>5, <1>6, MovesStep

LEMMA TransferStep ==
    ASSUME Inv, Transfer
    PROVE  Inv' /\ (~ CanReach(frames) => ~ CanReach(frames)')
<1>1. Walking /\ TypeOK /\ phase = "walk"
  BY DEF Transfer, AtEnd, Inv, Walking
<1>2. PICK b \in Blocks :
         /\ b \in Here.to
         /\ Moves(<<StartOf(Top.function, b)>> \o Tail(frames))
  BY <1>1, WalkFacts DEF Transfer
<1>. DEFINE x == StartOf(Top.function, b)
<1>3. Top \in Frame /\ Top.function \in Function /\ Top.block \in Blocks
  BY <1>1, WalkFacts
<1>4. x \in Frame /\ x.function = Top.function /\ x.block = b
  BY <1>3, FrameStarts
<1>5. Moves(<<x>> \o Tail(frames))
  BY <1>2
<1>. HIDE DEF x
<1>6. /\ b \in reaches[Top.function] => Top.block \in reaches[Top.function]
      /\ b \in returns[Top.function] => Top.block \in returns[Top.function]
  BY <1>1, <1>2, <1>3, Sound DEF Here
<1>. QED
  BY <1>1, <1>4, <1>5, <1>6, TopMoves

LEMMA JumpStep ==
    ASSUME Inv, Jump
    PROVE  Inv' /\ (~ CanReach(frames) => ~ CanReach(frames)')
<1>1. Walking /\ TypeOK /\ phase = "walk" /\ Here.ends = "unresolved"
  BY DEF Jump, AtEnd, Inv, Walking
<1>2. PICK b \in Blocks : Moves(<<StartOf(Top.function, b)>> \o Tail(frames))
  BY DEF Jump
<1>. DEFINE x == StartOf(Top.function, b)
<1>3. Top \in Frame /\ Top.function \in Function /\ Top.block \in Blocks
  BY <1>1, WalkFacts
<1>4. x \in Frame /\ Moves(<<x>> \o Tail(frames))
  BY <1>2, <1>3, FrameStarts
<1>. HIDE DEF x
<1>5. <<x>> \o Tail(frames) \in Seq(Frame)
  BY <1>1, <1>4, WalkFacts, ConcatProperties
<1>6. CanReach(frames)
  BY <1>1, <1>3, Asked, Sound DEF Here
<1>. QED
  BY <1>1, <1>4, <1>5, <1>6, MovesStep

LEMMA LeaveStep ==
    ASSUME Inv, Leave
    PROVE  Inv' /\ (~ CanReach(frames) => ~ CanReach(frames)')
<1>1. Walking /\ TypeOK /\ phase = "walk" /\ Here.ends \in {"return", "tail"}
  BY DEF Leave, AtEnd, Inv, Walking
<1>2. Tail(frames) \in Seq(Frame) /\ Top.function \in Function /\ Top.block \in Blocks
  BY <1>1, WalkFacts DEF Frame
<1>3. CanReach(Tail(frames)) => CanReach(frames)
  BY <1>1, <1>2, Asked, Sound DEF Here
<1>. QED
  BY <1>1, <1>2, <1>3, MovesStep DEF Leave

-----------------------------------------------------------------------------

LEMMA InitInv ==
    ASSUME Init
    PROVE  Inv
<1>1. 1 \in Function /\ Functions \in Nat \ {0}
  BY ReachabilityAssumption DEF Function
<1>2. <<StartOf(Main, 0)>> \in Seq(Frame)
  BY ReachabilityAssumption, FrameStarts
<1>3. TypeOK
  BY <1>1, <1>2, SeedsAreBlocks DEF Init, TypeOK
<1>4. Closing /\ ReturnsKept
  BY <1>1 DEF Init, Closing, Seeded, ReturnsKept, Function
<1>5. ReachesClosed /\ PassSoFar /\ Fixpoint /\ Final
  BY DEF Init, ReachesClosed, Closed, PassSoFar, Fixpoint, Final
<1>. QED
  BY <1>3, <1>4, <1>5 DEF Inv

LEMMA StutterInv ==
    ASSUME Inv, UNCHANGED vars
    PROVE  Inv' /\ (~ CanReach(frames) => ~ CanReach(frames)')
BY DEF vars, solver, walk, Inv, TypeOK, Closing, Seeded, ReturnsKept, ReachesClosed, PassSoFar,
       Fixpoint, Final, CanReach, Closed, Predecessors, Touching, Touches, Returns

\* One step of either part.
LEMMA Step ==
    ASSUME Inv, [Next]_vars
    PROVE  Inv' /\ (phase = "walk" /\ ~ CanReach(frames) => ~ CanReach(frames)')
<1>1. CASE Propagate
  BY <1>1, PropagateStep DEF Propagate
<1>2. CASE KeepReturns
  BY <1>2, KeepReturnsStep DEF KeepReturns
<1>3. CASE KeepReaches
  BY <1>3, KeepReachesStep DEF KeepReaches
<1>4. CASE Walk
  BY <1>4, AdvanceStep, EnterStep, TransferStep, JumpStep, LeaveStep DEF Walk
<1>5. CASE UNCHANGED vars
  BY <1>5, StutterInv
<1>. QED
  BY <1>1, <1>2, <1>3, <1>4, <1>5 DEF Next, Solve

LEMMA AlwaysInv == Spec => []Inv
<1>1. Init => Inv
  BY InitInv
<1>2. Inv /\ [Next]_vars => Inv'
  BY Step
<1>. QED
  BY <1>1, <1>2, PTL DEF Spec

\* A goal instruction is only ever executed where can_reach says yes.
LEMMA GoalIsReachable ==
    ASSUME Inv, phase = "walk", AtGoal
    PROVE  CanReach(frames)
<1>1. Walking /\ Inside /\ TypeOK
  BY DEF AtGoal, Inside, Inv
<1>2. Top.function \in Function /\ Top.block \in Blocks
  BY <1>1, WalkFacts DEF Frame
<1>3. Touches(reaches, Here.body[Top.position])
  BY DEF AtGoal, Touches
<1>. QED
  BY <1>1, <1>2, <1>3, InsideFacts, Sound, Asked DEF Here

\* The state of the analyses and of the walk is well typed.
THEOREM TypeCorrect == Spec => []TypeOK
BY AlwaysInv, PTL DEF Inv

\* Pruning is sound: a state GoalReachability.can_reach has denied, whatever calls,
\* returns, tail calls and jumps it still makes, never executes a goal instruction.
THEOREM PruningSound == Spec => []PrunedNeverReachGoal
<1>1. Inv => PrunedNeverReachGoal
  BY GoalIsReachable DEF Inv, Final, PrunedNeverReachGoal
<1>. QED
  BY <1>1, AlwaysInv, PTL

\* The answer no is final: it does not depend on which fork of a path it is asked at.
THEOREM DenialStays == Spec => DenialIsFinal
<1>1. Inv /\ [Next]_vars => [phase = "walk" /\ ~ CanReach(frames) => ~ CanReach(frames)']_vars
  BY Step
<1>. QED
  BY <1>1, AlwaysInv, PTL DEF Spec, DenialIsFinal

-----------------------------------------------------------------------------
(* The fixpoint is the least one.                                           *)

\* A set of numbers that is not empty has a least one.
LEMMA LeastNumber ==
    ASSUME NEW T, T \subseteq Nat, T # {}
    PROVE  \E x \in T : \A y \in T : x <= y
<1> DEFINE R == {p \in Nat \X Nat : p[1] < p[2]}
<1>1. IsWellFoundedOn(R, Nat)
  BY NatLessThanWellFounded DEF OpToRel
<1>2. \E x \in T : \A y \in T : <<y, x>> \notin R
  <2>. HIDE DEF R
  <2>. QED
    BY <1>1, WFMin
<1>3. \A x, y \in T : <<y, x>> \notin R => x <= y
  OBVIOUS
<1>. QED
  BY <1>2, <1>3

Sources == {n \in Nodes : AtOnce(n)}
Onwards(S) == UNION {{n} \cup Before(n) : n \in S}

\* The recursion of Leading, up to n.
Within(n, within) ==
    within = [k \in 0..n |-> IF k = 0 THEN Sources ELSE Onwards(within[k - 1])]

LEMMA WithinExists ==
    ASSUME NEW n \in Nat
    PROVE  \E within : Within(n, within)
<1>. DEFINE Bad == {m \in Nat : ~ \E within : Within(m, within)}
<1>1. SUFFICES ASSUME Bad # {} PROVE FALSE
  OBVIOUS
<1>2. PICK m \in Bad : \A k \in Bad : m <= k
  <2>1. Bad \subseteq Nat
    OBVIOUS
  <2>. HIDE DEF Bad
  <2>. QED
    BY <1>1, <2>1, LeastNumber
<1>3. CASE m = 0
  <2>. DEFINE f == [k \in 0..0 |-> Sources]
  <2>1. Within(0, f)
    BY DEF Within
  <2>. QED
    BY <1>3, <2>1
<1>4. CASE m # 0
  <2>1. m - 1 \in Nat /\ m - 1 \notin Bad
    BY <1>2, <1>4
  <2>2. PICK f : Within(m - 1, f)
    BY <2>1
  <2>. DEFINE g == [k \in 0..m |-> IF k < m THEN f[k] ELSE Onwards(f[k - 1])]
  <2>3. \A k \in 0..m : g[k] = IF k = 0 THEN Sources ELSE Onwards(g[k - 1])
    <3>1. \A k \in 0..(m - 1) : f[k] = IF k = 0 THEN Sources ELSE Onwards(f[k - 1])
      BY <2>2 DEF Within
    <3>. QED
      BY <3>1, <1>4
  <2>4. Within(m, g)
    BY <2>3 DEF Within
  <2>. QED
    BY <2>4
<1>. QED
  BY <1>3, <1>4

LEMMA LeadingIs ==
    ASSUME Cardinality(Nodes) \in Nat
    PROVE  \E within : Within(Cardinality(Nodes), within) /\ Leading = within[Cardinality(Nodes)]
<1>. DEFINE Rec(f) == f = [k \in 0..Cardinality(Nodes) |->
                             IF k = 0 THEN {n \in Nodes : AtOnce(n)}
                             ELSE UNION {{n} \cup Before(n) : n \in f[k - 1]}]
<1>1. \A f : Within(Cardinality(Nodes), f) <=> Rec(f)
  BY DEF Within, Sources, Onwards
<1>2. \E f : Rec(f)
  <2>. HIDE DEF Rec
  <2>. QED
    BY <1>1, WithinExists
<1>3. PICK within : within = CHOOSE f : Rec(f)
  OBVIOUS
<1>4. Leading = within[Cardinality(Nodes)]
  BY <1>3 DEF Leading
<1>5. Rec(within)
  <2>. HIDE DEF Rec
  <2>. QED
    BY <1>2, <1>3
<1>. HIDE DEF Rec
<1>. QED
  BY <1>1, <1>4, <1>5

LEMMA NodesFinite == IsFiniteSet(Nodes) /\ Cardinality(Nodes) \in Nat
<1>1. IsFiniteSet(Function)
  BY ReachabilityAssumption, FS_Interval DEF Function
<1>2. IsFiniteSet(Nodes)
  BY <1>1, ReachabilityAssumption, FS_Product DEF Nodes
<1>. QED
  BY <1>2, FS_CardinalityType

\* Whatever holds the nodes that are there at once, and with a node those before it.
Complete(S) == Sources \subseteq S /\ \A n \in S : Before(n) \subseteq S

\* Each round adds a node until none is left that leads to one that was found.
LEMMA LeadingComplete == Complete(Leading) /\ Leading \subseteq Nodes
<1>1. PICK within : Within(Cardinality(Nodes), within) /\ Leading = within[Cardinality(Nodes)]
  BY NodesFinite, LeadingIs
<1>2. PICK N \in Nat : N = Cardinality(Nodes)
  BY NodesFinite
<1>3. \A k \in 0..N : within[k] = IF k = 0 THEN Sources ELSE Onwards(within[k - 1])
  BY <1>1, <1>2 DEF Within
<1>. DEFINE Good(k) == /\ Sources \subseteq within[k] /\ within[k] \subseteq Nodes
                       /\ Complete(within[k]) \/ Cardinality(within[k]) >= k
            Bad == {k \in 0..N : ~ Good(k)}
<1>4. ASSUME Bad # {} PROVE FALSE
  <2>1. PICK m \in Bad : \A k \in Bad : m <= k
    <3>1. Bad \subseteq Nat
      OBVIOUS
    <3>. HIDE DEF Bad
    <3>. QED
      BY <1>4, <3>1, LeastNumber
  <2>2. CASE m = 0
    <3>0. 0 \in 0..N
      OBVIOUS
    <3>1. within[0] = Sources /\ Sources \subseteq Nodes
      <4>. HIDE DEF Bad, Good
      <4>1. within[0] = Sources
        BY <1>3, <3>0
      <4>. QED
        BY <4>1 DEF Sources
    <3>2. Cardinality(Sources) \in Nat
      BY <3>1, NodesFinite, FS_Subset, FS_CardinalityType
    <3>. QED
      BY <2>2, <3>1, <3>2
  <2>3. CASE m # 0
    <3>1. m - 1 \in 0..N /\ m \in 0..N /\ m - 1 \notin Bad
      BY <2>1, <2>3
    <3>2. PICK before, now : before = within[m - 1] /\ now = within[m]
      OBVIOUS
    <3>3. /\ Sources \subseteq before /\ before \subseteq Nodes
          /\ Complete(before) \/ Cardinality(before) >= m - 1
      BY <3>1, <3>2
    <3>4. now = Onwards(before)
      BY <1>3, <2>3, <3>1, <3>2
    <3>5. before \subseteq now /\ now \subseteq Nodes
      BY <3>3, <3>4 DEF Onwards, Before
    <3>6. CASE now = before
      <4>1. Complete(before)
        BY <3>3, <3>4, <3>6 DEF Complete, Onwards
      <4>. QED
        BY <3>2, <3>3, <3>6, <4>1
    <3>7. CASE now # before
      <4>1. ~ Complete(before)
        BY <3>4, <3>5, <3>7 DEF Complete, Onwards
      <4>2. IsFiniteSet(now)
        BY <3>5, NodesFinite, FS_Subset
      <4>3. /\ IsFiniteSet(before) /\ Cardinality(before) <= Cardinality(now)
            /\ Cardinality(before) # Cardinality(now)
        BY <3>5, <3>7, <4>2, FS_Subset
      <4>4. Cardinality(before) \in Nat /\ Cardinality(now) \in Nat
        BY <4>2, <4>3, FS_CardinalityType
      <4>5. Cardinality(now) >= m
        BY <3>1, <3>3, <4>1, <4>3, <4>4
      <4>. QED
        BY <3>2, <3>3, <3>5, <4>5
    <3>. QED
      BY <3>6, <3>7
  <2>. QED
    BY <2>2, <2>3
<1>5. Good(N)
  BY <1>4
<1>6. CASE Cardinality(Leading) >= N
  <2>1. Leading \subseteq Nodes
    BY <1>1, <1>2, <1>5
  <2>2. Cardinality(Leading) <= N /\ Cardinality(Leading) \in Nat
    BY <1>2, <2>1, NodesFinite, FS_Subset, FS_CardinalityType
  <2>3. Leading = Nodes
    BY <1>2, <1>6, <2>1, <2>2, NodesFinite, FS_Subset
  <2>. QED
    BY <2>3 DEF Complete, Sources, Before
<1>. QED
  BY <1>1, <1>2, <1>5, <1>6

\* ... and nothing else is in there than what must be.
LEMMA LeadingLeast ==
    ASSUME NEW S, Complete(S)
    PROVE  Leading \subseteq S
<1>1. PICK within : Within(Cardinality(Nodes), within) /\ Leading = within[Cardinality(Nodes)]
  BY NodesFinite, LeadingIs
<1>2. PICK N \in Nat : N = Cardinality(Nodes)
  BY NodesFinite
<1>3. \A k \in 0..N : within[k] = IF k = 0 THEN Sources ELSE Onwards(within[k - 1])
  BY <1>1, <1>2 DEF Within
<1>. DEFINE Bad == {k \in 0..N : ~ (within[k] \subseteq S)}
<1>4. ASSUME Bad # {} PROVE FALSE
  <2>1. PICK m \in Bad : \A k \in Bad : m <= k
    <3>1. Bad \subseteq Nat
      OBVIOUS
    <3>. HIDE DEF Bad
    <3>. QED
      BY <1>4, <3>1, LeastNumber
  <2>2. CASE m = 0
    BY <1>3, <2>2 DEF Complete
  <2>3. CASE m # 0
    <3>1. m - 1 \in 0..N /\ m - 1 \notin Bad
      BY <2>1, <2>3
    <3>2. within[m - 1] \subseteq S /\ within[m] = Onwards(within[m - 1])
      BY <1>3, <2>3, <3>1
    <3>. QED
      BY <3>2 DEF Onwards, Complete
  <2>. QED
    BY <2>2, <2>3
<1>. QED
  BY <1>1, <1>2, <1>4

\* The nodes a function has found.
Found(f, S) == {<<f, b>> : b \in S}

\* What the analyses keep leads to the goal.
Led ==
    /\ phase = "goal" => Found(function, reached) \subseteq Leading
    /\ \A f \in Function : Found(f, reaches[f]) \subseteq Leading

LEMMA JumpsLead ==
    ASSUME NEW f \in Function, NEW S, Found(f, S) \subseteq Leading, NEW b \in S
    PROVE  Found(f, Predecessors(f, b)) \subseteq Leading
<1>1. ASSUME NEW c \in Predecessors(f, b) PROVE <<f, c>> \in Leading
  <2>1. <<f, c>> \in Nodes /\ <<f, b>> \in After(<<f, c>>)
    BY DEF Predecessors, Nodes, After
  <2>2. <<f, b>> \in Leading
    BY DEF Found
  <2>. QED
    BY <2>1, <2>2, LeadingComplete DEF Complete, Before
<1>. QED
  BY <1>1 DEF Found

LEMMA TouchingLead ==
    ASSUME NEW known, \A g \in Function : Found(g, known[g]) \subseteq Leading, NEW f \in Function
    PROVE  Found(f, Touching(known, f)) \subseteq Leading
<1>1. ASSUME NEW b \in Touching(known, f) PROVE <<f, b>> \in Leading
  <2>0. b \in Blocks /\ <<f, b>> \in Nodes /\ <<f, b>>[1] = f /\ <<f, b>>[2] = b
    BY DEF Touching, Nodes
  <2>1. CASE Program[f][b].ends = "unresolved"
    BY <2>0, <2>1, LeadingComplete DEF AtOnce, Sources, Complete
  <2>2. CASE Program[f][b].ends # "unresolved"
    <3>1. PICK k \in 1..Len(Program[f][b].body) : Touches(known, Program[f][b].body[k])
      BY <2>2 DEF Touching
    <3>2. CASE Program[f][b].body[k].goal \/ Program[f][b].body[k].target = "unresolved"
      BY <2>0, <3>2, LeadingComplete DEF AtOnce, Sources, Complete
    <3>3. CASE /\ Program[f][b].body[k].target = "function"
               /\ 0 \in known[Program[f][b].body[k].callee]
      <4>1. PICK g : g = Program[f][b].body[k].callee
        OBVIOUS
      <4>2. g \in Function
        <5>1. Program[f][b].body \in Seq(Position)
          BY <2>0, BlockType
        <5>2. Program[f][b].body[k] \in Position
          BY <5>1, ElementOfSeq
        <5>. QED
          BY <4>1, <5>2 DEF Position
      <4>3. <<g, 0>> \in Leading
        BY <3>3, <4>1, <4>2 DEF Found
      <4>4. <<g, 0>> \in After(<<f, b>>)
        BY <2>0, <3>3, <4>1 DEF After
      <4>. QED
        BY <2>0, <4>3, <4>4, LeadingComplete DEF Complete, Before
    <3>. QED
      BY <3>1, <3>2, <3>3 DEF Touches
  <2>. QED
    BY <2>1, <2>2
<1>. QED
  BY <1>1 DEF Found

LEMMA LedStep ==
    ASSUME Inv, Led, [Next]_vars
    PROVE  Led'
<1>1. function \in Function /\ Functions \in Nat \ {0} /\ reaches \in [Function -> SUBSET Blocks]
  BY ReachabilityAssumption DEF Inv, TypeOK
<1>2. CASE Propagate
  <2>1. PICK b \in work : Visit(b)
    BY <1>2 DEF Propagate
  <2>2. reached' = reached \cup (Predecessors(function, b) \ reached) /\ b \in reached
        /\ UNCHANGED <<phase, function, reaches>>
    BY <1>2, <2>1 DEF Propagate, Visit, Inv, TypeOK
  <2>3. phase = "goal" => Found(function, Predecessors(function, b)) \subseteq Leading
    BY <1>1, <2>2, JumpsLead DEF Led
  <2>. QED
    BY <2>2, <2>3 DEF Led, Found
<1>3. CASE KeepReturns
  <2>1. reaches' = reaches /\ (phase' = "goal" => function' = 1 /\ reached' = Touching(reaches, 1))
    BY <1>3 DEF KeepReturns, Backward
  <2>2. 1 \in Function
    BY <1>1 DEF Function
  <2>. QED
    BY <2>1, <2>2, TouchingLead DEF Led
<1>4. CASE KeepReaches
  <2>. DEFINE known == [reaches EXCEPT ![function] = reached]
              next == IF function < Functions THEN function + 1 ELSE 1
  <2>1. phase = "goal" /\ reaches' = known /\ function' = next /\ reached' = Touching(known, next)
    BY <1>4 DEF KeepReaches, Backward
  <2>2. next \in Function
    BY <1>1 DEF Function
  <2>3. \A f \in Function : Found(f, known[f]) \subseteq Leading
    BY <1>1, <2>1 DEF Led
  <2>. HIDE DEF known, next
  <2>. QED
    BY <2>1, <2>2, <2>3, TouchingLead DEF Led
<1>5. CASE Walk
  BY <1>5 DEF Walk, Advance, Enter, Transfer, Jump, Leave, Inside, AtEnd, Walking, Moves, solver, Led
<1>6. CASE UNCHANGED vars
  BY <1>6 DEF vars, solver, Led
<1>. QED
  BY <1>2, <1>3, <1>4, <1>5, <1>6 DEF Next, Solve

\* Stored sets that are closed and hold their seeds miss nothing that leads to the goal.
LEMMA NothingMissed ==
    ASSUME Inv, phase = "walk"
    PROVE  \A f \in Function, b \in Blocks : <<f, b>> \in Leading => b \in reaches[f]
<1>. DEFINE S == {n \in Nodes : n[2] \in reaches[n[1]]}
<1>1. ASSUME NEW n \in Sources PROVE n \in S
  <2>1. PICK f \in Function, b \in Blocks : n = <<f, b>>
    BY DEF Sources, Nodes
  <2>2. b \in Touching(reaches, f)
    BY <2>1 DEF Sources, AtOnce, Touching, Touches
  <2>. QED
    BY <2>1, <2>2 DEF Inv, Fixpoint, Nodes
<1>2. ASSUME NEW n \in S, NEW m \in Before(n) PROVE m \in S
  <2>1. PICK f \in Function, b \in Blocks : m = <<f, b>> /\ n \in After(m)
    BY <1>2 DEF Before, Nodes
  <2>2. CASE n \in {f} \X Program[f][b].to
    <3>1. n[1] = f /\ n[2] \in Program[f][b].to /\ n[2] \in reaches[f]
      BY <2>2
    <3>2. b \in reaches[f]
      BY <3>1, Sound, BlockType
    <3>. QED
      BY <2>1, <3>2 DEF Nodes
  <2>3. CASE n \notin {f} \X Program[f][b].to
    <3>1. PICK k \in 1..Len(Program[f][b].body) :
             /\ Program[f][b].body[k].target = "function"
             /\ n = <<Program[f][b].body[k].callee, 0>>
      BY <2>1, <2>3 DEF After
    <3>2. Touches(reaches, Program[f][b].body[k])
      BY <3>1 DEF Touches
    <3>3. b \in reaches[f]
      BY <3>2, Sound
    <3>. QED
      BY <2>1, <3>3 DEF Nodes
  <2>. QED
    BY <2>2, <2>3
<1>3. Complete(S)
  BY <1>1, <1>2 DEF Complete
<1>4. Leading \subseteq S
  <2>. HIDE DEF S
  <2>. QED
    BY <1>3, LeadingLeast
<1>. QED
  BY <1>4

\* GoalReachability keeps the blocks that lead to a goal instruction or to code nobody can
\* name, all of them and no other: it prunes all that jumps and calls alone can tell.
THEOREM FixpointExact == Spec => []Exact
<1>1. Init => Led
  BY DEF Init, Led, Found
<1>2. Inv /\ Led /\ [Next]_vars => Led'
  BY LedStep
<1>3. Inv /\ Led => Exact
  <2>1. ASSUME Inv, Led, phase = "walk", NEW f \in Function
        PROVE  reaches[f] = {b \in Blocks : <<f, b>> \in Leading}
    <3>1. reaches[f] \subseteq Blocks
      BY <2>1 DEF Inv, TypeOK
    <3>2. \A b \in reaches[f] : <<f, b>> \in Leading
      BY <2>1 DEF Led, Found
    <3>. QED
      BY <2>1, <3>1, <3>2, NothingMissed
  <2>. QED
    BY <2>1 DEF Exact
<1>. QED
  BY <1>1, <1>2, <1>3, AlwaysInv, PTL DEF Spec
=============================================================================
