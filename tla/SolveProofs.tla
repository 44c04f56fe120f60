------------------------------ MODULE SolveProofs ------------------------------
(***************************************************************************)
(* Proofs about Solve, for any jobs, budgets and sandbox.                  *)
(*                                                                         *)
(* Four invariants, each inductive.  SandboxInv: what the waiting thread   *)
(* knows of the client and the container, and what the pipes and drains    *)
(* hold.  SearchInv: what a solution is (Answering), that a path that was  *)
(* looked at is settled, is looked at, or waits for its second look        *)
(* (Covered), and that a search that found nothing and was cut short by    *)
(* nothing had no path to find (Explored).  Narrowed, on top of it: both   *)
(* binary searches keep the bound of every shortest input between their    *)
(* ends.  Chaining, on top of it too: the stages of a chain that were      *)
(* solved are the first of the plan, and each accepts its line.            *)
(***************************************************************************)
EXTENDS Solve, FiniteSetTheorems, SequenceTheorems, WellFoundedInduction, TLAPS

-----------------------------------------------------------------------------
(* The sandbox.                                                             *)

\* A client that has ended by itself has told how the container ended; behind a wait that is
\* over there is no client that could start one.
Contained ==
    /\ client \in Exits => container # "running"
    /\ waiter \in {"joining", "removing", "ended", "raised"} => client # "running"
    /\ waiter \in {"joining", "raised"} /\ exit # "timeout" => client \in Exits
    /\ waiter = "removing" => exit = "timeout"
    /\ waiter = "ended" => container # "running"

\* What was written is in the pipe, or was drained, and of that the first part is kept.
Drained ==
    /\ \A s \in Outputs : /\ pipe[s] <= written[s]
                          /\ kept[s] = Least(written[s] - pipe[s], OutputLimit)
    /\ \A s \in Outputs : worker[s] = "done" => client # "running" /\ pipe[s] = 0
    /\ waiter \in {"removing", "ended", "raised"} => \A s \in Streams : worker[s] = "done"

SandboxInv == SandboxTypeOK /\ Contained /\ Drained

LEMMA SandboxBegins == SandboxInit => SandboxInv
BY SandboxAssumption
   DEF SandboxInit, SandboxInv, SandboxTypeOK, Contained, Drained, Least, Outputs, Streams, Exits,
       RuntimeFailure

LEMMA SandboxStarts == SandboxInv /\ StartRun => SandboxInv'
BY SandboxAssumption
   DEF StartRun, SandboxInv, SandboxTypeOK, Contained, Drained, Least, Outputs, Streams, Exits,
       RuntimeFailure

LEMMA SandboxWaits == SandboxInv /\ Waiting => SandboxInv'
<1> SUFFICES ASSUME SandboxInv, Waiting PROVE SandboxInv'
  OBVIOUS
<1> USE DEF SandboxInv, SandboxTypeOK, Contained, Drained, Least, Outputs, Streams, Exits,
            RuntimeFailure
<1>1. CASE WaitReturns
  BY <1>1 DEF WaitReturns
<1>2. CASE WaitTimesOut
  BY <1>2 DEF WaitTimesOut
<1>3. CASE KillClient
  BY <1>3 DEF KillClient
<1>4. CASE Join
  BY <1>4 DEF Join
<1>5. CASE RemoveContainer
  BY <1>5 DEF RemoveContainer
<1>6. CASE RemoveTimesOut
  BY <1>6 DEF RemoveTimesOut
<1> QED BY <1>1, <1>2, <1>3, <1>4, <1>5, <1>6 DEF Waiting

LEMMA SandboxWorks == SandboxInv /\ Working => SandboxInv'
<1> SUFFICES ASSUME SandboxInv, Working PROVE SandboxInv'
  OBVIOUS
<1> USE SandboxAssumption
    DEF SandboxInv, SandboxTypeOK, Contained, Drained, Least, Outputs, Streams, Exits, RuntimeFailure
<1>1. CASE Feed
  BY <1>1 DEF Feed
<1>2. ASSUME NEW s \in Outputs, Drain(s) PROVE SandboxInv'
  <2>1. CASE pipe[s] > 0 /\ UNCHANGED worker
    BY <1>2, <2>1 DEF Drain
  <2>2. CASE ~(pipe[s] > 0 /\ UNCHANGED worker)
    BY <1>2, <2>2 DEF Drain
  <2> QED BY <2>1, <2>2
<1> QED BY <1>1, <1>2 DEF Working

LEMMA SandboxRuns == SandboxInv /\ (Runtime \/ Target) => SandboxInv'
<1> SUFFICES ASSUME SandboxInv, Runtime \/ Target PROVE SandboxInv'
  OBVIOUS
<1> USE SandboxAssumption
    DEF SandboxInv, SandboxTypeOK, Contained, Drained, Least, Outputs, Streams, Exits, RuntimeFailure
<1>1. CASE RequestContainer
  BY <1>1 DEF RequestContainer
<1>2. CASE CreateContainer
  BY <1>2 DEF CreateContainer
<1>3. CASE StartContainer
  BY <1>3 DEF StartContainer
<1>4. CASE RuntimeFails
  BY <1>4 DEF RuntimeFails
<1>5. CASE TargetReads
  BY <1>5 DEF TargetReads
<1>6. CASE TargetEnds
  BY <1>6 DEF TargetEnds
<1>7. ASSUME NEW s \in Outputs, TargetWrites(s) PROVE SandboxInv'
  BY <1>7 DEF TargetWrites
<1> QED BY <1>1, <1>2, <1>3, <1>4, <1>5, <1>6, <1>7 DEF Runtime, Target

LEMMA SandboxStill == SandboxInv /\ UNCHANGED sandboxVars => SandboxInv'
BY DEF sandboxVars, SandboxInv, SandboxTypeOK, Contained, Drained

\* The steps of the solver that touch the sandbox.
LEMMA NextSandbox == [Next]_vars => StartRun \/ Waiting \/ Working \/ Runtime \/ Target
                                    \/ UNCHANGED sandboxVars
<1> SUFFICES ASSUME [Next]_vars, ~ UNCHANGED sandboxVars
             PROVE  StartRun \/ Waiting \/ Working \/ Runtime \/ Target
  OBVIOUS
<1>1. Next
  BY DEF vars
<1>2. CASE Native
  BY <1>2 DEF Native
<1>3. CASE Searching
  BY <1>3 DEF Searching, Select, Explore, Concolic, Conclude, PickPath, MorePaths, NoMorePaths, Again
<1>4. CASE Extracting
  BY <1>4 DEF Extracting, Ask, Bisect, Bisected, AskLine, BisectLine, BisectedLine, Model, Unbind,
              Extracted
<1>5. CASE Checking
  BY <1>5 DEF Checking, Verify, NativeEnds, NativeRaises
<1>6. CASE Try \/ GiveUp \/ SelectFunctions \/ ExploreStage \/ StageFails \/ StageModel
  BY <1>6 DEF Try, GiveUp, SelectFunctions, ExploreStage, StageFails, StageModel
<1> QED BY <1>1, <1>2, <1>3, <1>4, <1>5, <1>6 DEF Next, Solving

LEMMA AlwaysSandbox == Spec => []SandboxInv
<1>1. Init => SandboxInv
  BY SandboxBegins DEF Init
<1>2. SandboxInv /\ [Next]_vars => SandboxInv'
  BY NextSandbox, SandboxStarts, SandboxWaits, SandboxWorks, SandboxRuns, SandboxStill
<1> QED BY <1>1, <1>2, PTL DEF Spec

\* Nothing runs behind a run that is over: when run_sandboxed (_run_bounded, _stop_container)
\* has returned, the target does not go on in its container, unless the runtime did not answer
\* to the removal.
THEOREM NothingLeftRunning == Spec => []NothingRuns
<1>1. SandboxInv => NothingRuns
  BY DEF SandboxInv, Contained, NothingRuns
<1> QED BY <1>1, AlwaysSandbox, PTL

\* The drains lose nothing (_drain, _run_bounded): a run that was not stopped keeps its output
\* up to the limit, however the target, the pipes and the threads take turns.
THEOREM AlwaysOutputKept == Spec => []OutputKept
<1>1. SandboxInv => OutputKept
  BY SandboxAssumption
     DEF SandboxInv, SandboxTypeOK, Drained, OutputKept, Outputs, Streams, Least
<1> QED BY <1>1, AlwaysSandbox, PTL

-----------------------------------------------------------------------------
(* Numbers in order.                                                        *)

\* A set of numbers that is not empty has a least one.
LEMMA LeastOf ==
    ASSUME NEW T, T \subseteq Nat, T # {}
    PROVE  \E x \in T : \A y \in T : x <= y
<1> DEFINE R == {p \in Nat \X Nat : p[1] < p[2]}
<1>1. IsWellFoundedOn(R, Nat)
  BY NatLessThanWellFounded DEF OpToRel
<1>2. \E x \in T : \A y \in T : <<y, x>> \notin R
  <2> HIDE DEF R
  <2> QED BY <1>1, WFMin
<1>3. \A x, y \in T : <<y, x>> \notin R => x <= y
  OBVIOUS
<1> QED BY <1>2, <1>3

\* A set of numbers up to n that is not empty has a greatest one.
LEMMA GreatestOf ==
    ASSUME NEW n \in Nat, NEW T, T \subseteq 1..n, T # {}
    PROVE  \E x \in T : \A y \in T : y <= x
<1> DEFINE U == {d \in 0..n : n - d \in T}
<1>0. \A x \in T : x \in 1..n /\ n - x \in U
  OBVIOUS
<1>1. U \subseteq Nat /\ U # {}
  <2>1. PICK x \in T : TRUE
    OBVIOUS
  <2>2. n - x \in U
    BY <1>0, <2>1
  <2>3. \A d \in U : d \in Nat
    OBVIOUS
  <2> HIDE DEF U
  <2> QED BY <2>2, <2>3
<1>2. PICK u \in U : \A v \in U : u <= v
  <2> HIDE DEF U
  <2> QED BY <1>1, LeastOf
<1>3. n - u \in T /\ u \in 0..n
  OBVIOUS
<1>4. \A y \in T : y <= n - u
  BY <1>0, <1>2, <1>3
<1> QED BY <1>3, <1>4

Ordered(q, S) ==
    q \in [1..Cardinality(S) -> S] /\ \A j, k \in DOMAIN q : j < k => q[j] < q[k]

LEMMA OrderExists ==
    ASSUME NEW n \in Nat
    PROVE  \A S \in SUBSET (1..n) : (\E q : Ordered(q, S))
<1> DEFINE Bad == {c \in Nat : \E S \in SUBSET (1..n) : Cardinality(S) = c /\ ~ \E q : Ordered(q, S)}
<1>0. \A S \in SUBSET (1..n) : IsFiniteSet(S) /\ Cardinality(S) \in Nat
  <2>1. IsFiniteSet(1..n)
    BY FS_Interval
  <2> QED BY <2>1, FS_Subset, FS_CardinalityType
<1>1. SUFFICES ASSUME Bad # {} PROVE FALSE
  BY <1>0
<1>2. PICK c \in Bad : \A d \in Bad : c <= d
  <2> HIDE DEF Bad
  <2>1. Bad \subseteq Nat
    BY DEF Bad
  <2> QED BY <1>1, <2>1, LeastOf
<1>3. PICK S \in SUBSET (1..n) : Cardinality(S) = c /\ ~ \E q : Ordered(q, S)
  OBVIOUS
<1>4. CASE S = {}
  <2>1. c = 0
    BY <1>3, <1>4, FS_EmptySet
  <2>2. Ordered([k \in 1..0 |-> 0], S)
    BY <1>3, <2>1 DEF Ordered
  <2> QED BY <1>3, <2>2
<1>5. CASE S # {}
  <2>1. PICK m \in S : \A y \in S : y <= m
    BY <1>5, GreatestOf
  <2> DEFINE R == S \ {m}
  <2>2. R \in SUBSET (1..n) /\ Cardinality(R) = c - 1 /\ c - 1 \in Nat
    BY <1>0, <1>3, <2>1, FS_RemoveElement
  <2>3. PICK q : Ordered(q, R)
    BY <1>2, <2>2
  <2> DEFINE r == [k \in 1..c |-> IF k = c THEN m ELSE q[k]]
  <2>4. \A k \in 1..c : k # c => k \in 1..(c - 1) /\ q[k] \in R
    <3>1. q \in [1..(c - 1) -> R]
      BY <2>2, <2>3 DEF Ordered
    <3> QED BY <2>2, <3>1
  <2>5. r \in [1..c -> S]
    BY <2>1, <2>4
  <2>6. \A j, k \in 1..c : j < k => r[j] < r[k]
    <3> SUFFICES ASSUME NEW j \in 1..c, NEW k \in 1..c, j < k PROVE r[j] < r[k]
      OBVIOUS
    <3>1. j # c /\ q[j] \in R /\ r[j] = q[j]
      BY <2>2, <2>4
    <3>2. CASE k = c
      <4>1. q[j] < m
        <5>1. q[j] \in S /\ q[j] # m /\ q[j] \in Nat /\ m \in Nat
          <6>1. q[j] \in R
            BY <3>1
          <6>2. \A x \in S : x \in Nat
            OBVIOUS
          <6> QED BY <2>1, <6>1, <6>2
        <5> QED BY <2>1, <5>1
      <4> QED BY <3>1, <3>2, <4>1
    <3>3. CASE k # c
      <4>1. q[j] < q[k]
        BY <2>2, <2>3, <2>4, <3>1, <3>3 DEF Ordered
      <4> QED BY <3>1, <3>3, <4>1
    <3> QED BY <3>2, <3>3
  <2>7. Ordered(r, S)
    BY <1>3, <2>5, <2>6 DEF Ordered
  <2> QED BY <1>3, <2>7
<1> QED BY <1>4, <1>5

\* In order, each number of a set is there once, and no other.
LEMMA OrderIs ==
    ASSUME NEW n \in Nat, NEW S \in SUBSET (1..n)
    PROVE  /\ InOrder(S) \in Seq(S) /\ Ordered(InOrder(S), S)
           /\ Range(InOrder(S)) = S
           /\ Len(InOrder(S)) = Cardinality(S) /\ Cardinality(S) \in Nat
           /\ Len(InOrder(S)) = 0 => S = {}
<1> DEFINE q == InOrder(S)
           c == Cardinality(S)
<1>1. IsFiniteSet(S) /\ c \in Nat
  <2>1. IsFiniteSet(1..n)
    BY FS_Interval
  <2> QED BY <2>1, FS_Subset, FS_CardinalityType
<1>2. Ordered(q, S)
  BY OrderExists DEF InOrder, Ordered
<1>3. q \in Seq(S) /\ Len(q) = c
  <2> HIDE DEF q
  <2> QED BY <1>1, <1>2 DEF Ordered
<1>4. \A x \in S : \E k \in 1..c : q[k] = x
  <2>1. IsInjective(q)
    <3> HIDE DEF q
    <3>1. \A j, k \in 1..c : q[j] \in 1..n /\ (j < k => q[j] < q[k])
      BY <1>2 DEF Ordered
    <3> QED BY <1>1, <1>2, <3>1 DEF Ordered, IsInjective
  <2>2. Cardinality(1..c) = c /\ IsFiniteSet(1..c)
    BY <1>1, FS_Interval
  <2>3. q \in Surjection(1..c, S)
    <3> HIDE DEF q
    <3>1. q \in Injection(1..c, S)
      BY <1>2, <2>1 DEF Ordered, Injection, IsInjective
    <3> QED BY <1>1, <2>2, <3>1, FS_Injection
  <2> QED BY <2>3 DEF Surjection
<1>5. Range(q) = S
  <2> HIDE DEF q
  <2> QED BY <1>2, <1>4 DEF Range, Ordered
<1>6. c = 0 => S = {}
  BY <1>1, FS_EmptySet
<1> QED BY <1>1, <1>2, <1>3, <1>5, <1>6

-----------------------------------------------------------------------------
(* Goals: the search and the replay watch for the same.                     *)

Apart(g, A) == \A c \in A : c.address # g.address

LEMMA SameEvent ==
    ASSUME NEW event, NEW g, NEW A, Apart(g, A)
    PROVE  Reaches(event, g, A) = Watched(event, g, A)
<1> DEFINE plain == {c \in A : ~c.called /\ Meets(event, c)}
           calls == {c \in A : c.called /\ Meets(event, c)}
           addresses == {c.address : c \in {c \in A : ~c.called}}
                           \ (IF g.called THEN {} ELSE {g.address})
<1>1. event[1] \in addresses <=> plain # {}
  <2>1. \A c \in A : ~c.called => (Meets(event, c) <=> event[1] = c.address)
    BY DEF Meets
  <2>2. \A c \in A : c.address # g.address
    BY DEF Apart
  <2> QED BY <2>1, <2>2
<1>2. (\E c \in A : c.called /\ Meets(event, c)) <=> calls # {}
  OBVIOUS
<1>3. g.called /\ Meets(event, g) => calls = {} /\ plain = {}
  BY DEF Meets, Apart
<1>4. Reaches(event, g, A) =
         IF event[1] \in addresses THEN "avoid"
         ELSE IF ~g.called /\ event[1] = g.address THEN "goal"
         ELSE IF \E c \in A : c.called /\ Meets(event, c) THEN "avoid"
         ELSE IF g.called /\ Meets(event, g) THEN "goal" ELSE "none"
  BY DEF Reaches
<1>5. Watched(event, g, A) =
         IF plain # {} THEN "avoid"
         ELSE IF ~g.called /\ Meets(event, g) THEN "goal"
         ELSE IF g.called /\ Meets(event, g) THEN "goal"
         ELSE IF calls # {} THEN "avoid" ELSE "none"
  BY DEF Watched
<1>6. ~g.called => (Meets(event, g) <=> event[1] = g.address)
  BY DEF Meets
<1> HIDE DEF plain, calls, addresses
<1> QED BY <1>1, <1>2, <1>3, <1>4, <1>5, <1>6

\* What was avoided lies elsewhere than the goal: so both watches stop at the same event.
LEMMA SameWatch ==
    ASSUME NEW trace, NEW g, NEW A, Apart(g, A)
    PROVE  FirstSearched(trace, g, A) = FirstWatched(trace, g, A)
<1>1. \A event : Reaches(event, g, A) = Watched(event, g, A)
  BY SameEvent
<1>2. {k \in DOMAIN trace : Reaches(trace[k], g, A) # "none"}
      = {k \in DOMAIN trace : Watched(trace[k], g, A) # "none"}
  BY <1>1
<1> QED BY <1>1, <1>2 DEF FirstSearched, FirstWatched

-----------------------------------------------------------------------------
(* What was read.                                                           *)

Text(n) == [1..n -> AnyByte]

\* ReadTo's definitions: how far one window is read, and how far the first n.
Newlines(s, window) == {p \in (window[1] + 1)..window[2] : s[p] = NEWLINE}
TakenOf(s, window) ==
    IF window[3] /\ Newlines(s, window) # {}
    THEN CHOOSE p \in Newlines(s, window) : \A q \in Newlines(s, window) : p <= q
    ELSE window[2]
Consumes(f, s, reads, n) ==
    f = [k \in 0..n |-> IF k = 0 THEN 0
                        ELSE IF reads[k][1] < f[k - 1] THEN f[k - 1] ELSE TakenOf(s, reads[k])]

Within(reads, n) ==
    /\ Len(reads) \in Nat
    /\ \A k \in 1..Len(reads) : reads[k][1] \in 0..n /\ reads[k][2] \in (reads[k][1])..n

LEMMA TakenFits ==
    ASSUME NEW n \in Nat, NEW s, NEW window, window[1] \in 0..n, window[2] \in (window[1])..n
    PROVE  TakenOf(s, window) \in (window[1])..(window[2])
<1>1. CASE window[3] /\ Newlines(s, window) # {}
  <2>1. Newlines(s, window) \subseteq Nat
    BY DEF Newlines
  <2>2. \E p \in Newlines(s, window) : \A q \in Newlines(s, window) : p <= q
    BY <1>1, <2>1, LeastOf
  <2>3. TakenOf(s, window) \in Newlines(s, window)
    BY <1>1, <2>2 DEF TakenOf
  <2> QED BY <2>3 DEF Newlines
<1>2. CASE ~(window[3] /\ Newlines(s, window) # {})
  <2>1. TakenOf(s, window) = window[2]
    BY <1>2 DEF TakenOf
  <2> QED BY <2>1
<1> QED BY <1>1, <1>2

\* What is taken depends on what is taken only.
LEMMA TakenAgrees ==
    ASSUME NEW n \in Nat, NEW s, NEW t, NEW window,
           window[1] \in 0..n, window[2] \in (window[1])..n,
           \A p \in 1..TakenOf(s, window) : s[p] = t[p]
    PROVE  TakenOf(t, window) = TakenOf(s, window)
<1>1. CASE window[3] /\ Newlines(s, window) # {}
  <2>1. Newlines(s, window) \subseteq Nat /\ Newlines(t, window) \subseteq Nat
    BY DEF Newlines
  <2>2. \E p \in Newlines(s, window) : \A q \in Newlines(s, window) : p <= q
    BY <1>1, <2>1, LeastOf
  <2> DEFINE p == TakenOf(s, window)
  <2>3. p \in Newlines(s, window) /\ \A q \in Newlines(s, window) : p <= q
    BY <1>1, <2>2 DEF TakenOf
  <2> HIDE DEF p
  <2>4. p \in (window[1] + 1)..(window[2]) /\ s[p] = NEWLINE /\ \A q \in 1..p : s[q] = t[q]
    BY <2>3 DEF Newlines, p
  <2>5. p \in Newlines(t, window)
    BY <2>4 DEF Newlines
  <2>6. \A q \in Newlines(t, window) : p <= q
    <3> SUFFICES ASSUME NEW q \in Newlines(t, window), q < p PROVE FALSE
      BY <2>1, <2>4
    <3>1. q \in Newlines(s, window)
      BY <2>4 DEF Newlines
    <3> QED BY <2>1, <2>3, <3>1
  <2>7. TakenOf(t, window) \in Newlines(t, window)
        /\ \A q \in Newlines(t, window) : TakenOf(t, window) <= q
    BY <1>1, <2>5, <2>6 DEF TakenOf
  <2> QED BY <2>1, <2>4, <2>5, <2>6, <2>7 DEF p
<1>2. CASE ~(window[3] /\ Newlines(s, window) # {})
  <2>1. TakenOf(s, window) = window[2]
    BY <1>2 DEF TakenOf
  <2>2. Newlines(t, window) = Newlines(s, window)
    BY <2>1 DEF Newlines
  <2> QED BY <1>2, <2>1, <2>2 DEF TakenOf
<1> QED BY <1>1, <1>2

LEMMA ConsumesExists ==
    ASSUME NEW s, NEW reads, NEW n \in Nat
    PROVE  \E f : Consumes(f, s, reads, n)
<1> DEFINE Bad == {m \in Nat : ~ \E f : Consumes(f, s, reads, m)}
<1>1. SUFFICES ASSUME Bad # {} PROVE FALSE
  OBVIOUS
<1>2. PICK m \in Bad : \A k \in Bad : m <= k
  <2> HIDE DEF Bad
  <2>1. Bad \subseteq Nat
    BY DEF Bad
  <2> QED BY <1>1, <2>1, LeastOf
<1>3. m \in Nat
  OBVIOUS
<1>4. CASE m = 0
  <2>1. Consumes([k \in 0..0 |-> 0], s, reads, 0)
    BY DEF Consumes
  <2> QED BY <1>4, <2>1
<1>5. CASE m # 0
  <2>1. m - 1 \in Nat /\ m - 1 \notin Bad
    BY <1>2, <1>3, <1>5
  <2>2. PICK f : Consumes(f, s, reads, m - 1)
    BY <2>1
  <2> DEFINE g == [k \in 0..m |->
                      IF k < m THEN f[k]
                      ELSE IF reads[k][1] < f[k - 1] THEN f[k - 1] ELSE TakenOf(s, reads[k])]
  <2>3. \A k \in 0..m : g[k] = IF k = 0 THEN 0
                               ELSE IF reads[k][1] < g[k - 1] THEN g[k - 1] ELSE TakenOf(s, reads[k])
    <3>1. \A k \in 0..(m - 1) : f[k] = IF k = 0 THEN 0
                               ELSE IF reads[k][1] < f[k - 1] THEN f[k - 1] ELSE TakenOf(s, reads[k])
      BY <2>2 DEF Consumes
    <3> QED BY <3>1, <1>3, <1>5
  <2>4. Consumes(g, s, reads, m)
    BY <2>3 DEF Consumes
  <2> QED BY <2>4
<1> QED BY <1>4, <1>5

LEMMA ReadToIs ==
    ASSUME NEW s, NEW reads, Len(reads) \in Nat
    PROVE  \E f : Consumes(f, s, reads, Len(reads)) /\ ReadTo(s, reads) = f[Len(reads)]
<1> DEFINE n == Len(reads)
           Rec(f) == f = [k \in 0..n |->
                        IF k = 0 THEN 0
                        ELSE IF reads[k][1] < f[k - 1] THEN f[k - 1] ELSE TakenOf(s, reads[k])]
           consumed == CHOOSE f : Rec(f)
<1>1. \E f : Rec(f)
  <2>1. PICK f : Consumes(f, s, reads, n)
    BY ConsumesExists
  <2>2. Rec(f)
    BY <2>1 DEF Consumes
  <2> HIDE DEF Rec
  <2> QED BY <2>2
<1>2. Rec(consumed)
  <2> HIDE DEF Rec
  <2> QED BY <1>1
<1>3. ReadTo(s, reads) = consumed[n]
  BY DEF ReadTo, TakenOf, Newlines
<1>4. Consumes(consumed, s, reads, n)
  BY <1>2 DEF Consumes
<1> HIDE DEF consumed
<1> QED BY <1>3, <1>4

\* Reading goes forward.
LEMMA ConsumesGrows ==
    ASSUME NEW l \in Nat, NEW s, NEW reads, Within(reads, l),
           NEW n \in 0..Len(reads), NEW f, Consumes(f, s, reads, n)
    PROVE  /\ \A k \in 0..n : f[k] \in 0..l
           /\ \A k \in 0..n : f[k] <= f[n]
<1>1. n \in Nat /\ Len(reads) \in Nat
  BY DEF Within
<1>2. \A k \in 0..n : f[k] = IF k = 0 THEN 0
                             ELSE IF reads[k][1] < f[k - 1] THEN f[k - 1] ELSE TakenOf(s, reads[k])
  BY DEF Consumes
<1>3. \A k \in 0..n : f[k] \in 0..l
  <2> DEFINE Bad == {k \in 0..n : f[k] \notin 0..l}
  <2>1. SUFFICES ASSUME Bad # {} PROVE FALSE
    OBVIOUS
  <2>2. PICK m \in Bad : \A k \in Bad : m <= k
    <3>1. \A k \in Bad : k \in Nat
      BY <1>1
    <3> HIDE DEF Bad
    <3> QED BY <2>1, <3>1, LeastOf
  <2>3. m \in 0..n /\ m # 0
    BY <1>2
  <2>4. m - 1 \in 0..n /\ m - 1 \notin Bad /\ m \in 1..Len(reads)
    BY <1>1, <2>2, <2>3
  <2>5. f[m - 1] \in 0..l
    BY <2>4
  <2>6. TakenOf(s, reads[m]) \in 0..l
    <3>1. reads[m][1] \in 0..l /\ reads[m][2] \in (reads[m][1])..l
      BY <2>4 DEF Within
    <3>2. TakenOf(s, reads[m]) \in (reads[m][1])..(reads[m][2])
      BY <3>1, TakenFits
    <3> QED BY <3>1, <3>2
  <2>7. f[m] \in 0..l
    BY <1>2, <2>3, <2>5, <2>6
  <2> QED BY <2>7
<1>4. \A k \in 1..n : f[k - 1] <= f[k]
  <2> SUFFICES ASSUME NEW k \in 1..n PROVE f[k - 1] <= f[k]
    OBVIOUS
  <2>1. f[k] = (IF reads[k][1] < f[k - 1] THEN f[k - 1] ELSE TakenOf(s, reads[k]))
        /\ f[k - 1] \in 0..l
    BY <1>1, <1>2, <1>3
  <2>2. reads[k][1] \in 0..l /\ reads[k][2] \in (reads[k][1])..l
    BY <1>1 DEF Within
  <2>3. TakenOf(s, reads[k]) \in (reads[k][1])..(reads[k][2])
    BY <2>2, TakenFits
  <2> QED BY <2>1, <2>2, <2>3
<1>5. \A k \in 0..n : f[k] <= f[n]
  <2> DEFINE Bad == {d \in 0..n : ~(f[n - d] <= f[n])}
  <2>1. SUFFICES ASSUME Bad # {} PROVE FALSE
    <3>1. ASSUME NEW k \in 0..n PROVE f[k] <= f[n]
      <4>1. n - k \in 0..n /\ n - (n - k) = k
        BY <1>1
      <4> QED BY <2>1, <4>1
    <3> QED BY <3>1
  <2>2. PICK d \in Bad : \A e \in Bad : d <= e
    <3>1. \A e \in Bad : e \in Nat
      BY <1>1
    <3> HIDE DEF Bad
    <3> QED BY <2>1, <3>1, LeastOf
  <2>3. d \in 0..n /\ n - d \in 0..n /\ ~(f[n - d] <= f[n])
    BY <1>1
  <2>4. d # 0
    <3>1. f[n] \in 0..l /\ n - 0 = n
      BY <1>1, <1>3
    <3>2. f[n - 0] <= f[n]
      BY <3>1
    <3> QED BY <2>3, <3>2
  <2>5. d - 1 \in 0..n /\ d - 1 \notin Bad
    <3>1. d - 1 \in 0..n /\ ~(d <= d - 1)
      BY <1>1, <2>3, <2>4
    <3> HIDE DEF Bad
    <3> QED BY <2>2, <3>1
  <2>6. f[n - d + 1] <= f[n]
    <3>1. n - (d - 1) = n - d + 1
      BY <1>1, <2>3
    <3> QED BY <2>5, <3>1
  <2>7. f[n - d] <= f[n - d + 1]
    <3>1. n - d + 1 \in 1..n /\ (n - d + 1) - 1 = n - d
      BY <1>1, <2>3, <2>4
    <3> QED BY <1>4, <3>1
  <2>8. f[n - d] \in Nat /\ f[n - d + 1] \in Nat /\ f[n] \in Nat
    <3>1. n - d \in 0..n /\ n - d + 1 \in 0..n /\ n \in 0..n
      BY <1>1, <2>3, <2>4
    <3> QED BY <1>3, <3>1
  <2> QED BY <2>3, <2>6, <2>7, <2>8
<1> QED BY <1>3, <1>5

LEMMA ReadToFits ==
    ASSUME NEW l \in Nat, NEW s, NEW reads, Within(reads, l)
    PROVE  ReadTo(s, reads) \in 0..l
<1>1. Len(reads) \in Nat
  BY DEF Within
<1>2. PICK f : Consumes(f, s, reads, Len(reads)) /\ ReadTo(s, reads) = f[Len(reads)]
  BY <1>1, ReadToIs
<1> QED BY <1>1, <1>2, ConsumesGrows

\* How far is read depends on what is read only.
LEMMA ReadToAgrees ==
    ASSUME NEW l \in Nat, NEW s, NEW t, NEW reads, Within(reads, l),
           \A p \in 1..ReadTo(s, reads) : s[p] = t[p]
    PROVE  ReadTo(t, reads) = ReadTo(s, reads)
<1> DEFINE n == Len(reads)
<1>1. n \in Nat
  BY DEF Within
<1>2. PICK f : Consumes(f, s, reads, n) /\ ReadTo(s, reads) = f[n]
  BY <1>1, ReadToIs
<1>3. PICK g : Consumes(g, t, reads, n) /\ ReadTo(t, reads) = g[n]
  BY <1>1, ReadToIs
<1>4. /\ \A k \in 0..n : f[k] \in 0..l /\ f[k] <= f[n]
  BY <1>1, <1>2, ConsumesGrows
<1>5. \A k \in 0..n : g[k] = f[k]
  <2> DEFINE Bad == {k \in 0..n : g[k] # f[k]}
  <2>1. SUFFICES ASSUME Bad # {} PROVE FALSE
    OBVIOUS
  <2>2. PICK m \in Bad : \A k \in Bad : m <= k
    <3>1. \A k \in Bad : k \in Nat
      BY <1>1
    <3> HIDE DEF Bad
    <3> QED BY <2>1, <3>1, LeastOf
  <2>8. \A k \in 0..n : f[k] = IF k = 0 THEN 0
                               ELSE IF reads[k][1] < f[k - 1] THEN f[k - 1] ELSE TakenOf(s, reads[k])
    BY <1>2 DEF Consumes
  <2>9. \A k \in 0..n : g[k] = IF k = 0 THEN 0
                               ELSE IF reads[k][1] < g[k - 1] THEN g[k - 1] ELSE TakenOf(t, reads[k])
    BY <1>3 DEF Consumes
  <2>3. f[m] = (IF m = 0 THEN 0
                ELSE IF reads[m][1] < f[m - 1] THEN f[m - 1] ELSE TakenOf(s, reads[m]))
        /\ g[m] = (IF m = 0 THEN 0
                ELSE IF reads[m][1] < g[m - 1] THEN g[m - 1] ELSE TakenOf(t, reads[m]))
    BY <2>8, <2>9
  <2>4. m # 0 /\ m \in 0..n
    BY <2>3
  <2>5. m - 1 \in 0..n /\ m - 1 \notin Bad /\ m \in 1..n
    BY <1>1, <2>2, <2>4
  <2>6. g[m - 1] = f[m - 1]
    BY <2>5
  <2>7. f[m] = TakenOf(s, reads[m]) => TakenOf(t, reads[m]) = TakenOf(s, reads[m])
    <3> SUFFICES ASSUME f[m] = TakenOf(s, reads[m])
                 PROVE  TakenOf(t, reads[m]) = TakenOf(s, reads[m])
      OBVIOUS
    <3>1. reads[m][1] \in 0..l /\ reads[m][2] \in (reads[m][1])..l
      BY <2>5 DEF Within
    <3>2. \A p \in 1..TakenOf(s, reads[m]) : s[p] = t[p]
      BY <1>2, <1>4, <2>4, <1>1
    <3> QED BY <3>1, <3>2, TakenAgrees
  <2> QED BY <2>3, <2>4, <2>6, <2>7
<1> QED BY <1>1, <1>2, <1>3, <1>5

-----------------------------------------------------------------------------
(* Inputs and their answers.                                                *)

Takers(k) == Path(k).takes \cap Admitted

LEMMA JobIs ==
    ASSUME job \in Jobs
    PROVE  /\ Kinds.argv \in Nat /\ Kinds.stdin \in Nat /\ Kinds.file \in Nat
           /\ Len(Program.paths) \in Nat /\ DOMAIN Program.paths = 1..Len(Program.paths)
           /\ ArgvCapacity(Request) \in Nat
           /\ Request.strategy \in {"auto", "symbolic", "concolic", "brute"}
           /\ Request.solutions \in Int /\ Program.outcome \in Fallback
           /\ job.mode \in {"module", "from", "chain"}
<1>1. JobOK(job)
  BY JobsAssumption
<1>2. /\ Kinds.argv \in Nat /\ Kinds.stdin \in Nat /\ Kinds.file \in Nat
      /\ Request.length \in Nat /\ Request.maxLength \in Nat
      /\ Len(Request.prefix) \in Nat /\ Len(Request.suffix) \in Nat /\ Len(Program.paths) \in Nat
  <2>1. \A n \in {job.kinds.argv, job.kinds.stdin, job.kinds.file, job.request.length,
                   job.request.maxLength, Len(job.request.prefix), Len(job.request.suffix),
                   Len(job.program.paths)} : n \in Nat
    BY <1>1 DEF JobOK
  <2>2. /\ job.kinds.argv \in Nat /\ job.kinds.stdin \in Nat /\ job.kinds.file \in Nat
        /\ job.request.length \in Nat /\ job.request.maxLength \in Nat
    BY <2>1
  <2>3. /\ Len(job.request.prefix) \in Nat /\ Len(job.request.suffix) \in Nat
        /\ Len(job.program.paths) \in Nat
    BY <2>1
  <2> QED BY <2>2, <2>3 DEF Kinds, Request, Program
<1>3. ArgvCapacity(Request) \in Nat
  <2>1. \A a, b \in Nat : Largest(a, b) \in Nat
    BY DEF Largest
  <2> DEFINE a == Len(Request.prefix)
             b == Len(Request.suffix)
             c == Request.length
             d == Request.maxLength
  <2>2. a \in Nat /\ b \in Nat /\ c \in Nat /\ d \in Nat
    BY <1>2
  <2>3. ArgvCapacity(Request) = Largest(d, Largest(c, a + b)) + 1
    BY DEF ArgvCapacity
  <2> HIDE DEF a, b, c, d
  <2>4. Largest(c, a + b) \in Nat
    BY <2>1, <2>2
  <2>5. Largest(d, Largest(c, a + b)) \in Nat
    BY <2>1, <2>2, <2>4
  <2> QED BY <2>3, <2>5
<1> QED BY <1>1, <1>2, <1>3 DEF JobOK, Kinds, Request, Program

LEMMA PathIs ==
    ASSUME job \in Jobs, NEW k \in DOMAIN Program.paths
    PROVE  /\ Within(Path(k).reads, Kinds.stdin) /\ Path(k).readTo \in 0..Kinds.file
           /\ \A i \in Path(k).takes :
                 \A stdin \in Text(Kinds.stdin), file \in Text(Kinds.file) :
                    /\ \A p \in 1..ReadTo(i.stdin, Path(k).reads) : stdin[p] = i.stdin[p]
                    /\ \A p \in 1..Path(k).readTo : file[p] = i.file[p]
                    => [argv |-> i.argv, stdin |-> stdin, file |-> file] \in Path(k).takes
           /\ \A l \in DOMAIN Program.paths : k # l => Path(k).takes \cap Path(l).takes = {}
<1>1. JobOK(job)
  BY JobsAssumption
<1>2. PathOK(Path(k), Kinds)
  BY <1>1 DEF JobOK, Kinds, Program, Path
<1>3. Within(Path(k).reads, Kinds.stdin)
  BY <1>2 DEF PathOK, Within
<1>4. \A l \in DOMAIN Program.paths : k # l => Path(k).takes \cap Path(l).takes = {}
  BY <1>1 DEF JobOK, Program, Path
<1> QED BY <1>2, <1>3, <1>4 DEF PathOK, Text

LEMMA AdmittedIs ==
    ASSUME job \in Jobs, NEW i \in Admitted
    PROVE  /\ i = [argv |-> i.argv, stdin |-> i.stdin, file |-> i.file]
           /\ DOMAIN i.argv = 1..Kinds.argv
           /\ \A n \in 1..Kinds.argv : /\ i.argv[n] \in Text(ArgvCapacity(Request))
                                       /\ ArgvAsked(i.argv[n], Request)
           /\ i.argv = [n \in 1..Kinds.argv |-> i.argv[n]]
           /\ i.stdin \in Text(Kinds.stdin) /\ i.file \in Text(Kinds.file)
<1>1. Admitted = Offered(Kinds, Request)
  BY JobsAssumption DEF JobOK, Kinds, Request, Admitted
<1> DEFINE argv == {s \in Text(ArgvCapacity(Request)) : ArgvAsked(s, Request)}
           stdin == {s \in Text(Kinds.stdin) :
                        Kinds.stdin = 0
                        \/ StdinAsked(s, IF Kinds.argv > 0 THEN Unhinted(Request) ELSE Request)}
<1>2. i \in [argv: [1..Kinds.argv -> argv], stdin: stdin, file: Text(Kinds.file)]
  BY <1>1 DEF Offered, Text
<1>3. i.argv \in [1..Kinds.argv -> argv] /\ i.stdin \in stdin /\ i.file \in Text(Kinds.file)
      /\ i = [argv |-> i.argv, stdin |-> i.stdin, file |-> i.file]
  <2> HIDE DEF argv, stdin
  <2> QED BY <1>2
<1> QED BY <1>3

LEMMA TextIs ==
    ASSUME NEW n \in Nat, NEW s \in Text(n)
    PROVE  s \in Seq(AnyByte) /\ Len(s) = n /\ DOMAIN s = 1..n /\ \A p \in 1..n : s[p] \in AnyByte
<1>1. s \in [1..n -> AnyByte]
  BY DEF Text
<1> HIDE DEF Text
<1> QED BY <1>1

\* An answer that is blocked blocks no input of its path with another answer.
LEMMA BlocksSeen ==
    ASSUME job \in Jobs, NEW k \in DOMAIN Program.paths, NEW i \in Takers(k), NEW j \in Takers(k),
           Blocks(Answer(j, Path(k)), i)
    PROVE  Seen(Answer(i, Path(k))) = Seen(Answer(j, Path(k)))
<1> DEFINE l == Kinds.stdin
           n == ReadTo(j.stdin, Path(k).reads)
<1>1. i \in Admitted /\ j \in Admitted /\ l \in Nat
  BY JobIs DEF Takers
<1>2. i.stdin \in Text(l) /\ j.stdin \in Text(l) /\ DOMAIN i.argv = DOMAIN j.argv
      /\ i.argv = [m \in DOMAIN i.argv |-> i.argv[m]] /\ j.argv = [m \in DOMAIN j.argv |-> j.argv[m]]
  <2>1. i.stdin \in Text(l) /\ DOMAIN i.argv = 1..Kinds.argv
        /\ i.argv = [m \in 1..Kinds.argv |-> i.argv[m]]
    BY <1>1, AdmittedIs
  <2>2. j.stdin \in Text(l) /\ DOMAIN j.argv = 1..Kinds.argv
        /\ j.argv = [m \in 1..Kinds.argv |-> j.argv[m]]
    BY <1>1, AdmittedIs
  <2> QED BY <2>1, <2>2
<1>3. i.stdin \in Seq(AnyByte) /\ Len(i.stdin) = l /\ j.stdin \in Seq(AnyByte) /\ Len(j.stdin) = l
  BY <1>1, <1>2, TextIs
<1>4. n \in 0..l
  BY <1>1, PathIs, ReadToFits
<1>5. IsPrefix(SubSeq(j.stdin, 1, n), i.stdin)
  BY DEF Blocks, Answer, StdinSolution
<1> HIDE DEF n, l
<1>6. Len(SubSeq(j.stdin, 1, n)) = n /\ \A p \in 1..n : SubSeq(j.stdin, 1, n)[p] = j.stdin[p]
      /\ SubSeq(j.stdin, 1, n) \in Seq(AnyByte)
  BY <1>1, <1>3, <1>4
<1>7. SubSeq(SubSeq(j.stdin, 1, n), 1, n) = SubSeq(i.stdin, 1, n)
  BY <1>5, <1>6 DEF IsPrefix
<1>8. \A p \in 1..n : j.stdin[p] = i.stdin[p]
  <2> SUFFICES ASSUME NEW p \in 1..n PROVE j.stdin[p] = i.stdin[p]
    OBVIOUS
  <2>1. SubSeq(SubSeq(j.stdin, 1, n), 1, n)[p] = j.stdin[p]
    BY <1>1, <1>3, <1>4, <1>6
  <2>2. SubSeq(i.stdin, 1, n)[p] = i.stdin[p]
    BY <1>1, <1>3, <1>4
  <2> QED BY <2>1, <2>2, <1>7
<1>9. ReadTo(i.stdin, Path(k).reads) = n
  BY <1>1, <1>8, PathIs, ReadToAgrees DEF n, l
<1>10. SubSeq(i.stdin, 1, n) = SubSeq(j.stdin, 1, n)
  BY <1>1, <1>3, <1>4, <1>8
<1>11. Answer(i, Path(k)).argv = Answer(j, Path(k)).argv
  <2>1. CASE i.argv = None
    <3>1. DOMAIN i.argv = {}
      BY <2>1 DEF None
    <3>2. j.argv = None
      BY <1>2, <2>1, <3>1
    <3> QED BY <2>1, <3>2 DEF Answer
  <2>2. CASE i.argv # None
    BY <2>2 DEF Blocks, Answer
  <2> QED BY <2>1, <2>2
<1> QED BY <1>9, <1>10, <1>11 DEF Seen, Answer, StdinSolution, n

PaddedTo(s, n) == s \o [p \in 1..(n - Len(s)) |-> NUL]

LEMMA PaddedIs ==
    ASSUME NEW n \in Nat, NEW s \in Seq(AnyByte), Len(s) <= n
    PROVE  /\ PaddedTo(s, n) \in Text(n)
           /\ \A p \in 1..Len(s) : PaddedTo(s, n)[p] = s[p]
           /\ \A p \in (Len(s) + 1)..n : PaddedTo(s, n)[p] = NUL
<1> DEFINE m == Len(s)
           t == [p \in 1..(n - m) |-> NUL]
<1>1. m \in 0..n /\ NUL \in AnyByte
  BY DEF AnyByte
<1>2. t \in Seq(AnyByte) /\ Len(t) = n - m /\ \A p \in 1..(n - m) : t[p] = NUL
  <2>1. n - m \in Nat
    BY <1>1
  <2> QED BY <1>1, <2>1
<1>3. PaddedTo(s, n) = s \o t
  BY DEF PaddedTo
<1> HIDE DEF t
<1>4. s \o t \in Seq(AnyByte) /\ Len(s \o t) = n
  BY <1>1, <1>2
<1>5. s \o t \in [1..n -> AnyByte]
  <2>1. \A u \in Seq(AnyByte) : u \in [1..Len(u) -> AnyByte]
    OBVIOUS
  <2> QED BY <1>4, <2>1
<1>6. \A p \in 1..n : (s \o t)[p] = IF p <= m THEN s[p] ELSE t[p - m]
  BY <1>1, <1>2
<1>7. \A p \in (m + 1)..n : p \in 1..n /\ ~(p <= m) /\ p - m \in 1..(n - m)
  BY <1>1
<1>8. \A p \in 1..m : p \in 1..n /\ p <= m
  BY <1>1
<1> QED BY <1>2, <1>3, <1>5, <1>6, <1>7, <1>8 DEF Text

\* Behind the NUL that ends an argv string there are only NULs.
LEMMA NulEnds ==
    ASSUME NEW n \in Nat, NEW s \in Text(n), NEW r, ArgvAsked(s, r), NEW p \in 1..n, s[p] = NUL
    PROVE  \A q \in p..n : s[q] = NUL
<1>1. Len(s) = n
  BY TextIs
<1>2. \A q \in 1..(n - 1) : s[q] = NUL => s[q + 1] = NUL
  BY <1>1 DEF ArgvAsked
<1> DEFINE Bad == {q \in p..n : s[q] # NUL}
<1>3. SUFFICES ASSUME Bad # {} PROVE FALSE
  OBVIOUS
<1>4. PICK q \in Bad : \A o \in Bad : q <= o
  <2>1. \A o \in Bad : o \in Nat
    OBVIOUS
  <2> HIDE DEF Bad
  <2> QED BY <1>3, <2>1, LeastOf
<1>5. q \in p..n /\ q # p /\ s[q] # NUL
  OBVIOUS
<1>6. q - 1 \in p..n /\ q - 1 \in 1..(n - 1) /\ ~(q <= q - 1) /\ (q - 1) + 1 = q
  BY <1>5
<1>7. s[q - 1] = NUL
  <2>1. q - 1 \notin Bad
    BY <1>4, <1>6
  <2> QED BY <1>6, <2>1
<1> QED BY <1>2, <1>5, <1>6, <1>7

\* The part of a string before a byte.
LEMMA BeforeIs ==
    ASSUME NEW n \in Nat, NEW s \in Text(n), NEW byte
    PROVE  /\ Before(s, byte) \in Seq(AnyByte) /\ Len(Before(s, byte)) \in 0..n
           /\ \A p \in 1..Len(Before(s, byte)) : Before(s, byte)[p] = s[p] /\ s[p] # byte
           /\ Len(Before(s, byte)) < n => s[Len(Before(s, byte)) + 1] = byte
<1>1. s \in Seq(AnyByte) /\ Len(s) = n /\ DOMAIN s = 1..n
  BY TextIs
<1>2. CASE FirstAt(s, byte) = {}
  <2>1. Before(s, byte) = s
    BY <1>2 DEF Before
  <2>2. \A p \in 1..n : s[p] # byte
    <3> DEFINE Bad == {p \in 1..n : s[p] = byte}
    <3>1. SUFFICES ASSUME Bad # {} PROVE FALSE
      OBVIOUS
    <3>2. PICK p \in Bad : \A q \in Bad : p <= q
      <4>1. \A q \in Bad : q \in Nat
        OBVIOUS
      <4> HIDE DEF Bad
      <4> QED BY <3>1, <4>1, LeastOf
    <3>3. p \in 1..n /\ s[p] = byte /\ \A q \in 1..(p - 1) : q \notin Bad /\ q \in 1..n
      BY <3>2
    <3>4. p \in FirstAt(s, byte)
      BY <1>1, <3>3 DEF FirstAt
    <3> QED BY <1>2, <3>4
  <2> QED BY <1>1, <2>1, <2>2
<1>3. CASE FirstAt(s, byte) # {}
  <2> DEFINE m == CHOOSE p \in FirstAt(s, byte) : TRUE
  <2>1. m \in FirstAt(s, byte) /\ Before(s, byte) = SubSeq(s, 1, m - 1)
    BY <1>3 DEF Before
  <2> HIDE DEF m
  <2>2. m \in 1..n /\ s[m] = byte /\ \A q \in 1..(m - 1) : s[q] # byte
    BY <1>1, <2>1 DEF FirstAt
  <2>3. m - 1 \in 0..n
    BY <2>2
  <2>4. /\ SubSeq(s, 1, m - 1) \in Seq(AnyByte) /\ Len(SubSeq(s, 1, m - 1)) = m - 1
        /\ \A p \in 1..(m - 1) : SubSeq(s, 1, m - 1)[p] = s[p]
    BY <1>1, <2>2, <2>3
  <2> QED BY <2>1, <2>2, <2>3, <2>4
<1> QED BY <1>2, <1>3

LEMMA SubText ==
    ASSUME NEW n \in Nat, NEW s \in Text(n), NEW m \in 0..n
    PROVE  /\ SubSeq(s, 1, m) \in Seq(AnyByte) /\ Len(SubSeq(s, 1, m)) = m
           /\ \A p \in 1..m : SubSeq(s, 1, m)[p] = s[p]
<1>1. s \in Seq(AnyByte) /\ Len(s) = n
  BY TextIs
<1> QED BY <1>1

\* An argv string is its bytes before the NUL, and NULs.
LEMMA ArgvReplays ==
    ASSUME NEW n \in Nat, NEW s \in Text(n), NEW r, ArgvAsked(s, r)
    PROVE  PaddedTo(Before(s, NUL), n) = s
<1> DEFINE b == Before(s, NUL)
           m == Len(b)
<1>1. b \in Seq(AnyByte) /\ m \in 0..n /\ (\A p \in 1..m : b[p] = s[p]) /\ (m < n => s[m + 1] = NUL)
  BY BeforeIs
<1> HIDE DEF b
<1>2. /\ PaddedTo(b, n) \in Text(n) /\ \A p \in 1..m : PaddedTo(b, n)[p] = b[p]
      /\ \A p \in (m + 1)..n : PaddedTo(b, n)[p] = NUL
  BY <1>1, PaddedIs
<1>3. \A p \in (m + 1)..n : s[p] = NUL
  <2>1. CASE m < n
    <3>1. m + 1 \in 1..n
      BY <1>1, <2>1
    <3> QED BY <1>1, <2>1, <3>1, NulEnds
  <2>2. CASE ~(m < n)
    BY <1>1, <2>2
  <2> QED BY <2>1, <2>2
<1>4. \A p \in 1..n : PaddedTo(b, n)[p] = s[p]
  <2> SUFFICES ASSUME NEW p \in 1..n PROVE PaddedTo(b, n)[p] = s[p]
    OBVIOUS
  <2>1. p \in 1..m \/ p \in (m + 1)..n
    BY <1>1
  <2> QED BY <1>1, <1>2, <1>3, <2>1
<1>5. PaddedTo(b, n) = s
  BY <1>2, <1>4 DEF Text
<1> QED BY <1>5 DEF b

\* What an answer is replayed with takes the path the answer comes from.
LEMMA Replays ==
    ASSUME job \in Jobs, NEW k \in DOMAIN Program.paths, NEW i \in Takers(k),
           Kinds.argv <= 1, ~Path(k).byLine
    PROVE  Replayed(Answer(i, Path(k)), Kinds, ArgvCapacity(Request)) \in Path(k).takes
<1> DEFINE answer == Answer(i, Path(k))
           capacity == ArgvCapacity(Request)
           argv == [n \in 1..Kinds.argv |-> PaddedTo(answer.argv, capacity)]
           stdin == PaddedTo(answer.stdin, Kinds.stdin)
           file == PaddedTo(answer.file, Kinds.file)
<1>1. Replayed(answer, Kinds, capacity) = [argv |-> argv, stdin |-> stdin, file |-> file]
  BY DEF Replayed, PaddedTo
<1>2. /\ i \in Admitted /\ i \in Path(k).takes
      /\ Kinds.argv \in Nat /\ Kinds.stdin \in Nat /\ Kinds.file \in Nat /\ capacity \in Nat
  BY JobIs DEF Takers
<1>3. argv = i.argv
  <2>1. /\ DOMAIN i.argv = 1..Kinds.argv /\ i.argv = [n \in 1..Kinds.argv |-> i.argv[n]]
        /\ \A n \in 1..Kinds.argv : i.argv[n] \in Text(capacity) /\ ArgvAsked(i.argv[n], Request)
    BY <1>2, AdmittedIs
  <2>2. ASSUME NEW n \in 1..Kinds.argv PROVE PaddedTo(answer.argv, capacity) = i.argv[n]
    <3>1. n = 1 /\ 1 \in DOMAIN i.argv
      BY <1>2, <2>1
    <3>2. i.argv # None
      BY <3>1 DEF None
    <3>3. answer.argv = Before(i.argv[1], NUL)
      BY <3>2 DEF Answer
    <3> QED BY <1>2, <2>1, <3>1, <3>3, ArgvReplays
  <2> QED BY <2>1, <2>2
<1>4. i.stdin \in Text(Kinds.stdin) /\ i.file \in Text(Kinds.file)
  BY <1>2, AdmittedIs
<1> DEFINE n == ReadTo(i.stdin, Path(k).reads)
<1>5. n \in 0..Kinds.stdin
  BY <1>2, PathIs, ReadToFits
<1>6. answer.stdin = SubSeq(i.stdin, 1, n)
  BY DEF Answer, StdinSolution
<1>7. stdin \in Text(Kinds.stdin) /\ \A p \in 1..n : stdin[p] = i.stdin[p]
  <2> HIDE DEF n, answer
  <2>1. /\ answer.stdin \in Seq(AnyByte) /\ Len(answer.stdin) = n
        /\ \A p \in 1..n : answer.stdin[p] = i.stdin[p]
    BY <1>2, <1>4, <1>5, <1>6, SubText
  <2>2. Len(answer.stdin) <= Kinds.stdin
    BY <1>2, <1>5, <2>1
  <2> QED BY <1>2, <2>1, <2>2, PaddedIs
<1> DEFINE before == Len(Before(i.file, NUL))
           end == Largest(before, Path(k).readTo)
<1>8. before \in 0..Kinds.file /\ Path(k).readTo \in 0..Kinds.file
  BY <1>2, <1>4, PathIs, BeforeIs
<1>9. end \in 0..Kinds.file /\ Path(k).readTo <= end
  <2> HIDE DEF before
  <2> QED BY <1>2, <1>8 DEF Largest
<1>10. answer.file = SubSeq(i.file, 1, end)
  BY DEF Answer, FileContent
<1>11. file \in Text(Kinds.file) /\ \A p \in 1..Path(k).readTo : file[p] = i.file[p]
  <2> HIDE DEF end, answer
  <2>1. /\ answer.file \in Seq(AnyByte) /\ Len(answer.file) = end
        /\ \A p \in 1..end : answer.file[p] = i.file[p]
    BY <1>2, <1>4, <1>9, <1>10, SubText
  <2>2. Len(answer.file) <= Kinds.file
    BY <1>2, <1>9, <2>1
  <2>3. file \in Text(Kinds.file) /\ \A p \in 1..end : file[p] = answer.file[p]
    BY <1>2, <2>1, <2>2, PaddedIs
  <2>4. \A p \in 1..Path(k).readTo : p \in 1..end
    BY <1>8, <1>9
  <2> QED BY <2>1, <2>3, <2>4
<1>12. [argv |-> i.argv, stdin |-> stdin, file |-> file] \in Path(k).takes
  <2> HIDE DEF stdin, file, n
  <2>1. \A p \in 1..ReadTo(i.stdin, Path(k).reads) : stdin[p] = i.stdin[p]
    BY <1>7 DEF n
  <2> QED BY <1>2, <1>7, <1>11, <2>1, PathIs
<1> HIDE DEF argv, stdin, file, answer, capacity
<1>13. [argv |-> argv, stdin |-> stdin, file |-> file] \in Path(k).takes
  BY <1>3, <1>12
<1> QED BY <1>1, <1>13 DEF answer, capacity

\* And is seen to reach what the path was found to reach.
LEMMA ReplayReaches ==
    ASSUME job \in Jobs, Apart(goal, avoid), NEW k \in DOMAIN Program.paths,
           FirstSearched(Path(k).trace, goal, avoid) = "goal", NEW i \in Takers(k),
           Kinds.argv <= 1, ~Path(k).byLine
    PROVE  Reached(Answer(i, Path(k)))
<1> DEFINE o == Replayed(Answer(i, Path(k)), Kinds, ArgvCapacity(Request))
<1>1. o \in Path(k).takes
  BY Replays
<1>2. \A l \in DOMAIN Program.paths : o \in Path(l).takes => l = k
  BY <1>1, PathIs
<1> HIDE DEF o
<1>3. (CHOOSE l \in DOMAIN Program.paths : o \in Path(l).takes) = k
  BY <1>1, <1>2
<1>4. Trace(o) = Path(k).trace
  BY <1>3 DEF Trace
<1>5. FirstWatched(Path(k).trace, goal, avoid) = "goal"
  BY SameWatch
<1> QED BY <1>4, <1>5 DEF Reached, o

-----------------------------------------------------------------------------
(* The inductive invariant of the search and of _solutions.                 *)

Targets == {k \in DOMAIN Program.paths : /\ FirstSearched(Path(k).trace, goal, avoid) = "goal"
                                         /\ Path(k).stale \/ Takers(k) # {}}
AnswersOf(k) == {Answer(i, Path(k)) : i \in Takers(k)}

Inside == {"ask", "bisect", "line", "bisectLine", "model", "verify", "native"}
Symbolic == job.mode = "module" /\ by # "brute"
\* Before concolic_search, when it is only tried because the other search gave up.
Retrying == at = "explore" /\ by = "concolic" /\ Request.strategy = "auto"

\* Where solve_module can be, and with what.
Phases ==
    /\ job \in Jobs /\ by \in {"symbolic", "concolic", "brute"} /\ Apart(goal, avoid)
    /\ at \in {"start", "explore", "pick", "again", "brute", "stage", "stageModel", "status", "done",
               "failed"} \cup Inside
    /\ at \in {"stage", "stageModel"} => job.mode # "module"
    /\ at \in {"explore", "pick", "again", "status", "brute"} \cup Inside => job.mode = "module"
    /\ at = "brute" => by = "brute"
    /\ by = "brute" => at \in {"brute", "verify", "native", "done", "failed"}
    /\ at = "start" \/ (at = "explore" /\ by = "symbolic") => index = 0 /\ unpreferred = <<>>
    /\ at = "start" => by = "symbolic" /\ solutions = <<>>
    /\ at = "stageModel" => run.found \in Nat
    /\ sure \in BOOLEAN

\* An exploration that is over and has found nothing was cut short, or there is nothing.
RunOK(r) ==
    /\ r.met \in Seq(Targets) /\ r.found \in 0..Len(r.met)
    /\ r.ended \in {"no", "exhausted", "budget", "cut"}
    /\ r.found = 0 => r.ended # "no"
    /\ r.found = 0 /\ r.ended = "exhausted" => \A k \in Targets : Takers(k) = {}

Explored ==
    Symbolic =>
        /\ at \in {"pick", "again", "status", "done"} \cup Inside \/ Retrying => RunOK(run)
        /\ at \in {"pick", "again"} \cup Inside => index \in 0..run.found /\ unpreferred \in Seq(Targets)
        /\ status = "unsat" => at = "done" /\ run.found = 0 /\ run.ended = "exhausted"

Looks(paths, answers) ==
    [path: paths, preferred: BOOLEAN, second: BOOLEAN, ends: Seq(Nat), low: Nat, high: Nat, line: Nat,
     bounded: BOOLEAN, blocked: SUBSET answers, found: BOOLEAN]
AllAnswers == UNION {AnswersOf(k) : k \in Targets}

\* What extract knows of the path it is at.
LookFits(q) ==
    /\ q \in Looks(Targets, AllAnswers)
    /\ q.blocked \subseteq AnswersOf(q.path)
    /\ \A answer \in q.blocked : AlreadySeen(answer)
    /\ q.preferred => HasPreference /\ ~q.second
    /\ q.preferred /\ q.found => \E j \in Takers(q.path) : Printably(j)
LookOK ==
    /\ LookFits(look)
    /\ at = "ask" => look.ends = <<>> /\ look.line = 0 /\ look.blocked = {} /\ look.found = FALSE

\* Each answer of the search is an input of its path; but for the one at hand, it was replayed.
Solution ==
    [answer: AllAnswers, path: Targets, verified: BOOLEAN,
     native: {"none", "not run", "running", "failed", "passed", "nothing to look for"}]
Kept(n) ==
    /\ solutions[n] \in Solution /\ solutions[n].answer \in AnswersOf(solutions[n].path)
    /\ Kinds.argv <= 1 /\ ~Path(solutions[n].path).byLine
       /\ (at = "verify" => n # Len(solutions)) => solutions[n].verified
AllKept == solutions \in Seq(Solution) /\ \A n \in 1..Len(solutions) : Kept(n)

Answering ==
    Symbolic /\ at # "failed" =>
        /\ at \in Inside => LookOK
        /\ at \in {"verify", "native"} => solutions # <<>>
        /\ AllKept

\* The answers of a path are taken, but for those that were not preferred.
Settled(k) ==
    \A i \in Takers(k) :
        \/ AlreadySeen(Answer(i, Path(k)))
        \/ HasPreference /\ ~Printably(i) /\ \E j \in Takers(k) : Printably(j)

Awaited(n) == \E m \in 1..Len(unpreferred) : unpreferred[m] = run.met[n]

\* A path that was looked at is settled, or is looked at, or is going to be looked at again.
Covered ==
    Symbolic /\ sure /\ ~Enough =>
        /\ at \in {"pick", "again"} \cup Inside =>
              \A n \in 1..index : \/ Awaited(n)
                                 \/ (at \in Inside /\ run.met[n] = look.path)
                                 \/ Settled(run.met[n])
        /\ at = "again" \/ (at \in Inside /\ look.second) => index = run.found
        /\ at \in {"status", "done"} \/ Retrying => \A n \in 1..run.found : Settled(run.met[n])

SearchInv == Phases /\ Explored /\ Answering /\ Covered

LEMMA SearchBegins == Init => SearchInv
<1> SUFFICES ASSUME Init PROVE SearchInv
  OBVIOUS
<1> USE DEF Init
<1>1. Phases
  BY DEF Phases, Apart, Inside
<1>2. Explored
  BY DEF Explored, Inside, Retrying
<1>3. Answering
  <2>1. \A S : <<>> \in Seq(S)
    BY EmptySeq
  <2>2. at = "start" /\ solutions = <<>>
    OBVIOUS
  <2> HIDE DEF Init
  <2>3. at \notin Inside /\ at \notin {"verify", "native"}
    BY <2>2 DEF Inside
  <2>4. 1..Len(solutions) = {}
    <3>1. Len(<<>>) = 0
      BY EmptySeq
    <3>2. 1..0 = {}
      OBVIOUS
    <3> QED BY <2>2, <3>1, <3>2
  <2> QED BY <2>1, <2>2, <2>3, <2>4 DEF Answering, AllKept
<1>4. Covered
  BY DEF Covered, Inside, Retrying
<1> QED BY <1>1, <1>2, <1>3, <1>4 DEF SearchInv

\* Nothing that is asked for changes behind the choice of the goal.
LEMMA SameRequest ==
    ASSUME job' = job
    PROVE  /\ Request' = Request /\ Program' = Program /\ Kinds' = Kinds /\ Admitted' = Admitted
           /\ HasPreference' = HasPreference
           /\ \A k : Path(k)' = Path(k) /\ Takers(k)' = Takers(k) /\ AnswersOf(k)' = AnswersOf(k)
<1>1. Request' = Request /\ Program' = Program /\ Kinds' = Kinds /\ Admitted' = Admitted
  BY DEF Request, Program, Kinds, Admitted
<1>2. HasPreference' = HasPreference
  BY <1>1 DEF HasPreference
<1>3. \A k : Path(k)' = Path(k)
  BY <1>1 DEF Path
<1>4. \A k : Takers(k)' = Takers(k)
  BY <1>1, <1>3 DEF Takers
<1>5. \A k : AnswersOf(k)' = AnswersOf(k)
  BY <1>3, <1>4 DEF AnswersOf
<1> QED BY <1>1, <1>2, <1>3, <1>4, <1>5

LEMMA SameTargets ==
    ASSUME job' = job, goal' = goal, avoid' = avoid
    PROVE  Targets' = Targets /\ (\A r : RunOK(r)' = RunOK(r))
<1>1. Targets' = Targets
  BY SameRequest DEF Targets
<1>2. \A r : RunOK(r)' = RunOK(r)
  BY <1>1, SameRequest DEF RunOK
<1> QED BY <1>1, <1>2

LEMMA SilenceIs ==
    ASSUME NEW q, NEW answer, Silence(q, answer), sure \in BOOLEAN
    PROVE  sure' \in BOOLEAN /\ (sure' => sure /\ (answer \/ Models(q) = {}))
BY DEF Silence

LEMMA AtLeastOne == job \in Jobs => Largest(1, Request.solutions) \in Nat \ {0}
BY JobIs DEF Largest

LEMMA FoundCounts ==
    ASSUME NEW met, NEW before \in Nat, NEW n \in Nat, NEW r \in Found(met, before, n)
    PROVE  r.found \in Nat
BY DEF Found

LEMMA NextPhases == SearchInv /\ [Next]_vars => Phases'
<1> SUFFICES ASSUME SearchInv, [Next]_vars PROVE Phases'
  OBVIOUS
<1>0. Phases /\ Explored
  BY DEF SearchInv
<1> USE <1>0 DEF Phases, Apart, Inside
<1>1. CASE Select
  BY <1>1, JobIs DEF Select, control, progress, results, Avoided
<1>2. CASE Explore
  BY <1>2 DEF Explore, control, progress, results
<1>3. CASE Concolic
  BY <1>3 DEF Concolic, control, progress, results
<1>4. CASE Conclude
  BY <1>4 DEF Conclude, control, progress, results
<1>5. CASE PickPath
  BY <1>5 DEF PickPath, control, progress, results
<1>6. CASE MorePaths
  BY <1>6 DEF MorePaths, control, progress, results
<1>7. CASE NoMorePaths
  BY <1>7 DEF NoMorePaths, control, progress, results
<1>8. CASE Again
  BY <1>8 DEF Again, control, progress, results
<1>9. CASE Ask
  BY <1>9, SilenceIs DEF Ask, control, progress, results, NextBound, Back
<1>10. CASE Bisect
  BY <1>10, SilenceIs DEF Bisect, control, progress, results
<1>11. CASE Bisected
  BY <1>11 DEF Bisected, control, progress, results, NextBound
<1>12. CASE AskLine
  BY <1>12, SilenceIs DEF AskLine, control, progress, results
<1>13. CASE BisectLine
  BY <1>13, SilenceIs DEF BisectLine, control, progress, results
<1>14. CASE BisectedLine
  BY <1>14 DEF BisectedLine, control, progress, results
<1>15. CASE Model
  BY <1>15 DEF Model, control, progress, results
<1>16. CASE Unbind
  BY <1>16, SilenceIs DEF Unbind, control, progress, results
<1>17. CASE Extracted
  BY <1>17, SilenceIs DEF Extracted, control, progress, results, Back
<1>18. CASE Verify
  BY <1>18 DEF Verify, control, progress, results, AfterVerify
<1>19. CASE NativeEnds
  BY <1>19 DEF NativeEnds, control, progress, results, AfterVerify
<1>20. CASE NativeRaises
  BY <1>20 DEF NativeRaises, control, progress, results
<1>21. CASE Try
  BY <1>21 DEF Try, control, progress, results
<1>22. CASE GiveUp
  BY <1>22 DEF GiveUp, control, progress, results
<1>23. CASE SelectFunctions
  BY <1>23 DEF SelectFunctions, control, progress, results
<1>24. CASE ExploreStage
  <2>1. run' \in Found(Returning(Stage), 0, Largest(1, Request.solutions))
    BY <1>24 DEF ExploreStage
  <2>2. Largest(1, Request.solutions) \in Nat
    BY AtLeastOne
  <2>3. run'.found \in Nat
    BY <2>1, <2>2, FoundCounts
  <2> QED BY <1>24, <2>3 DEF ExploreStage, control, progress, results
<1>25. CASE StageFails
  <2>1. sure' = FALSE \/ sure' = sure
    <3>1. /\ at = "stageModel"
          /\ run.found > 0 => sure' = FALSE
          /\ run.found = 0 => sure' = sure
      BY <1>25 DEF StageFails
    <3>2. run.found \in Nat
      BY <3>1
    <3>3. run.found > 0 \/ run.found = 0
      BY <3>2
    <3> HIDE <1>0 DEF Phases
    <3> QED BY <3>1, <3>3
  <2>2. sure' \in BOOLEAN
    <3>1. sure \in BOOLEAN
      OBVIOUS
    <3> HIDE <1>0 DEF Phases
    <3>2. CASE sure' = FALSE
      BY <3>2
    <3>3. CASE sure' = sure
      BY <3>1, <3>3
    <3> QED BY <2>1, <3>2, <3>3
  <2> QED BY <1>25, <2>2 DEF StageFails, control, progress, results
<1>26. CASE StageModel
  BY <1>26 DEF StageModel, control, progress, results
<1>27. CASE Native \/ UNCHANGED vars
  BY <1>27 DEF Native, vars, control, progress, results
<1> QED BY <1>1, <1>2, <1>3, <1>4, <1>5, <1>6, <1>7, <1>8, <1>9, <1>10, <1>11, <1>12, <1>13, <1>14, <1>15, <1>16, <1>17, <1>18, <1>19, <1>20, <1>21, <1>22, <1>23, <1>24, <1>25, <1>26, <1>27 DEF Next, Solving, Searching, Extracting, Checking

\* The goal paths are the targets, in order.
LEMMA GoalPathsAre ==
    ASSUME job \in Jobs
    PROVE  GoalPaths \in Seq(Targets) /\ Range(GoalPaths) = Targets /\ Len(GoalPaths) \in Nat
           /\ (Len(GoalPaths) = 0 => Targets = {})
<1>1. Len(Program.paths) \in Nat /\ Targets \in SUBSET (1..Len(Program.paths))
  BY JobIs DEF Targets
<1>2. GoalPaths = InOrder(Targets)
  BY DEF GoalPaths, Targets, Takers
<1>3. /\ InOrder(Targets) \in Seq(Targets) /\ Range(InOrder(Targets)) = Targets
      /\ Len(InOrder(Targets)) \in Nat /\ (Len(InOrder(Targets)) = 0 => Targets = {})
  <2> DEFINE n == Len(Program.paths)
             S == Targets
  <2>1. n \in Nat /\ S \in SUBSET (1..n)
    BY <1>1
  <2> HIDE DEF n, S
  <2>2. /\ InOrder(S) \in Seq(S) /\ Range(InOrder(S)) = S
        /\ Len(InOrder(S)) = Cardinality(S) /\ Cardinality(S) \in Nat
        /\ Len(InOrder(S)) = 0 => S = {}
    BY <2>1, OrderIs
  <2>3. Len(InOrder(S)) \in Nat
    BY <2>2
  <2> QED BY <2>2, <2>3 DEF S
<1> QED BY <1>2, <1>3

\* Whatever ends an exploration.
LEMMA FoundIs ==
    ASSUME NEW met \in Seq(Targets), NEW before \in 0..Len(met), NEW n \in Nat \ {0}, before <= n,
           Len(met) = 0 => \A k \in Targets : Takers(k) = {},
           NEW r \in Found(met, before, n)
    PROVE  RunOK(r) /\ r.found >= before /\ r.met = met
<1> DEFINE m == Len(met)
<1>1. m \in Nat
  OBVIOUS
<1>2. /\ Least(n + 1, m) \in 0..m /\ Least(n - 1, m) \in 0..m /\ Least(n, m) \in 0..m
  BY <1>1 DEF Least
<1>3. r.met = met
  BY DEF Found
<1>4. \/ r.ended = "no" /\ r.found \in n..Least(n + 1, m)
      \/ r.ended = "exhausted" /\ r.found = m
      \/ r.ended = "budget" /\ r.found \in before..Least(n - 1, m)
      \/ r.ended = "cut" /\ r.found \in before..(Least(n, m) - 1)
  BY DEF Found
<1> HIDE DEF m
<1>5. r.found \in 0..m /\ r.found >= before /\ r.ended \in {"no", "exhausted", "budget", "cut"}
      /\ (r.found = 0 => r.ended # "no")
      /\ (r.found = 0 /\ r.ended = "exhausted" => m = 0)
  <2>1. before \in 0..m
    BY DEF m
  <2>2. CASE r.ended = "no" /\ r.found \in n..Least(n + 1, m)
    BY <1>1, <1>2, <2>1, <2>2
  <2>3. CASE r.ended = "exhausted" /\ r.found = m
    BY <1>1, <2>1, <2>3
  <2>4. CASE r.ended = "budget" /\ r.found \in before..Least(n - 1, m)
    BY <1>1, <1>2, <2>1, <2>4
  <2>5. CASE r.ended = "cut" /\ r.found \in before..(Least(n, m) - 1)
    BY <1>1, <1>2, <2>1, <2>5
  <2> QED BY <1>4, <2>2, <2>3, <2>4, <2>5
<1> QED BY <1>3, <1>5 DEF RunOK, m

\* A step that leaves the exploration alone, and its count.
LEMMA ExploredStays ==
    ASSUME Phases, Explored, UNCHANGED <<control, run, index, status>>,
           unpreferred' = unpreferred \/ unpreferred' \in Seq(Targets),
           \/ at' = at
           \/ at \in {"pick", "again"} \cup Inside
              /\ at' \in {"pick", "again", "failed", "status"} \cup Inside
    PROVE  Explored'
<1> SUFFICES ASSUME Symbolic' PROVE Explored'
  BY DEF Explored
<1>1. job' = job /\ goal' = goal /\ avoid' = avoid /\ by' = by /\ run' = run /\ index' = index
      /\ status' = status
  BY DEF control
<1>2. Symbolic
  BY <1>1 DEF Symbolic
<1>3. Targets' = Targets /\ RunOK(run)' = RunOK(run)
  BY <1>1, SameTargets DEF RunOK
<1>5. Request' = Request
  BY <1>1, SameRequest
<1> QED BY <1>1, <1>2, <1>3, <1>5 DEF Explored, Inside, Retrying

\* The explorations.
LEMMA ExploreExplores == SearchInv /\ Explore => Explored'
<1> SUFFICES ASSUME SearchInv, Explore PROVE Explored'
  OBVIOUS
<1>1. Phases /\ Explored /\ job \in Jobs /\ at = "explore" /\ by = "symbolic" /\ at' = "pick"
      /\ UNCHANGED <<control, progress, status>>
  BY DEF SearchInv, Phases, Explore, results
<1>2. job' = job /\ goal' = goal /\ avoid' = avoid /\ by' = by /\ index' = 0 /\ unpreferred' = <<>>
      /\ status' = status /\ job.mode = "module" /\ status # "unsat"
  BY <1>1 DEF control, progress, Phases, Explored, Symbolic
<1> DEFINE n == Largest(1, Request.solutions)
<1>3. run' \in Found(GoalPaths, 0, n) /\ n \in Nat \ {0}
  BY <1>1, AtLeastOne DEF Explore
<1>4. /\ GoalPaths \in Seq(Targets) /\ Len(GoalPaths) \in Nat
      /\ (Len(GoalPaths) = 0 => \A k \in Targets : Takers(k) = {})
  BY <1>1, GoalPathsAre
<1>5. RunOK(run')
  <2> HIDE DEF n
  <2>1. 0 \in 0..Len(GoalPaths) /\ 0 <= n
    BY <1>3, <1>4
  <2> QED BY <1>3, <1>4, <2>1, FoundIs
<1>6. RunOK(run)' /\ Targets' = Targets
  <2>1. RunOK(run)' <=> RunOK(run')
    BY <1>2, SameTargets, SameRequest DEF RunOK
  <2> QED BY <1>2, <1>5, <2>1, SameTargets
<1>7. index' \in 0..run'.found
  BY <1>2, <1>5 DEF RunOK
<1>8. unpreferred' \in Seq(Targets)
  BY <1>2, EmptySeq
<1> QED BY <1>1, <1>2, <1>6, <1>7, <1>8 DEF Explored

LEMMA ConcolicExplores == SearchInv /\ Concolic => Explored'
<1> SUFFICES ASSUME SearchInv, Concolic PROVE Explored'
  OBVIOUS
<1>1. Phases /\ Explored /\ job \in Jobs /\ at = "explore" /\ by = "concolic"
      /\ job.mode = "module" /\ UNCHANGED <<control, results>> /\ index' = 0 /\ unpreferred' = <<>>
  BY DEF SearchInv, Phases, Concolic
<1>2. job' = job /\ goal' = goal /\ avoid' = avoid /\ by' = by /\ status' = status
      /\ Request' = Request /\ status # "unsat" /\ unpreferred' \in Seq(Targets)
  BY <1>1, EmptySeq, SameRequest DEF control, results, Explored, Symbolic
<1>3. Targets' = Targets /\ (RunOK(run)' <=> RunOK(run'))
  BY <1>2, SameTargets, SameRequest DEF RunOK
<1>4. Range(GoalPaths) = Targets
  BY <1>1, GoalPathsAre
<1>5. \A r : RunOK(r) /\ run' = r /\ at' = "pick" => Explored'
  <2> SUFFICES ASSUME NEW r, RunOK(r), run' = r, at' = "pick" PROVE Explored'
    OBVIOUS
  <2>1. RunOK(run)' /\ 0 \in 0..run'.found
    BY <1>3 DEF RunOK
  <2> QED BY <1>1, <1>2, <1>3, <2>1 DEF Explored
<1>6. ASSUME NEW k \in Followed, run' = [met |-> <<k>>, found |-> 1, ended |-> "exhausted"],
             at' = "pick"
      PROVE  Explored'
  <2>1. <<k>> \in Seq(Targets) /\ Len(<<k>>) = 1
    BY <1>4, <1>6 DEF Followed
  <2>2. RunOK(run')
    BY <1>6, <2>1 DEF RunOK
  <2> QED BY <1>5, <1>6, <2>2
<1>7. ASSUME NEW e, e \in {"budget", "cut"} \/ (e = "exhausted" /\ Followed = {}),
             run' = [met |-> <<>>, found |-> 0, ended |-> e], at' = "pick"
      PROVE  Explored'
  <2>1. <<>> \in Seq(Targets) /\ Len(<<>>) = 0
    BY EmptySeq
  <2>2. e = "exhausted" => \A k \in Targets : Takers(k) = {}
    BY <1>4, <1>7 DEF Followed, Takers
  <2>3. RunOK(run')
    BY <1>7, <2>1, <2>2 DEF RunOK
  <2> QED BY <1>5, <1>7, <2>3
<1>8. ASSUME Request.strategy = "auto", at' = "done", run' = run
      PROVE  Explored'
  <2>1. RunOK(run)
    BY <1>1, <1>8 DEF Explored, Symbolic, Retrying
  <2>2. RunOK(run)'
    BY <1>3, <1>8, <2>1
  <2> QED BY <1>1, <1>2, <1>8, <2>2 DEF Explored, Inside
<1>9. \/ \E k \in Followed :
            run' = [met |-> <<k>>, found |-> 1, ended |-> "exhausted"] /\ at' = "pick"
      \/ \E e \in {"budget", "cut"} \cup (IF Followed = {} THEN {"exhausted"} ELSE {}) :
            run' = [met |-> <<>>, found |-> 0, ended |-> e] /\ at' = "pick"
      \/ Request.strategy = "auto" /\ at' = "done" /\ run' = run
  BY DEF Concolic
<1> QED BY <1>6, <1>7, <1>8, <1>9

LEMMA MoreExplores == SearchInv /\ MorePaths => Explored'
<1> SUFFICES ASSUME SearchInv, MorePaths, Symbolic' PROVE Explored'
  BY DEF Explored
<1>1. /\ Phases /\ Explored /\ at = "pick" /\ UNCHANGED <<control, progress, results>>
      /\ index >= run.found /\ run.ended \notin {"exhausted", "cut"}
      /\ at' \in {"pick", "again"}
  BY DEF SearchInv, MorePaths
<1>2. /\ job' = job /\ goal' = goal /\ avoid' = avoid /\ by' = by /\ status' = status
      /\ index' = index /\ unpreferred' = unpreferred
  BY <1>1 DEF control, progress, results
<1>3. Symbolic /\ RunOK(run) /\ index \in 0..run.found /\ unpreferred \in Seq(Targets)
      /\ status # "unsat"
  BY <1>1, <1>2 DEF Explored, Symbolic
<1>4. Targets' = Targets /\ (RunOK(run)' <=> RunOK(run'))
  BY <1>2, SameTargets, SameRequest DEF RunOK
<1>5. run.met \in Seq(Targets) /\ run.found \in 0..Len(run.met) /\ run.found \in Nat
  BY <1>3 DEF RunOK
<1>6. RunOK(run') /\ run'.found >= run.found /\ run'.found \in Nat
  <2>1. CASE run.ended = "budget"
    <3>1. run' = run
      BY <2>1 DEF MorePaths
    <3> QED BY <1>3, <1>5, <3>1
  <2>2. CASE run.ended # "budget"
    <3>1. run' \in Found(run.met, run.found, index + 1)
      BY <2>2 DEF MorePaths
    <3>2. run.ended = "no" /\ run.found # 0
      BY <1>1, <1>3, <2>2 DEF RunOK
    <3> DEFINE met == run.met
               before == run.found
               n == index + 1
    <3>3. met \in Seq(Targets) /\ before \in 0..Len(met) /\ n \in Nat \ {0} /\ before <= n
          /\ Len(met) # 0
      <4>1. index \in Nat /\ index >= before /\ Len(met) \in Nat
        BY <1>1, <1>3, <1>5
      <4> QED BY <1>5, <3>2, <4>1
    <3>4. run' \in Found(met, before, n)
      BY <3>1
    <3> HIDE DEF met, before, n
    <3>5. RunOK(run') /\ run'.found >= before
      BY <3>3, <3>4, FoundIs
    <3>6. run'.found \in Nat
      BY <3>5 DEF RunOK
    <3> QED BY <3>5, <3>6 DEF before
  <2> QED BY <2>1, <2>2
<1>7. index' \in 0..run'.found
  BY <1>2, <1>3, <1>5, <1>6
<1>8. RunOK(run)'
  BY <1>4, <1>6
<1>9. unpreferred' \in Seq(Targets')
  BY <1>2, <1>3, <1>4
<1> HIDE DEF RunOK
<1> QED BY <1>1, <1>2, <1>3, <1>7, <1>8, <1>9 DEF Explored

LEMMA ConcludeExplores == SearchInv /\ Conclude => Explored'
<1> SUFFICES ASSUME SearchInv, Conclude, Symbolic' PROVE Explored'
  BY DEF Explored
<1>1. /\ Phases /\ Explored /\ at = "status" /\ job \in Jobs
      /\ UNCHANGED <<job, goal, avoid, run, progress>> /\ status' = Status
      /\ \/ by = "symbolic" /\ Request.strategy = "auto" /\ Status \in Fallback
            /\ by' = "concolic" /\ at' = "explore"
         \/ by' = by /\ at' = "done"
  BY DEF SearchInv, Conclude, Phases
<1>2. Targets' = Targets /\ (RunOK(run)' <=> RunOK(run)) /\ Request' = Request
  BY <1>1, SameTargets, SameRequest
<1>3. Symbolic /\ RunOK(run)
  BY <1>1 DEF Explored, Symbolic
<1>4. Status = "unsat" => run.found = 0 /\ run.ended = "exhausted"
  <2>1. Program.outcome # "unsat"
    BY <1>1, JobIs DEF Fallback
  <2>2. run.found \in Nat /\ run.ended \in {"no", "exhausted", "budget", "cut"}
        /\ (run.found = 0 => run.ended # "no")
    BY <1>3 DEF RunOK
  <2> QED BY <2>1, <2>2 DEF Status
<1>5. CASE by = "symbolic" /\ Request.strategy = "auto" /\ Status \in Fallback
           /\ by' = "concolic" /\ at' = "explore"
  <2>1. status' # "unsat"
    BY <1>1, <1>5 DEF Fallback
  <2> QED BY <1>2, <1>3, <1>5, <2>1 DEF Explored, Inside
<1>6. CASE by' = by /\ at' = "done"
  BY <1>1, <1>2, <1>3, <1>4, <1>6 DEF Explored, Inside
<1> QED BY <1>1, <1>5, <1>6

\* extract is at a target, and leaves the paths it has gone by in order.
LEMMA LookIs ==
    ASSUME SearchInv, Symbolic, at \in Inside
    PROVE  LookOK /\ look.path \in Targets /\ unpreferred \in Seq(Targets)
           /\ index \in 0..run.found /\ RunOK(run)
<1>1. LookOK
  BY DEF SearchInv, Answering, Inside
<1>2. look.path \in Targets
  BY <1>1 DEF LookOK, LookFits, Looks
<1>3. unpreferred \in Seq(Targets) /\ index \in 0..run.found /\ RunOK(run)
  BY DEF SearchInv, Explored
<1> QED BY <1>1, <1>2, <1>3

LEMMA BackExplores ==
    ASSUME SearchInv, at \in Inside, UNCHANGED <<control, run, index, status>>, NEW found, Back(found)
    PROVE  Explored'
<1> SUFFICES ASSUME Symbolic' PROVE Explored'
  BY DEF Explored
<1>1. Symbolic
  BY DEF control, Symbolic
<1>2. look.path \in Targets /\ unpreferred \in Seq(Targets)
  BY <1>1, LookIs
<1>3. unpreferred' = unpreferred \/ unpreferred' \in Seq(Targets)
  <2>1. Append(unpreferred, look.path) \in Seq(Targets)
    BY <1>2
  <2> QED BY <2>1 DEF Back
<1>4. at' \in {"pick", "again"} /\ Phases /\ Explored
  BY DEF Back, SearchInv
<1> QED BY <1>3, <1>4, ExploredStays

LEMMA NextExplored == SearchInv /\ [Next]_vars => Explored'
<1> SUFFICES ASSUME SearchInv, [Next]_vars PROVE Explored'
  OBVIOUS
<1>0. Phases /\ Explored
  BY DEF SearchInv
<1> USE DEF control, progress, results
<1>1. CASE Select
  <2>1. job' = job /\ job.mode = "module" /\ run' = run /\ index' = 0 /\ unpreferred' = <<>>
        /\ status' = status /\ at' \in {"failed", "brute", "explore"}
        /\ Request.strategy \in {"auto", "symbolic", "concolic", "brute"} /\ Request' = Request
        /\ (at' = "explore" => by' = IF Request.strategy = "auto" THEN "symbolic" ELSE Request.strategy)
    BY <1>0, <1>1, JobIs, SameRequest DEF Select, Phases
  <2>2. status # "unsat"
    BY <1>0, <1>1 DEF Select, Phases, Explored, Symbolic
  <2>3. ~ Retrying'
    BY <2>1 DEF Retrying
  <2> QED BY <2>1, <2>2, <2>3 DEF Explored, Inside
<1>2. CASE Explore
  BY <1>2, ExploreExplores
<1>3. CASE Concolic
  BY <1>3, ConcolicExplores
<1>4. CASE Conclude
  BY <1>4, ConcludeExplores
<1>5. CASE PickPath
  <2> SUFFICES ASSUME Symbolic' PROVE Explored'
    BY DEF Explored
  <2>1. /\ job' = job /\ goal' = goal /\ avoid' = avoid /\ by' = by /\ run' = run
        /\ unpreferred' = unpreferred /\ status' = status /\ index' = index + 1
        /\ at = "pick" /\ at' = "ask" /\ index < run.found
    BY <1>5 DEF PickPath
  <2>2. Symbolic /\ RunOK(run) /\ index \in 0..run.found /\ unpreferred \in Seq(Targets)
        /\ status # "unsat"
    BY <1>0, <2>1 DEF Explored, Symbolic
  <2>3. run.found \in Nat /\ index' \in 0..run'.found
    BY <2>1, <2>2 DEF RunOK
  <2>4. Targets' = Targets /\ RunOK(run)'
    BY <2>1, <2>2, SameTargets DEF RunOK
  <2> QED BY <2>1, <2>2, <2>3, <2>4 DEF Explored
<1>6. CASE MorePaths
  BY <1>6, MoreExplores
<1>7. CASE NoMorePaths
  BY <1>0, <1>7, ExploredStays DEF NoMorePaths
<1>8. CASE Again
  <2> SUFFICES ASSUME Symbolic' PROVE Explored'
    BY DEF Explored
  <2>1. Symbolic /\ at = "again"
    BY <1>8 DEF Again, Symbolic
  <2>2. unpreferred \in Seq(Targets)
    BY <1>0, <2>1 DEF Explored
  <2>3. unpreferred' = unpreferred \/ unpreferred' \in Seq(Targets)
    <3>1. unpreferred # <<>> => Tail(unpreferred) \in Seq(Targets)
      BY <2>2
    <3> QED BY <1>8, <3>1 DEF Again
  <2> QED BY <1>0, <1>8, <2>3, ExploredStays DEF Again, Inside
<1>9. CASE Ask
  <2>1. at \in Inside /\ UNCHANGED <<control, run, index, status>>
    BY <1>9 DEF Ask, Inside
  <2>2. \/ Back(FALSE)
        \/ NextBound(look) /\ unpreferred' = unpreferred
    BY <1>9 DEF Ask
  <2>3. CASE Back(FALSE)
    BY <2>1, <2>3, BackExplores
  <2>4. CASE NextBound(look) /\ unpreferred' = unpreferred
    BY <1>0, <2>1, <2>4, ExploredStays DEF NextBound, Inside
  <2> QED BY <2>2, <2>3, <2>4
<1>10. CASE Bisect
  BY <1>0, <1>10, ExploredStays DEF Bisect
<1>11. CASE Bisected
  BY <1>0, <1>11, ExploredStays DEF Bisected, NextBound, Inside
<1>12. CASE AskLine
  BY <1>0, <1>12, ExploredStays DEF AskLine, Inside
<1>13. CASE BisectLine
  BY <1>0, <1>13, ExploredStays DEF BisectLine
<1>14. CASE BisectedLine
  BY <1>0, <1>14, ExploredStays DEF BisectedLine, Inside
<1>15. CASE Model
  BY <1>0, <1>15, ExploredStays DEF Model, Inside
<1>16. CASE Unbind
  BY <1>0, <1>16, ExploredStays DEF Unbind
<1>17. CASE Extracted
  <2>1. at \in Inside /\ UNCHANGED <<control, run, index, status>> /\ Back(look.found)
    BY <1>17 DEF Extracted, Inside
  <2> QED BY <2>1, BackExplores
<1>18. CASE Verify
  <2> SUFFICES ASSUME Symbolic' PROVE Explored'
    BY DEF Explored
  <2>1. by # "brute"
    BY <1>18 DEF Verify, Symbolic
  <2> QED BY <1>0, <1>18, <2>1, ExploredStays DEF Verify, AfterVerify, Inside
<1>19. CASE NativeEnds
  <2> SUFFICES ASSUME Symbolic' PROVE Explored'
    BY DEF Explored
  <2>1. by # "brute"
    BY <1>19 DEF NativeEnds, Symbolic
  <2> QED BY <1>0, <1>19, <2>1, ExploredStays DEF NativeEnds, AfterVerify, Inside
<1>20. CASE NativeRaises
  BY <1>0, <1>20, ExploredStays DEF NativeRaises, Inside
<1>21. CASE Try \/ GiveUp
  <2>1. by' = "brute"
    BY <1>0, <1>21 DEF Try, GiveUp, Phases
  <2> QED BY <2>1 DEF Explored, Symbolic
<1>22. CASE SelectFunctions \/ ExploreStage \/ StageFails \/ StageModel
  <2>1. job'.mode # "module"
    BY <1>0, <1>22 DEF SelectFunctions, ExploreStage, StageFails, StageModel, Phases
  <2> QED BY <2>1 DEF Explored, Symbolic
<1>23. CASE Native \/ UNCHANGED vars
  BY <1>0, <1>23, ExploredStays DEF Native, vars
<1> QED BY <1>1, <1>2, <1>3, <1>4, <1>5, <1>6, <1>7, <1>8, <1>9, <1>10, <1>11, <1>12, <1>13, <1>14, <1>15, <1>16, <1>17, <1>18, <1>19, <1>20, <1>21, <1>22, <1>23 DEF Next, Solving, Searching, Extracting, Checking

-----------------------------------------------------------------------------
(* extract, and the answers it leaves.                                      *)

With(q, ends, low, high, line) ==
    [q EXCEPT !.ends = ends, !.low = low, !.high = high, !.line = line]

LEMMA WithFits ==
    ASSUME NEW q, LookFits(q), NEW ends \in Seq(Nat), NEW low \in Nat, NEW high \in Nat,
           NEW line \in Nat
    PROVE  LookFits(With(q, ends, low, high, line))
<1> DEFINE r == With(q, ends, low, high, line)
<1>1. q \in Looks(Targets, AllAnswers)
  BY DEF LookFits
<1>2. r \in Looks(Targets, AllAnswers)
  BY <1>1 DEF Looks, With
<1>3. r.path = q.path /\ r.blocked = q.blocked /\ r.preferred = q.preferred /\ r.second = q.second
      /\ r.found = q.found
  BY <1>1 DEF Looks, With
<1> HIDE DEF r
<1> QED BY <1>2, <1>3 DEF LookFits, r

\* What is asked about stays what it is, and no answer is forgotten.
LEMMA FitsLater ==
    ASSUME UNCHANGED <<job, goal, avoid>>, NEW q, LookFits(q), look' = q,
           \A answer : AlreadySeen(answer) => AlreadySeen(answer)'
    PROVE  LookFits(look)'
<1>1. Targets' = Targets /\ HasPreference' = HasPreference
      /\ \A k : Takers(k)' = Takers(k) /\ AnswersOf(k)' = AnswersOf(k)
  BY SameTargets, SameRequest
<1>2. AllAnswers' = AllAnswers
  BY <1>1 DEF AllAnswers
<1>3. q \in Looks(Targets, AllAnswers)
  BY DEF LookFits
<1>4. look'.path = q.path /\ look'.blocked = q.blocked
  OBVIOUS
<1>5. Takers(look.path)' = Takers(q.path) /\ AnswersOf(look.path)' = AnswersOf(q.path)
  BY <1>1, <1>4, SameRequest DEF Takers, AnswersOf
<1> QED BY <1>1, <1>2, <1>3, <1>4, <1>5 DEF LookFits

\* The solutions stay what they are.
LEMMA KeptLater ==
    ASSUME UNCHANGED <<job, goal, avoid, solutions>>, AllKept, at # "verify" \/ at' = at
    PROVE  AllKept' /\ \A answer : AlreadySeen(answer) => AlreadySeen(answer)'
<1>1. Targets' = Targets /\ Kinds' = Kinds
      /\ \A k : AnswersOf(k)' = AnswersOf(k) /\ Path(k)' = Path(k)
  BY SameTargets, SameRequest
<1>2. AllAnswers' = AllAnswers
  BY <1>1 DEF AllAnswers
<1>3. Solution' = Solution
  BY <1>1, <1>2 DEF Solution
<1>4. \A n \in 1..Len(solutions) : Kept(n)'
  <2> SUFFICES ASSUME NEW n \in 1..Len(solutions) PROVE Kept(n)'
    OBVIOUS
  <2>1. Kept(n)
    BY DEF AllKept
  <2>2. AnswersOf(solutions[n].path)' = AnswersOf(solutions[n].path)
        /\ Path(solutions[n].path)' = Path(solutions[n].path)
    BY SameRequest DEF Path, AnswersOf, Takers
  <2> QED BY <1>1, <1>3, <2>1, <2>2 DEF Kept
<1>5. \A answer : AlreadySeen(answer) => AlreadySeen(answer)'
  BY DEF AlreadySeen
<1> QED BY <1>3, <1>4, <1>5 DEF AllKept

\* A question or its answer leaves the solutions.
LEMMA AsksOn ==
    ASSUME SearchInv, Symbolic', at \in Inside \ {"verify"}, UNCHANGED <<control, solutions>>,
           NEW q, LookFits(q), look' = q, at' \in {"bisect", "line", "bisectLine", "model"}
    PROVE  Answering'
<1>1. job' = job /\ goal' = goal /\ avoid' = avoid /\ by' = by /\ solutions' = solutions
  BY DEF control
<1>2. AllKept /\ at # "verify"
  BY <1>1 DEF SearchInv, Answering, Symbolic, Inside
<1>3. AllKept' /\ \A answer : AlreadySeen(answer) => AlreadySeen(answer)'
  BY <1>1, <1>2, KeptLater
<1>4. LookFits(look)'
  BY <1>1, <1>3, FitsLater
<1> QED BY <1>3, <1>4 DEF Answering, LookOK

\* solve_module goes on outside of extract.
LEMMA GoesOn ==
    ASSUME SearchInv, Symbolic => at # "failed" /\ at # "verify",
           UNCHANGED <<job, goal, avoid, solutions>>, Symbolic' => Symbolic, at' \notin Inside
    PROVE  Answering'
<1> SUFFICES ASSUME Symbolic' PROVE Answering'
  BY DEF Answering
<1>1. AllKept /\ at # "verify"
  BY DEF SearchInv, Answering
<1>2. AllKept'
  BY <1>1, KeptLater
<1> QED BY <1>2 DEF Answering, Inside

\* extract begins with a path.
LEMMA Begins ==
    ASSUME SearchInv, at \in {"pick", "again"}, UNCHANGED <<control, solutions>>, at' = "ask",
           NEW k \in Targets, NEW preferred \in BOOLEAN, NEW second \in BOOLEAN,
           preferred => HasPreference /\ ~second, look' = LookAt(k, preferred, second)
    PROVE  Answering'
<1> SUFFICES ASSUME Symbolic' PROVE Answering'
  BY DEF Answering
<1> DEFINE q == LookAt(k, preferred, second)
<1>1. job' = job /\ goal' = goal /\ avoid' = avoid /\ by' = by /\ solutions' = solutions
  BY DEF control
<1>2. AllKept
  BY <1>1 DEF SearchInv, Answering, Symbolic
<1>3. AllKept' /\ \A answer : AlreadySeen(answer) => AlreadySeen(answer)'
  BY <1>1, <1>2, KeptLater
<1>4. <<>> \in Seq(Nat)
  BY EmptySeq
<1>5. q \in Looks(Targets, AllAnswers)
  BY <1>4 DEF LookAt, Looks
<1>6. q.path = k /\ q.preferred = preferred /\ q.second = second /\ q.blocked = {} /\ q.found = FALSE
      /\ q.ends = <<>> /\ q.line = 0
  BY DEF LookAt
<1> HIDE DEF q
<1>7. LookFits(q)
  BY <1>5, <1>6 DEF LookFits
<1>8. look' = q
  BY DEF q
<1>9. LookFits(look)'
  BY <1>1, <1>3, <1>7, <1>8, FitsLater
<1>10. LookOK'
  BY <1>6, <1>8, <1>9 DEF LookOK
<1> QED BY <1>1, <1>3, <1>10 DEF Answering

LEMMA NextBoundFits ==
    ASSUME job \in Jobs, NEW q, LookFits(q), NextBound(q)
    PROVE  (\E r : LookFits(r) /\ look' = r) /\ at' \in {"bisect", "line", "model"}
<1>1. q \in Looks(Targets, AllAnswers)
  BY DEF LookFits
<1>2. [q EXCEPT !.low = 1, !.high = ArgvCapacity(Request)]
        = With(q, q.ends, 1, ArgvCapacity(Request), q.line)
      /\ q.ends \in Seq(Nat) /\ q.line \in Nat
  BY <1>1 DEF Looks, With
<1>3. ArgvCapacity(Request) \in Nat /\ 1 \in Nat
  BY JobIs
<1>4. LookFits([q EXCEPT !.low = 1, !.high = ArgvCapacity(Request)])
  <2>1. LookFits(With(q, q.ends, 1, ArgvCapacity(Request), q.line))
    BY <1>2, <1>3, WithFits
  <2> QED BY <1>2, <2>1
<1> QED BY <1>4 DEF NextBound

LEMMA HalvedFits ==
    ASSUME NEW q, LookFits(q), NEW middle \in Nat, NEW answer
    PROVE  LookFits(Halved(q, middle, answer))
<1>1. q \in Looks(Targets, AllAnswers)
  BY DEF LookFits
<1>2. /\ [q EXCEPT !.high = middle] = With(q, q.ends, q.low, middle, q.line)
      /\ [q EXCEPT !.low = middle + 1] = With(q, q.ends, middle + 1, q.high, q.line)
      /\ q.ends \in Seq(Nat) /\ q.line \in Nat /\ q.low \in Nat /\ q.high \in Nat
  BY <1>1 DEF Looks, With
<1>3. middle + 1 \in Nat
  OBVIOUS
<1>4. LookFits([q EXCEPT !.high = middle]) /\ LookFits([q EXCEPT !.low = middle + 1])
  BY <1>2, <1>3, WithFits
<1> QED BY <1>4 DEF Halved

\* A model's answer is one of its path, kept unless it was.
LEMMA ModelAnswers == SearchInv /\ Model => Answering'
<1> SUFFICES ASSUME SearchInv, Model, Symbolic' PROVE Answering'
  BY DEF Answering
<1>1. /\ job' = job /\ goal' = goal /\ avoid' = avoid /\ by' = by /\ at = "model"
      /\ job \in Jobs
  BY DEF Model, control, SearchInv, Phases
<1>2. Symbolic /\ at \in Inside
  BY <1>1 DEF Symbolic, Inside
<1>3. LookFits(look) /\ AllKept
  BY <1>1, <1>2 DEF SearchInv, Answering, LookOK
<1>4. PICK i \in Models(look) :
         LET answer == Answer(i, Path(look.path))
         IN /\ look' = [look EXCEPT !.blocked = @ \cup {answer}, !.found = TRUE]
            /\ IF AlreadySeen(answer) THEN UNCHANGED <<at, solutions>>
               ELSE /\ at' = "verify"
                    /\ solutions' = Append(solutions, [answer |-> answer, path |-> look.path,
                                                       verified |-> FALSE, native |-> "none"])
  BY DEF Model
<1>15. PICK answer : answer = Answer(i, Path(look.path))
  OBVIOUS
<1> DEFINE k == look.path
           q == [look EXCEPT !.blocked = @ \cup {answer}, !.found = TRUE]
           new == [answer |-> answer, path |-> k, verified |-> FALSE, native |-> "none"]
<1>5. look \in Looks(Targets, AllAnswers) /\ k \in Targets
  BY <1>3 DEF LookFits, Looks
<1>6. i \in Takers(k) /\ (look.preferred => Printably(i))
  BY DEF Models, Takers, Fits
<1>7. answer \in AnswersOf(k) /\ answer \in AllAnswers
  <2>1. answer \in AnswersOf(k)
    BY <1>6, <1>15 DEF AnswersOf
  <2> QED BY <1>5, <2>1 DEF AllAnswers
<1>8. look' = q
      /\ IF AlreadySeen(answer) THEN at' = at /\ solutions' = solutions
         ELSE at' = "verify" /\ solutions' = Append(solutions, new)
  BY <1>4, <1>15
<1>9. /\ q \in Looks(Targets, AllAnswers)
      /\ q.path = k /\ q.preferred = look.preferred /\ q.second = look.second
      /\ q.blocked = look.blocked \cup {answer} /\ q.found = TRUE
  BY <1>5, <1>7 DEF Looks
<1> HIDE DEF q, new, k
<1>10. Targets' = Targets /\ AllAnswers' = AllAnswers /\ Solution' = Solution /\ Kinds' = Kinds
       /\ HasPreference' = HasPreference
  <2>1. Targets' = Targets /\ Kinds' = Kinds /\ HasPreference' = HasPreference
        /\ \A l : AnswersOf(l)' = AnswersOf(l)
    BY <1>1, SameTargets, SameRequest
  <2>2. AllAnswers' = AllAnswers
    BY <2>1 DEF AllAnswers
  <2> QED BY <2>1, <2>2 DEF Solution
<1>11. (\A a : AlreadySeen(a) => AlreadySeen(a)') /\ AlreadySeen(answer)'
  <2>1. CASE AlreadySeen(answer)
    BY <1>8, <2>1 DEF AlreadySeen
  <2>2. CASE ~AlreadySeen(answer)
    <3>1. solutions' = Append(solutions, new) /\ solutions \in Seq(Solution) /\ new.answer = answer
      BY <1>3, <1>8, <2>2 DEF AllKept, new
    <3>2. /\ \A n \in DOMAIN solutions : n \in DOMAIN solutions' /\ solutions'[n] = solutions[n]
          /\ \E n \in DOMAIN solutions' : solutions'[n] = new
      <4>1. new \in Solution
        BY <1>5, <1>7 DEF Solution, new, k
      <4> QED BY <3>1, <4>1
    <3> QED BY <3>1, <3>2 DEF AlreadySeen
  <2> QED BY <2>1, <2>2
<1>12. LookFits(look)'
  <2>1. look'.path = k /\ Takers(look.path)' = Takers(k) /\ AnswersOf(look.path)' = AnswersOf(k)
    <3>1. look'.path = k
      BY <1>8, <1>9
    <3> QED BY <1>1, <3>1, SameRequest DEF Takers, AnswersOf
  <2>2. look'.blocked \subseteq AnswersOf(k)
    BY <1>3, <1>7, <1>8, <1>9 DEF LookFits, k
  <2>3. \A a \in look'.blocked : AlreadySeen(a)'
    <3>1. \A a \in look.blocked : AlreadySeen(a)'
      BY <1>3, <1>11 DEF LookFits
    <3> QED BY <1>8, <1>9, <1>11, <3>1
  <2>4. look'.preferred => HasPreference /\ ~look'.second /\ \E j \in Takers(k) : Printably(j)
    BY <1>3, <1>6, <1>8, <1>9 DEF LookFits
  <2>5. look' \in Looks(Targets, AllAnswers)
    BY <1>8, <1>9
  <2> QED BY <1>10, <2>1, <2>2, <2>3, <2>4, <2>5 DEF LookFits
<1>13. CASE AlreadySeen(answer)
  <2>1. at' = "model" /\ solutions' = solutions
    BY <1>1, <1>8, <1>13
  <2>2. AllKept'
    BY <1>1, <1>3, <2>1, KeptLater
  <2> QED BY <1>12, <2>1, <2>2 DEF Answering, LookOK
<1>14. CASE ~AlreadySeen(answer)
  <2>1. at' = "verify" /\ solutions' = Append(solutions, new) /\ solutions \in Seq(Solution)
    BY <1>3, <1>8, <1>14 DEF AllKept
  <2>2. new \in Solution /\ new.answer = answer /\ new.path = k
    BY <1>5, <1>7 DEF Solution, new, k
  <2>3. /\ solutions' \in Seq(Solution) /\ solutions' # <<>> /\ Len(solutions') = Len(solutions) + 1
        /\ solutions'[Len(solutions')] = new
        /\ \A n \in 1..Len(solutions) : solutions'[n] = solutions[n]
    BY <2>1, <2>2
  <2>4. ASSUME NEW n \in 1..Len(solutions') PROVE Kept(n)'
    <3>1. CASE n = Len(solutions')
      <4>1. solutions'[n] = new /\ AnswersOf(solutions[n].path)' = AnswersOf(k)
        <5>1. solutions'[n] = new
          BY <2>3, <3>1
        <5> QED BY <1>1, <2>2, <5>1, SameRequest DEF AnswersOf, Takers
      <4> QED BY <1>7, <1>10, <2>1, <2>2, <3>1, <4>1 DEF Kept
    <3>2. CASE n # Len(solutions')
      <4>1. n \in 1..Len(solutions) /\ solutions'[n] = solutions[n]
        BY <2>1, <2>3, <3>2
      <4>2. Kept(n)
        BY <1>3, <4>1 DEF AllKept
      <4>3. AnswersOf(solutions[n].path)' = AnswersOf(solutions[n].path)
            /\ Path(solutions[n].path)' = Path(solutions[n].path)
        BY <1>1, <4>1, SameRequest DEF AnswersOf, Takers, Path
      <4> QED BY <1>1, <1>10, <4>1, <4>2, <4>3 DEF Kept
    <3> QED BY <3>1, <3>2
  <2>5. AllKept'
    BY <1>10, <2>3, <2>4 DEF AllKept
  <2> QED BY <1>12, <2>1, <2>3, <2>5 DEF Answering, LookOK
<1> QED BY <1>13, <1>14

\* What was found out about the latest answer.
LEMMA LatestChecked ==
    ASSUME UNCHANGED <<job, goal, avoid>>, AllKept, solutions # <<>>, at' # "verify",
           NEW new \in Solution, solutions' = [solutions EXCEPT ![Latest] = new],
           new.answer = solutions[Latest].answer, new.path = solutions[Latest].path,
           Kinds.argv <= 1 /\ ~Path(new.path).byLine => new.verified
    PROVE  AllKept' /\ solutions' # <<>> /\ \A a : AlreadySeen(a) => AlreadySeen(a)'
<1>1. PICK m : m = Latest
  OBVIOUS
<1>2. solutions \in Seq(Solution) /\ m = Len(solutions) /\ m \in Nat \ {0} /\ m \in 1..m
  BY <1>1 DEF AllKept, Latest
<1>3. /\ solutions' \in Seq(Solution) /\ Len(solutions') = m
      /\ \A n \in 1..m : solutions'[n] = IF n = m THEN new ELSE solutions[n]
      /\ DOMAIN solutions' = DOMAIN solutions /\ DOMAIN solutions = 1..m
  BY <1>1, <1>2
<1>4. Targets' = Targets /\ AllAnswers' = AllAnswers /\ Solution' = Solution /\ Kinds' = Kinds
  <2>1. Targets' = Targets /\ Kinds' = Kinds /\ \A l : AnswersOf(l)' = AnswersOf(l)
    BY SameTargets, SameRequest
  <2>2. AllAnswers' = AllAnswers
    BY <2>1 DEF AllAnswers
  <2> QED BY <2>1, <2>2 DEF Solution
<1>5. \A n \in 1..m : solutions'[n].answer = solutions[n].answer /\ solutions'[n].path = solutions[n].path
  BY <1>1, <1>3
<1>6. ASSUME NEW a, AlreadySeen(a) PROVE AlreadySeen(a)'
  BY <1>3, <1>5, <1>6 DEF AlreadySeen
<1>7. ASSUME NEW n \in 1..m PROVE Kept(n)'
  <2>1. Kept(n)
    BY <1>2 DEF AllKept
  <2>2. PICK k : k = solutions[n].path
    OBVIOUS
  <2>3. solutions'[n].path = k /\ AnswersOf(solutions[n].path)' = AnswersOf(k)
        /\ Path(solutions[n].path)' = Path(k)
    <3>1. solutions'[n].path = k
      BY <1>5, <2>2
    <3> QED BY <3>1, SameRequest DEF AnswersOf, Takers, Path
  <2>4. solutions'[n] \in Solution /\ solutions'[n].answer \in AnswersOf(k)
    BY <1>3, <1>5, <2>1, <2>2 DEF Kept
  <2>5. Kinds.argv <= 1 /\ ~Path(k).byLine => solutions'[n].verified
    <3>1. CASE n = m
      BY <1>1, <1>3, <1>5, <2>2, <3>1
    <3>2. CASE n # m
      BY <1>2, <1>3, <2>1, <2>2, <3>2 DEF Kept
    <3> QED BY <3>1, <3>2
  <2> QED BY <1>4, <2>3, <2>4, <2>5 DEF Kept
<1>8. AllKept'
  BY <1>3, <1>4, <1>7 DEF AllKept
<1>9. solutions' # <<>>
  <2>1. Len(<<>>) = 0
    BY EmptySeq
  <2> QED BY <1>2, <1>3, <2>1
<1> QED BY <1>6, <1>8, <1>9

\* The replay finds what the search found.
LEMMA VerifyAnswers == SearchInv /\ Verify => Answering'
<1> SUFFICES ASSUME SearchInv, Verify, Symbolic' PROVE Answering'
  BY DEF Answering
<1>1. /\ job' = job /\ goal' = goal /\ avoid' = avoid /\ by' = by /\ at = "verify" /\ look' = look
      /\ job \in Jobs /\ Apart(goal, avoid)
  BY DEF Verify, control, SearchInv, Phases
<1>2. Symbolic /\ by # "brute"
  BY <1>1 DEF Symbolic
<1>3. LookFits(look) /\ AllKept /\ solutions # <<>>
  BY <1>1, <1>2 DEF SearchInv, Answering, LookOK, Inside
<1>4. at' \in {"model", "native"}
  BY <1>2 DEF Verify, AfterVerify
<1>5. PICK old : old = solutions[Latest]
  OBVIOUS
<1>6. old \in Solution /\ old.answer \in AnswersOf(old.path) /\ old.path \in Targets
  <2>1. Latest \in 1..Len(solutions)
    BY <1>3 DEF Latest, AllKept
  <2>2. Kept(Latest)
    BY <1>3, <2>1 DEF AllKept
  <2> QED BY <1>5, <2>2 DEF Kept, Solution
<1>7. PICK i \in Takers(old.path) : old.answer = Answer(i, Path(old.path))
  BY <1>6 DEF AnswersOf
<1>8. PICK v : v = Reached(old.answer)
  OBVIOUS
<1>9. Kinds.argv <= 1 /\ ~Path(old.path).byLine => v
  BY <1>1, <1>6, <1>7, <1>8, ReplayReaches DEF Targets
<1>10. v \in BOOLEAN
  BY <1>8 DEF Reached
<1>11. PICK native \in {"none", "not run", "running"} :
         solutions' = [solutions EXCEPT ![Latest].verified = Reached(solutions[Latest].answer),
                                        ![Latest].native = native]
  BY DEF Verify
<1> DEFINE new == [old EXCEPT !.verified = v, !.native = native]
<1>12. solutions' = [solutions EXCEPT ![Latest] = new]
  BY <1>5, <1>8, <1>11
<1>13. new \in Solution /\ new.answer = old.answer /\ new.path = old.path /\ new.verified = v
  BY <1>6, <1>10 DEF Solution
<1> HIDE DEF new
<1>14. AllKept' /\ solutions' # <<>> /\ \A a : AlreadySeen(a) => AlreadySeen(a)'
  BY <1>1, <1>3, <1>4, <1>5, <1>9, <1>12, <1>13, LatestChecked
<1>15. LookFits(look)'
  BY <1>1, <1>3, <1>14, FitsLater
<1> QED BY <1>4, <1>14, <1>15 DEF Answering, LookOK

LEMMA NativeAnswers == SearchInv /\ NativeEnds => Answering'
<1> SUFFICES ASSUME SearchInv, NativeEnds, Symbolic' PROVE Answering'
  BY DEF Answering
<1>1. /\ job' = job /\ goal' = goal /\ avoid' = avoid /\ by' = by /\ at = "native" /\ look' = look
  BY DEF NativeEnds, control
<1>2. Symbolic /\ by # "brute"
  BY <1>1 DEF Symbolic
<1>3. LookFits(look) /\ AllKept /\ solutions # <<>>
  BY <1>1, <1>2 DEF SearchInv, Answering, LookOK, Inside
<1>4. at' = "model"
  BY <1>2 DEF NativeEnds, AfterVerify
<1>5. PICK old : old = solutions[Latest]
  OBVIOUS
<1>6. old \in Solution /\ (Kinds.argv <= 1 /\ ~Path(old.path).byLine => old.verified)
  <2>1. Latest \in 1..Len(solutions)
    BY <1>3 DEF Latest, AllKept
  <2>2. Kept(Latest)
    BY <1>3, <2>1 DEF AllKept
  <2> QED BY <1>1, <1>5, <2>2 DEF Kept
<1>7. PICK native \in {"failed", "passed", "nothing to look for"} :
         solutions' = [solutions EXCEPT ![Latest].native = native]
  <2>1. \E native \in IF exit = "timeout" THEN {"failed"}
                     ELSE IF goal.text = Silent THEN {"nothing to look for"}
                     ELSE IF kept["stdout"] = 0 THEN {"failed"} ELSE {"failed", "passed"} :
          solutions' = [solutions EXCEPT ![Latest].native = native]
    BY DEF NativeEnds
  <2> QED BY <2>1
<1> DEFINE new == [old EXCEPT !.native = native]
<1>8. solutions' = [solutions EXCEPT ![Latest] = new]
  BY <1>5, <1>7
<1>9. new \in Solution /\ new.answer = old.answer /\ new.path = old.path
      /\ new.verified = old.verified
  BY <1>6 DEF Solution
<1> HIDE DEF new
<1>10. AllKept' /\ \A a : AlreadySeen(a) => AlreadySeen(a)'
  BY <1>1, <1>3, <1>4, <1>5, <1>6, <1>8, <1>9, LatestChecked
<1>11. LookFits(look)'
  BY <1>1, <1>3, <1>10, FitsLater
<1> QED BY <1>4, <1>10, <1>11 DEF Answering, LookOK

LEMMA NextAnswering == SearchInv /\ [Next]_vars => Answering'
<1> SUFFICES ASSUME SearchInv, [Next]_vars, Symbolic', at' # "failed" PROVE Answering'
  BY DEF Answering
<1>0. Phases /\ Explored /\ Answering /\ job \in Jobs
  BY DEF SearchInv, Phases
<1>1. CASE Select
  <2>1. at = "start" /\ solutions' = <<>> /\ at' \in {"explore", "brute"}
    BY <1>0, <1>1 DEF Select, results, Phases
  <2>2. \A S : <<>> \in Seq(S)
    BY EmptySeq
  <2>3. Len(<<>>) = 0 /\ 1..0 = {}
    BY EmptySeq
  <2>4. AllKept'
    BY <2>1, <2>2, <2>3 DEF AllKept
  <2> QED BY <2>1, <2>4 DEF Answering, Inside
<1>2. CASE Explore \/ Concolic \/ MorePaths \/ NoMorePaths
  <2>1. at \in {"explore", "pick"} /\ at' \in {"pick", "again", "done"} /\ UNCHANGED <<control, results>>
    BY <1>2 DEF Explore, Concolic, MorePaths, NoMorePaths
  <2>2. UNCHANGED <<job, goal, avoid, by, solutions>>
    BY <2>1 DEF control, results
  <2>3. Symbolic /\ at \notin {"failed", "verify"} /\ at' \notin Inside
    BY <2>1, <2>2 DEF Symbolic, Inside
  <2> QED BY <2>2, <2>3, GoesOn
<1>3. CASE Conclude
  <2>1. at = "status" /\ at' \in {"explore", "done"} /\ UNCHANGED <<job, goal, avoid, solutions>>
        /\ (by' = by \/ (by = "symbolic" /\ by' = "concolic"))
    BY <1>3 DEF Conclude
  <2>2. Symbolic /\ at \notin {"failed", "verify"} /\ at' \notin Inside
    BY <2>1 DEF Symbolic, Inside
  <2> QED BY <2>1, <2>2, GoesOn
<1>4. CASE PickPath
  <2>1. Symbolic /\ at = "pick" /\ at' = "ask" /\ index < run.found /\ UNCHANGED <<control, solutions>>
        /\ look' = LookAt(run.met[index + 1], HasPreference, FALSE)
    BY <1>4 DEF PickPath, results, control, Symbolic
  <2>2. RunOK(run) /\ index \in 0..run.found
    BY <1>0, <2>1 DEF Explored
  <2>3. run.met[index + 1] \in Targets
    <3>1. run.met \in Seq(Targets) /\ run.found \in 0..Len(run.met) /\ Len(run.met) \in Nat
      BY <2>2 DEF RunOK
    <3>2. index + 1 \in 1..Len(run.met)
      BY <2>1, <2>2, <3>1
    <3> QED BY <3>1, <3>2
  <2>4. HasPreference \in BOOLEAN /\ FALSE \in BOOLEAN
    BY DEF HasPreference
  <2> QED BY <2>1, <2>3, <2>4, Begins
<1>5. CASE Again
  <2>1. Symbolic /\ at = "again" /\ UNCHANGED <<control, solutions>>
    BY <1>5 DEF Again, results, control, Symbolic
  <2>2. CASE at' = "status"
    <3>1. UNCHANGED <<job, goal, avoid, solutions>> /\ at' \notin Inside
      BY <2>1, <2>2 DEF control, Inside
    <3> QED BY <2>1, <3>1, GoesOn
  <2>3. CASE at' # "status"
    <3>1. unpreferred # <<>> /\ look' = LookAt(Head(unpreferred), FALSE, TRUE) /\ at' = "ask"
      BY <1>5, <2>3 DEF Again
    <3>2. unpreferred \in Seq(Targets)
      BY <1>0, <2>1 DEF Explored
    <3>3. Head(unpreferred) \in Targets
      BY <3>1, <3>2
    <3>4. FALSE \in BOOLEAN /\ TRUE \in BOOLEAN
      OBVIOUS
    <3> QED BY <2>1, <3>1, <3>3, <3>4, Begins
  <2> QED BY <2>2, <2>3
<1>6. CASE Ask \/ Extracted
  <2>1. at \in {"ask", "model"} /\ UNCHANGED <<control, solutions>>
    BY <1>6 DEF Ask, Extracted, results
  <2>2. UNCHANGED <<job, goal, avoid, by, solutions>> /\ Symbolic /\ at \in Inside \ {"verify"}
    BY <2>1 DEF control, Symbolic, Inside
  <2>3. LookFits(look)
    BY <2>2, LookIs DEF LookOK
  <2>4. (\E found : Back(found)) \/ NextBound(look)
    BY <1>6 DEF Ask, Extracted
  <2>5. CASE \E found : Back(found)
    <3>1. at' \notin Inside /\ at \notin {"failed", "verify"}
      BY <2>1, <2>5 DEF Back, Inside
    <3> QED BY <2>2, <3>1, GoesOn
  <2>6. CASE NextBound(look)
    <3>1. PICK r : LookFits(r) /\ look' = r
      BY <1>0, <2>3, <2>6, NextBoundFits
    <3>2. at' \in {"bisect", "line", "bisectLine", "model"}
      BY <2>6 DEF NextBound
    <3> QED BY <2>1, <2>2, <3>1, <3>2, AsksOn
  <2> QED BY <2>4, <2>5, <2>6
<1>7. CASE Bisect \/ BisectLine
  <2>1. /\ at \in {"bisect", "bisectLine"} /\ at' = at /\ UNCHANGED <<control, solutions>>
        /\ \E answer : look' = Halved(look, (look.low + look.high) \div 2, answer)
    BY <1>7 DEF Bisect, BisectLine, results
  <2>2. Symbolic /\ at \in Inside \ {"verify"} /\ at' \in {"bisect", "line", "bisectLine", "model"}
    BY <2>1 DEF control, Symbolic, Inside
  <2>3. LookFits(look)
    BY <2>2, LookIs DEF LookOK
  <2>4. look.low \in Nat /\ look.high \in Nat
    BY <2>3 DEF LookFits, Looks
  <2>5. (look.low + look.high) \div 2 \in Nat
    BY <2>4
  <2>6. PICK answer : look' = Halved(look, (look.low + look.high) \div 2, answer)
    BY <2>1
  <2>7. LookFits(Halved(look, (look.low + look.high) \div 2, answer))
    BY <2>3, <2>5, HalvedFits
  <2>8. PICK q : q = Halved(look, (look.low + look.high) \div 2, answer)
    OBVIOUS
  <2> QED BY <2>1, <2>2, <2>6, <2>7, <2>8, AsksOn
<1>8. CASE Bisected
  <2>1. at = "bisect" /\ UNCHANGED <<control, solutions>>
        /\ NextBound([look EXCEPT !.ends = Append(@, look.low)])
    BY <1>8 DEF Bisected, results
  <2>2. Symbolic /\ at \in Inside \ {"verify"}
    BY <2>1 DEF control, Symbolic, Inside
  <2>3. LookFits(look)
    BY <2>2, LookIs DEF LookOK
  <2>4. look \in Looks(Targets, AllAnswers)
    BY <2>3 DEF LookFits
  <2>5. look.ends \in Seq(Nat) /\ look.low \in Nat /\ look.high \in Nat /\ look.line \in Nat
    BY <2>4 DEF Looks
  <2>6. Append(look.ends, look.low) \in Seq(Nat)
    BY <2>5
  <2>7. [look EXCEPT !.ends = Append(@, look.low)]
          = With(look, Append(look.ends, look.low), look.low, look.high, look.line)
    BY <2>4 DEF Looks, With
  <2>8. PICK q : q = [look EXCEPT !.ends = Append(@, look.low)]
    OBVIOUS
  <2>9. LookFits(q)
    <3>1. LookFits(With(look, Append(look.ends, look.low), look.low, look.high, look.line))
      BY <2>3, <2>5, <2>6, WithFits
    <3> QED BY <2>7, <2>8, <3>1
  <2>10. NextBound(q)
    BY <2>1, <2>8
  <2>11. PICK r : LookFits(r) /\ look' = r
    BY <1>0, <2>9, <2>10, NextBoundFits
  <2>12. at' \in {"bisect", "line", "bisectLine", "model"}
    BY <2>10 DEF NextBound
  <2> QED BY <2>1, <2>2, <2>11, <2>12, AsksOn
<1>9. CASE AskLine
  <2>1. at = "line" /\ UNCHANGED <<control, solutions>> /\ at' \in {"bisectLine", "model"}
        /\ look' = [look EXCEPT !.low = 1, !.high = Kinds.stdin]
    BY <1>9 DEF AskLine, results
  <2>2. Symbolic /\ at \in Inside \ {"verify"}
    BY <2>1 DEF control, Symbolic, Inside
  <2>3. LookFits(look)
    BY <2>2, LookIs DEF LookOK
  <2>4. look \in Looks(Targets, AllAnswers)
    BY <2>3 DEF LookFits
  <2>5. look.ends \in Seq(Nat) /\ look.line \in Nat /\ Kinds.stdin \in Nat /\ 1 \in Nat
    BY <1>0, <2>4, JobIs DEF Looks
  <2>6. PICK q : q = [look EXCEPT !.low = 1, !.high = Kinds.stdin]
    OBVIOUS
  <2>7. q = With(look, look.ends, 1, Kinds.stdin, look.line)
    BY <2>4, <2>6 DEF Looks, With
  <2>8. LookFits(q)
    BY <2>3, <2>5, <2>7, WithFits
  <2> QED BY <2>1, <2>2, <2>6, <2>8, AsksOn
<1>10. CASE BisectedLine \/ Unbind
  <2>1. at \in {"bisectLine", "model"} /\ UNCHANGED <<control, solutions>> /\ at' = "model"
        /\ (look' = [look EXCEPT !.line = look.low] \/ look' = [look EXCEPT !.ends = <<>>, !.line = 0])
    BY <1>10 DEF BisectedLine, Unbind, Unbounded, results
  <2>2. Symbolic /\ at \in Inside \ {"verify"}
    BY <2>1 DEF control, Symbolic, Inside
  <2>3. LookFits(look)
    BY <2>2, LookIs DEF LookOK
  <2>4. look \in Looks(Targets, AllAnswers)
    BY <2>3 DEF LookFits
  <2>5. look.ends \in Seq(Nat) /\ look.line \in Nat /\ look.low \in Nat /\ look.high \in Nat
        /\ <<>> \in Seq(Nat) /\ 0 \in Nat
    BY <2>4, EmptySeq DEF Looks
  <2>6. PICK q : q = look'
    OBVIOUS
  <2>7. q = With(look, look.ends, look.low, look.high, look.low)
        \/ q = With(look, <<>>, look.low, look.high, 0)
    BY <2>1, <2>4, <2>6 DEF Looks, With
  <2>8. LookFits(q)
    BY <2>3, <2>5, <2>7, WithFits
  <2> QED BY <2>1, <2>2, <2>6, <2>8, AsksOn
<1>11. CASE Model
  BY <1>11, ModelAnswers
<1>12. CASE Verify
  BY <1>12, VerifyAnswers
<1>13. CASE NativeEnds
  BY <1>13, NativeAnswers
<1>14. CASE NativeRaises
  BY <1>14 DEF NativeRaises
<1>15. CASE Try \/ GiveUp
  <2>1. by' = "brute"
    BY <1>0, <1>15 DEF Try, GiveUp, Phases, control
  <2> QED BY <2>1 DEF Symbolic
<1>16. CASE SelectFunctions \/ ExploreStage \/ StageFails \/ StageModel
  <2>1. job'.mode # "module"
    BY <1>0, <1>16 DEF SelectFunctions, ExploreStage, StageFails, StageModel, Phases, control
  <2> QED BY <2>1 DEF Symbolic
<1>17. CASE Native \/ UNCHANGED vars
  <2>1. UNCHANGED <<job, goal, avoid, by, at, look, solutions>>
    BY <1>17 DEF Native, vars, control, results
  <2>2. Symbolic
    BY <2>1 DEF Symbolic
  <2>3. AllKept
    BY <1>0, <2>1, <2>2 DEF Answering
  <2>4. AllKept' /\ \A answer : AlreadySeen(answer) => AlreadySeen(answer)'
    BY <2>1, <2>3, KeptLater
  <2>5. at \in Inside => LookOK'
    <3> SUFFICES ASSUME at \in Inside PROVE LookOK'
      OBVIOUS
    <3>1. LookOK /\ LookFits(look)
      BY <1>0, <2>1, <2>2 DEF Answering, LookOK
    <3>2. PICK q : q = look
      OBVIOUS
    <3>3. LookFits(look)'
      BY <2>1, <2>4, <3>1, <3>2, FitsLater
    <3> QED BY <2>1, <3>1, <3>3 DEF LookOK
  <2> QED BY <1>0, <2>1, <2>2, <2>4, <2>5 DEF Answering, Inside
<1> QED BY <1>1, <1>2, <1>3, <1>4, <1>5, <1>6, <1>7, <1>8, <1>9, <1>10, <1>11, <1>12, <1>13, <1>14, <1>15, <1>16, <1>17 DEF Next, Solving, Searching, Extracting, Checking

-----------------------------------------------------------------------------
(* No answer is lost.                                                       *)

\* The solutions are those of before, as far as they go: only what is known of them changes.
Grown ==
    /\ Len(solutions') \in Nat /\ Len(solutions') >= Len(solutions)
    /\ DOMAIN solutions \subseteq DOMAIN solutions'
    /\ \A n \in DOMAIN solutions : solutions'[n].answer = solutions[n].answer

LEMMA SolutionsGrow ==
    ASSUME SearchInv, [Next]_vars, Symbolic, at \in Inside, at' # "failed"
    PROVE  Grown
<1> USE DEF results, Grown
<1>1. AllKept /\ (at \in {"verify", "native"} => solutions # <<>>) /\ job \in Jobs /\ by # "brute"
      /\ job.mode = "module"
  BY DEF SearchInv, Answering, Inside, Phases, Symbolic
<1>2. solutions \in Seq(Solution) /\ Len(solutions) \in Nat
  BY <1>1 DEF AllKept
<1>3. CASE solutions' = solutions
  BY <1>2, <1>3
<1>4. CASE Model
  <2>1. PICK new : solutions' = solutions \/ solutions' = Append(solutions, new)
    BY <1>4 DEF Model
  <2>2. CASE solutions' = Append(solutions, new)
    <3>1. Len(solutions') = Len(solutions) + 1 /\ DOMAIN solutions' = 1..(Len(solutions) + 1)
          /\ \A n \in 1..Len(solutions) : solutions'[n] = solutions[n]
      BY <1>2, <2>2
    <3>2. DOMAIN solutions = 1..Len(solutions)
      BY <1>2
    <3> QED BY <1>2, <3>1, <3>2
  <2> QED BY <1>3, <2>1, <2>2
<1>5. \A r : r.answer = solutions[Latest].answer
             /\ solutions # <<>> /\ solutions' = [solutions EXCEPT ![Latest] = r] => Grown
  <2> SUFFICES ASSUME NEW r, solutions # <<>>,
                      r.answer = solutions[Latest].answer,
                      solutions' = [solutions EXCEPT ![Latest] = r]
               PROVE  Grown
    OBVIOUS
  <2>1. PICK m : m = Latest
    OBVIOUS
  <2>2. m \in 1..Len(solutions) /\ solutions[m] \in Solution
    BY <1>2, <2>1 DEF Latest
  <2>3. r.answer = solutions[m].answer
    BY <2>1
  <2>4. DOMAIN solutions' = 1..Len(solutions) /\ Len(solutions') = Len(solutions)
        /\ DOMAIN solutions = 1..Len(solutions)
        /\ \A n \in 1..Len(solutions) : solutions'[n] = IF n = m THEN r ELSE solutions[n]
    BY <1>2, <2>1, <2>2
  <2> QED BY <1>2, <2>2, <2>3, <2>4
<1>6. CASE Verify
  <2>1. PICK native :
           solutions' = [solutions EXCEPT ![Latest].verified = Reached(solutions[Latest].answer),
                                          ![Latest].native = native]
    BY <1>6 DEF Verify
  <2>2. PICK old : old = solutions[Latest]
    OBVIOUS
  <2>3. PICK v : v = Reached(old.answer)
    OBVIOUS
  <2>4. old \in Solution /\ solutions # <<>>
    <3>1. solutions # <<>>
      BY <1>1, <1>6 DEF Verify
    <3>2. Len(solutions) \in 1..Len(solutions)
      BY <1>2, <3>1
    <3> QED BY <1>2, <2>2, <3>1, <3>2 DEF Latest
  <2> DEFINE r == [old EXCEPT !.verified = v, !.native = native]
  <2>5. solutions' = [solutions EXCEPT ![Latest] = r]
    BY <2>1, <2>2, <2>3
  <2>6. r.answer = old.answer
    BY <2>4 DEF Solution
  <2> HIDE DEF r
  <2> QED BY <1>5, <2>2, <2>4, <2>5, <2>6
<1>7. CASE NativeEnds
  <2>1. PICK native : solutions' = [solutions EXCEPT ![Latest].native = native]
    BY <1>7 DEF NativeEnds
  <2>2. PICK old : old = solutions[Latest]
    OBVIOUS
  <2>3. old \in Solution /\ solutions # <<>>
    <3>1. solutions # <<>>
      BY <1>1, <1>7 DEF NativeEnds
    <3>2. Len(solutions) \in 1..Len(solutions)
      BY <1>2, <3>1
    <3> QED BY <1>2, <2>2, <3>1, <3>2 DEF Latest
  <2> DEFINE r == [old EXCEPT !.native = native]
  <2>4. solutions' = [solutions EXCEPT ![Latest] = r]
    BY <2>1, <2>2
  <2>5. r.answer = old.answer
    BY <2>3 DEF Solution
  <2> HIDE DEF r
  <2> QED BY <1>5, <2>2, <2>3, <2>4, <2>5
<1>8. solutions' = solutions \/ Model \/ Verify \/ NativeEnds
  <2> HIDE DEF Grown
  <2>1. CASE Searching
    BY <2>1 DEF Searching, Select, Explore, Concolic, Conclude, PickPath, MorePaths, NoMorePaths, Again,
                results, Inside
  <2>2. CASE Extracting
    BY <2>2 DEF Extracting, Ask, Bisect, Bisected, AskLine, BisectLine, BisectedLine, Unbind, Extracted
  <2>3. CASE Checking
    BY <2>3 DEF Checking, NativeRaises
  <2>4. CASE Try \/ GiveUp \/ SelectFunctions \/ ExploreStage \/ StageFails \/ StageModel
    BY <1>1, <2>4 DEF Try, GiveUp, SelectFunctions, ExploreStage, StageFails, StageModel, Inside
  <2>5. CASE Native \/ UNCHANGED vars
    BY <2>5 DEF Native, vars
  <2> QED BY <2>1, <2>2, <2>3, <2>4, <2>5 DEF Next, Solving
<1> QED BY <1>3, <1>4, <1>6, <1>7, <1>8

\* What was answered stays answered.
LEMMA SettledLater ==
    ASSUME job' = job, job \in Jobs, Grown, Len(solutions) \in Nat
    PROVE  /\ \A k : Settled(k) => Settled(k)'
           /\ Enough => Enough'
<1>1. \A a : AlreadySeen(a) => AlreadySeen(a)'
  BY DEF Grown, AlreadySeen
<1>2. HasPreference' = HasPreference /\ Request' = Request
      /\ \A k : Takers(k)' = Takers(k) /\ Path(k)' = Path(k)
  BY SameRequest
<1>3. ASSUME NEW k, Settled(k) PROVE Settled(k)'
  <2> SUFFICES ASSUME NEW i \in Takers(k)
               PROVE  \/ AlreadySeen(Answer(i, Path(k)))'
                      \/ HasPreference /\ ~Printably(i) /\ \E j \in Takers(k) : Printably(j)
    BY <1>2 DEF Settled
  <2>1. PICK a : a = Answer(i, Path(k))
    OBVIOUS
  <2>2. AlreadySeen(a)' => AlreadySeen(Answer(i, Path(k)))'
    BY <1>2, <2>1 DEF AlreadySeen
  <2> QED BY <1>1, <1>3, <2>1, <2>2 DEF Settled
<1>4. Enough => Enough'
  BY <1>2, JobIs DEF Enough, Grown
<1> QED BY <1>3, <1>4

\* While extract is at work on a path, the others are as they were.
LEMMA CoveredInside ==
    ASSUME SearchInv, [Next]_vars, at \in Inside, at' \in Inside, UNCHANGED <<control, run, progress>>,
           look'.path = look.path, look'.second = look.second, sure' => sure
    PROVE  Covered'
<1> SUFFICES ASSUME Symbolic', sure', ~Enough' PROVE Covered'
  BY DEF Covered
<1>1. job' = job /\ by' = by /\ run' = run /\ index' = index /\ unpreferred' = unpreferred
  BY DEF control, progress
<1>2. Symbolic /\ job \in Jobs /\ at' # "failed"
  BY <1>1 DEF Symbolic, SearchInv, Phases, Inside
<1>3. Len(solutions) \in Nat
  BY <1>2 DEF SearchInv, Answering, Inside, AllKept
<1>4. Grown
  BY <1>2, SolutionsGrow
<1>5. ~Enough /\ \A k : Settled(k) => Settled(k)'
  BY <1>1, <1>2, <1>3, <1>4, SettledLater
<1>6. Covered
  BY DEF SearchInv
<1>7. \A n \in 1..index : Awaited(n)' \/ run.met[n] = look.path \/ Settled(run.met[n])'
  <2> SUFFICES ASSUME NEW n \in 1..index
               PROVE  Awaited(n)' \/ run.met[n] = look.path \/ Settled(run.met[n])'
    OBVIOUS
  <2>1. Awaited(n) \/ run.met[n] = look.path \/ Settled(run.met[n])
    BY <1>2, <1>5, <1>6 DEF Covered
  <2>2. Awaited(n) => Awaited(n)'
    BY <1>1 DEF Awaited
  <2>3. PICK k : k = run.met[n]
    OBVIOUS
  <2>4. Settled(k)' => Settled(run.met[n])'
    BY <1>1, <2>3 DEF Settled, Takers, Path, AlreadySeen
  <2> QED BY <1>5, <2>1, <2>2, <2>3, <2>4
<1>8. look'.second => index' = run'.found
  BY <1>1, <1>2, <1>5, <1>6 DEF Covered
<1>9. ~Retrying' /\ at' \notin {"status", "done", "again"}
  BY DEF Retrying, Inside
<1> QED BY <1>1, <1>7, <1>8, <1>9 DEF Covered

\* What extract has nothing more to ask of is settled, unless it comes up again.
LEMMA AskedOut ==
    ASSUME SearchInv, Symbolic, at \in {"ask", "model"}, Models(look) = {},
           at = "model" => ~Bounded(look)
    PROVE  Settled(look.path) \/ (look.preferred /\ ~look.found)
<1>1. LookOK /\ LookFits(look) /\ job \in Jobs
  BY DEF SearchInv, Phases, LookOK, Answering, Inside
<1>2. look.path \in Targets /\ look.line \in Nat /\ look.path \in DOMAIN Program.paths
  BY <1>1 DEF LookFits, Looks, Targets
<1>3. look.ends = <<>> /\ look.line = 0
  BY <1>1, <1>2 DEF LookOK, Bounded
<1>4. ASSUME NEW i \in Takers(look.path), look.preferred => Printably(i)
      PROVE  AlreadySeen(Answer(i, Path(look.path)))
  <2>1. \E answer \in look.blocked : Blocks(answer, i)
    <3>1. i \notin Models(look)
      OBVIOUS
    <3>2. ~Fits(i, look)
      BY <3>1 DEF Models, Takers
    <3>3. DOMAIN look.ends = {}
      BY <1>3
    <3> QED BY <1>3, <1>4, <3>2, <3>3 DEF Fits
  <2>2. PICK answer \in look.blocked : Blocks(answer, i)
    BY <2>1
  <2>3. PICK j \in Takers(look.path) : answer = Answer(j, Path(look.path))
    BY <1>1, <2>2 DEF LookFits, AnswersOf
  <2>4. Seen(Answer(i, Path(look.path))) = Seen(answer)
    BY <1>1, <1>2, <2>2, <2>3, BlocksSeen
  <2>5. AlreadySeen(answer)
    BY <1>1, <2>2 DEF LookFits
  <2> QED BY <2>4, <2>5 DEF AlreadySeen
<1>5. CASE look.preferred
  <2>1. look.found => HasPreference /\ \E j \in Takers(look.path) : Printably(j)
    BY <1>1, <1>5 DEF LookFits
  <2> QED BY <1>4, <1>5, <2>1 DEF Settled
<1>6. CASE ~look.preferred
  BY <1>4, <1>6 DEF Settled
<1> QED BY <1>5, <1>6

\* extract is done with a path.
LEMMA BackCovers ==
    ASSUME SearchInv, [Next]_vars, at \in {"ask", "model"}, UNCHANGED <<control, run, index, solutions>>,
           Back(look.found), sure' => sure, sure' /\ ~Enough => Models(look) = {},
           ~Enough /\ at = "model" => ~Bounded(look)
    PROVE  Covered'
<1> SUFFICES ASSUME Symbolic', sure', ~Enough' PROVE Covered'
  BY DEF Covered
<1>1. job' = job /\ by' = by /\ run' = run /\ index' = index /\ solutions' = solutions
  BY DEF control
<1>2. Symbolic /\ job \in Jobs /\ at \in Inside /\ LookFits(look) /\ unpreferred \in Seq(Targets)
      /\ look.path \in Targets
  <2>1. Symbolic /\ job \in Jobs /\ at \in Inside
    BY <1>1 DEF Symbolic, SearchInv, Phases, Inside
  <2> QED BY <2>1, LookIs DEF LookOK
<1>3. ~Enough /\ Covered
  BY <1>1, SameRequest DEF Enough, SearchInv
<1>4. \A k : Settled(k) => Settled(k)'
  <2>1. Len(solutions) \in Nat
    BY <1>2 DEF SearchInv, Answering, Inside, AllKept
  <2>2. Grown
    BY <1>1, <2>1 DEF Grown
  <2> QED BY <1>1, <1>2, <2>1, <2>2, SettledLater
<1>5. Settled(look.path) \/ (look.preferred /\ ~look.found)
  BY <1>2, <1>3, AskedOut
<1>6. /\ at' = IF look.second THEN "again" ELSE "pick"
      /\ unpreferred' = IF ~look.second /\ look.preferred /\ ~look.found
                        THEN Append(unpreferred, look.path) ELSE unpreferred
  BY DEF Back
<1>7. look.preferred => ~look.second
  BY <1>2 DEF LookFits
<1>8. \A n \in 1..index : Awaited(n)' \/ Settled(run.met[n])'
  <2> SUFFICES ASSUME NEW n \in 1..index PROVE Awaited(n)' \/ Settled(run.met[n])'
    OBVIOUS
  <2>1. Awaited(n) \/ run.met[n] = look.path \/ Settled(run.met[n])
    BY <1>2, <1>3 DEF Covered
  <2>2. Len(unpreferred) \in Nat
        /\ Append(unpreferred, look.path)[Len(unpreferred) + 1] = look.path
        /\ Len(Append(unpreferred, look.path)) = Len(unpreferred) + 1
        /\ \A m \in 1..Len(unpreferred) : Append(unpreferred, look.path)[m] = unpreferred[m]
    BY <1>2
  <2>3. Awaited(n) => Awaited(n)'
    BY <1>1, <1>6, <2>2 DEF Awaited
  <2>4. PICK k : k = run.met[n]
    OBVIOUS
  <2>5. Settled(k)' => Settled(run.met[n])'
    BY <1>1, <2>4 DEF Settled, Takers, Path, AlreadySeen
  <2>6. CASE run.met[n] = look.path
    <3>1. CASE Settled(look.path)
      BY <1>4, <2>4, <2>5, <2>6, <3>1
    <3>2. CASE look.preferred /\ ~look.found
      <4>1. unpreferred' = Append(unpreferred, look.path)
        BY <1>6, <1>7, <3>2
      <4>2. Len(unpreferred) + 1 \in 1..Len(unpreferred') /\ unpreferred'[Len(unpreferred) + 1] = run'.met[n]
        BY <1>1, <2>2, <2>6, <4>1
      <4> QED BY <4>2 DEF Awaited
    <3> QED BY <1>5, <3>1, <3>2
  <2> QED BY <1>4, <2>1, <2>3, <2>4, <2>5, <2>6
<1>9. at' = "again" => index' = run'.found
  BY <1>1, <1>2, <1>3, <1>6 DEF Covered
<1>10. ~Retrying' /\ at' \in {"pick", "again"} /\ at' \notin Inside
  BY <1>6 DEF Retrying, Inside
<1> QED BY <1>1, <1>8, <1>9, <1>10 DEF Covered

\* Outside of extract the answers stay.
LEMMA SettledOutside ==
    ASSUME SearchInv, Symbolic, at # "failed", job' = job, solutions' = solutions
    PROVE  /\ Enough => Enough'
           /\ \A k : Settled(k) => Settled(k)'
<1>1. Len(solutions) \in Nat /\ job \in Jobs
  BY DEF SearchInv, Phases, Answering, AllKept
<1>2. Grown
  BY <1>1 DEF Grown
<1> QED BY <1>1, <1>2, SettledLater

\* One more path is looked at.
LEMMA PickCovers == SearchInv /\ PickPath => Covered'
<1> SUFFICES ASSUME SearchInv, PickPath, Symbolic', sure', ~Enough' PROVE Covered'
  BY DEF Covered
<1>1. /\ job' = job /\ by' = by /\ run' = run /\ unpreferred' = unpreferred /\ solutions' = solutions
      /\ sure' = sure /\ index' = index + 1 /\ at = "pick" /\ at' = "ask" /\ index < run.found
      /\ look' = LookAt(run.met[index + 1], HasPreference, FALSE)
  BY DEF PickPath, control, results
<1>2. Symbolic
  BY <1>1 DEF Symbolic
<1>3. ~Enough /\ \A k : Settled(k) => Settled(k)'
  BY <1>1, <1>2, SettledOutside
<1>4. index \in Nat
  BY <1>1, <1>2 DEF SearchInv, Explored
<1>5. look'.path = run.met[index + 1] /\ look'.second = FALSE
  BY <1>1 DEF LookAt
<1>6. \A n \in 1..index' : Awaited(n)' \/ run'.met[n] = look'.path \/ Settled(run.met[n])'
  <2> SUFFICES ASSUME NEW n \in 1..index'
               PROVE  Awaited(n)' \/ run'.met[n] = look'.path \/ Settled(run.met[n])'
    OBVIOUS
  <2>1. CASE n = index + 1
    BY <1>1, <1>5, <2>1
  <2>2. CASE n # index + 1
    <3>1. n \in 1..index
      BY <1>1, <1>4, <2>2
    <3>2. Awaited(n) \/ Settled(run.met[n])
      BY <1>1, <1>2, <1>3, <3>1 DEF SearchInv, Covered, Inside
    <3>3. Awaited(n) => Awaited(n)'
      BY <1>1 DEF Awaited
    <3>4. PICK k : k = run.met[n]
      OBVIOUS
    <3>5. Settled(k)' => Settled(run.met[n])'
      BY <1>1, <3>4 DEF Settled, Takers, Path, AlreadySeen
    <3> QED BY <1>3, <3>2, <3>3, <3>4, <3>5
  <2> QED BY <2>1, <2>2
<1>7. ~Retrying'
  BY <1>1 DEF Retrying
<1> QED BY <1>1, <1>5, <1>6, <1>7 DEF Covered, Inside

\* The search goes on, or it is over.
LEMMA MoreCovers == SearchInv /\ (MorePaths \/ NoMorePaths) => Covered'
<1> SUFFICES ASSUME SearchInv, MorePaths \/ NoMorePaths, Symbolic', sure', ~Enough' PROVE Covered'
  BY DEF Covered
<1>1. /\ job' = job /\ by' = by /\ unpreferred' = unpreferred /\ solutions' = solutions
      /\ sure' = sure /\ index' = index /\ at = "pick" /\ at' \in {"pick", "again"}
      /\ goal' = goal /\ avoid' = avoid
  BY DEF MorePaths, NoMorePaths, control, progress, results
<1>2. Symbolic
  BY <1>1 DEF Symbolic
<1>3. ~Enough /\ \A k : Settled(k) => Settled(k)'
  BY <1>1, <1>2, SettledOutside
<1>4. index \in 0..run.found /\ RunOK(run)
  BY <1>1, <1>2 DEF SearchInv, Explored
<1>5. run.found \in Nat
  BY <1>4 DEF RunOK
<1>6. Explored'
  BY MoreExplores, NextExplored DEF Next, Solving, Searching
<1>7. index' \in 0..run'.found
  BY <1>1, <1>6 DEF Explored
<1>8. run'.met = run.met
  <2>1. ASSUME NEW r \in Found(run.met, run.found, index + 1) PROVE r.met = run.met
    BY <2>1 DEF Found
  <2>2. run' = run \/ run' \in Found(run.met, run.found, index + 1)
    BY DEF MorePaths, NoMorePaths
  <2> QED BY <2>1, <2>2
<1>9. at' = "again" => index' = run'.found
  <2> SUFFICES ASSUME at' = "again" PROVE index' = run'.found
    OBVIOUS
  <2>1. index' >= run'.found /\ run'.found \in Nat
    <3>1. CASE MorePaths
      <4>1. index >= run'.found
        BY <3>1 DEF MorePaths
      <4>2. RunOK(run)'
        BY <1>1, <1>6 DEF Explored
      <4> QED BY <1>1, <4>1, <4>2 DEF RunOK
    <3>2. CASE NoMorePaths
      BY <1>1, <1>3, <1>5, <3>2 DEF NoMorePaths
    <3> QED BY <3>1, <3>2
  <2> QED BY <1>7, <2>1
<1>10. \A n \in 1..index : Awaited(n)' \/ Settled(run.met[n])'
  <2> SUFFICES ASSUME NEW n \in 1..index PROVE Awaited(n)' \/ Settled(run.met[n])'
    OBVIOUS
  <2>1. Awaited(n) \/ Settled(run.met[n])
    BY <1>1, <1>2, <1>3 DEF SearchInv, Covered, Inside
  <2>2. Awaited(n) => Awaited(n)'
    BY <1>1, <1>8 DEF Awaited
  <2>3. PICK k : k = run.met[n]
    OBVIOUS
  <2>4. Settled(k)' => Settled(run.met[n])'
    BY <1>1, <1>8, <2>3 DEF Settled, Takers, Path, AlreadySeen
  <2> QED BY <1>3, <2>1, <2>2, <2>3, <2>4
<1>11. ~Retrying' /\ at' \notin {"status", "done"} \cup Inside
  BY <1>1 DEF Retrying, Inside
<1> QED BY <1>1, <1>9, <1>10, <1>11 DEF Covered

\* The paths that come up again.
LEMMA AgainCovers == SearchInv /\ Again => Covered'
<1> SUFFICES ASSUME SearchInv, Again, Symbolic', sure', ~Enough' PROVE Covered'
  BY DEF Covered
<1>1. /\ job' = job /\ by' = by /\ run' = run /\ solutions' = solutions
      /\ sure' = sure /\ index' = index /\ at = "again"
  BY DEF Again, control, results
<1>2. Symbolic
  BY <1>1 DEF Symbolic
<1>3. ~Enough /\ \A k : Settled(k) => Settled(k)'
  BY <1>1, <1>2, SettledOutside
<1>4. unpreferred \in Seq(Targets) /\ index = run.found
  BY <1>1, <1>2, <1>3 DEF SearchInv, Explored, Covered
<1>5. \A n \in 1..index : Awaited(n) \/ Settled(run.met[n])'
  <2> SUFFICES ASSUME NEW n \in 1..index PROVE Awaited(n) \/ Settled(run.met[n])'
    OBVIOUS
  <2>1. Awaited(n) \/ Settled(run.met[n])
    BY <1>1, <1>2, <1>3 DEF SearchInv, Covered, Inside
  <2>3. PICK k : k = run.met[n]
    OBVIOUS
  <2>4. Settled(k)' => Settled(run.met[n])'
    BY <1>1, <2>3 DEF Settled, Takers, Path, AlreadySeen
  <2> QED BY <1>3, <2>1, <2>3, <2>4
<1>6. CASE unpreferred = <<>>
  <2>1. \A n : ~Awaited(n)
    <3>1. Len(unpreferred) = 0 /\ 1..0 = {}
      BY <1>6, EmptySeq
    <3> QED BY <3>1 DEF Awaited
  <2>2. at' = "status" /\ ~Retrying'
    BY <1>6 DEF Again, Retrying
  <2> QED BY <1>1, <1>4, <1>5, <2>1, <2>2 DEF Covered, Inside
<1>7. CASE unpreferred # <<>>
  <2>1. look' = LookAt(Head(unpreferred), FALSE, TRUE) /\ unpreferred' = Tail(unpreferred) /\ at' = "ask"
    BY <1>3, <1>7 DEF Again
  <2>2. look'.path = unpreferred[1]
    <3>1. look'.path = Head(unpreferred)
      BY <2>1 DEF LookAt
    <3> QED BY <1>4, <1>7, <3>1
  <2>3. /\ Len(unpreferred) \in Nat \ {0} /\ Len(unpreferred') = Len(unpreferred) - 1
        /\ \A m \in 1..(Len(unpreferred) - 1) : unpreferred'[m] = unpreferred[m + 1]
    BY <1>4, <1>7, <2>1
  <2>4. ASSUME NEW n \in 1..index, Awaited(n) PROVE Awaited(n)' \/ run'.met[n] = look'.path
    <3>1. PICK m \in 1..Len(unpreferred) : unpreferred[m] = run.met[n]
      BY <2>4 DEF Awaited
    <3>2. CASE m = 1
      BY <1>1, <2>2, <3>1, <3>2
    <3>3. CASE m # 1
      <4>1. m - 1 \in 1..(Len(unpreferred) - 1) /\ (m - 1) + 1 = m
        BY <2>3, <3>3
      <4>2. unpreferred'[m - 1] = run'.met[n] /\ m - 1 \in 1..Len(unpreferred')
        BY <1>1, <2>3, <3>1, <4>1
      <4> QED BY <4>2 DEF Awaited
    <3> QED BY <3>2, <3>3
  <2>5. ~Retrying'
    BY <2>1 DEF Retrying
  <2> QED BY <1>1, <1>4, <1>5, <2>1, <2>4, <2>5 DEF Covered, Inside
<1> QED BY <1>6, <1>7

LEMMA NextCovered == SearchInv /\ [Next]_vars => Covered'
<1> SUFFICES ASSUME SearchInv, [Next]_vars, Symbolic', sure', ~Enough' PROVE Covered'
  BY DEF Covered
<1>0. Phases /\ Explored /\ Covered /\ job \in Jobs
  BY DEF SearchInv, Phases
<1>1. CASE Select \/ Explore
  <2>1. ~Retrying' /\ at' \notin {"again", "status", "done"} \cup Inside
        /\ (at' = "pick" => index' = 0)
    <3>1. CASE Select
      <4>1. /\ at' \in {"failed", "brute", "explore"} /\ job' = job
            /\ (at' = "explore" => by' = IF Request.strategy = "auto" THEN "symbolic"
                                         ELSE Request.strategy)
        BY <1>1, <3>1 DEF Select
      <4> QED BY <4>1, SameRequest DEF Retrying, Inside
    <3>2. CASE Explore
      BY <1>0, <3>2 DEF Explore, Retrying, Inside, Phases, progress
    <3> QED BY <1>1, <3>1, <3>2
  <2> QED BY <2>1 DEF Covered
<1>2. CASE Concolic
  <2>1. /\ job' = job /\ by' = by /\ solutions' = solutions /\ index' = 0 /\ sure' = sure
        /\ at = "explore" /\ by = "concolic"
        /\ (at' = "pick" \/ (Request.strategy = "auto" /\ at' = "done" /\ run' = run))
    BY <1>2 DEF Concolic, control, results
  <2>2. CASE at' = "pick"
    BY <2>1, <2>2 DEF Covered, Retrying, Inside
  <2>3. CASE Request.strategy = "auto" /\ at' = "done" /\ run' = run
    <3>1. Symbolic /\ Retrying
      BY <2>1, <2>3 DEF Symbolic, Retrying
    <3>2. ~Enough /\ \A k : Settled(k) => Settled(k)'
      BY <2>1, <3>1, SettledOutside
    <3>3. ASSUME NEW n \in 1..run.found PROVE Settled(run.met[n])'
      <4>1. PICK k : k = run.met[n]
        OBVIOUS
      <4>2. Settled(k)
        BY <1>0, <2>1, <2>3, <3>1, <3>2, <4>1 DEF Covered
      <4>3. Settled(k)' => Settled(run.met[n])'
        BY <2>1, <2>3, <4>1 DEF Settled, Takers, Path, AlreadySeen
      <4> QED BY <3>2, <4>2, <4>3
    <3> QED BY <2>3, <3>3 DEF Covered, Inside
  <2> QED BY <2>1, <2>2, <2>3
<1>3. CASE Conclude
  <2>1. /\ job' = job /\ solutions' = solutions /\ run' = run /\ sure' = sure
        /\ at = "status" /\ at' \in {"explore", "done"} /\ (by' = by \/ by = "symbolic")
    BY <1>3 DEF Conclude
  <2>2. Symbolic
    BY <2>1 DEF Symbolic
  <2>3. ~Enough /\ \A k : Settled(k) => Settled(k)'
    BY <2>1, <2>2, SettledOutside
  <2>4. ASSUME NEW n \in 1..run.found PROVE Settled(run.met[n])'
    <3>1. PICK k : k = run.met[n]
      OBVIOUS
    <3>2. Settled(k)
      BY <1>0, <2>1, <2>2, <2>3, <3>1 DEF Covered
    <3>3. Settled(k)' => Settled(run.met[n])'
      BY <2>1, <3>1 DEF Settled, Takers, Path, AlreadySeen
    <3> QED BY <2>3, <3>2, <3>3
  <2> QED BY <2>1, <2>4 DEF Covered, Inside
<1>4. CASE PickPath
  BY <1>4, PickCovers
<1>5. CASE MorePaths \/ NoMorePaths
  BY <1>5, MoreCovers
<1>6. CASE Again
  BY <1>6, AgainCovers
<1>7. CASE Ask
  <2>1. at = "ask" /\ at \in Inside /\ UNCHANGED <<control, run, index, solutions>> /\ Symbolic
    BY <1>7 DEF Ask, Inside, control, results, Symbolic
  <2>2. PICK answer \in Answers(look) :
           /\ Silence(look, answer)
           /\ IF answer THEN NextBound(look) /\ UNCHANGED unpreferred ELSE Back(FALSE)
    BY <1>7 DEF Ask
  <2>3. sure \in BOOLEAN /\ look.found = FALSE /\ LookFits(look)
    BY <1>0, <2>1, LookIs DEF Phases, LookOK
  <2>4. sure' => sure /\ (answer \/ Models(look) = {})
    BY <2>2, <2>3 DEF Silence
  <2>5. CASE answer
    <3>1. look'.path = look.path /\ look'.second = look.second /\ at' \in Inside
      <4>1. look \in Looks(Targets, AllAnswers) /\ NextBound(look)
        BY <2>2, <2>3, <2>5 DEF LookFits
      <4> QED BY <4>1 DEF NextBound, Looks, Inside
    <3> QED BY <2>1, <2>2, <2>4, <2>5, <3>1, CoveredInside DEF progress
  <2>6. CASE ~answer
    BY <2>1, <2>2, <2>3, <2>4, <2>6, BackCovers
  <2> QED BY <2>5, <2>6
<1>8. CASE Extracted
  <2>1. at = "model" /\ UNCHANGED <<control, run, index, solutions>> /\ Back(look.found)
    BY <1>8 DEF Extracted, results
  <2>2. sure \in BOOLEAN
    BY <1>0 DEF Phases
  <2>3. (sure' => sure) /\ (sure' /\ ~Enough => Models(look) = {} /\ ~Bounded(look))
    BY <1>8, <2>2 DEF Extracted, Silence
  <2> QED BY <2>1, <2>3, BackCovers
<1>9. CASE Bisect \/ Bisected \/ AskLine \/ BisectLine \/ BisectedLine \/ Model \/ Unbind
  <2>1. at \in Inside /\ UNCHANGED <<control, run, progress>> /\ at' \in Inside
    BY <1>9 DEF Bisect, Bisected, AskLine, BisectLine, BisectedLine, Model, Unbind, NextBound, Inside
  <2>2. Symbolic
    BY <2>1 DEF control, Symbolic
  <2>3. look \in Looks(Targets, AllAnswers)
    BY <2>1, <2>2, LookIs DEF LookFits, LookOK
  <2>4. look'.path = look.path /\ look'.second = look.second
    <3>1. CASE Bisect \/ BisectLine
      BY <2>3, <3>1 DEF Bisect, BisectLine, Halved, Looks
    <3>2. CASE Bisected
      BY <2>3, <3>2 DEF Bisected, NextBound, Looks
    <3>3. CASE AskLine \/ BisectedLine \/ Unbind
      BY <2>3, <3>3 DEF AskLine, BisectedLine, Unbind, Unbounded, Looks
    <3>4. CASE Model
      BY <2>3, <3>4 DEF Model, Looks
    <3> QED BY <1>9, <3>1, <3>2, <3>3, <3>4
  <2>5. sure' => sure
    <3>1. sure \in BOOLEAN
      BY <1>0 DEF Phases
    <3>2. sure' = sure \/ \E q, answer : Silence(q, answer)
      BY <1>9 DEF Bisect, Bisected, AskLine, BisectLine, BisectedLine, Model, Unbind
    <3> QED BY <3>1, <3>2 DEF Silence
  <2> QED BY <2>1, <2>4, <2>5, CoveredInside
<1>10. CASE Verify \/ NativeEnds
  <2>1. at \in Inside /\ UNCHANGED <<control, run, progress, look, sure>>
    BY <1>10 DEF Verify, NativeEnds, Inside
  <2>2. by # "brute"
    BY <2>1 DEF control, Symbolic
  <2>3. at' \in Inside
    BY <1>10, <2>2 DEF Verify, NativeEnds, AfterVerify, Inside
  <2> QED BY <2>1, <2>3, CoveredInside
<1>11. CASE NativeRaises
  BY <1>11 DEF NativeRaises, Covered, Retrying, Inside
<1>12. CASE Try \/ GiveUp
  <2>1. by' = "brute"
    BY <1>0, <1>12 DEF Try, GiveUp, Phases, control
  <2> QED BY <2>1 DEF Symbolic
<1>13. CASE SelectFunctions \/ ExploreStage \/ StageFails \/ StageModel
  <2>1. job'.mode # "module"
    BY <1>0, <1>13 DEF SelectFunctions, ExploreStage, StageFails, StageModel, Phases, control
  <2> QED BY <2>1 DEF Symbolic
<1>14. CASE Native \/ UNCHANGED vars
  <2>1. UNCHANGED <<job, goal, avoid, by, at, run, index, unpreferred, look, solutions, sure>>
    BY <1>14 DEF Native, vars, control, progress, results
  <2>2. Symbolic /\ Enough' = Enough /\ Retrying' = Retrying
    BY <2>1 DEF Symbolic, Enough, Retrying, Request
  <2>3. \A n : Awaited(n)' = Awaited(n) /\ Settled(run.met[n])' = Settled(run.met[n])
    BY <2>1 DEF Awaited, Settled, AlreadySeen, Takers, Path, Program, Admitted, HasPreference, Request
  <2> QED BY <1>0, <2>1, <2>2, <2>3 DEF Covered
<1> QED BY <1>1, <1>2, <1>3, <1>4, <1>5, <1>6, <1>7, <1>8, <1>9, <1>10, <1>11, <1>12, <1>13, <1>14 DEF Next, Solving, Searching, Extracting, Checking

-----------------------------------------------------------------------------
(* What is promised.                                                        *)

LEMMA AlwaysSearch == Spec => []SearchInv
<1>1. SearchInv /\ [Next]_vars => SearchInv'
  BY NextPhases, NextExplored, NextAnswering, NextCovered DEF SearchInv
<1> QED BY <1>1, SearchBegins, PTL DEF Spec

\* "unsat" (_status, _concolic_status, _solve_goal) is never said of a goal that some admitted
\* input reaches when it is run, whatever the solver left unanswered and the budgets cut short.
THEOREM AlwaysUnsatMeansNone == Spec => []UnsatMeansNone
<1>1. SearchInv => UnsatMeansNone
  <2> SUFFICES ASSUME SearchInv, at = "done", Symbolic, status = "unsat",
                      NEW k \in DOMAIN Program.paths,
                      FirstWatched(Path(k).trace, goal, avoid) = "goal"
               PROVE  Takers(k) = {}
    BY DEF UnsatMeansNone, Symbolic, Takers
  <2>1. RunOK(run) /\ run.found = 0 /\ run.ended = "exhausted" /\ Apart(goal, avoid)
    BY DEF SearchInv, Explored, Phases
  <2>2. \A l \in Targets : Takers(l) = {}
    BY <2>1 DEF RunOK
  <2>3. FirstSearched(Path(k).trace, goal, avoid) = "goal"
    BY <2>1, SameWatch
  <2> QED BY <2>2, <2>3 DEF Targets
<1> QED BY <1>1, AlwaysSearch, PTL

\* With a solver that always answers, no answer of a goal path is lost (_solutions, extract) while
\* fewer than were asked for are known, but on a path with printable answers those that are not.
THEOREM AlwaysAnswersTaken == Spec => []AnswersTaken
<1>1. SearchInv => AnswersTaken
  <2> SUFFICES ASSUME SearchInv, at = "done", Symbolic, sure, ~Enough, NEW n \in 1..run.found,
                      NEW k, k = run.met[n]
               PROVE  Settled(k)
    BY DEF AnswersTaken, Symbolic, Settled, Takers
  <2> QED BY DEF SearchInv, Covered
<1> QED BY <1>1, AlwaysSearch, PTL

\* What the search calls an answer takes the program to the goal when it is replayed
\* (_verify, run_program).
THEOREM AlwaysAnswersVerify == Spec => []AnswersVerify
<1>1. SearchInv => AnswersVerify
  <2> SUFFICES ASSUME SearchInv, NEW n \in DOMAIN solutions, at \in {"pick", "again", "done"}, Symbolic,
                      Kinds.argv <= 1, ~Path(solutions[n].path).byLine
               PROVE  solutions[n].verified
    BY DEF AnswersVerify, Symbolic
  <2>1. AllKept
    BY DEF SearchInv, Answering
  <2>2. n \in 1..Len(solutions)
    BY <2>1 DEF AllKept
  <2> QED BY <2>1, <2>2 DEF AllKept, Kept
<1> QED BY <1>1, AlwaysSearch, PTL

-----------------------------------------------------------------------------
(* The shortest answers come first.                                         *)

\* What a path is asked for, apart from any bound on its strings.
Asked(q) ==
    {i \in Takers(q.path) : /\ q.preferred => Printably(i)
                            /\ \A answer \in q.blocked : ~Blocks(answer, i)}
Ending(s) == \A k \in 1..Kinds.argv : ArgvLength(s, k) < ArgvCapacity(Request)
Alike(i, s, n) == \A k \in 1..n : ArgvLength(i, k) = ArgvLength(s, k)

\* The bounds found so far are those of a shortest input, and what is left of the search for
\* the next one holds its bound.
BoundsOf(s) ==
    LET n == Len(look.ends)
    IN /\ n <= Kinds.argv
       /\ \A k \in 1..n : look.ends[k] = ArgvLength(s, k) + 1
       /\ at # "model" => look.line = 0
       /\ at = "line" => Kinds.stdin > 0
       /\ at = "bisect" => /\ n < Kinds.argv /\ 1 <= look.low /\ look.low <= ArgvLength(s, n + 1) + 1
                           /\ ArgvLength(s, n + 1) + 1 <= look.high
                           /\ look.high <= ArgvCapacity(Request)
       /\ at # "bisect" => n = Kinds.argv
       /\ at = "bisectLine" => /\ 1 <= look.low /\ look.low <= LineLength(s) + 1
                               /\ LineLength(s) + 1 <= look.high /\ look.high <= Kinds.stdin
       /\ at = "model" => \/ look.line = LineLength(s) + 1 /\ look.line <= Kinds.stdin
                          \/ /\ look.line = 0
                             /\ \A i \in Asked(look) : Alike(i, s, n) => LineLength(i) = Kinds.stdin

Bounding ==
    \/ at \in {"bisect", "line", "bisectLine"}
    \/ at = "model" /\ Bounded(look)
Narrowed ==
    Symbolic =>
        /\ Bounding /\ sure /\ look.blocked = {} =>
              \A s \in Shortest(Asked(look)) : Ending(s) => BoundsOf(s)
        /\ at \in {"verify", "native"} => look.blocked # {}

\* The inputs a question leaves.
LEMMA ModelsAre ==
    ASSUME NEW T, NEW B, NEW q \in Looks(T, B)
    PROVE  /\ Models(Unbounded(q)) = Asked(q)
           /\ Models(q) = {i \in Asked(q) :
                              /\ \A k \in DOMAIN q.ends : i.argv[k][q.ends[k]] = NUL
                              /\ q.line > 0 => NEWLINE \in Range(SubSeq(i.stdin, 1, q.line))}
<1>1. Models(q) = {i \in Asked(q) :
                      /\ \A k \in DOMAIN q.ends : i.argv[k][q.ends[k]] = NUL
                      /\ q.line > 0 => NEWLINE \in Range(SubSeq(i.stdin, 1, q.line))}
  BY DEF Models, Fits, Asked, Takers
<1> DEFINE u == Unbounded(q)
<1>2. u.path = q.path /\ u.preferred = q.preferred /\ u.blocked = q.blocked /\ u.ends = <<>> /\ u.line = 0
  BY DEF Unbounded, Looks
<1>3. DOMAIN u.ends = {}
  BY <1>2
<1> HIDE DEF u
<1>4. \A i : Fits(i, u) <=> /\ q.preferred => Printably(i)
                            /\ \A answer \in q.blocked : ~Blocks(answer, i)
  BY <1>2, <1>3 DEF Fits
<1>5. Models(u) = Asked(q)
  BY <1>2, <1>4 DEF Models, Asked, Takers
<1> QED BY <1>1, <1>5 DEF u

\* A string has ended at a place when it is shorter; a line, when there is a newline so far.
LEMMA LengthsAre ==
    ASSUME job \in Jobs, NEW i \in Admitted
    PROVE  /\ DOMAIN i.argv = 1..Kinds.argv
           /\ \A k \in 1..Kinds.argv :
                 /\ ArgvLength(i, k) \in 0..ArgvCapacity(Request)
                 /\ \A p \in 1..ArgvCapacity(Request) : i.argv[k][p] = NUL <=> ArgvLength(i, k) < p
                 /\ NUL \in Range(i.argv[k]) <=> ArgvLength(i, k) < ArgvCapacity(Request)
           /\ LineLength(i) \in 0..Kinds.stdin
           /\ \A p \in 1..Kinds.stdin : NEWLINE \in Range(SubSeq(i.stdin, 1, p)) <=> LineLength(i) < p
<1>1. Kinds.stdin \in Nat /\ ArgvCapacity(Request) \in Nat /\ i.stdin \in Text(Kinds.stdin)
      /\ DOMAIN i.argv = 1..Kinds.argv
  BY JobIs, AdmittedIs
<1>2. ASSUME NEW k \in 1..Kinds.argv
      PROVE  /\ ArgvLength(i, k) \in 0..ArgvCapacity(Request)
             /\ \A p \in 1..ArgvCapacity(Request) : i.argv[k][p] = NUL <=> ArgvLength(i, k) < p
             /\ NUL \in Range(i.argv[k]) <=> ArgvLength(i, k) < ArgvCapacity(Request)
  <2>1. PICK n \in Nat : n = ArgvCapacity(Request)
    BY <1>1
  <2>2. PICK s \in Text(n) : s = i.argv[k] /\ ArgvAsked(s, Request)
    BY <2>1, AdmittedIs
  <2>3. PICK m \in 0..n : m = ArgvLength(i, k) /\ (\A p \in 1..m : s[p] # NUL) /\ (m < n => s[m + 1] = NUL)
    BY <2>1, <2>2, BeforeIs DEF ArgvLength
  <2>4. m < n => \A p \in (m + 1)..n : s[p] = NUL
    <3> SUFFICES ASSUME m < n PROVE \A p \in (m + 1)..n : s[p] = NUL
      OBVIOUS
    <3>1. m + 1 \in 1..n /\ s[m + 1] = NUL
      BY <2>3
    <3> QED BY <2>2, <3>1, NulEnds
  <2>5. \A p \in 1..n : s[p] = NUL <=> m < p
    <3> SUFFICES ASSUME NEW p \in 1..n PROVE s[p] = NUL <=> m < p
      OBVIOUS
    <3>1. p \in 1..m \/ (m < n /\ p \in (m + 1)..n)
      OBVIOUS
    <3>2. p \in 1..m => ~(m < p)
      OBVIOUS
    <3>3. p \in (m + 1)..n => m < p
      OBVIOUS
    <3> QED BY <2>3, <2>4, <3>1, <3>2, <3>3
  <2>6. DOMAIN s = 1..n
    BY <2>2, TextIs
  <2>7. NUL \in Range(s) <=> m < n
    <3>1. NUL \in Range(s) <=> \E p \in 1..n : s[p] = NUL
      BY <2>6 DEF Range
    <3>2. m < n => n \in 1..n
      OBVIOUS
    <3>3. \A p \in 1..n : m < p => m < n
      OBVIOUS
    <3> QED BY <2>5, <3>1, <3>2, <3>3
  <2> QED BY <2>1, <2>2, <2>3, <2>5, <2>7
<1>3. /\ LineLength(i) \in 0..Kinds.stdin
      /\ \A p \in 1..Kinds.stdin : NEWLINE \in Range(SubSeq(i.stdin, 1, p)) <=> LineLength(i) < p
  <2>1. PICK n \in Nat : n = Kinds.stdin
    BY <1>1
  <2>2. PICK s \in Text(n) : s = i.stdin
    BY <1>1, <2>1
  <2>3. PICK m \in 0..n : m = LineLength(i) /\ (\A p \in 1..m : s[p] # NEWLINE)
                          /\ (m < n => s[m + 1] = NEWLINE)
    BY <2>2, BeforeIs DEF LineLength
  <2>4. ASSUME NEW p \in 1..n PROVE NEWLINE \in Range(SubSeq(s, 1, p)) <=> m < p
    <3>1. /\ Len(SubSeq(s, 1, p)) = p /\ SubSeq(s, 1, p) \in Seq(AnyByte)
          /\ \A o \in 1..p : SubSeq(s, 1, p)[o] = s[o]
      <4>1. p \in 0..n
        OBVIOUS
      <4> QED BY <4>1, SubText
    <3>2. NEWLINE \in Range(SubSeq(s, 1, p)) <=> \E o \in 1..p : s[o] = NEWLINE
      <4>1. PICK t \in Seq(AnyByte) : t = SubSeq(s, 1, p)
        BY <3>1
      <4>2. DOMAIN t = 1..p /\ \A o \in 1..p : t[o] = s[o]
        BY <3>1, <4>1
      <4> QED BY <4>1, <4>2 DEF Range
    <3>3. m < p => m + 1 \in 1..p /\ m < n
      OBVIOUS
    <3>4. ~(m < p) => \A o \in 1..p : o \in 1..m
      OBVIOUS
    <3> QED BY <2>3, <3>2, <3>3, <3>4
  <2> QED BY <2>1, <2>2, <2>3, <2>4
<1> QED BY <1>1, <1>2, <1>3

\* No string of an input is as short as a shortest one's, but they are all as long.
LEMMA NoneBelow ==
    ASSUME job \in Jobs, NEW S \in SUBSET Admitted, NEW s \in Shortest(S), NEW i \in S,
           NEW n \in 0..Kinds.argv, \A k \in 1..n : ArgvLength(i, k) <= ArgvLength(s, k)
    PROVE  Alike(i, s, n)
<1> DEFINE Bad == {k \in 1..n : ArgvLength(i, k) # ArgvLength(s, k)}
<1>1. SUFFICES ASSUME Bad # {} PROVE FALSE
  BY DEF Alike
<1>2. PICK k \in Bad : \A l \in Bad : k <= l
  <2>1. \A l \in Bad : l \in Nat
    BY JobIs
  <2> HIDE DEF Bad
  <2> QED BY <1>1, <2>1, LeastOf
<1>3. Kinds.argv \in Nat /\ n \in Nat /\ k \in 1..n /\ k \in 1..Kinds.argv
      /\ ArgvLength(i, k) # ArgvLength(s, k)
  BY JobIs
<1>4. \A l \in 1..(k - 1) : ArgvLength(i, l) = ArgvLength(s, l)
  <2> SUFFICES ASSUME NEW l \in 1..(k - 1) PROVE ArgvLength(i, l) = ArgvLength(s, l)
    OBVIOUS
  <2>1. l \in 1..n /\ ~(k <= l)
    BY <1>3
  <2> QED BY <1>2, <2>1
<1>5. DOMAIN i.argv = 1..Kinds.argv /\ ArgvLength(i, k) \in Nat /\ ArgvLength(s, k) \in Nat
  <2>1. i \in Admitted /\ s \in Admitted /\ ArgvCapacity(Request) \in Nat
    BY JobIs DEF Shortest
  <2> QED BY <1>3, <2>1, LengthsAre
<1>6. ArgvLength(i, k) < ArgvLength(s, k)
  <2>1. ArgvLength(i, k) <= ArgvLength(s, k)
    BY <1>3
  <2> QED BY <1>3, <1>5, <2>1
<1>7. Shorter(i, s)
  BY <1>3, <1>4, <1>5, <1>6 DEF Shorter
<1> QED BY <1>7 DEF Shortest

\* And behind strings that are as long none is shorter.
LEMMA NextNotBelow ==
    ASSUME job \in Jobs, NEW S \in SUBSET Admitted, NEW s \in Shortest(S), NEW i \in S,
           NEW n \in 0..Kinds.argv, Alike(i, s, n)
    PROVE  /\ n < Kinds.argv => ArgvLength(s, n + 1) <= ArgvLength(i, n + 1)
           /\ n = Kinds.argv => LineLength(s) <= LineLength(i)
<1>1. i \in Admitted /\ s \in Admitted /\ Kinds.argv \in Nat /\ Kinds.stdin \in Nat
      /\ ArgvCapacity(Request) \in Nat
  BY JobIs DEF Shortest
<1>2. DOMAIN i.argv = 1..Kinds.argv /\ LineLength(i) \in Nat /\ LineLength(s) \in Nat
      /\ \A k \in 1..Kinds.argv : ArgvLength(i, k) \in Nat /\ ArgvLength(s, k) \in Nat
  BY <1>1, LengthsAre
<1>3. ~Shorter(i, s)
  BY DEF Shortest
<1>4. ASSUME n < Kinds.argv PROVE ArgvLength(s, n + 1) <= ArgvLength(i, n + 1)
  <2>1. n + 1 \in 1..Kinds.argv /\ (n + 1) - 1 = n
    BY <1>1, <1>4
  <2>2. ~(ArgvLength(i, n + 1) < ArgvLength(s, n + 1))
    BY <1>2, <1>3, <2>1 DEF Shorter, Alike
  <2> QED BY <1>2, <2>1, <2>2
<1>5. ASSUME n = Kinds.argv PROVE LineLength(s) <= LineLength(i)
  <2>1. ~(LineLength(i) < LineLength(s))
    BY <1>2, <1>3, <1>5 DEF Shorter, Alike
  <2> QED BY <1>2, <2>1
<1> QED BY <1>4, <1>5

EndsOf(q, s) ==
    Len(q.ends) <= Kinds.argv /\ \A k \in 1..Len(q.ends) : q.ends[k] = ArgvLength(s, k) + 1

LEMMA AskedAdmitted ==
    ASSUME NEW q
    PROVE  Asked(q) \in SUBSET Admitted
BY DEF Asked, Takers

\* The bounds of a shortest input leave the inputs whose strings are as short.
LEMMA BoundsLeave ==
    ASSUME job \in Jobs, NEW q \in Looks(Targets, AllAnswers), NEW s \in Shortest(Asked(q)), Ending(s),
           EndsOf(q, s), NEW i \in Asked(q)
    PROVE  (\A k \in DOMAIN q.ends : i.argv[k][q.ends[k]] = NUL) <=> Alike(i, s, Len(q.ends))
<1> DEFINE n == Len(q.ends)
<1>1. q.ends \in Seq(Nat)
  BY DEF Looks
<1>2. n \in 0..Kinds.argv /\ DOMAIN q.ends = 1..n /\ Kinds.argv \in Nat /\ ArgvCapacity(Request) \in Nat
  BY <1>1, JobIs DEF EndsOf
<1>3. i \in Admitted /\ s \in Admitted /\ s \in Asked(q)
  BY DEF Asked, Takers, Shortest
<1>4. ASSUME NEW k \in 1..n
      PROVE  /\ i.argv[k][q.ends[k]] = NUL <=> ArgvLength(i, k) < ArgvLength(s, k) + 1
             /\ ArgvLength(i, k) \in Nat /\ ArgvLength(s, k) \in Nat
  <2>1. k \in 1..Kinds.argv
    BY <1>2
  <2>2. ArgvLength(s, k) \in Nat /\ ArgvLength(s, k) < ArgvCapacity(Request) /\ ArgvLength(i, k) \in Nat
    BY <1>2, <1>3, <2>1, LengthsAre DEF Ending
  <2>3. ArgvLength(s, k) + 1 \in 1..ArgvCapacity(Request)
    BY <1>2, <2>2
  <2>4. q.ends[k] = ArgvLength(s, k) + 1
    BY DEF EndsOf
  <2>5. \A p \in 1..ArgvCapacity(Request) : i.argv[k][p] = NUL <=> ArgvLength(i, k) < p
    BY <1>3, <2>1, LengthsAre
  <2> QED BY <2>2, <2>3, <2>4, <2>5
<1>5. (\A k \in 1..n : i.argv[k][q.ends[k]] = NUL) <=> \A k \in 1..n : ArgvLength(i, k) <= ArgvLength(s, k)
  <2>1. ASSUME NEW k \in 1..n
        PROVE  i.argv[k][q.ends[k]] = NUL <=> ArgvLength(i, k) <= ArgvLength(s, k)
    BY <1>4
  <2> QED BY <2>1
<1>6. (\A k \in 1..n : ArgvLength(i, k) <= ArgvLength(s, k)) => Alike(i, s, n)
  <2>1. Asked(q) \in SUBSET Admitted
    BY AskedAdmitted
  <2> HIDE DEF n
  <2> QED BY <1>2, <2>1, NoneBelow
<1>7. Alike(i, s, n) => \A k \in 1..n : ArgvLength(i, k) <= ArgvLength(s, k)
  <2> SUFFICES ASSUME Alike(i, s, n), NEW k \in 1..n PROVE ArgvLength(i, k) <= ArgvLength(s, k)
    OBVIOUS
  <2>1. ArgvLength(i, k) = ArgvLength(s, k)
    BY DEF Alike
  <2> QED BY <1>4, <2>1
<1> QED BY <1>2, <1>5, <1>6, <1>7

\* What the questions leave of them: those behind another string, those with a newline.
LEMMA QuestionsLeave ==
    ASSUME job \in Jobs, NEW q \in Looks(Targets, AllAnswers), NEW s \in Shortest(Asked(q)), Ending(s),
           EndsOf(q, s), q.line = 0
    PROVE  /\ Models(q) = {i \in Asked(q) : Alike(i, s, Len(q.ends))}
           /\ \A p \in 1..Kinds.stdin :
                 Models([q EXCEPT !.line = p])
                   = {i \in Asked(q) : Alike(i, s, Len(q.ends)) /\ LineLength(i) < p}
           /\ \A p \in 1..ArgvCapacity(Request) :
                 Len(q.ends) < Kinds.argv =>
                    Models([q EXCEPT !.ends = Append(@, p)])
                      = {i \in Asked(q) : /\ Alike(i, s, Len(q.ends))
                                          /\ ArgvLength(i, Len(q.ends) + 1) < p}
<1> DEFINE n == Len(q.ends)
<1>1. q.ends \in Seq(Nat) /\ n \in Nat /\ Kinds.argv \in Nat /\ Kinds.stdin \in Nat
      /\ DOMAIN q.ends = 1..n
  BY JobIs DEF Looks
<1>2. \A i \in Asked(q) : i \in Admitted
  BY DEF Asked, Takers
<1>3. Models(q) = {i \in Asked(q) : Alike(i, s, n)}
  BY BoundsLeave, ModelsAre
<1>4. ASSUME NEW p \in 1..Kinds.stdin
      PROVE  Models([q EXCEPT !.line = p]) = {i \in Asked(q) : Alike(i, s, n) /\ LineLength(i) < p}
  <2>1. PICK r : r = [q EXCEPT !.line = p]
    OBVIOUS
  <2>2. p \in Nat /\ p > 0
    BY <1>1
  <2>3. r \in Looks(Targets, AllAnswers) /\ r.ends = q.ends /\ r.line = p /\ r.path = q.path
        /\ r.preferred = q.preferred /\ r.blocked = q.blocked
    BY <2>1, <2>2 DEF Looks
  <2>4. Asked(r) = Asked(q)
    BY <2>3 DEF Asked
  <2>5. \A i \in Asked(q) : NEWLINE \in Range(SubSeq(i.stdin, 1, p)) <=> LineLength(i) < p
    BY <1>2, LengthsAre
  <2>6. Models(r) = {i \in Asked(q) : /\ \A k \in DOMAIN q.ends : i.argv[k][q.ends[k]] = NUL
                                      /\ NEWLINE \in Range(SubSeq(i.stdin, 1, p))}
    BY <2>2, <2>3, <2>4, ModelsAre
  <2>7. \A i \in Asked(q) :
           (\A k \in DOMAIN q.ends : i.argv[k][q.ends[k]] = NUL) <=> Alike(i, s, n)
    BY BoundsLeave
  <2> QED BY <2>1, <2>5, <2>6, <2>7
<1>5. ASSUME NEW p \in 1..ArgvCapacity(Request), n < Kinds.argv
      PROVE  Models([q EXCEPT !.ends = Append(@, p)])
               = {i \in Asked(q) : Alike(i, s, n) /\ ArgvLength(i, n + 1) < p}
  <2>1. PICK r : r = [q EXCEPT !.ends = Append(@, p)]
    OBVIOUS
  <2>2. p \in Nat /\ n + 1 \in 1..Kinds.argv
    BY <1>1, <1>5, JobIs
  <2>3. Append(q.ends, p) \in Seq(Nat) /\ DOMAIN Append(q.ends, p) = 1..(n + 1)
        /\ Append(q.ends, p)[n + 1] = p /\ \A k \in 1..n : Append(q.ends, p)[k] = q.ends[k]
    BY <1>1, <2>2
  <2>4. r \in Looks(Targets, AllAnswers) /\ r.ends = Append(q.ends, p) /\ r.line = q.line
        /\ r.path = q.path /\ r.preferred = q.preferred /\ r.blocked = q.blocked
    BY <2>1, <2>3 DEF Looks
  <2>5. Asked(r) = Asked(q)
    BY <2>4 DEF Asked
  <2>6. \A i \in Asked(q) : i.argv[n + 1][p] = NUL <=> ArgvLength(i, n + 1) < p
    BY <1>2, <2>2, LengthsAre
  <2>7. \A i \in Asked(q) :
           (\A k \in DOMAIN r.ends : i.argv[k][r.ends[k]] = NUL)
           <=> (\A k \in 1..n : i.argv[k][q.ends[k]] = NUL) /\ i.argv[n + 1][p] = NUL
    <3>1. DOMAIN r.ends = 1..(n + 1) /\ r.ends[n + 1] = p /\ \A k \in 1..n : r.ends[k] = q.ends[k]
      BY <2>3, <2>4
    <3>2. 1..(n + 1) = (1..n) \cup {n + 1}
      BY <1>1
    <3> QED BY <3>1, <3>2
  <2>8. Models(r) = {i \in Asked(q) : \A k \in DOMAIN r.ends : i.argv[k][r.ends[k]] = NUL}
    <3>1. ~(r.line > 0)
      BY <2>4
    <3>2. Models(r) = {i \in Asked(r) :
                          /\ \A k \in DOMAIN r.ends : i.argv[k][r.ends[k]] = NUL
                          /\ r.line > 0 => NEWLINE \in Range(SubSeq(i.stdin, 1, r.line))}
      BY <2>4, ModelsAre
    <3> QED BY <2>5, <3>1, <3>2
  <2>9. \A i \in Asked(q) : (\A k \in 1..n : i.argv[k][q.ends[k]] = NUL) <=> Alike(i, s, n)
    BY <1>1, BoundsLeave
  <2> QED BY <2>1, <2>6, <2>7, <2>8, <2>9
<1> QED BY <1>3, <1>4, <1>5

\* Bounds, and where extract is, are all that changes.
LEMMA AskedLater ==
    ASSUME job' = job, NEW q, look'.path = q.path, look'.preferred = q.preferred,
           look'.blocked = q.blocked
    PROVE  Asked(look)' = Asked(q)
<1>1. Takers(look.path)' = Takers(q.path)
  BY SameRequest DEF Takers
<1> QED BY <1>1 DEF Asked

\* The search for a next bound begins with all it can be.
LEMMA NextBoundNarrows ==
    ASSUME job \in Jobs, job' = job, NEW q \in Looks(Targets, AllAnswers), NextBound(q), q.line = 0,
           NEW s \in Shortest(Asked(q)), Ending(s), EndsOf(q, s)
    PROVE  BoundsOf(s)' /\ Asked(look)' = Asked(q)
<1>1. Request' = Request /\ Kinds' = Kinds
  BY SameRequest
<1>2. q.ends \in Seq(Nat) /\ Len(q.ends) \in Nat /\ Kinds.argv \in Nat /\ Kinds.stdin \in Nat
      /\ ArgvCapacity(Request) \in Nat
  BY JobIs DEF Looks
<1>3. look'.path = q.path /\ look'.preferred = q.preferred /\ look'.blocked = q.blocked
      /\ look'.ends = q.ends /\ look'.line = q.line
  BY DEF NextBound, Looks
<1>4. Asked(look)' = Asked(q)
  BY <1>3, AskedLater
<1>5. Len(q.ends) <= Kinds.argv /\ \A k \in 1..Len(q.ends) : q.ends[k] = ArgvLength(s, k) + 1
  BY DEF EndsOf
<1>6. CASE Len(q.ends) < Kinds.argv
  <2> DEFINE n == Len(q.ends)
  <2>1. at' = "bisect" /\ look'.low = 1 /\ look'.high = ArgvCapacity(Request)
    BY <1>6 DEF NextBound, Looks
  <2>2. n + 1 \in 1..Kinds.argv
    BY <1>2, <1>6
  <2>3. ArgvLength(s, n + 1) \in Nat /\ ArgvLength(s, n + 1) < ArgvCapacity(Request)
    <3>1. s \in Admitted
      BY DEF Shortest, Asked, Takers
    <3> QED BY <1>2, <2>2, <3>1, LengthsAre DEF Ending
  <2>4. 1 <= ArgvLength(s, n + 1) + 1 /\ ArgvLength(s, n + 1) + 1 <= ArgvCapacity(Request)
    BY <1>2, <2>3
  <2> QED BY <1>1, <1>2, <1>3, <1>4, <1>5, <1>6, <2>1, <2>4 DEF BoundsOf
<1>7. CASE ~(Len(q.ends) < Kinds.argv)
  <2>1. look' = q /\ at' = IF Kinds.stdin > 0 THEN "line" ELSE "model"
    BY <1>7 DEF NextBound
  <2>2. Len(q.ends) = Kinds.argv
    BY <1>2, <1>5, <1>7
  <2>3. Kinds.stdin = 0 => \A i \in Asked(q) : LineLength(i) = Kinds.stdin
    <3> SUFFICES ASSUME Kinds.stdin = 0, NEW i \in Asked(q) PROVE LineLength(i) = Kinds.stdin
      OBVIOUS
    <3>1. i \in Admitted
      BY DEF Asked, Takers
    <3>2. LineLength(i) \in 0..Kinds.stdin
      BY <3>1, LengthsAre
    <3> QED BY <3>2
  <2>4. CASE Kinds.stdin > 0
    BY <1>1, <1>3, <1>4, <1>5, <2>1, <2>2, <2>4 DEF BoundsOf
  <2>5. CASE Kinds.stdin = 0
    BY <1>1, <1>3, <1>4, <1>5, <2>1, <2>2, <2>3, <2>5 DEF BoundsOf
  <2> QED BY <1>2, <2>4, <2>5
<1> QED BY <1>4, <1>6, <1>7

\* Half of what is left goes, and not the half that holds the bound.
LEMMA HalvedHolds ==
    ASSUME NEW low \in Nat, NEW high \in Nat, low < high, NEW b \in Nat, low <= b, b <= high,
           NEW middle, middle = (low + high) \div 2
    PROVE  /\ middle \in Nat /\ low <= middle /\ middle < high
           /\ b <= middle => low <= b /\ b <= middle
           /\ ~(b <= middle) => middle + 1 <= b /\ b <= high
<1>1. middle \in Nat /\ low <= middle /\ middle < high
  OBVIOUS
<1> QED BY <1>1

\* An answer to a question about a bound tells on which side of it the bound of s is.
LEMMA BisectTells ==
    ASSUME job \in Jobs, NEW q \in Looks(Targets, AllAnswers), NEW s \in Shortest(Asked(q)), Ending(s),
           EndsOf(q, s), q.line = 0, Len(q.ends) < Kinds.argv, NEW p \in 1..ArgvCapacity(Request)
    PROVE  LET models == Models([q EXCEPT !.ends = Append(@, p)])
           IN models = {} <=> ~(ArgvLength(s, Len(q.ends) + 1) + 1 <= p)
<1> DEFINE n == Len(q.ends)
           models == {i \in Asked(q) : Alike(i, s, n) /\ ArgvLength(i, n + 1) < p}
<1>1. n \in 0..Kinds.argv /\ n + 1 \in 1..Kinds.argv /\ Kinds.argv \in Nat /\ p \in Nat
      /\ ArgvCapacity(Request) \in Nat
  <2>1. q.ends \in Seq(Nat)
    BY DEF Looks
  <2> QED BY <2>1, JobIs
<1>2. Asked(q) \in SUBSET Admitted /\ s \in Asked(q) /\ s \in Admitted
  BY AskedAdmitted DEF Shortest
<1>3. \A i \in Asked(q) : ArgvLength(i, n + 1) \in Nat
  <2> SUFFICES ASSUME NEW i \in Asked(q) PROVE ArgvLength(i, n + 1) \in Nat
    OBVIOUS
  <2>1. ArgvLength(i, n + 1) \in 0..ArgvCapacity(Request)
    BY <1>1, <1>2, LengthsAre
  <2> QED BY <1>1, <2>1
<1>4. Models([q EXCEPT !.ends = Append(@, p)]) = models
  BY QuestionsLeave
<1>5. ASSUME NEW i \in models PROVE ArgvLength(s, n + 1) + 1 <= p
  <2>1. ArgvLength(s, n + 1) <= ArgvLength(i, n + 1)
    BY <1>1, <1>2, NextNotBelow
  <2> QED BY <1>1, <1>2, <1>3, <2>1
<1>6. models = {} => ~(ArgvLength(s, n + 1) + 1 <= p)
  <2>1. Alike(s, s, n)
    BY DEF Alike
  <2> QED BY <1>1, <1>2, <1>3, <2>1
<1> QED BY <1>4, <1>5, <1>6

LEMMA LineTells ==
    ASSUME job \in Jobs, NEW q \in Looks(Targets, AllAnswers), NEW s \in Shortest(Asked(q)), Ending(s),
           EndsOf(q, s), q.line = 0, Len(q.ends) = Kinds.argv, NEW p \in 1..Kinds.stdin
    PROVE  LET models == Models([q EXCEPT !.line = p])
           IN /\ models = {} <=> ~(LineLength(s) + 1 <= p)
              /\ models = {} => \A i \in Asked(q) : Alike(i, s, Kinds.argv) => ~(LineLength(i) < p)
<1> DEFINE n == Len(q.ends)
           models == {i \in Asked(q) : Alike(i, s, n) /\ LineLength(i) < p}
<1>1. n \in 0..Kinds.argv /\ p \in Nat /\ Kinds.stdin \in Nat
  BY JobIs
<1>2. Asked(q) \in SUBSET Admitted /\ s \in Asked(q) /\ s \in Admitted
  BY AskedAdmitted DEF Shortest
<1>3. \A i \in Asked(q) : LineLength(i) \in Nat
  <2> SUFFICES ASSUME NEW i \in Asked(q) PROVE LineLength(i) \in Nat
    OBVIOUS
  <2>1. LineLength(i) \in 0..Kinds.stdin
    BY <1>2, LengthsAre
  <2> QED BY <1>1, <2>1
<1>4. Models([q EXCEPT !.line = p]) = models
  BY QuestionsLeave
<1>5. ASSUME NEW i \in models PROVE LineLength(s) + 1 <= p
  <2>1. LineLength(s) <= LineLength(i)
    BY <1>1, <1>2, NextNotBelow
  <2> QED BY <1>1, <1>2, <1>3, <2>1
<1>6. models = {} => ~(LineLength(s) + 1 <= p)
  <2>1. Alike(s, s, n)
    BY DEF Alike
  <2> QED BY <1>1, <1>2, <1>3, <2>1
<1>7. models = {} => \A i \in Asked(q) : Alike(i, s, Kinds.argv) => ~(LineLength(i) < p)
  OBVIOUS
<1> QED BY <1>4, <1>5, <1>6, <1>7

\* At a bound, with what the questions so far have shown.
LEMMA BoundIs ==
    ASSUME SearchInv, Narrowed, at \in {"bisect", "line", "bisectLine"}, sure, look.blocked = {},
           NEW s \in Shortest(Asked(look)), Ending(s)
    PROVE  /\ Symbolic /\ job \in Jobs /\ look \in Looks(Targets, AllAnswers) /\ look.line = 0
           /\ EndsOf(look, s) /\ BoundsOf(s)
<1>1. Symbolic /\ job \in Jobs
  BY DEF SearchInv, Phases, Symbolic, Inside
<1>2. look \in Looks(Targets, AllAnswers)
  BY <1>1, LookIs DEF Inside, LookOK, LookFits
<1>3. BoundsOf(s)
  BY <1>1 DEF Narrowed, Bounding
<1> QED BY <1>1, <1>2, <1>3 DEF BoundsOf, EndsOf

LEMMA LookHalves ==
    ASSUME NEW T, NEW B, NEW q \in Looks(T, B), NEW middle \in Nat, NEW answer, NEW r,
           r = Halved(q, middle, answer)
    PROVE  /\ r.path = q.path /\ r.preferred = q.preferred /\ r.blocked = q.blocked
           /\ r.ends = q.ends /\ r.line = q.line
           /\ r.low = IF answer THEN q.low ELSE middle + 1
           /\ r.high = IF answer THEN middle ELSE q.high
BY DEF Halved, Looks

LEMMA BisectNarrows == SearchInv /\ Narrowed /\ Bisect => Narrowed'
<1> SUFFICES ASSUME SearchInv, Narrowed, Bisect PROVE Narrowed'
  OBVIOUS
<1>1. UNCHANGED control /\ at = "bisect" /\ at' = "bisect" /\ look.low < look.high
  BY DEF Bisect
<1>2. job' = job /\ Request' = Request /\ Kinds' = Kinds
  BY <1>1, SameRequest DEF control
<1>3. PICK middle, q, answer : /\ middle = (look.low + look.high) \div 2
                               /\ q = [look EXCEPT !.ends = Append(@, middle)] /\ answer \in Answers(q)
                               /\ look' = Halved(look, middle, answer) /\ Silence(q, answer)
  BY DEF Bisect
<1>4. SUFFICES ASSUME sure', look'.blocked = {}, NEW s \in Shortest(Asked(look)'), Ending(s)'
               PROVE  BoundsOf(s)'
  BY <1>1 DEF Narrowed
<1>5. look \in Looks(Targets, AllAnswers) /\ job \in Jobs
  <2>1. Symbolic /\ job \in Jobs
    BY <1>1 DEF SearchInv, Phases, Symbolic, Inside
  <2> QED BY <1>1, <2>1, LookIs DEF Inside, LookOK, LookFits
<1>6. look.low \in Nat /\ look.high \in Nat /\ middle \in Nat
  BY <1>3, <1>5 DEF Looks
<1>7. /\ look'.path = look.path /\ look'.preferred = look.preferred /\ look'.blocked = look.blocked
      /\ look'.ends = look.ends /\ look'.line = look.line
      /\ look'.low = IF answer THEN look.low ELSE middle + 1
      /\ look'.high = IF answer THEN middle ELSE look.high
  BY <1>3, <1>5, <1>6, LookHalves
<1>8. Asked(look)' = Asked(look)
  BY <1>2, <1>7, AskedLater
<1>9. Ending(s)
  BY <1>2, <1>4 DEF Ending
<1>10. sure /\ (answer \/ Models(q) = {})
  <2>1. sure \in BOOLEAN
    BY DEF SearchInv, Phases
  <2> QED BY <1>3, <1>4, <2>1, SilenceIs
<1>11. BoundsOf(s) /\ EndsOf(look, s) /\ look.line = 0
  BY <1>1, <1>4, <1>7, <1>8, <1>9, <1>10, BoundIs
<1> DEFINE n == Len(look.ends)
           b == ArgvLength(s, n + 1) + 1
<1>12. /\ n < Kinds.argv /\ 1 <= look.low /\ look.low <= b /\ b <= look.high
       /\ look.high <= ArgvCapacity(Request) /\ b \in Nat /\ ArgvCapacity(Request) \in Nat
  <2>1. n < Kinds.argv /\ 1 <= look.low /\ look.low <= b /\ b <= look.high
        /\ look.high <= ArgvCapacity(Request)
    BY <1>1, <1>11 DEF BoundsOf
  <2>2. n + 1 \in 1..Kinds.argv /\ ArgvCapacity(Request) \in Nat /\ s \in Admitted
    <3>1. look.ends \in Seq(Nat)
      BY <1>5 DEF Looks
    <3>2. s \in Admitted
      BY <1>4, <1>8, AskedAdmitted DEF Shortest
    <3> QED BY <1>5, <2>1, <3>1, <3>2, JobIs
  <2>3. ArgvLength(s, n + 1) \in 0..ArgvCapacity(Request)
    BY <1>5, <2>2, LengthsAre
  <2> QED BY <2>1, <2>2, <2>3
<1>13. /\ middle \in Nat /\ look.low <= middle /\ middle < look.high
       /\ b <= middle => look.low <= b /\ b <= middle
       /\ ~(b <= middle) => middle + 1 <= b /\ b <= look.high
  BY <1>1, <1>3, <1>6, <1>12, HalvedHolds
<1>14. middle \in 1..ArgvCapacity(Request)
  BY <1>6, <1>12, <1>13
<1>15. Models(q) = {} <=> ~(b <= middle)
  BY <1>3, <1>4, <1>5, <1>8, <1>9, <1>11, <1>12, <1>14, BisectTells
<1>16. answer => Models(q) # {}
  BY <1>3 DEF Answers
<1>17. look'.low <= b /\ b <= look'.high /\ 1 <= look'.low /\ look'.high <= ArgvCapacity(Request)
  <2>1. CASE answer
    BY <1>6, <1>7, <1>12, <1>13, <1>15, <1>16, <2>1
  <2>2. CASE ~answer
    BY <1>6, <1>7, <1>10, <1>12, <1>13, <1>15, <2>2
  <2> QED BY <2>1, <2>2
<1>18. b = ArgvLength(s, Len(look'.ends) + 1) + 1
  BY <1>7
<1> HIDE DEF b
<1> QED BY <1>1, <1>2, <1>7, <1>11, <1>12, <1>17, <1>18 DEF BoundsOf

LEMMA BisectLineNarrows == SearchInv /\ Narrowed /\ BisectLine => Narrowed'
<1> SUFFICES ASSUME SearchInv, Narrowed, BisectLine PROVE Narrowed'
  OBVIOUS
<1>1. UNCHANGED control /\ at = "bisectLine" /\ at' = "bisectLine" /\ look.low < look.high
  BY DEF BisectLine
<1>2. job' = job /\ Request' = Request /\ Kinds' = Kinds
  BY <1>1, SameRequest DEF control
<1>3. PICK middle, q, answer : /\ middle = (look.low + look.high) \div 2
                               /\ q = [look EXCEPT !.line = middle] /\ answer \in Answers(q)
                               /\ look' = Halved(look, middle, answer) /\ Silence(q, answer)
  BY DEF BisectLine
<1>4. SUFFICES ASSUME sure', look'.blocked = {}, NEW s \in Shortest(Asked(look)'), Ending(s)'
               PROVE  BoundsOf(s)'
  BY <1>1 DEF Narrowed
<1>5. look \in Looks(Targets, AllAnswers) /\ job \in Jobs /\ Kinds.stdin \in Nat
  <2>1. Symbolic /\ job \in Jobs
    BY <1>1 DEF SearchInv, Phases, Symbolic, Inside
  <2> QED BY <1>1, <2>1, LookIs, JobIs DEF Inside, LookOK, LookFits
<1>6. look.low \in Nat /\ look.high \in Nat /\ middle \in Nat
  BY <1>3, <1>5 DEF Looks
<1>7. /\ look'.path = look.path /\ look'.preferred = look.preferred /\ look'.blocked = look.blocked
      /\ look'.ends = look.ends /\ look'.line = look.line
      /\ look'.low = IF answer THEN look.low ELSE middle + 1
      /\ look'.high = IF answer THEN middle ELSE look.high
  BY <1>3, <1>5, <1>6, LookHalves
<1>8. Asked(look)' = Asked(look)
  BY <1>2, <1>7, AskedLater
<1>9. Ending(s)
  BY <1>2, <1>4 DEF Ending
<1>10. sure /\ (answer \/ Models(q) = {})
  <2>1. sure \in BOOLEAN
    BY DEF SearchInv, Phases
  <2> QED BY <1>3, <1>4, <2>1, SilenceIs
<1>11. BoundsOf(s) /\ EndsOf(look, s) /\ look.line = 0
  BY <1>1, <1>4, <1>7, <1>8, <1>9, <1>10, BoundIs
<1> DEFINE b == LineLength(s) + 1
<1>12. /\ Len(look.ends) = Kinds.argv /\ 1 <= look.low /\ look.low <= b /\ b <= look.high
       /\ look.high <= Kinds.stdin /\ b \in Nat
  <2>1. /\ Len(look.ends) = Kinds.argv /\ 1 <= look.low /\ look.low <= b /\ b <= look.high
        /\ look.high <= Kinds.stdin
    BY <1>1, <1>11 DEF BoundsOf
  <2>2. s \in Admitted
    BY <1>4, <1>8, AskedAdmitted DEF Shortest
  <2>3. LineLength(s) \in 0..Kinds.stdin
    BY <1>5, <2>2, LengthsAre
  <2> QED BY <1>5, <2>1, <2>3
<1>13. /\ middle \in Nat /\ look.low <= middle /\ middle < look.high
       /\ b <= middle => look.low <= b /\ b <= middle
       /\ ~(b <= middle) => middle + 1 <= b /\ b <= look.high
  BY <1>1, <1>3, <1>6, <1>12, HalvedHolds
<1>14. middle \in 1..Kinds.stdin
  BY <1>5, <1>6, <1>12, <1>13
<1>15. Models(q) = {} <=> ~(b <= middle)
  BY <1>3, <1>4, <1>5, <1>8, <1>9, <1>11, <1>12, <1>14, LineTells
<1>16. answer => Models(q) # {}
  BY <1>3 DEF Answers
<1>17. look'.low <= b /\ b <= look'.high /\ 1 <= look'.low /\ look'.high <= Kinds.stdin
  <2>1. CASE answer
    BY <1>5, <1>6, <1>7, <1>12, <1>13, <1>15, <1>16, <2>1
  <2>2. CASE ~answer
    BY <1>6, <1>7, <1>10, <1>12, <1>13, <1>15, <2>2
  <2> QED BY <2>1, <2>2
<1>18. b = LineLength(s) + 1
  OBVIOUS
<1> HIDE DEF b
<1> QED BY <1>1, <1>2, <1>7, <1>11, <1>12, <1>17, <1>18 DEF BoundsOf

LEMMA AskLineNarrows == SearchInv /\ Narrowed /\ AskLine => Narrowed'
<1> SUFFICES ASSUME SearchInv, Narrowed, AskLine PROVE Narrowed'
  OBVIOUS
<1>1. UNCHANGED control /\ at = "line" /\ at' \in {"bisectLine", "model"}
  BY DEF AskLine
<1>2. job' = job /\ Request' = Request /\ Kinds' = Kinds
  BY <1>1, SameRequest DEF control
<1>3. PICK q, answer : /\ q = [look EXCEPT !.line = Kinds.stdin] /\ answer \in Answers(q)
                       /\ Silence(q, answer)
                       /\ look' = [look EXCEPT !.low = 1, !.high = Kinds.stdin]
                       /\ at' = IF answer THEN "bisectLine" ELSE "model"
  BY DEF AskLine
<1>4. SUFFICES ASSUME sure', look'.blocked = {}, NEW s \in Shortest(Asked(look)'), Ending(s)'
               PROVE  BoundsOf(s)'
  BY <1>1 DEF Narrowed
<1>5. look \in Looks(Targets, AllAnswers) /\ job \in Jobs /\ Kinds.stdin \in Nat
  <2>1. Symbolic /\ job \in Jobs
    BY <1>1 DEF SearchInv, Phases, Symbolic, Inside
  <2> QED BY <1>1, <2>1, LookIs, JobIs DEF Inside, LookOK, LookFits
<1>6. /\ look'.path = look.path /\ look'.preferred = look.preferred /\ look'.blocked = look.blocked
      /\ look'.ends = look.ends /\ look'.line = look.line /\ look'.low = 1 /\ look'.high = Kinds.stdin
  BY <1>3, <1>5 DEF Looks
<1>7. Asked(look)' = Asked(look)
  BY <1>2, <1>6, AskedLater
<1>8. Ending(s)
  BY <1>2, <1>4 DEF Ending
<1>9. sure /\ (answer \/ Models(q) = {})
  <2>1. sure \in BOOLEAN
    BY DEF SearchInv, Phases
  <2> QED BY <1>3, <1>4, <2>1, SilenceIs
<1>10. BoundsOf(s) /\ EndsOf(look, s) /\ look.line = 0
  BY <1>1, <1>4, <1>6, <1>7, <1>8, <1>9, BoundIs
<1>11. Len(look.ends) = Kinds.argv
  BY <1>1, <1>10 DEF BoundsOf
<1>12. s \in Admitted /\ \A i \in Asked(look) : LineLength(i) \in 0..Kinds.stdin
  <2>1. s \in Admitted /\ Asked(look) \in SUBSET Admitted
    BY <1>4, <1>7, AskedAdmitted DEF Shortest
  <2> QED BY <1>5, <2>1, LengthsAre
<1>13. s \in Asked(look)
  BY <1>4, <1>7 DEF Shortest
<1>14. Kinds.stdin > 0
  BY <1>1, <1>10 DEF BoundsOf
<1>15. BoundsOf(s)'
  <2>1. Kinds.stdin \in 1..Kinds.stdin
    BY <1>5, <1>14
  <2>2. /\ Models(q) = {} <=> ~(LineLength(s) + 1 <= Kinds.stdin)
        /\ Models(q) = {} => \A i \in Asked(look) : Alike(i, s, Kinds.argv) => ~(LineLength(i) < Kinds.stdin)
    BY <1>3, <1>4, <1>5, <1>7, <1>8, <1>10, <1>11, <2>1, LineTells
  <2>3. CASE answer
    <3>1. LineLength(s) + 1 <= Kinds.stdin
      BY <1>3, <2>2, <2>3 DEF Answers
    <3>2. 1 <= LineLength(s) + 1
      <4>1. LineLength(s) \in 0..Kinds.stdin
        BY <1>12, <1>13
      <4> QED BY <1>5, <4>1
    <3>3. at' = "bisectLine"
      BY <1>3, <2>3
    <3>4. 1 <= look'.low /\ look'.low <= LineLength(s) + 1 /\ LineLength(s) + 1 <= look'.high
          /\ look'.high <= Kinds.stdin
      BY <1>5, <1>6, <3>1, <3>2
    <3>5. \A k \in 1..Len(look.ends) : look.ends[k] = ArgvLength(s, k) + 1
      BY <1>10 DEF BoundsOf
    <3> QED BY <1>2, <1>6, <1>10, <1>11, <3>3, <3>4, <3>5 DEF BoundsOf
  <2>4. CASE ~answer
    <3>1. \A i \in Asked(look) : Alike(i, s, Kinds.argv) => ~(LineLength(i) < Kinds.stdin)
      BY <1>9, <2>2, <2>4
    <3>2. \A i \in Asked(look) : Alike(i, s, Kinds.argv) => LineLength(i) = Kinds.stdin
      <4> SUFFICES ASSUME NEW i \in Asked(look), Alike(i, s, Kinds.argv) PROVE LineLength(i) = Kinds.stdin
        OBVIOUS
      <4>1. LineLength(i) \in 0..Kinds.stdin /\ ~(LineLength(i) < Kinds.stdin)
        BY <1>12, <3>1
      <4> QED BY <1>5, <4>1
    <3>3. at' = "model"
      BY <1>3, <2>4
    <3>4. \A i : Alike(i, s, Len(look.ends))' = Alike(i, s, Kinds.argv)
      BY <1>6, <1>11 DEF Alike
    <3> QED BY <1>2, <1>6, <1>7, <1>10, <1>11, <3>2, <3>3, <3>4 DEF BoundsOf
  <2> QED BY <2>3, <2>4
<1> QED BY <1>15

LEMMA BisectedNarrows == SearchInv /\ Narrowed /\ Bisected => Narrowed'
<1> SUFFICES ASSUME SearchInv, Narrowed, Bisected PROVE Narrowed'
  OBVIOUS
<1>1. UNCHANGED <<control, sure>> /\ at = "bisect" /\ look.low >= look.high
  BY DEF Bisected
<1>2. job' = job /\ Request' = Request /\ Kinds' = Kinds
  BY <1>1, SameRequest DEF control
<1>3. PICK q : q = [look EXCEPT !.ends = Append(@, look.low)] /\ NextBound(q)
  BY DEF Bisected
<1>4. at' \in {"bisect", "line", "model"}
  BY <1>3 DEF NextBound
<1>5. SUFFICES ASSUME sure', look'.blocked = {}, NEW s \in Shortest(Asked(look)'), Ending(s)'
               PROVE  BoundsOf(s)'
  BY <1>4 DEF Narrowed
<1>6. look \in Looks(Targets, AllAnswers) /\ job \in Jobs
  <2>1. Symbolic /\ job \in Jobs
    BY <1>1 DEF SearchInv, Phases, Symbolic, Inside
  <2> QED BY <1>1, <2>1, LookIs DEF Inside, LookOK, LookFits
<1>7. PICK n \in Nat : n = Len(look.ends) /\ look.ends \in Seq(Nat) /\ look.low \in Nat /\ look.high \in Nat
  BY <1>6 DEF Looks
<1>8. /\ Append(look.ends, look.low) \in Seq(Nat) /\ Len(Append(look.ends, look.low)) = n + 1
      /\ Append(look.ends, look.low)[n + 1] = look.low
      /\ \A k \in 1..n : Append(look.ends, look.low)[k] = look.ends[k]
  BY <1>7
<1>9. /\ q \in Looks(Targets, AllAnswers) /\ q.ends = Append(look.ends, look.low) /\ q.line = look.line
      /\ q.path = look.path /\ q.preferred = look.preferred /\ q.blocked = look.blocked
  BY <1>3, <1>6, <1>8 DEF Looks
<1>10. /\ look'.path = look.path /\ look'.preferred = look.preferred /\ look'.blocked = look.blocked
  BY <1>3, <1>9 DEF NextBound, Looks
<1>11. Asked(look)' = Asked(look) /\ Asked(q) = Asked(look)
  BY <1>2, <1>9, <1>10, AskedLater DEF Asked
<1>12. Ending(s)
  BY <1>2, <1>5 DEF Ending
<1>13. BoundsOf(s) /\ EndsOf(look, s) /\ look.line = 0
  BY <1>1, <1>5, <1>10, <1>11, <1>12, BoundIs
<1>14. /\ n < Kinds.argv /\ look.low <= ArgvLength(s, n + 1) + 1
       /\ ArgvLength(s, n + 1) + 1 <= look.high
  BY <1>1, <1>7, <1>13 DEF BoundsOf
<1>15. ArgvLength(s, n + 1) \in Nat /\ Kinds.argv \in Nat
  <2>1. n + 1 \in 1..Kinds.argv /\ ArgvCapacity(Request) \in Nat /\ s \in Admitted /\ Kinds.argv \in Nat
    <3>1. s \in Admitted
      BY <1>5, <1>11, AskedAdmitted DEF Shortest
    <3> QED BY <1>6, <1>14, <3>1, JobIs
  <2>2. ArgvLength(s, n + 1) \in 0..ArgvCapacity(Request)
    BY <1>6, <2>1, LengthsAre
  <2> QED BY <2>1, <2>2
<1>16. look.low = ArgvLength(s, n + 1) + 1
  BY <1>1, <1>7, <1>14, <1>15
<1>17. EndsOf(q, s)
  <2>1. Len(q.ends) = n + 1 /\ n + 1 <= Kinds.argv
    BY <1>7, <1>8, <1>9, <1>14, <1>15
  <2>2. ASSUME NEW k \in 1..(n + 1) PROVE q.ends[k] = ArgvLength(s, k) + 1
    <3>1. CASE k \in 1..n
      BY <1>7, <1>8, <1>9, <1>13, <3>1 DEF EndsOf
    <3>2. CASE k = n + 1
      BY <1>8, <1>9, <1>16, <3>2
    <3> QED BY <1>7, <3>1, <3>2
  <2> QED BY <2>1, <2>2 DEF EndsOf
<1>18. s \in Shortest(Asked(q)) /\ q.line = 0
  BY <1>5, <1>9, <1>11, <1>13
<1> QED BY <1>2, <1>3, <1>6, <1>9, <1>12, <1>17, <1>18, NextBoundNarrows

LEMMA AskNarrows == SearchInv /\ Narrowed /\ Ask => Narrowed'
<1> SUFFICES ASSUME SearchInv, Narrowed, Ask PROVE Narrowed'
  OBVIOUS
<1>1. UNCHANGED control /\ at = "ask"
  BY DEF Ask
<1>2. job' = job /\ Request' = Request /\ Kinds' = Kinds
  BY <1>1, SameRequest DEF control
<1>3. CASE at' \in {"pick", "again"}
  BY <1>3 DEF Narrowed, Bounding
<1>4. CASE NextBound(look)
  <2>1. at' \in {"bisect", "line", "model"}
    BY <1>4 DEF NextBound
  <2>2. SUFFICES ASSUME sure', look'.blocked = {}, NEW s \in Shortest(Asked(look)'), Ending(s)'
                 PROVE  BoundsOf(s)'
    BY <2>1 DEF Narrowed
  <2>3. /\ look \in Looks(Targets, AllAnswers) /\ job \in Jobs /\ Kinds.argv \in Nat
        /\ look.ends = <<>> /\ look.line = 0
    <3>1. Symbolic /\ job \in Jobs
      BY <1>1 DEF SearchInv, Phases, Symbolic, Inside
    <3> QED BY <1>1, <3>1, LookIs, JobIs DEF Inside, LookOK, LookFits
  <2>4. look'.path = look.path /\ look'.preferred = look.preferred /\ look'.blocked = look.blocked
    BY <1>4, <2>3 DEF NextBound, Looks
  <2>5. Asked(look)' = Asked(look)
    BY <1>2, <2>4, AskedLater
  <2>6. Ending(s) /\ s \in Shortest(Asked(look))
    BY <1>2, <2>2, <2>5 DEF Ending
  <2>7. EndsOf(look, s)
    BY <2>3 DEF EndsOf
  <2> QED BY <1>2, <1>4, <2>3, <2>6, <2>7, NextBoundNarrows
<1> QED BY <1>3, <1>4 DEF Ask, Back

LEMMA BisectedLineNarrows == SearchInv /\ Narrowed /\ BisectedLine => Narrowed'
<1> SUFFICES ASSUME SearchInv, Narrowed, BisectedLine PROVE Narrowed'
  OBVIOUS
<1>1. /\ UNCHANGED <<control, sure>> /\ at = "bisectLine" /\ at' = "model" /\ look.low >= look.high
      /\ look' = [look EXCEPT !.line = look.low]
  BY DEF BisectedLine
<1>2. job' = job /\ Request' = Request /\ Kinds' = Kinds
  BY <1>1, SameRequest DEF control
<1>3. SUFFICES ASSUME sure', look'.blocked = {}, NEW s \in Shortest(Asked(look)'), Ending(s)'
               PROVE  BoundsOf(s)'
  BY <1>1 DEF Narrowed
<1>4. look \in Looks(Targets, AllAnswers) /\ job \in Jobs /\ Kinds.stdin \in Nat
  <2>1. Symbolic /\ job \in Jobs
    BY <1>1 DEF SearchInv, Phases, Symbolic, Inside
  <2> QED BY <1>1, <2>1, LookIs, JobIs DEF Inside, LookOK, LookFits
<1>5. /\ look'.path = look.path /\ look'.preferred = look.preferred /\ look'.blocked = look.blocked
      /\ look'.ends = look.ends /\ look'.line = look.low
  BY <1>1, <1>4 DEF Looks
<1>6. Asked(look)' = Asked(look)
  BY <1>2, <1>5, AskedLater
<1>7. Ending(s)
  BY <1>2, <1>3 DEF Ending
<1>8. BoundsOf(s)
  BY <1>1, <1>3, <1>5, <1>6, <1>7, BoundIs
<1>9. /\ Len(look.ends) = Kinds.argv /\ look.low <= LineLength(s) + 1
      /\ LineLength(s) + 1 <= look.high /\ look.high <= Kinds.stdin
      /\ \A k \in 1..Len(look.ends) : look.ends[k] = ArgvLength(s, k) + 1
  BY <1>1, <1>8 DEF BoundsOf
<1>10. LineLength(s) \in Nat /\ look.low \in Nat /\ look.high \in Nat
  <2>1. s \in Admitted
    BY <1>3, <1>6, AskedAdmitted DEF Shortest
  <2>2. LineLength(s) \in 0..Kinds.stdin
    BY <1>4, <2>1, LengthsAre
  <2> QED BY <1>4, <2>2 DEF Looks
<1>11. look'.line = LineLength(s) + 1 /\ look'.line <= Kinds.stdin /\ Kinds.argv <= Kinds.argv
  <2>1. Kinds.argv \in Nat
    BY <1>4, JobIs
  <2> QED BY <1>1, <1>4, <1>5, <1>9, <1>10, <2>1
<1> QED BY <1>1, <1>2, <1>5, <1>9, <1>11 DEF BoundsOf

LEMMA NextNarrowed == SearchInv /\ Narrowed /\ [Next]_vars => Narrowed'
<1> SUFFICES ASSUME SearchInv, Narrowed, [Next]_vars PROVE Narrowed'
  OBVIOUS
<1>1. CASE at' \notin {"bisect", "line", "bisectLine", "model", "verify", "native"}
  BY <1>1 DEF Narrowed, Bounding
<1>2. CASE Model
  <2> SUFFICES ASSUME Symbolic' PROVE Narrowed'
    BY DEF Narrowed
  <2>1. look \in Looks(Targets, AllAnswers)
    <3>1. Symbolic /\ at = "model"
      BY <1>2 DEF Model, control, Symbolic
    <3> QED BY <3>1, LookIs DEF Inside, LookOK, LookFits
  <2>2. PICK answer : look' = [look EXCEPT !.blocked = @ \cup {answer}, !.found = TRUE]
    BY <1>2 DEF Model
  <2>3. look'.blocked # {}
    BY <2>1, <2>2 DEF Looks
  <2> QED BY <2>3 DEF Narrowed
<1>3. CASE Unbind
  <2> SUFFICES ASSUME Symbolic' PROVE Narrowed'
    BY DEF Narrowed
  <2>1. look \in Looks(Targets, AllAnswers) /\ at = "model" /\ at' = "model"
    <3>1. Symbolic /\ at = "model" /\ at' = "model"
      BY <1>3 DEF Unbind, control, Symbolic
    <3> QED BY <3>1, LookIs DEF Inside, LookOK, LookFits
  <2>2. look' = Unbounded(look)
    BY <1>3 DEF Unbind
  <2>3. look'.ends = <<>> /\ look'.line = 0
    BY <2>1, <2>2 DEF Unbounded, Looks
  <2> QED BY <2>1, <2>3 DEF Narrowed, Bounding, Bounded
<1>4. CASE Verify
  <2> SUFFICES ASSUME Symbolic', at' \in {"model", "native"} PROVE Narrowed'
    BY <1>1, <1>4 DEF Verify, AfterVerify, Narrowed, Bounding
  <2>1. Symbolic /\ at = "verify" /\ look' = look
    BY <1>4 DEF Verify, control, Symbolic
  <2>2. look'.blocked # {}
    BY <2>1 DEF Narrowed
  <2> QED BY <2>2 DEF Narrowed
<1>5. CASE NativeEnds
  <2> SUFFICES ASSUME Symbolic' PROVE Narrowed'
    BY DEF Narrowed
  <2>1. Symbolic /\ at = "native" /\ look' = look /\ at' \in {"model", "done"}
    BY <1>5 DEF NativeEnds, control, Symbolic, AfterVerify
  <2>2. look'.blocked # {}
    BY <2>1 DEF Narrowed
  <2> QED BY <2>1, <2>2 DEF Narrowed
<1>6. CASE Native \/ UNCHANGED vars
  <2>1. job' = job /\ by' = by /\ at' = at /\ look' = look /\ sure' = sure
    BY <1>6 DEF Native, vars, control
  <2>2. Kinds' = Kinds /\ Request' = Request /\ Asked(look)' = Asked(look)
    BY <2>1, SameRequest, AskedLater
  <2>3. \A s : Ending(s)' = Ending(s) /\ BoundsOf(s)' = BoundsOf(s)
    BY <2>1, <2>2 DEF Ending, BoundsOf
  <2>4. Symbolic' = Symbolic /\ Bounding' = Bounding
    BY <2>1 DEF Symbolic, Bounding, Bounded
  <2> QED BY <2>1, <2>2, <2>3, <2>4 DEF Narrowed
<1>7. CASE Try
  <2>1. by' = "brute"
    BY <1>7 DEF Try, control, SearchInv, Phases
  <2> QED BY <2>1 DEF Narrowed, Symbolic
<1>8. CASE Bisect \/ Bisected \/ AskLine \/ BisectLine \/ BisectedLine \/ Ask
  BY <1>8, BisectNarrows, BisectedNarrows, AskLineNarrows, BisectLineNarrows, BisectedLineNarrows,
     AskNarrows
<1>9. CASE Select \/ Explore \/ Concolic \/ Conclude \/ PickPath \/ MorePaths \/ NoMorePaths \/ Again
           \/ Extracted \/ NativeRaises \/ GiveUp \/ SelectFunctions \/ ExploreStage \/ StageFails \/ StageModel
  <2>1. at' \notin {"bisect", "line", "bisectLine", "model", "verify", "native"}
    BY <1>9 DEF Select, Explore, Concolic, Conclude, PickPath, MorePaths, NoMorePaths, Again,
        Extracted, Back, NativeRaises, GiveUp, SelectFunctions, ExploreStage, StageFails, StageModel
  <2> QED BY <1>1, <2>1
<1> QED BY <1>2, <1>3, <1>4, <1>5, <1>6, <1>7, <1>8, <1>9
        DEF Next, Solving, Searching, Extracting, Checking

\* Among inputs there is a shortest one: as short as any in its first string, then in the next.
ShortTo(s, S, n) ==
    \A j \in S, k \in 1..n : Alike(j, s, k - 1) => ArgvLength(s, k) <= ArgvLength(j, k)

LEMMA ShortTos ==
    ASSUME job \in Jobs, NEW S \in SUBSET Admitted, S # {}, NEW n \in 0..Kinds.argv
    PROVE  \E s \in S : ShortTo(s, S, n)
<1> DEFINE Bad == {m \in 0..Kinds.argv : ~ \E s \in S : ShortTo(s, S, m)}
<1>1. SUFFICES ASSUME Bad # {} PROVE FALSE
  OBVIOUS
<1>2. Kinds.argv \in Nat /\ ArgvCapacity(Request) \in Nat
  BY JobIs
<1>3. PICK m \in Bad : \A l \in Bad : m <= l
  <2>1. \A l \in Bad : l \in Nat
    BY <1>2
  <2> HIDE DEF Bad
  <2> QED BY <1>1, <2>1, LeastOf
<1>4. m \in 0..Kinds.argv /\ ~ \E s \in S : ShortTo(s, S, m)
  OBVIOUS
<1>5. \A s \in S : ShortTo(s, S, 0)
  BY DEF ShortTo
<1>6. m \in 1..Kinds.argv
  BY <1>2, <1>4, <1>5
<1>7. PICK s \in S : ShortTo(s, S, m - 1)
  <2>1. m - 1 \in 0..Kinds.argv /\ ~(m <= m - 1)
    BY <1>2, <1>6
  <2>2. m - 1 \notin Bad
    BY <1>3, <2>1
  <2> QED BY <2>1, <2>2
<1>8. \A i \in S : ArgvLength(i, m) \in Nat
  <2> SUFFICES ASSUME NEW i \in S PROVE ArgvLength(i, m) \in Nat
    OBVIOUS
  <2>1. ArgvLength(i, m) \in 0..ArgvCapacity(Request)
    BY <1>6, LengthsAre
  <2> QED BY <1>2, <2>1
<1> DEFINE Lengths == {ArgvLength(i, m) : i \in {j \in S : Alike(j, s, m - 1)}}
<1>9. PICK least \in Lengths : \A l \in Lengths : least <= l
  <2>1. Alike(s, s, m - 1)
    BY DEF Alike
  <2>2. Lengths # {} /\ \A l \in Lengths : l \in Nat
    BY <1>8, <2>1
  <2> HIDE DEF Lengths
  <2> QED BY <2>2, LeastOf
<1>10. PICK t \in S : Alike(t, s, m - 1) /\ \A j \in S : Alike(j, s, m - 1) => ArgvLength(t, m) <= ArgvLength(j, m)
  BY <1>9
<1>11. ShortTo(t, S, m)
  <2> SUFFICES ASSUME NEW j \in S, NEW k \in 1..m, Alike(j, t, k - 1)
               PROVE  ArgvLength(t, k) <= ArgvLength(j, k)
    BY DEF ShortTo
  <2>1. m \in Nat /\ k \in Nat /\ \A l \in 1..(k - 1) : l \in 1..(m - 1)
    BY <1>2, <1>6
  <2>2. Alike(j, s, k - 1)
    BY <1>10, <2>1 DEF Alike
  <2>3. CASE k \in 1..(m - 1)
    <3>1. ArgvLength(s, k) <= ArgvLength(j, k)
      BY <1>7, <2>2, <2>3 DEF ShortTo
    <3>2. ArgvLength(t, k) = ArgvLength(s, k)
      BY <1>10, <2>3 DEF Alike
    <3> QED BY <3>1, <3>2
  <2>4. CASE k = m
    BY <1>10, <2>2, <2>4
  <2> QED BY <2>1, <2>3, <2>4
<1> QED BY <1>4, <1>11

LEMMA ShortestExists ==
    ASSUME job \in Jobs, NEW S \in SUBSET Admitted, S # {}
    PROVE  Shortest(S) # {}
<1> DEFINE n == Kinds.argv
<1>1. n \in Nat /\ n \in 0..n /\ Kinds.stdin \in Nat /\ ArgvCapacity(Request) \in Nat
  BY JobIs
<1>2. PICK s \in S : ShortTo(s, S, n)
  BY <1>1, ShortTos
<1> DEFINE Lengths == {LineLength(i) : i \in {j \in S : Alike(j, s, n)}}
<1>3. \A i \in S : LineLength(i) \in Nat
  <2> SUFFICES ASSUME NEW i \in S PROVE LineLength(i) \in Nat
    OBVIOUS
  <2>1. LineLength(i) \in 0..Kinds.stdin
    BY LengthsAre
  <2> QED BY <1>1, <2>1
<1>4. PICK least \in Lengths : \A l \in Lengths : least <= l
  <2>1. Alike(s, s, n)
    BY DEF Alike
  <2>2. Lengths # {} /\ \A l \in Lengths : l \in Nat
    BY <1>3, <2>1
  <2> HIDE DEF Lengths
  <2> QED BY <2>2, LeastOf
<1>5. PICK t \in S : Alike(t, s, n) /\ \A j \in S : Alike(j, s, n) => LineLength(t) <= LineLength(j)
  BY <1>4
<1>6. ASSUME NEW j \in S, Shorter(j, t) PROVE FALSE
  <2>1. DOMAIN j.argv = 1..n
    BY LengthsAre
  <2>2. CASE \E k \in 1..n : /\ ArgvLength(j, k) < ArgvLength(t, k)
                             /\ \A l \in 1..(k - 1) : ArgvLength(j, l) = ArgvLength(t, l)
    <3>1. PICK k \in 1..n : /\ ArgvLength(j, k) < ArgvLength(t, k)
                            /\ \A l \in 1..(k - 1) : ArgvLength(j, l) = ArgvLength(t, l)
      BY <2>2
    <3>2. \A l \in 1..(k - 1) : l \in 1..n
      BY <1>1
    <3>3. Alike(j, s, k - 1)
      BY <1>5, <3>1, <3>2 DEF Alike
    <3>4. ArgvLength(s, k) <= ArgvLength(j, k) /\ ArgvLength(t, k) = ArgvLength(s, k)
      BY <1>2, <1>5, <3>3 DEF ShortTo, Alike
    <3>5. ArgvLength(j, k) \in 0..ArgvCapacity(Request) /\ ArgvLength(t, k) \in 0..ArgvCapacity(Request)
      BY LengthsAre
    <3> QED BY <1>1, <3>1, <3>4, <3>5
  <2>3. CASE (\A k \in 1..n : ArgvLength(j, k) = ArgvLength(t, k)) /\ LineLength(j) < LineLength(t)
    <3>1. Alike(j, s, n)
      BY <1>5, <2>3 DEF Alike
    <3>2. LineLength(t) <= LineLength(j) /\ LineLength(t) \in Nat /\ LineLength(j) \in Nat
      BY <1>3, <1>5, <3>1
    <3> QED BY <2>3, <3>2
  <2> QED BY <1>6, <2>1, <2>2, <2>3 DEF Shorter
<1> QED BY <1>5, <1>6 DEF Shortest

LEMMA AlwaysNarrowed == Spec => [](SearchInv /\ Narrowed)
<1>1. Init => SearchInv /\ Narrowed
  BY SearchBegins DEF Init, Narrowed, Bounding
<1>2. SearchInv /\ Narrowed /\ [Next]_vars => (SearchInv /\ Narrowed)'
  BY NextNarrowed, NextPhases, NextExplored, NextAnswering, NextCovered DEF SearchInv
<1> QED BY <1>1, <1>2, PTL DEF Spec

\* The bounds of a shortest input let in the shortest inputs and no others.
LEMMA BoundedLeaves ==
    ASSUME SearchInv, Narrowed, at = "model", sure, Bounded(look), look.blocked = {},
           NEW s \in Shortest(Asked(look)), Ending(s)
    PROVE  Models(look) = Shortest(Asked(look))
<1>1. job \in Jobs /\ Symbolic
  BY DEF SearchInv, Phases, Symbolic, Inside
<1>2. look \in Looks(Targets, AllAnswers)
  BY <1>1, LookIs DEF Inside, LookOK, LookFits
<1>3. BoundsOf(s)
  BY <1>1 DEF Narrowed, Bounding
<1>4. Asked(look) \in SUBSET Admitted /\ s \in Asked(look) /\ s \in Admitted
  BY AskedAdmitted DEF Shortest
<1> DEFINE n == Kinds.argv
           least == {i \in Asked(look) : Alike(i, s, n) /\ LineLength(i) <= LineLength(s)}
<1>5. n \in Nat /\ n \in 0..n /\ Kinds.stdin \in Nat /\ Len(look.ends) = n
  BY <1>1, <1>3, JobIs DEF BoundsOf
<1>6. \A i \in Asked(look) : LineLength(i) \in 0..Kinds.stdin /\ DOMAIN i.argv = 1..n
  BY <1>1, <1>4, LengthsAre
<1>7. \A i \in Asked(look) : (\A k \in DOMAIN look.ends : i.argv[k][look.ends[k]] = NUL) <=> Alike(i, s, n)
  BY <1>1, <1>2, <1>3, <1>5, BoundsLeave DEF BoundsOf, EndsOf
<1>8. Models(look) = {i \in Asked(look) :
                         /\ \A k \in DOMAIN look.ends : i.argv[k][look.ends[k]] = NUL
                         /\ look.line > 0 => NEWLINE \in Range(SubSeq(i.stdin, 1, look.line))}
  BY <1>2, ModelsAre
<1>9. Models(look) = least
  <2>1. CASE look.line = LineLength(s) + 1 /\ look.line <= Kinds.stdin
    <3>1. LineLength(s) \in Nat
      BY <1>4, <1>5, <1>6
    <3>2. look.line \in 1..Kinds.stdin /\ look.line > 0
      BY <1>5, <2>1, <3>1
    <3>3. ASSUME NEW i \in Asked(look)
          PROVE  NEWLINE \in Range(SubSeq(i.stdin, 1, look.line)) <=> LineLength(i) <= LineLength(s)
      <4>1. NEWLINE \in Range(SubSeq(i.stdin, 1, look.line)) <=> LineLength(i) < look.line
        BY <1>1, <1>4, <3>2, LengthsAre
      <4>2. LineLength(i) \in Nat
        BY <1>5, <1>6
      <4> QED BY <2>1, <3>1, <4>1, <4>2
    <3> QED BY <1>7, <1>8, <3>2, <3>3
  <2>2. CASE look.line = 0 /\ \A i \in Asked(look) : Alike(i, s, n) => LineLength(i) = Kinds.stdin
    <3>1. ~(look.line > 0)
      BY <2>2
    <3>2. \A i \in Asked(look) : Alike(i, s, n) => LineLength(i) <= LineLength(s)
      <4>1. Alike(s, s, n)
        BY DEF Alike
      <4> QED BY <1>4, <1>5, <2>2, <4>1
    <3> QED BY <1>7, <1>8, <3>1, <3>2
  <2> QED BY <1>3, <1>5, <2>1, <2>2 DEF BoundsOf
<1>10. ASSUME NEW i \in Shortest(Asked(look)) PROVE i \in least
  <2>1. i \in Asked(look) /\ i \in Admitted
    BY <1>4 DEF Shortest
  <2>2. s \in Shortest(Asked(look)) /\ i \in Shortest(Asked(look))
    OBVIOUS
  <2>3. ~Shorter(s, i) /\ ~Shorter(i, s)
    BY <1>4, <2>1, <2>2 DEF Shortest
  <2>4. Alike(i, s, n)
    <3> DEFINE Bad == {k \in 1..n : ArgvLength(i, k) # ArgvLength(s, k)}
    <3>1. SUFFICES ASSUME Bad # {} PROVE FALSE
      BY DEF Alike
    <3>2. PICK k \in Bad : \A l \in Bad : k <= l
      <4>1. \A l \in Bad : l \in Nat
        BY <1>5
      <4> HIDE DEF Bad
      <4> QED BY <3>1, <4>1, LeastOf
    <3>3. k \in 1..n /\ ArgvLength(i, k) # ArgvLength(s, k)
      OBVIOUS
    <3>4. \A l \in 1..(k - 1) : ArgvLength(i, l) = ArgvLength(s, l)
      <4> SUFFICES ASSUME NEW l \in 1..(k - 1) PROVE ArgvLength(i, l) = ArgvLength(s, l)
        OBVIOUS
      <4>1. l \in 1..n /\ ~(k <= l)
        BY <1>5, <3>3
      <4> QED BY <3>2, <4>1
    <3>5. ArgvLength(i, k) \in Nat /\ ArgvLength(s, k) \in Nat
      <4>1. ArgvCapacity(Request) \in Nat
        BY <1>1, JobIs
      <4>2. ArgvLength(i, k) \in 0..ArgvCapacity(Request) /\ ArgvLength(s, k) \in 0..ArgvCapacity(Request)
        BY <1>1, <1>4, <2>1, <3>3, LengthsAre
      <4> QED BY <4>1, <4>2
    <3>6. ArgvLength(i, k) < ArgvLength(s, k) \/ ArgvLength(s, k) < ArgvLength(i, k)
      BY <3>3, <3>5
    <3> HIDE DEF Bad
    <3>7. DOMAIN i.argv = 1..n /\ DOMAIN s.argv = 1..n
      BY <1>4, <1>6, <2>1
    <3> QED BY <2>3, <3>3, <3>4, <3>6, <3>7 DEF Shorter
  <2>5. ~(LineLength(s) < LineLength(i))
    BY <1>4, <1>6, <2>3, <2>4 DEF Shorter, Alike
  <2>6. LineLength(s) \in 0..Kinds.stdin /\ LineLength(i) \in 0..Kinds.stdin
    BY <1>4, <1>6, <2>1
  <2> QED BY <1>5, <2>1, <2>4, <2>5, <2>6
<1>11. ASSUME NEW i \in least PROVE i \in Shortest(Asked(look))
  <2>1. i \in Asked(look) /\ Alike(i, s, n) /\ LineLength(i) <= LineLength(s)
    OBVIOUS
  <2>2. ASSUME NEW j \in Asked(look), Shorter(j, i) PROVE Shorter(j, s)
    <3>1. DOMAIN j.argv = 1..n
      BY <1>6
    <3>2. \A k \in 1..n : ArgvLength(i, k) = ArgvLength(s, k)
      BY <2>1 DEF Alike
    <3>3. \A k \in 1..n : \A l \in 1..(k - 1) : l \in 1..n
      BY <1>5
    <3>4. LineLength(j) < LineLength(i) => LineLength(j) < LineLength(s)
      <4>1. /\ LineLength(j) \in 0..Kinds.stdin /\ LineLength(i) \in 0..Kinds.stdin
            /\ LineLength(s) \in 0..Kinds.stdin
        BY <1>4, <1>6, <2>1
      <4> QED BY <1>5, <2>1, <4>1
    <3>5. CASE \E k \in 1..n : /\ ArgvLength(j, k) < ArgvLength(i, k)
                               /\ \A l \in 1..(k - 1) : ArgvLength(j, l) = ArgvLength(i, l)
      BY <3>1, <3>2, <3>3, <3>5 DEF Shorter
    <3>6. CASE (\A k \in 1..n : ArgvLength(j, k) = ArgvLength(i, k)) /\ LineLength(j) < LineLength(i)
      BY <3>1, <3>2, <3>4, <3>6 DEF Shorter
    <3> QED BY <2>2, <3>1, <3>5, <3>6 DEF Shorter
  <2>3. \A j \in Asked(look) : ~Shorter(j, s)
    BY DEF Shortest
  <2> QED BY <2>1, <2>2, <2>3 DEF Shortest
<1> QED BY <1>9, <1>10, <1>11

\* When the solver always answered and each shortest input's strings end within their bytes,
\* the bounds that _shortest_argv_end and _shortest_line have found leave exactly the shortest
\* inputs of the path: the binary searches lose none, and let no longer one in.
THEOREM AlwaysShortestFirst == Spec => []ShortestFirst
<1>1. SearchInv /\ Narrowed => ShortestFirst
  <2> SUFFICES ASSUME SearchInv, Narrowed, at = "model", sure, Bounded(look), look.blocked = {},
                      \A i \in Shortest(Models(Unbounded(look))) :
                         \A k \in DOMAIN i.argv : NUL \in Range(i.argv[k])
               PROVE  Models(look) = Shortest(Models(Unbounded(look)))
    BY DEF ShortestFirst
  <2>1. job \in Jobs /\ look \in Looks(Targets, AllAnswers)
    <3>1. job \in Jobs /\ Symbolic
      BY DEF SearchInv, Phases, Symbolic, Inside
    <3> QED BY <3>1, LookIs DEF Inside, LookOK, LookFits
  <2>2. Models(Unbounded(look)) = Asked(look) /\ Models(look) \subseteq Asked(look)
    BY <2>1, ModelsAre
  <2>3. CASE Asked(look) = {}
    BY <2>2, <2>3 DEF Shortest
  <2>4. CASE Asked(look) # {}
    <3>1. PICK s : s \in Shortest(Asked(look))
      BY <2>1, <2>4, AskedAdmitted, ShortestExists
    <3>2. s \in Admitted
      BY <3>1, AskedAdmitted DEF Shortest
    <3>3. Ending(s)
      <4> SUFFICES ASSUME NEW k \in 1..Kinds.argv PROVE ArgvLength(s, k) < ArgvCapacity(Request)
        BY DEF Ending
      <4>1. k \in DOMAIN s.argv
        BY <2>1, <3>2, LengthsAre
      <4>2. NUL \in Range(s.argv[k])
        BY <2>2, <3>1, <4>1
      <4> QED BY <2>1, <3>2, <4>2, LengthsAre
    <3> QED BY <2>2, <3>1, <3>3, BoundedLeaves
  <2> QED BY <2>3, <2>4
<1> QED BY <1>1, AlwaysNarrowed, PTL

-----------------------------------------------------------------------------
(* Chains.                                                                  *)

\* Counting goes one by one.
LEMMA CountsOn ==
    ASSUME NEW T, NEW n \in Nat
    PROVE  LET upTo(m) == Cardinality({k \in 1..m : k \in T})
           IN /\ upTo(n) \in Nat /\ upTo(0) = 0
              /\ upTo(n + 1) = IF n + 1 \in T THEN upTo(n) + 1 ELSE upTo(n)
<1> DEFINE S(m) == {k \in 1..m : k \in T}
<1>1. IsFiniteSet(S(n)) /\ Cardinality(S(n)) \in Nat
  <2>1. IsFiniteSet(1..n)
    BY FS_Interval
  <2> QED BY <2>1, FS_Subset, FS_CardinalityType
<1>2. Cardinality(S(0)) = 0
  <2>1. S(0) = {}
    OBVIOUS
  <2> HIDE DEF S
  <2> QED BY <2>1, FS_EmptySet
<1>3. CASE n + 1 \in T
  <2>1. S(n + 1) = S(n) \cup {n + 1} /\ n + 1 \notin S(n)
    BY <1>3
  <2> HIDE DEF S
  <2>2. Cardinality(S(n + 1)) = Cardinality(S(n)) + 1
    BY <1>1, <2>1, FS_AddElement
  <2> QED BY <1>1, <1>2, <1>3, <2>2 DEF S
<1>4. CASE n + 1 \notin T
  <2>1. S(n + 1) = S(n)
    BY <1>4
  <2> HIDE DEF S
  <2> QED BY <1>1, <1>2, <1>4, <2>1 DEF S
<1> QED BY <1>3, <1>4

\* What the loop over the calls of main has gathered, call by call.
Gathers(f, calls, sink, n) ==
    f = [k \in 0..n |-> IF k = 0 THEN <<>>
                        ELSE IF IsStage(calls, sink, calls[Main][k]) THEN Append(f[k - 1], calls[Main][k])
                        ELSE f[k - 1]]

LEMMA GathersExists ==
    ASSUME NEW calls, NEW sink, NEW n \in Nat
    PROVE  \E f : Gathers(f, calls, sink, n)
<1> DEFINE Bad == {m \in Nat : ~ \E f : Gathers(f, calls, sink, m)}
<1>1. SUFFICES ASSUME Bad # {} PROVE FALSE
  OBVIOUS
<1>2. PICK m \in Bad : \A k \in Bad : m <= k
  <2> HIDE DEF Bad
  <2>1. Bad \subseteq Nat
    BY DEF Bad
  <2> QED BY <1>1, <2>1, LeastOf
<1>3. m \in Nat
  OBVIOUS
<1>4. CASE m = 0
  <2>1. Gathers([k \in 0..0 |-> <<>>], calls, sink, 0)
    BY DEF Gathers
  <2> QED BY <1>4, <2>1
<1>5. CASE m # 0
  <2>1. m - 1 \in Nat /\ m - 1 \notin Bad
    BY <1>2, <1>3, <1>5
  <2>2. PICK f : Gathers(f, calls, sink, m - 1)
    BY <2>1
  <2> DEFINE g == [k \in 0..m |->
                      IF k < m THEN f[k]
                      ELSE IF IsStage(calls, sink, calls[Main][k]) THEN Append(f[k - 1], calls[Main][k])
                      ELSE f[k - 1]]
  <2>3. \A k \in 0..m : g[k] = IF k = 0 THEN <<>>
                               ELSE IF IsStage(calls, sink, calls[Main][k])
                                    THEN Append(g[k - 1], calls[Main][k])
                               ELSE g[k - 1]
    <3>1. \A k \in 0..(m - 1) : f[k] = IF k = 0 THEN <<>>
                               ELSE IF IsStage(calls, sink, calls[Main][k])
                                    THEN Append(f[k - 1], calls[Main][k])
                               ELSE f[k - 1]
      BY <2>2 DEF Gathers
    <3> QED BY <3>1, <1>3, <1>5
  <2>4. Gathers(g, calls, sink, m)
    BY <2>3 DEF Gathers
  <2> QED BY <2>4
<1> QED BY <1>4, <1>5

LEMMA StagesGather ==
    ASSUME NEW calls, NEW sink, Len(calls[Main]) \in Nat
    PROVE  \E f : /\ Gathers(f, calls, sink, Len(calls[Main]))
                  /\ Stages(calls, sink) = f[Len(calls[Main])]
<1> DEFINE n == Len(calls[Main])
           Rec(f) == f = [k \in 0..n |->
                        IF k = 0 THEN <<>>
                        ELSE IF IsStage(calls, sink, calls[Main][k]) THEN Append(f[k - 1], calls[Main][k])
                        ELSE f[k - 1]]
           gathered == CHOOSE f : Rec(f)
<1>1. \E f : Rec(f)
  <2>1. PICK f : Gathers(f, calls, sink, n)
    BY GathersExists
  <2>2. Rec(f)
    BY <2>1 DEF Gathers
  <2> HIDE DEF Rec
  <2> QED BY <2>2
<1>2. Rec(gathered)
  <2> HIDE DEF Rec
  <2> QED BY <1>1
<1>3. Stages(calls, sink) = gathered[n]
  BY DEF Stages
<1>4. Gathers(gathered, calls, sink, n)
  BY <1>2 DEF Gathers
<1> HIDE DEF gathered
<1> QED BY <1>3, <1>4

\* The plan lists stages, the k-th of them in the k-th place.
PlanTo(q, calls, sink, n) ==
    /\ q \in Seq(Range(calls[Main])) /\ Len(q) = StagesAmong(calls, sink, n)
    /\ \A k \in 1..Len(q) : IsStage(calls, sink, q[k])
    /\ \A k \in 1..n : IsStage(calls, sink, calls[Main][k]) =>
          /\ StagesAmong(calls, sink, k) \in 1..Len(q)
          /\ q[StagesAmong(calls, sink, k)] = calls[Main][k]

LEMMA StagesCount ==
    ASSUME NEW calls, NEW sink, NEW n \in Nat
    PROVE  /\ StagesAmong(calls, sink, 0) = 0 /\ StagesAmong(calls, sink, n) \in Nat
           /\ StagesAmong(calls, sink, n + 1) =
                 IF IsStage(calls, sink, calls[Main][n + 1]) THEN StagesAmong(calls, sink, n) + 1
                 ELSE StagesAmong(calls, sink, n)
<1> DEFINE T == {k \in 1..(n + 1) : IsStage(calls, sink, calls[Main][k])}
<1>1. /\ {k \in 1..0 : IsStage(calls, sink, calls[Main][k])} = {k \in 1..0 : k \in T}
      /\ {k \in 1..n : IsStage(calls, sink, calls[Main][k])} = {k \in 1..n : k \in T}
      /\ {k \in 1..(n + 1) : IsStage(calls, sink, calls[Main][k])} = {k \in 1..(n + 1) : k \in T}
  OBVIOUS
<1>2. n + 1 \in T <=> IsStage(calls, sink, calls[Main][n + 1])
  OBVIOUS
<1> HIDE DEF T
<1> QED BY <1>1, <1>2, CountsOn DEF StagesAmong

LEMMA ReadersCount ==
    ASSUME NEW calls, NEW n \in Nat
    PROVE  /\ ReadersAmong(calls, 0) = 0 /\ ReadersAmong(calls, n) \in Nat
           /\ ReadersAmong(calls, n + 1) =
                 IF calls[Main][n + 1] \in DOMAIN calls /\ IsReader(calls, calls[Main][n + 1])
                 THEN ReadersAmong(calls, n) + 1 ELSE ReadersAmong(calls, n)
<1> DEFINE Reads(k) == calls[Main][k] \in DOMAIN calls /\ IsReader(calls, calls[Main][k])
           T == {k \in 1..(n + 1) : Reads(k)}
<1>1. /\ {k \in 1..0 : Reads(k)} = {k \in 1..0 : k \in T}
      /\ {k \in 1..n : Reads(k)} = {k \in 1..n : k \in T}
      /\ {k \in 1..(n + 1) : Reads(k)} = {k \in 1..(n + 1) : k \in T}
  OBVIOUS
<1>2. n + 1 \in T <=> Reads(n + 1)
  OBVIOUS
<1> HIDE DEF T
<1> QED BY <1>1, <1>2, CountsOn DEF ReadersAmong

LEMMA PlanGoesOn ==
    ASSUME NEW calls, NEW sink, NEW n \in Nat, n + 1 \in DOMAIN calls[Main],
           NEW q, PlanTo(q, calls, sink, n)
    PROVE  PlanTo(IF IsStage(calls, sink, calls[Main][n + 1]) THEN Append(q, calls[Main][n + 1])
                  ELSE q, calls, sink, n + 1)
<1> DEFINE S(k) == StagesAmong(calls, sink, k)
           Here(k) == IsStage(calls, sink, calls[Main][k])
           x == calls[Main][n + 1]
           R == Range(calls[Main])
<1>1. S(n) \in Nat /\ S(n + 1) = IF Here(n + 1) THEN S(n) + 1 ELSE S(n)
  BY StagesCount
<1>2. x \in R
  BY DEF Range
<1>3. /\ q \in Seq(R) /\ Len(q) = S(n) /\ \A k \in 1..Len(q) : IsStage(calls, sink, q[k])
      /\ \A k \in 1..n : Here(k) => S(k) \in 1..Len(q) /\ q[S(k)] = calls[Main][k]
  BY DEF PlanTo
<1> DEFINE r == IF Here(n + 1) THEN Append(q, x) ELSE q
<1>4. CASE Here(n + 1)
  <2>1. r = Append(q, x)
    BY <1>4
  <2>2. r \in Seq(R) /\ Len(r) = S(n) + 1 /\ r[S(n) + 1] = x /\ \A k \in 1..S(n) : r[k] = q[k]
    <3> HIDE DEF R, x, S, r
    <3> QED BY <1>1, <1>2, <1>3, <2>1
  <2>3. \A k \in 1..Len(r) : IsStage(calls, sink, r[k])
    <3> SUFFICES ASSUME NEW k \in 1..Len(r) PROVE IsStage(calls, sink, r[k])
      OBVIOUS
    <3> HIDE DEF r, S
    <3>1. CASE k = S(n) + 1
      BY <1>4, <2>2, <3>1
    <3>2. CASE k # S(n) + 1
      <4>1. k \in 1..S(n)
        BY <1>1, <2>2, <3>2
      <4> QED BY <1>3, <2>2, <4>1
    <3> QED BY <3>1, <3>2
  <2>4. ASSUME NEW k \in 1..(n + 1), Here(k) PROVE S(k) \in 1..Len(r) /\ r[S(k)] = calls[Main][k]
    <3> HIDE DEF r, S, Here
    <3>1. CASE k = n + 1
      BY <1>1, <1>4, <2>2, <3>1
    <3>2. CASE k # n + 1
      <4>1. k \in 1..n
        BY <3>2
      <4>2. S(k) \in 1..S(n) /\ q[S(k)] = calls[Main][k]
        BY <1>3, <2>4, <4>1
      <4> QED BY <1>1, <2>2, <4>2
    <3> QED BY <3>1, <3>2
  <2>5. Len(r) = S(n + 1)
    <3> HIDE DEF r, S, Here
    <3> QED BY <1>1, <1>4, <2>2
  <2> HIDE DEF r
  <2>6. PlanTo(r, calls, sink, n + 1)
    BY <2>2, <2>3, <2>4, <2>5 DEF PlanTo
  <2> QED BY <2>6 DEF r
<1>5. CASE ~Here(n + 1)
  <2>1. r = q /\ S(n + 1) = S(n)
    BY <1>1, <1>5
  <2>2. ASSUME NEW k \in 1..(n + 1), Here(k) PROVE S(k) \in 1..Len(q) /\ q[S(k)] = calls[Main][k]
    <3>1. k \in 1..n
      <4> HIDE DEF Here
      <4> QED BY <1>5, <2>2
    <3> QED BY <1>3, <2>2, <3>1
  <2> HIDE DEF r
  <2>3. PlanTo(r, calls, sink, n + 1)
    BY <1>3, <2>1, <2>2 DEF PlanTo
  <2> QED BY <2>3 DEF r
<1> QED BY <1>4, <1>5

LEMMA StagesAre ==
    ASSUME NEW calls, NEW sink, calls[Main] \in Seq(Range(calls[Main]))
    PROVE  PlanTo(Stages(calls, sink), calls, sink, Len(calls[Main]))
<1> DEFINE L == Len(calls[Main])
<1>1. L \in Nat /\ DOMAIN calls[Main] = 1..L
  OBVIOUS
<1>2. PICK f : Gathers(f, calls, sink, L) /\ Stages(calls, sink) = f[L]
  BY <1>1, StagesGather
<1> DEFINE Bad == {m \in 0..L : ~PlanTo(f[m], calls, sink, m)}
<1>3. SUFFICES ASSUME Bad # {} PROVE FALSE
  BY <1>1, <1>2
<1>4. PICK m \in Bad : \A k \in Bad : m <= k
  <2>1. Bad \subseteq Nat
    BY <1>1
  <2> HIDE DEF Bad
  <2> QED BY <1>3, <2>1, LeastOf
<1>5. m \in 0..L /\ ~PlanTo(f[m], calls, sink, m)
  OBVIOUS
<1>6. CASE m = 0
  <2>1. f[0] = <<>>
    BY <1>1, <1>2 DEF Gathers
  <2>2. StagesAmong(calls, sink, 0) = 0
    BY StagesCount
  <2>3. PlanTo(<<>>, calls, sink, 0)
    BY <2>2 DEF PlanTo
  <2> QED BY <1>5, <1>6, <2>1, <2>3
<1>7. CASE m # 0
  <2>1. m - 1 \in Nat /\ m - 1 \in 0..L /\ m - 1 \notin Bad /\ (m - 1) + 1 = m /\ m \in DOMAIN calls[Main]
    <3>1. m - 1 \in 0..L /\ m - 1 < m /\ m \in 1..L
      BY <1>1, <1>5, <1>7
    <3> HIDE DEF Bad
    <3> QED BY <1>1, <1>4, <3>1
  <2>2. PlanTo(f[m - 1], calls, sink, m - 1)
    BY <2>1
  <2>3. f[m] = IF IsStage(calls, sink, calls[Main][m]) THEN Append(f[m - 1], calls[Main][m]) ELSE f[m - 1]
    BY <1>1, <1>2, <1>5, <1>7 DEF Gathers
  <2> HIDE DEF Bad
  <2>4. PlanTo(IF IsStage(calls, sink, calls[Main][(m - 1) + 1])
               THEN Append(f[m - 1], calls[Main][(m - 1) + 1]) ELSE f[m - 1], calls, sink, (m - 1) + 1)
    BY <2>1, <2>2, PlanGoesOn
  <2> QED BY <1>5, <2>1, <2>3, <2>4
<1> QED BY <1>6, <1>7

\* What the driver has read, and whether it goes on, call by call.
Drives(f, given, n) ==
    f = [k \in 0..n |-> IF k = 0 THEN [read |-> 0, line |-> NoLine, ok |-> TRUE]
                        ELSE Called(given, f[k - 1], Program.calls[Main][k])]

LEMMA DrivesExists ==
    ASSUME NEW given, NEW n \in Nat
    PROVE  \E f : Drives(f, given, n)
<1> DEFINE Bad == {m \in Nat : ~ \E f : Drives(f, given, m)}
           Fresh == [read |-> 0, line |-> NoLine, ok |-> TRUE]
<1>1. SUFFICES ASSUME Bad # {} PROVE FALSE
  OBVIOUS
<1>2. PICK m \in Bad : \A k \in Bad : m <= k
  <2> HIDE DEF Bad
  <2>1. Bad \subseteq Nat
    BY DEF Bad
  <2> QED BY <1>1, <2>1, LeastOf
<1>3. m \in Nat
  OBVIOUS
<1>4. CASE m = 0
  <2>1. Drives([k \in 0..0 |-> Fresh], given, 0)
    BY DEF Drives
  <2> QED BY <1>4, <2>1
<1>5. CASE m # 0
  <2>1. m - 1 \in Nat /\ m - 1 \notin Bad
    BY <1>2, <1>3, <1>5
  <2>2. PICK f : Drives(f, given, m - 1)
    BY <2>1
  <2> DEFINE g == [k \in 0..m |->
                      IF k < m THEN f[k] ELSE Called(given, f[k - 1], Program.calls[Main][k])]
  <2>3. \A k \in 0..m : g[k] = IF k = 0 THEN Fresh
                               ELSE Called(given, g[k - 1], Program.calls[Main][k])
    <3>1. \A k \in 0..(m - 1) : f[k] = IF k = 0 THEN Fresh
                               ELSE Called(given, f[k - 1], Program.calls[Main][k])
      BY <2>2 DEF Drives
    <3> HIDE DEF Fresh
    <3> QED BY <3>1, <1>3, <1>5
  <2>4. Drives(g, given, m)
    BY <2>3 DEF Drives
  <2> QED BY <2>4
<1> QED BY <1>4, <1>5

LEMMA DriverDrives ==
    ASSUME NEW given, Len(Program.calls[Main]) \in Nat
    PROVE  \E f : /\ Drives(f, given, Len(Program.calls[Main]))
                  /\ DriverPasses(given) = f[Len(Program.calls[Main])].ok
<1> DEFINE n == Len(Program.calls[Main])
           Rec(f) == f = [k \in 0..n |->
                        IF k = 0 THEN [read |-> 0, line |-> NoLine, ok |-> TRUE]
                        ELSE Called(given, f[k - 1], Program.calls[Main][k])]
           driven == CHOOSE f : Rec(f)
<1>1. \E f : Rec(f)
  <2>1. PICK f : Drives(f, given, n)
    BY DrivesExists
  <2>2. Rec(f)
    BY <2>1 DEF Drives
  <2> HIDE DEF Rec
  <2> QED BY <2>2
<1>2. Rec(driven)
  <2> HIDE DEF Rec
  <2> QED BY <1>1
<1>3. DriverPasses(given) = driven[n].ok
  BY DEF DriverPasses
<1>4. Drives(driven, given, n)
  BY <1>2 DEF Drives
<1> HIDE DEF driven
<1> QED BY <1>3, <1>4

LEMMA ReadersGrow ==
    ASSUME NEW calls, NEW n \in Nat, NEW m \in Nat, n <= m
    PROVE  ReadersAmong(calls, n) <= ReadersAmong(calls, m)
<1> DEFINE Reads(k) == calls[Main][k] \in DOMAIN calls /\ IsReader(calls, calls[Main][k])
           S(k) == {l \in 1..k : Reads(l)}
<1>1. S(n) \subseteq S(m)
  <2>1. 1..n \subseteq 1..m
    OBVIOUS
  <2> HIDE DEF Reads
  <2> QED BY <2>1
<1>2. IsFiniteSet(S(m))
  <2>1. IsFiniteSet(1..m) /\ S(m) \subseteq 1..m
    BY FS_Interval
  <2> HIDE DEF S
  <2> QED BY <2>1, FS_Subset
<1>3. Cardinality(S(n)) <= Cardinality(S(m))
  <2> HIDE DEF S
  <2> QED BY <1>1, <1>2, FS_Subset
<1> QED BY <1>3 DEF ReadersAmong

LEMMA ChainIs ==
    ASSUME job \in Jobs, job.mode = "chain"
    PROVE  /\ Program.calls[Main] \in Seq(Range(Program.calls[Main]))
           /\ \A f \in DOMAIN Program.functions : FunctionOK(Function(f))
           /\ job.staged => \A sink \in Sinks(Program.calls) :
                 GivesEachALine(Program.calls, Program.functions, sink)
<1>1. JobOK(job)
  BY JobsAssumption
<1>2. ChainOK(Program, job.staged)
  BY <1>1 DEF JobOK, Program
<1> QED BY <1>2 DEF ChainOK, Function

\* After the first n calls each line that was read is the answer to its stage, and was accepted.
Going(d, given, n) ==
    /\ d = [read |-> ReadersAmong(Program.calls, n), line |-> d.line, ok |-> TRUE]
    /\ d.read > 0 => d.line = given[d.read]

LEMMA GoesOnDriving ==
    ASSUME job \in Jobs, job.mode = "chain", job.staged, NEW sink \in Sinks(Program.calls),
           NEW given, Len(given) = Len(Stages(Program.calls, sink)),
           \A k \in 1..Len(given) : Passes(Stages(Program.calls, sink)[k], given[k]),
           NEW n \in Nat, n + 1 \in DOMAIN Program.calls[Main],
           NEW d, Going(d, given, n)
    PROVE  Going(Called(given, d, Program.calls[Main][n + 1]), given, n + 1)
<1> DEFINE calls == Program.calls
           main == Program.calls[Main]
           f == Program.calls[Main][n + 1]
           R(k) == ReadersAmong(Program.calls, k)
           S(k) == StagesAmong(Program.calls, sink, k)
           stages == Stages(Program.calls, sink)
           e == Called(given, d, f)
<1>1. main \in Seq(Range(main)) /\ GivesEachALine(calls, Program.functions, sink)
  BY ChainIs
<1>2. Len(main) \in Nat /\ DOMAIN main = 1..Len(main) /\ n + 1 <= Len(main)
  BY <1>1
<1>3. /\ R(n) \in Nat /\ R(n + 1) \in Nat /\ R(Len(main)) \in Nat
      /\ R(n + 1) = IF f \in DOMAIN calls /\ IsReader(calls, f) THEN R(n) + 1 ELSE R(n)
  <2>1. n + 1 \in Nat /\ Len(main) \in Nat
    BY <1>2
  <2>2. \A k \in Nat : ReadersAmong(Program.calls, k) \in Nat
    BY ReadersCount
  <2>3. ReadersAmong(Program.calls, n + 1) =
           IF f \in DOMAIN calls /\ IsReader(calls, f) THEN ReadersAmong(Program.calls, n) + 1
           ELSE ReadersAmong(Program.calls, n)
    BY ReadersCount
  <2> HIDE DEF main, calls, f
  <2> QED BY <2>1, <2>2, <2>3 DEF main
<1>4. PlanTo(stages, calls, sink, Len(main))
  BY <1>1, StagesAre
<1>5. /\ d = [read |-> R(n), line |-> d.line, ok |-> TRUE] /\ d.read = R(n)
      /\ R(n) > 0 => d.line = given[R(n)]
  <2>1. d = [read |-> R(n), line |-> d.line, ok |-> TRUE] /\ (d.read > 0 => d.line = given[d.read])
    BY DEF Going
  <2>2. d.read = R(n)
    <3> HIDE DEF R
    <3> QED BY <2>1
  <2> HIDE DEF R
  <2> QED BY <2>1, <2>2
<1>6. CASE f \notin DOMAIN calls
  <2>1. e = d /\ R(n + 1) = R(n)
    BY <1>3, <1>6 DEF Called
  <2> QED BY <2>1 DEF Going
<1>7. CASE f \in DOMAIN calls /\ IsReader(calls, f)
  <2>1. R(n) + 1 <= Len(given)
    <3>1. R(n + 1) <= R(Len(main))
      <4>1. n + 1 \in Nat
        OBVIOUS
      <4> HIDE DEF main
      <4> QED BY <1>2, <4>1, ReadersGrow
    <3>3. R(Len(main)) <= S(Len(main)) /\ Len(given) = S(Len(main))
      BY <1>1, <1>4 DEF PlanTo, GivesEachALine
    <3>2. S(Len(main)) \in Nat
      BY <1>2, StagesCount
    <3> HIDE DEF R, S, main
    <3> QED BY <1>3, <1>7, <3>1, <3>2, <3>3
  <2>2. d.read # Len(given)
    <3>1. Len(given) \in Nat
      BY <1>2, <1>4, StagesCount DEF PlanTo
    <3> HIDE DEF R
    <3> QED BY <1>3, <1>5, <2>1, <3>1
  <2>3. e = [read |-> d.read + 1, line |-> given[d.read + 1], ok |-> d.ok]
    BY <1>7, <2>2 DEF Called
  <2>4. e = [read |-> R(n) + 1, line |-> given[R(n) + 1], ok |-> TRUE]
    <3>1. d.read = R(n) /\ d.ok = TRUE
      <4> HIDE DEF R, e
      <4> QED BY <1>5
    <3> HIDE DEF R, e
    <3> QED BY <2>3, <3>1
  <2>5. R(n + 1) = R(n) + 1
    BY <1>3, <1>7
  <2>6. e.line = given[R(n) + 1] /\ e.read = R(n) + 1
    <3> HIDE DEF e, R
    <3> QED BY <2>4
  <2>7. Going(e, given, n + 1)
    <3> HIDE DEF e
    <3> QED BY <2>4, <2>5, <2>6 DEF Going
  <2> QED BY <2>7
<1>8. CASE f \in DOMAIN calls /\ ~IsReader(calls, f)
  <2>1. R(n + 1) = R(n)
    BY <1>3, <1>8
  <2>2. CASE f \notin DOMAIN Program.functions
    <3>1. e = d
      BY <1>8, <2>2 DEF Called
    <3> QED BY <2>1, <3>1 DEF Going
  <2>3. CASE f \in DOMAIN Program.functions
    <3>1. f \in Range(main)
      BY <1>2 DEF Range
    <3>2. IsStage(calls, sink, f)
      BY <1>1, <1>8, <2>3, <3>1 DEF GivesEachALine
    <3>3. R(n + 1) = S(n + 1)
      BY <1>1, <3>2 DEF GivesEachALine
    <3>4. S(n + 1) \in 1..Len(stages) /\ stages[S(n + 1)] = f
      <4>1. n + 1 \in 1..Len(main)
        BY <1>2
      <4> QED BY <1>4, <3>2, <4>1 DEF PlanTo
    <3>5. R(n) \in 1..Len(given) /\ stages[R(n)] = f /\ R(n) > 0
      <4> HIDE DEF R, S, stages
      <4> QED BY <1>3, <2>1, <3>3, <3>4 DEF stages
    <3>6. Passes(f, d.line)
      BY <1>5, <3>5
    <3>7. e = [d EXCEPT !.ok = d.ok /\ Passes(f, d.line)]
      BY <1>8, <2>3 DEF Called
    <3>8. e = d
      <4>1. d.ok = TRUE
        BY <1>5
      <4>2. (d.ok /\ Passes(f, d.line)) = TRUE
        BY <3>6, <4>1
      <4>3. e = [d EXCEPT !.ok = TRUE]
        BY <3>7, <4>2
      <4> HIDE DEF e, R
      <4> QED BY <1>5, <4>3
    <3> QED BY <2>1, <3>8 DEF Going
  <2> QED BY <2>2, <2>3
<1> QED BY <1>6, <1>7, <1>8

\* A driver that reads each stage its line goes to its end with lines its stages accept.
LEMMA DriverAccepts ==
    ASSUME job \in Jobs, job.mode = "chain", job.staged, NEW sink \in Sinks(Program.calls),
           NEW given, Len(given) = Len(Stages(Program.calls, sink)),
           \A k \in 1..Len(given) : Passes(Stages(Program.calls, sink)[k], given[k])
    PROVE  DriverPasses(given) = TRUE
<1> DEFINE L == Len(Program.calls[Main])
<1>1. L \in Nat /\ DOMAIN Program.calls[Main] = 1..L
  BY ChainIs
<1>2. PICK f : Drives(f, given, L) /\ DriverPasses(given) = f[L].ok
  BY <1>1, DriverDrives
<1> DEFINE Bad == {m \in 0..L : ~Going(f[m], given, m)}
<1>3. SUFFICES ASSUME Bad # {} PROVE FALSE
  <2>1. L \in 0..L
    BY <1>1
  <2>2. Going(f[L], given, L) => f[L].ok = TRUE
    <3> HIDE DEF L
    <3>1. \A l, r : [read |-> r, line |-> l, ok |-> TRUE].ok = TRUE
      OBVIOUS
    <3> SUFFICES ASSUME Going(f[L], given, L) PROVE f[L].ok = TRUE
      OBVIOUS
    <3>2. f[L] = [read |-> ReadersAmong(Program.calls, L), line |-> f[L].line, ok |-> TRUE]
      BY DEF Going
    <3> QED BY <3>1, <3>2
  <2> HIDE DEF L
  <2> QED BY <1>2, <2>1, <2>2
<1>4. PICK m \in Bad : \A k \in Bad : m <= k
  <2>1. Bad \subseteq Nat
    BY <1>1
  <2> HIDE DEF Bad
  <2> QED BY <1>3, <2>1, LeastOf
<1>5. m \in 0..L /\ ~Going(f[m], given, m)
  OBVIOUS
<1>6. CASE m = 0
  <2>1. f[0] = [read |-> 0, line |-> NoLine, ok |-> TRUE]
    BY <1>1, <1>2 DEF Drives
  <2>2. ReadersAmong(Program.calls, 0) = 0
    BY ReadersCount
  <2>3. f[0].read = 0 /\ f[0].line = NoLine
    <3> HIDE DEF L
    <3> QED BY <2>1
  <2>4. Going(f[0], given, 0)
    <3> HIDE DEF L
    <3>1. f[0] = [read |-> ReadersAmong(Program.calls, 0), line |-> f[0].line, ok |-> TRUE]
      BY <2>1, <2>2, <2>3
    <3>2. ~(f[0].read > 0)
      BY <2>3
    <3> QED BY <3>1, <3>2 DEF Going
  <2> QED BY <1>5, <1>6, <2>4
<1>7. CASE m # 0
  <2>1. m - 1 \in Nat /\ m - 1 \notin Bad /\ m - 1 \in 0..L /\ (m - 1) + 1 = m /\ m \in 1..L
    <3>1. m - 1 \in 0..L /\ m - 1 < m /\ m \in 1..L
      BY <1>1, <1>5, <1>7
    <3> HIDE DEF Bad
    <3> QED BY <1>1, <1>4, <3>1
  <2>2. Going(f[m - 1], given, m - 1)
    BY <2>1
  <2>3. f[m] = Called(given, f[m - 1], Program.calls[Main][m])
    BY <1>1, <1>2, <1>5, <1>7 DEF Drives
  <2> HIDE DEF Bad
  <2>4. Going(Called(given, f[m - 1], Program.calls[Main][(m - 1) + 1]), given, (m - 1) + 1)
    BY <1>1, <2>1, <2>2, GoesOnDriving
  <2> QED BY <1>5, <2>1, <2>3, <2>4
<1> QED BY <1>6, <1>7

\* The stages that were solved are the first of the plan, and each accepts its line.
Chaining ==
    job.mode = "chain" =>
        /\ at \in {"start", "stage", "stageModel", "done", "failed"}
        /\ at = "start" => lines = <<>>
        /\ at \in {"start", "stage", "stageModel"} => status = "analysis incomplete"
        /\ at \in {"stage", "stageModel", "done"} =>
              /\ \E sink \in Sinks(Program.calls) : plan = Stages(Program.calls, sink)
              /\ lines \in Seq(Range(lines)) /\ Len(lines) <= Len(plan)
              /\ job.staged => \A n \in 1..Len(lines) : Passes(plan[n], lines[n])
        /\ at \in {"stage", "stageModel"} => Len(lines) < Len(plan)
        /\ at = "stageModel" => run \in Found(Returning(Stage), 0, Largest(1, Request.solutions))
        /\ at = "done" /\ status = "sat" => Len(lines) = Len(plan) /\ solutions = Answered(lines)

LEMMA PlanIs ==
    ASSUME job \in Jobs, job.mode = "chain", NEW sink \in Sinks(Program.calls)
    PROVE  LET stages == Stages(Program.calls, sink)
           IN /\ stages \in Seq(Range(stages)) /\ Len(stages) \in Nat
              /\ stages # <<>> => 0 < Len(stages)
              /\ job.staged => \A k \in 1..Len(stages) : stages[k] \in DOMAIN Program.functions
<1> DEFINE stages == Stages(Program.calls, sink)
           main == Program.calls[Main]
<1>1. main \in Seq(Range(main)) /\ Len(main) \in Nat /\ DOMAIN main = 1..Len(main)
  BY ChainIs
<1>2. PlanTo(stages, Program.calls, sink, Len(main))
  BY <1>1, StagesAre
<1>3. stages \in Seq(Range(main)) /\ \A k \in 1..Len(stages) : IsStage(Program.calls, sink, stages[k])
  BY <1>2 DEF PlanTo
<1>4. stages \in Seq(Range(stages)) /\ Len(stages) \in Nat /\ (stages # <<>> => 0 < Len(stages))
  <2> HIDE DEF stages, main
  <2>1. DOMAIN stages = 1..Len(stages) /\ Len(stages) \in Nat
    BY <1>3
  <2>2. \A k \in 1..Len(stages) : stages[k] \in Range(stages)
    BY <2>1 DEF Range
  <2>3. stages = [k \in 1..Len(stages) |-> stages[k]]
    BY <1>3
  <2> QED BY <1>3, <2>1, <2>2, <2>3
<1>5. ASSUME job.staged, NEW k \in 1..Len(stages) PROVE stages[k] \in DOMAIN Program.functions
  <2>1. GivesEachALine(Program.calls, Program.functions, sink)
    BY <1>5, ChainIs
  <2>2. stages[k] \in Range(main) /\ IsStage(Program.calls, sink, stages[k])
    <3> HIDE DEF stages, main
    <3> QED BY <1>3
  <2>3. PICK n \in DOMAIN main : main[n] = stages[k]
    BY <2>2 DEF Range
  <2> QED BY <2>1, <2>2, <2>3 DEF GivesEachALine
<1> QED BY <1>4, <1>5

\* What a model of a path that returns says is a line its stage accepts: what _render_numbers
\* has signed is read as the number it was.
LEMMA RenderedPasses ==
    ASSUME NEW f \in DOMAIN Program.functions, FunctionOK(Function(f)),
           NEW k \in DOMAIN Function(f), Function(f)[k].returns, NEW line \in Function(f)[k].lines
    PROVE  Passes(f, Rendered(Function(f)[k], line))
<1> DEFINE path == Function(f)[k]
           answer == Rendered(path, line)
           p == 2^Width
<1>1. path.numbers \in Seq(0..(p - 1)) /\ p \in Nat \ {0}
  BY WidthAssumption DEF FunctionOK
<1>2. CASE path.numbers = <<>>
  <2>1. answer.text = line
    BY <1>2 DEF Rendered
  <2> QED BY <1>2, <2>1 DEF Passes
<1>3. CASE path.numbers # <<>>
  <2> DEFINE numbers == [j \in DOMAIN path.numbers |-> Signed(path.numbers[j])]
             read == [j \in DOMAIN answer.numbers |-> answer.numbers[j] % p]
  <2>1. answer.numbers = numbers
    BY <1>3 DEF Rendered
  <2>2. DOMAIN path.numbers = 1..Len(path.numbers) /\ Len(path.numbers) \in Nat \ {0}
    <3> DEFINE q == path.numbers
    <3>1. q \in Seq(0..(p - 1)) /\ q # <<>>
      BY <1>1, <1>3
    <3> HIDE DEF q
    <3> QED BY <3>1 DEF q
  <2>3. numbers # <<>>
    <3>1. 1 \in DOMAIN numbers
      BY <2>2
    <3>2. DOMAIN <<>> = {}
      OBVIOUS
    <3> HIDE DEF numbers
    <3> QED BY <3>1, <3>2
  <2>4. \A j \in DOMAIN path.numbers : Signed(path.numbers[j]) % p = path.numbers[j]
    <3> SUFFICES ASSUME NEW j \in DOMAIN path.numbers PROVE Signed(path.numbers[j]) % p = path.numbers[j]
      OBVIOUS
    <3> DEFINE raw == path.numbers[j]
    <3>1. raw \in 0..(p - 1)
      <4>1. \A S : \A q \in Seq(S) : \A l \in DOMAIN q : q[l] \in S
        OBVIOUS
      <4> HIDE DEF path, p
      <4> QED BY <1>1, <4>1
    <3>2. Signed(raw) = raw \/ Signed(raw) = raw - p
      BY DEF Signed
    <3> HIDE DEF raw, p
    <3>3. raw % p = raw /\ (raw - p) % p = raw
      BY <1>1, <3>1
    <3> QED BY <3>2, <3>3 DEF raw
  <2>5. read = path.numbers
    <3>1. read = [j \in DOMAIN path.numbers |-> numbers[j] % p]
      BY <2>1
    <3>2. \A j \in DOMAIN path.numbers : numbers[j] % p = path.numbers[j]
      BY <2>4
    <3>3. path.numbers = [j \in DOMAIN path.numbers |-> path.numbers[j]]
      <4> DEFINE q == path.numbers
      <4>1. q \in Seq(0..(p - 1))
        BY <1>1
      <4> HIDE DEF q
      <4>2. q = [j \in DOMAIN q |-> q[j]]
        BY <4>1
      <4> QED BY <4>2 DEF q
    <3> HIDE DEF read, numbers
    <3> QED BY <3>1, <3>2, <3>3
  <2>6. /\ path.returns /\ answer.numbers # <<>>
        /\ [j \in DOMAIN answer.numbers |-> answer.numbers[j] % 2^Width] = path.numbers
    BY <2>1, <2>3, <2>5
  <2> QED BY <1>3, <2>6 DEF Passes
<1> QED BY <1>2, <1>3

LEMMA LinesGrow ==
    ASSUME NEW s, s \in Seq(Range(s)), NEW x
    PROVE  LET t == Append(s, x)
           IN /\ t \in Seq(Range(t)) /\ Len(t) = Len(s) + 1 /\ Len(s) \in Nat /\ t[Len(s) + 1] = x
              /\ \A k \in 1..Len(s) : t[k] = s[k]
<1> DEFINE t == Append(s, x)
           R == Range(s) \cup {x}
<1>1. s \in Seq(R) /\ x \in R /\ Len(s) \in Nat
  OBVIOUS
<1>2. t \in Seq(R) /\ Len(t) = Len(s) + 1 /\ t[Len(s) + 1] = x /\ \A k \in 1..Len(s) : t[k] = s[k]
  <2> HIDE DEF R
  <2> QED BY <1>1
<1>3. t \in Seq(Range(t))
  <2> HIDE DEF R, t
  <2>1. DOMAIN t = 1..Len(t) /\ Len(t) \in Nat
    BY <1>2
  <2>2. \A k \in 1..Len(t) : t[k] \in Range(t)
    BY <2>1 DEF Range
  <2>3. t = [k \in 1..Len(t) |-> t[k]]
    BY <1>2
  <2> QED BY <1>2, <2>1, <2>2, <2>3
<1> QED BY <1>1, <1>2, <1>3

\* Nothing of a chain changes but what its steps change.
LEMMA SameChain ==
    ASSUME job' = job
    PROVE  /\ Program' = Program /\ Request' = Request
           /\ \A f : Returning(f)' = Returning(f)
           /\ \A f, line : Passes(f, line)' = Passes(f, line)
           /\ \A given : Answered(given)' = Answered(given)
<1>1. Program' = Program /\ Request' = Request
  BY DEF Program, Request
<1>2. \A f : Function(f)' = Function(f)
  BY <1>1 DEF Function
<1>3. \A f : Returning(f)' = Returning(f)
  BY <1>2 DEF Returning
<1>4. \A f, line : Passes(f, line)' = Passes(f, line)
  BY <1>2 DEF Passes
<1>5. \A given, d, f : Called(given, d, f)' = Called(given, d, f)
  BY <1>1, <1>4 DEF Called
<1>6. \A given : DriverPasses(given)' = DriverPasses(given)
  BY <1>1, <1>5 DEF DriverPasses
<1>7. \A given : Answered(given)' = Answered(given)
  BY <1>6 DEF Answered
<1> QED BY <1>1, <1>3, <1>4, <1>7

\* A chain takes no step of the search of a whole program.
LEMMA ChainSteps ==
    ASSUME SearchInv, job.mode = "chain", [Next]_vars
    PROVE  \/ SelectFunctions \/ ExploreStage \/ StageFails \/ StageModel
           \/ UNCHANGED <<job, at, run, solutions, status, plan, lines>>
<1>1. at \notin {"explore", "pick", "again", "status", "brute"} \cup Inside
  BY DEF SearchInv, Phases
<1>2. ~Searching
  BY <1>1 DEF Searching, Select, Explore, Concolic, Conclude, PickPath, MorePaths, NoMorePaths, Again
<1>3. ~Extracting
  BY <1>1 DEF Extracting, Ask, Bisect, Bisected, AskLine, BisectLine, BisectedLine, Model, Unbind,
              Extracted, Inside
<1>4. ~Checking /\ ~Try /\ ~GiveUp
  BY <1>1 DEF Checking, Verify, NativeEnds, NativeRaises, Try, GiveUp, Inside
<1>5. CASE Solving
  BY <1>2, <1>3, <1>4, <1>5 DEF Solving
<1>6. CASE Native \/ UNCHANGED vars
  BY <1>6 DEF Native, vars, control, results
<1> QED BY <1>5, <1>6 DEF Next

LEMMA FoundFirst ==
    ASSUME NEW met, Len(met) \in Nat, NEW n \in Nat, NEW r \in Found(met, 0, n), r.found > 0
    PROVE  r.met = met /\ 1 \in 1..Len(met)
<1>1. r.met = met /\ r.found \in 0..Len(met)
  <2>1. /\ \A k \in n..Least(n + 1, Len(met)) : k \in 0..Len(met)
        /\ \A k \in 0..Least(n - 1, Len(met)) : k \in 0..Len(met)
        /\ \A k \in 0..(Least(n, Len(met)) - 1) : k \in 0..Len(met)
        /\ \A k \in {Len(met)} \cap 0..(n + 1) : k \in 0..Len(met)
    BY DEF Least
  <2> QED BY <2>1 DEF Found
<1> QED BY <1>1

LEMMA ChainBegins == Init => Chaining
BY DEF Init, Chaining

LEMMA StageModelChains ==
    ASSUME SearchInv, Chaining, job.mode = "chain", StageModel
    PROVE  Chaining'
<1> DEFINE path == Function(Stage)[run.met[1]]
           n == Len(lines)
<1>1. at = "stageModel" /\ run.found > 0 /\ job \in Jobs /\ status = "analysis incomplete"
  BY DEF StageModel, SearchInv, Phases, Chaining
<1>2. PICK line \in path.lines : lines' = Append(lines, Rendered(path, line))
  BY DEF StageModel
<1>3. /\ job' = job /\ plan' = plan
      /\ IF Len(lines') < Len(plan) THEN at' = "stage" /\ status' = status
         ELSE at' = "done" /\ solutions' = Answered(lines')
  BY DEF StageModel, control
<1>4. PICK sink \in Sinks(Program.calls) : plan = Stages(Program.calls, sink)
  BY <1>1 DEF Chaining
<1>5. /\ Len(plan) \in Nat
      /\ job.staged => \A k \in 1..Len(plan) : plan[k] \in DOMAIN Program.functions
  BY <1>1, <1>4, PlanIs
<1>6. /\ lines \in Seq(Range(lines)) /\ Len(lines) < Len(plan)
      /\ job.staged => \A k \in 1..Len(lines) : Passes(plan[k], lines[k])
      /\ run \in Found(Returning(Stage), 0, Largest(1, Request.solutions))
  BY <1>1 DEF Chaining
<1>7. /\ lines' \in Seq(Range(lines')) /\ Len(lines') = n + 1 /\ n \in Nat
      /\ lines'[n + 1] = Rendered(path, line) /\ \A k \in 1..n : lines'[k] = lines[k]
  <2> HIDE DEF path
  <2> QED BY <1>2, <1>6, LinesGrow
<1>8. Len(lines') <= Len(plan)
  BY <1>5, <1>6, <1>7
<1>9. ASSUME job.staged PROVE Passes(Stage, Rendered(path, line))
  <2>1. Stage \in DOMAIN Program.functions
    <3>1. n + 1 \in 1..Len(plan)
      BY <1>5, <1>6, <1>7
    <3> QED BY <1>5, <1>9, <3>1 DEF Stage
  <2>2. FunctionOK(Function(Stage))
    BY <1>1, <2>1, ChainIs
  <2> DEFINE Ks == {k \in DOMAIN Function(Stage) : Function(Stage)[k].returns}
  <2>3. Len(Function(Stage)) \in Nat /\ Ks \in SUBSET (1..Len(Function(Stage)))
    BY <2>2 DEF FunctionOK
  <2>4. Returning(Stage) \in Seq(Ks)
    <3>1. Returning(Stage) = InOrder(Ks)
      BY DEF Returning
    <3>2. \A m \in Nat : \A S \in SUBSET (1..m) : InOrder(S) \in Seq(S)
      BY OrderIs
    <3> HIDE DEF Ks
    <3> QED BY <2>3, <3>1, <3>2
  <2>5. run.met[1] \in Ks
    <3> HIDE DEF Ks
    <3>1. Len(Returning(Stage)) \in Nat /\ Largest(1, Request.solutions) \in Nat
      <4>1. Len(Returning(Stage)) \in Nat
        BY <2>4
      <4>2. Largest(1, Request.solutions) \in Nat
        BY <1>1, AtLeastOne
      <4> QED BY <4>1, <4>2
    <3>2. run.met = Returning(Stage) /\ 1 \in 1..Len(Returning(Stage))
      BY <1>1, <1>6, <3>1, FoundFirst
    <3> QED BY <2>4, <3>2
  <2> QED BY <1>2, <2>1, <2>2, <2>5, RenderedPasses
<1>10. ASSUME job.staged, NEW k \in 1..Len(lines') PROVE Passes(plan[k], lines'[k])
  <2> HIDE DEF path
  <2>1. CASE k = n + 1
    BY <1>7, <1>9, <1>10, <2>1 DEF Stage
  <2>2. CASE k # n + 1
    <3>1. k \in 1..n
      BY <1>7, <2>2
    <3> QED BY <1>6, <1>7, <1>10, <3>1
  <2> QED BY <2>1, <2>2
<1>11. /\ Program' = Program /\ (\A f, l : Passes(f, l)' = Passes(f, l))
       /\ \A given : Answered(given)' = Answered(given)
  BY <1>3, SameChain
<1>12. CASE Len(lines') < Len(plan)
  <2>1. at' = "stage" /\ status' = "analysis incomplete"
    BY <1>1, <1>3, <1>12
  <2> HIDE DEF path, n
  <2> QED BY <1>3, <1>4, <1>7, <1>8, <1>10, <1>11, <1>12, <2>1 DEF Chaining
<1>13. CASE ~(Len(lines') < Len(plan))
  <2>1. at' = "done" /\ solutions' = Answered(lines') /\ Len(lines') = Len(plan)
    BY <1>3, <1>5, <1>7, <1>8, <1>13
  <2> HIDE DEF path, n
  <2> QED BY <1>3, <1>4, <1>7, <1>8, <1>10, <1>11, <2>1 DEF Chaining
<1> QED BY <1>12, <1>13

LEMMA NextChaining == SearchInv /\ Chaining /\ [Next]_vars => Chaining'
<1> SUFFICES ASSUME SearchInv, Chaining, [Next]_vars, (job.mode = "chain")' PROVE Chaining'
  BY DEF Chaining
<1>1. job' = job /\ job \in Jobs
  <2>1. job' = job
    BY DEF Next, Solving, Searching, Extracting, Checking, Native, vars, control, Select, Explore,
           Concolic, Conclude, PickPath, MorePaths, NoMorePaths, Again, Ask, Bisect, Bisected,
           AskLine, BisectLine, BisectedLine, Model, Unbind, Extracted, Verify, NativeEnds,
           NativeRaises, Try, GiveUp, SelectFunctions, ExploreStage, StageFails, StageModel
  <2> QED BY <2>1 DEF SearchInv, Phases
<1>2. job.mode = "chain"
  BY <1>1
<1>3. /\ Program' = Program /\ Request' = Request
      /\ (\A f : Returning(f)' = Returning(f))
      /\ (\A f, line : Passes(f, line)' = Passes(f, line))
      /\ \A given : Answered(given)' = Answered(given)
  BY <1>1, SameChain
<1>4. CASE SelectFunctions
  <2>1. at = "start" /\ lines = <<>> /\ lines' = lines /\ status' = status /\ status = "analysis incomplete"
    BY <1>2, <1>4 DEF SelectFunctions, Chaining
  <2>2. lines' \in Seq(Range(lines')) /\ Len(lines') = 0
    <3>1. Len(<<>>) = 0 /\ \A S : <<>> \in Seq(S)
      BY EmptySeq
    <3> QED BY <2>1, <3>1
  <2>3. CASE at' = "failed"
    BY <1>1, <2>1, <2>3 DEF Chaining
  <2>4. CASE at' # "failed"
    <3>1. PICK sink \in Sinks(Program.calls) :
             plan' = Stages(Program.calls, sink) /\ plan' # <<>> /\ at' = "stage"
      BY <1>2, <1>4, <2>4 DEF SelectFunctions
    <3>2. 0 < Len(plan') /\ Len(plan') \in Nat
      BY <1>1, <1>2, <3>1, PlanIs
    <3>3. 1..0 = {}
      OBVIOUS
    <3>4. Len(lines') <= Len(plan') /\ Len(lines') < Len(plan') /\ 1..Len(lines') = {}
      BY <2>2, <3>2, <3>3
    <3>5. at' = "stage" /\ status' = "analysis incomplete"
      BY <2>1, <3>1
    <3> QED BY <1>1, <1>3, <2>2, <3>1, <3>4, <3>5 DEF Chaining
  <2> QED BY <2>3, <2>4
<1>5. CASE ExploreStage
  <2>1. /\ at = "stage" /\ at' = "stageModel" /\ run' \in Found(Returning(Stage), 0, Largest(1, Request.solutions))
        /\ plan' = plan /\ lines' = lines /\ status' = status
    BY <1>5 DEF ExploreStage, results
  <2>2. Stage' = Stage
    BY <2>1 DEF Stage
  <2> QED BY <1>1, <1>2, <1>3, <2>1, <2>2 DEF Chaining
<1>6. CASE StageFails
  <2>1. at = "stageModel" /\ at' = "done" /\ plan' = plan /\ lines' = lines
    BY <1>6 DEF StageFails
  <2>2. status' # "sat"
    <3>1. Program.outcome \in Fallback
      BY <1>1, JobIs
    <3> QED BY <1>6, <3>1 DEF StageFails, Fallback
  <2> QED BY <1>1, <1>2, <1>3, <2>1, <2>2 DEF Chaining
<1>7. CASE StageModel
  BY <1>2, <1>7, StageModelChains
<1>8. CASE UNCHANGED <<job, at, run, solutions, status, plan, lines>>
  <2>1. Stage' = Stage
    BY <1>8 DEF Stage
  <2> QED BY <1>2, <1>3, <1>8, <2>1 DEF Chaining
<1> QED BY <1>2, <1>4, <1>5, <1>6, <1>7, <1>8, ChainSteps

LEMMA AlwaysChaining == Spec => [](SearchInv /\ Chaining)
<1>1. SearchInv /\ Chaining /\ [Next]_vars => Chaining'
  BY NextChaining
<1> QED BY <1>1, ChainBegins, AlwaysSearch, PTL DEF Spec

\* A chain whose driver reads each stage a line of its own (_solve_chain) and that is called
\* solved has a line for each stage, and the lines, joined, take the driver through all its
\* stages: each is given its own line, not its neighbour's, and accepts it.
THEOREM AlwaysChainDrives == Spec => []ChainDrives
<1>1. SearchInv /\ Chaining => ChainDrives
  <2> SUFFICES ASSUME SearchInv, Chaining, at = "done", job.mode = "chain", status = "sat"
               PROVE  /\ Len(lines) = Len(plan) /\ Len(solutions) = 1
                      /\ job.staged => solutions[1].verified
    BY DEF ChainDrives
  <2>1. job \in Jobs
    BY DEF SearchInv, Phases
  <2>2. /\ Len(lines) = Len(plan) /\ solutions = Answered(lines)
        /\ job.staged => \A k \in 1..Len(lines) : Passes(plan[k], lines[k])
    BY DEF Chaining
  <2>3. PICK sink \in Sinks(Program.calls) : plan = Stages(Program.calls, sink)
    BY DEF Chaining
  <2>4. Len(solutions) = 1 /\ solutions[1].verified = (job.mode = "chain" /\ DriverPasses(lines))
    BY <2>2 DEF Answered
  <2>5. job.staged => DriverPasses(lines) = TRUE
    BY <2>1, <2>2, <2>3, DriverAccepts
  <2> QED BY <2>2, <2>4, <2>5
<1> QED BY <1>1, AlwaysChaining, PTL
=============================================================================
