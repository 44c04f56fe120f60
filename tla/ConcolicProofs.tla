---------------------------- MODULE ConcolicProofs ----------------------------
(***************************************************************************)
(* Proof that the concolic search leaves no path to the goal behind        *)
(* without knowing it, for every program, every solver and every order in  *)
(* which flips are tried.                                                  *)
(*                                                                         *)
(* During a run this is easy: an input leaves the followed path at a       *)
(* choice, and the choice leaves a flip (Trail).  Between runs it is not,  *)
(* for a flip that was ever tried is not queued again, and those that were *)
(* tried are gone from the queue.  What holds then is that a flip that is  *)
(* gone has an input that was followed (Settled), and that each input that *)
(* was followed left a flip for every other one (Traced).  Of the inputs   *)
(* followed, the one that stays longest with an input that reaches the     *)
(* goal leaves a flip on its way; no input that was followed takes it, so  *)
(* it still waits.                                                         *)
(***************************************************************************)
EXTENDS Concolic, SequenceTheorems, WellFoundedInduction, TLAPS

Gone == lost \cup incomplete
Owed == Reaching \ Gone

Typed ==
    /\ flips \subseteq Seq(Taken) /\ tried \subseteq Seq(Taken)
    /\ phase \in {"start", "run"} => runs < MaxRuns
    /\ phase = "run" => incomplete = {}
    /\ reached \in BOOLEAN /\ (reached => phase \in {"collect", "verdict", "done"})

Following == phase \in {"run", "collect"}

\* No flip of a run matches the input the run follows.
Apart == Following => \A c \in flips : current \notin Matching(c)

\* An input that reaches the goal is still on the way of the run, or took a flip.
Trail ==
    Following /\ ~ reached =>
        \A i \in Owed : \/ phase = "run" /\ i \in Matching(Followed)
                        \/ \E c \in flips : i \in Matching(c)

\* A flip that was tried waits, or an input that takes it was followed.
Settled ==
    \A c \in tried : \A i \in Owed \cap Matching(c) :
        (\E flip \in queue : flip.conditions = c) \/ seen \cap Matching(c) # {}

\* The runs that are over left a flip for each input that reaches the goal.
LeftFlips(m) == \A i \in Owed : \E c \in tried : i \in Matching(c) /\ m \notin Matching(c)
Traced ==
    ~ reached => \A m \in seen :
        LeftFlips(m) \/ (m = current /\ phase \in {"start", "run", "collect"})

Claimed == status # "none" => phase = "done" /\ status \in Verdict

Inv == TypeOK /\ Typed /\ Apart /\ Trail /\ Settled /\ Traced /\ Claimed

-----------------------------------------------------------------------------
(* Paths and their beginnings.                                              *)

LEMMA PathType ==
    ASSUME NEW i \in Inputs
    PROVE  Path[i] \in Seq(Taken) /\ Len(Path[i]) \in Nat
BY ConcolicAssumption, LenProperties

LEMMA Prefix ==
    ASSUME NEW i \in Inputs, NEW k \in 0..Len(Path[i])
    PROVE  /\ SubSeq(Path[i], 1, k) \in Seq(Taken) /\ Len(SubSeq(Path[i], 1, k)) = k
           /\ \A j \in 1..k : SubSeq(Path[i], 1, k)[j] = Path[i][j]
<1>1. Path[i] \in Seq(Taken) /\ Len(Path[i]) \in Nat
  BY PathType
<1>2. \A j \in 1..k : Path[i][j] \in Taken
  BY <1>1, ElementOfSeq
<1>3. /\ SubSeq(Path[i], 1, k) \in Seq(Taken)
      /\ Len(SubSeq(Path[i], 1, k)) = IF 1 <= k THEN k - 1 + 1 ELSE 0
      /\ \A j \in 1..(k - 1 + 1) : SubSeq(Path[i], 1, k)[j] = Path[i][1 + j - 1]
  BY <1>1, <1>2, SubSeqProperties
<1>. QED
  BY <1>1, <1>3

\* An input satisfies a path condition when it takes its choices, one by one.
LEMMA Matches ==
    ASSUME NEW i \in Inputs, NEW c \in Seq(Taken)
    PROVE  i \in Matching(c) <=>
               Len(c) <= Len(Path[i]) /\ \A j \in 1..Len(c) : Path[i][j] = c[j]
<1>1. Path[i] \in Seq(Taken) /\ Len(Path[i]) \in Nat /\ Len(c) \in Nat
  BY PathType, LenProperties
<1>2. i \in Matching(c) <=> Len(c) <= Len(Path[i]) /\ c = SubSeq(Path[i], 1, Len(c))
  BY DEF Matching, Begins
<1>3. ASSUME Len(c) <= Len(Path[i])
      PROVE  c = SubSeq(Path[i], 1, Len(c)) <=> \A j \in 1..Len(c) : Path[i][j] = c[j]
  <2>1. Len(c) \in 0..Len(Path[i])
    BY <1>1, <1>3
  <2>2. /\ SubSeq(Path[i], 1, Len(c)) \in Seq(Taken)
        /\ Len(SubSeq(Path[i], 1, Len(c))) = Len(c)
        /\ \A j \in 1..Len(c) : SubSeq(Path[i], 1, Len(c))[j] = Path[i][j]
    BY <2>1, Prefix
  <2>. QED
    BY <2>2, SeqEqual
<1>. QED
  BY <1>2, <1>3

\* Two inputs agree up to k when one satisfies the beginning of the other's path.
LEMMA Agrees ==
    ASSUME NEW i \in Inputs, NEW m \in Inputs, NEW k \in 0..Len(Path[i])
    PROVE  m \in Matching(SubSeq(Path[i], 1, k)) <=>
               k <= Len(Path[m]) /\ \A j \in 1..k : Path[m][j] = Path[i][j]
<1>1. /\ SubSeq(Path[i], 1, k) \in Seq(Taken) /\ Len(SubSeq(Path[i], 1, k)) = k
      /\ \A j \in 1..k : SubSeq(Path[i], 1, k)[j] = Path[i][j]
  BY Prefix
<1>. QED
  BY <1>1, Matches

\* Inputs that took the same choices so far meet the same choice, or end together.
LEMMA SameSite ==
    ASSUME NEW i \in Inputs, NEW j \in Inputs, NEW k \in 0..Len(Path[i]),
           j \in Matching(SubSeq(Path[i], 1, k))
    PROVE  \/ /\ k < Len(Path[i]) /\ k < Len(Path[j])
              /\ Path[i][k + 1].site = Path[j][k + 1].site
           \/ k = Len(Path[i]) /\ Path[i] = Path[j] /\ Ending[i] = Ending[j]
<1>1. /\ Path[i] \in Seq(Taken) /\ Path[j] \in Seq(Taken)
      /\ Len(Path[i]) \in Nat /\ Len(Path[j]) \in Nat
  BY PathType
<1>2. k <= Len(Path[j]) /\ \A n \in 1..k : Path[j][n] = Path[i][n]
  BY Agrees
<1>3. CASE k < Len(Path[i])
  <2>1. k + 1 \in 1..Len(Path[i]) /\ (k + 1) - 1 = k
    BY <1>1, <1>3
  <2>2. Len(Path[j]) >= k + 1 /\ Path[i][k + 1].site = Path[j][k + 1].site
    BY <2>1, ConcolicAssumption
  <2>. QED
    BY <1>1, <1>3, <2>2
<1>4. CASE k = Len(Path[i])
  <2>1. ~ (k < Len(Path[j]))
    <3>1. SUFFICES ASSUME k < Len(Path[j]) PROVE FALSE
      OBVIOUS
    <3>2. k \in 0..Len(Path[j]) /\ k + 1 \in 1..Len(Path[j]) /\ (k + 1) - 1 = k
      BY <1>1, <3>1
    <3>3. i \in Matching(SubSeq(Path[j], 1, k))
      BY <1>1, <1>2, <1>4, <3>2, Agrees
    <3>4. Len(Path[i]) >= k + 1
      BY <3>2, <3>3, ConcolicAssumption
    <3>. QED
      BY <1>1, <1>4, <3>4
  <2>2. Len(Path[i]) = Len(Path[j])
    BY <1>1, <1>2, <1>4, <2>1
  <2>3. Path[i] = Path[j]
    BY <1>1, <1>2, <1>4, <2>2, SeqEqual
  <2>. QED
    BY <1>4, <2>3, ConcolicAssumption
<1>. QED
  BY <1>1, <1>3, <1>4

\* A path condition that an input satisfies begins the conditions it satisfies further on.
LEMMA NotDenied ==
    ASSUME NEW c \in Seq(Taken), NEW i \in Reaching, i \in Matching(c)
    PROVE  CanReach(c)
<1>1. i \in Inputs
  BY DEF Reaching
<1>2. Len(c) <= Len(Path[i]) /\ c = SubSeq(Path[i], 1, Len(c))
  BY DEF Matching, Begins
<1>3. Len(c) \in 0..Len(Path[i])
  BY <1>1, <1>2, PathType, LenProperties
<1>. QED
  BY <1>2, <1>3, ConcolicAssumption

-----------------------------------------------------------------------------
(* The choice of a run.                                                     *)

LEMMA TakenShape ==
    ASSUME NEW t \in Taken
    PROVE  /\ t = [site |-> t.site, side |-> t.side]
           /\ \A side \in Sides[t.site] :
                  /\ [t EXCEPT !.side = side] = [site |-> t.site, side |-> side]
                  /\ [t EXCEPT !.side = side] \in Taken
           /\ t.side \in Sides[t.site]
<1>1. PICK site \in DOMAIN Sides :
         \E side \in Sides[site] : t = [site |-> site, side |-> side]
  BY DEF Taken
<1>. PICK side \in Sides[site] : t = [site |-> site, side |-> side]
  BY <1>1
<1>2. t.site = site /\ t.side = side
  OBVIOUS
<1>3. \A other \in Sides[site] : [t EXCEPT !.side = other] = [site |-> site, side |-> other]
  OBVIOUS
<1>4. \A other \in Sides[site] : [site |-> site, side |-> other] \in Taken
  BY DEF Taken
<1>. QED
  BY <1>2, <1>3, <1>4

\* What an input does that was with the run so far: it takes the same side, or a flip.
LEMMA Parting ==
    ASSUME TypeOK, Typed, MoreChoices,
           NEW i \in Inputs, i \in Matching(Followed)
    PROVE  LET choice == Path[current][position + 1] IN
           \/ i \in Matching(Append(Followed, choice))
           \/ \E c \in Others(Followed, choice) : i \in Matching(c)
<1>. DEFINE choice == Path[current][position + 1]
<1>1. /\ current \in Inputs /\ position \in Nat /\ position < Len(Path[current])
      /\ Len(Path[current]) \in Nat /\ Len(Path[i]) \in Nat
      /\ Path[current] \in Seq(Taken) /\ Path[i] \in Seq(Taken)
  BY PathType DEF TypeOK, MoreChoices
<1>2. position \in 0..Len(Path[current])
  BY <1>1
<1>3. position < Len(Path[i]) /\ choice.site = Path[i][position + 1].site
  BY <1>1, <1>2, SameSite DEF Followed
<1>4. /\ Followed \in Seq(Taken) /\ Len(Followed) = position
      /\ position <= Len(Path[i]) /\ \A j \in 1..position : Path[i][j] = Followed[j]
  BY <1>1, <1>2, <1>3, Prefix, Agrees DEF Followed
<1>5. choice \in Taken /\ Path[i][position + 1] \in Taken
  BY <1>1, <1>3, ElementOfSeq
<1>. DEFINE own == Path[i][position + 1]
<1>. HIDE DEF choice, own
<1>6. ASSUME NEW t \in Taken, own = t
      PROVE  i \in Matching(Append(Followed, t))
  <2>. DEFINE c == Append(Followed, t)
  <2>1. /\ c \in Seq(Taken) /\ Len(c) = position + 1
        /\ \A j \in 1..position : c[j] = Followed[j]
        /\ c[position + 1] = t
    BY <1>4, AppendProperties
  <2>. HIDE DEF c
  <2>2. \A j \in 1..(position + 1) : Path[i][j] = c[j]
    BY <1>1, <1>4, <1>6, <2>1 DEF own
  <2>3. Len(c) <= Len(Path[i]) /\ \A j \in 1..Len(c) : Path[i][j] = c[j]
    BY <1>1, <1>3, <2>1, <2>2
  <2>4. i \in Matching(c)
    BY <2>1, <2>3, Matches
  <2>. QED
    BY <2>4 DEF c
<1>7. choice \in Taken /\ own \in Taken /\ own.site = choice.site
  BY <1>3, <1>5 DEF choice, own
<1>8. CASE own = choice
  BY <1>6, <1>7, <1>8 DEF choice
<1>9. CASE own # choice
  <2>1. own.side \in Sides[choice.site] \ {choice.side} /\ own = [choice EXCEPT !.side = own.side]
    BY <1>7, <1>9, TakenShape
  <2>2. Append(Followed, own) \in Others(Followed, choice)
    BY <2>1 DEF Others
  <2>. QED
    BY <1>6, <1>7, <2>2 DEF choice
<1>. QED
  BY <1>8, <1>9

\* The flips of a choice are path conditions the followed input does not satisfy.
LEMMA OthersApart ==
    ASSUME TypeOK, Typed, MoreChoices,
           NEW c \in Others(Followed, Path[current][position + 1])
    PROVE  c \in Seq(Taken) /\ current \notin Matching(c)
<1>. DEFINE choice == Path[current][position + 1]
<1>1. /\ current \in Inputs /\ position \in Nat /\ position < Len(Path[current])
      /\ Len(Path[current]) \in Nat /\ Path[current] \in Seq(Taken)
  BY PathType DEF TypeOK, MoreChoices
<1>2. position \in 0..Len(Path[current]) /\ position + 1 \in 1..Len(Path[current])
  BY <1>1
<1>3. Followed \in Seq(Taken) /\ Len(Followed) = position
  BY <1>1, <1>2, Prefix DEF Followed
<1>4. choice \in Taken
  BY <1>1, <1>2, ElementOfSeq
<1>. HIDE DEF choice
<1>5. PICK side \in Sides[choice.site] \ {choice.side} :
         c = Append(Followed, [choice EXCEPT !.side = side])
  BY DEF Others, choice
<1>. DEFINE t == [choice EXCEPT !.side = side]
<1>6. t = [site |-> choice.site, side |-> side] /\ t \in Taken
  BY <1>4, <1>5, TakenShape
<1>7. t.side = side /\ side # choice.side
  BY <1>5, <1>6
<1>8. t # choice
  BY <1>7
<1>. HIDE DEF t
<1>9. c \in Seq(Taken) /\ Len(c) = position + 1 /\ c[position + 1] = t
  BY <1>3, <1>5, <1>6, AppendProperties DEF t
<1>10. position + 1 \in 1..Len(c) /\ Path[current][position + 1] = choice
  BY <1>1, <1>9 DEF choice
<1>. QED
  BY <1>1, <1>8, <1>9, <1>10, Matches

-----------------------------------------------------------------------------
(* Between two runs.                                                        *)

\* A set of numbers that is not empty and bounded has a greatest one.
LEMMA Greatest ==
    ASSUME NEW n \in Nat, NEW T \in SUBSET (0..n), T # {}
    PROVE  \E x \in T : \A y \in T : y <= x
<1>. DEFINE U == {n - x : x \in T}
            R == {p \in Nat \X Nat : p[1] < p[2]}
<1>1. \A x \in T : x \in Nat /\ n - x \in Nat
  OBVIOUS
<1>2. U \subseteq Nat /\ U # {}
  BY <1>1
<1>3. IsWellFoundedOn(R, Nat)
  BY NatLessThanWellFounded DEF OpToRel
<1>4. \E u \in U : \A v \in U : <<v, u>> \notin R
  <2>. HIDE DEF R, U
  <2>. QED
    BY <1>2, <1>3, WFMin
<1>5. PICK x \in T : \A v \in U : <<v, n - x>> \notin R
  BY <1>4
<1>6. ASSUME NEW y \in T PROVE y <= x
  <2>1. <<n - y, n - x>> \notin R
    BY <1>5
  <2>2. ~ (n - y < n - x)
    BY <1>1, <2>1
  <2>. QED
    BY <1>1, <2>2
<1>. QED
  BY <1>6

\* When no run is under way, an input that reaches the goal waits behind a flip: of the
\* inputs followed, take one that stays with it longest.
LEMMA Waits ==
    ASSUME TypeOK, Typed, Settled, \A m \in seen : LeftFlips(m), NEW i \in Owed
    PROVE  \E flip \in queue : i \in Matching(flip.conditions)
<1>1. i \in Inputs /\ Path[i] \in Seq(Taken) /\ Len(Path[i]) \in Nat /\ seen \subseteq Inputs
  BY PathType DEF Owed, Reaching, TypeOK
<1>. DEFINE With(k) == seen \cap Matching(SubSeq(Path[i], 1, k))
            T == {k \in 0..Len(Path[i]) : With(k) # {}}
<1>2. T # {}
  <2>1. current \in seen /\ current \in Inputs /\ Len(Path[current]) \in Nat
    BY PathType DEF TypeOK
  <2>2. 0 \in 0..Len(Path[i]) /\ 0 <= Len(Path[current])
    BY <1>1, <2>1
  <2>3. current \in Matching(SubSeq(Path[i], 1, 0))
    BY <1>1, <2>1, <2>2, Agrees
  <2>. QED
    BY <2>1, <2>2, <2>3
<1>3. PICK k \in T : \A l \in T : l <= k
  BY <1>1, <1>2, Greatest
<1>4. PICK m \in seen : m \in Matching(SubSeq(Path[i], 1, k))
  BY <1>3
<1>5. PICK c \in tried : i \in Matching(c) /\ m \notin Matching(c)
  BY DEF LeftFlips
<1>6. c \in Seq(Taken) /\ Len(c) \in Nat
  BY LenProperties DEF Typed
<1>7. Len(c) <= Len(Path[i]) /\ c = SubSeq(Path[i], 1, Len(c)) /\ Len(c) \in 0..Len(Path[i])
  BY <1>1, <1>5, <1>6 DEF Matching, Begins
<1>8. k < Len(c)
  <2>1. SUFFICES ASSUME Len(c) <= k PROVE FALSE
    BY <1>6, <1>7
  <2>2. m \in Inputs /\ k <= Len(Path[m]) /\ \A j \in 1..k : Path[m][j] = Path[i][j]
    BY <1>1, <1>3, <1>4, Agrees
  <2>3. Len(c) <= Len(Path[m]) /\ \A j \in 1..Len(c) : Path[m][j] = Path[i][j]
    BY <1>1, <1>3, <1>6, <2>1, <2>2, PathType
  <2>4. m \in Matching(SubSeq(Path[i], 1, Len(c)))
    BY <1>1, <1>7, <2>2, <2>3, Agrees
  <2>. QED
    BY <1>5, <1>7, <2>4
<1>9. With(Len(c)) = {}
  BY <1>3, <1>6, <1>7, <1>8
<1>10. seen \cap Matching(c) = {}
  BY <1>7, <1>9
<1>. QED
  BY <1>5, <1>10 DEF Settled

-----------------------------------------------------------------------------
(* The steps.                                                               *)

LEMMA InitInv == Init => Inv
<1>. SUFFICES ASSUME Init PROVE Inv
  OBVIOUS
<1>1. TypeOK
  BY ConcolicAssumption DEF Init, TypeOK
<1>2. Typed
  <2>1. runs < MaxRuns
    BY ConcolicAssumption DEF Init
  <2>. QED
    BY <2>1 DEF Init, Typed
<1>3. Apart /\ Trail
  BY DEF Init, Apart, Trail, Following
<1>4. Settled /\ Traced /\ Claimed
  BY DEF Init, Settled, Traced, Claimed
<1>. QED
  BY <1>1, <1>2, <1>3, <1>4 DEF Inv

LEMMA NextTypeOK == TypeOK /\ Typed /\ [Next]_vars => TypeOK'
<1>. SUFFICES ASSUME TypeOK, Typed, [Next]_vars PROVE TypeOK'
  OBVIOUS
<1>. USE ConcolicAssumption DEF TypeOK, Typed, run, search
<1>1. CASE Start
  <2>1. 0 <= Len(Path[current])
    BY PathType
  <2>. QED
    BY <1>1, <2>1 DEF Start
<1>2. CASE OutOfBudget
  <2>1. Matching(Followed) \subseteq Inputs
    BY DEF Matching
  <2>. QED
    BY <1>2, <2>1 DEF OutOfBudget, EndRun
<1>3. CASE TooManyVisits
  <2>1. Matching(Followed) \subseteq Inputs
    BY DEF Matching
  <2>. QED
    BY <1>3, <2>1 DEF TooManyVisits, MoreChoices, EndRun
<1>4. CASE Follow
  <2>1. position' = position + 1 /\ position < Len(Path[current]) /\ phase = "run"
        /\ UNCHANGED <<current, incomplete, search, seen, lost>>
    BY <1>4 DEF Follow, MoreChoices
  <2>2. position' \in Nat /\ position' <= Len(Path[current])
    BY <2>1, PathType
  <2>3. \/ UNCHANGED <<phase, runs>>
        \/ EndRun
    BY <1>4 DEF Follow
  <2>4. phase' \in {"run", "collect"} /\ runs' \in 0..MaxRuns
    BY <2>1, <2>3 DEF EndRun
  <2>. QED
    BY <2>1, <2>2, <2>4
<1>5. CASE Finish
  <2>1. Matching(Followed) \subseteq Inputs
    BY DEF Matching
  <2>. QED
    BY <1>5, <2>1 DEF Finish, EndRun
<1>6. CASE Found \/ GiveUp
  BY <1>6 DEF Found, GiveUp
<1>7. CASE Collect
  <2>1. \A c : Entry(c).conditions = c
    BY DEF Entry
  <2>2. {flip.conditions : flip \in queue'} \subseteq tried'
    BY <1>7, <2>1 DEF Collect, Queued
  <2>. QED
    BY <1>7, <2>2 DEF Collect
<1>8. CASE NoModel \/ SeenModel
  <2>1. \E flip \in queue : Drop(flip)
    BY <1>8 DEF NoModel, SeenModel, First
  <2>2. \A c : Matching(c) \subseteq Inputs
    BY DEF Matching
  <2>3. lost' \subseteq Inputs
    BY <1>8, <2>2 DEF NoModel, SeenModel
  <2>. QED
    BY <2>1, <2>3 DEF Drop
<1>9. CASE NewSeed
  <2>1. \A c : Matching(c) \subseteq Inputs
    BY DEF Matching
  <2>. QED
    BY <1>9, <2>1 DEF NewSeed, MayPop, First
<1>10. CASE Conclude
  BY <1>10 DEF Conclude
<1>11. CASE UNCHANGED vars
  BY <1>11 DEF vars
<1>. QED
  BY <1>1, <1>2, <1>3, <1>4, <1>5, <1>6, <1>7, <1>8, <1>9, <1>10, <1>11
     DEF Next, Run, Choose, Finished

LEMMA NextTyped == TypeOK /\ Typed /\ [Next]_vars => Typed'
<1>. SUFFICES ASSUME TypeOK, Typed, [Next]_vars PROVE Typed'
  OBVIOUS
<1>1. CASE Start
  BY <1>1 DEF Start, Typed, search
<1>2. CASE OutOfBudget \/ TooManyVisits \/ Finish
  BY <1>2 DEF OutOfBudget, TooManyVisits, Finish, MoreChoices, EndRun, Typed, run, search
<1>3. CASE Follow
  <2>1. Others(Followed, Path[current][position + 1]) \subseteq Seq(Taken)
    BY <1>3, OthersApart DEF Follow
  <2>2. flips' = flips \cup Others(Followed, Path[current][position + 1])
    BY <1>3 DEF Follow
  <2>3. phase = "run" /\ UNCHANGED <<reached, incomplete, tried>>
    BY <1>3 DEF Follow, MoreChoices, search
  <2>4. UNCHANGED <<phase, runs>> \/ phase' = "collect"
    BY <1>3 DEF Follow, EndRun
  <2>. QED
    BY <2>1, <2>2, <2>3, <2>4 DEF Typed
<1>4. CASE Found \/ GiveUp \/ Conclude
  BY <1>4 DEF Found, GiveUp, Conclude, Typed, run, search
<1>5. CASE Collect
  BY <1>5 DEF Collect, Typed, run
<1>6. CASE NoModel \/ SeenModel
  <2>1. \E flip \in queue : Drop(flip)
    BY <1>6 DEF NoModel, SeenModel, First
  <2>. QED
    BY <2>1 DEF Drop, Typed, run
<1>7. CASE NewSeed
  BY <1>7 DEF NewSeed, MayPop, Typed, run
<1>8. CASE UNCHANGED vars
  BY <1>8 DEF vars, Typed, run, search
<1>. QED
  BY <1>1, <1>2, <1>3, <1>4, <1>5, <1>6, <1>7, <1>8 DEF Next, Run, Choose, Finished

\* What is left behind stays on record.
LEMMA GoneGrows ==
    ASSUME Inv, [Next]_vars
    PROVE  Gone \subseteq Gone' /\ Owed' \subseteq Owed
<1>1. Gone \subseteq Gone'
  <2>1. CASE Start \/ OutOfBudget \/ TooManyVisits \/ Follow \/ Finish
    BY <2>1 DEF Start, OutOfBudget, TooManyVisits, Follow, Finish, MoreChoices, Gone, Inv,
                Typed, run
  <2>2. CASE Choose \/ Conclude
    BY <2>2 DEF Choose, Found, Collect, NoModel, SeenModel, NewSeed, GiveUp, Drop, Conclude,
                Gone, run
  <2>3. CASE UNCHANGED vars
    BY <2>3 DEF vars, Gone, run
  <2>. QED
    BY <2>1, <2>2, <2>3 DEF Next, Run, Finished
<1>. QED
  BY <1>1 DEF Owed

LEMMA NextApart == Inv /\ [Next]_vars => Apart'
<1>. SUFFICES ASSUME Inv, [Next]_vars PROVE Apart'
  OBVIOUS
<1>1. CASE Start
  BY <1>1 DEF Start, Apart
<1>2. CASE Follow
  <2>1. TypeOK /\ Typed /\ MoreChoices /\ UNCHANGED current
    BY <1>2 DEF Inv, Follow
  <2>2. flips' = flips \cup Others(Followed, Path[current][position + 1])
    BY <1>2 DEF Follow
  <2>3. \A c \in flips' : current \notin Matching(c)
    BY <2>1, <2>2, OthersApart DEF Inv, Apart, Following, MoreChoices
  <2>. QED
    BY <2>1, <2>3 DEF Apart
<1>3. CASE OutOfBudget \/ TooManyVisits \/ Finish
  BY <1>3 DEF OutOfBudget, TooManyVisits, Finish, MoreChoices, run, Inv, Apart, Following
<1>4. CASE Choose \/ Conclude
  <2>1. ~ Following' \/ UNCHANGED <<phase, flips, current>>
    BY <1>4 DEF Choose, Found, Collect, NoModel, SeenModel, NewSeed, GiveUp, Drop, Conclude,
                Following, run
  <2>. QED
    BY <2>1 DEF Inv, Apart, Following
<1>5. CASE UNCHANGED vars
  BY <1>5 DEF vars, run, Inv, Apart, Following
<1>. QED
  BY <1>1, <1>2, <1>3, <1>4, <1>5 DEF Next, Run, Finished

\* At a choice, an input that was with the run goes on with it or takes a flip; where the
\* run ends, those that are still with it cannot reach the goal or are put on record.
LEMMA NextTrail == Inv /\ [Next]_vars => Trail'
<1>. SUFFICES ASSUME Inv, [Next]_vars PROVE Trail'
  OBVIOUS
<1>1. TypeOK /\ Typed /\ Owed' \subseteq Owed /\ Owed \subseteq Inputs /\ current \in Inputs
  BY GoneGrows DEF Inv, Owed, Reaching, TypeOK
<1>2. CASE Start
  <2>1. phase' = "run" /\ position' = 0 /\ UNCHANGED current
    BY <1>2 DEF Start
  <2>2. ASSUME NEW i \in Inputs PROVE i \in Matching(SubSeq(Path[current], 1, 0))
    <3>1. 0 \in 0..Len(Path[current]) /\ 0 <= Len(Path[i])
      BY <1>1, PathType
    <3>. QED
      BY <1>1, <3>1, Agrees
  <2>. QED
    BY <1>1, <2>1, <2>2 DEF Trail, Followed
<1>3. CASE Follow
  <2>. DEFINE choice == Path[current][position + 1]
              further == Append(Followed, choice)
  <2>1. /\ MoreChoices /\ UNCHANGED <<current, reached>> /\ position' = position + 1
        /\ flips' = flips \cup Others(Followed, choice)
        /\ \/ CanReach(further) /\ UNCHANGED phase
           \/ ~ CanReach(further) /\ phase' = "collect"
    BY <1>3 DEF Follow, EndRun
  <2>2. /\ Len(Path[current]) \in Nat /\ position \in Nat /\ position < Len(Path[current])
        /\ Path[current] \in Seq(Taken) /\ phase = "run"
    BY <1>1, <2>1, PathType DEF TypeOK, MoreChoices
  <2>3. further = SubSeq(Path[current], 1, position + 1) /\ further \in Seq(Taken)
    <3>1. position \in 0..Len(Path[current]) /\ position + 1 \in 0..Len(Path[current])
          /\ position + 1 \in 1..Len(Path[current])
      BY <2>2
    <3>2. /\ Followed \in Seq(Taken) /\ Len(Followed) = position
          /\ \A j \in 1..position : Followed[j] = Path[current][j]
      BY <1>1, <3>1, Prefix DEF Followed
    <3>3. choice \in Taken
      BY <2>2, <3>1, ElementOfSeq
    <3>4. /\ further \in Seq(Taken) /\ Len(further) = position + 1
          /\ \A j \in 1..position : further[j] = Followed[j]
          /\ further[position + 1] = choice
      BY <3>2, <3>3, AppendProperties
    <3>. DEFINE longer == SubSeq(Path[current], 1, position + 1)
    <3>5. /\ longer \in Seq(Taken) /\ Len(longer) = position + 1
          /\ \A j \in 1..(position + 1) : longer[j] = Path[current][j]
      BY <1>1, <3>1, Prefix
    <3>. HIDE DEF further, longer
    <3>6. \A j \in 1..(position + 1) : further[j] = longer[j]
      BY <2>2, <3>2, <3>4, <3>5
    <3>7. further = longer
      BY <3>4, <3>5, <3>6, SeqEqual
    <3>. QED
      BY <3>4, <3>7 DEF longer
  <2>4. ASSUME NEW i \in Owed', ~ reached'
        PROVE  \/ phase' = "run" /\ i \in Matching(Followed')
               \/ \E c \in flips' : i \in Matching(c)
    <3>1. i \in Owed /\ i \in Inputs /\ i \in Reaching
      BY <1>1 DEF Owed
    <3>2. CASE \E c \in flips : i \in Matching(c)
      BY <2>1, <3>2
    <3>3. CASE i \in Matching(Followed)
      <4>1. i \in Matching(further) \/ \E c \in Others(Followed, choice) : i \in Matching(c)
        BY <1>1, <2>1, <3>1, <3>3, Parting
      <4>2. i \in Matching(further) => CanReach(further)
        BY <2>3, <3>1, NotDenied
      <4>3. Followed' = further
        BY <2>1, <2>3 DEF Followed
      <4>. QED
        BY <2>1, <2>2, <4>1, <4>2, <4>3
    <3>. QED
      BY <2>1, <2>2, <2>4, <3>1, <3>2, <3>3 DEF Inv, Trail, Following
  <2>. HIDE DEF further, choice
  <2>. QED
    BY <2>4 DEF Trail
<1>4. CASE OutOfBudget
  <2>1. /\ phase = "run" /\ phase' = "collect" /\ UNCHANGED <<flips, reached, current>>
        /\ lost' = lost \cup Matching(Followed)
    BY <1>4 DEF OutOfBudget, EndRun, run
  <2>2. \A i \in Owed' : i \notin Matching(Followed)
    BY <2>1 DEF Owed, Gone
  <2>. QED
    BY <1>1, <2>1, <2>2 DEF Inv, Trail, Following
<1>5. CASE TooManyVisits
  <2>1. /\ phase = "run" /\ phase' = "collect" /\ UNCHANGED <<flips, reached, current>>
        /\ incomplete' = Matching(Followed)
    BY <1>5 DEF TooManyVisits, MoreChoices, EndRun
  <2>2. \A i \in Owed' : i \notin Matching(Followed)
    BY <2>1 DEF Owed, Gone
  <2>. QED
    BY <1>1, <2>1, <2>2 DEF Inv, Trail, Following
<1>6. CASE Finish
  <2>1. /\ phase = "run" /\ phase' = "collect" /\ UNCHANGED <<flips, current>>
        /\ position = Len(Path[current]) /\ reached' = (Ending[current] = "goal")
        /\ incomplete' = IF Ending[current] = "unsupported" THEN Matching(Followed) ELSE {}
    BY <1>6 DEF Finish, EndRun
  <2>2. ~ reached
    BY <1>1, <2>1 DEF Typed
  <2>3. ASSUME NEW i \in Owed', i \in Matching(Followed) PROVE reached'
    <3>1. i \in Inputs /\ Ending[i] \in {"goal", "unsupported"} /\ i \notin incomplete'
      BY <1>1 DEF Owed, Gone, Reaching
    <3>2. Len(Path[current]) \in 0..Len(Path[current])
      BY <1>1, PathType
    <3>3. Ending[current] = Ending[i]
      BY <1>1, <2>1, <2>3, <3>1, <3>2, SameSite DEF Followed
    <3>. QED
      BY <2>1, <2>3, <3>1, <3>3
  <2>. QED
    BY <1>1, <2>1, <2>2, <2>3 DEF Inv, Trail, Following
<1>7. CASE Choose \/ Conclude
  <2>1. ~ Following'
    BY <1>7, <1>1 DEF Choose, Found, Collect, NoModel, SeenModel, NewSeed, GiveUp, Drop,
                MayPop, Conclude, Following
  <2>. QED
    BY <2>1 DEF Trail
<1>8. CASE UNCHANGED vars
  BY <1>8 DEF vars, run, Inv, Trail, Following, Followed, Owed, Gone
<1>. QED
  BY <1>2, <1>3, <1>4, <1>5, <1>6, <1>7, <1>8 DEF Next, Run, Finished

\* A flip leaves the queue without a new input only if it has none, is on record, or an
\* input that takes it was followed.
LEMMA NextSettled == Inv /\ [Next]_vars => Settled'
<1>. SUFFICES ASSUME Inv, [Next]_vars PROVE Settled'
  OBVIOUS
<1>1. Owed' \subseteq Owed /\ Settled /\ Typed
  BY GoneGrows DEF Inv
<1>2. CASE UNCHANGED <<queue, tried>> /\ seen \subseteq seen'
  BY <1>1, <1>2 DEF Settled
<1>3. CASE Collect
  <2>1. /\ queue' = queue \cup {Entry(c) : c \in Queued} /\ tried' = tried \cup flips
        /\ UNCHANGED seen
    BY <1>3 DEF Collect
  <2>2. ASSUME NEW c \in flips, c \notin tried, NEW i \in Owed \cap Matching(c)
        PROVE  \E flip \in queue' : flip.conditions = c
    <3>1. c \in Seq(Taken) /\ i \in Reaching
      BY <1>1 DEF Typed, Owed
    <3>2. CanReach(c)
      BY <3>1, <2>2, NotDenied
    <3>3. Entry(c) \in queue' /\ Entry(c).conditions = c
      BY <2>1, <2>2, <3>2 DEF Queued, Fresh, Entry
    <3>. QED
      BY <3>3
  <2>. QED
    BY <1>1, <2>1, <2>2 DEF Settled
<1>4. CASE NoModel \/ SeenModel \/ NewSeed
  <2>1. PICK flip \in queue :
           /\ queue' = queue \ {flip} /\ UNCHANGED tried /\ seen \subseteq seen'
           /\ \A i \in Owed' \cap Matching(flip.conditions) :
                 seen' \cap Matching(flip.conditions) # {}
    <3>1. CASE NoModel
      BY <3>1 DEF NoModel, First, Drop, Owed, Gone
    <3>2. CASE SeenModel
      BY <3>2 DEF SeenModel, First, Drop
    <3>3. CASE NewSeed
      BY <3>3 DEF NewSeed, First
    <3>. QED
      BY <1>4, <3>1, <3>2, <3>3
  <2>2. ASSUME NEW c \in tried, NEW i \in Owed' \cap Matching(c)
        PROVE  (\E other \in queue' : other.conditions = c) \/ seen' \cap Matching(c) # {}
    <3>1. (\E other \in queue : other.conditions = c) \/ seen \cap Matching(c) # {}
      BY <1>1, <2>2 DEF Settled
    <3>. QED
      BY <2>1, <2>2, <3>1
  <2>. QED
    BY <2>1, <2>2 DEF Settled
<1>5. CASE Run \/ Found \/ GiveUp \/ Conclude \/ UNCHANGED vars
  <2>1. UNCHANGED <<queue, tried, seen>>
    BY <1>5 DEF Run, Start, OutOfBudget, TooManyVisits, Follow, Finish, Found, GiveUp, Conclude,
                search, vars
  <2>. QED
    BY <1>2, <2>1
<1>. QED
  BY <1>3, <1>4, <1>5 DEF Next, Choose, Finished

\* A run that is over has added its flips to those that were tried.
LEMMA NextTraced == Inv /\ [Next]_vars => Traced'
<1>. SUFFICES ASSUME Inv, [Next]_vars PROVE Traced'
  OBVIOUS
<1>1. Owed' \subseteq Owed /\ Traced /\ Typed
  BY GoneGrows DEF Inv
<1>2. tried \subseteq tried'
  BY DEF Next, Run, Choose, Start, OutOfBudget, TooManyVisits, Follow, Finish, Found, Collect,
         NoModel, SeenModel, NewSeed, Drop, GiveUp, Conclude, Finished, search, vars
<1>3. \A m : LeftFlips(m) => LeftFlips(m)'
  BY <1>1, <1>2 DEF LeftFlips
<1>4. CASE Run
  <2>1. /\ phase \in {"start", "run"} /\ phase' \in {"start", "run", "collect"}
        /\ UNCHANGED <<seen, current>>
    BY <1>4 DEF Run, Start, OutOfBudget, TooManyVisits, Follow, Finish, MoreChoices, EndRun
  <2>2. ~ reached
    BY <1>1, <2>1 DEF Typed
  <2>. QED
    BY <1>1, <1>3, <2>1, <2>2 DEF Traced
<1>5. CASE Collect
  <2>1. /\ phase = "collect" /\ ~ reached /\ phase' = "choose" /\ tried' = tried \cup flips
        /\ UNCHANGED <<seen, current>>
    BY <1>5 DEF Collect
  <2>2. LeftFlips(current)'
    <3>1. ASSUME NEW i \in Owed' PROVE \E c \in flips : i \in Matching(c)
      BY <1>1, <2>1, <3>1 DEF Inv, Trail, Following
    <3>2. \A c \in flips : current \notin Matching(c)
      BY <2>1 DEF Inv, Apart, Following
    <3>. QED
      BY <2>1, <3>1, <3>2 DEF LeftFlips
  <2>. QED
    BY <1>1, <1>3, <2>1, <2>2 DEF Traced
<1>6. CASE NewSeed
  <2>1. phase = "choose" /\ phase' = "start" /\ seen' = seen \cup {current'}
    BY <1>6 DEF NewSeed, MayPop
  <2>2. ~ reached
    BY <1>1, <2>1 DEF Typed
  <2>3. \A m \in seen : LeftFlips(m)
    BY <1>1, <2>1, <2>2 DEF Traced
  <2>. QED
    BY <1>3, <2>1, <2>3 DEF Traced
<1>7. CASE NoModel \/ SeenModel \/ GiveUp \/ Found \/ Conclude \/ UNCHANGED vars
  <2>1. /\ UNCHANGED <<reached, seen, current>>
        /\ reached \/ UNCHANGED phase \/ phase \in {"choose", "verdict"}
    BY <1>7 DEF NoModel, SeenModel, GiveUp, Found, Drop, Conclude, run, vars
  <2>. QED
    BY <1>1, <1>3, <2>1 DEF Traced
<1>. QED
  BY <1>4, <1>5, <1>6, <1>7 DEF Next, Choose, Finished

LEMMA NextClaimed == Inv /\ [Next]_vars => Claimed'
<1>. SUFFICES ASSUME Inv, [Next]_vars PROVE Claimed'
  OBVIOUS
<1>1. CASE Conclude
  <2>1. Verdict' = Verdict
    BY <1>1 DEF Conclude, Verdict, Exhausted, run, search
  <2>. QED
    BY <1>1, <2>1 DEF Conclude, Claimed
<1>2. CASE UNCHANGED vars
  BY <1>2 DEF vars, run, search, Inv, Claimed, Verdict, Exhausted
<1>3. CASE Run \/ Choose
  <2>1. phase # "done" /\ UNCHANGED status
    BY <1>3 DEF Run, Start, OutOfBudget, TooManyVisits, Follow, Finish, MoreChoices, Choose,
                Found, Collect, NoModel, SeenModel, NewSeed, GiveUp, Drop, MayPop
  <2>. QED
    BY <2>1 DEF Inv, Claimed
<1>. QED
  BY <1>1, <1>2, <1>3 DEF Next, Finished

-----------------------------------------------------------------------------
(* The theorems.                                                            *)

LEMMA SearchInv == Spec => []Inv
<1>1. Inv /\ [Next]_vars => Inv'
  BY NextTypeOK, NextTyped, NextApart, NextTrail, NextSettled, NextTraced, NextClaimed DEF Inv
<1>. QED
  BY <1>1, InitInv, PTL DEF Spec

\* The followed input is one that was seen, a run stays on its path, what waits was tried,
\* and the run limit holds.
THEOREM TypeCorrect == Spec => []TypeOK
<1>1. Inv => TypeOK
  BY DEF Inv
<1>. QED
  BY <1>1, SearchInv, PTL

\* Until the search ends, an input that reaches the goal is with the run, behind a flip, or
\* on record: concolic_search queues no flip twice and drops those whose model was seen,
\* and still none that matters is missing.
THEOREM AlwaysFrontier == Spec => []Frontier
<1>1. Inv => Frontier
  <2>. SUFFICES ASSUME Inv, phase \in {"run", "collect", "choose"}, ~ reached, NEW i \in Owed
       PROVE  \/ phase = "run" /\ i \in Matching(Followed)
              \/ phase # "choose" /\ \E c \in flips : i \in Matching(c)
              \/ \E flip \in queue : i \in Matching(flip.conditions)
    BY DEF Frontier, Owed, Gone
  <2>1. CASE phase \in {"run", "collect"}
    BY <2>1 DEF Inv, Trail, Following
  <2>2. CASE phase = "choose"
    <3>1. \A m \in seen : LeftFlips(m)
      BY <2>2 DEF Inv, Traced
    <3>. QED
      BY <3>1, Waits DEF Inv
  <2>. QED
    BY <2>1, <2>2
<1>. QED
  BY <1>1, SearchInv, PTL

\* `unsat` is exhaustive, apart from what a run forgot of its predecessors, a flip the
\* solver gave up on and a run that was cut short (`lost`).
THEOREM AlwaysExhaustive == Spec => []UnsatIsExhaustive
<1>1. Inv => UnsatIsExhaustive
  <2>. SUFFICES ASSUME Inv, status = "unsat", NEW i \in Reaching, i \notin lost
       PROVE  FALSE
    BY DEF UnsatIsExhaustive
  <2>1. phase = "done" /\ "unsat" \in Verdict
    BY DEF Inv, Claimed
  <2>2. ~ reached /\ queue = {} /\ incomplete = {}
    BY <2>1 DEF Verdict, Exhausted
  <2>3. \A m \in seen : LeftFlips(m)
    BY <2>1, <2>2 DEF Inv, Traced
  <2>4. i \in Owed
    BY <2>2 DEF Owed, Gone
  <2>. QED
    BY <2>2, <2>3, <2>4, Waits DEF Inv
<1>. QED
  BY <1>1, SearchInv, PTL
=============================================================================
