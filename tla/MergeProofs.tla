------------------------------ MODULE MergeProofs ------------------------------
(***************************************************************************)
(* Proofs that merging neither loses an input nor holds it twice, and that *)
(* a merged state is each of its paths, for any functions, inputs and      *)
(* solver, one that gives up as it likes among them.                       *)
(*                                                                         *)
(* OneStateEach is not inductive by itself: it does not see where a state  *)
(* is held.  The invariant says that each input is held in one place of    *)
(* one part of the search (Divided, TidyStack), and what _merge relies on  *)
(* when it takes the conditions after the first `shared` of each path for  *)
(* its selector: all that a region call holds, and the calls inside it,    *)
(* begins with the very conditions met before its branch (Common).  For    *)
(* NoGhosts, that what stands outside of every region was found possible   *)
(* by the solver (Possibly).                                               *)
(*                                                                         *)
(* EndsAsRun is about what a state says of its inputs.  A state is held to *)
(* follow the own run of each input in it (Held): the run reaches the same *)
(* operation, with the same memory and I/O and, of the values, the same    *)
(* ones as far as they are still needed there (Needed), for a merge keeps  *)
(* no others and what is dead may be left over from another path.          *)
(*                                                                         *)
(* The parts of a frame are sequences of records whose data is of no set   *)
(* the modules name, so the sequence lemmas are about IsSeq.               *)
(***************************************************************************)
EXTENDS Merge, FiniteSetTheorems, SequenceTheorems, WellFoundedInduction, TLAPS

\* A set of numbers that is not empty has a least one.
LEMMA Least ==
    ASSUME NEW T, T \subseteq Nat, T # {}
    PROVE  \E x \in T : \A y \in T : x <= y
<1> DEFINE R == {p \in Nat \X Nat : p[1] < p[2]}
<1>1. IsWellFoundedOn(R, Nat)
  BY NatLessThanWellFounded DEF OpToRel
<1>2. \E x \in T : \A y \in T : <<y, x>> \notin R
  <2> HIDE DEF R
  <2> QED BY <1>1, WFMin
<1>3. \A x, y \in T : <<y, x>> \notin R => x <= y
  OBVIOUS
<1> QED BY <1>2, <1>3

-----------------------------------------------------------------------------
(* Sequences, of whatever there is no set of.                               *)

IsSeq(q) == q \in Seq(ToSet(q))

LEMMA SeqIs ==
    ASSUME NEW T, NEW q \in Seq(T)
    PROVE  IsSeq(q) /\ \A x \in ToSet(q) : x \in T
<1>1. PICK n \in Nat : q \in [1..n -> T] /\ n = Len(q)
  BY LenProperties
<1>2. ToSet(q) = {q[k] : k \in 1..n}
  BY <1>1 DEF ToSet
<1>3. q \in [1..n -> ToSet(q)]
  BY <1>1, <1>2
<1>4. q \in Seq(ToSet(q))
  BY <1>3, SeqDef
<1> QED BY <1>1, <1>2, <1>4 DEF IsSeq

LEMMA SeqLen ==
    ASSUME NEW q, IsSeq(q)
    PROVE  /\ Len(q) \in Nat /\ DOMAIN q = 1..Len(q)
           /\ \A k \in 1..Len(q) : q[k] \in ToSet(q)
           /\ \A x \in ToSet(q) : \E k \in 1..Len(q) : x = q[k]
           /\ q = <<>> <=> Len(q) = 0
<1>1. q \in Seq(ToSet(q))
  BY DEF IsSeq
<1>2. Len(q) \in Nat /\ DOMAIN q = 1..Len(q)
  BY <1>1, LenProperties
<1>3. \A x \in ToSet(q) : \E k \in 1..Len(q) : x = q[k]
  BY <1>2 DEF ToSet
<1>4. \A k \in 1..Len(q) : q[k] \in ToSet(q)
  BY <1>2 DEF ToSet
<1>5. q = <<>> <=> Len(q) = 0
  BY <1>1, EmptySeq
<1> QED BY <1>2, <1>3, <1>4, <1>5

LEMMA SeqAppend ==
    ASSUME NEW q, IsSeq(q), NEW x
    PROVE  /\ IsSeq(Append(q, x)) /\ Len(Append(q, x)) = Len(q) + 1
           /\ \A k \in 1..Len(q) : Append(q, x)[k] = q[k]
           /\ Append(q, x)[Len(q) + 1] = x
           /\ Append(q, x) # <<>> /\ Last(Append(q, x)) = x
<1> DEFINE T == ToSet(q) \cup {x}
<1>1. q \in Seq(T) /\ x \in T
  <2>1. q \in Seq(ToSet(q)) /\ ToSet(q) \subseteq T
    BY DEF IsSeq
  <2> QED BY <2>1, SeqMonotonic
<1> HIDE DEF T
<1>2. /\ Append(q, x) \in Seq(T) /\ Len(Append(q, x)) = Len(q) + 1
      /\ \A k \in 1..Len(q) : Append(q, x)[k] = q[k]
      /\ Append(q, x)[Len(q) + 1] = x /\ Append(q, x) # <<>>
  BY <1>1, AppendProperties
<1>3. Last(Append(q, x)) = x
  BY <1>2 DEF Last
<1> QED BY <1>2, <1>3, SeqIs

LEMMA SeqConcat ==
    ASSUME NEW q, IsSeq(q), NEW r, IsSeq(r)
    PROVE  /\ IsSeq(q \o r) /\ Len(q \o r) = Len(q) + Len(r)
           /\ \A k \in 1..Len(q) : (q \o r)[k] = q[k]
           /\ \A k \in 1..Len(r) : (q \o r)[Len(q) + k] = r[k]
           /\ \A k \in 1..Len(q \o r) : k \in 1..Len(q) \/ \E j \in 1..Len(r) : k = Len(q) + j
<1> DEFINE T == ToSet(q) \cup ToSet(r)
<1>1. q \in Seq(T) /\ r \in Seq(T)
  <2>1. q \in Seq(ToSet(q)) /\ r \in Seq(ToSet(r)) /\ ToSet(q) \subseteq T /\ ToSet(r) \subseteq T
    BY DEF IsSeq
  <2> QED BY <2>1, SeqMonotonic
<1> HIDE DEF T
<1>2. PICK m \in Nat, n \in Nat : m = Len(q) /\ n = Len(r)
  BY <1>1, LenProperties
<1>3. /\ q \o r \in Seq(T) /\ Len(q \o r) = m + n
      /\ \A k \in 1..(m + n) : (q \o r)[k] = IF k <= m THEN q[k] ELSE r[k - m]
  BY <1>1, <1>2, ConcatProperties
<1>4. \A k \in 1..m : (q \o r)[k] = q[k]
  BY <1>3
<1>5. ASSUME NEW k \in 1..n PROVE (q \o r)[m + k] = r[k]
  <2>1. m + k \in 1..(m + n) /\ ~(m + k <= m) /\ (m + k) - m = k
    OBVIOUS
  <2> QED BY <1>3, <2>1
<1>6. ASSUME NEW k \in 1..(m + n) PROVE k \in 1..m \/ \E j \in 1..n : k = m + j
  <2>1. k \in 1..m \/ (k - m \in 1..n /\ k = m + (k - m))
    OBVIOUS
  <2> QED BY <2>1
<1> QED BY <1>2, <1>3, <1>4, <1>5, <1>6, SeqIs

LEMMA SeqFront ==
    ASSUME NEW q, IsSeq(q), q # <<>>
    PROVE  /\ IsSeq(Front(q)) /\ Len(Front(q)) = Len(q) - 1 /\ Len(q) \in Nat \ {0}
           /\ \A k \in 1..(Len(q) - 1) : Front(q)[k] = q[k]
           /\ Last(q) = q[Len(q)]
<1>1. PICK T : q \in Seq(T)
  BY DEF IsSeq
<1>2. PICK n \in Nat \ {0} : n = Len(q)
  BY <1>1, EmptySeq
<1>3. \A k \in 1..(n - 1) : q[k] \in T
  <2> SUFFICES ASSUME NEW k \in 1..(n - 1) PROVE q[k] \in T
    OBVIOUS
  <2>1. k \in 1..Len(q)
    BY <1>2
  <2> QED BY <1>1, <2>1, ElementOfSeq
<1>4. /\ SubSeq(q, 1, n - 1) \in Seq(T)
      /\ Len(SubSeq(q, 1, n - 1)) = IF 1 <= n - 1 THEN (n - 1) - 1 + 1 ELSE 0
      /\ \A k \in 1..((n - 1) - 1 + 1) : SubSeq(q, 1, n - 1)[k] = q[(1 + k) - 1]
  BY <1>3, SubSeqProperties
<1>5. Len(SubSeq(q, 1, n - 1)) = n - 1 /\ \A k \in 1..(n - 1) : SubSeq(q, 1, n - 1)[k] = q[k]
  BY <1>4
<1>6. Front(q) = SubSeq(q, 1, n - 1)
  BY <1>2 DEF Front
<1>7. IsSeq(SubSeq(q, 1, n - 1))
  BY <1>4, SeqIs
<1> QED BY <1>2, <1>5, <1>6, <1>7 DEF Last

LEMMA SeqEmpty == IsSeq(<<>>) /\ Len(<<>>) = 0 /\ ToSet(<<>>) = {}
<1>1. <<>> \in Seq({}) /\ Len(<<>>) = 0
  BY EmptySeq
<1>2. IsSeq(<<>>)
  BY <1>1, SeqIs
<1>3. \A x \in ToSet(<<>>) : \E k \in 1..Len(<<>>) : x = <<>>[k]
  BY <1>2, SeqLen
<1>4. 1..0 = {}
  OBVIOUS
<1> QED BY <1>1, <1>2, <1>3, <1>4

LEMMA SeqOfTwo ==
    ASSUME NEW x, NEW y
    PROVE  /\ IsSeq(<<x, y>>) /\ Len(<<x, y>>) = 2 /\ <<x, y>>[1] = x /\ <<x, y>>[2] = y
           /\ IsSeq(<<x>>) /\ Len(<<x>>) = 1 /\ <<x>>[1] = x
<1>1. <<x, y>> \in Seq({x, y}) /\ <<x>> \in Seq({x})
  OBVIOUS
<1> QED BY <1>1, SeqIs

-----------------------------------------------------------------------------
(* Kept.                                                                    *)

\* The recursion of Kept, up to n.
Upto(seq, places, n, f) ==
    f = [m \in 0..n |-> IF m = 0 THEN <<>>
                        ELSE IF m \in places THEN Append(f[m - 1], seq[m]) ELSE f[m - 1]]

LEMMA UptoExists ==
    ASSUME NEW seq, NEW places, NEW n \in Nat
    PROVE  \E f : Upto(seq, places, n, f)
<1> DEFINE Bad == {m \in Nat : ~ \E f : Upto(seq, places, m, f)}
<1>1. SUFFICES ASSUME Bad # {} PROVE FALSE
  OBVIOUS
<1>2. PICK m \in Bad : \A k \in Bad : m <= k
  <2> HIDE DEF Bad
  <2>1. Bad \subseteq Nat
    BY DEF Bad
  <2> QED BY <1>1, <2>1, Least
<1>3. m \in Nat
  OBVIOUS
<1>4. CASE m = 0
  <2> DEFINE f == [k \in 0..0 |-> <<>>]
  <2>1. Upto(seq, places, 0, f)
    BY DEF Upto
  <2> QED BY <1>4, <2>1
<1>5. CASE m # 0
  <2>1. m - 1 \in Nat /\ m - 1 \notin Bad
    BY <1>2, <1>3, <1>5
  <2>2. PICK f : Upto(seq, places, m - 1, f)
    BY <2>1
  <2> DEFINE g == [k \in 0..m |->
                      IF k < m THEN f[k]
                      ELSE IF k \in places THEN Append(f[k - 1], seq[k]) ELSE f[k - 1]]
  <2>3. \A k \in 0..m : g[k] = IF k = 0 THEN <<>>
                               ELSE IF k \in places THEN Append(g[k - 1], seq[k]) ELSE g[k - 1]
    <3>1. \A k \in 0..(m - 1) : f[k] = IF k = 0 THEN <<>>
                               ELSE IF k \in places THEN Append(f[k - 1], seq[k]) ELSE f[k - 1]
      BY <2>2 DEF Upto
    <3> QED BY <3>1, <1>3, <1>5
  <2>4. Upto(seq, places, m, g)
    BY <2>3 DEF Upto
  <2> QED BY <2>4
<1> QED BY <1>4, <1>5

\* Where the elements kept so far come from.
Picks(seq, places, n, q, h) ==
    /\ IsSeq(q) /\ h \in [1..Len(q) -> places \cap 1..n]
    /\ \A j \in 1..Len(q) : q[j] = seq[h[j]]
    /\ \A j, k \in 1..Len(q) : j < k => h[j] < h[k]
    /\ \A p \in places \cap 1..n : \E j \in 1..Len(q) : h[j] = p

LEMMA UptoPicks ==
    ASSUME NEW seq, NEW places, NEW n \in Nat, NEW f, Upto(seq, places, n, f)
    PROVE  \A m \in 0..n : \E h : Picks(seq, places, m, f[m], h)
<1> DEFINE Bad == {m \in 0..n : ~ \E h : Picks(seq, places, m, f[m], h)}
<1>1. SUFFICES ASSUME Bad # {} PROVE FALSE
  OBVIOUS
<1>2. PICK m \in Bad : \A k \in Bad : m <= k
  <2> HIDE DEF Bad
  <2>1. Bad \subseteq Nat
    BY DEF Bad
  <2> QED BY <1>1, <2>1, Least
<1>3. m \in 0..n /\ m \in Nat
  OBVIOUS
<1>0. \A k \in 0..n : f[k] = IF k = 0 THEN <<>>
                             ELSE IF k \in places THEN Append(f[k - 1], seq[k]) ELSE f[k - 1]
  BY DEF Upto
<1>4. CASE m = 0
  <2>1. f[m] = <<>>
    BY <1>0, <1>3, <1>4
  <2>2. Picks(seq, places, m, <<>>, <<>>)
    BY <1>4, SeqEmpty DEF Picks
  <2> QED BY <2>1, <2>2
<1>5. CASE m # 0
  <2>1. m - 1 \in 0..n /\ m - 1 \notin Bad
    BY <1>2, <1>3, <1>5
  <2>2. PICK h : Picks(seq, places, m - 1, f[m - 1], h)
    BY <2>1
  <2> DEFINE q == f[m - 1]
  <2>3. IsSeq(q) /\ Len(q) \in Nat
    BY <2>2, SeqLen DEF Picks
  <2>4. CASE m \in places
    <3>1. f[m] = Append(q, seq[m])
      BY <1>0, <1>3, <1>5, <2>4
    <3>0. PICK g : g = [j \in 1..(Len(q) + 1) |-> IF j = Len(q) + 1 THEN m ELSE h[j]]
      OBVIOUS
    <3>2. \A j \in 1..Len(q) : h[j] \in places /\ h[j] \in 1..(m - 1)
      BY <2>2 DEF Picks
    <3>3. g \in [1..Len(f[m]) -> places \cap 1..m]
      BY <3>0, <3>1, <3>2, <2>3, <2>4, <1>3, <1>5, SeqAppend
    <3>4. /\ \A j \in 1..Len(f[m]) : f[m][j] = seq[g[j]]
          /\ \A j, k \in 1..Len(f[m]) : j < k => g[j] < g[k]
      <4>1. /\ Len(f[m]) = Len(q) + 1 /\ f[m][Len(q) + 1] = seq[m]
            /\ \A j \in 1..Len(q) : f[m][j] = q[j]
        BY <3>1, <2>3, SeqAppend
      <4>2. g[Len(q) + 1] = m /\ \A j \in 1..Len(q) : g[j] = h[j] /\ g[j] \in 1..(m - 1)
        <5>1. \A j \in 1..Len(q) : j \in 1..(Len(q) + 1) /\ j # Len(q) + 1
          BY <2>3
        <5>2. Len(q) + 1 \in 1..(Len(q) + 1)
          BY <2>3
        <5> QED BY <3>0, <3>2, <5>1, <5>2
      <4>3. \A j \in 1..(Len(q) + 1) : j \in 1..Len(q) \/ j = Len(q) + 1
        BY <2>3
      <4>4. \A j \in 1..Len(q) : q[j] = seq[h[j]]
        BY <2>2 DEF Picks
      <4>5. \A j, k \in 1..Len(q) : j < k => h[j] < h[k]
        BY <2>2 DEF Picks
      <4>6. \A j \in 1..(Len(q) + 1) : f[m][j] = seq[g[j]]
        BY <4>1, <4>2, <4>3, <4>4
      <4>7. ASSUME NEW j \in 1..(Len(q) + 1), NEW k \in 1..(Len(q) + 1), j < k PROVE g[j] < g[k]
        <5>1. j \in 1..Len(q)
          BY <2>3, <4>7
        <5>2. CASE k \in 1..Len(q)
          BY <4>2, <4>5, <4>7, <5>1, <5>2
        <5>3. CASE k = Len(q) + 1
          <6>1. g[j] \in 1..(m - 1) /\ g[k] = m
            BY <4>2, <5>1, <5>3
          <6> QED BY <1>3, <6>1
        <5> QED BY <4>3, <5>2, <5>3
      <4> QED BY <4>1, <4>6, <4>7
    <3>5. \A p \in places \cap 1..m : \E j \in 1..Len(f[m]) : g[j] = p
      <4> SUFFICES ASSUME NEW p \in places \cap 1..m PROVE \E j \in 1..Len(f[m]) : g[j] = p
        OBVIOUS
      <4>0. Len(f[m]) = Len(q) + 1
        BY <3>1, <2>3, SeqAppend
      <4>1. CASE p = m
        <5>1. Len(q) + 1 \in 1..(Len(q) + 1)
          BY <2>3
        <5> QED BY <3>0, <4>0, <4>1, <5>1
      <4>2. CASE p # m
        <5>1. p \in places \cap 1..(m - 1)
          BY <4>2, <1>3
        <5>2. PICK j \in 1..Len(q) : h[j] = p
          BY <5>1, <2>2 DEF Picks
        <5>3. j \in 1..(Len(q) + 1) /\ j # Len(q) + 1
          BY <2>3, <5>2
        <5> QED BY <3>0, <4>0, <5>2, <5>3
      <4> QED BY <4>1, <4>2
    <3>6. IsSeq(f[m])
      BY <3>1, <2>3, SeqAppend
    <3>7. Picks(seq, places, m, f[m], g)
      BY <3>3, <3>4, <3>5, <3>6 DEF Picks
    <3> QED BY <3>7
  <2>5. CASE m \notin places
    <3>1. f[m] = q
      BY <1>0, <1>3, <1>5, <2>5
    <3>2. places \cap 1..m = places \cap 1..(m - 1)
      BY <2>5, <1>3
    <3>3. Picks(seq, places, m, f[m], h)
      BY <2>2, <3>1, <3>2 DEF Picks
    <3> QED BY <3>3
  <2> QED BY <2>4, <2>5
<1> QED BY <1>4, <1>5

\* What is kept are the elements at those places, each once and in their order.
LEMMA KeptPicks ==
    ASSUME NEW seq, IsSeq(seq), NEW places \in SUBSET DOMAIN seq
    PROVE  \E h : Picks(seq, places, Len(seq), Kept(seq, places), h)
<1>1. PICK n \in Nat : n = Len(seq)
  BY SeqLen
<1> DEFINE Rec(f) == f = [m \in 0..n |-> IF m = 0 THEN <<>>
                        ELSE IF m \in places THEN Append(f[m - 1], seq[m]) ELSE f[m - 1]]
<1>2. \A f : Upto(seq, places, n, f) <=> Rec(f)
  BY DEF Upto
<1>3. PICK f : Rec(f)
  <2>1. \E f : Upto(seq, places, n, f)
    BY UptoExists
  <2> QED BY <1>2, <2>1
<1>4. PICK upto : upto = CHOOSE g : Rec(g)
  OBVIOUS
<1>5. Kept(seq, places) = upto[n]
  BY <1>1, <1>4 DEF Kept
<1>6. Rec(upto)
  <2> HIDE DEF Rec
  <2> QED BY <1>3, <1>4
<1>7. Upto(seq, places, n, upto)
  BY <1>2, <1>6
<1>8. \E h : Picks(seq, places, n, upto[n], h)
  <2>1. n \in 0..n
    OBVIOUS
  <2> QED BY <1>7, <2>1, UptoPicks
<1> QED BY <1>1, <1>5, <1>8

-----------------------------------------------------------------------------
(* The inductive invariant.                                                 *)

IsState(s) ==
    /\ s = [block |-> s.block, position |-> s.position, data |-> s.data, path |-> s.path,
            visits |-> s.visits]
    /\ s.path \in Seq(SUBSET Inputs)
IsStop(e) == e = [how |-> e.how, state |-> e.state] /\ IsState(e.state)

AreStates(q) == IsSeq(q) /\ \A j \in 1..Len(q) : IsState(q[j])
AreStops(q) == IsSeq(q) /\ \A j \in 1..Len(q) : IsStop(q[j])
IsFrame(f) ==
    /\ f = [region |-> f.region, shared |-> f.shared, todo |-> f.todo, arrived |-> f.arrived,
            escaped |-> f.escaped, stopped |-> f.stopped]
    /\ AreStates(f.todo) /\ AreStates(f.arrived) /\ AreStates(f.escaped) /\ AreStops(f.stopped)
    /\ f.shared \in Nat

\* What is held is made of states and stopped paths.
Shape ==
    /\ run = NoState \/ (IsState(run) /\ stack = <<>>)
    /\ \A s \in pending : IsState(s)
    /\ \A e \in ended : IsStop(e)

\* All that a region call holds, and all that the calls inside it hold, has met the conditions
\* that were met before its branch.
Begins(s, p) == Len(p) <= Len(s.path) /\ \A j \in 1..Len(p) : s.path[j] = p[j]
FrameBegins(f, p) == Len(p) <= f.shared /\ \A s \in Suspended(f) : Begins(s, p)
Common(S) ==
    \A k \in 1..Len(S) :
        \E p \in Seq(SUBSET Inputs) :
            Len(p) = S[k].shared /\ \A l \in k..Len(S) : FrameBegins(S[l], p)

\* The inputs of a state, or of a path that stopped.
Of(x) == IF DOMAIN x = {"how", "state"} THEN Cond(x.state) ELSE Cond(x)

\* The inputs a part of the search holds, each of them once.
Span(q) == UNION {Of(q[j]) : j \in 1..Len(q)}
Separate(q) == \A j, k \in 1..Len(q) : j # k => Of(q[j]) \cap Of(q[k]) = {}
Among(P) == UNION {Of(x) : x \in P}
Distinct(P) == \A x, y \in P : x # y => Of(x) \cap Of(y) = {}

Covers(f) == Span(f.todo) \cup Span(f.arrived) \cup Span(f.escaped) \cup Span(f.stopped)
Tidy(f) ==
    /\ Separate(f.todo) /\ Separate(f.arrived) /\ Separate(f.escaped) /\ Separate(f.stopped)
    /\ Span(f.todo) \cap Span(f.arrived) = {} /\ Span(f.todo) \cap Span(f.escaped) = {}
    /\ Span(f.todo) \cap Span(f.stopped) = {} /\ Span(f.arrived) \cap Span(f.escaped) = {}
    /\ Span(f.arrived) \cap Span(f.stopped) = {} /\ Span(f.escaped) \cap Span(f.stopped) = {}

Running == IF run = NoState THEN {} ELSE Of(run)
Outside == Among(pending) \cup Running \cup Among(ended)
TidyOutside ==
    /\ Distinct(pending) /\ Distinct(ended)
    /\ Among(pending) \cap Running = {} /\ Among(pending) \cap Among(ended) = {}
    /\ Running \cap Among(ended) = {}

InStack(S) == UNION {Covers(S[k]) : k \in 1..Len(S)}
TidyStack(S) ==
    /\ \A k \in 1..Len(S) : Tidy(S[k])
    /\ \A k, l \in 1..Len(S) : k # l => Covers(S[k]) \cap Covers(S[l]) = {}

StackOK(S) == IsSeq(S) /\ (\A k \in 1..Len(S) : IsFrame(S[k])) /\ Common(S) /\ TidyStack(S)

\* Each input is held once.
Divided ==
    /\ TidyOutside
    /\ Outside \cap InStack(stack) = {} /\ Outside \cup InStack(stack) = Inputs

\* What is outside of every region can happen, as far as the solver can tell.
Possibly ==
    /\ hard \in Undecidable
    /\ {} \notin hard => /\ \A s \in pending : Of(s) # {}
                         /\ \A e \in ended : Of(e) # {}
                         /\ run # NoState => Of(run) # {}

MergeInv == Shape /\ StackOK(stack) /\ Divided /\ Possibly

-----------------------------------------------------------------------------
(* Parts of the search.                                                     *)

LEMMA StateIs ==
    ASSUME NEW s, IsState(s)
    PROVE  /\ s # NoState /\ Of(s) = Cond(s) /\ Cond(s) \subseteq Inputs
           /\ Len(s.path) \in Nat /\ DOMAIN s.path = 1..Len(s.path)
           /\ \A j \in 1..Len(s.path) : s.path[j] \subseteq Inputs
<1>1. s = [block |-> s.block, position |-> s.position, data |-> s.data, path |-> s.path,
           visits |-> s.visits]
  BY DEF IsState
<1>2. DOMAIN s = {"block", "position", "data", "path", "visits"}
  BY <1>1
<1>3. DOMAIN NoState = {"block"}
  BY DEF NoState
<1>4. s # NoState /\ DOMAIN s # {"how", "state"}
  BY <1>2, <1>3
<1>5. s.path \in Seq(SUBSET Inputs)
  BY DEF IsState
<1> QED BY <1>4, <1>5 DEF Of, Cond, Conjunction

LEMMA StopIs ==
    ASSUME NEW e, IsStop(e)
    PROVE  Of(e) = Cond(e.state) /\ IsState(e.state) /\ Of(e) = Of(e.state)
<1>1. DOMAIN e = {"how", "state"}
  <2>1. e = [how |-> e.how, state |-> e.state]
    BY DEF IsStop
  <2> QED BY <2>1
<1>2. IsState(e.state)
  BY DEF IsStop
<1> QED BY <1>1, <1>2, StateIs DEF Of

LEMMA Spans ==
    ASSUME NEW q, NEW j \in 1..Len(q)
    PROVE  Of(q[j]) \subseteq Span(q)
BY DEF Span

LEMMA SpanEmpty == Span(<<>>) = {} /\ Separate(<<>>)
<1>1. Len(<<>>) = 0 /\ 1..0 = {}
  BY SeqEmpty
<1> QED BY <1>1 DEF Span, Separate

LEMMA SpanFront ==
    ASSUME NEW q, IsSeq(q), q # <<>>, Separate(q)
    PROVE  /\ Span(q) = Span(Front(q)) \cup Of(Last(q)) /\ Separate(Front(q))
           /\ Span(Front(q)) \cap Of(Last(q)) = {}
<1>1. PICK n \in Nat \ {0} : /\ n = Len(q) /\ Len(Front(q)) = n - 1 /\ Last(q) = q[n]
                             /\ \A k \in 1..(n - 1) : Front(q)[k] = q[k]
  BY SeqFront
<1>2. 1..n = 1..(n - 1) \cup {n} /\ n \in 1..n /\ \A k \in 1..(n - 1) : k # n /\ k \in 1..n
  BY <1>1
<1>3. Span(q) = Span(Front(q)) \cup Of(Last(q))
  BY <1>1, <1>2 DEF Span
<1>4. Separate(Front(q))
  BY <1>1, <1>2 DEF Separate
<1>5. \A k \in 1..(n - 1) : Of(q[k]) \cap Of(q[n]) = {}
  BY <1>1, <1>2 DEF Separate
<1>6. Span(Front(q)) \cap Of(Last(q)) = {}
  BY <1>1, <1>5 DEF Span
<1> QED BY <1>3, <1>4, <1>6

LEMMA SpanConcat ==
    ASSUME NEW q, IsSeq(q), NEW r, IsSeq(r)
    PROVE  /\ Span(q \o r) = Span(q) \cup Span(r)
           /\ Separate(q) /\ Separate(r) /\ Span(q) \cap Span(r) = {} => Separate(q \o r)
<1>1. PICK m \in Nat, n \in Nat : m = Len(q) /\ n = Len(r)
  BY SeqLen
<1>2. PICK t : t = q \o r
  OBVIOUS
<1>3. /\ Len(t) = m + n /\ \A k \in 1..m : t[k] = q[k]
      /\ \A k \in 1..n : t[m + k] = r[k]
      /\ \A k \in 1..(m + n) : k \in 1..m \/ \E j \in 1..n : k = m + j
  BY <1>1, <1>2, SeqConcat
<1>4. \A k \in 1..m : k \in 1..(m + n)
  OBVIOUS
<1>5. \A k \in 1..n : m + k \in 1..(m + n)
  OBVIOUS
<1>6. Span(t) = Span(q) \cup Span(r)
  <2>1. ASSUME NEW i \in Span(t) PROVE i \in Span(q) \cup Span(r)
    <3>1. PICK k \in 1..(m + n) : i \in Of(t[k])
      BY <1>3 DEF Span
    <3>2. CASE k \in 1..m
      BY <1>1, <1>3, <3>1, <3>2 DEF Span
    <3>3. CASE \E j \in 1..n : k = m + j
      BY <1>1, <1>3, <3>1, <3>3 DEF Span
    <3> QED BY <1>3, <3>2, <3>3
  <2>2. ASSUME NEW i \in Span(q) PROVE i \in Span(t)
    BY <1>1, <1>3, <1>4 DEF Span
  <2>3. ASSUME NEW i \in Span(r) PROVE i \in Span(t)
    <3>1. PICK k \in 1..n : i \in Of(r[k])
      BY <1>1 DEF Span
    <3>2. i \in Of(t[m + k]) /\ m + k \in 1..Len(t)
      BY <1>3, <1>5, <3>1
    <3> QED BY <3>2 DEF Span
  <2> QED BY <2>1, <2>2, <2>3
<1>7. ASSUME Separate(q), Separate(r), Span(q) \cap Span(r) = {} PROVE Separate(t)
  <2> SUFFICES ASSUME NEW j \in 1..(m + n), NEW k \in 1..(m + n), j # k
               PROVE  Of(t[j]) \cap Of(t[k]) = {}
    BY <1>3 DEF Separate
  <2>1. CASE j \in 1..m /\ k \in 1..m
    BY <1>1, <1>3, <1>7, <2>1 DEF Separate
  <2>2. CASE j \in 1..m /\ \E l \in 1..n : k = m + l
    <3>1. Of(t[j]) \subseteq Span(q) /\ Of(t[k]) \subseteq Span(r)
      BY <1>1, <1>3, <2>2, Spans
    <3> QED BY <1>7, <3>1
  <2>3. CASE k \in 1..m /\ \E l \in 1..n : j = m + l
    <3>1. Of(t[k]) \subseteq Span(q) /\ Of(t[j]) \subseteq Span(r)
      BY <1>1, <1>3, <2>3, Spans
    <3> QED BY <1>7, <3>1
  <2>4. CASE (\E l \in 1..n : j = m + l) /\ \E l \in 1..n : k = m + l
    <3>1. PICK a \in 1..n, b \in 1..n : j = m + a /\ k = m + b
      BY <2>4
    <3>2. a # b /\ t[j] = r[a] /\ t[k] = r[b]
      BY <1>3, <3>1
    <3> QED BY <1>1, <1>7, <3>2 DEF Separate
  <2> QED BY <1>3, <2>1, <2>2, <2>3, <2>4
<1> QED BY <1>2, <1>6, <1>7

LEMMA SpanTwo ==
    ASSUME NEW x, NEW y
    PROVE  /\ Span(<<x, y>>) = Of(x) \cup Of(y)
           /\ Of(x) \cap Of(y) = {} => Separate(<<x, y>>)
           /\ Span(<<x>>) = Of(x) /\ Separate(<<x>>)
<1>1. 1..2 = {1, 2} /\ 1..1 = {1}
  OBVIOUS
<1> QED BY <1>1, SeqOfTwo DEF Span, Separate

\* Those that are left out hold nothing.
LEMMA SpanKept ==
    ASSUME NEW q, IsSeq(q), NEW places \in SUBSET DOMAIN q,
           \A j \in 1..Len(q) : j \notin places => Of(q[j]) = {}
    PROVE  Span(Kept(q, places)) = Span(q)
<1>1. PICK h : Picks(q, places, Len(q), Kept(q, places), h)
  BY KeptPicks
<1> DEFINE r == Kept(q, places)
<1>2. /\ \A j \in 1..Len(r) : r[j] = q[h[j]] /\ h[j] \in 1..Len(q)
      /\ \A p \in places \cap 1..Len(q) : \E j \in 1..Len(r) : h[j] = p
  BY <1>1 DEF Picks
<1> HIDE DEF r
<1>3. Span(r) \subseteq Span(q)
  BY <1>2 DEF Span
<1>4. Span(q) \subseteq Span(r)
  <2> SUFFICES ASSUME NEW p \in 1..Len(q), NEW i \in Of(q[p]) PROVE i \in Span(r)
    BY DEF Span
  <2>1. p \in places
    OBVIOUS
  <2>2. PICK j \in 1..Len(r) : h[j] = p
    BY <1>2, <2>1
  <2>3. r[j] = q[p]
    BY <1>2, <2>2
  <2> QED BY <2>3 DEF Span
<1> QED BY <1>3, <1>4 DEF r

LEMMA KeptSeparate ==
    ASSUME NEW q, IsSeq(q), NEW places \in SUBSET DOMAIN q
    PROVE  /\ IsSeq(Kept(q, places)) /\ (Separate(q) => Separate(Kept(q, places)))
           /\ \A j \in 1..Len(Kept(q, places)) :
                 \E k \in places : k \in 1..Len(q) /\ Kept(q, places)[j] = q[k]
<1>1. PICK h : Picks(q, places, Len(q), Kept(q, places), h)
  BY KeptPicks
<1> DEFINE r == Kept(q, places)
<1>2. /\ IsSeq(r) /\ \A j \in 1..Len(r) : r[j] = q[h[j]] /\ h[j] \in places /\ h[j] \in 1..Len(q)
      /\ \A j, k \in 1..Len(r) : j < k => h[j] < h[k]
  BY <1>1 DEF Picks
<1> HIDE DEF r
<1>3. ASSUME NEW j \in 1..Len(r), NEW k \in 1..Len(r), j # k PROVE h[j] # h[k]
  <2>1. Len(r) \in Nat /\ Len(q) \in Nat
    BY <1>2, SeqLen
  <2>2. j < k \/ k < j
    BY <1>3, <2>1
  <2> QED BY <1>2, <2>1, <2>2
<1>4. ASSUME Separate(q) PROVE Separate(r)
  <2> SUFFICES ASSUME NEW j \in 1..Len(r), NEW k \in 1..Len(r), j # k
               PROVE  Of(r[j]) \cap Of(r[k]) = {}
    BY DEF Separate
  <2>1. r[j] = q[h[j]] /\ r[k] = q[h[k]] /\ h[j] \in 1..Len(q) /\ h[k] \in 1..Len(q)
    BY <1>2
  <2>2. h[j] # h[k]
    BY <1>3
  <2>3. Of(q[h[j]]) \cap Of(q[h[k]]) = {}
    BY <1>4, <2>1, <2>2 DEF Separate
  <2> QED BY <2>1, <2>3
<1>5. \A j \in 1..Len(r) : \E k \in places : k \in 1..Len(q) /\ r[j] = q[k]
  BY <1>2
<1> QED BY <1>2, <1>4, <1>5 DEF r

\* What Kept keeps are entries of the places named.
DrawnFrom(q, places) ==
    /\ IsSeq(Kept(q, places))
    /\ \A j \in 1..Len(Kept(q, places)) :
          \E k \in places : k \in 1..Len(q) /\ Kept(q, places)[j] = q[k]

LEMMA KeptDrawn ==
    ASSUME NEW q, NEW places, IsSeq(q), places \in SUBSET DOMAIN q
    PROVE  DrawnFrom(q, places)
BY KeptSeparate DEF DrawnFrom

LEMMA AmongSeq ==
    ASSUME NEW q, IsSeq(q)
    PROVE  Among(ToSet(q)) = Span(q) /\ (Separate(q) => Distinct(ToSet(q)))
<1>1. /\ \A k \in 1..Len(q) : q[k] \in ToSet(q)
      /\ \A x \in ToSet(q) : \E k \in 1..Len(q) : x = q[k]
  BY SeqLen
<1>2. Among(ToSet(q)) = Span(q)
  BY <1>1 DEF Among, Span
<1>3. Separate(q) => Distinct(ToSet(q))
  BY <1>1 DEF Separate, Distinct
<1> QED BY <1>2, <1>3

LEMMA AmongBoth ==
    ASSUME NEW P, NEW Q
    PROVE  /\ Among(P \cup Q) = Among(P) \cup Among(Q)
           /\ Distinct(P) /\ Distinct(Q) /\ Among(P) \cap Among(Q) = {} => Distinct(P \cup Q)
<1>1. Among(P \cup Q) = Among(P) \cup Among(Q)
  BY DEF Among
<1>2. ASSUME Distinct(P), Distinct(Q), Among(P) \cap Among(Q) = {} PROVE Distinct(P \cup Q)
  <2> SUFFICES ASSUME NEW x \in P \cup Q, NEW y \in P \cup Q, x # y PROVE Of(x) \cap Of(y) = {}
    BY DEF Distinct
  <2>1. /\ x \in P => Of(x) \subseteq Among(P)
        /\ y \in P => Of(y) \subseteq Among(P)
        /\ x \in Q => Of(x) \subseteq Among(Q)
        /\ y \in Q => Of(y) \subseteq Among(Q)
    BY DEF Among
  <2> QED BY <1>2, <2>1 DEF Distinct
<1> QED BY <1>1, <1>2

-----------------------------------------------------------------------------
(* Frames.                                                                  *)

LEMMA FrameIs ==
    ASSUME NEW f, IsFrame(f)
    PROVE  /\ IsSeq(f.todo) /\ IsSeq(f.arrived) /\ IsSeq(f.escaped) /\ IsSeq(f.stopped)
           /\ \A s \in Suspended(f) : IsState(s)
           /\ \A j \in 1..Len(f.todo) : IsState(f.todo[j]) /\ f.todo[j] \in Suspended(f)
           /\ \A j \in 1..Len(f.arrived) : IsState(f.arrived[j]) /\ f.arrived[j] \in Suspended(f)
           /\ \A j \in 1..Len(f.escaped) : IsState(f.escaped[j]) /\ f.escaped[j] \in Suspended(f)
           /\ \A j \in 1..Len(f.stopped) : IsStop(f.stopped[j]) /\ f.stopped[j].state \in Suspended(f)
<1>1. /\ AreStates(f.todo) /\ AreStates(f.arrived) /\ AreStates(f.escaped) /\ AreStops(f.stopped)
  BY DEF IsFrame
<1>2. /\ IsSeq(f.todo) /\ IsSeq(f.arrived) /\ IsSeq(f.escaped) /\ IsSeq(f.stopped)
  BY <1>1 DEF AreStates, AreStops
<1>3. /\ \A j \in 1..Len(f.todo) : IsState(f.todo[j])
      /\ \A j \in 1..Len(f.arrived) : IsState(f.arrived[j])
      /\ \A j \in 1..Len(f.escaped) : IsState(f.escaped[j])
      /\ \A j \in 1..Len(f.stopped) : IsStop(f.stopped[j]) /\ IsState(f.stopped[j].state)
  BY <1>1 DEF AreStates, AreStops, IsStop
<1>4. /\ \A j \in 1..Len(f.todo) : f.todo[j] \in ToSet(f.todo)
      /\ \A j \in 1..Len(f.arrived) : f.arrived[j] \in ToSet(f.arrived)
      /\ \A j \in 1..Len(f.escaped) : f.escaped[j] \in ToSet(f.escaped)
      /\ \A j \in 1..Len(f.stopped) : f.stopped[j] \in ToSet(f.stopped)
  BY <1>2, SeqLen
<1>5. /\ \A x \in ToSet(f.todo) : \E k \in 1..Len(f.todo) : x = f.todo[k]
      /\ \A x \in ToSet(f.arrived) : \E k \in 1..Len(f.arrived) : x = f.arrived[k]
      /\ \A x \in ToSet(f.escaped) : \E k \in 1..Len(f.escaped) : x = f.escaped[k]
      /\ \A x \in ToSet(f.stopped) : \E k \in 1..Len(f.stopped) : x = f.stopped[k]
  BY <1>2, SeqLen
<1>6. \A s \in Suspended(f) : IsState(s)
  BY <1>3, <1>5 DEF Suspended
<1> QED BY <1>2, <1>3, <1>4, <1>6 DEF Suspended

\* The state that _run_region pops is held by nothing else in the call.
LEMMA PoppedIs ==
    ASSUME NEW f, IsFrame(f), Tidy(f), f.todo # <<>>, NEW g, g = [f EXCEPT !.todo = Front(@)]
    PROVE  /\ IsFrame(g) /\ Tidy(g) /\ g.shared = f.shared /\ g.region = f.region
           /\ Covers(f) = Covers(g) \cup Of(Last(f.todo)) /\ Covers(g) \cap Of(Last(f.todo)) = {}
           /\ Suspended(g) \subseteq Suspended(f) /\ IsState(Last(f.todo)) /\ Last(f.todo) \in Suspended(f)
<1>1. IsSeq(f.todo)
  BY FrameIs
<1>2. PICK n \in Nat \ {0} :
         /\ n = Len(f.todo) /\ IsSeq(Front(f.todo)) /\ Len(Front(f.todo)) = n - 1
         /\ Last(f.todo) = f.todo[n] /\ \A k \in 1..(n - 1) : Front(f.todo)[k] = f.todo[k]
  BY <1>1, SeqFront
<1>3. n \in 1..n /\ \A k \in 1..(n - 1) : k \in 1..n
  OBVIOUS
<1>4. /\ g = [region |-> f.region, shared |-> f.shared, todo |-> Front(f.todo), arrived |-> f.arrived,
              escaped |-> f.escaped, stopped |-> f.stopped]
  BY DEF IsFrame
<1>5. AreStates(Front(f.todo))
  BY <1>2, <1>3, FrameIs DEF AreStates
<1>6. IsFrame(g)
  BY <1>4, <1>5 DEF IsFrame
<1>7. /\ Span(f.todo) = Span(Front(f.todo)) \cup Of(Last(f.todo)) /\ Separate(Front(f.todo))
      /\ Span(Front(f.todo)) \cap Of(Last(f.todo)) = {}
  BY <1>1, SpanFront DEF Tidy
<1>8. Tidy(g) /\ Covers(f) = Covers(g) \cup Of(Last(f.todo)) /\ Covers(g) \cap Of(Last(f.todo)) = {}
  BY <1>4, <1>7 DEF Tidy, Covers
<1>9. ToSet(Front(f.todo)) \subseteq ToSet(f.todo)
  <2> SUFFICES ASSUME NEW x \in ToSet(Front(f.todo)) PROVE x \in ToSet(f.todo)
    OBVIOUS
  <2>1. PICK k \in 1..(n - 1) : x = Front(f.todo)[k]
    BY <1>2, SeqLen
  <2> QED BY <1>1, <1>2, <1>3, <2>1, SeqLen
<1>10. Suspended(g) \subseteq Suspended(f)
  BY <1>4, <1>9 DEF Suspended
<1>11. IsState(Last(f.todo)) /\ Last(f.todo) \in Suspended(f)
  BY <1>2, <1>3, FrameIs
<1> QED BY <1>4, <1>6, <1>8, <1>10, <1>11

Plus(f, h) ==
    [region |-> f.region, shared |-> f.shared, todo |-> f.todo \o h.todo,
     arrived |-> f.arrived \o h.arrived, escaped |-> f.escaped \o h.escaped,
     stopped |-> f.stopped \o h.stopped]
Part(todo, arrived, escaped, stopped) ==
    [region |-> None, shared |-> 0, todo |-> todo, arrived |-> arrived, escaped |-> escaped,
     stopped |-> stopped]

LEMMA StatesConcat ==
    ASSUME NEW q, AreStates(q), NEW r, AreStates(r)
    PROVE  AreStates(q \o r) /\ ToSet(q \o r) = ToSet(q) \cup ToSet(r)
<1>1. IsSeq(q) /\ IsSeq(r) /\ IsSeq(q \o r)
  BY SeqConcat DEF AreStates
<1>2. \A k \in 1..Len(q \o r) : IsState((q \o r)[k])
  BY <1>1, SeqConcat DEF AreStates
<1>3. Range(q \o r) = Range(q) \cup Range(r)
  <2> DEFINE T == ToSet(q) \cup ToSet(r)
  <2>1. q \in Seq(T) /\ r \in Seq(T)
    <3>1. q \in Seq(ToSet(q)) /\ r \in Seq(ToSet(r)) /\ ToSet(q) \subseteq T /\ ToSet(r) \subseteq T
      BY <1>1 DEF IsSeq
    <3> QED BY <3>1, SeqMonotonic
  <2> HIDE DEF T
  <2> QED BY <2>1, RangeConcatenation
<1> QED BY <1>1, <1>2, <1>3 DEF AreStates, ToSet, Range

LEMMA StopsConcat ==
    ASSUME NEW q, AreStops(q), NEW r, AreStops(r)
    PROVE  AreStops(q \o r) /\ ToSet(q \o r) = ToSet(q) \cup ToSet(r)
<1>1. IsSeq(q) /\ IsSeq(r) /\ IsSeq(q \o r)
  BY SeqConcat DEF AreStops
<1>2. \A k \in 1..Len(q \o r) : IsStop((q \o r)[k])
  BY <1>1, SeqConcat DEF AreStops
<1>3. Range(q \o r) = Range(q) \cup Range(r)
  <2> DEFINE T == ToSet(q) \cup ToSet(r)
  <2>1. q \in Seq(T) /\ r \in Seq(T)
    <3>1. q \in Seq(ToSet(q)) /\ r \in Seq(ToSet(r)) /\ ToSet(q) \subseteq T /\ ToSet(r) \subseteq T
      BY <1>1 DEF IsSeq
    <3> QED BY <3>1, SeqMonotonic
  <2> HIDE DEF T
  <2> QED BY <2>1, RangeConcatenation
<1> QED BY <1>1, <1>2, <1>3 DEF AreStops, ToSet, Range

LEMMA PlusIs ==
    ASSUME NEW f, IsFrame(f), Tidy(f), NEW h, IsFrame(h), Tidy(h), Covers(f) \cap Covers(h) = {},
           NEW g, g = Plus(f, h)
    PROVE  /\ IsFrame(g) /\ Tidy(g) /\ Covers(g) = Covers(f) \cup Covers(h) /\ g.shared = f.shared
           /\ Suspended(g) = Suspended(f) \cup Suspended(h)
<1>1. /\ AreStates(f.todo) /\ AreStates(f.arrived) /\ AreStates(f.escaped) /\ AreStops(f.stopped)
      /\ AreStates(h.todo) /\ AreStates(h.arrived) /\ AreStates(h.escaped) /\ AreStops(h.stopped)
      /\ f.shared \in Nat
  BY DEF IsFrame
<1>2. /\ g.region = f.region /\ g.shared = f.shared /\ g.todo = f.todo \o h.todo
      /\ g.arrived = f.arrived \o h.arrived /\ g.escaped = f.escaped \o h.escaped
      /\ g.stopped = f.stopped \o h.stopped
      /\ g = [region |-> g.region, shared |-> g.shared, todo |-> g.todo, arrived |-> g.arrived,
              escaped |-> g.escaped, stopped |-> g.stopped]
  BY DEF Plus
<1>3. /\ AreStates(g.todo) /\ AreStates(g.arrived) /\ AreStates(g.escaped) /\ AreStops(g.stopped)
      /\ ToSet(g.todo) = ToSet(f.todo) \cup ToSet(h.todo)
      /\ ToSet(g.arrived) = ToSet(f.arrived) \cup ToSet(h.arrived)
      /\ ToSet(g.escaped) = ToSet(f.escaped) \cup ToSet(h.escaped)
      /\ ToSet(g.stopped) = ToSet(f.stopped) \cup ToSet(h.stopped)
  BY <1>1, <1>2, StatesConcat, StopsConcat
<1>4. IsFrame(g)
  BY <1>1, <1>2, <1>3 DEF IsFrame
<1>5. Suspended(g) = Suspended(f) \cup Suspended(h)
  BY <1>3 DEF Suspended
<1>6. /\ Span(g.todo) = Span(f.todo) \cup Span(h.todo)
      /\ Span(g.arrived) = Span(f.arrived) \cup Span(h.arrived)
      /\ Span(g.escaped) = Span(f.escaped) \cup Span(h.escaped)
      /\ Span(g.stopped) = Span(f.stopped) \cup Span(h.stopped)
  BY <1>1, <1>2, SpanConcat DEF AreStates, AreStops
<1>7. Covers(g) = Covers(f) \cup Covers(h)
  BY <1>6 DEF Covers
<1>8. /\ Separate(g.todo) /\ Separate(g.arrived) /\ Separate(g.escaped) /\ Separate(g.stopped)
  <2>1. /\ Span(f.todo) \cap Span(h.todo) = {} /\ Span(f.arrived) \cap Span(h.arrived) = {}
        /\ Span(f.escaped) \cap Span(h.escaped) = {} /\ Span(f.stopped) \cap Span(h.stopped) = {}
    BY DEF Covers
  <2> QED BY <1>1, <1>2, <2>1, SpanConcat DEF Tidy, AreStates, AreStops
<1>9. Tidy(g)
  BY <1>6, <1>8 DEF Tidy, Covers
<1> QED BY <1>2, <1>4, <1>5, <1>7, <1>9

-----------------------------------------------------------------------------
(* The calls in progress.                                                   *)

\* A call keeps to what the calls around it have met before their branches, and to its own.
Beneath(B, f) ==
    \A k \in 1..Len(B) :
        \E p \in Seq(SUBSET Inputs) :
            /\ Len(p) = B[k].shared /\ FrameBegins(f, p)
            /\ \A l \in k..Len(B) : FrameBegins(B[l], p)
Starts(f) == \E p \in Seq(SUBSET Inputs) : Len(p) = f.shared /\ FrameBegins(f, p)
Nests(B, f) ==
    IsFrame(f) /\ Tidy(f) /\ Beneath(B, f) /\ Starts(f) /\ InStack(B) \cap Covers(f) = {}

LEMMA StackTop ==
    ASSUME NEW S, StackOK(S), S # <<>>
    PROVE  /\ StackOK(Front(S)) /\ Nests(Front(S), Last(S))
           /\ InStack(S) = InStack(Front(S)) \cup Covers(Last(S))
<1>1. IsSeq(S) /\ (\A k \in 1..Len(S) : IsFrame(S[k])) /\ Common(S) /\ TidyStack(S)
  BY DEF StackOK
<1>0. PICK B, f : B = Front(S) /\ f = Last(S)
  OBVIOUS
<1>2. PICK n \in Nat \ {0} :
         /\ B = Front(S) /\ f = Last(S) /\ n = Len(S) /\ IsSeq(B) /\ Len(B) = n - 1 /\ f = S[n]
         /\ \A k \in 1..(n - 1) : B[k] = S[k]
  BY <1>0, <1>1, SeqFront
<1>3. n \in 1..n /\ 1..n = 1..(n - 1) \cup {n} /\ \A k \in 1..(n - 1) : k \in 1..n /\ k # n
  OBVIOUS
<1>4. \A k \in 1..(n - 1) : IsFrame(B[k])
  BY <1>1, <1>2, <1>3
<1>5. \A k \in 1..n : \A l \in k..n : l \in 1..n
  OBVIOUS
<1>6. ASSUME NEW k \in 1..n
      PROVE  \E p \in Seq(SUBSET Inputs) :
                 /\ Len(p) = S[k].shared /\ \A l \in k..n : FrameBegins(S[l], p)
  BY <1>1, <1>2 DEF Common
<1>7. ASSUME NEW k \in 1..(n - 1)
      PROVE  \E p \in Seq(SUBSET Inputs) :
                 /\ Len(p) = B[k].shared /\ FrameBegins(f, p)
                 /\ \A l \in k..(n - 1) : FrameBegins(B[l], p)
  <2>1. PICK p \in Seq(SUBSET Inputs) :
                 /\ Len(p) = S[k].shared /\ \A l \in k..n : FrameBegins(S[l], p)
    BY <1>3, <1>6
  <2>2. n \in k..n /\ \A l \in k..(n - 1) : l \in k..n /\ l \in 1..(n - 1)
    OBVIOUS
  <2>3. FrameBegins(f, p) /\ Len(p) = B[k].shared
    BY <1>2, <2>1, <2>2
  <2>4. \A l \in k..(n - 1) : FrameBegins(B[l], p)
    BY <1>2, <2>1, <2>2
  <2> QED BY <2>3, <2>4
<1>8. Common(B) /\ Beneath(B, f)
  BY <1>2, <1>7 DEF Common, Beneath
<1>9. Starts(f)
  <2>1. n \in n..n
    OBVIOUS
  <2>2. PICK p \in Seq(SUBSET Inputs) :
                 /\ Len(p) = S[n].shared /\ \A l \in n..n : FrameBegins(S[l], p)
    BY <1>3, <1>6
  <2> QED BY <1>2, <2>1, <2>2 DEF Starts
<1>10. /\ \A k \in 1..n : Tidy(S[k])
       /\ \A k, l \in 1..n : k # l => Covers(S[k]) \cap Covers(S[l]) = {}
  BY <1>1, <1>2 DEF TidyStack
<1>11. TidyStack(B) /\ Tidy(f) /\ \A k \in 1..(n - 1) : Covers(B[k]) \cap Covers(f) = {}
  BY <1>2, <1>3, <1>10 DEF TidyStack
<1>12. InStack(B) \cap Covers(f) = {}
  BY <1>2, <1>11 DEF InStack
<1>13. InStack(S) = InStack(B) \cup Covers(f)
  BY <1>2, <1>3 DEF InStack
<1>14. IsFrame(f)
  BY <1>1, <1>2, <1>3
<1> QED BY <1>2, <1>4, <1>8, <1>9, <1>11, <1>12, <1>13, <1>14 DEF StackOK, Nests

LEMMA StackMake ==
    ASSUME NEW B, StackOK(B), NEW f, Nests(B, f)
    PROVE  /\ StackOK(Append(B, f)) /\ InStack(Append(B, f)) = InStack(B) \cup Covers(f)
           /\ Append(B, f) # <<>>
<1>1. IsSeq(B) /\ (\A k \in 1..Len(B) : IsFrame(B[k])) /\ Common(B) /\ TidyStack(B)
  BY DEF StackOK
<1>2. IsFrame(f) /\ Tidy(f) /\ Beneath(B, f) /\ Starts(f) /\ InStack(B) \cap Covers(f) = {}
  BY DEF Nests
<1>3. PICK m \in Nat : m = Len(B)
  BY <1>1, SeqLen
<1>4. PICK S : S = Append(B, f)
  OBVIOUS
<1>5. /\ IsSeq(S) /\ Len(S) = m + 1 /\ \A k \in 1..m : S[k] = B[k]
      /\ S[m + 1] = f /\ S # <<>>
  BY <1>1, <1>3, <1>4, SeqAppend
<1>6. m + 1 \in 1..(m + 1) /\ 1..(m + 1) = 1..m \cup {m + 1} /\ \A k \in 1..m : k # m + 1
  OBVIOUS
<1>7. \A k \in 1..(m + 1) : IsFrame(S[k]) /\ Tidy(S[k])
  BY <1>1, <1>2, <1>3, <1>5, <1>6 DEF TidyStack
<1>8. ASSUME NEW k \in 1..(m + 1)
      PROVE  \E p \in Seq(SUBSET Inputs) :
                 /\ Len(p) = S[k].shared /\ \A l \in k..(m + 1) : FrameBegins(S[l], p)
  <2>1. CASE k = m + 1
    <3>1. PICK p \in Seq(SUBSET Inputs) : Len(p) = f.shared /\ FrameBegins(f, p)
      BY <1>2 DEF Starts
    <3>2. \A l \in k..(m + 1) : l = m + 1
      BY <2>1
    <3> QED BY <1>5, <2>1, <3>1, <3>2
  <2>2. CASE k \in 1..m
    <3>1. PICK p \in Seq(SUBSET Inputs) :
              /\ Len(p) = B[k].shared /\ FrameBegins(f, p)
              /\ \A l \in k..m : FrameBegins(B[l], p)
      BY <1>2, <1>3, <2>2 DEF Beneath
    <3>2. \A l \in k..(m + 1) : l = m + 1 \/ (l \in k..m /\ l \in 1..m)
      BY <2>2
    <3>3. \A l \in k..(m + 1) : FrameBegins(S[l], p)
      BY <1>5, <3>1, <3>2
    <3> QED BY <1>5, <2>2, <3>1, <3>3
  <2> QED BY <1>6, <2>1, <2>2
<1>9. Common(S)
  BY <1>5, <1>8 DEF Common
<1>10. \A k \in 1..m : Covers(B[k]) \cap Covers(f) = {}
  BY <1>2, <1>3 DEF InStack
<1>11. \A k, l \in 1..m : k # l => Covers(B[k]) \cap Covers(B[l]) = {}
  BY <1>1, <1>3 DEF TidyStack
<1>12. ASSUME NEW k \in 1..(m + 1), NEW l \in 1..(m + 1), k # l
       PROVE  Covers(S[k]) \cap Covers(S[l]) = {}
  <2>1. CASE k \in 1..m /\ l \in 1..m
    BY <1>5, <1>11, <1>12, <2>1
  <2>2. CASE k \in 1..m /\ l = m + 1
    BY <1>5, <1>10, <2>2
  <2>3. CASE k = m + 1 /\ l \in 1..m
    BY <1>5, <1>10, <2>3
  <2> QED BY <1>6, <1>12, <2>1, <2>2, <2>3
<1>13. TidyStack(S)
  BY <1>5, <1>7, <1>12 DEF TidyStack
<1>14. InStack(S) = InStack(B) \cup Covers(f)
  BY <1>3, <1>5, <1>6 DEF InStack
<1> QED BY <1>4, <1>5, <1>7, <1>9, <1>13, <1>14 DEF StackOK

LEMMA StackSwap ==
    ASSUME NEW B, NEW f, Nests(B, f), NEW g, IsFrame(g), Tidy(g), g.shared = f.shared,
           InStack(B) \cap Covers(g) = {},
           \A p \in Seq(SUBSET Inputs) : FrameBegins(f, p) => FrameBegins(g, p)
    PROVE  Nests(B, g)
<1>1. Beneath(B, g)
  BY DEF Nests, Beneath
<1>2. Starts(g)
  BY DEF Nests, Starts
<1> QED BY <1>1, <1>2 DEF Nests

LEMMA StackEmpty == StackOK(<<>>) /\ InStack(<<>>) = {}
<1>1. 1..0 = {} /\ Len(<<>>) = 0 /\ IsSeq(<<>>)
  BY SeqEmpty
<1>2. \A k \in 1..0 : FALSE
  OBVIOUS
<1> QED BY <1>1, <1>2 DEF StackOK, Common, TidyStack, InStack

LEMMA PartIs ==
    ASSUME NEW t, AreStates(t), NEW a, AreStates(a), NEW e, AreStates(e), NEW r, AreStops(r)
    PROVE  /\ IsFrame(Part(t, a, e, r))
           /\ Covers(Part(t, a, e, r)) = Span(t) \cup Span(a) \cup Span(e) \cup Span(r)
           /\ Suspended(Part(t, a, e, r)) = ToSet(t) \cup ToSet(a) \cup ToSet(e)
                                            \cup {x.state : x \in ToSet(r)}
<1>1. PICK h : h = Part(t, a, e, r)
  OBVIOUS
<1>2. /\ h = [region |-> h.region, shared |-> h.shared, todo |-> h.todo, arrived |-> h.arrived,
              escaped |-> h.escaped, stopped |-> h.stopped]
      /\ h.shared = 0 /\ h.todo = t /\ h.arrived = a /\ h.escaped = e /\ h.stopped = r
  BY <1>1 DEF Part
<1>3. IsFrame(h)
  BY <1>2 DEF IsFrame
<1> QED BY <1>1, <1>2, <1>3 DEF Covers, Suspended

LEMMA NoneAre ==
    AreStates(<<>>) /\ AreStops(<<>>) /\ Span(<<>>) = {} /\ Separate(<<>>) /\ ToSet(<<>>) = {}
<1>1. 1..0 = {} /\ IsSeq(<<>>) /\ Len(<<>>) = 0
  BY SeqEmpty
<1> QED BY <1>1, SpanEmpty, SeqEmpty DEF AreStates, AreStops

LEMMA OneIs ==
    ASSUME NEW x
    PROVE  /\ IsState(x) => AreStates(<<x>>)
           /\ IsStop(x) => AreStops(<<x>>)
           /\ Span(<<x>>) = Of(x) /\ Separate(<<x>>) /\ ToSet(<<x>>) = {x}
<1>0. 1..1 = {1}
  OBVIOUS
<1>1. IsSeq(<<x>>) /\ Len(<<x>>) = 1 /\ <<x>>[1] = x /\ 1..1 = {1}
  BY <1>0, SeqOfTwo
<1>2. ToSet(<<x>>) = {x}
  BY DEF ToSet
<1> QED BY <1>1, <1>2, SpanTwo DEF AreStates, AreStops

LEMMA PartTidy ==
    ASSUME NEW t, NEW a, NEW e, NEW r, Separate(t), Separate(a), Separate(e), Separate(r),
           Span(t) \cap Span(a) = {}, Span(t) \cap Span(e) = {}, Span(t) \cap Span(r) = {},
           Span(a) \cap Span(e) = {}, Span(a) \cap Span(r) = {}, Span(e) \cap Span(r) = {}
    PROVE  Tidy(Part(t, a, e, r))
<1>1. PICK h : h = Part(t, a, e, r)
  OBVIOUS
<1>2. h.todo = t /\ h.arrived = a /\ h.escaped = e /\ h.stopped = r
  BY <1>1 DEF Part
<1> QED BY <1>1, <1>2 DEF Tidy

\* Sequences and the empty sequence.
LEMMA ConcatNone ==
    ASSUME NEW q, IsSeq(q)
    PROVE  q \o <<>> = q
BY ConcatEmptySeq DEF IsSeq

LEMMA AppendOne ==
    ASSUME NEW q, IsSeq(q), NEW x
    PROVE  Append(q, x) = q \o <<x>>
<1> DEFINE T == ToSet(q) \cup {x}
<1>1. q \in Seq(T) /\ x \in T
  <2>1. q \in Seq(ToSet(q)) /\ ToSet(q) \subseteq T
    BY DEF IsSeq
  <2> QED BY <2>1, SeqMonotonic
<1> HIDE DEF T
<1> QED BY <1>1, AppendIsConcat

Given(f, q, r) == [f EXCEPT !.todo = @ \o q, !.stopped = @ \o r]

LEMMA HandedIs ==
    ASSUME NEW f, IsFrame(f), NEW q, NEW r
    PROVE  Given(f, q, r) = Plus(f, Part(q, <<>>, <<>>, r))
<1>1. /\ f = [region |-> f.region, shared |-> f.shared, todo |-> f.todo, arrived |-> f.arrived,
              escaped |-> f.escaped, stopped |-> f.stopped]
      /\ IsSeq(f.arrived) /\ IsSeq(f.escaped)
  BY FrameIs DEF IsFrame
<1>2. f.arrived \o <<>> = f.arrived /\ f.escaped \o <<>> = f.escaped
  BY <1>1, ConcatNone
<1>3. Plus(f, Part(q, <<>>, <<>>, r))
        = [region |-> f.region, shared |-> f.shared, todo |-> f.todo \o q, arrived |-> f.arrived,
           escaped |-> f.escaped, stopped |-> f.stopped \o r]
  BY <1>2 DEF Plus, Part
<1>4. PICK t, u : t = f.todo \o q /\ u = f.stopped \o r
  OBVIOUS
<1>5. [f EXCEPT !.todo = t, !.stopped = u]
        = [region |-> f.region, shared |-> f.shared, todo |-> t, arrived |-> f.arrived,
           escaped |-> f.escaped, stopped |-> u]
  <2>1. PICK a, b, c, d : a = f.region /\ b = f.shared /\ c = f.arrived /\ d = f.escaped
    OBVIOUS
  <2>2. PICK v, w : v = f.todo /\ w = f.stopped
    OBVIOUS
  <2>3. f = [region |-> a, shared |-> b, todo |-> v, arrived |-> c, escaped |-> d, stopped |-> w]
    BY <1>1, <2>1, <2>2
  <2>4. PICK x : x = [f EXCEPT !.todo = t]
    OBVIOUS
  <2>5. x = [region |-> a, shared |-> b, todo |-> t, arrived |-> c, escaped |-> d, stopped |-> w]
    BY <2>3, <2>4
  <2>6. [x EXCEPT !.stopped = u]
        = [region |-> a, shared |-> b, todo |-> t, arrived |-> c, escaped |-> d, stopped |-> u]
    BY <2>5
  <2>7. [f EXCEPT !.todo = t, !.stopped = u] = [x EXCEPT !.stopped = u]
    BY <2>4
  <2> QED BY <2>1, <2>6, <2>7
<1> QED BY <1>3, <1>4, <1>5 DEF Given

\* A sequence whose last element is replaced.
LEMMA LastReplaced ==
    ASSUME NEW B, IsSeq(B), NEW f, NEW g
    PROVE  /\ [Append(B, f) EXCEPT ![Len(Append(B, f))] = g] = Append(B, g)
           /\ Append(B, f)[Len(Append(B, f))] = f
<1>1. PICK m \in Nat : m = Len(B)
  BY SeqLen
<1>2. PICK S : S = Append(B, f)
  OBVIOUS
<1>3. PICK T : T = Append(B, g)
  OBVIOUS
<1>4. /\ IsSeq(S) /\ Len(S) = m + 1 /\ S[m + 1] = f /\ \A k \in 1..m : S[k] = B[k]
      /\ IsSeq(T) /\ Len(T) = m + 1 /\ T[m + 1] = g /\ \A k \in 1..m : T[k] = B[k]
  BY <1>1, <1>2, <1>3, SeqAppend
<1>5. /\ S \in [1..(m + 1) -> ToSet(S)] /\ T \in [1..(m + 1) -> ToSet(T)]
  BY <1>4, LenProperties DEF IsSeq
<1>6. PICK R : R = [S EXCEPT ![m + 1] = g]
  OBVIOUS
<1>7. R = [k \in 1..(m + 1) |-> IF k = m + 1 THEN g ELSE S[k]]
  BY <1>5, <1>6
<1>8. \A k \in 1..(m + 1) : R[k] = T[k]
  <2>1. \A k \in 1..(m + 1) : k = m + 1 \/ k \in 1..m
    OBVIOUS
  <2> QED BY <1>4, <1>7, <2>1
<1>9. R = T
  BY <1>5, <1>7, <1>8
<1> QED BY <1>2, <1>3, <1>4, <1>6, <1>9

\* What a step leaves of the state that was running takes its place in the call.
LEMMA RegionStep ==
    ASSUME NEW B, StackOK(B), NEW f, Nests(B, f), f.todo # <<>>,
           NEW g, IsFrame(g), Tidy(g), g.shared = f.shared,
           Covers(f) = Covers(g) \cup Of(Last(f.todo)), Covers(g) \cap Of(Last(f.todo)) = {},
           Suspended(g) \subseteq Suspended(f), Last(f.todo) \in Suspended(f),
           NEW h, IsFrame(h), Tidy(h), Covers(h) = Of(Last(f.todo)),
           \A s \in Suspended(h) : \A p \in Seq(SUBSET Inputs) :
              Begins(Last(f.todo), p) => Begins(s, p)
    PROVE  /\ StackOK(Append(B, Plus(g, h))) /\ Append(B, Plus(g, h)) # <<>>
           /\ InStack(Append(B, Plus(g, h))) = InStack(B) \cup Covers(f)
<1>1. IsFrame(f) /\ Tidy(f) /\ InStack(B) \cap Covers(f) = {}
  BY DEF Nests
<1>3. PICK n : n = Plus(g, h)
  OBVIOUS
<1>0. Covers(g) \cap Covers(h) = {}
  OBVIOUS
<1>4. /\ IsFrame(n) /\ Tidy(n) /\ Covers(n) = Covers(g) \cup Covers(h) /\ n.shared = g.shared
      /\ Suspended(n) = Suspended(g) \cup Suspended(h)
  BY <1>0, <1>3, PlusIs
<1>5. ASSUME NEW p \in Seq(SUBSET Inputs), FrameBegins(f, p) PROVE FrameBegins(n, p)
  <2>1. Len(p) <= f.shared /\ \A s \in Suspended(f) : Begins(s, p)
    BY <1>5 DEF FrameBegins
  <2>2. Begins(Last(f.todo), p)
    BY <2>1
  <2>3. \A s \in Suspended(n) : Begins(s, p)
    BY <1>4, <2>1, <2>2
  <2> QED BY <1>4, <2>1, <2>3 DEF FrameBegins
<1>6. n.shared = f.shared /\ Covers(n) = Covers(f)
  BY <1>4
<1>7. Nests(B, n)
  BY <1>1, <1>4, <1>5, <1>6, StackSwap
<1> QED BY <1>3, <1>6, <1>7, StackMake

\* The same, in the search.
LEMMA InsideStep ==
    ASSUME MergeInv, InRegion, Runs,
           NEW h, IsFrame(h), Tidy(h), Covers(h) = Of(Current),
           \A s \in Suspended(h) : \A p \in Seq(SUBSET Inputs) : Begins(Current, p) => Begins(s, p),
           stack' = Append(Below, Plus(Popped, h)), UNCHANGED <<fixed, outside>>
    PROVE  MergeInv'
<1>0. StackOK(stack) /\ stack # <<>>
  BY DEF MergeInv, InRegion
<1>1. StackOK(stack) /\ stack # <<>> /\ Top.todo # <<>> /\ Current = Last(Top.todo)
  BY <1>0 DEF InRegion, Runs, Current
<1>2. PICK B, f, g : B = Below /\ f = Top /\ g = Popped
  OBVIOUS
<1>3. StackOK(B) /\ Nests(B, f) /\ InStack(stack) = InStack(B) \cup Covers(f)
  BY <1>1, <1>2, StackTop DEF Below, Top
<1>4. g = [f EXCEPT !.todo = Front(@)] /\ f.todo # <<>> /\ Current = Last(f.todo)
  BY <1>1, <1>2 DEF Popped
<1>5. PICK n : n = Append(B, Plus(g, h))
  OBVIOUS
<1>13. IsFrame(f) /\ Tidy(f)
  BY <1>3 DEF Nests
<1>14. /\ IsFrame(g) /\ Tidy(g) /\ g.shared = f.shared
       /\ Covers(f) = Covers(g) \cup Of(Last(f.todo)) /\ Covers(g) \cap Of(Last(f.todo)) = {}
       /\ Suspended(g) \subseteq Suspended(f) /\ Last(f.todo) \in Suspended(f)
  BY <1>4, <1>13, PoppedIs
<1>6. StackOK(n) /\ n # <<>> /\ InStack(n) = InStack(stack)
  BY <1>3, <1>4, <1>5, <1>14, RegionStep
<1>7. stack' = n
  BY <1>2, <1>5
<1>8. run = NoState
  BY <1>1, StateIs DEF MergeInv, Shape
<1>9. Shape'
  BY <1>8 DEF MergeInv, Shape, outside
<1>10. StackOK(stack')
  BY <1>6, <1>7
<1>11. Divided'
  BY <1>6, <1>7 DEF MergeInv, Divided, TidyOutside, Outside, Running, outside
<1>12. Possibly'
  BY DEF MergeInv, Possibly, outside, fixed
<1> QED BY <1>9, <1>10, <1>11, <1>12 DEF MergeInv

\* What goes back to the search are all the inputs of the state or the call it came from.
LEMMA GivenBack ==
    ASSUME MergeInv, NEW q, AreStates(q), NEW r, AreStops(r),
           Separate(q), Separate(r), Span(q) \cap Span(r) = {},
           Span(q) \cup Span(r) = Running \cup InStack(stack),
           {} \notin hard => /\ \A k \in 1..Len(q) : Of(q[k]) # {}
                             /\ \A k \in 1..Len(r) : Of(r[k]) # {},
           pending' = pending \cup ToSet(q), ended' = ended \cup ToSet(r),
           run' = NoState, stack' = <<>>, UNCHANGED fixed
    PROVE  MergeInv'
<1>1. IsSeq(q) /\ IsSeq(r)
  BY DEF AreStates, AreStops
<1>2. /\ \A x \in ToSet(q) : \E k \in 1..Len(q) : x = q[k]
      /\ \A x \in ToSet(r) : \E k \in 1..Len(r) : x = r[k]
  BY <1>1, SeqLen
<1>3. /\ Among(ToSet(q)) = Span(q) /\ Distinct(ToSet(q))
      /\ Among(ToSet(r)) = Span(r) /\ Distinct(ToSet(r))
  BY <1>1, AmongSeq
<1>4. /\ Distinct(pending) /\ Distinct(ended)
      /\ Among(pending) \cap Running = {} /\ Among(pending) \cap Among(ended) = {}
      /\ Running \cap Among(ended) = {}
      /\ Outside \cap InStack(stack) = {} /\ Outside \cup InStack(stack) = Inputs
  BY DEF MergeInv, Divided, TidyOutside
<1>5. PICK P, E, Q, R : P = pending /\ E = ended /\ Q = ToSet(q) /\ R = ToSet(r)
  OBVIOUS
<1>6. Among(P) \cap Among(Q) = {} /\ Among(E) \cap Among(R) = {}
  BY <1>3, <1>4, <1>5 DEF Outside
<1>20. Distinct(P) /\ Distinct(E) /\ Distinct(Q) /\ Distinct(R)
  BY <1>3, <1>4, <1>5
<1>21. Among(Q) = Span(q) /\ Among(R) = Span(r)
  BY <1>3, <1>5
<1>7. /\ Among(P \cup Q) = Among(P) \cup Span(q) /\ Distinct(P \cup Q)
      /\ Among(E \cup R) = Among(E) \cup Span(r) /\ Distinct(E \cup R)
  <2>1. Among(P \cup Q) = Among(P) \cup Among(Q) /\ Distinct(P \cup Q)
    BY <1>6, <1>20, AmongBoth
  <2>2. Among(E \cup R) = Among(E) \cup Among(R) /\ Distinct(E \cup R)
    BY <1>6, <1>20, AmongBoth
  <2> QED BY <1>21, <2>1, <2>2
<1>8. pending' = P \cup Q /\ ended' = E \cup R
  BY <1>5
<1>9. Running' = {}
  BY DEF Running
<1>10. TidyOutside'
  BY <1>3, <1>4, <1>5, <1>7, <1>8, <1>9 DEF TidyOutside, Outside
<1>11. Outside' = Among(P) \cup Span(q) \cup Among(E) \cup Span(r)
  BY <1>7, <1>8, <1>9 DEF Outside
<1>12. Outside' = Inputs
  BY <1>4, <1>5, <1>11 DEF Outside
<1>13. InStack(stack') = {} /\ StackOK(stack')
  BY StackEmpty
<1>14. Divided'
  BY <1>10, <1>12, <1>13 DEF Divided
<1>15. Shape'
  <2>1. \A s \in pending' : IsState(s)
    BY <1>2 DEF MergeInv, Shape, AreStates
  <2>2. \A e \in ended' : IsStop(e)
    BY <1>2 DEF MergeInv, Shape, AreStops
  <2> QED BY <2>1, <2>2 DEF Shape
<1>16. Possibly'
  <2>1. hard' = hard
    BY DEF fixed
  <2>2. hard \in Undecidable
    BY DEF MergeInv, Possibly
  <2>3. ASSUME {} \notin hard
        PROVE  (\A s \in pending' : Of(s) # {}) /\ \A e \in ended' : Of(e) # {}
    BY <1>2, <2>3 DEF MergeInv, Possibly
  <2> QED BY <2>1, <2>2, <2>3 DEF Possibly
<1> QED BY <1>13, <1>14, <1>15, <1>16 DEF MergeInv

LEMMA CurrentIs ==
    ASSUME MergeInv, Runs
    PROVE  /\ IsState(Current)
           /\ ~ InRegion => /\ run = Current /\ run # NoState /\ stack = <<>>
                            /\ Running = Of(Current) /\ InStack(stack) = {}
           /\ InRegion => /\ IsFrame(Top) /\ IsFrame(Popped) /\ Current = Last(Top.todo)
                          /\ Top.todo # <<>> /\ run = NoState /\ IsSeq(Below)
                          /\ Nests(Below, Top) /\ StackOK(Below)
<1>1. CASE ~ InRegion
  <2>1. Current = run /\ run # NoState /\ stack = <<>>
    BY <1>1 DEF Current, Runs, InRegion
  <2>2. IsState(run)
    BY <2>1 DEF MergeInv, Shape
  <2>3. Running = Of(Current)
    BY <2>1 DEF Running
  <2> QED BY <1>1, <2>1, <2>2, <2>3, StackEmpty
<1>2. CASE InRegion
  <2>1. StackOK(stack) /\ stack # <<>>
    BY <1>2 DEF MergeInv, InRegion
  <2>2. Current = Last(Top.todo) /\ Top.todo # <<>>
    BY <1>2 DEF Current, Runs
  <2>3. StackOK(Below) /\ Nests(Below, Top)
    BY <2>1, StackTop DEF Below, Top
  <2>4. IsSeq(Below)
    BY <2>3 DEF StackOK
  <2>5. IsFrame(Top) /\ Tidy(Top)
    BY <2>3 DEF Nests
  <2>6. PICK f, g : f = Top /\ g = Popped
    OBVIOUS
  <2>7. g = [f EXCEPT !.todo = Front(@)]
    BY <2>6 DEF Popped
  <2>8. IsFrame(g) /\ IsState(Last(f.todo))
    BY <2>2, <2>5, <2>6, <2>7, PoppedIs
  <2>9. run = NoState
    BY <2>1, StateIs DEF MergeInv, Shape
  <2> QED BY <1>2, <2>2, <2>3, <2>4, <2>5, <2>6, <2>8, <2>9
<1> QED BY <1>1, <1>2

\* A step that returns successors and stopped paths.
LEMMA YieldStep ==
    ASSUME MergeInv, Runs, NEW q, AreStates(q), NEW r, AreStops(r),
           Separate(q), Separate(r), Span(q) \cap Span(r) = {},
           Span(q) \cup Span(r) = Of(Current),
           \A k \in 1..Len(q) : \A p \in Seq(SUBSET Inputs) : Begins(Current, p) => Begins(q[k], p),
           \A k \in 1..Len(r) : \A p \in Seq(SUBSET Inputs) :
              Begins(Current, p) => Begins(r[k].state, p),
           ~ InRegion /\ {} \notin hard => /\ \A k \in 1..Len(q) : Of(q[k]) # {}
                                           /\ \A k \in 1..Len(r) : Of(r[k]) # {},
           Yield(q, r)
    PROVE  MergeInv'
<1>1. CASE InRegion
  <2>1. IsSeq(Below) /\ IsFrame(Popped) /\ run = NoState
    BY <1>1, CurrentIs
  <2>2. PICK B, g, h : B = Below /\ g = Popped /\ h = Part(q, <<>>, <<>>, r)
    OBVIOUS
  <2>3. PICK S, n : S = Append(B, g) /\ n = Len(S)
    OBVIOUS
  <2>4. S # <<>> /\ S[n] = g /\ \A x : [S EXCEPT ![n] = x] = Append(B, x)
    BY <2>1, <2>2, <2>3, SeqAppend, LastReplaced
  <2>5. /\ stack' = [S EXCEPT ![n].todo = @ \o q, ![n].stopped = @ \o r]
        /\ UNCHANGED <<fixed, outside>>
    BY <1>1, <2>2, <2>3, <2>4 DEF Yield, HandTo
  <2>6. [S EXCEPT ![n].todo = @ \o q, ![n].stopped = @ \o r]
          = [S EXCEPT ![n] = [S[n] EXCEPT !.todo = @ \o q, !.stopped = @ \o r]]
    OBVIOUS
  <2>7. [g EXCEPT !.todo = @ \o q, !.stopped = @ \o r] = Plus(g, h)
    <3>1. IsFrame(g)
      BY <2>1, <2>2
    <3>2. Given(g, q, r) = Plus(g, Part(q, <<>>, <<>>, r))
      BY <3>1, HandedIs
    <3> QED BY <2>2, <3>2 DEF Given
  <2>8. stack' = Append(B, Plus(g, h))
    BY <2>4, <2>5, <2>6, <2>7
  <2>9. IsFrame(h) /\ Covers(h) = Of(Current) /\ Tidy(h)
    <3>1. /\ h.todo = q /\ h.arrived = <<>> /\ h.escaped = <<>> /\ h.stopped = r
      BY <2>2 DEF Part
    <3>2. IsFrame(h) /\ Covers(h) = Of(Current)
      <4>1. AreStates(<<>>) /\ AreStops(<<>>) /\ Span(<<>>) = {}
        BY NoneAre
      <4>2. /\ IsFrame(h)
            /\ Covers(h) = Span(q) \cup Span(<<>>) \cup Span(<<>>) \cup Span(r)
        BY <2>2, <4>1, PartIs
      <4> QED BY <4>1, <4>2
    <3>3. Tidy(h)
      <4>1. Span(<<>>) = {} /\ Separate(<<>>)
        BY NoneAre
      <4> QED BY <2>2, <4>1, PartTidy
    <3> QED BY <3>2, <3>3
  <2>10. ASSUME NEW s \in Suspended(h), NEW p \in Seq(SUBSET Inputs), Begins(Current, p)
         PROVE  Begins(s, p)
    <3>1. s \in ToSet(q) \/ \E x \in ToSet(r) : s = x.state
      BY <2>2, PartIs, NoneAre
    <3>2. (\E k \in 1..Len(q) : s = q[k]) \/ \E k \in 1..Len(r) : s = r[k].state
      BY <3>1, SeqLen DEF AreStates, AreStops
    <3> QED BY <2>10, <3>2
  <2> QED BY <1>1, <2>2, <2>5, <2>8, <2>9, <2>10, InsideStep
<1>2. CASE ~ InRegion
  <2>1. Running = Of(Current) /\ InStack(stack) = {}
    BY <1>2, CurrentIs
  <2>2. /\ pending' = pending \cup ToSet(q) /\ ended' = ended \cup ToSet(r)
        /\ run' = NoState /\ stack' = <<>> /\ UNCHANGED fixed
    BY <1>2 DEF Yield, HandTo
  <2>3. Span(q) \cup Span(r) = Running \cup InStack(stack)
    BY <2>1
  <2> QED BY <1>2, <2>2, <2>3, GivenBack
<1> QED BY <1>1, <1>2

\* A step that returns None.
LEMMA ContinueStep ==
    ASSUME MergeInv, Runs, NEW s, IsState(s), s.path = Current.path, Continue(s)
    PROVE  MergeInv'
<1>0. Of(s) = Of(Current) /\ IsState(Current)
  BY CurrentIs, StateIs DEF Cond
<1>1. CASE InRegion
  <2>1. IsFrame(Popped)
    BY <1>1, CurrentIs
  <2>2. PICK g, h : g = Popped /\ h = Part(<<s>>, <<>>, <<>>, <<>>)
    OBVIOUS
  <2>3. /\ stack' = Append(Below, [g EXCEPT !.todo = Append(@, s)])
        /\ UNCHANGED <<fixed, outside>>
    BY <1>1, <2>2 DEF Continue, outside
  <2>4. [g EXCEPT !.todo = Append(@, s)] = Plus(g, h)
    <3>1. /\ g = [region |-> g.region, shared |-> g.shared, todo |-> g.todo, arrived |-> g.arrived,
                  escaped |-> g.escaped, stopped |-> g.stopped]
      BY <2>1, <2>2 DEF IsFrame
    <3>2. IsSeq(g.todo) /\ IsSeq(g.arrived) /\ IsSeq(g.escaped) /\ IsSeq(g.stopped)
      BY <2>1, <2>2, FrameIs
    <3>3. PICK t : t = Append(g.todo, s)
      OBVIOUS
    <3>4. g.todo \o <<s>> = t /\ g.arrived \o <<>> = g.arrived /\ g.escaped \o <<>> = g.escaped
          /\ g.stopped \o <<>> = g.stopped
      BY <3>2, <3>3, AppendOne, ConcatNone
    <3>5. Plus(g, h) = [region |-> g.region, shared |-> g.shared, todo |-> t, arrived |-> g.arrived,
                        escaped |-> g.escaped, stopped |-> g.stopped]
      BY <2>2, <3>4 DEF Plus, Part
    <3>6. [g EXCEPT !.todo = t]
                     = [region |-> g.region, shared |-> g.shared, todo |-> t, arrived |-> g.arrived,
                        escaped |-> g.escaped, stopped |-> g.stopped]
      BY <3>1
    <3> QED BY <3>3, <3>5, <3>6
  <2>5. AreStates(<<s>>) /\ Span(<<s>>) = Of(Current) /\ Separate(<<s>>) /\ ToSet(<<s>>) = {s}
    BY <1>0, OneIs
  <2>6. IsFrame(h) /\ Covers(h) = Of(Current) /\ Tidy(h)
    <3>1. /\ h.todo = <<s>> /\ h.arrived = <<>> /\ h.escaped = <<>> /\ h.stopped = <<>>
      BY <2>2 DEF Part
    <3>2. IsFrame(h) /\ Covers(h) = Of(Current)
      <4>1. AreStates(<<>>) /\ AreStops(<<>>) /\ Span(<<>>) = {}
        BY NoneAre
      <4>2. /\ IsFrame(h)
            /\ Covers(h) = Span(<<s>>) \cup Span(<<>>) \cup Span(<<>>) \cup Span(<<>>)
        BY <2>2, <2>5, <4>1, PartIs
      <4> QED BY <4>1, <4>2, <2>5
    <3>3. Tidy(h)
      <4>1. Span(<<>>) = {} /\ Separate(<<>>)
        BY NoneAre
      <4> QED BY <2>2, <2>5, <4>1, PartTidy
    <3> QED BY <3>2, <3>3
  <2>7. \A t \in Suspended(h) : t = s
    BY <2>2, <2>5, PartIs, NoneAre
  <2>8. \A t \in Suspended(h) : \A p \in Seq(SUBSET Inputs) : Begins(Current, p) => Begins(t, p)
    BY <2>7 DEF Begins
  <2>9. stack' = Append(Below, Plus(Popped, h))
    BY <2>2, <2>3, <2>4
  <2> QED BY <1>1, <2>3, <2>6, <2>8, <2>9, InsideStep
<1>2. CASE ~ InRegion
  <2>1. run' = s /\ UNCHANGED <<stack, fixed, pending, ended>>
    BY <1>2 DEF Continue
  <2>2. run = Current /\ run # NoState /\ stack = <<>> /\ s # NoState
    BY <1>2, CurrentIs, StateIs
  <2>3. Running' = Running
    BY <1>0, <2>1, <2>2 DEF Running
  <2>4. Shape'
    BY <2>1, <2>2 DEF MergeInv, Shape
  <2>5. StackOK(stack')
    BY <2>1 DEF MergeInv
  <2>6. Divided'
    BY <2>1, <2>3 DEF MergeInv, Divided, TidyOutside, Outside
  <2>7. Possibly'
    BY <1>0, <2>1, <2>2 DEF MergeInv, Possibly, fixed
  <2> QED BY <2>4, <2>5, <2>6, <2>7 DEF MergeInv
<1> QED BY <1>1, <1>2

-----------------------------------------------------------------------------
(* States that go on.                                                       *)

\* A state with other fields is a state.
LEMMA FieldsIs ==
    ASSUME NEW s, IsState(s)
    PROVE  \E b, n, d, p, v :
              /\ s = [block |-> b, position |-> n, data |-> d, path |-> p, visits |-> v]
              /\ p = s.path /\ v = s.visits /\ p \in Seq(SUBSET Inputs)
BY DEF IsState

LEMMA RecordIs ==
    ASSUME NEW s, NEW b, NEW n, NEW d, NEW v, NEW p \in Seq(SUBSET Inputs),
           s = [block |-> b, position |-> n, data |-> d, path |-> p, visits |-> v]
    PROVE  IsState(s) /\ s.path = p
BY DEF IsState

Done(s, n, d) == [s EXCEPT !.position = n, !.data = d]
Moved(s, b, n, d) == [s EXCEPT !.block = b, !.position = n, !.data = d]

LEMMA DoneIs ==
    ASSUME NEW s, IsState(s), NEW n, NEW d
    PROVE  IsState(Done(s, n, d)) /\ Done(s, n, d).path = s.path
<1>0. PICK x : x = Done(s, n, d)
  OBVIOUS
<1>1. PICK b1, n1, d1, p1, v1 :
         /\ s = [block |-> b1, position |-> n1, data |-> d1, path |-> p1, visits |-> v1]
         /\ p1 = s.path /\ p1 \in Seq(SUBSET Inputs)
  BY FieldsIs
<1>2. PICK y : y = [s EXCEPT !.position = n]
  OBVIOUS
<1>3. y = [block |-> b1, position |-> n, data |-> d1, path |-> p1, visits |-> v1]
  BY <1>1, <1>2
<1>4. x = [y EXCEPT !.data = d]
  BY <1>0, <1>2 DEF Done
<1>5. x = [block |-> b1, position |-> n, data |-> d, path |-> p1, visits |-> v1]
  BY <1>3, <1>4
<1> QED BY <1>0, <1>1, <1>5, RecordIs

LEMMA MovedIs ==
    ASSUME NEW s, IsState(s), NEW b, NEW n, NEW d
    PROVE  IsState(Moved(s, b, n, d)) /\ Moved(s, b, n, d).path = s.path
<1>1. PICK b1, n1, d1, p1, v1 :
         /\ s = [block |-> b1, position |-> n1, data |-> d1, path |-> p1, visits |-> v1]
         /\ p1 = s.path /\ p1 \in Seq(SUBSET Inputs)
  BY FieldsIs
<1>2. PICK y : y = [s EXCEPT !.block = b]
  OBVIOUS
<1>3. y = [block |-> b, position |-> n1, data |-> d1, path |-> p1, visits |-> v1]
  BY <1>1, <1>2
<1>4. IsState(y) /\ y.path = s.path
  BY <1>1, <1>3, RecordIs
<1>5. Moved(s, b, n, d) = Done(y, n, d)
  BY <1>2 DEF Moved, Done
<1> QED BY <1>4, <1>5, DoneIs

LEMMA VisitedIs ==
    ASSUME NEW s, IsState(s)
    PROVE  IsState(Visited(s)) /\ Visited(s).path = s.path
<1>1. PICK b1, n1, d1, p1, v1 :
         /\ s = [block |-> b1, position |-> n1, data |-> d1, path |-> p1, visits |-> v1]
         /\ p1 = s.path /\ p1 \in Seq(SUBSET Inputs)
  BY FieldsIs
<1>2. PICK x, w : x = Visited(s) /\ w = [s.visits EXCEPT ![s.block] = @ + 1]
  OBVIOUS
<1>3. x = [s EXCEPT !.visits = w]
  BY <1>2 DEF Visited
<1>4. x = [block |-> b1, position |-> n1, data |-> d1, path |-> p1, visits |-> w]
  BY <1>1, <1>3
<1> QED BY <1>1, <1>2, <1>4, RecordIs

Told(s, p) == [s EXCEPT !.path = p]

LEMMA ToldIs ==
    ASSUME NEW s, IsState(s), NEW p \in Seq(SUBSET Inputs)
    PROVE  IsState(Told(s, p)) /\ Told(s, p).path = p
<1>1. PICK b1, n1, d1, p1, v1 :
         /\ s = [block |-> b1, position |-> n1, data |-> d1, path |-> p1, visits |-> v1]
         /\ p1 = s.path /\ p1 \in Seq(SUBSET Inputs)
  BY FieldsIs
<1>2. Told(s, p) = [block |-> b1, position |-> n1, data |-> d1, path |-> p, visits |-> v1]
  BY <1>1 DEF Told
<1> QED BY <1>2, RecordIs

\* What a condition adds to a state.
LEMMA AssumeIs ==
    ASSUME NEW s, IsState(s), NEW c \in SUBSET Inputs
    PROVE  /\ IsState(Assume(s, c)) /\ Cond(Assume(s, c)) = Cond(s) \cap c
           /\ Begins(Assume(s, c), s.path)
           /\ \A p \in Seq(SUBSET Inputs) : Begins(s, p) => Begins(Assume(s, c), p)
<1>1. /\ s.path \in Seq(SUBSET Inputs) /\ Len(s.path) \in Nat /\ DOMAIN s.path = 1..Len(s.path)
      /\ Cond(s) \subseteq Inputs
  BY StateIs DEF IsState
<1>2. CASE c = Inputs
  <2>1. Assume(s, c) = s
    BY <1>2 DEF Assume
  <2>2. Begins(s, s.path)
    BY <1>1 DEF Begins
  <2> QED BY <1>1, <1>2, <2>1, <2>2
<1>3. CASE c # Inputs
  <2>1. PICK n \in Nat : n = Len(s.path)
    BY <1>1
  <2>2. PICK p : p = Append(s.path, c)
    OBVIOUS
  <2>3. /\ p \in Seq(SUBSET Inputs) /\ Len(p) = n + 1 /\ \A k \in 1..n : p[k] = s.path[k]
        /\ p[n + 1] = c
    BY <1>1, <2>1, <2>2, AppendProperties
  <2>4. Assume(s, c) = Told(s, p)
    BY <1>3, <2>2 DEF Assume, Told
  <2>5. PICK t : t = Assume(s, c)
    OBVIOUS
  <2>6. IsState(t) /\ t.path = p
    BY <2>3, <2>4, <2>5, ToldIs
  <2>7. DOMAIN p = 1..(n + 1) /\ DOMAIN s.path = 1..n
    BY <1>1, <2>1, <2>3, LenProperties
  <2>8. 1..(n + 1) = 1..n \cup {n + 1}
    OBVIOUS
  <2>9. Cond(t) = {i \in Inputs : \A k \in 1..(n + 1) : i \in p[k]}
    BY <2>6, <2>7 DEF Cond, Conjunction
  <2>10. Cond(s) = {i \in Inputs : \A k \in 1..n : i \in s.path[k]}
    BY <2>7 DEF Cond, Conjunction
  <2>11. Cond(t) = Cond(s) \cap c
    BY <2>3, <2>8, <2>9, <2>10
  <2>12. ASSUME NEW u, Len(u) \in Nat, Len(u) <= n, \A j \in 1..Len(u) : s.path[j] = u[j]
         PROVE  Begins(t, u)
    <3>1. \A j \in 1..Len(u) : j \in 1..n
      BY <2>12
    <3>2. \A j \in 1..Len(u) : p[j] = u[j]
      BY <2>3, <2>12, <3>1
    <3>3. Len(u) <= n + 1
      BY <2>12
    <3> QED BY <2>3, <2>6, <3>2, <3>3 DEF Begins
  <2>13. Begins(t, s.path)
    <3>1. n <= n
      OBVIOUS
    <3> QED BY <2>1, <2>12, <3>1
  <2>14. ASSUME NEW u \in Seq(SUBSET Inputs), Begins(s, u) PROVE Begins(t, u)
    <3>1. Len(u) \in Nat
      BY LenProperties
    <3> QED BY <2>1, <2>12, <2>14, <3>1 DEF Begins
  <2> QED BY <2>5, <2>6, <2>11, <2>13, <2>14
<1> QED BY <1>2, <1>3

LEMMA GoToIs ==
    ASSUME NEW s, IsState(s), NEW to
    PROVE  IsState(GoTo(s, to)) /\ GoTo(s, to).path = s.path
<1>1. \E d : GoTo(s, to) = Moved(s, to, 0, d)
  BY DEF GoTo, Moved
<1> QED BY <1>1, MovedIs

\* How a path that stops is kept.
LEMMA StopsIs ==
    ASSUME NEW q, AreStates(q), NEW how
    PROVE  /\ AreStops(Stops(q, how)) /\ Len(Stops(q, how)) = Len(q)
           /\ \A k \in 1..Len(q) : Stops(q, how)[k].state = q[k] /\ Of(Stops(q, how)[k]) = Of(q[k])
           /\ Span(Stops(q, how)) = Span(q) /\ (Separate(q) => Separate(Stops(q, how)))
<1>1. IsSeq(q) /\ \A k \in 1..Len(q) : IsState(q[k])
  BY DEF AreStates
<1>2. PICK n \in Nat : n = Len(q) /\ DOMAIN q = 1..n
  BY <1>1, SeqLen
<1>3. PICK r : r = Stops(q, how)
  OBVIOUS
<1>4. r = [k \in 1..n |-> [how |-> how, state |-> q[k]]]
  BY <1>2, <1>3 DEF Stops
<1>5. r \in [1..n -> {r[k] : k \in 1..n}]
  BY <1>4
<1>6. r \in Seq({r[k] : k \in 1..n}) /\ Len(r) = n
  <2>1. r \in Seq({r[k] : k \in 1..n})
    BY <1>5, SeqDef
  <2>2. DOMAIN r = 1..n
    BY <1>4
  <2> QED BY <2>1, <2>2, LenProperties
<1>7. IsSeq(r)
  BY <1>6, SeqIs
<1>8. \A k \in 1..n : IsStop(r[k]) /\ r[k].state = q[k]
  BY <1>1, <1>2, <1>4 DEF IsStop
<1>9. \A k \in 1..n : Of(r[k]) = Of(q[k])
  BY <1>8, StopIs
<1>10. Span(r) = Span(q) /\ (Separate(q) => Separate(r))
  BY <1>2, <1>6, <1>9 DEF Span, Separate
<1> QED BY <1>2, <1>3, <1>6, <1>7, <1>8, <1>9, <1>10 DEF AreStops

\* Outside of a region, a state that runs can happen.
LEMMA RunningCan ==
    ASSUME MergeInv, Runs, ~ InRegion, {} \notin hard
    PROVE  Of(Current) # {}
BY CurrentIs DEF MergeInv, Possibly

-----------------------------------------------------------------------------
(* Steps that go on, stop or move a state.                                  *)

LEMMA PopKeeps == MergeInv /\ Pop => MergeInv'
<1> SUFFICES ASSUME MergeInv, Pop PROVE MergeInv'
  OBVIOUS
<1>1. run = NoState /\ stack = <<>> /\ UNCHANGED <<fixed, stack, ended>>
  BY DEF Pop, InRegion
<1>2. PICK s \in pending : run' = s /\ pending' = pending \ {s}
  BY DEF Pop
<1>3. IsState(s) /\ s # NoState
  BY StateIs DEF MergeInv, Shape
<1>4. Running = {} /\ Running' = Of(s)
  BY <1>1, <1>2, <1>3 DEF Running
<1>5. /\ Distinct(pending) /\ Distinct(ended)
      /\ Among(pending) \cap Among(ended) = {}
      /\ Outside \cap InStack(stack) = {} /\ Outside \cup InStack(stack) = Inputs
  BY DEF MergeInv, Divided, TidyOutside
<1>6. PICK P : P = pending \ {s}
  OBVIOUS
<1>7. Among(pending) = Among(P) \cup Of(s)
  BY <1>6 DEF Among
<1>8. Distinct(P) /\ Among(P) \cap Of(s) = {}
  BY <1>5, <1>6 DEF Distinct, Among
<1>9. pending' = P
  BY <1>2, <1>6
<1>10. TidyOutside'
  BY <1>1, <1>4, <1>5, <1>7, <1>8, <1>9 DEF TidyOutside
<1>11. Outside' = Outside
  BY <1>1, <1>4, <1>7, <1>9 DEF Outside
<1>12. Divided'
  BY <1>1, <1>5, <1>10, <1>11 DEF Divided
<1>13. Shape'
  BY <1>1, <1>2, <1>3 DEF MergeInv, Shape
<1>14. StackOK(stack')
  BY <1>1 DEF MergeInv
<1>15. Possibly'
  BY <1>1, <1>2 DEF MergeInv, Possibly, fixed
<1> QED BY <1>12, <1>13, <1>14, <1>15 DEF MergeInv

LEMMA StopKeeps ==
    ASSUME MergeInv, Runs, NEW how, Stop(how)
    PROVE  MergeInv'
<1>1. IsState(Current) /\ AreStates(<<Current>>)
  BY CurrentIs, OneIs
<1>2. PICK c : c = Current
  OBVIOUS
<1>3. PICK r : r = Stops(<<c>>, how)
  OBVIOUS
<1>4. IsSeq(<<c>>) /\ Len(<<c>>) = 1 /\ <<c>>[1] = c /\ Span(<<c>>) = Of(c) /\ Separate(<<c>>)
  BY OneIs, SeqOfTwo
<1>5. AreStates(<<c>>)
  BY <1>1, <1>2
<1>6. /\ AreStops(r) /\ Len(r) = 1 /\ r[1].state = c /\ Of(r[1]) = Of(c)
      /\ Span(r) = Of(c) /\ Separate(r)
  <2>1. 1 \in 1..1
    OBVIOUS
  <2> QED BY <1>3, <1>4, <1>5, <2>1, StopsIs
<1>7. /\ AreStates(<<>>) /\ Span(<<>>) = {} /\ Separate(<<>>) /\ Len(<<>>) = 0 /\ 1..0 = {}
  BY NoneAre, SeqEmpty
<1>8. Yield(<<>>, r)
  BY <1>2, <1>3 DEF Stop
<1>9. \A k \in 1..1 : k = 1
  OBVIOUS
<1>10. /\ Span(<<>>) \cap Span(r) = {} /\ Span(<<>>) \cup Span(r) = Of(Current)
  BY <1>2, <1>6, <1>7
<1>11. \A k \in 1..Len(r) : /\ \A p \in Seq(SUBSET Inputs) : Begins(Current, p) => Begins(r[k].state, p)
                            /\ Of(r[k]) = Of(Current)
  BY <1>2, <1>6, <1>9
<1>12. \A k \in 1..Len(<<>>) : FALSE
  BY <1>7
<1>13. ~ InRegion /\ {} \notin hard => \A k \in 1..Len(r) : Of(r[k]) # {}
  BY <1>11, RunningCan
<1> QED BY <1>6, <1>7, <1>8, <1>10, <1>11, <1>12, <1>13, YieldStep

LEMMA ExecuteKeeps == MergeInv /\ Execute => MergeInv'
<1> SUFFICES ASSUME MergeInv, Execute PROVE MergeInv'
  OBVIOUS
<1>1. Runs
  BY DEF Execute, Working
<1>2. PICK n, d : Continue([Current EXCEPT !.position = n, !.data = d])
  BY DEF Execute
<1>3. PICK s : s = Done(Current, n, d)
  OBVIOUS
<1>4. IsState(s) /\ s.path = Current.path
  BY <1>1, <1>3, CurrentIs, DoneIs
<1>5. Continue(s)
  BY <1>2, <1>3 DEF Done
<1> QED BY <1>1, <1>4, <1>5, ContinueStep

LEMMA GoToKeeps ==
    ASSUME MergeInv, Runs, NEW to, Continue(GoTo(Current, to))
    PROVE  MergeInv'
<1>1. IsState(GoTo(Current, to)) /\ GoTo(Current, to).path = Current.path
  BY CurrentIs, GoToIs
<1> QED BY <1>1, ContinueStep

LEMMA StepsKeep ==
    ASSUME MergeInv, Finish \/ Return \/ Jump \/ Decided \/ Bounded
    PROVE  MergeInv'
<1>1. CASE Finish
  BY <1>1, StopKeeps DEF Finish, Working
<1>2. CASE Return
  BY <1>2, StopKeeps DEF Return, At, Working
<1>3. CASE Jump
  BY <1>3, GoToKeeps DEF Jump, At, Working
<1>4. CASE Decided
  BY <1>4, GoToKeeps DEF Decided, At, Working
<1>5. CASE Bounded
  BY <1>5, StopKeeps DEF Bounded, Branching, At, Working
<1> QED BY <1>1, <1>2, <1>3, <1>4, <1>5

-----------------------------------------------------------------------------
(* A fork.                                                                  *)

\* The sides of a branch divide the inputs of the state that comes to it.
LEMMA ChildrenAre ==
    ASSUME NEW s, IsState(s)
    PROVE  \E a, b : /\ Children(s) = <<a, b>> /\ IsState(a) /\ IsState(b)
                     /\ Cond(a) \cup Cond(b) = Cond(s) /\ Cond(a) \cap Cond(b) = {}
                     /\ Begins(a, s.path) /\ Begins(b, s.path)
                     /\ \A p \in Seq(SUBSET Inputs) : Begins(s, p) => Begins(a, p) /\ Begins(b, p)
<1>1. PICK zero : zero = Where(Condition(s), {0})
  OBVIOUS
<1>2. zero \in SUBSET Inputs /\ Inputs \ zero \in SUBSET Inputs
  BY <1>1 DEF Where
<1>3. PICK v : v = Visited(s)
  OBVIOUS
<1>4. IsState(v) /\ v.path = s.path
  BY <1>3, VisitedIs
<1>5. PICK x, y : x = Assume(v, Inputs \ zero) /\ y = Assume(v, zero)
  OBVIOUS
<1>6. /\ IsState(x) /\ Cond(x) = Cond(v) \cap (Inputs \ zero) /\ Begins(x, v.path)
      /\ \A p \in Seq(SUBSET Inputs) : Begins(v, p) => Begins(x, p)
  BY <1>2, <1>4, <1>5, AssumeIs
<1>7. /\ IsState(y) /\ Cond(y) = Cond(v) \cap zero /\ Begins(y, v.path)
      /\ \A p \in Seq(SUBSET Inputs) : Begins(v, p) => Begins(y, p)
  BY <1>2, <1>4, <1>5, AssumeIs
<1>8. PICK a, b : a = GoTo(x, TrueTarget(s)) /\ b = GoTo(y, FalseTarget(s))
  OBVIOUS
<1>9. IsState(a) /\ a.path = x.path /\ IsState(b) /\ b.path = y.path
  BY <1>6, <1>7, <1>8, GoToIs
<1>10. Children(s) = <<a, b>>
  BY <1>1, <1>3, <1>5, <1>8 DEF Children
<1>11. Cond(a) = Cond(x) /\ Cond(b) = Cond(y) /\ Cond(v) = Cond(s) /\ Cond(s) \subseteq Inputs
  BY <1>4, <1>9, StateIs DEF Cond
<1>12. /\ \A p : Begins(x, p) => Begins(a, p)
       /\ \A p : Begins(y, p) => Begins(b, p)
       /\ \A p : Begins(s, p) => Begins(v, p)
  BY <1>4, <1>9 DEF Begins
<1>13. Cond(a) \cup Cond(b) = Cond(s) /\ Cond(a) \cap Cond(b) = {}
  BY <1>6, <1>7, <1>11
<1>14. Begins(a, s.path) /\ Begins(b, s.path)
  BY <1>4, <1>6, <1>7, <1>12
<1>15. \A p \in Seq(SUBSET Inputs) : Begins(s, p) => Begins(a, p) /\ Begins(b, p)
  BY <1>6, <1>7, <1>12
<1> QED BY <1>9, <1>10, <1>13, <1>14, <1>15

\* What is kept holds what was held at its places.
LEMMA KeptSpan ==
    ASSUME NEW q, IsSeq(q), NEW places \in SUBSET DOMAIN q
    PROVE  Span(Kept(q, places)) = UNION {Of(q[j]) : j \in places}
<1>1. PICK h : Picks(q, places, Len(q), Kept(q, places), h)
  BY KeptPicks
<1>2. PICK r : r = Kept(q, places)
  OBVIOUS
<1>3. /\ \A j \in 1..Len(r) : r[j] = q[h[j]] /\ h[j] \in places
      /\ \A p \in places \cap 1..Len(q) : \E j \in 1..Len(r) : h[j] = p
  BY <1>1, <1>2 DEF Picks
<1>4. places \subseteq 1..Len(q)
  BY SeqLen
<1>5. \A p \in places : \E j \in 1..Len(r) : r[j] = q[p]
  BY <1>3, <1>4
<1>6. \A j \in 1..Len(r) : \E p \in places : r[j] = q[p]
  BY <1>3
<1>7. Span(r) = UNION {Of(q[j]) : j \in places}
  BY <1>5, <1>6 DEF Span
<1> QED BY <1>2, <1>7

LEMMA ForkKeeps == MergeInv /\ Fork => MergeInv'
<1> SUFFICES ASSUME MergeInv, Fork PROVE MergeInv'
  OBVIOUS
<1>1. Runs
  BY DEF Fork, Branching, At, Working
<1>2. PICK c : c = Current
  OBVIOUS
<1>3. IsState(c)
  BY <1>1, <1>2, CurrentIs
<1>4. PICK a, b : /\ Children(c) = <<a, b>> /\ IsState(a) /\ IsState(b)
                  /\ Cond(a) \cup Cond(b) = Cond(c) /\ Cond(a) \cap Cond(b) = {}
                  /\ \A p \in Seq(SUBSET Inputs) : Begins(c, p) => Begins(a, p) /\ Begins(b, p)
  BY <1>3, ChildrenAre
<1>5. PICK ab : ab = <<a, b>>
  OBVIOUS
<1>6. IsSeq(ab) /\ Len(ab) = 2 /\ ab[1] = a /\ ab[2] = b /\ DOMAIN ab = 1..2
  <2>1. IsSeq(ab) /\ Len(ab) = 2 /\ ab[1] = a /\ ab[2] = b
    BY <1>5, SeqOfTwo
  <2> QED BY <2>1, SeqLen
<1>7. PICK undecided \in SUBSET hard :
           LET x == Answer(ab[1], undecided)
               y == IF x = "unsat" THEN "sat" ELSE Answer(ab[2], undecided)
           IN Yield(Kept(ab, {k \in 1..2 : <<x, y>>[k] = "sat"}),
                    Stops(Kept(ab, {k \in 1..2 : <<x, y>>[k] = "unknown"}), "unknown"))
  <2>1. ab = Children(Current)
    BY <1>2, <1>4, <1>5
  <2> QED BY <2>1 DEF Fork
<1>8. PICK first, second :
         /\ first = Answer(a, undecided)
         /\ second = IF first = "unsat" THEN "sat" ELSE Answer(b, undecided)
  OBVIOUS
<1>9. Yield(Kept(ab, {k \in 1..2 : <<first, second>>[k] = "sat"}),
           Stops(Kept(ab, {k \in 1..2 : <<first, second>>[k] = "unknown"}), "unknown"))
  BY <1>6, <1>7, <1>8
<1>10. PICK A, B : /\ A = {k \in 1..2 : <<first, second>>[k] = "sat"}
                  /\ B = {k \in 1..2 : <<first, second>>[k] = "unknown"}
  OBVIOUS
<1>11. 1..2 = {1, 2} /\ <<first, second>>[1] = first /\ <<first, second>>[2] = second
  OBVIOUS
<1>12. /\ A \subseteq 1..2 /\ B \subseteq 1..2 /\ A \cap B = {}
       /\ 1 \in A <=> first = "sat"
       /\ 2 \in A <=> second = "sat"
       /\ 1 \in B <=> first = "unknown"
       /\ 2 \in B <=> second = "unknown"
  BY <1>10, <1>11
<1>13. PICK q, r0, r : q = Kept(ab, A) /\ r0 = Kept(ab, B) /\ r = Stops(r0, "unknown")
  OBVIOUS
<1>14. Of(a) = Cond(a) /\ Of(b) = Cond(b) /\ Of(c) = Cond(c)
  BY <1>3, <1>4, StateIs
<1>15. Separate(ab) /\ \A k \in 1..2 : IsState(ab[k])
  <2>1. \A k \in 1..2 : k = 1 \/ k = 2
    OBVIOUS
  <2>2. Separate(ab)
    BY <1>4, <1>5, <1>14, SpanTwo
  <2> QED BY <1>4, <1>6, <2>1, <2>2
<1>16. /\ IsSeq(q) /\ Separate(q) /\ \A j \in 1..Len(q) : \E k \in A : q[j] = ab[k]
       /\ IsSeq(r0) /\ Separate(r0) /\ \A j \in 1..Len(r0) : \E k \in B : r0[j] = ab[k]
  <2>1. A \in SUBSET DOMAIN ab /\ B \in SUBSET DOMAIN ab
    BY <1>6, <1>12
  <2>2. IsSeq(q) /\ Separate(q) /\ \A j \in 1..Len(q) : \E k \in A : q[j] = ab[k]
    BY <1>6, <1>13, <1>15, <2>1, KeptSeparate
  <2>3. IsSeq(r0) /\ Separate(r0) /\ \A j \in 1..Len(r0) : \E k \in B : r0[j] = ab[k]
    BY <1>6, <1>13, <1>15, <2>1, KeptSeparate
  <2> QED BY <2>2, <2>3
<1>17. AreStates(q) /\ AreStates(r0)
  BY <1>12, <1>15, <1>16 DEF AreStates
<1>18. /\ AreStops(r) /\ Len(r) = Len(r0) /\ Span(r) = Span(r0) /\ Separate(r)
       /\ \A k \in 1..Len(r0) : r[k].state = r0[k] /\ Of(r[k]) = Of(r0[k])
  BY <1>13, <1>16, <1>17, StopsIs
<1>19. Span(q) = UNION {Of(ab[j]) : j \in A} /\ Span(r) = UNION {Of(ab[j]) : j \in B}
  BY <1>6, <1>12, <1>13, <1>18, KeptSpan
<1>20. /\ first # "sat" /\ first # "unknown" => Cond(a) = {}
       /\ second # "sat" /\ second # "unknown" => Cond(b) = {}
  BY <1>8 DEF Answer
<1>21. Span(q) \cup Span(r) = Of(c)
  <2>1. \A i \in Of(a) : i \in Span(q) \cup Span(r)
    BY <1>6, <1>12, <1>14, <1>19, <1>20
  <2>2. \A i \in Of(b) : i \in Span(q) \cup Span(r)
    BY <1>6, <1>12, <1>14, <1>19, <1>20
  <2>3. \A k \in 1..2 : Of(ab[k]) \subseteq Of(c)
    BY <1>4, <1>6, <1>11, <1>14
  <2>4. Span(q) \cup Span(r) \subseteq Of(c)
    BY <1>12, <1>19, <2>3
  <2> QED BY <1>4, <1>14, <2>1, <2>2, <2>4
<1>22. Span(q) \cap Span(r) = {}
  <2>1. \A j \in A, k \in B : Of(ab[j]) \cap Of(ab[k]) = {}
    BY <1>6, <1>12, <1>15 DEF Separate
  <2> QED BY <1>19, <2>1
<1>23. /\ \A k \in 1..Len(q) : q[k] = a \/ q[k] = b
       /\ \A k \in 1..Len(r) : r[k].state = a \/ r[k].state = b
  <2>1. \A k \in 1..2 : ab[k] = a \/ ab[k] = b
    BY <1>6, <1>11
  <2> QED BY <1>12, <1>16, <1>18, <2>1
<1>24. ASSUME ~ InRegion, {} \notin hard
       PROVE  /\ \A k \in 1..Len(q) : Of(q[k]) # {}
              /\ \A k \in 1..Len(r) : Of(r[k]) # {}
  <2>1. Of(c) # {}
    BY <1>1, <1>2, <1>24, RunningCan
  <2>2. {} \notin undecided
    BY <1>7, <1>24
  <2>3. /\ first = "sat" => Cond(a) # {}
        /\ first = "unknown" => Cond(a) # {}
        /\ first = "unsat" => Cond(a) = {}
    BY <1>8, <1>24, <2>2 DEF Answer
  <2>4. /\ second = "unknown" => Cond(b) # {}
        /\ second = "sat" => Cond(b) # {}
    BY <1>4, <1>8, <1>14, <1>24, <2>1, <2>2, <2>3 DEF Answer
  <2>5. \A k \in A \cup B : Of(ab[k]) # {}
    BY <1>6, <1>11, <1>12, <1>14, <2>3, <2>4
  <2> QED BY <1>16, <1>18, <2>5
<1>25. Yield(q, r)
  BY <1>9, <1>10, <1>13
<1>26. /\ \A k \in 1..Len(q) : \A p \in Seq(SUBSET Inputs) : Begins(Current, p) => Begins(q[k], p)
       /\ \A k \in 1..Len(r) : \A p \in Seq(SUBSET Inputs) :
             Begins(Current, p) => Begins(r[k].state, p)
  BY <1>2, <1>4, <1>23
<1>27. Span(q) \cup Span(r) = Of(Current)
  BY <1>2, <1>21
<1> QED BY <1>1, <1>16, <1>17, <1>18, <1>22, <1>24, <1>25, <1>26, <1>27, YieldStep

-----------------------------------------------------------------------------
(* Into a region, and to where its paths wait.                              *)

LEMMA TwoAre ==
    ASSUME NEW a, IsState(a), NEW b, IsState(b)
    PROVE  AreStates(<<a, b>>) /\ ToSet(<<a, b>>) = {a, b}
<1>1. PICK q : q = <<a, b>>
  OBVIOUS
<1>2. IsSeq(q) /\ Len(q) = 2 /\ q[1] = a /\ q[2] = b
  BY <1>1, SeqOfTwo
<1>3. 1..2 = {1, 2}
  OBVIOUS
<1>4. \A k \in 1..Len(q) : IsState(q[k])
  BY <1>2, <1>3
<1>5. ToSet(q) = {q[1], q[2]}
  <2>1. DOMAIN q = {1, 2}
    BY <1>2, <1>3, SeqLen
  <2> QED BY <2>1 DEF ToSet
<1> QED BY <1>1, <1>2, <1>4, <1>5 DEF AreStates

\* The call that a branch starts.
LEMMA Entered ==
    ASSUME NEW c, IsState(c), NEW region
    PROVE  LET n == [region |-> region, shared |-> Len(c.path), todo |-> Children(c),
                     arrived |-> <<>>, escaped |-> <<>>, stopped |-> <<>>]
           IN /\ IsFrame(n) /\ Tidy(n) /\ Covers(n) = Of(c) /\ n.shared = Len(c.path)
              /\ \A s \in Suspended(n) : Begins(s, c.path)
              /\ \A s \in Suspended(n) : \A p \in Seq(SUBSET Inputs) : Begins(c, p) => Begins(s, p)
<1>1. PICK a, b : /\ Children(c) = <<a, b>> /\ IsState(a) /\ IsState(b)
                  /\ Cond(a) \cup Cond(b) = Cond(c) /\ Cond(a) \cap Cond(b) = {}
                  /\ Begins(a, c.path) /\ Begins(b, c.path)
                  /\ \A p \in Seq(SUBSET Inputs) : Begins(c, p) => Begins(a, p) /\ Begins(b, p)
  BY ChildrenAre
<1>2. PICK n, ab : /\ n = [region |-> region, shared |-> Len(c.path), todo |-> Children(c),
                       arrived |-> <<>>, escaped |-> <<>>, stopped |-> <<>>]
                   /\ ab = Children(c)
  OBVIOUS
<1>3. /\ n = [region |-> n.region, shared |-> n.shared, todo |-> n.todo, arrived |-> n.arrived,
              escaped |-> n.escaped, stopped |-> n.stopped]
      /\ n.shared = Len(c.path) /\ n.todo = ab /\ n.arrived = <<>> /\ n.escaped = <<>>
      /\ n.stopped = <<>>
  BY <1>2
<1>4. Of(a) = Cond(a) /\ Of(b) = Cond(b) /\ Of(c) = Cond(c) /\ Len(c.path) \in Nat
  BY <1>1, StateIs
<1>5. AreStates(ab) /\ ToSet(ab) = {a, b} /\ Span(ab) = Of(c) /\ Separate(ab)
  <2>1. ab = <<a, b>>
    BY <1>1, <1>2
  <2>2. Of(a) \cap Of(b) = {} /\ Of(a) \cup Of(b) = Of(c)
    BY <1>1, <1>4
  <2> QED BY <1>1, <2>1, <2>2, TwoAre, SpanTwo
<1>6. AreStates(<<>>) /\ AreStops(<<>>) /\ Span(<<>>) = {} /\ Separate(<<>>) /\ ToSet(<<>>) = {}
  BY NoneAre
<1>7. IsFrame(n)
  BY <1>3, <1>4, <1>5, <1>6 DEF IsFrame
<1>8. Covers(n) = Of(c)
  BY <1>3, <1>5, <1>6 DEF Covers
<1>9. Tidy(n)
  BY <1>3, <1>5, <1>6 DEF Tidy
<1>10. Suspended(n) = {a, b}
  BY <1>3, <1>5, <1>6 DEF Suspended
<1>11. n.shared = Len(c.path) /\ \A s \in Suspended(n) : Begins(s, c.path)
  BY <1>1, <1>3, <1>10
<1>12. \A s \in Suspended(n) : \A p \in Seq(SUBSET Inputs) : Begins(c, p) => Begins(s, p)
  BY <1>1, <1>10
<1> QED BY <1>2, <1>7, <1>8, <1>9, <1>11, <1>12

\* What is left of a call when the state that runs has been taken out.
LEMMA TakenOut ==
    ASSUME NEW B, StackOK(B), NEW f, Nests(B, f), f.todo # <<>>,
           NEW g, IsFrame(g), Tidy(g), g.shared = f.shared,
           Covers(f) = Covers(g) \cup Of(Last(f.todo)), Covers(g) \cap Of(Last(f.todo)) = {},
           Suspended(g) \subseteq Suspended(f)
    PROVE  Nests(B, g)
<1>1. \A p : FrameBegins(f, p) => FrameBegins(g, p)
  BY DEF FrameBegins
<1>2. InStack(B) \cap Covers(g) = {}
  BY DEF Nests
<1> QED BY <1>1, <1>2, StackSwap

LEMMA StackPush ==
    ASSUME NEW B, StackOK(B), NEW f, Nests(B, f),
           NEW g, Nests(B, g), g.shared = f.shared, Suspended(g) \subseteq Suspended(f),
           NEW c \in Suspended(f), Covers(f) = Covers(g) \cup Of(c), Covers(g) \cap Of(c) = {},
           NEW n, IsFrame(n), Tidy(n), Covers(n) = Of(c), n.shared = Len(c.path),
           c.path \in Seq(SUBSET Inputs), \A s \in Suspended(n) : Begins(s, c.path),
           \A s \in Suspended(n) : \A p \in Seq(SUBSET Inputs) : Begins(c, p) => Begins(s, p)
    PROVE  Nests(Append(B, g), n)
<1>1. IsFrame(f) /\ Beneath(B, f) /\ Starts(f) /\ InStack(B) \cap Covers(f) = {} /\ IsSeq(B)
  BY DEF Nests, StackOK
<1>2. PICK m \in Nat : m = Len(B)
  BY <1>1, SeqLen
<1>3. PICK S : S = Append(B, g)
  OBVIOUS
<1>4. Len(S) = m + 1 /\ S[m + 1] = g /\ \A k \in 1..m : S[k] = B[k]
  BY <1>1, <1>2, <1>3, SeqAppend
<1>5. InStack(S) = InStack(B) \cup Covers(g)
  BY <1>3, StackMake
<1>6. InStack(S) \cap Covers(n) = {}
  BY <1>1, <1>5
<1>7. ASSUME NEW p \in Seq(SUBSET Inputs), FrameBegins(f, p)
      PROVE  FrameBegins(g, p) /\ FrameBegins(n, p)
  <2>1. FrameBegins(g, p)
    BY <1>7 DEF FrameBegins
  <2>2. Begins(c, p)
    BY <1>7 DEF FrameBegins
  <2> QED BY <2>1, <2>2 DEF FrameBegins, Begins
<1>8. ASSUME NEW k \in 1..(m + 1)
      PROVE  \E p \in Seq(SUBSET Inputs) :
                /\ Len(p) = S[k].shared /\ FrameBegins(n, p)
                /\ \A l \in k..(m + 1) : FrameBegins(S[l], p)
  <2>1. CASE k = m + 1
    <3>1. PICK p \in Seq(SUBSET Inputs) : Len(p) = f.shared /\ FrameBegins(f, p)
      BY <1>1 DEF Starts
    <3>2. \A l \in k..(m + 1) : l = m + 1
      BY <2>1
    <3>3. FrameBegins(g, p) /\ FrameBegins(n, p)
      BY <1>7, <3>1
    <3> QED BY <1>4, <2>1, <3>1, <3>2, <3>3
  <2>2. CASE k \in 1..m
    <3>1. PICK p \in Seq(SUBSET Inputs) :
              /\ Len(p) = B[k].shared /\ FrameBegins(f, p)
              /\ \A l \in k..m : FrameBegins(B[l], p)
      BY <1>1, <1>2, <2>2 DEF Beneath
    <3>2. FrameBegins(g, p) /\ FrameBegins(n, p)
      BY <1>7, <3>1
    <3>3. \A l \in k..(m + 1) : l = m + 1 \/ (l \in k..m /\ l \in 1..m)
      BY <2>2
    <3>4. \A l \in k..(m + 1) : FrameBegins(S[l], p)
      BY <1>4, <3>1, <3>2, <3>3
    <3> QED BY <1>4, <2>2, <3>1, <3>2, <3>4
  <2>3. k = m + 1 \/ k \in 1..m
    OBVIOUS
  <2> QED BY <2>1, <2>2, <2>3
<1>9. Beneath(S, n)
  BY <1>4, <1>8 DEF Beneath
<1>10. Starts(n)
  BY DEF Starts, FrameBegins
<1> QED BY <1>3, <1>6, <1>9, <1>10 DEF Nests

LEMMA EnterKeeps == MergeInv /\ Enter => MergeInv'
<1> SUFFICES ASSUME MergeInv, Enter PROVE MergeInv'
  OBVIOUS
<1>1. Runs
  BY DEF Enter, Branching, At, Working
<1>2. PICK c : c = Current
  OBVIOUS
<1>3. IsState(c) /\ c.path \in Seq(SUBSET Inputs)
  BY <1>1, <1>2, CurrentIs DEF IsState
<1>4. PICK n : n = [region |-> RegionOf[prog][c.block], shared |-> Len(c.path),
                    todo |-> Children(c), arrived |-> <<>>, escaped |-> <<>>, stopped |-> <<>>]
  OBVIOUS
<1>5. /\ IsFrame(n) /\ Tidy(n) /\ Covers(n) = Of(c) /\ n.shared = Len(c.path)
      /\ \A s \in Suspended(n) : Begins(s, c.path)
      /\ \A s \in Suspended(n) : \A p \in Seq(SUBSET Inputs) : Begins(c, p) => Begins(s, p)
  BY <1>3, <1>4, Entered
<1>6. PICK S : S = IF InRegion THEN Append(Below, Popped) ELSE <<>>
  OBVIOUS
<1>7. stack' = Append(S, n) /\ run' = NoState /\ UNCHANGED <<fixed, pending, ended>>
  BY <1>2, <1>4, <1>6 DEF Enter
<1>8. StackOK(S) /\ Nests(S, n) /\ InStack(S) \cup Of(c) = Running \cup InStack(stack)
  <2>1. CASE InRegion
    <3>1. /\ IsFrame(Top) /\ Current = Last(Top.todo) /\ Top.todo # <<>> /\ run = NoState
          /\ Nests(Below, Top) /\ StackOK(Below)
      BY <1>1, <2>1, CurrentIs
    <3>2. PICK B, f, g : B = Below /\ f = Top /\ g = Popped
      OBVIOUS
    <3>3. StackOK(stack) /\ stack # <<>>
      BY <2>1 DEF MergeInv, InRegion
    <3>4. InStack(stack) = InStack(B) \cup Covers(f)
      BY <3>2, <3>3, StackTop DEF Below, Top
    <3>5. g = [f EXCEPT !.todo = Front(@)] /\ f.todo # <<>> /\ c = Last(f.todo)
      BY <1>2, <3>1, <3>2 DEF Popped
    <3>6. StackOK(B) /\ Nests(B, f) /\ IsFrame(f) /\ Tidy(f)
      BY <3>1, <3>2 DEF Nests
    <3>7. /\ IsFrame(g) /\ Tidy(g) /\ g.shared = f.shared
          /\ Covers(f) = Covers(g) \cup Of(Last(f.todo)) /\ Covers(g) \cap Of(Last(f.todo)) = {}
          /\ Suspended(g) \subseteq Suspended(f) /\ Last(f.todo) \in Suspended(f)
      BY <3>5, <3>6, PoppedIs
    <3>8. Nests(B, g)
      BY <3>5, <3>6, <3>7, TakenOut
    <3>9. S = Append(B, g)
      BY <1>6, <2>1, <3>2
    <3>10. StackOK(S) /\ InStack(S) = InStack(B) \cup Covers(g)
      BY <3>6, <3>8, <3>9, StackMake
    <3>11. Nests(S, n)
      BY <1>3, <1>5, <3>5, <3>6, <3>7, <3>8, <3>9, StackPush
    <3>12. Running = {}
      BY <3>1 DEF Running
    <3> QED BY <3>4, <3>5, <3>7, <3>10, <3>11, <3>12
  <2>2. CASE ~ InRegion
    <3>1. S = <<>> /\ Running = Of(c) /\ InStack(stack) = {}
      BY <1>1, <1>2, <1>6, <2>2, CurrentIs
    <3>2. StackOK(S) /\ InStack(S) = {} /\ Len(S) = 0
      BY <3>1, StackEmpty, SeqEmpty
    <3>3. \A k \in 1..0 : FALSE
      OBVIOUS
    <3>4. Beneath(S, n)
      BY <3>2, <3>3 DEF Beneath
    <3>5. Starts(n)
      BY <1>3, <1>5 DEF Starts, FrameBegins
    <3>6. Nests(S, n)
      BY <1>5, <3>2, <3>4, <3>5 DEF Nests
    <3> QED BY <3>1, <3>2, <3>6
  <2> QED BY <2>1, <2>2
<1>9. StackOK(stack') /\ InStack(stack') = Running \cup InStack(stack)
  BY <1>5, <1>7, <1>8, StackMake
<1>10. Running' = {}
  BY <1>7 DEF Running
<1>11. Shape'
  BY <1>7 DEF MergeInv, Shape
<1>12. /\ Outside' = Among(pending) \cup Among(ended) /\ TidyOutside'
  BY <1>7, <1>10 DEF MergeInv, Divided, TidyOutside, Outside
<1>13. /\ Among(pending) \cap Running = {} /\ Running \cap Among(ended) = {}
       /\ Outside \cap InStack(stack) = {} /\ Outside \cup InStack(stack) = Inputs
       /\ Outside = Among(pending) \cup Running \cup Among(ended)
  BY DEF MergeInv, Divided, TidyOutside, Outside
<1>14. Divided'
  BY <1>9, <1>12, <1>13 DEF Divided
<1>15. Possibly'
  BY <1>7 DEF MergeInv, Possibly, fixed
<1> QED BY <1>9, <1>11, <1>14, <1>15 DEF MergeInv

\* The state is put aside.
LEMMA AsideKeeps ==
    ASSUME MergeInv, InRegion, Runs, UNCHANGED <<fixed, outside>>,
           \/ stack' = Append(Below, [Popped EXCEPT !.arrived = Append(@, Current)])
           \/ stack' = Append(Below, [Popped EXCEPT !.escaped = Append(@, Current)])
    PROVE  MergeInv'
<1>1. PICK c, g : c = Current /\ g = Popped
  OBVIOUS
<1>2. IsState(c) /\ IsFrame(g)
  BY <1>1, CurrentIs
<1>3. /\ g = [region |-> g.region, shared |-> g.shared, todo |-> g.todo, arrived |-> g.arrived,
              escaped |-> g.escaped, stopped |-> g.stopped]
  BY <1>2 DEF IsFrame
<1>4. IsSeq(g.todo) /\ IsSeq(g.arrived) /\ IsSeq(g.escaped) /\ IsSeq(g.stopped)
  BY <1>2, FrameIs
<1>5. /\ g.todo \o <<>> = g.todo /\ g.arrived \o <<>> = g.arrived /\ g.escaped \o <<>> = g.escaped
      /\ g.stopped \o <<>> = g.stopped
  BY <1>4, ConcatNone
<1>6. PICK t, u : /\ t = Append(g.arrived, c) /\ t = g.arrived \o <<c>>
                  /\ u = Append(g.escaped, c) /\ u = g.escaped \o <<c>>
  BY <1>4, AppendOne
<1>7. PICK h, k : h = Part(<<>>, <<c>>, <<>>, <<>>) /\ k = Part(<<>>, <<>>, <<c>>, <<>>)
  OBVIOUS
<1>8. [g EXCEPT !.arrived = t] = Plus(g, h)
  <2>1. Plus(g, h) = [region |-> g.region, shared |-> g.shared, todo |-> g.todo, arrived |-> t,
                      escaped |-> g.escaped, stopped |-> g.stopped]
    BY <1>5, <1>6, <1>7 DEF Plus, Part
  <2>2. [g EXCEPT !.arrived = t]
          = [region |-> g.region, shared |-> g.shared, todo |-> g.todo, arrived |-> t,
             escaped |-> g.escaped, stopped |-> g.stopped]
    <3>1. PICK r1, s1, t1, a1, e1, o1 :
             /\ r1 = g.region /\ s1 = g.shared /\ t1 = g.todo /\ a1 = g.arrived
             /\ e1 = g.escaped /\ o1 = g.stopped
      OBVIOUS
    <3>2. g = [region |-> r1, shared |-> s1, todo |-> t1, arrived |-> a1, escaped |-> e1,
               stopped |-> o1]
      BY <1>3, <3>1
    <3>3. [g EXCEPT !.arrived = t]
            = [region |-> r1, shared |-> s1, todo |-> t1, arrived |-> t, escaped |-> e1, stopped |-> o1]
      BY <3>2
    <3> QED BY <3>1, <3>3
  <2> QED BY <2>1, <2>2
<1>9. [g EXCEPT !.escaped = u] = Plus(g, k)
  <2>1. Plus(g, k) = [region |-> g.region, shared |-> g.shared, todo |-> g.todo,
                      arrived |-> g.arrived, escaped |-> u, stopped |-> g.stopped]
    BY <1>5, <1>6, <1>7 DEF Plus, Part
  <2>2. [g EXCEPT !.escaped = u]
          = [region |-> g.region, shared |-> g.shared, todo |-> g.todo, arrived |-> g.arrived,
             escaped |-> u, stopped |-> g.stopped]
    <3>1. PICK r1, s1, t1, a1, e1, o1 :
             /\ r1 = g.region /\ s1 = g.shared /\ t1 = g.todo /\ a1 = g.arrived
             /\ e1 = g.escaped /\ o1 = g.stopped
      OBVIOUS
    <3>2. g = [region |-> r1, shared |-> s1, todo |-> t1, arrived |-> a1, escaped |-> e1,
               stopped |-> o1]
      BY <1>3, <3>1
    <3>3. [g EXCEPT !.escaped = u]
            = [region |-> r1, shared |-> s1, todo |-> t1, arrived |-> a1, escaped |-> u, stopped |-> o1]
      BY <3>2
    <3> QED BY <3>1, <3>3
  <2> QED BY <2>1, <2>2
<1>10. AreStates(<<c>>) /\ Span(<<c>>) = Of(c) /\ Separate(<<c>>) /\ ToSet(<<c>>) = {c}
  BY <1>2, OneIs
<1>11. AreStates(<<>>) /\ AreStops(<<>>) /\ Span(<<>>) = {} /\ Separate(<<>>) /\ ToSet(<<>>) = {}
  BY NoneAre
<1>12. /\ IsFrame(h) /\ Covers(h) = Span(<<>>) \cup Span(<<c>>) \cup Span(<<>>) \cup Span(<<>>)
       /\ Suspended(h) = ToSet(<<>>) \cup ToSet(<<c>>) \cup ToSet(<<>>)
                         \cup {x.state : x \in ToSet(<<>>)}
  BY <1>7, <1>10, <1>11, PartIs
<1>13. /\ IsFrame(k) /\ Covers(k) = Span(<<>>) \cup Span(<<>>) \cup Span(<<c>>) \cup Span(<<>>)
       /\ Suspended(k) = ToSet(<<>>) \cup ToSet(<<>>) \cup ToSet(<<c>>)
                         \cup {x.state : x \in ToSet(<<>>)}
  BY <1>7, <1>10, <1>11, PartIs
<1>14. Tidy(h) /\ Tidy(k)
  BY <1>7, <1>10, <1>11, PartTidy
<1>15. Covers(h) = Of(c) /\ Covers(k) = Of(c) /\ Suspended(h) = {c} /\ Suspended(k) = {c}
  BY <1>10, <1>11, <1>12, <1>13
<1>16. /\ \A s \in Suspended(h) : \A p \in Seq(SUBSET Inputs) : Begins(Current, p) => Begins(s, p)
       /\ \A s \in Suspended(k) : \A p \in Seq(SUBSET Inputs) : Begins(Current, p) => Begins(s, p)
  BY <1>1, <1>15
<1>17. CASE stack' = Append(Below, [Popped EXCEPT !.arrived = Append(@, Current)])
  <2>1. stack' = Append(Below, Plus(Popped, h))
    BY <1>1, <1>6, <1>8, <1>17
  <2> QED BY <1>1, <1>12, <1>14, <1>15, <1>16, <2>1, InsideStep
<1>18. CASE stack' = Append(Below, [Popped EXCEPT !.escaped = Append(@, Current)])
  <2>1. stack' = Append(Below, Plus(Popped, k))
    BY <1>1, <1>6, <1>9, <1>18
  <2> QED BY <1>1, <1>13, <1>14, <1>15, <1>16, <2>1, InsideStep
<1> QED BY <1>17, <1>18

LEMMA PutAsideKeeps ==
    ASSUME MergeInv, Arrive \/ Escape
    PROVE  MergeInv'
BY AsideKeeps DEF Arrive, Escape

-----------------------------------------------------------------------------
(* The merge.                                                               *)

\* The conditions of a path are those met before the branch, and the selector's.
LEMMA SelectorIs ==
    ASSUME NEW s, IsState(s), NEW u \in Seq(SUBSET Inputs), Begins(s, u)
    PROVE  /\ Cond(s) = Conjunction(u) \cap Selector(s, Len(u))
           /\ SubSeq(s.path, 1, Len(u)) = u
<1>1. PICK p : p = s.path
  OBVIOUS
<1>2. PICK n \in Nat, m \in Nat : n = Len(p) /\ m = Len(u)
  BY <1>1, LenProperties DEF IsState
<1>3. /\ p \in Seq(SUBSET Inputs) /\ m <= n /\ \A j \in 1..m : p[j] = u[j]
      /\ DOMAIN p = 1..n /\ DOMAIN u = 1..m
  BY <1>1, <1>2, LenProperties DEF IsState, Begins
<1>4. \A k \in 1..n : p[k] \in SUBSET Inputs
  BY <1>2, <1>3, ElementOfSeq
<1>5. /\ SubSeq(p, 1, m) \in Seq(SUBSET Inputs) /\ Len(SubSeq(p, 1, m)) = m
      /\ \A j \in 1..m : SubSeq(p, 1, m)[j] = p[j]
  <2>1. \A k \in 1..m : p[k] \in SUBSET Inputs
    BY <1>3, <1>4
  <2>2. /\ SubSeq(p, 1, m) \in Seq(SUBSET Inputs)
        /\ Len(SubSeq(p, 1, m)) = IF 1 <= m THEN m - 1 + 1 ELSE 0
        /\ \A k \in 1..(m - 1 + 1) : SubSeq(p, 1, m)[k] = p[1 + k - 1]
    BY <2>1, SubSeqProperties
  <2> QED BY <2>2
<1>6. SubSeq(p, 1, m) = u
  BY <1>2, <1>3, <1>5, SeqEqual
<1>7. PICK t : t = SubSeq(p, m + 1, n)
  OBVIOUS
<1>8. t \in Seq(SUBSET Inputs) /\ Len(t) = n - m /\ \A j \in 1..(n - m) : t[j] = p[m + j]
  <2>1. \A k \in (m + 1)..n : p[k] \in SUBSET Inputs
    BY <1>4
  <2>2. /\ SubSeq(p, m + 1, n) \in Seq(SUBSET Inputs)
        /\ Len(SubSeq(p, m + 1, n)) = IF m + 1 <= n THEN n - (m + 1) + 1 ELSE 0
        /\ \A k \in 1..(n - (m + 1) + 1) : SubSeq(p, m + 1, n)[k] = p[(m + 1) + k - 1]
    BY <2>1, SubSeqProperties
  <2>3. Len(t) = n - m
    BY <1>3, <1>7, <2>2
  <2>4. \A j \in 1..(n - m) : j \in 1..(n - (m + 1) + 1) /\ (m + 1) + j - 1 = m + j
    OBVIOUS
  <2> QED BY <1>7, <2>2, <2>3, <2>4
<1>9. DOMAIN t = 1..(n - m)
  BY <1>8, LenProperties
<1>10. Selector(s, m) = {i \in Inputs : \A k \in 1..(n - m) : i \in t[k]}
  BY <1>1, <1>2, <1>7, <1>9 DEF Selector, Conjunction
<1>11. Conjunction(u) = {i \in Inputs : \A k \in 1..m : i \in u[k]}
  BY <1>3 DEF Conjunction
<1>12. Cond(s) = {i \in Inputs : \A k \in 1..n : i \in p[k]}
  BY <1>1, <1>3 DEF Cond, Conjunction
<1>13. ASSUME NEW i \in Inputs
       PROVE  (\A k \in 1..n : i \in p[k])
              <=> (\A k \in 1..m : i \in u[k]) /\ \A k \in 1..(n - m) : i \in t[k]
  <2>1. ASSUME \A k \in 1..n : i \in p[k]
        PROVE  (\A k \in 1..m : i \in u[k]) /\ \A k \in 1..(n - m) : i \in t[k]
    <3>1. \A k \in 1..m : k \in 1..n
      BY <1>3
    <3>2. \A k \in 1..(n - m) : m + k \in 1..n
      BY <1>3
    <3> QED BY <1>3, <1>8, <2>1, <3>1, <3>2
  <2>2. ASSUME \A k \in 1..m : i \in u[k], \A k \in 1..(n - m) : i \in t[k], NEW k \in 1..n
        PROVE  i \in p[k]
    <3>1. CASE k <= m
      <4>1. k \in 1..m
        BY <3>1
      <4> QED BY <1>3, <2>2, <4>1
    <3>2. CASE m < k
      <4>1. k - m \in 1..(n - m) /\ m + (k - m) = k
        BY <3>2
      <4> QED BY <1>8, <2>2, <4>1
    <3> QED BY <3>1, <3>2
  <2> QED BY <2>1, <2>2
<1>14. Cond(s) = Conjunction(u) \cap Selector(s, m)
  BY <1>10, <1>11, <1>12, <1>13
<1> QED BY <1>1, <1>2, <1>6, <1>14

\* The state a merge makes holds the inputs of all its paths.
LEMMA FoldedIs ==
    ASSUME NEW q, AreStates(q), q # <<>>, NEW u \in Seq(SUBSET Inputs), NEW join,
           \A k \in 1..Len(q) : Begins(q[k], u)
    PROVE  /\ IsState(Folded(q, Len(u), join))
           /\ Cond(Folded(q, Len(u), join)) = Span(q)
           /\ \A p \in Seq(SUBSET Inputs) :
                 Len(p) <= Len(u) /\ Begins(q[1], p) => Begins(Folded(q, Len(u), join), p)
<1>1. IsSeq(q) /\ \A k \in 1..Len(q) : IsState(q[k])
  BY DEF AreStates
<1>2. PICK n \in Nat \ {0} : n = Len(q) /\ Last(q) = q[n] /\ DOMAIN q = 1..n
  BY <1>1, SeqFront, SeqLen
<1>3. 1 \in 1..n /\ n \in 1..n
  OBVIOUS
<1>4. PICK last : last = q[n]
  OBVIOUS
<1>5. IsState(last) /\ Begins(last, u)
  BY <1>1, <1>2, <1>3, <1>4
<1>6. PICK sel : sel = [k \in 1..n |-> Selector(q[k], Len(u))]
  OBVIOUS
<1>7. PICK d, v : Folded(q, Len(u), join)
                    = Assume([last EXCEPT !.data = d, !.path = SubSeq(@, 1, Len(u)), !.visits = v],
                             UNION Range(sel))
  BY <1>2, <1>4, <1>6 DEF Folded
<1>8. PICK m : m = [last EXCEPT !.data = d, !.path = SubSeq(@, 1, Len(u)), !.visits = v]
  OBVIOUS
<1>9. IsState(m) /\ m.path = u
  <2>1. PICK b1, n1, d1, p1, v1 :
           /\ last = [block |-> b1, position |-> n1, data |-> d1, path |-> p1, visits |-> v1]
           /\ p1 = last.path
    BY <1>5, FieldsIs
  <2>2. SubSeq(p1, 1, Len(u)) = u
    BY <1>5, <2>1, SelectorIs
  <2>3. m = [last EXCEPT !.data = d, !.path = u, !.visits = v]
    BY <1>8, <2>1, <2>2
  <2>4. PICK x : x = [last EXCEPT !.data = d]
    OBVIOUS
  <2>5. x = [block |-> b1, position |-> n1, data |-> d, path |-> p1, visits |-> v1]
    BY <2>1, <2>4
  <2>6. PICK y : y = [x EXCEPT !.path = u]
    OBVIOUS
  <2>7. y = [block |-> b1, position |-> n1, data |-> d, path |-> u, visits |-> v1]
    BY <2>5, <2>6
  <2>8. m = [y EXCEPT !.visits = v]
    BY <2>3, <2>4, <2>6
  <2>9. m = [block |-> b1, position |-> n1, data |-> d, path |-> u, visits |-> v]
    BY <2>7, <2>8
  <2> QED BY <2>9, RecordIs
<1>10. PICK c : c = UNION Range(sel)
  OBVIOUS
<1>11. c = UNION {Selector(q[k], Len(u)) : k \in 1..n}
  BY <1>6, <1>10 DEF Range
<1>12. c \in SUBSET Inputs
  BY <1>11 DEF Selector, Conjunction
<1>13. PICK r : r = Folded(q, Len(u), join)
  OBVIOUS
<1>14. r = Assume(m, c)
  BY <1>7, <1>8, <1>10, <1>13
<1>15. /\ IsState(r) /\ Cond(r) = Cond(m) \cap c
       /\ \A p \in Seq(SUBSET Inputs) : Begins(m, p) => Begins(r, p)
  BY <1>9, <1>12, <1>14, AssumeIs
<1>16. Cond(m) = Conjunction(u)
  BY <1>9 DEF Cond
<1>17. \A k \in 1..n : Of(q[k]) = Conjunction(u) \cap Selector(q[k], Len(u))
  BY <1>1, <1>2, SelectorIs, StateIs
<1>18. Cond(r) = Span(q)
  BY <1>2, <1>11, <1>15, <1>16, <1>17 DEF Span
<1>19. ASSUME NEW p \in Seq(SUBSET Inputs), Len(p) <= Len(u), Begins(q[1], p)
       PROVE  Begins(r, p)
  <2>1. Len(p) \in Nat /\ Len(u) \in Nat
    BY LenProperties
  <2>2. \A j \in 1..Len(p) : j \in 1..Len(u)
    BY <1>19, <2>1
  <2>3. \A j \in 1..Len(u) : q[1].path[j] = u[j]
    BY <1>2, <1>3 DEF Begins
  <2>4. \A j \in 1..Len(p) : q[1].path[j] = p[j]
    BY <1>19 DEF Begins
  <2>5. \A j \in 1..Len(p) : u[j] = p[j]
    BY <2>2, <2>3, <2>4
  <2>6. Begins(m, p)
    BY <1>9, <1>19, <2>5 DEF Begins
  <2> QED BY <1>15, <2>6
<1> QED BY <1>13, <1>15, <1>18, <1>19

\* What arrived, merged or not.
LEMMA ArrivalsAre ==
    ASSUME NEW f, IsFrame(f), Tidy(f), Starts(f)
    PROVE  /\ AreStates(Arrivals(f)) /\ Separate(Arrivals(f)) /\ Span(Arrivals(f)) = Span(f.arrived)
           /\ \A k \in 1..Len(Arrivals(f)) : \A p \in Seq(SUBSET Inputs) :
                 FrameBegins(f, p) => Begins(Arrivals(f)[k], p)
<1>1. /\ AreStates(f.arrived) /\ IsSeq(f.arrived) /\ Separate(f.arrived)
      /\ \A k \in 1..Len(f.arrived) : f.arrived[k] \in Suspended(f)
  BY FrameIs DEF IsFrame, Tidy
<1>2. PICK u \in Seq(SUBSET Inputs) : Len(u) = f.shared /\ FrameBegins(f, u)
  BY DEF Starts
<1>3. \A k \in 1..Len(f.arrived) : \A p \in Seq(SUBSET Inputs) :
         FrameBegins(f, p) => Begins(f.arrived[k], p)
  BY <1>1 DEF FrameBegins
<1>4. CASE Len(f.arrived) > 1 /\ Mergeable(f.arrived, f.region.join)
  <2>1. PICK r : r = Folded(f.arrived, f.shared, f.region.join)
    OBVIOUS
  <2>2. Arrivals(f) = <<r>>
    BY <1>4, <2>1 DEF Arrivals
  <2>3. f.arrived # <<>> /\ Len(f.arrived) \in Nat
    BY <1>1, <1>4, SeqLen
  <2>4. 1 \in 1..Len(f.arrived)
    BY <1>4, <2>3
  <2>5. \A k \in 1..Len(f.arrived) : Begins(f.arrived[k], u)
    BY <1>2, <1>3
  <2>6. /\ IsState(r) /\ Cond(r) = Span(f.arrived)
        /\ \A p \in Seq(SUBSET Inputs) :
              Len(p) <= Len(u) /\ Begins(f.arrived[1], p) => Begins(r, p)
    BY <1>1, <1>2, <2>1, <2>3, <2>5, FoldedIs
  <2>7. \A p \in Seq(SUBSET Inputs) : FrameBegins(f, p) => Begins(r, p)
    BY <1>2, <1>3, <2>4, <2>6 DEF FrameBegins
  <2>8. /\ AreStates(<<r>>) /\ Span(<<r>>) = Of(r) /\ Separate(<<r>>)
        /\ Len(<<r>>) = 1 /\ <<r>>[1] = r
    BY <2>6, OneIs, SeqOfTwo
  <2>9. Of(r) = Cond(r)
    BY <2>6, StateIs
  <2>10. \A k \in 1..1 : k = 1
    OBVIOUS
  <2>11. \A k \in 1..Len(<<r>>) : <<r>>[k] = r
    BY <2>8, <2>10
  <2> QED BY <2>2, <2>6, <2>7, <2>8, <2>9, <2>11
<1>5. CASE ~ (Len(f.arrived) > 1 /\ Mergeable(f.arrived, f.region.join))
  <2>1. Arrivals(f) = f.arrived
    BY <1>5 DEF Arrivals
  <2> QED BY <1>1, <1>3, <2>1
<1> QED BY <1>4, <1>5

-----------------------------------------------------------------------------
(* Out of a region.                                                         *)

\* What cannot happen is dropped, and nothing else.
Sifted(q, w, undecided) ==
    /\ Separate(q) /\ Span(q) = Span(w)
    /\ \A j \in 1..Len(q) : \E k \in 1..Len(w) : q[j] = w[k]
    /\ {} \notin undecided => \A j \in 1..Len(q) : Of(q[j]) # {}

LEMMA PossibleIs ==
    ASSUME NEW w, AreStates(w), Separate(w), NEW undecided, NEW q, q = Possible(w, undecided)
    PROVE  AreStates(q) /\ Sifted(q, w, undecided)
<1>1. IsSeq(w) /\ DOMAIN w = 1..Len(w) /\ \A k \in 1..Len(w) : IsState(w[k])
  BY SeqLen DEF AreStates
<1>2. PICK places : places = {k \in DOMAIN w : Maybe(w[k], undecided)}
  OBVIOUS
<1>3. places \in SUBSET DOMAIN w
  BY <1>2
<1>4. q = Kept(w, places)
  BY <1>2 DEF Possible
<1>5. \A k \in 1..Len(w) : k \notin places => Of(w[k]) = {}
  BY <1>1, <1>2, StateIs DEF Maybe
<1>6. Span(q) = Span(w)
  BY <1>1, <1>3, <1>4, <1>5, SpanKept
<1>7. /\ IsSeq(q) /\ Separate(q)
      /\ \A j \in 1..Len(q) : \E k \in places : k \in 1..Len(w) /\ q[j] = w[k]
  BY <1>1, <1>3, <1>4, KeptSeparate
<1>8. AreStates(q)
  BY <1>1, <1>7 DEF AreStates
<1>9. ASSUME {} \notin undecided PROVE \A j \in 1..Len(q) : Of(q[j]) # {}
  <2>1. \A k \in places : Of(w[k]) # {}
    BY <1>1, <1>2, <1>9, StateIs DEF Maybe
  <2> QED BY <1>7, <2>1
<1> QED BY <1>6, <1>7, <1>8, <1>9 DEF Sifted

LEMMA PossibleStopsIs ==
    ASSUME NEW w, AreStops(w), Separate(w), NEW undecided, NEW q, q = PossibleStops(w, undecided)
    PROVE  AreStops(q) /\ Sifted(q, w, undecided)
<1>1. IsSeq(w) /\ DOMAIN w = 1..Len(w) /\ \A k \in 1..Len(w) : IsStop(w[k])
  BY SeqLen DEF AreStops
<1>2. PICK places : places = {k \in DOMAIN w : Maybe(w[k].state, undecided)}
  OBVIOUS
<1>3. places \in SUBSET DOMAIN w
  BY <1>2
<1>4. q = Kept(w, places)
  BY <1>2 DEF PossibleStops
<1>5. \A k \in 1..Len(w) : k \notin places => Of(w[k]) = {}
  BY <1>1, <1>2, StopIs DEF Maybe
<1>6. Span(q) = Span(w)
  BY <1>1, <1>3, <1>4, <1>5, SpanKept
<1>7. /\ IsSeq(q) /\ Separate(q)
      /\ \A j \in 1..Len(q) : \E k \in places : k \in 1..Len(w) /\ q[j] = w[k]
  BY <1>1, <1>3, <1>4, KeptSeparate
<1>8. AreStops(q)
  BY <1>1, <1>7 DEF AreStops
<1>9. ASSUME {} \notin undecided PROVE \A j \in 1..Len(q) : Of(q[j]) # {}
  <2>1. \A k \in places : Of(w[k]) # {}
    BY <1>1, <1>2, <1>9, StopIs DEF Maybe
  <2> QED BY <1>7, <2>1
<1> QED BY <1>6, <1>7, <1>8, <1>9 DEF Sifted

\* What a call hands on when none of its paths runs any more.
HandsOn(f, q, r, undecided) ==
    /\ AreStates(q) /\ Separate(q) /\ AreStops(r) /\ Separate(r)
    /\ Span(q) \cup Span(r) = Covers(f) /\ Span(q) \cap Span(r) = {}
    /\ \A k \in 1..Len(q) : \A p \in Seq(SUBSET Inputs) : FrameBegins(f, p) => Begins(q[k], p)
    /\ \A k \in 1..Len(r) : \A p \in Seq(SUBSET Inputs) :
          FrameBegins(f, p) => Begins(r[k].state, p)
    /\ {} \notin undecided => /\ \A k \in 1..Len(q) : Of(q[k]) # {}
                              /\ \A k \in 1..Len(r) : Of(r[k]) # {}

LEMMA HandedOn ==
    ASSUME NEW f, IsFrame(f), Tidy(f), Starts(f), f.todo = <<>>, NEW undecided,
           NEW q, q = Possible(Arrivals(f) \o f.escaped, undecided),
           NEW r, r = PossibleStops(f.stopped, undecided)
    PROVE  HandsOn(f, q, r, undecided)
<1>1. PICK a, e, o : a = Arrivals(f) /\ e = f.escaped /\ o = f.stopped
  OBVIOUS
<1>2. /\ AreStates(a) /\ Separate(a) /\ Span(a) = Span(f.arrived)
      /\ \A k \in 1..Len(a) : \A p \in Seq(SUBSET Inputs) : FrameBegins(f, p) => Begins(a[k], p)
  BY <1>1, ArrivalsAre
<1>3. /\ AreStates(e) /\ Separate(e) /\ AreStops(o) /\ Separate(o)
      /\ Span(a) \cap Span(e) = {} /\ Span(a) \cap Span(o) = {} /\ Span(e) \cap Span(o) = {}
  BY <1>1, <1>2 DEF IsFrame, Tidy
<1>4. Covers(f) = Span(a) \cup Span(e) \cup Span(o)
  <2>1. Span(f.todo) = {}
    BY NoneAre
  <2> QED BY <1>1, <1>2, <2>1 DEF Covers
<1>5. /\ \A k \in 1..Len(e) : \A p \in Seq(SUBSET Inputs) : FrameBegins(f, p) => Begins(e[k], p)
      /\ \A k \in 1..Len(o) : \A p \in Seq(SUBSET Inputs) :
            FrameBegins(f, p) => Begins(o[k].state, p)
  BY <1>1, FrameIs DEF FrameBegins
<1>6. PICK w : w = a \o e
  OBVIOUS
<1>7. IsSeq(a) /\ IsSeq(e)
  BY <1>2, <1>3 DEF AreStates
<1>8. AreStates(w) /\ Separate(w) /\ Span(w) = Span(a) \cup Span(e)
  BY <1>2, <1>3, <1>6, <1>7, StatesConcat, SpanConcat
<1>9. \A k \in 1..Len(w) : (\E j \in 1..Len(a) : w[k] = a[j]) \/ \E j \in 1..Len(e) : w[k] = e[j]
  <2>0. /\ \A k \in 1..Len(a) : (a \o e)[k] = a[k]
        /\ \A k \in 1..Len(e) : (a \o e)[Len(a) + k] = e[k]
        /\ \A k \in 1..Len(a \o e) : k \in 1..Len(a) \/ \E j \in 1..Len(e) : k = Len(a) + j
    BY <1>7, SeqConcat
  <2>1. /\ \A k \in 1..Len(a) : w[k] = a[k]
        /\ \A k \in 1..Len(e) : w[Len(a) + k] = e[k]
        /\ \A k \in 1..Len(w) : k \in 1..Len(a) \/ \E j \in 1..Len(e) : k = Len(a) + j
    BY <1>6, <2>0
  <2> QED BY <2>1
<1>10. q = Possible(w, undecided) /\ r = PossibleStops(o, undecided)
  BY <1>1, <1>6
<1>11. AreStates(q) /\ Sifted(q, w, undecided)
  BY <1>8, <1>10, PossibleIs
<1>12. AreStops(r) /\ Sifted(r, o, undecided)
  BY <1>3, <1>10, PossibleStopsIs
<1>13. Span(q) \cup Span(r) = Covers(f) /\ Span(q) \cap Span(r) = {}
  <2>1. Span(q) = Span(w) /\ Span(r) = Span(o)
    BY <1>11, <1>12 DEF Sifted
  <2> QED BY <1>3, <1>4, <1>8, <2>1
<1>14. \A k \in 1..Len(q) : \A p \in Seq(SUBSET Inputs) : FrameBegins(f, p) => Begins(q[k], p)
  <2>1. \A j \in 1..Len(q) : \E k \in 1..Len(w) : q[j] = w[k]
    BY <1>11 DEF Sifted
  <2>2. \A k \in 1..Len(w) : \A p \in Seq(SUBSET Inputs) : FrameBegins(f, p) => Begins(w[k], p)
    BY <1>2, <1>5, <1>9
  <2> QED BY <2>1, <2>2
<1>15. \A k \in 1..Len(r) : \A p \in Seq(SUBSET Inputs) :
          FrameBegins(f, p) => Begins(r[k].state, p)
  BY <1>5, <1>12 DEF Sifted
<1> QED BY <1>11, <1>12, <1>13, <1>14, <1>15 DEF Sifted, HandsOn

\* It is handed to the call around it.
Handed(B, q, r) == [B EXCEPT ![Len(B)].todo = @ \o q, ![Len(B)].stopped = @ \o r]

LEMMA StackPop ==
    ASSUME NEW S, StackOK(S), S # <<>>, Front(S) # <<>>,
           NEW q, NEW r, NEW undecided, HandsOn(Last(S), q, r, undecided),
           NEW T, T = Handed(Front(S), q, r)
    PROVE  StackOK(T) /\ T # <<>> /\ InStack(T) = InStack(S)
<1>1. PICK B, f : B = Front(S) /\ f = Last(S)
  OBVIOUS
<1>25. /\ AreStates(q) /\ Separate(q) /\ AreStops(r) /\ Separate(r)
       /\ Span(q) \cup Span(r) = Covers(f) /\ Span(q) \cap Span(r) = {}
       /\ \A k \in 1..Len(q) : \A p \in Seq(SUBSET Inputs) : FrameBegins(f, p) => Begins(q[k], p)
       /\ \A k \in 1..Len(r) : \A p \in Seq(SUBSET Inputs) :
             FrameBegins(f, p) => Begins(r[k].state, p)
  BY <1>1 DEF HandsOn
<1>2. StackOK(B) /\ Nests(B, f) /\ InStack(S) = InStack(B) \cup Covers(f)
  BY <1>1, StackTop
<1>3. PICK C, e : C = Front(B) /\ e = Last(B)
  OBVIOUS
<1>4. StackOK(C) /\ Nests(C, e) /\ InStack(B) = InStack(C) \cup Covers(e) /\ B # <<>>
  BY <1>1, <1>2, <1>3, StackTop
<1>5. PICK n \in Nat : /\ n + 1 = Len(B) /\ Len(C) = n /\ IsSeq(C) /\ e = B[n + 1]
                       /\ \A k \in 1..n : C[k] = B[k]
  <2>1. IsSeq(B)
    BY <1>2 DEF StackOK
  <2>2. /\ IsSeq(Front(B)) /\ Len(Front(B)) = Len(B) - 1 /\ Len(B) \in Nat \ {0}
        /\ \A k \in 1..(Len(B) - 1) : Front(B)[k] = B[k] /\ Last(B) = B[Len(B)]
    BY <1>4, <2>1, SeqFront
  <2>3. Len(B) - 1 \in Nat /\ (Len(B) - 1) + 1 = Len(B)
    BY <2>2
  <2> QED BY <1>3, <2>1, <2>2, <2>3, <1>4, SeqFront
<1>6. IsFrame(e) /\ Tidy(e) /\ InStack(C) \cap Covers(e) = {}
  BY <1>4 DEF Nests
<1>7. PICK h : h = Part(q, <<>>, <<>>, r)
  OBVIOUS
<1>8. AreStates(<<>>) /\ AreStops(<<>>) /\ Span(<<>>) = {} /\ Separate(<<>>) /\ ToSet(<<>>) = {}
  BY NoneAre
<1>9. /\ IsFrame(h) /\ Covers(h) = Span(q) \cup Span(<<>>) \cup Span(<<>>) \cup Span(r)
      /\ Suspended(h) = ToSet(q) \cup ToSet(<<>>) \cup ToSet(<<>>) \cup {x.state : x \in ToSet(r)}
  BY <1>7, <1>8, <1>25, PartIs
<1>10. Tidy(h)
  BY <1>7, <1>8, <1>25, PartTidy
<1>11. Covers(h) = Covers(f) /\ Suspended(h) = ToSet(q) \cup {x.state : x \in ToSet(r)}
  BY <1>8, <1>9, <1>25
<1>12. InStack(B) \cap Covers(f) = {} /\ Beneath(B, f)
  BY <1>2 DEF Nests
<1>13. Covers(e) \cap Covers(h) = {}
  BY <1>4, <1>11, <1>12
<1>14. PICK g : g = Plus(e, h)
  OBVIOUS
<1>15. /\ IsFrame(g) /\ Tidy(g) /\ Covers(g) = Covers(e) \cup Covers(h) /\ g.shared = e.shared
       /\ Suspended(g) = Suspended(e) \cup Suspended(h)
  BY <1>6, <1>9, <1>10, <1>13, <1>14, PlusIs
<1>16. ASSUME NEW p \in Seq(SUBSET Inputs), FrameBegins(e, p), FrameBegins(f, p)
       PROVE  FrameBegins(g, p)
  <2>1. \A s \in Suspended(h) : Begins(s, p)
    <3>1. \A s \in ToSet(q) : \E k \in 1..Len(q) : s = q[k]
      BY <1>25, SeqLen DEF AreStates
    <3>2. \A x \in ToSet(r) : \E k \in 1..Len(r) : x = r[k]
      BY <1>25, SeqLen DEF AreStops
    <3>3. \A s \in ToSet(q) : Begins(s, p)
      BY <1>16, <1>25, <3>1
    <3>4. \A x \in ToSet(r) : Begins(x.state, p)
      BY <1>16, <1>25, <3>2
    <3> QED BY <1>11, <3>3, <3>4
  <2> QED BY <1>15, <1>16, <2>1 DEF FrameBegins
<1>17. ASSUME NEW k \in 1..(n + 1)
       PROVE  \E p \in Seq(SUBSET Inputs) :
                 /\ Len(p) = B[k].shared /\ FrameBegins(g, p)
                 /\ \A l \in k..n : FrameBegins(C[l], p)
  <2>1. PICK p \in Seq(SUBSET Inputs) :
            /\ Len(p) = B[k].shared /\ FrameBegins(f, p)
            /\ \A l \in k..(n + 1) : FrameBegins(B[l], p)
    BY <1>5, <1>12 DEF Beneath
  <2>2. n + 1 \in k..(n + 1) /\ \A l \in k..n : l \in k..(n + 1) /\ l \in 1..n
    OBVIOUS
  <2>3. FrameBegins(e, p)
    BY <1>5, <2>1, <2>2
  <2>4. \A l \in k..n : FrameBegins(C[l], p)
    BY <1>5, <2>1, <2>2
  <2> QED BY <1>16, <2>1, <2>3, <2>4
<1>18. Beneath(C, g)
  <2>1. \A k \in 1..n : k \in 1..(n + 1)
    OBVIOUS
  <2> QED BY <1>5, <1>17, <2>1 DEF Beneath
<1>19. Starts(g)
  <2>1. n + 1 \in 1..(n + 1)
    OBVIOUS
  <2> QED BY <1>5, <1>15, <1>17, <2>1 DEF Starts
<1>20. InStack(C) \cap Covers(g) = {}
  BY <1>4, <1>6, <1>11, <1>12, <1>15
<1>21. Nests(C, g)
  BY <1>15, <1>18, <1>19, <1>20 DEF Nests
<1>22. /\ StackOK(Append(C, g)) /\ InStack(Append(C, g)) = InStack(C) \cup Covers(g)
       /\ Append(C, g) # <<>>
  BY <1>4, <1>21, StackMake
<1>23. InStack(Append(C, g)) = InStack(S)
  BY <1>2, <1>4, <1>11, <1>15, <1>22
<1>24. T = Append(C, g)
  <2>1. B = Append(C, e)
    <3>1. PICK X : X = Append(C, e)
      OBVIOUS
    <3>2. /\ IsSeq(X) /\ Len(X) = n + 1 /\ X[n + 1] = e /\ \A k \in 1..n : X[k] = C[k]
      BY <1>5, <3>1, SeqAppend
    <3>3. IsSeq(B)
      BY <1>2 DEF StackOK
    <3>4. X \in [1..(n + 1) -> ToSet(X)] /\ B \in [1..(n + 1) -> ToSet(B)]
      BY <1>5, <3>2, <3>3, LenProperties DEF IsSeq
    <3>5. \A k \in 1..(n + 1) : k = n + 1 \/ k \in 1..n
      OBVIOUS
    <3>6. \A k \in 1..(n + 1) : X[k] = B[k]
      BY <1>5, <3>2, <3>5
    <3>7. X = [k \in 1..(n + 1) |-> X[k]] /\ B = [k \in 1..(n + 1) |-> B[k]]
      BY <3>4
    <3>8. X = B
      BY <3>6, <3>7
    <3> QED BY <3>1, <3>8
  <2>2. PICK m : m = n + 1
    OBVIOUS
  <2>3. Len(B) = m /\ B[m] = e /\ \A x : [B EXCEPT ![m] = x] = Append(C, x)
    BY <1>5, <2>1, <2>2, LastReplaced
  <2>4. T = [B EXCEPT ![m].todo = @ \o q, ![m].stopped = @ \o r]
    BY <1>1, <2>3 DEF Handed
  <2>5. [B EXCEPT ![m].todo = @ \o q, ![m].stopped = @ \o r]
          = [B EXCEPT ![m] = [B[m] EXCEPT !.todo = @ \o q, !.stopped = @ \o r]]
    OBVIOUS
  <2>6. Given(e, q, r) = Plus(e, Part(q, <<>>, <<>>, r))
    BY <1>6, HandedIs
  <2>7. Given(e, q, r) = g
    BY <1>7, <1>14, <2>6
  <2>8. T = [B EXCEPT ![m] = Given(e, q, r)]
    BY <2>3, <2>4, <2>5 DEF Given
  <2> QED BY <2>3, <2>7, <2>8
<1> QED BY <1>22, <1>23, <1>24

LEMMA LeaveKeeps == MergeInv /\ Leave => MergeInv'
<1> SUFFICES ASSUME MergeInv, Leave PROVE MergeInv'
  OBVIOUS
<1>1. StackOK(stack) /\ stack # <<>> /\ Top.todo = <<>> /\ run = NoState
  <2>1. StackOK(stack) /\ stack # <<>>
    BY DEF MergeInv, Leave, InRegion
  <2>2. Top.todo = <<>>
    BY DEF Leave, Runs
  <2>3. run = NoState
    BY <2>1 DEF MergeInv, Shape
  <2> QED BY <2>1, <2>2, <2>3
<1>2. PICK B, f : B = Below /\ f = Top
  OBVIOUS
<1>3. StackOK(B) /\ Nests(B, f) /\ InStack(stack) = InStack(B) \cup Covers(f)
  BY <1>1, <1>2, StackTop DEF Below, Top
<1>4. IsFrame(f) /\ Tidy(f) /\ Starts(f) /\ f.todo = <<>>
  BY <1>1, <1>2, <1>3 DEF Nests
<1>5. PICK undecided \in SUBSET hard :
         HandTo(Below, Possible(Arrivals(Top) \o Top.escaped, undecided),
                PossibleStops(Top.stopped, undecided))
  BY DEF Leave
<1>6. PICK q, r : /\ q = Possible(Arrivals(f) \o f.escaped, undecided)
                  /\ r = PossibleStops(f.stopped, undecided)
  OBVIOUS
<1>7. HandTo(B, q, r)
  BY <1>2, <1>5, <1>6
<1>8. HandsOn(f, q, r, undecided)
  BY <1>4, <1>6, HandedOn
<1>9. Running = {}
  BY <1>1 DEF Running
<1>10. CASE B = <<>>
  <2>1. /\ pending' = pending \cup ToSet(q) /\ ended' = ended \cup ToSet(r)
        /\ run' = NoState /\ stack' = <<>> /\ UNCHANGED fixed
    BY <1>7, <1>10 DEF HandTo
  <2>2. Span(q) \cup Span(r) = Running \cup InStack(stack)
    BY <1>3, <1>8, <1>9, <1>10, StackEmpty DEF HandsOn
  <2>3. {} \notin hard => {} \notin undecided
    BY <1>5
  <2>5. /\ AreStates(q) /\ Separate(q) /\ AreStops(r) /\ Separate(r)
        /\ Span(q) \cap Span(r) = {}
    BY <1>8 DEF HandsOn
  <2>4. {} \notin hard => /\ \A k \in 1..Len(q) : Of(q[k]) # {}
                          /\ \A k \in 1..Len(r) : Of(r[k]) # {}
    BY <1>8, <2>3 DEF HandsOn
  <2> QED BY <2>1, <2>2, <2>4, <2>5, GivenBack
<1>11. CASE B # <<>>
  <2>1. /\ stack' = [B EXCEPT ![Len(B)].todo = @ \o q, ![Len(B)].stopped = @ \o r]
        /\ UNCHANGED <<fixed, outside>>
    BY <1>7, <1>11 DEF HandTo
  <2>2. PICK S, T : S = stack /\ T = Handed(B, q, r)
    OBVIOUS
  <2>3. StackOK(S) /\ S # <<>> /\ B = Front(S) /\ f = Last(S)
    BY <1>1, <1>2, <2>2 DEF Below, Top
  <2>4. StackOK(T) /\ T # <<>> /\ InStack(T) = InStack(S)
    BY <1>8, <1>11, <2>2, <2>3, StackPop
  <2>5. stack' = T /\ StackOK(stack') /\ InStack(stack') = InStack(stack)
    BY <2>1, <2>2, <2>4 DEF Handed
  <2>6. Shape'
    BY <1>1, <2>1 DEF MergeInv, Shape, outside
  <2>7. Divided'
    BY <2>1, <2>5 DEF MergeInv, Divided, TidyOutside, Outside, Running, outside
  <2>8. Possibly'
    BY <2>1 DEF MergeInv, Possibly, outside, fixed
  <2> QED BY <2>5, <2>6, <2>7, <2>8 DEF MergeInv
<1> QED BY <1>10, <1>11

-----------------------------------------------------------------------------
(* Each input is in exactly one state.                                      *)

LEMMA InitHolds == Init => MergeInv
<1> SUFFICES ASSUME Init PROVE MergeInv
  OBVIOUS
<1>1. PICK s : s = NewState
  OBVIOUS
<1>2. IsState(s) /\ s.path = <<>>
  BY <1>1, EmptySeq DEF NewState, IsState
<1>3. Of(s) = Inputs
  <2>1. DOMAIN s.path = {}
    BY <1>2
  <2> QED BY <1>2, <2>1, StateIs DEF Cond, Conjunction
<1>4. pending = {s} /\ run = NoState /\ stack = <<>> /\ ended = {} /\ hard \in Undecidable
  BY <1>1 DEF Init
<1>5. Shape
  BY <1>2, <1>4 DEF Shape
<1>6. StackOK(stack) /\ InStack(stack) = {}
  BY <1>4, StackEmpty
<1>7. Among(pending) = Inputs /\ Among(ended) = {} /\ Running = {}
  BY <1>3, <1>4 DEF Among, Running
<1>8. Distinct(pending) /\ Distinct(ended)
  BY <1>4 DEF Distinct
<1>9. Divided
  BY <1>6, <1>7, <1>8 DEF Divided, TidyOutside, Outside
<1>10. Possibly
  BY <1>3, <1>4, MergeAssumption DEF Possibly
<1> QED BY <1>5, <1>6, <1>9, <1>10 DEF MergeInv

LEMMA NextKeeps == MergeInv /\ [Next]_vars => MergeInv'
<1> SUFFICES ASSUME MergeInv, [Next]_vars PROVE MergeInv'
  OBVIOUS
<1>1. CASE Pop
  BY <1>1, PopKeeps
<1>2. CASE Execute
  BY <1>2, ExecuteKeeps
<1>3. CASE Finish \/ Return \/ Jump \/ Decided \/ Bounded
  BY <1>3, StepsKeep
<1>4. CASE Fork
  BY <1>4, ForkKeeps
<1>5. CASE Enter
  BY <1>5, EnterKeeps
<1>6. CASE Arrive \/ Escape
  BY <1>6, PutAsideKeeps
<1>7. CASE Leave
  BY <1>7, LeaveKeeps
<1>8. CASE UNCHANGED vars
  <2>1. UNCHANGED <<prog, hard, pending, run, stack, ended>>
    BY <1>8 DEF vars
  <2>2. Shape'
    BY <2>1 DEF MergeInv, Shape
  <2>3. StackOK(stack')
    BY <2>1 DEF MergeInv
  <2>4. Divided'
    BY <2>1 DEF MergeInv, Divided, TidyOutside, Outside, Running
  <2>5. Possibly'
    BY <2>1 DEF MergeInv, Possibly
  <2> QED BY <2>2, <2>3, <2>4, <2>5 DEF MergeInv
<1> QED BY <1>1, <1>2, <1>3, <1>4, <1>5, <1>6, <1>7, <1>8 DEF Next

\* The states of paths that stopped.
LEMMA StoppedAre ==
    ASSUME NEW E, \A e \in E : IsStop(e), Distinct(E)
    PROVE  /\ Among({e.state : e \in E}) = Among(E) /\ Distinct({e.state : e \in E})
           /\ \A s \in {e.state : e \in E} : IsState(s)
<1>1. \A e \in E : Of(e) = Of(e.state) /\ IsState(e.state)
  BY StopIs
<1>2. Among({e.state : e \in E}) = Among(E)
  BY <1>1 DEF Among
<1>3. Distinct({e.state : e \in E})
  <2> SUFFICES ASSUME NEW x \in E, NEW y \in E, x.state # y.state
               PROVE  Of(x.state) \cap Of(y.state) = {}
    BY DEF Distinct
  <2>1. x # y
    OBVIOUS
  <2>2. Of(x) \cap Of(y) = {}
    BY <2>1 DEF Distinct
  <2> QED BY <1>1, <2>2
<1> QED BY <1>1, <1>2, <1>3

LEMMA SuspendedAre ==
    ASSUME NEW f, IsFrame(f), Tidy(f)
    PROVE  /\ Among(Suspended(f)) = Covers(f) /\ Distinct(Suspended(f))
           /\ \A s \in Suspended(f) : IsState(s)
<1>1. /\ IsSeq(f.todo) /\ IsSeq(f.arrived) /\ IsSeq(f.escaped) /\ IsSeq(f.stopped)
      /\ \A s \in Suspended(f) : IsState(s)
  BY FrameIs
<1>2. PICK P, Q, R, T, E : /\ P = ToSet(f.todo) /\ Q = ToSet(f.arrived) /\ R = ToSet(f.escaped)
                           /\ E = ToSet(f.stopped) /\ T = {e.state : e \in E}
  OBVIOUS
<1>3. /\ Separate(f.todo) /\ Separate(f.arrived) /\ Separate(f.escaped) /\ Separate(f.stopped)
  BY DEF Tidy
<1>4. /\ Among(P) = Span(f.todo) /\ Distinct(P)
      /\ Among(Q) = Span(f.arrived) /\ Distinct(Q)
      /\ Among(R) = Span(f.escaped) /\ Distinct(R)
      /\ Among(E) = Span(f.stopped) /\ Distinct(E)
  BY <1>1, <1>2, <1>3, AmongSeq
<1>5. \A e \in E : IsStop(e)
  <2>1. \A j \in 1..Len(f.stopped) : IsStop(f.stopped[j])
    BY DEF IsFrame, AreStops
  <2>2. \A x \in ToSet(f.stopped) : \E k \in 1..Len(f.stopped) : x = f.stopped[k]
    BY <1>1, SeqLen
  <2> QED BY <1>2, <2>1, <2>2
<1>6. Among(T) = Among(E) /\ Distinct(T)
  BY <1>2, <1>4, <1>5, StoppedAre
<1>7. /\ Among(P) \cap Among(Q) = {} /\ Among(P) \cap Among(R) = {} /\ Among(P) \cap Among(T) = {}
      /\ Among(Q) \cap Among(R) = {} /\ Among(Q) \cap Among(T) = {} /\ Among(R) \cap Among(T) = {}
  BY <1>4, <1>6 DEF Tidy
<1>8. Among(P \cup Q) = Among(P) \cup Among(Q) /\ Distinct(P \cup Q)
  BY <1>4, <1>7, AmongBoth
<1>9. Among(R \cup T) = Among(R) \cup Among(T) /\ Distinct(R \cup T)
  BY <1>4, <1>6, <1>7, AmongBoth
<1>10. PICK X, Y : X = P \cup Q /\ Y = R \cup T
  OBVIOUS
<1>11. Among(X) \cap Among(Y) = {} /\ Distinct(X) /\ Distinct(Y)
  BY <1>7, <1>8, <1>9, <1>10
<1>12. Among(X \cup Y) = Among(X) \cup Among(Y) /\ Distinct(X \cup Y)
  BY <1>11, AmongBoth
<1>13. Suspended(f) = X \cup Y
  BY <1>2, <1>10 DEF Suspended
<1>14. Among(X) \cup Among(Y) = Covers(f)
  BY <1>4, <1>6, <1>8, <1>9, <1>10 DEF Covers
<1> QED BY <1>1, <1>12, <1>13, <1>14

LEMMA StackAre ==
    ASSUME NEW S, StackOK(S), NEW P, P = UNION {Suspended(S[k]) : k \in DOMAIN S}
    PROVE  Among(P) = InStack(S) /\ Distinct(P) /\ \A s \in P : IsState(s)
<1>1. IsSeq(S) /\ (\A k \in 1..Len(S) : IsFrame(S[k])) /\ TidyStack(S)
  BY DEF StackOK
<1>2. PICK n \in Nat : n = Len(S) /\ DOMAIN S = 1..n
  BY <1>1, SeqLen
<1>3. /\ \A k \in 1..n : IsFrame(S[k]) /\ Tidy(S[k])
      /\ \A k, l \in 1..n : k # l => Covers(S[k]) \cap Covers(S[l]) = {}
  BY <1>1, <1>2 DEF TidyStack
<1>4. \A k \in 1..n : /\ Among(Suspended(S[k])) = Covers(S[k]) /\ Distinct(Suspended(S[k]))
                      /\ \A s \in Suspended(S[k]) : IsState(s)
  BY <1>3, SuspendedAre
<1>5. \A s \in P : \E k \in 1..n : s \in Suspended(S[k])
  BY <1>2
<1>6. \A k \in 1..n : \A s \in Suspended(S[k]) : s \in P /\ Of(s) \subseteq Covers(S[k])
  BY <1>2, <1>4 DEF Among
<1>7. Among(P) = InStack(S)
  <2>1. \A i \in Among(P) : i \in InStack(S)
    BY <1>2, <1>5, <1>6 DEF Among, InStack
  <2>2. ASSUME NEW i \in InStack(S) PROVE i \in Among(P)
    <3>1. PICK k \in 1..n : i \in Covers(S[k])
      BY <1>2 DEF InStack
    <3>2. i \in Among(Suspended(S[k]))
      BY <1>4, <3>1
    <3>3. PICK s \in Suspended(S[k]) : i \in Of(s)
      BY <3>2 DEF Among
    <3> QED BY <1>6, <3>3 DEF Among
  <2> QED BY <2>1, <2>2
<1>8. Distinct(P)
  <2> SUFFICES ASSUME NEW x \in P, NEW y \in P, x # y PROVE Of(x) \cap Of(y) = {}
    BY DEF Distinct
  <2>1. PICK k \in 1..n, l \in 1..n : x \in Suspended(S[k]) /\ y \in Suspended(S[l])
    BY <1>5
  <2>2. CASE k = l
    BY <1>4, <2>1, <2>2 DEF Distinct
  <2>3. CASE k # l
    BY <1>3, <1>6, <2>1, <2>3
  <2> QED BY <2>2, <2>3
<1> QED BY <1>4, <1>5, <1>7, <1>8

LEMMA InvOneStateEach == MergeInv => OneStateEach
<1> SUFFICES ASSUME MergeInv PROVE OneStateEach
  OBVIOUS
<1>1. PICK P, Q, E, R : /\ P = pending /\ Q = {run} \ {NoState} /\ E = {e.state : e \in ended}
                        /\ R = UNION {Suspended(stack[k]) : k \in DOMAIN stack}
  OBVIOUS
<1>2. Shape /\ StackOK(stack) /\ Divided /\ Possibly
  BY DEF MergeInv
<1>3. /\ Distinct(pending) /\ Distinct(ended)
      /\ Among(pending) \cap Running = {} /\ Among(pending) \cap Among(ended) = {}
      /\ Running \cap Among(ended) = {}
      /\ Outside \cap InStack(stack) = {} /\ Outside \cup InStack(stack) = Inputs
  BY <1>2 DEF Divided, TidyOutside
<1>4. Among(E) = Among(ended) /\ Distinct(E) /\ \A s \in E : IsState(s)
  BY <1>1, <1>2, <1>3, StoppedAre DEF Shape
<1>5. Among(R) = InStack(stack) /\ Distinct(R) /\ \A s \in R : IsState(s)
  BY <1>1, <1>2, StackAre
<1>6. Among(Q) = Running /\ Distinct(Q) /\ \A s \in Q : IsState(s)
  <2>1. Among(Q) = Running
    BY <1>1 DEF Among, Running
  <2>2. Distinct(Q)
    BY <1>1 DEF Distinct
  <2> QED BY <1>1, <1>2, <2>1, <2>2 DEF Shape
<1>7. \A s \in P : IsState(s)
  BY <1>1, <1>2 DEF Shape
<1>8. Among(P \cup Q) = Among(P) \cup Among(Q) /\ Distinct(P \cup Q)
  BY <1>1, <1>3, <1>6, AmongBoth
<1>9. PICK X : X = P \cup Q
  OBVIOUS
<1>10. Among(X) = Among(P) \cup Among(Q) /\ Distinct(X) /\ Among(X) \cap Among(E) = {}
  BY <1>1, <1>3, <1>4, <1>6, <1>8, <1>9
<1>11. Among(X \cup E) = Among(X) \cup Among(E) /\ Distinct(X \cup E)
  BY <1>4, <1>10, AmongBoth
<1>12. PICK Y : Y = X \cup E
  OBVIOUS
<1>13. Among(Y) = Outside /\ Distinct(Y)
  BY <1>1, <1>4, <1>6, <1>10, <1>11, <1>12 DEF Outside
<1>14. Among(Y) \cap Among(R) = {}
  BY <1>3, <1>5, <1>13
<1>15. Among(Y \cup R) = Among(Y) \cup Among(R) /\ Distinct(Y \cup R)
  BY <1>5, <1>13, <1>14, AmongBoth
<1>16. AllStates = Y \cup R /\ Alive \cup {e.state : e \in ended} = Y
  <2>1. Alive = X
    BY <1>1, <1>9 DEF Alive
  <2>2. Alive \cup {e.state : e \in ended} = Y
    BY <1>1, <1>12, <2>1
  <2>6. AllStates = Alive \cup (UNION {Suspended(stack[k]) : k \in DOMAIN stack})
                    \cup {e.state : e \in ended}
    BY DEF AllStates
  <2>7. R = UNION {Suspended(stack[k]) : k \in DOMAIN stack} /\ E = {e.state : e \in ended}
    BY <1>1
  <2>3. AllStates = Alive \cup R \cup E
    BY <2>6, <2>7, Zenon
  <2>4. AllStates = X \cup R \cup E
    BY <2>1, <2>3
  <2>5. X \cup R \cup E = Y \cup R
    BY <1>12
  <2> QED BY <2>2, <2>4, <2>5
<1>17. \A s \in Y \cup R : Of(s) = Cond(s)
  BY <1>4, <1>5, <1>6, <1>7, <1>9, <1>12, StateIs
<1>18. Accounted
  <2>1. Among(AllStates) = Inputs
    BY <1>3, <1>5, <1>13, <1>15, <1>16
  <2>2. \A i \in Inputs : \E s \in AllStates : i \in Of(s)
    BY <2>1 DEF Among
  <2> QED BY <1>16, <1>17, <2>2 DEF Accounted
<1>19. NoGhosts
  <2> SUFFICES ASSUME {} \notin hard, NEW s \in Y PROVE Of(s) # {}
    BY <1>16, <1>17 DEF NoGhosts
  <2>1. /\ \A t \in pending : Of(t) # {}
        /\ \A e \in ended : Of(e) # {}
        /\ run # NoState => Of(run) # {}
    BY <1>2 DEF Possibly
  <2>2. CASE s \in P
    BY <1>1, <2>1, <2>2
  <2>3. CASE s \in Q
    BY <1>1, <2>1, <2>3
  <2>4. CASE s \in E
    <3>1. PICK e \in ended : s = e.state
      BY <1>1, <2>4
    <3>2. IsStop(e)
      BY <1>2 DEF Shape
    <3> QED BY <2>1, <3>1, <3>2, StopIs
  <2> QED BY <1>9, <1>12, <2>2, <2>3, <2>4
<1>20. \A s, t \in AllStates : s # t => Cond(s) \cap Cond(t) = {}
  BY <1>15, <1>16, <1>17 DEF Distinct
<1> QED BY <1>18, <1>19, <1>20 DEF OneStateEach

\* Merging neither loses an input nor holds it twice (_fork_and_merge, _run_region, _merge):
\* at every moment each input is in exactly one state, and when the solver can refute what
\* cannot happen, every state that runs, waits or has stopped outside a region has an input.
THEOREM AlwaysOneStateEach == Spec => []OneStateEach
<1>1. Init => MergeInv
  BY InitHolds
<1>2. MergeInv /\ [Next]_vars => MergeInv'
  BY NextKeeps
<1>3. MergeInv => OneStateEach
  BY InvOneStateEach
<1> QED BY <1>1, <1>2, <1>3, PTL DEF Spec

-----------------------------------------------------------------------------
(* Paths that stop do so as the own runs of their inputs: what Reached is.  *)

\* Where some nodes lead, in n rounds.
Rounds(edges, start, n, r) ==
    r = [k \in 0..n |-> IF k = 0 THEN start
                        ELSE UNION {{x} \cup {e[2] : e \in {e \in edges : e[1] = x}} : x \in r[k - 1]}]

LEMMA RoundsExist ==
    ASSUME NEW edges, NEW start, NEW n \in Nat
    PROVE  \E r : Rounds(edges, start, n, r)
<1> DEFINE Bad == {m \in Nat : ~ \E r : Rounds(edges, start, m, r)}
           Round(S) == UNION {{x} \cup {e[2] : e \in {e \in edges : e[1] = x}} : x \in S}
<1>1. SUFFICES ASSUME Bad # {} PROVE FALSE
  OBVIOUS
<1>2. PICK m \in Bad : \A k \in Bad : m <= k
  <2>1. Bad \subseteq Nat
    OBVIOUS
  <2> HIDE DEF Bad
  <2> QED BY <1>1, <2>1, Least
<1>3. m \in Nat
  OBVIOUS
<1>6. \A k, r : Rounds(edges, start, k, r)
                <=> r = [j \in 0..k |-> IF j = 0 THEN start ELSE Round(r[j - 1])]
  BY DEF Rounds
<1>4. CASE m = 0
  <2> DEFINE r == [k \in 0..0 |-> start]
  <2>1. Rounds(edges, start, 0, r)
    BY DEF Rounds
  <2> QED BY <1>4, <2>1
<1>5. CASE m # 0
  <2>1. m - 1 \in Nat /\ m - 1 \notin Bad
    BY <1>2, <1>3, <1>5
  <2>2. PICK r : Rounds(edges, start, m - 1, r)
    BY <2>1
  <2> HIDE DEF Round
  <2> DEFINE g == [k \in 0..m |-> IF k < m THEN r[k] ELSE Round(r[k - 1])]
  <2>3. \A k \in 0..m : g[k] = IF k = 0 THEN start ELSE Round(g[k - 1])
    <3>1. \A k \in 0..(m - 1) : r[k] = IF k = 0 THEN start ELSE Round(r[k - 1])
      BY <2>2, <1>6
    <3> QED BY <3>1, <1>3, <1>5
  <2>4. Rounds(edges, start, m, g)
    BY <1>6, <2>3
  <2> QED BY <2>4
<1> QED BY <1>4, <1>5

LEMMA ReachedIs ==
    ASSUME NEW edges, NEW start, Cardinality(edges) \in Nat
    PROVE  \E r : /\ Rounds(edges, start, Cardinality(edges), r)
                  /\ Reached(edges, start) = r[Cardinality(edges)]
<1> DEFINE Rec(f) == f = [n \in 0..Cardinality(edges) |->
                             IF n = 0 THEN start
                             ELSE UNION {{x} \cup {e[2] : e \in {e \in edges : e[1] = x}} : x \in f[n - 1]}]
<1>1. \A f : Rounds(edges, start, Cardinality(edges), f) <=> Rec(f)
  BY DEF Rounds
<1>2. \E f : Rec(f)
  <2> HIDE DEF Rec
  <2> QED BY <1>1, RoundsExist
<1>3. PICK r : r = CHOOSE f : Rec(f)
  OBVIOUS
<1>4. Reached(edges, start) = r[Cardinality(edges)]
  <2>1. Reached(edges, start) = CHOOSE used \in {r[Cardinality(edges)]} : TRUE
    BY <1>3 DEF Reached, Once
  <2> QED BY <2>1
<1>5. Rec(r)
  <2> HIDE DEF Rec
  <2> QED BY <1>2, <1>3
<1> HIDE DEF Rec
<1> QED BY <1>1, <1>4, <1>5

\* What is reached has the start in it, and with the tail of an edge its head: each round
\* adds the head of an edge until none is left to add.
Closed(edges, start, S) == start \subseteq S /\ \A e \in edges : e[1] \in S => e[2] \in S

LEMMA ReachedClosed ==
    ASSUME NEW edges, IsFiniteSet(edges), NEW start
    PROVE  Closed(edges, start, Reached(edges, start))
<1>1. PICK N \in Nat : N = Cardinality(edges)
  BY FS_CardinalityType
<1>2. PICK r : Rounds(edges, start, N, r) /\ Reached(edges, start) = r[N]
  BY <1>1, ReachedIs
<1> DEFINE Round(S) == UNION {{x} \cup {e[2] : e \in {e \in edges : e[1] = x}} : x \in S}
<1>3. \A k \in 0..N : r[k] = IF k = 0 THEN start ELSE Round(r[k - 1])
  BY <1>2 DEF Rounds
<1>4. ASSUME NEW S
      PROVE  S \subseteq Round(S) /\ \A e \in edges : e[1] \in S => e[2] \in Round(S)
  <2>1. \A x \in S : {x} \cup {e[2] : e \in {e \in edges : e[1] = x}} \subseteq Round(S)
    OBVIOUS
  <2>2. \A x \in S : x \in Round(S)
    BY <2>1
  <2>3. ASSUME NEW e \in edges, e[1] \in S PROVE e[2] \in Round(S)
    <3>1. PICK x \in S : x = e[1]
      BY <2>3
    <3>2. e[2] \in {d[2] : d \in {d \in edges : d[1] = x}}
      BY <3>1
    <3> QED BY <2>1, <3>2
  <2> QED BY <2>2, <2>3
<1> HIDE DEF Round
<1> DEFINE Used(k) == {e \in edges : e[2] \in r[k]}
           Good(k) == start \subseteq r[k] /\ (Closed(edges, start, r[k]) \/ Cardinality(Used(k)) >= k)
           Bad == {k \in 0..N : ~ Good(k)}
<1>5. \A k \in 0..N : IsFiniteSet(Used(k)) /\ Cardinality(Used(k)) \in Nat
  BY FS_Subset, FS_CardinalityType
<1>6. ASSUME Bad # {} PROVE FALSE
  <2>1. PICK m \in Bad : \A k \in Bad : m <= k
    <3>1. Bad \subseteq Nat
      OBVIOUS
    <3> HIDE DEF Bad
    <3> QED BY <1>6, <3>1, Least
  <2>2. CASE m = 0
    <3>1. 0 \in 0..N /\ r[0] = start
      BY <1>3
    <3>2. Cardinality(Used(0)) >= 0
      <4>1. Cardinality(Used(0)) \in Nat
        BY <1>5, <3>1
      <4> HIDE DEF Used
      <4> QED BY <4>1
    <3>3. Good(0)
      <4> HIDE DEF Used
      <4> QED BY <3>1, <3>2
    <3>4. ~ Good(m)
      <4> HIDE DEF Good
      <4> QED BY <2>1
    <3> HIDE DEF Good
    <3> QED BY <2>2, <3>3, <3>4
  <2>3. CASE m # 0
    <3>1. m \in 0..N
      OBVIOUS
    <3>2. PICK l \in 0..N : l = m - 1 /\ l + 1 = m
      BY <2>3, <3>1
    <3>3. l \in 0..N /\ m \in 0..N /\ l + 1 = m /\ Good(l)
      <4> HIDE DEF Good
      <4>1. l \in Bad \/ Good(l)
        OBVIOUS
      <4>2. l \notin Bad
        <5> HIDE DEF Bad
        <5> QED BY <2>1, <3>1, <3>2
      <4> QED BY <3>1, <3>2, <4>1, <4>2
    <3>4. r[m] = Round(r[l])
      BY <1>3, <2>3, <3>2, <3>3
    <3>5. r[l] \subseteq r[m] /\ \A e \in edges : e[1] \in r[l] => e[2] \in r[m]
      BY <1>4, <3>4
    <3>6. start \subseteq r[m] /\ Used(l) \subseteq Used(m)
      BY <3>3, <3>5
    <3>7. CASE Used(m) = Used(l)
      <4>1. Closed(edges, start, r[l])
        BY <3>3, <3>5, <3>7 DEF Closed
      <4>2. r[m] = r[l]
        <5>1. ASSUME NEW y \in r[m] PROVE y \in r[l]
          <6>1. y \in Round(r[l])
            BY <3>4
          <6>2. PICK x \in r[l] : y = x \/ \E e \in edges : e[1] = x /\ y = e[2]
            BY <6>1 DEF Round
          <6> QED BY <4>1, <6>2 DEF Closed
        <5> QED BY <3>5, <5>1
      <4> QED BY <2>1, <3>6, <4>1, <4>2
    <3>8. CASE Used(m) # Used(l)
      <4>1. IsFiniteSet(Used(m)) /\ IsFiniteSet(Used(l))
        BY <1>5, <3>3
      <4>2. /\ Cardinality(Used(m)) \in Nat /\ Cardinality(Used(l)) \in Nat
            /\ Cardinality(Used(l)) <= Cardinality(Used(m))
            /\ Cardinality(Used(l)) # Cardinality(Used(m))
        BY <3>6, <3>8, <4>1, FS_Subset, FS_CardinalityType
      <4>3. CASE Closed(edges, start, r[l])
        <5>1. r[m] = r[l]
          <6>1. ASSUME NEW y \in r[m] PROVE y \in r[l]
            <7>1. y \in Round(r[l])
              BY <3>4
            <7>2. PICK x \in r[l] : y = x \/ \E e \in edges : e[1] = x /\ y = e[2]
              BY <7>1 DEF Round
            <7> QED BY <4>3, <7>2 DEF Closed
          <6> QED BY <3>5, <6>1
        <5> QED BY <3>8, <5>1
      <4>4. CASE Cardinality(Used(l)) >= l
        <5>1. Cardinality(Used(m)) >= m
          BY <3>3, <4>2, <4>4
        <5> QED BY <2>1, <3>6, <5>1
      <4> QED BY <3>3, <4>3, <4>4
    <3> QED BY <3>7, <3>8
  <2> QED BY <2>2, <2>3
<1>7. Good(N)
  <2>1. N \in 0..N
    OBVIOUS
  <2>2. N \notin Bad
    <3> HIDE DEF Bad
    <3> QED BY <1>6
  <2> HIDE DEF Good
  <2> QED BY <2>1, <2>2
<1>8. CASE Cardinality(Used(N)) >= N
  <2>1. Used(N) \subseteq edges
    OBVIOUS
  <2>2. Cardinality(Used(N)) \in Nat /\ Cardinality(Used(N)) <= N
    BY <1>1, <2>1, FS_Subset, FS_CardinalityType
  <2>3. Used(N) = edges
    BY <1>1, <1>8, <2>1, <2>2, FS_Subset
  <2> QED BY <1>2, <1>7, <2>3 DEF Closed
<1> QED BY <1>2, <1>7, <1>8

-----------------------------------------------------------------------------
(* The run of one input.                                                    *)

Alone == [block |-> 1, position |-> 0, data |-> Fresh, how |-> "running"]
AloneFor(f, i, n, r) == r = [m \in 0..n |-> IF m = 0 THEN Alone ELSE MoreOf(f, i, r[m - 1])]

LEMMA AloneExists ==
    ASSUME NEW f, NEW i, NEW n \in Nat
    PROVE  \E r : AloneFor(f, i, n, r)
<1> DEFINE Bad == {m \in Nat : ~ \E r : AloneFor(f, i, m, r)}
<1>1. SUFFICES ASSUME Bad # {} PROVE FALSE
  OBVIOUS
<1>2. PICK m \in Bad : \A k \in Bad : m <= k
  <2>1. Bad \subseteq Nat
    OBVIOUS
  <2> HIDE DEF Bad
  <2> QED BY <1>1, <2>1, Least
<1>3. m \in Nat
  OBVIOUS
<1>4. CASE m = 0
  <2> DEFINE r == [k \in 0..0 |-> Alone]
  <2>1. AloneFor(f, i, 0, r)
    BY DEF AloneFor
  <2> QED BY <1>4, <2>1
<1>5. CASE m # 0
  <2>1. m - 1 \in Nat /\ m - 1 \notin Bad
    BY <1>2, <1>3, <1>5
  <2>2. PICK r : AloneFor(f, i, m - 1, r)
    BY <2>1
  <2> DEFINE g == [k \in 0..m |-> IF k < m THEN r[k] ELSE MoreOf(f, i, r[k - 1])]
  <2>3. \A k \in 0..m : g[k] = IF k = 0 THEN Alone ELSE MoreOf(f, i, g[k - 1])
    <3>1. \A k \in 0..(m - 1) : r[k] = IF k = 0 THEN Alone ELSE MoreOf(f, i, r[k - 1])
      BY <2>2 DEF AloneFor
    <3> QED BY <3>1, <1>3, <1>5
  <2>4. AloneFor(f, i, m, g)
    BY <2>3 DEF AloneFor
  <2> QED BY <2>4
<1> QED BY <1>4, <1>5

LEMMA OwnRunIs ==
    ASSUME NEW f, NEW i, NEW n \in Nat
    PROVE  \E r : AloneFor(f, i, n, r) /\ OwnRun(f, i, n) = r[n]
<1> DEFINE Rec(g) == g = [m \in 0..n |-> IF m = 0 THEN [block |-> 1, position |-> 0, data |-> Fresh, how |-> "running"]
                                         ELSE LET so == g[m - 1] IN MoreOf(f, i, so)]
<1>1. \A g : AloneFor(f, i, n, g) <=> Rec(g)
  BY DEF AloneFor, Alone
<1>2. \E g : Rec(g)
  <2> HIDE DEF Rec
  <2> QED BY <1>1, AloneExists
<1>3. PICK r : r = CHOOSE g : Rec(g)
  OBVIOUS
<1>4. OwnRun(f, i, n) = r[n]
  BY <1>3 DEF OwnRun
<1>5. Rec(r)
  <2> HIDE DEF Rec
  <2> QED BY <1>2, <1>3
<1> HIDE DEF Rec
<1> QED BY <1>1, <1>4, <1>5

\* It goes on from where it was.
LEMMA OwnRunSteps ==
    ASSUME NEW f, NEW i
    PROVE  /\ OwnRun(f, i, 0) = Alone
           /\ \A n \in Nat : OwnRun(f, i, n + 1) = MoreOf(f, i, OwnRun(f, i, n))
<1>1. OwnRun(f, i, 0) = Alone
  <2>1. PICK r : AloneFor(f, i, 0, r) /\ OwnRun(f, i, 0) = r[0]
    BY OwnRunIs
  <2> QED BY <2>1 DEF AloneFor
<1>2. ASSUME NEW n \in Nat PROVE OwnRun(f, i, n + 1) = MoreOf(f, i, OwnRun(f, i, n))
  <2>1. PICK r : AloneFor(f, i, n, r) /\ OwnRun(f, i, n) = r[n]
    BY OwnRunIs
  <2>2. PICK l \in Nat : l = n + 1
    OBVIOUS
  <2>3. PICK t : AloneFor(f, i, l, t) /\ OwnRun(f, i, l) = t[l]
    BY OwnRunIs
  <2>4. \A m \in 0..n : r[m] = IF m = 0 THEN Alone ELSE MoreOf(f, i, r[m - 1])
    BY <2>1 DEF AloneFor
  <2>5. \A m \in 0..l : t[m] = IF m = 0 THEN Alone ELSE MoreOf(f, i, t[m - 1])
    BY <2>3 DEF AloneFor
  <2> DEFINE Bad == {m \in 0..n : r[m] # t[m]}
  <2>6. ASSUME Bad # {} PROVE FALSE
    <3>1. PICK m \in Bad : \A k \in Bad : m <= k
      <4>1. Bad \subseteq Nat
        OBVIOUS
      <4> HIDE DEF Bad
      <4> QED BY <2>6, <4>1, Least
    <3>2. m \in 0..n /\ m \in 0..l
      BY <2>2
    <3>3. CASE m = 0
      BY <2>4, <2>5, <3>2, <3>3
    <3>4. CASE m # 0
      <4>1. m - 1 \in 0..n /\ m - 1 \notin Bad
        BY <3>1, <3>2, <3>4
      <4>2. r[m - 1] = t[m - 1]
        BY <4>1
      <4> QED BY <2>4, <2>5, <3>2, <3>4, <4>2
    <3> QED BY <3>3, <3>4
  <2>7. r[n] = t[n]
    BY <2>6
  <2>8. t[l] = MoreOf(f, i, t[n])
    BY <2>2, <2>5
  <2> QED BY <2>1, <2>2, <2>3, <2>7, <2>8
<1> QED BY <1>1, <1>2

\* Once it has ended nothing changes any more.
LEMMA OwnRunEnds ==
    ASSUME NEW f, NEW i, NEW m \in Nat, NEW n \in Nat, m <= n, OwnRun(f, i, m).how # "running"
    PROVE  OwnRun(f, i, n) = OwnRun(f, i, m)
<1> DEFINE Bad == {k \in Nat : OwnRun(f, i, m + k) # OwnRun(f, i, m)}
<1>1. ASSUME Bad # {} PROVE FALSE
  <2>1. PICK k \in Bad : \A j \in Bad : k <= j
    <3>1. Bad \subseteq Nat
      OBVIOUS
    <3> HIDE DEF Bad
    <3> QED BY <1>1, <3>1, Least
  <2>2. k # 0
    OBVIOUS
  <2>3. k - 1 \in Nat /\ k - 1 \notin Bad
    BY <2>1, <2>2
  <2>4. PICK l \in Nat : l = m + (k - 1) /\ l + 1 = m + k
    BY <2>3
  <2>5. OwnRun(f, i, l) = OwnRun(f, i, m)
    BY <2>3, <2>4
  <2>6. OwnRun(f, i, l + 1) = MoreOf(f, i, OwnRun(f, i, l))
    BY OwnRunSteps
  <2>7. MoreOf(f, i, OwnRun(f, i, l)) = OwnRun(f, i, l)
    BY <2>5 DEF MoreOf
  <2> QED BY <2>4, <2>5, <2>6, <2>7
<1>2. n - m \in Nat /\ m + (n - m) = n
  OBVIOUS
<1> QED BY <1>1, <1>2

-----------------------------------------------------------------------------
(* What is still needed.                                                    *)

\* What the k-th step of a block uses, the last one being its end.
UsesAt(f, b, k) ==
    IF k <= Len(f[b].ops) THEN Reads(f[b].ops[k])
    ELSE ToSet(f[b].last.uses)
         \cup UNION {PhiUses(f, b, t) \cup {id \in Defined(f) : <<t, id>> \in LiveAt(f)} : t \in Targets(f, b)}

\* The values that are used after n operations of a block and not made on the way there.
Needed(f, b, n) ==
    {id \in Defined(f) :
        \E k \in (n + 1)..(Len(f[b].ops) + 1) :
            id \in UsesAt(f, b, k) /\ \A j \in (n + 1)..(k - 1) : f[b].ops[j].out # id}

LEMMA LiveIsClosed ==
    ASSUME NEW f, Validated(f), NEW b \in Blocks(f), NEW id \in Defined(f)
    PROVE  /\ id \in Exposed(f, b) => <<b, id>> \in LiveAt(f)
           /\ \A t \in Targets(f, b) :
                 id \notin Made(f, b) /\ (id \in PhiUses(f, b, t) \/ <<t, id>> \in LiveAt(f))
                    => <<b, id>> \in LiveAt(f)
<1> DEFINE needed == UNION {{x} \X (Exposed(f, x) \cup
                                 ((UNION {PhiUses(f, x, t) : t \in Targets(f, x)}) \ Made(f, x))) :
                         x \in Blocks(f)}
           back == UNION {{<<<<e[2], v>>, <<e[1], v>>>> : v \in Defined(f) \ Made(f, e[1])} :
                       e \in Edges(f)}
<1>1. LiveAt(f) = Reached(back, needed)
  BY DEF LiveAt
<1>2. IsFiniteSet(back)
  <2> DEFINE pair(x) == <<<<x[1][2], x[2]>>, <<x[1][1], x[2]>>>>
             both == Edges(f) \X Defined(f)
             all == {pair(x) : x \in both}
  <2>1. IsFiniteSet(both)
    BY FS_Product DEF Validated
  <2>2. IsFiniteSet(all)
    <3>1. PICK g : g = [x \in both |-> pair(x)]
      OBVIOUS
    <3>2. g \in Surjection(both, all)
      <4> HIDE DEF both, pair
      <4> QED BY <3>1 DEF Surjection
    <3> HIDE DEF both, all
    <3> QED BY <2>1, <3>2, FS_Surjection
  <2>3. ASSUME NEW y \in back PROVE y \in all
    <3>1. PICK e \in Edges(f), v \in Defined(f) : y = <<<<e[2], v>>, <<e[1], v>>>>
      OBVIOUS
    <3>2. PICK x : x = <<e, v>>
      OBVIOUS
    <3>3. x \in both /\ x[1] = e /\ x[2] = v
      BY <3>2
    <3>4. y = pair(x)
      BY <3>1, <3>3
    <3> HIDE DEF both, pair
    <3> QED BY <3>3, <3>4
  <2>4. back \subseteq all
    <3> HIDE DEF back, all
    <3> QED BY <2>3
  <2> HIDE DEF back, all
  <2> QED BY <2>2, <2>4, FS_Subset
<1>3. Closed(back, needed, LiveAt(f))
  <2> HIDE DEF back, needed
  <2> QED BY <1>1, <1>2, ReachedClosed
<1>4. ASSUME id \in Exposed(f, b) PROVE <<b, id>> \in needed
  BY <1>4
<1>5. ASSUME NEW t \in Targets(f, b), id \notin Made(f, b), id \in PhiUses(f, b, t)
      PROVE  <<b, id>> \in needed
  BY <1>5
<1>6. ASSUME NEW t \in Targets(f, b), id \notin Made(f, b), <<t, id>> \in LiveAt(f)
      PROVE  <<b, id>> \in LiveAt(f)
  <2>1. PICK e : e = <<b, t>>
    OBVIOUS
  <2>2. e \in Edges(f) /\ e[1] = b /\ e[2] = t
    BY <2>1 DEF Edges
  <2>3. <<<<e[2], id>>, <<e[1], id>>>> \in back
    BY <1>6, <2>2
  <2>4. PICK d : d = <<<<t, id>>, <<b, id>>>>
    OBVIOUS
  <2>5. d \in back /\ d[1] = <<t, id>> /\ d[2] = <<b, id>>
    BY <2>2, <2>3, <2>4
  <2> HIDE DEF back, needed
  <2> QED BY <1>3, <1>6, <2>5 DEF Closed
<1> HIDE DEF back, needed
<1>7. needed \subseteq LiveAt(f)
  BY <1>3 DEF Closed
<1> QED BY <1>4, <1>5, <1>6, <1>7

\* What is needed in a block from its start on is a phi of it or live there.
LEMMA NeededAtStart ==
    ASSUME NEW f, Validated(f), NEW b \in Blocks(f), Len(f[b].ops) \in Nat, NEW id \in Needed(f, b, 0)
    PROVE  id \in PhiOuts(f, b) \/ <<b, id>> \in LiveAt(f)
<1>1. PICK n \in Nat : n = Len(f[b].ops)
  OBVIOUS
<1>2. PICK k \in 1..(n + 1) : /\ id \in UsesAt(f, b, k) /\ id \in Defined(f)
                             /\ \A j \in 1..(k - 1) : f[b].ops[j].out # id
  BY <1>1 DEF Needed
<1>3. SUFFICES ASSUME id \notin PhiOuts(f, b) PROVE <<b, id>> \in LiveAt(f)
  OBVIOUS
<1>4. id \notin OutsBefore(f, b, k)
  BY <1>2, <1>3 DEF OutsBefore
<1>5. CASE k <= n
  <2>1. id \in Reads(f[b].ops[k]) \ OutsBefore(f, b, k) /\ k \in 1..n
    BY <1>1, <1>2, <1>4, <1>5 DEF UsesAt
  <2>2. id \in Exposed(f, b)
    BY <1>1, <2>1 DEF Exposed
  <2> QED BY <1>2, <2>2, LiveIsClosed
<1>6. CASE k = n + 1
  <2>1. id \notin Made(f, b)
    BY <1>1, <1>4, <1>6 DEF Made
  <2>2. ~ (k <= n)
    BY <1>6
  <2>3. \/ id \in ToSet(f[b].last.uses)
        \/ \E t \in Targets(f, b) : id \in PhiUses(f, b, t) \/ <<t, id>> \in LiveAt(f)
    BY <1>1, <1>2, <2>2 DEF UsesAt
  <2>4. ASSUME id \in ToSet(f[b].last.uses) PROVE id \in Exposed(f, b)
    BY <2>1, <2>4 DEF Exposed
  <2> QED BY <1>2, <2>1, <2>3, <2>4, LiveIsClosed
<1> QED BY <1>5, <1>6

\* An operation reads what is needed, and only what it makes is needed from then on.
LEMMA NeededAtOp ==
    ASSUME NEW f, Validated(f), NEW b \in Blocks(f), Len(f[b].ops) \in Nat,
           NEW n \in 0..Len(f[b].ops), n < Len(f[b].ops), f[b].ops[n + 1] \in Operations(f)
    PROVE  /\ Reads(f[b].ops[n + 1]) \subseteq Needed(f, b, n)
           /\ \A id \in Needed(f, b, n + 1) : id # f[b].ops[n + 1].out => id \in Needed(f, b, n)
           /\ \A id \in Needed(f, b, n + 1) : id # None
<1>1. PICK l \in Nat : l = Len(f[b].ops)
  OBVIOUS
<1>2. n \in Nat /\ n + 1 \in (n + 1)..(l + 1) /\ n + 1 <= l /\ (n + 1)..((n + 1) - 1) = {}
  BY <1>1
<1>3. UsesAt(f, b, n + 1) = Reads(f[b].ops[n + 1])
  BY <1>1, <1>2 DEF UsesAt
<1>4. Reads(f[b].ops[n + 1]) \subseteq Defined(f)
  BY DEF Validated
<1>5. Reads(f[b].ops[n + 1]) \subseteq Needed(f, b, n)
  BY <1>1, <1>2, <1>3, <1>4 DEF Needed
<1>6. ASSUME NEW id \in Needed(f, b, n + 1), id # f[b].ops[n + 1].out PROVE id \in Needed(f, b, n)
  <2>1. PICK m \in Nat : m = n + 1
    BY <1>2
  <2>2. PICK k \in (m + 1)..(l + 1) : /\ id \in UsesAt(f, b, k) /\ id \in Defined(f)
                                      /\ \A j \in (m + 1)..(k - 1) : f[b].ops[j].out # id
    BY <1>1, <2>1 DEF Needed
  <2>3. k \in m..(l + 1) /\ \A j \in m..(k - 1) : j = m \/ j \in (m + 1)..(k - 1)
    OBVIOUS
  <2>4. \A j \in m..(k - 1) : f[b].ops[j].out # id
    BY <1>6, <2>1, <2>2, <2>3
  <2> QED BY <1>1, <2>1, <2>2, <2>3, <2>4 DEF Needed
<1>7. None \notin Defined(f)
  BY DEF Defined, Made
<1>8. \A id \in Needed(f, b, n + 1) : id # None
  BY <1>7 DEF Needed
<1> QED BY <1>5, <1>6, <1>8

\* At the end of a block its terminator, the phis of a successor, and what is needed there.
LEMMA NeededAtEnd ==
    ASSUME NEW f, Validated(f), NEW b \in Blocks(f), Len(f[b].ops) \in Nat
    PROVE  /\ ToSet(f[b].last.uses) \subseteq Needed(f, b, Len(f[b].ops))
           /\ \A t \in Targets(f, b) \cap Blocks(f) : Len(f[t].ops) \in Nat =>
                 /\ PhiUses(f, b, t) \subseteq Needed(f, b, Len(f[b].ops))
                 /\ Needed(f, t, 0) \ PhiOuts(f, t) \subseteq Needed(f, b, Len(f[b].ops))
<1>1. PICK n \in Nat : n = Len(f[b].ops)
  OBVIOUS
<1>2. ASSUME NEW id \in Defined(f), id \in UsesAt(f, b, n + 1) PROVE id \in Needed(f, b, n)
  <2>1. n + 1 \in (n + 1)..(n + 1) /\ (n + 1)..((n + 1) - 1) = {}
    OBVIOUS
  <2> QED BY <1>1, <1>2, <2>1 DEF Needed
<1>3. UsesAt(f, b, n + 1) = ToSet(f[b].last.uses)
         \cup UNION {PhiUses(f, b, t) \cup {id \in Defined(f) : <<t, id>> \in LiveAt(f)} : t \in Targets(f, b)}
  <2>1. ~ (n + 1 <= Len(f[b].ops))
    BY <1>1
  <2> QED BY <2>1 DEF UsesAt
<1>4. ToSet(f[b].last.uses) \subseteq Needed(f, b, n)
  BY <1>2, <1>3 DEF Validated
<1>5. ASSUME NEW t \in Targets(f, b) \cap Blocks(f), Len(f[t].ops) \in Nat
      PROVE  /\ PhiUses(f, b, t) \subseteq Needed(f, b, n)
             /\ Needed(f, t, 0) \ PhiOuts(f, t) \subseteq Needed(f, b, n)
  <2>1. PhiUses(f, b, t) \subseteq Defined(f)
    BY DEF Validated
  <2>2. PhiUses(f, b, t) \cup {id \in Defined(f) : <<t, id>> \in LiveAt(f)} \subseteq UsesAt(f, b, n + 1)
    BY <1>3
  <2>3. ASSUME NEW id \in Needed(f, t, 0), id \notin PhiOuts(f, t)
        PROVE  id \in Needed(f, b, n)
    <3>1. id \in Defined(f) /\ <<t, id>> \in LiveAt(f)
      BY <1>5, <2>3, NeededAtStart DEF Needed
    <3> QED BY <1>2, <2>2, <3>1
  <2> QED BY <1>2, <2>1, <2>2, <2>3
<1> QED BY <1>1, <1>4, <1>5

\* The entry needs nothing.
LEMMA NothingNeeded ==
    ASSUME NEW f, Validated(f), WellFormed(f)
    PROVE  Needed(f, 1, 0) = {}
<1>1. 1 \in Blocks(f) /\ Len(f[1].ops) \in Nat
  BY DEF WellFormed
<1>2. ASSUME NEW id \in Needed(f, 1, 0) PROVE FALSE
  <2>1. id \in Defined(f)
    BY DEF Needed
  <2>2. id \in PhiOuts(f, 1) \/ <<1, id>> \in LiveAt(f)
    BY <1>1, NeededAtStart
  <2> QED BY <2>1, <2>2 DEF Validated
<1> QED BY <1>2

-----------------------------------------------------------------------------
(* What a step does to data that agree on what is needed.                   *)

IsIO(io) == io = [read |-> io.read, printed |-> io.printed, drawn |-> io.drawn]
IsData(d) == d = [values |-> d.values, cells |-> d.cells, io |-> d.io] /\ IsIO(d.io)
IsMachine(m) ==
    m = [block |-> m.block, position |-> m.position, data |-> m.data, how |-> m.how] /\ IsData(m.data)

Agree(ids, values, others) ==
    \A id \in ids : id \in DOMAIN values /\ id \in DOMAIN others /\ values[id] = others[id]

Alike(ids, d, e) ==
    IsData(d) /\ IsData(e) /\ d.cells = e.cells /\ d.io = e.io /\ Agree(ids, d.values, e.values)

LEMMA EffectAlike ==
    ASSUME NEW op, NEW i, NEW before, NEW after, NEW d, NEW e, Alike(before, d, e),
           Reads(op) \subseteq before, \A id \in after : id # None /\ (id # op.out => id \in before)
    PROVE  Alike(after, Effect(op, i, d), Effect(op, i, e))
<1>1. /\ IsData(d) /\ IsData(e) /\ d.cells = e.cells /\ d.io = e.io
      /\ Agree(before, d.values, e.values)
  BY DEF Alike
<1>2. Operands(op, d) = Operands(op, e)
  <2>1. \A k \in DOMAIN op.uses : op.uses[k] \in before
    BY DEF Reads, ToSet
  <2>2. \A k \in DOMAIN op.uses : d.values[op.uses[k]] = e.values[op.uses[k]]
    BY <1>1, <2>1 DEF Agree
  <2> QED BY <2>2 DEF Operands
<1>3. Address(op, d) = Address(op, e)
  <2>1. op.base = None \/ op.base \in before
    BY DEF Reads
  <2> QED BY <1>1, <2>1 DEF Agree, Address
<1>4. Result(op, i, d) = Result(op, i, e)
  BY <1>1, <1>2, <1>3 DEF Result, NextByte
<1>5. PICK x, y : x = Effect(op, i, d) /\ y = Effect(op, i, e)
  OBVIOUS
<1> DEFINE wrote == IF op.kind = "store" THEN Put(d.cells, Address(op, d), Operands(op, d)[1]) ELSE d.cells
           io == CASE op.kind = "read" -> [d.io EXCEPT !.read = @ + 1]
                   [] op.kind = "rand" -> [d.io EXCEPT !.drawn = @ + 1]
                   [] op.kind = "print" -> [d.io EXCEPT !.printed = Append(@, Operands(op, d)[1])]
                   [] OTHER -> d.io
           made(w) == IF op.out = None THEN w ELSE Put(w, op.out, Result(op, i, d))
<1>6. x = [values |-> made(d.values), cells |-> wrote, io |-> io]
  BY <1>5 DEF Effect
<1>7. y = [values |-> made(e.values), cells |-> wrote, io |-> io]
  BY <1>1, <1>2, <1>3, <1>4, <1>5 DEF Effect
<1>8. IsIO(io)
  <2>1. PICK r, p, w : d.io = [read |-> r, printed |-> p, drawn |-> w]
    BY <1>1 DEF IsData, IsIO
  <2>2. \E a, b, c : io = [read |-> a, printed |-> b, drawn |-> c]
    <3>1. CASE op.kind = "read"
      BY <2>1, <3>1
    <3>2. CASE op.kind = "rand"
      BY <2>1, <3>2
    <3>3. CASE op.kind = "print"
      BY <2>1, <3>3
    <3>4. CASE op.kind \notin {"read", "rand", "print"}
      BY <2>1, <3>4
    <3> QED BY <3>1, <3>2, <3>3, <3>4
  <2> HIDE DEF io
  <2> QED BY <2>2 DEF IsIO
<1> HIDE DEF wrote, io
<1>9. Agree(after, made(d.values), made(e.values))
  <2>1. CASE op.out = None
    BY <1>1, <2>1 DEF Agree
  <2>2. CASE op.out # None
    <3>1. PICK a, o : a = Result(op, i, d) /\ o = op.out
      OBVIOUS
    <3>2. PICK u, v : u = Put(d.values, o, a) /\ v = Put(e.values, o, a)
      OBVIOUS
    <3>3. /\ DOMAIN u = {o} \cup DOMAIN d.values /\ u[o] = a
          /\ \A id \in DOMAIN d.values : id # o => u[id] = d.values[id]
          /\ DOMAIN v = {o} \cup DOMAIN e.values /\ v[o] = a
          /\ \A id \in DOMAIN e.values : id # o => v[id] = e.values[id]
      BY <3>2 DEF Put
    <3>4. Agree(after, u, v)
      BY <1>1, <3>1, <3>3 DEF Agree
    <3>5. made(d.values) = u /\ made(e.values) = v
      BY <2>2, <3>1, <3>2
    <3> QED BY <3>4, <3>5
  <2> QED BY <2>1, <2>2
<1> HIDE DEF made
<1>10. /\ x.values = made(d.values) /\ x.cells = wrote /\ x.io = io
       /\ y.values = made(e.values) /\ y.cells = wrote /\ y.io = io
  BY <1>6, <1>7
<1>11. IsData(x) /\ IsData(y)
  BY <1>6, <1>7, <1>8, <1>10 DEF IsData
<1> QED BY <1>5, <1>9, <1>10, <1>11 DEF Alike

LEMMA TransferredAlike ==
    ASSUME NEW f, NEW from, NEW to, NEW before, NEW after, NEW d, NEW e, Alike(before, d, e),
           PhiUses(f, from, to) \subseteq before, after \ PhiOuts(f, to) \subseteq before
    PROVE  Alike(after, Transferred(f, from, to, d), Transferred(f, from, to, e))
<1>1. /\ IsData(d) /\ IsData(e) /\ d.cells = e.cells /\ d.io = e.io
      /\ Agree(before, d.values, e.values)
  BY DEF Alike
<1>2. PICK phis : phis = ToSet(f[to].phis)
  OBVIOUS
<1>3. PICK source : source = [id \in {phi.out : phi \in phis} |->
                                (CHOOSE phi \in phis : phi.out = id).from[from]]
  OBVIOUS
<1>4. \A id \in {phi.out : phi \in phis} : source[id] \in before
  <2>1. ASSUME NEW id \in {phi.out : phi \in phis} PROVE source[id] \in before
    <3>1. PICK phi : phi = CHOOSE p \in phis : p.out = id
      OBVIOUS
    <3>2. \E p \in phis : p.out = id
      OBVIOUS
    <3>3. phi \in phis
      BY <3>1, <3>2
    <3>4. phi.from[from] \in PhiUses(f, from, to)
      BY <1>2, <3>3 DEF PhiUses
    <3> QED BY <1>3, <3>1, <3>4
  <2> QED BY <2>1
<1>5. PICK outs : outs = {phi.out : phi \in phis}
  OBVIOUS
<1>6. PICK u, v : u = [id \in outs |-> d.values[source[id]]] /\ v = [id \in outs |-> e.values[source[id]]]
  OBVIOUS
<1>7. /\ Transferred(f, from, to, d) = [d EXCEPT !.values = Over(u, @)]
      /\ Transferred(f, from, to, e) = [e EXCEPT !.values = Over(v, @)]
  <2>1. \A id \in outs : source[id] = (CHOOSE phi \in phis : phi.out = id).from[from]
    BY <1>3, <1>5
  <2>2. u = [id \in outs |-> d.values[(CHOOSE phi \in phis : phi.out = id).from[from]]]
    BY <1>6, <2>1
  <2>3. v = [id \in outs |-> e.values[(CHOOSE phi \in phis : phi.out = id).from[from]]]
    BY <1>6, <2>1
  <2> QED BY <1>2, <1>5, <2>2, <2>3 DEF Transferred
<1>8. u = v
  BY <1>1, <1>4, <1>5, <1>6 DEF Agree
<1>9. outs = PhiOuts(f, to) /\ DOMAIN u = outs
  BY <1>2, <1>5, <1>6 DEF PhiOuts
<1>10. PICK s, t : s = Over(u, d.values) /\ t = Over(u, e.values)
  OBVIOUS
<1>11. /\ s = [id \in outs \cup DOMAIN d.values |-> IF id \in outs THEN u[id] ELSE d.values[id]]
       /\ t = [id \in outs \cup DOMAIN e.values |-> IF id \in outs THEN u[id] ELSE e.values[id]]
  BY <1>9, <1>10 DEF Over
<1>12. Agree(after, s, t)
  BY <1>1, <1>9, <1>11 DEF Agree
<1>13. PICK x, y : x = Transferred(f, from, to, d) /\ y = Transferred(f, from, to, e)
  OBVIOUS
<1>14. /\ x = [values |-> s, cells |-> d.cells, io |-> d.io]
       /\ y = [values |-> t, cells |-> e.cells, io |-> e.io]
  BY <1>1, <1>7, <1>8, <1>10, <1>13 DEF IsData
<1>15. IsData(x) /\ IsData(y) /\ x.cells = y.cells /\ x.io = y.io /\ Agree(after, x.values, y.values)
  BY <1>1, <1>12, <1>14 DEF IsData
<1> QED BY <1>13, <1>15 DEF Alike

-----------------------------------------------------------------------------
(* States that are where the own runs of their inputs are.                  *)

\* What a state is at an input is, as far as it is needed, what the own run is.
Like(f, s, i, m) ==
    /\ IsMachine(m) /\ m.how = "running" /\ m.block = s.block /\ m.position = s.position
    /\ Alike(Needed(f, s.block, s.position), s.data[i], m.data)
Placed(f, s) ==
    /\ s.block \in Blocks(f) /\ s.position \in 0..Len(f[s.block].ops) /\ DOMAIN s.data = Inputs
    /\ \A i \in Inputs : Alike(Needed(f, s.block, s.position), s.data[i], s.data[i])
Follows(f, s) ==
    /\ IsState(s) /\ Placed(f, s)
    /\ \A i \in Cond(s) : \E n \in Nat : Like(f, s, i, OwnRun(f, i, n))

\* A path that was not given up stopped as the own runs of its inputs do.
Ending(m, e, i) ==
    /\ m.how = e.how /\ m.how # "running" /\ m.block = e.state.block
    /\ m.data.cells = e.state.data[i].cells /\ m.data.io = e.state.data[i].io
EndsLike(f, e) ==
    e.how \notin GivenUp => \A i \in Cond(e.state) : \E n \in Nat : Ending(OwnRun(f, i, n), e, i)

\* A run that did an operation, entered a block, or stopped.
Past(m, n, d) == [m EXCEPT !.position = n, !.data = d]
Into(m, b, n, d) == [m EXCEPT !.block = b, !.position = n, !.data = d]
Halted(m, how) == [m EXCEPT !.how = how]
Comes(f, m, to) == Into(m, to, 0, Transferred(f, m.block, to, m.data))

LEMMA MoreEnd ==
    ASSUME NEW f, NEW i, NEW m, m.how = "running", Len(f[m.block].ops) \in Nat,
           m.position \in 0..Len(f[m.block].ops)
    PROVE  /\ m.position = Len(f[m.block].ops) =>
                 /\ f[m.block].last.kind = "jump" =>
                       MoreOf(f, i, m) = Comes(f, m, f[m.block].last.targets[1])
                 /\ f[m.block].last.kind = "branch" =>
                       MoreOf(f, i, m) =
                          Comes(f, m, f[m.block].last.targets[
                             IF m.data.values[f[m.block].last.uses[1]] = 0 THEN 2 ELSE 1])
                 /\ f[m.block].last.kind \in {"return", "halt"} =>
                       MoreOf(f, i, m) = Halted(m, f[m.block].last.kind)
<1>2. ASSUME m.position = Len(f[m.block].ops)
      PROVE  MoreOf(f, i, m) =
             CASE f[m.block].last.kind = "jump" -> Comes(f, m, f[m.block].last.targets[1])
               [] f[m.block].last.kind = "branch" ->
                     Comes(f, m, f[m.block].last.targets[
                             IF m.data.values[f[m.block].last.uses[1]] = 0 THEN 2 ELSE 1])
               [] OTHER -> [m EXCEPT !.how = f[m.block].last.kind]
  <2>1. ~ (m.position < Len(f[m.block].ops))
    BY <1>2
  <2> QED BY <2>1 DEF MoreOf, Comes, Into
<1>3. ASSUME m.position = Len(f[m.block].ops), f[m.block].last.kind = "jump"
      PROVE  MoreOf(f, i, m) = Comes(f, m, f[m.block].last.targets[1])
  BY <1>2, <1>3
<1>4. ASSUME m.position = Len(f[m.block].ops), f[m.block].last.kind = "branch"
      PROVE  MoreOf(f, i, m) =
                          Comes(f, m, f[m.block].last.targets[
                             IF m.data.values[f[m.block].last.uses[1]] = 0 THEN 2 ELSE 1])
  BY <1>2, <1>4
<1>5. ASSUME m.position = Len(f[m.block].ops), f[m.block].last.kind \in {"return", "halt"}
      PROVE  MoreOf(f, i, m) = Halted(m, f[m.block].last.kind)
  BY <1>2, <1>5 DEF Halted
<1> QED BY <1>3, <1>4, <1>5

LEMMA MoreOp ==
    ASSUME NEW f, NEW i, NEW m, m.how = "running", m.position < Len(f[m.block].ops),
           NEW op, op = f[m.block].ops[m.position + 1]
    PROVE  /\ op.kind \in {"exit", "goal"} => MoreOf(f, i, m) = Halted(m, op.kind)
           /\ op.kind \notin {"exit", "goal"} =>
                 MoreOf(f, i, m) = Past(m, m.position + 1, Effect(op, i, m.data))
BY DEF MoreOf, Past, Halted

\* The run takes the step the state takes.
LEMMA MachineSteps ==
    ASSUME NEW m, IsMachine(m), NEW n, NEW d, IsData(d)
    PROVE  /\ IsMachine(Past(m, n, d))
           /\ Past(m, n, d) = [block |-> m.block, position |-> n, data |-> d, how |-> m.how]
<1>1. PICK c, k, e, g : m = [block |-> c, position |-> k, data |-> e, how |-> g]
  BY DEF IsMachine
<1>2. PICK x : x = [m EXCEPT !.position = n]
  OBVIOUS
<1>3. x = [block |-> c, position |-> n, data |-> e, how |-> g]
  BY <1>1, <1>2
<1>4. PICK y : y = [x EXCEPT !.data = d]
  OBVIOUS
<1>5. y = [block |-> c, position |-> n, data |-> d, how |-> g]
  BY <1>3, <1>4
<1>6. y = Past(m, n, d)
  BY <1>2, <1>4 DEF Past
<1>7. IsMachine(y)
  BY <1>5 DEF IsMachine
<1> QED BY <1>1, <1>5, <1>6, <1>7

LEMMA MachineEnters ==
    ASSUME NEW m, IsMachine(m), NEW b, NEW n, NEW d, IsData(d)
    PROVE  /\ IsMachine(Into(m, b, n, d))
           /\ Into(m, b, n, d) = [block |-> b, position |-> n, data |-> d, how |-> m.how]
<1>1. PICK c, k, e, g : m = [block |-> c, position |-> k, data |-> e, how |-> g]
  BY DEF IsMachine
<1>2. PICK x : x = [m EXCEPT !.block = b]
  OBVIOUS
<1>3. x = [block |-> b, position |-> k, data |-> e, how |-> g] /\ IsData(e)
  BY <1>1, <1>2 DEF IsMachine
<1>4. IsMachine(x)
  BY <1>3 DEF IsMachine
<1>5. PICK y : y = Past(x, n, d)
  OBVIOUS
<1>6. IsMachine(y) /\ y = [block |-> x.block, position |-> n, data |-> d, how |-> x.how]
  BY <1>4, <1>5, MachineSteps
<1>7. y = Into(m, b, n, d)
  BY <1>2, <1>5 DEF Past, Into
<1> QED BY <1>1, <1>3, <1>6, <1>7

LEMMA MachineHalts ==
    ASSUME NEW m, IsMachine(m), NEW how
    PROVE  Halted(m, how) = [block |-> m.block, position |-> m.position, data |-> m.data, how |-> how]
<1>1. PICK c, k, e, g : m = [block |-> c, position |-> k, data |-> e, how |-> g]
  BY DEF IsMachine
<1> QED BY <1>1 DEF Halted

LEMMA DoneHas ==
    ASSUME NEW s, IsState(s), NEW b, NEW n, NEW d
    PROVE  /\ Done(s, n, d).block = s.block /\ Done(s, n, d).position = n /\ Done(s, n, d).data = d
           /\ Moved(s, b, n, d).block = b /\ Moved(s, b, n, d).position = n /\ Moved(s, b, n, d).data = d
<1>1. PICK b1, n1, d1, p1, v1 :
         s = [block |-> b1, position |-> n1, data |-> d1, path |-> p1, visits |-> v1]
  BY FieldsIs
<1>2. Done(s, n, d) = [block |-> b1, position |-> n, data |-> d, path |-> p1, visits |-> v1]
  <2>1. PICK z : z = [s EXCEPT !.position = n]
    OBVIOUS
  <2>2. z = [block |-> b1, position |-> n, data |-> d1, path |-> p1, visits |-> v1]
    BY <1>1, <2>1
  <2>3. [z EXCEPT !.data = d] = [block |-> b1, position |-> n, data |-> d, path |-> p1, visits |-> v1]
    BY <2>2
  <2> QED BY <2>1, <2>3 DEF Done
<1>3. PICK x : x = [s EXCEPT !.block = b]
  OBVIOUS
<1>4. x = [block |-> b, position |-> n1, data |-> d1, path |-> p1, visits |-> v1]
  BY <1>1, <1>3
<1>5. PICK y : y = [x EXCEPT !.position = n]
  OBVIOUS
<1>6. y = [block |-> b, position |-> n, data |-> d1, path |-> p1, visits |-> v1]
  BY <1>4, <1>5
<1>7. [y EXCEPT !.data = d] = [block |-> b, position |-> n, data |-> d, path |-> p1, visits |-> v1]
  BY <1>6
<1>8. [y EXCEPT !.data = d] = Moved(s, b, n, d)
  BY <1>3, <1>5 DEF Moved
<1> QED BY <1>1, <1>2, <1>7, <1>8

\* The data of a state after a step is what the step makes of it at each input.
LEMMA OperationFollows ==
    ASSUME NEW f, WellFormed(f), Validated(f), NEW s, Follows(f, s),
           s.position < Len(f[s.block].ops), f[s.block].ops[s.position + 1].kind \notin {"exit", "goal"},
           NEW data, data = [i \in Inputs |-> Effect(f[s.block].ops[s.position + 1], i, s.data[i])]
    PROVE  Follows(f, Done(s, s.position + 1, data))
<1>1. PICK b, n, op, t : b = s.block /\ n = s.position /\ op = f[b].ops[n + 1] /\ t = Done(s, n + 1, data)
  OBVIOUS
<1>2. /\ b \in Blocks(f) /\ n \in 0..Len(f[b].ops) /\ n < Len(f[b].ops) /\ IsState(s)
      /\ DOMAIN s.data = Inputs /\ \A i \in Inputs : Alike(Needed(f, b, n), s.data[i], s.data[i])
  BY <1>1 DEF Follows, Placed
<1>3. PICK l \in Nat : l = Len(f[b].ops) /\ DOMAIN f[b].ops = 1..l
  BY <1>2 DEF WellFormed
<1>4. n \in Nat /\ n + 1 \in 1..l /\ n + 1 \in 0..l
  BY <1>2, <1>3
<1>5. op \in Operations(f)
  BY <1>1, <1>2, <1>3, <1>4 DEF Operations, ToSet
<1>6. /\ Reads(op) \subseteq Needed(f, b, n)
      /\ \A id \in Needed(f, b, n + 1) : id # None /\ (id # op.out => id \in Needed(f, b, n))
  BY <1>1, <1>2, <1>3, <1>5, NeededAtOp
<1>7. IsState(t) /\ t.path = s.path /\ t.block = b /\ t.position = n + 1 /\ t.data = data
  BY <1>1, <1>2, DoneIs, DoneHas
<1>8. \A i \in Inputs : \A e : Alike(Needed(f, b, n), s.data[i], e)
                           => Alike(Needed(f, b, n + 1), data[i], Effect(op, i, e))
  <2>1. ASSUME NEW i \in Inputs, NEW e, Alike(Needed(f, b, n), s.data[i], e)
        PROVE  Alike(Needed(f, b, n + 1), data[i], Effect(op, i, e))
    <3>1. Alike(Needed(f, b, n + 1), Effect(op, i, s.data[i]), Effect(op, i, e))
      BY <1>6, <2>1, EffectAlike
    <3> QED BY <1>1, <3>1
  <2> QED BY <2>1
<1>9. Placed(f, t)
  <2>1. \A i \in Inputs : data[i] = Effect(op, i, s.data[i])
    BY <1>1
  <2>2. \A i \in Inputs : Alike(Needed(f, b, n + 1), data[i], data[i])
    BY <1>2, <1>8, <2>1
  <2>3. DOMAIN data = Inputs
    OBVIOUS
  <2> QED BY <1>2, <1>3, <1>4, <1>7, <2>2, <2>3 DEF Placed
<1>10. ASSUME NEW i \in Cond(t) PROVE \E k \in Nat : Like(f, t, i, OwnRun(f, i, k))
  <2>1. i \in Cond(s) /\ i \in Inputs
    BY <1>7 DEF Cond, Conjunction
  <2>2. PICK k \in Nat : Like(f, s, i, OwnRun(f, i, k))
    BY <2>1 DEF Follows
  <2>3. PICK m : m = OwnRun(f, i, k)
    OBVIOUS
  <2>4. /\ IsMachine(m) /\ m.how = "running" /\ m.block = b /\ m.position = n
        /\ Alike(Needed(f, b, n), s.data[i], m.data)
    BY <1>1, <2>2, <2>3 DEF Like
  <2>5. MoreOf(f, i, m) = Past(m, n + 1, Effect(op, i, m.data))
    <3>1. MoreOf(f, i, m) = Past(m, m.position + 1, Effect(op, i, m.data))
      <4>1. /\ m.position < Len(f[m.block].ops) /\ Len(f[m.block].ops) \in Nat
            /\ m.position \in 0..Len(f[m.block].ops) /\ f[m.block].ops[m.position + 1] = op
        BY <1>1, <1>2, <1>3, <2>4
      <4>2. op.kind \notin {"exit", "goal"}
        BY <1>1
      <4> QED BY <2>4, <4>1, <4>2, MoreOp
    <3> QED BY <2>4, <3>1
  <2>6. Alike(Needed(f, b, n + 1), data[i], Effect(op, i, m.data))
    BY <1>8, <2>1, <2>4
  <2>7. IsData(Effect(op, i, m.data))
    BY <2>6 DEF Alike
  <2>8. PICK w : w = MoreOf(f, i, m)
    OBVIOUS
  <2>9. IsMachine(w) /\ w = [block |-> b, position |-> n + 1, data |-> Effect(op, i, m.data), how |-> "running"]
    <3>1. PICK d : d = Effect(op, i, m.data)
      OBVIOUS
    <3>2. IsData(d) /\ w = Past(m, n + 1, d)
      BY <2>5, <2>7, <2>8, <3>1
    <3>3. IsMachine(w) /\ w = [block |-> m.block, position |-> n + 1, data |-> d, how |-> m.how]
      BY <2>4, <3>2, MachineSteps
    <3> QED BY <2>4, <3>1, <3>3
  <2>10. Like(f, t, i, w)
    BY <1>7, <2>6, <2>9 DEF Like
  <2>11. w = OwnRun(f, i, k + 1) /\ k + 1 \in Nat
    <3>1. OwnRun(f, i, k + 1) = MoreOf(f, i, OwnRun(f, i, k))
      BY OwnRunSteps
    <3> QED BY <2>3, <2>8, <3>1
  <2> QED BY <2>10, <2>11
<1> QED BY <1>1, <1>7, <1>9, <1>10 DEF Follows

\* A state that knows more about its inputs, or was somewhere more often.
LEMMA SameFollows ==
    ASSUME NEW f, NEW s, Follows(f, s), NEW t, IsState(t), Cond(t) \subseteq Cond(s),
           t.block = s.block, t.position = s.position, t.data = s.data
    PROVE  Follows(f, t)
<1>1. Placed(f, t)
  BY DEF Follows, Placed
<1>2. ASSUME NEW i \in Cond(t) PROVE \E n \in Nat : Like(f, t, i, OwnRun(f, i, n))
  <2>1. PICK n \in Nat : Like(f, s, i, OwnRun(f, i, n))
    BY DEF Follows
  <2>2. Like(f, t, i, OwnRun(f, i, n))
    BY <2>1 DEF Like
  <2> QED BY <2>2
<1> QED BY <1>1, <1>2 DEF Follows

LEMMA VisitedFollows ==
    ASSUME NEW f, NEW s, Follows(f, s)
    PROVE  /\ Follows(f, Visited(s)) /\ Cond(Visited(s)) = Cond(s)
           /\ Visited(s).block = s.block /\ Visited(s).position = s.position /\ Visited(s).data = s.data
<1>1. PICK b, n, d, p, v : s = [block |-> b, position |-> n, data |-> d, path |-> p, visits |-> v]
  BY FieldsIs DEF Follows
<1>2. PICK w : Visited(s) = [s EXCEPT !.visits = w]
  BY DEF Visited
<1>3. PICK t : t = Visited(s)
  OBVIOUS
<1>4. t = [block |-> b, position |-> n, data |-> d, path |-> p, visits |-> w]
  BY <1>1, <1>2, <1>3
<1>5. IsState(t) /\ t.path = s.path
  BY <1>3, VisitedIs DEF Follows
<1>6. Cond(t) = Cond(s)
  BY <1>5 DEF Cond
<1> QED BY <1>1, <1>3, <1>4, <1>5, <1>6, SameFollows

LEMMA AssumeHas ==
    ASSUME NEW s, IsState(s), NEW c
    PROVE  /\ Assume(s, c).block = s.block /\ Assume(s, c).position = s.position
           /\ Assume(s, c).data = s.data
<1>1. PICK b, n, d, p, v : s = [block |-> b, position |-> n, data |-> d, path |-> p, visits |-> v]
  BY FieldsIs
<1>2. PICK t : t = Assume(s, c)
  OBVIOUS
<1>3. CASE c = Inputs
  BY <1>2, <1>3 DEF Assume
<1>4. CASE c # Inputs
  <2>1. PICK q : t = [s EXCEPT !.path = q]
    BY <1>2, <1>4 DEF Assume
  <2>2. t = [block |-> b, position |-> n, data |-> d, path |-> q, visits |-> v]
    BY <1>1, <2>1
  <2> QED BY <1>1, <1>2, <2>2
<1> QED BY <1>3, <1>4

LEMMA AssumeFollows ==
    ASSUME NEW f, NEW s, Follows(f, s), NEW c \in SUBSET Inputs
    PROVE  /\ Follows(f, Assume(s, c)) /\ Cond(Assume(s, c)) = Cond(s) \cap c
           /\ Assume(s, c).block = s.block /\ Assume(s, c).position = s.position
           /\ Assume(s, c).data = s.data
<1>1. PICK t : t = Assume(s, c)
  OBVIOUS
<1>2. t.block = s.block /\ t.position = s.position /\ t.data = s.data
  BY <1>1, AssumeHas DEF Follows
<1>3. IsState(t) /\ Cond(t) = Cond(s) \cap c
  BY <1>1, AssumeIs DEF Follows
<1> QED BY <1>1, <1>2, <1>3, SameFollows

\* A state that goes where the own runs of its inputs go.
LEMMA GoToFollows ==
    ASSUME NEW f, f = Code, WellFormed(f), Validated(f), NEW s, Follows(f, s),
           s.position = Len(f[s.block].ops), NEW to \in Targets(f, s.block) \cap Blocks(f),
           \A i \in Cond(s) : \A m : Like(f, s, i, m) => MoreOf(f, i, m) = Comes(f, m, to)
    PROVE  Follows(f, GoTo(s, to))
<1>1. PICK data : data = [i \in Inputs |-> Transferred(f, s.block, to, s.data[i])]
  OBVIOUS
<1>2. PICK b, n, t : b = s.block /\ n = s.position /\ t = GoTo(s, to)
  OBVIOUS
<1>3. t = Moved(s, to, 0, data)
  BY <1>1, <1>2 DEF GoTo, AtEach, Moved
<1>4. /\ b \in Blocks(f) /\ IsState(s) /\ DOMAIN s.data = Inputs /\ n = Len(f[b].ops)
      /\ \A i \in Inputs : Alike(Needed(f, b, n), s.data[i], s.data[i])
  BY <1>2 DEF Follows, Placed
<1>5. IsState(t) /\ t.path = s.path /\ t.block = to /\ t.position = 0 /\ t.data = data
  BY <1>3, <1>4, MovedIs, DoneHas
<1>6. n \in Nat /\ Len(f[to].ops) \in Nat
  BY <1>4 DEF WellFormed
<1>7. PhiUses(f, b, to) \subseteq Needed(f, b, n) /\ Needed(f, to, 0) \ PhiOuts(f, to) \subseteq Needed(f, b, n)
  BY <1>2, <1>4, <1>6, NeededAtEnd
<1>8. ASSUME NEW i \in Inputs, NEW e, Alike(Needed(f, b, n), s.data[i], e)
      PROVE  Alike(Needed(f, to, 0), data[i], Transferred(f, b, to, e))
  <2>1. Alike(Needed(f, to, 0), Transferred(f, b, to, s.data[i]), Transferred(f, b, to, e))
    BY <1>7, <1>8, TransferredAlike
  <2> QED BY <1>1, <1>2, <2>1
<1>9. Placed(f, t)
  <2>1. \A i \in Inputs : data[i] = Transferred(f, b, to, s.data[i])
    BY <1>1, <1>2
  <2>2. \A i \in Inputs : Alike(Needed(f, to, 0), data[i], data[i])
    BY <1>4, <1>8, <2>1
  <2>3. DOMAIN data = Inputs /\ 0 \in 0..Len(f[to].ops)
    BY <1>1, <1>6
  <2> QED BY <1>5, <2>2, <2>3 DEF Placed
<1>10. ASSUME NEW i \in Cond(t) PROVE \E k \in Nat : Like(f, t, i, OwnRun(f, i, k))
  <2>1. i \in Cond(s) /\ i \in Inputs
    BY <1>5 DEF Cond, Conjunction
  <2>2. PICK k \in Nat : Like(f, s, i, OwnRun(f, i, k))
    BY <2>1 DEF Follows
  <2>3. PICK m : m = OwnRun(f, i, k)
    OBVIOUS
  <2>4. /\ IsMachine(m) /\ m.how = "running" /\ m.block = b /\ m.position = n
        /\ Alike(Needed(f, b, n), s.data[i], m.data)
    BY <1>2, <2>2, <2>3 DEF Like
  <2>5. PICK d : d = Transferred(f, b, to, m.data)
    OBVIOUS
  <2>6. MoreOf(f, i, m) = Into(m, to, 0, d)
    <3>1. MoreOf(f, i, m) = Comes(f, m, to)
      BY <2>1, <2>2, <2>3
    <3> QED BY <2>4, <2>5, <3>1 DEF Comes
  <2>7. Alike(Needed(f, to, 0), data[i], d)
    BY <1>8, <2>1, <2>4, <2>5
  <2>8. IsData(d)
    BY <2>7 DEF Alike
  <2>9. PICK w : w = MoreOf(f, i, m)
    OBVIOUS
  <2>10. IsMachine(w) /\ w = [block |-> to, position |-> 0, data |-> d, how |-> "running"]
    BY <2>4, <2>6, <2>8, <2>9, MachineEnters
  <2>11. Like(f, t, i, w)
    BY <1>5, <2>7, <2>10 DEF Like
  <2>12. w = OwnRun(f, i, k + 1) /\ k + 1 \in Nat
    <3>1. OwnRun(f, i, k + 1) = MoreOf(f, i, OwnRun(f, i, k))
      BY OwnRunSteps
    <3> QED BY <2>3, <2>9, <3>1
  <2> QED BY <2>11, <2>12
<1> QED BY <1>2, <1>5, <1>9, <1>10 DEF Follows

\* A state that stops where the own runs of its inputs stop.
LEMMA StopFollows ==
    ASSUME NEW f, NEW s, Follows(f, s), NEW how, how # "running",
           \A i \in Cond(s) : \A m : Like(f, s, i, m) => MoreOf(f, i, m) = Halted(m, how)
    PROVE  EndsLike(f, [how |-> how, state |-> s])
<1>1. PICK e : e = [how |-> how, state |-> s]
  OBVIOUS
<1>2. e.how = how /\ e.state = s
  BY <1>1
<1>3. ASSUME NEW i \in Cond(s) PROVE \E n \in Nat : Ending(OwnRun(f, i, n), e, i)
  <2>1. PICK k \in Nat : Like(f, s, i, OwnRun(f, i, k))
    BY DEF Follows
  <2>2. PICK m : m = OwnRun(f, i, k)
    OBVIOUS
  <2>3. IsMachine(m) /\ m.block = s.block /\ m.data.cells = s.data[i].cells /\ m.data.io = s.data[i].io
    BY <2>1, <2>2 DEF Like, Alike
  <2>4. PICK w : w = MoreOf(f, i, m)
    OBVIOUS
  <2>5. w = Halted(m, how)
    BY <2>1, <2>2, <2>4
  <2>6. w = [block |-> m.block, position |-> m.position, data |-> m.data, how |-> how]
    BY <2>3, <2>5, MachineHalts
  <2>7. Ending(w, e, i)
    BY <1>2, <2>3, <2>6 DEF Ending
  <2>8. w = OwnRun(f, i, k + 1) /\ k + 1 \in Nat
    <3>1. OwnRun(f, i, k + 1) = MoreOf(f, i, OwnRun(f, i, k))
      BY OwnRunSteps
    <3> QED BY <2>2, <2>4, <3>1
  <2> QED BY <2>7, <2>8
<1>4. EndsLike(f, e)
  BY <1>2, <1>3 DEF EndsLike
<1> QED BY <1>1, <1>4

\* What a branch takes its side from is the same in the state and in the own run.
LEMMA ConditionIs ==
    ASSUME NEW f, WellFormed(f), Validated(f), NEW s, Follows(f, s),
           s.position = Len(f[s.block].ops), f[s.block].last.kind = "branch",
           NEW id, id = f[s.block].last.uses[1], NEW i \in Inputs, NEW m, Like(f, s, i, m)
    PROVE  /\ m.data.values[id] = s.data[i].values[id]
           /\ s.data[i].values[id] = 0 => MoreOf(f, i, m) = Comes(f, m, f[s.block].last.targets[2])
           /\ s.data[i].values[id] # 0 => MoreOf(f, i, m) = Comes(f, m, f[s.block].last.targets[1])
<1>1. s.block \in Blocks(f) /\ Len(f[s.block].ops) \in Nat
  BY DEF Follows, Placed, WellFormed
<1>2. id \in ToSet(f[s.block].last.uses)
  BY <1>1 DEF Validated, ToSet
<1>3. id \in Needed(f, s.block, s.position)
  BY <1>1, <1>2, NeededAtEnd
<1>4. /\ m.how = "running" /\ m.block = s.block /\ m.position = s.position
      /\ Alike(Needed(f, s.block, s.position), s.data[i], m.data)
  BY DEF Like
<1>5. m.data.values[id] = s.data[i].values[id]
  BY <1>3, <1>4 DEF Alike, Agree
<1>6. m.position \in 0..Len(f[m.block].ops)
  BY <1>1, <1>4
<1>7. PICK k : k = IF m.data.values[f[m.block].last.uses[1]] = 0 THEN 2 ELSE 1
  OBVIOUS
<1>8. MoreOf(f, i, m) = Comes(f, m, f[m.block].last.targets[k])
  BY <1>1, <1>4, <1>6, <1>7, MoreEnd
<1>9. /\ s.data[i].values[id] = 0 => k = 2
      /\ s.data[i].values[id] # 0 => k = 1
  BY <1>4, <1>5, <1>7
<1> QED BY <1>4, <1>5, <1>8, <1>9

LEMMA TargetsAre ==
    ASSUME NEW f, WellFormed(f), Validated(f), NEW b \in Blocks(f)
    PROVE  /\ f[b].last.kind = "jump" => f[b].last.targets[1] \in Targets(f, b) \cap Blocks(f)
           /\ f[b].last.kind = "branch" =>
                 /\ f[b].last.targets[1] \in Targets(f, b) \cap Blocks(f)
                 /\ f[b].last.targets[2] \in Targets(f, b) \cap Blocks(f)
<1>1. 1 \in 1..2 /\ 2 \in 1..2
  OBVIOUS
<1> QED BY <1>1 DEF WellFormed, Validated, Targets, ToSet

LEMMA JumpFollows ==
    ASSUME NEW f, f = Code, WellFormed(f), Validated(f), NEW s, Follows(f, s),
           s.position = Len(f[s.block].ops), f[s.block].last.kind = "jump"
    PROVE  Follows(f, GoTo(s, f[s.block].last.targets[1]))
<1>1. s.block \in Blocks(f) /\ Len(f[s.block].ops) \in Nat
  BY DEF Follows, Placed, WellFormed
<1>2. PICK to \in Targets(f, s.block) \cap Blocks(f) : to = f[s.block].last.targets[1]
  BY <1>1, TargetsAre
<1>3. ASSUME NEW i, NEW m, Like(f, s, i, m) PROVE MoreOf(f, i, m) = Comes(f, m, to)
  <2>1. m.how = "running" /\ m.block = s.block /\ m.position = s.position
    BY <1>3 DEF Like
  <2>2. m.position \in 0..Len(f[m.block].ops)
    BY <1>1, <2>1
  <2>3. MoreOf(f, i, m) = Comes(f, m, f[m.block].last.targets[1])
    BY <1>1, <2>1, <2>2, MoreEnd
  <2> QED BY <1>2, <2>1, <2>3
<1>4. Follows(f, GoTo(s, to))
  BY <1>3, GoToFollows
<1> QED BY <1>2, <1>4

\* A value that is the same for every input.
LEMMA ConstIs ==
    ASSUME NEW v, v = [i \in Inputs |-> v[i]], IsConst(v)
    PROVE  \A i \in Inputs : 0 \in Range(v) <=> v[i] = 0
<1>1. PICK R : R = Range(v)
  OBVIOUS
<1>2. R = {v[i] : i \in Inputs}
  <2>1. DOMAIN v = Inputs
    OBVIOUS
  <2> QED BY <1>1, <2>1 DEF Range
<1>3. v \in Surjection(Inputs, R)
  BY <1>2 DEF Surjection
<1>4. IsFiniteSet(R)
  BY <1>3, FS_Surjection, MergeAssumption
<1>5. Cardinality(R) = 1
  BY <1>1 DEF IsConst
<1>6. PICK x : R = {x}
  BY <1>4, <1>5, FS_Singleton
<1> QED BY <1>1, <1>2, <1>6

\* A state goes where its inputs go when they all go to one side.
LEMMA SideFollows ==
    ASSUME NEW f, f = Code, WellFormed(f), Validated(f), NEW s, Follows(f, s),
           s.position = Len(f[s.block].ops), f[s.block].last.kind = "branch",
           NEW id, id = f[s.block].last.uses[1], NEW side \in {1, 2},
           \A i \in Cond(s) : s.data[i].values[id] = 0 <=> side = 2
    PROVE  Follows(f, GoTo(s, f[s.block].last.targets[side]))
<1>1. s.block \in Blocks(f) /\ Len(f[s.block].ops) \in Nat
  BY DEF Follows, Placed, WellFormed
<1>2. PICK to \in Targets(f, s.block) \cap Blocks(f) : to = f[s.block].last.targets[side]
  BY <1>1, TargetsAre
<1>3. ASSUME NEW i \in Cond(s), NEW m, Like(f, s, i, m) PROVE MoreOf(f, i, m) = Comes(f, m, to)
  <2>1. i \in Inputs
    BY DEF Cond, Conjunction
  <2>2. /\ s.data[i].values[id] = 0 => MoreOf(f, i, m) = Comes(f, m, f[s.block].last.targets[2])
        /\ s.data[i].values[id] # 0 => MoreOf(f, i, m) = Comes(f, m, f[s.block].last.targets[1])
    BY <1>3, <2>1, ConditionIs
  <2>3. s.data[i].values[id] = 0 <=> side = 2
    OBVIOUS
  <2> QED BY <1>2, <2>2, <2>3
<1>4. Follows(f, GoTo(s, to))
  BY <1>3, GoToFollows
<1> QED BY <1>2, <1>4

LEMMA DecidedFollows ==
    ASSUME NEW f, f = Code, WellFormed(f), Validated(f), NEW s, Follows(f, s),
           s.position = Len(f[s.block].ops), f[s.block].last.kind = "branch",
           IsConst(ValueOf(s, f[s.block].last.uses[1]))
    PROVE  Follows(f, GoTo(s, IF 0 \in Range(ValueOf(s, f[s.block].last.uses[1]))
                              THEN f[s.block].last.targets[2] ELSE f[s.block].last.targets[1]))
<1>1. PICK id, v : id = f[s.block].last.uses[1] /\ v = ValueOf(s, id)
  OBVIOUS
<1>2. v = [i \in Inputs |-> v[i]] /\ \A i \in Inputs : v[i] = s.data[i].values[id]
  BY <1>1 DEF ValueOf
<1>3. \A i \in Inputs : 0 \in Range(v) <=> v[i] = 0
  BY <1>1, <1>2, ConstIs
<1>4. PICK side \in {1, 2} : side = 2 <=> 0 \in Range(v)
  OBVIOUS
<1>5. \A i \in Cond(s) : s.data[i].values[id] = 0 <=> side = 2
  BY <1>2, <1>3, <1>4 DEF Cond, Conjunction
<1>6. Follows(f, GoTo(s, f[s.block].last.targets[side]))
  BY <1>1, <1>5, SideFollows
<1>7. f[s.block].last.targets[side]
         = IF 0 \in Range(v) THEN f[s.block].last.targets[2] ELSE f[s.block].last.targets[1]
  BY <1>4
<1> QED BY <1>1, <1>6, <1>7

\* Each side of a branch holds the inputs whose own runs take it.
LEMMA ChildrenFollow ==
    ASSUME NEW f, f = Code, WellFormed(f), Validated(f), NEW s, Follows(f, s),
           s.position = Len(f[s.block].ops), f[s.block].last.kind = "branch"
    PROVE  \E a, b : Children(s) = <<a, b>> /\ Follows(f, a) /\ Follows(f, b)
<1>1. PICK c, id : c = s.block /\ id = f[c].last.uses[1]
  OBVIOUS
<1>2. PICK zero : zero = Where(Condition(s), {0})
  OBVIOUS
<1>3. zero = {i \in Inputs : s.data[i].values[id] = 0}
  BY <1>1, <1>2 DEF Where, Condition, Block, ValueOf
<1>4. PICK v : v = Visited(s)
  OBVIOUS
<1>5. Follows(f, v) /\ v.block = c /\ v.position = s.position /\ v.data = s.data
  BY <1>1, <1>4, VisitedFollows
<1>6. zero \in SUBSET Inputs /\ Inputs \ zero \in SUBSET Inputs
  BY <1>3
<1>7. PICK x, y : x = Assume(v, Inputs \ zero) /\ y = Assume(v, zero)
  OBVIOUS
<1>8. /\ Follows(f, x) /\ Cond(x) \subseteq Inputs \ zero
      /\ x.block = c /\ x.position = s.position /\ x.data = s.data
  BY <1>5, <1>6, <1>7, AssumeFollows
<1>9. /\ Follows(f, y) /\ Cond(y) \subseteq zero
      /\ y.block = c /\ y.position = s.position /\ y.data = s.data
  BY <1>5, <1>6, <1>7, AssumeFollows
<1>10. Follows(f, GoTo(x, f[c].last.targets[1]))
  <2>1. \A i \in Cond(x) : x.data[i].values[id] = 0 <=> 1 = 2
    BY <1>3, <1>8
  <2>2. Follows(f, GoTo(x, f[x.block].last.targets[1]))
    BY <1>1, <1>8, <2>1, SideFollows
  <2> QED BY <1>8, <2>2
<1>11. Follows(f, GoTo(y, f[c].last.targets[2]))
  <2>1. \A i \in Cond(y) : y.data[i].values[id] = 0 <=> 2 = 2
    BY <1>3, <1>9
  <2>2. Follows(f, GoTo(y, f[y.block].last.targets[2]))
    BY <1>1, <1>9, <2>1, SideFollows
  <2> QED BY <1>9, <2>2
<1>12. Children(s) = <<GoTo(x, f[c].last.targets[1]), GoTo(y, f[c].last.targets[2])>>
  BY <1>1, <1>2, <1>4, <1>7 DEF Children, TrueTarget, FalseTarget, Block
<1> QED BY <1>10, <1>11, <1>12

\* The ends of a function and of the process.
LEMMA ReturnFollows ==
    ASSUME NEW f, WellFormed(f), NEW s, Follows(f, s),
           s.position = Len(f[s.block].ops), f[s.block].last.kind \in {"return", "halt"}
    PROVE  EndsLike(f, [how |-> f[s.block].last.kind, state |-> s])
<1>1. s.block \in Blocks(f) /\ Len(f[s.block].ops) \in Nat
  BY DEF Follows, Placed, WellFormed
<1>2. PICK how : how = f[s.block].last.kind
  OBVIOUS
<1>3. ASSUME NEW i, NEW m, Like(f, s, i, m) PROVE MoreOf(f, i, m) = Halted(m, how)
  <2>1. m.how = "running" /\ m.block = s.block /\ m.position = s.position
    BY <1>3 DEF Like
  <2>2. m.position \in 0..Len(f[m.block].ops)
    BY <1>1, <2>1
  <2>3. MoreOf(f, i, m) = Halted(m, f[m.block].last.kind)
    BY <1>1, <2>1, <2>2, MoreEnd
  <2> QED BY <1>2, <2>1, <2>3
<1>4. how # "running"
  BY <1>2
<1> QED BY <1>2, <1>3, <1>4, StopFollows

LEMMA FinishFollows ==
    ASSUME NEW f, WellFormed(f), NEW s, Follows(f, s), s.position < Len(f[s.block].ops),
           NEW op, op = f[s.block].ops[s.position + 1], op.kind \in {"exit", "goal"}
    PROVE  EndsLike(f, [how |-> op.kind, state |-> s])
<1>1. PICK how : how = op.kind
  OBVIOUS
<1>2. ASSUME NEW i, NEW m, Like(f, s, i, m) PROVE MoreOf(f, i, m) = Halted(m, how)
  <2>1. m.how = "running" /\ m.block = s.block /\ m.position = s.position
    BY <1>2 DEF Like
  <2>2. MoreOf(f, i, m) = Halted(m, op.kind)
    BY <2>1, MoreOp
  <2> QED BY <1>1, <2>2
<1>3. how # "running"
  BY <1>1
<1> QED BY <1>1, <1>2, <1>3, StopFollows

-----------------------------------------------------------------------------
(* What is held follows the own runs of its inputs.                         *)

AllFollow(f, q) == \A k \in 1..Len(q) : Follows(f, q[k])
AllEndLike(f, q) == \A k \in 1..Len(q) : EndsLike(f, q[k])
AllAt(join, q) == \A k \in 1..Len(q) : q[k].block = join /\ q[k].position = 0
HeldFrame(f, g) ==
    /\ AllFollow(f, g.todo) /\ AllFollow(f, g.escaped) /\ AllEndLike(f, g.stopped)
    /\ AllFollow(f, g.arrived) /\ AllAt(g.region.join, g.arrived)
HeldStack(f, S) == \A k \in 1..Len(S) : HeldFrame(f, S[k])
Held(f) ==
    /\ run # NoState => Follows(f, run)
    /\ \A s \in pending : Follows(f, s)
    /\ \A e \in ended : EndsLike(f, e)
    /\ HeldStack(f, stack)

LEMMA ConcatFollow ==
    ASSUME NEW f, NEW q, IsSeq(q), NEW r, IsSeq(r), NEW join
    PROVE  /\ AllFollow(f, q) /\ AllFollow(f, r) => AllFollow(f, q \o r)
           /\ AllEndLike(f, q) /\ AllEndLike(f, r) => AllEndLike(f, q \o r)
           /\ AllAt(join, q) /\ AllAt(join, r) => AllAt(join, q \o r)
<1>1. PICK m \in Nat, n \in Nat : m = Len(q) /\ n = Len(r)
  BY SeqLen
<1>2. PICK t : t = q \o r
  OBVIOUS
<1>3. /\ Len(t) = m + n /\ \A k \in 1..m : t[k] = q[k]
      /\ \A k \in 1..n : t[m + k] = r[k]
      /\ \A k \in 1..(m + n) : k \in 1..m \/ \E j \in 1..n : k = m + j
  BY <1>1, <1>2, SeqConcat
<1>4. \A k \in 1..Len(t) : (\E j \in 1..Len(q) : t[k] = q[j]) \/ \E j \in 1..Len(r) : t[k] = r[j]
  BY <1>1, <1>3
<1> QED BY <1>2, <1>4 DEF AllFollow, AllEndLike, AllAt

LEMMA NoneFollow ==
    ASSUME NEW f, NEW join
    PROVE  AllFollow(f, <<>>) /\ AllEndLike(f, <<>>) /\ AllAt(join, <<>>)
<1>1. 1..Len(<<>>) = {}
  BY SeqEmpty
<1> QED BY <1>1 DEF AllFollow, AllEndLike, AllAt

LEMMA OneFollows ==
    ASSUME NEW f, NEW join, NEW x
    PROVE  /\ Follows(f, x) => AllFollow(f, <<x>>)
           /\ EndsLike(f, x) => AllEndLike(f, <<x>>)
           /\ x.block = join /\ x.position = 0 => AllAt(join, <<x>>)
<1>1. \A k \in 1..Len(<<x>>) : <<x>>[k] = x
  BY SeqOfTwo
<1> QED BY <1>1 DEF AllFollow, AllEndLike, AllAt

\* A frame that is given more.
LEMMA PlusHeld ==
    ASSUME NEW f, NEW g, IsFrame(g), HeldFrame(f, g),
           NEW q, AreStates(q), AllFollow(f, q), NEW r, AreStops(r), AllEndLike(f, r),
           NEW a, AreStates(a), AllFollow(f, a), AllAt(g.region.join, a),
           NEW e, AreStates(e), AllFollow(f, e)
    PROVE  HeldFrame(f, Plus(g, Part(q, a, e, r)))
<1>1. PICK h, p : h = Part(q, a, e, r) /\ p = Plus(g, h)
  OBVIOUS
<1>2. /\ p.todo = g.todo \o q /\ p.arrived = g.arrived \o a /\ p.escaped = g.escaped \o e
      /\ p.stopped = g.stopped \o r /\ p.region = g.region
  BY <1>1 DEF Plus, Part
<1>3. /\ IsSeq(g.todo) /\ IsSeq(g.arrived) /\ IsSeq(g.escaped) /\ IsSeq(g.stopped)
      /\ IsSeq(q) /\ IsSeq(r) /\ IsSeq(a) /\ IsSeq(e)
  BY FrameIs DEF AreStates, AreStops
<1>4. AllFollow(f, g.todo \o q) /\ AllFollow(f, g.escaped \o e)
  BY <1>3, ConcatFollow DEF HeldFrame
<1>5. AllEndLike(f, g.stopped \o r)
  BY <1>3, ConcatFollow DEF HeldFrame
<1>6. AllFollow(f, g.arrived \o a) /\ AllAt(g.region.join, g.arrived \o a)
  BY <1>3, ConcatFollow DEF HeldFrame
<1>7. HeldFrame(f, p)
  BY <1>2, <1>4, <1>5, <1>6 DEF HeldFrame
<1> QED BY <1>1, <1>7

LEMMA HeldMake ==
    ASSUME NEW f, NEW B, IsSeq(B), HeldStack(f, B), NEW g, HeldFrame(f, g)
    PROVE  HeldStack(f, Append(B, g))
<1>1. PICK S : S = Append(B, g)
  OBVIOUS
<1>2. PICK n \in Nat : n = Len(B)
  BY SeqLen
<1>3. Len(S) = n + 1 /\ S[n + 1] = g /\ \A k \in 1..n : S[k] = B[k]
  BY <1>1, <1>2, SeqAppend
<1>4. \A k \in 1..(n + 1) : k = n + 1 \/ k \in 1..n
  OBVIOUS
<1>5. HeldStack(f, S)
  BY <1>2, <1>3, <1>4 DEF HeldStack
<1> QED BY <1>1, <1>5

LEMMA HeldTop ==
    ASSUME NEW f, NEW S, IsSeq(S), S # <<>>, HeldStack(f, S)
    PROVE  HeldStack(f, Front(S)) /\ HeldFrame(f, Last(S))
<1>1. PICK n \in Nat \ {0} : /\ n = Len(S) /\ Len(Front(S)) = n - 1 /\ Last(S) = S[n]
                             /\ \A k \in 1..(n - 1) : Front(S)[k] = S[k]
  BY SeqFront
<1>2. n \in 1..n /\ \A k \in 1..(n - 1) : k \in 1..n
  OBVIOUS
<1> QED BY <1>1, <1>2 DEF HeldStack

\* The state that runs, and what is left without it.
LEMMA CurrentFollows ==
    ASSUME MergeInv, Runs, NEW f, Held(f)
    PROVE  /\ Follows(f, Current)
           /\ InRegion => /\ IsSeq(Below) /\ HeldStack(f, Below)
                          /\ IsFrame(Popped) /\ HeldFrame(f, Popped) /\ HeldFrame(f, Top)
                          /\ Popped.region = Top.region
<1>1. CASE ~ InRegion
  BY <1>1, CurrentIs DEF Held
<1>2. CASE InRegion
  <2>1. /\ IsFrame(Top) /\ IsFrame(Popped) /\ Current = Last(Top.todo) /\ Top.todo # <<>> /\ IsSeq(Below)
    BY <1>2, CurrentIs
  <2>2. IsSeq(stack) /\ stack # <<>> /\ HeldStack(f, stack)
    BY <1>2 DEF MergeInv, StackOK, InRegion, Held
  <2>3. HeldStack(f, Below) /\ HeldFrame(f, Top)
    BY <2>2, HeldTop DEF Below, Top
  <2>4. PICK t, g : t = Top /\ g = Popped
    OBVIOUS
  <2>5. IsFrame(t) /\ g = [t EXCEPT !.todo = Front(@)]
    BY <2>1, <2>4 DEF Popped
  <2>6. /\ g.todo = Front(t.todo) /\ g.arrived = t.arrived /\ g.escaped = t.escaped
        /\ g.stopped = t.stopped /\ g.region = t.region
    <3>1. t = [region |-> t.region, shared |-> t.shared, todo |-> t.todo, arrived |-> t.arrived,
               escaped |-> t.escaped, stopped |-> t.stopped]
      BY <2>5 DEF IsFrame
    <3> QED BY <2>5, <3>1
  <2>7. IsSeq(t.todo) /\ t.todo # <<>>
    BY <2>1, <2>4, <2>5, FrameIs
  <2>8. PICK n \in Nat \ {0} : /\ n = Len(t.todo) /\ Len(Front(t.todo)) = n - 1 /\ Last(t.todo) = t.todo[n]
                               /\ \A k \in 1..(n - 1) : Front(t.todo)[k] = t.todo[k]
    BY <2>7, SeqFront
  <2>9. n \in 1..n /\ \A k \in 1..(n - 1) : k \in 1..n
    OBVIOUS
  <2>10. Follows(f, Last(t.todo)) /\ AllFollow(f, g.todo)
    BY <2>3, <2>4, <2>6, <2>8, <2>9 DEF HeldFrame, AllFollow
  <2>11. HeldFrame(f, g)
    BY <2>3, <2>4, <2>6, <2>10 DEF HeldFrame
  <2> QED BY <2>1, <2>3, <2>4, <2>6, <2>10, <2>11
<1> QED BY <1>1, <1>2

\* Inside a region a step puts what it made with what is left.
LEMMA YieldIs ==
    ASSUME MergeInv, Runs, InRegion, NEW q, NEW r, Yield(q, r)
    PROVE  /\ stack' = Append(Below, Plus(Popped, Part(q, <<>>, <<>>, r)))
           /\ UNCHANGED <<fixed, outside>>
<1>1. IsSeq(Below) /\ IsFrame(Popped)
  BY CurrentIs
<1>2. PICK B, g : B = Below /\ g = Popped
  OBVIOUS
<1>3. PICK S, n : S = Append(B, g) /\ n = Len(S)
  OBVIOUS
<1>4. S # <<>> /\ S[n] = g /\ \A x : [S EXCEPT ![n] = x] = Append(B, x)
  BY <1>1, <1>2, <1>3, SeqAppend, LastReplaced
<1>5. /\ stack' = [S EXCEPT ![n].todo = @ \o q, ![n].stopped = @ \o r]
      /\ UNCHANGED <<fixed, outside>>
  BY <1>2, <1>3, <1>4 DEF Yield, HandTo
<1>6. [S EXCEPT ![n].todo = @ \o q, ![n].stopped = @ \o r]
        = [S EXCEPT ![n] = [S[n] EXCEPT !.todo = @ \o q, !.stopped = @ \o r]]
  OBVIOUS
<1>7. Given(g, q, r) = Plus(g, Part(q, <<>>, <<>>, r))
  BY <1>1, <1>2, HandedIs
<1>8. [g EXCEPT !.todo = @ \o q, !.stopped = @ \o r] = Plus(g, Part(q, <<>>, <<>>, r))
  BY <1>7 DEF Given
<1> QED BY <1>2, <1>4, <1>5, <1>6, <1>8

LEMMA ContinueIs ==
    ASSUME MergeInv, Runs, InRegion, NEW s, Continue(s)
    PROVE  /\ stack' = Append(Below, Plus(Popped, Part(<<s>>, <<>>, <<>>, <<>>)))
           /\ UNCHANGED <<fixed, outside>>
<1>1. IsFrame(Popped)
  BY CurrentIs
<1>2. PICK g, h : g = Popped /\ h = Part(<<s>>, <<>>, <<>>, <<>>)
  OBVIOUS
<1>3. /\ stack' = Append(Below, [g EXCEPT !.todo = Append(@, s)])
      /\ UNCHANGED <<fixed, outside>>
  BY <1>2 DEF Continue, outside
<1>4. /\ g = [region |-> g.region, shared |-> g.shared, todo |-> g.todo, arrived |-> g.arrived,
              escaped |-> g.escaped, stopped |-> g.stopped]
  BY <1>1, <1>2 DEF IsFrame
<1>5. IsSeq(g.todo) /\ IsSeq(g.arrived) /\ IsSeq(g.escaped) /\ IsSeq(g.stopped)
  BY <1>1, <1>2, FrameIs
<1>6. PICK t : t = Append(g.todo, s)
  OBVIOUS
<1>7. g.todo \o <<s>> = t /\ g.arrived \o <<>> = g.arrived /\ g.escaped \o <<>> = g.escaped
      /\ g.stopped \o <<>> = g.stopped
  BY <1>5, <1>6, AppendOne, ConcatNone
<1>8. Plus(g, h) = [region |-> g.region, shared |-> g.shared, todo |-> t, arrived |-> g.arrived,
                    escaped |-> g.escaped, stopped |-> g.stopped]
  BY <1>2, <1>7 DEF Plus, Part
<1>9. [g EXCEPT !.todo = t]
                 = [region |-> g.region, shared |-> g.shared, todo |-> t, arrived |-> g.arrived,
                    escaped |-> g.escaped, stopped |-> g.stopped]
  BY <1>4
<1> QED BY <1>2, <1>3, <1>6, <1>8, <1>9

LEMMA AsideIs ==
    ASSUME MergeInv, Runs, InRegion, NEW c, c = Current
    PROVE  /\ [Popped EXCEPT !.arrived = Append(@, Current)]
                 = Plus(Popped, Part(<<>>, <<c>>, <<>>, <<>>))
           /\ [Popped EXCEPT !.escaped = Append(@, Current)]
                 = Plus(Popped, Part(<<>>, <<>>, <<c>>, <<>>))
<1>1. PICK g : g = Popped
  OBVIOUS
<1>2. IsFrame(g)
  BY <1>1, CurrentIs
<1>3. PICK r1, s1, t1, a1, e1, o1 :
         /\ r1 = g.region /\ s1 = g.shared /\ t1 = g.todo /\ a1 = g.arrived
         /\ e1 = g.escaped /\ o1 = g.stopped
  OBVIOUS
<1>4. g = [region |-> r1, shared |-> s1, todo |-> t1, arrived |-> a1, escaped |-> e1, stopped |-> o1]
  BY <1>2, <1>3 DEF IsFrame
<1>5. IsSeq(t1) /\ IsSeq(a1) /\ IsSeq(e1) /\ IsSeq(o1)
  BY <1>2, <1>3, FrameIs
<1>6. t1 \o <<>> = t1 /\ a1 \o <<>> = a1 /\ e1 \o <<>> = e1 /\ o1 \o <<>> = o1
  BY <1>5, ConcatNone
<1>7. PICK t, u : /\ t = Append(a1, c) /\ t = a1 \o <<c>>
                  /\ u = Append(e1, c) /\ u = e1 \o <<c>>
  BY <1>5, AppendOne
<1>8. /\ [g EXCEPT !.arrived = t]
            = [region |-> r1, shared |-> s1, todo |-> t1, arrived |-> t, escaped |-> e1, stopped |-> o1]
      /\ [g EXCEPT !.escaped = u]
            = [region |-> r1, shared |-> s1, todo |-> t1, arrived |-> a1, escaped |-> u, stopped |-> o1]
  BY <1>4
<1>9. /\ Plus(g, Part(<<>>, <<c>>, <<>>, <<>>))
            = [region |-> r1, shared |-> s1, todo |-> t1, arrived |-> t, escaped |-> e1, stopped |-> o1]
      /\ Plus(g, Part(<<>>, <<>>, <<c>>, <<>>))
            = [region |-> r1, shared |-> s1, todo |-> t1, arrived |-> a1, escaped |-> u, stopped |-> o1]
  BY <1>3, <1>6, <1>7 DEF Plus, Part
<1>10. [g EXCEPT !.arrived = Append(@, c)] = [g EXCEPT !.arrived = t]
       /\ [g EXCEPT !.escaped = Append(@, c)] = [g EXCEPT !.escaped = u]
  BY <1>3, <1>7
<1> QED BY <1>1, <1>8, <1>9, <1>10

-----------------------------------------------------------------------------
(* Steps that keep to the own runs.                                         *)

LEMMA HeldOutside ==
    ASSUME NEW f, Held(f), UNCHANGED outside, HeldStack(f, stack')
    PROVE  Held(f)'
BY DEF Held, outside

\* What goes back to the search follows.
LEMMA BackHeld ==
    ASSUME NEW f, Held(f), NEW q, AreStates(q), AllFollow(f, q), NEW r, AreStops(r), AllEndLike(f, r),
           pending' = pending \cup ToSet(q), ended' = ended \cup ToSet(r), run' = NoState, stack' = <<>>
    PROVE  Held(f)'
<1>1. /\ \A x \in ToSet(q) : \E k \in 1..Len(q) : x = q[k]
      /\ \A x \in ToSet(r) : \E k \in 1..Len(r) : x = r[k]
  BY SeqLen DEF AreStates, AreStops
<1>2. \A s \in pending' : Follows(f, s)
  BY <1>1 DEF Held, AllFollow
<1>3. \A e \in ended' : EndsLike(f, e)
  BY <1>1 DEF Held, AllEndLike
<1>4. HeldStack(f, stack')
  <2>1. 1..Len(<<>>) = {}
    BY SeqEmpty
  <2> QED BY <2>1 DEF HeldStack
<1> QED BY <1>2, <1>3, <1>4 DEF Held

LEMMA YieldHeld ==
    ASSUME MergeInv, Runs, NEW f, Held(f), NEW q, AreStates(q), AllFollow(f, q),
           NEW r, AreStops(r), AllEndLike(f, r), Yield(q, r)
    PROVE  Held(f)'
<1>1. CASE InRegion
  <2>1. /\ IsSeq(Below) /\ HeldStack(f, Below) /\ IsFrame(Popped) /\ HeldFrame(f, Popped)
    BY <1>1, CurrentFollows
  <2>2. /\ stack' = Append(Below, Plus(Popped, Part(q, <<>>, <<>>, r)))
        /\ UNCHANGED outside
    BY <1>1, YieldIs
  <2>3. HeldFrame(f, Plus(Popped, Part(q, <<>>, <<>>, r)))
    BY <2>1, NoneAre, NoneFollow, PlusHeld
  <2>4. HeldStack(f, stack')
    BY <2>1, <2>2, <2>3, HeldMake
  <2> QED BY <2>2, <2>4, HeldOutside
<1>2. CASE ~ InRegion
  <2>1. /\ pending' = pending \cup ToSet(q) /\ ended' = ended \cup ToSet(r)
        /\ run' = NoState /\ stack' = <<>>
    BY <1>2 DEF Yield, HandTo
  <2> QED BY <2>1, BackHeld
<1> QED BY <1>1, <1>2

LEMMA ContinueHeld ==
    ASSUME MergeInv, Runs, NEW f, Held(f), NEW s, Follows(f, s), Continue(s)
    PROVE  Held(f)'
<1>1. CASE InRegion
  <2>1. /\ IsSeq(Below) /\ HeldStack(f, Below) /\ IsFrame(Popped) /\ HeldFrame(f, Popped)
    BY <1>1, CurrentFollows
  <2>2. /\ stack' = Append(Below, Plus(Popped, Part(<<s>>, <<>>, <<>>, <<>>)))
        /\ UNCHANGED outside
    BY <1>1, ContinueIs
  <2>3. AreStates(<<s>>) /\ AllFollow(f, <<s>>)
    BY OneIs, OneFollows DEF Follows
  <2>4. HeldFrame(f, Plus(Popped, Part(<<s>>, <<>>, <<>>, <<>>)))
    BY <2>1, <2>3, NoneAre, NoneFollow, PlusHeld
  <2>5. HeldStack(f, stack')
    BY <2>1, <2>2, <2>4, HeldMake
  <2> QED BY <2>2, <2>5, HeldOutside
<1>2. CASE ~ InRegion
  <2>1. run' = s /\ UNCHANGED <<stack, fixed, pending, ended>>
    BY <1>2 DEF Continue
  <2> QED BY <2>1 DEF Held
<1> QED BY <1>1, <1>2

LEMMA StopHeld ==
    ASSUME MergeInv, Runs, NEW f, Held(f), NEW how, EndsLike(f, [how |-> how, state |-> Current]),
           Stop(how)
    PROVE  Held(f)'
<1>1. PICK c : c = Current
  OBVIOUS
<1>2. IsState(c) /\ AreStates(<<c>>)
  BY <1>1, CurrentIs, OneIs
<1>3. PICK r : r = Stops(<<c>>, how)
  OBVIOUS
<1>4. AreStops(r) /\ Len(r) = 1
  BY <1>2, <1>3, StopsIs, SeqOfTwo
<1>5. r[1] = [how |-> how, state |-> c]
  <2>1. 1 \in DOMAIN <<c>> /\ <<c>>[1] = c
    OBVIOUS
  <2> QED BY <1>3, <2>1 DEF Stops
<1>6. AllEndLike(f, r)
  <2>1. \A k \in 1..1 : k = 1
    OBVIOUS
  <2> QED BY <1>1, <1>4, <1>5, <2>1 DEF AllEndLike
<1>7. Yield(<<>>, r)
  BY <1>1, <1>3 DEF Stop
<1> QED BY <1>4, <1>6, <1>7, NoneAre, NoneFollow, YieldHeld

LEMMA PopHeld ==
    ASSUME MergeInv, NEW f, Held(f), Pop
    PROVE  Held(f)'
BY DEF Pop, Held

LEMMA ExecuteHeld ==
    ASSUME MergeInv, NEW f, f = Code, WellFormed(f), Validated(f), Held(f), Execute
    PROVE  Held(f)'
<1>1. Runs /\ AtOperation(Current) /\ Operation(Current).kind \notin {"exit", "goal"}
  BY DEF Execute, Working
<1>2. PICK c, op : c = Current /\ op = Operation(c)
  OBVIOUS
<1>3. Follows(f, c)
  BY <1>1, <1>2, CurrentFollows
<1>4. PICK data : data = [i \in Inputs |-> Effect(op, i, c.data[i])]
  OBVIOUS
<1>5. Continue(Done(c, c.position + 1, data))
  <2>1. c = [block |-> c.block, position |-> c.position, data |-> c.data, path |-> c.path,
             visits |-> c.visits]
    BY <1>3 DEF Follows, IsState
  <2>2. [c EXCEPT !.position = @ + 1, !.data = data] = Done(c, c.position + 1, data)
    BY <2>1 DEF Done
  <2>3. Continue([c EXCEPT !.position = @ + 1, !.data = data])
    BY <1>2, <1>4 DEF Execute, AtEach
  <2> QED BY <2>2, <2>3
<1>6. op = f[c.block].ops[c.position + 1] /\ c.position < Len(f[c.block].ops)
  BY <1>1, <1>2 DEF AtOperation, Operation, Block
<1>7. Follows(f, Done(c, c.position + 1, data))
  BY <1>1, <1>2, <1>3, <1>4, <1>6, OperationFollows
<1> QED BY <1>1, <1>5, <1>7, ContinueHeld

\* At the end of a block.
LEMMA AtEnd ==
    ASSUME MergeInv, NEW f, f = Code, WellFormed(f), Held(f), NEW kinds, At(kinds), NEW c, c = Current
    PROVE  /\ Runs /\ Follows(f, c) /\ c.position = Len(f[c.block].ops)
           /\ Block(c) = f[c.block] /\ f[c.block].last.kind \in kinds
<1>1. Runs /\ ~ AtOperation(c) /\ f[c.block].last.kind \in kinds /\ Block(c) = f[c.block]
  BY DEF At, Working, Block
<1>2. Follows(f, c)
  BY <1>1, CurrentFollows
<1>3. c.block \in Blocks(f) /\ c.position \in 0..Len(f[c.block].ops) /\ Len(f[c.block].ops) \in Nat
  BY <1>2 DEF Follows, Placed, WellFormed
<1>4. c.position = Len(f[c.block].ops)
  BY <1>1, <1>3 DEF AtOperation
<1> QED BY <1>1, <1>2, <1>4

LEMMA JumpHeld ==
    ASSUME MergeInv, NEW f, f = Code, WellFormed(f), Validated(f), Held(f), Jump
    PROVE  Held(f)'
<1>1. PICK c : c = Current
  OBVIOUS
<1>2. /\ Runs /\ Follows(f, c) /\ c.position = Len(f[c.block].ops)
      /\ Block(c) = f[c.block] /\ f[c.block].last.kind = "jump"
  BY <1>1, AtEnd DEF Jump
<1>3. Continue(GoTo(c, f[c.block].last.targets[1]))
  BY <1>1, <1>2 DEF Jump
<1>4. Follows(f, GoTo(c, f[c.block].last.targets[1]))
  BY <1>2, JumpFollows
<1> QED BY <1>2, <1>3, <1>4, ContinueHeld

LEMMA DecidedHeld ==
    ASSUME MergeInv, NEW f, f = Code, WellFormed(f), Validated(f), Held(f), Decided
    PROVE  Held(f)'
<1>1. PICK c : c = Current
  OBVIOUS
<1>2. /\ Runs /\ Follows(f, c) /\ c.position = Len(f[c.block].ops)
      /\ Block(c) = f[c.block] /\ f[c.block].last.kind = "branch"
  BY <1>1, AtEnd DEF Decided
<1>3. PICK v : v = ValueOf(c, f[c.block].last.uses[1])
  OBVIOUS
<1>4. Condition(c) = v
  BY <1>2, <1>3 DEF Condition
<1>5. IsConst(v)
  BY <1>1, <1>4 DEF Decided
<1>6. PICK to : to = IF 0 \in Range(v) THEN f[c.block].last.targets[2] ELSE f[c.block].last.targets[1]
  OBVIOUS
<1>7. Continue(GoTo(c, to))
  BY <1>1, <1>2, <1>4, <1>6 DEF Decided, TrueTarget, FalseTarget
<1>8. Follows(f, GoTo(c, to))
  BY <1>2, <1>3, <1>5, <1>6, DecidedFollows
<1> QED BY <1>2, <1>7, <1>8, ContinueHeld

LEMMA StopsHeld ==
    ASSUME MergeInv, NEW f, f = Code, WellFormed(f), Held(f), Finish \/ Return \/ Bounded
    PROVE  Held(f)'
<1>1. PICK c : c = Current
  OBVIOUS
<1>2. CASE Finish
  <2>1. /\ Runs /\ AtOperation(c) /\ Operation(c).kind \in {"exit", "goal"}
        /\ Stop(Operation(c).kind)
    BY <1>1, <1>2 DEF Finish, Working
  <2>2. PICK op : op = Operation(c)
    OBVIOUS
  <2>3. op = f[c.block].ops[c.position + 1] /\ c.position < Len(f[c.block].ops)
    BY <2>1, <2>2 DEF AtOperation, Operation, Block
  <2>4. Follows(f, c)
    BY <1>1, <2>1, CurrentFollows
  <2>5. EndsLike(f, [how |-> op.kind, state |-> c])
    BY <2>1, <2>2, <2>3, <2>4, FinishFollows
  <2> QED BY <1>1, <2>1, <2>2, <2>5, StopHeld
<1>3. CASE Return
  <2>1. /\ Runs /\ Follows(f, c) /\ c.position = Len(f[c.block].ops)
        /\ Block(c) = f[c.block] /\ f[c.block].last.kind \in {"return", "halt"}
    BY <1>1, <1>3, AtEnd DEF Return
  <2>2. EndsLike(f, [how |-> f[c.block].last.kind, state |-> c])
    BY <2>1, ReturnFollows
  <2>3. Stop(f[c.block].last.kind)
    BY <1>1, <1>3, <2>1 DEF Return
  <2> QED BY <1>1, <2>1, <2>2, <2>3, StopHeld
<1>4. CASE Bounded
  <2>1. Runs /\ Stop("bound")
    BY <1>4 DEF Bounded, Branching, At, Working
  <2>2. EndsLike(f, [how |-> "bound", state |-> c])
    BY DEF EndsLike, GivenUp
  <2> QED BY <1>1, <2>1, <2>2, StopHeld
<1> QED BY <1>2, <1>3, <1>4

LEMMA ForkHeld ==
    ASSUME MergeInv, NEW f, f = Code, WellFormed(f), Validated(f), Held(f), Fork
    PROVE  Held(f)'
<1>1. PICK c : c = Current
  OBVIOUS
<1>2. /\ Runs /\ Follows(f, c) /\ c.position = Len(f[c.block].ops) /\ f[c.block].last.kind = "branch"
  BY <1>1, AtEnd DEF Fork, Branching
<1>3. PICK a, b : Children(c) = <<a, b>> /\ Follows(f, a) /\ Follows(f, b)
  BY <1>2, ChildrenFollow
<1>4. PICK q : q = <<a, b>>
  OBVIOUS
<1>5. IsSeq(q) /\ DOMAIN q = 1..2 /\ Len(q) = 2 /\ q[1] = a /\ q[2] = b /\ AreStates(q)
  <2>1. IsSeq(q) /\ Len(q) = 2 /\ q[1] = a /\ q[2] = b
    BY <1>4, SeqOfTwo
  <2>2. DOMAIN q = 1..2
    BY <2>1, SeqLen
  <2>3. AreStates(q)
    BY <1>3, <1>4, TwoAre DEF Follows
  <2> QED BY <2>1, <2>2, <2>3
<1>6. PICK places \in SUBSET (1..2), others \in SUBSET (1..2) :
         Yield(Kept(q, places), Stops(Kept(q, others), "unknown"))
  <2>1. PICK undecided \in SUBSET hard :
           LET children == Children(c)
               first == Answer(children[1], undecided)
               answers == <<first, IF first = "unsat" THEN "sat" ELSE Answer(children[2], undecided)>>
               answered(answer) == Kept(children, {k \in 1..2 : answers[k] = answer})
           IN Yield(answered("sat"), Stops(answered("unknown"), "unknown"))
    BY <1>1 DEF Fork
  <2>2. PICK first : first = Answer(q[1], undecided)
    OBVIOUS
  <2>3. PICK answers : answers = <<first, IF first = "unsat" THEN "sat" ELSE Answer(q[2], undecided)>>
    OBVIOUS
  <2>4. PICK places, others : places = {k \in 1..2 : answers[k] = "sat"}
                              /\ others = {k \in 1..2 : answers[k] = "unknown"}
    OBVIOUS
  <2>5. Yield(Kept(q, places), Stops(Kept(q, others), "unknown"))
    BY <1>3, <1>4, <2>1, <2>2, <2>3, <2>4
  <2> QED BY <2>4, <2>5
<1>7. ASSUME NEW T \in SUBSET (1..2)
      PROVE  AreStates(Kept(q, T)) /\ AllFollow(f, Kept(q, T))
  <2>1. /\ IsSeq(Kept(q, T))
        /\ \A j \in 1..Len(Kept(q, T)) : \E k \in T : k \in 1..Len(q) /\ Kept(q, T)[j] = q[k]
    <3>1. IsSeq(q) /\ T \in SUBSET DOMAIN q
      BY <1>5
    <3>2. DrawnFrom(q, T)
      BY <3>1, KeptDrawn
    <3> QED BY <3>2 DEF DrawnFrom
  <2>2. \A k \in 1..Len(q) : Follows(f, q[k]) /\ IsState(q[k])
    <3>1. \A k \in 1..2 : k = 1 \/ k = 2
      OBVIOUS
    <3> QED BY <1>3, <1>5, <3>1 DEF Follows
  <2> QED BY <2>1, <2>2 DEF AreStates, AllFollow
<1>8. PICK r : r = Stops(Kept(q, others), "unknown")
  OBVIOUS
<1>9. AreStops(r)
  BY <1>7, <1>8, StopsIs
<1>10. AllEndLike(f, r)
  <2>1. PICK t : t = Kept(q, others)
    OBVIOUS
  <2>2. AreStates(t) /\ r = Stops(t, "unknown")
    BY <1>7, <1>8, <2>1
  <2>3. IsSeq(t) /\ DOMAIN t = 1..Len(t) /\ Len(r) = Len(t)
    BY <2>2, SeqLen, StopsIs DEF AreStates
  <2>4. \A k \in 1..Len(r) : r[k] = [how |-> "unknown", state |-> t[k]]
    BY <2>2, <2>3 DEF Stops
  <2>5. ASSUME NEW k \in 1..Len(r) PROVE EndsLike(f, r[k])
    <3>1. PICK x, e : x = t[k] /\ e = r[k]
      OBVIOUS
    <3>2. e = [how |-> "unknown", state |-> x]
      BY <2>4, <3>1
    <3>3. e.how = "unknown"
      BY <3>2
    <3> QED BY <3>1, <3>3 DEF EndsLike, GivenUp
  <2> QED BY <2>5 DEF AllEndLike
<1> QED BY <1>2, <1>6, <1>7, <1>8, <1>9, <1>10, YieldHeld

LEMMA EnterHeld ==
    ASSUME MergeInv, NEW f, f = Code, WellFormed(f), Validated(f), Held(f), Enter
    PROVE  Held(f)'
<1>1. PICK c : c = Current
  OBVIOUS
<1>2. /\ Runs /\ Follows(f, c) /\ c.position = Len(f[c.block].ops) /\ f[c.block].last.kind = "branch"
  BY <1>1, AtEnd DEF Enter, Branching
<1>3. PICK a, b : Children(c) = <<a, b>> /\ Follows(f, a) /\ Follows(f, b)
  BY <1>2, ChildrenFollow
<1>4. PICK n : n = [region |-> RegionOf[prog][c.block], shared |-> Len(c.path),
                    todo |-> <<a, b>>, arrived |-> <<>>, escaped |-> <<>>, stopped |-> <<>>]
  OBVIOUS
<1>5. PICK S : S = IF InRegion THEN Append(Below, Popped) ELSE <<>>
  OBVIOUS
<1>6. stack' = Append(S, n) /\ run' = NoState /\ UNCHANGED <<fixed, pending, ended>>
  BY <1>1, <1>3, <1>4, <1>5 DEF Enter
<1>7. HeldFrame(f, n)
  <2>1. /\ n.todo = <<a, b>> /\ n.arrived = <<>> /\ n.escaped = <<>> /\ n.stopped = <<>>
    BY <1>4
  <2>2. AllFollow(f, <<a, b>>)
    <3>1. PICK q : q = <<a, b>>
      OBVIOUS
    <3>2. Len(q) = 2 /\ q[1] = a /\ q[2] = b /\ \A k \in 1..2 : k = 1 \/ k = 2
      BY <3>1, SeqOfTwo
    <3> QED BY <1>3, <3>1, <3>2 DEF AllFollow
  <2> QED BY <2>1, <2>2, NoneFollow DEF HeldFrame
<1>8. IsSeq(S) /\ HeldStack(f, S)
  <2>1. CASE InRegion
    <3>1. IsSeq(Below) /\ HeldStack(f, Below) /\ HeldFrame(f, Popped)
      BY <1>2, <2>1, CurrentFollows
    <3> QED BY <1>5, <2>1, <3>1, SeqAppend, HeldMake
  <2>2. CASE ~ InRegion
    <3>1. S = <<>> /\ 1..Len(<<>>) = {} /\ IsSeq(<<>>)
      BY <1>5, <2>2, SeqEmpty
    <3> QED BY <3>1 DEF HeldStack
  <2> QED BY <2>1, <2>2
<1>9. HeldStack(f, stack')
  BY <1>6, <1>7, <1>8, HeldMake
<1> QED BY <1>6, <1>9 DEF Held

LEMMA AsideHeld ==
    ASSUME MergeInv, NEW f, Held(f), Arrive \/ Escape
    PROVE  Held(f)'
<1>1. PICK c : c = Current
  OBVIOUS
<1>2. /\ InRegion /\ Runs /\ UNCHANGED outside
      /\ \/ /\ stack' = Append(Below, [Popped EXCEPT !.arrived = Append(@, Current)])
            /\ AtJoin(c)
         \/ stack' = Append(Below, [Popped EXCEPT !.escaped = Append(@, Current)])
  BY <1>1 DEF Arrive, Escape
<1>3. /\ Follows(f, c) /\ IsSeq(Below) /\ HeldStack(f, Below) /\ IsFrame(Popped) /\ HeldFrame(f, Popped)
      /\ Popped.region = Top.region
  BY <1>1, <1>2, CurrentFollows
<1>4. AreStates(<<c>>) /\ AllFollow(f, <<c>>)
  BY <1>3, OneIs, OneFollows DEF Follows
<1>5. CASE stack' = Append(Below, [Popped EXCEPT !.arrived = Append(@, Current)]) /\ AtJoin(c)
  <2>1. stack' = Append(Below, Plus(Popped, Part(<<>>, <<c>>, <<>>, <<>>)))
    BY <1>1, <1>2, <1>5, AsideIs
  <2>2. AllAt(Popped.region.join, <<c>>)
    BY <1>3, <1>5, OneFollows DEF AtJoin
  <2>3. HeldFrame(f, Plus(Popped, Part(<<>>, <<c>>, <<>>, <<>>)))
    BY <1>3, <1>4, <2>2, NoneAre, NoneFollow, PlusHeld
  <2>4. HeldStack(f, stack')
    BY <1>3, <2>1, <2>3, HeldMake
  <2> QED BY <1>2, <2>4, HeldOutside
<1>6. CASE stack' = Append(Below, [Popped EXCEPT !.escaped = Append(@, Current)])
  <2>1. stack' = Append(Below, Plus(Popped, Part(<<>>, <<>>, <<c>>, <<>>)))
    BY <1>1, <1>2, <1>6, AsideIs
  <2>2. HeldFrame(f, Plus(Popped, Part(<<>>, <<>>, <<c>>, <<>>)))
    BY <1>3, <1>4, NoneAre, NoneFollow, PlusHeld
  <2>3. HeldStack(f, stack')
    BY <1>3, <2>1, <2>2, HeldMake
  <2> QED BY <1>2, <2>3, HeldOutside
<1> QED BY <1>2, <1>5, <1>6

-----------------------------------------------------------------------------
(* The merge keeps to the own runs.                                         *)

\* What a merge makes of the last path's data at an input, and of the last path.
Taken(d, values, cells) == [d EXCEPT !.values = Over(values, @), !.cells = cells]
Merged(s, d, p, v) == [s EXCEPT !.data = d, !.path = p, !.visits = v]

LEMMA TakenAlike ==
    ASSUME NEW d, IsData(d), NEW e, IsData(e), e.io = d.io, NEW g, NEW ids, ids \subseteq DOMAIN g,
           \A id \in ids : id \in DOMAIN e.values /\ g[id] = e.values[id]
    PROVE  Alike(ids, Taken(d, g, e.cells), e)
<1>1. PICK w, c, o : d = [values |-> w, cells |-> c, io |-> o]
  BY DEF IsData
<1>2. PICK z, x : z = [d EXCEPT !.values = Over(g, w)] /\ x = Taken(d, g, e.cells)
  OBVIOUS
<1>3. z = [values |-> Over(g, w), cells |-> c, io |-> o]
  BY <1>1, <1>2
<1>4. x = [z EXCEPT !.cells = e.cells]
  BY <1>1, <1>2 DEF Taken
<1>5. x = [values |-> Over(g, w), cells |-> e.cells, io |-> o]
  BY <1>3, <1>4
<1>6. IsData(x) /\ x.cells = e.cells /\ x.io = e.io
  BY <1>1, <1>5 DEF IsData
<1>7. Agree(ids, x.values, e.values)
  <2>1. \A id \in ids : id \in DOMAIN Over(g, w) /\ Over(g, w)[id] = g[id]
    BY DEF Over
  <2> QED BY <1>5, <2>1 DEF Agree
<1> QED BY <1>2, <1>6, <1>7 DEF Alike

LEMMA AlikeToo ==
    ASSUME NEW ids, NEW x, NEW e, Alike(ids, x, e), NEW y, Alike(ids, e, y)
    PROVE  Alike(ids, x, y) /\ Alike(ids, x, x)
BY DEF Alike, Agree

LEMMA MergedIs ==
    ASSUME NEW s, IsState(s), NEW d, NEW p \in Seq(SUBSET Inputs), NEW v, NEW m, m = Merged(s, d, p, v)
    PROVE  /\ IsState(m) /\ m.block = s.block /\ m.position = s.position /\ m.data = d /\ m.path = p
<1>1. PICK b1, n1, d1, p1, v1 :
         s = [block |-> b1, position |-> n1, data |-> d1, path |-> p1, visits |-> v1]
  BY FieldsIs
<1>2. PICK x : x = [s EXCEPT !.data = d]
  OBVIOUS
<1>3. x = [block |-> b1, position |-> n1, data |-> d, path |-> p1, visits |-> v1]
  BY <1>1, <1>2
<1>4. PICK y : y = [x EXCEPT !.path = p]
  OBVIOUS
<1>5. y = [block |-> b1, position |-> n1, data |-> d, path |-> p, visits |-> v1]
  BY <1>3, <1>4
<1>6. m = [y EXCEPT !.visits = v]
  BY <1>2, <1>4 DEF Merged
<1>7. m = [block |-> b1, position |-> n1, data |-> d, path |-> p, visits |-> v]
  BY <1>5, <1>6
<1> QED BY <1>1, <1>7, RecordIs

\* _choose takes a path whose selector holds, if there is one.
LEMMA ChoiceIs ==
    ASSUME NEW n \in Nat \ {0}, NEW sel, Len(sel) = n, NEW i
    PROVE  /\ Choice(sel, i) \in 1..n
           /\ (\E k \in 1..n : i \in sel[k]) => i \in sel[Choice(sel, i)]
<1>1. PICK holding : holding = {k \in 1..(n - 1) : i \in sel[k]}
  OBVIOUS
<1>2. Choice(sel, i) = IF holding = {} THEN n ELSE Min(holding)
  BY <1>1 DEF Choice
<1>3. CASE holding = {}
  <2>1. \A k \in 1..n : k = n \/ k \in 1..(n - 1)
    OBVIOUS
  <2> QED BY <1>1, <1>2, <1>3, <2>1
<1>4. CASE holding # {}
  <2>1. holding \subseteq Nat
    BY <1>1
  <2>2. \E x \in holding : \A y \in holding : x <= y
    BY <1>4, <2>1, Least
  <2>3. Min(holding) \in holding
    BY <2>2 DEF Min
  <2> QED BY <1>1, <1>2, <1>4, <2>3
<1> QED BY <1>3, <1>4

\* What is needed at the join is among the values the paths are merged in.
LEMMA NeededShared ==
    ASSUME prog \in DOMAIN Programs, NEW f, f = Code, Validated(f), NEW join \in Blocks(f),
           Len(f[join].ops) \in Nat, NEW q, IsSeq(q), AllFollow(f, q), AllAt(join, q)
    PROVE  Needed(f, join, 0) \subseteq Shared(q, join)
<1> SUFFICES ASSUME NEW id \in Needed(f, join, 0) PROVE id \in Shared(q, join)
  OBVIOUS
<1>1. id \in Defined(f) /\ UsableAfter(f, join, id)
  BY NeededAtStart DEF Needed, UsableAfter
<1>2. id \in Usable[prog][join]
  BY <1>1 DEF Usable, Code
<1>3. PICK i \in Inputs : i = CHOOSE j \in Inputs : TRUE
  BY MergeAssumption
<1>4. ASSUME NEW k \in DOMAIN q PROVE id \in Known(q[k])
  <2>1. Follows(f, q[k]) /\ q[k].block = join /\ q[k].position = 0
    BY SeqLen DEF AllFollow, AllAt
  <2>2. Alike(Needed(f, join, 0), q[k].data[i], q[k].data[i])
    BY <2>1 DEF Follows, Placed
  <2>3. id \in DOMAIN q[k].data[i].values
    BY <2>2 DEF Alike, Agree
  <2> QED BY <1>3, <2>3 DEF Known
<1> QED BY <1>2, <1>4 DEF Shared

LEMMA FoldedFollows ==
    ASSUME prog \in DOMAIN Programs, NEW f, f = Code, WellFormed(f), Validated(f), NEW join,
           NEW q, AreStates(q), q # <<>>, AllFollow(f, q), AllAt(join, q),
           NEW u \in Seq(SUBSET Inputs), \A k \in 1..Len(q) : Begins(q[k], u), Mergeable(q, join),
           \A i \in Inputs : \A k, l \in 1..Len(q) : q[k].data[i].io.drawn = q[l].data[i].io.drawn
    PROVE  Follows(f, Folded(q, Len(u), join))
<1>1. IsSeq(q) /\ \A k \in 1..Len(q) : IsState(q[k])
  BY DEF AreStates
<1>2. PICK n \in Nat \ {0} : n = Len(q) /\ Last(q) = q[n] /\ DOMAIN q = 1..n
  BY <1>1, SeqFront, SeqLen
<1>3. n \in 1..n
  OBVIOUS
<1>4. PICK last : last = q[n]
  OBVIOUS
<1>5. /\ Follows(f, last) /\ IsState(last) /\ Begins(last, u)
      /\ last.block = join /\ last.position = 0
  BY <1>1, <1>2, <1>3, <1>4 DEF AllFollow, AllAt
<1>6. join \in Blocks(f) /\ Len(f[join].ops) \in Nat
  BY <1>5 DEF Follows, Placed, WellFormed
<1>7. PICK ids : ids = Needed(f, join, 0)
  OBVIOUS
<1>8. \A k \in 1..n : \A i \in Inputs : Alike(ids, q[k].data[i], q[k].data[i])
  BY <1>2, <1>7 DEF AllFollow, AllAt, Follows, Placed
<1>9. PICK sel : sel = [k \in 1..n |-> Selector(q[k], Len(u))]
  OBVIOUS
<1>10. Len(sel) = n /\ \A k \in 1..n : sel[k] = Selector(q[k], Len(u))
  <2>1. \A k \in 1..n : Selector(q[k], Len(u)) \in SUBSET Inputs
    BY DEF Selector, Conjunction
  <2>2. sel \in [1..n -> SUBSET Inputs]
    BY <1>9, <2>1
  <2>3. sel \in Seq(SUBSET Inputs)
    BY <2>2, IsASeq
  <2> QED BY <1>9, <2>2, <2>3, LenProperties
<1>11. PICK ch : ch = [i \in Inputs |-> Choice(sel, i)]
  OBVIOUS
<1>12. \A i \in Inputs : /\ ch[i] \in 1..n
                         /\ (\E k \in 1..n : i \in sel[k]) => i \in sel[ch[i]]
  BY <1>10, <1>11, ChoiceIs
<1>13. PICK shared : shared = Shared(q, join)
  OBVIOUS
<1>14. ids \subseteq shared
  BY <1>1, <1>6, <1>7, <1>13, NeededShared
<1>15. PICK data :
          data = [i \in Inputs |-> Taken(last.data[i], [id \in shared |-> q[ch[i]].data[i].values[id]],
                                         q[ch[i]].data[i].cells)]
  OBVIOUS
<1>16. PICK v : Folded(q, Len(u), join)
                   = Assume(Merged(last, data, SubSeq(last.path, 1, Len(u)), v), UNION Range(sel))
  <2>1. PICK a, b, d, p, v1 : last = [block |-> a, position |-> b, data |-> d, path |-> p, visits |-> v1]
    BY <1>5, FieldsIs
  <2>2. PICK v : v = [x \in DOMAIN last.visits |-> Max({q[k].visits[x] : k \in 1..n})]
    OBVIOUS
  <2>3. [last EXCEPT !.data = data, !.path = SubSeq(@, 1, Len(u)),
                     !.visits = [x \in DOMAIN @ |-> Max({q[k].visits[x] : k \in 1..n})]]
           = Merged(last, data, SubSeq(last.path, 1, Len(u)), v)
    BY <2>1, <2>2 DEF Merged
  <2>4. data = [i \in Inputs |->
                  [last.data[i] EXCEPT
                     !.values = Over([id \in shared |-> q[Choice(sel, i)].data[i].values[id]], @),
                     !.cells = q[Choice(sel, i)].data[i].cells]]
    BY <1>11, <1>15 DEF Taken
  <2>5. [k \in DOMAIN q |-> Selector(q[k], Len(u))] = sel
    BY <1>2, <1>9
  <2>6. Folded(q, Len(u), join)
          = Assume([last EXCEPT !.data = data, !.path = SubSeq(@, 1, Len(u)),
                     !.visits = [x \in DOMAIN @ |-> Max({q[k].visits[x] : k \in DOMAIN q})]],
                   UNION Range(sel))
    BY <1>2, <1>4, <1>13, <2>4, <2>5 DEF Folded, AtEach
  <2> QED BY <1>2, <2>3, <2>6
<1>17. PICK m, c, r : /\ m = Merged(last, data, SubSeq(last.path, 1, Len(u)), v)
                      /\ c = UNION Range(sel) /\ r = Assume(m, c)
  OBVIOUS
<1>18. IsState(m) /\ m.block = join /\ m.position = 0 /\ m.data = data /\ m.path = u
  <2>1. SubSeq(last.path, 1, Len(u)) = u
    BY <1>5, SelectorIs
  <2>2. m = Merged(last, data, u, v)
    BY <1>17, <2>1
  <2> QED BY <1>5, <2>2, MergedIs
<1>19. c = UNION {sel[k] : k \in 1..n} /\ c \in SUBSET Inputs
  <2>1. c = UNION {sel[k] : k \in 1..n}
    BY <1>9, <1>17 DEF Range
  <2>2. \A k \in 1..n : sel[k] \subseteq Inputs
    BY <1>10 DEF Selector, Conjunction
  <2> QED BY <2>1, <2>2
<1>20. IsState(r) /\ Cond(r) = Cond(m) \cap c
  BY <1>17, <1>18, <1>19, AssumeIs
<1>21. r.block = join /\ r.position = 0 /\ r.data = data
  BY <1>17, <1>18, AssumeHas
<1>22. ASSUME NEW i \in Inputs
       PROVE  /\ Alike(ids, data[i], data[i])
              /\ \A y : Alike(ids, q[ch[i]].data[i], y) => Alike(ids, data[i], y)
  <2>1. PICK k \in 1..n : k = ch[i]
    BY <1>12
  <2>2. PICK d, e : d = last.data[i] /\ e = q[k].data[i]
    OBVIOUS
  <2>3. IsData(d) /\ IsData(e)
    BY <1>3, <1>4, <1>8, <2>2 DEF Alike
  <2>4. e.io = d.io
    <3>1. e.io.read = d.io.read /\ e.io.printed = d.io.printed
      BY <1>2, <1>4, <2>2 DEF Mergeable, SameIO
    <3>2. e.io.drawn = d.io.drawn
      BY <1>2, <1>3, <1>4, <2>2
    <3> QED BY <2>3, <3>1, <3>2 DEF IsData, IsIO
  <2>5. data[i] = Taken(d, [id \in shared |-> e.values[id]], e.cells)
    BY <1>15, <2>1, <2>2
  <2>6. PICK g : g = [id \in shared |-> e.values[id]]
    OBVIOUS
  <2>7. data[i] = Taken(d, g, e.cells)
    BY <2>5, <2>6
  <2>8. ids \subseteq DOMAIN g /\ \A id \in ids : id \in DOMAIN e.values /\ g[id] = e.values[id]
    <3>1. \A id \in ids : id \in DOMAIN e.values
      BY <1>8, <2>2 DEF Alike, Agree
    <3> QED BY <1>14, <2>6, <3>1
  <2>9. Alike(ids, data[i], e) /\ Alike(ids, e, e)
    BY <1>8, <2>2, <2>3, <2>4, <2>7, <2>8, TakenAlike
  <2> QED BY <2>1, <2>2, <2>9, AlikeToo
<1>23. Placed(f, r)
  <2>1. DOMAIN data = Inputs /\ 0 \in 0..Len(f[join].ops)
    BY <1>6, <1>15
  <2> QED BY <1>6, <1>7, <1>21, <1>22, <2>1 DEF Placed
<1>24. ASSUME NEW i \in Cond(r) PROVE \E k \in Nat : Like(f, r, i, OwnRun(f, i, k))
  <2>1. i \in Inputs /\ i \in Conjunction(u) /\ \E k \in 1..n : i \in sel[k]
    BY <1>18, <1>19, <1>20 DEF Cond, Conjunction
  <2>2. PICK k \in 1..n : k = ch[i] /\ i \in sel[k]
    BY <1>12, <2>1
  <2>3. i \in Cond(q[k])
    <3>1. Cond(q[k]) = Conjunction(u) \cap Selector(q[k], Len(u))
      BY <1>1, <1>2, SelectorIs
    <3> QED BY <1>10, <2>1, <2>2, <3>1
  <2>4. Follows(f, q[k]) /\ q[k].block = join /\ q[k].position = 0
    BY <1>2 DEF AllFollow, AllAt
  <2>5. PICK j \in Nat : Like(f, q[k], i, OwnRun(f, i, j))
    BY <2>3, <2>4 DEF Follows
  <2>6. PICK w : w = OwnRun(f, i, j)
    OBVIOUS
  <2>7. /\ IsMachine(w) /\ w.how = "running" /\ w.block = join /\ w.position = 0
        /\ Alike(ids, q[k].data[i], w.data)
    BY <1>7, <2>4, <2>5, <2>6 DEF Like
  <2>8. Alike(ids, data[i], w.data)
    BY <1>22, <2>1, <2>2, <2>7
  <2>9. Like(f, r, i, w)
    BY <1>7, <1>21, <2>7, <2>8 DEF Like
  <2> QED BY <2>6, <2>9
<1>25. Follows(f, r)
  BY <1>20, <1>23, <1>24 DEF Follows
<1> QED BY <1>16, <1>17, <1>25

LEMMA KeptFollow ==
    ASSUME NEW f, NEW q, IsSeq(q), NEW places \in SUBSET DOMAIN q
    PROVE  /\ AllFollow(f, q) => AllFollow(f, Kept(q, places))
           /\ AllEndLike(f, q) => AllEndLike(f, Kept(q, places))
<1>1. \A j \in 1..Len(Kept(q, places)) : \E k \in 1..Len(q) : Kept(q, places)[j] = q[k]
  BY KeptSeparate
<1> QED BY <1>1 DEF AllFollow, AllEndLike

LEMMA ArrivalsFollow ==
    ASSUME prog \in DOMAIN Programs, NEW f, f = Code, WellFormed(f), Validated(f),
           NEW t, IsFrame(t), Starts(t), HeldFrame(f, t),
           \A x, y \in ToSet(t.arrived) : \A i \in Inputs : x.data[i].io.drawn = y.data[i].io.drawn
    PROVE  AllFollow(f, Arrivals(t))
<1>1. /\ AreStates(t.arrived) /\ IsSeq(t.arrived)
      /\ \A k \in 1..Len(t.arrived) : t.arrived[k] \in Suspended(t)
  BY FrameIs DEF IsFrame
<1>2. PICK u \in Seq(SUBSET Inputs) : Len(u) = t.shared /\ FrameBegins(t, u)
  BY DEF Starts
<1>3. \A k \in 1..Len(t.arrived) : Begins(t.arrived[k], u)
  BY <1>1, <1>2 DEF FrameBegins
<1>4. AllFollow(f, t.arrived) /\ AllAt(t.region.join, t.arrived)
  BY DEF HeldFrame
<1>5. CASE Len(t.arrived) > 1 /\ Mergeable(t.arrived, t.region.join)
  <2>1. PICK q, join, r : q = t.arrived /\ join = t.region.join /\ r = Folded(q, Len(u), join)
    OBVIOUS
  <2>2. Arrivals(t) = <<r>>
    BY <1>2, <1>5, <2>1 DEF Arrivals
  <2>3. q # <<>>
    BY <1>1, <1>5, <2>1, SeqLen
  <2>4. \A i \in Inputs : \A k, l \in 1..Len(q) : q[k].data[i].io.drawn = q[l].data[i].io.drawn
    <3>1. \A k \in 1..Len(q) : q[k] \in ToSet(t.arrived)
      BY <1>1, <2>1, SeqLen
    <3> QED BY <3>1
  <2>5. Follows(f, r)
    <3>1. /\ AreStates(q) /\ AllFollow(f, q) /\ AllAt(join, q) /\ Mergeable(q, join)
          /\ \A k \in 1..Len(q) : Begins(q[k], u)
      BY <1>1, <1>3, <1>4, <1>5, <2>1
    <3> QED BY <2>1, <2>3, <2>4, <3>1, FoldedFollows
  <2> QED BY <2>2, <2>5, OneFollows
<1>6. CASE ~ (Len(t.arrived) > 1 /\ Mergeable(t.arrived, t.region.join))
  <2>1. Arrivals(t) = t.arrived
    BY <1>6 DEF Arrivals
  <2> QED BY <1>4, <2>1
<1> QED BY <1>5, <1>6

\* What leaves a region.
LEMMA HandedFollow ==
    ASSUME NEW f, NEW t, IsFrame(t), Tidy(t), Starts(t), HeldFrame(f, t), AllFollow(f, Arrivals(t)),
           NEW undecided, NEW q, q = Possible(Arrivals(t) \o t.escaped, undecided),
           NEW r, r = PossibleStops(t.stopped, undecided)
    PROVE  AllFollow(f, q) /\ AllEndLike(f, r)
<1>1. PICK w : w = Arrivals(t) \o t.escaped
  OBVIOUS
<1>2. IsSeq(Arrivals(t)) /\ IsSeq(t.escaped) /\ IsSeq(t.stopped)
  BY ArrivalsAre, FrameIs DEF AreStates
<1>3. IsSeq(w) /\ AllFollow(f, w)
  BY <1>1, <1>2, SeqConcat, ConcatFollow DEF HeldFrame
<1>4. AllFollow(f, q)
  <2>1. PICK places \in SUBSET DOMAIN w : q = Kept(w, places)
    BY <1>1 DEF Possible
  <2> QED BY <1>3, <2>1, KeptFollow
<1>5. AllEndLike(f, r)
  <2>1. PICK places \in SUBSET DOMAIN t.stopped : r = Kept(t.stopped, places)
    BY DEF PossibleStops
  <2> QED BY <1>2, <2>1, KeptFollow DEF HeldFrame
<1> QED BY <1>4, <1>5

LEMMA HandedTop ==
    ASSUME NEW B, IsSeq(B), B # <<>>, IsFrame(Last(B)), NEW q, NEW r
    PROVE  Handed(B, q, r) = Append(Front(B), Plus(Last(B), Part(q, <<>>, <<>>, r)))
<1>1. PICK C, e : C = Front(B) /\ e = Last(B)
  OBVIOUS
<1>2. PICK n \in Nat : /\ n + 1 = Len(B) /\ Len(C) = n /\ IsSeq(C) /\ e = B[n + 1]
                       /\ \A k \in 1..n : C[k] = B[k]
  <2>1. /\ IsSeq(Front(B)) /\ Len(Front(B)) = Len(B) - 1 /\ Len(B) \in Nat \ {0}
        /\ \A k \in 1..(Len(B) - 1) : Front(B)[k] = B[k] /\ Last(B) = B[Len(B)]
    BY SeqFront
  <2>2. Len(B) - 1 \in Nat /\ (Len(B) - 1) + 1 = Len(B)
    BY <2>1
  <2> QED BY <1>1, <2>1, <2>2, SeqFront
<1>3. B = Append(C, e)
  <2>1. PICK X : X = Append(C, e)
    OBVIOUS
  <2>2. /\ IsSeq(X) /\ Len(X) = n + 1 /\ X[n + 1] = e /\ \A k \in 1..n : X[k] = C[k]
    BY <1>2, <2>1, SeqAppend
  <2>3. X \in [1..(n + 1) -> ToSet(X)] /\ B \in [1..(n + 1) -> ToSet(B)]
    BY <1>2, <2>2, LenProperties DEF IsSeq
  <2>4. \A k \in 1..(n + 1) : k = n + 1 \/ k \in 1..n
    OBVIOUS
  <2>5. \A k \in 1..(n + 1) : X[k] = B[k]
    BY <1>2, <2>2, <2>4
  <2>6. X = [k \in 1..(n + 1) |-> X[k]] /\ B = [k \in 1..(n + 1) |-> B[k]]
    BY <2>3
  <2>7. X = B
    BY <2>5, <2>6
  <2> QED BY <2>1, <2>7
<1>4. PICK m : m = n + 1
  OBVIOUS
<1>5. Len(B) = m /\ B[m] = e /\ \A x : [B EXCEPT ![m] = x] = Append(C, x)
  BY <1>2, <1>3, <1>4, LastReplaced
<1>6. Handed(B, q, r) = [B EXCEPT ![m].todo = @ \o q, ![m].stopped = @ \o r]
  BY <1>5 DEF Handed
<1>7. [B EXCEPT ![m].todo = @ \o q, ![m].stopped = @ \o r]
        = [B EXCEPT ![m] = [B[m] EXCEPT !.todo = @ \o q, !.stopped = @ \o r]]
  OBVIOUS
<1>8. Given(e, q, r) = Plus(e, Part(q, <<>>, <<>>, r))
  BY <1>1, HandedIs
<1>9. Handed(B, q, r) = [B EXCEPT ![m] = Given(e, q, r)]
  BY <1>5, <1>6, <1>7 DEF Given
<1> QED BY <1>1, <1>5, <1>8, <1>9

LEMMA LeaveHeld ==
    ASSUME MergeInv, prog \in DOMAIN Programs, NEW f, f = Code, WellFormed(f), Validated(f), Held(f),
           DrawsAlike, Leave
    PROVE  Held(f)'
<1>1. StackOK(stack) /\ stack # <<>> /\ Top.todo = <<>> /\ InRegion
  BY DEF MergeInv, Leave, InRegion, Runs
<1>2. PICK B, t : B = Below /\ t = Top
  OBVIOUS
<1>3. StackOK(B) /\ Nests(B, t)
  BY <1>1, <1>2, StackTop DEF Below, Top
<1>4. IsFrame(t) /\ Tidy(t) /\ Starts(t) /\ t.todo = <<>>
  BY <1>1, <1>2, <1>3 DEF Nests
<1>5. HeldStack(f, B) /\ HeldFrame(f, t)
  <2>1. IsSeq(stack) /\ HeldStack(f, stack)
    BY <1>1 DEF StackOK, Held
  <2> QED BY <1>1, <1>2, <2>1, HeldTop DEF Below, Top
<1>6. PICK undecided, q, r :
         /\ undecided \in SUBSET hard /\ q = Possible(Arrivals(t) \o t.escaped, undecided)
         /\ r = PossibleStops(t.stopped, undecided) /\ HandTo(B, q, r)
  BY <1>2 DEF Leave
<1>7. AreStates(q) /\ AreStops(r)
  BY <1>4, <1>6, HandedOn DEF HandsOn
<1>8. AllFollow(f, q) /\ AllEndLike(f, r)
  <2>1. \A x, y \in ToSet(t.arrived) : \A i \in Inputs : x.data[i].io.drawn = y.data[i].io.drawn
    BY <1>1, <1>2 DEF DrawsAlike
  <2>2. AllFollow(f, Arrivals(t))
    BY <1>4, <1>5, <2>1, ArrivalsFollow
  <2> QED BY <1>4, <1>5, <1>6, <2>2, HandedFollow
<1>9. CASE B = <<>>
  <2>1. /\ pending' = pending \cup ToSet(q) /\ ended' = ended \cup ToSet(r)
        /\ run' = NoState /\ stack' = <<>>
    BY <1>6, <1>9 DEF HandTo
  <2> QED BY <1>7, <1>8, <2>1, BackHeld
<1>10. CASE B # <<>>
  <2>1. stack' = Handed(B, q, r) /\ UNCHANGED outside
    BY <1>6, <1>10 DEF HandTo, Handed
  <2>2. IsSeq(B)
    BY <1>3 DEF StackOK
  <2>3. PICK C, e : C = Front(B) /\ e = Last(B)
    OBVIOUS
  <2>4. IsSeq(C) /\ IsFrame(e) /\ HeldStack(f, C) /\ HeldFrame(f, e)
    <3>1. Nests(C, e)
      BY <1>3, <1>10, <2>3, StackTop
    <3> QED BY <1>5, <1>10, <2>2, <2>3, <3>1, SeqFront, HeldTop DEF Nests
  <2>5. stack' = Append(C, Plus(e, Part(q, <<>>, <<>>, r)))
    BY <1>10, <2>1, <2>2, <2>3, <2>4, HandedTop
  <2>6. HeldFrame(f, Plus(e, Part(q, <<>>, <<>>, r)))
    BY <1>7, <1>8, <2>4, NoneAre, NoneFollow, PlusHeld
  <2>7. HeldStack(f, stack')
    BY <2>4, <2>5, <2>6, HeldMake
  <2> QED BY <2>1, <2>7, HeldOutside
<1> QED BY <1>9, <1>10

-----------------------------------------------------------------------------
(* Every step keeps to the own runs.                                       *)

\* At first there is one state, where every run begins.
LEMMA InitHeld ==
    ASSUME Init, NEW f, f = Code, WellFormed(f), Validated(f)
    PROVE  Held(f)
<1>1. PICK s : s = NewState
  OBVIOUS
<1>2. /\ s.block = 1 /\ s.position = 0 /\ s.data = [i \in Inputs |-> Fresh]
      /\ s.path = <<>> /\ IsState(s)
  <2>1. PICK d, v : s = [block |-> 1, position |-> 0, data |-> d, path |-> <<>>, visits |-> v]
                    /\ d = [i \in Inputs |-> Fresh]
    BY <1>1 DEF NewState
  <2>2. <<>> \in Seq(SUBSET Inputs)
    BY SeqEmpty
  <2> QED BY <2>1, <2>2 DEF IsState
<1>3. IsData(Fresh)
  <2>1. IsIO(NoIO)
    BY DEF IsIO, NoIO
  <2>2. PICK v, c : Fresh = [values |-> v, cells |-> c, io |-> NoIO]
    BY DEF Fresh
  <2> QED BY <2>1, <2>2 DEF IsData
<1>4. Needed(f, 1, 0) = {}
  BY NothingNeeded
<1>5. Alike({}, Fresh, Fresh)
  BY <1>3 DEF Alike, Agree
<1>6. Placed(f, s)
  <2>1. 1 \in Blocks(f) /\ Len(f[1].ops) \in Nat
    BY DEF WellFormed
  <2>2. 0 \in 0..Len(f[1].ops)
    BY <2>1
  <2>3. DOMAIN s.data = Inputs /\ \A i \in Inputs : s.data[i] = Fresh
    BY <1>2
  <2> QED BY <1>2, <1>4, <1>5, <2>1, <2>2, <2>3 DEF Placed
<1>7. ASSUME NEW i \in Cond(s) PROVE \E n \in Nat : Like(f, s, i, OwnRun(f, i, n))
  <2>1. i \in Inputs
    BY DEF Cond, Conjunction
  <2>2. PICK m : m = Alone
    OBVIOUS
  <2>3. /\ m = [block |-> 1, position |-> 0, data |-> Fresh, how |-> "running"]
    BY <2>2 DEF Alone
  <2>4. IsMachine(m) /\ m.how = "running" /\ m.block = 1 /\ m.position = 0 /\ m.data = Fresh
    BY <1>3, <2>3 DEF IsMachine
  <2>5. s.data[i] = Fresh
    BY <1>2, <2>1
  <2>6. Like(f, s, i, m)
    BY <1>2, <1>4, <1>5, <2>4, <2>5 DEF Like
  <2>7. OwnRun(f, i, 0) = m
    BY <2>2, OwnRunSteps
  <2> QED BY <2>6, <2>7
<1>8. Follows(f, s)
  BY <1>2, <1>6, <1>7 DEF Follows
<1>9. HeldStack(f, <<>>)
  BY SeqEmpty DEF HeldStack
<1> QED BY <1>1, <1>8, <1>9 DEF Init, Held

EndsInv == MergeInv /\ prog \in DOMAIN Programs /\ Held(Code)

\* The function that is searched stays the same.
LEMMA StepsAreFixed ==
    /\ \A s : Continue(s) => prog' = prog
    /\ \A q, r : Yield(q, r) => prog' = prog
<1>1. \A s : Continue(s) => prog' = prog
  BY DEF Continue, fixed
<1>2. \A B, q, r : HandTo(B, q, r) => prog' = prog
  BY DEF HandTo, fixed
<1> QED BY <1>1, <1>2 DEF Yield

LEMMA ProgStays ==
    ASSUME [Next]_vars
    PROVE  prog' = prog
<1>1. CASE Pop
  BY <1>1 DEF Pop, fixed
<1>2. CASE Execute \/ Jump \/ Decided
  BY <1>2, StepsAreFixed DEF Execute, Jump, Decided
<1>3. CASE Finish \/ Return \/ Bounded
  BY <1>3, StepsAreFixed DEF Finish, Return, Bounded, Stop
<1>4. CASE Fork
  BY <1>4, StepsAreFixed DEF Fork
<1>5. CASE Enter \/ Arrive \/ Escape
  BY <1>5 DEF Enter, Arrive, Escape, fixed
<1>6. CASE Leave
  <2>1. \A B, q, r : HandTo(B, q, r) => prog' = prog
    BY DEF HandTo, fixed
  <2> QED BY <1>6, <2>1 DEF Leave
<1>7. CASE UNCHANGED vars
  BY <1>7 DEF vars
<1> QED BY <1>1, <1>2, <1>3, <1>4, <1>5, <1>6, <1>7 DEF Next

LEMMA NextHeld == EndsInv /\ DrawsAlike /\ [Next]_vars => EndsInv'
<1> SUFFICES ASSUME EndsInv, DrawsAlike, [Next]_vars PROVE EndsInv'
  OBVIOUS
<1>1. PICK f : f = Code
  OBVIOUS
<1>2. MergeInv /\ prog \in DOMAIN Programs /\ Held(f)
  BY <1>1 DEF EndsInv
<1>3. WellFormed(f) /\ Validated(f)
  BY <1>1, <1>2, MergeAssumption DEF Code
<1>4. MergeInv'
  BY <1>2, NextKeeps
<1>5. prog' = prog
  BY ProgStays
<1>6. Held(f)'
  <2>1. CASE Pop
    BY <1>2, <2>1, PopHeld
  <2>2. CASE Execute
    BY <1>1, <1>2, <1>3, <2>2, ExecuteHeld
  <2>3. CASE Finish \/ Return \/ Bounded
    BY <1>1, <1>2, <1>3, <2>3, StopsHeld
  <2>4. CASE Jump
    BY <1>1, <1>2, <1>3, <2>4, JumpHeld
  <2>5. CASE Decided
    BY <1>1, <1>2, <1>3, <2>5, DecidedHeld
  <2>6. CASE Fork
    BY <1>1, <1>2, <1>3, <2>6, ForkHeld
  <2>7. CASE Enter
    BY <1>1, <1>2, <1>3, <2>7, EnterHeld
  <2>8. CASE Arrive \/ Escape
    BY <1>2, <2>8, AsideHeld
  <2>9. CASE Leave
    BY <1>1, <1>2, <1>3, <2>9, LeaveHeld
  <2>10. CASE UNCHANGED vars
    BY <1>2, <2>10 DEF vars, Held
  <2> QED BY <2>1, <2>2, <2>3, <2>4, <2>5, <2>6, <2>7, <2>8, <2>9, <2>10 DEF Next
<1>7. Code' = f
  BY <1>1, <1>5 DEF Code
<1>8. Held(Code)'
  BY <1>6, <1>7 DEF Held
<1> QED BY <1>2, <1>4, <1>5, <1>8 DEF EndsInv

LEMMA HeldEnds ==
    ASSUME EndsInv, LongEnough
    PROVE  EndsAsRun
<1>1. PICK f : f = Code
  OBVIOUS
<1>2. ASSUME NEW e \in ended, e.how \notin GivenUp, NEW i \in Cond(e.state)
      PROVE  LET own == Own[prog][i]
             IN /\ own.how = e.how /\ own.block = e.state.block
                /\ own.data.cells = e.state.data[i].cells
                /\ own.data.io.printed = e.state.data[i].io.printed
  <2>1. i \in Inputs
    BY DEF Cond, Conjunction
  <2>2. PICK n \in Nat : Ending(OwnRun(f, i, n), e, i)
    <3>1. EndsLike(f, e)
      BY <1>1 DEF EndsInv, Held
    <3> QED BY <1>2, <3>1 DEF EndsLike
  <2>3. MaxRun \in Nat
    BY MergeAssumption
  <2>4. OwnRun(f, i, n).how # "running"
    BY <2>2 DEF Ending
  <2>5. OwnRun(f, i, MaxRun).how # "running"
    BY <1>1, <2>1, <2>4 DEF LongEnough
  <2>6. OwnRun(f, i, MaxRun) = OwnRun(f, i, n)
    <3>1. CASE n <= MaxRun
      BY <2>3, <2>4, <3>1, OwnRunEnds
    <3>2. CASE MaxRun <= n
      BY <2>3, <2>5, <3>2, OwnRunEnds
    <3> QED BY <2>3, <3>1, <3>2
  <2>7. Own[prog][i] = OwnRun(f, i, MaxRun)
    BY <1>1, <2>1 DEF Own, Code, EndsInv
  <2> QED BY <2>2, <2>6, <2>7 DEF Ending
<1> QED BY <1>2 DEF EndsAsRun

\* A merged state is each of its paths (_fork_and_merge, _merge, _choose): when paths that meet
\* have drawn as many random numbers, which _same_io leaves out, every path that stops does so
\* where, and with the memory and the output with which, the own run of each of its inputs does.
THEOREM MergingExact == Spec /\ []DrawsAlike /\ []LongEnough => []EndsAsRun
<1>1. Init => EndsInv
  <2> SUFFICES ASSUME Init PROVE EndsInv
    OBVIOUS
  <2>1. PICK f : f = Code
    OBVIOUS
  <2>2. prog \in DOMAIN Programs
    BY DEF Init
  <2>3. WellFormed(f) /\ Validated(f)
    BY <2>1, <2>2, MergeAssumption DEF Code
  <2> QED BY <2>1, <2>2, <2>3, InitHolds, InitHeld DEF EndsInv
<1>2. EndsInv /\ DrawsAlike /\ [Next]_vars => EndsInv'
  BY NextHeld
<1>3. EndsInv /\ LongEnough => EndsAsRun
  BY HeldEnds
<1> QED BY <1>1, <1>2, <1>3, PTL DEF Spec
=============================================================================
