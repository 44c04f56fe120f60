----------------------------- MODULE StreamsProofs -----------------------------
(***************************************************************************)
(* Proof, for any inputs, calls and solver and any number of calls, that   *)
(* the library models that read and write streams neither put an input on  *)
(* two paths nor lose one but for blanks (AlwaysOnePathEach), and that     *)
(* what they let a path's input see is what the interpreter shows the      *)
(* input alone (AlwaysFaithful); and that what stdin_solution makes of     *)
(* the windows of a path is enough for the program to see the same again   *)
(* (AlwaysAnswerReplays).                                                  *)
(*                                                                         *)
(* The first invariant says little: the paths are paths (IsPath: all that  *)
(* a path holds of its inputs is of one length, and its position within    *)
(* it) and exclude each other.  The work is in the models: each is shown   *)
(* to divide the inputs of its path (Divides) and to keep them             *)
(* all (Complete), or all but those with two blanks in a row to come.      *)
(* What splits does so on a run, of bytes that are no blanks, that fit a   *)
(* %s or %[...], or are digits: there is one run for each input            *)
(* (RunExists, RunUnique).  A scan is a path on its way through the        *)
(* directives: its parts (Parts), taken further by a directive each, are   *)
(* parts again (PartsThen), as it only goes on in a stream that stays as   *)
(* it is (Goes), so that blanks that are to come later were to come before *)
(* (BlanksCame).                                                           *)
(*                                                                         *)
(* The second says of each path that it shows every input it speaks        *)
(* honestly of what the input's own run has seen, and, unless the stream   *)
(* was cut, is where the run is (Agrees); after a cut nothing is left of   *)
(* the stream, so that every call that looks says so (CutNotes).  What the *)
(* interpreter finds by looking for a byte (Before) is the one run that    *)
(* fits (BeforeUnique, RunBefore).  A scan and the interpreter's scan go   *)
(* side by side (Locks): at one place, with as many values assigned, and   *)
(* ended by the same directive.                                            *)
(*                                                                         *)
(* The third compares runs on an input with runs on its first bytes        *)
(* (Cuts): a call that needs no more of the input than is there does the   *)
(* same (AloneCuts), but for a getline whose newline alone is missing      *)
(* (LineEnds).  The windows a call hands out end where the run is behind   *)
(* it, or before such a newline (Shows, Tells).  Calls to come make the    *)
(* answer longer, and the calls made must have done the same on that, so   *)
(* that the invariant speaks of the first n bytes for every n from where   *)
(* the windows end (Shown).                                                *)
(***************************************************************************)
EXTENDS Streams, FiniteSetTheorems, SequenceTheorems, WellFoundedInduction, TLAPS

-----------------------------------------------------------------------------
(* Numbers and sequences.                                                   *)

\* A set of numbers that is not empty has a least one.
LEMMA LeastNumber ==
    ASSUME NEW T, T \subseteq Nat, T # {}
    PROVE  \E x \in T : \A y \in T : x <= y
<1> DEFINE R == {p \in Nat \X Nat : p[1] < p[2]}
<1>1. IsWellFoundedOn(R, Nat)
  BY NatLessThanWellFounded DEF OpToRel
<1>2. \E x \in T : \A y \in T : <<y, x>> \notin R
  <2> HIDE DEF R
  <2> QED BY <1>1, WFMin
<1>3. \A x, y \in T : <<y, x>> \notin R => x <= y
  OBVIOUS
<1> QED BY <1>2, <1>3

\* The length of the run of places in F that begins at 0, among the first `limit`.
RunOf(F, limit, length) ==
    /\ length \in 0..limit /\ \A n \in 0..(length - 1) : n \in F
    /\ length < limit => length \notin F

LEMMA RunExists ==
    ASSUME NEW F, NEW limit \in Nat
    PROVE  \E length : RunOf(F, limit, length)
<1> DEFINE T == {n \in 0..limit : n = limit \/ n \notin F}
<1>1. T \subseteq Nat /\ limit \in T
  OBVIOUS
<1>2. PICK x \in T : \A y \in T : x <= y
  <2> HIDE DEF T
  <2> QED BY <1>1, LeastNumber
<1>3. x \in 0..limit /\ (x < limit => x \notin F)
  OBVIOUS
<1>4. \A n \in 0..(x - 1) : n \in F
  <2> SUFFICES ASSUME NEW n \in 0..(x - 1) PROVE n \in F
    OBVIOUS
  <2>1. n \notin T
    <3> HIDE DEF T
    <3> QED BY <1>2, <1>3
  <2> QED BY <2>1, <1>3
<1> QED BY <1>3, <1>4 DEF RunOf

LEMMA RunUnique ==
    ASSUME NEW F, NEW limit \in Nat, NEW a, NEW b, RunOf(F, limit, a), RunOf(F, limit, b)
    PROVE  a = b
<1>1. a \in 0..limit /\ b \in 0..limit
  BY DEF RunOf
<1>2. ~(a < b)
  <2> SUFFICES ASSUME a < b PROVE FALSE
    OBVIOUS
  <2>1. a \in 0..(b - 1) /\ a < limit
    BY <1>1
  <2> QED BY <2>1 DEF RunOf
<1>3. ~(b < a)
  <2> SUFFICES ASSUME b < a PROVE FALSE
    OBVIOUS
  <2>1. b \in 0..(a - 1) /\ b < limit
    BY <1>1
  <2> QED BY <2>1 DEF RunOf
<1> QED BY <1>1, <1>2, <1>3

LEMMA ClampedIs ==
    ASSUME NEW n \in Int, NEW low \in Int, NEW high \in Int, low <= high
    PROVE  Clamped(n, low, high) \in low..high /\ (n \in low..high => Clamped(n, low, high) = n)
BY DEF Clamped

LEMMA FromIs ==
    ASSUME NEW T, NEW s \in Seq(T), NEW k \in 0..Len(s)
    PROVE  /\ From(s, k) \in Seq(T) /\ Len(From(s, k)) = Len(s) - k
           /\ \A n \in 1..(Len(s) - k) : From(s, k)[n] = s[k + n]
<1>1. Len(s) \in Nat /\ \A n \in 1..Len(s) : s[n] \in T
  BY LenProperties, ElementOfSeq
<1>2. \A n \in (k + 1)..Len(s) : s[n] \in T
  BY <1>1
<1>3. /\ From(s, k) \in Seq(T)
      /\ Len(From(s, k)) = IF k + 1 <= Len(s) THEN Len(s) - (k + 1) + 1 ELSE 0
      /\ \A n \in 1..(Len(s) - (k + 1) + 1) : From(s, k)[n] = s[k + 1 + n - 1]
  BY <1>1, <1>2, SubSeqProperties DEF From
<1>4. \A n \in 1..(Len(s) - k) : n \in 1..(Len(s) - (k + 1) + 1) /\ k + 1 + n - 1 = k + n
  BY <1>1
<1>5. Len(From(s, k)) = Len(s) - k
  BY <1>1, <1>3
<1> QED BY <1>3, <1>4, <1>5

LEMMA UpToIs ==
    ASSUME NEW T, NEW s \in Seq(T), NEW k \in 0..Len(s)
    PROVE  /\ UpTo(s, k) \in Seq(T) /\ Len(UpTo(s, k)) = k
           /\ \A n \in 1..k : UpTo(s, k)[n] = s[n]
<1>1. Len(s) \in Nat /\ \A n \in 1..Len(s) : s[n] \in T
  BY LenProperties, ElementOfSeq
<1>2. \A n \in 1..k : s[n] \in T
  BY <1>1
<1>3. /\ UpTo(s, k) \in Seq(T)
      /\ Len(UpTo(s, k)) = IF 1 <= k THEN k - 1 + 1 ELSE 0
      /\ \A n \in 1..(k - 1 + 1) : UpTo(s, k)[n] = s[1 + n - 1]
  BY <1>1, <1>2, SubSeqProperties DEF UpTo
<1>4. \A n \in 1..k : n \in 1..(k - 1 + 1) /\ 1 + n - 1 = n
  BY <1>1
<1>5. Len(UpTo(s, k)) = k
  BY <1>1, <1>3
<1> QED BY <1>3, <1>4, <1>5

LEMMA BeforeIs ==
    ASSUME NEW T, NEW s \in Seq(T), NEW stops
    PROVE  /\ Before(s, stops) \in 0..Len(s)
           /\ \A n \in 1..Before(s, stops) : s[n] \notin stops
           /\ Before(s, stops) < Len(s) => s[Before(s, stops) + 1] \in stops
<1>1. Len(s) \in Nat
  BY LenProperties
<1> DEFINE I == {n \in 1..Len(s) : s[n] \in stops}
           at == IF I # {} THEN Min(I) ELSE 0
<1>2. Before(s, stops) = IF at = 0 THEN Len(s) ELSE at - 1
  BY DEF Before, SelectInSeq
<1>3. CASE I = {}
  <2>1. \A n \in 1..Len(s) : s[n] \notin stops
    BY <1>3
  <2>2. Before(s, stops) = Len(s)
    BY <1>2, <1>3
  <2> QED BY <1>1, <2>1, <2>2
<1>4. CASE I # {}
  <2>1. I \subseteq Nat
    OBVIOUS
  <2>2. \E x \in I : \A y \in I : x <= y
    <3> HIDE DEF I
    <3> QED BY <2>1, <1>4, LeastNumber
  <2>3. Min(I) \in I /\ \A y \in I : Min(I) <= y
    <3> HIDE DEF I
    <3> QED BY <2>2 DEF Min
  <2>4. at = Min(I) /\ at \in 1..Len(s) /\ s[at] \in stops
    BY <1>4, <2>3
  <2>5. Before(s, stops) = at - 1
    <3> HIDE DEF at
    <3> QED BY <1>2, <2>4
  <2>6. \A n \in 1..(at - 1) : s[n] \notin stops
    <3> SUFFICES ASSUME NEW n \in 1..(at - 1), s[n] \in stops PROVE FALSE
      OBVIOUS
    <3> HIDE DEF at
    <3>1. n \in I
      BY <1>1, <2>4
    <3>2. at <= n
      BY <2>3, <2>4, <3>1
    <3> QED BY <1>1, <2>4, <3>2
  <2> HIDE DEF at
  <2> QED BY <1>1, <2>4, <2>5, <2>6
<1> QED BY <1>3, <1>4

-----------------------------------------------------------------------------
(* Paths.                                                                   *)

PathFields == {"cond", "position", "cut", "noted", "reads", "scan", "data"}
DataFields == {"content", "saw", "object", "memory"}

\* A path has inputs, and is at a place of what its stream holds for each of them.
IsPath(p) ==
    /\ DOMAIN p = PathFields
    /\ p.cond # {} /\ DOMAIN p.data = p.cond
    /\ \A i \in p.cond : /\ DOMAIN p.data[i] = DataFields
                         /\ p.data[i].content \in Seq(Bytes) /\ Len(p.data[i].content) = Held(p)
    /\ p.position \in 0..Held(p)

LEMMA HeldIs ==
    ASSUME NEW p, IsPath(p)
    PROVE  /\ Held(p) \in Nat /\ p.position \in Nat /\ p.position <= Held(p)
           /\ OneOf(p) \in p.cond
<1>1. OneOf(p) \in p.cond
  BY DEF IsPath, OneOf
<1>2. p.data[OneOf(p)].content \in Seq(Bytes)
  BY <1>1 DEF IsPath
<1>3. Held(p) \in Nat
  BY <1>2, LenProperties DEF Held
<1> QED BY <1>1, <1>3 DEF IsPath

LEMMA RestIs ==
    ASSUME NEW p, IsPath(p), NEW i \in p.cond
    PROVE  /\ Rest(p, i) \in Seq(Bytes) /\ Len(Rest(p, i)) = Held(p) - p.position
           /\ \A n \in 0..(Held(p) - p.position - 1) : Rest(p, i)[n + 1] = At(p, i, p.position + n)
<1>1. Held(p) \in Nat /\ p.position \in 0..Held(p)
  BY HeldIs DEF IsPath
<1> DEFINE c == p.data[i].content
<1>2. c \in Seq(Bytes) /\ Len(c) = Held(p)
  BY DEF IsPath
<1>3. /\ Rest(p, i) \in Seq(Bytes) /\ Len(Rest(p, i)) = Held(p) - p.position
      /\ \A n \in 1..(Held(p) - p.position) : Rest(p, i)[n] = c[p.position + n]
  <2> HIDE DEF c
  <2>1. From(c, p.position) \in Seq(Bytes) /\ Len(From(c, p.position)) = Len(c) - p.position
        /\ \A n \in 1..(Len(c) - p.position) : From(c, p.position)[n] = c[p.position + n]
    BY <1>1, <1>2, FromIs
  <2> QED BY <1>2, <2>1 DEF Rest, c
<1>4. ASSUME NEW n \in 0..(Held(p) - p.position - 1)
      PROVE  Rest(p, i)[n + 1] = At(p, i, p.position + n)
  <2>1. n + 1 \in 1..(Held(p) - p.position) /\ p.position + (n + 1) = p.position + n + 1
    BY <1>1
  <2> QED BY <1>3, <2>1 DEF At
<1> QED BY <1>3, <1>4

\* A path with other fields and other content.
LEMMA PathFrom ==
    ASSUME NEW q, DOMAIN q = PathFields, q.cond # {}, DOMAIN q.data = q.cond, NEW n \in Nat,
           \A i \in q.cond : /\ DOMAIN q.data[i] = DataFields
                             /\ q.data[i].content \in Seq(Bytes) /\ Len(q.data[i].content) = n,
           q.position \in 0..n
    PROVE  IsPath(q) /\ Held(q) = n
<1>1. OneOf(q) \in q.cond
  BY DEF OneOf
<1>2. Held(q) = n
  BY <1>1 DEF Held
<1> QED BY <1>2 DEF IsPath

\* What a path once said of itself it still says.
Minds(p, q) == p.noted => q.noted

\* q is p, but for what the program saw and what the path says of itself.
Like(p, q) ==
    /\ IsPath(q) /\ q.cond = p.cond /\ q.position = p.position /\ q.cut = p.cut /\ q.scan = p.scan
    /\ Minds(p, q)
    /\ \A i \in p.cond : q.data[i].content = p.data[i].content

LEMMA LikeHeld ==
    ASSUME NEW p, IsPath(p), NEW q, Like(p, q)
    PROVE  /\ Held(q) = Held(p) /\ Drained(q) = Drained(p)
           /\ \A i \in p.cond : Rest(q, i) = Rest(p, i)
BY HeldIs DEF Like, Held, IsPath, Drained, Rest

LEMMA LikeSelf ==
    ASSUME NEW p, IsPath(p)
    PROVE  Like(p, p)
BY DEF Like, Minds

LEMMA LikeBoth ==
    ASSUME NEW p, NEW q, NEW r, Like(p, q), Like(q, r)
    PROVE  Like(p, r)
BY DEF Like, Minds

\* Other data with the same content.
LEMMA LikeData ==
    ASSUME NEW p, IsPath(p), NEW d, DOMAIN d = p.cond,
           \A i \in p.cond : DOMAIN d[i] = DataFields /\ d[i].content = p.data[i].content
    PROVE  Like(p, [p EXCEPT !.data = d])
<1> DEFINE q == [p EXCEPT !.data = d]
<1>1. /\ DOMAIN q = PathFields /\ q.cond = p.cond /\ q.position = p.position /\ q.cut = p.cut
      /\ q.scan = p.scan /\ q.noted = p.noted /\ q.data = d
  BY DEF IsPath, PathFields
<1> HIDE DEF q
<1>2. \A i \in q.cond : /\ DOMAIN q.data[i] = DataFields
                        /\ q.data[i].content \in Seq(Bytes) /\ Len(q.data[i].content) = Held(p)
  BY <1>1 DEF IsPath
<1>3. Held(p) \in Nat /\ q.position \in 0..Held(p) /\ q.cond # {}
  BY <1>1, HeldIs DEF IsPath
<1>4. IsPath(q)
  BY <1>1, <1>2, <1>3, PathFrom
<1>5. Like(p, q)
  BY <1>1, <1>4 DEF Like, Minds
<1> QED BY <1>5 DEF q

LEMMA ReturnsLike ==
    ASSUME NEW p, IsPath(p), NEW value
    PROVE  Like(p, Returns(p, value))
<1> DEFINE d == [i \in p.cond |-> Returning(p.data[i], value[i])]
<1>1. \A i \in p.cond : DOMAIN d[i] = DataFields /\ d[i].content = p.data[i].content
  BY DEF Returning, IsPath, DataFields
<1>2. DOMAIN d = p.cond
  OBVIOUS
<1> HIDE DEF d
<1>3. Like(p, [p EXCEPT !.data = d])
  BY <1>1, <1>2, LikeData
<1> QED BY <1>3 DEF Returns, d

LEMMA ReturnsAllLike ==
    ASSUME NEW p, IsPath(p), NEW value
    PROVE  Like(p, ReturnsAll(p, value))
BY ReturnsLike DEF ReturnsAll

LEMMA WritesLike ==
    ASSUME NEW p, IsPath(p), NEW place, NEW content
    PROVE  Like(p, Writes(p, place, content))
<1> DEFINE d == [i \in p.cond |-> [p.data[i] EXCEPT !.memory = Put(@, place, content[i])]]
<1>1. \A i \in p.cond : DOMAIN d[i] = DataFields /\ d[i].content = p.data[i].content
  BY DEF IsPath, DataFields
<1>2. DOMAIN d = p.cond
  OBVIOUS
<1> HIDE DEF d
<1>3. Like(p, [p EXCEPT !.data = d])
  BY <1>1, <1>2, LikeData
<1> QED BY <1>3 DEF Writes, d

LEMMA StringsLike ==
    ASSUME NEW p, IsPath(p), NEW object
    PROVE  Like(p, Strings(p, object))
<1> DEFINE d == [i \in p.cond |-> [p.data[i] EXCEPT !.object = object[i]]]
<1>1. \A i \in p.cond : DOMAIN d[i] = DataFields /\ d[i].content = p.data[i].content
  BY DEF IsPath, DataFields
<1>2. DOMAIN d = p.cond
  OBVIOUS
<1> HIDE DEF d
<1>3. Like(p, [p EXCEPT !.data = d])
  BY <1>1, <1>2, LikeData
<1> QED BY <1>3 DEF Strings, d

\* Other fields than the inputs, the place and the data.
LEMMA NoteLike ==
    ASSUME NEW p, IsPath(p), NEW noted, p.noted => noted, NEW reads
    PROVE  Like(p, [p EXCEPT !.noted = noted]) /\ Like(p, [p EXCEPT !.reads = reads])
<1> SUFFICES ASSUME NEW q, q = [p EXCEPT !.noted = noted] \/ q = [p EXCEPT !.reads = reads]
             PROVE  Like(p, q)
  OBVIOUS
<1>1. /\ DOMAIN q = PathFields /\ q.cond = p.cond /\ q.position = p.position /\ q.cut = p.cut
      /\ q.scan = p.scan /\ (p.noted => q.noted) /\ q.data = p.data
  BY DEF IsPath, PathFields
<1>2. \A i \in q.cond : /\ DOMAIN q.data[i] = DataFields
                        /\ q.data[i].content \in Seq(Bytes) /\ Len(q.data[i].content) = Held(p)
  BY <1>1 DEF IsPath
<1>3. Held(p) \in Nat /\ q.position \in 0..Held(p) /\ q.cond # {} /\ DOMAIN q.data = q.cond
  BY <1>1, HeldIs DEF IsPath
<1>4. IsPath(q)
  BY <1>1, <1>2, <1>3, PathFrom
<1> QED BY <1>1, <1>4 DEF Like, Minds

LEMMA LookedLike ==
    ASSUME NEW p, IsPath(p)
    PROVE  Like(p, AtEnd(p)) /\ Like(p, Looked(p))
<1>1. Like(p, AtEnd(p))
  <2>1. PICK noted : noted = (p.noted \/ p.cut)
    OBVIOUS
  <2>2. AtEnd(p) = [p EXCEPT !.noted = noted]
    BY <2>1 DEF AtEnd
  <2>3. Like(p, [p EXCEPT !.noted = noted])
    BY <2>1, NoteLike
  <2> QED BY <2>2, <2>3
<1> QED BY <1>1, LikeSelf DEF Looked

LEMMA HandedLike ==
    ASSUME NEW p, IsPath(p), NEW first, NEW last, NEW byLine
    PROVE  Like(p, Handed(p, first, last, byLine))
<1>1. CASE stream = "stdin"
  <2>1. PICK reads : reads = Append(p.reads, <<first, last, byLine>>)
    OBVIOUS
  <2>2. Handed(p, first, last, byLine) = [p EXCEPT !.reads = reads]
    BY <1>1, <2>1 DEF Handed
  <2>3. Like(p, [p EXCEPT !.reads = reads])
    BY NoteLike
  <2> QED BY <2>2, <2>3
<1>2. CASE stream # "stdin"
  BY <1>2, LikeSelf DEF Handed
<1> QED BY <1>1, <1>2

\* The same inputs at another place of the same content.
OnTo(p, q) ==
    /\ IsPath(q) /\ q.cond = p.cond /\ q.cut = p.cut /\ q.scan = p.scan /\ Minds(p, q)
    /\ \A i \in p.cond : q.data[i].content = p.data[i].content

LEMMA LikeOn ==
    ASSUME NEW p, NEW q, Like(p, q)
    PROVE  OnTo(p, q)
BY DEF Like, OnTo

LEMMA OnBoth ==
    ASSUME NEW p, NEW q, NEW r, OnTo(p, q), OnTo(q, r)
    PROVE  OnTo(p, r)
BY DEF OnTo, Minds

LEMMA OnHeld ==
    ASSUME NEW p, IsPath(p), NEW q, OnTo(p, q)
    PROVE  Held(q) = Held(p)
BY HeldIs DEF OnTo, Held, IsPath

LEMMA MovedOn ==
    ASSUME NEW p, IsPath(p), NEW n \in 0..Held(p)
    PROVE  OnTo(p, Moved(p, n)) /\ Moved(p, n).position = n /\ Moved(p, n).data = p.data
<1> DEFINE q == Moved(p, n)
<1>1. /\ DOMAIN q = PathFields /\ q.cond = p.cond /\ q.position = n /\ q.cut = p.cut
      /\ q.scan = p.scan /\ q.noted = p.noted /\ q.data = p.data
  BY DEF IsPath, PathFields, Moved
<1> HIDE DEF q
<1>2. \A i \in q.cond : /\ DOMAIN q.data[i] = DataFields
                        /\ q.data[i].content \in Seq(Bytes) /\ Len(q.data[i].content) = Held(p)
  BY <1>1 DEF IsPath
<1>3. Held(p) \in Nat /\ q.position \in 0..Held(p) /\ q.cond # {} /\ DOMAIN q.data = q.cond
  BY <1>1, HeldIs DEF IsPath
<1>4. IsPath(q)
  BY <1>1, <1>2, <1>3, PathFrom
<1>5. OnTo(p, q) /\ q.position = n /\ q.data = p.data
  BY <1>1, <1>4 DEF OnTo, Minds
<1> QED BY <1>5 DEF q

LEMMA AdvanceIs ==
    ASSUME NEW p, IsPath(p), NEW n \in 0..(Held(p) - p.position)
    PROVE  /\ OnTo(p, Advance(p, n)) /\ Advance(p, n).position = p.position + n
           /\ Advance(p, n).data = p.data
<1>1. Advance(p, n) = Moved(p, p.position + n)
  BY DEF Advance, Moved
<1>2. p.position + n \in 0..Held(p)
  BY HeldIs
<1> QED BY <1>1, <1>2, MovedOn

LEMMA TruncatedIs ==
    ASSUME NEW p, IsPath(p)
    PROVE  LET q == Truncated(p)
           IN /\ IsPath(q) /\ q.cond = p.cond /\ q.cut /\ q.position = p.position /\ Drained(q)
              /\ q.noted = p.noted
<1> DEFINE q == Truncated(p)
           d == [i \in p.cond |-> [p.data[i] EXCEPT !.content = UpTo(@, p.position)]]
<1>0. q = [p EXCEPT !.cut = TRUE, !.data = d]
  BY DEF Truncated
<1>1. DOMAIN d = p.cond
  OBVIOUS
<1>2. \A i \in p.cond : DOMAIN d[i] = DataFields /\ d[i].content = UpTo(p.data[i].content, p.position)
  BY DEF IsPath, DataFields
<1> HIDE DEF d
<1>3. /\ DOMAIN q = PathFields /\ q.cond = p.cond /\ q.position = p.position /\ q.cut = TRUE
      /\ q.data = d /\ q.noted = p.noted
  BY <1>0 DEF IsPath, PathFields
<1> HIDE DEF q
<1>4. ASSUME NEW i \in q.cond
      PROVE  DOMAIN q.data[i] = DataFields
             /\ q.data[i].content \in Seq(Bytes) /\ Len(q.data[i].content) = p.position
  <2>1. p.data[i].content \in Seq(Bytes) /\ Len(p.data[i].content) = Held(p)
        /\ p.position \in 0..Held(p)
    BY <1>3 DEF IsPath
  <2> QED BY <1>2, <1>3, <2>1, UpToIs
<1>5. p.position \in Nat /\ q.position \in 0..p.position /\ q.cond # {} /\ DOMAIN q.data = q.cond
  BY <1>1, <1>3, HeldIs DEF IsPath
<1>6. IsPath(q) /\ Held(q) = p.position
  BY <1>3, <1>4, <1>5, PathFrom
<1>7. Drained(q)
  BY <1>3, <1>5, <1>6 DEF Drained
<1> QED BY <1>3, <1>6, <1>7 DEF q

LEMMA PastIs ==
    ASSUME NEW p, IsPath(p), NEW length, NEW behind \in Nat, NEW undecided,
           \A i \in p.cond : length[i] \in 0..(Held(p) - p.position)
    PROVE  /\ IsPath(Past(p, length, behind, undecided)) /\ Past(p, length, behind, undecided).cond = p.cond
           /\ Minds(p, Past(p, length, behind, undecided))
<1>1. CASE undecided \/ Cardinality({length[i] : i \in p.cond}) > 1
  BY <1>1, TruncatedIs DEF Past, Minds
<1>2. CASE ~(undecided \/ Cardinality({length[i] : i \in p.cond}) > 1)
  <2>1. PICK n : n = length[OneOf(p)]
    OBVIOUS
  <2>2. n \in 0..(Held(p) - p.position) /\ Held(p) \in Nat /\ p.position \in Nat
    BY <2>1, HeldIs
  <2>3. PICK m : m = Clamped(behind, 0, Held(p) - p.position - n)
    OBVIOUS
  <2>4. m \in 0..(Held(p) - p.position - n)
    BY <2>2, <2>3 DEF Clamped
  <2>5. n + m \in 0..(Held(p) - p.position)
    BY <2>2, <2>4
  <2>6. Past(p, length, behind, undecided) = Advance(p, n + m)
    BY <1>2, <2>1, <2>3 DEF Past
  <2> QED BY <2>5, <2>6, AdvanceIs DEF OnTo
<1> QED BY <1>1, <1>2

LEMMA NarrowedIs ==
    ASSUME NEW p, IsPath(p), NEW kept \in SUBSET p.cond, kept # {}
    PROVE  LET q == Narrowed(p, kept)
           IN /\ IsPath(q) /\ q.cond = kept /\ q.position = p.position /\ q.scan = p.scan
              /\ q.cut = p.cut /\ q.noted = p.noted /\ q.reads = p.reads
              /\ Held(q) = Held(p) /\ \A i \in kept : q.data[i] = p.data[i]
<1> DEFINE q == Narrowed(p, kept)
           d == [i \in kept |-> p.data[i]]
<1>1. DOMAIN d = kept /\ \A i \in kept : d[i] = p.data[i]
  OBVIOUS
<1>0. q = [p EXCEPT !.cond = kept, !.data = d]
  BY DEF Narrowed
<1> HIDE DEF d
<1>2. /\ DOMAIN q = PathFields /\ q.cond = kept /\ q.position = p.position /\ q.scan = p.scan
      /\ q.cut = p.cut /\ q.noted = p.noted /\ q.reads = p.reads /\ q.data = d
  BY <1>0 DEF IsPath, PathFields
<1> HIDE DEF q
<1>3. \A i \in q.cond : /\ DOMAIN q.data[i] = DataFields
                        /\ q.data[i].content \in Seq(Bytes) /\ Len(q.data[i].content) = Held(p)
  BY <1>1, <1>2 DEF IsPath
<1>4. Held(p) \in Nat /\ q.position \in 0..Held(p) /\ q.cond # {} /\ DOMAIN q.data = q.cond
  BY <1>1, <1>2, HeldIs DEF IsPath
<1>5. IsPath(q) /\ Held(q) = Held(p)
  BY <1>2, <1>3, <1>4, PathFrom
<1> QED BY <1>1, <1>2, <1>5 DEF q

-----------------------------------------------------------------------------
(* What a model makes of a path.                                            *)

\* Paths that share the inputs of p.
Divides(p, Q) ==
    /\ \A q \in Q : IsPath(q) /\ q.cond \subseteq p.cond /\ Minds(p, q)
    /\ \A q, r \in Q : q # r => q.cond \cap r.cond = {}
Complete(p, Q) == \A i \in p.cond : \E q \in Q : i \in q.cond

LEMMA OneDivides ==
    ASSUME NEW p, NEW q, IsPath(q), q.cond = p.cond, Minds(p, q)
    PROVE  Divides(p, {q}) /\ Complete(p, {q})
BY DEF Divides, Complete

LEMMA LikeDivides ==
    ASSUME NEW p, NEW q, Like(p, q)
    PROVE  Divides(p, {q}) /\ Complete(p, {q})
BY OneDivides DEF Like

\* Options that exclude each other.
Options(p, options) ==
    /\ \A t \in DOMAIN options : options[t] \subseteq p.cond
    /\ \A t, u \in DOMAIN options : t # u => options[t] \cap options[u] = {}

LEMMA SplitIs ==
    ASSUME NEW p, IsPath(p), NEW options, Options(p, options), NEW o \in Split(p, options)
    PROVE  /\ o.tag \in DOMAIN options /\ o.path = Narrowed(p, options[o.tag])
           /\ options[o.tag] \subseteq p.cond /\ options[o.tag] # {}
           /\ IsPath(o.path) /\ o.path.cond = options[o.tag] /\ o.path.position = p.position
           /\ o.path.scan = p.scan /\ o.path.cut = p.cut /\ o.path.noted = p.noted
           /\ Held(o.path) = Held(p) /\ \A i \in options[o.tag] : o.path.data[i] = p.data[i]
<1>1. PICK t \in DOMAIN options : /\ options[t] # {}
                                  /\ o = [tag |-> t, path |-> Narrowed(p, options[t])]
  BY DEF Split
<1>2. o.tag = t /\ o.path = Narrowed(p, options[t])
  BY <1>1
<1>3. options[t] \in SUBSET p.cond
  BY DEF Options
<1>4. PICK K : K = options[t]
  OBVIOUS
<1>5. LET q == Narrowed(p, K)
      IN /\ IsPath(q) /\ q.cond = K /\ q.position = p.position /\ q.scan = p.scan
         /\ q.cut = p.cut /\ q.noted = p.noted /\ q.reads = p.reads
         /\ Held(q) = Held(p) /\ \A i \in K : q.data[i] = p.data[i]
  BY <1>1, <1>3, <1>4, NarrowedIs
<1> QED BY <1>1, <1>2, <1>3, <1>4, <1>5

LEMMA SplitDivides ==
    ASSUME NEW p, IsPath(p), NEW options, Options(p, options), NEW f,
           \A o \in Split(p, options) : IsPath(f[o]) /\ f[o].cond = o.path.cond /\ Minds(o.path, f[o])
    PROVE  LET Q == {f[o] : o \in Split(p, options)}
           IN /\ Divides(p, Q)
              /\ \A t \in DOMAIN options : \A i \in options[t] : \E q \in Q : i \in q.cond
<1> DEFINE Q == {f[o] : o \in Split(p, options)}
<1>1. \A o \in Split(p, options) : /\ o.tag \in DOMAIN options
                                   /\ o = [tag |-> o.tag, path |-> Narrowed(p, options[o.tag])]
                                   /\ f[o].cond = options[o.tag] /\ Minds(p, f[o])
  <2> SUFFICES ASSUME NEW o \in Split(p, options)
               PROVE  /\ o.tag \in DOMAIN options
                      /\ o = [tag |-> o.tag, path |-> Narrowed(p, options[o.tag])]
                      /\ f[o].cond = options[o.tag] /\ Minds(p, f[o])
    OBVIOUS
  <2>1. o = [tag |-> o.tag, path |-> o.path]
    BY DEF Split
  <2>2. /\ o.tag \in DOMAIN options /\ o.path = Narrowed(p, options[o.tag])
        /\ o.path.cond = options[o.tag] /\ o.path.noted = p.noted
    BY SplitIs
  <2> QED BY <2>1, <2>2 DEF Minds
<1>2. \A q \in Q : IsPath(q) /\ q.cond \subseteq p.cond /\ Minds(p, q)
  BY <1>1 DEF Options
<1>3. ASSUME NEW q \in Q, NEW r \in Q, q # r PROVE q.cond \cap r.cond = {}
  <2>1. PICK o \in Split(p, options) : q = f[o]
    OBVIOUS
  <2>2. PICK e \in Split(p, options) : r = f[e]
    OBVIOUS
  <2>3. o.tag # e.tag
    BY <1>1, <1>3, <2>1, <2>2
  <2> QED BY <1>1, <2>1, <2>2, <2>3 DEF Options
<1>4. ASSUME NEW t \in DOMAIN options, NEW i \in options[t] PROVE \E q \in Q : i \in q.cond
  <2> DEFINE o == [tag |-> t, path |-> Narrowed(p, options[t])]
  <2>1. o \in Split(p, options)
    BY <1>4 DEF Split
  <2>2. o.tag = t
    OBVIOUS
  <2> HIDE DEF o
  <2>3. f[o].cond = options[t]
    BY <1>1, <2>1, <2>2
  <2> QED BY <2>1, <2>3
<1> HIDE DEF Q
<1>5. Divides(p, Q)
  BY <1>2, <1>3 DEF Divides
<1> QED BY <1>4, <1>5 DEF Q

-----------------------------------------------------------------------------
(* The models that do not split.                                            *)

\* Nothing is left: the call returns, and the path may say that it does not know more.
LEMMA EndLike ==
    ASSUME NEW p, IsPath(p), NEW value
    PROVE  Like(p, ReturnsAll(AtEnd(p), value)) /\ Like(p, ReturnsAll(Looked(p), value))
<1>1. ASSUME NEW q, Like(p, q) PROVE Like(p, ReturnsAll(q, value))
  <2>1. IsPath(q)
    BY <1>1 DEF Like
  <2>2. Like(q, ReturnsAll(q, value))
    BY <2>1, ReturnsAllLike
  <2> QED BY <1>1, <2>2, LikeBoth
<1> QED BY <1>1, LookedLike

LEMMA NextByte ==
    ASSUME NEW p, IsPath(p), ~Drained(p), NEW value
    PROVE  OnTo(p, Advance(Returns(p, value), 1))
<1>1. PICK q : q = Returns(p, value)
  OBVIOUS
<1>2. Like(p, q) /\ IsPath(q)
  BY <1>1, ReturnsLike DEF Like
<1>3. 1 \in 0..(Held(q) - q.position)
  BY <1>2, HeldIs, LikeHeld DEF Drained
<1>4. OnTo(q, Advance(q, 1))
  BY <1>2, <1>3, AdvanceIs
<1>5. OnTo(p, q)
  BY <1>2, LikeOn
<1> QED BY <1>1, <1>4, <1>5, OnBoth

LEMMA HandedOn ==
    ASSUME NEW p, NEW q, OnTo(p, q), NEW first, NEW last, NEW byLine
    PROVE  OnTo(p, Handed(q, first, last, byLine))
<1>1. IsPath(q)
  BY DEF OnTo
<1>2. OnTo(q, Handed(q, first, last, byLine))
  BY <1>1, HandedLike, LikeOn
<1> QED BY <1>2, OnBoth

LEMMA OnDivides ==
    ASSUME NEW p, NEW q, OnTo(p, q)
    PROVE  Divides(p, {q}) /\ Complete(p, {q})
BY OneDivides DEF OnTo

LEMMA GetcharDivides ==
    ASSUME NEW p, IsPath(p), NEW call
    PROVE  Divides(p, Getchar(p, call)) /\ Complete(p, Getchar(p, call))
<1>1. CASE Drained(p)
  BY <1>1, EndLike, LikeDivides DEF Getchar
<1>2. CASE ~Drained(p)
  <2>1. PICK v : v = [i \in p.cond |-> At(p, i, p.position)]
    OBVIOUS
  <2>2. OnTo(p, Advance(Returns(p, v), 1))
    BY <1>2, NextByte
  <2>3. OnTo(p, Handed(Advance(Returns(p, v), 1), p.position, p.position + 1, FALSE))
    BY <2>2, HandedOn
  <2>4. Getchar(p, call) = {Handed(Advance(Returns(p, v), 1), p.position, p.position + 1, FALSE)}
    BY <1>2, <2>1 DEF Getchar
  <2> QED BY <2>3, <2>4, OnDivides
<1> QED BY <1>1, <1>2

LEMMA FgetcDivides ==
    ASSUME NEW p, IsPath(p), NEW call
    PROVE  Divides(p, Fgetc(p, call)) /\ Complete(p, Fgetc(p, call))
<1>1. CASE Drained(p)
  BY <1>1, EndLike, LikeDivides DEF Fgetc
<1>2. CASE ~Drained(p)
  <2>1. PICK v : v = [i \in p.cond |-> At(p, i, p.position)]
    OBVIOUS
  <2>2. OnTo(p, Advance(Returns(p, v), 1))
    BY <1>2, NextByte
  <2>3. Fgetc(p, call) = {Advance(Returns(p, v), 1)}
    BY <1>2, <2>1 DEF Fgetc
  <2> QED BY <2>2, <2>3, OnDivides
<1> QED BY <1>1, <1>2

\* The line a call hands out is that of the path.
LEMMA LineLike ==
    ASSUME NEW p, IsPath(p), NEW length, NEW first, NEW last
    PROVE  Like(p, Handed(TakesLine(p, length), first, last, TRUE))
<1>1. PICK c : c = [i \in p.cond |-> Append(UpTo(Rest(p, i), length[i]), Nul)]
  OBVIOUS
<1>2. PICK w : w = Writes(p, 1, c)
  OBVIOUS
<1>3. Like(p, w) /\ IsPath(w)
  BY <1>2, WritesLike DEF Like
<1>4. PICK r : r = ReturnsAll(w, "buffer")
  OBVIOUS
<1>5. Like(w, r) /\ IsPath(r)
  BY <1>3, <1>4, ReturnsAllLike DEF Like
<1>6. Like(r, Handed(r, first, last, TRUE))
  BY <1>5, HandedLike
<1>7. TakesLine(p, length) = r
  BY <1>1, <1>2, <1>4 DEF TakesLine
<1>8. Like(p, r)
  BY <1>3, <1>5, LikeBoth
<1> QED BY <1>6, <1>7, <1>8, LikeBoth

LEMMA PastLike ==
    ASSUME NEW p, IsPath(p), NEW q, Like(p, q), NEW length, NEW behind \in Nat, NEW undecided,
           \A i \in p.cond : length[i] \in 0..(Held(p) - p.position)
    PROVE  /\ Divides(p, {Past(q, length, behind, undecided)})
           /\ Complete(p, {Past(q, length, behind, undecided)})
<1>1. /\ IsPath(q) /\ q.cond = p.cond /\ q.position = p.position /\ Held(q) = Held(p)
      /\ Minds(p, q)
  BY LikeHeld DEF Like
<1>2. \A i \in q.cond : length[i] \in 0..(Held(q) - q.position)
  BY <1>1
<1>3. /\ IsPath(Past(q, length, behind, undecided))
      /\ Past(q, length, behind, undecided).cond = q.cond
      /\ Minds(q, Past(q, length, behind, undecided))
  BY <1>1, <1>2, PastIs
<1> QED BY <1>1, <1>3, OneDivides DEF Minds

LEMMA LineLength ==
    ASSUME NEW p, IsPath(p), NEW i \in p.cond
    PROVE  Before(Rest(p, i), {Newline}) \in 0..(Held(p) - p.position)
<1>1. Rest(p, i) \in Seq(Bytes) /\ Len(Rest(p, i)) = Held(p) - p.position
  BY RestIs
<1> QED BY <1>1, BeforeIs

LEMMA GetsDivides ==
    ASSUME NEW p, IsPath(p), NEW undecided
    PROVE  Divides(p, Gets(p, undecided)) /\ Complete(p, Gets(p, undecided))
<1>1. CASE Drained(p)
  BY <1>1, EndLike, LikeDivides DEF Gets
<1>2. CASE ~Drained(p)
  <2>1. PICK length : length = [i \in p.cond |-> Before(Rest(p, i), {Newline})]
    OBVIOUS
  <2>2. \A i \in p.cond : length[i] \in 0..(Held(p) - p.position)
    BY <2>1, LineLength
  <2>3. PICK q : q = Handed(TakesLine(p, length), p.position, Held(p), TRUE)
    OBVIOUS
  <2>4. Like(p, q)
    BY <2>3, LineLike
  <2>5. Divides(p, {Past(q, length, 1, undecided)}) /\ Complete(p, {Past(q, length, 1, undecided)})
    BY <2>2, <2>4, PastLike
  <2>6. Gets(p, undecided) = {Past(q, length, 1, undecided)}
    BY <1>2, <2>1, <2>3 DEF Gets
  <2> QED BY <2>5, <2>6
<1> QED BY <1>1, <1>2

LEMMA FgetsDivides ==
    ASSUME NEW p, IsPath(p), NEW size \in Int, NEW undecided
    PROVE  Divides(p, Fgets(p, size, undecided)) /\ Complete(p, Fgets(p, size, undecided))
<1>1. CASE size <= 0 \/ Drained(p)
  BY <1>1, EndLike, LikeDivides DEF Fgets
<1>2. CASE ~(size <= 0 \/ Drained(p))
  <2>1. PICK most : most = Clamped(size - 1, 0, Held(p) - p.position)
    OBVIOUS
  <2>2. most \in 0..(Held(p) - p.position) /\ Held(p) \in Nat /\ p.position \in Nat
    BY <2>1, HeldIs, ClampedIs
  <2>3. PICK length : length = [i \in p.cond |-> Clamped(Before(UpTo(Rest(p, i), most), {Newline}) + 1, 0, most)]
    OBVIOUS
  <2>4. ASSUME NEW i \in p.cond PROVE length[i] \in 0..(Held(p) - p.position)
    <3>1. Rest(p, i) \in Seq(Bytes) /\ Len(Rest(p, i)) = Held(p) - p.position
      BY RestIs
    <3>2. UpTo(Rest(p, i), most) \in Seq(Bytes) /\ Len(UpTo(Rest(p, i), most)) = most
      BY <2>2, <3>1, UpToIs
    <3>3. Before(UpTo(Rest(p, i), most), {Newline}) \in 0..most
      BY <3>2, BeforeIs
    <3>4. PICK n : n = Before(UpTo(Rest(p, i), most), {Newline}) + 1
      OBVIOUS
    <3>5. n \in Int /\ length[i] = Clamped(n, 0, most) /\ most \in Int /\ 0 <= most
      BY <2>2, <2>3, <3>3, <3>4
    <3>6. length[i] \in 0..most
      BY <3>5, ClampedIs
    <3> QED BY <2>2, <3>6
  <2>5. PICK q : q = Handed(TakesLine(p, length), p.position, p.position + most, TRUE)
    OBVIOUS
  <2>6. Like(p, q)
    BY <2>5, LineLike
  <2>7. Divides(p, {Past(q, length, 0, undecided)}) /\ Complete(p, {Past(q, length, 0, undecided)})
    BY <2>4, <2>6, PastLike
  <2>8. Fgets(p, size, undecided) = {Past(q, length, 0, undecided)}
    BY <1>2, <2>1, <2>3, <2>5 DEF Fgets
  <2> QED BY <2>7, <2>8
<1> QED BY <1>1, <1>2

LEMMA GetlineOnPath ==
    ASSUME NEW p, IsPath(p), NEW all, NEW length, NEW short, NEW undecided,
           \A i \in p.cond : length[i] \in 0..(Held(p) - p.position)
    PROVE  LET q == GetlineOn(p, all, length, short, undecided)
           IN IsPath(q) /\ q.cond = p.cond /\ Minds(p, q)
<1>1. PICK object : object = [i \in p.cond |-> [text |-> UpTo(Rest(p, i), Clamped(length[i], 0, Kept(all, short))),
                                                here |-> short]]
  OBVIOUS
<1>2. PICK r : r = ReturnsAll(p, "stream")
  OBVIOUS
<1>3. Like(p, r) /\ IsPath(r)
  BY <1>2, ReturnsAllLike DEF Like
<1>4. PICK t : t = Strings(r, object)
  OBVIOUS
<1>5. Like(r, t) /\ IsPath(t)
  BY <1>3, <1>4, StringsLike DEF Like
<1>6. PICK h : h = Handed(t, p.position, p.position + Kept(all, short), TRUE)
  OBVIOUS
<1>7. Like(t, h)
  BY <1>5, <1>6, HandedLike
<1>8. Like(p, h)
  BY <1>3, <1>5, <1>7, LikeBoth
<1>9. h.cond = p.cond /\ h.position = p.position /\ Held(h) = Held(p) /\ IsPath(h) /\ Minds(p, h)
  BY <1>8, LikeHeld DEF Like
<1>10. \A i \in h.cond : length[i] \in 0..(Held(h) - h.position)
  BY <1>9
<1>11. /\ IsPath(Past(h, length, 1, undecided)) /\ Past(h, length, 1, undecided).cond = h.cond
       /\ Minds(h, Past(h, length, 1, undecided))
  BY <1>9, <1>10, PastIs
<1>12. GetlineOn(p, all, length, short, undecided) = Past(h, length, 1, undecided)
  BY <1>1, <1>2, <1>4, <1>6 DEF GetlineOn
<1> QED BY <1>9, <1>11, <1>12 DEF Minds

LEMMA GetlineDivides ==
    ASSUME NEW p, IsPath(p), NEW undecided
    PROVE  Divides(p, Getline(p, undecided)) /\ Complete(p, Getline(p, undecided))
<1>1. CASE Drained(p)
  BY <1>1, EndLike, LikeDivides DEF Getline
<1>2. CASE ~Drained(p)
  <2>1. PICK all : all = Held(p) - p.position
    OBVIOUS
  <2>2. PICK length : length = [i \in p.cond |-> Before(Rest(p, i), {Newline})]
    OBVIOUS
  <2>3. \A i \in p.cond : length[i] \in 0..(Held(p) - p.position)
    BY <2>2, LineLength
  <2>4. PICK options : options = IF all <= Small THEN [short \in {TRUE} |-> p.cond]
                                 ELSE [short \in BOOLEAN |-> {i \in p.cond : short = (length[i] <= Small)}]
    OBVIOUS
  <2>5. Options(p, options) /\ \A i \in p.cond : \E t \in DOMAIN options : i \in options[t]
    <3>1. CASE all <= Small
      BY <2>4, <3>1 DEF Options
    <3>2. CASE ~(all <= Small)
      <4>1. options = [short \in BOOLEAN |-> {i \in p.cond : short = (length[i] <= Small)}]
        BY <2>4, <3>2
      <4>2. Options(p, options)
        BY <4>1 DEF Options
      <4>3. ASSUME NEW i \in p.cond PROVE \E t \in DOMAIN options : i \in options[t]
        <5>1. i \in options[length[i] <= Small] /\ (length[i] <= Small) \in DOMAIN options
          BY <4>1
        <5> QED BY <5>1
      <4> QED BY <4>2, <4>3
    <3> QED BY <3>1, <3>2
  <2> DEFINE f == [option \in Split(p, options) |-> GetlineOn(option.path, all, length, option.tag, undecided)]
  <2>6. ASSUME NEW o \in Split(p, options) PROVE IsPath(f[o]) /\ f[o].cond = o.path.cond /\ Minds(o.path, f[o])
    <3>1. /\ IsPath(o.path) /\ o.path.cond \subseteq p.cond
          /\ Held(o.path) = Held(p) /\ o.path.position = p.position
      BY <2>5, SplitIs
    <3>2. PICK q : q = o.path
      OBVIOUS
    <3>3. \A i \in q.cond : length[i] \in 0..(Held(q) - q.position)
      BY <2>3, <3>1, <3>2
    <3>4. \A t : LET g == GetlineOn(q, all, length, t, undecided) IN IsPath(g) /\ g.cond = q.cond /\ Minds(q, g)
      BY <3>1, <3>2, <3>3, GetlineOnPath
    <3> QED BY <3>2, <3>4
  <2>7. Getline(p, undecided) = {f[option] : option \in Split(p, options)}
    BY <1>2, <2>1, <2>2, <2>4 DEF Getline
  <2> HIDE DEF f
  <2>8. /\ Divides(p, {f[o] : o \in Split(p, options)})
        /\ \A t \in DOMAIN options : \A i \in options[t] : \E q \in {f[o] : o \in Split(p, options)} : i \in q.cond
    BY <2>5, <2>6, SplitDivides
  <2> QED BY <2>5, <2>7, <2>8 DEF Complete
<1> QED BY <1>1, <1>2

LEMMA BlockOn ==
    ASSUME NEW p, IsPath(p), NEW call, call.size \in Int
    PROVE  OnTo(p, Block(p, call))
<1>1. PICK taken : taken = Clamped(call.size, 0, Held(p) - p.position)
  OBVIOUS
<1>2. taken \in 0..(Held(p) - p.position)
  <2>1. Held(p) - p.position \in Int /\ 0 <= Held(p) - p.position
    BY HeldIs
  <2> QED BY <1>1, <2>1 DEF Clamped
<1>3. PICK c : c = Copied(p, taken)
  OBVIOUS
<1>4. Like(p, c) /\ IsPath(c)
  BY <1>3, WritesLike DEF Like, Copied
<1>5. PICK r : r = ReturnsAll(c, taken \div call.unit)
  OBVIOUS
<1>6. Like(c, r)
  BY <1>4, <1>5, ReturnsAllLike
<1>7. Like(p, r) /\ IsPath(r)
  BY <1>4, <1>6, LikeBoth DEF Like
<1>8. taken \in 0..(Held(r) - r.position)
  BY <1>2, <1>7, LikeHeld DEF Like
<1>9. OnTo(r, Advance(r, taken))
  BY <1>7, <1>8, AdvanceIs
<1>10. OnTo(p, r)
  BY <1>7, LikeOn
<1>11. Block(p, call) = Advance(r, taken)
  BY <1>1, <1>3, <1>5 DEF Block
<1> QED BY <1>9, <1>10, <1>11, OnBoth

LEMMA ReadDivides ==
    ASSUME NEW p, IsPath(p), NEW call, call.size \in Int
    PROVE  Divides(p, Read(p, call)) /\ Complete(p, Read(p, call))
<1>1. PICK q : q = Block(Looked(p), call)
  OBVIOUS
<1>2. Like(p, Looked(p)) /\ IsPath(Looked(p))
  BY LookedLike DEF Like
<1>3. OnTo(Looked(p), q)
  BY <1>1, <1>2, BlockOn
<1>4. OnTo(p, q)
  BY <1>2, <1>3, LikeOn, OnBoth
<1>5. OnTo(p, Handed(q, p.position, Block(p, call).position, FALSE))
  BY <1>4, HandedOn
<1>6. Read(p, call) = {Handed(q, p.position, Block(p, call).position, FALSE)}
  BY <1>1 DEF Read
<1> QED BY <1>5, <1>6, OnDivides

LEMMA FreadDivides ==
    ASSUME NEW p, IsPath(p), NEW call, call.size \in Int
    PROVE  Divides(p, Fread(p, call)) /\ Complete(p, Fread(p, call))
<1>1. Like(p, Looked(p)) /\ IsPath(Looked(p))
  BY LookedLike DEF Like
<1>2. OnTo(Looked(p), Block(Looked(p), call))
  BY <1>1, BlockOn
<1>3. OnTo(p, Block(Looked(p), call))
  BY <1>1, <1>2, LikeOn, OnBoth
<1> QED BY <1>3, OnDivides DEF Fread

LEMMA FeofDivides ==
    ASSUME NEW p, IsPath(p), NEW call
    PROVE  Divides(p, Feof(p, call)) /\ Complete(p, Feof(p, call))
BY EndLike, LikeDivides DEF Feof

LEMMA FtellDivides ==
    ASSUME NEW p, IsPath(p), NEW call
    PROVE  Divides(p, Ftell(p, call)) /\ Complete(p, Ftell(p, call))
BY EndLike, LikeDivides DEF Ftell

\* Elsewhere in the same content.
LEMMA MovedLike ==
    ASSUME NEW p, IsPath(p), NEW q, Like(p, q), NEW n \in 0..Held(p)
    PROVE  OnTo(p, Moved(q, n))
<1>1. IsPath(q) /\ n \in 0..Held(q)
  BY LikeHeld DEF Like
<1>2. OnTo(q, Moved(q, n))
  BY <1>1, MovedOn
<1> QED BY <1>2, LikeOn, OnBoth

LEMMA FseekDivides ==
    ASSUME NEW p, IsPath(p), NEW call, call.whence \in {"set", "cur", "end"}, call.offset \in Int
    PROVE  Divides(p, Fseek(p, call)) /\ Complete(p, Fseek(p, call))
<1>1. Held(p) \in Nat /\ p.position \in Nat
  BY HeldIs
<1>2. SeekFrom(call, p.position, Held(p)) \in Int
  <2>1. CASE call.whence = "set"
    BY <2>1 DEF SeekFrom
  <2>2. CASE call.whence = "cur"
    BY <1>1, <2>2 DEF SeekFrom
  <2>3. CASE call.whence = "end"
    BY <1>1, <2>3 DEF SeekFrom
  <2> QED BY <2>1, <2>2, <2>3
<1>3. PICK m : m = SeekFrom(call, p.position, Held(p)) + call.offset
  OBVIOUS
<1>4. m \in Int
  BY <1>2, <1>3
<1>5. Clamped(m, 0, Held(p)) \in 0..Held(p)
  BY <1>1, <1>4 DEF Clamped
<1>6. OnTo(p, Moved(ReturnsAll(Looked(p), 0), Clamped(m, 0, Held(p))))
  BY <1>5, EndLike, MovedLike
<1>7. Fseek(p, call) = {Moved(ReturnsAll(Looked(p), 0), Clamped(m, 0, Held(p)))}
  BY <1>3 DEF Fseek
<1> QED BY <1>6, <1>7, OnDivides

LEMMA FopenDivides ==
    ASSUME NEW p, IsPath(p), NEW call
    PROVE  Divides(p, Fopen(p, call)) /\ Complete(p, Fopen(p, call))
<1>1. 0 \in 0..Held(p)
  BY HeldIs
<1>2. Like(p, ReturnsAll(p, "stream"))
  BY ReturnsAllLike
<1>3. OnTo(p, Moved(ReturnsAll(p, "stream"), 0))
  BY <1>1, <1>2, MovedLike
<1> QED BY <1>3, OnDivides DEF Fopen

LEMMA FwriteDivides ==
    ASSUME NEW p, IsPath(p), NEW call, call.bytes \in Seq(Bytes)
    PROVE  Divides(p, Fwrite(p, call)) /\ Complete(p, Fwrite(p, call))
<1>1. PICK m : m = Len(call.bytes)
  OBVIOUS
<1>2. m \in Nat
  BY <1>1, LenProperties
<1>3. PICK d : d = [i \in p.cond |-> [p.data[i] EXCEPT !.content = UpTo(@, p.position) \o call.bytes]]
  OBVIOUS
<1>4. PICK q : q = [p EXCEPT !.data = d]
  OBVIOUS
<1>5. /\ DOMAIN q = PathFields /\ q.cond = p.cond /\ q.position = p.position /\ q.data = d
      /\ q.noted = p.noted
  BY <1>4 DEF IsPath, PathFields
<1>6. Held(p) \in Nat /\ p.position \in 0..Held(p) /\ p.position + m \in Nat
  BY <1>2, HeldIs DEF IsPath
<1>7. ASSUME NEW i \in q.cond
      PROVE  /\ DOMAIN q.data[i] = DataFields
             /\ q.data[i].content \in Seq(Bytes) /\ Len(q.data[i].content) = p.position + m
  <2>1. DOMAIN p.data[i] = DataFields /\ p.data[i].content \in Seq(Bytes) /\ Len(p.data[i].content) = Held(p)
    BY <1>5 DEF IsPath
  <2>2. q.data[i] = [p.data[i] EXCEPT !.content = UpTo(@, p.position) \o call.bytes]
    BY <1>3, <1>5
  <2>3. DOMAIN q.data[i] = DataFields /\ q.data[i].content = UpTo(p.data[i].content, p.position) \o call.bytes
    BY <2>1, <2>2 DEF DataFields
  <2>4. PICK u : u = UpTo(p.data[i].content, p.position)
    OBVIOUS
  <2>5. u \in Seq(Bytes) /\ Len(u) = p.position
    BY <1>6, <2>1, <2>4, UpToIs
  <2>6. u \o call.bytes \in Seq(Bytes) /\ Len(u \o call.bytes) = p.position + m
    BY <1>1, <2>5, ConcatProperties
  <2> QED BY <2>3, <2>4, <2>6
<1>8. q.position \in 0..(p.position + m) /\ q.cond # {} /\ DOMAIN q.data = q.cond
  BY <1>2, <1>3, <1>5, <1>6 DEF IsPath
<1>9. IsPath(q) /\ Held(q) = p.position + m
  BY <1>5, <1>6, <1>7, <1>8, PathFrom
<1>10. Like(q, ReturnsAll(q, m))
  BY <1>9, ReturnsAllLike
<1>11. p.position + m \in 0..Held(q)
  BY <1>2, <1>6, <1>9
<1>12. OnTo(q, Moved(ReturnsAll(q, m), p.position + m))
  BY <1>9, <1>10, <1>11, MovedLike
<1>13. Fwrite(p, call) = {Moved(ReturnsAll(q, m), p.position + m)}
  BY <1>1, <1>3, <1>4 DEF Fwrite
<1>14. Divides(p, {Moved(ReturnsAll(q, m), p.position + m)}) /\ Complete(p, {Moved(ReturnsAll(q, m), p.position + m)})
  BY <1>5, <1>12, OneDivides DEF OnTo, Minds
<1> QED BY <1>13, <1>14

-----------------------------------------------------------------------------
(* `in >> s`.                                                               *)

TokenTags(p) ==
    {t \in [skipped : 0..1, length : 1..(Held(p) - p.position)] : t.skipped + t.length <= Held(p) - p.position}
TokenFits(p, i, t) ==
    /\ t.skipped = 1 => At(p, i, p.position + 0) \in Whitespace
    /\ \A n \in 0..(t.length - 1) : ~(At(p, i, p.position + (t.skipped + n)) \in Whitespace)
    /\ t.skipped + t.length < Held(p) - p.position =>
          At(p, i, p.position + (t.skipped + t.length)) \in Whitespace
TokenOptions(p) == [t \in TokenTags(p) |-> {i \in p.cond : TokenFits(p, i, t)}]

\* The places k, k + 1, ... from which input i has no blank.
Inked(p, i, k) == {n \in Nat : At(p, i, p.position + (k + n)) \notin Whitespace}

LEMMA TokenRun ==
    ASSUME NEW p, IsPath(p), NEW i \in p.cond, NEW t \in TokenTags(p)
    PROVE  TokenFits(p, i, t) <=>
              /\ t.skipped = 1 => At(p, i, p.position + 0) \in Whitespace
              /\ RunOf(Inked(p, i, t.skipped), Held(p) - p.position - t.skipped, t.length)
<1>1. PICK all : all = Held(p) - p.position
  OBVIOUS
<1>2. PICK k : k = t.skipped
  OBVIOUS
<1>3. PICK m : m = t.length
  OBVIOUS
<1>4. all \in Nat /\ k \in 0..1 /\ m \in 1..all /\ k + m <= all
  BY <1>1, <1>2, <1>3, HeldIs DEF TokenTags
<1>5. m \in 0..(all - k)
  BY <1>4
<1>6. (\A n \in 0..(m - 1) : ~(At(p, i, p.position + (k + n)) \in Whitespace))
      <=> \A n \in 0..(m - 1) : n \in Inked(p, i, k)
  <2>1. 0..(m - 1) \subseteq Nat
    BY <1>4
  <2>2. \A n \in Nat : n \in Inked(p, i, k) <=> ~(At(p, i, p.position + (k + n)) \in Whitespace)
    BY DEF Inked
  <2> QED BY <2>1, <2>2
<1>7. (k + m < all => At(p, i, p.position + (k + m)) \in Whitespace)
      <=> (m < all - k => m \notin Inked(p, i, k))
  <2>1. k + m < all <=> m < all - k
    BY <1>4
  <2>2. m \in Nat
    BY <1>4
  <2> QED BY <2>1, <2>2 DEF Inked
<1> QED BY <1>1, <1>2, <1>3, <1>5, <1>6, <1>7 DEF RunOf, TokenFits

LEMMA TokenExclusive ==
    ASSUME NEW p, IsPath(p)
    PROVE  Options(p, TokenOptions(p))
<1>1. ASSUME NEW t \in TokenTags(p), NEW u \in TokenTags(p), NEW i \in p.cond,
             TokenFits(p, i, t), TokenFits(p, i, u)
      PROVE  t = u
  <2>1. /\ t = [skipped |-> t.skipped, length |-> t.length] /\ t.skipped \in 0..1 /\ t.length >= 1
        /\ u = [skipped |-> u.skipped, length |-> u.length] /\ u.skipped \in 0..1 /\ u.length >= 1
        /\ t.length \in Int /\ u.length \in Int
    BY HeldIs DEF TokenTags
  <2>2. /\ t.skipped = 1 => At(p, i, p.position + 0) \in Whitespace
        /\ RunOf(Inked(p, i, t.skipped), Held(p) - p.position - t.skipped, t.length)
        /\ u.skipped = 1 => At(p, i, p.position + 0) \in Whitespace
        /\ RunOf(Inked(p, i, u.skipped), Held(p) - p.position - u.skipped, u.length)
    BY <1>1, TokenRun
  <2>3. ASSUME NEW v \in {t, u}, v.skipped = 0 PROVE At(p, i, p.position + 0) \notin Whitespace
    <3>1. RunOf(Inked(p, i, 0), Held(p) - p.position - 0, v.length) /\ v.length >= 1 /\ v.length \in Int
      BY <2>1, <2>2, <2>3
    <3>2. 0 \in 0..(v.length - 1)
      BY <3>1
    <3>3. 0 \in Inked(p, i, 0)
      BY <3>1, <3>2 DEF RunOf
    <3>4. At(p, i, p.position + (0 + 0)) \notin Whitespace
      BY <3>3 DEF Inked
    <3> QED BY <3>4
  <2>4. t.skipped = u.skipped
    BY <2>1, <2>2, <2>3
  <2>5. t.length = u.length
    <3>1. PICK k : k = t.skipped
      OBVIOUS
    <3>2. PICK F : F = Inked(p, i, k)
      OBVIOUS
    <3>3. Held(p) - p.position - k \in Nat
      BY <3>1, HeldIs DEF TokenTags
    <3>4. RunOf(F, Held(p) - p.position - k, t.length) /\ RunOf(F, Held(p) - p.position - k, u.length)
      BY <2>2, <2>4, <3>1, <3>2
    <3> QED BY <3>3, <3>4, RunUnique
  <2> QED BY <2>1, <2>4, <2>5
<1> QED BY <1>1 DEF Options, TokenOptions

LEMMA TokenCovers ==
    ASSUME NEW p, IsPath(p), ~Drained(p), NEW i \in p.cond
    PROVE  \/ \E t \in DOMAIN TokenOptions(p) : i \in TokenOptions(p)[t]
           \/ ManyBlanks(Rest(p, i))
           \/ Last(Rest(p, i)) \in Whitespace
<1>1. PICK all : all = Held(p) - p.position
  OBVIOUS
<1>2. all \in Nat /\ all >= 1 /\ p.position \in Nat
  BY <1>1, HeldIs DEF Drained
<1>3. /\ Len(Rest(p, i)) = all
      /\ \A n \in 0..(all - 1) : Rest(p, i)[n + 1] = At(p, i, p.position + n)
  BY <1>1, RestIs
\* A run that begins k bytes on.
<1>4. ASSUME NEW k \in 0..1, k < all, At(p, i, p.position + k) \notin Whitespace,
             k = 1 => At(p, i, p.position) \in Whitespace
      PROVE  \E t \in DOMAIN TokenOptions(p) : i \in TokenOptions(p)[t]
  <2>1. all - k \in Nat
    BY <1>2, <1>4
  <2>2. PICK m : RunOf(Inked(p, i, k), all - k, m)
    BY <2>1, RunExists
  <2>3. m \in 0..(all - k) /\ (m < all - k => m \notin Inked(p, i, k))
    BY <2>2 DEF RunOf
  <2>4. 0 \in Inked(p, i, k)
    BY <1>2, <1>4 DEF Inked
  <2>5. m \in 1..all /\ k + m <= all
    BY <1>2, <1>4, <2>3, <2>4
  <2>6. PICK t : t = [skipped |-> k, length |-> m]
    OBVIOUS
  <2>7. t \in TokenTags(p) /\ t.skipped = k /\ t.length = m
    BY <1>1, <1>4, <2>5, <2>6 DEF TokenTags
  <2>8. t.skipped = 1 => At(p, i, p.position + 0) \in Whitespace
    BY <1>2, <1>4, <2>7
  <2>9. RunOf(Inked(p, i, t.skipped), Held(p) - p.position - t.skipped, t.length)
    BY <1>1, <2>2, <2>7
  <2>10. TokenFits(p, i, t)
    BY <2>7, <2>8, <2>9, TokenRun
  <2> QED BY <2>7, <2>10 DEF TokenOptions
<1>5. CASE At(p, i, p.position) \notin Whitespace
  BY <1>2, <1>4, <1>5
<1>6. CASE At(p, i, p.position) \in Whitespace /\ all = 1
  <2>1. Rest(p, i)[1] = At(p, i, p.position)
    BY <1>2, <1>3, <1>6
  <2>2. Last(Rest(p, i)) = Rest(p, i)[1]
    BY <1>3, <1>6 DEF Last
  <2> QED BY <1>6, <2>1, <2>2
<1>7. CASE At(p, i, p.position) \in Whitespace /\ all > 1 /\ At(p, i, p.position + 1) \in Whitespace
  <2>1. Rest(p, i)[0 + 1] = At(p, i, p.position + 0) /\ Rest(p, i)[1 + 1] = At(p, i, p.position + 1)
    BY <1>2, <1>3, <1>7
  <2>2. 1 \in 1..(Len(Rest(p, i)) - 1) /\ p.position + 0 = p.position
    BY <1>2, <1>3, <1>7
  <2> QED BY <1>7, <2>1, <2>2 DEF ManyBlanks
<1>8. CASE At(p, i, p.position) \in Whitespace /\ all > 1 /\ At(p, i, p.position + 1) \notin Whitespace
  BY <1>2, <1>4, <1>8
<1> QED BY <1>2, <1>5, <1>6, <1>7, <1>8

LEMMA TokenOnPath ==
    ASSUME NEW p, IsPath(p), NEW first, NEW last \in 0..Held(p)
    PROVE  OnTo(p, TokenOn(p, first, last))
<1>1. PICK object : object = [i \in p.cond |-> Text(SubSeq(p.data[i].content, first + 1, last))]
  OBVIOUS
<1>2. PICK r : r = ReturnsAll(p, "stream")
  OBVIOUS
<1>3. Like(p, r) /\ IsPath(r)
  BY <1>2, ReturnsAllLike DEF Like
<1>4. Like(r, Strings(r, object))
  BY <1>3, StringsLike
<1>5. Like(p, Strings(r, object))
  BY <1>3, <1>4, LikeBoth
<1>6. OnTo(p, Moved(Strings(r, object), last))
  BY <1>5, MovedLike
<1>7. OnTo(p, Handed(Moved(Strings(r, object), last), first, last, FALSE))
  BY <1>6, HandedOn
<1> QED BY <1>1, <1>2, <1>7 DEF TokenOn

LEMMA TokenDivides ==
    ASSUME NEW p, IsPath(p), NEW call
    PROVE  /\ Divides(p, Token(p, call))
           /\ \A i \in p.cond : \/ \E q \in Token(p, call) : i \in q.cond
                                \/ ManyBlanks(Rest(p, i))
                                \/ Last(Rest(p, i)) \in Whitespace
<1>1. CASE Drained(p)
  <2>1. Divides(p, Token(p, call)) /\ Complete(p, Token(p, call))
    BY <1>1, EndLike, LikeDivides DEF Token
  <2> QED BY <2>1 DEF Complete
<1>2. CASE ~Drained(p)
  <2> DEFINE from(t) == p.position + t.skipped
             S == Split(p, TokenOptions(p))
             f == [o \in S |-> TokenOn(o.path, from(o.tag), from(o.tag) + o.tag.length)]
  <2>1. Token(p, call) = {f[o] : o \in S}
    BY <1>2 DEF Token, TokenOptions, TokenTags, TokenFits
  <2>2. ASSUME NEW o \in S PROVE IsPath(f[o]) /\ f[o].cond = o.path.cond /\ Minds(o.path, f[o])
    <3>1. o.tag \in DOMAIN TokenOptions(p) /\ IsPath(o.path) /\ Held(o.path) = Held(p)
      BY TokenExclusive, SplitIs
    <3>2. /\ o.tag.skipped \in 0..1 /\ o.tag.length \in 1..(Held(p) - p.position)
          /\ o.tag.skipped + o.tag.length <= Held(p) - p.position
      BY <3>1 DEF TokenOptions, TokenTags
    <3>3. from(o.tag) + o.tag.length \in 0..Held(o.path)
      BY <3>1, <3>2, HeldIs
    <3>4. OnTo(o.path, TokenOn(o.path, from(o.tag), from(o.tag) + o.tag.length))
      BY <3>1, <3>3, TokenOnPath
    <3> QED BY <3>4 DEF OnTo
  <2> HIDE DEF f
  <2>3. PICK options : options = TokenOptions(p)
    OBVIOUS
  <2>4. /\ Divides(p, {f[o] : o \in S})
        /\ \A t \in DOMAIN options : \A i \in options[t] : \E q \in {f[o] : o \in S} : i \in q.cond
    BY <2>2, <2>3, TokenExclusive, SplitDivides
  <2> HIDE DEF S
  <2> QED BY <1>2, <2>1, <2>3, <2>4, TokenCovers
<1> QED BY <1>1, <1>2

-----------------------------------------------------------------------------
(* Scans.                                                                   *)

\* A scan s that a scan p may become: it goes on, and nothing it reads changes.
Goes(p, s) ==
    /\ IsPath(s) /\ s.cond \subseteq p.cond /\ p.position <= s.position /\ Minds(p, s) /\ s.cut = p.cut
    /\ \A i \in s.cond : s.data[i].content = p.data[i].content

\* All scans p becomes: an input that is in none of them had two blanks in a row to come.
Parts(p, Q) ==
    /\ \A q \in Q : Goes(p, q)
    /\ \A q, r \in Q : q # r => q.cond \cap r.cond = {}
    /\ \A i \in p.cond : (\E q \in Q : i \in q.cond) \/ ManyBlanks(Rest(p, i))

LEMMA GoesBoth ==
    ASSUME NEW p, NEW q, NEW r, IsPath(p), Goes(p, q), Goes(q, r)
    PROVE  Goes(p, r)
<1>1. IsPath(q) /\ IsPath(r)
  BY DEF Goes
<1>2. p.position \in Nat /\ q.position \in Nat /\ r.position \in Nat
  BY <1>1, HeldIs
<1>3. p.position <= r.position
  BY <1>2 DEF Goes
<1>4. r.cond \subseteq p.cond /\ \A i \in r.cond : r.data[i].content = p.data[i].content
  BY DEF Goes
<1> QED BY <1>1, <1>3, <1>4 DEF Goes, Minds

LEMMA LikeGoes ==
    ASSUME NEW p, NEW q, IsPath(p), Like(p, q)
    PROVE  Goes(p, q)
<1>1. p.position <= q.position
  BY HeldIs DEF Like
<1> QED BY <1>1 DEF Like, Goes

LEMMA AdvanceGoes ==
    ASSUME NEW p, IsPath(p), NEW n \in 0..(Held(p) - p.position)
    PROVE  Goes(p, Advance(p, n)) /\ Advance(p, n).cond = p.cond
<1>1. OnTo(p, Advance(p, n)) /\ Advance(p, n).position = p.position + n
  BY AdvanceIs
<1>2. p.position <= Advance(p, n).position
  BY <1>1, HeldIs
<1> QED BY <1>1, <1>2 DEF OnTo, Goes

\* What is to come later was to come before.
LEMMA BlanksCame ==
    ASSUME NEW p, IsPath(p), NEW s, Goes(p, s), NEW i \in s.cond, ManyBlanks(Rest(s, i))
    PROVE  ManyBlanks(Rest(p, i))
<1>1. IsPath(s) /\ i \in p.cond /\ s.data[i].content = p.data[i].content
  BY DEF Goes
<1>2. PICK c : c = p.data[i].content
  OBVIOUS
<1>3. PICK a : a = p.position
  OBVIOUS
<1>4. PICK b : b = s.position
  OBVIOUS
<1>5. c \in Seq(Bytes) /\ Len(c) = Held(p) /\ Len(c) = Held(s)
  BY <1>1, <1>2 DEF IsPath
<1>6. a \in 0..Len(c) /\ b \in 0..Len(c) /\ a <= b /\ Len(c) \in Nat
  BY <1>1, <1>3, <1>4, <1>5, HeldIs DEF Goes
<1>7. Rest(p, i) = From(c, a) /\ Rest(s, i) = From(c, b)
  BY <1>1, <1>2, <1>3, <1>4 DEF Rest
<1>8. Len(From(c, a)) = Len(c) - a /\ \A n \in 1..(Len(c) - a) : From(c, a)[n] = c[a + n]
  BY <1>5, <1>6, FromIs
<1>9. Len(From(c, b)) = Len(c) - b /\ \A n \in 1..(Len(c) - b) : From(c, b)[n] = c[b + n]
  BY <1>5, <1>6, FromIs
<1>10. PICK n \in 1..(Len(From(c, b)) - 1) :
          From(c, b)[n] \in Whitespace /\ From(c, b)[n + 1] \in Whitespace
  BY <1>7 DEF ManyBlanks
<1>11. n \in 1..(Len(c) - b) /\ n + 1 \in 1..(Len(c) - b)
  BY <1>6, <1>9, <1>10
<1>12. c[b + n] \in Whitespace /\ c[b + (n + 1)] \in Whitespace
  BY <1>9, <1>10, <1>11
<1>13. PICK m : m = (b - a) + n
  OBVIOUS
<1>14. /\ m \in 1..(Len(c) - a) /\ m + 1 \in 1..(Len(c) - a) /\ m \in 1..(Len(From(c, a)) - 1)
       /\ a + m = b + n /\ a + (m + 1) = b + (n + 1)
  BY <1>6, <1>8, <1>11, <1>13
<1>15. From(c, a)[m] \in Whitespace /\ From(c, a)[m + 1] \in Whitespace
  BY <1>8, <1>12, <1>14
<1> QED BY <1>7, <1>14, <1>15 DEF ManyBlanks

LEMMA OnePart ==
    ASSUME NEW p, NEW q, Goes(p, q), q.cond = p.cond
    PROVE  Parts(p, {q})
BY DEF Parts

\* The parts of the parts are parts.
LEMMA PartsThen ==
    ASSUME NEW p, IsPath(p), NEW B, Parts(p, B), NEW C, \A b \in B : Parts(b, C[b])
    PROVE  Parts(p, UNION {C[b] : b \in B})
<1> DEFINE Q == UNION {C[b] : b \in B}
<1>1. \A b \in B : Goes(p, b) /\ IsPath(b)
  BY DEF Parts, Goes
<1>2. ASSUME NEW q \in Q PROVE \E b \in B : q \in C[b] /\ Goes(b, q) /\ Goes(p, q)
  <2>1. PICK b \in B : q \in C[b]
    OBVIOUS
  <2>2. Goes(b, q)
    BY <2>1 DEF Parts
  <2> QED BY <1>1, <2>1, <2>2, GoesBoth
<1>3. ASSUME NEW q \in Q, NEW r \in Q, q # r PROVE q.cond \cap r.cond = {}
  <2>1. PICK b \in B : q \in C[b] /\ Goes(b, q)
    BY <1>2
  <2>2. PICK c \in B : r \in C[c] /\ Goes(c, r)
    BY <1>2
  <2>3. CASE b = c
    BY <1>3, <2>1, <2>2, <2>3 DEF Parts
  <2>4. CASE b # c
    <3>1. b.cond \cap c.cond = {}
      BY <2>4 DEF Parts
    <3>2. q.cond \subseteq b.cond /\ r.cond \subseteq c.cond
      BY <2>1, <2>2 DEF Goes
    <3> QED BY <3>1, <3>2
  <2> QED BY <2>3, <2>4
<1>4. ASSUME NEW i \in p.cond PROVE (\E q \in Q : i \in q.cond) \/ ManyBlanks(Rest(p, i))
  <2>1. CASE ~\E b \in B : i \in b.cond
    BY <2>1 DEF Parts
  <2>2. CASE \E b \in B : i \in b.cond
    <3>1. PICK b \in B : i \in b.cond
      BY <2>2
    <3>2. (\E q \in C[b] : i \in q.cond) \/ ManyBlanks(Rest(b, i))
      BY <3>1 DEF Parts
    <3>3. ManyBlanks(Rest(b, i)) => ManyBlanks(Rest(p, i))
      BY <1>1, <3>1, BlanksCame
    <3> QED BY <3>2, <3>3
  <2> QED BY <2>1, <2>2
<1> HIDE DEF Q
<1>5. Parts(p, Q)
  BY <1>2, <1>3, <1>4 DEF Parts
<1> QED BY <1>5 DEF Q

\* The parts a split makes.
LEMMA SplitGoes ==
    ASSUME NEW p, IsPath(p), NEW options, Options(p, options), NEW o \in Split(p, options)
    PROVE  Goes(p, o.path)
<1>1. /\ IsPath(o.path) /\ o.path.cond = options[o.tag] /\ options[o.tag] \subseteq p.cond
      /\ o.path.position = p.position /\ \A i \in options[o.tag] : o.path.data[i] = p.data[i]
      /\ o.path.noted = p.noted /\ o.path.cut = p.cut
  BY SplitIs
<1>2. p.position <= o.path.position
  BY <1>1, HeldIs
<1> QED BY <1>1, <1>2 DEF Goes, Minds

LEMMA SplitParts ==
    ASSUME NEW p, IsPath(p), NEW options, Options(p, options), NEW f,
           \A o \in Split(p, options) : Goes(o.path, f[o]) /\ f[o].cond = o.path.cond,
           \A i \in p.cond : (\E t \in DOMAIN options : i \in options[t]) \/ ManyBlanks(Rest(p, i))
    PROVE  Parts(p, {f[o] : o \in Split(p, options)})
<1> DEFINE Q == {f[o] : o \in Split(p, options)}
<1>1. \A o \in Split(p, options) : IsPath(f[o]) /\ f[o].cond = o.path.cond /\ Minds(o.path, f[o])
  BY DEF Goes
<1>2. Divides(p, Q) /\ \A t \in DOMAIN options : \A i \in options[t] : \E q \in Q : i \in q.cond
  BY <1>1, SplitDivides
<1>3. ASSUME NEW o \in Split(p, options) PROVE Goes(p, f[o])
  BY SplitGoes, GoesBoth
<1>4. \A q \in Q : Goes(p, q)
  BY <1>3
<1> HIDE DEF Q
<1>5. Parts(p, Q)
  BY <1>2, <1>4 DEF Parts, Divides
<1> QED BY <1>5 DEF Q

-----------------------------------------------------------------------------
(* The directives.                                                          *)

\* A blank before place n, if the stream goes that far.
BlankAt(s, i, n) == s.position + n < Held(s) /\ At(s, i, s.position + n) \in Whitespace
SkipOptions(s) ==
    [skipped \in {0, 1} |->
        {i \in s.cond : IF skipped = 0 THEN ~BlankAt(s, i, 0) ELSE BlankAt(s, i, 0) /\ ~BlankAt(s, i, 1)}]

LEMMA BlanksAt ==
    ASSUME NEW s, IsPath(s), NEW i \in s.cond, BlankAt(s, i, 0), BlankAt(s, i, 1)
    PROVE  ManyBlanks(Rest(s, i))
<1>1. Held(s) \in Nat /\ s.position \in Nat /\ s.position + 1 < Held(s)
  BY HeldIs DEF BlankAt
<1>2. /\ Len(Rest(s, i)) = Held(s) - s.position
      /\ \A n \in 0..(Held(s) - s.position - 1) : Rest(s, i)[n + 1] = At(s, i, s.position + n)
  BY RestIs
<1>3. Rest(s, i)[0 + 1] = At(s, i, s.position + 0) /\ Rest(s, i)[1 + 1] = At(s, i, s.position + 1)
  BY <1>1, <1>2
<1>4. 1 \in 1..(Len(Rest(s, i)) - 1)
  BY <1>1, <1>2
<1>5. Rest(s, i)[1] \in Whitespace /\ Rest(s, i)[1 + 1] \in Whitespace
  BY <1>3 DEF BlankAt
<1> QED BY <1>4, <1>5 DEF ManyBlanks

LEMMA SkipSpaceParts ==
    ASSUME NEW s, IsPath(s)
    PROVE  Parts(s, SkipSpace(s))
<1>1. CASE Drained(s)
  <2>1. Goes(s, s)
    BY LikeSelf, LikeGoes
  <2> QED BY <1>1, <2>1, OnePart DEF SkipSpace
<1>2. CASE ~Drained(s)
  <2> DEFINE S == Split(s, SkipOptions(s))
             f == [o \in S |-> Advance(o.path, o.tag)]
  <2>1. SkipSpace(s) = {f[o] : o \in S}
    BY <1>2 DEF SkipSpace, SkipOptions, BlankAt
  <2>2. Options(s, SkipOptions(s))
    BY DEF Options, SkipOptions
  <2>3. ASSUME NEW o \in S PROVE Goes(o.path, f[o]) /\ f[o].cond = o.path.cond
    <3>1. /\ o.tag \in {0, 1} /\ IsPath(o.path) /\ o.path.position = s.position /\ Held(o.path) = Held(s)
      BY <2>2, SplitIs DEF SkipOptions
    <3>2. o.tag \in 0..(Held(o.path) - o.path.position)
      BY <1>2, <3>1, HeldIs DEF Drained
    <3> QED BY <3>1, <3>2, AdvanceGoes
  <2>4. ASSUME NEW i \in s.cond
        PROVE  (\E t \in DOMAIN SkipOptions(s) : i \in SkipOptions(s)[t]) \/ ManyBlanks(Rest(s, i))
    <3>1. CASE ~BlankAt(s, i, 0)
      <4>1. i \in SkipOptions(s)[0] /\ 0 \in DOMAIN SkipOptions(s)
        BY <3>1 DEF SkipOptions
      <4> QED BY <4>1
    <3>2. CASE BlankAt(s, i, 0) /\ ~BlankAt(s, i, 1)
      <4>1. i \in SkipOptions(s)[1] /\ 1 \in DOMAIN SkipOptions(s)
        BY <3>2 DEF SkipOptions
      <4> QED BY <4>1
    <3>3. CASE BlankAt(s, i, 0) /\ BlankAt(s, i, 1)
      BY <3>3, BlanksAt
    <3> QED BY <3>1, <3>2, <3>3
  <2> HIDE DEF f
  <2>5. Parts(s, {f[o] : o \in S})
    BY <2>2, <2>3, <2>4, SplitParts
  <2> QED BY <2>1, <2>5
<1> QED BY <1>1, <1>2

\* The same inputs at the same place.
Stays(p, q) ==
    /\ IsPath(q) /\ q.cond = p.cond /\ q.position = p.position /\ Minds(p, q) /\ q.cut = p.cut
    /\ \A i \in p.cond : q.data[i].content = p.data[i].content

LEMMA StaysGoes ==
    ASSUME NEW p, IsPath(p), NEW q, Stays(p, q)
    PROVE  Goes(p, q) /\ q.cond = p.cond /\ IsPath(q) /\ Held(q) = Held(p)
<1>1. p.position <= q.position
  BY HeldIs DEF Stays
<1>2. Held(q) = Held(p)
  BY HeldIs DEF Stays, Held, IsPath
<1> QED BY <1>1, <1>2 DEF Goes, Stays

LEMMA ScanStays ==
    ASSUME NEW p, IsPath(p), NEW v
    PROVE  Stays(p, [p EXCEPT !.scan = v])
<1> DEFINE q == [p EXCEPT !.scan = v]
<1>1. /\ DOMAIN q = PathFields /\ q.cond = p.cond /\ q.position = p.position /\ q.data = p.data
      /\ q.noted = p.noted /\ q.cut = p.cut
  BY DEF IsPath, PathFields
<1> HIDE DEF q
<1>2. \A i \in q.cond : /\ DOMAIN q.data[i] = DataFields
                        /\ q.data[i].content \in Seq(Bytes) /\ Len(q.data[i].content) = Held(p)
  BY <1>1 DEF IsPath
<1>3. Held(p) \in Nat /\ q.position \in 0..Held(p) /\ q.cond # {} /\ DOMAIN q.data = q.cond
  BY <1>1, HeldIs DEF IsPath
<1>4. IsPath(q)
  BY <1>1, <1>2, <1>3, PathFrom
<1>5. Stays(p, q)
  BY <1>1, <1>4 DEF Stays, Minds
<1> QED BY <1>5 DEF q

LEMMA EndedStays ==
    ASSUME NEW s, IsPath(s), NEW result
    PROVE  Stays(s, Ended(s, result)) /\ Stays(s, Failed(s))
<1>1. ASSUME NEW r PROVE Stays(s, Ended(s, r))
  <2>1. PICK v : v = [s.scan EXCEPT !.result = r]
    OBVIOUS
  <2>2. Ended(s, r) = [s EXCEPT !.scan = v]
    BY <2>1 DEF Ended
  <2>3. Stays(s, [s EXCEPT !.scan = v])
    BY ScanStays
  <2> QED BY <2>2, <2>3
<1> QED BY <1>1 DEF Failed

LEMMA StoreStays ==
    ASSUME NEW s, IsPath(s), NEW directive, NEW content
    PROVE  Stays(s, Store(s, directive, content))
<1>1. CASE directive.assigns
  <2>1. PICK w : w = Writes(s, s.scan.assigned + 1, content)
    OBVIOUS
  <2>2. Like(s, w) /\ IsPath(w)
    BY <2>1, WritesLike DEF Like
  <2>3. PICK v : v = [w.scan EXCEPT !.assigned = @ + 1]
    OBVIOUS
  <2>4. Store(s, directive, content) = [w EXCEPT !.scan = v]
    BY <1>1, <2>1, <2>3 DEF Store
  <2>5. Stays(w, [w EXCEPT !.scan = v])
    BY <2>2, ScanStays
  <2>6. Stays(s, w)
    BY <2>2 DEF Like, Stays
  <2> QED BY <2>4, <2>5, <2>6 DEF Stays, Minds
<1>2. CASE ~directive.assigns
  BY <1>2 DEF Store, Stays, Minds
<1> QED BY <1>1, <1>2

\* On from a scan that stored something.
LEMMA StaysAdvance ==
    ASSUME NEW s, IsPath(s), NEW q, Stays(s, q), NEW n \in 0..(Held(s) - s.position)
    PROVE  Goes(s, Advance(q, n)) /\ Advance(q, n).cond = s.cond
<1>1. IsPath(q) /\ Held(q) = Held(s) /\ q.position = s.position /\ q.cond = s.cond /\ Goes(s, q)
  BY StaysGoes DEF Stays
<1>2. Goes(q, Advance(q, n)) /\ Advance(q, n).cond = q.cond
  BY <1>1, AdvanceGoes
<1> QED BY <1>1, <1>2, GoesBoth

LEMMA LongestIs ==
    ASSUME NEW s, IsPath(s), ~Drained(s), NEW directive, DirectiveOK(directive)
    PROVE  Longest(s, directive) \in 1..(Held(s) - s.position)
<1>1. PICK all : all = Held(s) - s.position
  OBVIOUS
<1>2. all \in Nat /\ all >= 1
  BY <1>1, HeldIs DEF Drained
<1>3. CASE directive.width = None
  BY <1>1, <1>2, <1>3 DEF Longest
<1>4. CASE directive.width # None
  <2>1. directive.width \in Nat \ {0}
    BY <1>4 DEF DirectiveOK
  <2>2. Longest(s, directive) = Clamped(directive.width, 0, all)
    BY <1>1, <1>4 DEF Longest
  <2>3. Clamped(directive.width, 0, all) \in 1..all
    BY <1>2, <2>1 DEF Clamped
  <2> QED BY <1>1, <2>2, <2>3
<1> QED BY <1>3, <1>4

LEMMA LiteralParts ==
    ASSUME NEW s, IsPath(s), ~Drained(s), NEW directive
    PROVE  Parts(s, Literal(s, directive))
<1>1. PICK matching : matching = {i \in s.cond : At(s, i, s.position) \in directive.set}
  OBVIOUS
<1>2. PICK options : options = [matched \in BOOLEAN |-> IF matched THEN matching ELSE s.cond \ matching]
  OBVIOUS
<1> DEFINE S == Split(s, options)
           f == [o \in S |-> IF o.tag THEN Advance(o.path, 1) ELSE Failed(o.path)]
<1>3. Literal(s, directive) = {f[o] : o \in S}
  BY <1>1, <1>2 DEF Literal
<1>4. Options(s, options)
  BY <1>1, <1>2 DEF Options
<1>5. ASSUME NEW o \in S PROVE Goes(o.path, f[o]) /\ f[o].cond = o.path.cond
  <2>1. IsPath(o.path) /\ o.path.position = s.position /\ Held(o.path) = Held(s)
    BY <1>4, SplitIs
  <2>2. 1 \in 0..(Held(o.path) - o.path.position)
    BY <2>1, HeldIs DEF Drained
  <2>3. Goes(o.path, Advance(o.path, 1)) /\ Advance(o.path, 1).cond = o.path.cond
    BY <2>1, <2>2, AdvanceGoes
  <2>4. Goes(o.path, Failed(o.path)) /\ Failed(o.path).cond = o.path.cond
    BY <2>1, EndedStays, StaysGoes
  <2> QED BY <2>3, <2>4
<1>6. ASSUME NEW i \in s.cond PROVE \E t \in DOMAIN options : i \in options[t]
  <2>1. CASE i \in matching
    <3>1. i \in options[TRUE] /\ TRUE \in DOMAIN options
      BY <1>2, <2>1
    <3> QED BY <3>1
  <2>2. CASE i \notin matching
    <3>1. i \in options[FALSE] /\ FALSE \in DOMAIN options
      BY <1>2, <2>2
    <3> QED BY <3>1
  <2> QED BY <2>1, <2>2
<1> HIDE DEF f
<1>7. Parts(s, {f[o] : o \in S})
  BY <1>4, <1>5, <1>6, SplitParts
<1> QED BY <1>3, <1>7

RunFits(s, directive) == IF directive.kind = "string" THEN Printed ELSE directive.set
FitsAt(s, i, fits) == {n \in Nat : At(s, i, s.position + n) \in fits}
RunOptions(s, directive) ==
    [length \in 0..Longest(s, directive) |->
        {i \in s.cond : RunOf(FitsAt(s, i, RunFits(s, directive)), Longest(s, directive), length)}]

LEMMA RunSplit ==
    ASSUME NEW s, IsPath(s), NEW directive, Longest(s, directive) \in Nat
    PROVE  Run(s, directive) =
              {RunOn(option.path, directive, option.tag) : option \in Split(s, RunOptions(s, directive))}
<1>1. PICK limit : limit = Longest(s, directive)
  OBVIOUS
<1>2. PICK fits : fits = RunFits(s, directive)
  OBVIOUS
<1>3. ASSUME NEW i, NEW length \in 0..limit
      PROVE  RunOf(FitsAt(s, i, fits), limit, length) <=>
                /\ \A n \in 0..(length - 1) : At(s, i, s.position + n) \in fits
                /\ length < limit => At(s, i, s.position + length) \notin fits
  <2>1. \A n \in Nat : n \in FitsAt(s, i, fits) <=> At(s, i, s.position + n) \in fits
    BY DEF FitsAt
  <2>2. 0..(length - 1) \subseteq Nat /\ length \in Nat
    BY <1>1
  <2> QED BY <2>1, <2>2 DEF RunOf
<1> DEFINE G(length) == {i \in s.cond : /\ \A n \in 0..(length - 1) : At(s, i, s.position + n) \in fits
                                        /\ length < limit => At(s, i, s.position + length) \notin fits}
<1>4. \A length \in 0..limit : G(length) = {i \in s.cond : RunOf(FitsAt(s, i, fits), limit, length)}
  BY <1>3
<1>5. PICK options : options = [length \in 0..limit |-> G(length)]
  OBVIOUS
<1>6. options = RunOptions(s, directive)
  <2> HIDE DEF G
  <2> QED BY <1>1, <1>2, <1>4, <1>5 DEF RunOptions
<1>7. Run(s, directive) = {RunOn(option.path, directive, option.tag) : option \in Split(s, options)}
  BY <1>1, <1>2, <1>5 DEF Run, RunFits
<1> QED BY <1>6, <1>7

\* The runs of an input have one length.
LEMMA RunExclusive ==
    ASSUME NEW s, NEW directive, Longest(s, directive) \in Nat
    PROVE  Options(s, RunOptions(s, directive))
BY RunUnique DEF Options, RunOptions

LEMMA RunParts ==
    ASSUME NEW s, IsPath(s), ~Drained(s), NEW directive, DirectiveOK(directive)
    PROVE  Parts(s, Run(s, directive))
<1>1. PICK limit : limit = Longest(s, directive)
  OBVIOUS
<1>2. limit \in 1..(Held(s) - s.position) /\ limit \in Nat
  BY <1>1, LongestIs, HeldIs
<1>3. PICK fits : fits = RunFits(s, directive)
  OBVIOUS
<1>4. PICK options : options = RunOptions(s, directive)
  OBVIOUS
<1>5. options = [length \in 0..limit |-> {i \in s.cond : RunOf(FitsAt(s, i, fits), limit, length)}]
  BY <1>1, <1>3, <1>4 DEF RunOptions
<1> DEFINE S == Split(s, options)
           f == [o \in S |-> RunOn(o.path, directive, o.tag)]
<1>6. Run(s, directive) = {f[o] : o \in S}
  BY <1>1, <1>2, <1>4, RunSplit
<1>7. Options(s, options)
  BY <1>1, <1>2, <1>4, RunExclusive
<1>8. ASSUME NEW o \in S PROVE Goes(o.path, f[o]) /\ f[o].cond = o.path.cond
  <2>1. /\ IsPath(o.path) /\ o.path.position = s.position /\ Held(o.path) = Held(s)
        /\ o.tag \in DOMAIN options
    BY <1>7, SplitIs
  <2>0. o.tag \in 0..limit
    BY <1>5, <2>1
  <2>2. o.tag \in 0..(Held(o.path) - o.path.position)
    BY <1>2, <2>0, <2>1, HeldIs
  <2>3. Goes(o.path, Failed(o.path)) /\ Failed(o.path).cond = o.path.cond
    BY <2>1, EndedStays, StaysGoes
  <2>4. PICK c : c = [i \in o.path.cond |-> Append(UpTo(Rest(o.path, i), o.tag), Nul)]
    OBVIOUS
  <2>5. Stays(o.path, Store(o.path, directive, c))
    BY <2>1, StoreStays
  <2>6. /\ Goes(o.path, Advance(Store(o.path, directive, c), o.tag))
        /\ Advance(Store(o.path, directive, c), o.tag).cond = o.path.cond
    BY <2>1, <2>2, <2>5, StaysAdvance
  <2>7. f[o] = IF o.tag = 0 THEN Failed(o.path) ELSE Advance(Store(o.path, directive, c), o.tag)
    BY <2>4 DEF RunOn
  <2> HIDE DEF f
  <2> QED BY <2>3, <2>6, <2>7
<1>9. ASSUME NEW i \in s.cond PROVE \E t \in DOMAIN options : i \in options[t]
  <2>1. PICK length : RunOf(FitsAt(s, i, fits), limit, length)
    BY <1>2, RunExists
  <2>2. length \in 0..limit
    BY <2>1 DEF RunOf
  <2>3. length \in DOMAIN options /\ i \in options[length]
    BY <1>5, <2>1, <2>2
  <2> QED BY <2>3
<1> HIDE DEF f
<1>10. Parts(s, {f[o] : o \in S})
  BY <1>7, <1>8, <1>9, SplitParts
<1> QED BY <1>6, <1>10

LEMMA CharactersParts ==
    ASSUME NEW s, IsPath(s), ~Drained(s), NEW directive, DirectiveOK(directive)
    PROVE  Parts(s, Characters(s, directive))
<1>1. PICK taken : taken = Longest(s, directive)
  OBVIOUS
<1>2. taken \in 0..(Held(s) - s.position)
  <2>1. taken \in 1..(Held(s) - s.position)
    BY <1>1, LongestIs
  <2> QED BY <2>1
<1>3. PICK c : c = [i \in s.cond |-> UpTo(Rest(s, i), taken)]
  OBVIOUS
<1>4. Stays(s, Store(s, directive, c))
  BY StoreStays
<1>5. /\ Goes(s, Advance(Store(s, directive, c), taken))
      /\ Advance(Store(s, directive, c), taken).cond = s.cond
  BY <1>2, <1>4, StaysAdvance
<1>6. Characters(s, directive) = {Advance(Store(s, directive, c), taken)}
  BY <1>1, <1>3 DEF Characters
<1> QED BY <1>5, <1>6, OnePart

DecimalTags(limit) == {t \in [signed : 0..1, count : 0..limit] : t.signed + t.count <= limit}
\* The places k, k + 1, ... at which input i has a digit.
DigitsAt(s, i, k) == {n \in Nat : At(s, i, s.position + (k + n)) \in Digits}
IsDecimal(s, i, limit, t) ==
    /\ (t.signed = 1) = (At(s, i, s.position) \in Signs)
    /\ RunOf(DigitsAt(s, i, t.signed), limit - t.signed, t.count)
DecimalOptions(s, limit) == [t \in DecimalTags(limit) |-> {i \in s.cond : IsDecimal(s, i, limit, t)}]

LEMMA DecimalSplit ==
    ASSUME NEW s, NEW directive, Longest(s, directive) \in Nat, s.position \in Nat
    PROVE  Decimal(s, directive) =
              {DecimalOn(option.path, directive, option.tag) :
                  option \in Split(s, DecimalOptions(s, Longest(s, directive)))}
<1>1. PICK limit : limit = Longest(s, directive)
  OBVIOUS
<1> DEFINE Is(i, t) ==
              /\ (t.signed = 1) = (At(s, i, s.position) \in Signs)
              /\ \A n \in t.signed..(t.signed + t.count - 1) : At(s, i, s.position + n) \in Digits
              /\ t.signed + t.count < limit => ~(At(s, i, s.position + (t.signed + t.count)) \in Digits)
<1>2. ASSUME NEW i, NEW t \in DecimalTags(limit)
      PROVE  Is(i, t) <=> IsDecimal(s, i, limit, t)
  <2>1. PICK k : k = t.signed
    OBVIOUS
  <2>2. PICK m : m = t.count
    OBVIOUS
  <2>3. k \in 0..1 /\ m \in 0..(limit - k) /\ limit \in Nat
    BY <1>1, <2>1, <2>2 DEF DecimalTags
  <2>4. (\A n \in k..(k + m - 1) : At(s, i, s.position + n) \in Digits)
        <=> \A n \in 0..(m - 1) : n \in DigitsAt(s, i, k)
    <3>1. 0..(m - 1) \subseteq Nat
      BY <2>3
    <3>2. \A n \in Nat : n \in DigitsAt(s, i, k) <=> At(s, i, s.position + (k + n)) \in Digits
      BY DEF DigitsAt
    <3>3. \A n \in k..(k + m - 1) : n - k \in 0..(m - 1) /\ k + (n - k) = n
      BY <2>3
    <3>4. \A n \in 0..(m - 1) : k + n \in k..(k + m - 1)
      BY <2>3
    <3>5. ASSUME \A n \in k..(k + m - 1) : At(s, i, s.position + n) \in Digits, NEW n \in 0..(m - 1)
          PROVE  n \in DigitsAt(s, i, k)
      BY <3>1, <3>2, <3>4, <3>5
    <3>6. ASSUME \A n \in 0..(m - 1) : n \in DigitsAt(s, i, k), NEW n \in k..(k + m - 1)
          PROVE  At(s, i, s.position + n) \in Digits
      <4>1. n - k \in 0..(m - 1) /\ k + (n - k) = n
        BY <3>3
      <4>2. n - k \in DigitsAt(s, i, k) /\ n - k \in Nat
        BY <3>1, <3>6, <4>1
      <4>3. At(s, i, s.position + (k + (n - k))) \in Digits
        BY <3>2, <4>2
      <4> QED BY <4>1, <4>3
    <3> QED BY <3>5, <3>6
  <2>5. (k + m < limit => ~(At(s, i, s.position + (k + m)) \in Digits))
        <=> (m < limit - k => m \notin DigitsAt(s, i, k))
    <3>1. k + m < limit <=> m < limit - k
      BY <2>3
    <3>2. m \in Nat
      BY <2>3
    <3> QED BY <3>1, <3>2 DEF DigitsAt
  <2> QED BY <2>1, <2>2, <2>3, <2>4, <2>5 DEF IsDecimal, RunOf
<1> DEFINE G(t) == {i \in s.cond : Is(i, t)}
<1>3. \A t \in DecimalTags(limit) : G(t) = {i \in s.cond : IsDecimal(s, i, limit, t)}
  <2> HIDE DEF Is
  <2> QED BY <1>2
<1>4. PICK options : options = [t \in DecimalTags(limit) |-> G(t)]
  OBVIOUS
<1>5. options = DecimalOptions(s, limit)
  <2> HIDE DEF G
  <2> QED BY <1>3, <1>4 DEF DecimalOptions
<1>6. Decimal(s, directive) = {DecimalOn(option.path, directive, option.tag) : option \in Split(s, options)}
  BY <1>1, <1>4 DEF Decimal, DecimalTags
<1> QED BY <1>1, <1>5, <1>6

LEMMA DecimalExclusive ==
    ASSUME NEW s, NEW limit \in Nat \ {0}
    PROVE  Options(s, DecimalOptions(s, limit))
<1>1. ASSUME NEW t \in DecimalTags(limit), NEW u \in DecimalTags(limit), NEW i,
             IsDecimal(s, i, limit, t), IsDecimal(s, i, limit, u)
      PROVE  t = u
  <2>1. /\ t = [signed |-> t.signed, count |-> t.count] /\ t.signed \in 0..1
        /\ u = [signed |-> u.signed, count |-> u.count] /\ u.signed \in 0..1
    BY DEF DecimalTags
  <2>2. (t.signed = 1) = (u.signed = 1)
    BY <1>1 DEF IsDecimal
  <2>3. t.signed = u.signed
    BY <2>1, <2>2
  <2>4. PICK k : k = t.signed
    OBVIOUS
  <2>5. PICK F : F = DigitsAt(s, i, k)
    OBVIOUS
  <2>6. RunOf(F, limit - k, t.count) /\ RunOf(F, limit - k, u.count) /\ limit - k \in Nat
    BY <1>1, <2>1, <2>3, <2>4, <2>5 DEF IsDecimal
  <2>7. t.count = u.count
    BY <2>6, RunUnique
  <2> QED BY <2>1, <2>3, <2>7
<1> QED BY <1>1 DEF Options, DecimalOptions

LEMMA DecimalParts ==
    ASSUME NEW s, IsPath(s), ~Drained(s), NEW directive, DirectiveOK(directive)
    PROVE  Parts(s, Decimal(s, directive))
<1>1. PICK limit : limit = Longest(s, directive)
  OBVIOUS
<1>2. limit \in 1..(Held(s) - s.position) /\ limit \in Nat /\ s.position \in Nat /\ Held(s) \in Nat
  BY <1>1, LongestIs, HeldIs
<1>3. PICK options : options = DecimalOptions(s, limit)
  OBVIOUS
<1> DEFINE S == Split(s, options)
           f == [o \in S |-> DecimalOn(o.path, directive, o.tag)]
<1>4. Decimal(s, directive) = {f[o] : o \in S}
  BY <1>1, <1>2, <1>3, DecimalSplit
<1>5. Options(s, options)
  BY <1>2, <1>3, DecimalExclusive
<1>6. ASSUME NEW o \in S PROVE Goes(o.path, f[o]) /\ f[o].cond = o.path.cond
  <2>1. /\ IsPath(o.path) /\ o.path.position = s.position /\ Held(o.path) = Held(s)
        /\ o.tag \in DOMAIN options
    BY <1>5, SplitIs
  <2>2. o.tag \in DecimalTags(limit)
    BY <1>3, <2>1 DEF DecimalOptions
  <2>3. o.tag.signed + o.tag.count \in 0..(Held(o.path) - o.path.position)
    BY <1>2, <2>1, <2>2 DEF DecimalTags
  <2>4. PICK q : q = o.path
    OBVIOUS
  <2>5. PICK t : t = o.tag
    OBVIOUS
  <2>6. PICK c : c = [i \in q.cond |-> <<Signed(At(q, i, q.position), UpTo(From(Rest(q, i), t.signed), t.count))>>]
    OBVIOUS
  <2>7. PICK read : read = IF t.count = 0 THEN Failed(q) ELSE Store(q, directive, c)
    OBVIOUS
  <2>8. Stays(q, read)
    BY <2>1, <2>4, <2>7, EndedStays, StoreStays
  <2>9. DecimalOn(q, directive, t) = Advance(read, t.signed + t.count)
    BY <2>6, <2>7 DEF DecimalOn
  <2>10. /\ Goes(q, Advance(read, t.signed + t.count))
         /\ Advance(read, t.signed + t.count).cond = q.cond
    BY <2>1, <2>3, <2>4, <2>5, <2>8, StaysAdvance
  <2> QED BY <2>4, <2>5, <2>9, <2>10
<1>7. ASSUME NEW i \in s.cond PROVE \E t \in DOMAIN options : i \in options[t]
  <2>1. PICK k : k = IF At(s, i, s.position) \in Signs THEN 1 ELSE 0
    OBVIOUS
  <2>2. k \in 0..1 /\ limit - k \in Nat /\ (k = 1) = (At(s, i, s.position) \in Signs)
    BY <1>2, <2>1
  <2>3. PICK m : RunOf(DigitsAt(s, i, k), limit - k, m)
    BY <2>2, RunExists
  <2>4. m \in 0..(limit - k)
    BY <2>3 DEF RunOf
  <2>5. PICK t : t = [signed |-> k, count |-> m]
    OBVIOUS
  <2>6. t \in DecimalTags(limit) /\ t.signed = k /\ t.count = m
    BY <1>2, <2>2, <2>4, <2>5 DEF DecimalTags
  <2>7. IsDecimal(s, i, limit, t)
    BY <2>2, <2>3, <2>6 DEF IsDecimal
  <2> QED BY <1>3, <2>6, <2>7 DEF DecimalOptions
<1> HIDE DEF f
<1>8. Parts(s, {f[o] : o \in S})
  BY <1>5, <1>6, <1>7, SplitParts
<1> QED BY <1>4, <1>8

LEMMA ConvertParts ==
    ASSUME NEW s, IsPath(s), NEW directive, DirectiveOK(directive), directive.kind # "space"
    PROVE  Parts(s, Convert(s, directive))
<1>1. CASE Drained(s)
  <2>1. PICK r : r = IF s.scan.assigned = 0 THEN Eof ELSE s.scan.assigned
    OBVIOUS
  <2>2. Convert(s, directive) = {Ended(s, r)}
    BY <1>1, <2>1 DEF Convert
  <2>3. Goes(s, Ended(s, r)) /\ Ended(s, r).cond = s.cond
    BY EndedStays, StaysGoes
  <2> QED BY <2>2, <2>3, OnePart
<1>2. CASE ~Drained(s) /\ directive.kind = "literal"
  <2>1. Convert(s, directive) = Literal(s, directive)
    BY <1>2 DEF Convert
  <2> QED BY <1>2, <2>1, LiteralParts
<1>3. CASE ~Drained(s) /\ directive.kind \in {"string", "set"}
  <2>1. Convert(s, directive) = Run(s, directive)
    BY <1>3 DEF Convert
  <2> QED BY <1>3, <2>1, RunParts
<1>4. CASE ~Drained(s) /\ directive.kind = "chars"
  <2>1. Convert(s, directive) = Characters(s, directive)
    BY <1>4 DEF Convert
  <2> QED BY <1>4, <2>1, CharactersParts
<1>5. CASE ~Drained(s) /\ directive.kind = "decimal"
  <2>1. Convert(s, directive) = Decimal(s, directive)
    BY <1>5 DEF Convert
  <2> QED BY <1>5, <2>1, DecimalParts
<1> QED BY <1>1, <1>2, <1>3, <1>4, <1>5 DEF DirectiveOK

LEMMA StepParts ==
    ASSUME NEW s, IsPath(s), NEW directive, DirectiveOK(directive)
    PROVE  Parts(s, Step(s, directive))
<1>1. Goes(s, s)
  BY LikeSelf, LikeGoes
<1>2. PICK branches : branches = IF Skips(directive) THEN SkipSpace(s) ELSE {s}
  OBVIOUS
<1>3. Parts(s, branches)
  BY <1>1, <1>2, OnePart, SkipSpaceParts
<1>4. CASE s.scan.result # None
  BY <1>1, <1>4, OnePart DEF Step
<1>5. CASE s.scan.result = None /\ directive.kind = "space"
  <2>1. Step(s, directive) = branches
    BY <1>2, <1>5 DEF Step
  <2> QED BY <1>3, <2>1
<1>6. CASE s.scan.result = None /\ directive.kind # "space"
  <2> DEFINE C == [branch \in branches |-> Convert(branch, directive)]
  <2>1. Step(s, directive) = UNION {C[branch] : branch \in branches}
    BY <1>2, <1>6 DEF Step
  <2>2. \A branch \in branches : IsPath(branch)
    BY <1>3 DEF Parts, Goes
  <2>3. \A branch \in branches : Parts(branch, C[branch])
    BY <1>6, <2>2, ConvertParts
  <2> HIDE DEF C
  <2>4. Parts(s, UNION {C[b] : b \in branches})
    BY <1>3, <2>3, PartsThen
  <2> QED BY <2>1, <2>4
<1> QED BY <1>4, <1>5, <1>6

-----------------------------------------------------------------------------
(* A whole scan.                                                            *)

AreDirectives(directives) ==
    Len(directives) \in Nat /\ \A n \in 1..Len(directives) : DirectiveOK(directives[n])

\* f[m]: the scans after m directives.
Scanning(p, directives, n, f) ==
    f = [m \in 0..n |-> IF m = 0 THEN {Opened(p)} ELSE UNION {Step(s, directives[m]) : s \in f[m - 1]}]

LEMMA ScanningExists ==
    ASSUME NEW p, NEW directives, NEW n \in Nat
    PROVE  \E f : Scanning(p, directives, n, f)
<1> DEFINE Bad == {m \in Nat : ~ \E f : Scanning(p, directives, m, f)}
<1>1. SUFFICES ASSUME Bad # {} PROVE FALSE
  OBVIOUS
<1>2. PICK m \in Bad : \A k \in Bad : m <= k
  <2> HIDE DEF Bad
  <2>1. Bad \subseteq Nat
    BY DEF Bad
  <2> QED BY <1>1, <2>1, LeastNumber
<1>3. m \in Nat
  OBVIOUS
<1>4. CASE m = 0
  <2> DEFINE f == [k \in 0..0 |-> {Opened(p)}]
  <2>1. Scanning(p, directives, 0, f)
    BY DEF Scanning
  <2> QED BY <1>4, <2>1
<1>5. CASE m # 0
  <2>1. m - 1 \in Nat /\ m - 1 \notin Bad
    BY <1>2, <1>3, <1>5
  <2>2. PICK f : Scanning(p, directives, m - 1, f)
    BY <2>1
  <2> DEFINE g == [k \in 0..m |-> IF k < m THEN f[k] ELSE UNION {Step(s, directives[k]) : s \in f[k - 1]}]
  <2>3. \A k \in 0..m : g[k] = IF k = 0 THEN {Opened(p)} ELSE UNION {Step(s, directives[k]) : s \in g[k - 1]}
    <3>1. \A k \in 0..(m - 1) : f[k] = IF k = 0 THEN {Opened(p)}
                                       ELSE UNION {Step(s, directives[k]) : s \in f[k - 1]}
      BY <2>2 DEF Scanning
    <3>2. \A k \in 0..(m - 1) : g[k] = f[k]
      BY <1>3
    <3>3. g[m] = UNION {Step(s, directives[m]) : s \in f[m - 1]}
      BY <1>3
    <3>4. m - 1 \in 0..(m - 1) /\ g[m - 1] = f[m - 1]
      BY <1>3, <1>5, <3>2
    <3>5. g[m] = UNION {Step(s, directives[m]) : s \in g[m - 1]}
      BY <3>3, <3>4
    <3>6. ASSUME NEW k \in 0..(m - 1)
          PROVE  g[k] = IF k = 0 THEN {Opened(p)} ELSE UNION {Step(s, directives[k]) : s \in g[k - 1]}
      <4>1. CASE k = 0
        BY <3>1, <3>2, <4>1
      <4>2. CASE k # 0
        <5>1. k - 1 \in 0..(m - 1)
          BY <1>3, <4>2
        <5>2. g[k] = f[k] /\ g[k - 1] = f[k - 1]
          BY <3>2, <5>1
        <5> HIDE DEF g
        <5> QED BY <3>1, <4>2, <5>2
      <4> QED BY <4>1, <4>2
    <3> HIDE DEF g
    <3> SUFFICES ASSUME NEW k \in 0..m
                 PROVE  g[k] = IF k = 0 THEN {Opened(p)} ELSE UNION {Step(s, directives[k]) : s \in g[k - 1]}
      OBVIOUS
    <3>7. CASE k = m
      BY <1>5, <3>5, <3>7
    <3>8. CASE k # m
      <4>1. k \in 0..(m - 1)
        BY <1>3, <3>8
      <4> QED BY <3>6, <4>1
    <3> QED BY <3>7, <3>8
  <2>4. g = [k \in 0..m |-> g[k]]
    OBVIOUS
  <2> HIDE DEF g
  <2>5. Scanning(p, directives, m, g)
    BY <2>3, <2>4 DEF Scanning
  <2> QED BY <2>5
<1> QED BY <1>4, <1>5

LEMMA ScanningParts ==
    ASSUME NEW p, IsPath(p), NEW directives, AreDirectives(directives),
           NEW f, Scanning(p, directives, Len(directives), f)
    PROVE  Parts(p, f[Len(directives)])
<1>1. PICK n : n = Len(directives)
  OBVIOUS
<1> DEFINE Bad == {m \in 0..n : ~Parts(p, f[m])}
<1>2. SUFFICES ASSUME Bad # {} PROVE FALSE
  BY <1>1 DEF AreDirectives
<1>3. PICK m \in Bad : \A k \in Bad : m <= k
  <2>1. Bad \subseteq Nat
    BY <1>1 DEF AreDirectives
  <2> HIDE DEF Bad
  <2> QED BY <1>2, <2>1, LeastNumber
<1>4. m \in 0..n /\ n \in Nat
  BY <1>1 DEF AreDirectives
<1>5. \A k \in 0..n : f[k] = IF k = 0 THEN {Opened(p)} ELSE UNION {Step(s, directives[k]) : s \in f[k - 1]}
  BY <1>1 DEF Scanning
<1>6. CASE m = 0
  <2>1. PICK v : v = [assigned |-> 0, result |-> None]
    OBVIOUS
  <2>2. Opened(p) = [p EXCEPT !.scan = v]
    BY <2>1 DEF Opened
  <2>3. Goes(p, Opened(p)) /\ Opened(p).cond = p.cond
    BY <2>2, ScanStays, StaysGoes
  <2>4. f[m] = {Opened(p)}
    BY <1>4, <1>5, <1>6
  <2> QED BY <2>3, <2>4, OnePart
<1>7. CASE m # 0
  <2>1. m - 1 \in 0..n /\ m - 1 \notin Bad
    BY <1>3, <1>4, <1>7
  <2>2. Parts(p, f[m - 1])
    BY <2>1
  <2>3. DirectiveOK(directives[m])
    BY <1>1, <1>4, <1>7 DEF AreDirectives
  <2> DEFINE C == [s \in f[m - 1] |-> Step(s, directives[m])]
  <2>4. \A s \in f[m - 1] : Parts(s, C[s])
    BY <2>2, <2>3, StepParts DEF Parts, Goes
  <2>5. f[m] = UNION {C[s] : s \in f[m - 1]}
    <3>1. f[m] = UNION {Step(s, directives[m]) : s \in f[m - 1]}
      BY <1>4, <1>5, <1>7
    <3>2. PICK S : S = f[m - 1]
      OBVIOUS
    <3>3. \A s \in S : C[s] = Step(s, directives[m])
      BY <3>2
    <3>4. {C[s] : s \in S} = {Step(s, directives[m]) : s \in S}
      <4> HIDE DEF C
      <4> QED BY <3>3
    <3> QED BY <3>1, <3>2, <3>4
  <2> HIDE DEF C
  <2>6. Parts(p, UNION {C[b] : b \in f[m - 1]})
    BY <2>2, <2>4, PartsThen
  <2> QED BY <2>5, <2>6
<1> QED BY <1>6, <1>7

\* What a finished scan returns, and what finishes it: the count or stream is returned, and what was
\* read is handed on.
Said(s, returned) ==
    IF returned = "count" THEN (IF s.scan.result = None THEN s.scan.assigned ELSE s.scan.result) ELSE returned

LEMMA FinishParts ==
    ASSUME NEW s, NEW from, NEW returned, NEW c, NEW v, NEW r, NEW h,
           c = [s EXCEPT !.scan = None], v = Said(s, returned), r = ReturnsAll(c, v),
           h = Handed(r, from, s.position, FALSE)
    PROVE  /\ s.position > from => Finish(from, s, returned) = h
           /\ ~(s.position > from) => Finish(from, s, returned) = r
BY DEF Finish, Said

LEMMA FinishIs ==
    ASSUME NEW s, IsPath(s), NEW from, NEW returned
    PROVE  LET q == Finish(from, s, returned) IN IsPath(q) /\ q.cond = s.cond /\ Minds(s, q)
<1>1. PICK c : c = [s EXCEPT !.scan = None]
  OBVIOUS
<1>2. IsPath(c) /\ c.cond = s.cond /\ Minds(s, c)
  BY <1>1, ScanStays DEF Stays
<1>3. PICK v : v = Said(s, returned)
  OBVIOUS
<1>4. PICK r : r = ReturnsAll(c, v)
  OBVIOUS
<1>5. Like(c, r)
  BY <1>2, <1>4, ReturnsAllLike
<1>6. IsPath(r) /\ r.cond = s.cond /\ Minds(s, r)
  BY <1>2, <1>5 DEF Like, Minds
<1>7. PICK h : h = Handed(r, from, s.position, FALSE)
  OBVIOUS
<1>8. Like(r, h)
  BY <1>6, <1>7, HandedLike
<1>9. IsPath(h) /\ h.cond = s.cond /\ Minds(s, h)
  BY <1>6, <1>8 DEF Like, Minds
<1>10. Finish(from, s, returned) = h \/ Finish(from, s, returned) = r
  BY <1>1, <1>3, <1>4, <1>7, FinishParts, Zenon
<1> QED BY <1>6, <1>9, <1>10

\* Paths that share the inputs of p, but for those with two blanks in a row to come.
Scans(p, Q) ==
    Divides(p, Q) /\ \A i \in p.cond : (\E q \in Q : i \in q.cond) \/ ManyBlanks(Rest(p, i))

LEMMA ScanScans ==
    ASSUME NEW p, IsPath(p), NEW directives, AreDirectives(directives), NEW returned
    PROVE  Scans(p, Scan(p, directives, returned))
<1>1. PICK n : n = Len(directives)
  OBVIOUS
<1> DEFINE Rec(f) == f = [m \in 0..n |-> IF m = 0 THEN {Opened(p)}
                                         ELSE UNION {Step(s, directives[m]) : s \in f[m - 1]}]
<1>2. \A f : Scanning(p, directives, n, f) <=> Rec(f)
  BY DEF Scanning
<1>3. \E f : Rec(f)
  <2>1. \E f : Scanning(p, directives, n, f)
    BY <1>1, ScanningExists DEF AreDirectives
  <2> HIDE DEF Rec
  <2> QED BY <1>2, <2>1
<1>4. PICK after : after = CHOOSE f : Rec(f)
  OBVIOUS
<1>5. Scan(p, directives, returned) = {Finish(p.position, s, returned) : s \in after[n]}
  BY <1>1, <1>4 DEF Scan
<1>6. Rec(after)
  <2> HIDE DEF Rec
  <2> QED BY <1>3, <1>4
<1>7. Scanning(p, directives, n, after)
  BY <1>2, <1>6
<1>8. Parts(p, after[n])
  <2> HIDE DEF Rec
  <2> QED BY <1>1, <1>7, ScanningParts
<1> HIDE DEF Rec
<1>9. PICK S : S = after[n]
  OBVIOUS
<1> DEFINE Q == {Finish(p.position, s, returned) : s \in S}
<1>10. \A s \in S : IsPath(s) /\ s.cond \subseteq p.cond /\ Minds(p, s)
  BY <1>8, <1>9 DEF Parts, Goes
<1>11. \A s \in S : /\ IsPath(Finish(p.position, s, returned))
                    /\ Finish(p.position, s, returned).cond = s.cond
                    /\ Minds(s, Finish(p.position, s, returned))
  BY <1>10, FinishIs
<1>12. \A q \in Q : IsPath(q) /\ q.cond \subseteq p.cond /\ Minds(p, q)
  BY <1>10, <1>11 DEF Minds
<1>13. ASSUME NEW q \in Q, NEW r \in Q, q # r PROVE q.cond \cap r.cond = {}
  <2>1. PICK s \in S : q = Finish(p.position, s, returned)
    OBVIOUS
  <2>2. PICK t \in S : r = Finish(p.position, t, returned)
    OBVIOUS
  <2>3. s # t
    BY <1>13, <2>1, <2>2
  <2>4. s.cond \cap t.cond = {}
    BY <1>8, <1>9, <2>3 DEF Parts
  <2> QED BY <1>11, <2>1, <2>2, <2>4
<1>14. ASSUME NEW i \in p.cond PROVE (\E q \in Q : i \in q.cond) \/ ManyBlanks(Rest(p, i))
  <2>1. (\E s \in S : i \in s.cond) \/ ManyBlanks(Rest(p, i))
    BY <1>8, <1>9 DEF Parts
  <2>2. ASSUME NEW s \in S, i \in s.cond PROVE \E q \in Q : i \in q.cond
    <3>1. Finish(p.position, s, returned) \in Q /\ i \in Finish(p.position, s, returned).cond
      BY <1>11, <2>2
    <3> QED BY <3>1
  <2> QED BY <2>1, <2>2
<1> HIDE DEF Q
<1>15. Scans(p, Q)
  BY <1>12, <1>13, <1>14 DEF Scans, Divides
<1> QED BY <1>5, <1>9, <1>15 DEF Q

LEMMA ScanfScans ==
    ASSUME NEW p, IsPath(p), NEW call, AreDirectives(call.directives)
    PROVE  Scans(p, Scanf(p, call)) /\ Scans(p, Fscanf(p, call))
<1>1. Scans(p, Scanf(p, call))
  BY ScanScans DEF Scanf
<1>2. Like(p, Looked(p)) /\ IsPath(Looked(p))
  BY LookedLike DEF Like
<1>3. Scans(Looked(p), Fscanf(p, call))
  BY <1>2, ScanScans DEF Fscanf
<1>4. Looked(p).cond = p.cond /\ Minds(p, Looked(p)) /\ \A i \in p.cond : Rest(Looked(p), i) = Rest(p, i)
  BY <1>2, LikeHeld DEF Like
<1>5. Scans(p, Fscanf(p, call))
  BY <1>3, <1>4 DEF Scans, Divides, Minds
<1> QED BY <1>1, <1>5

LEMMA NumberOK == AreDirectives(NumberDirectives)
<1>1. PICK a, b : /\ a = [kind |-> "space", set |-> {}, width |-> None, assigns |-> FALSE]
                  /\ b = [kind |-> "decimal", set |-> {}, width |-> None, assigns |-> TRUE]
  OBVIOUS
<1>2. NumberDirectives = <<a, b>>
  BY <1>1 DEF NumberDirectives
<1>3. DirectiveOK(a) /\ DirectiveOK(b)
  BY <1>1 DEF DirectiveOK
<1>4. Len(<<a, b>>) = 2 /\ <<a, b>>[1] = a /\ <<a, b>>[2] = b
  OBVIOUS
<1>5. ASSUME NEW n \in 1..2 PROVE DirectiveOK(<<a, b>>[n])
  <2>1. n = 1 \/ n = 2
    OBVIOUS
  <2> QED BY <1>3, <2>1
<1> QED BY <1>2, <1>4, <1>5 DEF AreDirectives

LEMMA NumberScans ==
    ASSUME NEW p, IsPath(p), NEW call
    PROVE  Scans(p, Number(p, call))
BY NumberOK, ScanScans DEF Number

-----------------------------------------------------------------------------
(* The program.                                                             *)

StreamsInv ==
    /\ program \in Seq(Calls)
    /\ \A p \in paths : IsPath(p)
    /\ Exclusive

\* What a call may make of a path: no input on two paths, and an input lost only to blanks.
Fair(p, Q, call) ==
    /\ Divides(p, Q)
    /\ \A i \in p.cond : \/ \E q \in Q : i \in q.cond
                         \/ ManyBlanks(Rest(p, i))
                         \/ call.op = "token" /\ Last(Rest(p, i)) \in Whitespace

LEMMA CompleteFair ==
    ASSUME NEW p, NEW Q, Divides(p, Q), Complete(p, Q), NEW call
    PROVE  Fair(p, Q, call)
BY DEF Complete, Fair

LEMMA ScansFair ==
    ASSUME NEW p, NEW Q, Scans(p, Q), NEW call
    PROVE  Fair(p, Q, call)
BY DEF Scans, Fair

LEMMA LastAppended ==
    ASSUME NEW T, NEW s \in Seq(T), NEW e \in T
    PROVE  Append(s, e) \in Seq(T) /\ Last(Append(s, e)) = e
<1>1. Append(s, e) \in Seq(T) /\ Len(Append(s, e)) = Len(s) + 1 /\ Append(s, e)[Len(s) + 1] = e
  BY AppendProperties
<1> QED BY <1>1 DEF Last

LEMMA CallHolds ==
    ASSUME StreamsInv, NEW call \in Calls, program' = Append(program, call),
           NEW M, paths' = UNION {M[p] : p \in paths}, \A p \in paths : Fair(p, M[p], call)
    PROVE  StreamsInv' /\ LosesOnlyBlanks
<1>1. program' \in Seq(Calls) /\ Last(program') = call
  BY LastAppended DEF StreamsInv
<1>2. \A q \in paths' : \E p \in paths : q \in M[p] /\ IsPath(q) /\ q.cond \subseteq p.cond
  BY DEF Fair, Divides
<1>3. ASSUME NEW q \in paths', NEW r \in paths', q # r PROVE q.cond \cap r.cond = {}
  <2>1. PICK p \in paths : q \in M[p] /\ q.cond \subseteq p.cond
    BY <1>2
  <2>2. PICK o \in paths : r \in M[o] /\ r.cond \subseteq o.cond
    BY <1>2
  <2>3. CASE p = o
    BY <1>3, <2>1, <2>2, <2>3 DEF Fair, Divides
  <2>4. CASE p # o
    BY <2>1, <2>2, <2>4 DEF StreamsInv, Exclusive
  <2> QED BY <2>3, <2>4
<1>4. Exclusive'
  BY <1>3 DEF Exclusive
<1>5. StreamsInv'
  BY <1>1, <1>2, <1>4 DEF StreamsInv
<1>6. ASSUME NEW p \in paths, NEW i \in p.cond, i \notin OnPaths'
      PROVE  \/ ManyBlanks(Rest(p, i))
             \/ Last(program') = call /\ call.op = "token" /\ Last(Rest(p, i)) \in Whitespace
  <2>1. ~ \E q \in M[p] : i \in q.cond
    BY <1>6 DEF OnPaths
  <2> QED BY <1>1, <2>1 DEF Fair
<1>7. LosesOnlyBlanks
  BY <1>6 DEF LosesOnlyBlanks
<1> QED BY <1>5, <1>7

Kinds == {"getchar", "fgetc", "gets", "fgets", "getline", "read", "fread", "token", "number",
         "scanf", "fscanf", "feof", "ftell", "fseek", "fwrite", "fopen"}

\* What the model of a call makes of a path.
Models(p, call, undecided) ==
    CASE call.op = "getchar" -> Getchar(p, call)
      [] call.op = "fgetc" -> Fgetc(p, call)
      [] call.op = "gets" -> Gets(p, undecided)
      [] call.op = "fgets" -> Fgets(p, call.size, undecided)
      [] call.op = "getline" -> Getline(p, undecided)
      [] call.op = "read" -> Read(p, call)
      [] call.op = "fread" -> Fread(p, call)
      [] call.op = "token" -> Token(p, call)
      [] call.op = "number" -> Number(p, call)
      [] call.op = "scanf" -> Scanf(p, call)
      [] call.op = "fscanf" -> Fscanf(p, call)
      [] call.op = "feof" -> Feof(p, call)
      [] call.op = "ftell" -> Ftell(p, call)
      [] call.op = "fseek" -> Fseek(p, call)
      [] call.op = "fwrite" -> Fwrite(p, call)
      [] call.op = "fopen" -> Fopen(p, call)

\* A step of the program: one call, made on every path and by every input's own run.
Calling(call, undecided) ==
    /\ call \in Calls /\ program' = Append(program, call) /\ stream' = stream
    /\ call.op \in Kinds
    /\ paths' = UNION {Models(p, call, undecided) : p \in paths}
    /\ own' = [i \in Inputs |-> Alone(own[i], call)]
    /\ strayed' = strayed \cup UNION {p.cond : p \in {q \in paths : Strays(q, call)}}

LEMMA ModelsAre ==
    ASSUME NEW p, NEW call, NEW undecided
    PROVE  /\ call.op = "getchar" => Models(p, call, undecided) = Getchar(p, call)
           /\ call.op = "fgetc" => Models(p, call, undecided) = Fgetc(p, call)
           /\ call.op = "gets" => Models(p, call, undecided) = Gets(p, undecided)
           /\ call.op = "fgets" => Models(p, call, undecided) = Fgets(p, call.size, undecided)
           /\ call.op = "getline" => Models(p, call, undecided) = Getline(p, undecided)
           /\ call.op = "read" => Models(p, call, undecided) = Read(p, call)
           /\ call.op = "fread" => Models(p, call, undecided) = Fread(p, call)
           /\ call.op = "token" => Models(p, call, undecided) = Token(p, call)
           /\ call.op = "number" => Models(p, call, undecided) = Number(p, call)
           /\ call.op = "scanf" => Models(p, call, undecided) = Scanf(p, call)
           /\ call.op = "fscanf" => Models(p, call, undecided) = Fscanf(p, call)
           /\ call.op = "feof" => Models(p, call, undecided) = Feof(p, call)
           /\ call.op = "ftell" => Models(p, call, undecided) = Ftell(p, call)
           /\ call.op = "fseek" => Models(p, call, undecided) = Fseek(p, call)
           /\ call.op = "fwrite" => Models(p, call, undecided) = Fwrite(p, call)
           /\ call.op = "fopen" => Models(p, call, undecided) = Fopen(p, call)
BY DEF Models

\* Whatever the program does is such a call.
LEMMA NextCalls ==
    ASSUME Next
    PROVE  \E call \in Calls : \E undecided \in BOOLEAN : Calling(call, undecided)
<1> PICK any \in BOOLEAN : TRUE
  OBVIOUS
<1>1. ASSUME CallsGetchar PROVE \E call \in Calls : Calling(call, any)
  BY <1>1, ModelsAre DEF CallsGetchar, Does, Calling, Kinds
<1>2. ASSUME CallsFgetc PROVE \E call \in Calls : Calling(call, any)
  BY <1>2, ModelsAre DEF CallsFgetc, Does, Calling, Kinds
<1>3. CASE CallsGets
  <2>1. PICK undecided \in BOOLEAN : Does("gets", LAMBDA p, call : Gets(p, undecided))
    BY <1>3 DEF CallsGets
  <2> QED BY <2>1, ModelsAre DEF Does, Calling, Kinds
<1>4. CASE CallsFgets
  <2>1. PICK undecided \in BOOLEAN : Does("fgets", LAMBDA p, call : Fgets(p, call.size, undecided))
    BY <1>4 DEF CallsFgets
  <2> QED BY <2>1, ModelsAre DEF Does, Calling, Kinds
<1>5. CASE CallsGetline
  <2>1. PICK undecided \in BOOLEAN : Does("getline", LAMBDA p, call : Getline(p, undecided))
    BY <1>5 DEF CallsGetline
  <2> QED BY <2>1, ModelsAre DEF Does, Calling, Kinds
<1>6. ASSUME CallsRead PROVE \E call \in Calls : Calling(call, any)
  BY <1>6, ModelsAre DEF CallsRead, Does, Calling, Kinds
<1>7. ASSUME CallsFread PROVE \E call \in Calls : Calling(call, any)
  BY <1>7, ModelsAre DEF CallsFread, Does, Calling, Kinds
<1>8. ASSUME CallsToken PROVE \E call \in Calls : Calling(call, any)
  BY <1>8, ModelsAre DEF CallsToken, Does, Calling, Kinds
<1>9. ASSUME CallsNumber PROVE \E call \in Calls : Calling(call, any)
  BY <1>9, ModelsAre DEF CallsNumber, Does, Calling, Kinds
<1>10. ASSUME CallsScanf PROVE \E call \in Calls : Calling(call, any)
  BY <1>10, ModelsAre DEF CallsScanf, Does, Calling, Kinds
<1>11. ASSUME CallsFscanf PROVE \E call \in Calls : Calling(call, any)
  BY <1>11, ModelsAre DEF CallsFscanf, Does, Calling, Kinds
<1>12. ASSUME CallsFeof PROVE \E call \in Calls : Calling(call, any)
  BY <1>12, ModelsAre DEF CallsFeof, Does, Calling, Kinds
<1>13. ASSUME CallsFtell PROVE \E call \in Calls : Calling(call, any)
  BY <1>13, ModelsAre DEF CallsFtell, Does, Calling, Kinds
<1>14. ASSUME CallsFseek PROVE \E call \in Calls : Calling(call, any)
  BY <1>14, ModelsAre DEF CallsFseek, Does, Calling, Kinds
<1>15. ASSUME CallsFwrite PROVE \E call \in Calls : Calling(call, any)
  BY <1>15, ModelsAre DEF CallsFwrite, Does, Calling, Kinds
<1>16. ASSUME CallsFopen PROVE \E call \in Calls : Calling(call, any)
  BY <1>16, ModelsAre DEF CallsFopen, Does, Calling, Kinds
<1> QED BY <1>1, <1>2, <1>3, <1>4, <1>5, <1>6, <1>7, <1>8, <1>9, <1>10, <1>11, <1>12, <1>13, <1>14, <1>15, <1>16 DEF Next

LEMMA ModelsFair ==
    ASSUME NEW p, IsPath(p), NEW call, CallOK(call), NEW undecided, call.op \in Kinds
    PROVE  Fair(p, Models(p, call, undecided), call)
<1>1. CASE call.op = "getchar"
  BY <1>1, ModelsAre, GetcharDivides, CompleteFair
<1>2. CASE call.op = "fgetc"
  BY <1>2, ModelsAre, FgetcDivides, CompleteFair
<1>3. CASE call.op = "gets"
  BY <1>3, ModelsAre, GetsDivides, CompleteFair
<1>4. CASE call.op = "fgets"
  <2>1. call.size \in Int
    BY <1>4 DEF CallOK
  <2> QED BY <1>4, <2>1, ModelsAre, FgetsDivides, CompleteFair
<1>5. CASE call.op = "getline"
  BY <1>5, ModelsAre, GetlineDivides, CompleteFair
<1>6. CASE call.op = "read"
  <2>1. call.size \in Int
    BY <1>6 DEF CallOK
  <2> QED BY <1>6, <2>1, ModelsAre, ReadDivides, CompleteFair
<1>7. CASE call.op = "fread"
  <2>1. call.size \in Int
    BY <1>7 DEF CallOK
  <2> QED BY <1>7, <2>1, ModelsAre, FreadDivides, CompleteFair
<1>8. CASE call.op = "token"
  BY <1>8, ModelsAre, TokenDivides DEF Fair
<1>9. CASE call.op = "number"
  BY <1>9, ModelsAre, NumberScans, ScansFair
<1>10. CASE call.op = "scanf"
  <2>1. AreDirectives(call.directives)
    BY <1>10 DEF CallOK, AreDirectives
  <2> QED BY <1>10, <2>1, ModelsAre, ScanfScans, ScansFair
<1>11. CASE call.op = "fscanf"
  <2>1. AreDirectives(call.directives)
    BY <1>11 DEF CallOK, AreDirectives
  <2> QED BY <1>11, <2>1, ModelsAre, ScanfScans, ScansFair
<1>12. CASE call.op = "feof"
  BY <1>12, ModelsAre, FeofDivides, CompleteFair
<1>13. CASE call.op = "ftell"
  BY <1>13, ModelsAre, FtellDivides, CompleteFair
<1>14. CASE call.op = "fseek"
  <2>1. call.whence \in {"set", "cur", "end"} /\ call.offset \in Int
    BY <1>14 DEF CallOK
  <2> QED BY <1>14, <2>1, ModelsAre, FseekDivides, CompleteFair
<1>15. CASE call.op = "fwrite"
  <2>1. call.bytes \in Seq(Bytes)
    BY <1>15 DEF CallOK
  <2> QED BY <1>15, <2>1, ModelsAre, FwriteDivides, CompleteFair
<1>16. CASE call.op = "fopen"
  BY <1>16, ModelsAre, FopenDivides, CompleteFair
<1> QED BY <1>1, <1>2, <1>3, <1>4, <1>5, <1>6, <1>7, <1>8, <1>9, <1>10, <1>11, <1>12, <1>13, <1>14, <1>15, <1>16 DEF Kinds

LEMMA NextHolds ==
    ASSUME StreamsInv, Next
    PROVE  StreamsInv' /\ LosesOnlyBlanks
<1>1. PICK call \in Calls, undecided \in BOOLEAN : Calling(call, undecided)
  BY NextCalls
<1>2. CallOK(call)
  BY StreamAssumption
<1> DEFINE M == [p \in paths |-> Models(p, call, undecided)]
<1>3. \A p \in paths : Fair(p, M[p], call)
  BY <1>1, <1>2, ModelsFair DEF StreamsInv, Calling
<1>4. program' = Append(program, call) /\ paths' = UNION {M[p] : p \in paths}
  BY <1>1 DEF Calling
<1> HIDE DEF M
<1> QED BY <1>3, <1>4, CallHolds

LEMMA InitHolds ==
    ASSUME Init
    PROVE  StreamsInv /\ OnPaths = Inputs
<1>1. PICK d : d = [i \in Inputs |-> Symbolic(i)]
  OBVIOUS
<1>2. PICK p : p = [cond |-> Inputs, position |-> 0, cut |-> FALSE, noted |-> FALSE, reads |-> <<>>,
                    scan |-> None, data |-> d]
  OBVIOUS
<1>3. paths = {p} /\ program = <<>>
  BY <1>1, <1>2 DEF Init
<1>4. DOMAIN p = PathFields /\ p.cond = Inputs /\ p.position = 0 /\ p.data = d
  BY <1>2 DEF PathFields
<1>5. Inputs # {} /\ Inputs \subseteq Seq(Bytes) /\ \A i, j \in Inputs : Len(i) = Len(j)
  BY StreamAssumption
<1>6. PICK j \in Inputs : TRUE
  BY <1>5
<1>7. PICK n \in Nat : n = Len(j)
  BY <1>5, LenProperties
<1>8. ASSUME NEW i \in p.cond
      PROVE  DOMAIN p.data[i] = DataFields /\ p.data[i].content \in Seq(Bytes) /\ Len(p.data[i].content) = n
  <2>1. p.data[i] = Symbolic(i) /\ i \in Inputs
    BY <1>1, <1>4, <1>8
  <2>2. DOMAIN Symbolic(i) = DataFields /\ Symbolic(i).content = i
    BY DEF Symbolic, DataFields
  <2>3. i \in Seq(Bytes) /\ Len(i) = n
    BY <1>5, <1>7, <2>1
  <2> QED BY <2>1, <2>2, <2>3
<1>9. p.cond # {} /\ DOMAIN p.data = p.cond /\ p.position \in 0..n
  BY <1>1, <1>4, <1>5
<1>10. IsPath(p)
  BY <1>4, <1>8, <1>9, PathFrom
<1>11. Exclusive
  BY <1>3 DEF Exclusive
<1>12. OnPaths = Inputs
  BY <1>3, <1>4 DEF OnPaths
<1>13. program \in Seq(Calls)
  BY <1>3
<1> QED BY <1>3, <1>10, <1>11, <1>12, <1>13 DEF StreamsInv

\* Each input is on one path and on no other, however many calls the program makes, and a
\* call loses one only where blanks are skipped: the options of every model exclude each
\* other and leave nothing else out.
THEOREM AlwaysOnePathEach == Spec => OnPaths = Inputs /\ []Exclusive /\ OnePathEach
<1>1. Init => StreamsInv /\ OnPaths = Inputs
  BY InitHolds
<1>2. StreamsInv /\ [Next]_vars => StreamsInv' /\ [Exclusive' /\ LosesOnlyBlanks]_vars
  <2> SUFFICES ASSUME StreamsInv, [Next]_vars
               PROVE  StreamsInv' /\ [Exclusive' /\ LosesOnlyBlanks]_vars
    OBVIOUS
  <2>1. CASE Next
    BY <2>1, NextHolds DEF StreamsInv
  <2>2. CASE UNCHANGED vars
    BY <2>2 DEF StreamsInv, Exclusive, vars
  <2> QED BY <2>1, <2>2
<1>3. StreamsInv => Exclusive
  BY DEF StreamsInv
<1> QED BY <1>1, <1>2, <1>3, PTL DEF Spec, OnePathEach

-----------------------------------------------------------------------------
(* What a program sees: of the path of an input, and of its run alone.      *)

IsSeq(s) == s \in Seq(ToSet(s))

LEMMA SeqAppend ==
    ASSUME NEW s, IsSeq(s), NEW x
    PROVE  /\ IsSeq(Append(s, x)) /\ Len(s) \in Nat /\ Len(Append(s, x)) = Len(s) + 1
           /\ DOMAIN Append(s, x) = 1..(Len(s) + 1)
           /\ \A k \in 1..Len(s) : Append(s, x)[k] = s[k]
           /\ Append(s, x)[Len(s) + 1] = x
<1> DEFINE T == ToSet(s) \cup {x}
<1>1. s \in Seq(T) /\ x \in T
  <2>1. s \in Seq(ToSet(s)) /\ ToSet(s) \subseteq T
    BY DEF IsSeq
  <2> QED BY <2>1, SeqMonotonic
<1> HIDE DEF T
<1>2. /\ Append(s, x) \in Seq(T) /\ Len(Append(s, x)) = Len(s) + 1
      /\ \A k \in 1..Len(s) : Append(s, x)[k] = s[k]
      /\ Append(s, x)[Len(s) + 1] = x
  BY <1>1, AppendProperties
<1>3. Len(s) \in Nat /\ DOMAIN Append(s, x) = 1..Len(Append(s, x))
  BY <1>1, <1>2, LenProperties
<1>4. PICK a : a = Append(s, x)
  OBVIOUS
<1>5. PICK n \in Nat : a \in [1..n -> T] /\ n = Len(a)
  BY <1>2, <1>4, LenProperties
<1>6. a \in [1..n -> ToSet(a)]
  BY <1>5 DEF ToSet
<1>7. IsSeq(a)
  BY <1>6, SeqDef DEF IsSeq
<1> QED BY <1>2, <1>3, <1>4, <1>7

OwnFields == {"content", "position", "saw", "object", "peeked", "memory"}
IsMemory(memory) == memory = [place \in Places |-> memory[place]]
IsOwn(m) == DOMAIN m = OwnFields /\ IsSeq(m.saw) /\ IsMemory(m.memory)

Sees(d, saw, memory, object) == d.saw = saw /\ d.memory = memory /\ d.object = object

\* The path of input i shows it what it sees alone, and, unless the stream was cut, is where
\* it is; after a cut nothing is left of the stream.
Agrees(p, i, m) ==
    /\ Sees(p.data[i], m.saw, m.memory, m.object)
    /\ IF p.cut THEN Drained(p) ELSE p.position = m.position /\ p.data[i].content = m.content

\* m after a call.
OwnAfter(n, m, position, saw, memory, object) ==
    /\ DOMAIN n = OwnFields /\ n.content = m.content /\ n.position = position
    /\ Sees(n, saw, memory, object)

LEMMA PutMemory ==
    ASSUME NEW memory, IsMemory(memory), NEW place, NEW cells
    PROVE  IsMemory(Put(memory, place, cells))
BY DEF IsMemory, Put

LEMMA OwnKept ==
    ASSUME NEW m, IsOwn(m), NEW n, NEW position, NEW v, NEW memory, IsMemory(memory), NEW object,
           OwnAfter(n, m, position, Append(m.saw, v), memory, object)
    PROVE  IsOwn(n)
<1>1. IsSeq(Append(m.saw, v))
  BY SeqAppend DEF IsOwn
<1> QED BY <1>1 DEF IsOwn, OwnAfter, Sees

\* What the parts of a model change.
LEMMA ReturnsSees ==
    ASSUME NEW p, IsPath(p), NEW i \in p.cond, NEW value
    PROVE  Sees(Returns(p, value).data[i], Append(p.data[i].saw, value[i]), p.data[i].memory, p.data[i].object)
<1>1. Returns(p, value).data = [j \in p.cond |-> Returning(p.data[j], value[j])]
  BY DEF Returns, IsPath, PathFields
<1>2. Returns(p, value).data[i] = Returning(p.data[i], value[i])
  BY <1>1
<1>3. DOMAIN p.data[i] = DataFields
  BY DEF IsPath
<1> QED BY <1>2, <1>3 DEF Returning, Sees, DataFields

LEMMA ReturnsAllSees ==
    ASSUME NEW p, IsPath(p), NEW i \in p.cond, NEW value
    PROVE  Sees(ReturnsAll(p, value).data[i], Append(p.data[i].saw, value), p.data[i].memory, p.data[i].object)
<1>1. PICK v : v = [j \in p.cond |-> value]
  OBVIOUS
<1>2. ReturnsAll(p, value) = Returns(p, v) /\ v[i] = value
  BY <1>1 DEF ReturnsAll
<1>3. Sees(Returns(p, v).data[i], Append(p.data[i].saw, v[i]), p.data[i].memory, p.data[i].object)
  BY ReturnsSees
<1> QED BY <1>2, <1>3

LEMMA WritesSees ==
    ASSUME NEW p, IsPath(p), NEW i \in p.cond, NEW place, NEW content
    PROVE  Sees(Writes(p, place, content).data[i], p.data[i].saw, Put(p.data[i].memory, place, content[i]),
                p.data[i].object)
<1>1. Writes(p, place, content).data = [j \in p.cond |-> [p.data[j] EXCEPT !.memory = Put(@, place, content[j])]]
  BY DEF Writes, IsPath, PathFields
<1>2. Writes(p, place, content).data[i] = [p.data[i] EXCEPT !.memory = Put(@, place, content[i])]
  BY <1>1
<1>3. DOMAIN p.data[i] = DataFields
  BY DEF IsPath
<1> QED BY <1>2, <1>3 DEF Sees, DataFields

LEMMA StringsSees ==
    ASSUME NEW p, IsPath(p), NEW i \in p.cond, NEW object
    PROVE  Sees(Strings(p, object).data[i], p.data[i].saw, p.data[i].memory, object[i])
<1>1. Strings(p, object).data = [j \in p.cond |-> [p.data[j] EXCEPT !.object = object[j]]]
  BY DEF Strings, IsPath, PathFields
<1>2. Strings(p, object).data[i] = [p.data[i] EXCEPT !.object = object[i]]
  BY <1>1
<1>3. DOMAIN p.data[i] = DataFields
  BY DEF IsPath
<1> QED BY <1>2, <1>3 DEF Sees, DataFields

\* Looking, handing out and moving shows nothing.
LEMMA SameData ==
    ASSUME NEW p, IsPath(p), NEW first, NEW last, NEW byLine, NEW n
    PROVE  /\ AtEnd(p).data = p.data /\ Looked(p).data = p.data
           /\ Handed(p, first, last, byLine).data = p.data
           /\ Moved(p, n).data = p.data /\ Advance(p, n).data = p.data
           /\ [p EXCEPT !.scan = n].data = p.data
BY DEF AtEnd, Looked, Handed, Moved, Advance, IsPath, PathFields

LEMMA TruncatedSees ==
    ASSUME NEW p, IsPath(p), NEW i \in p.cond
    PROVE  Sees(Truncated(p).data[i], p.data[i].saw, p.data[i].memory, p.data[i].object)
<1>1. Truncated(p).data = [j \in p.cond |-> [p.data[j] EXCEPT !.content = UpTo(@, p.position)]]
  BY DEF Truncated, IsPath, PathFields
<1>2. Truncated(p).data[i] = [p.data[i] EXCEPT !.content = UpTo(@, p.position)]
  BY <1>1
<1>3. DOMAIN p.data[i] = DataFields
  BY DEF IsPath
<1> QED BY <1>2, <1>3 DEF Sees, DataFields

\* At a place of the same content.
LEMMA AgreesOn ==
    ASSUME NEW p, ~p.cut, NEW q, OnTo(p, q), NEW i \in p.cond, NEW m, Agrees(p, i, m),
           NEW n, OwnAfter(n, m, q.position, q.data[i].saw, q.data[i].memory, q.data[i].object)
    PROVE  Agrees(q, i, n)
BY DEF OnTo, Agrees, OwnAfter, Sees

LEMMA AgreesLeft ==
    ASSUME NEW p, IsPath(p), ~p.cut, NEW i \in p.cond, NEW m, Agrees(p, i, m)
    PROVE  Left(m) = Rest(p, i) /\ (Left(m) = <<>> <=> Drained(p))
<1>1. Left(m) = Rest(p, i)
  BY DEF Agrees, Left, Rest
<1>2. Rest(p, i) \in Seq(Bytes) /\ Len(Rest(p, i)) = Held(p) - p.position
  BY RestIs
<1>3. Rest(p, i) = <<>> <=> Len(Rest(p, i)) = 0
  BY <1>2, EmptySeq
<1> QED BY <1>1, <1>2, <1>3, HeldIs DEF Drained

-----------------------------------------------------------------------------
(* The models that do not split show what the interpreter shows.            *)

LEMMA OwnReturning ==
    ASSUME NEW m, IsOwn(m), NEW v
    PROVE  OwnAfter(Returning(m, v), m, m.position, Append(m.saw, v), m.memory, m.object)
BY DEF IsOwn, OwnAfter, Returning, Sees, OwnFields

LEMMA OwnAdvanced ==
    ASSUME NEW m, NEW n, NEW position, NEW saw, NEW memory, NEW object,
           OwnAfter(n, m, position, saw, memory, object), NEW k
    PROVE  OwnAfter(Advanced(n, k), m, position + k, saw, memory, object)
BY DEF OwnAfter, Advanced, Sees, OwnFields

LEMMA OwnPuts ==
    ASSUME NEW m, NEW n, NEW position, NEW saw, NEW memory, NEW object,
           OwnAfter(n, m, position, saw, memory, object), NEW cells
    PROVE  OwnAfter([n EXCEPT !.memory = Put(@, 1, cells)], m, position, saw, Put(memory, 1, cells), object)
BY DEF OwnAfter, Sees, OwnFields

LEMMA OwnNames ==
    ASSUME NEW m, NEW n, NEW position, NEW saw, NEW memory, NEW object,
           OwnAfter(n, m, position, saw, memory, object), NEW text
    PROVE  OwnAfter([n EXCEPT !.object = text], m, position, saw, memory, text)
BY DEF OwnAfter, Sees, OwnFields

\* A call that only returns.
LEMMA EndAgrees ==
    ASSUME NEW p, IsPath(p), ~p.cut, NEW i \in p.cond, NEW m, IsOwn(m), Agrees(p, i, m), NEW v
    PROVE  /\ Agrees(ReturnsAll(AtEnd(p), v), i, Returning(m, v))
           /\ Agrees(ReturnsAll(Looked(p), v), i, Returning(m, v))
<1>1. ASSUME NEW q, Like(p, q), q.data = p.data PROVE Agrees(ReturnsAll(q, v), i, Returning(m, v))
  <2>1. IsPath(q) /\ i \in q.cond /\ q.position = p.position
    BY <1>1 DEF Like
  <2>2. Like(p, ReturnsAll(q, v))
    BY <1>1, <2>1, ReturnsAllLike, LikeBoth
  <2>3. Sees(ReturnsAll(q, v).data[i], Append(p.data[i].saw, v), p.data[i].memory, p.data[i].object)
    BY <1>1, <2>1, ReturnsAllSees
  <2>4. OwnAfter(Returning(m, v), m, m.position, Append(m.saw, v), m.memory, m.object)
    BY OwnReturning
  <2>5. p.position = m.position /\ ReturnsAll(q, v).position = p.position
    BY <2>2 DEF Agrees, Like
  <2>6. OwnAfter(Returning(m, v), m, ReturnsAll(q, v).position, ReturnsAll(q, v).data[i].saw,
                 ReturnsAll(q, v).data[i].memory, ReturnsAll(q, v).data[i].object)
    BY <2>3, <2>4, <2>5 DEF Agrees, Sees
  <2> QED BY <2>2, <2>6, LikeOn, AgreesOn
<1> QED BY <1>1, LookedLike, SameData

LEMMA NextByteAgrees ==
    ASSUME NEW p, IsPath(p), ~p.cut, ~Drained(p), NEW i \in p.cond, NEW m, IsOwn(m), Agrees(p, i, m),
           NEW q, OnTo(p, q), q.position = p.position + 1,
           q.data = Returns(p, [j \in p.cond |-> At(p, j, p.position)]).data
    PROVE  Agrees(q, i, Advanced(Returning(m, Left(m)[1]), 1))
<1>1. PICK b : b = At(p, i, p.position)
  OBVIOUS
<1>2. Left(m)[1] = b
  <2>1. /\ Left(m) = Rest(p, i)
        /\ \A n \in 0..(Held(p) - p.position - 1) : Rest(p, i)[n + 1] = At(p, i, p.position + n)
    BY AgreesLeft, RestIs
  <2>2. 0 \in 0..(Held(p) - p.position - 1) /\ p.position + 0 = p.position
    BY HeldIs DEF Drained
  <2>3. Rest(p, i)[0 + 1] = At(p, i, p.position)
    BY <2>1, <2>2
  <2> QED BY <1>1, <2>1, <2>3
<1>3. PICK v : v = [j \in p.cond |-> At(p, j, p.position)]
  OBVIOUS
<1>4. Sees(q.data[i], Append(p.data[i].saw, b), p.data[i].memory, p.data[i].object)
  <2>1. q.data = Returns(p, v).data /\ v[i] = b
    BY <1>1, <1>3
  <2>2. Sees(Returns(p, v).data[i], Append(p.data[i].saw, v[i]), p.data[i].memory, p.data[i].object)
    BY ReturnsSees
  <2> QED BY <2>1, <2>2
<1>5. OwnAfter(Advanced(Returning(m, b), 1), m, m.position + 1, Append(m.saw, b), m.memory, m.object)
  BY OwnReturning, OwnAdvanced
<1>6. OwnAfter(Advanced(Returning(m, b), 1), m, q.position, q.data[i].saw, q.data[i].memory, q.data[i].object)
  BY <1>4, <1>5 DEF Agrees, Sees
<1> QED BY <1>2, <1>6, AgreesOn

LEMMA GetcharAgrees ==
    ASSUME NEW p, IsPath(p), ~p.cut, NEW i \in p.cond, NEW m, IsOwn(m), Agrees(p, i, m), NEW call
    PROVE  /\ \A q \in Getchar(p, call) : Agrees(q, i, OwnGetc(m, call))
           /\ \A q \in Fgetc(p, call) : Agrees(q, i, OwnGetc(m, call))
<1>1. CASE Drained(p)
  <2>1. OwnGetc(m, call) = Returning(m, Eof)
    BY <1>1, AgreesLeft DEF OwnGetc
  <2>2. Getchar(p, call) = {ReturnsAll(AtEnd(p), Eof)} /\ Fgetc(p, call) = {ReturnsAll(Looked(p), Eof)}
    BY <1>1 DEF Getchar, Fgetc
  <2> QED BY <2>1, <2>2, EndAgrees
<1>2. CASE ~Drained(p)
  <2>1. OwnGetc(m, call) = Advanced(Returning(m, Left(m)[1]), 1)
    BY <1>2, AgreesLeft DEF OwnGetc
  <2>2. PICK v : v = [j \in p.cond |-> At(p, j, p.position)]
    OBVIOUS
  <2>3. PICK r : r = Returns(p, v)
    OBVIOUS
  <2>4. Like(p, r) /\ IsPath(r) /\ r.position = p.position
    BY <2>3, ReturnsLike DEF Like
  <2>5. PICK a : a = Advance(r, 1)
    OBVIOUS
  <2>6. 1 \in 0..(Held(r) - r.position)
    BY <1>2, <2>4, HeldIs, LikeHeld DEF Drained
  <2>7. OnTo(r, a) /\ a.position = p.position + 1 /\ a.data = r.data
    BY <2>4, <2>5, <2>6, AdvanceIs
  <2>8. OnTo(p, a) /\ IsPath(a)
    BY <2>4, <2>7, LikeOn, OnBoth DEF OnTo
  <2>9. PICK h : h = Handed(a, p.position, p.position + 1, FALSE)
    OBVIOUS
  <2>10. OnTo(p, h) /\ h.data = a.data /\ h.position = a.position
    <3>1. Like(a, h)
      BY <2>8, <2>9, HandedLike
    <3>2. h.data = a.data
      BY <2>8, <2>9 DEF Handed, IsPath, PathFields
    <3> QED BY <2>8, <3>1, <3>2, LikeOn, OnBoth DEF Like
  <2>11. Agrees(a, i, OwnGetc(m, call)) /\ Agrees(h, i, OwnGetc(m, call))
    BY <1>2, <2>1, <2>2, <2>3, <2>7, <2>8, <2>10, NextByteAgrees
  <2>12. Getchar(p, call) = {h} /\ Fgetc(p, call) = {a}
    BY <1>2, <2>2, <2>3, <2>5, <2>9 DEF Getchar, Fgetc
  <2> QED BY <2>11, <2>12
<1> QED BY <1>1, <1>2

\* The first bytes of what is left.
LEMMA UpToFrom ==
    ASSUME NEW T, NEW s \in Seq(T), NEW k \in 0..Len(s), NEW n \in 0..(Len(s) - k)
    PROVE  UpTo(From(s, k), n) = SubSeq(s, k + 1, k + n)
<1>1. Len(s) \in Nat /\ \A j \in 1..Len(s) : s[j] \in T
  BY LenProperties, ElementOfSeq
<1>2. /\ From(s, k) \in Seq(T) /\ Len(From(s, k)) = Len(s) - k
      /\ \A j \in 1..(Len(s) - k) : From(s, k)[j] = s[k + j]
  BY FromIs
<1>3. n \in 0..Len(From(s, k))
  BY <1>2
<1>4. PICK t : t = From(s, k)
  OBVIOUS
<1>5. /\ UpTo(t, n) \in Seq(T) /\ Len(UpTo(t, n)) = n
      /\ \A j \in 1..n : UpTo(t, n)[j] = t[j]
  BY <1>2, <1>3, <1>4, UpToIs
<1>6. \A j \in (k + 1)..(k + n) : s[j] \in T
  BY <1>1
<1>7. k + 1 \in Int /\ k + n \in Int
  BY <1>1
<1>8. PICK a, b : a = k + 1 /\ b = k + n
  OBVIOUS
<1>9. /\ SubSeq(s, a, b) \in Seq(T)
      /\ Len(SubSeq(s, a, b)) = IF a <= b THEN b - a + 1 ELSE 0
      /\ \A j \in 1..(b - a + 1) : SubSeq(s, a, b)[j] = s[a + j - 1]
  BY <1>6, <1>7, <1>8, SubSeqProperties
<1>10. b - a + 1 = n /\ Len(SubSeq(s, a, b)) = n
  BY <1>1, <1>8, <1>9
<1>11. ASSUME NEW j \in 1..n PROVE UpTo(t, n)[j] = SubSeq(s, a, b)[j]
  <2>0. j \in 1..(b - a + 1) /\ a + j - 1 = k + j
    BY <1>1, <1>8, <1>10
  <2>1. SubSeq(s, a, b)[j] = s[k + j]
    BY <1>9, <2>0
  <2>2. j \in 1..(Len(s) - k)
    BY <1>1
  <2>3. t[j] = s[k + j] /\ UpTo(t, n)[j] = t[j]
    BY <1>2, <1>4, <1>5, <2>2
  <2> QED BY <2>1, <2>3
<1>12. UpTo(t, n) = SubSeq(s, a, b)
  BY <1>5, <1>9, <1>10, <1>11, SeqEqual
<1> QED BY <1>4, <1>8, <1>12

LEMMA UpToUpTo ==
    ASSUME NEW T, NEW s \in Seq(T), NEW k \in 0..Len(s), NEW n \in 0..k
    PROVE  UpTo(UpTo(s, k), n) = UpTo(s, n)
<1>1. Len(s) \in Nat
  BY LenProperties
<1>2. /\ UpTo(s, k) \in Seq(T) /\ Len(UpTo(s, k)) = k
      /\ \A j \in 1..k : UpTo(s, k)[j] = s[j]
  BY UpToIs
<1>3. n \in 0..Len(s)
  BY <1>1
<1>4. /\ UpTo(s, n) \in Seq(T) /\ Len(UpTo(s, n)) = n
      /\ \A j \in 1..n : UpTo(s, n)[j] = s[j]
  BY <1>3, UpToIs
<1>5. PICK t : t = UpTo(s, k)
  OBVIOUS
<1>6. /\ UpTo(t, n) \in Seq(T) /\ Len(UpTo(t, n)) = n
      /\ \A j \in 1..n : UpTo(t, n)[j] = t[j]
  BY <1>2, <1>5, UpToIs
<1>7. \A j \in 1..n : UpTo(t, n)[j] = UpTo(s, n)[j]
  BY <1>1, <1>2, <1>4, <1>5, <1>6
<1> QED BY <1>4, <1>5, <1>6, <1>7, SeqEqual

LEMMA UpToFull ==
    ASSUME NEW T, NEW s \in Seq(T)
    PROVE  UpTo(s, Len(s)) = s
BY SubSeqFull DEF UpTo

\* The run before the first of the stops, known by its length.
LEMMA BeforeUnique ==
    ASSUME NEW T, NEW s \in Seq(T), NEW stops, NEW n \in 0..Len(s),
           \A k \in 1..n : s[k] \notin stops, n < Len(s) => s[n + 1] \in stops
    PROVE  Before(s, stops) = n
<1>1. PICK b : b = Before(s, stops)
  OBVIOUS
<1>2. /\ b \in 0..Len(s) /\ \A k \in 1..b : s[k] \notin stops
      /\ b < Len(s) => s[b + 1] \in stops
  BY <1>1, BeforeIs
<1>3. Len(s) \in Nat
  BY LenProperties
<1>4. ~(b < n)
  <2> SUFFICES ASSUME b < n PROVE FALSE
    OBVIOUS
  <2>1. b + 1 \in 1..n /\ b < Len(s)
    BY <1>2, <1>3
  <2> QED BY <1>2, <2>1
<1>5. ~(n < b)
  <2> SUFFICES ASSUME n < b PROVE FALSE
    OBVIOUS
  <2>1. n + 1 \in 1..b /\ n < Len(s)
    BY <1>2, <1>3
  <2> QED BY <1>2, <2>1
<1> QED BY <1>1, <1>2, <1>3, <1>4, <1>5

\* What is known of a value that is one of many equal ones.
LEMMA OneValue ==
    ASSUME NEW S, NEW length, NEW n \in Nat, \A i \in S : length[i] \in 0..n,
           ~(Cardinality({length[i] : i \in S}) > 1), NEW i \in S, NEW j \in S
    PROVE  length[i] = length[j]
<1> SUFFICES ASSUME length[i] # length[j] PROVE FALSE
  OBVIOUS
<1>1. PICK a, b : a = length[i] /\ b = length[j]
  OBVIOUS
<1>2. PICK V : V = {length[k] : k \in S}
  OBVIOUS
<1>3. V \subseteq 0..n /\ a \in V /\ b \in V /\ a # b
  BY <1>1, <1>2
<1>4. IsFiniteSet(0..n)
  BY FS_Interval
<1>5. IsFiniteSet(V)
  BY <1>3, <1>4, FS_Subset
<1>6. Cardinality(V) \in Nat
  BY <1>5, FS_CardinalityType
<1>7. Cardinality(V) = 0 \/ Cardinality(V) = 1
  BY <1>2, <1>6
<1>8. V # {} /\ ~ \E x : V = {x}
  BY <1>3
<1> QED BY <1>5, <1>7, <1>8, FS_EmptySet, FS_Singleton

LEMMA HandedSame ==
    ASSUME NEW p, IsPath(p), NEW first, NEW last, NEW byLine
    PROVE  /\ Like(p, Handed(p, first, last, byLine))
           /\ Handed(p, first, last, byLine).data = p.data
<1>1. Like(p, Handed(p, first, last, byLine))
  BY HandedLike
<1>2. Handed(p, first, last, byLine).data = p.data
  BY DEF Handed, IsPath, PathFields
<1> QED BY <1>1, <1>2

LEMMA HandedAgrees ==
    ASSUME NEW p, IsPath(p), NEW first, NEW last, NEW byLine, NEW i \in p.cond, NEW m, Agrees(p, i, m)
    PROVE  Agrees(Handed(p, first, last, byLine), i, m)
<1>1. PICK h : h = Handed(p, first, last, byLine)
  OBVIOUS
<1>2. Like(p, h) /\ h.data = p.data
  BY <1>1, HandedSame
<1>3. Drained(h) = Drained(p)
  BY <1>2, LikeHeld
<1> QED BY <1>1, <1>2, <1>3 DEF Agrees, Like

\* On past a line: it is as long for all inputs, or nothing is known of the stream any more.
LEMMA PastAgrees ==
    ASSUME NEW p, IsPath(p), ~p.cut, NEW q, Like(p, q), NEW length, NEW behind \in Nat, NEW undecided,
           \A j \in p.cond : length[j] \in 0..(Held(p) - p.position),
           NEW i \in p.cond, NEW m, Agrees(p, i, m), NEW n,
           OwnAfter(n, m, m.position + (length[i] + Clamped(behind, 0, Held(p) - p.position - length[i])),
                    q.data[i].saw, q.data[i].memory, q.data[i].object)
    PROVE  Agrees(Past(q, length, behind, undecided), i, n)
<1>1. PICK r : r = Past(q, length, behind, undecided)
  OBVIOUS
<1>2. /\ IsPath(q) /\ q.cond = p.cond /\ q.position = p.position /\ Held(q) = Held(p) /\ ~q.cut
      /\ p.position = m.position
  BY LikeHeld DEF Like, Agrees
<1>3. CASE undecided \/ Cardinality({length[j] : j \in q.cond}) > 1
  <2>1. r = Truncated(q)
    BY <1>1, <1>3 DEF Past
  <2>2. r.cut /\ Drained(r)
    BY <1>2, <2>1, TruncatedIs
  <2>3. Sees(r.data[i], q.data[i].saw, q.data[i].memory, q.data[i].object)
    BY <1>2, <2>1, TruncatedSees
  <2> QED BY <1>1, <2>2, <2>3 DEF Agrees, OwnAfter, Sees
<1>4. CASE ~(undecided \/ Cardinality({length[j] : j \in q.cond}) > 1)
  <2>1. Held(p) \in Nat /\ p.position \in Nat /\ p.position <= Held(p) /\ OneOf(q) \in q.cond
    BY <1>2, HeldIs
  <2>2. Held(p) - p.position \in Nat
    BY <2>1
  <2>3. length[OneOf(q)] = length[i]
    <3>1. PICK S, k : S = q.cond /\ k = Held(p) - p.position
      OBVIOUS
    <3>2. PICK o : o = OneOf(q)
      OBVIOUS
    <3>3. k \in Nat /\ (\A j \in S : length[j] \in 0..k) /\ ~(Cardinality({length[j] : j \in S}) > 1)
      BY <1>2, <1>4, <2>2, <3>1
    <3>4. i \in S /\ o \in S
      BY <1>2, <2>1, <3>1, <3>2
    <3>5. length[o] = length[i]
      BY <3>3, <3>4, OneValue
    <3> QED BY <3>2, <3>5
  <2>4. PICK l, c : l = length[i] /\ c = Clamped(behind, 0, Held(p) - p.position - l)
    OBVIOUS
  <2>5. l \in 0..(Held(p) - p.position) /\ c \in 0..(Held(p) - p.position - l)
    <3>1. l \in 0..(Held(p) - p.position)
      BY <2>4
    <3>2. PICK h : h = Held(p) - p.position - l
      OBVIOUS
    <3>3. h \in Nat
      BY <2>1, <3>1, <3>2
    <3> QED BY <2>4, <3>1, <3>2, <3>3 DEF Clamped
  <2>6. l + c \in 0..(Held(q) - q.position)
    BY <1>2, <2>1, <2>5
  <2>7. r = Advance(q, l + c)
    BY <1>1, <1>2, <1>4, <2>3, <2>4 DEF Past
  <2>8. OnTo(q, r) /\ r.position = q.position + (l + c) /\ r.data = q.data
    BY <1>2, <2>6, <2>7, AdvanceIs
  <2>9. OnTo(p, r)
    BY <2>8, LikeOn, OnBoth
  <2>10. OwnAfter(n, m, r.position, r.data[i].saw, r.data[i].memory, r.data[i].object)
    BY <1>2, <2>4, <2>8
  <2> QED BY <1>1, <2>9, <2>10, AgreesOn
<1> QED BY <1>3, <1>4

\* A call that hands out a line.
LEMMA LineAgrees ==
    ASSUME NEW p, IsPath(p), ~p.cut, NEW i \in p.cond, NEW m, IsOwn(m), Agrees(p, i, m),
           NEW length, \A j \in p.cond : length[j] \in 0..(Held(p) - p.position),
           NEW behind \in Nat, NEW undecided, NEW first, NEW last,
           NEW cells, cells = Append(UpTo(Rest(p, i), length[i]), Nul),
           NEW k, k = length[i] + Clamped(behind, 0, Held(p) - p.position - length[i])
    PROVE  Agrees(Past(Handed(TakesLine(p, length), first, last, TRUE), length, behind, undecided), i,
                  Advanced([Returning(m, "buffer") EXCEPT !.memory = Put(@, 1, cells)], k))
<1>1. PICK c : c = [j \in p.cond |-> Append(UpTo(Rest(p, j), length[j]), Nul)]
  OBVIOUS
<1>2. PICK w : w = Writes(p, 1, c)
  OBVIOUS
<1>3. Like(p, w) /\ IsPath(w) /\ i \in w.cond
  BY <1>2, WritesLike DEF Like
<1>4. Sees(w.data[i], p.data[i].saw, Put(p.data[i].memory, 1, cells), p.data[i].object)
  <2>1. c[i] = cells
    BY <1>1
  <2>2. Sees(w.data[i], p.data[i].saw, Put(p.data[i].memory, 1, c[i]), p.data[i].object)
    BY <1>2, WritesSees
  <2> QED BY <2>1, <2>2
<1>5. PICK r : r = ReturnsAll(w, "buffer")
  OBVIOUS
<1>6. Like(p, r) /\ IsPath(r)
  BY <1>3, <1>5, ReturnsAllLike, LikeBoth DEF Like
<1>7. Sees(r.data[i], Append(w.data[i].saw, "buffer"), w.data[i].memory, w.data[i].object)
  BY <1>3, <1>5, ReturnsAllSees
<1>8. TakesLine(p, length) = r
  BY <1>1, <1>2, <1>5 DEF TakesLine
<1>9. PICK h : h = Handed(r, first, last, TRUE)
  OBVIOUS
<1>10. Like(p, h) /\ h.data = r.data
  BY <1>6, <1>9, HandedSame, LikeBoth
<1>11. Sees(h.data[i], Append(m.saw, "buffer"), Put(m.memory, 1, cells), m.object)
  BY <1>4, <1>7, <1>10 DEF Sees, Agrees
<1>12. PICK n : n = Advanced([Returning(m, "buffer") EXCEPT !.memory = Put(@, 1, cells)], k)
  OBVIOUS
<1>13. OwnAfter(n, m, m.position + k, Append(m.saw, "buffer"), Put(m.memory, 1, cells), m.object)
  <2>1. PICK a : a = Returning(m, "buffer")
    OBVIOUS
  <2>2. PICK b : b = [a EXCEPT !.memory = Put(@, 1, cells)]
    OBVIOUS
  <2>3. OwnAfter(b, m, m.position, Append(m.saw, "buffer"), Put(m.memory, 1, cells), m.object)
    BY <2>1, <2>2, OwnReturning, OwnPuts
  <2> QED BY <1>12, <2>1, <2>2, <2>3, OwnAdvanced
<1>14. OwnAfter(n, m, m.position + (length[i] + Clamped(behind, 0, Held(p) - p.position - length[i])),
                h.data[i].saw, h.data[i].memory, h.data[i].object)
  BY <1>11, <1>13 DEF Sees
<1>15. Agrees(Past(h, length, behind, undecided), i, n)
  BY <1>10, <1>14, PastAgrees
<1> QED BY <1>8, <1>9, <1>12, <1>15

LEMMA GetsAgrees ==
    ASSUME NEW p, IsPath(p), ~p.cut, NEW i \in p.cond, NEW m, IsOwn(m), Agrees(p, i, m), NEW call,
           NEW undecided, NEW q \in Gets(p, undecided)
    PROVE  Agrees(q, i, OwnGets(m, call))
<1>0. Left(m) = Rest(p, i) /\ (Left(m) = <<>> <=> Drained(p))
  BY AgreesLeft
<1>1. CASE Drained(p)
  BY <1>0, <1>1, EndAgrees DEF Gets, OwnGets
<1>2. CASE ~Drained(p)
  <2>1. PICK length : length = [j \in p.cond |-> Before(Rest(p, j), {Newline})]
    OBVIOUS
  <2>2. \A j \in p.cond : length[j] \in 0..(Held(p) - p.position)
    BY <2>1, LineLength
  <2>3. PICK l : l = Before(Left(m), {Newline})
    OBVIOUS
  <2>4. length[i] = l /\ l \in 0..(Held(p) - p.position)
    BY <1>0, <2>1, <2>2, <2>3
  <2>5. PICK cells : cells = Append(UpTo(Left(m), l), Nul)
    OBVIOUS
  <2>6. PICK k : k = l + (IF l < Len(Left(m)) THEN 1 ELSE 0)
    OBVIOUS
  <2>7. OwnGets(m, call) = Advanced([Returning(m, "buffer") EXCEPT !.memory = Put(@, 1, cells)], k)
    BY <1>0, <1>2, <2>3, <2>5, <2>6 DEF OwnGets, OwnLine
  <2>8. k = length[i] + Clamped(1, 0, Held(p) - p.position - length[i])
    <3>1. Len(Left(m)) = Held(p) - p.position
      BY <1>0, RestIs
    <3>2. Held(p) \in Nat /\ p.position \in Nat
      BY HeldIs
    <3> QED BY <2>4, <2>6, <3>1, <3>2 DEF Clamped
  <2>9. q = Past(Handed(TakesLine(p, length), p.position, Held(p), TRUE), length, 1, undecided)
    BY <1>2, <2>1 DEF Gets
  <2>10. cells = Append(UpTo(Rest(p, i), length[i]), Nul)
    BY <1>0, <2>4, <2>5
  <2>11. 1 \in Nat
    OBVIOUS
  <2>12. Agrees(Past(Handed(TakesLine(p, length), p.position, Held(p), TRUE), length, 1, undecided), i,
                Advanced([Returning(m, "buffer") EXCEPT !.memory = Put(@, 1, cells)], k))
    BY <2>2, <2>8, <2>10, <2>11, LineAgrees
  <2> QED BY <2>7, <2>9, <2>12
<1> QED BY <1>1, <1>2

LEMMA FgetsAgrees ==
    ASSUME NEW p, IsPath(p), ~p.cut, NEW i \in p.cond, NEW m, IsOwn(m), Agrees(p, i, m),
           NEW call, call.size \in Int, NEW undecided, NEW q \in Fgets(p, call.size, undecided)
    PROVE  Agrees(q, i, OwnFgets(m, call))
<1>0. Left(m) = Rest(p, i) /\ (Left(m) = <<>> <=> Drained(p))
  BY AgreesLeft
<1>1. CASE call.size <= 0 \/ Drained(p)
  <2>1. OwnFgets(m, call) = Returning(m, Nul)
    BY <1>0, <1>1 DEF OwnFgets
  <2>2. q = ReturnsAll(Looked(p), Nul)
    <3>1. Fgets(p, call.size, undecided) = {ReturnsAll(Looked(p), Nul)}
      BY <1>1 DEF Fgets
    <3> QED BY <3>1
  <2> QED BY <2>1, <2>2, EndAgrees
<1>2. CASE ~(call.size <= 0 \/ Drained(p))
  <2>1. PICK most : most = Clamped(call.size - 1, 0, Held(p) - p.position)
    OBVIOUS
  <2>2. most \in 0..(Held(p) - p.position) /\ Held(p) \in Nat /\ p.position \in Nat
    <3>1. Held(p) \in Nat /\ p.position \in Nat /\ p.position <= Held(p)
      BY HeldIs
    <3>2. PICK n, h : n = call.size - 1 /\ h = Held(p) - p.position
      OBVIOUS
    <3>3. n \in Int /\ h \in Int /\ 0 <= h
      BY <3>1, <3>2
    <3>4. Clamped(n, 0, h) \in 0..h
      BY <3>3 DEF Clamped
    <3> QED BY <2>1, <3>1, <3>2, <3>4
  <2>3. PICK length : length = [j \in p.cond |-> Clamped(Before(UpTo(Rest(p, j), most), {Newline}) + 1, 0, most)]
    OBVIOUS
  <2>4. ASSUME NEW j \in p.cond
        PROVE  length[j] \in 0..most /\ Len(UpTo(Rest(p, j), most)) = most
    <3>1. Rest(p, j) \in Seq(Bytes) /\ Len(Rest(p, j)) = Held(p) - p.position
      BY RestIs
    <3>2. UpTo(Rest(p, j), most) \in Seq(Bytes) /\ Len(UpTo(Rest(p, j), most)) = most
      BY <2>2, <3>1, UpToIs
    <3>3. Before(UpTo(Rest(p, j), most), {Newline}) \in 0..most
      BY <3>2, BeforeIs
    <3>4. PICK n : n = Before(UpTo(Rest(p, j), most), {Newline}) + 1
      OBVIOUS
    <3>5. n \in Int /\ length[j] = Clamped(n, 0, most) /\ most \in Int /\ 0 <= most
      BY <2>2, <2>3, <3>3, <3>4
    <3> QED BY <3>2, <3>5, ClampedIs
  <2>5. \A j \in p.cond : length[j] \in 0..(Held(p) - p.position)
    BY <2>2, <2>4
  <2>6. PICK l : l = length[i]
    OBVIOUS
  <2>7. Len(Left(m)) = Held(p) - p.position /\ Left(m) \in Seq(Bytes)
    BY <1>0, RestIs
  <2>8. PICK taken : taken = UpTo(Left(m), most)
    OBVIOUS
  <2>9. /\ taken = UpTo(Left(m), Clamped(call.size - 1, 0, Len(Left(m))))
        /\ l = Clamped(Before(taken, {Newline}) + 1, 0, Len(taken)) /\ Len(taken) = most
    BY <1>0, <2>1, <2>3, <2>4, <2>6, <2>7, <2>8
  <2>10. PICK cells : cells = Append(UpTo(taken, l), Nul)
    OBVIOUS
  <2>11. OwnFgets(m, call) = Advanced([Returning(m, "buffer") EXCEPT !.memory = Put(@, 1, cells)], l)
    BY <1>0, <1>2, <2>9, <2>10 DEF OwnFgets
  <2>12. UpTo(taken, l) = UpTo(Left(m), l)
    <3>1. most \in 0..Len(Left(m)) /\ l \in 0..most
      BY <2>2, <2>4, <2>6, <2>7
    <3> QED BY <2>7, <2>8, <3>1, UpToUpTo
  <2>13. cells = Append(UpTo(Rest(p, i), length[i]), Nul)
    BY <1>0, <2>6, <2>10, <2>12
  <2>14. l = length[i] + Clamped(0, 0, Held(p) - p.position - length[i])
    <3>1. length[i] \in 0..(Held(p) - p.position)
      BY <2>5
    <3> QED BY <2>2, <2>6, <3>1 DEF Clamped
  <2>15. q = Past(Handed(TakesLine(p, length), p.position, p.position + most, TRUE), length, 0, undecided)
    BY <1>2, <2>1, <2>3 DEF Fgets
  <2>16. 0 \in Nat
    OBVIOUS
  <2>17. Agrees(Past(Handed(TakesLine(p, length), p.position, p.position + most, TRUE), length, 0, undecided), i,
                Advanced([Returning(m, "buffer") EXCEPT !.memory = Put(@, 1, cells)], l))
    BY <2>5, <2>13, <2>14, <2>16, LineAgrees
  <2> QED BY <2>11, <2>15, <2>17
<1> QED BY <1>1, <1>2

\* A part of the inputs.
LEMMA SplitAgrees ==
    ASSUME NEW p, IsPath(p), ~p.cut, NEW options, Options(p, options), NEW o \in Split(p, options),
           NEW i \in o.path.cond, NEW m, Agrees(p, i, m)
    PROVE  /\ IsPath(o.path) /\ ~o.path.cut /\ i \in options[o.tag] /\ i \in p.cond
           /\ o.path.position = p.position /\ Held(o.path) = Held(p)
           /\ o.path.data[i] = p.data[i] /\ Agrees(o.path, i, m) /\ o.tag \in DOMAIN options
BY SplitIs DEF Agrees

\* A call that names a string and goes on to n.
LEMMA NamesAgrees ==
    ASSUME NEW p, IsPath(p), NEW i \in p.cond, NEW object
    PROVE  LET s == Strings(ReturnsAll(p, "stream"), object)
           IN Like(p, s) /\ IsPath(s)
              /\ Sees(s.data[i], Append(p.data[i].saw, "stream"), p.data[i].memory, object[i])
<1>1. PICK r : r = ReturnsAll(p, "stream")
  OBVIOUS
<1>2. Like(p, r) /\ IsPath(r) /\ i \in r.cond
  BY <1>1, ReturnsAllLike DEF Like
<1>3. Sees(r.data[i], Append(p.data[i].saw, "stream"), p.data[i].memory, p.data[i].object)
  BY <1>1, ReturnsAllSees
<1>4. PICK s : s = Strings(r, object)
  OBVIOUS
<1>5. Like(r, s)
  BY <1>2, <1>4, StringsLike
<1>6. Like(p, s) /\ IsPath(s)
  BY <1>2, <1>5, LikeBoth DEF Like
<1>7. Sees(s.data[i], r.data[i].saw, r.data[i].memory, object[i])
  BY <1>2, <1>4, StringsSees
<1>8. Sees(s.data[i], Append(p.data[i].saw, "stream"), p.data[i].memory, object[i])
  BY <1>3, <1>7 DEF Sees
<1> QED BY <1>1, <1>4, <1>6, <1>8

LEMMA GetlineOnAgrees ==
    ASSUME NEW p, IsPath(p), ~p.cut, NEW i \in p.cond, NEW m, IsOwn(m), Agrees(p, i, m),
           NEW length, \A j \in p.cond : length[j] \in 0..(Held(p) - p.position),
           NEW all, NEW short, NEW undecided, NEW object,
           object = [text |-> UpTo(Rest(p, i), Clamped(length[i], 0, Kept(all, short))), here |-> short],
           NEW k, k = length[i] + Clamped(1, 0, Held(p) - p.position - length[i])
    PROVE  Agrees(GetlineOn(p, all, length, short, undecided), i,
                  Advanced([Returning(m, "stream") EXCEPT !.object = object], k))
<1>1. PICK c : c = [j \in p.cond |-> [text |-> UpTo(Rest(p, j), Clamped(length[j], 0, Kept(all, short))),
                                      here |-> short]]
  OBVIOUS
<1>2. PICK s : s = Strings(ReturnsAll(p, "stream"), c)
  OBVIOUS
<1>3. /\ Like(p, s) /\ IsPath(s)
      /\ Sees(s.data[i], Append(p.data[i].saw, "stream"), p.data[i].memory, c[i])
  BY <1>2, NamesAgrees
<1>4. c[i] = object
  BY <1>1
<1>5. PICK h : h = Handed(s, p.position, p.position + Kept(all, short), TRUE)
  OBVIOUS
<1>6. Like(p, h) /\ h.data = s.data
  BY <1>3, <1>5, HandedSame, LikeBoth
<1>7. Sees(h.data[i], Append(m.saw, "stream"), m.memory, object)
  BY <1>3, <1>4, <1>6 DEF Sees, Agrees
<1>8. PICK n : n = Advanced([Returning(m, "stream") EXCEPT !.object = object], k)
  OBVIOUS
<1>9. OwnAfter(n, m, m.position + k, Append(m.saw, "stream"), m.memory, object)
  <2>1. PICK a : a = Returning(m, "stream")
    OBVIOUS
  <2>2. PICK b : b = [a EXCEPT !.object = object]
    OBVIOUS
  <2>3. OwnAfter(b, m, m.position, Append(m.saw, "stream"), m.memory, object)
    BY <2>1, <2>2, OwnReturning, OwnNames
  <2> QED BY <1>8, <2>1, <2>2, <2>3, OwnAdvanced
<1>10. OwnAfter(n, m, m.position + (length[i] + Clamped(1, 0, Held(p) - p.position - length[i])),
                h.data[i].saw, h.data[i].memory, h.data[i].object)
  BY <1>7, <1>9 DEF Sees
<1>11. 1 \in Nat
  OBVIOUS
<1>12. Agrees(Past(h, length, 1, undecided), i, n)
  BY <1>6, <1>10, <1>11, PastAgrees
<1>13. GetlineOn(p, all, length, short, undecided) = Past(h, length, 1, undecided)
  BY <1>1, <1>2, <1>5 DEF GetlineOn
<1> QED BY <1>8, <1>12, <1>13

LEMMA GetlineAgrees ==
    ASSUME NEW p, IsPath(p), ~p.cut, NEW m, IsOwn(m), NEW call, NEW undecided,
           NEW q \in Getline(p, undecided), NEW i \in q.cond, i \in p.cond, Agrees(p, i, m)
    PROVE  Agrees(q, i, OwnGetline(m, call))
<1>0. Left(m) = Rest(p, i) /\ (Left(m) = <<>> <=> Drained(p))
  BY AgreesLeft
<1>1. CASE Drained(p)
  <2>1. OwnGetline(m, call) = Returning(m, "stream")
    BY <1>0, <1>1 DEF OwnGetline
  <2>2. q = ReturnsAll(Looked(p), "stream")
    <3>1. Getline(p, undecided) = {ReturnsAll(Looked(p), "stream")}
      BY <1>1 DEF Getline
    <3> QED BY <3>1
  <2> QED BY <2>1, <2>2, EndAgrees
<1>2. CASE ~Drained(p)
  <2>1. PICK all : all = Held(p) - p.position
    OBVIOUS
  <2>2. PICK length : length = [j \in p.cond |-> Before(Rest(p, j), {Newline})]
    OBVIOUS
  <2>3. \A j \in p.cond : length[j] \in 0..(Held(p) - p.position)
    BY <2>2, LineLength
  <2>4. PICK options : options = IF all <= Small THEN [short \in {TRUE} |-> p.cond]
                                 ELSE [short \in BOOLEAN |-> {j \in p.cond : short = (length[j] <= Small)}]
    OBVIOUS
  <2>5. Options(p, options)
    BY <2>4 DEF Options
  <2>6. PICK o \in Split(p, options) : q = GetlineOn(o.path, all, length, o.tag, undecided)
    <3>1. Getline(p, undecided) = {GetlineOn(o.path, all, length, o.tag, undecided) : o \in Split(p, options)}
      BY <1>2, <2>1, <2>2, <2>4 DEF Getline
    <3> QED BY <3>1
  <2>7. PICK b, short : b = o.path /\ short = o.tag
    OBVIOUS
  <2>8. /\ IsPath(b) /\ b.cond \subseteq p.cond /\ b.position = p.position /\ Held(b) = Held(p)
        /\ b.cond = options[short] /\ short \in DOMAIN options
    BY <2>5, <2>7, SplitIs
  <2>9. \A j \in b.cond : length[j] \in 0..(Held(b) - b.position)
    BY <2>3, <2>8
  <2>10. i \in b.cond
    BY <2>6, <2>7, <2>8, <2>9, GetlineOnPath
  <2>11. ~b.cut /\ Agrees(b, i, m) /\ b.data[i] = p.data[i]
    BY <2>5, <2>7, <2>10, SplitAgrees
  <2>12. Rest(b, i) = Rest(p, i)
    BY <2>8, <2>11 DEF Rest
  <2>13. PICK l : l = Before(Left(m), {Newline})
    OBVIOUS
  <2>14. length[i] = l /\ l \in 0..all
    BY <1>0, <2>1, <2>2, <2>3, <2>13
  <2>15. Left(m) \in Seq(Bytes) /\ Len(Left(m)) = all /\ all \in Nat /\ Small \in Nat
    BY <1>0, <2>1, RestIs, HeldIs, StreamAssumption
  <2>16. PICK object : object = Text(OwnLine(m, l))
    OBVIOUS
  <2>17. Len(UpTo(Left(m), l)) = l
    BY <2>14, <2>15, UpToIs
  <2>18. short = (l <= Small) /\ Clamped(l, 0, Kept(all, short)) = l
    <3>1. CASE all <= Small
      <4>1. options = [t \in {TRUE} |-> p.cond]
        BY <2>4, <3>1
      <4>2. short = TRUE
        BY <2>8, <4>1
      <4>3. Kept(all, short) = all
        BY <2>15, <3>1, <4>2 DEF Kept, Clamped
      <4>4. l <= Small
        BY <2>14, <2>15, <3>1
      <4>5. Clamped(l, 0, Kept(all, short)) = l
        BY <2>14, <2>15, <4>3 DEF Clamped
      <4>6. short = (l <= Small)
        BY <4>2, <4>4, Zenon
      <4> QED BY <4>5, <4>6
    <3>2. CASE ~(all <= Small)
      <4>1. options = [t \in BOOLEAN |-> {j \in p.cond : t = (length[j] <= Small)}]
        BY <2>4, <3>2
      <4>2. short \in BOOLEAN /\ short = (l <= Small)
        BY <2>8, <2>10, <2>14, <4>1
      <4>3. CASE short = TRUE
        <5>0. Kept(all, short) = Clamped(Small, 0, all)
          BY <4>3, Zenon DEF Kept
        <5>1. Kept(all, short) = Small /\ l <= Small
          <6>1. l <= Small
            BY <4>2, <4>3, Zenon
          <6> QED BY <2>15, <3>2, <5>0, <6>1 DEF Clamped
        <5>2. Clamped(l, 0, Small) = l
          BY <2>14, <2>15, <5>1 DEF Clamped
        <5> QED BY <4>2, <5>1, <5>2
      <4>4. CASE short = FALSE
        <5>1. Kept(all, short) = all
          BY <4>4 DEF Kept
        <5>2. Clamped(l, 0, all) = l
          BY <2>14, <2>15 DEF Clamped
        <5> QED BY <4>2, <5>1, <5>2
      <4> QED BY <4>2, <4>3, <4>4
    <3> QED BY <3>1, <3>2
  <2>19. object = [text |-> UpTo(Rest(b, i), Clamped(length[i], 0, Kept(all, short))), here |-> short]
    <3>1. object = [text |-> UpTo(Left(m), l), here |-> l <= Small]
      BY <2>16, <2>17 DEF Text, OwnLine
    <3>2. UpTo(Rest(b, i), Clamped(length[i], 0, Kept(all, short))) = UpTo(Left(m), l)
      BY <1>0, <2>12, <2>14, <2>18
    <3>3. short = (l <= Small)
      BY <2>18
    <3> QED BY <3>1, <3>2, <3>3, Zenon
  <2>20. PICK k : k = l + (IF l < Len(Left(m)) THEN 1 ELSE 0)
    OBVIOUS
  <2>21. k = length[i] + Clamped(1, 0, Held(b) - b.position - length[i])
    BY <2>1, <2>8, <2>14, <2>15, <2>20 DEF Clamped
  <2>22. OwnGetline(m, call) = Advanced([Returning(m, "stream") EXCEPT !.object = object], k)
    BY <1>0, <1>2, <2>13, <2>16, <2>20 DEF OwnGetline
  <2>23. Agrees(GetlineOn(b, all, length, short, undecided), i,
                Advanced([Returning(m, "stream") EXCEPT !.object = object], k))
    BY <2>8, <2>9, <2>10, <2>11, <2>19, <2>21, GetlineOnAgrees
  <2> QED BY <2>6, <2>7, <2>22, <2>23
<1> QED BY <1>1, <1>2

LEMMA BlockAgrees ==
    ASSUME NEW p, IsPath(p), ~p.cut, NEW i \in p.cond, NEW m, IsOwn(m), Agrees(p, i, m),
           NEW call, call.size \in Int
    PROVE  Agrees(Block(p, call), i, OwnRead(m, call))
<1>1. PICK taken : taken = Clamped(call.size, 0, Held(p) - p.position)
  OBVIOUS
<1>2. taken \in 0..(Held(p) - p.position)
  <2>1. Held(p) - p.position \in Int /\ 0 <= Held(p) - p.position
    BY HeldIs
  <2> QED BY <1>1, <2>1 DEF Clamped
<1>3. PICK cells : cells = UpTo(Left(m), taken)
  OBVIOUS
<1>4. Left(m) = Rest(p, i) /\ Left(m) \in Seq(Bytes) /\ Len(Left(m)) = Held(p) - p.position
  BY AgreesLeft, RestIs
<1>5. Len(cells) = taken /\ cells = UpTo(Left(m), Clamped(call.size, 0, Len(Left(m))))
  BY <1>1, <1>2, <1>3, <1>4, UpToIs
<1>6. PICK v : v = taken \div call.unit
  OBVIOUS
<1>7. PICK content : content = [j \in p.cond |-> UpTo(Rest(p, j), taken)]
  OBVIOUS
<1>8. PICK w : w = Writes(p, 1, content)
  OBVIOUS
<1>9. Like(p, w) /\ IsPath(w) /\ i \in w.cond
  BY <1>8, WritesLike DEF Like
<1>10. Sees(w.data[i], p.data[i].saw, Put(p.data[i].memory, 1, cells), p.data[i].object)
  <2>1. content[i] = cells
    BY <1>3, <1>4, <1>7
  <2>2. Sees(w.data[i], p.data[i].saw, Put(p.data[i].memory, 1, content[i]), p.data[i].object)
    BY <1>8, WritesSees
  <2> QED BY <2>1, <2>2
<1>11. PICK r : r = ReturnsAll(w, v)
  OBVIOUS
<1>12. Like(p, r) /\ IsPath(r)
  BY <1>9, <1>11, ReturnsAllLike, LikeBoth DEF Like
<1>13. Sees(r.data[i], Append(w.data[i].saw, v), w.data[i].memory, w.data[i].object)
  BY <1>9, <1>11, ReturnsAllSees
<1>14. Block(p, call) = Advance(r, taken)
  BY <1>1, <1>6, <1>7, <1>8, <1>11 DEF Block, Copied
<1>15. taken \in 0..(Held(r) - r.position) /\ r.position = p.position
  BY <1>2, <1>12, LikeHeld DEF Like
<1>16. PICK a : a = Advance(r, taken)
  OBVIOUS
<1>17. OnTo(p, a) /\ a.position = m.position + taken /\ a.data = r.data
  <2>1. OnTo(r, a) /\ a.position = r.position + taken /\ a.data = r.data
    BY <1>12, <1>15, <1>16, AdvanceIs
  <2>2. OnTo(p, r)
    BY <1>12, LikeOn
  <2> QED BY <1>15, <2>1, <2>2, OnBoth DEF Agrees
<1>18. Sees(a.data[i], Append(m.saw, v), Put(m.memory, 1, cells), m.object)
  BY <1>10, <1>13, <1>17 DEF Sees, Agrees
<1>19. PICK n : n = Advanced([Returning(m, v) EXCEPT !.memory = Put(@, 1, cells)], taken)
  OBVIOUS
<1>20. OwnAfter(n, m, m.position + taken, Append(m.saw, v), Put(m.memory, 1, cells), m.object)
  <2>1. PICK b : b = Returning(m, v)
    OBVIOUS
  <2>2. PICK c : c = [b EXCEPT !.memory = Put(@, 1, cells)]
    OBVIOUS
  <2>3. OwnAfter(c, m, m.position, Append(m.saw, v), Put(m.memory, 1, cells), m.object)
    BY <2>1, <2>2, OwnReturning, OwnPuts
  <2> QED BY <1>19, <2>1, <2>2, <2>3, OwnAdvanced
<1>21. OwnAfter(n, m, a.position, a.data[i].saw, a.data[i].memory, a.data[i].object)
  BY <1>17, <1>18, <1>20 DEF Sees
<1>22. OwnRead(m, call) = n
  BY <1>5, <1>6, <1>19 DEF OwnRead
<1> QED BY <1>14, <1>16, <1>17, <1>21, <1>22, AgreesOn

\* Looking at a stream that is not cut.
LEMMA LookedAgrees ==
    ASSUME NEW p, IsPath(p), NEW i \in p.cond, NEW m, Agrees(p, i, m)
    PROVE  /\ IsPath(Looked(p)) /\ Looked(p).cond = p.cond /\ Looked(p).position = p.position
           /\ Looked(p).cut = p.cut /\ Agrees(Looked(p), i, m)
<1>1. PICK l : l = Looked(p)
  OBVIOUS
<1>2. Like(p, l) /\ l.data = p.data
  BY <1>1, LookedLike, SameData
<1>3. Drained(l) = Drained(p)
  BY <1>2, LikeHeld
<1> QED BY <1>1, <1>2, <1>3 DEF Like, Agrees

LEMMA ReadAgrees ==
    ASSUME NEW p, IsPath(p), ~p.cut, NEW i \in p.cond, NEW m, IsOwn(m), Agrees(p, i, m),
           NEW call, call.size \in Int
    PROVE  /\ \A q \in Read(p, call) : Agrees(q, i, OwnRead(m, call))
           /\ \A q \in Fread(p, call) : Agrees(q, i, OwnRead(m, call))
<1>1. PICK l : l = Looked(p)
  OBVIOUS
<1>2. IsPath(l) /\ ~l.cut /\ i \in l.cond /\ Agrees(l, i, m)
  BY <1>1, LookedAgrees
<1>3. PICK b : b = Block(l, call)
  OBVIOUS
<1>4. Agrees(b, i, OwnRead(m, call))
  BY <1>2, <1>3, BlockAgrees
<1>5. IsPath(b) /\ i \in b.cond
  BY <1>2, <1>3, BlockOn DEF OnTo
<1>6. \A first, last, byLine : Agrees(Handed(b, first, last, byLine), i, OwnRead(m, call))
  BY <1>4, <1>5, HandedAgrees
<1>7. Read(p, call) = {Handed(b, p.position, Block(p, call).position, FALSE)} /\ Fread(p, call) = {b}
  BY <1>1, <1>3 DEF Read, Fread
<1> QED BY <1>4, <1>6, <1>7

LEMMA FeofAgrees ==
    ASSUME NEW p, IsPath(p), ~p.cut, NEW i \in p.cond, NEW m, IsOwn(m), Agrees(p, i, m), NEW call
    PROVE  /\ \A q \in Feof(p, call) : Agrees(q, i, OwnEof(m, call))
           /\ \A q \in Ftell(p, call) : Agrees(q, i, OwnTell(m, call))
<1>1. PICK v : v = Drained(p)
  OBVIOUS
<1>2. (Left(m) = <<>>) = v
  <2>1. (Left(m) = <<>>) <=> Drained(p)
    BY AgreesLeft
  <2>2. Drained(p) \in BOOLEAN
    BY DEF Drained
  <2> QED BY <1>1, <2>1, <2>2, Zenon
<1>3. Feof(p, call) = {ReturnsAll(Looked(p), v)} /\ OwnEof(m, call) = Returning(m, v)
  BY <1>1, <1>2, Zenon DEF Feof, OwnEof
<1>4. Ftell(p, call) = {ReturnsAll(Looked(p), p.position)} /\ OwnTell(m, call) = Returning(m, p.position)
  BY DEF Ftell, OwnTell, Agrees
<1> QED BY <1>3, <1>4, EndAgrees

LEMMA MovedAgrees ==
    ASSUME NEW p, IsPath(p), ~p.cut, NEW i \in p.cond, NEW m, Agrees(p, i, m), NEW n \in 0..Held(p),
           DOMAIN m = OwnFields
    PROVE  Agrees(Moved(p, n), i, [m EXCEPT !.position = n])
<1>1. PICK q, k : q = Moved(p, n) /\ k = [m EXCEPT !.position = n]
  OBVIOUS
<1>2. OnTo(p, q) /\ q.position = n /\ q.data = p.data
  BY <1>1, MovedOn
<1>3. OwnAfter(k, m, n, m.saw, m.memory, m.object)
  BY <1>1 DEF OwnAfter, OwnFields, Sees
<1>4. OwnAfter(k, m, q.position, q.data[i].saw, q.data[i].memory, q.data[i].object)
  BY <1>2, <1>3 DEF Agrees, Sees
<1> QED BY <1>1, <1>2, <1>4, AgreesOn

LEMMA FseekAgrees ==
    ASSUME NEW p, IsPath(p), ~p.cut, NEW i \in p.cond, NEW m, IsOwn(m), Agrees(p, i, m), NEW call,
           call.whence \in {"set", "cur", "end"}, call.offset \in Int
    PROVE  \A q \in Fseek(p, call) : Agrees(q, i, OwnSeek(m, call))
<1>1. Held(p) \in Nat /\ p.position \in Nat /\ p.position = m.position /\ Len(m.content) = Held(p)
  BY HeldIs DEF IsPath, Agrees
<1>2. SeekFrom(call, p.position, Held(p)) \in Int
  <2>1. CASE call.whence = "set"
    BY <2>1 DEF SeekFrom
  <2>2. CASE call.whence = "cur"
    BY <1>1, <2>2 DEF SeekFrom
  <2>3. CASE call.whence = "end"
    BY <1>1, <2>3 DEF SeekFrom
  <2> QED BY <2>1, <2>2, <2>3
<1>3. PICK c : c = SeekFrom(call, p.position, Held(p)) + call.offset
  OBVIOUS
<1>4. PICK n : n = Clamped(c, 0, Held(p))
  OBVIOUS
<1>5. c \in Int /\ n \in 0..Held(p)
  BY <1>1, <1>2, <1>3, <1>4 DEF Clamped
<1>6. PICK r, a : r = ReturnsAll(Looked(p), 0) /\ a = Returning(m, 0)
  OBVIOUS
<1>7. Agrees(r, i, a) /\ Like(p, r)
  BY <1>6, EndAgrees, EndLike
<1>8. IsPath(r) /\ ~r.cut /\ i \in r.cond /\ n \in 0..Held(r)
  BY <1>5, <1>7, LikeHeld DEF Like
<1>9. DOMAIN a = OwnFields
  BY <1>6, OwnReturning DEF OwnAfter
<1>10. Agrees(Moved(r, n), i, [a EXCEPT !.position = n])
  BY <1>7, <1>8, <1>9, MovedAgrees
<1>11. Fseek(p, call) = {Moved(r, n)}
  BY <1>3, <1>4, <1>6 DEF Fseek
<1>12. OwnSeek(m, call) = [a EXCEPT !.position = n]
  BY <1>1, <1>3, <1>4, <1>6 DEF OwnSeek
<1> QED BY <1>10, <1>11, <1>12

LEMMA FopenAgrees ==
    ASSUME NEW p, IsPath(p), ~p.cut, NEW i \in p.cond, NEW m, IsOwn(m), Agrees(p, i, m), NEW call
    PROVE  \A q \in Fopen(p, call) : Agrees(q, i, OwnOpen(m, call))
<1>1. PICK r, a : r = ReturnsAll(p, "stream") /\ a = Returning(m, "stream")
  OBVIOUS
<1>2. Like(p, r) /\ Sees(r.data[i], Append(p.data[i].saw, "stream"), p.data[i].memory, p.data[i].object)
  BY <1>1, ReturnsAllLike, ReturnsAllSees
<1>3. OwnAfter(a, m, m.position, Append(m.saw, "stream"), m.memory, m.object)
  BY <1>1, OwnReturning
<1>4. OwnAfter(a, m, r.position, r.data[i].saw, r.data[i].memory, r.data[i].object)
  BY <1>2, <1>3 DEF Agrees, Sees, Like
<1>5. Agrees(r, i, a)
  BY <1>2, <1>4, LikeOn, AgreesOn
<1>6. IsPath(r) /\ ~r.cut /\ i \in r.cond /\ 0 \in 0..Held(r) /\ DOMAIN a = OwnFields
  BY <1>2, <1>3, HeldIs DEF Like, OwnAfter
<1>7. Agrees(Moved(r, 0), i, [a EXCEPT !.position = 0])
  BY <1>5, <1>6, MovedAgrees
<1> QED BY <1>1, <1>7 DEF Fopen, OwnOpen

LEMMA FwriteAgrees ==
    ASSUME NEW p, IsPath(p), NEW i \in p.cond, NEW m, IsOwn(m), Agrees(p, i, m),
           NEW call, call.bytes \in Seq(Bytes)
    PROVE  \A q \in Fwrite(p, call) : Agrees(q, i, OwnWrite(m, call))
<1>1. PICK n : n = Len(call.bytes)
  OBVIOUS
<1>2. n \in Nat /\ Held(p) \in Nat /\ p.position \in 0..Held(p) /\ p.position + n \in Nat
  BY <1>1, HeldIs, LenProperties
<1>3. PICK d : d = [j \in p.cond |-> [p.data[j] EXCEPT !.content = UpTo(@, p.position) \o call.bytes]]
  OBVIOUS
<1>4. PICK w : w = [p EXCEPT !.data = d]
  OBVIOUS
<1>5. /\ DOMAIN w = PathFields /\ w.cond = p.cond /\ w.position = p.position /\ w.data = d
      /\ w.cut = p.cut
  BY <1>4 DEF IsPath, PathFields
<1>6. ASSUME NEW j \in w.cond
      PROVE  /\ DOMAIN w.data[j] = DataFields
             /\ w.data[j].content = UpTo(p.data[j].content, p.position) \o call.bytes
             /\ w.data[j].content \in Seq(Bytes) /\ Len(w.data[j].content) = p.position + n
             /\ Sees(w.data[j], p.data[j].saw, p.data[j].memory, p.data[j].object)
  <2>1. DOMAIN p.data[j] = DataFields /\ p.data[j].content \in Seq(Bytes) /\ Len(p.data[j].content) = Held(p)
    BY <1>5 DEF IsPath
  <2>2. w.data[j] = [p.data[j] EXCEPT !.content = UpTo(@, p.position) \o call.bytes]
    BY <1>3, <1>5
  <2>3. /\ DOMAIN w.data[j] = DataFields /\ w.data[j].content = UpTo(p.data[j].content, p.position) \o call.bytes
        /\ Sees(w.data[j], p.data[j].saw, p.data[j].memory, p.data[j].object)
    BY <2>1, <2>2 DEF DataFields, Sees
  <2>4. PICK u : u = UpTo(p.data[j].content, p.position)
    OBVIOUS
  <2>5. u \in Seq(Bytes) /\ Len(u) = p.position
    BY <1>2, <2>1, <2>4, UpToIs
  <2>6. u \o call.bytes \in Seq(Bytes) /\ Len(u \o call.bytes) = p.position + n
    BY <1>1, <2>5, ConcatProperties
  <2> QED BY <2>3, <2>4, <2>6
<1>7. w.position \in 0..(p.position + n) /\ w.cond # {} /\ DOMAIN w.data = w.cond
  BY <1>2, <1>3, <1>5 DEF IsPath
<1>8. IsPath(w) /\ Held(w) = p.position + n
  BY <1>2, <1>5, <1>6, <1>7, PathFrom
<1>9. PICK r : r = ReturnsAll(w, n)
  OBVIOUS
<1>10. Like(w, r) /\ Sees(r.data[i], Append(w.data[i].saw, n), w.data[i].memory, w.data[i].object)
  BY <1>5, <1>8, <1>9, ReturnsAllLike, ReturnsAllSees
<1>11. IsPath(r) /\ Held(r) = p.position + n /\ p.position + n \in 0..Held(r)
  BY <1>2, <1>8, <1>10, LikeHeld DEF Like
<1>12. PICK q : q = Moved(r, p.position + n)
  OBVIOUS
<1>13. OnTo(r, q) /\ q.position = p.position + n /\ q.data = r.data /\ Held(q) = Held(r)
  BY <1>11, <1>12, MovedOn, OnHeld
<1>14. Sees(q.data[i], Append(m.saw, n), m.memory, m.object)
  <2>1. Sees(w.data[i], p.data[i].saw, p.data[i].memory, p.data[i].object)
    BY <1>5, <1>6
  <2> QED BY <1>10, <1>13, <2>1 DEF Sees, Agrees
<1>15. PICK kept : kept = UpTo(m.content, m.position) \o call.bytes
  OBVIOUS
<1>16. PICK o : o = OwnWrite(m, call)
  OBVIOUS
<1>17. Sees(q.data[i], o.saw, o.memory, o.object) /\ o.content = kept /\ o.position = Len(kept)
  <2>1. PICK a : a = Returning(m, n)
    OBVIOUS
  <2>2. OwnAfter(a, m, m.position, Append(m.saw, n), m.memory, m.object)
    BY <2>1, OwnReturning
  <2>3. o = [a EXCEPT !.content = kept, !.position = Len(kept)]
    BY <1>1, <1>15, <1>16, <2>1 DEF OwnWrite
  <2> QED BY <1>14, <2>2, <2>3 DEF OwnAfter, OwnFields, Sees
<1>18. q.cut = p.cut /\ q.data[i].content = UpTo(p.data[i].content, p.position) \o call.bytes
  BY <1>5, <1>6, <1>10, <1>13 DEF Like, OnTo
<1>19. Agrees(q, i, o)
  <2>1. CASE p.cut
    <3>1. Drained(q)
      BY <1>2, <1>11, <1>13 DEF Drained
    <3> QED BY <1>17, <1>18, <2>1, <3>1 DEF Agrees
  <2>2. CASE ~p.cut
    <3>1. kept = UpTo(p.data[i].content, p.position) \o call.bytes
      BY <1>15, <2>2 DEF Agrees
    <3>2. Len(kept) = p.position + n
      BY <1>5, <1>6, <3>1
    <3> QED BY <1>13, <1>17, <1>18, <2>2, <3>1, <3>2 DEF Agrees
  <2> QED BY <2>1, <2>2
<1>20. Fwrite(p, call) = {q}
  BY <1>1, <1>3, <1>4, <1>9, <1>12 DEF Fwrite
<1> QED BY <1>16, <1>19, <1>20

\* A path whose stream was cut, at the end of what is left of it, says so with the next call.
LEMMA CutNotes ==
    ASSUME NEW p, IsPath(p), p.cut, Drained(p), NEW q, Minds(AtEnd(p), q) \/ Minds(Looked(p), q)
    PROVE  q.noted
<1>1. Looked(p) = AtEnd(p)
  BY DEF Looked
<1>2. AtEnd(p).noted
  BY DEF AtEnd, IsPath, PathFields
<1> QED BY <1>1, <1>2 DEF Minds

LEMMA EndNotes ==
    ASSUME NEW p, IsPath(p), p.cut, Drained(p), NEW v
    PROVE  ReturnsAll(AtEnd(p), v).noted /\ ReturnsAll(Looked(p), v).noted
<1>1. IsPath(AtEnd(p)) /\ IsPath(Looked(p))
  BY LookedLike DEF Like
<1>2. Minds(AtEnd(p), ReturnsAll(AtEnd(p), v)) /\ Minds(Looked(p), ReturnsAll(Looked(p), v))
  BY <1>1, ReturnsAllLike DEF Like
<1> QED BY <1>2, CutNotes

LEMMA ModelsNote ==
    ASSUME NEW p, IsPath(p), p.cut, Drained(p), NEW call, NEW undecided
    PROVE  /\ \A q \in Getchar(p, call) \cup Fgetc(p, call) : q.noted
           /\ \A q \in Gets(p, undecided) \cup Getline(p, undecided) : q.noted
           /\ \A q \in Fgets(p, call.size, undecided) : q.noted
           /\ \A q \in Feof(p, call) \cup Ftell(p, call) : q.noted
<1>1. Getchar(p, call) = {ReturnsAll(AtEnd(p), Eof)} /\ Fgetc(p, call) = {ReturnsAll(Looked(p), Eof)}
  BY DEF Getchar, Fgetc
<1>2. Gets(p, undecided) = {ReturnsAll(AtEnd(p), Nul)}
  BY DEF Gets
<1>3. Getline(p, undecided) = {ReturnsAll(Looked(p), "stream")}
  BY DEF Getline
<1>4. Fgets(p, call.size, undecided) = {ReturnsAll(Looked(p), Nul)}
  BY DEF Fgets
<1>5. PICK v, w : Feof(p, call) = {ReturnsAll(Looked(p), v)} /\ Ftell(p, call) = {ReturnsAll(Looked(p), w)}
  BY DEF Feof, Ftell
<1> QED BY <1>1, <1>2, <1>3, <1>4, <1>5, EndNotes

LEMMA BlocksNote ==
    ASSUME NEW p, IsPath(p), p.cut, Drained(p), NEW call, call.size \in Int
    PROVE  \A q \in Read(p, call) \cup Fread(p, call) : q.noted
<1>1. PICK l : l = Looked(p)
  OBVIOUS
<1>2. IsPath(l)
  BY <1>1, LookedLike DEF Like
<1>3. PICK b : b = Block(l, call)
  OBVIOUS
<1>4. OnTo(l, b)
  BY <1>2, <1>3, BlockOn
<1>5. PICK h : h = Handed(b, p.position, Block(p, call).position, FALSE)
  OBVIOUS
<1>6. OnTo(l, h)
  BY <1>4, <1>5, HandedOn
<1>7. b.noted /\ h.noted
  BY <1>1, <1>4, <1>6, CutNotes DEF OnTo
<1>8. Read(p, call) = {h} /\ Fread(p, call) = {b}
  BY <1>1, <1>3, <1>5 DEF Read, Fread
<1> QED BY <1>7, <1>8

LEMMA SeekNotes ==
    ASSUME NEW p, IsPath(p), p.cut, Drained(p), NEW call
    PROVE  \A q \in Fseek(p, call) : q.noted
<1>1. PICK r : r = ReturnsAll(Looked(p), 0)
  OBVIOUS
<1>2. r.noted /\ IsPath(r)
  <2>1. IsPath(r)
    BY <1>1, EndLike DEF Like
  <2> QED BY <1>1, <2>1, EndNotes
<1>3. \A n : Moved(r, n).noted
  BY <1>2 DEF Moved, IsPath, PathFields
<1> QED BY <1>1, <1>3 DEF Fseek

-----------------------------------------------------------------------------
(* Nor do `in >> s` and the runs of bytes it is about.                       *)

LEMMA FromFrom ==
    ASSUME NEW T, NEW s \in Seq(T), NEW a \in 0..Len(s), NEW b \in 0..(Len(s) - a)
    PROVE  From(From(s, a), b) = From(s, a + b)
<1>1. Len(s) \in Nat
  BY LenProperties
<1>2. PICK u : u = From(s, a)
  OBVIOUS
<1>3. u \in Seq(T) /\ Len(u) = Len(s) - a /\ \A n \in 1..(Len(s) - a) : u[n] = s[a + n]
  BY <1>2, FromIs
<1>4. b \in 0..Len(u)
  BY <1>3
<1>5. PICK v : v = From(u, b)
  OBVIOUS
<1>6. v \in Seq(T) /\ Len(v) = Len(u) - b /\ \A n \in 1..(Len(u) - b) : v[n] = u[b + n]
  BY <1>3, <1>4, <1>5, FromIs
<1>7. PICK c : c = a + b
  OBVIOUS
<1>8. c \in 0..Len(s)
  BY <1>1, <1>7
<1>9. PICK w : w = From(s, c)
  OBVIOUS
<1>10. w \in Seq(T) /\ Len(w) = Len(s) - c /\ \A n \in 1..(Len(s) - c) : w[n] = s[c + n]
  BY <1>8, <1>9, FromIs
<1>11. Len(v) = Len(w)
  BY <1>1, <1>3, <1>6, <1>7, <1>10
<1>12. ASSUME NEW n \in 1..Len(v) PROVE v[n] = w[n]
  <2>1. n \in 1..(Len(u) - b) /\ b + n \in 1..(Len(s) - a) /\ n \in 1..(Len(s) - c)
    BY <1>1, <1>3, <1>6, <1>7, <1>10, <1>11
  <2>2. v[n] = u[b + n] /\ u[b + n] = s[a + (b + n)] /\ w[n] = s[c + n]
    BY <1>3, <1>6, <1>10, <2>1
  <2>3. a + (b + n) = c + n
    BY <1>7, <2>1
  <2> QED BY <2>2, <2>3
<1>13. v = w
  BY <1>6, <1>10, <1>11, <1>12, SeqEqual
<1> QED BY <1>2, <1>5, <1>7, <1>9, <1>13

\* What is left of the stream of input i, k bytes on.
LEMMA RestFrom ==
    ASSUME NEW p, IsPath(p), NEW i \in p.cond, NEW k \in 0..(Held(p) - p.position)
    PROVE  /\ From(Rest(p, i), k) \in Seq(Bytes) /\ Len(From(Rest(p, i), k)) = Held(p) - p.position - k
           /\ \A n \in 0..(Held(p) - p.position - k - 1) :
                 From(Rest(p, i), k)[n + 1] = At(p, i, p.position + (k + n))
           /\ From(Rest(p, i), k) = From(p.data[i].content, p.position + k)
<1>1. PICK all, r : all = Held(p) - p.position /\ r = Rest(p, i)
  OBVIOUS
<1>2. /\ r \in Seq(Bytes) /\ Len(r) = all
      /\ \A n \in 0..(all - 1) : r[n + 1] = At(p, i, p.position + n)
  BY <1>1, RestIs
<1>3. all \in Nat /\ p.position \in Nat /\ k \in 0..Len(r) /\ k \in 0..all
  BY <1>1, <1>2, HeldIs
<1>4. PICK f : f = From(r, k)
  OBVIOUS
<1>5. /\ f \in Seq(Bytes) /\ Len(f) = Len(r) - k
      /\ \A n \in 1..(Len(r) - k) : f[n] = r[k + n]
  BY <1>2, <1>3, <1>4, FromIs
<1>6. ASSUME NEW n \in 0..(all - k - 1) PROVE f[n + 1] = At(p, i, p.position + (k + n))
  <2>1. n + 1 \in 1..(Len(r) - k) /\ k + n \in 0..(all - 1) /\ k + (n + 1) = k + n + 1
    BY <1>2, <1>3
  <2>2. f[n + 1] = r[k + n + 1]
    BY <1>5, <2>1
  <2> QED BY <1>2, <2>1, <2>2
<1>7. f = From(p.data[i].content, p.position + k)
  <2>1. p.data[i].content \in Seq(Bytes) /\ Len(p.data[i].content) = Held(p)
    BY DEF IsPath
  <2>2. p.position \in 0..Len(p.data[i].content) /\ k \in 0..(Len(p.data[i].content) - p.position)
    BY <2>1, HeldIs
  <2> QED BY <1>1, <1>4, <2>1, <2>2, FromFrom DEF Rest
<1> QED BY <1>1, <1>2, <1>4, <1>5, <1>6, <1>7

\* A run and what the interpreter finds before the first byte that is not of it.
LEMMA RunBefore ==
    ASSUME NEW w \in Seq(Bytes), NEW F, NEW stops, NEW length, RunOf(F, Len(w), length),
           \A n \in 0..(Len(w) - 1) : n \in F <=> w[n + 1] \notin stops
    PROVE  Before(w, stops) = length
<1>1. Len(w) \in Nat /\ length \in 0..Len(w)
  BY LenProperties DEF RunOf
<1>2. ASSUME NEW k \in 1..length PROVE w[k] \notin stops
  <2>1. k - 1 \in 0..(length - 1) /\ k - 1 \in 0..(Len(w) - 1) /\ (k - 1) + 1 = k
    BY <1>1
  <2>2. k - 1 \in F
    BY <2>1 DEF RunOf
  <2> QED BY <2>1, <2>2
<1>3. ASSUME length < Len(w) PROVE w[length + 1] \in stops
  <2>1. length \in 0..(Len(w) - 1) /\ length \notin F
    BY <1>1, <1>3 DEF RunOf
  <2> QED BY <2>1
<1> QED BY <1>1, <1>2, <1>3, BeforeUnique

LEMMA TokenOnAgrees ==
    ASSUME NEW p, IsPath(p), ~p.cut, NEW i \in p.cond, NEW m, IsOwn(m), Agrees(p, i, m),
           NEW first, NEW last \in 0..Held(p), NEW object,
           object = Text(SubSeq(p.data[i].content, first + 1, last)),
           NEW k \in Nat, last = p.position + k
    PROVE  Agrees(TokenOn(p, first, last), i, Advanced([Returning(m, "stream") EXCEPT !.object = object], k))
<1>1. PICK c : c = [j \in p.cond |-> Text(SubSeq(p.data[j].content, first + 1, last))]
  OBVIOUS
<1>2. PICK s : s = Strings(ReturnsAll(p, "stream"), c)
  OBVIOUS
<1>3. /\ Like(p, s) /\ IsPath(s)
      /\ Sees(s.data[i], Append(p.data[i].saw, "stream"), p.data[i].memory, c[i])
  BY <1>2, NamesAgrees
<1>4. c[i] = object
  BY <1>1
<1>5. PICK a : a = Moved(s, last)
  OBVIOUS
<1>6. last \in 0..Held(s)
  BY <1>3, LikeHeld
<1>7. OnTo(s, a) /\ a.position = last /\ a.data = s.data
  BY <1>3, <1>5, <1>6, MovedOn
<1>8. OnTo(p, a) /\ IsPath(a) /\ i \in a.cond
  BY <1>3, <1>7, LikeOn, OnBoth DEF OnTo
<1>9. PICK n : n = Advanced([Returning(m, "stream") EXCEPT !.object = object], k)
  OBVIOUS
<1>10. OwnAfter(n, m, m.position + k, Append(m.saw, "stream"), m.memory, object)
  <2>1. PICK x : x = Returning(m, "stream")
    OBVIOUS
  <2>2. PICK b : b = [x EXCEPT !.object = object]
    OBVIOUS
  <2>3. OwnAfter(b, m, m.position, Append(m.saw, "stream"), m.memory, object)
    BY <2>1, <2>2, OwnReturning, OwnNames
  <2> QED BY <1>9, <2>1, <2>2, <2>3, OwnAdvanced
<1>11. a.position = m.position + k
  BY <1>7 DEF Agrees
<1>12. Sees(a.data[i], Append(m.saw, "stream"), m.memory, object)
  BY <1>3, <1>4, <1>7 DEF Sees, Agrees
<1>13. OwnAfter(n, m, a.position, a.data[i].saw, a.data[i].memory, a.data[i].object)
  BY <1>10, <1>11, <1>12 DEF Sees
<1>14. Agrees(a, i, n)
  BY <1>8, <1>13, AgreesOn
<1>15. Agrees(Handed(a, first, last, FALSE), i, n)
  BY <1>8, <1>14, HandedAgrees
<1>16. TokenOn(p, first, last) = Handed(a, first, last, FALSE)
  BY <1>1, <1>2, <1>5 DEF TokenOn
<1> QED BY <1>9, <1>15, <1>16

LEMMA TokenAgrees ==
    ASSUME NEW p, IsPath(p), ~p.cut, ~Drained(p), NEW m, IsOwn(m), NEW call,
           NEW q \in Token(p, call), NEW i \in q.cond, i \in p.cond, Agrees(p, i, m)
    PROVE  Agrees(q, i, OwnToken(m, call))
<1> DEFINE from(t) == p.position + t.skipped
<1>1. PICK options : options = TokenOptions(p)
  OBVIOUS
<1>2. Options(p, options)
  BY <1>1, TokenExclusive
<1>3. PICK o \in Split(p, options) : q = TokenOn(o.path, from(o.tag), from(o.tag) + o.tag.length)
  <2>1. Token(p, call) = {TokenOn(o.path, from(o.tag), from(o.tag) + o.tag.length) : o \in Split(p, options)}
    BY <1>1 DEF Token, TokenOptions, TokenTags, TokenFits
  <2> QED BY <2>1
<1>4. PICK b, t : b = o.path /\ t = o.tag
  OBVIOUS
<1>5. PICK all : all = Held(p) - p.position
  OBVIOUS
<1>6. /\ IsPath(b) /\ b.cond = options[t] /\ b.position = p.position /\ Held(b) = Held(p)
      /\ t \in TokenTags(p)
  <2>1. /\ IsPath(b) /\ b.cond = options[t] /\ b.position = p.position /\ Held(b) = Held(p)
        /\ t \in DOMAIN options
    BY <1>2, <1>4, SplitIs
  <2>2. DOMAIN options = TokenTags(p)
    BY <1>1 DEF TokenOptions
  <2> QED BY <2>1, <2>2
<1>7. PICK k, l : k = t.skipped /\ l = t.length
  OBVIOUS
<1>8. /\ k \in 0..1 /\ l \in 1..all /\ k + l <= all /\ all \in Nat /\ p.position \in Nat
      /\ Held(p) = p.position + all
  BY <1>5, <1>6, <1>7, HeldIs DEF TokenTags
<1>9. PICK first, last : first = p.position + k /\ last = first + l
  OBVIOUS
<1>10. last \in 0..Held(b) /\ last = b.position + (k + l) /\ k + l \in Nat
  BY <1>6, <1>8, <1>9
<1>11. i \in b.cond
  <2>1. q = TokenOn(b, first, last)
    BY <1>3, <1>4, <1>7, <1>9
  <2>2. q.cond = b.cond
    BY <1>6, <1>10, <2>1, TokenOnPath DEF OnTo
  <2> QED BY <2>2
<1>12. ~b.cut /\ Agrees(b, i, m) /\ b.data[i] = p.data[i] /\ i \in options[t]
  BY <1>2, <1>4, <1>11, SplitAgrees
<1>13. TokenFits(p, i, t)
  BY <1>1, <1>6, <1>12 DEF TokenOptions
<1>14. /\ k = 1 => At(p, i, p.position + 0) \in Whitespace
       /\ RunOf(Inked(p, i, k), all - k, l)
  BY <1>5, <1>6, <1>7, <1>13, TokenRun
<1>15. PICK rest : rest = Rest(p, i)
  OBVIOUS
<1>16. /\ Left(m) = rest /\ rest \in Seq(Bytes) /\ Len(rest) = all
       /\ \A n \in 0..(all - 1) : rest[n + 1] = At(p, i, p.position + n)
  BY <1>5, <1>15, AgreesLeft, RestIs
<1>17. PICK w : w = From(rest, k)
  OBVIOUS
<1>18. /\ w \in Seq(Bytes) /\ Len(w) = all - k
       /\ \A n \in 0..(all - k - 1) : w[n + 1] = At(p, i, p.position + (k + n))
       /\ w = From(p.data[i].content, p.position + k)
  <2>1. k \in 0..(Held(p) - p.position)
    BY <1>5, <1>8
  <2> QED BY <1>5, <1>15, <1>17, <2>1, RestFrom
<1>19. Before(w, Whitespace) = l
  <2>1. ASSUME NEW n \in 0..(Len(w) - 1) PROVE n \in Inked(p, i, k) <=> w[n + 1] \notin Whitespace
    <3>1. n \in 0..(all - k - 1) /\ n \in Nat
      BY <1>8, <1>18
    <3> QED BY <1>18, <3>1 DEF Inked
  <2> QED BY <1>14, <1>18, <2>1, RunBefore
<1>20. Before(rest, Printed) = k
  <2>1. 0 \in 0..(l - 1) /\ 0 \in Inked(p, i, k)
    BY <1>8, <1>14 DEF RunOf
  <2>2. At(p, i, p.position + (k + 0)) \notin Whitespace
    BY <2>1 DEF Inked
  <2>3. k \in 0..(all - 1) /\ k + 0 = k
    BY <1>8
  <2>4. rest[k + 1] \in Printed
    <3>1. rest[k + 1] = At(p, i, p.position + k)
      BY <1>16, <2>3
    <3>2. k + 1 \in 1..Len(rest)
      BY <1>16, <2>3
    <3>3. rest[k + 1] \in Bytes
      BY <1>16, <3>2, ElementOfSeq
    <3> QED BY <2>2, <2>3, <3>1, <3>3 DEF Printed
  <2>5. \A n \in 1..k : rest[n] \notin Printed
    <3> SUFFICES ASSUME NEW n \in 1..k PROVE rest[n] \notin Printed
      OBVIOUS
    <3>1. k = 1 /\ n = 0 + 1 /\ 0 \in 0..(all - 1)
      BY <1>8
    <3>2. rest[n] = At(p, i, p.position + 0)
      BY <1>16, <3>1
    <3> QED BY <1>14, <3>1, <3>2 DEF Printed
  <2>6. k \in 0..Len(rest)
    BY <1>16, <2>3
  <2> QED BY <1>16, <2>4, <2>5, <2>6, BeforeUnique
<1>21. UpTo(w, l) = SubSeq(p.data[i].content, first + 1, last)
  <2>1. p.data[i].content \in Seq(Bytes) /\ Len(p.data[i].content) = Held(p)
    BY DEF IsPath
  <2>2. first \in 0..Len(p.data[i].content) /\ l \in 0..(Len(p.data[i].content) - first)
    BY <1>8, <1>9, <2>1
  <2> QED BY <1>9, <1>18, <2>1, <2>2, UpToFrom
<1>22. PICK object : object = Text(UpTo(w, l))
  OBVIOUS
<1>23. OwnToken(m, call) = Advanced([Returning(m, "stream") EXCEPT !.object = object], k + l)
  BY <1>16, <1>17, <1>19, <1>20, <1>22 DEF OwnToken
<1>24. object = Text(SubSeq(b.data[i].content, first + 1, last))
  BY <1>12, <1>21, <1>22
<1>25. Agrees(TokenOn(b, first, last), i, Advanced([Returning(m, "stream") EXCEPT !.object = object], k + l))
  BY <1>6, <1>10, <1>11, <1>12, <1>24, TokenOnAgrees
<1> QED BY <1>3, <1>4, <1>7, <1>9, <1>23, <1>25

-----------------------------------------------------------------------------
(* A scan and the interpreter's scan, side by side.                         *)

LEMMA SeqEmpty == IsSeq(<<>>) /\ Len(<<>>) = 0
BY EmptySeq DEF IsSeq

LEMMA StoresNone ==
    ASSUME NEW memory, IsMemory(memory)
    PROVE  OwnStores(memory, <<>>) = memory
<1>1. DOMAIN <<>> = {}
  OBVIOUS
<1> QED BY <1>1 DEF OwnStores, IsMemory

\* One value more.
LEMMA StoresAppend ==
    ASSUME NEW memory, IsMemory(memory), NEW assigned, IsSeq(assigned), NEW cells
    PROVE  Put(OwnStores(memory, assigned), Len(assigned) + 1, cells) = OwnStores(memory, Append(assigned, cells))
<1>1. PICK n, a : n = Len(assigned) + 1 /\ a = Append(assigned, cells)
  OBVIOUS
<1>2. /\ n \in Nat \ {0} /\ DOMAIN a = 1..n /\ a[n] = cells /\ DOMAIN assigned = 1..(n - 1)
      /\ \A k \in 1..(n - 1) : a[k] = assigned[k]
  <2>1. /\ Len(assigned) \in Nat /\ DOMAIN a = 1..(Len(assigned) + 1) /\ a[Len(assigned) + 1] = cells
        /\ \A k \in 1..Len(assigned) : a[k] = assigned[k]
    BY <1>1, SeqAppend
  <2>2. DOMAIN assigned = 1..Len(assigned)
    BY LenProperties DEF IsSeq
  <2>3. n - 1 = Len(assigned)
    BY <1>1, <2>1
  <2> QED BY <1>1, <2>1, <2>2, <2>3
<1>3. PICK old, new, put : /\ old = OwnStores(memory, assigned) /\ new = OwnStores(memory, a)
                           /\ put = Put(old, n, cells)
  OBVIOUS
<1>4. /\ old = [place \in Places |-> IF place \in 1..(n - 1) THEN Put(memory, place, assigned[place])[place]
                                     ELSE memory[place]]
      /\ new = [place \in Places |-> IF place \in 1..n THEN Put(memory, place, a[place])[place]
                                     ELSE memory[place]]
  BY <1>2, <1>3 DEF OwnStores
<1>5. put = [old EXCEPT ![n] = [c \in 1..Cells |-> IF c <= Len(cells) THEN cells[c] ELSE @[c]]]
  BY <1>3 DEF Put
<1>6. DOMAIN put = Places /\ DOMAIN new = Places /\ put = [place \in Places |-> put[place]]
      /\ new = [place \in Places |-> new[place]]
  BY <1>4, <1>5
<1>7. ASSUME NEW place \in Places PROVE put[place] = new[place]
  <2>1. CASE place = n
    <3>1. old[n] = memory[n]
      <4>1. n \notin 1..(n - 1)
        BY <1>2
      <4> QED BY <1>4, <2>1, <4>1
    <3>2. put[n] = [c \in 1..Cells |-> IF c <= Len(cells) THEN cells[c] ELSE memory[n][c]]
      BY <1>4, <1>5, <2>1, <3>1
    <3>3. new[n] = Put(memory, n, cells)[n]
      <4>1. n \in 1..n
        BY <1>2
      <4>2. new[n] = Put(memory, n, a[n])[n]
        BY <1>4, <2>1, <4>1
      <4> QED BY <1>2, <4>2
    <3>4. n \in DOMAIN memory
      BY <2>1 DEF IsMemory
    <3>5. Put(memory, n, cells)[n] = [c \in 1..Cells |-> IF c <= Len(cells) THEN cells[c] ELSE memory[n][c]]
      BY <3>4 DEF Put
    <3> QED BY <2>1, <3>2, <3>3, <3>5
  <2>2. CASE place # n
    <3>1. put[place] = old[place]
      BY <1>4, <1>5, <2>2
    <3>2. place \in 1..n <=> place \in 1..(n - 1)
      BY <1>2, <2>2
    <3>3. place \in 1..(n - 1) => a[place] = assigned[place]
      BY <1>2
    <3> QED BY <1>4, <3>1, <3>2, <3>3
  <2> QED BY <2>1, <2>2
<1>8. put = new
  BY <1>6, <1>7
<1> QED BY <1>1, <1>3, <1>8

\* What a scan that has come so far in the interpreter would return.
ResultOf(scan) ==
    IF scan.ended = "no" THEN None
    ELSE IF scan.ended = "input" /\ scan.assigned = <<>> THEN Eof ELSE Len(scan.assigned)

IsScan(scan) ==
    /\ DOMAIN scan = {"data", "at", "assigned", "ended"}
    /\ scan.at \in Nat /\ IsSeq(scan.assigned) /\ scan.ended \in {"no", "input", "match"}

\* Scan s has input i where the interpreter, which began with m, has its own.
Locks(s, i, m, scan) ==
    /\ IsScan(scan) /\ scan.data = Left(m)
    /\ ~s.cut /\ m.position \in Nat /\ s.position = m.position + scan.at
    /\ s.data[i].content = m.content
    /\ Sees(s.data[i], m.saw, OwnStores(m.memory, scan.assigned), m.object)
    /\ DOMAIN s.scan = {"assigned", "result"}
    /\ s.scan.assigned = Len(scan.assigned) /\ s.scan.result = ResultOf(scan)

LEMMA ResultIs ==
    ASSUME NEW scan, IsScan(scan)
    PROVE  /\ Len(scan.assigned) \in Nat
           /\ scan.assigned = <<>> <=> Len(scan.assigned) = 0
           /\ ResultOf(scan) = None <=> scan.ended = "no"
<1>1. Len(scan.assigned) \in Nat /\ (scan.assigned = <<>> <=> Len(scan.assigned) = 0)
  BY LenProperties, EmptySeq DEF IsScan, IsSeq
<1> QED BY <1>1, StreamAssumption DEF ResultOf

\* It is what a scan says that counts.
LEMMA LocksSame ==
    ASSUME NEW s, NEW i, NEW m, NEW scan, Locks(s, i, m, scan), NEW o, DOMAIN o = DOMAIN scan,
           o.data = scan.data, o.at = scan.at, o.assigned = scan.assigned, o.ended = scan.ended
    PROVE  Locks(s, i, m, o)
BY DEF Locks, IsScan, ResultOf

LEMMA LocksRest ==
    ASSUME NEW s, IsPath(s), NEW i \in s.cond, NEW m, NEW scan, Locks(s, i, m, scan)
    PROVE  From(scan.data, scan.at) = Rest(s, i)
<1>1. PICK c, a, b : c = s.data[i].content /\ a = m.position /\ b = scan.at
  OBVIOUS
<1>2. c \in Seq(Bytes) /\ Len(c) = Held(s) /\ a \in Nat /\ b \in Nat /\ s.position = a + b
  BY <1>1 DEF IsPath, Locks, IsScan
<1>3. Held(s) \in Nat /\ a + b <= Held(s)
  BY <1>2, HeldIs
<1>4. a \in 0..Len(c) /\ b \in 0..(Len(c) - a)
  BY <1>2, <1>3
<1>5. From(From(c, a), b) = From(c, a + b)
  BY <1>2, <1>4, FromFrom
<1>6. scan.data = From(c, a)
  BY <1>1 DEF Locks, Left
<1> QED BY <1>1, <1>2, <1>5, <1>6 DEF Rest

LEMMA LocksAdvance ==
    ASSUME NEW s, IsPath(s), NEW i \in s.cond, NEW m, NEW scan, Locks(s, i, m, scan),
           NEW n \in 0..(Held(s) - s.position)
    PROVE  Locks(Advance(s, n), i, m, [scan EXCEPT !.at = @ + n])
<1>1. PICK a, o : a = Advance(s, n) /\ o = [scan EXCEPT !.at = @ + n]
  OBVIOUS
<1>2. OnTo(s, a) /\ a.position = s.position + n /\ a.data = s.data
  BY <1>1, AdvanceIs
<1>3. n \in Nat /\ scan.at \in Nat /\ m.position \in Nat /\ s.position = m.position + scan.at
  BY HeldIs DEF Locks, IsScan
<1>4. /\ DOMAIN o = {"data", "at", "assigned", "ended"} /\ o.at = scan.at + n /\ o.data = scan.data
      /\ o.assigned = scan.assigned /\ o.ended = scan.ended
  BY <1>1 DEF Locks, IsScan
<1>5. a.position = m.position + o.at /\ o.at \in Nat
  BY <1>2, <1>3, <1>4
<1>6. ResultOf(o) = ResultOf(scan)
  BY <1>4 DEF ResultOf
<1>7. a.scan = s.scan /\ a.cut = s.cut
  BY <1>2 DEF OnTo
<1> QED BY <1>1, <1>2, <1>4, <1>5, <1>6, <1>7 DEF Locks, IsScan

\* It ends.
LEMMA LocksEnded ==
    ASSUME NEW s, IsPath(s), NEW i \in s.cond, NEW m, NEW scan, Locks(s, i, m, scan), scan.ended = "no"
    PROVE  /\ Locks(Failed(s), i, m, [scan EXCEPT !.ended = "match"])
           /\ Locks(Ended(s, IF s.scan.assigned = 0 THEN Eof ELSE s.scan.assigned), i, m,
                    [scan EXCEPT !.ended = "input"])
<1>1. ASSUME NEW how \in {"match", "input"}, NEW result, result = ResultOf([scan EXCEPT !.ended = how])
      PROVE  Locks(Ended(s, result), i, m, [scan EXCEPT !.ended = how])
  <2>1. PICK e, o : e = Ended(s, result) /\ o = [scan EXCEPT !.ended = how]
    OBVIOUS
  <2>2. /\ DOMAIN o = {"data", "at", "assigned", "ended"} /\ o.at = scan.at /\ o.data = scan.data
        /\ o.assigned = scan.assigned /\ o.ended = how
    BY <2>1 DEF Locks, IsScan
  <2>3. /\ e.position = s.position /\ e.cut = s.cut /\ e.data = s.data
        /\ e.scan = [s.scan EXCEPT !.result = result]
    BY <2>1 DEF Ended, IsPath, PathFields
  <2>4. DOMAIN e.scan = {"assigned", "result"} /\ e.scan.result = result /\ e.scan.assigned = s.scan.assigned
    BY <2>3 DEF Locks
  <2>5. IsScan(o)
    BY <2>2 DEF Locks, IsScan
  <2>6. result = ResultOf(o)
    BY <1>1, <2>1
  <2> QED BY <2>1, <2>2, <2>3, <2>4, <2>5, <2>6 DEF Locks
<1>2. IsScan(scan) /\ s.scan.assigned = Len(scan.assigned)
  BY DEF Locks
<1>3. ASSUME NEW how PROVE [scan EXCEPT !.ended = how].ended = how
                            /\ [scan EXCEPT !.ended = how].assigned = scan.assigned
  BY <1>2 DEF IsScan
<1>4. ResultOf([scan EXCEPT !.ended = "match"]) = s.scan.assigned
  BY <1>2, <1>3 DEF ResultOf
<1>5. ResultOf([scan EXCEPT !.ended = "input"]) = IF s.scan.assigned = 0 THEN Eof ELSE s.scan.assigned
  BY <1>2, <1>3, ResultIs DEF ResultOf
<1>6. Failed(s) = Ended(s, s.scan.assigned)
  BY DEF Failed
<1> QED BY <1>1, <1>4, <1>5, <1>6

\* It assigns a value.
LEMMA LocksStore ==
    ASSUME NEW s, IsPath(s), NEW i \in s.cond, NEW m, IsOwn(m), NEW scan, Locks(s, i, m, scan),
           scan.ended = "no", NEW directive, NEW content
    PROVE  Locks(Store(s, directive, content), i, m,
                 [scan EXCEPT !.assigned = IF directive.assigns THEN Append(@, content[i]) ELSE @])
<1>1. CASE ~directive.assigns
  <2>1. Store(s, directive, content) = s
    BY <1>1 DEF Store
  <2>2. PICK o : o = [scan EXCEPT !.assigned = IF directive.assigns THEN Append(@, content[i]) ELSE @]
    OBVIOUS
  <2>3. /\ DOMAIN o = DOMAIN scan /\ o.data = scan.data /\ o.at = scan.at
        /\ o.assigned = scan.assigned /\ o.ended = scan.ended
    BY <1>1, <2>2 DEF Locks, IsScan
  <2>4. Locks(s, i, m, o)
    BY <2>3, LocksSame
  <2> QED BY <2>1, <2>2, <2>4
<1>2. CASE directive.assigns
  <2>1. PICK n, w, q : /\ n = s.scan.assigned + 1 /\ w = Writes(s, n, content)
                       /\ q = [w EXCEPT !.scan.assigned = @ + 1]
    OBVIOUS
  <2>2. Store(s, directive, content) = q
    BY <1>2, <2>1 DEF Store
  <2>3. Like(s, w) /\ IsPath(w)
    BY <2>1, WritesLike DEF Like
  <2>4. Sees(w.data[i], s.data[i].saw, Put(s.data[i].memory, n, content[i]), s.data[i].object)
    BY <2>1, WritesSees
  <2>5. /\ q.position = s.position /\ q.cut = s.cut /\ q.data = w.data
        /\ q.scan = [s.scan EXCEPT !.assigned = @ + 1]
    BY <2>1, <2>3 DEF Like, IsPath, PathFields
  <2>6. /\ DOMAIN q.scan = {"assigned", "result"} /\ q.scan.assigned = Len(scan.assigned) + 1
        /\ q.scan.result = s.scan.result
    BY <2>5 DEF Locks
  <2>7. PICK o : o = [scan EXCEPT !.assigned = Append(@, content[i])]
    OBVIOUS
  <2>8. /\ DOMAIN o = {"data", "at", "assigned", "ended"} /\ o.at = scan.at /\ o.data = scan.data
        /\ o.assigned = Append(scan.assigned, content[i]) /\ o.ended = "no"
    BY <2>7 DEF Locks, IsScan
  <2>9. IsScan(o) /\ Len(o.assigned) = Len(scan.assigned) + 1
    BY <2>8, SeqAppend DEF IsScan, Locks
  <2>10. ResultOf(o) = ResultOf(scan)
    BY <2>8 DEF ResultOf
  <2>11. Put(OwnStores(m.memory, scan.assigned), n, content[i]) = OwnStores(m.memory, o.assigned)
    BY <2>1, <2>8, StoresAppend DEF Locks, IsScan, IsOwn
  <2>12. Sees(q.data[i], m.saw, OwnStores(m.memory, o.assigned), m.object)
    BY <2>4, <2>5, <2>11 DEF Locks, Sees
  <2>13. q.data[i].content = m.content
    BY <2>3, <2>5 DEF Like, Locks
  <2>14. Locks(q, i, m, o)
    BY <2>5, <2>6, <2>8, <2>9, <2>10, <2>12, <2>13 DEF Locks
  <2>15. [scan EXCEPT !.assigned = IF directive.assigns THEN Append(@, content[i]) ELSE @] = o
    BY <1>2, <2>7
  <2> QED BY <2>2, <2>14, <2>15
<1> QED BY <1>1, <1>2

LEMMA LocksTakes ==
    ASSUME NEW s, IsPath(s), NEW i \in s.cond, NEW m, IsOwn(m), NEW scan, Locks(s, i, m, scan),
           scan.ended = "no", NEW directive, NEW content, NEW n \in 0..(Held(s) - s.position)
    PROVE  Locks(Advance(Store(s, directive, content), n), i, m, OwnTakes(scan, directive, n, content[i]))
<1>1. PICK q : q = Store(s, directive, content)
  OBVIOUS
<1>2. Stays(s, q) /\ IsPath(q) /\ i \in q.cond
  BY <1>1, StoreStays DEF Stays
<1>3. n \in 0..(Held(q) - q.position)
  BY <1>2, StaysGoes DEF Stays
<1>4. PICK o : o = [scan EXCEPT !.assigned = IF directive.assigns THEN Append(@, content[i]) ELSE @]
  OBVIOUS
<1>5. Locks(q, i, m, o)
  BY <1>1, <1>4, LocksStore
<1>6. Locks(Advance(q, n), i, m, [o EXCEPT !.at = @ + n])
  BY <1>2, <1>3, <1>5, LocksAdvance
<1>7. [o EXCEPT !.at = @ + n] = OwnTakes(scan, directive, n, content[i])
  BY <1>4 DEF OwnTakes, Locks, IsScan
<1> QED BY <1>1, <1>6, <1>7

LEMMA LocksFails ==
    ASSUME NEW s, IsPath(s), NEW i \in s.cond, NEW m, NEW scan, Locks(s, i, m, scan),
           scan.ended = "no", NEW n \in 0..(Held(s) - s.position)
    PROVE  /\ Locks(Advance(Failed(s), n), i, m, OwnFails(scan, n, "match"))
           /\ Locks(Failed(s), i, m, OwnFails(scan, 0, "match"))
<1>1. PICK q : q = Failed(s)
  OBVIOUS
<1>2. Stays(s, q) /\ IsPath(q) /\ i \in q.cond
  BY <1>1, EndedStays DEF Stays
<1>3. n \in 0..(Held(q) - q.position)
  BY <1>2, StaysGoes DEF Stays
<1>4. PICK o : o = [scan EXCEPT !.ended = "match"]
  OBVIOUS
<1>5. Locks(q, i, m, o)
  BY <1>1, <1>4, LocksEnded
<1>6. Locks(Advance(q, n), i, m, [o EXCEPT !.at = @ + n])
  BY <1>2, <1>3, <1>5, LocksAdvance
<1>7. [o EXCEPT !.at = @ + n] = OwnFails(scan, n, "match")
  BY <1>4 DEF OwnFails, Locks, IsScan
<1>8. PICK z : z = OwnFails(scan, 0, "match")
  OBVIOUS
<1>9. /\ DOMAIN z = DOMAIN o /\ z.data = o.data /\ z.at = o.at
      /\ z.assigned = o.assigned /\ z.ended = o.ended
  BY <1>4, <1>8 DEF OwnFails, Locks, IsScan
<1>10. Locks(q, i, m, z)
  BY <1>5, <1>9, LocksSame
<1> QED BY <1>1, <1>6, <1>7, <1>8, <1>10

LEMMA LocksSplit ==
    ASSUME NEW s, IsPath(s), NEW options, Options(s, options), NEW o \in Split(s, options),
           NEW i \in o.path.cond, NEW m, NEW scan, Locks(s, i, m, scan)
    PROVE  /\ IsPath(o.path) /\ i \in options[o.tag] /\ i \in s.cond /\ Locks(o.path, i, m, scan)
           /\ o.path.position = s.position /\ Held(o.path) = Held(s) /\ o.path.data[i] = s.data[i]
           /\ o.tag \in DOMAIN options
BY SplitIs DEF Locks

\* Past the blanks.
LEMMA LocksSkip ==
    ASSUME NEW s, IsPath(s), NEW m, NEW scan, NEW b \in SkipSpace(s), NEW i \in b.cond, i \in s.cond,
           Locks(s, i, m, scan)
    PROVE  /\ IsPath(b)
           /\ Locks(b, i, m, [scan EXCEPT !.at = scan.at + Before(From(scan.data, scan.at), Printed)])
           /\ ~Drained(b) => At(b, i, b.position) \notin Whitespace
<1>1. PICK rest, all : rest = Rest(s, i) /\ all = Held(s) - s.position
  OBVIOUS
<1>2. /\ rest \in Seq(Bytes) /\ Len(rest) = all /\ all \in Nat
      /\ \A n \in 0..(all - 1) : rest[n + 1] = At(s, i, s.position + n)
      /\ From(scan.data, scan.at) = rest
  BY <1>1, RestIs, HeldIs, LocksRest
<1>3. PICK n : n = Before(rest, Printed)
  OBVIOUS
<1>4. PICK o : o = [scan EXCEPT !.at = scan.at + n]
  OBVIOUS
<1>5. CASE Drained(s)
  <2>1. b = s /\ all = 0
    BY <1>1, <1>5, HeldIs DEF SkipSpace, Drained
  <2>2. n = 0
    <3>1. Before(rest, Printed) \in 0..Len(rest)
      BY <1>2, BeforeIs
    <3> QED BY <1>2, <1>3, <2>1, <3>1
  <2>3. /\ DOMAIN o = DOMAIN scan /\ o.data = scan.data /\ o.at = scan.at
        /\ o.assigned = scan.assigned /\ o.ended = scan.ended
    BY <1>4, <2>2 DEF Locks, IsScan
  <2>4. Locks(s, i, m, o)
    BY <2>3, LocksSame
  <2> QED BY <1>2, <1>3, <1>4, <1>5, <2>1, <2>4
<1>6. CASE ~Drained(s)
  <2>1. all >= 1 /\ s.position \in Nat
    BY <1>1, <1>6, HeldIs DEF Drained
  <2>2. PICK options : options = SkipOptions(s)
    OBVIOUS
  <2>3. Options(s, options) /\ DOMAIN options = {0, 1}
    BY <2>2 DEF Options, SkipOptions
  <2>4. PICK t \in Split(s, options) : b = Advance(t.path, t.tag)
    <3>1. SkipSpace(s) = {Advance(t.path, t.tag) : t \in Split(s, options)}
      BY <1>6, <2>2 DEF SkipSpace, SkipOptions, BlankAt
    <3> QED BY <3>1
  <2>5. PICK p, k : p = t.path /\ k = t.tag
    OBVIOUS
  <2>6. IsPath(p) /\ k \in {0, 1} /\ p.position = s.position /\ Held(p) = Held(s) /\ p.cond = options[k]
    BY <2>3, <2>5, SplitIs
  <2>7. k \in 0..(Held(p) - p.position)
    BY <1>1, <2>1, <2>6
  <2>8. OnTo(p, b) /\ b.position = p.position + k
    BY <2>4, <2>5, <2>6, <2>7, AdvanceIs
  <2>9. IsPath(b) /\ b.cond = p.cond /\ Held(b) = Held(s) /\ b.position = s.position + k
    BY <2>6, <2>8, OnHeld DEF OnTo
  <2>10. Locks(p, i, m, scan) /\ i \in options[k] /\ p.data[i] = s.data[i]
    BY <2>3, <2>5, <2>9, LocksSplit
  <2>11. IF k = 0 THEN ~BlankAt(s, i, 0) ELSE BlankAt(s, i, 0) /\ ~BlankAt(s, i, 1)
    BY <2>2, <2>6, <2>10 DEF SkipOptions
  <2>12. /\ \A j \in 0..(k - 1) : At(s, i, s.position + j) \in Whitespace
         /\ k < all => At(s, i, s.position + k) \notin Whitespace
    <3>1. \A x \in Nat : s.position + x < Held(s) <=> x < all
      BY <1>1, <2>1, HeldIs
    <3>2. ASSUME NEW x \in {0, 1}
          PROVE  BlankAt(s, i, x) <=> x < all /\ At(s, i, s.position + x) \in Whitespace
      <4>1. s.position + x < Held(s) <=> x < all
        BY <3>1
      <4> QED BY <4>1, Zenon DEF BlankAt
    <3>3. CASE k = 0
      <4>0. ~BlankAt(s, i, 0)
        BY <2>11, <3>3, Zenon
      <4>1. k < all
        BY <1>2, <2>1, <3>3
      <4>4. BlankAt(s, i, k) <=> k < all /\ At(s, i, s.position + k) \in Whitespace
        BY <2>6, <3>2
      <4>5. ~BlankAt(s, i, k)
        BY <3>3, <4>0, Zenon
      <4>2. At(s, i, s.position + k) \notin Whitespace
        BY <4>1, <4>4, <4>5, Zenon
      <4>3. 0..(k - 1) = {}
        BY <3>3
      <4> QED BY <4>2, <4>3
    <3>4. CASE k = 1
      <4>1. BlankAt(s, i, 0) /\ ~BlankAt(s, i, 1)
        BY <2>11, <3>4
      <4>2. At(s, i, s.position + 0) \in Whitespace
        <5>1. 0 \in {0, 1}
          OBVIOUS
        <5> QED BY <3>2, <4>1, <5>1, Zenon
      <4>3. k < all => At(s, i, s.position + k) \notin Whitespace
        <5>1. BlankAt(s, i, k) <=> k < all /\ At(s, i, s.position + k) \in Whitespace
          BY <2>6, <3>2
        <5>2. ~BlankAt(s, i, k)
          BY <3>4, <4>1
        <5> QED BY <5>1, <5>2
      <4>4. \A j \in 0..(k - 1) : j = 0
        BY <3>4
      <4> QED BY <4>2, <4>3, <4>4
    <3> QED BY <2>6, <3>3, <3>4
  <2>13. n = k
    <3>1. ASSUME NEW j \in 1..k PROVE rest[j] \notin Printed
      <4>1. j - 1 \in 0..(k - 1) /\ j - 1 \in 0..(all - 1) /\ (j - 1) + 1 = j
        <5>1. k \in Nat /\ k <= 1 /\ all \in Nat
          BY <1>2, <2>6
        <5>2. j = 1 /\ k = 1
          BY <5>1
        <5> QED BY <2>1, <5>1, <5>2
      <4>2. rest[j] = At(s, i, s.position + (j - 1))
        BY <1>2, <4>1
      <4> QED BY <2>12, <4>1, <4>2 DEF Printed
    <3>2. ASSUME k < all PROVE rest[k + 1] \in Printed
      <4>1. k \in 0..(all - 1) /\ k + 1 \in 1..Len(rest)
        BY <1>2, <2>6, <3>2
      <4>2. rest[k + 1] \in Bytes /\ rest[k + 1] = At(s, i, s.position + k)
        BY <1>2, <4>1, ElementOfSeq
      <4> QED BY <2>12, <3>2, <4>2 DEF Printed
    <3>3. k \in 0..Len(rest)
      BY <1>2, <2>1, <2>6
    <3> QED BY <1>2, <1>3, <3>1, <3>2, <3>3, BeforeUnique
  <2>14. Locks(b, i, m, [scan EXCEPT !.at = @ + k])
    BY <2>4, <2>5, <2>6, <2>7, <2>9, <2>10, LocksAdvance
  <2>15. ~Drained(b) => At(b, i, b.position) \notin Whitespace
    <3> SUFFICES ASSUME ~Drained(b) PROVE At(b, i, b.position) \notin Whitespace
      OBVIOUS
    <3>1. k < all
      BY <1>1, <2>1, <2>6, <2>9, HeldIs DEF Drained
    <3>2. b.data[i].content = s.data[i].content
      BY <2>8, <2>9, <2>10 DEF OnTo
    <3>3. At(b, i, b.position) = At(s, i, s.position + k)
      BY <2>9, <3>2 DEF At
    <3> QED BY <2>12, <3>1, <3>3
  <2> QED BY <1>2, <1>3, <2>9, <2>13, <2>14, <2>15
<1> QED BY <1>5, <1>6

\* What a directive may take of what is left.
Within(s, i, directive) == UpTo(Rest(s, i), Longest(s, directive))

LEMMA WithinIs ==
    ASSUME NEW s, IsPath(s), NEW i \in s.cond, NEW directive, DirectiveOK(directive)
    PROVE  LET limit == Longest(s, directive)
               w == Within(s, i, directive)
           IN /\ limit \in 0..(Held(s) - s.position) /\ w \in Seq(Bytes) /\ Len(w) = limit
              /\ w = <<>> <=> Drained(s)
              /\ \A n \in 0..(limit - 1) : w[n + 1] = At(s, i, s.position + n)
              /\ \A scan : OwnPlaced(scan, directive, Rest(s, i)) = OwnMatches(scan, directive, w)
<1>1. PICK rest, all : rest = Rest(s, i) /\ all = Held(s) - s.position
  OBVIOUS
<1>2. /\ rest \in Seq(Bytes) /\ Len(rest) = all /\ all \in Nat
      /\ \A n \in 0..(all - 1) : rest[n + 1] = At(s, i, s.position + n)
  BY <1>1, RestIs, HeldIs
<1>3. PICK limit : limit = Longest(s, directive)
  OBVIOUS
<1>4. limit \in 0..all /\ (limit = 0 <=> Drained(s))
  <2>1. CASE Drained(s)
    <3>1. all = 0
      BY <1>1, <2>1, HeldIs DEF Drained
    <3>2. CASE directive.width = None
      BY <1>1, <1>3, <2>1, <3>1, <3>2 DEF Longest
    <3>3. CASE directive.width # None
      <4>1. directive.width \in Nat \ {0}
        BY <3>3 DEF DirectiveOK
      <4>2. limit = Clamped(directive.width, 0, all)
        BY <1>1, <1>3, <3>3 DEF Longest
      <4> QED BY <2>1, <3>1, <4>1, <4>2 DEF Clamped
    <3> QED BY <3>2, <3>3
  <2>2. CASE ~Drained(s)
    <3>1. limit \in 1..all
      BY <1>1, <1>3, <2>2, LongestIs
    <3> QED BY <1>2, <2>2, <3>1
  <2> QED BY <2>1, <2>2
<1>5. PICK w : w = UpTo(rest, limit)
  OBVIOUS
<1>6. w \in Seq(Bytes) /\ Len(w) = limit /\ \A n \in 1..limit : w[n] = rest[n]
  BY <1>2, <1>4, <1>5, UpToIs
<1>7. w = <<>> <=> Drained(s)
  BY <1>4, <1>6, EmptySeq
<1>8. ASSUME NEW n \in 0..(limit - 1) PROVE w[n + 1] = At(s, i, s.position + n)
  <2>1. n + 1 \in 1..limit /\ n \in 0..(all - 1)
    BY <1>2, <1>4
  <2> QED BY <1>2, <1>6, <2>1
<1>9. (IF directive.width = None THEN rest ELSE UpTo(rest, Clamped(directive.width, 0, Len(rest)))) = w
  <2>1. CASE directive.width = None
    <3>1. limit = Len(rest)
      BY <1>1, <1>2, <1>3, <2>1 DEF Longest
    <3> QED BY <1>2, <1>5, <2>1, <3>1, UpToFull
  <2>2. CASE directive.width # None
    BY <1>1, <1>2, <1>3, <1>5, <2>2 DEF Longest
  <2> QED BY <2>1, <2>2
<1>10. \A scan : OwnPlaced(scan, directive, rest) = OwnMatches(scan, directive, w)
  BY <1>9 DEF OwnPlaced
<1> QED BY <1>1, <1>3, <1>4, <1>5, <1>6, <1>7, <1>8, <1>10 DEF Within

\* The end of the stream.
LEMMA LocksEnd ==
    ASSUME NEW s, IsPath(s), Drained(s), NEW i \in s.cond, NEW m, NEW scan, Locks(s, i, m, scan),
           scan.ended = "no", NEW directive, DirectiveOK(directive), directive.kind # "space",
           NEW q \in Convert(s, directive)
    PROVE  Locks(q, i, m, OwnPlaced(scan, directive, Rest(s, i)))
<1>1. PICK w : w = Within(s, i, directive)
  OBVIOUS
<1>2. w = <<>> /\ OwnPlaced(scan, directive, Rest(s, i)) = OwnMatches(scan, directive, w)
  BY <1>1, WithinIs
<1>3. \A sign, run : OwnConverts(scan, directive, w, sign, run) = OwnFails(scan, 0, "input")
  BY <1>2 DEF OwnConverts
<1>4. OwnMatches(scan, directive, w) = OwnFails(scan, 0, "input")
  BY <1>3 DEF OwnMatches
<1>5. PICK r : r = IF s.scan.assigned = 0 THEN Eof ELSE s.scan.assigned
  OBVIOUS
<1>6. q = Ended(s, r)
  <2>1. Convert(s, directive) = {Ended(s, r)}
    BY <1>5 DEF Convert
  <2> QED BY <2>1
<1>7. PICK o, z : o = [scan EXCEPT !.ended = "input"] /\ z = OwnFails(scan, 0, "input")
  OBVIOUS
<1>8. Locks(q, i, m, o)
  BY <1>5, <1>6, <1>7, LocksEnded
<1>9. /\ DOMAIN z = DOMAIN o /\ z.data = o.data /\ z.at = o.at
      /\ z.assigned = o.assigned /\ z.ended = o.ended
  BY <1>7 DEF OwnFails, Locks, IsScan
<1>10. Locks(q, i, m, z)
  BY <1>8, <1>9, LocksSame
<1> QED BY <1>2, <1>4, <1>7, <1>10

\* What a directive may take, k bytes on.
LEMMA WithinFrom ==
    ASSUME NEW s, IsPath(s), NEW i \in s.cond, NEW directive, DirectiveOK(directive),
           NEW k \in 0..Longest(s, directive)
    PROVE  LET limit == Longest(s, directive)
               f == From(Within(s, i, directive), k)
           IN /\ f \in Seq(Bytes) /\ Len(f) = limit - k
              /\ \A n \in 0..(limit - k - 1) : f[n + 1] = At(s, i, s.position + (k + n))
              /\ \A n \in 0..(limit - k) : UpTo(f, n) = UpTo(From(Rest(s, i), k), n)
<1>1. PICK limit, w, rest : limit = Longest(s, directive) /\ w = Within(s, i, directive) /\ rest = Rest(s, i)
  OBVIOUS
<1>2. /\ limit \in 0..(Held(s) - s.position) /\ w \in Seq(Bytes) /\ Len(w) = limit
      /\ \A n \in 0..(limit - 1) : w[n + 1] = At(s, i, s.position + n)
  BY <1>1, WithinIs
<1>3. limit \in Nat /\ k \in 0..limit
  BY <1>1, <1>2, HeldIs
<1>4. PICK f : f = From(w, k)
  OBVIOUS
<1>5. f \in Seq(Bytes) /\ Len(f) = limit - k /\ \A n \in 1..(limit - k) : f[n] = w[k + n]
  BY <1>2, <1>3, <1>4, FromIs
<1>6. ASSUME NEW n \in 0..(limit - k - 1) PROVE f[n + 1] = At(s, i, s.position + (k + n))
  <2>1. n + 1 \in 1..(limit - k) /\ k + n \in 0..(limit - 1) /\ k + (n + 1) = k + n + 1
    BY <1>3
  <2>2. f[n + 1] = w[k + n + 1]
    BY <1>5, <2>1
  <2> QED BY <1>2, <2>1, <2>2
<1>7. ASSUME NEW n \in 0..(limit - k) PROVE UpTo(f, n) = UpTo(From(rest, k), n)
  <2>1. PICK all : all = Held(s) - s.position
    OBVIOUS
  <2>2. rest \in Seq(Bytes) /\ Len(rest) = all /\ w = UpTo(rest, limit) /\ all \in Nat
    BY <1>1, <2>1, RestIs, HeldIs DEF Within
  <2>3. limit \in 0..all
    BY <1>2, <2>1
  <2>4. \A j \in 1..limit : w[j] = rest[j]
    BY <2>2, <2>3, UpToIs
  <2>5. PICK g : g = From(rest, k)
    OBVIOUS
  <2>6. g \in Seq(Bytes) /\ Len(g) = all - k /\ \A j \in 1..(all - k) : g[j] = rest[k + j]
    <3>1. k \in 0..Len(rest)
      BY <1>3, <2>2, <2>3
    <3> QED BY <2>2, <2>5, <3>1, FromIs
  <2>7. n \in 0..Len(g) /\ n \in 0..Len(f) /\ n \in Nat
    BY <1>3, <1>5, <2>2, <2>3, <2>6
  <2>8. UpTo(g, n) \in Seq(Bytes) /\ Len(UpTo(g, n)) = n /\ \A j \in 1..n : UpTo(g, n)[j] = g[j]
    BY <2>6, <2>7, UpToIs
  <2>9. UpTo(f, n) \in Seq(Bytes) /\ Len(UpTo(f, n)) = n /\ \A j \in 1..n : UpTo(f, n)[j] = f[j]
    BY <1>5, <2>7, UpToIs
  <2>10. ASSUME NEW j \in 1..n PROVE UpTo(f, n)[j] = UpTo(g, n)[j]
    <3>1. j \in 1..(limit - k) /\ j \in 1..(all - k) /\ k + j \in 1..limit
      BY <1>3, <2>2, <2>3, <2>7
    <3>2. f[j] = w[k + j] /\ g[j] = rest[k + j] /\ w[k + j] = rest[k + j]
      BY <1>5, <2>4, <2>6, <3>1
    <3> QED BY <2>8, <2>9, <3>2
  <2>11. UpTo(f, n) = UpTo(g, n)
    BY <2>8, <2>9, <2>10, SeqEqual
  <2> QED BY <2>5, <2>11
<1> QED BY <1>1, <1>4, <1>5, <1>6, <1>7

\* It begins with the byte at the position.
LEMMA WithinFirst ==
    ASSUME NEW s, IsPath(s), ~Drained(s), NEW i \in s.cond, NEW directive, DirectiveOK(directive)
    PROVE  LET w == Within(s, i, directive)
           IN /\ w # <<>> /\ w[1] = At(s, i, s.position) /\ w[1] \in Bytes
              /\ Longest(s, directive) \in 1..(Held(s) - s.position)
<1>1. PICK limit, w : limit = Longest(s, directive) /\ w = Within(s, i, directive)
  OBVIOUS
<1>2. /\ w \in Seq(Bytes) /\ Len(w) = limit /\ w # <<>>
      /\ \A n \in 0..(limit - 1) : w[n + 1] = At(s, i, s.position + n)
  BY <1>1, WithinIs
<1>3. limit \in 1..(Held(s) - s.position)
  BY <1>1, LongestIs
<1>4. 0 \in 0..(limit - 1) /\ s.position + 0 = s.position /\ 1 \in 1..Len(w)
  BY <1>2, <1>3, HeldIs
<1>5. w[0 + 1] = At(s, i, s.position)
  BY <1>2, <1>4
<1>6. w[1] \in Bytes
  BY <1>2, <1>4, ElementOfSeq
<1> QED BY <1>1, <1>2, <1>3, <1>5, <1>6

LEMMA LocksLiteral ==
    ASSUME NEW s, IsPath(s), ~Drained(s), NEW m, IsOwn(m), NEW scan, scan.ended = "no",
           NEW directive, DirectiveOK(directive), directive.kind = "literal",
           NEW q \in Literal(s, directive), NEW i \in q.cond, i \in s.cond, Locks(s, i, m, scan)
    PROVE  Locks(q, i, m, OwnPlaced(scan, directive, Rest(s, i)))
<1>1. PICK w : w = Within(s, i, directive)
  OBVIOUS
<1>2. /\ w # <<>> /\ w[1] = At(s, i, s.position)
      /\ OwnPlaced(scan, directive, Rest(s, i)) = OwnMatches(scan, directive, w)
  BY <1>1, WithinFirst, WithinIs
<1>3. OwnMatches(scan, directive, w) =
         IF w[1] \in directive.set THEN [scan EXCEPT !.at = @ + 1] ELSE OwnFails(scan, 0, "match")
  BY <1>2 DEF OwnMatches, OwnConverts
<1>4. PICK matching : matching = {j \in s.cond : At(s, j, s.position) \in directive.set}
  OBVIOUS
<1>5. PICK options : options = [matched \in BOOLEAN |-> IF matched THEN matching ELSE s.cond \ matching]
  OBVIOUS
<1>6. Options(s, options)
  BY <1>4, <1>5 DEF Options
<1>7. PICK o \in Split(s, options) : q = IF o.tag THEN Advance(o.path, 1) ELSE Failed(o.path)
  BY <1>4, <1>5 DEF Literal
<1>8. PICK p, t : p = o.path /\ t = o.tag
  OBVIOUS
<1>9. IsPath(p) /\ t \in BOOLEAN /\ p.position = s.position /\ Held(p) = Held(s)
  BY <1>5, <1>6, <1>8, SplitIs
<1>10. 1 \in 0..(Held(p) - p.position)
  BY <1>9, HeldIs DEF Drained
<1>11. Advance(p, 1).cond = p.cond /\ Failed(p).cond = p.cond
  <2>1. Failed(p).cond = p.cond
    BY <1>9, EndedStays DEF Stays
  <2>2. Advance(p, 1).cond = p.cond
    BY <1>9, <1>10, AdvanceIs DEF OnTo
  <2> QED BY <2>1, <2>2
<1>12. i \in p.cond
  BY <1>7, <1>8, <1>11
<1>13. Locks(p, i, m, scan) /\ i \in options[t]
  BY <1>6, <1>8, <1>12, LocksSplit
<1>14. CASE t
  <2>1. w[1] \in directive.set /\ q = Advance(p, 1)
    BY <1>2, <1>4, <1>5, <1>7, <1>8, <1>13, <1>14
  <2>2. Locks(Advance(p, 1), i, m, [scan EXCEPT !.at = @ + 1])
    BY <1>9, <1>10, <1>12, <1>13, LocksAdvance
  <2> QED BY <1>2, <1>3, <2>1, <2>2
<1>15. CASE ~t
  <2>1. w[1] \notin directive.set /\ q = Failed(p)
    BY <1>2, <1>4, <1>5, <1>7, <1>8, <1>9, <1>13, <1>15
  <2>2. Locks(Failed(p), i, m, OwnFails(scan, 0, "match"))
    BY <1>9, <1>10, <1>12, <1>13, LocksFails
  <2> QED BY <1>2, <1>3, <2>1, <2>2
<1> QED BY <1>14, <1>15

LEMMA LocksCharacters ==
    ASSUME NEW s, IsPath(s), ~Drained(s), NEW m, IsOwn(m), NEW scan, scan.ended = "no",
           NEW directive, DirectiveOK(directive), directive.kind = "chars",
           NEW q \in Characters(s, directive), NEW i \in s.cond, Locks(s, i, m, scan)
    PROVE  Locks(q, i, m, OwnPlaced(scan, directive, Rest(s, i)))
<1>1. PICK w, limit : w = Within(s, i, directive) /\ limit = Longest(s, directive)
  OBVIOUS
<1>2. /\ w # <<>> /\ Len(w) = limit /\ limit \in 0..(Held(s) - s.position) /\ w = UpTo(Rest(s, i), limit)
      /\ OwnPlaced(scan, directive, Rest(s, i)) = OwnMatches(scan, directive, w)
  BY <1>1, WithinFirst, WithinIs DEF Within
<1>3. OwnMatches(scan, directive, w) = OwnTakes(scan, directive, limit, w)
  BY <1>2 DEF OwnMatches, OwnConverts
<1>4. PICK c : c = [j \in s.cond |-> UpTo(Rest(s, j), limit)]
  OBVIOUS
<1>5. q = Advance(Store(s, directive, c), limit)
  BY <1>1, <1>4 DEF Characters
<1>6. c[i] = w
  BY <1>2, <1>4
<1>7. Locks(Advance(Store(s, directive, c), limit), i, m, OwnTakes(scan, directive, limit, c[i]))
  BY <1>2, LocksTakes
<1> QED BY <1>2, <1>3, <1>5, <1>6, <1>7

LEMMA LocksRun ==
    ASSUME NEW s, IsPath(s), ~Drained(s), NEW m, IsOwn(m), NEW scan, scan.ended = "no",
           NEW directive, DirectiveOK(directive), directive.kind \in {"string", "set"},
           NEW q \in Run(s, directive), NEW i \in q.cond, i \in s.cond, Locks(s, i, m, scan),
           directive.kind = "string" => At(s, i, s.position) \notin Whitespace
    PROVE  Locks(q, i, m, OwnPlaced(scan, directive, Rest(s, i)))
<1>1. PICK w, limit : w = Within(s, i, directive) /\ limit = Longest(s, directive)
  OBVIOUS
<1>2. /\ w # <<>> /\ w \in Seq(Bytes) /\ Len(w) = limit
      /\ limit \in 1..(Held(s) - s.position) /\ limit \in Nat
      /\ OwnPlaced(scan, directive, Rest(s, i)) = OwnMatches(scan, directive, w)
      /\ w[1] = At(s, i, s.position) /\ w[1] \in Bytes
  BY <1>1, WithinFirst, WithinIs, HeldIs
<1>3. \A n \in 0..(limit - 1) : w[n + 1] = At(s, i, s.position + n)
  BY <1>1, WithinIs
<1>4. PICK fits, stops : /\ fits = RunFits(s, directive)
                         /\ stops = IF directive.kind = "string" THEN Whitespace ELSE Bytes \ directive.set
  OBVIOUS
<1>5. PICK options : options = RunOptions(s, directive)
  OBVIOUS
<1>6. Options(s, options) /\ DOMAIN options = 0..limit
  BY <1>1, <1>2, <1>5, RunExclusive DEF RunOptions
<1>7. PICK o \in Split(s, options) : q = RunOn(o.path, directive, o.tag)
  <2>1. Run(s, directive) = {RunOn(o.path, directive, o.tag) : o \in Split(s, options)}
    BY <1>1, <1>2, <1>5, RunSplit
  <2> QED BY <2>1
<1>8. PICK p, length : p = o.path /\ length = o.tag
  OBVIOUS
<1>9. IsPath(p) /\ length \in 0..limit /\ p.position = s.position /\ Held(p) = Held(s)
  BY <1>6, <1>8, SplitIs
<1>10. length \in 0..(Held(p) - p.position) /\ length \in Nat
  BY <1>2, <1>9, HeldIs
<1>11. PICK c : c = [j \in p.cond |-> Append(UpTo(Rest(p, j), length), Nul)]
  OBVIOUS
<1>12. q = IF length = 0 THEN Failed(p) ELSE Advance(Store(p, directive, c), length)
  BY <1>7, <1>8, <1>11 DEF RunOn
<1>13. q.cond = p.cond
  <2>1. Failed(p).cond = p.cond
    BY <1>9, EndedStays DEF Stays
  <2>2. Advance(Store(p, directive, c), length).cond = p.cond
    BY <1>9, <1>10, StoreStays, StaysAdvance
  <2> QED BY <1>12, <2>1, <2>2
<1>14. Locks(p, i, m, scan) /\ i \in options[length] /\ p.data[i] = s.data[i] /\ i \in p.cond
  <2>1. i \in p.cond
    BY <1>13
  <2>2. i \in o.path.cond
    BY <1>8, <2>1
  <2>0. Options(s, options)
    BY <1>6
  <2>3. /\ i \in options[o.tag] /\ Locks(o.path, i, m, scan) /\ o.path.data[i] = s.data[i]
    BY <2>0, <2>2, LocksSplit
  <2> QED BY <1>8, <2>1, <2>3
<1>15. PICK F : F = FitsAt(s, i, fits)
  OBVIOUS
<1>16. RunOf(F, limit, length)
  BY <1>1, <1>4, <1>5, <1>9, <1>14, <1>15 DEF RunOptions
<1>17. Before(w, stops) = length
  <2>1. ASSUME NEW n \in 0..(Len(w) - 1) PROVE n \in F <=> w[n + 1] \notin stops
    <3>1. n \in Nat /\ n \in 0..(limit - 1) /\ n + 1 \in 1..Len(w)
      BY <1>2
    <3>2. w[n + 1] = At(s, i, s.position + n) /\ w[n + 1] \in Bytes
      BY <1>2, <1>3, <3>1, ElementOfSeq
    <3>3. n \in F <=> w[n + 1] \in fits
      BY <1>15, <3>1, <3>2 DEF FitsAt
    <3>4. w[n + 1] \in fits <=> w[n + 1] \notin stops
      BY <1>4, <3>2 DEF RunFits, Printed
    <3> QED BY <3>3, <3>4
  <2>2. RunOf(F, Len(w), length)
    BY <1>2, <1>16
  <2> QED BY <1>2, <2>1, <2>2, RunBefore
<1>18. UpTo(w, length) = UpTo(Rest(p, i), length)
  <2>1. Rest(p, i) = Rest(s, i)
    BY <1>9, <1>14 DEF Rest
  <2>2. Rest(s, i) \in Seq(Bytes) /\ Len(Rest(s, i)) = Held(s) - s.position
    BY RestIs
  <2>3. limit \in 0..Len(Rest(s, i))
    BY <1>2, <2>2
  <2> QED BY <1>1, <1>9, <2>1, <2>2, <2>3, UpToUpTo DEF Within
<1>19. c[i] = Append(UpTo(w, length), Nul)
  BY <1>11, <1>14, <1>18
<1>20. PICK sign : sign = IF w # <<>> /\ w[1] \in Signs THEN 1 ELSE 0
  OBVIOUS
<1>21. OwnMatches(scan, directive, w) = OwnConverts(scan, directive, w, sign, length)
  BY <1>4, <1>17, <1>20 DEF OwnMatches
<1>22. CASE length = 0
  <2>1. directive.kind = "set"
    <3> SUFFICES ASSUME directive.kind = "string" PROVE FALSE
      OBVIOUS
    <3>1. 0 \notin F
      BY <1>2, <1>16, <1>22 DEF RunOf
    <3>2. At(s, i, s.position) \in Printed
      BY <1>2 DEF Printed
    <3>3. s.position + 0 = s.position
      BY HeldIs
    <3>4. 0 \in F
      BY <1>4, <1>15, <3>2, <3>3 DEF FitsAt, RunFits
    <3> QED BY <3>1, <3>4
  <2>2. OwnConverts(scan, directive, w, sign, length) = OwnFails(scan, 0, "match")
    BY <1>2, <1>22, <2>1 DEF OwnConverts
  <2>3. Locks(Failed(p), i, m, OwnFails(scan, 0, "match"))
    BY <1>9, <1>10, <1>14, LocksFails
  <2> QED BY <1>2, <1>12, <1>21, <1>22, <2>2, <2>3
<1>23. CASE length # 0
  <2>1. OwnConverts(scan, directive, w, sign, length) = OwnRun(scan, directive, w, length)
    BY <1>2, <1>23 DEF OwnConverts
  <2>2. OwnRun(scan, directive, w, length) = OwnTakes(scan, directive, length, c[i])
    BY <1>19 DEF OwnRun
  <2>3. Locks(Advance(Store(p, directive, c), length), i, m, OwnTakes(scan, directive, length, c[i]))
    BY <1>9, <1>10, <1>14, LocksTakes
  <2> QED BY <1>2, <1>12, <1>21, <1>23, <2>1, <2>2, <2>3
<1> QED BY <1>22, <1>23

LEMMA LocksDecimal ==
    ASSUME NEW s, IsPath(s), ~Drained(s), NEW m, IsOwn(m), NEW scan, scan.ended = "no",
           NEW directive, DirectiveOK(directive), directive.kind = "decimal",
           NEW q \in Decimal(s, directive), NEW i \in q.cond, i \in s.cond, Locks(s, i, m, scan)
    PROVE  Locks(q, i, m, OwnPlaced(scan, directive, Rest(s, i)))
<1>1. PICK w, limit : w = Within(s, i, directive) /\ limit = Longest(s, directive)
  OBVIOUS
<1>2. /\ w # <<>> /\ w \in Seq(Bytes) /\ Len(w) = limit
      /\ limit \in 1..(Held(s) - s.position) /\ limit \in Nat \ {0} /\ s.position \in Nat
      /\ OwnPlaced(scan, directive, Rest(s, i)) = OwnMatches(scan, directive, w)
      /\ w[1] = At(s, i, s.position)
  BY <1>1, WithinFirst, WithinIs, HeldIs
<1>3. PICK options : options = DecimalOptions(s, limit)
  OBVIOUS
<1>4. Options(s, options) /\ DOMAIN options = DecimalTags(limit)
  BY <1>2, <1>3, DecimalExclusive DEF DecimalOptions
<1>5. PICK o \in Split(s, options) : q = DecimalOn(o.path, directive, o.tag)
  <2>1. Decimal(s, directive) = {DecimalOn(o.path, directive, o.tag) : o \in Split(s, options)}
    BY <1>1, <1>2, <1>3, DecimalSplit
  <2> QED BY <2>1
<1>6. PICK p, t : p = o.path /\ t = o.tag
  OBVIOUS
<1>7. PICK k, count : k = t.signed /\ count = t.count
  OBVIOUS
<1>8. IsPath(p) /\ t \in DecimalTags(limit) /\ p.position = s.position /\ Held(p) = Held(s)
  BY <1>4, <1>6, SplitIs
<1>9. k \in 0..1 /\ count \in 0..(limit - k) /\ k + count \in 0..limit /\ k \in 0..limit
  BY <1>2, <1>7, <1>8 DEF DecimalTags
<1>10. k + count \in 0..(Held(p) - p.position) /\ k \in 0..(Held(p) - p.position)
  BY <1>2, <1>8, <1>9, HeldIs
<1>11. PICK c : c = [j \in p.cond |-> <<Signed(At(p, j, p.position), UpTo(From(Rest(p, j), k), count))>>]
  OBVIOUS
<1>12. PICK read : read = IF count = 0 THEN Failed(p) ELSE Store(p, directive, c)
  OBVIOUS
<1>13. q = Advance(read, k + count)
  BY <1>5, <1>6, <1>7, <1>11, <1>12 DEF DecimalOn
<1>14. Stays(p, read)
  BY <1>8, <1>12, EndedStays, StoreStays
<1>15. q.cond = p.cond
  BY <1>8, <1>10, <1>13, <1>14, StaysAdvance
<1>16. Locks(p, i, m, scan) /\ i \in options[t] /\ p.data[i] = s.data[i] /\ i \in p.cond
  <2>1. i \in p.cond
    BY <1>15
  <2> QED BY <1>4, <1>6, <2>1, LocksSplit
<1>17. IsDecimal(s, i, limit, t)
  BY <1>3, <1>8, <1>16 DEF DecimalOptions
<1>18. k = IF w # <<>> /\ w[1] \in Signs THEN 1 ELSE 0
  <2>1. (k = 1) = (w[1] \in Signs)
    BY <1>2, <1>7, <1>17 DEF IsDecimal
  <2> QED BY <1>2, <1>9, <2>1
<1>19. PICK f : f = From(w, k)
  OBVIOUS
<1>20. /\ f \in Seq(Bytes) /\ Len(f) = limit - k
       /\ \A n \in 0..(limit - k - 1) : f[n + 1] = At(s, i, s.position + (k + n))
       /\ UpTo(f, count) = UpTo(From(Rest(s, i), k), count)
  BY <1>1, <1>9, <1>19, WithinFrom
<1>21. Before(f, Bytes \ Digits) = count
  <2>1. PICK F : F = DigitsAt(s, i, k)
    OBVIOUS
  <2>2. RunOf(F, Len(f), count)
    BY <1>7, <1>17, <1>20, <2>1 DEF IsDecimal
  <2>3. ASSUME NEW n \in 0..(Len(f) - 1) PROVE n \in F <=> f[n + 1] \notin Bytes \ Digits
    <3>1. n \in Nat /\ n \in 0..(limit - k - 1) /\ n + 1 \in 1..Len(f)
      BY <1>2, <1>9, <1>20
    <3>2. f[n + 1] = At(s, i, s.position + (k + n)) /\ f[n + 1] \in Bytes
      BY <1>20, <3>1, ElementOfSeq
    <3> QED BY <2>1, <3>1, <3>2 DEF DigitsAt
  <2> QED BY <1>20, <2>2, <2>3, RunBefore
<1>22. c[i] = <<Signed(w[1], UpTo(f, count))>>
  <2>1. Rest(p, i) = Rest(s, i) /\ At(p, i, p.position) = At(s, i, s.position)
    BY <1>8, <1>16 DEF Rest, At
  <2> QED BY <1>2, <1>11, <1>16, <1>20, <2>1
<1>23. OwnMatches(scan, directive, w) = OwnDecimal(scan, directive, w, k, count)
  <2>1. \A run : OwnConverts(scan, directive, w, k, run) = OwnDecimal(scan, directive, w, k, count)
    BY <1>2, <1>19, <1>21 DEF OwnConverts
  <2> QED BY <1>18, <2>1 DEF OwnMatches
<1>24. CASE count = 0
  <2>1. OwnDecimal(scan, directive, w, k, count) = OwnFails(scan, k, "match")
    BY <1>24 DEF OwnDecimal
  <2>2. Locks(Advance(Failed(p), k), i, m, OwnFails(scan, k, "match"))
    BY <1>8, <1>10, <1>16, LocksFails
  <2>3. q = Advance(Failed(p), k)
    BY <1>9, <1>12, <1>13, <1>24
  <2> QED BY <1>2, <1>23, <2>1, <2>2, <2>3
<1>25. CASE count # 0
  <2>1. OwnDecimal(scan, directive, w, k, count) = OwnTakes(scan, directive, k + count, c[i])
    BY <1>19, <1>22, <1>25 DEF OwnDecimal
  <2>2. Locks(Advance(Store(p, directive, c), k + count), i, m, OwnTakes(scan, directive, k + count, c[i]))
    BY <1>8, <1>10, <1>16, LocksTakes
  <2>3. q = Advance(Store(p, directive, c), k + count)
    BY <1>12, <1>13, <1>25
  <2> QED BY <1>2, <1>23, <2>1, <2>2, <2>3
<1> QED BY <1>24, <1>25

\* A directive that is not skipped over.
LEMMA LocksConvert ==
    ASSUME NEW s, IsPath(s), NEW m, IsOwn(m), NEW scan, scan.ended = "no",
           NEW directive, DirectiveOK(directive), directive.kind # "space",
           NEW q \in Convert(s, directive), NEW i \in q.cond, i \in s.cond, Locks(s, i, m, scan),
           ~Drained(s) /\ directive.kind = "string" => At(s, i, s.position) \notin Whitespace
    PROVE  Locks(q, i, m, OwnPlaced(scan, directive, Rest(s, i)))
<1>1. CASE Drained(s)
  BY <1>1, LocksEnd
<1>2. CASE ~Drained(s) /\ directive.kind = "literal"
  <2>1. q \in Literal(s, directive)
    BY <1>2 DEF Convert
  <2> QED BY <1>2, <2>1, LocksLiteral
<1>3. CASE ~Drained(s) /\ directive.kind \in {"string", "set"}
  <2>1. q \in Run(s, directive)
    BY <1>3 DEF Convert
  <2> QED BY <1>3, <2>1, LocksRun
<1>4. CASE ~Drained(s) /\ directive.kind = "chars"
  <2>1. q \in Characters(s, directive)
    BY <1>4 DEF Convert
  <2> QED BY <1>4, <2>1, LocksCharacters
<1>5. CASE ~Drained(s) /\ directive.kind = "decimal"
  <2>1. q \in Decimal(s, directive)
    BY <1>5 DEF Convert
  <2> QED BY <1>5, <2>1, LocksDecimal
<1> QED BY <1>1, <1>2, <1>3, <1>4, <1>5 DEF DirectiveOK

\* One directive.
LEMMA LocksStep ==
    ASSUME NEW s, IsPath(s), NEW m, IsOwn(m), NEW scan, NEW directive, DirectiveOK(directive),
           NEW q \in Step(s, directive), NEW i \in q.cond, i \in s.cond, Locks(s, i, m, scan)
    PROVE  Locks(q, i, m, OwnDirective(scan, directive))
<1>1. IsScan(scan) /\ s.scan.result = ResultOf(scan)
  BY DEF Locks
<1>2. s.scan.result = None <=> scan.ended = "no"
  BY <1>1, ResultIs
<1>3. CASE s.scan.result # None
  <2>1. q = s
    BY <1>3 DEF Step
  <2>2. OwnDirective(scan, directive) = scan
    BY <1>2, <1>3 DEF OwnDirective
  <2> QED BY <2>1, <2>2
<1>4. CASE s.scan.result = None
  <2>1. PICK branches : branches = IF Skips(directive) THEN SkipSpace(s) ELSE {s}
    OBVIOUS
  <2>2. PICK at : at = scan.at + (IF Skips(directive) THEN Before(From(scan.data, scan.at), Printed) ELSE 0)
    OBVIOUS
  <2>3. PICK o : o = [scan EXCEPT !.at = at]
    OBVIOUS
  <2>4. /\ DOMAIN o = DOMAIN scan /\ o.data = scan.data /\ o.at = at
        /\ o.assigned = scan.assigned /\ o.ended = scan.ended
    BY <1>1, <2>3 DEF IsScan
  <2>5. OwnDirective(scan, directive) = OwnPlaced(o, directive, From(scan.data, at))
    BY <1>2, <1>4, <2>2, <2>3 DEF OwnDirective, OwnSkipsTo
  <2>6. PICK b \in branches : IF directive.kind = "space" THEN q = b ELSE q \in Convert(b, directive)
    <3>1. CASE directive.kind = "space"
      BY <1>4, <2>1, <3>1 DEF Step
    <3>2. CASE directive.kind # "space"
      <4>1. q \in UNION {Convert(b, directive) : b \in branches}
        BY <1>4, <2>1, <3>2 DEF Step
      <4> QED BY <3>2, <4>1
    <3> QED BY <3>1, <3>2
  <2>7. IsPath(b)
    BY <2>1, <2>6, SkipSpaceParts DEF Parts, Goes
  <2>8. i \in b.cond
    <3>1. CASE directive.kind = "space"
      BY <2>6, <3>1
    <3>2. CASE directive.kind # "space"
      BY <2>6, <2>7, <3>2, ConvertParts DEF Parts, Goes
    <3> QED BY <3>1, <3>2
  <2>9. Locks(b, i, m, o) /\ (Skips(directive) /\ ~Drained(b) => At(b, i, b.position) \notin Whitespace)
    <3>1. CASE Skips(directive)
      <4>1. b \in SkipSpace(s) /\ o = [scan EXCEPT !.at = scan.at + Before(From(scan.data, scan.at), Printed)]
        BY <2>1, <2>2, <2>3, <3>1
      <4> QED BY <2>8, <4>1, LocksSkip
    <3>2. CASE ~Skips(directive)
      <4>1. b = s
        BY <2>1, <3>2
      <4>2. o.at = scan.at
        BY <1>1, <2>2, <2>4, <3>2 DEF IsScan
      <4>3. Locks(b, i, m, o)
        BY <2>4, <4>1, <4>2, LocksSame
      <4> QED BY <3>2, <4>3
    <3> QED BY <3>1, <3>2
  <2>10. From(scan.data, at) = Rest(b, i)
    BY <2>4, <2>7, <2>8, <2>9, LocksRest
  <2>11. o.ended = "no"
    BY <1>2, <1>4, <2>4
  <2>12. CASE directive.kind = "space"
    <3>1. \A w, sign, run : OwnConverts(o, directive, w, sign, run) = o
      BY <2>12 DEF OwnConverts
    <3>2. OwnPlaced(o, directive, From(scan.data, at)) = o
      BY <3>1 DEF OwnPlaced, OwnMatches
    <3> QED BY <2>5, <2>6, <2>9, <2>12, <3>2
  <2>13. CASE directive.kind # "space"
    <3>1. directive.kind = "string" => Skips(directive)
      BY DEF Skips
    <3>2. Locks(q, i, m, OwnPlaced(o, directive, Rest(b, i)))
      BY <2>6, <2>7, <2>8, <2>9, <2>11, <2>13, <3>1, LocksConvert
    <3> QED BY <2>5, <2>10, <3>2
  <2> QED BY <2>12, <2>13
<1> QED BY <1>3, <1>4

-----------------------------------------------------------------------------
(* A whole scan shows what the interpreter shows.                           *)

Begun(m) == [data |-> Left(m), at |-> 0, assigned |-> <<>>, ended |-> "no"]

\* g[j]: the scan of the interpreter after j directives.
OwnScanning(m, directives, n, g) ==
    g = [j \in 0..n |-> IF j = 0 THEN Begun(m) ELSE OwnDirective(g[j - 1], directives[j])]

LEMMA OwnScanningExists ==
    ASSUME NEW m, NEW directives, NEW n \in Nat
    PROVE  \E g : OwnScanning(m, directives, n, g)
<1> DEFINE Bad == {j \in Nat : ~ \E g : OwnScanning(m, directives, j, g)}
<1>1. SUFFICES ASSUME Bad # {} PROVE FALSE
  OBVIOUS
<1>2. PICK j \in Bad : \A k \in Bad : j <= k
  <2> HIDE DEF Bad
  <2>1. Bad \subseteq Nat
    BY DEF Bad
  <2> QED BY <1>1, <2>1, LeastNumber
<1>3. j \in Nat
  OBVIOUS
<1>4. CASE j = 0
  <2> DEFINE g == [k \in 0..0 |-> Begun(m)]
  <2>1. OwnScanning(m, directives, 0, g)
    BY DEF OwnScanning
  <2> QED BY <1>4, <2>1
<1>5. CASE j # 0
  <2>1. j - 1 \in Nat /\ j - 1 \notin Bad
    BY <1>2, <1>3, <1>5
  <2>2. PICK f : OwnScanning(m, directives, j - 1, f)
    BY <2>1
  <2> DEFINE g == [k \in 0..j |-> IF k < j THEN f[k] ELSE OwnDirective(f[k - 1], directives[k])]
  <2>3. \A k \in 0..j : g[k] = IF k = 0 THEN Begun(m) ELSE OwnDirective(g[k - 1], directives[k])
    <3>1. \A k \in 0..(j - 1) : f[k] = IF k = 0 THEN Begun(m) ELSE OwnDirective(f[k - 1], directives[k])
      BY <2>2 DEF OwnScanning
    <3>2. \A k \in 0..(j - 1) : g[k] = f[k]
      BY <1>3
    <3>3. g[j] = OwnDirective(f[j - 1], directives[j])
      BY <1>3
    <3>4. j - 1 \in 0..(j - 1) /\ g[j - 1] = f[j - 1]
      BY <1>3, <1>5, <3>2
    <3>5. g[j] = OwnDirective(g[j - 1], directives[j])
      BY <3>3, <3>4
    <3>6. ASSUME NEW k \in 0..(j - 1)
          PROVE  g[k] = IF k = 0 THEN Begun(m) ELSE OwnDirective(g[k - 1], directives[k])
      <4>1. CASE k = 0
        BY <3>1, <3>2, <4>1
      <4>2. CASE k # 0
        <5>1. k - 1 \in 0..(j - 1)
          BY <1>3, <4>2
        <5>2. g[k] = f[k] /\ g[k - 1] = f[k - 1]
          BY <3>2, <5>1
        <5> HIDE DEF g
        <5> QED BY <3>1, <4>2, <5>2
      <4> QED BY <4>1, <4>2
    <3> HIDE DEF g
    <3> SUFFICES ASSUME NEW k \in 0..j
                 PROVE  g[k] = IF k = 0 THEN Begun(m) ELSE OwnDirective(g[k - 1], directives[k])
      OBVIOUS
    <3>7. CASE k = j
      BY <1>5, <3>5, <3>7
    <3>8. CASE k # j
      <4>1. k \in 0..(j - 1)
        BY <1>3, <3>8
      <4> QED BY <3>6, <4>1
    <3> QED BY <3>7, <3>8
  <2>4. g = [k \in 0..j |-> g[k]]
    OBVIOUS
  <2> HIDE DEF g
  <2>5. OwnScanning(m, directives, j, g)
    BY <2>3, <2>4 DEF OwnScanning
  <2> QED BY <2>5
<1> QED BY <1>4, <1>5

LEMMA OwnScanIs ==
    ASSUME NEW m, NEW directives, Len(directives) \in Nat
    PROVE  \E g : /\ OwnScanning(m, directives, Len(directives), g)
                  /\ OwnScan(m, directives) = OwnScanned(m, g[Len(directives)])
<1>1. PICK n : n = Len(directives)
  OBVIOUS
<1> DEFINE Rec(g) == g = [j \in 0..n |-> IF j = 0 THEN [data |-> Left(m), at |-> 0, assigned |-> <<>>, ended |-> "no"]
                                         ELSE OwnDirective(g[j - 1], directives[j])]
<1>2. \A g : OwnScanning(m, directives, n, g) <=> Rec(g)
  BY DEF OwnScanning, Begun
<1>3. \E g : Rec(g)
  <2>1. \E g : OwnScanning(m, directives, n, g)
    BY <1>1, OwnScanningExists
  <2> HIDE DEF Rec
  <2> QED BY <1>2, <2>1
<1>4. PICK after : after = CHOOSE g : Rec(g)
  OBVIOUS
<1>5. OwnScan(m, directives) = OwnScanned(m, after[n])
  BY <1>1, <1>4 DEF OwnScan
<1>6. Rec(after)
  <2> HIDE DEF Rec
  <2> QED BY <1>3, <1>4
<1>7. OwnScanning(m, directives, n, after)
  BY <1>2, <1>6
<1> HIDE DEF Rec
<1> QED BY <1>1, <1>5, <1>7

LEMMA LocksBegun ==
    ASSUME NEW p, IsPath(p), ~p.cut, NEW i \in p.cond, NEW m, IsOwn(m), Agrees(p, i, m)
    PROVE  Locks(Opened(p), i, m, Begun(m))
<1>1. PICK v : v = [assigned |-> 0, result |-> None]
  OBVIOUS
<1>2. Opened(p) = [p EXCEPT !.scan = v]
  BY <1>1 DEF Opened
<1>3. PICK s : s = Opened(p)
  OBVIOUS
<1>4. s.position = p.position /\ s.data = p.data /\ s.cut = p.cut /\ s.scan = v
  BY <1>2, <1>3 DEF IsPath, PathFields
<1>5. PICK b : b = Begun(m)
  OBVIOUS
<1>6. /\ DOMAIN b = {"data", "at", "assigned", "ended"} /\ b.data = Left(m) /\ b.at = 0
      /\ b.assigned = <<>> /\ b.ended = "no"
  BY <1>5 DEF Begun
<1>7. IsScan(b) /\ ResultOf(b) = None /\ Len(b.assigned) = 0
  BY <1>6, SeqEmpty DEF IsScan, ResultOf
<1>8. OwnStores(m.memory, b.assigned) = m.memory
  BY <1>6, StoresNone DEF IsOwn
<1>9. p.position = m.position /\ p.data[i].content = m.content /\ m.position \in Nat
  BY HeldIs DEF Agrees
<1>10. Sees(s.data[i], m.saw, OwnStores(m.memory, b.assigned), m.object)
  BY <1>4, <1>8 DEF Agrees
<1>11. s.position = m.position + b.at
  BY <1>4, <1>6, <1>9
<1>12. DOMAIN s.scan = {"assigned", "result"} /\ s.scan.assigned = 0 /\ s.scan.result = None
  BY <1>1, <1>4
<1> QED BY <1>3, <1>4, <1>5, <1>6, <1>7, <1>9, <1>10, <1>11, <1>12 DEF Locks

\* After each directive.
LEMMA ScanningLocks ==
    ASSUME NEW p, IsPath(p), ~p.cut, NEW i \in p.cond, NEW m, IsOwn(m), Agrees(p, i, m),
           NEW directives, AreDirectives(directives), NEW f, Scanning(p, directives, Len(directives), f),
           NEW g, OwnScanning(m, directives, Len(directives), g)
    PROVE  \A s \in f[Len(directives)] : i \in s.cond => Locks(s, i, m, g[Len(directives)])
<1>1. PICK n : n = Len(directives)
  OBVIOUS
<1> DEFINE Good(k) == \A s \in f[k] : IsPath(s) /\ (i \in s.cond => Locks(s, i, m, g[k]))
           Bad == {k \in 0..n : ~Good(k)}
<1>2. SUFFICES ASSUME Bad # {} PROVE FALSE
  <2>1. n \in 0..n
    BY <1>1 DEF AreDirectives
  <2> QED BY <1>1, <2>1
<1>3. PICK k \in Bad : \A j \in Bad : k <= j
  <2>1. Bad \subseteq Nat
    BY <1>1 DEF AreDirectives
  <2> HIDE DEF Bad
  <2> QED BY <1>2, <2>1, LeastNumber
<1>4. k \in 0..n /\ n \in Nat /\ ~Good(k)
  BY <1>1 DEF AreDirectives
<1>5. \A j \in 0..n : f[j] = IF j = 0 THEN {Opened(p)} ELSE UNION {Step(s, directives[j]) : s \in f[j - 1]}
  BY <1>1 DEF Scanning
<1>6. \A j \in 0..n : g[j] = IF j = 0 THEN Begun(m) ELSE OwnDirective(g[j - 1], directives[j])
  BY <1>1 DEF OwnScanning
<1>7. CASE k = 0
  <2>1. f[k] = {Opened(p)} /\ g[k] = Begun(m)
    BY <1>4, <1>5, <1>6, <1>7
  <2>2. IsPath(Opened(p))
    <3>1. PICK v : v = [assigned |-> 0, result |-> None]
      OBVIOUS
    <3>2. Opened(p) = [p EXCEPT !.scan = v]
      BY <3>1 DEF Opened
    <3>3. Stays(p, [p EXCEPT !.scan = v])
      BY ScanStays
    <3> QED BY <3>2, <3>3 DEF Stays
  <2>3. Locks(Opened(p), i, m, Begun(m))
    BY LocksBegun
  <2>4. Good(k)
    BY <2>1, <2>2, <2>3
  <2> QED BY <1>4, <2>4
<1>8. CASE k # 0
  <2>1. k - 1 \in 0..n /\ k - 1 \notin Bad
    BY <1>3, <1>4, <1>8
  <2>2. Good(k - 1)
    BY <2>1
  <2>3. DirectiveOK(directives[k])
    BY <1>1, <1>4, <1>8 DEF AreDirectives
  <2>4. ASSUME NEW s \in f[k] PROVE IsPath(s) /\ (i \in s.cond => Locks(s, i, m, g[k]))
    <3>1. f[k] = UNION {Step(r, directives[k]) : r \in f[k - 1]} /\ g[k] = OwnDirective(g[k - 1], directives[k])
      BY <1>4, <1>5, <1>6, <1>8
    <3>2. PICK r \in f[k - 1] : s \in Step(r, directives[k])
      BY <3>1
    <3>3. IsPath(r) /\ (i \in r.cond => Locks(r, i, m, g[k - 1]))
      BY <2>2
    <3>4. IsPath(s) /\ s.cond \subseteq r.cond
      BY <2>3, <3>2, <3>3, StepParts DEF Parts, Goes
    <3>5. ASSUME i \in s.cond PROVE Locks(s, i, m, g[k])
      <4>1. i \in r.cond /\ Locks(r, i, m, g[k - 1])
        BY <3>3, <3>4, <3>5
      <4>2. PICK scan, directive : scan = g[k - 1] /\ directive = directives[k]
        OBVIOUS
      <4>3. Locks(s, i, m, OwnDirective(scan, directive))
        BY <2>3, <3>2, <3>3, <3>5, <4>1, <4>2, LocksStep
      <4> QED BY <3>1, <4>2, <4>3
    <3> QED BY <3>4, <3>5
  <2>5. Good(k)
    BY <2>4
  <2> QED BY <1>4, <2>5
<1> QED BY <1>7, <1>8

\* What a scan returns, and what `in >> n` returns in its place.
LEMMA LastReplaced ==
    ASSUME NEW s, IsSeq(s), NEW v, NEW x
    PROVE  [Append(s, v) EXCEPT ![Len(Append(s, v))] = x] = Append(s, x)
<1> DEFINE T == ToSet(s) \cup {v, x}
<1>1. s \in Seq(T) /\ v \in T /\ x \in T
  <2>1. s \in Seq(ToSet(s)) /\ ToSet(s) \subseteq T
    BY DEF IsSeq
  <2> QED BY <2>1, SeqMonotonic
<1> HIDE DEF T
<1>2. PICK a, b, n : a = Append(s, v) /\ b = Append(s, x) /\ n = Len(s)
  OBVIOUS
<1>3. /\ a \in Seq(T) /\ b \in Seq(T) /\ Len(a) = n + 1 /\ Len(b) = n + 1 /\ n \in Nat
      /\ \A k \in 1..n : a[k] = s[k] /\ b[k] = s[k]
      /\ b[n + 1] = x
  BY <1>1, <1>2, AppendProperties, LenProperties
<1>4. PICK z : z = n + 1
  OBVIOUS
<1>5. z \in 1..Len(a)
  BY <1>3, <1>4
<1>6. PICK e : e = [a EXCEPT ![z] = x]
  OBVIOUS
<1>7. e \in Seq(T) /\ Len(e) = Len(a) /\ \A j \in 1..Len(a) : e[j] = IF j = z THEN x ELSE a[j]
  BY <1>1, <1>3, <1>5, <1>6, ExceptSeq
<1>8. ASSUME NEW j \in 1..Len(e) PROVE e[j] = b[j]
  <2>1. j \in 1..Len(a)
    BY <1>7
  <2>2. e[j] = IF j = z THEN x ELSE a[j]
    BY <1>7, <2>1
  <2>3. CASE j = z
    BY <1>3, <1>4, <2>2, <2>3
  <2>4. CASE j # z
    <3>1. j \in 1..n
      BY <1>3, <1>4, <2>1, <2>4
    <3> QED BY <1>3, <2>2, <2>4, <3>1
  <2> QED BY <2>3, <2>4
<1>9. e = b
  BY <1>3, <1>7, <1>8, SeqEqual
<1> QED BY <1>2, <1>3, <1>4, <1>6, <1>9

\* What a scan returns.
Counted(scan) == IF scan.ended = "input" /\ scan.assigned = <<>> THEN Eof ELSE Len(scan.assigned)

LEMMA OwnScannedIs ==
    ASSUME NEW m, IsOwn(m), NEW scan
    PROVE  LET n == OwnScanned(m, scan)
               position == m.position + scan.at
               memory == OwnStores(m.memory, scan.assigned)
           IN /\ OwnAfter(n, m, position, Append(m.saw, Counted(scan)), memory, m.object)
              /\ OwnAfter(OwnStream(n), m, position, Append(m.saw, "stream"), memory, m.object)
              /\ IsMemory(memory)
<1>1. PICK n, r, a, memory : /\ n = OwnScanned(m, scan) /\ r = Returning(m, Counted(scan))
                             /\ a = Advanced(r, scan.at) /\ memory = OwnStores(m.memory, scan.assigned)
  OBVIOUS
<1>2. OwnAfter(r, m, m.position, Append(m.saw, Counted(scan)), m.memory, m.object)
  BY <1>1, OwnReturning
<1>3. OwnAfter(a, m, m.position + scan.at, Append(m.saw, Counted(scan)), m.memory, m.object)
  BY <1>1, <1>2, OwnAdvanced
<1>4. n = [a EXCEPT !.peeked = @ \/ scan.ended = "match", !.memory = OwnStores(@, scan.assigned)]
  BY <1>1 DEF OwnScanned, Counted
<1>5. OwnAfter(n, m, m.position + scan.at, Append(m.saw, Counted(scan)), memory, m.object)
  BY <1>1, <1>3, <1>4 DEF OwnAfter, Sees, OwnFields
<1>6. PICK saw : saw = Append(m.saw, Counted(scan))
  OBVIOUS
<1>7. [saw EXCEPT ![Len(saw)] = "stream"] = Append(m.saw, "stream")
  BY <1>6, LastReplaced DEF IsOwn
<1>8. OwnStream(n) = [n EXCEPT !.saw = [@ EXCEPT ![Len(n.saw)] = "stream"]]
  BY DEF OwnStream
<1>9. OwnAfter(OwnStream(n), m, m.position + scan.at, Append(m.saw, "stream"), memory, m.object)
  BY <1>5, <1>6, <1>7, <1>8 DEF OwnAfter, Sees, OwnFields
<1>10. IsMemory(memory)
  BY <1>1 DEF IsMemory, OwnStores
<1> QED BY <1>1, <1>5, <1>9, <1>10

LEMMA FinishAgrees ==
    ASSUME NEW s, IsPath(s), NEW i \in s.cond, NEW m, IsOwn(m), NEW scan, Locks(s, i, m, scan), NEW from
    PROVE  /\ Agrees(Finish(from, s, "count"), i, OwnScanned(m, scan))
           /\ Agrees(Finish(from, s, "stream"), i, OwnStream(OwnScanned(m, scan)))
<1>1. PICK result : result = IF s.scan.result = None THEN s.scan.assigned ELSE s.scan.result
  OBVIOUS
<1>2. result = Counted(scan)
  <2>1. IsScan(scan) /\ s.scan.result = ResultOf(scan) /\ s.scan.assigned = Len(scan.assigned)
    BY DEF Locks
  <2>2. ResultOf(scan) = None <=> scan.ended = "no"
    BY <2>1, ResultIs
  <2>3. CASE scan.ended = "no"
    BY <1>1, <2>1, <2>2, <2>3 DEF Counted
  <2>4. CASE scan.ended # "no"
    BY <1>1, <2>1, <2>2, <2>4 DEF Counted, ResultOf
  <2> QED BY <2>3, <2>4
<1>3. PICK memory : memory = OwnStores(m.memory, scan.assigned)
  OBVIOUS
<1>4. ASSUME NEW returned, NEW v, v = IF returned = "count" THEN result ELSE returned,
             NEW n, OwnAfter(n, m, m.position + scan.at, Append(m.saw, v), memory, m.object)
      PROVE  Agrees(Finish(from, s, returned), i, n)
  <2>1. PICK c, r, h : /\ c = [s EXCEPT !.scan = None] /\ r = ReturnsAll(c, v)
                       /\ h = Handed(r, from, s.position, FALSE)
    OBVIOUS
  <2>2. Finish(from, s, returned) = h \/ Finish(from, s, returned) = r
    <3>1. v = Said(s, returned)
      BY <1>1, <1>4 DEF Said
    <3> QED BY <2>1, <3>1, FinishParts, Zenon
  <2>3. Stays(s, c) /\ c.data = s.data
    BY <2>1, ScanStays, SameData
  <2>4. IsPath(c) /\ i \in c.cond /\ c.position = s.position /\ c.cut = s.cut
    BY <2>3 DEF Stays
  <2>5. Like(c, r) /\ IsPath(r) /\ i \in r.cond
    <3>1. IsPath(c) /\ r = ReturnsAll(c, v)
      BY <2>1, <2>4
    <3>2. Like(c, r)
      BY <3>1, ReturnsAllLike
    <3> QED BY <2>4, <3>2 DEF Like
  <2>6. Sees(r.data[i], Append(c.data[i].saw, v), c.data[i].memory, c.data[i].object)
    BY <2>1, <2>4, ReturnsAllSees
  <2>7. s.data[i].saw = m.saw /\ s.data[i].memory = memory /\ s.data[i].object = m.object
    BY <1>3 DEF Locks, Sees
  <2>8. Sees(r.data[i], n.saw, n.memory, n.object)
    BY <1>4, <2>3, <2>6, <2>7 DEF OwnAfter, Sees
  <2>9. ~r.cut /\ r.position = m.position + scan.at /\ r.data[i].content = m.content
    BY <2>3, <2>4, <2>5 DEF Locks, Like
  <2>10. Agrees(r, i, n)
    BY <1>4, <2>8, <2>9 DEF Agrees, OwnAfter
  <2>11. Agrees(h, i, n)
    BY <2>1, <2>5, <2>10, HandedAgrees
  <2> QED BY <2>2, <2>10, <2>11
<1>5. /\ OwnAfter(OwnScanned(m, scan), m, m.position + scan.at, Append(m.saw, result), memory, m.object)
      /\ OwnAfter(OwnStream(OwnScanned(m, scan)), m, m.position + scan.at, Append(m.saw, "stream"), memory, m.object)
  BY <1>2, <1>3, OwnScannedIs
<1> QED BY <1>4, <1>5

LEMMA ScanAgrees ==
    ASSUME NEW p, IsPath(p), ~p.cut, NEW i \in p.cond, NEW m, IsOwn(m), Agrees(p, i, m),
           NEW directives, AreDirectives(directives)
    PROVE  /\ \A q \in Scan(p, directives, "count") : i \in q.cond => Agrees(q, i, OwnScan(m, directives))
           /\ \A q \in Scan(p, directives, "stream") : i \in q.cond => Agrees(q, i, OwnStream(OwnScan(m, directives)))
<1>1. PICK n : n = Len(directives)
  OBVIOUS
<1>2. n \in Nat
  BY <1>1 DEF AreDirectives
<1> DEFINE Rec(f) == f = [k \in 0..n |-> IF k = 0 THEN {Opened(p)}
                                         ELSE UNION {Step(s, directives[k]) : s \in f[k - 1]}]
<1>3. \A f : Scanning(p, directives, n, f) <=> Rec(f)
  BY DEF Scanning
<1>4. \E f : Rec(f)
  <2>1. \E f : Scanning(p, directives, n, f)
    BY <1>2, ScanningExists
  <2> HIDE DEF Rec
  <2> QED BY <1>3, <2>1
<1>5. PICK after : after = CHOOSE f : Rec(f)
  OBVIOUS
<1>6. \A returned : Scan(p, directives, returned) = {Finish(p.position, s, returned) : s \in after[n]}
  BY <1>1, <1>5 DEF Scan
<1>7. Rec(after)
  <2> HIDE DEF Rec
  <2> QED BY <1>4, <1>5
<1>8. Scanning(p, directives, n, after)
  BY <1>3, <1>7
<1> HIDE DEF Rec
<1>9. PICK g : OwnScanning(m, directives, n, g) /\ OwnScan(m, directives) = OwnScanned(m, g[n])
  BY <1>1, <1>2, OwnScanIs
<1>10. \A s \in after[n] : i \in s.cond => Locks(s, i, m, g[n])
  BY <1>1, <1>8, <1>9, ScanningLocks
<1>11. \A s \in after[n] : IsPath(s)
  BY <1>1, <1>8, ScanningParts DEF Parts, Goes
<1>12. PICK scan, from : scan = g[n] /\ from = p.position
  OBVIOUS
<1>13. ASSUME NEW s \in after[n], NEW returned, i \in Finish(from, s, returned).cond
       PROVE  IsPath(s) /\ i \in s.cond /\ Locks(s, i, m, scan)
  <2>1. IsPath(s) /\ i \in s.cond
    BY <1>11, <1>13, FinishIs
  <2> QED BY <1>10, <1>12, <2>1
<1>14. ASSUME NEW q \in Scan(p, directives, "count"), i \in q.cond
       PROVE  Agrees(q, i, OwnScan(m, directives))
  <2>1. PICK s \in after[n] : q = Finish(from, s, "count")
    BY <1>6, <1>12
  <2>2. IsPath(s) /\ i \in s.cond /\ Locks(s, i, m, scan)
    BY <1>13, <1>14, <2>1
  <2>3. Agrees(Finish(from, s, "count"), i, OwnScanned(m, scan))
    BY <2>2, FinishAgrees
  <2> QED BY <1>9, <1>12, <2>1, <2>3
<1>15. ASSUME NEW q \in Scan(p, directives, "stream"), i \in q.cond
       PROVE  Agrees(q, i, OwnStream(OwnScan(m, directives)))
  <2>1. PICK s \in after[n] : q = Finish(from, s, "stream")
    BY <1>6, <1>12
  <2>2. IsPath(s) /\ i \in s.cond /\ Locks(s, i, m, scan)
    BY <1>13, <1>15, <2>1
  <2>3. Agrees(Finish(from, s, "stream"), i, OwnStream(OwnScanned(m, scan)))
    BY <2>2, FinishAgrees
  <2> QED BY <1>9, <1>12, <2>1, <2>3
<1> QED BY <1>14, <1>15

-----------------------------------------------------------------------------
(* Every call of a program.                                                 *)

\* A run stays one, whatever it calls.
LEMMA OwnStays ==
    ASSUME NEW m, IsOwn(m)
    PROVE  /\ \A v : IsOwn(Returning(m, v))
           /\ \A k : IsOwn(Advanced(m, k))
           /\ \A cells : IsOwn([m EXCEPT !.memory = Put(@, 1, cells)])
           /\ \A text : IsOwn([m EXCEPT !.object = text])
           /\ \A n : IsOwn([m EXCEPT !.position = n])
           /\ \A c, n : IsOwn([m EXCEPT !.content = c, !.position = n])
<1>1. DOMAIN m = OwnFields /\ IsSeq(m.saw) /\ IsMemory(m.memory)
  BY DEF IsOwn
<1>2. ASSUME NEW v PROVE IsOwn(Returning(m, v))
  BY <1>1, SeqAppend DEF IsOwn, Returning, OwnFields
<1>3. ASSUME NEW k PROVE IsOwn(Advanced(m, k))
  BY <1>1 DEF IsOwn, Advanced, OwnFields
<1>4. ASSUME NEW cells PROVE IsOwn([m EXCEPT !.memory = Put(@, 1, cells)])
  <2>1. IsMemory(Put(m.memory, 1, cells))
    BY <1>1, PutMemory
  <2> QED BY <1>1, <2>1 DEF IsOwn, OwnFields
<1>5. ASSUME NEW text PROVE IsOwn([m EXCEPT !.object = text])
  BY <1>1 DEF IsOwn, OwnFields
<1>6. ASSUME NEW n PROVE IsOwn([m EXCEPT !.position = n])
  BY <1>1 DEF IsOwn, OwnFields
<1>7. ASSUME NEW c, NEW n PROVE IsOwn([m EXCEPT !.content = c, !.position = n])
  BY <1>1 DEF IsOwn, OwnFields
<1> QED BY <1>2, <1>3, <1>4, <1>5, <1>6, <1>7

LEMMA OwnMoves ==
    ASSUME NEW m, IsOwn(m)
    PROVE  /\ \A v, k, cells : IsOwn(Advanced([Returning(m, v) EXCEPT !.memory = Put(@, 1, cells)], k))
           /\ \A v, k, text : IsOwn(Advanced([Returning(m, v) EXCEPT !.object = text], k))
           /\ \A v, k : IsOwn(Advanced(Returning(m, v), k))
           /\ \A v, n : IsOwn([Returning(m, v) EXCEPT !.position = n])
           /\ \A v, c, n : IsOwn([Returning(m, v) EXCEPT !.content = c, !.position = n])
<1> SUFFICES ASSUME NEW v, NEW k, NEW x, NEW n
             PROVE  /\ IsOwn(Advanced([Returning(m, v) EXCEPT !.memory = Put(@, 1, x)], k))
                    /\ IsOwn(Advanced([Returning(m, v) EXCEPT !.object = x], k))
                    /\ IsOwn(Advanced(Returning(m, v), k))
                    /\ IsOwn([Returning(m, v) EXCEPT !.position = n])
                    /\ IsOwn([Returning(m, v) EXCEPT !.content = x, !.position = n])
  OBVIOUS
<1>1. PICK r, w, z : /\ r = Returning(m, v) /\ w = [r EXCEPT !.memory = Put(@, 1, x)]
                     /\ z = [r EXCEPT !.object = x]
  OBVIOUS
<1>2. IsOwn(r)
  BY <1>1, OwnStays
<1>3. IsOwn(w) /\ IsOwn(z)
  BY <1>1, <1>2, OwnStays
<1>4. IsOwn(Advanced(w, k)) /\ IsOwn(Advanced(z, k)) /\ IsOwn(Advanced(r, k))
  BY <1>2, <1>3, OwnStays
<1>5. IsOwn([r EXCEPT !.position = n]) /\ IsOwn([r EXCEPT !.content = x, !.position = n])
  BY <1>2, OwnStays
<1> QED BY <1>1, <1>4, <1>5

LEMMA OwnCalls ==
    ASSUME NEW m, IsOwn(m), NEW call
    PROVE  /\ IsOwn(OwnGetc(m, call)) /\ IsOwn(OwnGets(m, call)) /\ IsOwn(OwnFgets(m, call))
           /\ IsOwn(OwnGetline(m, call)) /\ IsOwn(OwnRead(m, call)) /\ IsOwn(OwnToken(m, call))
           /\ IsOwn(OwnEof(m, call)) /\ IsOwn(OwnTell(m, call)) /\ IsOwn(OwnSeek(m, call))
           /\ IsOwn(OwnWrite(m, call)) /\ IsOwn(OwnOpen(m, call))
<1>1. \A v : IsOwn(Returning(m, v))
  BY OwnStays
<1>2. IsOwn(OwnGetc(m, call)) /\ IsOwn(OwnEof(m, call)) /\ IsOwn(OwnTell(m, call))
  BY <1>1, OwnMoves DEF OwnGetc, OwnEof, OwnTell
<1>3. IsOwn(OwnGets(m, call))
  BY <1>1, OwnMoves DEF OwnGets
<1>4. IsOwn(OwnFgets(m, call))
  BY <1>1, OwnMoves DEF OwnFgets
<1>5. IsOwn(OwnGetline(m, call))
  BY <1>1, OwnMoves DEF OwnGetline
<1>6. IsOwn(OwnRead(m, call)) /\ IsOwn(OwnToken(m, call))
  BY OwnMoves DEF OwnRead, OwnToken
<1>7. IsOwn(OwnSeek(m, call)) /\ IsOwn(OwnOpen(m, call))
  BY OwnMoves DEF OwnSeek, OwnOpen
<1>8. IsOwn(OwnWrite(m, call))
  BY OwnMoves DEF OwnWrite
<1> QED BY <1>2, <1>3, <1>4, <1>5, <1>6, <1>7, <1>8

LEMMA OwnScans ==
    ASSUME NEW m, IsOwn(m), NEW directives, AreDirectives(directives)
    PROVE  IsOwn(OwnScan(m, directives)) /\ IsOwn(OwnStream(OwnScan(m, directives)))
<1>1. PICK scan : OwnScan(m, directives) = OwnScanned(m, scan)
  BY OwnScanIs DEF AreDirectives
<1> QED BY <1>1, OwnScannedIs, OwnKept

\* What a call may make of a path: what is not noted shows every input what it sees alone.
Follows(p, Q, call) ==
    /\ Divides(p, Q)
    /\ \A q \in Q : \A i \in q.cond : \A m :
          ~q.noted /\ ~Strays(p, call) /\ IsOwn(m) /\ Agrees(p, i, m) => Agrees(q, i, Alone(m, call))

\* It is enough to look at a stream that was not cut, if what is done to one that was is noted.
LEMMA FollowsIf ==
    ASSUME NEW p, NEW Q, NEW call, Divides(p, Q),
           p.cut /\ Drained(p) /\ ~Strays(p, call) => \A q \in Q : q.noted,
           \A q \in Q : \A i \in q.cond : \A m :
              i \in p.cond /\ ~p.cut /\ ~Strays(p, call) /\ IsOwn(m) /\ Agrees(p, i, m) => Agrees(q, i, Alone(m, call))
    PROVE  Follows(p, Q, call)
<1>1. ASSUME NEW q \in Q, NEW i \in q.cond, NEW m, ~q.noted, ~Strays(p, call), IsOwn(m), Agrees(p, i, m)
      PROVE  Agrees(q, i, Alone(m, call))
  <2>1. i \in p.cond
    BY DEF Divides
  <2>2. ~p.cut
    BY <1>1 DEF Agrees
  <2> QED BY <1>1, <2>1, <2>2
<1> QED BY <1>1 DEF Follows

LEMMA BytesFollow ==
    ASSUME NEW p, IsPath(p), NEW call
    PROVE  /\ call.op = "getchar" => Follows(p, Getchar(p, call), call)
           /\ call.op = "fgetc" => Follows(p, Fgetc(p, call), call)
           /\ call.op = "feof" => Follows(p, Feof(p, call), call)
           /\ call.op = "ftell" => Follows(p, Ftell(p, call), call)
<1>1. ASSUME call.op = "getchar" PROVE Follows(p, Getchar(p, call), call)
  <2>1. \A m : Alone(m, call) = OwnGetc(m, call)
    BY <1>1 DEF Alone
  <2> QED BY <2>1, GetcharDivides, ModelsNote, GetcharAgrees, FollowsIf
<1>2. ASSUME call.op = "fgetc" PROVE Follows(p, Fgetc(p, call), call)
  <2>1. \A m : Alone(m, call) = OwnGetc(m, call)
    BY <1>2 DEF Alone
  <2> QED BY <2>1, FgetcDivides, ModelsNote, GetcharAgrees, FollowsIf
<1>3. ASSUME call.op = "feof" PROVE Follows(p, Feof(p, call), call)
  <2>1. \A m : Alone(m, call) = OwnEof(m, call)
    BY <1>3 DEF Alone
  <2> QED BY <2>1, FeofDivides, ModelsNote, FeofAgrees, FollowsIf
<1>4. ASSUME call.op = "ftell" PROVE Follows(p, Ftell(p, call), call)
  <2>1. \A m : Alone(m, call) = OwnTell(m, call)
    BY <1>4 DEF Alone
  <2> QED BY <2>1, FtellDivides, ModelsNote, FeofAgrees, FollowsIf
<1> QED BY <1>1, <1>2, <1>3, <1>4

LEMMA LinesFollow ==
    ASSUME NEW p, IsPath(p), NEW call, NEW undecided
    PROVE  /\ call.op = "gets" => Follows(p, Gets(p, undecided), call)
           /\ call.op = "fgets" /\ call.size \in Int => Follows(p, Fgets(p, call.size, undecided), call)
           /\ call.op = "getline" => Follows(p, Getline(p, undecided), call)
<1>1. ASSUME call.op = "gets" PROVE Follows(p, Gets(p, undecided), call)
  <2>1. \A m : Alone(m, call) = OwnGets(m, call)
    BY <1>1 DEF Alone
  <2> QED BY <2>1, GetsDivides, ModelsNote, GetsAgrees, FollowsIf
<1>2. ASSUME call.op = "fgets", call.size \in Int PROVE Follows(p, Fgets(p, call.size, undecided), call)
  <2>1. \A m : Alone(m, call) = OwnFgets(m, call)
    BY <1>2 DEF Alone
  <2> QED BY <1>2, <2>1, FgetsDivides, ModelsNote, FgetsAgrees, FollowsIf
<1>3. ASSUME call.op = "getline" PROVE Follows(p, Getline(p, undecided), call)
  <2>1. \A m : Alone(m, call) = OwnGetline(m, call)
    BY <1>3 DEF Alone
  <2> QED BY <2>1, GetlineDivides, ModelsNote, GetlineAgrees, FollowsIf
<1> QED BY <1>1, <1>2, <1>3

LEMMA BlocksFollow ==
    ASSUME NEW p, IsPath(p), NEW call, call.size \in Int
    PROVE  /\ call.op = "read" => Follows(p, Read(p, call), call)
           /\ call.op = "fread" => Follows(p, Fread(p, call), call)
<1>1. ASSUME call.op \in {"read", "fread"} PROVE \A m : Alone(m, call) = OwnRead(m, call)
  BY <1>1 DEF Alone
<1>2. ASSUME call.op = "read" PROVE Follows(p, Read(p, call), call)
  <2>1. \A m : Alone(m, call) = OwnRead(m, call)
    BY <1>1, <1>2
  <2> QED BY <2>1, ReadDivides, BlocksNote, ReadAgrees, FollowsIf
<1>3. ASSUME call.op = "fread" PROVE Follows(p, Fread(p, call), call)
  <2>1. \A m : Alone(m, call) = OwnRead(m, call)
    BY <1>1, <1>3
  <2> QED BY <2>1, FreadDivides, BlocksNote, ReadAgrees, FollowsIf
<1> QED BY <1>2, <1>3

LEMMA TokenFollows ==
    ASSUME NEW p, IsPath(p), NEW call, call.op = "token"
    PROVE  Follows(p, Token(p, call), call)
<1>1. \A m : Alone(m, call) = OwnToken(m, call)
  BY DEF Alone
<1>2. ~Strays(p, call) => ~Drained(p)
  BY DEF Strays
<1> QED BY <1>1, <1>2, TokenDivides, TokenAgrees, FollowsIf

LEMMA FilesFollow ==
    ASSUME NEW p, IsPath(p), NEW call, CallOK(call)
    PROVE  /\ call.op = "fseek" => Follows(p, Fseek(p, call), call)
           /\ call.op = "fopen" => Follows(p, Fopen(p, call), call)
           /\ call.op = "fwrite" => Follows(p, Fwrite(p, call), call)
<1>1. ASSUME call.op = "fseek" PROVE Follows(p, Fseek(p, call), call)
  <2>1. \A m : Alone(m, call) = OwnSeek(m, call)
    BY <1>1 DEF Alone
  <2>2. call.whence \in {"set", "cur", "end"} /\ call.offset \in Int
    BY <1>1 DEF CallOK
  <2> QED BY <2>1, <2>2, FseekDivides, SeekNotes, FseekAgrees, FollowsIf
<1>2. ASSUME call.op = "fopen" PROVE Follows(p, Fopen(p, call), call)
  <2>1. \A m : Alone(m, call) = OwnOpen(m, call)
    BY <1>2 DEF Alone
  <2>2. ~Strays(p, call) => ~p.cut
    BY <1>2 DEF Strays
  <2> QED BY <2>1, <2>2, FopenDivides, FopenAgrees, FollowsIf
<1>3. ASSUME call.op = "fwrite" PROVE Follows(p, Fwrite(p, call), call)
  <2>1. \A m : Alone(m, call) = OwnWrite(m, call)
    BY <1>3 DEF Alone
  <2>2. call.bytes \in Seq(Bytes)
    BY <1>3 DEF CallOK
  <2>3. Divides(p, Fwrite(p, call))
    BY <2>2, FwriteDivides
  <2>4. \A q \in Fwrite(p, call) : q.cond \subseteq p.cond
    BY <2>3 DEF Divides
  <2> QED BY <2>1, <2>2, <2>3, <2>4, FwriteAgrees DEF Follows
<1> QED BY <1>1, <1>2, <1>3

LEMMA ScansFollow ==
    ASSUME NEW p, IsPath(p), NEW call, CallOK(call)
    PROVE  /\ call.op = "scanf" => Follows(p, Scanf(p, call), call)
           /\ call.op = "fscanf" => Follows(p, Fscanf(p, call), call)
           /\ call.op = "number" => Follows(p, Number(p, call), call)
<1>1. ASSUME call.op \in {"scanf", "fscanf"}
      PROVE  AreDirectives(call.directives) /\ \A m : Alone(m, call) = OwnScan(m, call.directives)
  <2>1. AreDirectives(call.directives)
    BY <1>1 DEF CallOK, AreDirectives
  <2>2. \A m : Alone(m, call) = OwnScan(m, call.directives)
    BY <1>1 DEF Alone, OwnScanf
  <2> QED BY <2>1, <2>2
<1>2. ASSUME call.op = "scanf" PROVE Follows(p, Scanf(p, call), call)
  <2>1. AreDirectives(call.directives) /\ \A m : Alone(m, call) = OwnScan(m, call.directives)
    BY <1>1, <1>2
  <2>2. ~Strays(p, call) => ~p.cut
    BY <1>2 DEF Strays
  <2>3. Divides(p, Scanf(p, call))
    BY <2>1, ScanfScans DEF Scans
  <2>4. Scanf(p, call) = Scan(p, call.directives, "count")
    BY DEF Scanf
  <2> QED BY <2>1, <2>2, <2>3, <2>4, ScanAgrees, FollowsIf
<1>3. ASSUME call.op = "fscanf" PROVE Follows(p, Fscanf(p, call), call)
  <2>1. AreDirectives(call.directives) /\ \A m : Alone(m, call) = OwnScan(m, call.directives)
    BY <1>1, <1>3
  <2>2. PICK l : l = Looked(p)
    OBVIOUS
  <2>3. IsPath(l) /\ l.cond = p.cond /\ l.cut = p.cut
    BY <2>2, LookedLike DEF Like
  <2>4. Fscanf(p, call) = Scan(l, call.directives, "count")
    BY <2>2 DEF Fscanf
  <2>5. Divides(p, Fscanf(p, call))
    BY <2>1, ScanfScans DEF Scans
  <2>6. ASSUME p.cut, Drained(p), NEW q \in Fscanf(p, call) PROVE q.noted
    <3>1. Minds(l, q)
      BY <2>1, <2>3, <2>4, ScanScans DEF Scans, Divides
    <3> QED BY <2>2, <2>6, <3>1, CutNotes
  <2>7. ASSUME NEW q \in Fscanf(p, call), NEW i \in q.cond, NEW m, i \in p.cond, ~p.cut, IsOwn(m), Agrees(p, i, m)
        PROVE  Agrees(q, i, OwnScan(m, call.directives))
    <3>1. Agrees(l, i, m)
      BY <2>2, <2>7, LookedAgrees
    <3> QED BY <2>1, <2>3, <2>4, <2>7, <3>1, ScanAgrees
  <2> QED BY <2>1, <2>5, <2>6, <2>7, FollowsIf
<1>4. ASSUME call.op = "number" PROVE Follows(p, Number(p, call), call)
  <2>1. \A m : Alone(m, call) = OwnStream(OwnScan(m, NumberDirectives))
    BY <1>4 DEF Alone, OwnNumber
  <2>2. ~Strays(p, call) => ~p.cut
    BY <1>4 DEF Strays
  <2>3. Divides(p, Number(p, call))
    BY NumberScans DEF Scans
  <2>4. Number(p, call) = Scan(p, NumberDirectives, "stream")
    BY DEF Number
  <2> QED BY <2>1, <2>2, <2>3, <2>4, NumberOK, ScanAgrees, FollowsIf
<1> QED BY <1>2, <1>3, <1>4

\* What the theorem rests on: the runs are runs, the paths hold inputs of the program, and
\* every path shows its inputs what they see alone.
FaithInv ==
    /\ StreamsInv
    /\ \A i \in Inputs : IsOwn(own[i])
    /\ \A p \in paths : p.cond \subseteq Inputs
    /\ \A p \in paths : \A i \in Honest(p) : Agrees(p, i, own[i])

LEMMA CallFollows ==
    ASSUME FaithInv, StreamsInv', NEW call, own' = [i \in Inputs |-> Alone(own[i], call)],
           strayed' = strayed \cup UNION {p.cond : p \in {q \in paths : Strays(q, call)}},
           NEW M, paths' = UNION {M[p] : p \in paths}, \A p \in paths : Follows(p, M[p], call),
           \A m : IsOwn(m) => IsOwn(Alone(m, call))
    PROVE  FaithInv'
<1>1. \A i \in Inputs : own'[i] = Alone(own[i], call) /\ IsOwn(own'[i])
  BY DEF FaithInv
<1>2. ASSUME NEW q \in paths'
      PROVE  /\ q.cond \subseteq Inputs
             /\ \A i \in q.cond : ~q.noted /\ i \notin strayed' => Agrees(q, i, own'[i])
  <2>1. PICK p \in paths : q \in M[p]
    BY <1>2
  <2>2. Follows(p, M[p], call) /\ q.cond \subseteq p.cond /\ Minds(p, q) /\ p.cond \subseteq Inputs
    BY <2>1 DEF Follows, Divides, FaithInv
  <2>3. ASSUME NEW i \in q.cond, ~q.noted, i \notin strayed' PROVE Agrees(q, i, own'[i])
    <3>1. i \in p.cond /\ i \in Inputs /\ ~p.noted
      BY <2>2, <2>3 DEF Minds
    <3>2. i \notin strayed /\ ~Strays(p, call)
      <4>1. Strays(p, call) => p.cond \subseteq UNION {r.cond : r \in {o \in paths : Strays(o, call)}}
        BY Zenon
      <4> QED BY <2>3, <3>1, <4>1
    <3>3. i \in Honest(p)
      BY <3>1, <3>2 DEF Honest
    <3>4. Agrees(p, i, own[i]) /\ IsOwn(own[i])
      BY <3>1, <3>3 DEF FaithInv
    <3>5. Agrees(q, i, Alone(own[i], call))
      BY <2>1, <2>2, <2>3, <3>2, <3>4 DEF Follows
    <3> QED BY <1>1, <3>1, <3>5
  <2> QED BY <2>2, <2>3
<1>3. \A p \in paths' : \A i \in Honest(p)' : Agrees(p, i, own'[i])
  BY <1>2 DEF Honest
<1>4. \A p \in paths' : \A i \in Honest(p)' : Agrees(p, i, own[i])'
  BY <1>3 DEF Agrees, Sees, Drained, Held, OneOf
<1>5. \A i \in Inputs : IsOwn(own[i])'
  BY <1>1
<1> QED BY <1>1, <1>2, <1>4, <1>5 DEF FaithInv

LEMMA ModelsFollow ==
    ASSUME NEW p, IsPath(p), NEW call, CallOK(call), NEW undecided, call.op \in Kinds
    PROVE  Follows(p, Models(p, call, undecided), call)
<1>1. CASE call.op \in {"getchar", "fgetc", "feof", "ftell"}
  BY <1>1, ModelsAre, BytesFollow
<1>2. CASE call.op \in {"gets", "getline"}
  BY <1>2, ModelsAre, LinesFollow
<1>3. CASE call.op = "fgets"
  <2>1. call.size \in Int
    BY <1>3 DEF CallOK
  <2> QED BY <1>3, <2>1, ModelsAre, LinesFollow
<1>4. CASE call.op \in {"read", "fread"}
  <2>1. call.size \in Int
    BY <1>4 DEF CallOK
  <2> QED BY <1>4, <2>1, ModelsAre, BlocksFollow
<1>5. CASE call.op = "token"
  BY <1>5, ModelsAre, TokenFollows
<1>6. CASE call.op \in {"number", "scanf", "fscanf"}
  BY <1>6, ModelsAre, ScansFollow
<1>7. CASE call.op \in {"fseek", "fwrite", "fopen"}
  BY <1>7, ModelsAre, FilesFollow
<1> QED BY <1>1, <1>2, <1>3, <1>4, <1>5, <1>6, <1>7 DEF Kinds

LEMMA AloneOwn ==
    ASSUME NEW m, IsOwn(m), NEW call, CallOK(call), call.op \in Kinds
    PROVE  IsOwn(Alone(m, call))
<1>1. CASE call.op = "number"
  BY <1>1, NumberOK, OwnScans DEF Alone, OwnNumber
<1>2. CASE call.op \in {"scanf", "fscanf"}
  <2>1. AreDirectives(call.directives)
    BY <1>2 DEF CallOK, AreDirectives
  <2> QED BY <1>2, <2>1, OwnScans DEF Alone, OwnScanf
<1>3. CASE call.op \notin {"number", "scanf", "fscanf"}
  BY <1>3, OwnCalls DEF Alone, Kinds
<1> QED BY <1>1, <1>2, <1>3

LEMMA NextFollows ==
    ASSUME FaithInv, Next
    PROVE  FaithInv'
<1>1. PICK call \in Calls, undecided \in BOOLEAN : Calling(call, undecided)
  BY NextCalls
<1>2. CallOK(call)
  BY StreamAssumption
<1>3. StreamsInv' /\ \A p \in paths : IsPath(p)
  BY NextHolds DEF FaithInv, StreamsInv
<1> DEFINE M == [p \in paths |-> Models(p, call, undecided)]
<1>4. \A p \in paths : Follows(p, M[p], call)
  BY <1>1, <1>2, <1>3, ModelsFollow DEF Calling
<1>5. \A m : IsOwn(m) => IsOwn(Alone(m, call))
  BY <1>1, <1>2, AloneOwn DEF Calling
<1>6. /\ own' = [i \in Inputs |-> Alone(own[i], call)] /\ paths' = UNION {M[p] : p \in paths}
      /\ strayed' = strayed \cup UNION {p.cond : p \in {q \in paths : Strays(q, call)}}
  BY <1>1 DEF Calling
<1> HIDE DEF M
<1> QED BY <1>3, <1>4, <1>5, <1>6, CallFollows

LEMMA InitFollows ==
    ASSUME Init
    PROVE  FaithInv
<1>1. StreamsInv
  BY InitHolds
<1>2. \A i \in Inputs : own[i] = Start(i) /\ IsOwn(Start(i))
  <2>1. ASSUME NEW i \in Inputs PROVE own[i] = Start(i) /\ IsOwn(Start(i))
    <3>1. own[i] = Start(i)
      BY DEF Init
    <3>2. /\ DOMAIN Start(i) = OwnFields /\ Start(i).saw = <<>>
          /\ Start(i).memory = [place \in Places |-> [cell \in 1..Cells |-> None]]
      BY DEF Start, OwnFields
    <3> QED BY <3>1, <3>2, SeqEmpty DEF IsOwn, IsMemory
  <2> QED BY <2>1
<1>3. ASSUME NEW p \in paths
      PROVE  /\ p.cond = Inputs /\ p.position = 0 /\ ~p.cut
             /\ \A i \in Inputs : p.data[i] = Symbolic(i)
  BY <1>3 DEF Init
<1>4. ASSUME NEW p \in paths, NEW i \in Inputs PROVE Agrees(p, i, own[i])
  <2>1. p.position = 0 /\ ~p.cut /\ p.data[i] = Symbolic(i) /\ own[i] = Start(i)
    BY <1>2, <1>3
  <2>2. /\ Symbolic(i).content = Start(i).content /\ Symbolic(i).saw = Start(i).saw
        /\ Symbolic(i).memory = Start(i).memory /\ Symbolic(i).object = Start(i).object
        /\ Start(i).position = 0
    BY DEF Symbolic, Start
  <2> QED BY <2>1, <2>2 DEF Agrees, Sees
<1> QED BY <1>1, <1>2, <1>3, <1>4 DEF FaithInv, Honest

\* Whatever calls a program makes, in whatever order and with whatever arguments, a path that
\* says nothing of itself shows each of its inputs, but for those taken through one of the
\* named places, what the interpreter shows it: the results of all calls, the memory and the
\* string, and, unless the stream was cut, the same place of the same content.
THEOREM AlwaysFaithful == Spec => []Faithful
<1>1. Init => FaithInv
  BY InitFollows
<1>2. FaithInv /\ [Next]_vars => FaithInv'
  <2> SUFFICES ASSUME FaithInv, [Next]_vars PROVE FaithInv'
    OBVIOUS
  <2>1. CASE Next
    BY <2>1, NextFollows
  <2>2. CASE UNCHANGED vars
    BY <2>2 DEF FaithInv, StreamsInv, Exclusive, Honest, vars
  <2> QED BY <2>1, <2>2
<1>3. FaithInv => Faithful
  BY DEF FaithInv, Faithful, Agrees, Sees
<1> QED BY <1>1, <1>2, <1>3, PTL DEF Spec

-----------------------------------------------------------------------------
(* A run on the first bytes of its content.                                 *)

\* How much of what m has left is among the first n bytes.
Room(m, n) == IF m.position <= n THEN n - m.position ELSE 0

\* w has done the same as m with the first n bytes alone: it is where m is, or at their end.
Cuts(m, w, n) ==
    /\ w.content = UpTo(m.content, n)
    /\ w.position = IF m.position <= n THEN m.position ELSE n
    /\ Sees(w, m.saw, m.memory, m.object)

Stands(m, n) == m.content \in Seq(Bytes) /\ m.position \in 0..Len(m.content) /\ n \in 0..Len(m.content)

\* What m does next it can do with the first n bytes alone.
Enough(m, x, n) == x.position = m.position \/ x.position <= n

\* What is left of the first bytes.
LEMMA FromUpTo ==
    ASSUME NEW T, NEW c \in Seq(T), NEW n \in 0..Len(c), NEW a \in 0..n
    PROVE  From(UpTo(c, n), a) = UpTo(From(c, a), n - a)
<1>1. Len(c) \in Nat /\ a \in 0..Len(c)
  BY LenProperties
<1>2. PICK x, y, u : x = From(c, a) /\ y = n - a /\ u = UpTo(c, n)
  OBVIOUS
<1>3. x \in Seq(T) /\ Len(x) = Len(c) - a /\ \A k \in 1..(Len(c) - a) : x[k] = c[a + k]
  BY <1>1, <1>2, FromIs
<1>4. u \in Seq(T) /\ Len(u) = n /\ \A k \in 1..n : u[k] = c[k]
  BY <1>2, UpToIs
<1>5. From(u, a) \in Seq(T) /\ Len(From(u, a)) = y /\ \A k \in 1..y : From(u, a)[k] = u[a + k]
  <2>1. a \in 0..Len(u)
    BY <1>4
  <2> QED BY <1>2, <1>4, <2>1, FromIs
<1>6. UpTo(x, y) \in Seq(T) /\ Len(UpTo(x, y)) = y /\ \A k \in 1..y : UpTo(x, y)[k] = x[k]
  <2>1. y \in 0..Len(x)
    BY <1>1, <1>2, <1>3
  <2> QED BY <1>3, <2>1, UpToIs
<1>7. ASSUME NEW k \in 1..y PROVE From(u, a)[k] = UpTo(x, y)[k]
  <2>1. k \in 1..(Len(c) - a) /\ a + k \in 1..n
    BY <1>1, <1>2
  <2> QED BY <1>3, <1>4, <1>5, <1>6, <2>1
<1>8. From(u, a) = UpTo(x, y)
  BY <1>5, <1>6, <1>7, SeqEqual
<1> QED BY <1>2, <1>8

LEMMA CutLeft ==
    ASSUME NEW m, NEW n, Stands(m, n), NEW w, Cuts(m, w, n)
    PROVE  /\ Left(m) \in Seq(Bytes) /\ Len(Left(m)) = Len(m.content) - m.position
           /\ Len(m.content) \in Nat /\ m.position \in Nat /\ n \in Nat
           /\ Room(m, n) \in 0..Len(Left(m)) /\ Left(w) = UpTo(Left(m), Room(m, n))
<1>1. PICK c, a : c = m.content /\ a = m.position
  OBVIOUS
<1>2. c \in Seq(Bytes) /\ a \in 0..Len(c) /\ n \in 0..Len(c) /\ Len(c) \in Nat
  BY <1>1, LenProperties DEF Stands
<1>3. From(c, a) \in Seq(Bytes) /\ Len(From(c, a)) = Len(c) - a /\ Left(m) = From(c, a)
  BY <1>1, <1>2, FromIs DEF Left
<1>4. CASE a <= n
  <2>1. Left(w) = From(UpTo(c, n), a) /\ Room(m, n) = n - a
    BY <1>1, <1>4 DEF Left, Cuts, Room
  <2>2. a \in 0..n
    BY <1>2, <1>4
  <2>3. From(UpTo(c, n), a) = UpTo(From(c, a), n - a)
    BY <1>2, <2>2, FromUpTo
  <2>4. n - a \in 0..(Len(c) - a)
    BY <1>2, <1>4
  <2> QED BY <1>1, <1>2, <1>3, <2>1, <2>3, <2>4
<1>5. CASE ~(a <= n)
  <2>1. Left(w) = From(UpTo(c, n), n) /\ Room(m, n) = 0
    BY <1>1, <1>5 DEF Left, Cuts, Room
  <2>2. n \in 0..n
    BY <1>2
  <2>3. From(UpTo(c, n), n) = UpTo(From(c, n), 0)
    <3>1. n - n = 0
      BY <1>2
    <3> QED BY <1>2, <2>2, <3>1, FromUpTo
  <2>4. PICK x, y : x = From(c, a) /\ y = From(c, n)
    OBVIOUS
  <2>5. x \in Seq(Bytes) /\ y \in Seq(Bytes) /\ 0 \in 0..Len(x) /\ 0 \in 0..Len(y)
    BY <1>2, <2>4, FromIs
  <2>6. UpTo(x, 0) \in Seq(Bytes) /\ Len(UpTo(x, 0)) = 0 /\ UpTo(y, 0) \in Seq(Bytes) /\ Len(UpTo(y, 0)) = 0
    BY <2>5, UpToIs
  <2>7. UpTo(x, 0) = UpTo(y, 0)
    BY <2>6, EmptySeq
  <2> QED BY <1>1, <1>2, <1>3, <2>1, <2>3, <2>4, <2>5, <2>7
<1> QED BY <1>4, <1>5

\* The run before the first of the stops, in the first bytes of s.
LEMMA BeforeCut ==
    ASSUME NEW T, NEW s \in Seq(T), NEW k \in 0..Len(s), NEW stops
    PROVE  Before(UpTo(s, k), stops) = IF Before(s, stops) <= k THEN Before(s, stops) ELSE k
<1>1. PICK b, u : b = Before(s, stops) /\ u = UpTo(s, k)
  OBVIOUS
<1>2. /\ b \in 0..Len(s) /\ Len(s) \in Nat /\ \A j \in 1..b : s[j] \notin stops
      /\ b < Len(s) => s[b + 1] \in stops
  BY <1>1, BeforeIs, LenProperties
<1>3. u \in Seq(T) /\ Len(u) = k /\ \A j \in 1..k : u[j] = s[j]
  BY <1>1, UpToIs
<1>4. PICK l : l = IF b <= k THEN b ELSE k
  OBVIOUS
<1>5. l \in 0..Len(u) /\ \A j \in 1..l : u[j] \notin stops
  BY <1>2, <1>3, <1>4
<1>6. ASSUME l < Len(u) PROVE u[l + 1] \in stops
  <2>1. l = b /\ b + 1 \in 1..k /\ b < Len(s)
    BY <1>2, <1>3, <1>4, <1>6
  <2> QED BY <1>2, <1>3, <2>1
<1>7. Before(u, stops) = l
  BY <1>3, <1>5, <1>6, BeforeUnique
<1> QED BY <1>1, <1>4, <1>7

\* Both go on by the same number of bytes.
LEMMA CutOn ==
    ASSUME NEW m, NEW n, Stands(m, n), NEW w, Cuts(m, w, n), NEW x, NEW y, NEW a \in 0..Room(m, n),
           NEW saw, NEW memory, NEW object,
           OwnAfter(x, m, m.position + a, saw, memory, object),
           OwnAfter(y, w, w.position + a, saw, memory, object)
    PROVE  Cuts(x, y, n)
<1>1. m.position \in Nat /\ n \in Nat /\ Room(m, n) \in Nat
  BY CutLeft
<1>2. y.position = IF x.position <= n THEN x.position ELSE n
  <2>1. x.position = m.position + a /\ y.position = w.position + a
    BY DEF OwnAfter
  <2>2. CASE m.position <= n
    BY <1>1, <2>1, <2>2 DEF Room, Cuts
  <2>3. CASE ~(m.position <= n)
    BY <1>1, <2>1, <2>3 DEF Room, Cuts
  <2> QED BY <2>2, <2>3
<1> QED BY <1>2 DEF Cuts, OwnAfter, Sees

\* The first bytes of the first bytes.
LEMMA CutTaken ==
    ASSUME NEW m, NEW n, Stands(m, n), NEW w, Cuts(m, w, n), NEW a \in 0..Room(m, n)
    PROVE  UpTo(Left(w), a) = UpTo(Left(m), a) /\ Len(Left(w)) = Room(m, n) /\ Left(w) \in Seq(Bytes)
<1>1. Left(m) \in Seq(Bytes) /\ Room(m, n) \in 0..Len(Left(m)) /\ Left(w) = UpTo(Left(m), Room(m, n))
  BY CutLeft
<1> QED BY <1>1, UpToUpTo, UpToIs

\* What is left is nothing.
LEMMA LeftNone ==
    ASSUME NEW m, NEW n, Stands(m, n), NEW w, Cuts(m, w, n)
    PROVE  /\ Left(m) = <<>> <=> Len(Left(m)) = 0
           /\ Left(w) = <<>> <=> Room(m, n) = 0
<1>1. Left(m) \in Seq(Bytes) /\ 0 \in 0..Room(m, n)
  BY CutLeft
<1>2. Len(Left(w)) = Room(m, n) /\ Left(w) \in Seq(Bytes)
  BY <1>1, CutTaken
<1> QED BY <1>1, <1>2, EmptySeq

\* A call that returns, writes and goes on.
LEMMA OwnBuffer ==
    ASSUME NEW m, IsOwn(m), NEW v, NEW cells, NEW a
    PROVE  OwnAfter(Advanced([Returning(m, v) EXCEPT !.memory = Put(@, 1, cells)], a),
                    m, m.position + a, Append(m.saw, v), Put(m.memory, 1, cells), m.object)
<1>1. PICK r : r = Returning(m, v)
  OBVIOUS
<1>2. PICK b : b = [r EXCEPT !.memory = Put(@, 1, cells)]
  OBVIOUS
<1>3. OwnAfter(b, m, m.position, Append(m.saw, v), Put(m.memory, 1, cells), m.object)
  BY <1>1, <1>2, OwnReturning, OwnPuts
<1> QED BY <1>1, <1>2, <1>3, OwnAdvanced

LEMMA OwnNamed ==
    ASSUME NEW m, IsOwn(m), NEW v, NEW object, NEW a
    PROVE  OwnAfter(Advanced([Returning(m, v) EXCEPT !.object = object], a),
                    m, m.position + a, Append(m.saw, v), m.memory, object)
<1>1. PICK r : r = Returning(m, v)
  OBVIOUS
<1>2. PICK b : b = [r EXCEPT !.object = object]
  OBVIOUS
<1>3. OwnAfter(b, m, m.position, Append(m.saw, v), m.memory, object)
  BY <1>1, <1>2, OwnReturning, OwnNames
<1> QED BY <1>1, <1>2, <1>3, OwnAdvanced

\* Two runs of which one is cut do the same.
LEMMA CutReturns ==
    ASSUME NEW m, IsOwn(m), NEW n, Stands(m, n), NEW w, IsOwn(w), Cuts(m, w, n), NEW v
    PROVE  Cuts(Returning(m, v), Returning(w, v), n)
BY OwnReturning DEF OwnAfter, Cuts, Sees

LEMMA CutBuffer ==
    ASSUME NEW m, IsOwn(m), NEW n, Stands(m, n), NEW w, IsOwn(w), Cuts(m, w, n),
           NEW v, NEW cells, NEW a \in 0..Room(m, n)
    PROVE  Cuts(Advanced([Returning(m, v) EXCEPT !.memory = Put(@, 1, cells)], a),
                Advanced([Returning(w, v) EXCEPT !.memory = Put(@, 1, cells)], a), n)
<1>1. PICK x, y : /\ x = Advanced([Returning(m, v) EXCEPT !.memory = Put(@, 1, cells)], a)
                  /\ y = Advanced([Returning(w, v) EXCEPT !.memory = Put(@, 1, cells)], a)
  OBVIOUS
<1>2. OwnAfter(x, m, m.position + a, Append(m.saw, v), Put(m.memory, 1, cells), m.object)
  BY <1>1, OwnBuffer
<1>3. OwnAfter(y, w, w.position + a, Append(w.saw, v), Put(w.memory, 1, cells), w.object)
  BY <1>1, OwnBuffer
<1>4. w.saw = m.saw /\ w.memory = m.memory /\ w.object = m.object
  BY DEF Cuts, Sees
<1>5. OwnAfter(y, w, w.position + a, Append(m.saw, v), Put(m.memory, 1, cells), m.object)
  BY <1>3, <1>4
<1> QED BY <1>1, <1>2, <1>5, CutOn

LEMMA CutNamed ==
    ASSUME NEW m, IsOwn(m), NEW n, Stands(m, n), NEW w, IsOwn(w), Cuts(m, w, n),
           NEW v, NEW object, NEW a \in 0..Room(m, n)
    PROVE  Cuts(Advanced([Returning(m, v) EXCEPT !.object = object], a),
                Advanced([Returning(w, v) EXCEPT !.object = object], a), n)
<1>1. PICK x, y : /\ x = Advanced([Returning(m, v) EXCEPT !.object = object], a)
                  /\ y = Advanced([Returning(w, v) EXCEPT !.object = object], a)
  OBVIOUS
<1>2. OwnAfter(x, m, m.position + a, Append(m.saw, v), m.memory, object)
  BY <1>1, OwnNamed
<1>3. OwnAfter(y, w, w.position + a, Append(w.saw, v), w.memory, object)
  BY <1>1, OwnNamed
<1>4. w.saw = m.saw /\ w.memory = m.memory
  BY DEF Cuts, Sees
<1>5. OwnAfter(y, w, w.position + a, Append(m.saw, v), m.memory, object)
  BY <1>3, <1>4
<1> QED BY <1>1, <1>2, <1>5, CutOn

\* A call that goes on by a bytes, and has enough.
LEMMA EnoughRoom ==
    ASSUME NEW m, NEW n, Stands(m, n), NEW w, Cuts(m, w, n), NEW a \in Nat, NEW x,
           x.position = m.position + a, Enough(m, x, n)
    PROVE  a \in 0..Room(m, n)
<1>1. m.position \in Nat /\ n \in Nat /\ Room(m, n) \in Nat
  BY CutLeft
<1> QED BY <1>1 DEF Enough, Room

LEMMA GetcCuts ==
    ASSUME NEW m, IsOwn(m), NEW n, Stands(m, n), NEW w, IsOwn(w), Cuts(m, w, n), NEW call,
           Enough(m, OwnGetc(m, call), n)
    PROVE  Cuts(OwnGetc(m, call), OwnGetc(w, call), n)
<1>1. /\ Left(m) \in Seq(Bytes) /\ Room(m, n) \in 0..Len(Left(m)) /\ Left(w) = UpTo(Left(m), Room(m, n))
      /\ Len(Left(m)) \in Nat
      /\ Left(m) = <<>> <=> Len(Left(m)) = 0
      /\ Left(w) = <<>> <=> Room(m, n) = 0
  BY CutLeft, LeftNone, LenProperties
<1>2. CASE Left(m) = <<>>
  <2>1. Left(w) = <<>>
    BY <1>1, <1>2
  <2>2. OwnGetc(m, call) = Returning(m, Eof) /\ OwnGetc(w, call) = Returning(w, Eof)
    BY <1>2, <2>1 DEF OwnGetc
  <2> QED BY <2>2, CutReturns
<1>3. CASE Left(m) # <<>>
  <2>1. PICK b : b = Left(m)[1]
    OBVIOUS
  <2>2. PICK x : x = Advanced(Returning(m, b), 1)
    OBVIOUS
  <2>3. OwnGetc(m, call) = x
    BY <1>3, <2>1, <2>2 DEF OwnGetc
  <2>4. OwnAfter(x, m, m.position + 1, Append(m.saw, b), m.memory, m.object)
    BY <2>2, OwnReturning, OwnAdvanced
  <2>5. 1 \in 0..Room(m, n)
    <3>1. x.position = m.position + 1 /\ 1 \in Nat
      BY <2>4 DEF OwnAfter
    <3> QED BY <2>3, <3>1, EnoughRoom
  <2>6. Left(w) # <<>> /\ Left(w)[1] = b
    <3>1. 1 \in 1..Room(m, n)
      BY <1>1, <2>5
    <3>2. UpTo(Left(m), Room(m, n))[1] = Left(m)[1]
      BY <1>1, <3>1, UpToIs
    <3> QED BY <1>1, <2>1, <3>1, <3>2
  <2>7. PICK y : y = Advanced(Returning(w, b), 1)
    OBVIOUS
  <2>8. OwnGetc(w, call) = y
    BY <2>6, <2>7 DEF OwnGetc
  <2>9. OwnAfter(y, w, w.position + 1, Append(w.saw, b), w.memory, w.object)
    BY <2>7, OwnReturning, OwnAdvanced
  <2>10. OwnAfter(y, w, w.position + 1, Append(m.saw, b), m.memory, m.object)
    BY <2>9 DEF Cuts, Sees
  <2> QED BY <2>3, <2>4, <2>5, <2>8, <2>10, CutOn
<1> QED BY <1>2, <1>3

\* A line of l bytes, and the newline behind it.
LinePast(s, l) == l + (IF l < Len(s) THEN 1 ELSE 0)

LEMMA LineCut ==
    ASSUME NEW s \in Seq(Bytes), NEW k \in 0..Len(s), NEW l, l = Before(s, {Newline}),
           LinePast(s, l) <= k, NEW u, u = UpTo(s, k)
    PROVE  Before(u, {Newline}) = l /\ LinePast(u, l) = LinePast(s, l) /\ UpTo(u, l) = UpTo(s, l)
<1>1. l \in 0..Len(s) /\ Len(s) \in Nat
  BY BeforeIs, LenProperties
<1>3. Len(u) = k
  BY UpToIs
<1>4. l <= k
  BY <1>1 DEF LinePast
<1>5. Before(u, {Newline}) = l
  BY <1>4, BeforeCut
<1>6. LinePast(u, l) = LinePast(s, l)
  BY <1>1, <1>3 DEF LinePast
<1>7. UpTo(u, l) = UpTo(s, l)
  BY <1>1, <1>4, UpToUpTo
<1> QED BY <1>5, <1>6, <1>7

LEMMA GetsCuts ==
    ASSUME NEW m, IsOwn(m), NEW n, Stands(m, n), NEW w, IsOwn(w), Cuts(m, w, n), NEW call,
           Enough(m, OwnGets(m, call), n)
    PROVE  Cuts(OwnGets(m, call), OwnGets(w, call), n)
<1>1. /\ Left(m) \in Seq(Bytes) /\ Room(m, n) \in 0..Len(Left(m)) /\ Left(w) = UpTo(Left(m), Room(m, n))
      /\ Len(Left(m)) \in Nat
      /\ Left(m) = <<>> <=> Len(Left(m)) = 0
      /\ Left(w) = <<>> <=> Room(m, n) = 0
  BY CutLeft, LeftNone, LenProperties
<1>2. CASE Left(m) = <<>>
  <2>1. Left(w) = <<>>
    BY <1>1, <1>2
  <2>2. OwnGets(m, call) = Returning(m, Nul) /\ OwnGets(w, call) = Returning(w, Nul)
    BY <1>2, <2>1 DEF OwnGets
  <2> QED BY <2>2, CutReturns
<1>3. CASE Left(m) # <<>>
  <2>1. PICK l : l = Before(Left(m), {Newline})
    OBVIOUS
  <2>2. l \in 0..Len(Left(m))
    BY <1>1, <2>1, BeforeIs
  <2>3. PICK a : a = LinePast(Left(m), l)
    OBVIOUS
  <2>4. a \in Nat /\ a >= 1
    BY <1>1, <1>3, <2>2, <2>3 DEF LinePast
  <2>5. PICK cells : cells = Append(UpTo(Left(m), l), Nul)
    OBVIOUS
  <2>6. PICK x : x = Advanced([Returning(m, "buffer") EXCEPT !.memory = Put(@, 1, cells)], a)
    OBVIOUS
  <2>7. OwnGets(m, call) = x
    BY <1>3, <2>1, <2>3, <2>5, <2>6 DEF OwnGets, OwnLine, LinePast
  <2>8. a \in 0..Room(m, n)
    <3>1. OwnAfter(x, m, m.position + a, Append(m.saw, "buffer"), Put(m.memory, 1, cells), m.object)
      BY <2>6, OwnBuffer
    <3>2. x.position = m.position + a
      BY <3>1 DEF OwnAfter
    <3> QED BY <2>4, <2>7, <3>2, EnoughRoom
  <2>9. /\ Before(Left(w), {Newline}) = l /\ LinePast(Left(w), l) = a
        /\ UpTo(Left(w), l) = UpTo(Left(m), l)
    <3>1. PICK s, k : s = Left(m) /\ k = Room(m, n)
      OBVIOUS
    <3>2. s \in Seq(Bytes) /\ k \in 0..Len(s) /\ a <= k
      BY <1>1, <2>8, <3>1
    <3>3. l = Before(s, {Newline}) /\ LinePast(s, l) = a
      BY <2>1, <2>3, <3>1
    <3>4. PICK u : u = UpTo(s, k)
      OBVIOUS
    <3>5. Before(u, {Newline}) = l /\ LinePast(u, l) = a /\ UpTo(u, l) = UpTo(s, l)
      BY <3>2, <3>3, <3>4, LineCut
    <3>6. Left(w) = u
      BY <1>1, <3>1, <3>4
    <3> QED BY <3>1, <3>5, <3>6
  <2>10. Left(w) # <<>>
    BY <1>1, <2>4, <2>8
  <2>11. OwnGets(w, call) = Advanced([Returning(w, "buffer") EXCEPT !.memory = Put(@, 1, cells)], a)
    BY <2>5, <2>9, <2>10 DEF OwnGets, OwnLine, LinePast
  <2> QED BY <2>6, <2>7, <2>8, <2>11, CutBuffer
<1> QED BY <1>2, <1>3

\* The part of a line that fits a buffer.
Fits(taken) == Clamped(Before(taken, {Newline}) + 1, 0, Len(taken))

LEMMA FitsIs ==
    ASSUME NEW taken \in Seq(Bytes)
    PROVE  /\ Before(taken, {Newline}) \in 0..Len(taken) /\ Len(taken) \in Nat
           /\ Fits(taken) = IF Before(taken, {Newline}) < Len(taken) THEN Before(taken, {Newline}) + 1
                            ELSE Len(taken)
<1>1. PICK b, t : b = Before(taken, {Newline}) /\ t = Len(taken)
  OBVIOUS
<1>2. b \in 0..t /\ t \in Nat
  BY <1>1, BeforeIs, LenProperties
<1>3. Clamped(b + 1, 0, t) = IF b < t THEN b + 1 ELSE t
  BY <1>2 DEF Clamped
<1> QED BY <1>1, <1>2, <1>3 DEF Fits

LEMMA FitsCut ==
    ASSUME NEW s \in Seq(Bytes), NEW k \in 0..Len(s), NEW t \in 0..Len(s), NEW taken, taken = UpTo(s, t),
           Fits(taken) <= k, NEW u, u = UpTo(s, IF t <= k THEN t ELSE k)
    PROVE  Fits(u) = Fits(taken) /\ UpTo(u, Fits(taken)) = UpTo(taken, Fits(taken))
<1>1. Len(s) \in Nat /\ taken \in Seq(Bytes) /\ Len(taken) = t
  BY UpToIs, LenProperties
<1>2. PICK b : b = Before(taken, {Newline})
  OBVIOUS
<1>3. b \in 0..t /\ Fits(taken) = IF b < t THEN b + 1 ELSE t
  BY <1>1, <1>2, FitsIs
<1>4. CASE t <= k
  BY <1>4
<1>5. CASE ~(t <= k)
  <2>1. u = UpTo(s, k) /\ u \in Seq(Bytes) /\ Len(u) = k
    BY <1>5, UpToIs
  <2>2. k \in 0..t /\ k \in 0..Len(taken)
    BY <1>1, <1>5
  <2>3. u = UpTo(taken, k)
    BY <2>1, <2>2, UpToUpTo
  <2>4. b < t /\ b + 1 <= k
    BY <1>1, <1>3, <1>5
  <2>5. Before(UpTo(taken, k), {Newline}) = b
    BY <1>1, <1>2, <1>3, <2>2, <2>4, BeforeCut
  <2>6. Fits(u) = b + 1
    <3>1. Before(u, {Newline}) = b /\ u \in Seq(Bytes) /\ Len(u) = k
      BY <2>1, <2>3, <2>5
    <3>2. Fits(u) = IF b < k THEN b + 1 ELSE k
      BY <3>1, FitsIs
    <3> QED BY <1>3, <2>2, <2>4, <3>2
  <2>7. b + 1 \in 0..k
    BY <1>3, <2>4
  <2>8. UpTo(UpTo(taken, k), b + 1) = UpTo(taken, b + 1)
    BY <1>1, <2>2, <2>7, UpToUpTo
  <2> QED BY <1>3, <2>3, <2>4, <2>6, <2>8
<1> QED BY <1>4, <1>5

\* As much of s as is asked for.
LEMMA WantedIs ==
    ASSUME NEW want \in Int, NEW size \in Nat
    PROVE  /\ Clamped(want, 0, size) \in 0..size
           /\ \A k \in 0..size :
                Clamped(want, 0, k) = IF Clamped(want, 0, size) <= k THEN Clamped(want, 0, size) ELSE k
BY DEF Clamped

LEMMA FgetsCuts ==
    ASSUME NEW m, IsOwn(m), NEW n, Stands(m, n), NEW w, IsOwn(w), Cuts(m, w, n),
           NEW call, call.size \in Int, call.size # 1, Enough(m, OwnFgets(m, call), n)
    PROVE  Cuts(OwnFgets(m, call), OwnFgets(w, call), n)
<1>1. /\ Left(m) \in Seq(Bytes) /\ Room(m, n) \in 0..Len(Left(m)) /\ Left(w) = UpTo(Left(m), Room(m, n))
      /\ Len(Left(m)) \in Nat
      /\ Left(m) = <<>> <=> Len(Left(m)) = 0
      /\ Left(w) = <<>> <=> Room(m, n) = 0
  BY CutLeft, LeftNone, LenProperties
<1>2. CASE call.size <= 0 \/ Left(m) = <<>>
  <2>1. call.size <= 0 \/ Left(w) = <<>>
    BY <1>1, <1>2
  <2>2. OwnFgets(m, call) = Returning(m, Nul) /\ OwnFgets(w, call) = Returning(w, Nul)
    BY <1>2, <2>1 DEF OwnFgets
  <2> QED BY <2>2, CutReturns
<1>3. CASE ~(call.size <= 0 \/ Left(m) = <<>>)
  <2>1. PICK s, k, z : s = Left(m) /\ k = Room(m, n) /\ z = call.size - 1
    OBVIOUS
  <2>2. s \in Seq(Bytes) /\ Len(s) \in Nat /\ Len(s) >= 1 /\ k \in 0..Len(s) /\ z \in Int /\ z >= 1
    BY <1>1, <1>3, <2>1
  <2>3. PICK t : t = Clamped(z, 0, Len(s))
    OBVIOUS
  <2>4. t \in 1..Len(s) /\ t \in 0..Len(s)
    BY <2>2, <2>3 DEF Clamped
  <2>5. PICK taken : taken = UpTo(s, t)
    OBVIOUS
  <2>6. taken \in Seq(Bytes) /\ Len(taken) = t
    BY <2>2, <2>4, <2>5, UpToIs
  <2>7. PICK a : a = Fits(taken)
    OBVIOUS
  <2>8. a \in 1..t /\ a \in Nat
    <3>1. PICK b : b = Before(taken, {Newline})
      OBVIOUS
    <3>2. b \in 0..t /\ a = IF b < t THEN b + 1 ELSE t
      BY <2>6, <2>7, <3>1, FitsIs
    <3> QED BY <2>4, <3>2
  <2>9. PICK cells : cells = Append(UpTo(taken, a), Nul)
    OBVIOUS
  <2>10. PICK x : x = Advanced([Returning(m, "buffer") EXCEPT !.memory = Put(@, 1, cells)], a)
    OBVIOUS
  <2>11. OwnFgets(m, call) = x
    BY <1>3, <2>1, <2>3, <2>5, <2>7, <2>9, <2>10 DEF OwnFgets, Fits
  <2>12. a \in 0..Room(m, n)
    <3>1. OwnAfter(x, m, m.position + a, Append(m.saw, "buffer"), Put(m.memory, 1, cells), m.object)
      BY <2>10, OwnBuffer
    <3>2. x.position = m.position + a
      BY <3>1 DEF OwnAfter
    <3> QED BY <2>8, <2>11, <3>2, EnoughRoom
  <2>13. PICK v, c : v = Left(w) /\ c = IF t <= k THEN t ELSE k
    OBVIOUS
  <2>14. v = UpTo(s, k) /\ Len(v) = k /\ v # <<>>
    BY <1>1, <2>1, <2>2, <2>8, <2>12, <2>13, UpToIs
  <2>15. PICK u : u = UpTo(v, c)
    OBVIOUS
  <2>16. c = Clamped(z, 0, Len(v))
    BY <2>2, <2>3, <2>13, <2>14, WantedIs
  <2>17. u = UpTo(s, c)
    <3>1. c \in 0..k
      BY <2>2, <2>4, <2>13
    <3> QED BY <2>2, <2>14, <2>15, <3>1, UpToUpTo
  <2>18. Fits(u) = a /\ UpTo(u, a) = UpTo(taken, a)
    <3>1. Fits(taken) <= k
      BY <2>1, <2>2, <2>7, <2>12
    <3>2. u = UpTo(s, IF t <= k THEN t ELSE k)
      BY <2>13, <2>17
    <3> QED BY <2>2, <2>4, <2>5, <2>7, <3>1, <3>2, FitsCut
  <2>19. OwnFgets(w, call) = Advanced([Returning(w, "buffer") EXCEPT !.memory = Put(@, 1, cells)], a)
    BY <1>3, <2>1, <2>9, <2>13, <2>14, <2>15, <2>16, <2>18 DEF OwnFgets, Fits
  <2> QED BY <2>10, <2>11, <2>12, <2>19, CutBuffer
<1> QED BY <1>2, <1>3

LEMMA ReadCuts ==
    ASSUME NEW m, IsOwn(m), NEW n, Stands(m, n), NEW w, IsOwn(w), Cuts(m, w, n),
           NEW call, call.size \in Int, Enough(m, OwnRead(m, call), n)
    PROVE  Cuts(OwnRead(m, call), OwnRead(w, call), n)
<1>1. /\ Left(m) \in Seq(Bytes) /\ Room(m, n) \in 0..Len(Left(m)) /\ Left(w) = UpTo(Left(m), Room(m, n))
      /\ Len(Left(m)) \in Nat
  BY CutLeft, LenProperties
<1>2. PICK s, k : s = Left(m) /\ k = Room(m, n)
  OBVIOUS
<1>3. PICK a : a = Clamped(call.size, 0, Len(s))
  OBVIOUS
<1>4. a \in 0..Len(s) /\ a \in Nat
  <2>1. PICK l : l = Len(s)
    OBVIOUS
  <2>2. l \in Nat /\ a = Clamped(call.size, 0, l)
    BY <1>1, <1>2, <1>3, <2>1
  <2>3. a \in 0..l
    BY <2>2 DEF Clamped
  <2> QED BY <2>1, <2>2, <2>3
<1>5. PICK taken : taken = UpTo(s, a)
  OBVIOUS
<1>6. Len(taken) = a
  BY <1>1, <1>2, <1>4, <1>5, UpToIs
<1>7. PICK v : v = a \div call.unit
  OBVIOUS
<1>8. PICK x : x = Advanced([Returning(m, v) EXCEPT !.memory = Put(@, 1, taken)], a)
  OBVIOUS
<1>9. OwnRead(m, call) = x
  BY <1>2, <1>3, <1>5, <1>6, <1>7, <1>8 DEF OwnRead
<1>10. a \in 0..k
  <2>1. OwnAfter(x, m, m.position + a, Append(m.saw, v), Put(m.memory, 1, taken), m.object)
    BY <1>8, OwnBuffer
  <2>2. x.position = m.position + a
    BY <2>1 DEF OwnAfter
  <2> QED BY <1>2, <1>4, <1>9, <2>2, EnoughRoom
<1>11. Left(w) = UpTo(s, k) /\ Len(Left(w)) = k /\ k \in 0..Len(s)
  BY <1>1, <1>2, UpToIs
<1>12. Clamped(call.size, 0, k) = a
  <2>1. Clamped(call.size, 0, k) = IF a <= k THEN a ELSE k
    BY <1>1, <1>2, <1>3, <1>11, WantedIs
  <2> QED BY <1>10, <1>11, <2>1
<1>13. UpTo(Left(w), a) = taken
  BY <1>1, <1>2, <1>5, <1>10, <1>11, UpToUpTo
<1>14. OwnRead(w, call) = Advanced([Returning(w, v) EXCEPT !.memory = Put(@, 1, taken)], a)
  BY <1>6, <1>7, <1>11, <1>12, <1>13 DEF OwnRead
<1> QED BY <1>2, <1>8, <1>9, <1>10, <1>14, CutBuffer

LEMMA TokenCuts ==
    ASSUME NEW m, IsOwn(m), NEW n, Stands(m, n), NEW w, IsOwn(w), Cuts(m, w, n), NEW call,
           Enough(m, OwnToken(m, call), n)
    PROVE  Cuts(OwnToken(m, call), OwnToken(w, call), n)
<1>1. /\ Left(m) \in Seq(Bytes) /\ Room(m, n) \in 0..Len(Left(m)) /\ Left(w) = UpTo(Left(m), Room(m, n))
      /\ Len(Left(m)) \in Nat
  BY CutLeft, LenProperties
<1>2. PICK s, k : s = Left(m) /\ k = Room(m, n)
  OBVIOUS
<1>3. PICK b : b = Before(s, Printed)
  OBVIOUS
<1>4. s \in Seq(Bytes) /\ k \in 0..Len(s) /\ b \in 0..Len(s) /\ Len(s) \in Nat
  BY <1>1, <1>2, <1>3, BeforeIs
<1>5. PICK token : token = From(s, b)
  OBVIOUS
<1>6. token \in Seq(Bytes) /\ Len(token) = Len(s) - b
  BY <1>4, <1>5, FromIs
<1>7. PICK l : l = Before(token, Whitespace)
  OBVIOUS
<1>8. l \in 0..Len(token) /\ l \in Nat
  BY <1>4, <1>6, <1>7, BeforeIs
<1>9. PICK a, object : a = b + l /\ object = Text(UpTo(token, l))
  OBVIOUS
<1>10. PICK x : x = Advanced([Returning(m, "stream") EXCEPT !.object = object], a)
  OBVIOUS
<1>11. OwnToken(m, call) = x
  BY <1>2, <1>3, <1>5, <1>7, <1>9, <1>10 DEF OwnToken
<1>12. a \in 0..k /\ a \in Nat
  <2>1. OwnAfter(x, m, m.position + a, Append(m.saw, "stream"), m.memory, object)
    BY <1>10, OwnNamed
  <2>2. x.position = m.position + a /\ a \in Nat
    BY <1>4, <1>8, <1>9, <2>1 DEF OwnAfter
  <2> QED BY <1>2, <1>11, <2>2, EnoughRoom
<1>13. b \in 0..k /\ k - b \in 0..Len(token) /\ l <= k - b
  BY <1>4, <1>6, <1>8, <1>9, <1>12
<1>14. PICK v, r, j : v = Left(w) /\ r = From(Left(w), b) /\ j = k - b
  OBVIOUS
<1>15. v = UpTo(s, k) /\ Before(v, Printed) = b
  BY <1>1, <1>2, <1>3, <1>4, <1>13, <1>14, BeforeCut
<1>16. r = UpTo(token, j)
  BY <1>4, <1>5, <1>13, <1>14, <1>15, FromUpTo
<1>17. Before(r, Whitespace) = l
  <2>1. j \in 0..Len(token) /\ l <= j
    BY <1>13, <1>14
  <2>2. Before(UpTo(token, j), Whitespace) = IF l <= j THEN l ELSE j
    BY <1>6, <1>7, <2>1, BeforeCut
  <2> QED BY <1>16, <2>1, <2>2
<1>18. UpTo(r, l) = UpTo(token, l)
  <2>1. j \in 0..Len(token) /\ l \in 0..j
    BY <1>8, <1>13, <1>14
  <2> QED BY <1>6, <1>16, <2>1, UpToUpTo
<1>19. OwnToken(w, call) = Advanced([Returning(w, "stream") EXCEPT !.object = object], a)
  BY <1>9, <1>14, <1>15, <1>17, <1>18 DEF OwnToken
<1>20. a \in 0..Room(m, n)
  BY <1>2, <1>12
<1> QED BY <1>10, <1>11, <1>19, <1>20, CutNamed

\* A line may also be taken without the newline behind it.
LEMMA GetlineCuts ==
    ASSUME NEW m, IsOwn(m), NEW n, Stands(m, n), NEW w, IsOwn(w), Cuts(m, w, n), NEW call,
           \/ Enough(m, OwnGetline(m, call), n)
           \/ /\ OwnGetline(m, call).position = n + 1 /\ m.position < n
              /\ n < Len(m.content) /\ m.content[n + 1] = Newline
    PROVE  Cuts(OwnGetline(m, call), OwnGetline(w, call), n)
<1>1. /\ Left(m) \in Seq(Bytes) /\ Room(m, n) \in 0..Len(Left(m)) /\ Left(w) = UpTo(Left(m), Room(m, n))
      /\ Len(Left(m)) \in Nat /\ Len(Left(m)) = Len(m.content) - m.position
      /\ m.position \in Nat /\ n \in Nat /\ Len(m.content) \in Nat
      /\ Left(m) = <<>> <=> Len(Left(m)) = 0
      /\ Left(w) = <<>> <=> Room(m, n) = 0
  BY CutLeft, LeftNone, LenProperties
<1>2. PICK s, k : s = Left(m) /\ k = Room(m, n)
  OBVIOUS
<1>3. s \in Seq(Bytes) /\ k \in 0..Len(s) /\ Left(w) = UpTo(s, k) /\ Len(Left(w)) = k /\ Len(s) \in Nat
  BY <1>1, <1>2, UpToIs
<1>4. CASE s = <<>>
  <2>1. Left(w) = <<>> /\ Left(m) = <<>>
    BY <1>1, <1>2, <1>4
  <2>2. OwnGetline(m, call) = Returning(m, "stream") /\ OwnGetline(w, call) = Returning(w, "stream")
    BY <2>1 DEF OwnGetline
  <2> QED BY <2>2, CutReturns
<1>5. CASE s # <<>>
  <2>1. PICK l : l = Before(s, {Newline})
    OBVIOUS
  <2>2. l \in 0..Len(s) /\ l \in Nat
    BY <1>3, <2>1, BeforeIs
  <2>3. PICK a : a = LinePast(s, l)
    OBVIOUS
  <2>4. a \in Nat /\ a >= 1 /\ a = IF l < Len(s) THEN l + 1 ELSE l
    BY <1>1, <1>2, <1>5, <2>2, <2>3 DEF LinePast
  <2>5. PICK object : object = Text(UpTo(s, l))
    OBVIOUS
  <2>6. PICK x : x = Advanced([Returning(m, "stream") EXCEPT !.object = object], a)
    OBVIOUS
  <2>7. OwnGetline(m, call) = x
    BY <1>2, <1>5, <2>1, <2>3, <2>5, <2>6 DEF OwnGetline, OwnLine, LinePast
  <2>8. OwnAfter(x, m, m.position + a, Append(m.saw, "stream"), m.memory, object)
    BY <2>6, OwnNamed
  <2>9. x.position = m.position + a
    BY <2>8 DEF OwnAfter
  <2>10. PICK v : v = Left(w)
    OBVIOUS
  <2>11. CASE Enough(m, OwnGetline(m, call), n)
    <3>1. a \in 0..k
      BY <1>2, <2>4, <2>7, <2>9, <2>11, EnoughRoom
    <3>2. v = UpTo(s, k) /\ LinePast(s, l) <= k
      BY <1>3, <2>3, <2>10, <3>1
    <3>3. Before(v, {Newline}) = l /\ LinePast(v, l) = a /\ UpTo(v, l) = UpTo(s, l)
      <4>1. s \in Seq(Bytes) /\ k \in 0..Len(s)
        BY <1>3
      <4>2. l = Before(s, {Newline}) /\ LinePast(s, l) = a /\ LinePast(s, l) <= k
        BY <2>1, <2>3, <3>2
      <4>3. v = UpTo(s, k)
        BY <3>2
      <4>4. Before(v, {Newline}) = l /\ LinePast(v, l) = LinePast(s, l) /\ UpTo(v, l) = UpTo(s, l)
        BY <4>1, <4>2, <4>3, LineCut
      <4> QED BY <4>2, <4>4
    <3>4. v # <<>>
      BY <1>1, <1>2, <2>4, <2>10, <3>1
    <3>5. PICK y : y = Advanced([Returning(w, "stream") EXCEPT !.object = object], a)
      OBVIOUS
    <3>6. OwnGetline(w, call) = y
      BY <2>5, <2>10, <3>3, <3>4, <3>5 DEF OwnGetline, OwnLine, LinePast
    <3>7. a \in 0..Room(m, n)
      BY <1>2, <3>1
    <3>8. Cuts(x, y, n)
      BY <2>6, <3>5, <3>7, CutNamed
    <3> QED BY <2>7, <3>6, <3>8
  <2>12. CASE x.position = n + 1 /\ m.position < n /\ n < Len(m.content) /\ m.content[n + 1] = Newline
    <3>1. k = n - m.position /\ k >= 1 /\ a = k + 1 /\ k < Len(s)
      <4>1. k = n - m.position
        BY <1>1, <1>2, <2>12 DEF Room
      <4>2. a <= Len(s)
        BY <1>3, <2>2, <2>4
      <4>3. m.position + a = n + 1
        BY <2>9, <2>12
      <4>4. m.position \in Nat /\ n \in Nat /\ Len(s) \in Nat /\ m.position < n
        BY <1>1, <1>3, <2>12
      <4> QED BY <2>4, <4>1, <4>2, <4>3, <4>4
    <3>2. s[k + 1] = Newline
      <4>1. PICK c, p : c = m.content /\ p = m.position
        OBVIOUS
      <4>2. c \in Seq(Bytes) /\ p \in 0..Len(c) /\ s = From(c, p)
        BY <1>2, <4>1 DEF Stands, Left
      <4>3. \A j \in 1..(Len(c) - p) : s[j] = c[p + j]
        BY <4>2, FromIs
      <4>4. k + 1 \in 1..(Len(c) - p) /\ p + (k + 1) = n + 1
        <5>1. p \in Nat /\ n \in Nat /\ Len(c) \in Nat /\ k = n - p /\ p < n /\ n < Len(c)
          BY <1>1, <2>12, <3>1, <4>1
        <5> QED BY <5>1
      <4> QED BY <2>12, <4>1, <4>3, <4>4
    <3>3. l = k
      <4>1. \A j \in 1..l : s[j] \notin {Newline}
        BY <1>3, <2>1, BeforeIs
      <4>2. ~(k + 1 \in 1..l)
        BY <3>2, <4>1
      <4> QED BY <1>3, <2>2, <2>4, <3>1, <4>2
    <3>4. Before(v, {Newline}) = l /\ v = UpTo(s, l) /\ Len(v) = l
      <4>1. v = UpTo(s, k)
        BY <1>3, <2>10
      <4>2. Before(UpTo(s, k), {Newline}) = IF l <= k THEN l ELSE k
        BY <1>3, <2>1, BeforeCut
      <4> QED BY <1>3, <2>2, <2>10, <3>3, <4>1, <4>2
    <3>5. UpTo(v, l) = UpTo(s, l)
      <4>1. v \in Seq(Bytes)
        BY <1>3, <2>10, UpToIs
      <4> QED BY <3>4, <4>1, UpToFull
    <3>6. v # <<>>
      BY <1>1, <1>2, <2>10, <3>1
    <3>7. PICK y : y = Advanced([Returning(w, "stream") EXCEPT !.object = object], l)
      OBVIOUS
    <3>8. OwnGetline(w, call) = y
      <4>1. l + (IF l < Len(v) THEN 1 ELSE 0) = l
        BY <2>2, <3>4
      <4> QED BY <2>5, <2>10, <3>4, <3>5, <3>6, <3>7, <4>1 DEF OwnGetline, OwnLine
    <3>9. OwnAfter(y, w, w.position + l, Append(w.saw, "stream"), w.memory, object)
      BY <3>7, OwnNamed
    <3>10. y.position = n /\ ~(x.position <= n)
      <4>1. w.position = m.position
        BY <1>1, <2>12 DEF Cuts
      <4>2. y.position = w.position + l
        BY <3>9 DEF OwnAfter
      <4> QED BY <1>1, <2>12, <3>1, <3>3, <4>1, <4>2
    <3>11. Cuts(x, y, n)
      BY <2>8, <3>9, <3>10 DEF Cuts, OwnAfter, Sees
    <3> QED BY <2>7, <3>8, <3>11
  <2> QED BY <2>7, <2>11, <2>12
<1> QED BY <1>4, <1>5

\* x: scan a, n bytes on.
ScanFields == {"data", "at", "assigned", "ended"}
ScanAfter(x, a, n, assigned, ended) ==
    /\ DOMAIN x = ScanFields /\ x.data = a.data /\ x.at = a.at + n
    /\ x.assigned = assigned /\ x.ended = ended

AssignedBy(assigned, directive, cells) == IF directive.assigns THEN Append(assigned, cells) ELSE assigned

LEMMA TakesIs ==
    ASSUME NEW a, DOMAIN a = ScanFields, NEW directive, NEW n, NEW cells
    PROVE  ScanAfter(OwnTakes(a, directive, n, cells), a, n, AssignedBy(a.assigned, directive, cells), a.ended)
BY DEF OwnTakes, ScanAfter, ScanFields, AssignedBy

LEMMA FailsIs ==
    ASSUME NEW a, DOMAIN a = ScanFields, NEW n, NEW how
    PROVE  ScanAfter(OwnFails(a, n, how), a, n, a.assigned, how)
BY DEF OwnFails, ScanAfter, ScanFields

LEMMA OneTakenIs ==
    ASSUME NEW a, DOMAIN a = ScanFields
    PROVE  ScanAfter([a EXCEPT !.at = @ + 1], a, 1, a.assigned, a.ended)
BY DEF ScanAfter, ScanFields

LEMMA AssignedIs ==
    ASSUME NEW assigned, IsSeq(assigned), NEW directive, NEW cells
    PROVE  IsSeq(AssignedBy(assigned, directive, cells))
BY SeqAppend DEF AssignedBy

\* A directive that takes n bytes of w, takes as many of its first bytes if they are there.
AlsoTakes(a, directive, w, n, assigned) ==
    /\ n \in 1..Len(w)
    /\ \A j \in n..Len(w) : \A b :
          DOMAIN b = ScanFields /\ b.assigned = a.assigned /\ b.ended = "no" =>
             /\ UpTo(w, j) # <<>>
             /\ ScanAfter(OwnMatches(b, directive, UpTo(w, j)), b, n, assigned, "no")
Matched(a, directive, w, n, assigned, ended) ==
    /\ ScanAfter(OwnMatches(a, directive, w), a, n, assigned, ended)
    /\ n \in 0..Len(w) /\ IsSeq(assigned) /\ ended \in {"no", "match"}
    /\ ended = "no" => AlsoTakes(a, directive, w, n, assigned)

\* At least one byte of w.
LEMMA SomeCut ==
    ASSUME NEW w \in Seq(Bytes), NEW j \in 1..Len(w), NEW v, v = UpTo(w, j)
    PROVE  /\ v \in Seq(Bytes) /\ Len(v) = j /\ v # <<>> /\ v[1] = w[1] /\ j \in Nat /\ j \in 0..Len(w)
           /\ \A stops : Before(v, stops) = IF Before(w, stops) <= j THEN Before(w, stops) ELSE j
<1>1. Len(w) \in Nat /\ j \in 0..Len(w) /\ j \in Nat /\ 1 \in 1..j
  BY LenProperties
<1>2. v \in Seq(Bytes) /\ Len(v) = j /\ \A k \in 1..j : v[k] = w[k]
  BY <1>1, UpToIs
<1>3. v # <<>> /\ v[1] = w[1]
  BY <1>1, <1>2, EmptySeq
<1>4. ASSUME NEW stops PROVE Before(v, stops) = IF Before(w, stops) <= j THEN Before(w, stops) ELSE j
  BY <1>1, BeforeCut
<1> QED BY <1>1, <1>2, <1>3, <1>4

LEMMA LiteralMatched ==
    ASSUME NEW a, DOMAIN a = ScanFields, IsSeq(a.assigned), a.ended = "no",
           NEW directive, directive.kind = "literal", NEW w \in Seq(Bytes), w # <<>>
    PROVE  \E n, assigned, ended : Matched(a, directive, w, n, assigned, ended)
<1>0. Len(w) \in Nat /\ Len(w) >= 1
  BY LenProperties, EmptySeq
<1>1. \A b, v : v # <<>> => OwnMatches(b, directive, v) =
                   IF v[1] \in directive.set THEN [b EXCEPT !.at = @ + 1] ELSE OwnFails(b, 0, "match")
  BY DEF OwnMatches, OwnConverts
<1>2. CASE w[1] \in directive.set
  <2>1. ScanAfter(OwnMatches(a, directive, w), a, 1, a.assigned, "no")
    <3>1. OwnMatches(a, directive, w) = [a EXCEPT !.at = @ + 1]
      BY <1>1, <1>2
    <3> QED BY <3>1, OneTakenIs
  <2>2. ASSUME NEW j \in 1..Len(w), NEW b, DOMAIN b = ScanFields, b.assigned = a.assigned, b.ended = "no"
        PROVE  /\ UpTo(w, j) # <<>>
               /\ ScanAfter(OwnMatches(b, directive, UpTo(w, j)), b, 1, a.assigned, "no")
    <3>1. PICK v : v = UpTo(w, j)
      OBVIOUS
    <3>2. v # <<>> /\ v[1] = w[1]
      BY <3>1, SomeCut
    <3>3. OwnMatches(b, directive, v) = [b EXCEPT !.at = @ + 1]
      BY <1>1, <1>2, <3>2
    <3> QED BY <2>2, <3>1, <3>2, <3>3, OneTakenIs
  <2>3. AlsoTakes(a, directive, w, 1, a.assigned)
    BY <1>0, <2>2 DEF AlsoTakes
  <2>4. Matched(a, directive, w, 1, a.assigned, "no")
    BY <1>0, <2>1, <2>3 DEF Matched
  <2> QED BY <2>4
<1>3. CASE w[1] \notin directive.set
  <2>1. OwnMatches(a, directive, w) = OwnFails(a, 0, "match")
    BY <1>1, <1>3
  <2>2. Matched(a, directive, w, 0, a.assigned, "match")
    BY <1>0, <2>1, FailsIs DEF Matched
  <2> QED BY <2>2
<1> QED BY <1>2, <1>3

RunStops(directive) == IF directive.kind = "string" THEN Whitespace ELSE Bytes \ directive.set

LEMMA RunMatched ==
    ASSUME NEW a, DOMAIN a = ScanFields, IsSeq(a.assigned), a.ended = "no",
           NEW directive, directive.kind \in {"string", "set"}, NEW w \in Seq(Bytes), w # <<>>,
           directive.kind = "string" => w[1] \notin Whitespace
    PROVE  \E n, assigned, ended : Matched(a, directive, w, n, assigned, ended)
<1>0. Len(w) \in Nat /\ Len(w) >= 1
  BY LenProperties, EmptySeq
<1>1. PICK stops : stops = RunStops(directive)
  OBVIOUS
<1>2. ASSUME NEW b, NEW v, v # <<>>
      PROVE  OwnMatches(b, directive, v) =
                IF directive.kind = "set" /\ Before(v, stops) = 0 THEN OwnFails(b, 0, "match")
                ELSE OwnRun(b, directive, v, Before(v, stops))
  <2>1. PICK run, sign : run = Before(v, stops) /\ sign = IF v # <<>> /\ v[1] \in Signs THEN 1 ELSE 0
    OBVIOUS
  <2>2. OwnMatches(b, directive, v) = OwnConverts(b, directive, v, sign, run)
    BY <1>1, <2>1 DEF OwnMatches, RunStops
  <2>3. OwnConverts(b, directive, v, sign, run) =
           IF directive.kind = "set" /\ run = 0 THEN OwnFails(b, 0, "match") ELSE OwnRun(b, directive, v, run)
    BY <1>2 DEF OwnConverts
  <2> QED BY <2>1, <2>2, <2>3
<1>3. PICK r : r = Before(w, stops)
  OBVIOUS
<1>4. r \in 0..Len(w) /\ r \in Nat /\ (r < Len(w) => w[r + 1] \in stops)
  BY <1>0, <1>3, BeforeIs
<1>5. CASE directive.kind = "set" /\ r = 0
  <2>1. OwnMatches(a, directive, w) = OwnFails(a, 0, "match")
    BY <1>2, <1>3, <1>5
  <2>2. Matched(a, directive, w, 0, a.assigned, "match")
    BY <1>0, <2>1, FailsIs DEF Matched
  <2> QED BY <2>2
<1>6. CASE ~(directive.kind = "set" /\ r = 0)
  <2>1. r \in 1..Len(w)
    <3>1. CASE directive.kind = "set"
      BY <1>4, <1>6, <3>1
    <3>2. CASE directive.kind = "string"
      <4>1. w[1] \notin stops
        BY <1>1, <3>2 DEF RunStops
      <4>2. r # 0
        BY <1>0, <1>4, <4>1
      <4> QED BY <1>4, <4>2
    <3> QED BY <3>1, <3>2
  <2>2. PICK cells, assigned : cells = Append(UpTo(w, r), Nul) /\ assigned = AssignedBy(a.assigned, directive, cells)
    OBVIOUS
  <2>3. ScanAfter(OwnMatches(a, directive, w), a, r, assigned, "no")
    <3>1. OwnMatches(a, directive, w) = OwnTakes(a, directive, r, cells)
      BY <1>2, <1>3, <1>6, <2>2 DEF OwnRun
    <3> QED BY <2>2, <3>1, TakesIs
  <2>4. ASSUME NEW j \in r..Len(w), NEW b, DOMAIN b = ScanFields, b.assigned = a.assigned, b.ended = "no"
        PROVE  /\ UpTo(w, j) # <<>>
               /\ ScanAfter(OwnMatches(b, directive, UpTo(w, j)), b, r, assigned, "no")
    <3>1. PICK v : v = UpTo(w, j)
      OBVIOUS
    <3>2. j \in 1..Len(w) /\ r <= j /\ r \in 0..j /\ j \in 0..Len(w)
      BY <1>0, <1>4, <2>1
    <3>3. v # <<>> /\ Before(v, stops) = IF Before(w, stops) <= j THEN Before(w, stops) ELSE j
      BY <3>1, <3>2, SomeCut
    <3>4. Before(v, stops) = r
      BY <1>3, <3>2, <3>3
    <3>5. UpTo(v, r) = UpTo(w, r)
      BY <3>1, <3>2, UpToUpTo
    <3>6. OwnMatches(b, directive, v) = OwnTakes(b, directive, r, cells)
      <4>1. OwnMatches(b, directive, v) = OwnRun(b, directive, v, r)
        BY <1>2, <1>6, <3>3, <3>4
      <4> QED BY <2>2, <3>5, <4>1 DEF OwnRun
    <3>7. ScanAfter(OwnTakes(b, directive, r, cells), b, r, assigned, "no")
      BY <2>2, <2>4, TakesIs
    <3> QED BY <3>1, <3>3, <3>6, <3>7
  <2>5. AlsoTakes(a, directive, w, r, assigned)
    BY <2>1, <2>4 DEF AlsoTakes
  <2>6. Matched(a, directive, w, r, assigned, "no")
    BY <1>4, <2>2, <2>3, <2>5, AssignedIs DEF Matched
  <2> QED BY <2>6
<1> QED BY <1>5, <1>6

LEMMA CharactersMatched ==
    ASSUME NEW a, DOMAIN a = ScanFields, IsSeq(a.assigned), a.ended = "no",
           NEW directive, directive.kind = "chars", NEW w \in Seq(Bytes), w # <<>>
    PROVE  \E n, assigned, ended : Matched(a, directive, w, n, assigned, ended)
<1>0. Len(w) \in Nat /\ Len(w) >= 1
  BY LenProperties, EmptySeq
<1>1. \A b, v : v # <<>> => OwnMatches(b, directive, v) = OwnTakes(b, directive, Len(v), v)
  BY DEF OwnMatches, OwnConverts
<1>2. PICK l, assigned : l = Len(w) /\ assigned = AssignedBy(a.assigned, directive, w)
  OBVIOUS
<1>3. ScanAfter(OwnMatches(a, directive, w), a, l, assigned, "no")
  BY <1>1, <1>2, TakesIs
<1>4. ASSUME NEW j \in l..Len(w), NEW b, DOMAIN b = ScanFields, b.assigned = a.assigned, b.ended = "no"
      PROVE  /\ UpTo(w, j) # <<>>
             /\ ScanAfter(OwnMatches(b, directive, UpTo(w, j)), b, l, assigned, "no")
  <2>1. j = Len(w)
    BY <1>0, <1>2
  <2>2. UpTo(w, j) = w
    BY <2>1, UpToFull
  <2>3. OwnMatches(b, directive, w) = OwnTakes(b, directive, l, w)
    BY <1>1, <1>2
  <2>4. ScanAfter(OwnTakes(b, directive, l, w), b, l, assigned, "no")
    BY <1>2, <1>4, TakesIs
  <2> QED BY <2>2, <2>3, <2>4
<1>5. AlsoTakes(a, directive, w, l, assigned)
  BY <1>0, <1>2, <1>4 DEF AlsoTakes
<1>6. Matched(a, directive, w, l, assigned, "no")
  BY <1>0, <1>2, <1>3, <1>5, AssignedIs DEF Matched
<1> QED BY <1>6

\* The sign a number begins with.
SignOf(v) == IF v # <<>> /\ v[1] \in Signs THEN 1 ELSE 0

LEMMA DecimalMatched ==
    ASSUME NEW a, DOMAIN a = ScanFields, IsSeq(a.assigned), a.ended = "no",
           NEW directive, directive.kind = "decimal", NEW w \in Seq(Bytes), w # <<>>
    PROVE  \E n, assigned, ended : Matched(a, directive, w, n, assigned, ended)
<1>0. Len(w) \in Nat /\ Len(w) >= 1
  BY LenProperties, EmptySeq
<1>1. PICK stops : stops = Bytes \ Digits
  OBVIOUS
<1>2. \A b, v : v # <<>> => OwnMatches(b, directive, v) =
                   OwnDecimal(b, directive, v, SignOf(v), Before(From(v, SignOf(v)), stops))
  BY <1>1 DEF OwnMatches, OwnConverts, SignOf
<1>3. PICK sign : sign = SignOf(w)
  OBVIOUS
<1>4. sign \in 0..1 /\ sign \in 0..Len(w) /\ sign \in Nat
  BY <1>0, <1>3 DEF SignOf
<1>5. PICK f : f = From(w, sign)
  OBVIOUS
<1>6. f \in Seq(Bytes) /\ Len(f) = Len(w) - sign
  BY <1>4, <1>5, FromIs
<1>7. PICK c : c = Before(f, stops)
  OBVIOUS
<1>8. c \in 0..Len(f) /\ c \in Nat
  BY <1>0, <1>4, <1>6, <1>7, BeforeIs
<1>9. OwnMatches(a, directive, w) = OwnDecimal(a, directive, w, sign, c)
  BY <1>2, <1>3, <1>5, <1>7
<1>10. CASE c = 0
  <2>1. OwnMatches(a, directive, w) = OwnFails(a, sign, "match")
    BY <1>9, <1>10 DEF OwnDecimal
  <2>2. Matched(a, directive, w, sign, a.assigned, "match")
    BY <1>4, <2>1, FailsIs DEF Matched
  <2> QED BY <2>2
<1>11. CASE c # 0
  <2>1. PICK n, cells : n = sign + c /\ cells = <<Signed(w[1], UpTo(f, c))>>
    OBVIOUS
  <2>2. PICK assigned : assigned = AssignedBy(a.assigned, directive, cells)
    OBVIOUS
  <2>3. n \in 1..Len(w)
    BY <1>0, <1>4, <1>6, <1>8, <1>11, <2>1
  <2>4. ScanAfter(OwnMatches(a, directive, w), a, n, assigned, "no")
    <3>1. OwnMatches(a, directive, w) = OwnTakes(a, directive, n, cells)
      BY <1>5, <1>9, <1>11, <2>1 DEF OwnDecimal
    <3> QED BY <2>2, <3>1, TakesIs
  <2>5. ASSUME NEW j \in n..Len(w), NEW b, DOMAIN b = ScanFields, b.assigned = a.assigned, b.ended = "no"
        PROVE  /\ UpTo(w, j) # <<>>
               /\ ScanAfter(OwnMatches(b, directive, UpTo(w, j)), b, n, assigned, "no")
    <3>1. PICK v : v = UpTo(w, j)
      OBVIOUS
    <3>2. j \in 1..Len(w) /\ j \in 0..Len(w) /\ sign \in 0..j /\ j - sign \in 0..Len(f) /\ c <= j - sign
          /\ c \in 0..(j - sign)
      BY <1>0, <1>4, <1>6, <1>8, <2>1, <2>3
    <3>3. v # <<>> /\ v[1] = w[1]
      BY <3>1, <3>2, SomeCut
    <3>4. SignOf(v) = sign
      BY <1>3, <3>3 DEF SignOf
    <3>5. PICK g, k : g = From(v, sign) /\ k = j - sign
      OBVIOUS
    <3>6. g = UpTo(f, k)
      BY <1>5, <3>1, <3>2, <3>5, FromUpTo
    <3>7. Before(g, stops) = c
      <4>1. k \in 0..Len(f) /\ c <= k
        BY <3>2, <3>5
      <4>2. Before(UpTo(f, k), stops) = IF c <= k THEN c ELSE k
        BY <1>6, <1>7, <4>1, BeforeCut
      <4> QED BY <3>6, <4>1, <4>2
    <3>8. UpTo(g, c) = UpTo(f, c)
      BY <1>6, <3>2, <3>5, <3>6, UpToUpTo
    <3>9. OwnMatches(b, directive, v) = OwnDecimal(b, directive, v, sign, c)
      BY <1>2, <3>3, <3>4, <3>5, <3>7
    <3>10. OwnDecimal(b, directive, v, sign, c) = OwnTakes(b, directive, n, cells)
      BY <1>11, <2>1, <3>3, <3>5, <3>8 DEF OwnDecimal
    <3>11. ScanAfter(OwnTakes(b, directive, n, cells), b, n, assigned, "no")
      BY <2>2, <2>5, TakesIs
    <3> QED BY <3>1, <3>3, <3>9, <3>10, <3>11
  <2>6. AlsoTakes(a, directive, w, n, assigned)
    BY <2>3, <2>5 DEF AlsoTakes
  <2>7. n \in 0..Len(w)
    BY <2>3
  <2>8. Matched(a, directive, w, n, assigned, "no")
    BY <2>2, <2>4, <2>6, <2>7, AssignedIs DEF Matched
  <2> QED BY <2>8
<1> QED BY <1>10, <1>11

LEMMA MatchesCut ==
    ASSUME NEW a, DOMAIN a = ScanFields, IsSeq(a.assigned), a.ended = "no",
           NEW directive, DirectiveOK(directive), directive.kind # "space", NEW w \in Seq(Bytes), w # <<>>,
           directive.kind = "string" => w[1] \notin Whitespace
    PROVE  \E n, assigned, ended : Matched(a, directive, w, n, assigned, ended)
<1>1. directive.kind \in {"literal", "string", "set", "chars", "decimal"}
  BY DEF DirectiveOK
<1> QED BY <1>1, LiteralMatched, RunMatched, CharactersMatched, DecimalMatched

\* As much of what is left as a directive may take.
Widest(directive, rest) ==
    IF directive.width = None THEN rest ELSE UpTo(rest, Clamped(directive.width, 0, Len(rest)))
Lesser(t, j) == IF t <= j THEN t ELSE j

LEMMA WidestIs ==
    ASSUME NEW directive, DirectiveOK(directive), NEW rest \in Seq(Bytes)
    PROVE  \E t \in 0..Len(rest) :
              /\ Widest(directive, rest) = UpTo(rest, t)
              /\ t = 0 <=> Len(rest) = 0
              /\ \A j \in 0..Len(rest) : Widest(directive, UpTo(rest, j)) = UpTo(UpTo(rest, t), Lesser(t, j))
<1>1. PICK l : l = Len(rest)
  OBVIOUS
<1>2. l \in Nat
  BY <1>1, LenProperties
<1>3. CASE directive.width = None
  <2>1. Widest(directive, rest) = UpTo(rest, l)
    BY <1>1, <1>3, UpToFull DEF Widest
  <2>2. ASSUME NEW j \in 0..l PROVE Widest(directive, UpTo(rest, j)) = UpTo(UpTo(rest, l), Lesser(l, j))
    <3>1. UpTo(rest, l) = rest
      BY <1>1, UpToFull
    <3>2. Lesser(l, j) = j
      BY <1>2 DEF Lesser
    <3> QED BY <1>3, <3>1, <3>2 DEF Widest
  <2>3. l \in 0..Len(rest) /\ (l = 0 <=> Len(rest) = 0)
    BY <1>1, <1>2
  <2> QED BY <1>1, <2>1, <2>2, <2>3
<1>4. CASE directive.width # None
  <2>1. PICK width : width = directive.width
    OBVIOUS
  <2>2. width \in Nat \ {0}
    BY <1>4, <2>1 DEF DirectiveOK
  <2>3. PICK t : t = Clamped(width, 0, l)
    OBVIOUS
  <2>4. t \in 0..l /\ (t = 0 <=> l = 0) /\ \A j \in 0..l : Clamped(width, 0, j) = Lesser(t, j)
    BY <1>2, <2>2, <2>3 DEF Clamped, Lesser
  <2>5. ASSUME NEW j \in 0..l PROVE Widest(directive, UpTo(rest, j)) = UpTo(UpTo(rest, t), Lesser(t, j))
    <3>1. PICK v, n : v = UpTo(rest, j) /\ n = Lesser(t, j)
      OBVIOUS
    <3>2. Len(v) = j /\ v \in Seq(Bytes)
      BY <1>1, <3>1, UpToIs
    <3>3. Widest(directive, v) = UpTo(v, n)
      BY <1>4, <2>1, <2>4, <3>1, <3>2 DEF Widest
    <3>4. n \in 0..j /\ n \in 0..t /\ t \in 0..Len(rest) /\ j \in 0..Len(rest)
      BY <1>1, <1>2, <2>4, <3>1 DEF Lesser
    <3>5. UpTo(v, n) = UpTo(rest, n)
      BY <3>1, <3>4, UpToUpTo
    <3>6. UpTo(UpTo(rest, t), n) = UpTo(rest, n)
      BY <3>4, UpToUpTo
    <3> QED BY <3>1, <3>3, <3>5, <3>6
  <2>6. Widest(directive, rest) = UpTo(rest, t)
    BY <1>1, <1>4, <2>1, <2>3 DEF Widest
  <2> QED BY <1>1, <2>4, <2>5, <2>6
<1> QED BY <1>3, <1>4

\* What a directive skips.
Blanks(directive, data, at) == IF Skips(directive) THEN Before(From(data, at), Printed) ELSE 0

LEMMA BlanksIs ==
    ASSUME NEW directive, NEW data \in Seq(Bytes), NEW at \in 0..Len(data)
    PROVE  /\ Blanks(directive, data, at) \in 0..(Len(data) - at) /\ Len(data) \in Nat
           /\ directive.kind = "string" /\ at + Blanks(directive, data, at) < Len(data) =>
                data[at + Blanks(directive, data, at) + 1] \notin Whitespace
<1>1. PICK r, b : r = From(data, at) /\ b = Before(r, Printed)
  OBVIOUS
<1>2. Len(data) \in Nat /\ r \in Seq(Bytes) /\ Len(r) = Len(data) - at
      /\ \A j \in 1..(Len(data) - at) : r[j] = data[at + j]
  BY <1>1, FromIs, LenProperties
<1>3. b \in 0..Len(r) /\ (b < Len(r) => r[b + 1] \in Printed)
  BY <1>1, <1>2, BeforeIs
<1>4. CASE Skips(directive)
  <2>1. Blanks(directive, data, at) = b
    BY <1>1, <1>4 DEF Blanks
  <2>2. ASSUME at + b < Len(data) PROVE data[at + b + 1] \notin Whitespace
    <3>1. b < Len(r) /\ b + 1 \in 1..(Len(data) - at) /\ at + (b + 1) = at + b + 1
      BY <1>2, <1>3, <2>2
    <3>2. r[b + 1] = data[at + b + 1]
      BY <1>2, <3>1
    <3> QED BY <1>3, <3>1, <3>2 DEF Printed
  <2> QED BY <1>2, <1>3, <2>1, <2>2
<1>5. CASE ~Skips(directive)
  BY <1>2, <1>5 DEF Blanks, Skips
<1> QED BY <1>4, <1>5

LEMMA BlanksCut ==
    ASSUME NEW directive, NEW data \in Seq(Bytes), NEW k \in 0..Len(data), NEW at \in 0..k,
           NEW b, b = Blanks(directive, data, at), at + b <= k
    PROVE  Blanks(directive, UpTo(data, k), at) = b
<1>1. CASE Skips(directive)
  <2>1. PICK r, j : r = From(data, at) /\ j = k - at
    OBVIOUS
  <2>2. Len(data) \in Nat /\ at \in 0..Len(data)
    BY LenProperties
  <2>3. r \in Seq(Bytes) /\ Len(r) = Len(data) - at
    BY <2>1, <2>2, FromIs
  <2>4. b = Before(r, Printed)
    BY <1>1, <2>1 DEF Blanks
  <2>5. j \in 0..Len(r) /\ b \in 0..Len(r)
    BY <2>1, <2>2, <2>3, <2>4, BeforeIs
  <2>6. b <= j
    BY <2>1, <2>2, <2>3, <2>5
  <2>7. From(UpTo(data, k), at) = UpTo(r, j)
    BY <2>1, FromUpTo
  <2>8. Before(UpTo(r, j), Printed) = IF b <= j THEN b ELSE j
    BY <2>3, <2>4, <2>5, BeforeCut
  <2> QED BY <1>1, <2>6, <2>7, <2>8 DEF Blanks
<1>2. CASE ~Skips(directive)
  BY <1>2 DEF Blanks
<1> QED BY <1>1, <1>2

\* A scan on its way through its data, and the same one with the first k bytes of them.
OnScan(a) == IsScan(a) /\ a.data \in Seq(Bytes) /\ a.at \in 0..Len(a.data)
Twin(a, b, k) ==
    /\ DOMAIN b = ScanFields /\ b.data = UpTo(a.data, k) /\ b.at = a.at
    /\ b.assigned = a.assigned /\ b.ended = a.ended

LEMMA DirectiveIs ==
    ASSUME NEW a, DOMAIN a = ScanFields, a.ended = "no", NEW directive,
           NEW q, q = a.at + Blanks(directive, a.data, a.at), NEW z, z = [a EXCEPT !.at = q]
    PROVE  /\ OwnDirective(a, directive) = OwnMatches(z, directive, Widest(directive, From(a.data, q)))
           /\ DOMAIN z = ScanFields /\ z.data = a.data /\ z.at = q /\ z.assigned = a.assigned /\ z.ended = "no"
<1>1. OwnDirective(a, directive) = OwnSkipsTo(a, directive, q)
  BY DEF OwnDirective, Blanks
<1>2. OwnSkipsTo(a, directive, q) = OwnMatches(z, directive, Widest(directive, From(a.data, q)))
  BY DEF OwnSkipsTo, OwnPlaced, Widest
<1> QED BY <1>1, <1>2 DEF ScanFields

LEMMA DirectiveOn ==
    ASSUME NEW a, OnScan(a), NEW directive, DirectiveOK(directive), NEW x, x = OwnDirective(a, directive)
    PROVE  /\ OnScan(x) /\ x.data = a.data /\ x.at >= a.at
           /\ a.ended = "match" => x.ended = "match"
           /\ \A k \in 0..Len(a.data) : \A b :
                 Twin(a, b, k) /\ x.at <= k /\ x.ended # "match" => Twin(x, OwnDirective(b, directive), k)
<1>1. DOMAIN a = ScanFields /\ a.at \in Nat /\ IsSeq(a.assigned) /\ a.ended \in {"no", "input", "match"}
      /\ a.data \in Seq(Bytes) /\ a.at \in 0..Len(a.data) /\ Len(a.data) \in Nat
  BY LenProperties DEF OnScan, IsScan, ScanFields
<1>2. CASE a.ended # "no"
  <2>1. x = a
    BY <1>2 DEF OwnDirective
  <2>2. ASSUME NEW k, NEW b, Twin(a, b, k) PROVE Twin(x, OwnDirective(b, directive), k)
    <3>1. OwnDirective(b, directive) = b
      BY <1>2, <2>2 DEF OwnDirective, Twin
    <3> QED BY <2>1, <2>2, <3>1
  <2> QED BY <1>1, <2>1, <2>2
<1>3. CASE a.ended = "no"
  <2>1. PICK data, blank, q : /\ data = a.data /\ blank = Blanks(directive, a.data, a.at)
                              /\ q = a.at + blank
    OBVIOUS
  <2>2. PICK z : z = [a EXCEPT !.at = q]
    OBVIOUS
  <2>3. PICK rest : rest = From(data, q)
    OBVIOUS
  <2>4. PICK w : w = Widest(directive, rest)
    OBVIOUS
  <2>5. /\ x = OwnMatches(z, directive, w)
        /\ DOMAIN z = ScanFields /\ z.data = data /\ z.at = q /\ z.assigned = a.assigned /\ z.ended = "no"
    BY <1>1, <1>3, <2>1, <2>2, <2>3, <2>4, DirectiveIs
  <2>6. blank \in 0..(Len(data) - a.at) /\ data \in Seq(Bytes) /\ Len(data) \in Nat /\ a.at \in 0..Len(data)
    BY <1>1, <2>1, BlanksIs
  <2>7. q \in 0..Len(data) /\ q \in Nat /\ q >= a.at
    BY <2>1, <2>6
  <2>8. /\ rest \in Seq(Bytes) /\ Len(rest) = Len(data) - q
        /\ \A j \in 1..(Len(data) - q) : rest[j] = data[q + j]
    BY <2>3, <2>6, <2>7, FromIs
  <2>9. PICK t \in 0..Len(rest) :
              /\ w = UpTo(rest, t)
              /\ t = 0 <=> Len(rest) = 0
              /\ \A j \in 0..Len(rest) : Widest(directive, UpTo(rest, j)) = UpTo(UpTo(rest, t), Lesser(t, j))
    BY <2>4, <2>8, WidestIs
  <2>10. w \in Seq(Bytes) /\ Len(w) = t /\ t \in Nat /\ \A j \in 1..t : w[j] = rest[j]
    <3>1. rest \in Seq(Bytes) /\ t \in 0..Len(rest) /\ w = UpTo(rest, t)
      BY <2>8, <2>9
    <3>2. t \in Nat
      BY <2>6, <2>7, <2>8, <2>9
    <3> QED BY <3>1, <3>2, UpToIs
  <2>11. ASSUME NEW k \in 0..Len(data), NEW b, Twin(a, b, k), q <= k,
                NEW y, y = [b EXCEPT !.at = q]
         PROVE  /\ OwnDirective(b, directive) = OwnMatches(y, directive, UpTo(w, Lesser(t, k - q)))
                /\ DOMAIN y = ScanFields /\ y.data = UpTo(data, k) /\ y.at = q
                /\ y.assigned = a.assigned /\ y.ended = "no"
    <3>1. DOMAIN b = ScanFields /\ b.data = UpTo(data, k) /\ b.at = a.at /\ b.assigned = a.assigned /\ b.ended = "no"
      BY <1>3, <2>1, <2>11 DEF Twin
    <3>2. a.at \in 0..k /\ a.at + blank <= k
      BY <2>1, <2>6, <2>7, <2>11
    <3>3. Blanks(directive, UpTo(data, k), a.at) = blank
      BY <2>1, <2>6, <3>2, BlanksCut
    <3>4. q = b.at + Blanks(directive, b.data, b.at)
      BY <2>1, <3>1, <3>3
    <3>5. PICK u : u = Widest(directive, From(b.data, q))
      OBVIOUS
    <3>6. /\ OwnDirective(b, directive) = OwnMatches(y, directive, u)
          /\ DOMAIN y = ScanFields /\ y.data = b.data /\ y.at = q /\ y.assigned = b.assigned /\ y.ended = "no"
      BY <2>11, <3>1, <3>4, <3>5, DirectiveIs
    <3>7. q \in 0..k /\ k - q \in 0..Len(rest)
      BY <2>6, <2>7, <2>8, <2>11
    <3>8. From(UpTo(data, k), q) = UpTo(rest, k - q)
      BY <2>3, <2>6, <3>7, FromUpTo
    <3>9. u = UpTo(w, Lesser(t, k - q))
      BY <2>9, <3>1, <3>5, <3>7, <3>8
    <3> QED BY <3>1, <3>6, <3>9
  <2>12. CASE directive.kind = "space"
    <3>1. \A c, v : OwnMatches(c, directive, v) = c
      BY <2>12 DEF OwnMatches, OwnConverts
    <3>2. x = z
      BY <2>5, <3>1
    <3>3. ASSUME NEW k \in 0..Len(data), NEW b, Twin(a, b, k), x.at <= k PROVE Twin(x, OwnDirective(b, directive), k)
      <4>1. PICK y : y = [b EXCEPT !.at = q]
        OBVIOUS
      <4>2. q <= k
        BY <2>5, <3>2, <3>3
      <4>3. OwnDirective(b, directive) = y
        BY <2>11, <3>1, <3>3, <4>1, <4>2
      <4>4. /\ DOMAIN y = ScanFields /\ y.data = UpTo(data, k) /\ y.at = q
            /\ y.assigned = a.assigned /\ y.ended = "no"
        BY <2>11, <3>3, <4>1, <4>2
      <4>5. x.data = data /\ x.at = q /\ x.assigned = a.assigned /\ x.ended = "no"
        BY <2>5, <3>2
      <4> QED BY <4>3, <4>4, <4>5 DEF Twin
    <3>4. OnScan(x)
      BY <1>1, <2>5, <2>6, <2>7, <3>2 DEF OnScan, IsScan, ScanFields
    <3> QED BY <1>3, <2>1, <2>5, <2>7, <3>2, <3>3, <3>4
  <2>13. CASE directive.kind # "space" /\ w = <<>>
    <3>1. \A c : OwnMatches(c, directive, <<>>) = OwnFails(c, 0, "input")
      BY <2>13 DEF OwnMatches, OwnConverts
    <3>2. ScanAfter(x, z, 0, a.assigned, "input")
      BY <2>5, <2>13, <3>1, FailsIs
    <3>3. q = Len(data) /\ Len(rest) = 0 /\ t = 0
      <4>1. t = 0
        BY <2>10, <2>13, EmptySeq
      <4> QED BY <2>6, <2>7, <2>8, <2>9, <4>1
    <3>4. x.at = q /\ x.data = data /\ x.assigned = a.assigned /\ x.ended = "input" /\ DOMAIN x = ScanFields
      BY <2>5, <2>7, <3>2 DEF ScanAfter
    <3>5. ASSUME NEW k \in 0..Len(data), NEW b, Twin(a, b, k), x.at <= k PROVE Twin(x, OwnDirective(b, directive), k)
      <4>1. PICK y : y = [b EXCEPT !.at = q]
        OBVIOUS
      <4>2. q <= k /\ k - q = 0 /\ Lesser(t, 0) = 0
        BY <2>6, <3>3, <3>4, <3>5 DEF Lesser
      <4>3. UpTo(w, 0) = <<>>
        <5>1. 0 \in 0..Len(w)
          BY <2>10
        <5>2. UpTo(w, 0) \in Seq(Bytes) /\ Len(UpTo(w, 0)) = 0
          BY <2>10, <5>1, UpToIs
        <5> QED BY <5>2, EmptySeq
      <4>4. OwnDirective(b, directive) = OwnFails(y, 0, "input") /\ DOMAIN y = ScanFields
        BY <2>11, <3>1, <3>5, <4>1, <4>2, <4>3
      <4>5. ScanAfter(OwnFails(y, 0, "input"), y, 0, y.assigned, "input")
        BY <4>4, FailsIs
      <4>6. y.data = UpTo(data, k) /\ y.at = q /\ y.assigned = a.assigned
        BY <2>11, <3>5, <4>1, <4>2
      <4> QED BY <2>7, <3>4, <4>4, <4>5, <4>6 DEF Twin, ScanAfter
    <3>6. OnScan(x)
      BY <1>1, <2>6, <2>7, <3>4 DEF OnScan, IsScan, ScanFields
    <3> QED BY <1>3, <2>1, <2>7, <3>4, <3>5, <3>6
  <2>14. CASE directive.kind # "space" /\ w # <<>>
    <3>1. directive.kind = "string" => w[1] \notin Whitespace
      <4> SUFFICES ASSUME directive.kind = "string" PROVE w[1] \notin Whitespace
        OBVIOUS
      <4>1. t # 0
        BY <2>10, <2>14, EmptySeq
      <4>2. 1 \in 1..t /\ 1 \in 1..(Len(data) - q) /\ q < Len(data)
        BY <2>6, <2>7, <2>8, <2>9, <2>10, <4>1
      <4>3. w[1] = data[q + 1]
        BY <2>8, <2>10, <4>2
      <4>4. data[q + 1] \notin Whitespace
        BY <2>1, <2>6, <4>2, BlanksIs
      <4> QED BY <4>3, <4>4
    <3>2. DOMAIN z = ScanFields /\ IsSeq(z.assigned) /\ z.ended = "no"
      BY <1>1, <2>5
    <3>3. PICK n, assigned, ended : Matched(z, directive, w, n, assigned, ended)
      BY <2>10, <2>14, <3>1, <3>2, MatchesCut
    <3>4. /\ DOMAIN x = ScanFields /\ x.data = data /\ x.at = q + n /\ x.assigned = assigned /\ x.ended = ended
          /\ n \in 0..t /\ IsSeq(assigned) /\ ended \in {"no", "match"}
          /\ ended = "no" => AlsoTakes(z, directive, w, n, assigned)
      BY <2>5, <2>10, <3>3 DEF Matched, ScanAfter
    <3>5. ASSUME NEW k \in 0..Len(data), NEW b, Twin(a, b, k), x.at <= k, x.ended # "match"
          PROVE  Twin(x, OwnDirective(b, directive), k)
      <4>1. PICK y, j : y = [b EXCEPT !.at = q] /\ j = Lesser(t, k - q)
        OBVIOUS
      <4>2. q <= k /\ j \in n..t
        BY <2>7, <2>10, <3>4, <3>5, <4>1 DEF Lesser
      <4>3. /\ OwnDirective(b, directive) = OwnMatches(y, directive, UpTo(w, j))
            /\ DOMAIN y = ScanFields /\ y.data = UpTo(data, k) /\ y.at = q
            /\ y.assigned = a.assigned /\ y.ended = "no"
        BY <2>11, <3>5, <4>1, <4>2
      <4>4. ended = "no" /\ j \in n..Len(w) /\ y.assigned = z.assigned
        BY <2>5, <2>10, <3>4, <3>5, <4>2, <4>3
      <4>5. ScanAfter(OwnMatches(y, directive, UpTo(w, j)), y, n, assigned, "no")
        BY <3>4, <4>3, <4>4 DEF AlsoTakes
      <4> QED BY <3>4, <4>3, <4>4, <4>5 DEF Twin, ScanAfter
    <3>6. x.at \in 0..Len(data) /\ x.at >= a.at /\ x.at \in Nat
      BY <2>6, <2>7, <2>8, <2>9, <3>4
    <3>7. OnScan(x)
      BY <1>1, <2>6, <3>4, <3>6 DEF OnScan, IsScan, ScanFields
    <3> QED BY <1>3, <2>1, <3>4, <3>5, <3>6, <3>7
  <2> QED BY <2>12, <2>13, <2>14
<1> QED BY <1>2, <1>3

\* Induction up to n.
LEMMA UpToAll ==
    ASSUME NEW n \in Nat, NEW S, 0 \in S, \A j \in 0..(n - 1) : j \in S => j + 1 \in S
    PROVE  \A j \in 0..n : j \in S
<1> DEFINE Bad == (0..n) \ S
<1>1. SUFFICES ASSUME Bad # {} PROVE FALSE
  OBVIOUS
<1>2. PICK j \in Bad : \A k \in Bad : j <= k
  <2>1. Bad \subseteq Nat
    OBVIOUS
  <2> HIDE DEF Bad
  <2> QED BY <1>1, <2>1, LeastNumber
<1>3. j \in 0..n /\ j \notin S /\ j # 0
  OBVIOUS
<1>4. j - 1 \in 0..(n - 1) /\ j - 1 \notin Bad /\ j - 1 \in 0..n /\ (j - 1) + 1 = j
  BY <1>2, <1>3
<1> QED BY <1>3, <1>4

LEMMA BegunOn ==
    ASSUME NEW m, Left(m) \in Seq(Bytes)
    PROVE  OnScan(Begun(m)) /\ Begun(m).data = Left(m)
<1>1. PICK b : b = Begun(m)
  OBVIOUS
<1>2. /\ DOMAIN b = {"data", "at", "assigned", "ended"} /\ b.data = Left(m) /\ b.at = 0
      /\ b.assigned = <<>> /\ b.ended = "no"
  BY <1>1 DEF Begun
<1>3. 0 \in 0..Len(b.data)
  BY <1>2, LenProperties
<1> QED BY <1>1, <1>2, <1>3, SeqEmpty DEF OnScan, IsScan

\* A scan stays in its data, and goes on.
LEMMA ScanningOn ==
    ASSUME NEW m, Left(m) \in Seq(Bytes), NEW directives, AreDirectives(directives),
           NEW g, OwnScanning(m, directives, Len(directives), g)
    PROVE  /\ \A j \in 0..Len(directives) : OnScan(g[j]) /\ g[j].data = Left(m)
           /\ \A j \in 1..Len(directives) : g[j] = OwnDirective(g[j - 1], directives[j]) /\ DirectiveOK(directives[j])
           /\ g[0] = Begun(m) /\ Len(directives) \in Nat
<1>1. PICK n : n = Len(directives)
  OBVIOUS
<1>2. n \in Nat /\ \A j \in 1..n : DirectiveOK(directives[j])
  BY <1>1 DEF AreDirectives
<1>3. \A j \in 0..n : g[j] = IF j = 0 THEN Begun(m) ELSE OwnDirective(g[j - 1], directives[j])
  BY <1>1 DEF OwnScanning
<1>4. g[0] = Begun(m)
  BY <1>2, <1>3
<1>5. ASSUME NEW j \in 1..n PROVE g[j] = OwnDirective(g[j - 1], directives[j])
  BY <1>2, <1>3
<1> DEFINE Good == {j \in 0..n : OnScan(g[j]) /\ g[j].data = Left(m)}
<1>6. 0 \in Good
  BY <1>2, <1>4, BegunOn
<1>7. ASSUME NEW j \in 0..(n - 1), j \in Good PROVE j + 1 \in Good
  <2>1. j + 1 \in 1..n /\ j + 1 \in 0..n /\ (j + 1) - 1 = j
    BY <1>2
  <2>2. g[j + 1] = OwnDirective(g[j], directives[j + 1]) /\ DirectiveOK(directives[j + 1])
    <3>1. PICK k : k = j + 1
      OBVIOUS
    <3>2. g[k] = OwnDirective(g[k - 1], directives[k]) /\ k - 1 = j
      BY <1>5, <2>1, <3>1
    <3> QED BY <1>2, <2>1, <3>1, <3>2
  <2>3. PICK a, x, d : a = g[j] /\ x = g[j + 1] /\ d = directives[j + 1]
    OBVIOUS
  <2>4. OnScan(a) /\ a.data = Left(m)
    BY <1>7, <2>3
  <2>5. OnScan(x) /\ x.data = a.data
    BY <2>2, <2>3, <2>4, DirectiveOn
  <2> QED BY <2>1, <2>3, <2>4, <2>5
<1>8. \A j \in 0..n : j \in Good
  <2> HIDE DEF Good
  <2> QED BY <1>2, <1>6, <1>7, UpToAll
<1> QED BY <1>1, <1>2, <1>4, <1>5, <1>8

\* So it was never further on than it is at the end, and did not stop before.
LEMMA ScanningEnd ==
    ASSUME NEW m, Left(m) \in Seq(Bytes), NEW directives, AreDirectives(directives),
           NEW g, OwnScanning(m, directives, Len(directives), g),
           g[Len(directives)].ended # "match"
    PROVE  \A j \in 0..Len(directives) : g[j].at <= g[Len(directives)].at /\ g[j].ended # "match"
<1>1. PICK n : n = Len(directives)
  OBVIOUS
<1>2. /\ n \in Nat /\ \A j \in 0..n : OnScan(g[j])
      /\ \A j \in 1..n : g[j] = OwnDirective(g[j - 1], directives[j]) /\ DirectiveOK(directives[j])
  BY <1>1, ScanningOn
<1>3. \A j \in 0..n : g[j].at \in Nat
  BY <1>2 DEF OnScan, IsScan
<1> DEFINE Good == {d \in 0..n : g[n - d].at <= g[n].at /\ g[n - d].ended # "match"}
<1>4. 0 \in Good
  BY <1>1, <1>2, <1>3
<1>5. ASSUME NEW d \in 0..(n - 1), d \in Good PROVE d + 1 \in Good
  <2>1. PICK k : k = n - d
    OBVIOUS
  <2>2. k \in 1..n /\ k - 1 \in 0..n /\ k \in 0..n /\ k - 1 = n - (d + 1) /\ d + 1 \in 0..n /\ n \in 0..n
    BY <1>2, <2>1
  <2>3. PICK a, x : a = g[k - 1] /\ x = g[k]
    OBVIOUS
  <2>4. OnScan(a) /\ x = OwnDirective(a, directives[k]) /\ DirectiveOK(directives[k])
    BY <1>2, <2>2, <2>3
  <2>5. x.at >= a.at /\ (a.ended = "match" => x.ended = "match")
    BY <2>4, DirectiveOn
  <2>6. x.at <= g[n].at /\ x.ended # "match" /\ x.at \in Nat /\ a.at \in Nat /\ g[n].at \in Nat
    BY <1>3, <1>5, <2>1, <2>2, <2>3
  <2>7. g[n - (d + 1)] = a
    BY <2>2, <2>3
  <2>8. a.at <= g[n].at /\ a.ended # "match"
    BY <2>5, <2>6
  <2> QED BY <2>2, <2>7, <2>8
<1>6. \A d \in 0..n : d \in Good
  <2> HIDE DEF Good
  <2> QED BY <1>2, <1>4, <1>5, UpToAll
<1>7. ASSUME NEW j \in 0..n PROVE g[j].at <= g[n].at /\ g[j].ended # "match"
  <2>1. n - j \in 0..n /\ n - (n - j) = j
    BY <1>2
  <2>2. n - j \in Good
    BY <1>6, <2>1
  <2> QED BY <2>1, <2>2
<1> QED BY <1>1, <1>7

LEMMA ScanningCuts ==
    ASSUME NEW m, Left(m) \in Seq(Bytes), NEW w, NEW k \in 0..Len(Left(m)), Left(w) = UpTo(Left(m), k),
           NEW directives, AreDirectives(directives),
           NEW g, OwnScanning(m, directives, Len(directives), g),
           NEW h, OwnScanning(w, directives, Len(directives), h),
           g[Len(directives)].at <= k, g[Len(directives)].ended # "match"
    PROVE  Twin(g[Len(directives)], h[Len(directives)], k)
<1>1. PICK n : n = Len(directives)
  OBVIOUS
<1>2. /\ n \in Nat /\ \A j \in 0..n : OnScan(g[j]) /\ g[j].data = Left(m)
      /\ \A j \in 1..n : g[j] = OwnDirective(g[j - 1], directives[j]) /\ DirectiveOK(directives[j])
      /\ g[0] = Begun(m)
  BY <1>1, ScanningOn
<1>3. /\ \A j \in 1..n : h[j] = OwnDirective(h[j - 1], directives[j])
      /\ h[0] = Begun(w)
  <2>1. Left(w) \in Seq(Bytes)
    BY UpToIs
  <2> QED BY <1>1, <2>1, ScanningOn
<1>4. \A j \in 0..n : g[j].at <= k /\ g[j].ended # "match"
  <2>1. \A j \in 0..n : g[j].at <= g[n].at /\ g[j].ended # "match"
    BY <1>1, ScanningEnd
  <2>2. \A j \in 0..n : g[j].at \in Nat
    BY <1>2 DEF OnScan, IsScan
  <2>3. n \in 0..n /\ k \in Int /\ g[n].at <= k
    BY <1>1, <1>2
  <2> QED BY <2>1, <2>2, <2>3
<1> DEFINE Good == {j \in 0..n : Twin(g[j], h[j], k)}
<1>5. 0 \in Good
  <2>1. PICK a, b : a = Begun(m) /\ b = Begun(w)
    OBVIOUS
  <2>2. Twin(a, b, k)
    BY <2>1 DEF Twin, Begun, ScanFields
  <2> QED BY <1>2, <1>3, <2>1, <2>2
<1>6. ASSUME NEW j \in 0..(n - 1), j \in Good PROVE j + 1 \in Good
  <2>1. PICK i, d : i = j + 1 /\ d = directives[j + 1]
    OBVIOUS
  <2>2. i \in 1..n /\ i \in 0..n /\ i - 1 = j /\ j \in 0..n
    BY <1>2, <2>1
  <2>3. PICK a, b, x : a = g[j] /\ b = h[j] /\ x = g[i]
    OBVIOUS
  <2>4. x = OwnDirective(a, d) /\ h[i] = OwnDirective(b, d) /\ DirectiveOK(d)
    BY <1>2, <1>3, <2>1, <2>2, <2>3
  <2>5. OnScan(a) /\ a.data = Left(m) /\ Twin(a, b, k) /\ x.at <= k /\ x.ended # "match"
    BY <1>2, <1>4, <1>6, <2>2, <2>3
  <2>6. k \in 0..Len(a.data)
    BY <2>5
  <2>7. Twin(x, OwnDirective(b, d), k)
    BY <2>4, <2>5, <2>6, DirectiveOn
  <2> QED BY <2>1, <2>2, <2>3, <2>4, <2>7
<1>7. \A j \in 0..n : j \in Good
  <2> HIDE DEF Good
  <2> QED BY <1>2, <1>5, <1>6, UpToAll
<1> QED BY <1>1, <1>2, <1>7

\* A run that stopped at a byte that did not match says so.
LEMMA ScannedPeeked ==
    ASSUME NEW m, IsOwn(m), NEW scan
    PROVE  LET n == OwnScanned(m, scan)
           IN n.peeked = (m.peeked \/ scan.ended = "match") /\ OwnStream(n).peeked = n.peeked
<1>1. PICK n, r, a : /\ n = OwnScanned(m, scan) /\ r = Returning(m, Counted(scan)) /\ a = Advanced(r, scan.at)
  OBVIOUS
<1>2. n = [a EXCEPT !.peeked = @ \/ scan.ended = "match", !.memory = OwnStores(@, scan.assigned)]
  BY <1>1 DEF OwnScanned, Counted
<1>3. DOMAIN a = OwnFields /\ a.peeked = m.peeked
  BY <1>1 DEF Advanced, Returning, IsOwn, OwnFields
<1>4. n.peeked = (m.peeked \/ scan.ended = "match") /\ DOMAIN n = OwnFields
  BY <1>2, <1>3 DEF OwnFields
<1>5. OwnStream(n).peeked = n.peeked
  BY <1>4 DEF OwnStream, OwnFields
<1> QED BY <1>1, <1>4, <1>5

LEMMA ScanCuts ==
    ASSUME NEW m, IsOwn(m), NEW n, Stands(m, n), NEW w, IsOwn(w), Cuts(m, w, n),
           NEW directives, AreDirectives(directives), ~OwnScan(m, directives).peeked,
           Enough(m, OwnScan(m, directives), n)
    PROVE  /\ Cuts(OwnScan(m, directives), OwnScan(w, directives), n)
           /\ Cuts(OwnStream(OwnScan(m, directives)), OwnStream(OwnScan(w, directives)), n)
<1>1. PICK N : N = Len(directives)
  OBVIOUS
<1>2. N \in Nat
  BY <1>1 DEF AreDirectives
<1>3. PICK g : OwnScanning(m, directives, N, g) /\ OwnScan(m, directives) = OwnScanned(m, g[N])
  BY <1>1, <1>2, OwnScanIs
<1>4. PICK h : OwnScanning(w, directives, N, h) /\ OwnScan(w, directives) = OwnScanned(w, h[N])
  BY <1>1, <1>2, OwnScanIs
<1>5. PICK k : k = Room(m, n)
  OBVIOUS
<1>6. Left(m) \in Seq(Bytes) /\ k \in 0..Len(Left(m)) /\ Left(w) = UpTo(Left(m), k)
  BY <1>5, CutLeft
<1>7. PICK scan, o, x, y : /\ scan = g[N] /\ o = h[N]
                           /\ x = OwnScanned(m, g[N]) /\ y = OwnScanned(w, h[N])
  OBVIOUS
<1>8. scan.ended # "match"
  <2>1. x.peeked = (m.peeked \/ scan.ended = "match")
    BY <1>7, ScannedPeeked
  <2> QED BY <1>3, <1>7, <2>1
<1>9. PICK memory : memory = OwnStores(m.memory, scan.assigned)
  OBVIOUS
<1>10. /\ OwnAfter(x, m, m.position + scan.at, Append(m.saw, Counted(scan)), memory, m.object)
       /\ OwnAfter(OwnStream(x), m, m.position + scan.at, Append(m.saw, "stream"), memory, m.object)
  BY <1>7, <1>9, OwnScannedIs
<1>11. scan.at \in Nat
  <2>1. N \in 0..N
    BY <1>2
  <2>2. OnScan(g[N])
    BY <1>1, <1>3, <1>6, <2>1, ScanningOn
  <2> QED BY <1>7, <2>2 DEF OnScan, IsScan
<1>12. scan.at \in 0..k
  <2>1. x.position = m.position + scan.at
    BY <1>10 DEF OwnAfter
  <2>2. Enough(m, x, n)
    BY <1>3, <1>7
  <2> QED BY <1>5, <1>11, <2>1, <2>2, EnoughRoom
<1>13. Twin(scan, o, k)
  <2>1. g[N].at <= k /\ g[N].ended # "match"
    BY <1>6, <1>7, <1>8, <1>12
  <2> QED BY <1>1, <1>3, <1>4, <1>6, <1>7, <2>1, ScanningCuts
<1>14. o.at = scan.at /\ o.assigned = scan.assigned /\ Counted(o) = Counted(scan)
  BY <1>13 DEF Twin, Counted
<1>15. w.saw = m.saw /\ w.memory = m.memory /\ w.object = m.object
  BY DEF Cuts, Sees
<1>16. /\ OwnAfter(y, w, w.position + o.at, Append(w.saw, Counted(o)), OwnStores(w.memory, o.assigned), w.object)
       /\ OwnAfter(OwnStream(y), w, w.position + o.at, Append(w.saw, "stream"), OwnStores(w.memory, o.assigned), w.object)
  BY <1>7, OwnScannedIs
<1>17. /\ OwnAfter(y, w, w.position + scan.at, Append(m.saw, Counted(scan)), memory, m.object)
       /\ OwnAfter(OwnStream(y), w, w.position + scan.at, Append(m.saw, "stream"), memory, m.object)
  BY <1>9, <1>14, <1>15, <1>16
<1>18. scan.at \in 0..Room(m, n)
  BY <1>5, <1>12
<1>19. Cuts(x, y, n)
  <2>1. PICK saw : saw = Append(m.saw, Counted(scan))
    OBVIOUS
  <2>2. /\ OwnAfter(x, m, m.position + scan.at, saw, memory, m.object)
        /\ OwnAfter(y, w, w.position + scan.at, saw, memory, m.object)
    BY <1>10, <1>17, <2>1
  <2> QED BY <1>18, <2>2, CutOn
<1>20. Cuts(OwnStream(x), OwnStream(y), n)
  <2>1. PICK saw, p, q : saw = Append(m.saw, "stream") /\ p = OwnStream(x) /\ q = OwnStream(y)
    OBVIOUS
  <2>2. /\ OwnAfter(p, m, m.position + scan.at, saw, memory, m.object)
        /\ OwnAfter(q, w, w.position + scan.at, saw, memory, m.object)
    BY <1>10, <1>17, <2>1
  <2>3. Cuts(p, q, n)
    BY <1>18, <2>2, CutOn
  <2> QED BY <2>1, <2>3
<1> QED BY <1>3, <1>4, <1>7, <1>19, <1>20

\* A call of a program that reads leaves the content as it is, and does not forget that the
\* run has stopped at a byte that it left.
Keeps(m, x) == DOMAIN x = OwnFields /\ x.content = m.content /\ (m.peeked => x.peeked)

LEMMA KeepsParts ==
    ASSUME NEW m, NEW x, Keeps(m, x)
    PROVE  /\ \A v : Keeps(m, Returning(x, v))
           /\ \A k : Keeps(m, Advanced(x, k))
           /\ \A cells : Keeps(m, [x EXCEPT !.memory = Put(@, 1, cells)])
           /\ \A text : Keeps(m, [x EXCEPT !.object = text])
BY DEF Keeps, Returning, Advanced, OwnFields

LEMMA KeepsMoves ==
    ASSUME NEW m, IsOwn(m)
    PROVE  /\ \A v : Keeps(m, Returning(m, v))
           /\ \A v, k, cells : Keeps(m, Advanced([Returning(m, v) EXCEPT !.memory = Put(@, 1, cells)], k))
           /\ \A v, k, text : Keeps(m, Advanced([Returning(m, v) EXCEPT !.object = text], k))
           /\ \A v, k : Keeps(m, Advanced(Returning(m, v), k))
<1> SUFFICES ASSUME NEW v, NEW k, NEW z
             PROVE  /\ Keeps(m, Returning(m, v))
                    /\ Keeps(m, Advanced([Returning(m, v) EXCEPT !.memory = Put(@, 1, z)], k))
                    /\ Keeps(m, Advanced([Returning(m, v) EXCEPT !.object = z], k))
                    /\ Keeps(m, Advanced(Returning(m, v), k))
  OBVIOUS
<1>1. Keeps(m, m)
  BY DEF Keeps, IsOwn
<1>2. PICK r, a, b : /\ r = Returning(m, v) /\ a = [r EXCEPT !.memory = Put(@, 1, z)]
                     /\ b = [r EXCEPT !.object = z]
  OBVIOUS
<1>3. Keeps(m, r)
  BY <1>1, <1>2, KeepsParts
<1>4. Keeps(m, a) /\ Keeps(m, b)
  BY <1>2, <1>3, KeepsParts
<1>5. Keeps(m, Advanced(a, k)) /\ Keeps(m, Advanced(b, k)) /\ Keeps(m, Advanced(r, k))
  BY <1>3, <1>4, KeepsParts
<1> QED BY <1>2, <1>3, <1>5

LEMMA ScanKeeps ==
    ASSUME NEW m, IsOwn(m), NEW directives, AreDirectives(directives)
    PROVE  Keeps(m, OwnScan(m, directives)) /\ Keeps(m, OwnStream(OwnScan(m, directives)))
<1>1. PICK scan : OwnScan(m, directives) = OwnScanned(m, scan)
  BY OwnScanIs DEF AreDirectives
<1>2. PICK x, y, p, a, b, memory :
         /\ x = OwnScanned(m, scan) /\ y = OwnStream(OwnScanned(m, scan)) /\ p = m.position + scan.at
         /\ a = Append(m.saw, Counted(scan)) /\ b = Append(m.saw, "stream")
         /\ memory = OwnStores(m.memory, scan.assigned)
  OBVIOUS
<1>3. OwnAfter(x, m, p, a, memory, m.object) /\ OwnAfter(y, m, p, b, memory, m.object)
  BY <1>2, OwnScannedIs
<1>4. x.peeked = (m.peeked \/ scan.ended = "match") /\ y.peeked = x.peeked
  BY <1>2, ScannedPeeked
<1>5. Keeps(m, x) /\ Keeps(m, y)
  BY <1>3, <1>4 DEF Keeps, OwnAfter
<1> QED BY <1>1, <1>2, <1>5

LEMMA AloneKeeps ==
    ASSUME NEW m, IsOwn(m), NEW call, CallOK(call), Recorded(call)
    PROVE  Keeps(m, Alone(m, call)) /\ IsOwn(Alone(m, call))
<1>1. CASE call.op = "getchar"
  <2>1. Alone(m, call) = OwnGetc(m, call)
    BY <1>1 DEF Alone
  <2>2. Keeps(m, OwnGetc(m, call))
    BY KeepsMoves DEF OwnGetc
  <2> QED BY <2>1, <2>2, OwnCalls
<1>2. CASE call.op = "gets"
  <2>1. Alone(m, call) = OwnGets(m, call)
    BY <1>2 DEF Alone
  <2>2. Keeps(m, OwnGets(m, call))
    BY KeepsMoves DEF OwnGets
  <2> QED BY <2>1, <2>2, OwnCalls
<1>3. CASE call.op = "fgets"
  <2>1. Alone(m, call) = OwnFgets(m, call)
    BY <1>3 DEF Alone
  <2>2. Keeps(m, OwnFgets(m, call))
    BY KeepsMoves DEF OwnFgets
  <2> QED BY <2>1, <2>2, OwnCalls
<1>4. CASE call.op = "getline"
  <2>1. Alone(m, call) = OwnGetline(m, call)
    BY <1>4 DEF Alone
  <2>2. Keeps(m, OwnGetline(m, call))
    BY KeepsMoves DEF OwnGetline
  <2> QED BY <2>1, <2>2, OwnCalls
<1>5. CASE call.op = "read"
  <2>1. Alone(m, call) = OwnRead(m, call)
    BY <1>5 DEF Alone
  <2>2. Keeps(m, OwnRead(m, call))
    BY KeepsMoves DEF OwnRead
  <2> QED BY <2>1, <2>2, OwnCalls
<1>6. CASE call.op = "token"
  <2>1. Alone(m, call) = OwnToken(m, call)
    BY <1>6 DEF Alone
  <2>2. Keeps(m, OwnToken(m, call))
    BY KeepsMoves DEF OwnToken
  <2> QED BY <2>1, <2>2, OwnCalls
<1>7. CASE call.op = "number"
  <2>1. Alone(m, call) = OwnStream(OwnScan(m, NumberDirectives))
    BY <1>7 DEF Alone, OwnNumber
  <2> QED BY <2>1, NumberOK, ScanKeeps, OwnScans
<1>8. CASE call.op = "scanf"
  <2>1. Alone(m, call) = OwnScan(m, call.directives)
    BY <1>8 DEF Alone, OwnScanf
  <2>2. AreDirectives(call.directives)
    BY <1>8 DEF CallOK, AreDirectives
  <2> QED BY <2>1, <2>2, ScanKeeps, OwnScans
<1> QED BY <1>1, <1>2, <1>3, <1>4, <1>5, <1>6, <1>7, <1>8 DEF Recorded

\* What is left out of the first n bytes at most: the newline behind a line.
LineEnds(m, x, n) == x.position = n + 1 /\ m.position < n /\ n < Len(m.content) /\ m.content[n + 1] = Newline

\* A call that has enough in the first n bytes does the same with them alone.
LEMMA AloneCuts ==
    ASSUME NEW m, IsOwn(m), NEW n, Stands(m, n), NEW w, IsOwn(w), Cuts(m, w, n),
           NEW call, CallOK(call), Recorded(call), ~Alone(m, call).peeked,
           Enough(m, Alone(m, call), n) \/ (call.op = "getline" /\ LineEnds(m, Alone(m, call), n))
    PROVE  Cuts(Alone(m, call), Alone(w, call), n)
<1>1. CASE call.op = "getchar"
  <2>1. \A z : Alone(z, call) = OwnGetc(z, call)
    BY <1>1 DEF Alone
  <2> QED BY <1>1, <2>1, GetcCuts
<1>2. CASE call.op = "gets"
  <2>1. \A z : Alone(z, call) = OwnGets(z, call)
    BY <1>2 DEF Alone
  <2> QED BY <1>2, <2>1, GetsCuts
<1>3. CASE call.op = "fgets"
  <2>1. \A z : Alone(z, call) = OwnFgets(z, call)
    BY <1>3 DEF Alone
  <2>2. call.size \in Int /\ call.size # 1
    BY <1>3 DEF CallOK, Recorded
  <2> QED BY <1>3, <2>1, <2>2, FgetsCuts
<1>4. CASE call.op = "getline"
  <2>1. \A z : Alone(z, call) = OwnGetline(z, call)
    BY <1>4 DEF Alone
  <2> QED BY <2>1, GetlineCuts DEF LineEnds
<1>5. CASE call.op = "read"
  <2>1. \A z : Alone(z, call) = OwnRead(z, call)
    BY <1>5 DEF Alone
  <2>2. call.size \in Int
    BY <1>5 DEF CallOK
  <2> QED BY <1>5, <2>1, <2>2, ReadCuts
<1>6. CASE call.op = "token"
  <2>1. \A z : Alone(z, call) = OwnToken(z, call)
    BY <1>6 DEF Alone
  <2> QED BY <1>6, <2>1, TokenCuts
<1>7. CASE call.op = "number"
  <2>1. \A z : Alone(z, call) = OwnStream(OwnScan(z, NumberDirectives))
    BY <1>7 DEF Alone, OwnNumber
  <2>2. PICK x : x = OwnScan(m, NumberDirectives)
    OBVIOUS
  <2>3. PICK scan : x = OwnScanned(m, scan)
    BY <2>2, NumberOK, OwnScanIs DEF AreDirectives
  <2>4. OwnStream(x).peeked = x.peeked
    BY <2>3, ScannedPeeked
  <2>5. PICK y : y = OwnStream(x)
    OBVIOUS
  <2>6. PICK memory, saw : /\ memory = OwnStores(m.memory, scan.assigned)
                           /\ OwnAfter(x, m, m.position + scan.at, saw, memory, m.object)
    BY <2>3, OwnScannedIs
  <2>7. PICK seen : OwnAfter(y, m, m.position + scan.at, seen, memory, m.object)
    BY <2>3, <2>5, <2>6, OwnScannedIs
  <2>8. x.position = y.position
    BY <2>6, <2>7 DEF OwnAfter
  <2>9. ~x.peeked /\ Enough(m, x, n)
    BY <1>7, <2>1, <2>2, <2>4, <2>5, <2>8 DEF Enough
  <2> QED BY <2>1, <2>2, <2>9, NumberOK, ScanCuts
<1>8. CASE call.op = "scanf"
  <2>1. \A z : Alone(z, call) = OwnScan(z, call.directives)
    BY <1>8 DEF Alone, OwnScanf
  <2>2. AreDirectives(call.directives)
    BY <1>8 DEF CallOK, AreDirectives
  <2> QED BY <1>8, <2>1, <2>2, ScanCuts
<1> QED BY <1>1, <1>2, <1>3, <1>4, <1>5, <1>6, <1>7, <1>8 DEF Recorded

-----------------------------------------------------------------------------
(* The windows a call hands out.                                            *)

Unread(p, q) == DOMAIN q = PathFields /\ q.reads = p.reads

LEMMA UnreadBoth ==
    ASSUME NEW p, NEW q, NEW r, Unread(p, q), Unread(q, r)
    PROVE  Unread(p, r)
BY DEF Unread

LEMMA UnreadParts ==
    ASSUME NEW p, DOMAIN p = PathFields
    PROVE  /\ Unread(p, p) /\ Unread(p, AtEnd(p)) /\ Unread(p, Looked(p))
           /\ \A v : /\ Unread(p, Returns(p, v)) /\ Unread(p, ReturnsAll(p, v)) /\ Unread(p, Strings(p, v))
                     /\ Unread(p, Moved(p, v)) /\ Unread(p, Advance(p, v))
                     /\ Unread(p, [p EXCEPT !.scan = v]) /\ Unread(p, Narrowed(p, v))
           /\ \A v, w : Unread(p, Writes(p, v, w))
<1>1. Unread(p, p) /\ Unread(p, AtEnd(p)) /\ Unread(p, Looked(p))
  BY DEF Unread, AtEnd, Looked, PathFields
<1>2. ASSUME NEW v
      PROVE  /\ Unread(p, Returns(p, v)) /\ Unread(p, Strings(p, v))
             /\ Unread(p, Moved(p, v)) /\ Unread(p, Advance(p, v))
             /\ Unread(p, [p EXCEPT !.scan = v]) /\ Unread(p, Narrowed(p, v))
  BY DEF Unread, Returns, Strings, Moved, Advance, Narrowed, PathFields
<1>3. \A v, w : Unread(p, Writes(p, v, w))
  BY DEF Unread, Writes, PathFields
<1> QED BY <1>1, <1>2, <1>3 DEF ReturnsAll

LEMMA UnreadPast ==
    ASSUME NEW p, DOMAIN p = PathFields, NEW length, NEW behind, NEW undecided
    PROVE  Unread(p, Past(p, length, behind, undecided))
<1>1. Unread(p, Truncated(p))
  BY DEF Unread, Truncated, PathFields
<1>2. PICK n : n = length[OneOf(p)] + Clamped(behind, 0, Held(p) - p.position - length[OneOf(p)])
  OBVIOUS
<1>3. Past(p, length, behind, undecided) = Truncated(p) \/ Past(p, length, behind, undecided) = Advance(p, n)
  BY <1>2 DEF Past
<1> QED BY <1>1, <1>3, UnreadParts

LEMMA UnreadStore ==
    ASSUME NEW s, DOMAIN s = PathFields, NEW directive, NEW content, NEW result
    PROVE  Unread(s, Ended(s, result)) /\ Unread(s, Failed(s)) /\ Unread(s, Store(s, directive, content))
<1>1. \A r : Unread(s, Ended(s, r))
  BY DEF Unread, Ended, PathFields
<1>2. PICK w, v : w = Writes(s, s.scan.assigned + 1, content) /\ v = [w.scan EXCEPT !.assigned = @ + 1]
  OBVIOUS
<1>3. Unread(s, w)
  BY <1>2, UnreadParts
<1>4. Unread(w, [w EXCEPT !.scan = v])
  BY <1>3, UnreadParts DEF Unread
<1>5. Store(s, directive, content) = [w EXCEPT !.scan = v] \/ Store(s, directive, content) = s
  BY <1>2 DEF Store
<1> QED BY <1>1, <1>3, <1>4, <1>5, UnreadBoth, UnreadParts DEF Failed

LEMMA HandedReads ==
    ASSUME stream = "stdin", NEW p, DOMAIN p = PathFields, NEW first, NEW last, NEW byLine
    PROVE  Handed(p, first, last, byLine).reads = Append(p.reads, <<first, last, byLine>>)
BY DEF Handed, PathFields

LEMMA WindowIs ==
    ASSUME NEW i \in Seq(Bytes), NEW first \in 0..Len(i), NEW last \in first..Len(i), NEW c \in 0..first
    PROVE  /\ Window(i, <<first, last, FALSE>>, c) = last
           /\ Window(i, <<first, last, TRUE>>, c) = first + Fits(UpTo(From(i, first), last - first))
<1>1. Len(i) \in Nat /\ first \in Nat /\ last \in Nat /\ ~(first < c)
  BY LenProperties
<1>2. PICK n, s : n = last - first /\ s = From(i, first)
  OBVIOUS
<1>3. n \in 0..(Len(i) - first) /\ first + n = last
  BY <1>1, <1>2
<1>4. UpTo(s, n) = SubSeq(i, first + 1, first + n)
  BY <1>2, <1>3, UpToFrom
<1>5. s \in Seq(Bytes) /\ Len(s) = Len(i) - first
  BY <1>2, FromIs
<1>6. n \in 0..Len(s)
  BY <1>3, <1>5
<1>7. PICK window : window = SubSeq(i, first + 1, last)
  OBVIOUS
<1>8. window = UpTo(s, n) /\ window \in Seq(Bytes) /\ Len(window) = n
  BY <1>3, <1>4, <1>5, <1>6, <1>7, UpToIs
<1>9. PICK line : line = Before(window, {Newline})
  OBVIOUS
<1>10. Fits(window) = IF line < Len(window) THEN line + 1 ELSE Len(window)
  BY <1>8, <1>9, FitsIs
<1>11. ASSUME NEW b \in BOOLEAN
       PROVE  Window(i, <<first, last, b>>, c) = first + (IF b /\ line < Len(window) THEN line + 1 ELSE Len(window))
  <2>1. PICK read : read = <<first, last, b>>
    OBVIOUS
  <2>2. read[1] = first /\ read[2] = last /\ read[3] = b
    BY <2>1
  <2>3. Window(i, read, c) = first + (IF b /\ line < Len(window) THEN line + 1 ELSE Len(window))
    BY <1>1, <1>7, <1>9, <2>2 DEF Window
  <2> QED BY <2>1, <2>3
<1>12. Window(i, <<first, last, FALSE>>, c) = first + Len(window)
  BY <1>11
<1>13. Window(i, <<first, last, TRUE>>, c) = first + Fits(window)
  BY <1>10, <1>11
<1> QED BY <1>2, <1>3, <1>8, <1>12, <1>13

\* The windows show what the run of input i has read with a call; the newline behind a line
\* that getline reads may be missing.
Shows(reads, more, i, m, x, op) ==
    /\ x.position \in m.position..Len(i)
    /\ \/ more = reads /\ x.position = m.position
       \/ \E read, e :
             /\ more = Append(reads, read) /\ e \in m.position..x.position
             /\ \A c \in 0..m.position : Window(i, read, c) = e
             /\ e = x.position \/ (op = "getline" /\ LineEnds(m, x, e))

\* A call that hands out all it reads, and is where it says.
Straight(p, q) ==
    /\ IsPath(q) /\ q.cut = p.cut /\ q.position \in p.position..Held(p)
    /\ \/ q.reads = p.reads /\ q.position = p.position
       \/ \E first \in p.position..q.position : q.reads = Append(p.reads, <<first, q.position, FALSE>>)

LEMMA StraightShows ==
    ASSUME NEW p, IsPath(p), ~p.cut, NEW i \in p.cond, NEW m, Agrees(p, i, m), m.content = i,
           NEW q, Straight(p, q), NEW x, Agrees(q, i, x), NEW op
    PROVE  Shows(p.reads, q.reads, i, m, x, op)
<1>1. /\ p.position = m.position /\ q.position = x.position /\ p.data[i].content = i
      /\ Held(p) = Len(i) /\ i \in Seq(Bytes)
  BY DEF Agrees, Straight, IsPath
<1>2. Len(i) \in Nat /\ m.position \in Nat /\ x.position \in m.position..Len(i)
  BY <1>1, HeldIs DEF Straight
<1>3. CASE q.reads = p.reads /\ q.position = p.position
  BY <1>1, <1>2, <1>3 DEF Shows
<1>4. CASE \E first \in p.position..q.position : q.reads = Append(p.reads, <<first, q.position, FALSE>>)
  <2>1. PICK first \in m.position..x.position : q.reads = Append(p.reads, <<first, x.position, FALSE>>)
    BY <1>1, <1>4
  <2>2. PICK read, e : read = <<first, x.position, FALSE>> /\ e = x.position
    OBVIOUS
  <2>3. first \in 0..Len(i) /\ e \in first..Len(i) /\ e \in m.position..x.position
    BY <1>2, <2>1, <2>2
  <2>4. ASSUME NEW c \in 0..m.position PROVE Window(i, read, c) = e
    <3>1. c \in 0..first
      BY <1>2, <2>1
    <3> QED BY <1>1, <2>2, <2>3, <3>1, WindowIs
  <2> QED BY <1>2, <2>1, <2>2, <2>3, <2>4 DEF Shows
<1> QED BY <1>3, <1>4 DEF Straight

\* What is handed out of a line.
LEMMA LineShows ==
    ASSUME NEW m, m.content \in Seq(Bytes), m.position \in 0..Len(m.content),
           NEW most \in 0..Len(Left(m)), NEW reads, NEW more,
           more = Append(reads, <<m.position, m.position + most, TRUE>>),
           NEW x, x.position = m.position + Fits(UpTo(Left(m), most)), NEW op
    PROVE  Shows(reads, more, m.content, m, x, op)
<1>1. PICK i, a, b, s : i = m.content /\ a = m.position /\ b = a + most /\ s = Left(m)
  OBVIOUS
<1>2. i \in Seq(Bytes) /\ a \in 0..Len(i) /\ Len(i) \in Nat /\ s = From(i, a)
  BY <1>1, LenProperties DEF Left
<1>3. s \in Seq(Bytes) /\ Len(s) = Len(i) - a
  BY <1>2, FromIs
<1>4. b \in a..Len(i) /\ b - a = most /\ most \in 0..Len(s)
  BY <1>1, <1>2, <1>3
<1>5. PICK taken : taken = UpTo(s, most)
  OBVIOUS
<1>6. taken \in Seq(Bytes) /\ Len(taken) = most
  BY <1>3, <1>4, <1>5, UpToIs
<1>7. Fits(taken) \in 0..most
  BY <1>6, FitsIs
<1>8. PICK e, read : e = a + Fits(taken) /\ read = <<a, b, TRUE>>
  OBVIOUS
<1>9. \A c \in 0..a : Window(i, read, c) = e
  BY <1>2, <1>4, <1>5, <1>8, WindowIs
<1>10. e \in a..Len(i) /\ x.position = e /\ e \in a..e
  BY <1>1, <1>2, <1>4, <1>5, <1>7, <1>8
<1>11. more = Append(reads, read)
  BY <1>1, <1>8
<1> QED BY <1>1, <1>9, <1>10, <1>11 DEF Shows

-----------------------------------------------------------------------------
(* The windows of each call.                                                *)

\* A call that only returns.
LEMMA EndStraight ==
    ASSUME NEW p, IsPath(p), NEW v
    PROVE  Straight(p, ReturnsAll(AtEnd(p), v)) /\ Straight(p, ReturnsAll(Looked(p), v))
<1>1. ASSUME NEW l, Unread(p, l), NEW q, q = ReturnsAll(l, v), Like(p, q) PROVE Straight(p, q)
  <2>1. Unread(l, q)
    BY <1>1, UnreadParts DEF Unread
  <2>2. q.reads = p.reads
    BY <1>1, <2>1 DEF Unread
  <2>3. q.position \in p.position..Held(p)
    BY <1>1, HeldIs DEF Like
  <2> QED BY <1>1, <2>2, <2>3 DEF Like, Straight
<1>2. Unread(p, AtEnd(p)) /\ Unread(p, Looked(p))
  BY UnreadParts DEF IsPath
<1> QED BY <1>1, <1>2, EndLike

\* A call that moves on and hands out what it moved past, or the rest of it.
LEMMA HandedStraight ==
    ASSUME stream = "stdin", NEW p, IsPath(p), NEW a, IsPath(a), Unread(p, a), a.cut = p.cut, a.position \in p.position..Held(p),
           NEW first \in p.position..a.position
    PROVE  Straight(p, Handed(a, first, a.position, FALSE))
<1>1. PICK h, n : h = Handed(a, first, a.position, FALSE) /\ n = a.position
  OBVIOUS
<1>2. Like(a, h)
  BY <1>1, HandedLike
<1>3. h.reads = Append(a.reads, <<first, n, FALSE>>)
  <2>1. DOMAIN a = PathFields /\ h = Handed(a, first, n, FALSE)
    BY <1>1 DEF IsPath
  <2> QED BY <2>1, HandedReads
<1>4. IsPath(h) /\ h.cut = p.cut /\ h.position = n /\ h.reads = Append(p.reads, <<first, n, FALSE>>)
  BY <1>1, <1>2, <1>3 DEF Like, Unread
<1>5. Straight(p, h)
  BY <1>1, <1>4 DEF Straight
<1> QED BY <1>1, <1>5

LEMMA GetcharStraight ==
    ASSUME stream = "stdin", NEW p, IsPath(p), NEW call, NEW q \in Getchar(p, call)
    PROVE  Straight(p, q)
<1>1. CASE Drained(p)
  BY <1>1, EndStraight DEF Getchar
<1>2. CASE ~Drained(p)
  <2>1. PICK v : v = [j \in p.cond |-> At(p, j, p.position)]
    OBVIOUS
  <2>2. PICK r : r = Returns(p, v)
    OBVIOUS
  <2>3. PICK a : a = Advance(r, 1)
    OBVIOUS
  <2>4. Like(p, r) /\ IsPath(r) /\ r.position = p.position /\ Held(r) = Held(p)
    BY <2>2, ReturnsLike, LikeHeld DEF Like
  <2>5. 1 \in 0..(Held(r) - r.position) /\ p.position \in Nat /\ Held(p) \in Nat
    BY <1>2, <2>4, HeldIs DEF Drained
  <2>6. OnTo(r, a) /\ a.position = p.position + 1
    BY <2>3, <2>4, <2>5, AdvanceIs
  <2>7. IsPath(a) /\ a.cut = p.cut /\ a.position \in p.position..Held(p)
    BY <2>4, <2>5, <2>6 DEF OnTo, Like
  <2>8. Unread(p, r)
    BY <2>2, UnreadParts DEF IsPath
  <2>9. Unread(p, a)
    BY <2>3, <2>8, UnreadParts, UnreadBoth DEF Unread
  <2>10. p.position \in p.position..a.position
    BY <2>5, <2>6
  <2>11. q = Handed(a, p.position, a.position, FALSE)
    BY <1>2, <2>1, <2>2, <2>3, <2>6 DEF Getchar
  <2> QED BY <2>7, <2>9, <2>10, <2>11, HandedStraight
<1> QED BY <1>1, <1>2

LEMMA BlockIs ==
    ASSUME NEW p, IsPath(p), NEW call, call.size \in Int
    PROVE  /\ Block(p, call).position = p.position + Clamped(call.size, 0, Held(p) - p.position)
           /\ Clamped(call.size, 0, Held(p) - p.position) \in 0..(Held(p) - p.position)
           /\ Unread(p, Block(p, call))
<1>1. PICK taken : taken = Clamped(call.size, 0, Held(p) - p.position)
  OBVIOUS
<1>2. taken \in 0..(Held(p) - p.position)
  <2>1. Held(p) - p.position \in Int /\ 0 <= Held(p) - p.position
    BY HeldIs
  <2> QED BY <1>1, <2>1 DEF Clamped
<1>3. PICK c, r : c = Copied(p, taken) /\ r = ReturnsAll(c, taken \div call.unit)
  OBVIOUS
<1>4. Unread(p, c) /\ Like(p, c) /\ IsPath(c)
  <2>1. PICK w : w = [i \in p.cond |-> UpTo(Rest(p, i), taken)]
    OBVIOUS
  <2>2. c = Writes(p, 1, w)
    BY <1>3, <2>1 DEF Copied
  <2>3. Unread(p, c)
    BY <2>2, UnreadParts DEF IsPath
  <2> QED BY <2>2, <2>3, WritesLike DEF Like
<1>5. Unread(p, r) /\ Like(c, r)
  BY <1>3, <1>4, UnreadParts, UnreadBoth, ReturnsAllLike DEF Unread
<1>6. Block(p, call) = Advance(r, taken)
  BY <1>1, <1>3 DEF Block
<1>7. r.position = p.position /\ DOMAIN r = PathFields
  BY <1>4, <1>5 DEF Like, Unread
<1>8. Advance(r, taken).position = p.position + taken
  BY <1>7 DEF Advance, PathFields
<1>9. Unread(p, Advance(r, taken))
  BY <1>5, <1>7, UnreadParts, UnreadBoth
<1> QED BY <1>1, <1>2, <1>6, <1>8, <1>9

LEMMA ReadStraight ==
    ASSUME stream = "stdin", NEW p, IsPath(p), NEW call, call.size \in Int, NEW q \in Read(p, call)
    PROVE  Straight(p, q)
<1>1. PICK l : l = Looked(p)
  OBVIOUS
<1>2. Like(p, l) /\ IsPath(l) /\ l.position = p.position /\ Held(l) = Held(p)
  BY <1>1, LookedLike, LikeHeld DEF Like
<1>3. PICK b, n : b = Block(l, call) /\ n = b.position
  OBVIOUS
<1>4. Unread(p, l)
  BY <1>1, UnreadParts DEF IsPath
<1>5. Unread(p, b) /\ b.position = Block(p, call).position
  BY <1>2, <1>3, <1>4, BlockIs, UnreadBoth
<1>6. PICK taken : taken = Clamped(call.size, 0, Held(p) - p.position)
  OBVIOUS
<1>7. n = p.position + taken /\ taken \in 0..(Held(p) - p.position)
  BY <1>2, <1>3, <1>6, BlockIs
<1>8. b.position \in p.position..Held(p) /\ p.position \in p.position..b.position
  BY <1>3, <1>7, HeldIs
<1>9. OnTo(l, b)
  BY <1>2, <1>3, BlockOn
<1>10. IsPath(b) /\ b.cut = p.cut
  BY <1>2, <1>9 DEF OnTo, Like
<1>11. q = Handed(b, p.position, b.position, FALSE)
  BY <1>1, <1>3, <1>5 DEF Read
<1> QED BY <1>5, <1>8, <1>10, <1>11, HandedStraight

LEMMA TokenStraight ==
    ASSUME stream = "stdin", NEW p, IsPath(p), NEW call, NEW q \in Token(p, call)
    PROVE  Straight(p, q)
<1> DEFINE from(t) == p.position + t.skipped
<1>0. CASE Drained(p)
  BY <1>0, EndStraight DEF Token
<1>00. CASE ~Drained(p)
  <2>1. PICK options : options = TokenOptions(p)
    OBVIOUS
  <2>2. Options(p, options)
    BY <2>1, TokenExclusive
  <2>3. PICK o \in Split(p, options) : q = TokenOn(o.path, from(o.tag), from(o.tag) + o.tag.length)
    <3>1. Token(p, call) = {TokenOn(o.path, from(o.tag), from(o.tag) + o.tag.length) : o \in Split(p, options)}
      BY <1>00, <2>1 DEF Token, TokenOptions, TokenTags, TokenFits
    <3> QED BY <3>1
  <2>4. PICK b, t, K : b = o.path /\ t = o.tag /\ K = options[o.tag]
    OBVIOUS
  <2>5. /\ IsPath(b) /\ b.position = p.position /\ Held(b) = Held(p) /\ b.cut = p.cut
        /\ t \in TokenTags(p) /\ b = Narrowed(p, K)
    <3>1. DOMAIN options = TokenTags(p)
      BY <2>1 DEF TokenOptions
    <3> QED BY <2>2, <2>4, <3>1, SplitIs
  <2>6. PICK first, last : first = p.position + t.skipped /\ last = first + t.length
    OBVIOUS
  <2>7. first \in p.position..last /\ last \in p.position..Held(p) /\ p.position \in Nat /\ last \in 0..Held(b)
    BY <2>5, <2>6, HeldIs DEF TokenTags
  <2>8. PICK c, r : /\ r = ReturnsAll(b, "stream")
                    /\ c = [i \in b.cond |-> Text(SubSeq(b.data[i].content, first + 1, last))]
    OBVIOUS
  <2>9. PICK s, a : s = Strings(r, c) /\ a = Moved(s, last)
    OBVIOUS
  <2>10. Unread(p, b) /\ Unread(b, r) /\ Unread(r, s) /\ Unread(s, a)
    <3>1. DOMAIN p = PathFields
      BY DEF IsPath
    <3>2. Unread(p, b)
      BY <2>5, <3>1, UnreadParts
    <3>3. Unread(b, r)
      BY <2>8, <3>2, UnreadParts DEF Unread
    <3>4. Unread(r, s)
      BY <2>9, <3>3, UnreadParts DEF Unread
    <3>5. Unread(s, a)
      BY <2>9, <3>4, UnreadParts DEF Unread
    <3> QED BY <3>2, <3>3, <3>4, <3>5
  <2>11. Unread(p, a)
    BY <2>10 DEF Unread
  <2>12. Like(b, r) /\ IsPath(r)
    BY <2>5, <2>8, ReturnsAllLike DEF Like
  <2>13. Like(r, s) /\ IsPath(s)
    BY <2>9, <2>12, StringsLike DEF Like
  <2>14. Like(b, s)
    BY <2>12, <2>13, LikeBoth
  <2>15. OnTo(s, a) /\ a.position = last
    <3>1. Held(s) = Held(b)
      BY <2>5, <2>14, LikeHeld
    <3> QED BY <2>7, <2>9, <2>13, <3>1, MovedOn
  <2>16. IsPath(a) /\ a.cut = p.cut
    BY <2>5, <2>14, <2>15 DEF Like, OnTo
  <2>17. q = Handed(a, first, a.position, FALSE)
    <3>1. q = TokenOn(b, first, last)
      BY <2>3, <2>4, <2>6
    <3>2. TokenOn(b, first, last) = Handed(a, first, last, FALSE)
      BY <2>8, <2>9 DEF TokenOn
    <3> QED BY <2>15, <3>1, <3>2
  <2> QED BY <2>7, <2>11, <2>15, <2>16, <2>17, HandedStraight
<1> QED BY <1>0, <1>00

LEMMA OwnReturns ==
    ASSUME NEW m, IsOwn(m), NEW v
    PROVE  Returning(m, v).position = m.position
BY DEF IsOwn, Returning, OwnFields

\* Where the run is behind a line.
LEMMA OwnLines ==
    ASSUME NEW m, IsOwn(m), NEW call
    PROVE  /\ Left(m) = <<>> => /\ OwnGets(m, call).position = m.position
                                /\ OwnGetline(m, call).position = m.position
           /\ Left(m) # <<>> =>
                 LET past == LinePast(Left(m), Before(Left(m), {Newline}))
                 IN /\ OwnGets(m, call).position = m.position + past
                    /\ OwnGetline(m, call).position = m.position + past
           /\ call.size <= 0 \/ Left(m) = <<>> => OwnFgets(m, call).position = m.position
           /\ ~(call.size <= 0 \/ Left(m) = <<>>) =>
                 OwnFgets(m, call).position = m.position + Fits(UpTo(Left(m), Clamped(call.size - 1, 0, Len(Left(m)))))
<1>1. PICK s, l, k : s = Left(m) /\ l = Before(s, {Newline}) /\ k = LinePast(s, l)
  OBVIOUS
<1>2. ASSUME s = <<>> PROVE OwnGets(m, call).position = m.position /\ OwnGetline(m, call).position = m.position
  BY <1>1, <1>2, OwnReturns DEF OwnGets, OwnGetline
<1>3. ASSUME s # <<>> PROVE OwnGets(m, call).position = m.position + k /\ OwnGetline(m, call).position = m.position + k
  <2>1. PICK cells, text : cells = Append(OwnLine(m, l), Nul) /\ text = Text(OwnLine(m, l))
    OBVIOUS
  <2>2. PICK c : c = Advanced([Returning(m, "buffer") EXCEPT !.memory = Put(@, 1, cells)], k)
    OBVIOUS
  <2>3. OwnGets(m, call) = c
    BY <1>1, <1>3, <2>1, <2>2 DEF OwnGets, LinePast
  <2>4. PICK e : e = Advanced([Returning(m, "stream") EXCEPT !.object = text], k)
    OBVIOUS
  <2>5. OwnGetline(m, call) = e
    BY <1>1, <1>3, <2>1, <2>4 DEF OwnGetline, LinePast
  <2>6. c.position = m.position + k
    <3>1. OwnAfter(c, m, m.position + k, Append(m.saw, "buffer"), Put(m.memory, 1, cells), m.object)
      BY <2>2, OwnBuffer
    <3> QED BY <3>1 DEF OwnAfter
  <2>7. e.position = m.position + k
    <3>1. OwnAfter(e, m, m.position + k, Append(m.saw, "stream"), m.memory, text)
      BY <2>4, OwnNamed
    <3> QED BY <3>1 DEF OwnAfter
  <2> QED BY <2>3, <2>5, <2>6, <2>7
<1>4. ASSUME call.size <= 0 \/ s = <<>> PROVE OwnFgets(m, call).position = m.position
  <2>1. OwnFgets(m, call) = Returning(m, Nul)
    BY <1>1, <1>4 DEF OwnFgets
  <2> QED BY <2>1, OwnReturns
<1>5. PICK taken : taken = UpTo(s, Clamped(call.size - 1, 0, Len(s)))
  OBVIOUS
<1>6. ASSUME ~(call.size <= 0 \/ s = <<>>) PROVE OwnFgets(m, call).position = m.position + Fits(taken)
  <2>1. PICK length, cells : length = Fits(taken) /\ cells = Append(UpTo(taken, length), Nul)
    OBVIOUS
  <2>2. PICK c : c = Advanced([Returning(m, "buffer") EXCEPT !.memory = Put(@, 1, cells)], length)
    OBVIOUS
  <2>3. OwnFgets(m, call) = c
    BY <1>1, <1>5, <1>6, <2>1, <2>2 DEF OwnFgets, Fits
  <2>4. c.position = m.position + length
    <3>1. OwnAfter(c, m, m.position + length, Append(m.saw, "buffer"), Put(m.memory, 1, cells), m.object)
      BY <2>2, OwnBuffer
    <3> QED BY <3>1 DEF OwnAfter
  <2> QED BY <2>1, <2>3, <2>4
<1> QED BY <1>1, <1>2, <1>3, <1>4, <1>5, <1>6

LEMMA LineUnread ==
    ASSUME NEW p, DOMAIN p = PathFields, NEW length
    PROVE  Unread(p, TakesLine(p, length))
<1>1. PICK c, w, r : /\ c = [j \in p.cond |-> Append(UpTo(Rest(p, j), length[j]), Nul)]
                     /\ w = Writes(p, 1, c) /\ r = ReturnsAll(w, "buffer")
  OBVIOUS
<1>2. TakesLine(p, length) = r
  BY <1>1 DEF TakesLine
<1>3. Unread(p, w)
  BY <1>1, UnreadParts
<1>4. Unread(w, ReturnsAll(w, "buffer"))
  BY <1>3, UnreadParts DEF Unread
<1> QED BY <1>1, <1>2, <1>3, <1>4, UnreadBoth

HandsLine(p, first, last) == Handed(p, first, last, TRUE)
LineOf(first, last) == <<first, last, TRUE>>

LEMMA HandedUnread ==
    ASSUME stream = "stdin", NEW p, NEW a, Unread(p, a), NEW first, NEW last, NEW h, h = HandsLine(a, first, last)
    PROVE  h.reads = Append(p.reads, LineOf(first, last)) /\ DOMAIN h = PathFields
<1>1. DOMAIN a = PathFields /\ a.reads = p.reads
  BY DEF Unread
<1>2. Handed(a, first, last, TRUE).reads = Append(a.reads, <<first, last, TRUE>>)
  BY <1>1, HandedReads
<1>3. DOMAIN h = PathFields
  BY <1>1 DEF Handed, HandsLine, PathFields
<1> QED BY <1>1, <1>2, <1>3 DEF HandsLine, LineOf

\* The place of a run, and that of the path that shows it.
LEMMA AgreesPlace ==
    ASSUME NEW p, IsPath(p), ~p.cut, NEW i \in p.cond, NEW m, Agrees(p, i, m)
    PROVE  /\ m.content \in Seq(Bytes) /\ Len(m.content) = Held(p) /\ m.position = p.position
           /\ Left(m) = Rest(p, i) /\ Left(m) \in Seq(Bytes) /\ Len(Left(m)) = Held(p) - p.position
           /\ (Left(m) = <<>> <=> Drained(p)) /\ m.position \in 0..Len(m.content)
BY AgreesLeft, RestIs DEF Agrees, IsPath

LEMMA GetsShows ==
    ASSUME stream = "stdin", NEW p, IsPath(p), ~p.cut, NEW i \in p.cond, NEW m, IsOwn(m), Agrees(p, i, m),
           m.content = i, NEW call, NEW undecided, NEW q \in Gets(p, undecided)
    PROVE  Shows(p.reads, q.reads, i, m, OwnGets(m, call), "gets")
<1>0. /\ m.content \in Seq(Bytes) /\ Len(m.content) = Held(p) /\ m.position = p.position
      /\ Left(m) \in Seq(Bytes) /\ Len(Left(m)) = Held(p) - p.position
      /\ (Left(m) = <<>> <=> Drained(p)) /\ m.position \in 0..Len(m.content)
  BY AgreesPlace
<1>1. PICK x : x = OwnGets(m, call)
  OBVIOUS
<1>2. CASE Drained(p)
  <2>1. q.reads = p.reads
    <3>1. q = ReturnsAll(AtEnd(p), Nul)
      BY <1>2 DEF Gets
    <3>2. Unread(p, AtEnd(p))
      BY UnreadParts DEF IsPath
    <3>3. Unread(AtEnd(p), ReturnsAll(AtEnd(p), Nul))
      BY <3>2, UnreadParts DEF Unread
    <3> QED BY <3>1, <3>2, <3>3 DEF Unread
  <2>2. x.position = m.position
    BY <1>0, <1>1, <1>2, OwnLines
  <2>3. x.position \in m.position..Len(i)
    BY <1>0, <2>2
  <2> QED BY <1>1, <2>1, <2>2, <2>3 DEF Shows
<1>3. CASE ~Drained(p)
  <2>1. PICK length : length = [j \in p.cond |-> Before(Rest(p, j), {Newline})]
    OBVIOUS
  <2>2. q = Past(Handed(TakesLine(p, length), p.position, Held(p), TRUE), length, 1, undecided)
    BY <1>3, <2>1 DEF Gets
  <2>3. q.reads = Append(p.reads, <<p.position, Held(p), TRUE>>)
    <3>1. DOMAIN p = PathFields
      BY DEF IsPath
    <3>2. PICK line, h : line = TakesLine(p, length) /\ h = HandsLine(line, p.position, Held(p))
      OBVIOUS
    <3>3. q = Past(h, length, 1, undecided)
      BY <2>2, <3>2 DEF HandsLine
    <3>4. Unread(p, line)
      BY <3>1, <3>2, LineUnread
    <3>5. DOMAIN h = PathFields /\ h.reads = Append(p.reads, LineOf(p.position, Held(p)))
      BY <3>2, <3>4, HandedUnread
    <3>6. Unread(h, Past(h, length, 1, undecided))
      BY <3>5, UnreadPast
    <3> QED BY <3>3, <3>5, <3>6 DEF Unread, LineOf
  <2>4. PICK s, most, l : s = Left(m) /\ most = Len(s) /\ l = Before(s, {Newline})
    OBVIOUS
  <2>5. UpTo(s, most) = s /\ most \in 0..Len(s) /\ m.position + most = Held(p)
    BY <1>0, <2>4, UpToFull, HeldIs
  <2>6. Fits(UpTo(s, most)) = LinePast(s, l)
    <3>1. Fits(s) = IF l < Len(s) THEN l + 1 ELSE Len(s)
      BY <1>0, <2>4, FitsIs
    <3>2. l \in 0..Len(s) /\ Len(s) \in Nat
      BY <1>0, <2>4, FitsIs
    <3> QED BY <2>5, <3>1, <3>2 DEF LinePast
  <2>7. x.position = m.position + Fits(UpTo(s, most))
    <3>1. Left(m) # <<>>
      BY <1>0, <1>3
    <3>2. PICK past : past = LinePast(Left(m), Before(Left(m), {Newline}))
      OBVIOUS
    <3>3. OwnGets(m, call).position = m.position + past
      BY <3>1, <3>2, OwnLines
    <3> QED BY <1>1, <2>4, <2>6, <3>2, <3>3
  <2>8. q.reads = Append(p.reads, <<m.position, m.position + most, TRUE>>)
    BY <1>0, <2>3, <2>5
  <2>9. Shows(p.reads, q.reads, m.content, m, x, "gets")
    BY <1>0, <2>4, <2>5, <2>7, <2>8, LineShows
  <2> QED BY <1>1, <2>9
<1> QED BY <1>2, <1>3

LEMMA FgetsShows ==
    ASSUME stream = "stdin", NEW p, IsPath(p), ~p.cut, NEW i \in p.cond, NEW m, IsOwn(m), Agrees(p, i, m),
           m.content = i, NEW call, call.size \in Int, NEW undecided, NEW q \in Fgets(p, call.size, undecided)
    PROVE  Shows(p.reads, q.reads, i, m, OwnFgets(m, call), "fgets")
<1>0. /\ m.content \in Seq(Bytes) /\ Len(m.content) = Held(p) /\ m.position = p.position
      /\ Left(m) \in Seq(Bytes) /\ Len(Left(m)) = Held(p) - p.position
      /\ (Left(m) = <<>> <=> Drained(p)) /\ m.position \in 0..Len(m.content)
  BY AgreesPlace
<1>1. PICK x : x = OwnFgets(m, call)
  OBVIOUS
<1>2. CASE call.size <= 0 \/ Drained(p)
  <2>1. q.reads = p.reads
    <3>1. Fgets(p, call.size, undecided) = {ReturnsAll(Looked(p), Nul)}
      BY <1>2 DEF Fgets
    <3>2. Unread(p, Looked(p))
      BY UnreadParts DEF IsPath
    <3>3. Unread(Looked(p), ReturnsAll(Looked(p), Nul))
      BY <3>2, UnreadParts DEF Unread
    <3> QED BY <3>1, <3>2, <3>3 DEF Unread
  <2>2. x.position = m.position
    BY <1>0, <1>1, <1>2, OwnLines
  <2>3. x.position \in m.position..Len(i)
    BY <1>0, <2>2
  <2> QED BY <1>1, <2>1, <2>2, <2>3 DEF Shows
<1>3. CASE ~(call.size <= 0 \/ Drained(p))
  <2>1. PICK s, most : s = Left(m) /\ most = Clamped(call.size - 1, 0, Held(p) - p.position)
    OBVIOUS
  <2>2. PICK length : length = [j \in p.cond |-> Clamped(Before(UpTo(Rest(p, j), most), {Newline}) + 1, 0, most)]
    OBVIOUS
  <2>3. q = Past(Handed(TakesLine(p, length), p.position, p.position + most, TRUE), length, 0, undecided)
    BY <1>3, <2>1, <2>2 DEF Fgets
  <2>4. q.reads = Append(p.reads, <<p.position, p.position + most, TRUE>>)
    <3>1. DOMAIN p = PathFields
      BY DEF IsPath
    <3>2. PICK line, h : line = TakesLine(p, length) /\ h = HandsLine(line, p.position, p.position + most)
      OBVIOUS
    <3>3. q = Past(h, length, 0, undecided)
      BY <2>3, <3>2 DEF HandsLine
    <3>4. Unread(p, line)
      BY <3>1, <3>2, LineUnread
    <3>5. DOMAIN h = PathFields /\ h.reads = Append(p.reads, LineOf(p.position, p.position + most))
      BY <3>2, <3>4, HandedUnread
    <3>6. Unread(h, Past(h, length, 0, undecided))
      BY <3>5, UnreadPast
    <3> QED BY <3>3, <3>5, <3>6 DEF Unread, LineOf
  <2>5. most = Clamped(call.size - 1, 0, Len(s)) /\ most \in 0..Len(s)
    <3>1. Len(s) \in Nat /\ Len(s) = Held(p) - p.position
      BY <1>0, <2>1, LenProperties
    <3>2. call.size - 1 \in Int
      OBVIOUS
    <3> QED BY <2>1, <3>1, <3>2, WantedIs
  <2>6. x.position = m.position + Fits(UpTo(s, most))
    <3>1. ~(call.size <= 0 \/ Left(m) = <<>>)
      BY <1>0, <1>3
    <3>2. PICK fits : fits = Fits(UpTo(Left(m), Clamped(call.size - 1, 0, Len(Left(m)))))
      OBVIOUS
    <3>3. OwnFgets(m, call).position = m.position + fits
      BY <3>1, <3>2, OwnLines
    <3> QED BY <1>1, <2>1, <2>5, <3>2, <3>3
  <2>7. q.reads = Append(p.reads, <<m.position, m.position + most, TRUE>>)
    BY <1>0, <2>4
  <2>8. Shows(p.reads, q.reads, m.content, m, x, "fgets")
    BY <1>0, <2>1, <2>5, <2>6, <2>7, LineShows
  <2> QED BY <1>1, <2>8
<1> QED BY <1>2, <1>3

\* A line of getline that fills the object: the newline behind it is read and not handed out.
LEMMA ShortShows ==
    ASSUME NEW m, m.content \in Seq(Bytes), m.position \in 0..Len(m.content),
           NEW most \in 1..Len(Left(m)), most < Len(Left(m)), Before(Left(m), {Newline}) = most,
           NEW reads, NEW more, more = Append(reads, LineOf(m.position, m.position + most)),
           NEW x, x.position = m.position + (most + 1)
    PROVE  Shows(reads, more, m.content, m, x, "getline")
<1>1. PICK i, a, b, s : i = m.content /\ a = m.position /\ b = a + most /\ s = Left(m)
  OBVIOUS
<1>2. i \in Seq(Bytes) /\ a \in 0..Len(i) /\ Len(i) \in Nat /\ s = From(i, a)
  BY <1>1, LenProperties DEF Left
<1>3. s \in Seq(Bytes) /\ Len(s) = Len(i) - a /\ \A k \in 1..(Len(i) - a) : s[k] = i[a + k]
  BY <1>2, FromIs
<1>4. b \in a..Len(i) /\ b - a = most /\ most \in 0..Len(s) /\ most \in Nat /\ most < Len(s) /\ b < Len(i)
  BY <1>1, <1>2, <1>3
<1>5. PICK taken : taken = UpTo(s, most)
  OBVIOUS
<1>6. taken \in Seq(Bytes) /\ Len(taken) = most
  BY <1>3, <1>4, <1>5, UpToIs
<1>7. Before(taken, {Newline}) = most
  <2>1. PICK stops : stops = {Newline}
    OBVIOUS
  <2>2. Before(s, stops) = most
    BY <1>1, <2>1
  <2>3. Before(UpTo(s, most), stops) = IF Before(s, stops) <= most THEN Before(s, stops) ELSE most
    BY <1>3, <1>4, BeforeCut
  <2> QED BY <1>5, <2>1, <2>2, <2>3
<1>8. Fits(taken) = most
  <2>1. PICK l : l = Before(taken, {Newline})
    OBVIOUS
  <2>2. Fits(taken) = IF l < Len(taken) THEN l + 1 ELSE Len(taken)
    BY <1>6, <2>1, FitsIs
  <2> QED BY <1>4, <1>6, <1>7, <2>1, <2>2
<1>9. PICK e, read : e = b /\ read = <<a, b, TRUE>>
  OBVIOUS
<1>10. \A c \in 0..a : Window(i, read, c) = e
  <2>1. ASSUME NEW c \in 0..a PROVE Window(i, read, c) = e
    <3>1. Window(i, <<a, b, TRUE>>, c) = a + Fits(UpTo(From(i, a), b - a))
      BY <1>2, <1>4, WindowIs
    <3>2. UpTo(From(i, a), b - a) = taken
      BY <1>2, <1>4, <1>5
    <3> QED BY <1>1, <1>8, <1>9, <3>1, <3>2
  <2> QED BY <2>1
<1>11. s[most + 1] = Newline
  <2>1. s[Before(s, {Newline}) + 1] \in {Newline}
    <3>1. Before(s, {Newline}) < Len(s)
      BY <1>1, <1>4
    <3> QED BY <1>3, <3>1, BeforeIs
  <2> QED BY <1>1, <2>1
<1>12. i[e + 1] = Newline
  <2>1. most + 1 \in 1..(Len(i) - a) /\ a + (most + 1) = e + 1
    <3>1. a \in Nat /\ Len(i) \in Nat /\ most \in Nat /\ a + most < Len(i) /\ e = a + most
      BY <1>1, <1>2, <1>4, <1>9
    <3> QED BY <3>1
  <2>2. s[most + 1] = i[a + (most + 1)]
    BY <1>3, <2>1
  <2> QED BY <1>11, <2>1, <2>2
<1>13. LineEnds(m, x, e)
  <2>1. a \in Nat /\ most \in Nat /\ most >= 1 /\ e = a + most /\ x.position = a + (most + 1)
    BY <1>1, <1>2, <1>4, <1>9
  <2>2. x.position = e + 1 /\ m.position < e
    <3>1. PICK at : at = x.position
      OBVIOUS
    <3>2. at = a + (most + 1) /\ m.position = a
      BY <1>1, <2>1, <3>1
    <3>3. at = e + 1 /\ a < e
      BY <2>1, <3>2
    <3> QED BY <3>1, <3>2, <3>3
  <2> QED BY <1>1, <1>4, <1>9, <1>12, <2>2 DEF LineEnds
<1>14. x.position \in a..Len(i) /\ e \in a..x.position
  BY <1>1, <1>2, <1>4, <1>9
<1>15. more = Append(reads, read)
  BY <1>1, <1>9 DEF LineOf
<1> QED BY <1>1, <1>10, <1>13, <1>14, <1>15 DEF Shows

\* What getline hands out of a line that is kept where it fits.
LEMMA KeptShows ==
    ASSUME NEW m, m.content \in Seq(Bytes), m.position \in 0..Len(m.content),
           NEW all, all = Len(Left(m)), all > 0, NEW l, l = Before(Left(m), {Newline}),
           NEW most, most = all \/ (most = Small /\ all > Small /\ l <= Small),
           NEW reads, NEW more, more = Append(reads, LineOf(m.position, m.position + most)),
           NEW x, x.position = m.position + LinePast(Left(m), l)
    PROVE  Shows(reads, more, m.content, m, x, "getline")
<1>1. PICK s : s = Left(m)
  OBVIOUS
<1>2. s \in Seq(Bytes) /\ Len(s) \in Nat /\ all = Len(s)
  BY <1>1, FromIs, LenProperties DEF Left
<1>3. l \in 0..all /\ Small \in Nat /\ Small >= 1
  BY <1>1, <1>2, BeforeIs, StreamAssumption
<1>4. most \in 1..all
  BY <1>2, <1>3
<1>5. PICK taken : taken = UpTo(s, most)
  OBVIOUS
<1>6. taken \in Seq(Bytes) /\ Len(taken) = most
  BY <1>2, <1>4, <1>5, UpToIs
<1>7. Before(taken, {Newline}) = IF l <= most THEN l ELSE most
  <2>1. PICK stops : stops = {Newline}
    OBVIOUS
  <2>2. Before(s, stops) = l /\ most \in 0..Len(s)
    BY <1>1, <1>2, <1>4, <2>1
  <2>3. Before(UpTo(s, most), stops) = IF Before(s, stops) <= most THEN Before(s, stops) ELSE most
    BY <1>2, <2>2, BeforeCut
  <2> QED BY <1>5, <2>1, <2>2, <2>3
<1>8. PICK b : b = Before(taken, {Newline})
  OBVIOUS
<1>9. Fits(taken) = IF b < most THEN b + 1 ELSE most
  BY <1>6, <1>8, FitsIs
<1>10. LinePast(s, l) = IF l < all THEN l + 1 ELSE l
  BY <1>2, <1>3 DEF LinePast
<1>11. CASE most < all /\ l = most
  <2>1. x.position = m.position + (most + 1)
    BY <1>1, <1>3, <1>10, <1>11
  <2>2. most \in 1..Len(Left(m)) /\ most < Len(Left(m)) /\ Before(Left(m), {Newline}) = most
    BY <1>4, <1>11
  <2> QED BY <2>1, <2>2, ShortShows
<1>12. CASE ~(most < all /\ l = most)
  <2>1. Fits(taken) = LinePast(s, l)
    BY <1>3, <1>4, <1>7, <1>8, <1>9, <1>10, <1>12
  <2>2. x.position = m.position + Fits(UpTo(Left(m), most))
    BY <1>1, <1>5, <2>1
  <2>3. more = Append(reads, <<m.position, m.position + most, TRUE>>)
    BY DEF LineOf
  <2>4. most \in 0..Len(Left(m))
    BY <1>4
  <2> QED BY <2>2, <2>3, <2>4, LineShows
<1> QED BY <1>11, <1>12

LEMMA GetlineReads ==
    ASSUME stream = "stdin", NEW p, NEW b, Unread(p, b), NEW all, NEW length, NEW short, NEW undecided,
           NEW q, q = GetlineOn(b, all, length, short, undecided), NEW most, most = Kept(all, short)
    PROVE  q.reads = Append(p.reads, LineOf(b.position, b.position + most))
<1>1. PICK c : c = [j \in b.cond |-> [text |-> UpTo(Rest(b, j), Clamped(length[j], 0, Kept(all, short))),
                                      here |-> short]]
  OBVIOUS
<1>2. PICK r, s : r = ReturnsAll(b, "stream") /\ s = Strings(r, c)
  OBVIOUS
<1>3. PICK h : h = HandsLine(s, b.position, b.position + most)
  OBVIOUS
<1>4. q = Past(h, length, 1, undecided)
  BY <1>1, <1>2, <1>3 DEF GetlineOn, HandsLine
<1>5. Unread(b, ReturnsAll(b, "stream"))
  BY UnreadParts DEF Unread
<1>6. Unread(r, Strings(r, c))
  BY <1>2, <1>5, UnreadParts DEF Unread
<1>7. Unread(p, s)
  BY <1>2, <1>5, <1>6 DEF Unread
<1>8. h.reads = Append(p.reads, LineOf(b.position, b.position + most)) /\ DOMAIN h = PathFields
  BY <1>3, <1>7, HandedUnread
<1>9. Unread(h, Past(h, length, 1, undecided))
  BY <1>8, UnreadPast
<1> QED BY <1>4, <1>8, <1>9 DEF Unread

LEMMA GetlineShows ==
    ASSUME stream = "stdin", NEW p, IsPath(p), ~p.cut, NEW m, IsOwn(m), NEW call, NEW undecided,
           NEW q \in Getline(p, undecided), NEW i \in q.cond, i \in p.cond, Agrees(p, i, m), m.content = i
    PROVE  Shows(p.reads, q.reads, i, m, OwnGetline(m, call), "getline")
<1>0. /\ m.content \in Seq(Bytes) /\ Len(m.content) = Held(p) /\ m.position = p.position
      /\ Left(m) = Rest(p, i) /\ Left(m) \in Seq(Bytes) /\ Len(Left(m)) = Held(p) - p.position
      /\ (Left(m) = <<>> <=> Drained(p)) /\ m.position \in 0..Len(m.content)
  BY AgreesPlace
<1>1. PICK x : x = OwnGetline(m, call)
  OBVIOUS
<1>2. CASE Drained(p)
  <2>1. q.reads = p.reads
    <3>1. Getline(p, undecided) = {ReturnsAll(Looked(p), "stream")}
      BY <1>2 DEF Getline
    <3>2. Unread(p, Looked(p))
      BY UnreadParts DEF IsPath
    <3>3. Unread(Looked(p), ReturnsAll(Looked(p), "stream"))
      BY <3>2, UnreadParts DEF Unread
    <3> QED BY <3>1, <3>2, <3>3 DEF Unread
  <2>2. x.position = m.position
    BY <1>0, <1>1, <1>2, OwnLines
  <2>3. x.position \in m.position..Len(i)
    BY <1>0, <2>2
  <2> QED BY <1>1, <2>1, <2>2, <2>3 DEF Shows
<1>3. CASE ~Drained(p)
  <2>1. PICK all : all = Held(p) - p.position
    OBVIOUS
  <2>2. PICK length : length = [j \in p.cond |-> Before(Rest(p, j), {Newline})]
    OBVIOUS
  <2>3. \A j \in p.cond : length[j] \in 0..(Held(p) - p.position)
    BY <2>2, LineLength
  <2>4. PICK options : options = IF all <= Small THEN [short \in {TRUE} |-> p.cond]
                                 ELSE [short \in BOOLEAN |-> {j \in p.cond : short = (length[j] <= Small)}]
    OBVIOUS
  <2>5. Options(p, options)
    BY <2>4 DEF Options
  <2>6. PICK o \in Split(p, options) : q = GetlineOn(o.path, all, length, o.tag, undecided)
    <3>1. Getline(p, undecided) = {GetlineOn(o.path, all, length, o.tag, undecided) : o \in Split(p, options)}
      BY <1>3, <2>1, <2>2, <2>4 DEF Getline
    <3> QED BY <3>1
  <2>7. PICK b, short : b = o.path /\ short = o.tag
    OBVIOUS
  <2>8. /\ IsPath(b) /\ b.cond \subseteq p.cond /\ b.position = p.position /\ Held(b) = Held(p)
        /\ b.cond = options[short] /\ short \in DOMAIN options /\ b = Narrowed(p, options[short])
    BY <2>5, <2>7, SplitIs
  <2>9. \A j \in b.cond : length[j] \in 0..(Held(b) - b.position)
    BY <2>3, <2>8
  <2>10. i \in b.cond
    BY <2>6, <2>7, <2>8, <2>9, GetlineOnPath
  <2>11. PICK l : l = Before(Left(m), {Newline})
    OBVIOUS
  <2>12. length[i] = l /\ l \in 0..all
    BY <1>0, <2>1, <2>2, <2>3, <2>11
  <2>13. all = Len(Left(m)) /\ all \in Nat /\ all > 0 /\ Small \in Nat
    BY <1>0, <1>3, <2>1, HeldIs, StreamAssumption DEF Drained
  <2>14. PICK most : most = Kept(all, short)
    OBVIOUS
  <2>15. most = all \/ (most = Small /\ all > Small /\ l <= Small)
    <3>1. CASE all <= Small
      <4>1. options = [t \in {TRUE} |-> p.cond]
        BY <2>4, <3>1
      <4>2. short = TRUE
        BY <2>8, <4>1
      <4>3. Kept(all, short) = all
        BY <2>13, <3>1, <4>2 DEF Kept, Clamped
      <4> QED BY <2>14, <4>3
    <3>2. CASE ~(all <= Small)
      <4>1. options = [t \in BOOLEAN |-> {j \in p.cond : t = (length[j] <= Small)}]
        BY <2>4, <3>2
      <4>2. short \in BOOLEAN /\ short = (l <= Small)
        BY <2>8, <2>10, <2>12, <4>1
      <4>3. CASE short = TRUE
        <5>0. Kept(all, short) = Clamped(Small, 0, all)
          BY <4>3, Zenon DEF Kept
        <5>1. l <= Small
          BY <4>2, <4>3, Zenon
        <5>2. Kept(all, short) = Small
          BY <2>13, <3>2, <5>0 DEF Clamped
        <5> QED BY <2>13, <2>14, <3>2, <5>1, <5>2
      <4>4. CASE short = FALSE
        <5>1. Kept(all, short) = all
          BY <4>4 DEF Kept
        <5> QED BY <2>14, <5>1
      <4> QED BY <4>2, <4>3, <4>4
    <3> QED BY <3>1, <3>2
  <2>16. q.reads = Append(p.reads, LineOf(m.position, m.position + most))
    <3>1. DOMAIN p = PathFields
      BY DEF IsPath
    <3>2. Unread(p, b)
      BY <2>8, <3>1, UnreadParts
    <3>3. q = GetlineOn(b, all, length, short, undecided)
      BY <2>6, <2>7
    <3>4. q.reads = Append(p.reads, LineOf(b.position, b.position + most))
      BY <2>14, <3>2, <3>3, GetlineReads
    <3> QED BY <1>0, <2>8, <3>4
  <2>17. x.position = m.position + LinePast(Left(m), l)
    <3>1. Left(m) # <<>>
      BY <1>0, <1>3
    <3>2. PICK past : past = LinePast(Left(m), Before(Left(m), {Newline}))
      OBVIOUS
    <3>3. OwnGetline(m, call).position = m.position + past
      BY <3>1, <3>2, OwnLines
    <3> QED BY <1>1, <2>11, <3>2, <3>3
  <2>18. Shows(p.reads, q.reads, m.content, m, x, "getline")
    BY <1>0, <2>11, <2>13, <2>15, <2>16, <2>17, KeptShows
  <2> QED BY <1>1, <2>18
<1> QED BY <1>2, <1>3

\* A scan hands nothing out before it ends.
LEMMA SplitUnread ==
    ASSUME NEW p, DOMAIN p = PathFields, NEW options, NEW o \in Split(p, options)
    PROVE  Unread(p, o.path)
<1>1. PICK t \in DOMAIN options : o = [tag |-> t, path |-> Narrowed(p, options[t])]
  BY DEF Split
<1>2. o.path = Narrowed(p, options[t])
  BY <1>1
<1> QED BY <1>2, UnreadParts

LEMMA AdvanceUnread ==
    ASSUME NEW p, NEW q, Unread(p, q), NEW n
    PROVE  Unread(p, Advance(q, n))
<1>1. Unread(q, Advance(q, n))
  BY UnreadParts DEF Unread
<1> QED BY <1>1 DEF Unread

LEMMA SkipSpaceUnread ==
    ASSUME NEW s, DOMAIN s = PathFields, NEW q \in SkipSpace(s)
    PROVE  Unread(s, q)
<1>1. CASE Drained(s)
  BY <1>1, UnreadParts DEF SkipSpace
<1>2. CASE ~Drained(s)
  <2>1. PICK options : options = SkipOptions(s)
    OBVIOUS
  <2>2. SkipSpace(s) = {Advance(o.path, o.tag) : o \in Split(s, options)}
    BY <1>2, <2>1 DEF SkipSpace, SkipOptions, BlankAt
  <2>3. PICK o \in Split(s, options) : q = Advance(o.path, o.tag)
    BY <2>2
  <2> QED BY <2>3, SplitUnread, AdvanceUnread
<1> QED BY <1>1, <1>2

LEMMA LiteralUnread ==
    ASSUME NEW s, DOMAIN s = PathFields, NEW directive, NEW q \in Literal(s, directive)
    PROVE  Unread(s, q)
<1>1. PICK matching : matching = {i \in s.cond : At(s, i, s.position) \in directive.set}
  OBVIOUS
<1>2. PICK options : options = [matched \in BOOLEAN |-> IF matched THEN matching ELSE s.cond \ matching]
  OBVIOUS
<1>3. Literal(s, directive) = {IF o.tag THEN Advance(o.path, 1) ELSE Failed(o.path) : o \in Split(s, options)}
  BY <1>1, <1>2 DEF Literal
<1>4. PICK o \in Split(s, options) : q = Advance(o.path, 1) \/ q = Failed(o.path)
  BY <1>3
<1>5. Unread(s, o.path)
  BY SplitUnread
<1>6. Unread(s, Advance(o.path, 1))
  BY <1>5, AdvanceUnread
<1>7. Unread(o.path, Failed(o.path))
  BY <1>5, UnreadStore DEF Unread
<1> QED BY <1>4, <1>5, <1>6, <1>7, UnreadBoth

LEMMA StoredUnread ==
    ASSUME NEW s, NEW b, Unread(s, b), NEW directive, NEW content, NEW n, NEW read,
           read = Failed(b) \/ read = Store(b, directive, content)
    PROVE  Unread(s, Advance(read, n)) /\ Unread(s, Failed(b))
<1>1. Unread(b, Failed(b)) /\ Unread(b, Store(b, directive, content))
  BY UnreadStore DEF Unread
<1>2. Unread(s, read) /\ Unread(s, Failed(b))
  BY <1>1, UnreadBoth
<1> QED BY <1>2, AdvanceUnread

LEMMA RunUnread ==
    ASSUME NEW s, IsPath(s), ~Drained(s), NEW directive, DirectiveOK(directive), NEW q \in Run(s, directive)
    PROVE  Unread(s, q)
<1>1. Longest(s, directive) \in Nat
  BY LongestIs, HeldIs
<1>2. PICK options : options = RunOptions(s, directive)
  OBVIOUS
<1>3. PICK o \in Split(s, options) : q = RunOn(o.path, directive, o.tag)
  BY <1>1, <1>2, RunSplit
<1>4. PICK b, n : b = o.path /\ n = o.tag
  OBVIOUS
<1>5. Unread(s, b)
  BY <1>4, SplitUnread DEF IsPath
<1>6. PICK content : content = [i \in b.cond |-> Append(UpTo(Rest(b, i), n), Nul)]
  OBVIOUS
<1>7. PICK read : read = Store(b, directive, content)
  OBVIOUS
<1>8. q = Failed(b) \/ q = Advance(read, n)
  BY <1>3, <1>4, <1>6, <1>7 DEF RunOn
<1> QED BY <1>5, <1>7, <1>8, StoredUnread

LEMMA CharactersUnread ==
    ASSUME NEW s, DOMAIN s = PathFields, NEW directive, NEW q \in Characters(s, directive)
    PROVE  Unread(s, q)
<1>1. PICK taken : taken = Longest(s, directive)
  OBVIOUS
<1>2. PICK c : c = [i \in s.cond |-> UpTo(Rest(s, i), taken)]
  OBVIOUS
<1>3. PICK read : read = Store(s, directive, c)
  OBVIOUS
<1>4. q = Advance(read, taken)
  BY <1>1, <1>2, <1>3 DEF Characters
<1>5. Unread(s, s)
  BY UnreadParts
<1> QED BY <1>3, <1>4, <1>5, StoredUnread

LEMMA DecimalUnread ==
    ASSUME NEW s, IsPath(s), ~Drained(s), NEW directive, DirectiveOK(directive), NEW q \in Decimal(s, directive)
    PROVE  Unread(s, q)
<1>1. PICK limit : limit = Longest(s, directive)
  OBVIOUS
<1>2. limit \in Nat /\ s.position \in Nat
  BY <1>1, LongestIs, HeldIs
<1>3. PICK options : options = DecimalOptions(s, limit)
  OBVIOUS
<1>4. PICK o \in Split(s, options) : q = DecimalOn(o.path, directive, o.tag)
  BY <1>1, <1>2, <1>3, DecimalSplit
<1>5. PICK b, t : b = o.path /\ t = o.tag
  OBVIOUS
<1>6. Unread(s, b)
  BY <1>5, SplitUnread DEF IsPath
<1>7. PICK c : c = [i \in b.cond |-> <<Signed(At(b, i, b.position), UpTo(From(Rest(b, i), t.signed), t.count))>>]
  OBVIOUS
<1>8. PICK read : read = IF t.count = 0 THEN Failed(b) ELSE Store(b, directive, c)
  OBVIOUS
<1>9. PICK n : n = t.signed + t.count
  OBVIOUS
<1>10. q = Advance(read, n)
  BY <1>4, <1>5, <1>7, <1>8, <1>9 DEF DecimalOn
<1>11. read = Failed(b) \/ read = Store(b, directive, c)
  BY <1>8
<1> QED BY <1>6, <1>10, <1>11, StoredUnread

LEMMA ConvertUnread ==
    ASSUME NEW s, IsPath(s), NEW directive, DirectiveOK(directive), directive.kind # "space",
           NEW q \in Convert(s, directive)
    PROVE  Unread(s, q)
<1>0. DOMAIN s = PathFields
  BY DEF IsPath
<1>1. CASE Drained(s)
  <2>1. PICK r : r = IF s.scan.assigned = 0 THEN Eof ELSE s.scan.assigned
    OBVIOUS
  <2>2. Convert(s, directive) = {Ended(s, r)}
    BY <1>1, <2>1 DEF Convert
  <2>3. Unread(s, Ended(s, r))
    BY <1>0, UnreadStore
  <2> QED BY <2>2, <2>3
<1>2. CASE ~Drained(s) /\ directive.kind = "literal"
  <2>1. Convert(s, directive) = Literal(s, directive)
    BY <1>2 DEF Convert
  <2> QED BY <1>0, <2>1, LiteralUnread
<1>3. CASE ~Drained(s) /\ directive.kind \in {"string", "set"}
  <2>1. Convert(s, directive) = Run(s, directive)
    BY <1>3 DEF Convert
  <2> QED BY <1>3, <2>1, RunUnread
<1>4. CASE ~Drained(s) /\ directive.kind = "chars"
  <2>1. Convert(s, directive) = Characters(s, directive)
    BY <1>4 DEF Convert
  <2> QED BY <1>0, <2>1, CharactersUnread
<1>5. CASE ~Drained(s) /\ directive.kind = "decimal"
  <2>1. Convert(s, directive) = Decimal(s, directive)
    BY <1>5 DEF Convert
  <2> QED BY <1>5, <2>1, DecimalUnread
<1> QED BY <1>1, <1>2, <1>3, <1>4, <1>5 DEF DirectiveOK

LEMMA StepUnread ==
    ASSUME NEW s, IsPath(s), NEW directive, DirectiveOK(directive), NEW q \in Step(s, directive)
    PROVE  Unread(s, q)
<1>0. Unread(s, s) /\ DOMAIN s = PathFields
  BY UnreadParts DEF IsPath
<1>1. PICK branches : branches = IF Skips(directive) THEN SkipSpace(s) ELSE {s}
  OBVIOUS
<1>2. \A b \in branches : Unread(s, b)
  BY <1>0, <1>1, SkipSpaceUnread
<1>3. \A b \in branches : IsPath(b)
  <2>1. \A b \in SkipSpace(s) : IsPath(b)
    BY SkipSpaceParts DEF Parts, Goes
  <2> QED BY <1>1, <2>1
<1>4. CASE s.scan.result # None
  BY <1>0, <1>4 DEF Step
<1>5. CASE s.scan.result = None /\ directive.kind = "space"
  <2>1. Step(s, directive) = branches
    BY <1>1, <1>5 DEF Step
  <2> QED BY <1>2, <2>1
<1>6. CASE s.scan.result = None /\ directive.kind # "space"
  <2>1. Step(s, directive) = UNION {Convert(b, directive) : b \in branches}
    BY <1>1, <1>6 DEF Step
  <2>2. PICK b \in branches : q \in Convert(b, directive)
    BY <2>1
  <2>3. Unread(b, q)
    BY <1>3, <1>6, <2>2, ConvertUnread
  <2> QED BY <1>2, <2>3, UnreadBoth
<1> QED BY <1>4, <1>5, <1>6

LEMMA ScanningUnread ==
    ASSUME NEW p, IsPath(p), NEW directives, AreDirectives(directives), NEW n, n = Len(directives),
           NEW f, Scanning(p, directives, n, f)
    PROVE  \A s \in f[n] : Unread(p, s)
<1>1. n \in Nat
  BY DEF AreDirectives
<1>2. \A k \in 0..n : f[k] = IF k = 0 THEN {Opened(p)} ELSE UNION {Step(s, directives[k]) : s \in f[k - 1]}
  BY DEF Scanning
<1>3. PICK Good : Good = {k \in 0..n : \A s \in f[k] : IsPath(s) /\ Unread(p, s)}
  OBVIOUS
<1>4. 0 \in Good
  <2>1. PICK v : v = [assigned |-> 0, result |-> None]
    OBVIOUS
  <2>2. Opened(p) = [p EXCEPT !.scan = v]
    BY <2>1 DEF Opened
  <2>3. IsPath([p EXCEPT !.scan = v])
    BY ScanStays DEF Stays
  <2>4. Unread(p, [p EXCEPT !.scan = v])
    BY UnreadParts DEF IsPath
  <2>5. 0 \in 0..n
    BY <1>1
  <2>6. f[0] = {Opened(p)}
    BY <1>2, <2>5
  <2> QED BY <1>3, <2>2, <2>3, <2>4, <2>5, <2>6
<1>5. ASSUME NEW k \in 0..(n - 1), k \in Good PROVE k + 1 \in Good
  <2>1. PICK j, d : j = k + 1 /\ d = directives[k + 1]
    OBVIOUS
  <2>2. j \in 1..n /\ j \in 0..n /\ j - 1 = k /\ j # 0
    BY <1>1, <2>1
  <2>3. DirectiveOK(d)
    BY <2>1, <2>2 DEF AreDirectives
  <2>4. f[j] = UNION {Step(s, d) : s \in f[k]}
    <3>1. f[j] = UNION {Step(s, directives[j]) : s \in f[j - 1]}
      BY <1>2, <2>2
    <3> QED BY <2>1, <2>2, <3>1
  <2>5. ASSUME NEW q \in f[j] PROVE IsPath(q) /\ Unread(p, q)
    <3>1. PICK s \in f[k] : q \in Step(s, d)
      BY <2>4
    <3>2. IsPath(s) /\ Unread(p, s)
      BY <1>3, <1>5, <3>1
    <3>3. IsPath(q)
      BY <2>3, <3>1, <3>2, StepParts DEF Parts, Goes
    <3>4. Unread(s, q)
      BY <2>3, <3>1, <3>2, StepUnread
    <3> QED BY <3>2, <3>3, <3>4, UnreadBoth
  <2> QED BY <1>3, <2>1, <2>2, <2>5
<1>6. \A k \in 0..n : k \in Good
  BY <1>1, <1>4, <1>5, UpToAll
<1>7. n \in 0..n
  BY <1>1
<1> QED BY <1>3, <1>6, <1>7

LEMMA GoesHeld ==
    ASSUME NEW p, IsPath(p), NEW s, Goes(p, s)
    PROVE  Held(s) = Held(p) /\ s.position \in p.position..Held(p)
<1>1. IsPath(s) /\ s.cond \subseteq p.cond /\ s.cond # {}
  BY DEF Goes, IsPath
<1>2. PICK j \in s.cond : j \in p.cond
  BY <1>1
<1>3. Held(s) = Held(p)
  BY <1>1, <1>2 DEF Goes, IsPath
<1> QED BY <1>1, <1>3, HeldIs DEF Goes

LEMMA FinishStraight ==
    ASSUME stream = "stdin", NEW p, IsPath(p), NEW s, Goes(p, s), Unread(p, s), NEW returned
    PROVE  Straight(p, Finish(p.position, s, returned))
<1>1. PICK a : a = p.position
  OBVIOUS
<1>2. PICK v, c : v = Said(s, returned) /\ c = [s EXCEPT !.scan = None]
  OBVIOUS
<1>3. PICK r : r = ReturnsAll(c, v)
  OBVIOUS
<1>4. PICK h : h = Handed(r, a, s.position, FALSE)
  OBVIOUS
<1>5. Stays(s, c) /\ IsPath(s)
  BY <1>2, ScanStays DEF Goes
<1>6. Like(c, r)
  BY <1>3, <1>5, ReturnsAllLike DEF Stays
<1>7. IsPath(r) /\ r.position = s.position /\ r.cut = p.cut
  BY <1>5, <1>6 DEF Stays, Like, Goes
<1>8. s.position \in p.position..Held(p)
  BY GoesHeld
<1>9. Unread(p, r)
  <2>1. Unread(s, c)
    BY <1>2, UnreadParts DEF Unread
  <2>2. Unread(c, r)
    BY <1>3, <2>1, UnreadParts DEF Unread
  <2> QED BY <2>1, <2>2 DEF Unread
<1>10. CASE s.position > a
  <2>1. Finish(a, s, returned) = h
    BY <1>2, <1>3, <1>4, <1>10, FinishParts, Zenon
  <2>2. h = Handed(r, a, r.position, FALSE)
    BY <1>4, <1>7
  <2>3. a \in p.position..r.position /\ r.position \in p.position..Held(p)
    BY <1>1, <1>7, <1>8, HeldIs
  <2>4. Straight(p, Handed(r, a, r.position, FALSE))
    BY <1>7, <1>9, <2>3, HandedStraight
  <2> QED BY <1>1, <2>1, <2>2, <2>4
<1>11. CASE ~(s.position > a)
  <2>1. Finish(a, s, returned) = r
    BY <1>2, <1>3, <1>4, <1>11, FinishParts, Zenon
  <2>2. r.position = p.position
    BY <1>1, <1>7, <1>8, <1>11, HeldIs
  <2>3. r.reads = p.reads
    BY <1>9 DEF Unread
  <2>4. r.position \in p.position..Held(p)
    BY <1>7, <1>8
  <2>5. Straight(p, r)
    BY <1>7, <2>2, <2>3, <2>4 DEF Straight
  <2> QED BY <1>1, <2>1, <2>5
<1> QED BY <1>10, <1>11

LEMMA ScanStraight ==
    ASSUME stream = "stdin", NEW p, IsPath(p), NEW directives, AreDirectives(directives), NEW returned,
           NEW q \in Scan(p, directives, returned)
    PROVE  Straight(p, q)
<1>1. PICK n : n = Len(directives)
  OBVIOUS
<1>2. n \in Nat
  BY <1>1 DEF AreDirectives
<1> DEFINE Rec(f) == f = [k \in 0..n |-> IF k = 0 THEN {Opened(p)}
                                         ELSE UNION {Step(s, directives[k]) : s \in f[k - 1]}]
<1>3. \A f : Scanning(p, directives, n, f) <=> Rec(f)
  BY DEF Scanning
<1>4. \E f : Rec(f)
  <2>1. \E f : Scanning(p, directives, n, f)
    BY <1>2, ScanningExists
  <2> HIDE DEF Rec
  <2> QED BY <1>3, <2>1
<1>5. PICK after : after = CHOOSE f : Rec(f)
  OBVIOUS
<1>6. Scan(p, directives, returned) = {Finish(p.position, s, returned) : s \in after[n]}
  BY <1>1, <1>5 DEF Scan
<1>7. Rec(after)
  <2> HIDE DEF Rec
  <2> QED BY <1>4, <1>5
<1>8. Scanning(p, directives, n, after)
  BY <1>3, <1>7
<1> HIDE DEF Rec
<1>9. PICK s \in after[n] : q = Finish(p.position, s, returned)
  BY <1>6
<1>10. Unread(p, s)
  BY <1>1, <1>8, <1>9, ScanningUnread
<1>11. Goes(p, s)
  <2>1. Parts(p, after[n])
    BY <1>1, <1>8, ScanningParts
  <2> QED BY <1>9, <2>1 DEF Parts
<1> QED BY <1>9, <1>10, <1>11, FinishStraight

LEMMA ScansStraight ==
    ASSUME stream = "stdin", NEW p, IsPath(p), NEW call
    PROVE  /\ \A q \in Number(p, call) : Straight(p, q)
           /\ AreDirectives(call.directives) => \A q \in Scanf(p, call) : Straight(p, q)
BY NumberOK, ScanStraight DEF Number, Scanf

-----------------------------------------------------------------------------
(* The windows of every call.                                               *)

\* The windows of a path show what the run of an input has read.
Tells(p, Q, call) ==
    \A q \in Q : \A i \in q.cond : \A m :
       ~q.noted /\ ~Strays(p, call) /\ IsOwn(m) /\ Agrees(p, i, m) /\ m.content = i
          => Shows(p.reads, q.reads, i, m, Alone(m, call), call.op)

LEMMA TellsIf ==
    ASSUME NEW p, NEW Q, NEW call, Divides(p, Q),
           p.cut /\ Drained(p) /\ ~Strays(p, call) => \A q \in Q : q.noted,
           \A q \in Q : \A i \in q.cond : \A m :
              /\ i \in p.cond /\ ~p.cut /\ ~Strays(p, call) /\ ~q.noted
              /\ IsOwn(m) /\ Agrees(p, i, m) /\ m.content = i
              => Shows(p.reads, q.reads, i, m, Alone(m, call), call.op)
    PROVE  Tells(p, Q, call)
<1>1. ASSUME NEW q \in Q, NEW i \in q.cond, NEW m,
             ~q.noted, ~Strays(p, call), IsOwn(m), Agrees(p, i, m), m.content = i
      PROVE  Shows(p.reads, q.reads, i, m, Alone(m, call), call.op)
  <2>1. i \in p.cond
    BY DEF Divides
  <2>2. ~p.cut
    BY <1>1 DEF Agrees
  <2> QED BY <1>1, <2>1, <2>2
<1> QED BY <1>1 DEF Tells

LEMMA TellsStraight ==
    ASSUME NEW p, IsPath(p), NEW Q, NEW call, Follows(p, Q, call), \A q \in Q : Straight(p, q),
           p.cut /\ Drained(p) /\ ~Strays(p, call) => \A q \in Q : q.noted
    PROVE  Tells(p, Q, call)
<1>1. Divides(p, Q)
  BY DEF Follows
<1>2. ASSUME NEW q \in Q, NEW i \in q.cond, NEW m, i \in p.cond, ~p.cut, ~Strays(p, call), ~q.noted,
             IsOwn(m), Agrees(p, i, m), m.content = i
      PROVE  Shows(p.reads, q.reads, i, m, Alone(m, call), call.op)
  <2>1. PICK x, op : x = Alone(m, call) /\ op = call.op
    OBVIOUS
  <2>2. Agrees(q, i, x)
    BY <1>2, <2>1 DEF Follows
  <2>3. Straight(p, q)
    OBVIOUS
  <2>4. Shows(p.reads, q.reads, i, m, x, op)
    BY <1>2, <2>2, <2>3, StraightShows
  <2> QED BY <2>1, <2>4
<1> QED BY <1>1, <1>2, TellsIf

LEMMA LinesTell ==
    ASSUME stream = "stdin", NEW p, IsPath(p), NEW call, NEW undecided
    PROVE  /\ call.op = "gets" => Tells(p, Gets(p, undecided), call)
           /\ call.op = "fgets" /\ call.size \in Int => Tells(p, Fgets(p, call.size, undecided), call)
           /\ call.op = "getline" => Tells(p, Getline(p, undecided), call)
<1>1. ASSUME call.op = "gets" PROVE Tells(p, Gets(p, undecided), call)
  <2>1. \A m : Alone(m, call) = OwnGets(m, call)
    BY <1>1 DEF Alone
  <2>2. ASSUME NEW q \in Gets(p, undecided), NEW i \in q.cond, NEW m, i \in p.cond, ~p.cut,
               IsOwn(m), Agrees(p, i, m), m.content = i
        PROVE  Shows(p.reads, q.reads, i, m, Alone(m, call), call.op)
    <3>1. Shows(p.reads, q.reads, i, m, OwnGets(m, call), "gets")
      BY <2>2, GetsShows
    <3> QED BY <1>1, <2>1, <3>1
  <2>3. Divides(p, Gets(p, undecided))
    BY GetsDivides
  <2>4. p.cut /\ Drained(p) => \A q \in Gets(p, undecided) : q.noted
    BY ModelsNote
  <2> QED BY <2>2, <2>3, <2>4, TellsIf
<1>2. ASSUME call.op = "fgets", call.size \in Int PROVE Tells(p, Fgets(p, call.size, undecided), call)
  <2>1. \A m : Alone(m, call) = OwnFgets(m, call)
    BY <1>2 DEF Alone
  <2>2. ASSUME NEW q \in Fgets(p, call.size, undecided), NEW i \in q.cond, NEW m, i \in p.cond, ~p.cut,
               IsOwn(m), Agrees(p, i, m), m.content = i
        PROVE  Shows(p.reads, q.reads, i, m, Alone(m, call), call.op)
    <3>1. Shows(p.reads, q.reads, i, m, OwnFgets(m, call), "fgets")
      BY <1>2, <2>2, FgetsShows
    <3> QED BY <1>2, <2>1, <3>1
  <2>3. Divides(p, Fgets(p, call.size, undecided))
    BY <1>2, FgetsDivides
  <2>4. p.cut /\ Drained(p) => \A q \in Fgets(p, call.size, undecided) : q.noted
    BY ModelsNote
  <2> QED BY <2>2, <2>3, <2>4, TellsIf
<1>3. ASSUME call.op = "getline" PROVE Tells(p, Getline(p, undecided), call)
  <2>1. \A m : Alone(m, call) = OwnGetline(m, call)
    BY <1>3 DEF Alone
  <2>2. ASSUME NEW q \in Getline(p, undecided), NEW i \in q.cond, NEW m, i \in p.cond, ~p.cut,
               IsOwn(m), Agrees(p, i, m), m.content = i
        PROVE  Shows(p.reads, q.reads, i, m, Alone(m, call), call.op)
    <3>1. Shows(p.reads, q.reads, i, m, OwnGetline(m, call), "getline")
      BY <2>2, GetlineShows
    <3> QED BY <1>3, <2>1, <3>1
  <2>3. Divides(p, Getline(p, undecided))
    BY GetlineDivides
  <2>4. p.cut /\ Drained(p) => \A q \in Getline(p, undecided) : q.noted
    BY ModelsNote
  <2> QED BY <2>2, <2>3, <2>4, TellsIf
<1> QED BY <1>1, <1>2, <1>3

LEMMA OthersTell ==
    ASSUME stream = "stdin", NEW p, IsPath(p), NEW call, CallOK(call)
    PROVE  /\ call.op = "getchar" => Tells(p, Getchar(p, call), call)
           /\ call.op = "read" => Tells(p, Read(p, call), call)
           /\ call.op = "token" => Tells(p, Token(p, call), call)
           /\ call.op = "number" => Tells(p, Number(p, call), call)
           /\ call.op = "scanf" => Tells(p, Scanf(p, call), call)
<1>1. ASSUME call.op = "getchar" PROVE Tells(p, Getchar(p, call), call)
  <2>1. Follows(p, Getchar(p, call), call)
    BY <1>1, BytesFollow
  <2>2. p.cut /\ Drained(p) => \A q \in Getchar(p, call) : q.noted
    BY ModelsNote
  <2>3. \A q \in Getchar(p, call) : Straight(p, q)
    BY GetcharStraight
  <2> QED BY <2>1, <2>2, <2>3, TellsStraight
<1>2. ASSUME call.op = "read" PROVE Tells(p, Read(p, call), call)
  <2>0. call.size \in Int
    BY <1>2 DEF CallOK
  <2>1. Follows(p, Read(p, call), call)
    BY <1>2, <2>0, BlocksFollow
  <2>2. p.cut /\ Drained(p) => \A q \in Read(p, call) : q.noted
    BY <2>0, BlocksNote
  <2>3. \A q \in Read(p, call) : Straight(p, q)
    BY <2>0, ReadStraight
  <2> QED BY <2>1, <2>2, <2>3, TellsStraight
<1>3. ASSUME call.op = "token" PROVE Tells(p, Token(p, call), call)
  <2>1. Follows(p, Token(p, call), call)
    BY <1>3, TokenFollows
  <2>2. ~Strays(p, call) => ~Drained(p)
    BY <1>3 DEF Strays
  <2>3. \A q \in Token(p, call) : Straight(p, q)
    BY TokenStraight
  <2> QED BY <2>1, <2>2, <2>3, TellsStraight
<1>4. ASSUME call.op = "number" PROVE Tells(p, Number(p, call), call)
  <2>1. Follows(p, Number(p, call), call)
    BY <1>4, ScansFollow
  <2>2. ~Strays(p, call) => ~p.cut
    BY <1>4 DEF Strays
  <2>3. \A q \in Number(p, call) : Straight(p, q)
    BY ScansStraight
  <2> QED BY <2>1, <2>2, <2>3, TellsStraight
<1>5. ASSUME call.op = "scanf" PROVE Tells(p, Scanf(p, call), call)
  <2>0. AreDirectives(call.directives)
    BY <1>5 DEF CallOK, AreDirectives
  <2>1. Follows(p, Scanf(p, call), call)
    BY <1>5, ScansFollow
  <2>2. ~Strays(p, call) => ~p.cut
    BY <1>5 DEF Strays
  <2>3. \A q \in Scanf(p, call) : Straight(p, q)
    BY <2>0, ScansStraight
  <2> QED BY <2>1, <2>2, <2>3, TellsStraight
<1> QED BY <1>1, <1>2, <1>3, <1>4, <1>5

-----------------------------------------------------------------------------
(* What the windows show, and what the program does again, one by one.      *)

\* g[k]: how much the first k windows show.
Consuming(i, reads, n, g) == g = [k \in 0..n |-> IF k = 0 THEN 0 ELSE Window(i, reads[k], g[k - 1])]

LEMMA ConsumingExists ==
    ASSUME NEW i, NEW reads, NEW n \in Nat
    PROVE  \E g : Consuming(i, reads, n, g)
<1> DEFINE Bad == {j \in Nat : ~ \E g : Consuming(i, reads, j, g)}
<1>1. SUFFICES ASSUME Bad # {} PROVE FALSE
  OBVIOUS
<1>2. PICK j \in Bad : \A k \in Bad : j <= k
  <2> HIDE DEF Bad
  <2>1. Bad \subseteq Nat
    BY DEF Bad
  <2> QED BY <1>1, <2>1, LeastNumber
<1>3. j \in Nat
  OBVIOUS
<1>4. CASE j = 0
  <2> DEFINE g == [k \in 0..0 |-> 0]
  <2>1. Consuming(i, reads, 0, g)
    BY DEF Consuming
  <2> QED BY <1>4, <2>1
<1>5. CASE j # 0
  <2>1. j - 1 \in Nat /\ j - 1 \notin Bad
    BY <1>2, <1>3, <1>5
  <2>2. PICK f : Consuming(i, reads, j - 1, f)
    BY <2>1
  <2> DEFINE g == [k \in 0..j |-> IF k < j THEN f[k] ELSE Window(i, reads[k], f[k - 1])]
  <2>3. \A k \in 0..j : g[k] = IF k = 0 THEN 0 ELSE Window(i, reads[k], g[k - 1])
    <3>1. \A k \in 0..(j - 1) : f[k] = IF k = 0 THEN 0 ELSE Window(i, reads[k], f[k - 1])
      BY <2>2 DEF Consuming
    <3>2. \A k \in 0..(j - 1) : g[k] = f[k]
      BY <1>3
    <3>3. g[j] = Window(i, reads[j], f[j - 1])
      BY <1>3
    <3>4. j - 1 \in 0..(j - 1) /\ g[j - 1] = f[j - 1]
      BY <1>3, <1>5, <3>2
    <3>5. g[j] = Window(i, reads[j], g[j - 1])
      BY <3>3, <3>4
    <3>6. ASSUME NEW k \in 0..(j - 1)
          PROVE  g[k] = IF k = 0 THEN 0 ELSE Window(i, reads[k], g[k - 1])
      <4>1. CASE k = 0
        BY <3>1, <3>2, <4>1
      <4>2. CASE k # 0
        <5>1. k - 1 \in 0..(j - 1)
          BY <1>3, <4>2
        <5>2. g[k] = f[k] /\ g[k - 1] = f[k - 1]
          BY <3>2, <5>1
        <5> HIDE DEF g
        <5> QED BY <3>1, <4>2, <5>2
      <4> QED BY <4>1, <4>2
    <3> HIDE DEF g
    <3> SUFFICES ASSUME NEW k \in 0..j
                 PROVE  g[k] = IF k = 0 THEN 0 ELSE Window(i, reads[k], g[k - 1])
      OBVIOUS
    <3>7. CASE k = j
      BY <1>5, <3>5, <3>7
    <3>8. CASE k # j
      <4>1. k \in 0..(j - 1)
        BY <1>3, <3>8
      <4> QED BY <3>6, <4>1
    <3> QED BY <3>7, <3>8
  <2>4. g = [k \in 0..j |-> g[k]]
    OBVIOUS
  <2> HIDE DEF g
  <2>5. Consuming(i, reads, j, g)
    BY <2>3, <2>4 DEF Consuming
  <2> QED BY <2>5
<1> QED BY <1>4, <1>5

LEMMA ConsumedIs ==
    ASSUME NEW i, NEW reads, Len(reads) \in Nat
    PROVE  \E g : Consuming(i, reads, Len(reads), g) /\ Consumed(i, reads) = g[Len(reads)]
<1>1. PICK n : n = Len(reads)
  OBVIOUS
<1> DEFINE Rec(g) == g = [k \in 0..n |-> IF k = 0 THEN 0 ELSE Window(i, reads[k], g[k - 1])]
<1>2. \A g : Consuming(i, reads, n, g) <=> Rec(g)
  BY DEF Consuming
<1>3. \E g : Rec(g)
  <2>1. \E g : Consuming(i, reads, n, g)
    BY <1>1, ConsumingExists
  <2> HIDE DEF Rec
  <2> QED BY <1>2, <2>1
<1>4. PICK h : h = CHOOSE g : Rec(g)
  OBVIOUS
<1>5. Consumed(i, reads) = h[n]
  BY <1>1, <1>4 DEF Consumed
<1>6. Rec(h)
  <2> HIDE DEF Rec
  <2> QED BY <1>3, <1>4
<1>7. Consuming(i, reads, n, h)
  BY <1>2, <1>6
<1> HIDE DEF Rec
<1> QED BY <1>1, <1>5, <1>7

LEMMA ConsumedBoth ==
    ASSUME NEW i, NEW n \in Nat, NEW s, NEW t, \A k \in 1..n : s[k] = t[k],
           NEW g, NEW h, NEW o \in Nat, n <= o, Consuming(i, s, n, g), Consuming(i, t, o, h)
    PROVE  g[n] = h[n]
<1>1. \A k \in 0..n : g[k] = IF k = 0 THEN 0 ELSE Window(i, s[k], g[k - 1])
  BY DEF Consuming
<1>2. \A k \in 0..o : h[k] = IF k = 0 THEN 0 ELSE Window(i, t[k], h[k - 1])
  BY DEF Consuming
<1>3. PICK Good : Good = {k \in 0..n : g[k] = h[k]}
  OBVIOUS
<1>4. 0 \in Good
  <2>1. 0 \in 0..n /\ 0 \in 0..o
    OBVIOUS
  <2>2. g[0] = 0 /\ h[0] = 0
    BY <1>1, <1>2, <2>1
  <2> QED BY <1>3, <2>1, <2>2
<1>5. ASSUME NEW k \in 0..(n - 1), k \in Good PROVE k + 1 \in Good
  <2>1. PICK j : j = k + 1
    OBVIOUS
  <2>2. j \in 1..n /\ j \in 0..n /\ j \in 0..o /\ j - 1 = k /\ j # 0
    BY <2>1
  <2>3. g[j] = Window(i, s[j], g[j - 1]) /\ h[j] = Window(i, t[j], h[j - 1])
    BY <1>1, <1>2, <2>2
  <2>4. g[j - 1] = h[j - 1] /\ s[j] = t[j]
    BY <1>3, <1>5, <2>2
  <2>5. g[j] = h[j]
    BY <2>3, <2>4
  <2> QED BY <1>3, <2>1, <2>2, <2>5
<1>6. \A k \in 0..n : k \in Good
  BY <1>4, <1>5, UpToAll
<1>7. n \in 0..n
  OBVIOUS
<1> QED BY <1>3, <1>6, <1>7

LEMMA ConsumedNone ==
    ASSUME NEW i
    PROVE  Consumed(i, <<>>) = 0
<1>1. PICK e : e = <<>>
  OBVIOUS
<1>2. Len(e) = 0
  BY <1>1
<1>3. PICK g : Consuming(i, e, Len(e), g) /\ Consumed(i, e) = g[Len(e)]
  BY <1>2, ConsumedIs
<1>4. \A k \in 0..0 : g[k] = IF k = 0 THEN 0 ELSE Window(i, e[k], g[k - 1])
  BY <1>2, <1>3 DEF Consuming
<1>5. 0 \in 0..0
  OBVIOUS
<1> QED BY <1>1, <1>2, <1>3, <1>4, <1>5

LEMMA ConsumedMore ==
    ASSUME NEW i, NEW s, IsSeq(s), NEW x
    PROVE  Consumed(i, Append(s, x)) = Window(i, x, Consumed(i, s))
<1>1. PICK t, n : t = Append(s, x) /\ n = Len(s)
  OBVIOUS
<1>2. n \in Nat /\ Len(t) = n + 1 /\ t[n + 1] = x /\ \A k \in 1..n : t[k] = s[k]
  BY <1>1, SeqAppend
<1>3. PICK g : Consuming(i, s, n, g) /\ Consumed(i, s) = g[n]
  BY <1>1, <1>2, ConsumedIs
<1>4. PICK o : o = n + 1
  OBVIOUS
<1>5. o \in Nat /\ n <= o /\ o \in 0..o /\ o # 0 /\ o - 1 = n /\ Len(t) = o
  BY <1>2, <1>4
<1>6. PICK h : Consuming(i, t, o, h) /\ Consumed(i, t) = h[o]
  BY <1>5, ConsumedIs
<1>7. g[n] = h[n]
  <2>1. \A k \in 1..n : s[k] = t[k]
    BY <1>2
  <2> QED BY <1>2, <1>3, <1>5, <1>6, <2>1, ConsumedBoth
<1>8. h[o] = Window(i, t[o], h[o - 1])
  BY <1>5, <1>6 DEF Consuming
<1> QED BY <1>1, <1>2, <1>3, <1>4, <1>5, <1>6, <1>7, <1>8

\* The calls alone, on other content.
Rerun(content, calls) ==
    LET after[n \in 0..Len(calls)] ==
            IF n = 0 THEN Start(content) ELSE Alone(after[n - 1], calls[n])
    IN after[Len(calls)]

\* g[k]: the run after k calls.
Rerunning(content, calls, n, g) ==
    g = [k \in 0..n |-> IF k = 0 THEN Start(content) ELSE Alone(g[k - 1], calls[k])]

LEMMA RerunningExists ==
    ASSUME NEW content, NEW calls, NEW n \in Nat
    PROVE  \E g : Rerunning(content, calls, n, g)
<1> DEFINE Bad == {j \in Nat : ~ \E g : Rerunning(content, calls, j, g)}
<1>1. SUFFICES ASSUME Bad # {} PROVE FALSE
  OBVIOUS
<1>2. PICK j \in Bad : \A k \in Bad : j <= k
  <2> HIDE DEF Bad
  <2>1. Bad \subseteq Nat
    BY DEF Bad
  <2> QED BY <1>1, <2>1, LeastNumber
<1>3. j \in Nat
  OBVIOUS
<1>4. CASE j = 0
  <2> DEFINE g == [k \in 0..0 |-> Start(content)]
  <2>1. Rerunning(content, calls, 0, g)
    BY DEF Rerunning
  <2> QED BY <1>4, <2>1
<1>5. CASE j # 0
  <2>1. j - 1 \in Nat /\ j - 1 \notin Bad
    BY <1>2, <1>3, <1>5
  <2>2. PICK f : Rerunning(content, calls, j - 1, f)
    BY <2>1
  <2> DEFINE g == [k \in 0..j |-> IF k < j THEN f[k] ELSE Alone(f[k - 1], calls[k])]
  <2>3. \A k \in 0..j : g[k] = IF k = 0 THEN Start(content) ELSE Alone(g[k - 1], calls[k])
    <3>1. \A k \in 0..(j - 1) : f[k] = IF k = 0 THEN Start(content) ELSE Alone(f[k - 1], calls[k])
      BY <2>2 DEF Rerunning
    <3>2. \A k \in 0..(j - 1) : g[k] = f[k]
      BY <1>3
    <3>3. g[j] = Alone(f[j - 1], calls[j])
      BY <1>3
    <3>4. j - 1 \in 0..(j - 1) /\ g[j - 1] = f[j - 1]
      BY <1>3, <1>5, <3>2
    <3>5. g[j] = Alone(g[j - 1], calls[j])
      BY <3>3, <3>4
    <3>6. ASSUME NEW k \in 0..(j - 1)
          PROVE  g[k] = IF k = 0 THEN Start(content) ELSE Alone(g[k - 1], calls[k])
      <4>1. CASE k = 0
        BY <3>1, <3>2, <4>1
      <4>2. CASE k # 0
        <5>1. k - 1 \in 0..(j - 1)
          BY <1>3, <4>2
        <5>2. g[k] = f[k] /\ g[k - 1] = f[k - 1]
          BY <3>2, <5>1
        <5> HIDE DEF g
        <5> QED BY <3>1, <4>2, <5>2
      <4> QED BY <4>1, <4>2
    <3> HIDE DEF g
    <3> SUFFICES ASSUME NEW k \in 0..j
                 PROVE  g[k] = IF k = 0 THEN Start(content) ELSE Alone(g[k - 1], calls[k])
      OBVIOUS
    <3>7. CASE k = j
      BY <1>5, <3>5, <3>7
    <3>8. CASE k # j
      <4>1. k \in 0..(j - 1)
        BY <1>3, <3>8
      <4> QED BY <3>6, <4>1
    <3> QED BY <3>7, <3>8
  <2>4. g = [k \in 0..j |-> g[k]]
    OBVIOUS
  <2> HIDE DEF g
  <2>5. Rerunning(content, calls, j, g)
    BY <2>3, <2>4 DEF Rerunning
  <2> QED BY <2>5
<1> QED BY <1>4, <1>5

LEMMA RerunIs ==
    ASSUME NEW content, NEW calls, Len(calls) \in Nat
    PROVE  \E g : Rerunning(content, calls, Len(calls), g) /\ Rerun(content, calls) = g[Len(calls)]
<1>1. PICK n : n = Len(calls)
  OBVIOUS
<1> DEFINE Rec(g) == g = [k \in 0..n |-> IF k = 0 THEN Start(content) ELSE Alone(g[k - 1], calls[k])]
<1>2. \A g : Rerunning(content, calls, n, g) <=> Rec(g)
  BY DEF Rerunning
<1>3. \E g : Rec(g)
  <2>1. \E g : Rerunning(content, calls, n, g)
    BY <1>1, RerunningExists
  <2> HIDE DEF Rec
  <2> QED BY <1>2, <2>1
<1>4. PICK h : h = CHOOSE g : Rec(g)
  OBVIOUS
<1>5. Rerun(content, calls) = h[n]
  BY <1>1, <1>4 DEF Rerun
<1>6. Rec(h)
  <2> HIDE DEF Rec
  <2> QED BY <1>3, <1>4
<1>7. Rerunning(content, calls, n, h)
  BY <1>2, <1>6
<1> HIDE DEF Rec
<1> QED BY <1>1, <1>5, <1>7

LEMMA RerunBoth ==
    ASSUME NEW content, NEW n \in Nat, NEW s, NEW t, \A k \in 1..n : s[k] = t[k],
           NEW g, NEW h, NEW o \in Nat, n <= o, Rerunning(content, s, n, g), Rerunning(content, t, o, h)
    PROVE  g[n] = h[n]
<1>1. \A k \in 0..n : g[k] = IF k = 0 THEN Start(content) ELSE Alone(g[k - 1], s[k])
  BY DEF Rerunning
<1>2. \A k \in 0..o : h[k] = IF k = 0 THEN Start(content) ELSE Alone(h[k - 1], t[k])
  BY DEF Rerunning
<1>3. PICK Good : Good = {k \in 0..n : g[k] = h[k]}
  OBVIOUS
<1>4. 0 \in Good
  <2>1. 0 \in 0..n /\ 0 \in 0..o
    OBVIOUS
  <2>2. g[0] = Start(content) /\ h[0] = Start(content)
    BY <1>1, <1>2, <2>1
  <2> QED BY <1>3, <2>1, <2>2
<1>5. ASSUME NEW k \in 0..(n - 1), k \in Good PROVE k + 1 \in Good
  <2>1. PICK j : j = k + 1
    OBVIOUS
  <2>2. j \in 1..n /\ j \in 0..n /\ j \in 0..o /\ j - 1 = k /\ j # 0
    BY <2>1
  <2>3. g[j] = Alone(g[j - 1], s[j]) /\ h[j] = Alone(h[j - 1], t[j])
    BY <1>1, <1>2, <2>2
  <2>4. g[j - 1] = h[j - 1] /\ s[j] = t[j]
    BY <1>3, <1>5, <2>2
  <2>5. g[j] = h[j]
    BY <2>3, <2>4
  <2> QED BY <1>3, <2>1, <2>2, <2>5
<1>6. \A k \in 0..n : k \in Good
  BY <1>4, <1>5, UpToAll
<1>7. n \in 0..n
  OBVIOUS
<1> QED BY <1>3, <1>6, <1>7

LEMMA RerunNone ==
    ASSUME NEW content
    PROVE  Rerun(content, <<>>) = Start(content)
<1>1. PICK e : e = <<>>
  OBVIOUS
<1>2. Len(e) = 0
  BY <1>1
<1>3. PICK g : Rerunning(content, e, Len(e), g) /\ Rerun(content, e) = g[Len(e)]
  BY <1>2, RerunIs
<1>4. \A k \in 0..0 : g[k] = IF k = 0 THEN Start(content) ELSE Alone(g[k - 1], e[k])
  BY <1>2, <1>3 DEF Rerunning
<1>5. 0 \in 0..0
  OBVIOUS
<1> QED BY <1>1, <1>2, <1>3, <1>4, <1>5

LEMMA RerunMore ==
    ASSUME NEW content, NEW s, IsSeq(s), NEW x
    PROVE  Rerun(content, Append(s, x)) = Alone(Rerun(content, s), x)
<1>1. PICK t, n : t = Append(s, x) /\ n = Len(s)
  OBVIOUS
<1>2. n \in Nat /\ Len(t) = n + 1 /\ t[n + 1] = x /\ \A k \in 1..n : t[k] = s[k]
  BY <1>1, SeqAppend
<1>3. PICK g : Rerunning(content, s, n, g) /\ Rerun(content, s) = g[n]
  BY <1>1, <1>2, RerunIs
<1>4. PICK o : o = n + 1
  OBVIOUS
<1>5. o \in Nat /\ n <= o /\ o \in 0..o /\ o # 0 /\ o - 1 = n /\ Len(t) = o
  BY <1>2, <1>4
<1>6. PICK h : Rerunning(content, t, o, h) /\ Rerun(content, t) = h[o]
  BY <1>5, RerunIs
<1>7. g[n] = h[n]
  <2>1. \A k \in 1..n : s[k] = t[k]
    BY <1>2
  <2> QED BY <1>2, <1>3, <1>5, <1>6, <2>1, RerunBoth
<1>8. h[o] = Alone(h[o - 1], t[o])
  BY <1>5, <1>6 DEF Rerunning
<1> QED BY <1>1, <1>2, <1>3, <1>4, <1>5, <1>6, <1>7, <1>8

-----------------------------------------------------------------------------
(* The answer replays.                                                      *)

\* The windows end where the run of input i has come to or before; it has done the same as
\* a run of the same calls on what they show, or on more of the input.
Shown(m, i, reads, calls) ==
    /\ IsSeq(reads) /\ m.content = i /\ m.position \in 0..Len(i)
    /\ Consumed(i, reads) \in 0..m.position
    /\ \A n \in Consumed(i, reads)..Len(i) :
          IsOwn(Rerun(UpTo(i, n), calls)) /\ Cuts(m, Rerun(UpTo(i, n), calls), n)

LEMMA ShownMore ==
    ASSUME NEW i \in Seq(Bytes), NEW m, IsOwn(m), NEW reads, NEW calls, IsSeq(calls), Shown(m, i, reads, calls),
           NEW call, CallOK(call), Recorded(call), NEW x, x = Alone(m, call), ~x.peeked,
           NEW more, Shows(reads, more, i, m, x, call.op)
    PROVE  Shown(x, i, more, Append(calls, call))
<1>1. PICK c : c = Consumed(i, reads)
  OBVIOUS
<1>2. /\ IsSeq(reads) /\ m.content = i /\ m.position \in 0..Len(i) /\ c \in 0..m.position
      /\ \A n \in c..Len(i) : IsOwn(Rerun(UpTo(i, n), calls)) /\ Cuts(m, Rerun(UpTo(i, n), calls), n)
  BY <1>1 DEF Shown
<1>3. Len(i) \in Nat /\ m.position \in Nat /\ c \in Nat /\ x.position \in m.position..Len(i) /\ x.position \in Nat
  BY <1>2, LenProperties DEF Shows
<1>4. x.content = i
  BY <1>2, AloneKeeps DEF Keeps
<1>5. ASSUME NEW n \in c..Len(i), Enough(m, x, n) \/ (call.op = "getline" /\ LineEnds(m, x, n))
      PROVE  /\ IsOwn(Rerun(UpTo(i, n), Append(calls, call)))
             /\ Cuts(x, Rerun(UpTo(i, n), Append(calls, call)), n)
  <2>1. PICK u, w : u = UpTo(i, n) /\ w = Rerun(u, calls)
    OBVIOUS
  <2>2. IsOwn(w) /\ Cuts(m, w, n)
    BY <1>2, <2>1
  <2>3. Rerun(u, Append(calls, call)) = Alone(w, call)
    BY <2>1, RerunMore
  <2>4. Stands(m, n)
    BY <1>2, <1>3 DEF Stands
  <2>5. IsOwn(Alone(w, call))
    BY <2>2, AloneKeeps
  <2>6. Cuts(Alone(m, call), Alone(w, call), n)
    BY <1>5, <2>2, <2>4, AloneCuts
  <2> QED BY <2>1, <2>3, <2>5, <2>6
<1>6. CASE more = reads /\ x.position = m.position
  <2>1. \A n \in c..Len(i) : Enough(m, x, n)
    BY <1>6 DEF Enough
  <2>2. c \in 0..x.position /\ x.position \in 0..Len(i)
    BY <1>2, <1>3, <1>6
  <2>3. Consumed(i, more) = c /\ IsSeq(more)
    BY <1>1, <1>2, <1>6
  <2> QED BY <1>4, <1>5, <2>1, <2>2, <2>3 DEF Shown
<1>7. CASE \E read, e :
              /\ more = Append(reads, read) /\ e \in m.position..x.position
              /\ \A d \in 0..m.position : Window(i, read, d) = e
              /\ e = x.position \/ (call.op = "getline" /\ LineEnds(m, x, e))
  <2>1. PICK read, e :
              /\ more = Append(reads, read) /\ e \in m.position..x.position
              /\ \A d \in 0..m.position : Window(i, read, d) = e
              /\ e = x.position \/ (call.op = "getline" /\ LineEnds(m, x, e))
    BY <1>7
  <2>2. Consumed(i, more) = e
    <3>1. Consumed(i, Append(reads, read)) = Window(i, read, Consumed(i, reads))
      BY <1>2, ConsumedMore
    <3> QED BY <1>1, <1>2, <2>1, <3>1
  <2>3. IsSeq(more)
    BY <1>2, <2>1, SeqAppend
  <2>4. e \in 0..x.position /\ x.position \in 0..Len(i) /\ e \in Nat /\ e >= c
    BY <1>2, <1>3, <2>1
  <2>5. ASSUME NEW n \in e..Len(i)
        PROVE  n \in c..Len(i) /\ (Enough(m, x, n) \/ (call.op = "getline" /\ LineEnds(m, x, n)))
    <3>1. n \in c..Len(i) /\ n \in Nat
      BY <1>3, <2>4
    <3>2. CASE e = x.position
      BY <1>3, <2>4, <3>1, <3>2 DEF Enough
    <3>3. CASE call.op = "getline" /\ LineEnds(m, x, e) /\ n = e
      BY <3>1, <3>3
    <3>4. CASE call.op = "getline" /\ LineEnds(m, x, e) /\ n # e
      <4>1. x.position = e + 1
        BY <3>4 DEF LineEnds
      <4>2. x.position <= n
        BY <2>4, <3>1, <3>4, <4>1
      <4> QED BY <3>1, <4>2 DEF Enough
    <3> QED BY <2>1, <3>2, <3>3, <3>4
  <2>6. \A n \in e..Len(i) : /\ IsOwn(Rerun(UpTo(i, n), Append(calls, call)))
                             /\ Cuts(x, Rerun(UpTo(i, n), Append(calls, call)), n)
    BY <1>5, <2>5
  <2> QED BY <1>4, <2>2, <2>3, <2>4, <2>6 DEF Shown
<1> QED BY <1>6, <1>7 DEF Shows

LEMMA ShownFirst ==
    ASSUME NEW i \in Seq(Bytes)
    PROVE  Shown(Start(i), i, <<>>, <<>>)
<1>1. Len(i) \in Nat
  BY LenProperties
<1>2. \A c : /\ DOMAIN Start(c) = OwnFields /\ Start(c).saw = <<>> /\ Start(c).position = 0
             /\ Start(c).object = Text(<<>>) /\ Start(c).content = c
             /\ Start(c).memory = [place \in Places |-> [cell \in 1..Cells |-> None]]
  BY DEF Start, OwnFields
<1>3. \A c : IsOwn(Start(c))
  BY <1>2, SeqEmpty DEF IsOwn, IsMemory
<1>4. Consumed(i, <<>>) = 0 /\ \A c : Rerun(c, <<>>) = Start(c)
  BY ConsumedNone, RerunNone
<1>5. ASSUME NEW n \in 0..Len(i) PROVE Cuts(Start(i), Start(UpTo(i, n)), n)
  BY <1>1, <1>2 DEF Cuts, Sees
<1> QED BY <1>1, <1>2, <1>3, <1>4, <1>5, SeqEmpty DEF Shown

\* As long as the program reads stdin with calls that are recorded.
AllRecorded(calls) == \A k \in 1..Len(calls) : Recorded(calls[k])

\* The windows of every path.
ReplaysInv ==
    stream = "stdin" /\ AllRecorded(program) =>
        \A p \in paths : \A i \in Honest(p) : ~own[i].peeked => Shown(own[i], i, p.reads, program)

LEMMA RecordedMore ==
    ASSUME NEW T, NEW calls \in Seq(T), NEW call \in T, AllRecorded(Append(calls, call))
    PROVE  AllRecorded(calls) /\ Recorded(call)
<1>1. PICK n, s : n = Len(calls) /\ s = Append(calls, call)
  OBVIOUS
<1>2. n \in Nat /\ Len(s) = n + 1 /\ s[n + 1] = call /\ \A k \in 1..n : s[k] = calls[k]
  BY <1>1, AppendProperties, LenProperties
<1>3. \A k \in 1..(n + 1) : Recorded(s[k])
  BY <1>1, <1>2 DEF AllRecorded
<1>4. n + 1 \in 1..(n + 1) /\ \A k \in 1..n : k \in 1..(n + 1)
  BY <1>2
<1>5. Recorded(call)
  BY <1>2, <1>3, <1>4
<1>6. \A k \in 1..n : Recorded(calls[k])
  BY <1>2, <1>3, <1>4
<1> QED BY <1>1, <1>5, <1>6 DEF AllRecorded

LEMMA CallReplays ==
    ASSUME FaithInv, ReplaysInv, NEW call \in Calls, program' = Append(program, call), stream' = stream,
           own' = [i \in Inputs |-> Alone(own[i], call)],
           strayed' = strayed \cup UNION {p.cond : p \in {q \in paths : Strays(q, call)}},
           NEW M, paths' = UNION {M[p] : p \in paths}, \A p \in paths : Divides(p, M[p]),
           stream = "stdin" /\ Recorded(call) => \A p \in paths : Tells(p, M[p], call)
    PROVE  ReplaysInv'
<1>1. program \in Seq(Calls) /\ CallOK(call)
  BY StreamAssumption DEF FaithInv, StreamsInv
<1>2. SUFFICES ASSUME stream' = "stdin", AllRecorded(program')
               PROVE  \A q \in paths' : \A i \in Honest(q)' :
                         ~own'[i].peeked => Shown(own'[i], i, q.reads, program')
  BY DEF ReplaysInv
<1>3. stream = "stdin" /\ AllRecorded(program) /\ Recorded(call)
  BY <1>1, <1>2, RecordedMore
<1>4. ASSUME NEW q \in paths', NEW i \in q.cond, ~q.noted, i \notin strayed', ~own'[i].peeked
      PROVE  Shown(own'[i], i, q.reads, program')
  <2>1. PICK p \in paths : q \in M[p]
    OBVIOUS
  <2>2. q.cond \subseteq p.cond /\ Minds(p, q) /\ p.cond \subseteq Inputs
    BY <2>1 DEF Divides, FaithInv
  <2>3. i \in p.cond /\ i \in Inputs /\ ~p.noted
    BY <1>4, <2>2 DEF Minds
  <2>4. i \notin strayed /\ ~Strays(p, call)
    <3>1. Strays(p, call) => p.cond \subseteq UNION {r.cond : r \in {o \in paths : Strays(o, call)}}
      BY Zenon
    <3> QED BY <1>4, <2>3, <3>1
  <2>5. i \in Honest(p)
    BY <2>3, <2>4 DEF Honest
  <2>6. PICK m, x : m = own[i] /\ x = Alone(m, call)
    OBVIOUS
  <2>7. own'[i] = x /\ IsOwn(m) /\ Agrees(p, i, m)
    BY <2>3, <2>5, <2>6 DEF FaithInv
  <2>8. ~x.peeked /\ ~m.peeked
    <3>1. Keeps(m, x)
      BY <1>1, <1>3, <2>6, <2>7, AloneKeeps
    <3> QED BY <1>4, <2>7, <3>1 DEF Keeps
  <2>9. Shown(m, i, p.reads, program)
    BY <1>3, <2>5, <2>6, <2>8 DEF ReplaysInv
  <2>10. m.content = i
    BY <2>9 DEF Shown
  <2>11. Shows(p.reads, q.reads, i, m, x, call.op)
    BY <1>3, <1>4, <2>1, <2>4, <2>6, <2>7, <2>10 DEF Tells
  <2>12. i \in Seq(Bytes) /\ IsSeq(program)
    <3>1. i \in Seq(Bytes)
      BY <2>3, StreamAssumption
    <3>2. program \in Seq(ToSet(program))
      <4>1. PICK n : n = Len(program)
        OBVIOUS
      <4>2. n \in Nat /\ DOMAIN program = 1..n /\ program = [k \in 1..n |-> program[k]]
        BY <1>1, <4>1, LenProperties
      <4>3. \A k \in 1..n : program[k] \in ToSet(program)
        BY <4>2 DEF ToSet
      <4> QED BY <4>2, <4>3
    <3> QED BY <3>1, <3>2 DEF IsSeq
  <2>13. PICK reads, more : reads = p.reads /\ more = q.reads
    OBVIOUS
  <2>14. Shown(x, i, more, Append(program, call))
    <3>1. Shown(m, i, reads, program)
      BY <2>9, <2>13
    <3>2. Shows(reads, more, i, m, x, call.op)
      BY <2>11, <2>13
    <3> QED BY <1>1, <1>3, <2>6, <2>7, <2>8, <2>12, <3>1, <3>2, ShownMore
  <2> QED BY <2>7, <2>13, <2>14
<1> QED BY <1>4 DEF Honest

LEMMA ModelsTell ==
    ASSUME stream = "stdin", NEW p, IsPath(p), NEW call, CallOK(call), Recorded(call), NEW undecided
    PROVE  Tells(p, Models(p, call, undecided), call)
<1>1. CASE call.op \in {"getchar", "read", "token", "number", "scanf"}
  BY <1>1, ModelsAre, OthersTell
<1>2. CASE call.op \in {"gets", "getline"}
  BY <1>2, ModelsAre, LinesTell
<1>3. CASE call.op = "fgets"
  <2>1. call.size \in Int
    BY <1>3 DEF CallOK
  <2> QED BY <1>3, <2>1, ModelsAre, LinesTell
<1> QED BY <1>1, <1>2, <1>3 DEF Recorded

LEMMA NextReplays ==
    ASSUME FaithInv, ReplaysInv, Next
    PROVE  ReplaysInv'
<1>1. PICK call \in Calls, undecided \in BOOLEAN : Calling(call, undecided)
  BY NextCalls
<1>2. CallOK(call) /\ \A p \in paths : IsPath(p)
  BY StreamAssumption DEF FaithInv, StreamsInv
<1> DEFINE M == [p \in paths |-> Models(p, call, undecided)]
<1>3. \A p \in paths : Divides(p, M[p])
  BY <1>1, <1>2, ModelsFair DEF Calling, Fair
<1>4. stream = "stdin" /\ Recorded(call) => \A p \in paths : Tells(p, M[p], call)
  BY <1>2, ModelsTell
<1>5. /\ program' = Append(program, call) /\ stream' = stream /\ paths' = UNION {M[p] : p \in paths}
      /\ own' = [i \in Inputs |-> Alone(own[i], call)]
      /\ strayed' = strayed \cup UNION {p.cond : p \in {q \in paths : Strays(q, call)}}
  BY <1>1 DEF Calling
<1> HIDE DEF M
<1> QED BY <1>3, <1>4, <1>5, CallReplays

LEMMA InitReplays ==
    ASSUME Init
    PROVE  ReplaysInv
<1>1. ASSUME NEW p \in paths, NEW i \in Honest(p) PROVE Shown(own[i], i, p.reads, program)
  <2>1. i \in Inputs /\ own[i] = Start(i) /\ p.reads = <<>> /\ program = <<>>
    BY DEF Init, Honest
  <2>2. i \in Seq(Bytes)
    BY <2>1, StreamAssumption
  <2> QED BY <2>1, <2>2, ShownFirst
<1> QED BY <1>1 DEF ReplaysInv

LEMMA ReplaysImplies ==
    ASSUME FaithInv, ReplaysInv
    PROVE  AnswerReplays
<1>1. SUFFICES ASSUME stream = "stdin", AllRecorded(program), NEW p \in paths, NEW i \in Honest(p), ~own[i].peeked
               PROVE  LET run == Replay(Answer(p, i))
                      IN run.saw = p.data[i].saw /\ run.memory = p.data[i].memory /\ run.object = p.data[i].object
  BY DEF AnswerReplays, AllRecorded
<1>2. PICK m, c, run : m = own[i] /\ c = Consumed(i, p.reads) /\ run = Rerun(UpTo(i, c), program)
  OBVIOUS
<1>3. Replay(Answer(p, i)) = run
  BY <1>2 DEF Replay, Rerun, Answer
<1>4. Shown(m, i, p.reads, program)
  BY <1>1, <1>2 DEF ReplaysInv
<1>5. Cuts(m, run, c)
  <2>1. c \in 0..m.position /\ m.position \in 0..Len(i) /\ Len(i) \in Nat
    <3>1. i \in Seq(Bytes)
      BY StreamAssumption DEF FaithInv, Honest
    <3> QED BY <1>2, <1>4, <3>1, LenProperties DEF Shown
  <2>2. c \in c..Len(i)
    BY <2>1
  <2> QED BY <1>2, <1>4, <2>2 DEF Shown
<1>6. Agrees(p, i, m)
  BY <1>1, <1>2 DEF FaithInv
<1> QED BY <1>3, <1>5, <1>6 DEF Cuts, Agrees, Sees

\* Reads are cut off behind the last byte the windows show, and yet: a program that reads
\* standard input with calls that are recorded, and left no byte it had looked at, sees on
\* what the windows show of an input what the path of that input showed it on all of it.
THEOREM AlwaysAnswerReplays == Spec => []AnswerReplays
<1>1. Init => FaithInv /\ ReplaysInv
  BY InitFollows, InitReplays
<1>2. FaithInv /\ ReplaysInv /\ [Next]_vars => FaithInv' /\ ReplaysInv'
  <2> SUFFICES ASSUME FaithInv, ReplaysInv, [Next]_vars PROVE FaithInv' /\ ReplaysInv'
    OBVIOUS
  <2>1. CASE Next
    BY <2>1, NextFollows, NextReplays
  <2>2. CASE UNCHANGED vars
    BY <2>2 DEF FaithInv, ReplaysInv, StreamsInv, Exclusive, Honest, vars
  <2> QED BY <2>1, <2>2
<1>3. FaithInv /\ ReplaysInv => AnswerReplays
  BY ReplaysImplies
<1> QED BY <1>1, <1>2, <1>3, PTL DEF Spec
=============================================================================
