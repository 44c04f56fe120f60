---------------------------------- MODULE Inputs ----------------------------------
(***************************************************************************)
(* What an input is, which inputs a request admits, and what of an input   *)
(* an answer holds (symbolic/inputs.py, and the parts of solve.py that     *)
(* describe inputs, block an answer and cut a file).                       *)
(*                                                                         *)
(* An input is the bytes offered: for each argv string its reserved bytes, *)
(* the window of stdin, the window of a file.  A request is a record with  *)
(* the fields length (0: none), maxLength, prefix, suffix and charset      *)
(* ({}: none).                                                             *)
(***************************************************************************)
EXTENDS Naturals, Sequences, FiniteSets, SequencesExt

CONSTANTS
    Bytes,         \* byte values but NUL and newline
    Printable      \* those of Charset.PRINTABLE

NUL == "0"
NEWLINE == "n"

ASSUME InputsAssumption == Printable \subseteq Bytes /\ Bytes \cap {NUL, NEWLINE} = {}

AnyByte == Bytes \cup {NUL, NEWLINE}
None == <<>>

Largest(a, b) == IF a < b THEN b ELSE a

-----------------------------------------------------------------------------
(* What the user asks of an input.                                          *)

\* The position where a string is first `byte`, or none.
FirstAt(s, byte) == {p \in DOMAIN s : s[p] = byte /\ \A q \in 1..(p - 1) : s[q] # byte}
Before(s, byte) == IF FirstAt(s, byte) = {} THEN s
                   ELSE SubSeq(s, 1, (CHOOSE p \in FirstAt(s, byte) : TRUE) - 1)

\* The suffix stands at the end: at `length`, when that is given, else where the string ends.
EndsWith(s, end, r) ==
    IF r.length = 0 THEN IsSuffix(r.suffix, end)
    ELSE r.length <= Len(s) /\ IsSuffix(r.suffix, SubSeq(s, 1, r.length))

InCharset(s, r, other) == r.charset = {} \/ Range(s) \subseteq r.charset \cup {other}

\* Once the string has ended, the rest of the reserved bytes stay NUL.
ArgvAsked(s, r) ==
    /\ \A p \in 1..(Len(s) - 1) : s[p] = NUL => s[p + 1] = NUL
    /\ r.length > 0 => /\ \A p \in 1..r.length : s[p] # NUL
                       /\ r.length < Len(s) => s[r.length + 1] = NUL
    /\ IsPrefix(r.prefix, s)
    /\ r.suffix # None => EndsWith(s, Before(s, NUL), r)
    /\ InCharset(s, r, NUL)

\* Length, prefix and suffix describe the first line.
StdinAsked(s, r) ==
    /\ r.length > 0 => /\ \A p \in 1..r.length : s[p] # NEWLINE
                       /\ r.length < Len(s) => s[r.length + 1] = NEWLINE
    /\ IsPrefix(r.prefix, s)
    /\ r.suffix # None => EndsWith(s, Before(s, NEWLINE), r)
    /\ InCharset(s, r, NEWLINE)

\* Symbolic bytes for an argv string: the longest input considered, plus its NUL.
ArgvCapacity(r) == Largest(r.maxLength, Largest(r.length, Len(r.prefix) + Len(r.suffix))) + 1

\* With an argv string among the inputs, stdin is left free but for the charset.
Unhinted(r) == [r EXCEPT !.length = 0, !.prefix = None, !.suffix = None]

\* The inputs of a request for `kinds`: how many argv strings, how many bytes of stdin and of
\* the file.
Offered(kinds, r) ==
    LET argv == {s \in [1..ArgvCapacity(r) -> AnyByte] : ArgvAsked(s, r)}
        stdin == {s \in [1..kinds.stdin -> AnyByte] :
                     kinds.stdin = 0 \/ StdinAsked(s, IF kinds.argv > 0 THEN Unhinted(r) ELSE r)}
    IN [argv: [1..kinds.argv -> argv], stdin: stdin, file: [1..kinds.file -> AnyByte]]

\* _printable_preference.
Printably(i) ==
    /\ \A k \in DOMAIN i.argv : Range(i.argv[k]) \subseteq Printable \cup {NUL}
    /\ Range(i.stdin) \subseteq Printable \cup {NEWLINE}

-----------------------------------------------------------------------------
(* What an answer holds.                                                    *)

\* The bytes consumed: the windows handed out, each cut behind its newline when it is a line.
\* A path is a record: reads, a sequence of windows <<start, end, line>>, and of its file
\* readTo and byLine.
ReadTo(s, reads) ==
    LET Taken(window) ==
            LET newline == {p \in (window[1] + 1)..window[2] : s[p] = NEWLINE}
            IN IF window[3] /\ newline # {} THEN CHOOSE p \in newline : \A q \in newline : p <= q
               ELSE window[2]
        consumed[k \in 0..Len(reads)] ==
            IF k = 0 THEN 0
            ELSE IF reads[k][1] < consumed[k - 1] THEN consumed[k - 1] ELSE Taken(reads[k])
    IN consumed[Len(reads)]

StdinSolution(s, path) == SubSeq(s, 1, ReadTo(s, path.reads))

\* A file read by lines ends with its first line; else it is as long as its bytes before a
\* NUL, or as what was read.
FileContent(s, path) ==
    LET nul == FirstAt(s, NUL)
        end == Largest(Len(Before(s, NUL)), path.readTo)
        newline == {p \in FirstAt(s, NEWLINE) : p <= end}
    IN IF path.byLine /\ newline # {} THEN SubSeq(s, 1, CHOOSE p \in newline : TRUE)
       ELSE SubSeq(s, 1, end)

\* The answer an input gives: the first argv string, stdin as far as it was read, the file.
\* A part that is not among the inputs is <<>> and, in the code, None.
Answer(i, path) ==
    [argv |-> IF i.argv = None THEN None ELSE Before(i.argv[1], NUL),
     stdin |-> StdinSolution(i.stdin, path),
     file |-> FileContent(i.file, path)]

Seen(answer) == <<answer.argv, answer.stdin>>

\* Mutant: the NUL that ends an argv string is not part of the clause.
BlocksLonger(answer, i) ==
    /\ i.argv # None => IsPrefix(answer.argv, i.argv[1])
    /\ IsPrefix(answer.stdin, i.stdin)

\* _block: the clause that excludes an answer excludes everything that starts as it does.
\* Without an argv string and without stdin nothing is left.
Blocks(answer, i) ==
    /\ i.argv # None => Before(i.argv[1], NUL) = answer.argv
    /\ IsPrefix(answer.stdin, i.stdin)

\* What the program is given when an answer is replayed: every argv string is the answer's.
Replayed(answer, kinds, capacity) ==
    LET Padded(s, n) == s \o [p \in 1..(n - Len(s)) |-> NUL]
    IN [argv |-> [k \in 1..kinds.argv |-> Padded(answer.argv, capacity)],
        stdin |-> Padded(answer.stdin, kinds.stdin),
        file |-> Padded(answer.file, kinds.file)]
=============================================================================
