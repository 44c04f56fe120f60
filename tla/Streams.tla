--------------------------------- MODULE Streams ---------------------------------
(***************************************************************************)
(* The library models that read and write streams, symbolic and concrete.  *)
(*                                                                         *)
(* One program makes a sequence of calls on one stream, standard input or  *)
(* a file whose content is an input.  The symbolic side (summaries/        *)
(* symbolic.py) keeps paths: a path has one position for all its inputs,   *)
(* and splits where an input would move it elsewhere.  The concrete side   *)
(* (summaries/concrete.py) runs every input alone.  What a program can see *)
(* is what each call returned, the memory and the std::string it wrote.    *)
(*                                                                         *)
(* Memory is a number of places of Cells cells; a number fills one cell.   *)
(* `sscanf` and `%x` are left out.                                         *)
(***************************************************************************)
EXTENDS Integers, Sequences, FiniteSets, SequencesExt

CONSTANTS
    Bytes, Whitespace, Newline, Signs, Minus,
    Digit,         \* the value of each byte that is a digit
    Nul, Eof, None,
    Small,         \* cxx.SMALL: the longest std::string kept in its object
    Places, Cells, \* memory
    Inputs,        \* contents of the stream, all of one length
    Calls,         \* calls a program may make
    MaxCalls       \* bound: calls of a program

\* parse_directives refuses a width of zero.
DirectiveOK(directive) ==
    /\ directive.kind \in {"space", "literal", "string", "set", "chars", "decimal"}
    /\ directive.width = None \/ directive.width \in Nat \ {0}
    /\ directive.assigns \in BOOLEAN

CallOK(call) ==
    /\ call.op \in {"scanf", "fscanf"} =>
          Len(call.directives) \in Nat /\ \A n \in 1..Len(call.directives) : DirectiveOK(call.directives[n])
    /\ call.op \in {"fgets", "read", "fread"} => call.size \in Int
    /\ call.op = "fseek" => call.whence \in {"set", "cur", "end"} /\ call.offset \in Int
    /\ call.op = "fwrite" => call.bytes \in Seq(Bytes)

ASSUME StreamAssumption ==
    /\ MaxCalls \in Nat /\ Small \in Nat \ {0} /\ Whitespace \subseteq Bytes /\ Newline \in Whitespace
    /\ Inputs \subseteq Seq(Bytes) /\ Inputs # {} /\ \A i, j \in Inputs : Len(i) = Len(j)
    /\ \A i \in Inputs : Len(i) < Cells
    /\ \A call \in Calls : CallOK(call)
    /\ None \notin Nat \cup {Eof}

VARIABLES
    stream,        \* "stdin" or "file"
    program,       \* the calls made so far
    paths,         \* states of the symbolic side
    own,           \* the run of each input alone
    strayed        \* inputs taken through one of the places named in Strays

vars == <<stream, program, paths, own, strayed>>

StdinOnly == {"getchar", "gets", "read", "token", "number", "scanf"}
FileOnly == {"fwrite", "fopen"}

Printed == Bytes \ Whitespace
Digits == DOMAIN Digit

-----------------------------------------------------------------------------
(* Content and memory.                                                      *)

From(s, position) == SubSeq(s, position + 1, Len(s))
UpTo(s, n) == SubSeq(s, 1, n)
Clamped(n, low, high) == IF n < low THEN low ELSE IF n > high THEN high ELSE n

\* How many bytes come before the first one in stops.
Before(s, stops) == LET at == SelectInSeq(s, LAMBDA b : b \in stops)
                    IN IF at = 0 THEN Len(s) ELSE at - 1

\* A std::string: its text, and whether it is kept in the object itself.
Text(text) == [text |-> text, here |-> Len(text) <= Small]

Put(memory, place, cells) ==
    [memory EXCEPT ![place] = [c \in 1..Cells |-> IF c <= Len(cells) THEN cells[c] ELSE @[c]]]

ValueOf(digits) == FoldLeft(LAMBDA value, byte : 10 * value + Digit[byte], 0, digits)
Signed(sign, digits) == IF sign = Minus THEN - ValueOf(digits) ELSE ValueOf(digits)

\* Directives that skip whitespace before they match.
Skips(directive) == directive.kind \in {"space", "string", "decimal"}

\* `in >> n`
NumberDirectives ==
    <<[kind |-> "space", set |-> {}, width |-> None, assigns |-> FALSE],
      [kind |-> "decimal", set |-> {}, width |-> None, assigns |-> TRUE]>>

-----------------------------------------------------------------------------
(* One input alone: summaries/concrete.py.                                  *)

Left(m) == From(m.content, m.position)
Returning(m, value) == [m EXCEPT !.saw = Append(@, value)]
Advanced(m, n) == [m EXCEPT !.position = @ + n]

OwnGetc(m, call) ==
    IF Left(m) = <<>> THEN Returning(m, Eof) ELSE Advanced(Returning(m, Left(m)[1]), 1)

OwnLine(m, n) == UpTo(Left(m), n)
OwnGets(m, call) ==
    LET length == Before(Left(m), {Newline})
        line == OwnLine(m, length)
    IN IF Left(m) = <<>> THEN Returning(m, Nul)
       ELSE Advanced([Returning(m, "buffer") EXCEPT !.memory = Put(@, 1, Append(line, Nul))],
                     length + (IF length < Len(Left(m)) THEN 1 ELSE 0))

OwnFgets(m, call) ==
    LET taken == UpTo(Left(m), Clamped(call.size - 1, 0, Len(Left(m))))
        length == Clamped(Before(taken, {Newline}) + 1, 0, Len(taken))
    IN IF call.size <= 0 \/ Left(m) = <<>> THEN Returning(m, Nul)
       ELSE Advanced([Returning(m, "buffer") EXCEPT !.memory = Put(@, 1, Append(UpTo(taken, length), Nul))],
                     length)

OwnGetline(m, call) ==
    LET length == Before(Left(m), {Newline})
    IN IF Left(m) = <<>> THEN Returning(m, "stream")
       ELSE Advanced([Returning(m, "stream") EXCEPT !.object = Text(OwnLine(m, length))],
                     length + (IF length < Len(Left(m)) THEN 1 ELSE 0))

OwnRead(m, call) ==
    LET taken == UpTo(Left(m), Clamped(call.size, 0, Len(Left(m))))
    IN Advanced([Returning(m, Len(taken) \div call.unit) EXCEPT !.memory = Put(@, 1, taken)], Len(taken))

OwnToken(m, call) ==
    LET blank == Before(Left(m), Printed)
        token == From(Left(m), blank)
        length == Before(token, Whitespace)
    IN Advanced([Returning(m, "stream") EXCEPT !.object = Text(UpTo(token, length))], blank + length)

OwnEof(m, call) == Returning(m, Left(m) = <<>>)
OwnTell(m, call) == Returning(m, m.position)
SeekFrom(call, position, end) ==
    CASE call.whence = "set" -> 0 [] call.whence = "cur" -> position [] call.whence = "end" -> end
OwnSeek(m, call) ==
    [Returning(m, 0) EXCEPT
        !.position = Clamped(SeekFrom(call, m.position, Len(m.content)) + call.offset, 0, Len(m.content))]
OwnWrite(m, call) ==
    LET kept == UpTo(m.content, m.position) \o call.bytes
    IN [Returning(m, Len(call.bytes)) EXCEPT !.content = kept, !.position = Len(kept)]
\* A handle with a position of its own; every later call is on it.
OwnOpen(m, call) == [Returning(m, "stream") EXCEPT !.position = 0]

\* scanning.scan.  A scan goes through the directives until one has ended it.
OwnTakes(scan, directive, n, cells) ==
    [scan EXCEPT !.at = @ + n, !.assigned = IF directive.assigns THEN Append(@, cells) ELSE @]
OwnFails(scan, n, how) == [scan EXCEPT !.at = @ + n, !.ended = how]

OwnRun(scan, directive, within, length) == OwnTakes(scan, directive, length, Append(UpTo(within, length), Nul))
OwnDecimal(scan, directive, within, sign, digits) ==
    IF digits = 0 THEN OwnFails(scan, sign, "match")
    ELSE OwnTakes(scan, directive, sign + digits, <<Signed(within[1], UpTo(From(within, sign), digits))>>)

OwnConverts(scan, directive, within, sign, run) ==
    CASE directive.kind = "space" -> scan
      [] directive.kind # "space" /\ within = <<>> -> OwnFails(scan, 0, "input")
      [] directive.kind = "literal" /\ within # <<>> ->
            IF within[1] \in directive.set THEN [scan EXCEPT !.at = @ + 1] ELSE OwnFails(scan, 0, "match")
      [] directive.kind = "string" /\ within # <<>> -> OwnRun(scan, directive, within, run)
      [] directive.kind = "set" /\ within # <<>> ->
            IF run = 0 THEN OwnFails(scan, 0, "match") ELSE OwnRun(scan, directive, within, run)
      [] directive.kind = "chars" /\ within # <<>> -> OwnTakes(scan, directive, Len(within), within)
      [] directive.kind = "decimal" /\ within # <<>> ->
            OwnDecimal(scan, directive, within, sign, Before(From(within, sign), Bytes \ Digits))

\* `within` is what is left, up to the directive's width.
OwnMatches(scan, directive, within) ==
    OwnConverts(scan, directive, within,
                IF within # <<>> /\ within[1] \in Signs THEN 1 ELSE 0,
                Before(within, IF directive.kind = "string" THEN Whitespace ELSE Bytes \ directive.set))

OwnPlaced(scan, directive, rest) ==
    OwnMatches(scan, directive,
               IF directive.width = None THEN rest ELSE UpTo(rest, Clamped(directive.width, 0, Len(rest))))

OwnSkipsTo(scan, directive, at) == OwnPlaced([scan EXCEPT !.at = at], directive, From(scan.data, at))

OwnDirective(scan, directive) ==
    IF scan.ended # "no" THEN scan
    ELSE OwnSkipsTo(scan, directive,
                    scan.at + (IF Skips(directive) THEN Before(From(scan.data, scan.at), Printed) ELSE 0))

OwnStores(memory, assigned) ==
    [place \in Places |-> IF place \in DOMAIN assigned THEN Put(memory, place, assigned[place])[place]
                          ELSE memory[place]]
OwnScanned(m, scan) ==
    [Advanced(Returning(m, IF scan.ended = "input" /\ scan.assigned = <<>> THEN Eof ELSE Len(scan.assigned)),
              scan.at) EXCEPT
        !.peeked = @ \/ scan.ended = "match",
        !.memory = OwnStores(@, scan.assigned)]
OwnScan(m, directives) ==
    LET after[n \in 0..Len(directives)] ==
            IF n = 0 THEN [data |-> Left(m), at |-> 0, assigned |-> <<>>, ended |-> "no"]
            ELSE OwnDirective(after[n - 1], directives[n])
    IN OwnScanned(m, after[Len(directives)])
OwnScanf(m, call) == OwnScan(m, call.directives)

\* `in >> n` returns the stream.
OwnStream(m) == [m EXCEPT !.saw[Len(m.saw)] = "stream"]
OwnNumber(m, call) == OwnStream(OwnScan(m, NumberDirectives))

-----------------------------------------------------------------------------
(* The symbolic side: summaries/symbolic.py.                                *)
(*                                                                          *)
(* cut: what the path's stream holds was forgotten from its position on     *)
(* (io.unknown_from); noted: the path says so (io.approximations); reads:   *)
(* the windows of stdin handed out (io.stdin_reads).                        *)

OneOf(p) == CHOOSE i \in p.cond : TRUE
Held(p) == Len(p.data[OneOf(p)].content)
Drained(p) == p.position >= Held(p)
Rest(p, i) == From(p.data[i].content, p.position)
At(p, i, n) == p.data[i].content[n + 1]

Narrowed(p, kept) == [p EXCEPT !.cond = kept, !.data = [i \in kept |-> p.data[i]]]
Returns(p, value) == [p EXCEPT !.data = [i \in p.cond |-> Returning(p.data[i], value[i])]]
ReturnsAll(p, value) == Returns(p, [i \in p.cond |-> value])
Writes(p, place, content) ==
    [p EXCEPT !.data = [i \in p.cond |-> [p.data[i] EXCEPT !.memory = Put(@, place, content[i])]]]
Strings(p, object) == [p EXCEPT !.data = [i \in p.cond |-> [p.data[i] EXCEPT !.object = object[i]]]]
Handed(p, first, last, byLine) ==
    IF stream = "stdin" THEN [p EXCEPT !.reads = Append(@, <<first, last, byLine>>)] ELSE p

\* _split: a path for each option some input satisfies.  A path kept because the solver
\* gives up on an option nothing satisfies has no inputs and is left out.
Split(p, options) ==
    {[tag |-> t, path |-> Narrowed(p, options[t])] : t \in {t \in DOMAIN options : options[t] # {}}}

AtEnd(p) == [p EXCEPT !.noted = @ \/ p.cut]
Looked(p) == IF Drained(p) THEN AtEnd(p) ELSE p
Advance(p, n) == [p EXCEPT !.position = @ + n]
Moved(p, position) == [p EXCEPT !.position = position]

\* Mutant: the cut leaves no mark.
TruncatedUnmarked(p) ==
    [p EXCEPT !.data = [i \in p.cond |-> [p.data[i] EXCEPT !.content = UpTo(@, p.position)]]]
Truncated(p) ==
    [p EXCEPT !.cut = TRUE,
              !.data = [i \in p.cond |-> [p.data[i] EXCEPT !.content = UpTo(@, p.position)]]]

\* After a line of length[i] bytes, and the newline behind it if that is not part of it:
\* on from there, if unique_value knows where that is.
Past(p, length, behind, undecided) ==
    IF undecided \/ Cardinality({length[i] : i \in p.cond}) > 1 THEN Truncated(p)
    ELSE LET n == length[OneOf(p)] IN Advance(p, n + Clamped(behind, 0, Held(p) - p.position - n))

Getchar(p, call) ==
    IF Drained(p) THEN {ReturnsAll(AtEnd(p), Eof)}
    ELSE {Handed(Advance(Returns(p, [i \in p.cond |-> At(p, i, p.position)]), 1),
                 p.position, p.position + 1, FALSE)}
Fgetc(p, call) ==
    IF Drained(p) THEN {ReturnsAll(Looked(p), Eof)}
    ELSE {Advance(Returns(p, [i \in p.cond |-> At(p, i, p.position)]), 1)}

\* The line of each input, NUL-terminated, in the caller's buffer.
TakesLine(p, length) ==
    ReturnsAll(Writes(p, 1, [i \in p.cond |-> Append(UpTo(Rest(p, i), length[i]), Nul)]), "buffer")

Gets(p, undecided) ==
    LET length == [i \in p.cond |-> Before(Rest(p, i), {Newline})]
    IN IF Drained(p) THEN {ReturnsAll(AtEnd(p), Nul)}
       ELSE {Past(Handed(TakesLine(p, length), p.position, Held(p), TRUE), length, 1, undecided)}

Fgets(p, size, undecided) ==
    LET most == Clamped(size - 1, 0, Held(p) - p.position)
        length == [i \in p.cond |-> Clamped(Before(UpTo(Rest(p, i), most), {Newline}) + 1, 0, most)]
    IN IF size <= 0 \/ Drained(p) THEN {ReturnsAll(Looked(p), Nul)}
       ELSE {Past(Handed(TakesLine(p, length), p.position, p.position + most, TRUE), length, 0, undecided)}

\* A line is kept in the object or on the heap: the path splits where both can be.
Kept(all, short) == IF short THEN Clamped(Small, 0, all) ELSE all
GetlineOn(p, all, length, short, undecided) ==
    Past(Handed(Strings(ReturnsAll(p, "stream"),
                        [i \in p.cond |-> [text |-> UpTo(Rest(p, i), Clamped(length[i], 0, Kept(all, short))),
                                           here |-> short]]),
                p.position, p.position + Kept(all, short), TRUE),
         length, 1, undecided)
Getline(p, undecided) ==
    LET all == Held(p) - p.position
        length == [i \in p.cond |-> Before(Rest(p, i), {Newline})]
        options == IF all <= Small THEN [short \in {TRUE} |-> p.cond]
                   ELSE [short \in BOOLEAN |-> {i \in p.cond : short = (length[i] <= Small)}]
    IN IF Drained(p) THEN {ReturnsAll(Looked(p), "stream")}
       ELSE {GetlineOn(option.path, all, length, option.tag, undecided) : option \in Split(p, options)}

Copied(p, taken) == Writes(p, 1, [i \in p.cond |-> UpTo(Rest(p, i), taken)])

\* Mutant: the position moves by what was asked for.
BlockWanted(p, call) ==
    LET taken == Clamped(call.size, 0, Held(p) - p.position)
    IN Advance(ReturnsAll(Copied(p, taken), taken \div call.unit), call.size)

Block(p, call) ==
    LET taken == Clamped(call.size, 0, Held(p) - p.position)
    IN Advance(ReturnsAll(Copied(p, taken), taken \div call.unit), taken)
Read(p, call) == {Handed(Block(Looked(p), call), p.position, Block(p, call).position, FALSE)}
Fread(p, call) == {Block(Looked(p), call)}

\* `in >> s`: none or one blank is skipped.
TokenOn(p, first, last) ==
    Handed(Moved(Strings(ReturnsAll(p, "stream"),
                         [i \in p.cond |-> Text(SubSeq(p.data[i].content, first + 1, last))]), last),
           first, last, FALSE)
Token(p, call) ==
    LET all == Held(p) - p.position
        blank(i, n) == At(p, i, p.position + n) \in Whitespace
        Is(i, t) == /\ t.skipped = 1 => blank(i, 0)
                    /\ \A n \in 0..(t.length - 1) : ~blank(i, t.skipped + n)
                    /\ t.skipped + t.length < all => blank(i, t.skipped + t.length)
        tags == {t \in [skipped : 0..1, length : 1..all] : t.skipped + t.length <= all}
        from(t) == p.position + t.skipped
    IN IF Drained(p) THEN {ReturnsAll(AtEnd(p), "stream")}
       ELSE {TokenOn(option.path, from(option.tag), from(option.tag) + option.tag.length) :
                option \in Split(p, [t \in tags |-> {i \in p.cond : Is(i, t)}])}

Feof(p, call) == {ReturnsAll(Looked(p), Drained(p))}
Ftell(p, call) == {ReturnsAll(Looked(p), p.position)}
Fseek(p, call) ==
    LET target == Clamped(SeekFrom(call, p.position, Held(p)) + call.offset, 0, Held(p))
    IN {Moved(ReturnsAll(Looked(p), 0), target)}
Fwrite(p, call) ==
    LET kept == [i \in p.cond |-> [p.data[i] EXCEPT !.content = UpTo(@, p.position) \o call.bytes]]
    IN {Moved(ReturnsAll([p EXCEPT !.data = kept], Len(call.bytes)), p.position + Len(call.bytes))}
\* The handle the file has, moved back to the start.
Fopen(p, call) == {Moved(ReturnsAll(p, "stream"), 0)}

-----------------------------------------------------------------------------
(* _Scanner.  A scan is a path on its way through the directives: how many  *)
(* conversions it has assigned, and what it will return once it has ended.  *)

Opened(p) == [p EXCEPT !.scan = [assigned |-> 0, result |-> None]]
Ended(s, result) == [s EXCEPT !.scan.result = result]
Failed(s) == Ended(s, s.scan.assigned)
Store(s, directive, content) ==
    IF directive.assigns THEN [Writes(s, s.scan.assigned + 1, content) EXCEPT !.scan.assigned = @ + 1]
    ELSE s
Longest(s, directive) ==
    LET all == Held(s) - s.position
    IN IF directive.width = None THEN all ELSE Clamped(directive.width, 0, all)

\* Mutant: a blank may be skipped or not.
SkipSpaceOrNot(s) ==
    LET blank(i, n) == s.position + n < Held(s) /\ At(s, i, s.position + n) \in Whitespace
        options == [skipped \in {0, 1} |->
                       {i \in s.cond : skipped = 0 \/ (blank(i, 0) /\ ~blank(i, 1))}]
    IN IF Drained(s) THEN {s} ELSE {Advance(option.path, option.tag) : option \in Split(s, options)}

SkipSpace(s) ==
    LET blank(i, n) == s.position + n < Held(s) /\ At(s, i, s.position + n) \in Whitespace
        options == [skipped \in {0, 1} |->
                       {i \in s.cond : IF skipped = 0 THEN ~blank(i, 0) ELSE blank(i, 0) /\ ~blank(i, 1)}]
    IN IF Drained(s) THEN {s} ELSE {Advance(option.path, option.tag) : option \in Split(s, options)}

Literal(s, directive) ==
    LET matching == {i \in s.cond : At(s, i, s.position) \in directive.set}
        options == [matched \in BOOLEAN |-> IF matched THEN matching ELSE s.cond \ matching]
    IN {IF option.tag THEN Advance(option.path, 1) ELSE Failed(option.path) : option \in Split(s, options)}

\* %s and %[...]: a run of bytes, ended by another byte, the width or the end.  It cannot be
\* empty for %s, whose blanks are skipped.
RunOn(s, directive, length) ==
    IF length = 0 THEN Failed(s)
    ELSE Advance(Store(s, directive, [i \in s.cond |-> Append(UpTo(Rest(s, i), length), Nul)]), length)
Run(s, directive) ==
    LET fits == IF directive.kind = "string" THEN Printed ELSE directive.set
        Is(i, length) ==
            /\ \A n \in 0..(length - 1) : At(s, i, s.position + n) \in fits
            /\ length < Longest(s, directive) => At(s, i, s.position + length) \notin fits
        options == [length \in 0..Longest(s, directive) |-> {i \in s.cond : Is(i, length)}]
    IN {RunOn(option.path, directive, option.tag) : option \in Split(s, options)}

Characters(s, directive) ==
    LET taken == Longest(s, directive)
    IN {Advance(Store(s, directive, [i \in s.cond |-> UpTo(Rest(s, i), taken)]), taken)}

\* A sign that is read stays read when no digits follow it.
DecimalOn(s, directive, t) ==
    LET value(i) == Signed(At(s, i, s.position), UpTo(From(Rest(s, i), t.signed), t.count))
        read == IF t.count = 0 THEN Failed(s) ELSE Store(s, directive, [i \in s.cond |-> <<value(i)>>])
    IN Advance(read, t.signed + t.count)
Decimal(s, directive) ==
    LET limit == Longest(s, directive)
        digit(i, n) == At(s, i, s.position + n) \in Digits
        Is(i, t) ==
            /\ (t.signed = 1) = (At(s, i, s.position) \in Signs)
            /\ \A n \in t.signed..(t.signed + t.count - 1) : digit(i, n)
            /\ t.signed + t.count < limit => ~digit(i, t.signed + t.count)
        tags == {t \in [signed : 0..1, count : 0..limit] : t.signed + t.count <= limit}
    IN {DecimalOn(option.path, directive, option.tag) :
           option \in Split(s, [t \in tags |-> {i \in s.cond : Is(i, t)}])}

Convert(s, directive) ==
    CASE Drained(s) -> {Ended(s, IF s.scan.assigned = 0 THEN Eof ELSE s.scan.assigned)}
      [] directive.kind = "literal" /\ ~Drained(s) -> Literal(s, directive)
      [] directive.kind \in {"string", "set"} /\ ~Drained(s) -> Run(s, directive)
      [] directive.kind = "chars" /\ ~Drained(s) -> Characters(s, directive)
      [] directive.kind = "decimal" /\ ~Drained(s) -> Decimal(s, directive)

Step(s, directive) ==
    LET branches == IF Skips(directive) THEN SkipSpace(s) ELSE {s}
    IN IF s.scan.result # None THEN {s}
       ELSE IF directive.kind = "space" THEN branches
       ELSE UNION {Convert(branch, directive) : branch \in branches}

Finish(from, s, returned) ==
    LET result == IF s.scan.result = None THEN s.scan.assigned ELSE s.scan.result
        finished == ReturnsAll([s EXCEPT !.scan = None], IF returned = "count" THEN result ELSE returned)
    IN IF s.position > from THEN Handed(finished, from, s.position, FALSE) ELSE finished

Scan(p, directives, returned) ==
    LET after[n \in 0..Len(directives)] ==
            IF n = 0 THEN {Opened(p)} ELSE UNION {Step(s, directives[n]) : s \in after[n - 1]}
    IN {Finish(p.position, s, returned) : s \in after[Len(directives)]}

Scanf(p, call) == Scan(p, call.directives, "count")
Fscanf(p, call) == Scan(Looked(p), call.directives, "count")
Number(p, call) == Scan(p, NumberDirectives, "stream")

-----------------------------------------------------------------------------
(* A program.                                                               *)

Start(content) ==
    [content |-> content, position |-> 0, saw |-> <<>>, object |-> Text(<<>>), peeked |-> FALSE,
     memory |-> [place \in Places |-> [cell \in 1..Cells |-> None]]]
Symbolic(content) == [content |-> content, saw |-> <<>>, object |-> Text(<<>>), memory |-> Start(content).memory]

Init ==
    /\ stream \in {"stdin", "file"}
    /\ program = <<>>
    /\ paths = {[cond |-> Inputs, position |-> 0, cut |-> FALSE, noted |-> FALSE, reads |-> <<>>,
                 scan |-> None, data |-> [i \in Inputs |-> Symbolic(i)]]}
    /\ own = [i \in Inputs |-> Start(i)]
    /\ strayed = {}

\* Where the two sides are known to differ without a word: the scanner never asks whether
\* the end it meets is a real one, a file opened again is still cut short, and `in >> s`
\* at the end clears the string only in the interpreter.  (They also differ for a program
\* that goes on with the handle of an earlier fopen, which there is none of here: opened
\* again, a file gets a new handle in the interpreter, with a position of its own, and
\* its old one in the symbolic model.)
Strays(p, call) ==
    \/ p.cut /\ call.op \in {"scanf", "number", "fopen"}
    \/ Drained(p) /\ call.op = "token"

Alone(m, call) ==
    CASE call.op \in {"getchar", "fgetc"} -> OwnGetc(m, call)
      [] call.op = "gets" -> OwnGets(m, call)
      [] call.op = "fgets" -> OwnFgets(m, call)
      [] call.op = "getline" -> OwnGetline(m, call)
      [] call.op \in {"read", "fread"} -> OwnRead(m, call)
      [] call.op = "token" -> OwnToken(m, call)
      [] call.op = "number" -> OwnNumber(m, call)
      [] call.op \in {"scanf", "fscanf"} -> OwnScanf(m, call)
      [] call.op = "feof" -> OwnEof(m, call)
      [] call.op = "ftell" -> OwnTell(m, call)
      [] call.op = "fseek" -> OwnSeek(m, call)
      [] call.op = "fwrite" -> OwnWrite(m, call)
      [] call.op = "fopen" -> OwnOpen(m, call)

Does(op, Model(_, _)) ==
    /\ Len(program) < MaxCalls
    /\ op \in StdinOnly => stream = "stdin"
    /\ op \in FileOnly => stream = "file"
    /\ \E call \in {c \in Calls : c.op = op} :
          /\ program' = Append(program, call)
          /\ paths' = UNION {Model(p, call) : p \in paths}
          /\ own' = [i \in Inputs |-> Alone(own[i], call)]
          /\ strayed' = strayed \cup UNION {p.cond : p \in {q \in paths : Strays(q, call)}}
    /\ UNCHANGED stream

CallsGetchar == Does("getchar", Getchar)
CallsFgetc == Does("fgetc", Fgetc)
CallsGets == \E undecided \in BOOLEAN : Does("gets", LAMBDA p, call : Gets(p, undecided))
CallsFgets == \E undecided \in BOOLEAN : Does("fgets", LAMBDA p, call : Fgets(p, call.size, undecided))
CallsGetline == \E undecided \in BOOLEAN : Does("getline", LAMBDA p, call : Getline(p, undecided))
CallsRead == Does("read", Read)
CallsFread == Does("fread", Fread)
CallsToken == Does("token", Token)
CallsNumber == Does("number", Number)
CallsScanf == Does("scanf", Scanf)
CallsFscanf == Does("fscanf", Fscanf)
CallsFeof == Does("feof", Feof)
CallsFtell == Does("ftell", Ftell)
CallsFseek == Does("fseek", Fseek)
CallsFwrite == Does("fwrite", Fwrite)
CallsFopen == Does("fopen", Fopen)

Next ==
    \/ CallsGetchar \/ CallsFgetc \/ CallsGets \/ CallsFgets \/ CallsGetline \/ CallsRead
    \/ CallsFread \/ CallsToken \/ CallsNumber \/ CallsScanf \/ CallsFscanf \/ CallsFeof
    \/ CallsFtell \/ CallsFseek \/ CallsFwrite \/ CallsFopen

Spec == Init /\ [][Next]_vars

-----------------------------------------------------------------------------
(* What comes out as the answer: symbolic/inputs.py, stdin_solution.        *)

\* Mutant: a window that starts where the last one ended is taken for one already seen.
WindowAfter(values, read, consumed) ==
    LET window == SubSeq(values, read[1] + 1, read[2])
    IN IF read[1] <= consumed THEN consumed ELSE read[1] + Len(window)
Window(values, read, consumed) ==
    LET window == SubSeq(values, read[1] + 1, read[2])
        line == Before(window, {Newline})
    IN IF read[1] < consumed THEN consumed
       ELSE read[1] + (IF read[3] /\ line < Len(window) THEN line + 1 ELSE Len(window))
\* How much of input i the windows show.
Consumed(i, reads) ==
    LET upto[n \in 0..Len(reads)] == IF n = 0 THEN 0 ELSE Window(i, reads[n], upto[n - 1])
    IN upto[Len(reads)]
Answer(p, i) == UpTo(i, Consumed(i, p.reads))

-----------------------------------------------------------------------------
(* Properties.                                                              *)

Honest(p) == {i \in p.cond : ~p.noted /\ i \notin strayed}

\* Every path is at a place of its stream, and only a path whose stream was cut says so.
TypeOK ==
    /\ Len(program) <= MaxCalls /\ strayed \subseteq Inputs
    /\ \A p \in paths :
          /\ p.cond \subseteq Inputs /\ p.cond # {} /\ p.scan = None
          /\ DOMAIN p.data = p.cond
          /\ p.position \in 0..Held(p)
          /\ \A i \in p.cond : Len(p.data[i].content) = Held(p) /\ Len(p.data[i].saw) = Len(program)
          /\ p.noted => p.cut

\* What the models let an input's path see is what the interpreter lets the input see alone:
\* the results of all calls, the memory and the string, at the same place of the same
\* content unless the stream was cut, and then nothing more is seen of it without a note.
Faithful ==
    \A p \in paths : \A i \in Honest(p) :
        /\ p.data[i].saw = own[i].saw
        /\ p.data[i].memory = own[i].memory
        /\ p.data[i].object = own[i].object
        /\ ~p.cut => p.position = own[i].position /\ p.data[i].content = own[i].content

OnPaths == UNION {p.cond : p \in paths}
Exclusive == \A p, q \in paths : p # q => p.cond \cap q.cond = {}

\* What is left of the stream has two blanks in a row; or ends in a blank, and `>>` looks for
\* a string.
ManyBlanks(rest) == \E n \in 1..(Len(rest) - 1) : rest[n] \in Whitespace /\ rest[n + 1] \in Whitespace
LosesOnlyBlanks ==
    \A p \in paths : \A i \in p.cond \ OnPaths' :
        \/ ManyBlanks(Rest(p, i))
        \/ Last(program').op = "token" /\ Last(Rest(p, i)) \in Whitespace

\* The options a model splits into exclude each other and leave nothing out (_split): a call
\* leaves each input on one path and on no other, and the skipping of blanks by scanf and
\* `>>` is the only way it loses one.
OnePathEach == [][Exclusive' /\ LosesOnlyBlanks]_vars

\* Calls whose reads of stdin are all written down, but for an `fgets` with room for the NUL
\* alone, which asks whether the stream has ended and reads nothing.
Recorded(call) ==
    /\ call.op \in {"getchar", "gets", "fgets", "getline", "read", "token", "number", "scanf"}
    /\ call.op = "fgets" => call.size # 1

\* The program alone, on other content.
Replay(content) ==
    LET after[n \in 0..Len(program)] ==
            IF n = 0 THEN Start(content) ELSE Alone(after[n - 1], program[n])
    IN after[Len(program)]

\* The answer is cut off behind the last byte that was read: a program of such calls, none
\* of which stopped at a byte it looked at and left, sees the same when it is given the
\* answer instead of the whole input.
AnswerReplays ==
    stream = "stdin" /\ (\A k \in 1..Len(program) : Recorded(program[k])) =>
        \A p \in paths : \A i \in Honest(p) :
            LET run == Replay(Answer(p, i))
            IN ~own[i].peeked => /\ run.saw = p.data[i].saw
                                 /\ run.memory = p.data[i].memory
                                 /\ run.object = p.data[i].object
=============================================================================
