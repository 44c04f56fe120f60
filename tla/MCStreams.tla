-------------------------------- MODULE MCStreams --------------------------------
(* Streams of three bytes out of five, and the calls of the programs. *)
EXTENDS Streams

CONSTANTS Space, Line, Dash, One, Letter

MCBytes == {Space, Line, Dash, One, Letter}
MCWhitespace == {Space, Line}
MCSigns == {Dash}
MCDigit == [b \in {One} |-> 1]
\* A letter or a dash at most once in an input.
MCInputs == {i \in [1..3 -> MCBytes] : Cardinality({n \in 1..3 : i[n] \in {Dash, Letter}}) <= 1}

Plain(op) == [op |-> op]
Sized(op, size, unit) == [op |-> op, size |-> size, unit |-> unit]
Seek(whence, offset) == [op |-> "fseek", whence |-> whence, offset |-> offset]

Directive(kind, set, width, assigns) == [kind |-> kind, set |-> set, width |-> width, assigns |-> assigns]
Word == Directive("string", {}, None, TRUE)
Short == Directive("string", {}, 2, TRUE)
Number_ == Directive("decimal", {}, None, TRUE)
Skip == Directive("decimal", {}, 2, FALSE)
Set == Directive("set", {One, Dash}, None, TRUE)
NotLine == Directive("set", MCBytes \ {Line}, None, TRUE)
Two == Directive("chars", {}, 2, TRUE)
A == Directive("literal", {Letter}, None, FALSE)
Space_ == Directive("space", {}, None, FALSE)
Scans(op, directives) == [op |-> op, directives |-> directives]

MCCalls ==
    {Plain(op) : op \in {"getchar", "fgetc", "gets", "getline", "token", "number", "feof", "ftell", "fopen"}}
    \cup {Sized("fgets", 0, 1), Sized("fgets", 1, 1), Sized("fgets", 2, 1), Sized("fgets", 9, 1)}
    \cup {Sized("read", 2, 1), Sized("fread", 2, 2), [op |-> "fwrite", bytes |-> <<Letter>>]}
    \cup {Seek("set", 0), Seek("cur", -1), Seek("end", 1)}
    \cup {Scans("scanf", <<Number_, A>>), Scans("scanf", <<Two, Set>>), Scans("scanf", <<Skip, Space_, NotLine>>)}
    \cup {Scans("fscanf", <<Word, Short>>), Scans("scanf", <<Word>>)}
=============================================================================
