---------------------------------- MODULE MCSolve ----------------------------------
(***************************************************************************)
(* Jobs: small programs, and what is asked of them.                        *)
(***************************************************************************)
EXTENDS Solve

\* A path of a program: what happens on it, what it reads, and which inputs take it.
ReadsNothing == <<>>
PathTo(trace, reads, takes) ==
    [trace |-> trace, reads |-> reads, takes |-> takes, readTo |-> 0, byLine |-> FALSE,
     special |-> FALSE, stale |-> FALSE]

Good == <<"good", "nl">>
Bad == <<"bad", "nl">>
Says(address, text) == <<<<1, Silent>>, <<address, text>>>>

Ask0 ==
    [strategy |-> "auto", solutions |-> 1, length |-> 0, maxLength |-> 2, prefix |-> <<>>,
     suffix |-> <<>>, charset |-> {}, native |-> FALSE,
     goal |-> [by |-> "none", address |-> 0, text |-> Silent],
     avoidAddresses |-> {}, avoidTexts |-> {}]
Argv == [argv |-> 1, stdin |-> 0, file |-> 0]
Stdin == [argv |-> 0, stdin |-> 3, file |-> 0]

Strings(n) == [1..n -> AnyByte]
OfArgv == {[argv |-> <<s>>, stdin |-> <<>>, file |-> <<>>] : s \in Strings(3)}
OfTwo == {[argv |-> <<s, t>>, stdin |-> <<>>, file |-> <<>>] : s \in Strings(2), t \in Strings(2)}
OfStdin == {[argv |-> <<>>, stdin |-> s, file |-> <<>>] : s \in Strings(3)}
OfFile == {[argv |-> <<>>, stdin |-> <<>>, file |-> s] : s \in Strings(3)}

\* Programs print what they think of the input: Good, or Bad.
Prints(paths) ==
    [paths |-> paths, references |-> <<<<20, Bad>>, <<10, Good>>>>,
     ranked |-> <<Candidate(20, "failure", Bad, TRUE, TRUE), Candidate(10, "success", Good, TRUE, TRUE)>>,
     shaped |-> <<>>, outcome |-> "unknown", complete |-> TRUE, calls |-> <<>>, functions |-> <<>>]

Job(program, request, kinds) ==
    [mode |-> "module", program |-> program, request |-> request, kinds |-> kinds, from |-> "main",
     staged |-> FALSE, offered |-> Offered(kinds, request)]

Starts(I, bytes) == {i \in I : i.argv[1][1] \in bytes}
ThenIs(I, k, bytes) == {i \in I : i.argv[1][k] \in bytes}

\* argv[1] begins with a, or with an unprintable byte and anything but b behind it.
Checked == Prints(
    LET one == Starts(OfArgv, {"a"})  two == ThenIs(Starts(OfArgv, {"x"}), 2, AnyByte \ {"b"})
    IN <<PathTo(Says(20, Bad), ReadsNothing, OfArgv \ (one \cup two)),
         PathTo(Says(10, Good), ReadsNothing, two), PathTo(Says(10, Good), ReadsNothing, one)>>)

\* Only an unprintable byte will do, and one path is followed that no input takes.
Unprintable == Prints(
    LET one == ThenIs(Starts(OfArgv, {"x"}), 2, {"x", "a"})
    IN <<[PathTo(Says(10, Good), ReadsNothing, {}) EXCEPT !.stale = TRUE],
         PathTo(Says(10, Good), ReadsNothing, one), PathTo(Says(20, Bad), ReadsNothing, OfArgv \ one)>>)

\* The bad message has the good one's call; a failure is passed on the way.
OneCall ==
    LET one == Starts(OfArgv, {"b"})
        paths == <<PathTo(<<<<1, Silent>>, <<10, Bad>>>>, ReadsNothing, OfArgv \ one),
                   PathTo(<<<<1, Silent>>, <<10, Good>>>>, ReadsNothing, one)>>
    IN [Prints(paths) EXCEPT !.ranked = <<Candidate(10, "success", Good, TRUE, TRUE),
                                          Candidate(10, "failure", Bad, TRUE, TRUE),
                                          Candidate(1, "failure", Bad, FALSE, FALSE)>>]

\* Two strings that must begin alike, or not.
Both(alike) == Prints(
    LET one == {i \in OfTwo : i.argv[1][1] \in {"a", "b"} /\ (i.argv[2][1] = i.argv[1][1]) = alike}
    IN <<PathTo(Says(10, Good), ReadsNothing, one), PathTo(Says(20, Bad), ReadsNothing, OfTwo \ one)>>)

\* A line of stdin that begins with a; or another first byte and then, on a line of its own, b.
Line(i) == Before(i.stdin, NEWLINE)
Lines == Prints(
    LET one == {i \in OfStdin : i.stdin[1] = "a"}
        more == {i \in OfStdin : i.stdin[1] \in {"x", "b"} /\ i.stdin[2] = NEWLINE}
        two == {i \in more : i.stdin[3] = "b"}
    IN <<PathTo(Says(10, Good), <<<<0, 3, TRUE>>>>, one),
         PathTo(Says(10, Good), <<<<0, 3, TRUE>>, <<2, 3, FALSE>>>>, two),
         PathTo(Says(20, Bad), <<<<0, 3, TRUE>>, <<2, 3, FALSE>>>>, more \ two),
         PathTo(Says(20, Bad), <<<<0, 3, TRUE>>>>, OfStdin \ (one \cup more))>>)

\* A file whose second byte counts, whole or by its first line.
InFile(byLine) == Prints(
    LET one == {i \in OfFile : i.file[2] = "a" /\ i.file[1] # NEWLINE}
        Of(path) == [path EXCEPT !.readTo = 2, !.byLine = byLine]
    IN <<Of(PathTo(Says(10, Good), ReadsNothing, one)),
         Of(PathTo(Says(20, Bad), ReadsNothing, OfFile \ one))>>)

\* A driver: reads a line for each of two checks; one wants numbers, one a word.
Checks(second) ==
    [main |-> <<"setup", "read", "first", "done", "read", "second", "done", "puts">>,
     setup |-> <<"signal">>, read |-> <<"skip", "explode">>, skip |-> <<"fgets">>,
     first |-> <<"sscanf", "explode">>, second |-> second, done |-> <<"puts">>,
     explode |-> <<"puts", "exit">>]
OneNumber(raw, returns) == [returns |-> returns, lines |-> {<<"a">>}, numbers |-> <<raw, 1>>]
Driver(second, words) ==
    [Prints(<<>>) EXCEPT
        !.calls = Checks(second),
        !.functions = [first |-> <<OneNumber(3, TRUE), OneNumber(0, FALSE)>>,
                       second |-> <<[returns |-> TRUE, lines |-> words, numbers |-> <<>>]>>]]

Chained(second, words, staged) ==
    [Job(Driver(second, words), [Ask0 EXCEPT !.solutions = 1], Stdin) EXCEPT
        !.mode = "chain", !.staged = staged]

Alone(f, returns) ==
    [Job([Driver(<<"explode">>, {<<"a">>, <<"b">>})
            EXCEPT !.functions.second = <<[returns |-> returns, lines |-> {<<"b">>}, numbers |-> <<>>]>>],
         Ask0, Stdin) EXCEPT !.mode = "from", !.from = f]

Address(a) == [by |-> "address", address |-> a, text |-> Silent]
Text(t) == [by |-> "string", address |-> 0, text |-> t]

TwoAnswers == Job(Checked, [Ask0 EXCEPT !.solutions = 2], Argv)
InCharset3 ==
    Job(Checked, [Ask0 EXCEPT !.charset = {"a", "b"}, !.solutions = 3,
        !.strategy = "symbolic"], Argv)
FixedLength == Job(Checked, [Ask0 EXCEPT !.length = 2, !.suffix = <<"x">>, !.native = TRUE], Argv)
OnlyUnprintable == Job(Unprintable, Ask0, Argv)
ByConcolic == Job(Unprintable, [Ask0 EXCEPT !.strategy = "concolic", !.prefix = <<"x">>], Argv)
TellingCalls == Job(OneCall, Ask0, Argv)
AvoidingText ==
    Job(OneCall, [Ask0 EXCEPT !.avoidTexts = {<<"good">>}, !.goal = Address(10)], Argv)
ByBrute ==
    Job(Checked, [Ask0 EXCEPT !.goal = Text(<<"good">>), !.avoidAddresses = {20},
        !.native = TRUE, !.strategy = "brute", !.prefix = <<"b">>], Argv)
\* Three letters make more strings of two than may be tried.
ByBruteCapped ==
    Job(Unprintable, [Ask0 EXCEPT !.strategy = "brute", !.charset = Bytes], Argv)
NoSuchText == Job(Checked, [Ask0 EXCEPT !.goal = Text(<<"great">>)], Argv)
AlikeStrings == Job(Both(TRUE), [Ask0 EXCEPT !.maxLength = 1], [Argv EXCEPT !.argv = 2])
UnlikeStrings == Job(Both(FALSE), [Ask0 EXCEPT !.maxLength = 1], [Argv EXCEPT !.argv = 2])
TwoLines == Job(Lines, [Ask0 EXCEPT !.solutions = 2], Stdin)
LineSuffix == Job(Lines, [Ask0 EXCEPT !.suffix = <<"b">>], Stdin)
BruteLine == Job(Lines, [Ask0 EXCEPT !.strategy = "brute", !.length = 1], Stdin)
WholeFile ==
    Job([InFile(FALSE) EXCEPT !.outcome = "unsupported semantics"],
        [Ask0 EXCEPT !.native = TRUE], [Argv EXCEPT !.argv = 0, !.file = 3])
FirstLineOfFile == Job(InFile(TRUE), Ask0, [Argv EXCEPT !.argv = 0, !.file = 3])
Driver3 == Chained(<<"strcmp", "explode">>, {<<"a">>, <<"b">>}, TRUE)
NoSecondSink == Chained(<<"strcmp">>, {<<"a">>}, FALSE)
StageUnmet == Chained(<<"strcmp", "explode">>, {<<"a">>}, TRUE)
AloneFirst == Alone("first", TRUE)
AloneSecond == Alone("second", TRUE)
AloneNever == Alone("second", FALSE)

MCJobs == {
    TwoAnswers, InCharset3, FixedLength, OnlyUnprintable, ByConcolic, TellingCalls,
    AvoidingText, ByBrute, ByBruteCapped, NoSuchText, AlikeStrings, UnlikeStrings, TwoLines, LineSuffix,
    BruteLine, WholeFile, FirstLineOfFile, Driver3, NoSecondSink, StageUnmet, AloneFirst,
    AloneSecond, AloneNever}
=============================================================================
