--------------------------------- MODULE MCMerge ---------------------------------
(* Functions for Merge over three input bits and five cells. *)
EXTENDS Merge

Val == 0..3
MCInputs == [1..3 -> {0, 1}]
MCCells == 0..4

\* What a solver may fail to decide: nothing, or the impossible, everything, one side.
MCUndecidable == {{}, {{}, MCInputs, {i \in MCInputs : i[1] = 1}}}

-----------------------------------------------------------------------------
(* Operations.                                                              *)

Op(kind, out, uses, by) ==
    [kind |-> kind, out |-> out, uses |-> uses, by |-> by, base |-> None, cell |-> None,
     target |-> "external"]
Let(out, by, uses) == Op("let", out, uses, by)
Number(out, n) == Let(out, [args \in {<<>>} |-> n], <<>>)
Plus1(out, id) == Let(out, [args \in {<<v>> : v \in Val} |-> (args[1] + 1) % 4], <<id>>)
Below2(out, id) == Let(out, [args \in {<<v>> : v \in Val} |-> IF args[1] < 2 THEN 1 ELSE 0], <<id>>)
Read(out) == Op("read", out, <<>>, None)
Draw(out) == Op("rand", out, <<>>, None)
Show(id) == Op("print", None, <<id>>, None)
Exit == Op("exit", None, <<>>, None)
Goal == Op("goal", None, <<>>, None)
Work(id) == [Let(id, [args \in {<<>>} |-> 1], <<>>) EXCEPT !.kind = "call", !.target = "function"]
Load(out, cell) == [Op("load", out, <<>>, None) EXCEPT !.cell = cell]
Store(cell, id) == [Op("store", None, <<id>>, None) EXCEPT !.cell = cell]
LoadAt(out, base) == [Op("load", out, <<>>, None) EXCEPT !.base = base]
StoreAt(base, id) == [Op("store", None, <<id>>, None) EXCEPT !.base = base]

Phi(out, from) == [out |-> out, from |-> from]
Block_(phis, ops, kind, uses, targets) ==
    [phis |-> phis, ops |-> ops, last |-> [kind |-> kind, uses |-> uses, targets |-> targets]]
Goes(ops, to) == Block_(<<>>, ops, "jump", <<>>, <<to>>)
Splits(ops, id, yes, no) == Block_(<<>>, ops, "branch", <<id>>, <<yes, no>>)
Returns(ops) == Block_(<<>>, ops, "return", <<>>, <<>>)
Halts(ops) == Block_(<<>>, ops, "halt", <<>>, <<>>)
With(phis, block) == [block EXCEPT !.phis = phis]

-----------------------------------------------------------------------------
(* Functions.                                                               *)

\* Two trips round a diamond; one side works on a pointer that is dead at the join, and
\* still there, from the trip before, when the other side is taken.
Trips == <<
    Goes(<<Number("zero", 0)>>, 2),
    With(<<Phi("n", 1 :> "zero" @@ 5 :> "next"), Phi("sum", 1 :> "zero" @@ 5 :> "total")>>,
         Splits(<<Below2("more", "n")>>, "more", 3, 6)),
    Splits(<<Read("bit")>>, "bit", 4, 5),
    Goes(<<Plus1("add", "sum"), Plus1("place", "n"), StoreAt("place", "bit")>>, 5),
    With(<<Phi("total", 3 :> "sum" @@ 4 :> "add")>>, Goes(<<Plus1("next", "n")>>, 2)),
    Returns(<<Load("was", 1), Show("was"), Show("sum")>>) >>

\* The loop clang splits: a failure goes through block 2 back into the loop of 4, 5 and 7.
SplitLoop == <<
    Goes(<<Number("zero", 0)>>, 3),
    Splits(<<Plus1("failed", "fails"), Below2("again", "next")>>, "again", 3, 6),
    With(<<Phi("old", 1 :> "zero" @@ 2 :> "next"), Phi("bad", 1 :> "zero" @@ 2 :> "failed")>>,
         Goes(<<>>, 4)),
    With(<<Phi("n", 3 :> "old" @@ 7 :> "next"), Phi("fails", 3 :> "bad" @@ 7 :> "fails")>>,
         Splits(<<Plus1("next", "n"), Read("bit"), Read("other")>>, "bit", 5, 2)),
    Splits(<<>>, "other", 7, 2),
    Returns(<<Show("failed")>>),
    Splits(<<Below2("more", "next")>>, "more", 4, 8),
    Returns(<<Show("fails")>>) >>

\* A side picks the pointer, kept in a slot.
PointerInMemory == <<
    Splits(<<Read("bit"), Number("one", 1), Number("two", 2)>>, "bit", 2, 3),
    Goes(<<Store(3, "one")>>, 4),
    Goes(<<Store(3, "two")>>, 4),
    Splits(<<Load("at", 3), StoreAt("at", "one"), LoadAt("back", "at"), Show("back"), Read("more")>>,
           "more", 5, 6),
    Returns(<<Load("first", 1), Show("first")>>),
    Returns(<<Load("first", 1), Show("first")>>) >>

\* A side picks the number the pointer is computed from after the join.
PointerFromPhi == <<
    Splits(<<Read("bit"), Number("one", 1), Number("two", 2)>>, "bit", 2, 3),
    Goes(<<>>, 4),
    Goes(<<>>, 4),
    With(<<Phi("which", 2 :> "one" @@ 3 :> "two")>>,
         Returns(<<Plus1("at", "which"), StoreAt("at", "two"), Load("last", 3), Show("last")>>)) >>

\* A guard that exits, a goal on a path that cannot happen, and a goal past the join.
Guards == <<
    Splits(<<Read("bit"), Read("other")>>, "bit", 2, 3),
    Splits(<<>>, "other", 4, 5),
    Splits(<<>>, "bit", 6, 5),
    Halts(<<Exit>>),
    Splits(<<Read("third"), Show("third")>>, "other", 7, 8),
    Goes(<<Goal>>, 5),
    Returns(<<Goal>>),
    Halts(<<>>) >>

\* One side prints: the paths are kept apart.
Printing == <<
    Splits(<<Read("bit")>>, "bit", 2, 3),
    Goes(<<Show("bit")>>, 4),
    Goes(<<>>, 4),
    Splits(<<Read("other"), Show("other")>>, "other", 5, 6),
    Goes(<<Store(1, "bit")>>, 7),
    Goes(<<Store(2, "bit")>>, 7),
    Returns(<<Load("kept", 1), Show("kept")>>) >>

\* A loop whose diamond has an arm that leaves the function.
ExitArm == <<
    Goes(<<Number("zero", 0)>>, 2),
    With(<<Phi("n", 1 :> "zero" @@ 6 :> "next")>>, Splits(<<Below2("more", "n")>>, "more", 3, 7)),
    Splits(<<Read("bit"), Read("other")>>, "bit", 4, 5),
    Goes(<<Store(1, "other")>>, 6),
    Splits(<<>>, "other", 6, 8),
    Goes(<<Plus1("next", "n")>>, 2),
    Returns(<<Load("kept", 1), Show("kept")>>),
    Returns(<<Show("n")>>) >>

\* A loop its first bit keeps going round for ever.
Spin == <<
    Goes(<<Read("bit")>>, 2),
    Splits(<<>>, "bit", 3, 4),
    Goes(<<Store(1, "bit")>>, 2),
    Returns(<<Show("bit")>>) >>

\* A call to a function on one side: no region, the paths stay apart.
Calling == <<
    Splits(<<Read("bit"), Read("other")>>, "bit", 2, 3),
    Goes(<<Work("got"), Store(1, "got")>>, 4),
    Goes(<<>>, 4),
    Splits(<<Load("kept", 1), Show("kept")>>, "other", 5, 6),
    Returns(<<Goal>>),
    Returns(<<>>) >>

\* A diamond on one side of a diamond.
Nested == <<
    Splits(<<Read("bit"), Read("other"), Number("one", 1), Number("two", 2)>>, "bit", 2, 3),
    Splits(<<>>, "other", 4, 5),
    Goes(<<Store(2, "one")>>, 7),
    Goes(<<>>, 6),
    Goes(<<Store(2, "two")>>, 6),
    With(<<Phi("x", 4 :> "one" @@ 5 :> "two")>>, Goes(<<Store(1, "x")>>, 7)),
    Returns(<<Load("kept", 1), Show("kept"), Load("also", 2), Show("also")>>) >>

\* Both sides draw a random number: rand's state moves on alike.
Drawing == <<
    Splits(<<Read("bit")>>, "bit", 2, 3),
    Goes(<<Draw("left")>>, 4),
    Goes(<<Draw("right")>>, 4),
    Returns(<<Draw("number"), Show("number")>>) >>

MCPrograms == <<Trips, SplitLoop, PointerInMemory, PointerFromPhi, Guards, Printing, ExitArm,
                Spin, Calling, Nested, Drawing>>
MCLoops == {1, 10}
=============================================================================
