-------------------------------- MODULE MCPipeline --------------------------------
(***************************************************************************)
(* Programs to lift: registers of two bytes a, b and s (the stack          *)
(* pointer), a flag f of one, bytes of two bits and sixteen addresses, the *)
(* first two of them unmapped.                                             *)
(***************************************************************************)
EXTENDS Pipeline

a == Varnode("register", 0, 2)
low == Varnode("register", 0, 1)
high == Varnode("register", 1, 1)
b == Varnode("register", 2, 2)
s == Varnode("register", 4, 2)
flag == Varnode("register", 6, 1)
T(n) == Varnode("unique", n, 2)
Part(n) == Varnode("unique", n, 1)
K(n) == Varnode("const", n, 2)
Little(n) == Varnode("const", n, 1)
At(n) == Varnode("ram", n, 2)

Op(code, out, ins) == Pcode(code, <<out>>, ins)
Effect(code, ins) == Pcode(code, <<>>, ins)
Ld(out, pointer) == Op("load", out, <<Little(0), pointer>>)
St(pointer, value) == Effect("store", <<Little(0), pointer, value>>)
Add(x, y) == Op("add", x, <<x, y>>)
Copy(x, y) == Op("copy", x, <<y>>)
Test(op, x, y) == Op(op, flag, <<x, y>>)
Goto(n) == Effect("branch", <<At(n)>>)
GoIf(n) == Effect("cbranch", <<At(n), flag>>)
Ahead(n) == Effect("cbranch", <<Varnode("const", n, 2), flag>>)

I(ops) == [len |-> 1, ops |-> ops, flows |-> <<>>]
Switch(register, flows) == [len |-> 1, ops |-> <<Effect("branchind", <<register>>)>>, flows |-> flows]
Push(x) == I(<<Op("sub", s, <<s, K(2)>>), St(s, x)>>)
Pop(x) == I(<<Ld(x, s), Add(s, K(2))>>)
CallTo(n, back) == I(<<Op("sub", s, <<s, K(2)>>), St(s, K(back)), Effect("call", <<At(n)>>)>>)
CallBy(x, back) == I(<<Op("sub", s, <<s, K(2)>>), St(s, K(back)), Effect("callind", <<x>>)>>)
Ret == I(<<Ld(T(0), s), Add(s, K(2)), Effect("return", <<T(0)>>)>>)
Nop == I(<<>>)

\* Imports, each behind the thunk that calls go through.
PrintImport == 30   \* only prints
WriteImport == 31   \* writes through its first argument
ExitImport == 32    \* never comes back
PrintThunk == 20
WriteThunk == 21
QuitThunk == 22
Hidden == 33        \* a function nothing is known of

Convention == [reads |-> {0, 2, 4}, clobbers |-> {0, 4, 6}, observed |-> {0, 2, 4}, stackPointer |-> 4]
Given(x, y) == [r \in {0, 2, 4, 6} |-> CASE r = 0 -> x [] r = 2 -> y [] r = 4 -> 12 [] r = 6 -> 0]
Memory == [p \in 2..15 |-> (3 * p + 1) % 4]

\* The instructions from an address on.
From(start, code) == [p \in start..start + Len(code) - 1 |-> code[p - start + 1]]

Thunks == [t \in {PrintThunk, WriteThunk, QuitThunk} |-> [kind |-> "external", at |-> t + 10]]

Base ==
    [thunks |-> Thunks, noReturn |-> {QuitThunk},
     bases |-> [r \in {<<0, 1>>, <<1, 1>>} |-> <<0, 2>>], stackPointer |-> <<4, 2>>,
     memory |-> Memory, protected |-> {}, convention |-> Convention,
     imports |-> [i \in {PrintImport} |-> {0, 4}], printing |-> {PrintImport},
     writing |-> [i \in {WriteImport} |-> 0], externals |-> {PrintImport, WriteImport, ExitImport},
     inputs |-> {Given(x, y) : x \in {0, 3, 6, 9, 14}, y \in {2, 7, 9}}]
Extra(main, entries, code) ==
    [main |-> main, entries |-> entries, selected |-> entries, code |-> code]
Prog(main, entries, code) == Extra(main, entries, code) @@ Base

-------------------------------------------------------------------------------
(* Loops that come back to the entry, by a branch or from the code before it. *)
BackToEntry == Prog(1, {1}, From(1, <<
    I(<<Op("lshr", a, <<a, Little(1)>>), Add(b, a)>>), I(<<Test("eq", a, K(0))>>), I(<<GoIf(5)>>),
    I(<<Goto(1)>>), Ret>>))
FallsIntoEntry == Prog(2, {2}, From(1, <<
    I(<<Add(b, K(1))>>), I(<<Op("lshr", a, <<a, Little(2)>>)>>),
    I(<<Test("eq", a, K(0)), GoIf(5)>>), I(<<Goto(1)>>), Ret>>))
Swap == Prog(1, {1}, From(1, <<
    I(<<Copy(T(0), a), Copy(a, b), Copy(b, T(0))>>),
    I(<<Op("lshr", At(8), <<At(8), Little(1)>>)>>), I(<<Test("eq", At(8), K(0)), GoIf(5)>>),
    I(<<Goto(1)>>), Ret>>))
\* Two loops into each other, entered at both.
Irreducible == Prog(1, {1}, From(1, <<
    I(<<Test("ult", a, b), GoIf(4)>>), I(<<Add(a, K(1))>>), I(<<Test("eq", a, b), GoIf(6)>>),
    I(<<Op("sub", b, <<b, K(1)>>)>>), I(<<Test("ne", b, K(0)), GoIf(2)>>), I(<<Copy(a, b)>>), Ret>>))
NeverEnds == Prog(1, {1}, From(1, <<I(<<Add(a, K(1))>>), Nop, I(<<Goto(1)>>)>>))

\* Parts of a register, written on one side only and put together again.
Parts == Prog(1, {1}, From(1, <<
    I(<<Test("slt", a, b), GoIf(4)>>), I(<<Op("add", low, <<low, Little(1)>>)>>), I(<<Goto(5)>>),
    I(<<Op("xor", high, <<high, low>>)>>), I(<<Op("zext", b, <<high>>)>>),
    I(<<Op("subpiece", Part(0), <<a, Little(1)>>), Op("piece", a, <<low, Part(0)>>)>>), Ret>>))
Conversions == Prog(1, {1}, From(1, <<
    I(<<Op("sext", T(0), <<low>>), Op("subpiece", low, <<T(0), Little(0)>>)>>),
    I(<<Op("popcount", high, <<b>>), Op("lzcount", b, <<a>>)>>),
    I(<<Op("not", T(0), <<b>>), Op("not", b, <<T(0)>>), Op("neg", T(2), <<a>>), Op("neg", a, <<T(2)>>)>>),
    I(<<Test("scarry", a, b), Op("bnot", flag, <<flag>>), GoIf(6)>>),
    I(<<Op("piece", a, <<low, high>>), Op("ashr", b, <<b, low>>)>>), Ret>>))
Constants == Prog(1, {1}, From(1, <<
    I(<<Copy(b, K(6)), Test("ule", b, K(6)), GoIf(4)>>), I(<<Copy(b, a)>>), I(<<Add(b, K(3))>>),
    I(<<Op("sub", a, <<K(3), a>>), Op("sub", a, <<a, K(6)>>), Add(a, K(9))>>),
    I(<<Op("mul", b, <<K(2), a>>), Op("mul", b, <<b, K(9)>>), Op("and", a, <<b, K(15)>>)>>), Ret>>))

\* Temporaries: read in part, skipped over, read before they are written.
Temporaries == Prog(1, {1}, From(1, <<
    I(<<Copy(T(0), b), Op("copy", low, <<Part(1)>>)>>),
    I(<<Test("ult", a, b), Ahead(2), Copy(a, b), Copy(b, K(1))>>),
    I(<<Test("eq", a, K(0)), Ahead(3), Op("lshr", a, <<a, Little(1)>>), Effect("branch", <<K(-3)>>)>>), Ret>>))
ReadsUnwritten == Prog(1, {1}, From(1, <<
    I(<<Test("eq", a, K(3)), Ahead(2), Copy(T(0), a), Copy(b, T(0))>>), Ret>>))
Overlapping == Prog(1, {1}, From(1, <<
    I(<<Add(a, b)>>), I(<<Copy(T(0), b), Op("copy", Part(1), <<low>>), Copy(b, T(0))>>), Ret>>))
Unmodelled == Prog(1, {1}, From(1, <<
    I(<<Test("eq", a, K(3)), GoIf(3)>>), I(<<Op("callother", a, <<K(4), b>>)>>), Ret>>))

\* What may fault is done although nothing uses it.
Faulting == Prog(1, {1}, From(1, <<
    I(<<Op("sub", b, <<b, K(2)>>), Op("udiv", T(0), <<a, b>>)>>), I(<<Ld(T(0), a)>>),
    I(<<Op("srem", T(0), <<a, K(3)>>), Op("sdiv", b, <<T(0), K(1)>>)>>), Ret>>))
\* Addresses that may be the same, or overlap.
Aliases == Prog(1, {1}, From(1, <<
    I(<<St(a, b)>>), I(<<St(b, a)>>), I(<<Ld(T(0), a), Ld(b, b)>>),
    I(<<Op("xor", b, <<b, T(0)>>), Ld(T(2), a), Op("add", a, <<T(0), T(2)>>)>>), Ret>>))
OtherWidths == Prog(1, {1}, From(1, <<
    I(<<St(a, b)>>), I(<<Op("add", T(0), <<a, K(1)>>), Ld(low, T(0))>>), I(<<Op("sub", a, <<a, K(1)>>), Ld(Part(0), a)>>),
    I(<<St(s, low), Ld(T(0), s), Copy(a, T(0))>>), I(<<Op("load", Part(0), <<Little(0), a>>), Op("zext", b, <<Part(0)>>)>>), Ret>>))
Stale == Prog(1, {1}, From(1, <<
    I(<<Add(a, K(1))>>), Push(b), CallTo(WriteThunk, 4), Pop(b), Ret>>))
\* The same expression on two ways, and after them.
Common == Prog(1, {1}, From(1, <<
    I(<<Test("ult", a, b), GoIf(4)>>), I(<<Op("add", At(6), <<a, b>>)>>), I(<<Goto(5)>>),
    I(<<Op("add", At(8), <<a, b>>), Add(a, K(0))>>), I(<<Op("add", T(0), <<a, b>>), Add(b, a), Op("xor", a, <<a, T(0)>>)>>), Ret>>))

\* Calls: of a function, of itself, of each other, of what never returns or is
\* not there, and jumps into another function.
Direct == Prog(1, {1, 8}, From(1, <<
    Push(b), I(<<Copy(b, a)>>), CallTo(8, 4), I(<<Add(a, b)>>), Pop(b), Ret, Nop,
    I(<<Test("eq", a, K(3)), GoIf(11)>>), I(<<Add(a, K(1))>>), I(<<Copy(b, a)>>), Ret>>))
Recursion == From(1, <<
    I(<<Test("eq", a, K(0)), GoIf(5)>>), I(<<Op("lshr", a, <<a, Little(1)>>)>>), CallTo(1, 4),
    I(<<Add(b, K(1))>>), Ret>>)
Recursive == Prog(10, {1, 10}, Recursion @@ From(10, <<CallTo(1, 11), Ret>>))
EachOther == Prog(11, {1, 6, 11}, From(1, <<
    I(<<Test("ult", b, a), GoIf(5)>>), I(<<Add(a, K(1))>>), CallTo(6, 4), I(<<Op("xor", flag, <<flag, Little(1)>>)>>), Ret,
    I(<<Test("eq", a, K(8)), GoIf(9)>>), CallTo(1, 8), I(<<Op("zext", b, <<flag>>)>>), Ret, Nop,
    CallTo(1, 12), Ret>>))
Jumps == Prog(1, {1, 6, PrintThunk}, From(1, <<
    I(<<Test("ult", a, b), GoIf(6)>>), I(<<Test("eq", a, b), GoIf(5)>>), I(<<Add(a, b)>>), I(<<Goto(6)>>),
    I(<<Goto(PrintThunk)>>), I(<<Add(a, K(2))>>), Ret>>))
Quits == Prog(1, {1}, From(1, <<
    I(<<Test("eq", a, K(3)), GoIf(4)>>), CallTo(QuitThunk, 3), Ret, I(<<Test("eq", b, K(7)), GoIf(6)>>), CallTo(Hidden, 6), Ret>>))
Indirect == Prog(1, {1, 9}, From(1, <<
    I(<<Test("ult", b, a), GoIf(4)>>), CallBy(b, 3), Ret, Switch(a, <<6, 9, 3>>), Nop,
    I(<<Add(b, K(1))>>), I(<<Goto(3)>>), Nop, I(<<Op("sub", a, <<a, b>>)>>), Ret>>))

\* Programs that print on their way to a goal.
Prints == [protected |-> {7}] @@ Prog(1, {1, 9}, From(1, <<
    Push(b), CallTo(PrintThunk, 3), CallTo(9, 4), Pop(b), I(<<Test("eq", b, K(7)), GoIf(7)>>), Ret,
    I(<<Copy(a, K(1))>>), Ret,
    Push(a), CallTo(PrintThunk, 11), Pop(a), Ret>>))
\* A printing function that loops, one whose result is used, one that writes for its caller.
PrintsInLoop == [protected |-> {5}] @@ Prog(1, {1, 7}, From(1, <<
    Push(a), CallTo(7, 3), Pop(a), I(<<Test("ult", a, b), GoIf(6)>>), I(<<Copy(a, K(1))>>), Ret,
    I(<<Op("lshr", a, <<a, Little(1)>>), Test("eq", a, K(0)), GoIf(12)>>),
    Push(a), CallTo(PrintThunk, 10), Pop(a), I(<<Goto(7)>>), Ret>>))
PrintsAndTells == [protected |-> {5}] @@ Prog(1, {1, 7, 10}, From(1, <<
    CallTo(7, 2), CallTo(10, 3), I(<<Ld(T(0), b), Test("eq", T(0), a)>>), I(<<GoIf(6)>>), I(<<Copy(a, K(1))>>), Ret,
    Push(a), I(<<Ld(a, s), Add(s, K(2)), Op("and", a, <<a, K(9)>>)>>), Ret,
    I(<<St(b, a)>>), CallTo(PrintThunk, 12), Ret>>))

Written == {BackToEntry, FallsIntoEntry, Swap, Irreducible, NeverEnds, Parts, Conversions, Constants,
            Temporaries, ReadsUnwritten, Overlapping, Unmodelled, Faulting, Aliases, OtherWidths, Stale,
            Common, Direct, Recursive, EachOther, Jumps, Quits, Indirect, Prints, PrintsInLoop,
            PrintsAndTells}

\* Short pieces of code put together in every way, the second left out on some
\* inputs, once or in a loop.
Pieces == {<<St(a, b)>>, <<Ld(b, a)>>, <<Copy(a, b), Op("subpiece", high, <<b, Little(1)>>)>>,
           <<Op("load", low, <<Little(0), b>>)>>, <<Op("add", At(8), <<a, b>>)>>,
           <<Op("zext", b, <<low>>), Test("ult", b, a)>>}
Body(x, y, z) == <<I(x), I(<<Test("slt", a, b), GoIf(4)>>), I(y), I(z)>>
Few == {Given(8, 9), Given(9, 3), Given(3, 8)}
Once(x, y, z) == [inputs |-> Few] @@ Prog(1, {1}, From(1, Body(x, y, z) \o <<Ret>>))
Looping(x, y, z) == [inputs |-> Few] @@ Prog(1, {1}, From(1, Body(x, y, z) \o
    <<I(<<Op("lshr", At(14), <<At(14), Little(2)>>)>>), I(<<Test("ne", At(14), K(0)), GoIf(1)>>), Ret>>))
Calling(x, y, z) == [inputs |-> Few] @@ Prog(1, {1, 6}, From(1, <<
    Push(b), CallTo(6, 3), I(x), Pop(a), Ret, I(y), I(<<Test("ne", a, b), GoIf(9)>>), I(z), Ret>>))
MCPrograms == Written \cup {Once(x, y, z) : x \in Pieces, y \in Pieces, z \in Pieces}
                      \cup {Looping(x, y, z) : x \in Pieces, y \in Pieces, z \in Pieces}
                      \cup {Calling(x, y, z) : x \in Pieces, y \in Pieces, z \in Pieces}
===============================================================================
