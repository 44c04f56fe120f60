------------------------------ MODULE MCSpecialize ------------------------------
(***************************************************************************)
(* Interpreters of bytecode whose instructions are an opcode and an        *)
(* operand, a byte each, in read-only memory from 8 on.  Bytes have two    *)
(* bits; there are sixteen addresses, the first two unmapped.              *)
(***************************************************************************)
EXTENDS Specialize

V(n) == Var(n, 4)
W(n) == Var(n, 2)
K(n) == Const(n, 4)
B(n) == Const(n, 2)
Op(op, out, ins) == Operation(op, <<out>>, ins, 0)
St(pointer, value) == Operation("store", <<>>, <<pointer, value>>, 0)
Jump_(to) == Terminator("jump", <<>>, <<to>>, 0)
If(condition, yes, no) == Terminator("branch", <<condition>>, <<yes, no>>, 0)
Switch(on, to) == [Terminator("indirect", <<on>>, to, 0) EXCEPT !.cases = [k \in DOMAIN to |-> k - 1]]
Ret(value) == [Terminator("return", <<>>, <<>>, 0) EXCEPT !.values = <<value>>]
Ends(op) == Terminator(op, <<>>, <<>>, 0)
Block(phis, ops, term) == [phis |-> phis, ops |-> ops, term |-> term, starts |-> <<>>]
Phi(out, incoming) == [out |-> out, incoming |-> incoming]
Input(reg, value) == [reg |-> reg, value |-> value]
Function(inputs, blocks) == [entry |-> 1, inputs |-> inputs, outputs |-> <<0>>, blocks |-> blocks]

WriteImport == 31   \* writes through its first argument
Module ==
    [functions |-> <<>>, registers |-> {0, 2, 4}, widths |-> [r \in {0, 2, 4} |-> 4],
     convention |-> [reads |-> {0}, clobbers |-> {0}, observed |-> {0, 2}, stackPointer |-> 4],
     imports |-> <<>>, printing |-> {}, writing |-> [i \in {WriteImport} |-> 0], externals |-> {WriteImport}]

Code(instructions) == [p \in 8..15 |->
    LET k == (p - 8) \div 2 + 1 IN
    IF k > Len(instructions) THEN 0 ELSE instructions[k][1 + (p % 2)]]
\* Memory with given bytes below the code.
Memory(code, bytes) == [p \in 2..15 |-> IF p >= 8 THEN code[p] ELSE IF p \in DOMAIN bytes THEN bytes[p] ELSE 0]
State(code, x, y, z, bytes) ==
    [registers |-> [r \in {0, 2, 4} |-> CASE r = 0 -> x [] r = 2 -> y [] r = 4 -> z], memory |-> Memory(code, bytes)]

Interpreter(function, header, counter, registers, cells, code, entries, fails) ==
    [function |-> function, header |-> header, counter |-> counter, registers |-> registers,
     cells |-> cells, constant |-> code, module |-> Module, entries |-> entries, fails |-> fails]
InPhi(n) == [kind |-> "phi", n |-> n]
AtCell(base, offsets) == [kind |-> "memory", base |-> base, offsets |-> offsets, w |-> 4]

-------------------------------------------------------------------------------
(* The counter in a phi (v3), the accumulator in another (v4).  0 returns, *)
(* 1 adds, 2 goes back while the accumulator is not zero, 3 is `other`.    *)
(* v10 is the counter after an instruction of two bytes, v7 of one.        *)

Registers(add, other, after1, after3) == Function(<<Input(0, V(1)), Input(2, V(2))>>, <<
    Block(<<>>, <<>>, Jump_(2)),
    Block(<<Phi(V(3), <<<<1, V(1)>>, <<4, after1>>, <<6, after3>>, <<7, V(15)>>, <<8, V(10)>>>>),
            Phi(V(4), <<<<1, V(2)>>, <<4, V(11)>>, <<6, V(19)>>, <<7, V(4)>>, <<8, V(4)>>>>)>>,
          <<Op("load", W(5), <<V(3)>>), Op("zext", V(6), <<W(5)>>), Op("add", V(7), <<V(3), K(1)>>),
            Op("load", W(8), <<V(7)>>), Op("zext", V(9), <<W(8)>>), Op("add", V(10), <<V(7), K(1)>>)>>,
          Switch(V(6), <<3, 4, 5, 6>>)),
    Block(<<>>, <<>>, Ret(V(4))),
    Block(<<>>, add, Jump_(2)),
    Block(<<>>, <<Op("ne", W(12), <<V(4), K(0)>>)>>, If(W(12), 7, 8)),
    Block(<<>>, other, Jump_(2)),
    Block(<<>>, <<Op("shl", V(14), <<V(9), B(1)>>), Op("sub", V(15), <<V(3), V(14)>>)>>, Jump_(2)),
    Block(<<>>, <<>>, Jump_(2))>>)

\* More values that the loop carries round, all unknown.
Carrying(f, more) ==
    [f EXCEPT !.blocks[2].phis = @ \o [k \in DOMAIN more |->
        Phi(more[k], [j \in DOMAIN @[1].incoming |-> <<@[1].incoming[j][1], IF j = 1 THEN V(2) ELSE more[k]>>])]]

Add == <<Op("add", V(11), <<V(4), V(9)>>)>>
\* A step held in memory scales what is added.
Scaled == <<Op("load", W(20), <<K(6)>>), Op("zext", V(21), <<W(20)>>),
            Op("mul", V(22), <<V(21), V(9)>>), Op("add", V(11), <<V(4), V(22)>>)>>
\* The third stores the accumulator's low byte at a known address and reads it back ...
StoreBack == <<Op("add", V(16), <<V(9), K(2)>>), Op("trunc", W(17), <<V(4)>>), St(V(16), W(17)),
               Op("load", W(18), <<V(16)>>), Op("zext", V(19), <<W(18)>>)>>
\* ... or writes wherever the accumulator says, itself or through an import ...
WildStore == <<Op("and", V(16), <<V(4), K(7)>>), Op("trunc", W(17), <<V(9)>>), St(V(16), W(17)),
               Op("add", V(19), <<V(4), K(1)>>)>>
Write(result, pointer) ==
    [Operation("call", <<result>>, <<pointer>>, 0) EXCEPT
        !.target = [kind |-> "direct", at |-> WriteImport], !.args = <<0>>, !.results = <<0>>]
WildCall == <<Op("and", V(16), <<V(4), K(7)>>), Write(V(19), V(16))>>
\* ... or divides by its operand, or does what the lifter does not know.
Divide == <<Op("udiv", V(16), <<K(6), V(9)>>), Op("add", V(19), <<V(4), V(16)>>)>>
Odd == <<Operation("unsupported", <<V(19)>>, <<V(4)>>, 0)>>

Steps == {[c \in {6} |-> n] : n \in 1..2}
PhiVm(function, registers, cells, ys, fails, instructions) ==
    LET code == Code(instructions) IN
    Interpreter(function, 2, InPhi(3), registers, cells, code,
                {State(code, x, y, 0, bytes) : x \in {8, 10}, y \in ys, bytes \in Steps}, fails)
AtCode == [r \in {0} |-> 8]
\* Also entered with a known accumulator, that then counts up.
KnownStart == [r \in {0, 2} |-> IF r = 0 THEN 8 ELSE 13]
Step1 == [c \in {6} |-> 1]

-------------------------------------------------------------------------------
(* Everything in memory: the counter (4, 5), the accumulator (6) and a     *)
(* step (7), found through a pointer: an input, one read from (2, 3) again  *)
(* each time round, or the address itself.  `first` is what the prologue   *)
(* does, `third` the third instruction, which goes on with `to`.           *)

InMemory(pointer, first, third, to, zero) ==
    LET reload == pointer = "reload"
        there == IF pointer = "fixed" THEN K(4) ELSE V(1)
        start == IF pointer = "fixed" THEN K(4) ELSE V(26)
    IN Function(<<Input(4, V(IF reload THEN 25 ELSE 1)), Input(0, V(2))>>, <<
    Block(<<>>, (IF reload THEN <<Op("load", V(26), <<V(25)>>)>> ELSE <<Op("copy", V(26), <<V(1)>>)>>) \o
                <<St(start, K(8)), Op("add", V(3), <<start, K(2)>>), Op("add", V(4), <<start, K(3)>>),
                  Op("trunc", W(5), <<V(2)>>), St(V(3), W(5))>> \o first, Jump_(2)),
    Block(<<>>, (IF reload THEN <<Op("load", V(1), <<V(25)>>)>> ELSE <<>>) \o
                <<Op("load", V(6), <<there>>), Op("load", W(7), <<V(6)>>), Op("zext", V(8), <<W(7)>>),
                  Op("add", V(9), <<V(6), K(1)>>), Op("load", W(10), <<V(9)>>), Op("zext", V(11), <<W(10)>>),
                  Op("add", V(12), <<V(9), K(1)>>), St(there, V(12))>>, Switch(V(8), <<3, 4, 5, 6>>)),
    Block(<<>>, <<Op("load", W(13), <<V(3)>>), Op("zext", V(14), <<W(13)>>)>>, Ret(V(14))),
    Block(<<>>, <<Op("load", W(15), <<V(3)>>), Op("load", W(16), <<V(4)>>), Op("mul", W(17), <<W(16), W(10)>>),
                  Op("add", W(18), <<W(15), W(17)>>), St(V(3), W(18))>>, Jump_(2)),
    Block(<<>>, <<Op("load", W(19), <<V(3)>>), Op("ne", W(20), <<W(19), B(0)>>)>>, If(W(20), 7, zero)),
    Block(<<>>, third, to),
    Block(<<>>, <<Op("shl", V(21), <<V(11), B(1)>>), Op("sub", V(22), <<V(6), V(21)>>), St(there, V(22))>>, Jump_(2)),
    Block(<<>>, <<>>, Jump_(2))>>)

MemoryVm(pointer, first, third, to, zero, fails, instructions) ==
    LET code == Code(instructions)
        reload == pointer = "reload"
        place == IF reload THEN 2 ELSE 4
        Bytes(step) == [c \in {2, 3, 7} |-> CASE c = 2 -> 0 [] c = 3 -> 1 [] c = 7 -> step]
        cells == IF reload THEN Bytes(1) ELSE [c \in {7} |-> 1]
    IN Interpreter(InMemory(pointer, first, third, to, zero), 2,
                   CASE pointer = "reload" -> AtCell(25, <<0, 0>>) [] pointer = "input" -> AtCell(1, <<0>>)
                     [] pointer = "fixed" -> AtCell(NoBase, <<4>>),
                   [r \in {4} |-> place], cells, code,
                   {State(code, x, 0, place, Bytes(step)) : x \in 0..2, step \in 1..2}, fails)

\* The third counts in the step, ends the run, goes where the accumulator says, or to nowhere.
Count == <<Op("load", W(23), <<V(4)>>), Op("add", W(24), <<W(23), W(10)>>), St(V(4), W(24))>>
OnAccumulator == <<Op("load", W(23), <<V(3)>>), Op("zext", V(24), <<W(23)>>)>>
ZeroStep == <<St(V(4), B(0))>>

-------------------------------------------------------------------------------
(* A prologue that branches on the input: `one` and then `to`, or `other`  *)
(* and then the loop.  The snapshot knows the byte at 6, which the loop    *)
(* reads and its second instruction, `body`, may write.                    *)

Branching(one, to, other, body) == Function(<<Input(4, V(1)), Input(0, V(2))>>, <<
    Block(<<>>, <<Op("add", V(3), <<V(1), K(2)>>), Op("trunc", W(5), <<V(2)>>), St(V(1), K(8)),
                  Op("ne", W(20), <<W(5), B(0)>>)>>, If(W(20), 2, 3)),
    Block(<<>>, one, to),
    Block(<<>>, other, Jump_(4)),
    Block(<<>>, <<Op("load", V(6), <<V(1)>>), Op("load", W(7), <<V(6)>>), Op("zext", V(8), <<W(7)>>),
                  Op("add", V(12), <<V(6), K(1)>>), St(V(1), V(12))>>, Switch(V(8), <<5, 6>>)),
    Block(<<>>, <<Op("load", W(13), <<V(3)>>), Op("zext", V(14), <<W(13)>>)>>, Ret(V(14))),
    Block(<<>>, body, Jump_(4))>>)
BranchingVm(one, to, other, body) ==
    LET code == Code(<<<<1, 1>>, <<0, 0>>>>) IN
    Interpreter(Branching(one, to, other, body), 4, AtCell(1, <<0>>), [r \in {4} |-> 4], Step1, code,
                {State(code, x, 0, 4, bytes) : x \in 0..3, bytes \in Steps}, FALSE)

CountUp == <<Op("load", W(30), <<V(3)>>), Op("add", W(31), <<W(30), B(1)>>), St(V(3), W(31))>>
\* The two sides do the same, nothing or a store; or only one stores, or each something else.
Ways == {<<<<>>, <<>>>>, <<<<St(V(3), W(5))>>, <<St(V(3), W(5))>>>>, <<<<St(V(3), B(2))>>, <<St(V(3), B(2))>>>>,
         <<<<St(V(3), W(5))>>, <<>>>>, <<<<St(V(3), B(2))>>, <<St(V(3), B(3))>>>>}

-------------------------------------------------------------------------------
(* Programs: three instructions, of which one may go back, and a return.   *)

Bytecode == {<<i, j, k>> : i \in {<<1, 1>>, <<3, 1>>}, j \in {<<1, 3>>, <<2, 1>>, <<3, 0>>},
                           k \in {<<0, 0>>, <<2, 1>>, <<2, 2>>}}
Short == {<<<<1, 1>>, <<3, 1>>, <<2, 1>>>>, <<<<2, 0>>, <<3, 1>>>>}
Closing == {<<<<1, 1>>, <<2, 1>>, <<3, 1>>>>}

MCInterpreters ==
    {PhiVm(Registers(Scaled, other, V(10), V(10)), AtCode, Step1, {2, 6, 13}, FALSE, code)
       : other \in {StoreBack, WildStore, WildCall}, code \in Bytecode}
    \cup {PhiVm(Registers(Add, other, V(10), V(10)), KnownStart, <<>>, {0, 13}, FALSE, code)
       : other \in {StoreBack, Divide, Odd}, code \in Short}
    \cup {MemoryVm(pointer, first, Count, Jump_(2), zero, FALSE, code)
       : pointer \in {"input", "reload"}, first \in {<<>>, ZeroStep}, zero \in {2, 8}, code \in Bytecode}
    \cup {MemoryVm("fixed", first, Count, Jump_(2), 8, FALSE, code) : first \in {<<>>, ZeroStep}, code \in Short}
    \cup {MemoryVm("input", <<>>, third, to, 8, FALSE, code)
       : third \in {OnAccumulator}, to \in {Ends("halt"), Ends("stop"), Switch(V(24), <<7, 8>>), Switch(V(8), <<3, 4>>)},
         code \in Short}
    \cup {BranchingVm(ways[1], Jump_(4), ways[2], body) : ways \in Ways, body \in {<<>>, CountUp}}
    \cup {BranchingVm(<<>>, Ret(V(3)), <<>>, body) : body \in {<<>>, CountUp}}
    \* Those that fail: the counter is taken from the input, or lost in a call; instructions of
    \* one byte make more iterations than are allowed; each unknown value takes an attempt; an
    \* instruction never ends, or jumps away.
    \cup {PhiVm(Registers(Add, StoreBack, V(10), V(19)), AtCode, <<>>, {1}, TRUE, code) : code \in Short}
    \cup {PhiVm(Registers(Add, StoreBack, V(7), V(10)), AtCode, <<>>, {1}, TRUE, <<<<1, 1>>, <<1, 1>>, <<1, 1>>, <<1, 1>>>>)}
    \cup {PhiVm(Carrying(Registers(Add, StoreBack, V(10), V(10)), <<V(30), V(31)>>), AtCode, <<>>, {1}, TRUE, code)
       : code \in Short}
    \cup {MemoryVm("input", <<>>, third, to, 8, TRUE, code)
       : third \in {<<Write(V(24), V(3))>>}, to \in {Jump_(2), Jump_(6), [Ends("tailcall") EXCEPT !.call = <<Write(V(27), V(3))>>]},
         code \in Closing}

===============================================================================
