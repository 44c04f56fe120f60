---------------------------------- MODULE Ir ----------------------------------
(***************************************************************************)
(* RevIR, the program form everything after the lifter works on: operands, *)
(* operations and blocks (ir/model.py), what an operation computes         *)
(* (ir/semantics.py), the rewriting helpers of the passes                  *)
(* (ir/transform.py), the order blocks are visited in and dominance        *)
(* (ir/cfg.py), and the rules every consumer relies on (ir/validate.py).   *)
(*                                                                         *)
(* A function is [entry, inputs, outputs, blocks]; blocks are numbered     *)
(* from 1, block 1 being the entry.  All operations share one shape: the   *)
(* values defined `out`, the operands `ins`, the low bit of a subpiece,    *)
(* and for a call its target and the registers its operands and results    *)
(* stand for.  `at` is the address of the instruction it comes from.       *)
(***************************************************************************)
EXTENDS Integers, Sequences, FiniteSets, SequencesExt, Bitwise

CONSTANTS Byte,          \* how many bits a byte has
          PointerWidth   \* how many bits an address has

Var(n, w) == [var |-> TRUE, n |-> n, w |-> w]
Const(n, w) == [var |-> FALSE, n |-> n % 2^w, w |-> w]
Vars(operands) == {o \in ToSet(operands) : o.var}
Is(o, n) == ~o.var /\ o.n = n

Division == {"udiv", "urem", "sdiv", "srem"}
Shifts == {"shl", "lshr", "ashr"}
Comparisons == {"eq", "ne", "ult", "ule", "slt", "sle", "carry", "scarry", "sborrow"}
Booleans == {"band", "bor", "bxor"}
Arithmetic == {"add", "sub", "mul", "and", "or", "xor"}
Binary == Division \cup Shifts \cup Comparisons \cup Booleans \cup Arithmetic
Unary == {"copy", "not", "neg", "bnot", "zext", "sext", "trunc", "popcount", "lzcount"}
Pure == Binary \cup Unary \cup {"subpiece", "piece"}

Operation(op, out, ins, at) ==
    [op |-> op, out |-> out, ins |-> ins, low |-> 0, at |-> at,
     target |-> [kind |-> "none", at |-> 0], args |-> <<>>, results |-> <<>>]
Arguments(call) == IF call.target.kind = "indirect" THEN Tail(call.ins) ELSE call.ins

Terminator(op, ins, to, at) ==
    [op |-> op, ins |-> ins, to |-> to, at |-> at, cases |-> <<>>, values |-> <<>>, call |-> <<>>]

TerminatorInputs(t) ==
    t.ins \o (IF t.call = <<>> THEN <<>> ELSE t.call[1].ins) \o t.values

\* The blocks that may follow, each once, in the order the flow visits them.
Successors(t) ==
    IF t.op = "indirect" THEN SetToSortSeq(ToSet(t.to), <)
    ELSE IF Len(t.to) = 2 /\ t.to[1] = t.to[2] THEN <<t.to[1]>> ELSE t.to

-------------------------------------------------------------------------------
(* What an operation computes.                                             *)

Signed(x, w) == IF x >= 2^(w - 1) THEN x - 2^w ELSE x
Abs(x) == IF x < 0 THEN -x ELSE x
TruncatingDiv(a, b) == (IF (a < 0) = (b < 0) THEN 1 ELSE -1) * (Abs(a) \div Abs(b))
FitsSigned(x, w) == x \in -(2^(w - 1)) .. 2^(w - 1) - 1
Bit(p) == IF p THEN 1 ELSE 0
Least(a, b) == IF a < b THEN a ELSE b

Compared(op, l, r, w) ==
    LET s == Signed(l, w)
        t == Signed(r, w) IN
    CASE op = "eq" -> l = r
      [] op = "ne" -> l # r
      [] op = "ult" -> l < r
      [] op = "ule" -> l <= r
      [] op = "slt" -> s < t
      [] op = "sle" -> s <= t
      [] op = "carry" -> l + r >= 2^w
      [] op = "scarry" -> ~FitsSigned(s + t, w)
      [] op = "sborrow" -> ~FitsSigned(s - t, w)

\* Division by zero is a fault of the caller's, not a value.
BinaryValue(op, l, r, w) ==
    LET s == Signed(l, w)
        t == Signed(r, w) IN
    CASE op = "add" -> (l + r) % 2^w
      [] op = "sub" -> (l - r) % 2^w
      [] op = "mul" -> (l * r) % 2^w
      [] op = "udiv" -> l \div r
      [] op = "urem" -> l % r
      [] op = "sdiv" -> TruncatingDiv(s, t) % 2^w
      [] op = "srem" -> (s - t * TruncatingDiv(s, t)) % 2^w
      [] op \in {"and", "band"} -> l & r
      [] op \in {"or", "bor"} -> l | r
      [] op \in {"xor", "bxor"} -> l ^^ r
      [] op = "shl" -> IF r >= w THEN 0 ELSE (l * 2^r) % 2^w
      [] op = "lshr" -> IF r >= w THEN 0 ELSE l \div 2^r
      [] op = "ashr" -> (s \div 2^Least(r, w)) % 2^w
      [] OTHER -> Bit(Compared(op, l, r, w))

RECURSIVE Ones(_)
Ones(x) == IF x = 0 THEN 0 ELSE (x % 2) + Ones(x \div 2)
RECURSIVE BitLength(_)
BitLength(x) == IF x = 0 THEN 0 ELSE 1 + BitLength(x \div 2)

UnaryValue(op, x, w, wide) ==
    CASE op \in {"copy", "zext"} -> x
      [] op = "not" -> 2^w - 1 - x
      [] op = "neg" -> (-x) % 2^w
      [] op = "bnot" -> x ^^ 1
      [] op = "sext" -> Signed(x, w) % 2^wide
      [] op = "trunc" -> x % 2^wide
      [] op = "popcount" -> Ones(x) % 2^wide
      [] op = "lzcount" -> (w - BitLength(x)) % 2^wide

SubpieceValue(x, low, w) == (x \div 2^low) % 2^w
PieceValue(high, low, w) == high * 2^w + low

\* The value of an operation whose operands are all constants.
PureValue(o) ==
    LET x == o.ins[1] IN
    CASE o.op \in Binary -> BinaryValue(o.op, x.n, o.ins[2].n, x.w)
      [] o.op \in Unary -> UnaryValue(o.op, x.n, x.w, o.out[1].w)
      [] o.op = "subpiece" -> SubpieceValue(x.n, o.low, o.out[1].w)
      [] o.op = "piece" -> PieceValue(x.n, o.ins[2].n, o.ins[2].w)

\* A division that may fault, and everything else that may do more than define a value.
MayFault(o) == o.op \in Division /\ (o.ins[2].var \/ o.ins[2].n = 0)
IsRemovable(o) == o.op \in Pure /\ ~MayFault(o)

-------------------------------------------------------------------------------
(* Rewriting.  A replacement maps the number of a value to what stands in  *)
(* its place, and is followed to its end.                                  *)

None == <<>>
Replaced(repl, n, o) == [k \in DOMAIN repl \cup {n} |-> IF k = n THEN o ELSE repl[k]]

RECURSIVE Resolve(_, _)
Resolve(repl, o) == IF o.var /\ o.n \in DOMAIN repl THEN Resolve(repl, repl[o.n]) ELSE o

ResolveAll(repl, operands) == [k \in DOMAIN operands |-> Resolve(repl, operands[k])]
MapOperation(repl, o) == [o EXCEPT !.ins = ResolveAll(repl, @)]
MapPhi(repl, phi) ==
    [phi EXCEPT !.incoming = [k \in DOMAIN @ |-> <<@[k][1], Resolve(repl, @[k][2])>>]]

\* The results a tail call defines are returned as they are.
MapTerminator(repl, t) ==
    LET own == IF t.call = <<>> THEN {} ELSE ToSet(t.call[1].out) IN
    [t EXCEPT !.ins = ResolveAll(repl, @),
              !.call = [k \in DOMAIN @ |-> MapOperation(repl, @[k])],
              !.values = [k \in DOMAIN @ |-> IF @[k] \in own THEN @[k] ELSE Resolve(repl, @[k])]]

Substitute(f, repl) ==
    IF repl = None THEN f
    ELSE [f EXCEPT !.blocks = [b \in DOMAIN @ |->
            [@[b] EXCEPT !.phis = [k \in DOMAIN @ |-> MapPhi(repl, @[k])],
                         !.ops = [k \in DOMAIN @ |-> MapOperation(repl, @[k])],
                         !.term = MapTerminator(repl, @)]]]

Outputs(ops) == FlattenSeq([k \in DOMAIN ops |-> ops[k].out])
BlockDefines(b) ==
    [k \in DOMAIN b.phis |-> b.phis[k].out] \o Outputs(b.ops) \o Outputs(b.term.call)
InputValues(f) == [k \in DOMAIN f.inputs |-> f.inputs[k].value]
Defines(f) ==
    InputValues(f) \o FlattenSeq([b \in DOMAIN f.blocks |-> BlockDefines(f.blocks[b])])

\* Dense numbers in definition order.
Renumber(f) ==
    LET defined == Defines(f)
        fresh == [n \in {v.n : v \in ToSet(defined)} |->
                    LET k == CHOOSE k \in DOMAIN defined :
                                defined[k].n = n /\ \A j \in 1..k - 1 : defined[j].n # n
                    IN Cardinality({defined[j].n : j \in 1..k - 1})]
        New(o) == IF o.var THEN Var(fresh[o.n], o.w) ELSE o
        NewAll(os) == [k \in DOMAIN os |-> New(os[k])]
        NewOperation(o) == [o EXCEPT !.ins = NewAll(@), !.out = NewAll(@)] IN
    [f EXCEPT !.inputs = [k \in DOMAIN @ |-> [@[k] EXCEPT !.value = New(@)]],
              !.blocks = [b \in DOMAIN @ |->
        [@[b] EXCEPT !.phis = [k \in DOMAIN @ |->
                        [out |-> New(@[k].out),
                         incoming |-> [j \in DOMAIN @[k].incoming |->
                            <<@[k].incoming[j][1], New(@[k].incoming[j][2])>>]]],
                     !.ops = [k \in DOMAIN @ |-> NewOperation(@[k])],
                     !.term = [@ EXCEPT !.ins = NewAll(@), !.values = NewAll(@),
                                        !.call = [k \in DOMAIN @ |-> NewOperation(@[k])]]]]]

-------------------------------------------------------------------------------
(* Control flow.                                                           *)

RECURSIVE Visit(_, _, _)
Visit(succ, b, st) ==
    LET into == FoldLeft(LAMBDA s, c : IF c \in s.seen THEN s ELSE Visit(succ, c, s),
                         [st EXCEPT !.seen = @ \cup {b}], succ[b])
    IN [into EXCEPT !.post = <<b>> \o @]

ReversePostorder(succ) == Visit(succ, 1, [seen |-> {}, post |-> <<>>]).post

Succ(f) == [b \in DOMAIN f.blocks |-> Successors(f.blocks[b].term)]
Preds(succ, b) == {p \in DOMAIN succ : b \in ToSet(succ[p])}

RECURSIVE Reaching(_, _, _)
Reaching(succ, avoid, seen) ==
    LET more == seen \cup UNION {ToSet(succ[b]) \ avoid : b \in seen} IN
    IF more = seen THEN seen ELSE Reaching(succ, avoid, more)

ReachableBlocks(succ) == Reaching(succ, {}, {1})
\* Whether every way to b leads through d; only for a block something reaches.
DominatedBy(succ, d, b) == b = d \/ d = 1 \/ b \notin Reaching(succ, {d}, {1})
ImmediateDominator(succ, b) ==
    LET strict == {d \in ReachableBlocks(succ) \ {b} : DominatedBy(succ, d, b)} IN
    CHOOSE d \in strict : \A e \in strict : DominatedBy(succ, e, d)
===============================================================================
