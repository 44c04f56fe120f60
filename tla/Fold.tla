--------------------------------- MODULE Fold ---------------------------------
(***************************************************************************)
(* Constant folding, identities exact for the width, and phis that stand   *)
(* for one value (simplify/fold.py).  An operation is simplified knowing   *)
(* the pure operations before it in the order of the flow (`defs`); what   *)
(* comes out is an operation, or the operand it stands for.                *)
(***************************************************************************)
EXTENDS Ir

IsOperand(r) == "var" \in DOMAIN r
Defined(defs, o, ops) == o.var /\ o.n \in DOMAIN defs /\ defs[o.n].op \in ops

Commutative == {"add", "mul", "and", "or", "xor", "eq", "ne", "carry", "scarry",
                "band", "bor", "bxor"}

\* As CombineConstants for add and sub, the operand left as it was.
CombineOntoInner(o, defs) ==
    LET inner == defs[o.ins[1].n]
        total == (IF inner.op = "add" THEN inner.ins[2].n ELSE -inner.ins[2].n) +
                 (IF o.op = "add" THEN o.ins[2].n ELSE -o.ins[2].n)
    IN IF o.ins[2].var \/ ~Defined(defs, o.ins[1], {"add", "sub"}) \/ inner.ins[2].var
          \/ o.op \notin {"add", "sub"} THEN o
       ELSE [o EXCEPT !.op = "add", !.ins = <<@[1], Const(total, o.out[1].w)>>]

\* (x op c1) op c2 becomes x op (c1 op c2); chains of add and sub merge.
CombineConstants(o, defs) ==
    LET inner == defs[o.ins[1].n]
        w == o.out[1].w
        c1 == inner.ins[2].n
        c2 == o.ins[2].n
        total == (IF inner.op = "add" THEN c1 ELSE -c1) + (IF o.op = "add" THEN c2 ELSE -c2)
    IN IF o.ins[2].var \/ ~Defined(defs, o.ins[1], Binary) \/ inner.ins[2].var THEN o
       ELSE IF {o.op, inner.op} \subseteq {"add", "sub"}
            THEN IF total % 2^w = 0 THEN inner.ins[1]
                 ELSE [o EXCEPT !.op = "add", !.ins = <<inner.ins[1], Const(total, w)>>]
       ELSE IF o.op = inner.op /\ o.op \in {"and", "or", "xor", "mul"}
            THEN [o EXCEPT !.ins = <<inner.ins[1], Const(BinaryValue(o.op, c1, c2, w), w)>>]
       ELSE o

SimplifyBinary(o, defs) ==
    LET l == o.ins[1]
        r == o.ins[2]
        w == o.out[1].w
        zero == Is(r, 0)
        one == Is(r, 1)
        full == Is(r, 2^r.w - 1)
        same == l = r
    IN CASE ~l.var /\ ~r.var ->
                IF MayFault(o) THEN o ELSE Const(PureValue(o), w)
         [] zero /\ o.op \in {"add", "sub", "or", "xor"} \cup Shifts -> l
         [] same /\ o.op \in {"sub", "xor"} -> Const(0, w)
         [] same /\ o.op \in {"and", "or"} -> l
         [] zero /\ o.op \in {"and", "mul"} -> Const(0, w)
         [] full /\ o.op = "and" -> l
         [] full /\ o.op = "or" -> Const(2^w - 1, w)
         [] one /\ o.op \in {"mul", "udiv", "sdiv"} -> l
         [] one /\ o.op = "urem" -> Const(0, w)
         [] same /\ o.op \in {"eq", "ule", "sle"} -> Const(1, w)
         [] same /\ o.op \in {"ne", "ult", "slt"} -> Const(0, w)
         [] zero /\ o.op \in {"carry", "scarry", "sborrow", "ult"} -> Const(0, w)
         [] OTHER -> IF ~l.var /\ r.var /\ o.op \in Commutative
                     THEN [o EXCEPT !.ins = <<r, l>>]
                     ELSE CombineConstants(o, defs)

\* The low w bits of an operand, when no new operation is needed for them.
LowPart(o, w, defs) ==
    IF ~o.var THEN <<Const(o.n, w)>>
    ELSE IF Defined(defs, o, {"zext", "sext"}) /\ defs[o.n].ins[1].w = w
         THEN <<defs[o.n].ins[1]>> ELSE <<>>

SimplifyTruncate(o, inner, defs) ==
    LET w == o.out[1].w
        source == inner.ins[1]
        parts == LowPart(source, w, defs) \o LowPart(inner.ins[2], w, defs)
        low == inner.ins[2]
    IN CASE inner.op \in {"zext", "sext", "trunc"} ->
                IF source.w = w THEN source
                ELSE IF source.w > w THEN [o EXCEPT !.ins = <<source>>]
                ELSE [o EXCEPT !.op = inner.op, !.ins = <<source>>]
         [] inner.op \in Arithmetic ->
                IF Len(parts) = 2 THEN [o EXCEPT !.op = inner.op, !.ins = parts] ELSE o
         [] inner.op = "piece" ->
                IF w = low.w THEN low
                ELSE IF w < low.w THEN [o EXCEPT !.ins = <<low>>] ELSE o
         [] OTHER -> o

SimplifyUnary(o, defs) ==
    LET x == o.ins[1]
        inner == defs[x.n]
    IN CASE ~x.var -> Const(PureValue(o), o.out[1].w)
         [] x.var /\ o.op = "copy" -> x
         [] o.op \in {"not", "neg", "bnot"} /\ Defined(defs, x, {o.op}) -> inner.ins[1]
         [] o.op = "trunc" /\ Defined(defs, x, Pure) -> SimplifyTruncate(o, inner, defs)
         [] o.op \in {"zext", "sext"} /\ Defined(defs, x, {o.op}) -> [o EXCEPT !.ins = inner.ins]
         [] OTHER -> o

\* The bits of source from low on, as simply as possible.
Narrow(o, source, low) ==
    LET w == o.out[1].w IN
    IF low = 0 /\ w = source.w THEN source
    ELSE IF low + w > source.w THEN o
    ELSE IF low = 0 THEN [o EXCEPT !.op = "trunc", !.ins = <<source>>, !.low = 0]
    ELSE [o EXCEPT !.ins = <<source>>, !.low = low]

SimplifySubpiece(o, defs) ==
    LET x == o.ins[1]
        w == o.out[1].w
        inner == defs[x.n]
    IN CASE ~x.var -> Const(PureValue(o), w)
         [] x.var /\ o.low = 0 /\ w = x.w -> x
         [] x.var /\ o.low = 0 /\ w < x.w -> [o EXCEPT !.op = "trunc"]
         [] x.var /\ o.low >= x.w -> Const(0, w)
         [] Defined(defs, x, {"piece"}) /\ o.low >= inner.ins[2].w ->
                Narrow(o, inner.ins[1], o.low - inner.ins[2].w)
         [] Defined(defs, x, {"piece"}) /\ o.low + w <= inner.ins[2].w ->
                Narrow(o, inner.ins[2], o.low)
         [] Defined(defs, x, {"zext"}) /\ o.low >= inner.ins[1].w -> Const(0, w)
         [] Defined(defs, x, {"zext"}) /\ o.low + w <= inner.ins[1].w ->
                Narrow(o, inner.ins[1], o.low)
         [] Defined(defs, x, {"subpiece"}) /\ o.low + w <= inner.out[1].w ->
                [o EXCEPT !.ins = inner.ins, !.low = inner.low + o.low]
         [] OTHER -> o

\* Whether low holds the low w bits of source.
LowBitsOf(defs, low, source, w) ==
    /\ Defined(defs, low, {"trunc", "subpiece"})
    /\ defs[low.n].ins[1] = source
    /\ defs[low.n].low = 0
    /\ low.w = w

SimplifyPiece(o, defs) ==
    LET high == o.ins[1]
        low == o.ins[2]
        upper == defs[high.n]
    IN CASE ~high.var /\ ~low.var -> Const(PureValue(o), o.out[1].w)
         [] Is(high, 0) /\ low.var -> [o EXCEPT !.op = "zext", !.ins = <<low>>]
         [] /\ Defined(defs, high, {"subpiece"})
            /\ upper.low = low.w
            /\ upper.ins[1].w = o.out[1].w
            /\ LowBitsOf(defs, low, upper.ins[1], low.w) -> upper.ins[1]
         [] OTHER -> o

SimplifyOperation(o, defs) ==
    CASE o.op \in Binary -> SimplifyBinary(o, defs)
      [] o.op \in Unary -> SimplifyUnary(o, defs)
      [] o.op = "subpiece" -> SimplifySubpiece(o, defs)
      [] o.op = "piece" -> SimplifyPiece(o, defs)
      [] OTHER -> o

-------------------------------------------------------------------------------
(* One pass over the function, and passes until nothing changes.           *)

Incoming(repl, phi) == {Resolve(repl, i[2]) : i \in ToSet(phi.incoming)} \ {phi.out}

FoldPhi(st, phi) ==
    LET values == Incoming(st.repl, phi) IN
    IF Cardinality(values) # 1 THEN st
    ELSE [st EXCEPT !.repl = Replaced(@, phi.out.n, CHOOSE v \in values : TRUE)]

\* An operation that stands for an operand stays, unused, for dce to remove.
Becoming(st, current, result) ==
    IF IsOperand(result)
    THEN [st EXCEPT !.repl = Replaced(@, current.out[1].n, result), !.ops = Append(@, current)]
    ELSE [st EXCEPT !.ops = Append(@, result),
                    !.defs = IF result.op \in Pure THEN Replaced(@, current.out[1].n, result) ELSE @]
FoldOperation(st, o) ==
    LET current == MapOperation(st.repl, o) IN
    Becoming(st, current, SimplifyOperation(current, st.defs))

Filled(st, b) == [st EXCEPT !.blocks[b].ops = st.ops]
FoldBlock(st, b) ==
    LET phis == FoldLeft(FoldPhi, [st EXCEPT !.ops = <<>>], st.blocks[b].phis) IN
    Filled(FoldLeft(FoldOperation, phis, st.blocks[b].ops), b)
Rewritten(f, st) == Substitute([f EXCEPT !.blocks = st.blocks], st.repl)
FoldOnce(f) ==
    Rewritten(f, FoldLeft(FoldBlock, [repl |-> <<>>, defs |-> <<>>, ops |-> <<>>, blocks |-> f.blocks],
                          ReversePostorder(Succ(f))))

IterationLimit == 50
RECURSIVE FoldTimes(_, _, _)
FoldTimes(f, folded, n) ==
    IF n = 0 \/ folded = f THEN f ELSE FoldTimes(folded, FoldOnce(folded), n - 1)
FoldConstants(f) == FoldTimes(f, FoldOnce(f), IterationLimit)
===============================================================================
