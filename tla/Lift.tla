--------------------------------- MODULE Lift ---------------------------------
(***************************************************************************)
(* Raw p-code to RevIR for one function (lift/ssa.py): SSA construction on *)
(* demand, after Braun et al.  Reading a variable looks for its value in   *)
(* the block, then up the predecessors, and leaves a phi where they join;  *)
(* a block some predecessor of which is still to be filled is not sealed,  *)
(* and its phis get their operands when it is.                             *)
(*                                                                         *)
(* A builder b carries what FunctionBuilder does: `ctx` (the program, its  *)
(* register groups and the control flow), the next value's number, the     *)
(* current value of a variable in a block, the phis without operands yet   *)
(* (`incomplete`), the sealed blocks, every phi, the phis that use one,    *)
(* what a removed phi stands for, the values the function is entered with, *)
(* and the operations, instruction starts and terminator of each block.    *)
(* A variable is <<space, offset, size>>; what reads returns a record of   *)
(* the builder after it and the value.                                     *)
(***************************************************************************)
EXTENDS Recovery

Register == "register"
Temporary == "unique"
Key(space, range) == <<space, range[1], range[2]>>
WidthOf(key) == Byte * key[3]

PredsOf(b, block) == SetToSortSeq(Preds(b.ctx.cfg.succ, block), <)

\* A number for a new value is the last one given out plus one.
Fresh(b) == [b EXCEPT !.next = @ + 1]
NewVar(b, w) == Var(b.next + 1, w)

Current(b, v, block) ==
    IF <<v, block>> \in DOMAIN b.current THEN <<Resolve(b.repl, b.current[<<v, block>>])>> ELSE <<>>
WriteVariable(b, v, block, value) ==
    [b EXCEPT !.current = Replaced(@, <<v, block>>, value)]

EntryValue(b, v) ==
    IF v \in DOMAIN b.inputs THEN [b |-> b, value |-> b.inputs[v]]
    ELSE LET value == NewVar(b, WidthOf(v)) IN
         [b |-> [Fresh(b) EXCEPT !.inputs = Replaced(@, v, value)], value |-> value]

NewPhi(b, v, block) ==
    [Fresh(b) EXCEPT !.phis = Replaced(@, b.next + 1,
        [block |-> block, key |-> v, incoming |-> <<>>, removed |-> FALSE])]

\* A phi all of whose operands are itself or one value is that value; with no
\* value at all the variable is what the function was entered with.  The phis
\* that use a removed one are looked at again.
RECURSIVE TryRemoveTrivial(_, _)
TryRemoveTrivial(b, n) ==
    LET phi == b.phis[n]
        this == Var(n, WidthOf(phi.key))
        others == {Resolve(b.repl, i[2]) : i \in ToSet(phi.incoming)} \ {this}
        same == IF others = {} THEN EntryValue(b, phi.key)
                ELSE [b |-> b, value |-> CHOOSE o \in others : TRUE]
        removed == [same.b EXCEPT !.phis[n].removed = TRUE, !.repl = Replaced(@, n, same.value)]
        users == IF n \in DOMAIN b.users THEN b.users[n] ELSE <<>>
    IN IF Cardinality(others) > 1 THEN [b |-> b, value |-> this]
       ELSE [b |-> FoldLeft(LAMBDA c, u : IF c.phis[u].removed THEN c ELSE TryRemoveTrivial(c, u).b,
                            removed, users),
             value |-> same.value]

AddOperand(read, pred, n) ==
    LET m == read.value.n
        phi == read.value.var /\ m \in DOMAIN read.b.phis
    IN [read.b EXCEPT
          !.phis[n].incoming = Append(@, <<pred, read.value>>),
          !.users = IF phi THEN Replaced(@, m, (IF m \in DOMAIN @ THEN @[m] ELSE <<>>) \o <<n>>) ELSE @]

Remembered(read, v, block) ==
    [b |-> WriteVariable(read.b, v, block, read.value), value |-> read.value]

RECURSIVE ReadVariable(_, _, _)
RECURSIVE AddPhiOperands(_, _)
AddPhiOperands(b, n) ==
    TryRemoveTrivial(
        FoldLeft(LAMBDA c, pred : AddOperand(ReadVariable(c, b.phis[n].key, pred), pred, n),
                 b, PredsOf(b, b.phis[n].block)), n)

ReadVariable(b, v, block) ==
    LET known == Current(b, v, block)
        preds == PredsOf(b, block)
        n == b.next + 1
        phi == Var(n, WidthOf(v))
        withPhi == NewPhi(b, v, block)
        read ==
            IF block \notin b.sealed
            THEN [b |-> [withPhi EXCEPT !.incomplete[block] = Append(@, n)], value |-> phi]
            ELSE IF preds = <<>> THEN EntryValue(b, v)
            ELSE IF Len(preds) = 1 THEN ReadVariable(b, v, preds[1])
            ELSE AddPhiOperands(WriteVariable(withPhi, v, block, phi), n)
    IN IF known # <<>> THEN [b |-> b, value |-> known[1]] ELSE Remembered(read, v, block)

Seal(b, block) ==
    LET pending == b.incomplete[block]
        complete == FoldLeft(LAMBDA c, n : AddPhiOperands(c, n).b,
                             [b EXCEPT !.incomplete[block] = <<>>], pending)
    IN [complete EXCEPT !.sealed = @ \cup {block}]

-------------------------------------------------------------------------------
(* Varnodes.                                                               *)

Emit(b, block, o) == [b EXCEPT !.ops[block] = Append(@, o)]
\* A new value of width w, defined by an operation emitted for it.
Define(b, block, op, ins, w, at) ==
    [b |-> Emit(Fresh(b), block, Operation(op, <<NewVar(b, w)>>, ins, at)), value |-> NewVar(b, w)]
Unsupported(b, block, outs, ins, at) ==
    Emit(b, block, Operation("unsupported", outs, ins, at))

Subpiece(b, block, whole, low, w, at) ==
    [b |-> Emit(Fresh(b), block, [Operation("subpiece", <<NewVar(b, w)>>, <<whole>>, at)
                                    EXCEPT !.low = low]),
     value |-> NewVar(b, w)]

Slice(b, block, whole, low, w, at) ==
    IF low = 0 /\ w = whole.w THEN [b |-> b, value |-> whole]
    ELSE IF low = 0 THEN Define(b, block, "trunc", <<whole>>, w, at)
    ELSE Subpiece(b, block, whole, low, w, at)

Slot(b, at, v) == UniqueSlot(b.ctx.prog.code[at].ops, v)

\* The variable a varnode is part of; <<>> for a temporary that has none.
StorageOf(b, at, v) ==
    IF v.space = Register THEN <<Key(Register, GroupOf(b.ctx.groups, v))>>
    ELSE LET slot == Slot(b, at, v) IN
         IF slot = <<>> THEN <<>> ELSE <<Key(Temporary, slot[1])>>

ReadPart(whole, block, v, key, at) ==
    Slice(whole.b, block, whole.value, (v.off - key[2]) * Byte, v.size * Byte, at)
ReadStorage(b, block, v, key, at) ==
    IF key = <<>> THEN Define(b, block, "unsupported", <<>>, v.size * Byte, at)
    ELSE ReadPart(ReadVariable(b, key[1], block), block, v, key[1], at)
ReadVarnode(b, block, v, at) ==
    LET w == v.size * Byte IN
    CASE v.space = "const" -> [b |-> b, value |-> Const(v.off, w)]
      [] v.space = "ram" -> Define(b, block, "load", <<Const(v.off, PointerWidth)>>, w, at)
      [] OTHER -> ReadStorage(b, block, v, StorageOf(b, at, v), at)

\* Writing a part of a register keeps the bits below it and above it.
JoinBelow(old, block, value, low, at) ==
    LET below == Define(old.b, block, "trunc", <<old.value>>, low, at) IN
    IF low = 0 THEN [b |-> old.b, value |-> value]
    ELSE Define(below.b, block, "piece", <<value, below.value>>, value.w + low, at)
JoinAbove(joined, block, old, w, at) ==
    LET above == Subpiece(joined.b, block, old, joined.value.w, w - joined.value.w, at) IN
    IF joined.value.w = w THEN joined
    ELSE Define(above.b, block, "piece", <<above.value, joined.value>>, w, at)
WritePart(old, block, key, v, value, at) ==
    LET low == (v.off - key[2]) * Byte
        whole == JoinAbove(JoinBelow(old, block, value, low, at), block, old.value, WidthOf(key), at)
    IN Remembered(whole, key, block).b

WriteStorage(b, block, v, key, value, at) ==
    CASE key # <<>> /\ key[1][3] = v.size -> WriteVariable(b, key[1], block, value)
      [] v.space = Register /\ key[1][3] # v.size ->
            WritePart(ReadVariable(b, key[1], block), block, key[1], v, value, at)
      [] OTHER -> Unsupported(b, block, <<>>, <<value>>, at)
WriteVarnode(b, block, v, value, at) ==
    IF v.space = "ram"
    THEN Emit(b, block, Operation("store", <<>>, <<Const(v.off, PointerWidth), value>>, at))
    ELSE WriteStorage(b, block, v, StorageOf(b, at, v), value, at)

\* Reading several, one after another.
With(values, read) == [b |-> read.b, values |-> Append(values, read.value)]
ReadAll(b, block, vs, at) ==
    FoldLeft(LAMBDA r, v : With(r.values, ReadVarnode(r.b, block, v, at)), [b |-> b, values |-> <<>>], vs)
ReadRegisters(b, block) ==
    FoldLeft(LAMBDA r, g : With(r.values, ReadVariable(r.b, Key(Register, g), block)),
             [b |-> b, values |-> <<>>], b.ctx.groups)

-------------------------------------------------------------------------------
(* Operations.                                                             *)

\* A value made is written to where the operation says.
Deliver(made, block, op, at) == WriteVarnode(made.b, block, op.out[1], made.value, at)

\* An operation on what was read, whose value is the output.
Compute(read, op, code, block, at) ==
    Define(read.b, block, code, read.values, op.out[1].size * Byte, at)

PartOf(read, op, block, at) ==
    LET low == op.ins[2].off * Byte
        w == op.out[1].size * Byte
    IN IF low = 0 /\ w > read.value.w THEN Subpiece(read.b, block, read.value, low, w, at)
       ELSE Slice(read.b, block, read.value, low, w, at)

\* An operation with no output: a store, or one there is no model of.
Store(read, block, at) == Emit(read.b, block, Operation("store", <<>>, read.values, at))
Refuse(read, block, at) == Unsupported(read.b, block, <<>>, read.values, at)

\* What there is no model of keeps its inputs and output, and running it refuses.
Modelled(op) ==
    /\ op.code \in (Binary \cup Unary \cup {"piece", "load", "store"}) \ {"copy"}
    /\ op.code \in {"load", "store"} => op.ins[2].size * Byte = PointerWidth
Inputs(op) == IF op.code \in {"load", "store", "callother"} THEN Tail(op.ins) ELSE op.ins
LiftOther(b, block, op, at) ==
    LET read == ReadAll(b, block, Inputs(op), at)
        code == IF Modelled(op) THEN op.code ELSE "unsupported"
    IN IF op.out # <<>> THEN Deliver(Compute(read, op, code, block, at), block, op, at)
       ELSE IF code = "store" THEN Store(read, block, at)
       ELSE Refuse(read, block, at)

\* A thunk stands for the function or import it jumps to.
CallTarget(prog, a) ==
    IF a \in DOMAIN prog.thunks THEN prog.thunks[a] ELSE [kind |-> "direct", at |-> a]

\* A call takes and returns the complete register state.
CallWith(read, block, target, address, at) ==
    LET groups == read.b.ctx.groups
        names == [k \in DOMAIN groups |-> groups[k][1]]
        results == [k \in DOMAIN groups |-> Var(read.b.next + k, Byte * groups[k][2])]
        after == FoldLeft(LAMBDA c, k : WriteVariable(c, Key(Register, groups[k]), block, results[k]),
                          [read.b EXCEPT !.next = @ + Len(groups)], [k \in DOMAIN groups |-> k])
    IN [b |-> after,
        call |-> [Operation("call", results, address \o read.values, at)
                    EXCEPT !.target = target, !.args = names, !.results = names]]
MakeCall(b, block, target, address, at) ==
    CallWith(ReadRegisters(b, block), block, target, address, at)

\* The call an instruction makes, before which an indirect one reads its address.
EmitCall(made, block) == Emit(made.b, block, made.call)
CallThrough(read, block, at) ==
    MakeCall(read.b, block, [kind |-> "indirect", at |-> 0], <<read.value>>, at)

LiftOp(b, block, p) ==
    LET op == OpAt(b.ctx.prog, p)
        at == p[1]
        first == ReadVarnode(b, block, op.ins[1], at)
    IN CASE op.code \in {"copy", "subpiece"} ->
                Deliver(IF op.code = "copy" THEN first ELSE PartOf(first, op, block, at), block, op, at)
         [] op.code \in {"call", "callind"} ->
                EmitCall(IF op.code = "call"
                         THEN MakeCall(b, block, CallTarget(b.ctx.prog, op.ins[1].off), <<>>, at)
                         ELSE CallThrough(first, block, at), block)
         [] OTHER -> LiftOther(b, block, op, at)

-------------------------------------------------------------------------------
(* Blocks.                                                                 *)

\* How the block ends, and the builder after reading what its end needs.
Ending(b, term) == [b |-> b, term |-> term]
TestOf(read, exit, to, at) ==
    Ending(read.b, IF exit.kind = "cond" THEN Terminator("branch", <<read.value>>, to, at)
                   ELSE [Terminator("indirect", <<read.value>>, to, at) EXCEPT
                            !.cases = [k \in DOMAIN exit.to |-> exit.to[k][1]]])
Returning(address, registers, at) ==
    Ending(registers.b, [Terminator("return", <<address>>, <<>>, at) EXCEPT !.values = registers.values])
ReturnTo(read, block, at) == Returning(read.value, ReadRegisters(read.b, block), at)
TailCall(made, at) ==
    Ending(made.b, [Terminator("tailcall", <<>>, <<>>, at)
                      EXCEPT !.call = <<made.call>>, !.values = made.call.out])

Terminate(b, block) ==
    LET source == b.ctx.cfg.blocks[block]
        exit == source.exit
        at == IF source.ops = <<>> THEN source.start[1] ELSE Last(source.ops)[1]
        to == [k \in DOMAIN exit.to |-> b.ctx.cfg.at[exit.to[k]]]
        read == ReadVarnode(b, block, exit.ins[1], at)
    IN CASE exit.kind \in {"fall", "goto"} -> Ending(b, Terminator("jump", <<>>, to, at))
         [] exit.kind \in {"cond", "indirect"} -> TestOf(read, exit, to, at)
         [] exit.kind = "return" -> ReturnTo(read, block, at)
         [] exit.kind = "tailcall" ->
                TailCall(MakeCall(b, block, CallTarget(b.ctx.prog, exit.ins[1]), <<>>, at), at)
         [] OTHER -> Ending(b, Terminator(exit.kind, <<>>, <<>>, at))

\* An instruction starts at the operation its first p-code would emit next.
Start(b, block, at) ==
    LET starts == b.starts[block] IN
    IF starts # <<>> /\ Last(starts)[1] = at THEN b
    ELSE [b EXCEPT !.starts[block] = Append(@, <<at, Len(b.ops[block])>>)]

\* The last instruction starts even when nothing but the terminator is left of it.
StartLast(b, block) ==
    LET ops == b.ctx.cfg.blocks[block].ops IN IF ops = <<>> THEN b ELSE Start(b, block, Last(ops)[1])
EndBlock(ended, block) ==
    [ended.b EXCEPT !.terms[block] = ended.term, !.filled = @ \cup {block}]

FillBlock(b, block) ==
    LET source == b.ctx.cfg.blocks[block]
        control == source.exit.kind \in {"goto", "cond", "indirect", "return"} \/
                   (source.exit.kind = "tailcall" /\ source.start[2] >= 0)
        body == IF control /\ source.ops # <<>> THEN Front(source.ops) ELSE source.ops
        lifted == FoldLeft(LAMBDA c, p : LiftOp(Start(c, block, p[1]), block, p), b, body)
    IN EndBlock(Terminate(StartLast(lifted, block), block), block)

Ready(b, block) == block \notin b.sealed /\ Preds(b.ctx.cfg.succ, block) \subseteq b.filled
SealIfReady(b, block) == IF Ready(b, block) THEN Seal(b, block) ELSE b

\* One block of build: sealed first when everything before it is filled, then
\* filled, then the blocks after it that wait for nothing any more are sealed.
BuildBlock(b, block) ==
    FoldLeft(SealIfReady, FillBlock(SealIfReady(b, block), block), b.ctx.cfg.succ[block])

BuilderOf(prog, entry, cfg) ==
    LET blocks == DOMAIN cfg.blocks IN
    [ctx |-> [prog |-> prog, entry |-> entry, cfg |-> cfg, groups |-> RegisterGroups(prog)],
     next |-> 0, current |-> <<>>, incomplete |-> [k \in blocks |-> <<>>], sealed |-> {},
     filled |-> {}, phis |-> <<>>, users |-> <<>>, repl |-> <<>>, inputs |-> <<>>,
     ops |-> [k \in blocks |-> <<>>], starts |-> [k \in blocks |-> <<>>],
     terms |-> [k \in blocks |-> Terminator("stop", <<>>, <<>>, 0)]]

NewBuilder(prog, entry) == BuilderOf(prog, entry, RecoverCfg(prog, entry))

BuildAll(b) == FoldLeft(BuildBlock, b, ReversePostorder(b.ctx.cfg.succ))
SealRest(b) ==
    FoldLeft(LAMBDA c, block : IF block \in c.sealed THEN c ELSE Seal(c, block),
             b, ReversePostorder(b.ctx.cfg.succ))

-------------------------------------------------------------------------------
(* Freezing: the scaffolding becomes a function.                           *)

KeyBefore(k, l) == IF k[1] = l[1] THEN Before(Tail(k), Tail(l)) ELSE k[1] = Register
LivePhis(b, block) ==
    SetToSortSeq({n \in DOMAIN b.phis : b.phis[n].block = block /\ ~b.phis[n].removed},
                 LAMBDA m, n : KeyBefore(b.phis[m].key, b.phis[n].key))

\* Temporaries read before any write refuse to run instead of being inputs.
Undefined(b) ==
    LET keys == SetToSortSeq({k \in DOMAIN b.inputs : k[1] = Temporary}, KeyBefore) IN
    [k \in DOMAIN keys |-> Operation("unsupported", <<b.inputs[keys[k]]>>, <<>>, b.ctx.entry)]

Freeze(b) ==
    LET groups == b.ctx.groups
        read == SelectSeq(groups, LAMBDA g : Key(Register, g) \in DOMAIN b.inputs)
        undefined == Undefined(b)
        PhiOf(n) == [out |-> Var(n, WidthOf(b.phis[n].key)), incoming |-> b.phis[n].incoming]
        Shifted(starts) == [k \in DOMAIN starts |->
            IF starts[k][2] > 0 THEN <<starts[k][1], starts[k][2] + Len(undefined)>> ELSE starts[k]]
        BlockOf(k) ==
            [address |-> b.ctx.cfg.blocks[k].start[1],
             phis |-> LET live == LivePhis(b, k) IN [j \in DOMAIN live |-> PhiOf(live[j])],
             ops |-> IF k = 1 THEN undefined \o b.ops[k] ELSE b.ops[k],
             term |-> b.terms[k],
             starts |-> IF k = 1 THEN Shifted(b.starts[k]) ELSE b.starts[k]]
    IN Renumber(Substitute(
        [entry |-> b.ctx.entry,
         inputs |-> [k \in DOMAIN read |->
                        [reg |-> read[k][1], value |-> b.inputs[Key(Register, read[k])]]],
         outputs |-> [k \in DOMAIN groups |-> groups[k][1]],
         blocks |-> [k \in DOMAIN b.ctx.cfg.blocks |-> BlockOf(k)]], b.repl))
===============================================================================
