-------------------------------- MODULE Machine -------------------------------
(***************************************************************************)
(* Running RevIR on numbers (execution/interpreter.py), and, to compare    *)
(* with, running the p-code itself the way the processor would.            *)
(*                                                                         *)
(* A world is [mem, trace, events, end, fuel]: the bytes of memory, the    *)
(* instructions met (one entry for a run of the same one), the imports     *)
(* called with what they read, and how the run ended ("" while it goes     *)
(* on).  What an import does to memory and registers is fixed by the       *)
(* program and by how many were called before, so that two runs that call  *)
(* the same imports with the same arguments get the same answers.          *)
(***************************************************************************)
EXTENDS Slicing, Lift

BytesOf(n, count) == [k \in 1..count |-> (n \div 2^(Byte * (k - 1))) % 2^Byte]
NumberOf(bytes) == FoldLeft(LAMBDA s, k : s + bytes[k] * 2^(Byte * (k - 1)), 0, [k \in DOMAIN bytes |-> k])

Places(a, count) == [k \in 1..count |-> a + k - 1]
Mapped(w, a, count) == \A k \in 1..count : Places(a, count)[k] \in DOMAIN w.mem
LoadNumber(w, a, count) == NumberOf([k \in 1..count |-> w.mem[Places(a, count)[k]]])
StoreNumber(w, a, n, count) ==
    [w EXCEPT !.mem = [p \in DOMAIN @ |->
        LET at == {k \in 1..count : Places(a, count)[k] = p} IN
        IF at = {} THEN @[p] ELSE BytesOf(n, count)[CHOOSE k \in at : TRUE]]]

Ended(w) == w.end # ""
Stop(w, end) == [w EXCEPT !.end = end]
Observe(w, at) ==
    IF w.trace # <<>> /\ Last(w.trace) = at THEN w ELSE [w EXCEPT !.trace = Append(@, at)]
\* RunOps burns for the end of a block as well as for each operation, so that a run round
\* empty blocks ends; the interpreter counts operations only.
Burn(w) == IF w.fuel = 0 THEN Stop(w, "fuel") ELSE [w EXCEPT !.fuel = @ - 1]

\* An import: it reads registers, may write a byte through one, and leaves what
\* it may clobber changed, the stack pointer past the return address.
CallImport(m, w, import, registers) ==
    LET reads == (IF import \in DOMAIN m.imports THEN m.imports[import] ELSE m.convention.reads)
        event == <<import, [r \in reads \cap m.registers |-> registers[r]]>>
        sp == m.convention.stackPointer
        count == Len(w.events) + 1
        through == IF import \in DOMAIN m.writing THEN {registers[m.writing[import]]} ELSE {}
        wrote == FoldLeft(LAMBDA c, a : StoreNumber(c, a, count, 1),
                          [w EXCEPT !.events = Append(@, event)], SetToSeq(through))
    IN IF \E a \in through : ~Mapped(w, a, 1)
       THEN [w |-> Stop([w EXCEPT !.events = Append(@, event)], "fault"), registers |-> <<>>]
       ELSE [w |-> wrote,
             registers |-> [r \in m.convention.clobbers \cap m.registers |->
                IF r = sp THEN (registers[r] + (PointerWidth \div Byte)) % 2^PointerWidth
                ELSE (2 * count + r + 1) % 2^m.widths[r]]]

-------------------------------------------------------------------------------
(* RevIR.  Values not computed because their operation is skipped are not  *)
(* in `values`; a run that needs one ends "unknown".                       *)

Known(values, o) == ~o.var \/ o.n \in DOMAIN values
AllKnown(values, os) == \A k \in DOMAIN os : Known(values, os[k])
ValueOf(values, o) == IF o.var THEN values[o.n] ELSE o.n
Bound(values, outs, results) ==
    [n \in DOMAIN values \cup {o.n : o \in ToSet(outs)} |->
        IF \E k \in DOMAIN outs : outs[k].n = n
        THEN results[CHOOSE k \in DOMAIN outs : outs[k].n = n] % 2^outs[CHOOSE k \in DOMAIN outs : outs[k].n = n].w
        ELSE values[n]]
Unbound(values, outs) == [n \in DOMAIN values \ {o.n : o \in ToSet(outs)} |-> values[n]]

EvaluatePure(st, o) ==
    LET ins == [k \in DOMAIN o.ins |-> Const(ValueOf(st.values, o.ins[k]), o.ins[k].w)] IN
    IF o.op \in Division /\ ins[2].n = 0 THEN [st EXCEPT !.w = Stop(@, "fault")]
    ELSE [st EXCEPT !.values = Bound(@, o.out, <<PureValue([o EXCEPT !.ins = ins])>>)]

EvaluateMemory(st, o) ==
    LET a == ValueOf(st.values, o.ins[1])
        count == (IF o.op = "load" THEN o.out[1].w ELSE o.ins[2].w) \div Byte IN
    IF ~Mapped(st.w, a, count) THEN [st EXCEPT !.w = Stop(@, "fault")]
    ELSE IF o.op = "load"
         THEN [st EXCEPT !.values = Bound(@, o.out, <<LoadNumber(st.w, a, count)>>)]
    ELSE [st EXCEPT !.w = StoreNumber(@, a, ValueOf(st.values, o.ins[2]), count)]

\* A skipped call only pops its return address.
EvaluateSkipped(m, st, o) ==
    LET sp == m.convention.stackPointer
        kept == {k \in DOMAIN o.results : o.results[k] = sp}
        from == Carried(o.args, Arguments(o), sp)
        bare == Unbound(st.values, o.out)
    IN [st EXCEPT !.values =
          IF o.op # "call" \/ kept = {} \/ from = {} THEN bare
          ELSE Bound(bare, <<o.out[Single(kept)]>>,
                     <<ValueOf(st.values, Single(from)) + (PointerWidth \div Byte)>>)]

RECURSIVE RunFunction(_, _, _, _, _, _)
RECURSIVE RunBlocks(_, _, _, _, _, _, _)

\* What a call gave: registers it says nothing of keep what they were passed with.
\* Only the outermost function may return values that were skipped.
Called(m, st, o, at, args, result) ==
    LET missing == ~Ended(result.w) /\ at \in DOMAIN m.functions /\
                   DOMAIN result.registers # ToSet(m.functions[at].outputs)
        Result(r) == IF r \in DOMAIN result.registers THEN result.registers[r]
                     ELSE IF r \in DOMAIN args THEN args[r] ELSE 0
    IN [st EXCEPT !.w = IF missing THEN Stop(result.w, "unknown") ELSE result.w,
                  !.values = Bound(@, o.out, [k \in DOMAIN o.results |-> Result(o.results[k])])]

\* A call to a function, an import, or nothing known.  A function must come
\* back to the return address on top of the stack, when the call passes the stack.
RunCall(m, skip, st, o, expected) ==
    LET args == [r \in ToSet(o.args) |->
                    ValueOf(st.values, Single(Carried(o.args, Arguments(o), r)))]
        at == IF o.target.kind = "indirect" THEN ValueOf(st.values, o.ins[1]) ELSE o.target.at
        sp == m.convention.stackPointer
        pushed == IF expected # <<>> THEN expected[1]
                  ELSE IF sp \in DOMAIN args THEN <<LoadNumber(st.w, args[sp], PointerWidth \div Byte)>>
                  ELSE <<>>
    IN Called(m, st, o, at, args,
              IF at \in DOMAIN m.functions THEN RunFunction(m, skip, at, args, st.w, pushed)
              ELSE IF at \in m.externals THEN CallImport(m, st.w, at, args)
              ELSE [w |-> Stop(st.w, "unknown"), registers |-> <<>>])

Evaluate(m, skip, st, o, site) ==
    CASE site \in skip -> EvaluateSkipped(m, st, o)
      [] site \notin skip /\ ~AllKnown(st.values, o.ins) -> [st EXCEPT !.w = Stop(@, "unknown")]
      [] o.op \in Pure -> EvaluatePure(st, o)
      [] o.op \in {"load", "store"} -> EvaluateMemory(st, o)
      [] o.op = "call" -> RunCall(m, skip, st, o, <<>>)
      [] o.op = "unsupported" -> [st EXCEPT !.w = Stop(@, "refused")]

ObserveFrom(w, starts, from, to) ==
    FoldLeft(LAMBDA c, s : IF s[2] >= from /\ s[2] <= to THEN Observe(c, s[1]) ELSE c, w, starts)

RunOps(m, skip, f, b, st) ==
    LET block == f.blocks[b]
        One(s, k) ==
            LET seen == [s EXCEPT !.w = Burn(ObserveFrom(s.w, block.starts, k - 1, k - 1))] IN
            IF Ended(s.w) THEN s
            ELSE IF Ended(seen.w) THEN seen
            ELSE Evaluate(m, skip, seen, block.ops[k], <<f.entry, b, k>>)
        done == FoldLeft(One, st, [k \in DOMAIN block.ops |-> k])
    IN IF Ended(done.w) THEN done
       ELSE [done EXCEPT !.w = Burn(ObserveFrom(@, block.starts, Len(block.ops), Len(block.ops)))]

\* Phis take their values at once, from the block control came from.
EnterBlock(st, block, from) ==
    LET outs == [k \in DOMAIN block.phis |-> block.phis[k].out]
        Taken(phi) == Single({i[2] : i \in {i \in ToSet(phi.incoming) : i[1] = from}})
        taken == [k \in DOMAIN block.phis |-> Taken(block.phis[k])]
        known == SelectSeq([k \in DOMAIN taken |-> k], LAMBDA k : Known(st.values, taken[k]))
    IN [st EXCEPT !.values = Bound(Unbound(@, outs), [k \in DOMAIN known |-> outs[known[k]]],
                                   [k \in DOMAIN known |-> ValueOf(st.values, taken[known[k]])])]

\* The registers a function returns, of the values that are known.
Results(f, t, st) ==
    LET Value(r) == Single(Carried(f.outputs, t.values, r)) IN
    [r \in {r \in ToSet(f.outputs) : Known(st.values, Value(r))} |-> ValueOf(st.values, Value(r))]
Finish(f, t, st) == [w |-> st.w, registers |-> IF Ended(st.w) THEN <<>> ELSE Results(f, t, st)]
Dead(st, end) == [w |-> Stop(st.w, end), registers |-> <<>>]

\* Where the terminator goes on to; nowhere when it leaves the function.
Chosen(t, v) ==
    CASE t.op = "jump" -> {t.to[1]}
      [] t.op = "branch" -> {t.to[IF v # 0 THEN 1 ELSE 2]}
      [] t.op = "indirect" ->
            {t.to[k] : k \in {k \in DOMAIN t.cases : t.cases[k] = v /\ \A j \in 1..k - 1 : t.cases[j] # v}}
      [] OTHER -> {}

LeaveBlock(m, skip, f, b, st, expected) ==
    LET t == f.blocks[b].term
        v == ValueOf(st.values, t.ins[1])
        to == Chosen(t, v)
    IN CASE Ended(st.w) -> [w |-> st.w, registers |-> <<>>]
         [] ~Ended(st.w) /\ ~AllKnown(st.values, t.ins) -> Dead(st, "unknown")
         [] t.op = "return" ->
                IF t.ins # <<>> /\ expected # <<>> /\ v # expected[1] THEN Dead(st, "mismatch")
                ELSE Finish(f, t, st)
         [] t.op = "tailcall" -> Finish(f, t, RunCall(m, skip, st, t.call[1], <<expected>>))
         [] OTHER ->
                IF to # {} THEN RunBlocks(m, skip, f, Single(to), b, st, expected)
                ELSE Dead(st, IF t.op = "indirect" THEN "unresolved" ELSE t.op)

RunBlocks(m, skip, f, b, from, st, expected) ==
    LeaveBlock(m, skip, f, b, RunOps(m, skip, f, b, EnterBlock(st, f.blocks[b], from)), expected)

RunFunction(m, skip, entry, registers, w, expected) ==
    LET f == m.functions[entry]
        inputs == [k \in DOMAIN f.inputs |-> f.inputs[k].value]
        values == Bound(<<>>, inputs,
                        [k \in DOMAIN inputs |->
                            IF f.inputs[k].reg \in DOMAIN registers THEN registers[f.inputs[k].reg] ELSE 0])
    IN RunBlocks(m, skip, f, 1, 0, [values |-> values, w |-> w], expected)

\* What a caller outside may see of a run: how it ended, memory, the registers
\* the convention lets it look at, the instructions and the imports' calls.
Outcome(m, result, given) ==
    [end |-> IF result.w.end = "" THEN "return" ELSE result.w.end,
     mem |-> result.w.mem, trace |-> result.w.trace, events |-> result.w.events,
     registers |-> [r \in m.convention.observed \cap m.registers |->
                      IF r \in DOMAIN result.registers THEN result.registers[r] ELSE given[r]]]

RunIr(m, skip, entry, given, w) == Outcome(m, RunFunction(m, skip, entry, given, w, <<>>), given)

-------------------------------------------------------------------------------
(* The processor, running p-code: `s` is [p, bytes, frames, w], the bytes  *)
(* of registers and temporaries by <<space, offset>>, and the callers.     *)

Held(s, v) == v.space \in {"const", "ram"} \/
              \A k \in 0..v.size - 1 : <<v.space, v.off + k>> \in DOMAIN s.bytes
Readable(s, v) == v.space = "ram" => Mapped(s.w, v.off, v.size)
Fetch(s, v) ==
    CASE v.space = "const" -> v.off % 2^(Byte * v.size)
      [] v.space = "ram" -> LoadNumber(s.w, v.off, v.size)
      [] OTHER -> NumberOf([k \in 1..v.size |-> s.bytes[<<v.space, v.off + k - 1>>]])
Put(s, v, n) ==
    IF v.space = "ram"
    THEN IF Mapped(s.w, v.off, v.size) THEN [s EXCEPT !.w = StoreNumber(@, v.off, n, v.size)]
         ELSE [s EXCEPT !.w = Stop(@, "fault")]
    ELSE LET places == {<<v.space, v.off + k>> : k \in 0..v.size - 1} IN
         [s EXCEPT !.bytes = [p \in DOMAIN @ \cup places |->
            IF p \in places THEN BytesOf(n, v.size)[p[2] - v.off + 1] ELSE @[p]]]

RegistersOf(s, groups) ==
    [r \in {g[1] : g \in ToSet(groups)} |->
        Fetch(s, CHOOSE v \in {Varnode("register", g[1], g[2]) : g \in ToSet(groups)} : v.off = r)]

\* Where control goes, or how the run ends.
Go(s, p) == [s EXCEPT !.p = p]
End(s, end) == [s EXCEPT !.w = Stop(@, end)]

\* Registers as an import leaves them.
AfterImport(m, groups, s, import) ==
    LET called == CallImport(m, s.w, import, RegistersOf(s, groups)) IN
    FoldLeft(LAMBDA c, g : IF g[1] \in DOMAIN called.registers
                           THEN Put(c, Varnode("register", g[1], g[2]), called.registers[g[1]])
                           ELSE c,
             [s EXCEPT !.w = called.w], groups)

Return(s, to) ==
    LET frame == Last(s.frames) IN
    IF s.frames = <<>> THEN End(s, "return")
    ELSE IF to # frame.expected THEN End(s, "mismatch")
    ELSE IF frame.halt THEN End(s, "halt")
    ELSE Go([s EXCEPT !.frames = Front(@), !.function = frame.function], frame.back)

\* The word on top of the stack.
OnTop(m, groups, s) ==
    LoadNumber(s.w, RegistersOf(s, groups)[m.convention.stackPointer], PointerWidth \div Byte)

EnterCall(prog, m, groups, s, a, back, halt) ==
    LET at == CallTarget(prog, a).at
        imported == AfterImport(m, groups, s, at)
        frame == [back |-> back, halt |-> halt, function |-> s.function,
                  expected |-> OnTop(m, groups, s)]
    IN IF at \in m.externals
       THEN IF Ended(imported.w) THEN imported
            ELSE IF halt THEN End(imported, "halt") ELSE Go(imported, back)
       ELSE IF at \notin Liftable(prog) THEN End(s, "unknown")
       ELSE Go([s EXCEPT !.frames = Append(@, frame), !.function = at], <<at, 0>>)

\* A jump into another function leaves the caller's frame for it to return to.
JumpAway(prog, m, groups, s, a) ==
    LET at == CallTarget(prog, a).at
        imported == AfterImport(m, groups, s, at)
    IN IF at \in m.externals
       THEN IF Ended(imported.w) THEN imported ELSE Return(imported, OnTop(m, groups, s))
       ELSE IF at \notin Liftable(prog) THEN End(s, "unknown")
       ELSE Go([s EXCEPT !.function = at], <<at, 0>>)

StepOp(prog, m, groups, s) ==
    LET op == OpAt(prog, s.p)
        next == NextPoint(prog, s.p)
        ins == [k \in DOMAIN op.ins |-> Fetch(s, op.ins[k])]
        Leave(a) == IF Foreign(prog, s.function, a) THEN JumpAway(prog, m, groups, s, a)
                    ELSE Go(s, <<a, 0>>)
        To(target) == IF target.space = "const" THEN Go(s, <<s.p[1], s.p[2] + target.off>>)
                      ELSE Leave(target.off)
        count == IF op.out = <<>> THEN op.ins[3].size ELSE op.out[1].size
        pure == Operation(op.code, <<Var(0, op.out[1].size * Byte)>>,
                          [k \in DOMAIN op.ins |-> Const(ins[k], op.ins[k].size * Byte)], 0)
        Needed == IF op.code \in {"branch", "call"} THEN <<>>
                  ELSE IF op.code = "cbranch" THEN <<op.ins[2]>> ELSE op.ins
    IN IF \E k \in DOMAIN Needed : ~Held(s, Needed[k]) THEN End(s, "refused")
       ELSE IF \E k \in DOMAIN Needed : ~Readable(s, Needed[k]) THEN End(s, "fault")
       ELSE CASE op.code \in Division /\ ins[2] = 0 -> End(s, "fault")
              [] op.code = "subpiece" ->
                    Go(Put(s, op.out[1], SubpieceValue(ins[1], ins[2] * Byte, op.out[1].size * Byte)), next)
              [] op.code \in Pure \ {"subpiece"} /\ ~(op.code \in Division /\ ins[2] = 0) ->
                    Go(Put(s, op.out[1], PureValue(pure)), next)
              [] op.code = "load" ->
                    IF Mapped(s.w, ins[2], count) THEN Go(Put(s, op.out[1], LoadNumber(s.w, ins[2], count)), next)
                    ELSE End(s, "fault")
              [] op.code = "store" ->
                    IF Mapped(s.w, ins[2], count) THEN Go([s EXCEPT !.w = StoreNumber(@, ins[2], ins[3], count)], next)
                    ELSE End(s, "fault")
              [] op.code = "branch" -> To(op.ins[1])
              [] op.code = "cbranch" -> IF ins[2] # 0 THEN To(op.ins[1]) ELSE Go(s, next)
              [] op.code = "branchind" ->
                    IF ins[1] \in ToSet(prog.code[s.p[1]].flows) THEN Leave(ins[1]) ELSE End(s, "unresolved")
              [] op.code = "call" ->
                    EnterCall(prog, m, groups, s, op.ins[1].off, next, op.ins[1].off \in prog.noReturn)
              [] op.code = "callind" -> EnterCall(prog, m, groups, s, ins[1], next, FALSE)
              [] op.code = "return" -> Return(s, ins[1])
              [] OTHER -> End(s, "refused")

RECURSIVE RunPcode(_, _, _, _)
RunPcode(prog, m, groups, s) ==
    LET at == Canonical(prog, s.p)
        here == [s EXCEPT !.p = at, !.w = Burn(Observe(@, at[1]))]
    IN IF Ended(s.w) THEN s
       ELSE IF ~HasOp(prog, at) THEN End(s, "stop")
       ELSE IF Ended(here.w) THEN here
       ELSE RunPcode(prog, m, groups, StepOp(prog, m, groups, here))

\* Entering a function with its registers holding what is given.
Enter(prog, m, groups, entry, given, w) ==
    FoldLeft(LAMBDA s, g : Put(s, Varnode("register", g[1], g[2]), given[g[1]]),
             [p |-> <<entry, 0>>, bytes |-> <<>>, frames |-> <<>>, function |-> entry, w |-> w],
             groups)

Settled(m, groups, s, given) ==
    Outcome(m, [w |-> s.w, registers |-> IF s.w.end = "return" THEN RegistersOf(s, groups) ELSE <<>>],
            given)
RunProcessor(prog, m, entry, given, w) ==
    LET groups == RegisterGroups(prog) IN
    Settled(m, groups, RunPcode(prog, m, groups, Enter(prog, m, groups, entry, given, w)), given)
===============================================================================
