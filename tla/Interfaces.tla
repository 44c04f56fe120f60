------------------------------- MODULE Interfaces -----------------------------
(***************************************************************************)
(* Interprocedural narrowing of register interfaces                        *)
(* (simplify/interfaces.py).  The lifter passes every register through     *)
(* every call and return; here each function comes to take only what it    *)
(* reads and to return only what it writes and somebody may look at.       *)
(*                                                                         *)
(* A module is [functions, registers, convention, imports]: the lifted     *)
(* functions by entry, the registers (an offset each), what the calling    *)
(* convention (abi.py) says of code outside the module, and the registers  *)
(* an import is known to read.  What is known of the functions is          *)
(* `known` = [writes, reads, observed], each by entry.                     *)
(***************************************************************************)
EXTENDS Ir

Lifted(m, target) == target.kind = "direct" /\ target.at \in DOMAIN m.functions

CalleeWrites(m, known, target) ==
    IF target.kind = "external" THEN m.convention.clobbers \cap m.registers
    ELSE IF Lifted(m, target) THEN known.writes[target.at] ELSE m.registers
CalleeReads(m, known, target) ==
    IF target.kind = "external"
    THEN m.registers \cap
         (IF target.at \in DOMAIN m.imports THEN m.imports[target.at] ELSE m.convention.reads)
    ELSE IF Lifted(m, target) THEN known.reads[target.at] ELSE m.registers
CalleeOutputs(m, known, target) ==
    IF Lifted(m, target) THEN known.writes[target.at] \cap known.observed[target.at]
    ELSE CalleeWrites(m, known, target)

Calls(f) ==
    FlattenSeq([b \in DOMAIN f.blocks |->
        SelectSeq(f.blocks[b].ops, LAMBDA o : o.op = "call") \o f.blocks[b].term.call])

\* The argument a call passes in a register, and its result there.
Carried(registers, values, r) ==
    {values[k] : k \in {k \in DOMAIN registers : registers[k] = r}}

\* What a call hands back untouched is what it was given, and a phi of one
\* value is that value.
PassedCall(m, known, repl, call) ==
    FoldLeft(LAMBDA s, k :
        LET r == call.results[k]
            given == Carried(call.args, Arguments(call), r) IN
        IF r \in CalleeWrites(m, known, call.target) \/ given = {} THEN s
        ELSE Replaced(s, call.out[k].n, CHOOSE o \in given : TRUE),
        repl, [k \in DOMAIN call.results |-> k])

AllPhis(f) == FlattenSeq([b \in DOMAIN f.blocks |-> f.blocks[b].phis])

PassedPhi(repl, phi) ==
    LET values == {Resolve(repl, i[2]) : i \in ToSet(phi.incoming)} \ {phi.out} IN
    IF phi.out.n \in DOMAIN repl \/ Cardinality(values) # 1 THEN repl
    ELSE Replaced(repl, phi.out.n, CHOOSE v \in values : TRUE)

RECURSIVE PassedPhis(_, _)
PassedPhis(phis, repl) ==
    LET more == FoldLeft(PassedPhi, repl, phis) IN
    IF more = repl THEN repl ELSE PassedPhis(phis, more)

PassThrough(m, known, f) ==
    PassedPhis(AllPhis(f), FoldLeft(LAMBDA s, c : PassedCall(m, known, s, c), <<>>, Calls(f)))

\* The registers some return may give a value they did not have on entry.
ComputeWrites(m, known, f) ==
    LET repl == PassThrough(m, known, f)
        entry(r) == {f.inputs[k].value : k \in {k \in DOMAIN f.inputs : f.inputs[k].reg = r}}
        ends == {b.term : b \in {b \in ToSet(f.blocks) : b.term.op \in {"return", "tailcall"}}}
    IN UNION {{f.outputs[k] : k \in {k \in DOMAIN f.outputs :
                    Resolve(repl, t.values[k]) \notin entry(f.outputs[k])}} : t \in ends}

-------------------------------------------------------------------------------
(* Liveness: what can influence what the function does, given the          *)
(* registers it returns.                                                   *)

CallNeeds(m, known, call) ==
    (IF call.target.kind = "indirect" THEN {call.ins[1]} ELSE {}) \cup
    {Arguments(call)[k] : k \in {k \in DOMAIN call.args :
                                    call.args[k] \in CalleeReads(m, known, call.target)}}

OperationNeeds(m, known, o) ==
    IF o.op = "call" THEN CallNeeds(m, known, o)
    ELSE IF MayFault(o) \/ o.op \in {"load", "store", "unsupported"} THEN ToSet(o.ins) ELSE {}

TerminatorNeeds(m, known, f, t, outputs) ==
    ToSet(t.ins) \cup (UNION {CallNeeds(m, known, c) : c \in ToSet(t.call)}) \cup
    (IF t.op \in {"return", "tailcall"}
     THEN {t.values[k] : k \in {k \in DOMAIN f.outputs : f.outputs[k] \in outputs}} ELSE {})

Needs(m, known, f, outputs) ==
    UNION {(UNION {OperationNeeds(m, known, o) : o \in ToSet(b.ops)}) \cup
           TerminatorNeeds(m, known, f, b.term, outputs) : b \in ToSet(f.blocks)}

\* What each phi and pure operation is computed from.
Sources(f) ==
    UNION {{[of |-> phi.out.n, from |-> {i[2] : i \in ToSet(phi.incoming)}] : phi \in ToSet(b.phis)} \cup
           {[of |-> o.out[1].n, from |-> ToSet(o.ins)] : o \in {o \in ToSet(b.ops) : o.op \in Pure}}
             : b \in ToSet(f.blocks)}

Numbers(repl, operands) == {o.n : o \in {o \in {Resolve(repl, p) : p \in operands} : o.var}}

RECURSIVE LiveFrom(_, _, _)
LiveFrom(sources, repl, live) ==
    LET more == live \cup UNION {Numbers(repl, s.from) : s \in {s \in sources : s.of \in live}} IN
    IF more = live THEN live ELSE LiveFrom(sources, repl, more)

ReturnedBy(known, entry) == known.writes[entry] \cap known.observed[entry]

Live(m, known, f) ==
    LET repl == PassThrough(m, known, f) IN
    LiveFrom(Sources(f), repl, Numbers(repl, Needs(m, known, f, ReturnedBy(known, f.entry))))

ReadsOf(f, live) == {f.inputs[k].reg : k \in {k \in DOMAIN f.inputs : f.inputs[k].value.n \in live}}
\* The results of calls to the function at entry that something here looks at.
Observes(f, live, entry) ==
    UNION {{c.results[k] : k \in {k \in DOMAIN c.results : c.out[k].n \in live}}
             : c \in {c \in ToSet(Calls(f)) : c.target.kind = "direct" /\ c.target.at = entry}}

-------------------------------------------------------------------------------
(* solve: both fixpoints, function by function in order.                   *)

RECURSIVE SolveWrites(_, _, _)
SolveWrites(m, entries, known) ==
    LET Step(k, e) == [k EXCEPT !.writes[e] = ComputeWrites(m, k, m.functions[e])]
        more == FoldLeft(Step, known, entries)
    IN IF more = known THEN known ELSE SolveWrites(m, entries, more)

RECURSIVE SolveReads(_, _, _)
SolveReads(m, entries, known) ==
    LET Step(k, e) ==
            LET f == m.functions[e]
                live == Live(m, k, f) IN
            [k EXCEPT !.reads[e] = ReadsOf(f, live),
                      !.observed = [c \in DOMAIN @ |-> @[c] \cup Observes(f, live, c)]]
        more == FoldLeft(Step, known, entries)
    IN IF more = known THEN known ELSE SolveReads(m, entries, more)

SolveInterfaces(m) ==
    LET entries == SetToSortSeq(DOMAIN m.functions, <)
        none == [e \in DOMAIN m.functions |-> {}]
        start == [writes |-> none, reads |-> none,
                  observed |-> [e \in DOMAIN m.functions |->
                                  m.convention.observed \cap m.registers]]
    IN SolveReads(m, entries, SolveWrites(m, entries, start))

-------------------------------------------------------------------------------
(* rewrite.                                                                *)

Ordered(registers) == SetToSortSeq(registers, <)
Single(values) == CHOOSE v \in values : TRUE

\* Results of an import nobody looks at are dropped where it is called.
RewriteCall(m, known, repl, call, live) ==
    LET reads == Ordered(CalleeReads(m, known, call.target))
        kept == {r \in CalleeOutputs(m, known, call.target) \cap ToSet(call.results) :
                    call.target.kind = "external" =>
                        \E v \in Carried(call.results, call.out, r) : v.n \in live}
        results == Ordered(kept)
    IN [call EXCEPT
          !.args = reads,
          !.ins = (IF call.target.kind = "indirect" THEN <<Resolve(repl, call.ins[1])>> ELSE <<>>) \o
                  [k \in DOMAIN reads |->
                      Resolve(repl, Single(Carried(call.args, Arguments(call), reads[k])))],
          !.results = results,
          !.out = [k \in DOMAIN results |-> Single(Carried(call.results, call.out, results[k]))]]

RewriteTerminator(m, known, repl, f, t, outputs) ==
    LET values == [k \in DOMAIN outputs |-> Resolve(repl, Single(Carried(f.outputs, t.values, outputs[k])))]
    IN [t EXCEPT !.ins = ResolveAll(repl, @),
                 !.values = IF t.op \in {"return", "tailcall"} THEN values ELSE @,
                 !.call = [k \in DOMAIN @ |->
                             RewriteCall(m, known, repl, @[k], {v.n : v \in ToSet(@[k].out)})]]

Rewrite(m, known, f) ==
    LET outputs == Ordered(ReturnedBy(known, f.entry))
        live == Live(m, known, f)
        repl == PassThrough(m, known, f)
        Kept(o) == o.op \notin Pure \/ MayFault(o) \/ o.out[1].n \in live
        RewriteOperation(o) == IF o.op = "call" THEN RewriteCall(m, known, repl, o, live)
                               ELSE MapOperation(repl, o)
        Position(ops, p) == Len(SelectSeq(SubSeq(ops, 1, p), Kept))
        RewriteBlock(b) ==
            LET phis == SelectSeq(b.phis, LAMBDA phi : phi.out.n \in live)
                ops == SelectSeq(b.ops, Kept) IN
            [b EXCEPT !.phis = [k \in DOMAIN phis |-> MapPhi(repl, phis[k])],
                      !.ops = [k \in DOMAIN ops |-> RewriteOperation(ops[k])],
                      !.term = RewriteTerminator(m, known, repl, f, b.term, outputs),
                      !.starts = [k \in DOMAIN @ |-> <<@[k][1], Position(b.ops, @[k][2])>>]]
    IN Renumber([f EXCEPT
          !.inputs = SelectSeq(@, LAMBDA i : i.reg \in ReadsOf(f, live)),
          !.outputs = outputs,
          !.blocks = [k \in DOMAIN @ |-> RewriteBlock(@[k])]])

TrimInterfaces(m) ==
    LET known == SolveInterfaces(m) IN
    [m EXCEPT !.functions = [e \in DOMAIN @ |-> Rewrite(m, known, @[e])]]
===============================================================================
