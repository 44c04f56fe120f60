------------------------------ MODULE Specialize ------------------------------
(***************************************************************************)
(* Partial evaluation of a bytecode interpreter (vm/specialize.py).  The   *)
(* interpreter, a RevIR function with a dispatch loop, is walked with      *)
(* everything known folded away: constants, read-only memory, and what a   *)
(* snapshot taken at its call says of registers and memory, to be guarded  *)
(* when it is used.  Each trip round the loop at a known program counter   *)
(* becomes a block of the residual function; what is not known stays as    *)
(* residual operations.  An attempt takes for granted that the iterations  *)
(* change nothing it knows; when that proves wrong, the knowledge is       *)
(* withdrawn (`doubts`) and the next attempt starts over.                  *)
(*                                                                         *)
(* What an instruction was fetched from, which handler ran and where it    *)
(* goes on are records for the listing and left out.                       *)
(***************************************************************************)
EXTENDS Machine, Validate

CONSTANTS
    Interpreters,     \* what there is to specialize: function, header (a block),
                      \*   counter ([kind, n] or [kind, base, offsets, w]),
                      \*   registers and cells (the snapshot), constant (read-only bytes),
                      \*   module (what the function runs in), entries (states it may be entered
                      \*   in), fails (whether specialize has to give it up: its counter depends on
                      \*   its input, it needs more than a limit allows, or it ends in a tail call)
    Fuel,             \* operations after which a run is taken not to end
    MaxIterations, MaxKeys, MaxAttempts, MaxBlockVisits

VARIABLES
    interp,           \* the interpreter
    inside,           \* its values that are defined in the dispatch loop
    attempt,          \* the number of this attempt
    doubts,           \* knowledge withdrawn by earlier attempts
    work,             \* walks to go on with, the last one first
    build,            \* what the attempt has made so far
    at,               \* "walk", "freeze", "done" or "failed"
    residual          \* the residual function, once it is frozen
vars == <<interp, inside, attempt, doubts, work, build, at, residual>>

-------------------------------------------------------------------------------
(* Values: an operand of the residual function, a constant when the value  *)
(* is known, with the snapshot facts <<kind, register or address, width>>  *)
(* it follows from.                                                        *)

Folded(n, w, facts) == [o |-> Const(n, w), facts |-> facts]
Residual(v) == [o |-> v, facts |-> {}]
IsFolded(v) == ~v.o.var
Meaning(env, o) == IF o.var THEN env[o.n] ELSE Folded(o.n, o.w, {})
Meanings(env, os) == [k \in DOMAIN os |-> Meaning(env, os[k])]
FactsOf(vs) == UNION {v.facts : v \in ToSet(vs)}
Operands(vs) == [k \in DOMAIN vs |-> vs[k].o]

Cells(a, w) == a..a + w \div Byte - 1
CellsValue(bytes, a, w) == NumberOf([k \in 1..w \div Byte |-> bytes[a + k - 1]])
FactValue(fact) ==
    IF fact[1] = "register" THEN interp.registers[fact[2]] % 2^fact[3]
    ELSE CellsValue(interp.cells, fact[2], fact[3])

\* What a path knows of memory: values stored, by address; bytes written; whether
\* anything may have been; bytes whose values an earlier iteration left.
NoMemory == [facts |-> <<>>, written |-> {}, clobbered |-> FALSE, carried |-> {}]
StoreFact(mem, a, v) ==
    LET cells == Cells(a, v.o.w)
        others == {s \in DOMAIN mem.facts : Cells(s, mem.facts[s].o.w) \cap cells = {}}
    IN [mem EXCEPT !.facts = Replaced([s \in others |-> @[s]], a, v),
                   !.written = @ \cup cells, !.carried = @ \ cells]
Stored(mem, values) ==
    FoldLeft(LAMBDA m, a : Single({StoreFact(c, a, values[a]) : c \in {m}}), mem, SetToSeq(DOMAIN values))
Clobber(mem) == [mem EXCEPT !.facts = <<>>, !.clobbered = TRUE]

Exact(mem, a, w) == a \in DOMAIN mem.facts /\ mem.facts[a].o.w = w
ReadOnly(a, w) == Cells(a, w) \subseteq DOMAIN interp.constant
Overwritten(mem, a, w) == mem.clobbered \/ Cells(a, w) \cap mem.written # {}
Doubted(loop, a, w) == loop /\ (doubts.clobber \/ Cells(a, w) \cap doubts.cells # {})

\* _memory: the value at an address if the path knows it, and what an iteration
\* takes for granted by asking.
Recalled(mem, a, w, loop) ==
    IF Exact(mem, a, w) THEN {mem.facts[a]}
    ELSE IF ReadOnly(a, w) THEN {Folded(CellsValue(interp.constant, a, w), w, {})}
    ELSE IF Overwritten(mem, a, w) \/ Doubted(loop, a, w) \/ ~(Cells(a, w) \subseteq DOMAIN interp.cells) THEN {}
    ELSE {Folded(CellsValue(interp.cells, a, w), w, {<<"memory", a, w>>})}
TakenForGranted(mem, a, w, loop) ==
    IF \/ ~loop
       \/ Exact(mem, a, w) /\ Cells(a, w) \cap mem.carried = {}
       \/ ~Exact(mem, a, w) /\ (ReadOnly(a, w) \/ Overwritten(mem, a, w) \/ Doubted(loop, a, w))
    THEN {} ELSE Cells(a, w)

-------------------------------------------------------------------------------
(* Walking a native block: `s` is a walk, [env, mem, visits, block, from,  *)
(* to, loop] - the residual block it writes to, and whether it is in the   *)
(* loop - with the build as `b`.                                           *)

Use(s, vs) == [s EXCEPT !.b.guards = @ \cup FactsOf(vs)]
Bind(s, v, value) == [s EXCEPT !.env = Replaced(@, v.n, value)]

\* The operation stays, on what its operands are now.
Keep(s, o) ==
    LET vs == Meanings(s.env, o.ins)
        fresh == [k \in DOMAIN o.out |-> Var(s.b.next + k - 1, o.out[k].w)]
        used == [Use(s, vs) EXCEPT !.b.next = @ + Len(o.out),
                    !.b.blocks[s.to].ops = Append(@, [o EXCEPT !.ins = Operands(vs), !.out = fresh])]
    IN FoldLeft(LAMBDA c, k : Bind(c, o.out[k], Residual(fresh[k])), used, [k \in DOMAIN o.out |-> k])

\* A division by zero must still happen.
PureStep(s, o) ==
    LET vs == Meanings(s.env, o.ins) IN
    IF (\A k \in DOMAIN vs : IsFolded(vs[k])) /\ ~(o.op \in Division /\ vs[2].o.n = 0)
    THEN Bind(s, o.out[1], Folded(PureValue([o EXCEPT !.ins = Operands(vs)]), o.out[1].w, FactsOf(vs)))
    ELSE Keep(s, o)

LoadStep(s, o) ==
    LET a == Meaning(s.env, o.ins[1])
        w == o.out[1].w
        found == IF IsFolded(a) THEN Recalled(s.mem, a.o.n, w, s.loop) ELSE {}
        asked == IF IsFolded(a) THEN [s EXCEPT !.b.reads = @ \cup TakenForGranted(s.mem, a.o.n, w, s.loop)] ELSE s
    IN IF found = {} THEN Keep(asked, o) ELSE Bind(Use(asked, <<a>>), o.out[1], Single(found))

Clobbering(s) == [s EXCEPT !.mem = Clobber(@), !.b.clobbers = @ \/ s.loop]
StoreStep(s, o) ==
    LET a == Meaning(s.env, o.ins[1])
        v == Meaning(s.env, o.ins[2])
        stored == Keep(s, o)
    IN IF ~IsFolded(a) THEN Clobbering(stored)
       ELSE [stored EXCEPT !.mem = StoreFact(@, a.o.n, v),
                           !.b.writes = @ \cup (IF s.loop THEN Cells(a.o.n, v.o.w) ELSE {})]

OperationStep(s, o) ==
    CASE o.op \in Pure -> PureStep(s, o)
      [] o.op = "load" -> LoadStep(s, o)
      [] o.op = "store" -> StoreStep(s, o)
      [] o.op = "call" -> Clobbering(Keep(s, o))
      [] o.op = "unsupported" -> Keep(s, o)

Native(s) == interp.function.blocks[s.block]
Incoming(s, phi, from) == Meaning(s.env, Single({i[2] : i \in {i \in ToSet(phi.incoming) : i[1] = from}}))

\* A block's phis, all at once, and its operations.  A new iteration (from = 0) has
\* its phis already.
RunBlock(s) ==
    LET phis == IF s.from = 0 THEN <<>> ELSE Native(s).phis
        entered == FoldLeft(LAMBDA c, phi : Bind(c, phi.out, Incoming(s, phi, s.from)), s, phis)
    IN FoldLeft(LAMBDA c, o : Single({OperationStep(d, o) : d \in {c}}),
                [entered EXCEPT !.visits[s.block] = @ + 1], Native(s).ops)

-------------------------------------------------------------------------------
(* The dispatch loop.                                                      *)

Header == interp.function.blocks[interp.header]
LoopBody(f, header) ==
    LET succ == Succ(f)
        latches == {p \in Preds(succ, header) : DominatedBy(succ, header, p)}
    IN {header} \cup {b \in DOMAIN f.blocks \ {header} : Reaching(succ, {header}, {b}) \cap latches # {}}
DefinedInside(f, header) == UNION {{v.n : v \in ToSet(BlockDefines(f.blocks[b]))} : b \in LoopBody(f, header)}

HeaderPhis == {phi.out.n : phi \in ToSet(Header.phis)}
\* What the header's phis become when s, at the end of its block, goes there.
Arriving(s) == [n \in HeaderPhis |->
    Incoming(s, Single({phi \in ToSet(Header.phis) : phi.out.n = n}), s.block)]

\* Where the counter is kept: base, a value or none, plus an offset, and for each further
\* offset what is loaded from there, plus it.
NoBase == 0
Resolved(s, incoming) ==
    LET c == interp.counter
        base == IF c.base = NoBase THEN Folded(0, PointerWidth, {})
                ELSE IF c.base \in HeaderPhis THEN incoming[c.base] ELSE s.env[c.base]
        Plus(v, offset, more) == Folded((v.o.n + offset) % 2^PointerWidth, PointerWidth, v.facts \cup more)
        Through(found, offset) ==
            UNION {{Plus(v, offset, p.facts) : v \in {v \in Recalled(s.mem, p.o.n, PointerWidth, FALSE) : IsFolded(v)}}
                     : p \in found}
    IN FoldLeft(Through, IF IsFolded(base) THEN {Plus(base, Head(c.offsets), {})} ELSE {}, Tail(c.offsets))

\* The counter of an arrival, if it is known.
Counters(s, incoming) ==
    LET c == interp.counter IN
    {v \in IF c.kind = "phi" THEN {incoming[c.n]}
           ELSE UNION {Recalled(s.mem, p.o.n, c.w, FALSE) : p \in Resolved(s, incoming)} : IsFolded(v)}

\* What tells two arrivals at one counter apart: known phis and known cells.
KeyPhis == HeaderPhis \ doubts.phis
KeyCells(s) == {a \in DOMAIN s.mem.facts \ doubts.general : IsFolded(s.mem.facts[a])}
LoopKey(s, incoming) ==
    <<[n \in KeyPhis |-> incoming[n].o.n],
      {<<a, s.mem.facts[a].o.w, s.mem.facts[a].o.n>> : a \in KeyCells(s)}>>
KeysOf(b, counter) == IF counter \in DOMAIN b.keys THEN b.keys[counter] ELSE {}

\* Mutant of Differing: what takes only as many values as there may be keys is kept.
DifferingMore(keys) == {n \in KeyPhis : Cardinality({k[1][n] : k \in keys}) > MaxKeys + 1}

\* _generalize: what differs between the keys of a counter is no longer part of them.
Differing(keys) == {n \in KeyPhis : \E j, k \in keys : j[1][n] # k[1][n]}
DifferingCells(keys) ==
    LET At(key, a) == {c[3] : c \in {c \in key[2] : c[1] = a}}
    IN {a \in {c[1] : c \in UNION {k[2] : k \in keys}} : \E j, k \in keys : At(j, a) # At(k, a)}

\* Mutant of StillHolds: values an iteration is known to change are carried into it.
StillHeld(a, v) == ~doubts.clobber

\* What every trip round the loop from here on may take for granted of memory.
StillHolds(a, v) == ~doubts.clobber /\ Cells(a, v.o.w) \cap doubts.cells = {}
IterationMemory(s, incoming, counter) ==
    LET kept == {a \in DOMAIN s.mem.facts : StillHolds(a, s.mem.facts[a])}
        carried == [facts |-> [a \in kept |-> s.mem.facts[a]], written |-> {},
                    clobbered |-> s.mem.clobbered \/ doubts.clobber,
                    carried |-> UNION {Cells(a, s.mem.facts[a].o.w) : a \in kept}]
        agreed == Stored(carried, [a \in KeyCells(s) |-> s.mem.facts[a]])
        places == IF interp.counter.kind = "memory" THEN {p.o.n : p \in Resolved(s, incoming)} ELSE {}
    IN [Stored(agreed, [a \in places |-> counter]) EXCEPT !.written = s.mem.written]

\* Its values: those defined before the loop, and the phis, residual ones if they
\* are not part of the key.
IterationEnv(s, incoming, fresh) ==
    [n \in (DOMAIN s.env \ inside) \cup HeaderPhis |->
        IF n \in DOMAIN fresh THEN Residual(fresh[n]) ELSE IF n \in HeaderPhis THEN incoming[n] ELSE s.env[n]]

General == SelectSeq(Header.phis, LAMBDA phi : phi.out.n \in doubts.phis)

-------------------------------------------------------------------------------
(* An attempt.                                                             *)

NoDoubts == [phis |-> {}, cells |-> {}, general |-> {}, clobber |-> FALSE]

\* Inputs first: those the snapshot knows are folded, and guarded once they are used.
Started(i) ==
    LET inputs == i.function.inputs
        Value(k) == IF inputs[k].reg \in DOMAIN i.registers
                    THEN Folded(i.registers[inputs[k].reg], inputs[k].value.w,
                                {<<"register", inputs[k].reg, inputs[k].value.w>>})
                    ELSE Residual(Var(k, inputs[k].value.w))
    IN [env |-> [n \in {x.value.n : x \in ToSet(inputs)} |->
                    Value(CHOOSE k \in DOMAIN inputs : inputs[k].value.n = n)],
        mem |-> NoMemory, visits |-> [b \in DOMAIN i.function.blocks |-> 0],
        block |-> 1, from |-> 0, to |-> 1, loop |-> FALSE]
NewBlock == [phis |-> <<>>, ops |-> <<>>, term |-> <<>>]
Blank(i) ==
    [next |-> Len(i.function.inputs) + 1, blocks |-> <<NewBlock>>, guards |-> {}, made |-> <<>>,
     keys |-> <<>>, reads |-> {}, writes |-> {}, clobbers |-> FALSE, entered |-> {}]

Init ==
    /\ interp \in Interpreters
    /\ inside = DefinedInside(interp.function, interp.header)
    /\ attempt = 1 /\ doubts = NoDoubts
    /\ work = <<Started(interp)>> /\ build = Blank(interp)
    /\ at = "walk" /\ residual = <<>>

\* An assumption is withdrawn: start over, unless this was the last attempt.
Restart(withdrawn) ==
    /\ doubts' = withdrawn
    /\ IF attempt = MaxAttempts
       THEN at' = "failed" /\ UNCHANGED <<attempt, work, build>>
       ELSE /\ attempt' = attempt + 1
            /\ work' = <<Started(interp)>> /\ build' = Blank(interp)
            /\ UNCHANGED at
    /\ UNCHANGED <<interp, inside, residual>>
Fail == at' = "failed" /\ UNCHANGED <<interp, inside, attempt, doubts, work, build, residual>>
\* The walk is replaced by others, or by none.
GoOn(walks, b) ==
    /\ work' = Front(work) \o walks /\ build' = b
    /\ UNCHANGED <<interp, inside, attempt, doubts, at, residual>>

Walk(s) == [f \in DOMAIN s \ {"b"} |-> s[f]]
Terminated(s, t) == [s.b EXCEPT !.blocks[s.to].term = <<t>>]
Term(s) == Native(s).term
Chooser(s) == Meanings(s.env, Term(s).ins)
Forking(s) == Term(s).op \in {"branch", "indirect"} /\ ~IsFolded(Chooser(s)[1])
Onward(s) ==
    IF Term(s).op = "jump" THEN {Term(s).to[1]}
    ELSE IF Term(s).op \in {"branch", "indirect"} /\ ~Forking(s) THEN Chosen(Term(s), Chooser(s)[1].o.n)
    ELSE {}

\* A loop of the interpreter that never comes back to the dispatch loop.
Repeats(s) == s.visits[s.block] > MaxBlockVisits /\ Fail

Continues(s) ==
    /\ Onward(s) \notin {{}, {interp.header}}
    /\ GoOn(<<[Walk(s) EXCEPT !.block = Single(Onward(s)), !.from = s.block]>>, Use(s, Chooser(s)).b)

Forks(s) ==
    /\ Forking(s)
    /\ LET first == Len(s.b.blocks)
           to == Term(s).to
           t == [Term(s) EXCEPT !.ins = Operands(Chooser(s)), !.to = [k \in DOMAIN to |-> first + k]]
       IN GoOn([k \in DOMAIN to |-> [Walk(s) EXCEPT !.block = to[k], !.from = s.block, !.to = first + k]],
               [Terminated(s, t) EXCEPT !.blocks = @ \o [k \in DOMAIN to |-> NewBlock]])

\* An indirect jump to where the lifter saw none.
Strays(s) ==
    /\ Term(s).op = "indirect" /\ ~Forking(s) /\ Onward(s) = {}
    /\ GoOn(<<>>, Terminated(Use(s, Chooser(s)), Terminator("stop", <<>>, <<>>, Term(s).at)))

Leaves(s) ==
    /\ Term(s).op \in {"return", "halt", "stop"}
    /\ LET values == Meanings(s.env, Term(s).values)
       IN GoOn(<<>>, Terminated(Use(s, Chooser(s) \o values),
                                [Term(s) EXCEPT !.ins = Operands(Chooser(s)), !.values = Operands(values)]))

TailCalls(s) == Term(s).op = "tailcall" /\ Fail

\* _arrive, once the counter is known: a header phi that is not makes all start over
\* without it, too many variants of a counter without what tells them apart.
Unknown(incoming) ==
    SelectSeq(Header.phis, LAMBDA phi : phi.out.n \in KeyPhis /\ ~IsFolded(incoming[phi.out.n]))
LosesCounter(counters) == counters = {} /\ Fail
WithdrawPhi(unknown) ==
    unknown # <<>> /\ Restart([doubts EXCEPT !.phis = @ \cup {Head(unknown).out.n}])
Generalize(keys) ==
    /\ Cardinality(keys) > MaxKeys
    /\ Restart([doubts EXCEPT !.phis = @ \cup Differing(keys), !.general = @ \cup DifferingCells(keys)])

\* The residual block of the iteration: the one there is, or a new one to walk.
Joined(s, incoming, target, b) ==
    LET sources == [k \in DOMAIN General |-> <<s.to, incoming[General[k].out.n].o>>]
        used == [b EXCEPT !.guards = @ \cup FactsOf([k \in DOMAIN General |-> incoming[General[k].out.n]])]
    IN [used EXCEPT !.blocks[target].phis = [k \in DOMAIN @ |-> [@[k] EXCEPT !.incoming = Append(@, sources[k])]],
                    !.blocks[s.to].term = <<Terminator("jump", <<>>, <<target>>, 0)>>]
Joins(s, incoming, key) ==
    /\ key \in DOMAIN s.b.made
    /\ GoOn(<<>>, Joined(s, incoming, s.b.made[key], s.b))
NewIteration(s, incoming, counter, key) ==
    LET target == Len(s.b.blocks) + 1
        phis == [k \in DOMAIN General |-> [out |-> Var(s.b.next + k - 1, General[k].out.w), incoming |-> <<>>]]
        fresh == [n \in doubts.phis |-> Single({phis[k].out : k \in {k \in DOMAIN phis : General[k].out.n = n}})]
        made == [s.b EXCEPT !.made = Replaced(@, key, target), !.next = @ + Len(phis),
                            !.blocks = Append(@, [NewBlock EXCEPT !.phis = phis])]
        walk == [env |-> IterationEnv(s, incoming, fresh), mem |-> IterationMemory(s, incoming, counter),
                 visits |-> [b \in DOMAIN s.visits |-> 0],
                 block |-> interp.header, from |-> 0, to |-> target, loop |-> TRUE]
    IN /\ key \notin DOMAIN s.b.made
       /\ IF Cardinality(DOMAIN made.made) > MaxIterations THEN Fail
          ELSE GoOn(<<walk>>, Joined(s, incoming, target, made))

\* History: what a walk that comes to the loop from outside knows there, the key aside.
Knowledge(s) ==
    LET values == [n \in DOMAIN s.env \ inside |-> s.env[n]]
        facts == [a \in DOMAIN s.mem.facts \ KeyCells(s) |-> s.mem.facts[a]]
    IN IF s.loop THEN {} ELSE {[values |-> values, mem |-> [s.mem EXCEPT !.facts = facts]]}

\* What goes into the key is relied on, and guarded.
Relying(s, incoming, counter) ==
    Use(s, <<counter>> \o SetToSeq({incoming[n] : n \in KeyPhis} \cup {s.mem.facts[a] : a \in KeyCells(s)}))
Keyed(s, incoming, counter) ==
    LET n == counter.o.n IN
    [Relying(s, incoming, counter) EXCEPT
        !.b.keys = Replaced(@, n, KeysOf(s.b, n) \cup {LoopKey(s, incoming)}),
        !.b.entered = @ \cup Knowledge(s)]
ArrivesAt(s, incoming, counter, key, keys) ==
    \/ Generalize(keys)
    \/ Cardinality(keys) <= MaxKeys /\ Joins(s, incoming, key)
    \/ Cardinality(keys) <= MaxKeys /\ NewIteration(s, incoming, counter, key)
Arrives(s, incoming, counters) ==
    \/ LosesCounter(counters)
    \/ counters # {} /\ WithdrawPhi(Unknown(incoming))
    \/ /\ Unknown(incoming) = <<>>
       /\ \E counter \in counters :
          \E keyed \in {Keyed(s, incoming, counter)} :
             ArrivesAt(keyed, incoming, counter, <<counter.o.n, LoopKey(s, incoming)>>, KeysOf(keyed.b, counter.o.n))

Stepping(s) ==
    \/ Repeats(s)
    \/ /\ s.visits[s.block] <= MaxBlockVisits
       /\ \/ Continues(s) \/ Forks(s) \/ Strays(s) \/ Leaves(s) \/ TailCalls(s)
          \/ /\ Onward(s) = {interp.header}
             /\ \E used \in {Use(s, Chooser(s))}, incoming \in {Arriving(s)} : Arrives(used, incoming, Counters(s, incoming))
Step == at = "walk" /\ work # <<>> /\ \E s \in {RunBlock([b |-> build] @@ Last(work))} : Stepping(s)

-------------------------------------------------------------------------------
(* The end of an attempt.                                                  *)

WalkedOut == at = "walk" /\ work = <<>>
Conflicts == (build.writes \cap build.reads) \ doubts.cells

\* _withdraw_invariants.
WithdrawClobber == WalkedOut /\ build.clobbers /\ ~doubts.clobber /\ Restart([doubts EXCEPT !.clobber = TRUE])
WithdrawCells ==
    /\ WalkedOut /\ (build.clobbers => doubts.clobber) /\ Conflicts # {}
    /\ Restart([doubts EXCEPT !.cells = @ \cup Conflicts])

\* The guards that are checked before anything else, memory first.
GuardsInOrder ==
    SetToSortSeq(build.guards, LAMBDA g, h :
        \/ g[1] = "memory" /\ h[1] = "register"
        \/ g[1] = h[1] /\ (g[2] < h[2] \/ (g[2] = h[2] /\ g[3] < h[3])))
Checked(guards, k) ==
    LET g == guards[k]
        inputs == interp.function.inputs
        loaded == Var(build.next + 2 * k, g[3])
        subject == IF g[1] = "memory" THEN loaded
                   ELSE Var(CHOOSE j \in DOMAIN inputs : inputs[j].reg = g[2], g[3])
        holds == Var(build.next + 2 * k + 1, Byte)
        compare == Operation("eq", <<holds>>, <<subject, Const(FactValue(g), g[3])>>, 0)
    IN [NewBlock EXCEPT
          !.ops = IF g[1] = "memory" THEN <<Operation("load", <<loaded>>, <<Const(g[2], PointerWidth)>>, 0), compare>>
                  ELSE <<compare>>,
          !.term = <<Terminator("branch", <<holds>>,
                       <<IF k < Len(guards) THEN k + 1 ELSE Len(guards) + 2, Len(guards) + 1>>, 0)>>]

Frozen ==
    LET guards == GuardsInOrder
        offset == IF guards = <<>> THEN 0 ELSE Len(guards) + 1
        refuse == [NewBlock EXCEPT !.term = <<Terminator("stop", <<>>, <<>>, 0)>>]
        front == IF guards = <<>> THEN <<>>
                 ELSE Append([k \in DOMAIN guards |-> Checked(guards, k)], refuse)
        Shift(block) ==
            [block EXCEPT !.phis = [k \in DOMAIN @ |-> [@[k] EXCEPT
                              !.incoming = [j \in DOMAIN @ |-> <<@[j][1] + offset, @[j][2]>>]]],
                          !.term = <<[@[1] EXCEPT !.to = [k \in DOMAIN @ |-> @[k] + offset]]>>]
        all == front \o [k \in DOMAIN build.blocks |-> Shift(build.blocks[k])]
    IN [interp.function EXCEPT
          !.inputs = [k \in DOMAIN @ |-> [@[k] EXCEPT !.value = Var(k, @.w)]],
          !.blocks = [k \in DOMAIN all |-> [phis |-> all[k].phis, ops |-> all[k].ops,
                                            term |-> all[k].term[1], starts |-> <<>>]]]

Complete ==
    /\ WalkedOut /\ (build.clobbers => doubts.clobber) /\ Conflicts = {}
    /\ residual' = Frozen /\ at' = "done"
    /\ UNCHANGED <<interp, inside, attempt, doubts, work, build>>

Over == at \in {"done", "failed"} /\ UNCHANGED vars
Next == Step \/ WithdrawClobber \/ WithdrawCells \/ Complete \/ Over
Spec == Init /\ [][Next]_vars /\ WF_vars(Next)

-------------------------------------------------------------------------------
(* Properties.                                                             *)

Entered(f, entry) ==
    RunIr([interp.module EXCEPT !.functions = [e \in {f.entry} |-> f]], {}, f.entry, entry.registers,
          [mem |-> entry.memory, trace |-> <<>>, events |-> <<>>, end |-> "", fuel |-> Fuel])
AsSnapshot(entry) ==
    /\ \A r \in DOMAIN interp.registers : entry.registers[r] = interp.registers[r]
    /\ \A c \in DOMAIN interp.cells : entry.memory[c] = interp.cells[c]
\* A jump the lifter saw no target of stops in the residual function.
EndsAs(end) == IF end = "unresolved" THEN "stop" ELSE end
Alike(done, own) ==
    /\ EndsAs(done.end) = EndsAs(own.end)
    /\ done.mem = own.mem /\ done.events = own.events /\ done.registers = own.registers
Refused(done, entry) == done.end = "stop" /\ done.mem = entry.memory /\ done.events = <<>>
DoesAs(own, entry) ==
    \/ own.end = "fuel"
    \/ \E done \in {Entered(residual, entry)} :
          Alike(done, own) \/ (~AsSnapshot(entry) /\ Refused(done, entry))

\* Two ways from the entry come to the loop with different knowledge that is no part of a
\* key; the code walks an iteration with what the first knew, and has the second join it.
EnteredApart == Cardinality(build.entered) > 1

\* The residual function is valid, and does in every state what the interpreter does with
\* its bytecode, as far as that comes to an end: ends the same way, with the same memory, imports' calls and results.
\* In a state that differs from the snapshot it may refuse instead, before doing anything.
\* A prologue may branch; nothing is said where its ways into the loop bring there different
\* knowledge.
Translates ==
    at = "done" /\ ~EnteredApart =>
        /\ Valid(residual, interp.module.widths)
        /\ \A entry \in interp.entries : DoesAs(Entered(interp.function, entry), entry)

\* An attempt that is given up has shown something wrong that the next will not take for
\* granted, and nothing withdrawn is taken for granted again; so attempts come to an end,
\* with the bytecode translated unless its counter depends on the input, a limit is met or a
\* tail call is.
Weaker(d, e) == d.phis \subseteq e.phis /\ d.cells \subseteq e.cells /\ d.general \subseteq e.general /\ (d.clobber => e.clobber)
EachAttemptLearns == [][attempt' # attempt => doubts' # doubts /\ Weaker(doubts, doubts')]_vars
AttemptsEnd == EachAttemptLearns /\ <>(at = IF interp.fails THEN "failed" ELSE "done")
===============================================================================
