-------------------------------- MODULE Slicing -------------------------------
(***************************************************************************)
(* Backward slicing (analysis/slicing.py): the operations that cannot      *)
(* influence whether a protected instruction - a goal or an avoid - is     *)
(* reached.  Output is what is left over: calls of functions that only     *)
(* print, and what only feeds them.  `m` is a module as in Interfaces,     *)
(* with the imports that only print (`m.printing`) as well.                *)
(***************************************************************************)
EXTENDS Interfaces

FrameExtent == 2^(PointerWidth - 1)
Cycle == -(2^PointerWidth)     \* an address that only leads back to the phi being resolved
Nowhere == Cycle - 1           \* not an address in the function's own frame

DefinedBy(f) ==
    LET all == UNION {{[n |-> phi.out.n, phi |-> TRUE, from |-> [k \in DOMAIN phi.incoming |-> phi.incoming[k][2]],
                        op |-> "phi", w |-> phi.out.w] : phi \in ToSet(b.phis)} \cup
                      UNION {{[n |-> v.n, phi |-> FALSE, from |-> o.ins, op |-> o.op, w |-> v.w]
                                : v \in ToSet(o.out)} : o \in ToSet(b.ops)}
                        : b \in ToSet(f.blocks)}
    IN [n \in {d.n : d \in all} |-> CHOOSE d \in all : d.n = n]

\* The value an address is an offset from; base -1 for a number, -2 for what is read from memory.
RECURSIVE LocationOf(_, _)
LocationOf(defs, o) ==
    LET d == defs[o.n]
        inner == LocationOf(defs, d.from[1])
        delta == IF d.op = "add" THEN d.from[2].n ELSE -d.from[2].n
    IN IF ~o.var THEN [base |-> -1, offset |-> o.n]
       ELSE IF o.n \notin DOMAIN defs THEN [base |-> o.n, offset |-> 0]
       ELSE IF d.op \in {"add", "sub"} /\ ~d.from[2].var
            THEN [inner EXCEPT !.offset = (@ + delta) % 2^d.w]
       ELSE IF d.op = "zext" THEN inner
       ELSE IF d.op = "load" THEN [base |-> -2, offset |-> 0]
       ELSE [base |-> o.n, offset |-> 0]

\* What a call gives back of what it was given: the stack pointer, just above
\* the return address it pushed, and the registers it may not clobber.
Returned(m, f) ==
    LET calls == ToSet(Calls(f))
        sp == m.convention.stackPointer IN
    UNION {UNION {{[n |-> c.out[k].n, from |-> o,
                    step |-> IF c.results[k] = sp THEN PointerWidth \div Byte ELSE 0]
                     : o \in Carried(c.args, Arguments(c), c.results[k])}
                    : k \in {k \in DOMAIN c.results :
                               c.results[k] = sp \/ c.results[k] \notin m.convention.clobbers}}
             : c \in calls}

Wrapped(x) == Signed(x % 2^PointerWidth, PointerWidth)

\* How far below the function's own frame an address points.  A loop merges the
\* stack pointer from its entry and its body, so what they say must agree.
RECURSIVE FrameOffset(_, _, _, _, _)
FrameOffset(frame, defs, returned, o, resolving) ==
    LET RECURSIVE Through(_)
        Through(l) ==
            LET passed == {r \in returned : r.n = l.base}
                r == CHOOSE r \in passed : TRUE
                outer == LocationOf(defs, r.from)
            IN IF passed = {} THEN l
               ELSE Through([base |-> outer.base, offset |-> outer.offset + l.offset + r.step])
        l == Through(LocationOf(defs, o))
        incoming == {FrameOffset(frame, defs, returned, v, resolving \cup {l.base})
                       : v \in ToSet(defs[l.base].from)}
        known == incoming \ {Cycle}
        only == CHOOSE x \in known : TRUE
    IN IF l.base \in frame THEN Wrapped(l.offset)
       ELSE IF l.base < 0 THEN Nowhere
       ELSE IF l.base \in resolving THEN Cycle
       ELSE IF l.base \notin DOMAIN defs \/ ~defs[l.base].phi THEN Nowhere
       ELSE IF Cardinality(known) # 1 \/ only = Nowhere THEN Nowhere
       ELSE Wrapped(only + l.offset)

Starts(f) == UNION {{s[1] : s \in ToSet(b.starts)} : b \in ToSet(f.blocks)}

\* As LocalOnly, wherever it writes.
LocalOrNot(m, f, protected) ==
    /\ Starts(f) \cap protected = {}
    /\ \A b \in ToSet(f.blocks) :
         /\ b.term.op \notin {"indirect", "tailcall"}
         /\ \A o \in ToSet(b.ops) : o.op \in (Pure \ Division) \cup {"store", "load", "call"}

\* Writing only its own frame, and doing nothing that may fault or go elsewhere.
LocalOnly(m, f, protected) ==
    LET frame == {f.inputs[k].value.n : k \in {k \in DOMAIN f.inputs :
                                                f.inputs[k].reg = m.convention.stackPointer}}
        defs == DefinedBy(f)
        InFrame(o) == FrameOffset(frame, defs, Returned(m, f), o.ins[1], {}) \in -FrameExtent..0
    IN /\ Starts(f) \cap protected = {}
       /\ \A b \in ToSet(f.blocks) :
            /\ b.term.op \notin {"indirect", "tailcall"}
            /\ \A o \in ToSet(b.ops) :
                 /\ o.op \in (Pure \ Division) \cup {"store", "load", "call"}
                 /\ o.op = "store" => InFrame(o)

OutputCall(m, call, candidates, protected) ==
    /\ call.at \notin protected
    /\ \/ call.target.kind = "direct" /\ call.target.at \in candidates
       \/ call.target.kind = "external" /\ call.target.at \in m.printing

RECURSIVE OutputFrom(_, _, _)
OutputFrom(m, candidates, protected) ==
    LET more == {e \in candidates : \A c \in ToSet(Calls(m.functions[e])) :
                                        OutputCall(m, c, candidates, protected)}
    IN IF more = candidates THEN candidates ELSE OutputFrom(m, more, protected)

OutputFunctions(m, protected) ==
    OutputFrom(m, {e \in DOMAIN m.functions : LocalOnly(m, m.functions[e], protected)}, protected)

\* Control flow that comes back to a block that dominates it.
Loops(f) ==
    LET succ == Succ(f) IN
    \E b \in ReachableBlocks(succ) : \E t \in ToSet(succ[b]) : DominatedBy(succ, t, b)

-------------------------------------------------------------------------------
(* The operations of one function, named <<block, index>>.                 *)

Sites(f) == UNION {{<<b, k>> : k \in DOMAIN f.blocks[b].ops} : b \in DOMAIN f.blocks}
OpOf(f, s) == f.blocks[s[1]].ops[s[2]]

\* What must be known to follow the flow when the calls at `skippable` are skipped.
Wanted(m, f, skippable, outermost) ==
    LET sp == m.convention.stackPointer
        OfSite(s) ==
            LET o == OpOf(f, s) IN
            IF s \in skippable THEN Carried(o.args, Arguments(o), sp)
            ELSE IF IsRemovable(o) THEN {} ELSE ToSet(o.ins)
        OfTerm(t) ==
            ToSet(t.ins) \cup (UNION {ToSet(Arguments(c)) : c \in ToSet(t.call)}) \cup
            (IF t.op = "return" /\ f.entry = outermost THEN {} ELSE ToSet(t.values))
    IN (UNION {OfSite(s) : s \in Sites(f)}) \cup
       UNION {OfTerm(b.term) \cup UNION {{i[2] : i \in ToSet(phi.incoming)} : phi \in ToSet(b.phis)}
                : b \in ToSet(f.blocks)}

Relevant(m, f, skippable, outermost) ==
    LiveFrom(Sources(f), <<>>, Numbers(<<>>, Wanted(m, f, skippable, outermost)))

RECURSIVE Skippable(_, _, _, _)
Skippable(m, f, skippable, outermost) ==
    LET relevant == Relevant(m, f, skippable, outermost)
        Used(o) == \E k \in DOMAIN o.results :
                      o.results[k] # m.convention.stackPointer /\ o.out[k].n \in relevant
        used == {s \in skippable : Used(OpOf(f, s))}
    IN IF used = {} THEN skippable ELSE Skippable(m, f, skippable \ used, outermost)

SkippedOf(m, f, protected, candidates, outermost) ==
    LET calls == Skippable(m, f, {s \in Sites(f) : OpOf(f, s).op = "call" /\
                                    OutputCall(m, OpOf(f, s), candidates, protected)}, outermost)
        relevant == Relevant(m, f, calls, outermost)
        idle == {s \in Sites(f) : IsRemovable(OpOf(f, s)) /\ OpOf(f, s).out[1].n \notin relevant}
    IN {<<f.entry, s[1], s[2]>> : s \in calls \cup idle}

\* backward_slice: what is skipped, and the printing functions that loop.
BackwardSlice(m, protected, outermost) ==
    LET candidates == OutputFunctions(m, protected) IN
    [skipped |-> UNION {SkippedOf(m, m.functions[e], protected, candidates, outermost)
                          : e \in DOMAIN m.functions},
     output |-> candidates,
     looping |-> {e \in candidates : Loops(m.functions[e])}]
===============================================================================
