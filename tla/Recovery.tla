------------------------------- MODULE Recovery -------------------------------
(***************************************************************************)
(* Control-flow recovery at p-code granularity (lift/cfg.py) and the       *)
(* storage a program's registers are grouped into (lift/storage.py).       *)
(*                                                                         *)
(* A program is a record: `code` maps an instruction's address to its      *)
(* length, its p-code and the addresses its indirect flow may go to;       *)
(* `entries` are the functions' entries, `noReturn` the ones calls to      *)
(* never come back from.  A point is <<address, index>>: the index counts  *)
(* the p-code of the instruction from 0, and the point past an             *)
(* instruction's last op is the next instruction's first.  Index -1 names  *)
(* the synthetic block of a jump into another function.                    *)
(***************************************************************************)
EXTENDS Ir

\* A varnode names bytes of a space; a constant's offset is its value.
Varnode(space, off, size) == [space |-> space, off |-> off, size |-> size]
Pcode(code, out, ins) == [code |-> code, out |-> out, ins |-> ins]

Before(p, q) == p[1] < q[1] \/ (p[1] = q[1] /\ p[2] < q[2])

RECURSIVE Canonical(_, _)
Canonical(prog, p) ==
    IF p[1] \notin DOMAIN prog.code \/ p[2] < Len(prog.code[p[1]].ops) THEN p
    ELSE Canonical(prog, <<p[1] + prog.code[p[1]].len, p[2] - Len(prog.code[p[1]].ops)>>)

NextPoint(prog, p) == Canonical(prog, <<p[1], p[2] + 1>>)
HasOp(prog, p) == p[1] \in DOMAIN prog.code /\ p[2] \in 0..Len(prog.code[p[1]].ops) - 1
OpAt(prog, p) == prog.code[p[1]].ops[p[2] + 1]

Foreign(prog, entry, a) == a # entry /\ a \in prog.entries
JumpTarget(prog, entry, a) ==
    IF Foreign(prog, entry, a) THEN <<a, -1>> ELSE Canonical(prog, <<a, 0>>)
\* A constant target counts p-code ops from here.
Relative(prog, p, target) == Canonical(prog, <<p[1], p[2] + target.off>>)

\* The functions that are lifted: with code of their own, and asked for.
Liftable(prog) == {e \in prog.entries \cap prog.selected : e \in DOMAIN prog.code \ DOMAIN prog.thunks}

Exit(kind, ins, to) == [kind |-> kind, ins |-> ins, to |-> to]
NoExit == Exit("none", <<>>, <<>>)

\* The exit an op ends its block with, if it does, and the points it goes to.
Edges(prog, entry, p) ==
    LET op == OpAt(prog, p)
        target == op.ins[1] IN
    CASE op.code = "branch" /\ target.space = "const" ->
            Exit("goto", <<>>, <<Relative(prog, p, target)>>)
      [] op.code = "branch" /\ target.space = "ram" ->
            IF Foreign(prog, entry, target.off) THEN Exit("tailcall", <<target.off>>, <<>>)
            ELSE Exit("goto", <<>>, <<Canonical(prog, <<target.off, 0>>)>>)
      [] op.code = "cbranch" ->
            Exit("cond", <<op.ins[2]>>,
                 <<IF target.space = "const" THEN Relative(prog, p, target)
                   ELSE JumpTarget(prog, entry, target.off),
                   NextPoint(prog, p)>>)
      [] op.code = "branchind" ->
            Exit("indirect", <<target>>,
                 LET flows == prog.code[p[1]].flows IN
                 [k \in DOMAIN flows |-> JumpTarget(prog, entry, flows[k])])
      [] op.code = "return" -> Exit("return", <<target>>, <<>>)
      [] op.code = "call" /\ target.off \in prog.noReturn -> Exit("halt", <<>>, <<>>)
      [] OTHER -> NoExit

Following(prog, entry, p) ==
    LET exit == Edges(prog, entry, p) IN
    IF exit.kind = "none" THEN {NextPoint(prog, p)} ELSE ToSet(exit.to)

RECURSIVE Points(_, _, _, _)
Points(prog, entry, seen, work) ==
    IF work = {} THEN seen
    ELSE LET p == CHOOSE p \in work : TRUE
             more == IF HasOp(prog, p) THEN Following(prog, entry, p) ELSE {} IN
         Points(prog, entry, seen \cup {p}, (work \cup more) \ (seen \cup {p}))

BranchTargets(prog, entry, points) ==
    UNION {ToSet(Edges(prog, entry, p).to) : p \in {p \in points : HasOp(prog, p)}}

\* The ops from p to the first one that ends a block or runs into a leader.
RECURSIVE Fill(_, _, _, _, _)
Fill(prog, entry, leaders, p, ops) ==
    IF p[2] = -1 THEN [ops |-> ops, exit |-> Exit("tailcall", <<p[1]>>, <<>>)]
    ELSE IF ~HasOp(prog, p) THEN [ops |-> ops, exit |-> Exit("stop", <<>>, <<>>)]
    ELSE LET exit == Edges(prog, entry, p)
             next == NextPoint(prog, p)
             with == Append(ops, p) IN
         IF exit.kind # "none" THEN [ops |-> with, exit |-> exit]
         ELSE IF next \in leaders
              THEN [ops |-> with, exit |-> Exit("fall", <<>>, <<next>>)]
         ELSE Fill(prog, entry, leaders, next, with)

\* The blocks in order, the entry's first; before it an empty one when
\* something comes back to the entry, so that block 1 has no predecessors.
RECURSIVE CfgBlocks(_, _, _, _, _)
CfgBlocks(prog, entry, start, leaders, targets) ==
    LET sorted == <<start>> \o SetToSortSeq(leaders \ {start}, Before)
        Block(p) == LET filled == Fill(prog, entry, leaders, p, <<>>) IN
                    [start |-> p, ops |-> filled.ops, exit |-> filled.exit]
        preheader == IF start \in targets
                     THEN <<[start |-> start, ops |-> <<>>,
                             exit |-> Exit("fall", <<>>, <<start>>)]>>
                     ELSE <<>>
        blocks == preheader \o [k \in DOMAIN sorted |-> Block(sorted[k])]
    IN IF preheader = <<>> /\ \E b \in ToSet(blocks) : start \in ToSet(b.exit.to)
       THEN CfgBlocks(prog, entry, start, leaders, targets \cup {start})
       ELSE [blocks |-> blocks,
             at |-> [p \in leaders |-> Len(preheader) + CHOOSE k \in DOMAIN sorted : sorted[k] = p]]

Distinct(s) == FoldLeft(LAMBDA done, x : IF x \in ToSet(done) THEN done ELSE Append(done, x), <<>>, s)

\* recover_cfg: blocks, the block each leader starts, and who follows whom.
Connected(cfg) ==
    [blocks |-> cfg.blocks, at |-> cfg.at,
     succ |-> [b \in DOMAIN cfg.blocks |->
                 LET to == cfg.blocks[b].exit.to IN Distinct([k \in DOMAIN to |-> cfg.at[to[k]]])]]
RecoverFrom(prog, entry, start, targets) ==
    Connected(CfgBlocks(prog, entry, start, targets \cup {start}, targets))
RecoverCfg(prog, entry) ==
    LET start == Canonical(prog, <<entry, 0>>) IN
    RecoverFrom(prog, entry, start, BranchTargets(prog, entry, Points(prog, entry, {}, {start})))

-------------------------------------------------------------------------------
(* Storage: each maximal run of overlapping ranges is one variable.        *)

\* Ranges are <<offset, size>>.
Partition(ranges) ==
    LET Overlap(r, s) == r[1] < s[1] + s[2] /\ s[1] < r[1] + r[2]
        RECURSIVE Grow(_)
        Grow(g) == LET more == g \cup {r \in ranges : \E s \in g : Overlap(r, s)} IN
                   IF more = g THEN g ELSE Grow(more)
        Span(g) == LET low == CHOOSE x \in {r[1] : r \in g} : \A r \in g : x <= r[1]
                       high == CHOOSE x \in {r[1] + r[2] : r \in g} : \A r \in g : x >= r[1] + r[2]
                   IN <<low, high - low>>
    IN {Span(Grow({r})) : r \in ranges}

\* Every register the code touches, widened to its whole base register, and
\* the stack pointer: the groups in order of offset.  The program counter is a
\* group of the code's too, one that no p-code reads or writes.
RegisterGroups(prog) ==
    LET touched == UNION {UNION {ToSet(op.ins \o op.out) : op \in ToSet(prog.code[a].ops)}
                            : a \in DOMAIN prog.code}
        Base(r) == IF r \in DOMAIN prog.bases THEN prog.bases[r] ELSE r
        ranges == {Base(<<v.off, v.size>>) : v \in {v \in touched : v.space = "register"}}
                    \cup {prog.stackPointer}
    IN SetToSortSeq(Partition(ranges), Before)

GroupOf(groups, v) ==
    CHOOSE g \in ToSet(groups) : g[1] <= v.off /\ v.off + v.size <= g[1] + g[2]

\* Temporaries of one instruction that overlap are one variable when every
\* write covers the whole of it; otherwise they are refused.
UniqueSlot(ops, v) ==
    LET uniques(vs) == {<<x.off, x.size>> : x \in {x \in vs : x.space = "unique"}}
        all == uniques(UNION {ToSet(op.ins \o op.out) : op \in ToSet(ops)})
        written == uniques(UNION {ToSet(op.out) : op \in ToSet(ops)})
        span == CHOOSE s \in Partition(all) : s[1] <= v.off /\ v.off + v.size <= s[1] + s[2]
        members == {r \in all : span[1] <= r[1] /\ r[1] + r[2] <= span[1] + span[2]}
        writes == written \cap members
    IN IF writes \subseteq {span} /\ (writes # {} \/ Cardinality(members) = 1)
       THEN <<span>> ELSE <<>>
===============================================================================
