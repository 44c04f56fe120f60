-------------------------------- MODULE Passes --------------------------------
(***************************************************************************)
(* The passes after folding: block-local forwarding of loads and stores    *)
(* (simplify/memory.py), common subexpressions along the dominator tree    *)
(* (simplify/cse.py), removal of what nothing uses and nothing can notice  *)
(* (simplify/dce.py), and control-flow cleanup (simplify/cfg.py).          *)
(***************************************************************************)
EXTENDS Fold

\* The positions instructions start at, once operation k moved to position at[k].
Restart(starts, at) == [k \in DOMAIN starts |-> <<starts[k][1], at[starts[k][2] + 1]>>]

-------------------------------------------------------------------------------
(* Forwarding.  A fact is what an address is known to hold: [base, offset, *)
(* w, value]; addresses of different bases may be the same.                *)

Absolute == -1

RECURSIVE CanonicalFrom(_, _, _, _)
CanonicalFrom(defs, address, offset, seen) ==
    LET d == defs[address.n]
        delta == IF d.op = "add" THEN d.ins[2].n ELSE -d.ins[2].n
    IN IF ~address.var THEN [base |-> Absolute, offset |-> (offset + address.n) % 2^PointerWidth]
       ELSE IF Defined(defs, address, {"add", "sub"}) /\ ~d.ins[2].var /\ address.n \notin seen
            THEN CanonicalFrom(defs, d.ins[1], offset + delta, seen \cup {address.n})
       ELSE [base |-> address.n, offset |-> offset % 2^PointerWidth]
CanonicalAddress(defs, address) == CanonicalFrom(defs, address, 0, {})

Covers(fact, where, w) == fact.base = where.base /\ fact.offset = where.offset /\ fact.w >= w
Disjoint(fact, where, w) ==
    LET distance == (where.offset - fact.offset) % 2^PointerWidth IN
    /\ fact.base = where.base
    /\ distance >= fact.w \div Byte
    /\ 2^PointerWidth - distance >= w \div Byte

Fact(where, w, value) == [base |-> where.base, offset |-> where.offset, w |-> w, value |-> value]

ForwardLoad(st, o, defs) ==
    LET where == CanonicalAddress(defs, o.ins[1])
        w == o.out[1].w
        known == SelectSeq(st.facts, LAMBDA fact : Covers(fact, where, w))
        fact == Last(known)
        learnt == [st EXCEPT !.facts = Append(@, Fact(where, w, o.out[1]))]
    IN IF known = <<>> THEN [learnt EXCEPT !.ops = Append(@, o)]
       ELSE IF fact.w = w THEN [st EXCEPT !.repl = Replaced(@, o.out[1].n, fact.value)]
       ELSE [learnt EXCEPT !.ops = Append(@, [o EXCEPT !.op = "trunc", !.ins = <<fact.value>>])]

\* As ForwardStore, leaving what other addresses were known to hold.
ForwardStoreTrusting(st, o, defs) ==
    [st EXCEPT !.ops = Append(@, o),
               !.facts = Append(@, Fact(CanonicalAddress(defs, o.ins[1]), o.ins[2].w, o.ins[2]))]

ForwardStore(st, o, defs) ==
    LET where == CanonicalAddress(defs, o.ins[1])
        w == o.ins[2].w
    IN [st EXCEPT !.ops = Append(@, o),
                  !.facts = Append(SelectSeq(@, LAMBDA fact : Disjoint(fact, where, w)),
                                   Fact(where, w, o.ins[2]))]

ForwardOperation(st, o, defs) ==
    LET here == [st EXCEPT !.at = Append(@, Len(st.ops))]
        current == MapOperation(st.repl, o)
        kept == [here EXCEPT !.ops = Append(@, current)]
    IN CASE o.op = "load" -> ForwardLoad(here, current, defs)
         [] o.op = "store" -> ForwardStore(here, current, defs)
         [] o.op \in {"call", "unsupported"} -> [kept EXCEPT !.facts = <<>>]
         [] OTHER -> kept

ForwardMemory(f) ==
    LET binary == {o \in UNION {ToSet(f.blocks[b].ops) : b \in DOMAIN f.blocks} : o.op \in Binary}
        defs == [n \in {o.out[1].n : o \in binary} |-> CHOOSE o \in binary : o.out[1].n = n]
        ForwardBlock(st, b) ==
            LET done == FoldLeft(LAMBDA s, o : ForwardOperation(s, o, defs),
                                 [st EXCEPT !.ops = <<>>, !.facts = <<>>, !.at = <<>>],
                                 f.blocks[b].ops)
            IN [done EXCEPT !.blocks[b].ops = done.ops,
                            !.blocks[b].starts = Restart(@, Append(done.at, Len(done.ops)))]
        done == FoldLeft(ForwardBlock,
                         [repl |-> <<>>, ops |-> <<>>, facts |-> <<>>, at |-> <<>>, blocks |-> f.blocks],
                         [b \in DOMAIN f.blocks |-> b])
    IN Substitute([f EXCEPT !.blocks = done.blocks], done.repl)

-------------------------------------------------------------------------------
(* Common subexpressions: an operation repeating one that dominates it.    *)

CseKey(o) == [op |-> o.op, ins |-> o.ins, low |-> o.low, w |-> o.out[1].w]
Repeatable(o) == IsRemovable(o)

CseOperation(st, o) ==
    LET current == MapOperation(st.repl, o)
        key == CseKey(current)
        same == {e \in st.available : e.key = key}
    IN IF ~Repeatable(current) THEN st
       ELSE IF same = {} THEN [st EXCEPT !.available = @ \cup {[key |-> key, value |-> o.out[1]]}]
       ELSE [st EXCEPT !.repl = Replaced(@, o.out[1].n, (CHOOSE e \in same : TRUE).value)]

\* As CseBlock, what one block has computed being available wherever comes later.
RECURSIVE CseBlockAnywhere(_, _, _, _)
CseBlockAnywhere(f, children, st, b) ==
    FoldLeft(LAMBDA s, c : CseBlockAnywhere(f, children, s, c),
             FoldLeft(CseOperation, st, f.blocks[b].ops), children[b])

\* The blocks b dominates, each seeing what is available at the end of its parent.
RECURSIVE CseBlock(_, _, _, _)
CseBlock(f, children, st, b) ==
    LET here == FoldLeft(CseOperation, st, f.blocks[b].ops) IN
    FoldLeft(LAMBDA s, c : CseBlock(f, children, [s EXCEPT !.available = here.available], c),
             here, children[b])

EliminateCommon(f) ==
    LET succ == Succ(f)
        reachable == ReachableBlocks(succ) \ {1}
        parent == [b \in reachable |-> ImmediateDominator(succ, b)]
        children == [b \in DOMAIN f.blocks |->
                        SetToSortSeq({c \in reachable : parent[c] = b}, <)]
    IN Substitute(f, CseBlock(f, children, [repl |-> <<>>, available |-> {}], 1).repl)

-------------------------------------------------------------------------------
(* Dead code.  What is left is the least set of removable operations and   *)
(* phis that nothing outside it uses, taken away one after another as      *)
(* their uses go.                                                          *)

\* Every place an operand stands, with the number of the value it is needed for.
UsesFor(f) ==
    UNION {(UNION {{<<i[2], phi.out.n>> : i \in ToSet(phi.incoming)} : phi \in ToSet(f.blocks[b].phis)}) \cup
           (UNION {{<<o, IF IsRemovable(op) THEN op.out[1].n ELSE Absolute>> : o \in ToSet(op.ins)}
                    : op \in ToSet(f.blocks[b].ops)}) \cup
           {<<o, Absolute>> : o \in ToSet(TerminatorInputs(f.blocks[b].term))}
             : b \in DOMAIN f.blocks}

Candidates(f) ==
    UNION {{phi.out.n : phi \in ToSet(f.blocks[b].phis)} \cup
           {o.out[1].n : o \in {o \in ToSet(f.blocks[b].ops) : IsRemovable(o)}} : b \in DOMAIN f.blocks}

RECURSIVE DeadFrom(_, _, _)
DeadFrom(uses, candidates, dead) ==
    LET used == {u[1].n : u \in {u \in uses : u[1].var /\ u[2] \notin dead}}
        more == candidates \ used
    IN IF more = dead THEN dead ELSE DeadFrom(uses, candidates, more)

EliminateDead(f) ==
    LET dead == DeadFrom(UsesFor(f), Candidates(f), {})
        Kept(o) == ~(IsRemovable(o) /\ o.out[1].n \in dead)
        At(ops) == [k \in 1..Len(ops) + 1 |-> Len(SelectSeq(SubSeq(ops, 1, k - 1), Kept))]
    IN [f EXCEPT !.blocks = [b \in DOMAIN @ |->
            [@[b] EXCEPT !.phis = SelectSeq(@, LAMBDA phi : phi.out.n \notin dead),
                         !.ops = SelectSeq(@, Kept),
                         !.starts = Restart(@, At(f.blocks[b].ops))]]]

-------------------------------------------------------------------------------
(* Control flow: constant branches, blocks nothing reaches, merging.       *)

\* Phi inputs from edges that are gone go; a phi left with one value is that value.
PrunePhis(f) ==
    LET succ == Succ(f)
        reachable == ReachableBlocks(succ)
        Live(b, phi) == SelectSeq(phi.incoming, LAMBDA i : i[1] \in Preds(succ, b))
        Values(b, phi) == {i[2] : i \in ToSet(Live(b, phi))} \ {phi.out}
        Single(b, phi) == b \in reachable /\ Cardinality(Values(b, phi)) = 1
        gone == UNION {{<<b, phi>> : phi \in {p \in ToSet(f.blocks[b].phis) : Single(b, p)}}
                         : b \in DOMAIN f.blocks}
        repl == [n \in {g[2].out.n : g \in gone} |->
                    LET g == CHOOSE g \in gone : g[2].out.n = n
                    IN CHOOSE v \in Values(g[1], g[2]) : TRUE]
        Pruned(b, phis) ==
            LET kept == SelectSeq(phis, LAMBDA phi : ~Single(b, phi)) IN
            [k \in DOMAIN kept |-> [kept[k] EXCEPT !.incoming = Live(b, kept[k])]]
    IN Substitute([f EXCEPT !.blocks = [b \in DOMAIN @ |-> [@[b] EXCEPT !.phis = Pruned(b, @)]]], repl)

FoldBranch(t) ==
    IF t.op # "branch" THEN t
    ELSE IF ~t.ins[1].var THEN Terminator("jump", <<>>, <<t.to[IF t.ins[1].n # 0 THEN 1 ELSE 2]>>, t.at)
    ELSE IF t.to[1] = t.to[2] THEN Terminator("jump", <<>>, <<t.to[1]>>, t.at) ELSE t

FoldBranches(f) ==
    PrunePhis([f EXCEPT !.blocks = [b \in DOMAIN @ |-> [@[b] EXCEPT !.term = FoldBranch(@)]]])

RemoveUnreachable(f) ==
    LET succ == Succ(f)
        kept == SetToSortSeq(ReachableBlocks(succ), <)
        number == [b \in ToSet(kept) |-> CHOOSE k \in DOMAIN kept : kept[k] = b]
        Moved(incoming) ==
            LET from == SelectSeq(incoming, LAMBDA i : i[1] \in DOMAIN number) IN
            [k \in DOMAIN from |-> <<number[from[k][1]], from[k][2]>>]
        Renamed(b) ==
            [b EXCEPT !.phis = [k \in DOMAIN @ |-> [@[k] EXCEPT !.incoming = Moved(@)]],
                      !.term.to = [k \in DOMAIN @ |-> number[@[k]]]]
    IN IF Len(kept) = Len(f.blocks) THEN f
       ELSE PrunePhis([f EXCEPT !.blocks = [k \in DOMAIN kept |-> Renamed(f.blocks[kept[k]])]])

\* Block t can be appended to b, which jumps to it and is all that comes before it.
Mergeable(f, b) ==
    LET jump == f.blocks[b].term
        t == jump.to[1]
    IN /\ jump.op = "jump"
       /\ t \notin {1, b}
       /\ Preds(Succ(f), t) = {b}
       /\ f.blocks[t].phis = <<>>

Join(f, b) ==
    LET t == f.blocks[b].term.to[1]
        target == f.blocks[t]
        offset == Len(f.blocks[b].ops)
        joined == [f.blocks[b] EXCEPT
                      !.ops = @ \o target.ops, !.term = target.term,
                      !.starts = @ \o [k \in DOMAIN target.starts |->
                                         <<target.starts[k][1], target.starts[k][2] + offset>>]]
        \* The blocks after t now see b before them.
        Seen(incoming) == [k \in DOMAIN incoming |->
                             <<IF incoming[k][1] = t THEN b ELSE incoming[k][1], incoming[k][2]>>]
        Ordered(incoming) == SortSeq(incoming, LAMBDA i, j : i[1] < j[1])
        blocks == [f.blocks EXCEPT ![b] = joined]
    IN [f EXCEPT !.blocks = [k \in DOMAIN blocks |->
            [blocks[k] EXCEPT !.phis = [j \in DOMAIN @ |->
                [@[j] EXCEPT !.incoming = Ordered(Seen(@))]]]]]

\* Only the first such pair, in the order of the blocks.
MergeBlocks(f) ==
    LET able == {b \in DOMAIN f.blocks : Mergeable(f, b)} IN
    IF able = {} THEN f
    ELSE RemoveUnreachable(Join(f, CHOOSE b \in able : \A c \in able : b <= c))

RECURSIVE SimplifyCfg(_)
SimplifyCfg(f) ==
    LET simplified == MergeBlocks(RemoveUnreachable(FoldBranches(f))) IN
    IF simplified = f THEN f ELSE SimplifyCfg(simplified)
===============================================================================
