--------------------------------- MODULE Regions ---------------------------------
(***************************************************************************)
(* Branch regions: where the two sides of a branch meet again, which       *)
(* blocks lie between, and which values are still needed there.            *)
(*                                                                         *)
(* A function is a sequence of blocks, the first one its entry.  A block   *)
(* has phis ([out, from]: the value for each predecessor), operations and  *)
(* a terminator ([kind, uses, targets]).  An operation defines `out` (None *)
(* if it defines nothing) from the values in `uses`.                       *)
(***************************************************************************)
EXTENDS Integers, Sequences, FiniteSets, FiniteSetsExt, SequencesExt

CONSTANTS
    None,
    MaxRegionBlocks    \* MAX_REGION_BLOCKS

ASSUME RegionAssumption == MaxRegionBlocks \in Nat

Blocks(f) == DOMAIN f
Ends(f, b) == f[b].last.kind
Targets(f, b) == ToSet(f[b].last.targets)
Edges(f) == UNION {{b} \X Targets(f, b) : b \in Blocks(f)}
Reversed(edges) == {<<e[2], e[1]>> : e \in edges}
Within(edges, nodes) == {e \in edges : e[1] \in nodes /\ e[2] \in nodes}

\* Use(value), with the value worked out once.
Once(value, Use(_)) == CHOOSE used \in {Use(v) : v \in {value}} : TRUE

\* Every node some path along the edges leads to from one in start, those included.
Reached(edges, start) ==
    LET onwards(along, x) == {x} \cup {e[2] : e \in {e \in along : e[1] = x}}
        following(along) ==
            LET after[n \in 0..Cardinality(along)] ==
                    IF n = 0 THEN start ELSE UNION {onwards(along, x) : x \in after[n - 1]}
            IN after[Cardinality(along)]
    IN Once(edges, following)

-----------------------------------------------------------------------------
(* Dominance (ir/cfg.py), by what it means.                                 *)

Dominates(f, d, b) ==
    \/ d = b
    \/ /\ b \in Reached(Edges(f), {1})
       /\ b \notin Reached(Within(Edges(f), Blocks(f) \ {d}), {1} \ {d})

\* Blocks from which the function cannot come back.
NeverReturns(f) ==
    Blocks(f) \ Reached(Reversed(Edges(f)), {b \in Blocks(f) : Ends(f, b) \in {"return", "tail"}})

\* The nearest block every way out passes through, among the blocks that are not ignored.
ImmediatePostDominator(f, ignore, b) ==
    LET kept == Blocks(f) \ ignore
        edges == Within(Edges(f), kept)
        exits == {x \in kept : Targets(f, x) \subseteq ignore}
        leaves(from, without) == Reached(Within(edges, kept \ without), from \ without) \cap exits
        strict == {p \in kept \ {b} : leaves({b}, {p}) = {}}
    IN IF b \in ignore \/ leaves({b}, {}) = {} \/ strict = {} THEN None
       ELSE CHOOSE p \in strict : \A q \in strict \ {p} : leaves({p}, {q}) = {}

-----------------------------------------------------------------------------
(* Loops.                                                                   *)

\* All back edges to one header make one loop: the header, and what leads to it inside.
Headers(f) == {e[2] : e \in {e \in Edges(f) : Dominates(f, e[2], e[1])}}
Body(f, header) ==
    LET latches == {b \in Blocks(f) : header \in Targets(f, b) /\ Dominates(f, header, b)}
    IN {header} \cup
       Reached(Within(Reversed(Edges(f)), Blocks(f) \ {header}), latches \ {header})

LoopsAround(f, b) == {h \in Headers(f) : b \in Body(f, h)}
InnermostLoop(f, b) ==
    IF LoopsAround(f, b) = {} THEN None
    ELSE CHOOSE h \in LoopsAround(f, b) :
            \A g \in LoopsAround(f, b) : Cardinality(Body(f, h)) <= Cardinality(Body(f, g))

\* Blocks of the loop from which it can go round again.
Continuing(f, header) ==
    LET body == Body(f, header)
    IN {header} \cup Reached(Within(Reversed(Edges(f)), body \ {header}),
                             {b \in body \ {header} : header \in Targets(f, b)})

\* Blocks on some way from the branch round to itself.
Returning(f, branch) ==
    {branch} \cup (Reached(Reversed(Edges(f)), {b \in Blocks(f) : branch \in Targets(f, b)})
                   \cap Reached(Edges(f), {branch}))

\* The nearest block every way round from the branch passes through, the header last.
LoopJoin(f, header, live, branch) ==
    LET again == 0                               \* going back to the header
        nodes == live \cup {again}
        edges == {<<e[1], IF e[2] = header THEN again ELSE e[2]>> : e \in Within(Edges(f), live)}
        through(x) == {y \in nodes : again \notin Reached(Within(edges, nodes \ {y}), {x} \ {y})}
        ahead == through(branch) \ {branch}
        nearest == CHOOSE x \in ahead :
                       \A y \in ahead : Cardinality(through(y)) <= Cardinality(through(x))
    IN IF branch \notin live \/ ahead = {} THEN None
       ELSE IF nearest = again THEN header ELSE nearest

-----------------------------------------------------------------------------
(* Regions.                                                                 *)

\* Library output and small helpers may be called on the way, functions may not.
Callable(op) == op.kind = "call" => op.target \in {"external", "helper"}

\* Where the ways round a loop from the branch meet, and the blocks that stay on them.
MeetingIn(f, header, branch) ==
    LET live == Continuing(f, header)
        around == Returning(f, branch)
        join(top, blocks) == [join |-> LoopJoin(f, top, blocks, branch), live |-> blocks]
    IN IF \E t \in Targets(f, branch) : t \in around \ live
       THEN Once(around, LAMBDA blocks : join(branch, blocks))
       ELSE Once(live, LAMBDA blocks : join(header, blocks))

\* Outside every loop: where all that comes back passes through.
Meeting(f, branch) ==
    LET header == InnermostLoop(f, branch)
    IN IF header # None THEN Once(header, LAMBDA top : MeetingIn(f, top, branch))
       ELSE [join |-> ImmediatePostDominator(f, NeverReturns(f), branch), live |-> Blocks(f)]

Fits(f, branch, blocks) ==
    /\ branch \notin blocks /\ Cardinality(blocks) <= MaxRegionBlocks
    /\ \A b \in blocks : /\ Ends(f, b) \in {"jump", "branch", "indirect", "halt"}
                         /\ \A op \in ToSet(f[b].ops) : Callable(op)
                         /\ b \notin Reached(Within(Edges(f), blocks), Targets(f, b) \cap blocks)

\* RegionFinder._find
Region(f, branch) ==
    LET between(meeting) ==
            LET inside == meeting.live \ {meeting.join}
                onwards == {e \in Within(Edges(f), inside) : e[1] # branch}
            IN [branch |-> branch, join |-> meeting.join,
                blocks |-> Reached(onwards, Targets(f, branch) \cap inside)]
        found(region) ==
            IF region.join = None \/ ~ Fits(f, branch, region.blocks) THEN None ELSE region
    IN Once(Once(Meeting(f, branch), between), found)

-----------------------------------------------------------------------------
(* Values still needed at a join.                                           *)

PhiOuts(f, b) == {phi.out : phi \in ToSet(f[b].phis)}
OutsBefore(f, b, n) == PhiOuts(f, b) \cup {f[b].ops[k].out : k \in 1..(n - 1)}
Made(f, b) == OutsBefore(f, b, Len(f[b].ops) + 1) \ {None}
Defined(f) == UNION {Made(f, b) : b \in Blocks(f)}
Operations(f) == UNION {ToSet(f[b].ops) : b \in Blocks(f)}
Phis(f) == UNION {ToSet(f[b].phis) : b \in Blocks(f)}

\* What an operation reads: its operands, and the value it takes its address from.
Reads(op) == ToSet(op.uses) \cup ({op.base} \ {None})

\* What a block uses before it makes it.
Exposed(f, b) ==
    (UNION {Reads(f[b].ops[n]) \ OutsBefore(f, b, n) : n \in 1..Len(f[b].ops)})
    \cup (ToSet(f[b].last.uses) \ Made(f, b))

\* What a block's phis use of one predecessor.
PhiUses(f, source, b) == {phi.from[source] : phi \in ToSet(f[b].phis)}

\* _live_at_entry: which values are used from the entry of which block on.
LiveAt(f) ==
    LET needed == UNION {{b} \X (Exposed(f, b) \cup
                                 ((UNION {PhiUses(f, b, t) : t \in Targets(f, b)}) \ Made(f, b))) :
                         b \in Blocks(f)}
        back == UNION {{<<<<e[2], id>>, <<e[1], id>>>> : id \in Defined(f) \ Made(f, e[1])} :
                       e \in Edges(f)}
    IN Reached(back, needed)

\* Mutant of UsableAfter: what was made anywhere before counts.
MadeAnywhere(f, join, id) == TRUE

\* RegionFinder.usable_after: dead values need not agree.
UsableAfter(f, join, id) == id \notin Defined(f) \/ <<join, id>> \in LiveAt(f) \/ id \in PhiOuts(f, join)

-----------------------------------------------------------------------------
(* Values used as addresses, followed through memory (_Addressing).         *)

\* Locations.of: a known address, one loaded from a known address, or some other value.
LocationOf(f, op) ==
    LET loads == {l \in Operations(f) : l.kind = "load" /\ l.out = op.base /\ l.base = None}
    IN IF op.base = None THEN <<"const", op.cell>>
       ELSE IF loads = {} THEN <<"value", op.base>>
       ELSE <<"load", (CHOOSE l \in loads : TRUE).cell>>

Accesses(f) == {op \in Operations(f) : op.kind \in {"load", "store"}}

\* From a value to those it is computed from, and those stored where it is loaded from.
Sources(f) ==
    LET loads == {op \in Accesses(f) : op.kind = "load"}
        stored(load) == {op \in Accesses(f) \ loads : LocationOf(f, op) = LocationOf(f, load)}
    IN (UNION {{op.out} \X ToSet(op.uses) : op \in {op \in Operations(f) : op.kind = "let"}})
       \cup (UNION {{phi.out} \X Range(phi.from) : phi \in Phis(f)})
       \cup UNION {UNION {{load.out} \X ToSet(op.uses) : op \in stored(load)} : load \in loads}

\* Mutant of Addressing: not followed through memory, nor back to where they come from.
DirectAddressing(f) == {op.base : op \in Accesses(f)} \ {None}

\* RegionFinder.addressing.
Addressing(f) == Reached(Sources(f), {op.base : op \in Accesses(f)} \ {None})

\* RegionFinder.address_slots: where what becomes an address is loaded from.
AddressSlots(f) ==
    {LocationOf(f, op) : op \in {op \in Accesses(f) : op.kind = "load" /\ op.out \in Addressing(f)}}
=============================================================================
