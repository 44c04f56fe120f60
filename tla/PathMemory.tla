------------------------------- MODULE PathMemory -------------------------------
(***************************************************************************)
(* SymbolicMemory: copy-on-write layers under the memories of all paths.   *)
(*                                                                         *)
(* A layer is an object; its place in `cells` is its identity.  A layer's  *)
(* parent never changes, so a memory is the chain of layers from its own   *)
(* down.  `marks` and `owed` are history variables: the checkpoints a      *)
(* memory descends from, and what was written on the way since each.       *)
(***************************************************************************)
EXTENDS Integers, Sequences

CONSTANTS
    Memories, Root, Addresses, Bytes, Image, Writes,
    Unused,          \* the contents of a memory no path has
    Absent,          \* the cell of a byte a layer does not hold
    FlattenDepth,    \* _FLATTEN_DEPTH
    MaxLayers        \* bound: how many layers are ever made

ASSUME MemoryAssumption ==
    /\ Root \in Memories
    /\ Image \in [Addresses -> Bytes] /\ Absent \notin Bytes
    /\ Unused \notin [Addresses -> Bytes]
    /\ Writes \subseteq UNION {[extent -> Bytes] : extent \in SUBSET Addresses}
    /\ FlattenDepth \in Nat /\ MaxLayers \in Nat

VARIABLES
    cells,    \* _Layer.cells of every layer made so far
    chain,    \* SymbolicMemory._layer and its parents; empty for an unused memory
    marks,    \* the checkpoints each memory descends from
    owed      \* what each memory wrote since each of them

vars == <<cells, chain, marks, owed>>

Layer == [Addresses -> Bytes \cup {Absent}]
Empty == [a \in Addresses |-> Absent]

Used(m) == chain[m] # <<>>

-----------------------------------------------------------------------------
(* Reading through a chain.                                                 *)

Holding(layers, path, a) == {i \in 1..Len(path) : layers[path[i]][a] # Absent}

\* Mutant of Nearest: the oldest layer that has the byte.
Oldest(layers, path, a) ==
    CHOOSE i \in Holding(layers, path, a) : \A j \in Holding(layers, path, a) : j <= i

Nearest(layers, path, a) ==
    CHOOSE i \in Holding(layers, path, a) : \A j \in Holding(layers, path, a) : i <= j

Found(layers, path, a) ==
    IF Holding(layers, path, a) = {} THEN Absent ELSE layers[path[Nearest(layers, path, a)]][a]

\* read_byte.
Read(m, a) ==
    LET found == Found(cells, chain[m], a) IN IF found = Absent THEN Image[a] ELSE found

\* written_since: every cell above the checkpoint, or of the whole chain when flattening
\* has taken the checkpoint out of it.
WrittenSince(m, mark) ==
    {a \in Addresses : \E i \in 1..Len(chain[m]) :
        /\ \A j \in 1..i : chain[m][j] # mark
        /\ cells[chain[m][i]][a] # Absent}

-----------------------------------------------------------------------------
(* The operations.                                                          *)

\* Mutant of Forked: the forking memory goes on writing to the layer it shares.
ForkedBelow(m) == chain[m]

\* A new layer of its own for the memory that is forked, the first of two ...
Forked(m) == <<Len(cells) + 1>> \o chain[m]

\* Mutant of Child: the copy gets a layer nobody made.
ChildAhead(m) == <<Len(cells) + 3>> \o chain[m]

\* ... and the second one for the copy.
Child(m) == <<Len(cells) + 2>> \o chain[m]

Fork(m, n) ==
    /\ Used(m) /\ ~ Used(n) /\ Len(cells) + 2 <= MaxLayers
    /\ cells' = cells \o <<Empty, Empty>>
    /\ chain' = [chain EXCEPT ![m] = Forked(m), ![n] = Child(m)]
    /\ marks' = [marks EXCEPT ![n] = marks[m]]
    /\ owed' = [owed EXCEPT ![n] = owed[m]]

\* Mutant of Marker: the marker is the new layer, not the one below it.
MarkerAbove(m) == Len(cells) + 1

Marker(m) == Head(chain[m])

Checkpoint(m) ==
    /\ Used(m) /\ Len(cells) + 1 <= MaxLayers
    /\ cells' = Append(cells, Empty)
    /\ chain' = [chain EXCEPT ![m] = <<Len(cells) + 1>> \o chain[m]]
    /\ marks' = [marks EXCEPT ![m] = @ \cup {Marker(m)}]
    /\ UNCHANGED owed

Over(data, bytes) ==
    [a \in Addresses |-> IF a \in DOMAIN data THEN data[a] ELSE bytes[a]]

\* Mutant of Flattened: only the topmost layer is kept.
TopOnly(layers, path) == layers[Head(path)]

\* _flatten: one layer with what the chain holds.
Flattened(layers, path) == [a \in Addresses |-> Found(layers, path, a)]

\* store, or write_byte of one byte.  Every byte goes to the memory's own layer; a chain
\* that is too deep is flattened, with the same result after the first byte or the last.
Write(m, data) ==
    LET top == Head(chain[m])
        written == [cells EXCEPT ![top] = Over(data, @)]
    IN /\ Used(m)
       /\ IF Len(chain[m]) - 1 > FlattenDepth
          THEN /\ Len(cells) + 1 <= MaxLayers
               /\ cells' = Append(written, Flattened(written, chain[m]))
               /\ chain' = [chain EXCEPT ![m] = <<Len(cells) + 1>>]
          ELSE cells' = written /\ chain' = chain
       /\ owed' = [owed EXCEPT ![m] = @ \cup (marks[m] \X DOMAIN data)]
       /\ marks' = marks

\* The path ends, or was merged into another.
Discard(m) ==
    /\ Used(m)
    /\ chain' = [chain EXCEPT ![m] = <<>>]
    /\ marks' = [marks EXCEPT ![m] = {}] /\ owed' = [owed EXCEPT ![m] = {}]
    /\ UNCHANGED cells

Init ==
    /\ cells = <<Empty>>
    /\ chain = [m \in Memories |-> IF m = Root THEN <<1>> ELSE <<>>]
    /\ marks = [m \in Memories |-> {}] /\ owed = [m \in Memories |-> {}]

Next ==
    \/ \E m, n \in Memories : Fork(m, n)
    \/ \E m \in Memories : Checkpoint(m) \/ Discard(m)
    \/ \E m \in Memories, data \in Writes : Write(m, data)

Spec == Init /\ [][Next]_vars

-----------------------------------------------------------------------------
(* Properties.                                                              *)

Layers == 1..Len(cells)

TypeOK ==
    /\ cells \in Seq(Layer)
    /\ chain \in [Memories -> Seq(Layers)]
    /\ marks \in [Memories -> SUBSET Layers]
    /\ owed \in [Memories -> SUBSET (Layers \X Addresses)]

\* The layer a memory writes to is its own: no other memory reads it, and no checkpoint
\* stands on it.
OwnLayer ==
    \A m \in Memories : Used(m) =>
        \A n \in Memories :
            /\ Head(chain[m]) \notin marks[n]
            /\ \A i \in 1..Len(chain[n]) : chain[n][i] = Head(chain[m]) => n = m /\ i = 1

\* "a superset, never an omission" (memory.py:53): what a path wrote after a checkpoint is
\* in written_since, however often it forked or was flattened on the way.
NoOmission ==
    \A m \in Memories : \A debt \in owed[m] : debt[2] \in WrittenSince(m, debt[1])

\* Two paths that come from one checkpoint agree on every byte neither reports: a merge that
\* looks at those alone misses no difference.
AgreeElsewhere ==
    \A m, n \in Memories : \A mark \in marks[m] \cap marks[n] :
        \A a \in Addresses \ (WrittenSince(m, mark) \cup WrittenSince(n, mark)) :
            Read(m, a) = Read(n, a)

\* Path memory is a memory of its own for every path.
Copies == INSTANCE ForkMemory WITH
    contents <- [m \in Memories |->
                    IF Used(m) THEN [a \in Addresses |-> Read(m, a)] ELSE Unused]

\* Operation by operation: a write is not lost, not even where the bytes it would have
\* left make the loss look like no step at all.
EachAsPromised ==
    [][/\ \A m, n \in Memories : Fork(m, n) => Copies!Fork(m, n)
       /\ \A m \in Memories, data \in Writes : Write(m, data) => Copies!Write(m, data)
       /\ \A m \in Memories : Discard(m) => Copies!Discard(m)]_vars
PrivateCopies == Copies!Spec /\ EachAsPromised
=============================================================================
