---------------------------- MODULE PathMemoryProofs ----------------------------
(***************************************************************************)
(* Proofs about PathMemory, for any number of memories, bytes, layers and  *)
(* any depth of flattening.                                                *)
(*                                                                         *)
(* The lemmas on Found and Since say how a chain of layers is read and     *)
(* what it reports; ForkReads, CheckpointReads and WriteReads say what     *)
(* each operation does to what is read, ForkFaithful, CheckpointFaithful   *)
(* and WriteFaithful what it does to what is reported.  Inv, the           *)
(* conjunction of the module's invariants, is inductive: OwnLayer is what  *)
(* keeps a write out of the other chains, and the rest follows from it.    *)
(***************************************************************************)
EXTENDS PathMemory, WellFoundedInduction, TLAPS

\* A set of numbers that is not empty has a least one.
LEMMA Least ==
    ASSUME NEW T, T \subseteq Nat, T # {}
    PROVE  \E x \in T : \A y \in T : x <= y
<1> DEFINE R == {p \in Nat \X Nat : p[1] < p[2]}
<1>1. IsWellFoundedOn(R, Nat)
  BY NatLessThanWellFounded DEF OpToRel
<1>2. \E x \in T : \A y \in T : <<y, x>> \notin R
  <2> HIDE DEF R
  <2> QED BY <1>1, WFMin
<1>3. \A x, y \in T : <<y, x>> \notin R => x <= y
  OBVIOUS
<1> QED BY <1>2, <1>3

-----------------------------------------------------------------------------
(* Reading through a chain.                                                 *)

\* i is the first layer of the chain that has the byte.
IsFirst(layers, path, a, i) ==
    /\ i \in 1..Len(path) /\ layers[path[i]][a] # Absent
    /\ \A j \in 1..Len(path) : j < i => layers[path[j]][a] = Absent

\* Some layer of the chain has the byte.
Has(layers, path, a) == \E i \in 1..Len(path) : layers[path[i]][a] # Absent

\* The first layer that has a byte is the one that is read.
LEMMA FoundFirst ==
    ASSUME NEW layers, NEW path, NEW a, NEW i, Len(path) \in Nat,
           IsFirst(layers, path, a, i)
    PROVE  Found(layers, path, a) = layers[path[i]][a]
<1>1. i \in Holding(layers, path, a) /\ \A j \in Holding(layers, path, a) : i <= j
  BY DEF Holding, IsFirst
<1>2. \A k \in Holding(layers, path, a) :
         (\A j \in Holding(layers, path, a) : k <= j) => k = i
  BY <1>1 DEF Holding
<1>3. Nearest(layers, path, a) = i
  BY <1>1, <1>2 DEF Nearest
<1> QED BY <1>1, <1>3 DEF Found

\* A byte no layer has is not found.
LEMMA FoundNowhere ==
    ASSUME NEW layers, NEW path, NEW a, ~ Has(layers, path, a)
    PROVE  Found(layers, path, a) = Absent
BY DEF Found, Holding, Has

\* A byte some layer has, has a first one.
LEMMA FirstExists ==
    ASSUME NEW layers, NEW path, NEW a, Len(path) \in Nat, Has(layers, path, a)
    PROVE  \E i \in 1..Len(path) : IsFirst(layers, path, a, i)
<1> DEFINE H == Holding(layers, path, a)
<1>1. H \subseteq Nat /\ H # {}
  BY DEF Holding, Has
<1>2. PICK i \in H : \A j \in H : i <= j
  <2> HIDE DEF H
  <2> QED BY <1>1, Least
<1>3. i \in 1..Len(path) /\ IsFirst(layers, path, a, i)
  BY <1>2 DEF Holding, IsFirst
<1> QED BY <1>3

\* What is found is what a layer holds: a byte is found where one has it.
LEMMA FoundHas ==
    ASSUME NEW layers, NEW path, NEW a, Len(path) \in Nat
    PROVE  Found(layers, path, a) # Absent <=> Has(layers, path, a)
<1>1. CASE Has(layers, path, a)
  <2>1. PICK i \in 1..Len(path) : IsFirst(layers, path, a, i)
    BY <1>1, FirstExists
  <2>2. Found(layers, path, a) = layers[path[i]][a]
    BY <2>1, FoundFirst
  <2> QED BY <1>1, <2>1, <2>2 DEF IsFirst
<1>2. CASE ~ Has(layers, path, a)
  BY <1>2, FoundNowhere
<1> QED BY <1>1, <1>2

\* Chains that agree on a byte from layer to layer are read alike.
LEMMA FoundSame ==
    ASSUME NEW layers, NEW others, NEW path, NEW a, Len(path) \in Nat,
           \A i \in 1..Len(path) : others[path[i]][a] = layers[path[i]][a]
    PROVE  Found(others, path, a) = Found(layers, path, a)
<1>1. CASE Has(layers, path, a)
  <2>1. PICK i \in 1..Len(path) : IsFirst(layers, path, a, i)
    BY <1>1, FirstExists
  <2>2. IsFirst(others, path, a, i)
    BY <2>1 DEF IsFirst
  <2> QED BY <2>1, <2>2, FoundFirst
<1>2. CASE ~ Has(layers, path, a)
  <2>1. ~ Has(others, path, a)
    BY <1>2 DEF Has
  <2> QED BY <1>2, <2>1, FoundNowhere
<1> QED BY <1>1, <1>2

\* A chain with one more layer on top.
OnTop(longer, path, x) ==
    /\ Len(path) \in Nat /\ Len(longer) = Len(path) + 1 /\ longer[1] = x
    /\ \A i \in 1..Len(path) : longer[i + 1] = path[i]
    /\ \A i \in 1..Len(longer) : i = 1 \/ (i - 1 \in 1..Len(path) /\ longer[i] = path[i - 1])

LEMMA Pushed ==
    ASSUME NEW S, NEW path \in Seq(S), NEW x
    PROVE  <<x>> \o path \in Seq(S \cup {x}) /\ OnTop(<<x>> \o path, path, x)
BY DEF OnTop

\* A layer without the byte, put on top, changes nothing.
LEMMA FoundBeneath ==
    ASSUME NEW layers, NEW others, NEW longer, NEW path, NEW x, NEW a,
           OnTop(longer, path, x), others[x][a] = Absent,
           \A i \in 1..Len(path) : others[path[i]][a] = layers[path[i]][a]
    PROVE  Found(others, longer, a) = Found(layers, path, a)
<1>0. /\ Len(path) \in Nat /\ Len(longer) = Len(path) + 1 /\ longer[1] = x
      /\ \A i \in 1..Len(path) : longer[i + 1] = path[i]
      /\ \A i \in 1..Len(longer) :
            i = 1 \/ (i - 1 \in 1..Len(path) /\ longer[i] = path[i - 1])
  BY DEF OnTop
<1>1. CASE Has(layers, path, a)
  <2>1. PICK i \in 1..Len(path) : IsFirst(layers, path, a, i)
    BY <1>0, <1>1, FirstExists
  <2>2. \A j \in 1..Len(longer) : j < i + 1 => others[longer[j]][a] = Absent
    <3> TAKE j \in 1..Len(longer)
    <3> HAVE j < i + 1
    <3>1. CASE j = 1
      BY <3>1, <1>0
    <3>2. CASE j # 1
      <4>1. j - 1 \in 1..Len(path) /\ longer[j] = path[j - 1] /\ j - 1 < i
        BY <3>2, <1>0
      <4> QED BY <4>1, <2>1 DEF IsFirst
    <3> QED BY <3>1, <3>2
  <2>3. IsFirst(others, longer, a, i + 1)
    BY <1>0, <2>1, <2>2 DEF IsFirst
  <2>4. Found(others, longer, a) = others[longer[i + 1]][a]
    BY <1>0, <2>3, FoundFirst
  <2>5. Found(layers, path, a) = layers[path[i]][a]
    BY <1>0, <2>1, FoundFirst
  <2> QED BY <1>0, <2>4, <2>5
<1>2. CASE ~ Has(layers, path, a)
  <2>1. ~ Has(others, longer, a)
    BY <1>0, <1>2 DEF Has
  <2> QED BY <1>2, <2>1, FoundNowhere
<1> QED BY <1>1, <1>2

\* A chain of one layer is that layer.
LEMMA FoundAlone ==
    ASSUME NEW layers, NEW x, NEW a
    PROVE  Found(layers, <<x>>, a) = layers[x][a]
<1>1. Len(<<x>>) = 1 /\ <<x>>[1] = x
  OBVIOUS
<1>2. CASE layers[x][a] = Absent
  <2>1. ~ Has(layers, <<x>>, a)
    BY <1>1, <1>2 DEF Has
  <2> QED BY <1>2, <2>1, FoundNowhere
<1>3. CASE layers[x][a] # Absent
  <2>1. IsFirst(layers, <<x>>, a, 1)
    BY <1>1, <1>3 DEF IsFirst
  <2> QED BY <1>1, <2>1, FoundFirst
<1> QED BY <1>2, <1>3

-----------------------------------------------------------------------------
(* Typing.                                                                  *)

LEMMA MemoryType == ASSUME Init PROVE TypeOK
<1>1. cells \in Seq(Layer) /\ Layers = {1}
  <2>1. Empty \in Layer
    BY DEF Empty, Layer
  <2> QED BY <2>1 DEF Init, Layers
<1>2. <<1>> \in Seq(Layers) /\ <<>> \in Seq(Layers)
  BY <1>1
<1>3. chain \in [Memories -> Seq(Layers)]
  BY <1>2 DEF Init
<1>4. marks \in [Memories -> SUBSET Layers] /\ owed \in [Memories -> SUBSET (Layers \X Addresses)]
  BY DEF Init
<1> QED BY <1>1, <1>3, <1>4 DEF TypeOK

\* What typing says of a memory in use.
LEMMA ChainType ==
    ASSUME TypeOK, NEW m \in Memories, Used(m)
    PROVE  /\ chain[m] \in Seq(Layers) /\ Len(chain[m]) \in Nat \ {0}
           /\ Head(chain[m]) = chain[m][1] /\ Head(chain[m]) \in Layers
           /\ \A i \in 1..Len(chain[m]) : chain[m][i] \in Layers
BY DEF TypeOK, Used

LEMMA CellsType ==
    ASSUME TypeOK
    PROVE  /\ Len(cells) \in Nat /\ Layers \subseteq Nat
           /\ \A l \in Layers : cells[l] \in Layer
BY DEF TypeOK, Layers

\* What a fork makes of the layers and of the two chains.
LEMMA ForkShape ==
    ASSUME TypeOK, NEW m \in Memories, NEW n \in Memories, Fork(m, n)
    PROVE  /\ m # n
           /\ Len(cells') = Len(cells) + 2
           /\ \A l \in Layers : cells'[l] = cells[l]
           /\ cells'[Len(cells) + 1] = Empty /\ cells'[Len(cells) + 2] = Empty
           /\ cells' \in Seq(Layer)
           /\ chain'[m] = <<Len(cells) + 1>> \o chain[m]
           /\ chain'[n] = <<Len(cells) + 2>> \o chain[m]
           /\ OnTop(chain'[m], chain[m], Len(cells) + 1)
           /\ OnTop(chain'[n], chain[m], Len(cells) + 2)
           /\ \A p \in Memories \ {m, n} : chain'[p] = chain[p]
<1>1. Empty \in Layer
  BY DEF Empty, Layer
<1>2. Len(cells) \in Nat /\ cells \in Seq(Layer)
  BY DEF TypeOK
<1>3. cells' = cells \o <<Empty, Empty>>
  BY DEF Fork
<1>4. /\ Len(cells') = Len(cells) + 2 /\ \A l \in Layers : cells'[l] = cells[l]
      /\ cells'[Len(cells) + 1] = Empty /\ cells'[Len(cells) + 2] = Empty
      /\ cells' \in Seq(Layer)
  BY <1>1, <1>2, <1>3 DEF Layers
<1>5. m # n
  BY DEF Fork
<1>6. /\ chain'[m] = <<Len(cells) + 1>> \o chain[m]
      /\ chain'[n] = <<Len(cells) + 2>> \o chain[m]
      /\ \A p \in Memories \ {m, n} : chain'[p] = chain[p]
  BY <1>5 DEF Fork, TypeOK, Forked, Child
<1>7. OnTop(chain'[m], chain[m], Len(cells) + 1) /\ OnTop(chain'[n], chain[m], Len(cells) + 2)
  <2>1. chain[m] \in Seq(Layers)
    BY DEF TypeOK
  <2>2. OnTop(<<Len(cells) + 1>> \o chain[m], chain[m], Len(cells) + 1)
    BY <2>1, Pushed
  <2>3. OnTop(<<Len(cells) + 2>> \o chain[m], chain[m], Len(cells) + 2)
    BY <2>1, Pushed
  <2> QED BY <1>6, <2>2, <2>3
<1> QED BY <1>4, <1>5, <1>6, <1>7

\* ... and a checkpoint.
LEMMA CheckpointShape ==
    ASSUME TypeOK, NEW m \in Memories, Checkpoint(m)
    PROVE  /\ Len(cells') = Len(cells) + 1
           /\ \A l \in Layers : cells'[l] = cells[l]
           /\ cells'[Len(cells) + 1] = Empty
           /\ cells' \in Seq(Layer)
           /\ chain'[m] = <<Len(cells) + 1>> \o chain[m]
           /\ OnTop(chain'[m], chain[m], Len(cells) + 1)
           /\ \A p \in Memories \ {m} : chain'[p] = chain[p]
<1>1. Empty \in Layer
  BY DEF Empty, Layer
<1>2. Len(cells) \in Nat /\ cells \in Seq(Layer) /\ cells' = Append(cells, Empty)
  BY DEF TypeOK, Checkpoint
<1>3. /\ Len(cells') = Len(cells) + 1 /\ \A l \in Layers : cells'[l] = cells[l]
      /\ cells'[Len(cells) + 1] = Empty /\ cells' \in Seq(Layer)
  BY <1>1, <1>2 DEF Layers
<1>4. /\ chain'[m] = <<Len(cells) + 1>> \o chain[m]
      /\ \A p \in Memories \ {m} : chain'[p] = chain[p]
  BY DEF Checkpoint, TypeOK
<1>5. OnTop(chain'[m], chain[m], Len(cells) + 1)
  <2>1. chain[m] \in Seq(Layers)
    BY DEF TypeOK
  <2> QED BY <1>4, <2>1, Pushed
<1> QED BY <1>3, <1>4, <1>5

\* A memory finds a byte of a known kind in its chain, or none.
LEMMA FoundType ==
    ASSUME NEW layers, NEW path, NEW a \in Addresses, Len(path) \in Nat,
           \A i \in 1..Len(path) : layers[path[i]] \in Layer
    PROVE  Found(layers, path, a) \in Bytes \cup {Absent}
<1>1. CASE Has(layers, path, a)
  <2>1. PICK i \in 1..Len(path) : IsFirst(layers, path, a, i)
    BY <1>1, FirstExists
  <2>2. Found(layers, path, a) = layers[path[i]][a]
    BY <2>1, FoundFirst
  <2>3. layers[path[i]] \in Layer
    OBVIOUS
  <2> QED BY <2>2, <2>3 DEF Layer
<1>2. CASE ~ Has(layers, path, a)
  BY <1>2, FoundNowhere
<1> QED BY <1>1, <1>2

\* What a write leaves in the layers: the bytes in the top layer, and, where the chain was
\* too deep, all it holds in a layer of its own.
Written(m, data) == [cells EXCEPT ![Head(chain[m])] = Over(data, @)]

LEMMA WrittenType ==
    ASSUME TypeOK, NEW m \in Memories, Used(m), NEW data \in Writes
    PROVE  /\ Written(m, data) \in Seq(Layer) /\ Len(Written(m, data)) = Len(cells)
           /\ \A l \in Layers \ {Head(chain[m])} : Written(m, data)[l] = cells[l]
           /\ Written(m, data)[Head(chain[m])] = Over(data, cells[Head(chain[m])])
           /\ \A l \in Layers : Written(m, data)[l] \in Layer
<1> DEFINE top == Head(chain[m])
<1>1. top \in Layers /\ Len(cells) \in Nat /\ cells[top] \in Layer /\ cells \in Seq(Layer)
  BY ChainType, CellsType DEF TypeOK
<1>2. \A a \in DOMAIN data : data[a] \in Bytes
  BY MemoryAssumption
<1>3. Over(data, cells[top]) \in Layer
  BY <1>1, <1>2 DEF Over, Layer
<1> HIDE DEF top
<1>4. [cells EXCEPT ![top] = Over(data, cells[top])] \in Seq(Layer)
  BY <1>1, <1>3 DEF Layers
<1>5. Written(m, data) = [cells EXCEPT ![top] = Over(data, cells[top])]
  BY DEF Written, top
<1>6. /\ Len(Written(m, data)) = Len(cells)
      /\ \A l \in Layers \ {top} : Written(m, data)[l] = cells[l]
      /\ Written(m, data)[top] = Over(data, cells[top])
      /\ \A l \in Layers : Written(m, data)[l] \in Layer
  BY <1>1, <1>3, <1>4, <1>5 DEF Layers
<1> QED BY <1>4, <1>5, <1>6 DEF top

\* The chain a write leaves is the old one over the written layers, or one new layer.
LEMMA WriteShape ==
    ASSUME TypeOK, NEW m \in Memories, NEW data \in Writes, Write(m, data)
    PROVE  /\ cells' \in Seq(Layer) /\ Len(cells') \in Nat /\ Len(cells) <= Len(cells')
           /\ \A l \in Layers : cells'[l] = Written(m, data)[l]
           /\ \A p \in Memories \ {m} : chain'[p] = chain[p]
           /\ \/ chain'[m] = chain[m]
              \/ /\ Len(cells') = Len(cells) + 1
                 /\ chain'[m] = <<Len(cells) + 1>>
                 /\ cells'[Len(cells) + 1] = Flattened(Written(m, data), chain[m])
<1>0. Used(m)
  BY DEF Write
<1>1. /\ Written(m, data) \in Seq(Layer) /\ Len(Written(m, data)) = Len(cells)
      /\ \A l \in Layers : Written(m, data)[l] \in Layer
      /\ Len(cells) \in Nat
  BY <1>0, WrittenType, CellsType
<1>2. CASE cells' = Written(m, data) /\ chain' = chain
  BY <1>1, <1>2
<1>3. CASE /\ cells' = Append(Written(m, data), Flattened(Written(m, data), chain[m]))
           /\ chain' = [chain EXCEPT ![m] = <<Len(cells) + 1>>]
  <2>1. Flattened(Written(m, data), chain[m]) \in Layer
    <3>1. \A i \in 1..Len(chain[m]) : Written(m, data)[chain[m][i]] \in Layer
      BY <1>0, <1>1, ChainType
    <3>2. Len(chain[m]) \in Nat
      BY <1>0, ChainType
    <3>3. \A a \in Addresses : Found(Written(m, data), chain[m], a) \in Bytes \cup {Absent}
      BY <3>1, <3>2, FoundType
    <3> QED BY <3>3 DEF Flattened, Layer
  <2>2. /\ cells' \in Seq(Layer) /\ Len(cells') = Len(cells) + 1
        /\ \A l \in Layers : cells'[l] = Written(m, data)[l]
        /\ cells'[Len(cells) + 1] = Flattened(Written(m, data), chain[m])
    BY <1>1, <1>3, <2>1 DEF Layers
  <2>3. chain'[m] = <<Len(cells) + 1>> /\ \A p \in Memories \ {m} : chain'[p] = chain[p]
    BY <1>3 DEF TypeOK
  <2> QED BY <1>1, <2>2, <2>3
<1>4. \/ cells' = Written(m, data) /\ chain' = chain
      \/ /\ cells' = Append(Written(m, data), Flattened(Written(m, data), chain[m]))
         /\ chain' = [chain EXCEPT ![m] = <<Len(cells) + 1>>]
  BY DEF Write, Written
<1> QED BY <1>2, <1>3, <1>4

LEMMA TypeStep == ASSUME TypeOK, [Next]_vars PROVE TypeOK'
<1> DEFINE Grown == Len(cells') \in Nat /\ Len(cells) \in Nat /\ Len(cells) <= Len(cells')
<1>0. ASSUME Grown PROVE /\ Layers \subseteq Layers'
                         /\ marks \in [Memories -> SUBSET Layers']
                         /\ owed \in [Memories -> SUBSET (Layers' \X Addresses)]
                         /\ \A p \in Memories : chain[p] \in Seq(Layers')
  <2>1. Layers \subseteq Layers'
    BY <1>0 DEF Layers
  <2>2. \A p \in Memories : chain[p] \in Seq(Layers')
    BY <2>1 DEF TypeOK
  <2> QED BY <2>1, <2>2 DEF TypeOK
<1>1. ASSUME NEW m \in Memories, NEW n \in Memories, Fork(m, n) PROVE TypeOK'
  <2>1. Grown /\ cells' \in Seq(Layer) /\ Len(cells) + 1 \in Layers' /\ Len(cells) + 2 \in Layers'
    BY <1>1, ForkShape, CellsType DEF Layers
  <2>2. Used(m) /\ m # n
    BY <1>1, ForkShape DEF Fork
  <2>3. chain'[m] \in Seq(Layers') /\ chain'[n] \in Seq(Layers')
    <3>1. chain[m] \in Seq(Layers')
      BY <1>0, <2>1
    <3>2. Layers' \cup {Len(cells) + 1} = Layers' /\ Layers' \cup {Len(cells) + 2} = Layers'
      BY <2>1
    <3>3. <<Len(cells) + 1>> \o chain[m] \in Seq(Layers')
      BY <3>1, <3>2, Pushed
    <3>4. <<Len(cells) + 2>> \o chain[m] \in Seq(Layers')
      BY <3>1, <3>2, Pushed
    <3> QED BY <1>1, <3>3, <3>4, ForkShape
  <2>4. chain' \in [Memories -> Seq(Layers')]
    <3>1. \A p \in Memories : chain'[p] \in Seq(Layers')
      BY <1>0, <1>1, <2>1, <2>3, ForkShape
    <3>2. chain' = [p \in Memories |-> chain'[p]]
      BY <1>1 DEF Fork, TypeOK
    <3> QED BY <3>1, <3>2
  <2>5. marks' \in [Memories -> SUBSET Layers']
    BY <1>0, <1>1, <2>1 DEF Fork
  <2>6. owed' \in [Memories -> SUBSET (Layers' \X Addresses)]
    BY <1>0, <1>1, <2>1 DEF Fork
  <2> QED BY <2>1, <2>4, <2>5, <2>6 DEF TypeOK
<1>2. ASSUME NEW m \in Memories, Checkpoint(m) PROVE TypeOK'
  <2>1. Grown /\ cells' \in Seq(Layer) /\ Len(cells) + 1 \in Layers'
    BY <1>2, CheckpointShape, CellsType DEF Layers
  <2>2. chain'[m] \in Seq(Layers')
    <3>1. chain[m] \in Seq(Layers')
      BY <1>0, <2>1
    <3>2. Layers' \cup {Len(cells) + 1} = Layers'
      BY <2>1
    <3>3. <<Len(cells) + 1>> \o chain[m] \in Seq(Layers')
      BY <3>1, <3>2, Pushed
    <3> QED BY <1>2, <3>3, CheckpointShape
  <2>3. chain' \in [Memories -> Seq(Layers')]
    <3>1. \A p \in Memories : chain'[p] \in Seq(Layers')
      BY <1>0, <1>2, <2>1, <2>2, CheckpointShape
    <3>2. chain' = [p \in Memories |-> chain'[p]]
      BY <1>2 DEF Checkpoint, TypeOK
    <3> QED BY <3>1, <3>2
  <2>4. Marker(m) \in Layers'
    <3>1. Used(m)
      BY <1>2 DEF Checkpoint
    <3> QED BY <1>0, <2>1, <3>1, ChainType DEF Marker
  <2>5. marks' \in [Memories -> SUBSET Layers']
    BY <1>0, <1>2, <2>1, <2>4 DEF Checkpoint
  <2>6. owed' \in [Memories -> SUBSET (Layers' \X Addresses)]
    BY <1>0, <1>2, <2>1 DEF Checkpoint
  <2> QED BY <2>1, <2>3, <2>5, <2>6 DEF TypeOK
<1>3. ASSUME NEW m \in Memories, NEW data \in Writes, Write(m, data) PROVE TypeOK'
  <2>1. Grown /\ cells' \in Seq(Layer)
    BY <1>3, WriteShape, CellsType
  <2>2. chain'[m] \in Seq(Layers')
    <3>1. CASE chain'[m] = chain[m]
      BY <1>0, <2>1, <3>1
    <3>2. CASE Len(cells') = Len(cells) + 1 /\ chain'[m] = <<Len(cells) + 1>>
      <4>1. Len(cells) + 1 \in Layers'
        BY <2>1, <3>2 DEF Layers
      <4> QED BY <3>2, <4>1
    <3> QED BY <1>3, <3>1, <3>2, WriteShape
  <2>3. chain' \in [Memories -> Seq(Layers')]
    <3>1. \A p \in Memories : chain'[p] \in Seq(Layers')
      BY <1>0, <1>3, <2>1, <2>2, WriteShape
    <3>2. chain' = [p \in Memories |-> chain'[p]]
      BY <1>3 DEF Write, TypeOK
    <3> QED BY <3>1, <3>2
  <2>4. marks' \in [Memories -> SUBSET Layers']
    BY <1>0, <1>3, <2>1 DEF Write
  <2>5. owed' \in [Memories -> SUBSET (Layers' \X Addresses)]
    <3>1. DOMAIN data \subseteq Addresses
      BY MemoryAssumption
    <3>2. marks[m] \X DOMAIN data \subseteq Layers' \X Addresses
      BY <1>0, <2>1, <3>1
    <3> QED BY <1>0, <1>3, <2>1, <3>2 DEF Write
  <2> QED BY <2>1, <2>3, <2>4, <2>5 DEF TypeOK
<1>4. ASSUME NEW m \in Memories, Discard(m) PROVE TypeOK'
  <2>1. <<>> \in Seq(Layers)
    OBVIOUS
  <2> QED BY <1>4, <2>1 DEF Discard, TypeOK, Layers
<1>5. CASE UNCHANGED vars
  BY <1>5 DEF vars, TypeOK, Layers
<1> QED BY <1>1, <1>2, <1>3, <1>4, <1>5 DEF Next

\* Layers and chains are always well formed: every memory is a chain of layers that were
\* made, and every checkpoint is one of them.
THEOREM TypeCorrect == Spec => []TypeOK
<1>1. Init => TypeOK
  BY MemoryType
<1>2. TypeOK /\ [Next]_vars => TypeOK'
  BY TypeStep
<1> QED BY <1>1, <1>2, PTL DEF Spec

-----------------------------------------------------------------------------
(* What each operation does to what is read.                                *)

\* The top layer of a memory is in no other memory's chain, and in its own only on top.
LEMMA TopIsOwn ==
    ASSUME TypeOK, OwnLayer, NEW m \in Memories, Used(m)
    PROVE  /\ \A n \in Memories \ {m} : \A i \in 1..Len(chain[n]) : chain[n][i] # Head(chain[m])
           /\ \A i \in 1..Len(chain[m]) : chain[m][i] = Head(chain[m]) => i = 1
           /\ \A n \in Memories : Head(chain[m]) \notin marks[n]
BY DEF OwnLayer

\* A fork copies.
LEMMA ForkReads ==
    ASSUME TypeOK, NEW m \in Memories, NEW n \in Memories, Fork(m, n), NEW a \in Addresses
    PROVE  /\ Found(cells', chain'[m], a) = Found(cells, chain[m], a)
           /\ Found(cells', chain'[n], a) = Found(cells, chain[m], a)
           /\ \A p \in Memories \ {m, n} :
                 Found(cells', chain'[p], a) = Found(cells, chain[p], a)
<1>1. /\ chain[m] \in Seq(Layers) /\ Len(chain[m]) \in Nat
      /\ \A i \in 1..Len(chain[m]) : cells'[chain[m][i]][a] = cells[chain[m][i]][a]
  BY ForkShape, ChainType DEF Fork
<1>2. cells'[Len(cells) + 1][a] = Absent /\ cells'[Len(cells) + 2][a] = Absent
  BY ForkShape DEF Empty
<1>3. Found(cells', chain'[m], a) = Found(cells, chain[m], a)
  <2>1. OnTop(chain'[m], chain[m], Len(cells) + 1)
    BY ForkShape
  <2> QED BY <1>1, <1>2, <2>1, FoundBeneath
<1>4. Found(cells', chain'[n], a) = Found(cells, chain[m], a)
  <2>1. OnTop(chain'[n], chain[m], Len(cells) + 2)
    BY ForkShape
  <2> QED BY <1>1, <1>2, <2>1, FoundBeneath
<1>5. ASSUME NEW p \in Memories \ {m, n}
      PROVE  Found(cells', chain'[p], a) = Found(cells, chain[p], a)
  <2>1. Len(chain[p]) \in Nat /\ \A i \in 1..Len(chain[p]) : chain[p][i] \in Layers
    BY DEF TypeOK
  <2>2. \A i \in 1..Len(chain[p]) : cells'[chain[p][i]][a] = cells[chain[p][i]][a]
    BY <2>1, ForkShape
  <2>3. Found(cells', chain[p], a) = Found(cells, chain[p], a)
    BY <2>1, <2>2, FoundSame
  <2> QED BY <2>3, ForkShape
<1> QED BY <1>3, <1>4, <1>5

\* A checkpoint changes nothing that is read.
LEMMA CheckpointReads ==
    ASSUME TypeOK, NEW m \in Memories, Checkpoint(m), NEW a \in Addresses, NEW p \in Memories
    PROVE  Found(cells', chain'[p], a) = Found(cells, chain[p], a)
<1>1. CASE p = m
  <2>1. /\ chain[m] \in Seq(Layers)
        /\ \A i \in 1..Len(chain[m]) : cells'[chain[m][i]][a] = cells[chain[m][i]][a]
    BY CheckpointShape, ChainType DEF Checkpoint
  <2>2. cells'[Len(cells) + 1][a] = Absent
    BY CheckpointShape DEF Empty
  <2>3. OnTop(chain'[m], chain[m], Len(cells) + 1)
    BY CheckpointShape
  <2>4. Found(cells', chain'[m], a) = Found(cells, chain[m], a)
    BY <2>1, <2>2, <2>3, FoundBeneath
  <2> QED BY <1>1, <2>4
<1>2. CASE p # m
  <2>1. Len(chain[p]) \in Nat /\ \A i \in 1..Len(chain[p]) : chain[p][i] \in Layers
    BY DEF TypeOK
  <2>2. \A i \in 1..Len(chain[p]) : cells'[chain[p][i]][a] = cells[chain[p][i]][a]
    BY <2>1, CheckpointShape
  <2>3. Found(cells', chain[p], a) = Found(cells, chain[p], a)
    BY <2>1, <2>2, FoundSame
  <2> QED BY <1>2, <2>3, CheckpointShape
<1> QED BY <1>1, <1>2

\* Before any flattening, the written layers show the new bytes on the way down the chain,
\* and everything else as before.
LEMMA WrittenReads ==
    ASSUME TypeOK, OwnLayer, NEW m \in Memories, Used(m), NEW data \in Writes,
           NEW a \in Addresses
    PROVE  Found(Written(m, data), chain[m], a) =
               IF a \in DOMAIN data THEN data[a] ELSE Found(cells, chain[m], a)
<1>1. /\ Len(chain[m]) \in Nat \ {0} /\ Head(chain[m]) = chain[m][1]
      /\ \A i \in 1..Len(chain[m]) : chain[m][i] \in Layers
  BY ChainType
<1>2. Written(m, data)[chain[m][1]][a] =
          IF a \in DOMAIN data THEN data[a] ELSE cells[chain[m][1]][a]
  <2>1. Written(m, data)[Head(chain[m])] = Over(data, cells[Head(chain[m])])
    BY WrittenType
  <2> QED BY <1>1, <2>1 DEF Over
<1>3. CASE a \in DOMAIN data
  <2>1. Written(m, data)[chain[m][1]][a] # Absent
    BY <1>2, <1>3, MemoryAssumption
  <2>2. IsFirst(Written(m, data), chain[m], a, 1)
    BY <1>1, <2>1 DEF IsFirst
  <2>3. Found(Written(m, data), chain[m], a) = Written(m, data)[chain[m][1]][a]
    BY <1>1, <2>2, FoundFirst
  <2> QED BY <1>2, <1>3, <2>3
<1>4. CASE a \notin DOMAIN data
  <2>1. \A i \in 1..Len(chain[m]) : Written(m, data)[chain[m][i]][a] = cells[chain[m][i]][a]
    <3> TAKE i \in 1..Len(chain[m])
    <3>1. CASE i = 1
      BY <1>2, <1>4, <3>1
    <3>2. CASE i # 1
      <4>1. chain[m][i] \in Layers \ {Head(chain[m])}
        BY <1>1, <3>2, TopIsOwn
      <4> QED BY <4>1, WrittenType
    <3> QED BY <3>1, <3>2
  <2>2. Found(Written(m, data), chain[m], a) = Found(cells, chain[m], a)
    BY <1>1, <2>1, FoundSame
  <2> QED BY <1>4, <2>2
<1> QED BY <1>3, <1>4

\* A write changes the written bytes of one memory, flattened or not.
LEMMA WriteReads ==
    ASSUME TypeOK, OwnLayer, NEW m \in Memories, NEW data \in Writes, Write(m, data),
           NEW a \in Addresses
    PROVE  /\ Found(cells', chain'[m], a) =
                  IF a \in DOMAIN data THEN data[a] ELSE Found(cells, chain[m], a)
           /\ \A p \in Memories \ {m} : Found(cells', chain'[p], a) = Found(cells, chain[p], a)
<1>0. Used(m)
  BY DEF Write
<1>1. /\ Len(chain[m]) \in Nat \ {0}
      /\ \A i \in 1..Len(chain[m]) : chain[m][i] \in Layers
  BY <1>0, ChainType
<1>2. Found(cells', chain'[m], a) = Found(Written(m, data), chain[m], a)
  <2>1. CASE chain'[m] = chain[m]
    <3>1. \A i \in 1..Len(chain[m]) :
              cells'[chain[m][i]][a] = Written(m, data)[chain[m][i]][a]
      BY <1>1, WriteShape
    <3>2. Found(cells', chain[m], a) = Found(Written(m, data), chain[m], a)
      BY <1>1, <3>1, FoundSame
    <3> QED BY <2>1, <3>2
  <2>2. CASE /\ chain'[m] = <<Len(cells) + 1>>
             /\ cells'[Len(cells) + 1] = Flattened(Written(m, data), chain[m])
    <3>1. Found(cells', <<Len(cells) + 1>>, a) = cells'[Len(cells) + 1][a]
      BY FoundAlone
    <3> QED BY <2>2, <3>1 DEF Flattened
  <2> QED BY <2>1, <2>2, WriteShape
<1>3. ASSUME NEW p \in Memories \ {m}
      PROVE  Found(cells', chain'[p], a) = Found(cells, chain[p], a)
  <2>1. Len(chain[p]) \in Nat /\ \A i \in 1..Len(chain[p]) : chain[p][i] \in Layers
    BY DEF TypeOK
  <2>2. \A i \in 1..Len(chain[p]) : cells'[chain[p][i]][a] = cells[chain[p][i]][a]
    <3> TAKE i \in 1..Len(chain[p])
    <3>1. chain[p][i] \in Layers \ {Head(chain[m])}
      BY <1>0, <2>1, TopIsOwn
    <3> QED BY <1>0, <3>1, WriteShape, WrittenType
  <2>3. Found(cells', chain[p], a) = Found(cells, chain[p], a)
    BY <2>1, <2>2, FoundSame
  <2> QED BY <2>3, WriteShape
<1> QED BY <1>0, <1>2, <1>3, WrittenReads

-----------------------------------------------------------------------------
(* The top layer is the memory's own.                                       *)

\* OwnLayer, for one pair of memories.
Owns(m, n) ==
    /\ Head(chain[m]) \notin marks[n]
    /\ \A i \in 1..Len(chain[n]) : chain[n][i] = Head(chain[m]) => n = m /\ i = 1

LEMMA OwnLayerStep == ASSUME TypeOK, OwnLayer, [Next]_vars PROVE OwnLayer'
<1>0. \A m, n \in Memories : Used(m) => Owns(m, n)
  BY DEF OwnLayer, Owns
<1> SUFFICES \A p, q \in Memories : Used(p)' => Owns(p, q)'
  BY DEF OwnLayer, Owns
<1>1. ASSUME NEW m \in Memories, NEW n \in Memories, Fork(m, n),
             NEW p \in Memories, NEW q \in Memories, Used(p)'
      PROVE  Owns(p, q)'
  <2>0. /\ Len(cells) \in Nat /\ Used(m) /\ m # n
        /\ OnTop(chain'[m], chain[m], Len(cells) + 1)
        /\ OnTop(chain'[n], chain[m], Len(cells) + 2)
        /\ \A r \in Memories \ {m, n} : chain'[r] = chain[r]
    BY <1>1, ForkShape, CellsType DEF Fork
  <2>1. \A r \in Memories : marks'[r] \subseteq Layers
    BY <1>1 DEF Fork, TypeOK
  <2>2. \A r \in Memories : \A i \in 1..Len(chain[r]) : chain[r][i] \in Layers
    BY DEF TypeOK
  <2>3. Len(cells) + 1 \notin Layers /\ Len(cells) + 2 \notin Layers
    BY <2>0 DEF Layers
  <2>4. Head(chain'[m]) = Len(cells) + 1 /\ Head(chain'[n]) = Len(cells) + 2
    BY <1>1, <2>0, ForkShape, ChainType
  <2>5. \A r \in Memories \ {m, n} : chain'[r] # <<>> => Used(r) /\ Head(chain[r]) \in Layers
    BY <2>0, ChainType DEF Used
  <2>6. marks' = [marks EXCEPT ![n] = marks[m]]
    BY <1>1 DEF Fork
  <2>7. Head(chain'[p]) \notin marks'[q]
    <3>1. CASE p \in {m, n}
      BY <2>1, <2>3, <2>4, <3>1
    <3>2. CASE p \notin {m, n}
      <4>1. Used(p) /\ chain'[p] = chain[p]
        BY <1>1, <2>0, <2>5, <3>2 DEF Used
      <4>2. \A r \in Memories : Head(chain[p]) \notin marks[r]
        BY <1>0, <4>1 DEF Owns
      <4> QED BY <2>6, <4>1, <4>2 DEF TypeOK
    <3> QED BY <3>1, <3>2
  <2>8. ASSUME NEW i \in 1..Len(chain'[q]), chain'[q][i] = Head(chain'[p])
        PROVE  q = p /\ i = 1
    <3>1. CASE q \in {m, n} /\ i # 1
      <4>1. i - 1 \in 1..Len(chain[m]) /\ chain'[q][i] = chain[m][i - 1]
        BY <2>0, <2>8, <3>1 DEF OnTop
      <4>2. chain'[q][i] \in Layers
        BY <2>2, <4>1
      <4>3. p \notin {m, n}
        BY <2>3, <2>4, <2>8, <4>2
      <4>4. Used(p) /\ chain'[p] = chain[p]
        BY <1>1, <2>0, <2>5, <4>3 DEF Used
      <4>5. m = p
        BY <1>0, <2>8, <4>1, <4>4 DEF Owns
      <4> QED BY <4>3, <4>5
    <3>2. CASE q \in {m, n} /\ i = 1
      <4>1. chain'[q][i] = (IF q = m THEN Len(cells) + 1 ELSE Len(cells) + 2)
        BY <2>0, <3>2 DEF OnTop
      <4>2. CASE p \in {m, n}
        BY <2>0, <2>4, <2>8, <3>2, <4>1, <4>2
      <4>3. CASE p \notin {m, n}
        <5>1. chain'[p] = chain[p] /\ Head(chain[p]) \in Layers
          BY <1>1, <2>0, <2>5, <4>3 DEF Used
        <5> QED BY <2>3, <2>8, <4>1, <5>1
      <4> QED BY <4>2, <4>3
    <3>3. CASE q \notin {m, n}
      <4>1. chain'[q] = chain[q] /\ chain[q][i] \in Layers
        BY <2>0, <2>2, <2>8, <3>3
      <4>2. p \notin {m, n}
        BY <2>3, <2>4, <2>8, <4>1
      <4>3. Used(p) /\ chain'[p] = chain[p]
        BY <1>1, <2>0, <2>5, <4>2 DEF Used
      <4> QED BY <1>0, <2>8, <4>1, <4>3 DEF Owns
    <3> QED BY <3>1, <3>2, <3>3
  <2> QED BY <2>7, <2>8 DEF Owns
<1>2. ASSUME NEW m \in Memories, Checkpoint(m),
             NEW p \in Memories, NEW q \in Memories, Used(p)'
      PROVE  Owns(p, q)'
  <2>0. /\ Len(cells) \in Nat /\ Used(m)
        /\ OnTop(chain'[m], chain[m], Len(cells) + 1)
        /\ \A r \in Memories \ {m} : chain'[r] = chain[r]
    BY <1>2, CheckpointShape, CellsType DEF Checkpoint
  <2>1. Head(chain[m]) \in Layers /\ Head(chain[m]) = chain[m][1] /\ 1 \in 1..Len(chain[m])
    BY <2>0, ChainType
  <2>2. \A r \in Memories : \A i \in 1..Len(chain[r]) : chain[r][i] \in Layers
    BY DEF TypeOK
  <2>3. Len(cells) + 1 \notin Layers
    BY <2>0 DEF Layers
  <2>4. Head(chain'[m]) = Len(cells) + 1
    BY <1>2, <2>0, CheckpointShape, ChainType
  <2>5. \A r \in Memories \ {m} : chain'[r] # <<>> => Used(r) /\ Head(chain[r]) \in Layers
    BY <2>0, ChainType DEF Used
  <2>6. marks' = [marks EXCEPT ![m] = marks[m] \cup {Head(chain[m])}]
    BY <1>2 DEF Checkpoint, Marker
  <2>7. Head(chain'[p]) \notin marks'[q]
    <3>1. CASE p = m
      <4>1. marks'[q] \subseteq Layers
        BY <2>1, <2>6 DEF TypeOK
      <4> QED BY <2>3, <2>4, <3>1, <4>1
    <3>2. CASE p # m
      <4>1. Used(p) /\ chain'[p] = chain[p]
        BY <1>2, <2>0, <2>5, <3>2 DEF Used
      <4>2. Head(chain[p]) \notin marks[q]
        BY <1>0, <4>1 DEF Owns
      <4>3. Head(chain[p]) # Head(chain[m])
        BY <1>0, <2>1, <3>2, <4>1 DEF Owns
      <4> QED BY <2>6, <4>1, <4>2, <4>3 DEF TypeOK
    <3> QED BY <3>1, <3>2
  <2>8. ASSUME NEW i \in 1..Len(chain'[q]), chain'[q][i] = Head(chain'[p])
        PROVE  q = p /\ i = 1
    <3>1. CASE q = m /\ i # 1
      <4>1. i - 1 \in 1..Len(chain[m]) /\ chain'[q][i] = chain[m][i - 1]
        BY <2>0, <2>8, <3>1 DEF OnTop
      <4>2. p # m
        BY <2>2, <2>3, <2>4, <2>8, <4>1
      <4>3. Used(p) /\ chain'[p] = chain[p]
        BY <1>2, <2>0, <2>5, <4>2 DEF Used
      <4>4. m = p
        BY <1>0, <2>8, <4>1, <4>3 DEF Owns
      <4> QED BY <4>2, <4>4
    <3>2. CASE q = m /\ i = 1
      <4>1. chain'[q][i] = Len(cells) + 1
        BY <2>0, <3>2 DEF OnTop
      <4>2. ASSUME p # m PROVE FALSE
        <5>1. chain'[p] = chain[p] /\ Head(chain[p]) \in Layers
          BY <1>2, <2>0, <2>5, <4>2 DEF Used
        <5> QED BY <2>3, <2>8, <4>1, <5>1
      <4> QED BY <3>2, <4>2
    <3>3. CASE q # m
      <4>1. chain'[q] = chain[q] /\ chain[q][i] \in Layers
        BY <2>0, <2>2, <2>8, <3>3
      <4>2. p # m
        BY <2>3, <2>4, <2>8, <4>1
      <4>3. Used(p) /\ chain'[p] = chain[p]
        BY <1>2, <2>0, <2>5, <4>2 DEF Used
      <4> QED BY <1>0, <2>8, <4>1, <4>3 DEF Owns
    <3> QED BY <3>1, <3>2, <3>3
  <2> QED BY <2>7, <2>8 DEF Owns
<1>3. ASSUME NEW m \in Memories, NEW data \in Writes, Write(m, data),
             NEW p \in Memories, NEW q \in Memories, Used(p)'
      PROVE  Owns(p, q)'
  <2>0. /\ Len(cells) \in Nat /\ Used(m) /\ marks' = marks
        /\ \A r \in Memories \ {m} : chain'[r] = chain[r]
    BY <1>3, WriteShape, CellsType DEF Write
  <2>1. CASE chain'[m] = chain[m]
    <3>1. Used(p) /\ chain'[p] = chain[p] /\ chain'[q] = chain[q]
      BY <1>3, <2>0, <2>1 DEF Used
    <3> QED BY <1>0, <2>0, <3>1 DEF Owns
  <2>2. CASE chain'[m] = <<Len(cells) + 1>>
    <3>1. /\ Head(chain'[m]) = Len(cells) + 1 /\ Len(chain'[m]) = 1
          /\ chain'[m][1] = Len(cells) + 1 /\ Len(cells) + 1 \notin Layers
      BY <2>0, <2>2 DEF Layers
    <3>2. \A r \in Memories : /\ \A i \in 1..Len(chain[r]) : chain[r][i] \in Layers
                              /\ marks[r] \subseteq Layers
      BY DEF TypeOK
    <3>3. CASE p = m
      BY <2>0, <3>1, <3>2, <3>3 DEF Owns
    <3>4. CASE p # m
      <4>1. Used(p) /\ chain'[p] = chain[p] /\ Head(chain[p]) \in Layers
        BY <1>3, <2>0, <3>4, ChainType DEF Used
      <4> QED BY <1>0, <2>0, <3>1, <4>1 DEF Owns
    <3> QED BY <3>3, <3>4
  <2> QED BY <1>3, <2>1, <2>2, WriteShape
<1>4. ASSUME NEW m \in Memories, Discard(m), NEW p \in Memories, NEW q \in Memories, Used(p)'
      PROVE  Owns(p, q)'
  <2>1. /\ \A r \in Memories \ {m} : chain'[r] = chain[r] /\ marks'[r] = marks[r]
        /\ chain'[m] = <<>> /\ marks'[m] = {}
    BY <1>4 DEF Discard, TypeOK
  <2>2. p # m /\ Used(p)
    BY <1>4, <2>1 DEF Used
  <2>3. Len(<<>>) = 0
    OBVIOUS
  <2> QED BY <1>0, <2>1, <2>2, <2>3 DEF Owns
<1>5. ASSUME UNCHANGED vars, NEW p \in Memories, NEW q \in Memories, Used(p)'
      PROVE  Owns(p, q)'
  BY <1>0, <1>5 DEF vars, Used, Owns
<1> QED BY <1>1, <1>2, <1>3, <1>4, <1>5 DEF Next

-----------------------------------------------------------------------------
(* What written_since reports.                                              *)

Since(layers, path, mark) ==
    {a \in Addresses : \E i \in 1..Len(path) :
        /\ \A j \in 1..i : path[j] # mark
        /\ layers[path[i]][a] # Absent}

LEMMA SinceIs == \A m, mark : WrittenSince(m, mark) = Since(cells, chain[m], mark)
BY DEF WrittenSince, Since

LEMMA SinceIsNext == \A m, mark : WrittenSince(m, mark)' = Since(cells', chain'[m], mark)
BY DEF WrittenSince, Since

\* An empty layer on top reports nothing new.
LEMMA SinceBeneath ==
    ASSUME NEW layers, NEW others, NEW longer, NEW path, NEW x, NEW mark,
           OnTop(longer, path, x), x # mark, others[x] = Empty,
           \A i \in 1..Len(path) : others[path[i]] = layers[path[i]]
    PROVE  Since(others, longer, mark) = Since(layers, path, mark)
<1>0. /\ Len(path) \in Nat /\ Len(longer) = Len(path) + 1 /\ longer[1] = x
      /\ \A i \in 1..Len(path) : longer[i + 1] = path[i]
      /\ \A i \in 1..Len(longer) :
            i = 1 \/ (i - 1 \in 1..Len(path) /\ longer[i] = path[i - 1])
  BY DEF OnTop
<1>1. ASSUME NEW a \in Since(layers, path, mark) PROVE a \in Since(others, longer, mark)
  <2>1. PICK i \in 1..Len(path) : /\ \A j \in 1..i : path[j] # mark
                                  /\ layers[path[i]][a] # Absent
    BY <1>1 DEF Since
  <2>2. i + 1 \in 1..Len(longer) /\ others[longer[i + 1]][a] # Absent
    BY <1>0, <2>1
  <2>3. \A j \in 1..(i + 1) : longer[j] # mark
    <3> TAKE j \in 1..(i + 1)
    <3>1. CASE j = 1
      BY <1>0, <3>1
    <3>2. CASE j # 1
      <4>1. j - 1 \in 1..i /\ longer[j] = path[j - 1]
        BY <1>0, <3>2
      <4> QED BY <2>1, <4>1
    <3> QED BY <3>1, <3>2
  <2> QED BY <2>2, <2>3 DEF Since
<1>2. ASSUME NEW a \in Since(others, longer, mark) PROVE a \in Since(layers, path, mark)
  <2>1. PICK i \in 1..Len(longer) : /\ \A j \in 1..i : longer[j] # mark
                                    /\ others[longer[i]][a] # Absent
    BY <1>2 DEF Since
  <2>2. i # 1
    BY <1>0, <1>2, <2>1 DEF Empty, Since
  <2>3. i - 1 \in 1..Len(path) /\ longer[i] = path[i - 1]
    BY <1>0, <2>2
  <2>4. layers[path[i - 1]][a] # Absent
    BY <2>1, <2>3
  <2>5. \A j \in 1..(i - 1) : path[j] # mark
    <3> TAKE j \in 1..(i - 1)
    <3>1. j + 1 \in 1..i /\ longer[j + 1] = path[j]
      BY <1>0, <2>3
    <3> QED BY <2>1, <3>1
  <2> QED BY <1>2, <2>3, <2>4, <2>5 DEF Since
<1> QED BY <1>1, <1>2

\* Layers that only gain bytes report no less.
LEMMA SinceGrows ==
    ASSUME NEW layers, NEW others, NEW path, NEW mark,
           \A i \in 1..Len(path) : \A a \in Addresses :
              layers[path[i]][a] # Absent => others[path[i]][a] # Absent
    PROVE  Since(layers, path, mark) \subseteq Since(others, path, mark)
BY DEF Since

\* A chain without the mark reports all it holds.
LEMMA SinceAll ==
    ASSUME NEW layers, NEW path, NEW mark, NEW a \in Addresses,
           \A i \in 1..Len(path) : path[i] # mark, Len(path) \in Nat
    PROVE  a \in Since(layers, path, mark) <=> Has(layers, path, a)
BY DEF Since, Has

\* What one memory does to one checkpoint: p, which came from o, reports what o reported, and
\* reads as o did wherever it reports nothing.
Faithful(p, o, mark) ==
    /\ Since(cells, chain[o], mark) \subseteq Since(cells', chain'[p], mark)
    /\ \A a \in Addresses \ Since(cells', chain'[p], mark) :
          Found(cells', chain'[p], a) = Found(cells, chain[o], a)

LEMMA ForkFaithful ==
    ASSUME TypeOK, NEW m \in Memories, NEW n \in Memories, Fork(m, n), NEW mark \in Layers
    PROVE  /\ Faithful(n, m, mark)
           /\ \A p \in Memories \ {n} : Faithful(p, p, mark)
<1>0. /\ \A l \in Layers : cells'[l] = cells[l] /\ l # Len(cells) + 1 /\ l # Len(cells) + 2
      /\ cells'[Len(cells) + 1] = Empty /\ cells'[Len(cells) + 2] = Empty
      /\ OnTop(chain'[m], chain[m], Len(cells) + 1)
      /\ OnTop(chain'[n], chain[m], Len(cells) + 2)
  BY ForkShape, CellsType DEF Layers
<1>1. \A p \in Memories : \A i \in 1..Len(chain[p]) : chain[p][i] \in Layers
  BY DEF TypeOK
<1>2. \A p \in Memories : \A i \in 1..Len(chain[p]) : cells'[chain[p][i]] = cells[chain[p][i]]
  BY <1>0, <1>1
<1>3. Since(cells', chain'[n], mark) = Since(cells, chain[m], mark)
  BY <1>0, <1>2, SinceBeneath
<1>4. Since(cells', chain'[m], mark) = Since(cells, chain[m], mark)
  BY <1>0, <1>2, SinceBeneath
<1>5. ASSUME NEW p \in Memories \ {m, n}
      PROVE  Since(cells, chain[p], mark) \subseteq Since(cells', chain'[p], mark)
  <2>1. Since(cells, chain[p], mark) \subseteq Since(cells', chain[p], mark)
    BY <1>2, SinceGrows
  <2> QED BY <2>1, ForkShape
<1> QED BY <1>3, <1>4, <1>5, ForkReads DEF Faithful

LEMMA CheckpointFaithful ==
    ASSUME TypeOK, NEW m \in Memories, Checkpoint(m), NEW mark \in Layers, NEW p \in Memories
    PROVE  Faithful(p, p, mark)
<1>0. /\ \A l \in Layers : cells'[l] = cells[l] /\ l # Len(cells) + 1
      /\ cells'[Len(cells) + 1] = Empty
      /\ OnTop(chain'[m], chain[m], Len(cells) + 1)
  BY CheckpointShape, CellsType DEF Layers
<1>1. \A i \in 1..Len(chain[p]) : chain[p][i] \in Layers
  BY DEF TypeOK
<1>2. \A i \in 1..Len(chain[p]) : cells'[chain[p][i]] = cells[chain[p][i]]
  BY <1>0, <1>1
<1>3. Since(cells, chain[p], mark) \subseteq Since(cells', chain'[p], mark)
  <2>1. CASE p = m
    <3>1. Since(cells', chain'[m], mark) = Since(cells, chain[m], mark)
      BY <1>0, <1>2, <2>1, SinceBeneath
    <3> QED BY <2>1, <3>1
  <2>2. CASE p # m
    <3>1. Since(cells, chain[p], mark) \subseteq Since(cells', chain[p], mark)
      BY <1>2, SinceGrows
    <3> QED BY <2>2, <3>1, CheckpointShape
  <2> QED BY <2>1, <2>2
<1> QED BY <1>3, CheckpointReads DEF Faithful

\* A write is reported since every checkpoint of the memory, flattened or not.
LEMMA WriteReported ==
    ASSUME TypeOK, OwnLayer, NEW m \in Memories, NEW data \in Writes, Write(m, data),
           NEW mark \in Layers
    PROVE  /\ Since(cells, chain[m], mark) \subseteq Since(cells', chain'[m], mark)
           /\ mark \in marks[m] => DOMAIN data \subseteq Since(cells', chain'[m], mark)
           /\ \A p \in Memories \ {m} :
                 Since(cells, chain[p], mark) \subseteq Since(cells', chain'[p], mark)
<1>0. Used(m) /\ DOMAIN data \subseteq Addresses /\ \A a \in DOMAIN data : data[a] # Absent
  BY MemoryAssumption DEF Write
<1>1. /\ Len(chain[m]) \in Nat \ {0} /\ Head(chain[m]) = chain[m][1]
      /\ Head(chain[m]) \in Layers
      /\ \A i \in 1..Len(chain[m]) : chain[m][i] \in Layers
  BY <1>0, ChainType
<1>2. \A l \in Layers : \A a \in Addresses :
          cells[l][a] # Absent => Written(m, data)[l][a] # Absent
  <2>1. \A a \in Addresses : cells[Head(chain[m])][a] # Absent =>
            Over(data, cells[Head(chain[m])])[a] # Absent
    BY <1>0 DEF Over
  <2> QED BY <1>0, <2>1, WrittenType
<1>3. \A a \in DOMAIN data : Written(m, data)[chain[m][1]][a] # Absent
  <2>1. Written(m, data)[Head(chain[m])] = Over(data, cells[Head(chain[m])])
    BY <1>0, WrittenType
  <2> QED BY <1>0, <1>1, <2>1 DEF Over
<1>4. Since(cells, chain[m], mark) \subseteq Since(Written(m, data), chain[m], mark)
  BY <1>1, <1>2, SinceGrows
<1>5. mark \in marks[m] => DOMAIN data \subseteq Since(Written(m, data), chain[m], mark)
  <2>1. mark \in marks[m] => chain[m][1] # mark
    BY <1>0, <1>1, TopIsOwn
  <2> QED BY <1>0, <1>1, <1>3, <2>1 DEF Since
<1>6. Since(Written(m, data), chain[m], mark) \subseteq Since(cells', chain'[m], mark)
  <2>1. CASE chain'[m] = chain[m]
    <3>1. Since(Written(m, data), chain[m], mark) \subseteq Since(cells', chain[m], mark)
      BY <1>1, WriteShape, SinceGrows
    <3> QED BY <2>1, <3>1
  <2>2. CASE /\ chain'[m] = <<Len(cells) + 1>>
             /\ cells'[Len(cells) + 1] = Flattened(Written(m, data), chain[m])
    <3>1. ASSUME NEW a \in Since(Written(m, data), chain[m], mark)
          PROVE  a \in Since(cells', <<Len(cells) + 1>>, mark)
      <4>1. a \in Addresses /\ Has(Written(m, data), chain[m], a)
        BY <3>1 DEF Since, Has
      <4>2. Found(Written(m, data), chain[m], a) # Absent
        BY <1>1, <4>1, FoundHas
      <4>3. cells'[Len(cells) + 1][a] # Absent
        BY <2>2, <4>1, <4>2 DEF Flattened
      <4>4. Len(cells) + 1 # mark
        BY CellsType DEF Layers
      <4>5. Len(<<Len(cells) + 1>>) = 1 /\ <<Len(cells) + 1>>[1] = Len(cells) + 1
        OBVIOUS
      <4> QED BY <4>1, <4>3, <4>4, <4>5 DEF Since
    <3> QED BY <2>2, <3>1
  <2> QED BY <2>1, <2>2, WriteShape
<1>7. ASSUME NEW p \in Memories \ {m}
      PROVE  Since(cells, chain[p], mark) \subseteq Since(cells', chain'[p], mark)
  <2>1. \A i \in 1..Len(chain[p]) : chain[p][i] \in Layers
    BY DEF TypeOK
  <2>2. Since(cells, chain[p], mark) \subseteq Since(cells', chain[p], mark)
    BY <1>2, <2>1, WriteShape, SinceGrows
  <2> QED BY <2>2, WriteShape
<1> QED BY <1>4, <1>5, <1>6, <1>7

LEMMA WriteFaithful ==
    ASSUME TypeOK, OwnLayer, NEW m \in Memories, NEW data \in Writes, Write(m, data),
           NEW p \in Memories, NEW mark \in marks[p]
    PROVE  Faithful(p, p, mark)
<1>1. mark \in Layers
  BY DEF TypeOK
<1>2. Since(cells, chain[p], mark) \subseteq Since(cells', chain'[p], mark)
  BY <1>1, WriteReported
<1>3. ASSUME NEW a \in Addresses \ Since(cells', chain'[p], mark)
      PROVE  Found(cells', chain'[p], a) = Found(cells, chain[p], a)
  <2>1. CASE p = m
    <3>1. a \notin DOMAIN data
      BY <1>1, <1>3, <2>1, WriteReported
    <3> QED BY <2>1, <3>1, WriteReads
  <2>2. CASE p # m
    BY <2>2, WriteReads
  <2> QED BY <2>1, <2>2
<1> QED BY <1>2, <1>3 DEF Faithful

-----------------------------------------------------------------------------
(* Nothing is left out, and what is left out of both reports agrees.        *)

LEMMA NoOmissionStep ==
    ASSUME TypeOK, OwnLayer, NoOmission, [Next]_vars PROVE NoOmission'
<1>0. \A m \in Memories : \A debt \in owed[m] :
          debt[1] \in Layers /\ debt[2] \in Since(cells, chain[m], debt[1])
  BY SinceIs DEF NoOmission, TypeOK
<1> SUFFICES ASSUME NEW p \in Memories, NEW debt \in owed'[p]
             PROVE  debt[2] \in Since(cells', chain'[p], debt[1])
  BY SinceIsNext DEF NoOmission
<1>1. ASSUME NEW m \in Memories, NEW n \in Memories, Fork(m, n)
      PROVE  debt[2] \in Since(cells', chain'[p], debt[1])
  <2>1. CASE p = n
    <3>1. debt \in owed[m]
      BY <1>1, <2>1 DEF Fork, TypeOK
    <3>2. Faithful(n, m, debt[1])
      BY <1>0, <1>1, <3>1, ForkFaithful
    <3> QED BY <1>0, <2>1, <3>1, <3>2 DEF Faithful
  <2>2. CASE p # n
    <3>1. debt \in owed[p]
      BY <1>1, <2>2 DEF Fork, TypeOK
    <3>2. Faithful(p, p, debt[1])
      BY <1>0, <1>1, <2>2, <3>1, ForkFaithful
    <3> QED BY <1>0, <3>1, <3>2 DEF Faithful
  <2> QED BY <2>1, <2>2
<1>2. ASSUME NEW m \in Memories, Checkpoint(m)
      PROVE  debt[2] \in Since(cells', chain'[p], debt[1])
  <2>1. debt \in owed[p]
    BY <1>2 DEF Checkpoint
  <2>2. Faithful(p, p, debt[1])
    BY <1>0, <1>2, <2>1, CheckpointFaithful
  <2> QED BY <1>0, <2>1, <2>2 DEF Faithful
<1>3. ASSUME NEW m \in Memories, NEW data \in Writes, Write(m, data)
      PROVE  debt[2] \in Since(cells', chain'[p], debt[1])
  <2>1. CASE debt \in owed[p]
    <3>1. Since(cells, chain[p], debt[1]) \subseteq Since(cells', chain'[p], debt[1])
      BY <1>0, <1>3, <2>1, WriteReported
    <3> QED BY <1>0, <2>1, <3>1
  <2>2. CASE debt \notin owed[p]
    <3>1. p = m /\ debt \in marks[m] \X DOMAIN data
      BY <1>3, <2>2 DEF Write, TypeOK
    <3>2. debt[1] \in Layers /\ debt[1] \in marks[m] /\ debt[2] \in DOMAIN data
      BY <3>1 DEF TypeOK
    <3> QED BY <1>3, <3>1, <3>2, WriteReported
  <2> QED BY <2>1, <2>2
<1>4. ASSUME NEW m \in Memories, Discard(m)
      PROVE  debt[2] \in Since(cells', chain'[p], debt[1])
  <2>1. p # m /\ debt \in owed[p] /\ chain'[p] = chain[p] /\ cells' = cells
    BY <1>4 DEF Discard, TypeOK
  <2> QED BY <1>0, <2>1
<1>5. CASE UNCHANGED vars
  BY <1>0, <1>5 DEF vars
<1> QED BY <1>1, <1>2, <1>3, <1>4, <1>5 DEF Next

\* AgreeElsewhere, for two memories and a checkpoint.
Agree(p, q, mark) ==
    \A a \in Addresses \ (Since(cells, chain[p], mark) \cup Since(cells, chain[q], mark)) :
        Read(p, a) = Read(q, a)

\* Memories that come from ones that agree, agree.
LEMMA AgreeStep ==
    ASSUME NEW p, NEW q, NEW o, NEW r, NEW mark,
           Faithful(p, o, mark), Faithful(q, r, mark), Agree(o, r, mark)
    PROVE  Agree(p, q, mark)'
<1> SUFFICES ASSUME NEW a \in Addresses, a \notin Since(cells', chain'[p], mark),
                    a \notin Since(cells', chain'[q], mark)
             PROVE  Read(p, a)' = Read(q, a)'
  BY DEF Agree
<1>1. Found(cells', chain'[p], a) = Found(cells, chain[o], a)
  BY DEF Faithful
<1>2. Found(cells', chain'[q], a) = Found(cells, chain[r], a)
  BY DEF Faithful
<1>3. Read(o, a) = Read(r, a)
  BY DEF Faithful, Agree
<1>4. Read(p, a)' = Read(o, a) /\ Read(q, a)' = Read(r, a)
  BY <1>1, <1>2 DEF Read
<1> QED BY <1>3, <1>4

LEMMA AgreeElsewhereStep ==
    ASSUME TypeOK, OwnLayer, AgreeElsewhere, [Next]_vars PROVE AgreeElsewhere'
<1>0. \A m, n \in Memories : \A mark \in marks[m] \cap marks[n] : Agree(m, n, mark)
  BY SinceIs DEF AgreeElsewhere, Agree
<1>00. \A m \in Memories : marks[m] \subseteq Layers
  BY DEF TypeOK
<1> SUFFICES ASSUME NEW p \in Memories, NEW q \in Memories, NEW mark \in marks'[p] \cap marks'[q]
             PROVE  Agree(p, q, mark)'
  <2>1. \A m, n \in Memories : \A l \in marks'[m] \cap marks'[n] : Agree(m, n, l)'
    OBVIOUS
  <2> QED BY <2>1, SinceIsNext DEF AgreeElsewhere, Agree
<1>1. ASSUME NEW m \in Memories, NEW n \in Memories, Fork(m, n) PROVE Agree(p, q, mark)'
  <2> DEFINE origin(x) == IF x = n THEN m ELSE x
  <2>1. \A x \in Memories : marks'[x] = marks[origin(x)]
    BY <1>1 DEF Fork, TypeOK
  <2>2. origin(p) \in Memories /\ origin(q) \in Memories
    OBVIOUS
  <2>3. mark \in marks[origin(p)] \cap marks[origin(q)] /\ mark \in Layers
    BY <1>00, <2>1, <2>2
  <2>4. \A x \in Memories : Faithful(x, origin(x), mark)
    BY <1>1, <2>3, ForkFaithful
  <2>5. Agree(origin(p), origin(q), mark)
    BY <1>0, <2>2, <2>3
  <2> HIDE DEF origin
  <2> QED BY <2>4, <2>5, AgreeStep
<1>2. ASSUME NEW m \in Memories, Checkpoint(m) PROVE Agree(p, q, mark)'
  <2>1. CASE p = q
    BY <2>1 DEF Agree
  <2>2. CASE p # q
    <3>0. Used(m)
      BY <1>2 DEF Checkpoint
    <3>1. \A x \in Memories : Head(chain[m]) \notin marks[x]
      BY <3>0, TopIsOwn
    <3>2. /\ marks'[m] = marks[m] \cup {Head(chain[m])}
          /\ \A x \in Memories \ {m} : marks'[x] = marks[x]
      BY <1>2 DEF Checkpoint, Marker, TypeOK
    <3>3. mark \in marks[p] \cap marks[q]
      BY <2>2, <3>1, <3>2
    <3>4. Faithful(p, p, mark) /\ Faithful(q, q, mark)
      BY <1>00, <1>2, <3>3, CheckpointFaithful
    <3> QED BY <1>0, <3>3, <3>4, AgreeStep
  <2> QED BY <2>1, <2>2
<1>3. ASSUME NEW m \in Memories, NEW data \in Writes, Write(m, data) PROVE Agree(p, q, mark)'
  <2>1. mark \in marks[p] /\ mark \in marks[q]
    BY <1>3 DEF Write
  <2>2. Faithful(p, p, mark) /\ Faithful(q, q, mark)
    BY <1>3, <2>1, WriteFaithful
  <2> QED BY <1>0, <2>1, <2>2, AgreeStep
<1>4. ASSUME NEW m \in Memories, Discard(m) PROVE Agree(p, q, mark)'
  <2>1. /\ p # m /\ q # m /\ mark \in marks[p] \cap marks[q] /\ cells' = cells
        /\ chain'[p] = chain[p] /\ chain'[q] = chain[q]
    BY <1>4 DEF Discard, TypeOK
  <2> QED BY <1>0, <2>1 DEF Agree, Read
<1>5. CASE UNCHANGED vars
  BY <1>0, <1>5 DEF vars, Agree, Read
<1> QED BY <1>1, <1>2, <1>3, <1>4, <1>5 DEF Next

-----------------------------------------------------------------------------
(* The theorems.                                                            *)

Inv == TypeOK /\ OwnLayer /\ NoOmission /\ AgreeElsewhere

LEMMA InvInit == ASSUME Init PROVE Inv
<1>1. TypeOK
  BY MemoryType
<1>2. OwnLayer
  BY DEF Init, OwnLayer, Used
<1>3. NoOmission /\ AgreeElsewhere
  BY DEF Init, NoOmission, AgreeElsewhere
<1> QED BY <1>1, <1>2, <1>3 DEF Inv

LEMMA InvStep == ASSUME Inv, [Next]_vars PROVE Inv'
BY TypeStep, OwnLayerStep, NoOmissionStep, AgreeElsewhereStep DEF Inv

LEMMA InvHolds == Spec => []Inv
<1>1. Init => Inv
  BY InvInit
<1>2. Inv /\ [Next]_vars => Inv'
  BY InvStep
<1> QED BY <1>1, <1>2, PTL DEF Spec

\* No memory writes into a layer another one reads, or one a checkpoint stands on
\* (memory.py:34-43), however many forks share what is below.
THEOREM TopIsPrivate == Spec => []OwnLayer
<1>1. Inv => OwnLayer
  BY DEF Inv
<1> QED BY <1>1, InvHolds, PTL

\* written_since never leaves out a byte written after the checkpoint (memory.py:45-56).
THEOREM NothingOmitted == Spec => []NoOmission
<1>1. Inv => NoOmission
  BY DEF Inv
<1> QED BY <1>1, InvHolds, PTL

\* Two memories that share a checkpoint differ only in bytes one of them reports: what
\* _merge (executor.py:1384-1395) does not look at is the same on all merged paths.
THEOREM SameElsewhere == Spec => []AgreeElsewhere
<1>1. Inv => AgreeElsewhere
  BY DEF Inv
<1> QED BY <1>1, InvHolds, PTL

-----------------------------------------------------------------------------
(* Every path has a memory of its own.                                      *)

\* What the abstract memory holds for each path.
Contents ==
    [m \in Memories |-> IF Used(m) THEN [a \in Addresses |-> Read(m, a)] ELSE Unused]

LEMMA ContentsOf ==
    ASSUME TypeOK, NEW m \in Memories
    PROVE  /\ Contents[m] # Unused <=> Used(m)
           /\ Used(m) => Contents[m] = [a \in Addresses |-> Read(m, a)]
<1>1. ASSUME Used(m) PROVE [a \in Addresses |-> Read(m, a)] \in [Addresses -> Bytes]
  <2>1. \A i \in 1..Len(chain[m]) : cells[chain[m][i]] \in Layer
    BY <1>1, ChainType, CellsType
  <2>2. Len(chain[m]) \in Nat
    BY <1>1, ChainType
  <2>3. \A a \in Addresses : Found(cells, chain[m], a) \in Bytes \cup {Absent}
    BY <2>1, <2>2, FoundType
  <2>4. \A a \in Addresses : Read(m, a) \in Bytes
    BY <2>3, MemoryAssumption DEF Read
  <2> QED BY <2>4
<1> QED BY <1>1, MemoryAssumption DEF Contents

LEMMA CopiesInit == ASSUME Init PROVE Copies!Init
<1>1. TypeOK
  BY MemoryType
<1>2. ASSUME NEW m \in Memories
      PROVE  Contents[m] = IF m = Root THEN Image ELSE Unused
  <2>1. CASE m = Root
    <3>1. Used(m) /\ Len(chain[m]) = 1 /\ chain[m] = <<1>> /\ cells[1] = Empty
      BY <2>1 DEF Init, Used
    <3>2. \A a \in Addresses : Read(m, a) = Image[a]
      <4> TAKE a \in Addresses
      <4>1. Found(cells, <<1>>, a) = cells[1][a]
        BY FoundAlone
      <4> QED BY <3>1, <4>1 DEF Read, Empty
    <3>3. Contents[m] = [a \in Addresses |-> Image[a]]
      BY <1>1, <3>1, <3>2, ContentsOf
    <3> QED BY <2>1, <3>3, MemoryAssumption
  <2>2. CASE m # Root
    BY <2>2 DEF Init, Used, Contents
  <2> QED BY <2>1, <2>2
<1> QED BY <1>2 DEF Copies!Init, Contents

LEMMA CopiesFork ==
    ASSUME TypeOK, TypeOK', NEW m \in Memories, NEW n \in Memories, Fork(m, n)
    PROVE  Copies!Fork(m, n)
<1>1. Used(m) /\ ~ Used(n)
  BY DEF Fork
<1>2. Used(m)' /\ Used(n)' /\ \A p \in Memories \ {m, n} : Used(p)' <=> Used(p)
  <2>1. OnTop(chain'[m], chain[m], Len(cells) + 1) /\ OnTop(chain'[n], chain[m], Len(cells) + 2)
    BY ForkShape
  <2>2. Len(chain'[m]) > 0 /\ Len(chain'[n]) > 0 /\ Len(<<>>) = 0
    BY <2>1 DEF OnTop
  <2> QED BY <2>2, ForkShape DEF Used
<1>3. \A a \in Addresses : /\ Read(m, a)' = Read(m, a) /\ Read(n, a)' = Read(m, a)
                           /\ \A p \in Memories \ {m, n} : Read(p, a)' = Read(p, a)
  BY ForkReads DEF Read
<1>4. Contents' = [Contents EXCEPT ![n] = Contents[m]]
  BY <1>1, <1>2, <1>3 DEF Contents
<1>5. Contents[m] # Unused /\ Contents[n] = Unused
  BY <1>1, ContentsOf
<1> QED BY <1>4, <1>5 DEF Copies!Fork, Contents

LEMMA CopiesWrite ==
    ASSUME TypeOK, OwnLayer, NEW m \in Memories, NEW data \in Writes, Write(m, data)
    PROVE  Copies!Write(m, data)
<1>1. Used(m)
  BY DEF Write
<1>2. \A p \in Memories : Used(p)' <=> Used(p)
  <2>1. <<Len(cells) + 1>> # <<>>
    OBVIOUS
  <2> QED BY <1>1, <2>1, WriteShape DEF Used
<1>3. \A a \in Addresses :
          /\ Read(m, a)' = IF a \in DOMAIN data THEN data[a] ELSE Read(m, a)
          /\ \A p \in Memories \ {m} : Read(p, a)' = Read(p, a)
  <2> TAKE a \in Addresses
  <2>1. a \in DOMAIN data => data[a] # Absent
    BY MemoryAssumption
  <2> QED BY <2>1, WriteReads DEF Read
<1>4. Contents[m] = [a \in Addresses |-> Read(m, a)] /\ Contents[m] # Unused
  BY <1>1, ContentsOf
<1>5. Contents' = [Contents EXCEPT ![m] =
          [a \in Addresses |-> IF a \in DOMAIN data THEN data[a] ELSE Contents[m][a]]]
  BY <1>1, <1>2, <1>3, <1>4 DEF Contents
<1> QED BY <1>4, <1>5 DEF Copies!Write, Copies!Over, Contents

LEMMA CopiesDiscard ==
    ASSUME TypeOK, NEW m \in Memories, Discard(m) PROVE Copies!Discard(m)
<1>1. Used(m) /\ ~ Used(m)' /\ cells' = cells
      /\ \A p \in Memories \ {m} : chain'[p] = chain[p]
  BY DEF Discard, Used, TypeOK
<1>2. Contents' = [Contents EXCEPT ![m] = Unused]
  BY <1>1 DEF Contents, Used, Read
<1>3. Contents[m] # Unused
  BY <1>1, ContentsOf
<1> QED BY <1>2, <1>3 DEF Copies!Discard, Contents

\* A checkpoint is no step of the abstract memory.
LEMMA CopiesCheckpoint ==
    ASSUME TypeOK, NEW m \in Memories, Checkpoint(m) PROVE Contents' = Contents
<1>1. \A p \in Memories : Used(p)' <=> Used(p)
  <2>1. OnTop(chain'[m], chain[m], Len(cells) + 1) /\ Len(<<>>) = 0
    BY CheckpointShape
  <2> QED BY <2>1, CheckpointShape DEF Used, OnTop, Checkpoint
<1>2. \A p \in Memories : \A a \in Addresses : Read(p, a)' = Read(p, a)
  BY CheckpointReads DEF Read
<1> QED BY <1>1, <1>2 DEF Contents

LEMMA CopiesStep ==
    ASSUME TypeOK, TypeOK', OwnLayer, [Next]_vars
    PROVE  Copies!Next \/ Contents' = Contents
<1>1. CASE \E m, n \in Memories : Fork(m, n)
  BY <1>1, CopiesFork DEF Copies!Next
<1>2. CASE \E m \in Memories : Checkpoint(m)
  BY <1>2, CopiesCheckpoint
<1>3. CASE \E m \in Memories : Discard(m)
  BY <1>3, CopiesDiscard DEF Copies!Next
<1>4. CASE \E m \in Memories, data \in Writes : Write(m, data)
  BY <1>4, CopiesWrite DEF Copies!Next
<1>5. CASE UNCHANGED vars
  BY <1>5 DEF vars, Contents, Used, Read
<1> QED BY <1>1, <1>2, <1>3, <1>4, <1>5 DEF Next

\* Every fork, write and end of a path is that very operation on the abstract memory: a
\* write is never lost and never seen by another path.
THEOREM Promised == Spec => EachAsPromised
<1> DEFINE Promise ==
        /\ \A m, n \in Memories : Fork(m, n) => Copies!Fork(m, n)
        /\ \A m \in Memories, data \in Writes : Write(m, data) => Copies!Write(m, data)
        /\ \A m \in Memories : Discard(m) => Copies!Discard(m)
<1>1. Inv /\ Inv' /\ [Next]_vars => Promise
  BY CopiesFork, CopiesWrite, CopiesDiscard DEF Inv
<1>2. Inv /\ Inv' /\ [Next]_vars => [Promise]_vars
  BY <1>1
<1> QED BY <1>2, InvHolds, PTL DEF Spec, EachAsPromised

\* Layers, forks, checkpoints and flattening implement one memory for each path,
\* operation by operation.
THEOREM Implements == Spec => PrivateCopies
<1>1. Init => Copies!Init
  BY CopiesInit
<1>2. Inv /\ Inv' /\ [Next]_vars => [Copies!Next]_Contents
  BY CopiesStep DEF Inv
<1>3. Inv /\ Inv' /\ [Next]_vars =>
          [Copies!Next]_[m \in Memories |->
              IF Used(m) THEN [a \in Addresses |-> Read(m, a)] ELSE Unused]
  BY <1>2 DEF Contents
<1>4. Spec => Copies!Spec
  BY <1>1, <1>3, InvHolds, PTL DEF Spec, Copies!Spec
<1> QED BY <1>4, Promised DEF PrivateCopies
=============================================================================
