------------------------------- MODULE ForkMemory -------------------------------
(***************************************************************************)
(* What path memory promises: every path has a memory of its own.  A fork  *)
(* copies it, a write changes one copy.                                    *)
(***************************************************************************)
CONSTANTS
    Memories,    \* the memories paths can have
    Root,        \* the memory main starts with
    Addresses,
    Bytes,       \* what a byte can hold: expressions
    Image,       \* the bytes before anything is written
    Writes,      \* what may be written at once: a byte for each of some addresses
    Unused       \* the contents of a memory no path has

VARIABLE contents

\* Bytes written over others.
Over(data, bytes) ==
    [a \in Addresses |-> IF a \in DOMAIN data THEN data[a] ELSE bytes[a]]

Init == contents = [m \in Memories |-> IF m = Root THEN Image ELSE Unused]

Fork(m, n) ==
    /\ contents[m] # Unused /\ contents[n] = Unused
    /\ contents' = [contents EXCEPT ![n] = contents[m]]

Write(m, data) ==
    /\ contents[m] # Unused
    /\ contents' = [contents EXCEPT ![m] = Over(data, contents[m])]

Discard(m) ==
    /\ contents[m] # Unused
    /\ contents' = [contents EXCEPT ![m] = Unused]

Next ==
    \/ \E m, n \in Memories : Fork(m, n)
    \/ \E m \in Memories, data \in Writes : Write(m, data)
    \/ \E m \in Memories : Discard(m)

Spec == Init /\ [][Next]_contents
=============================================================================
