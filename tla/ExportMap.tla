-------------------------------- MODULE ExportMap --------------------------------
(***************************************************************************)
(* What the export cache promises its users: a map from keys to exports,   *)
(* each put in whole, by someone who meant to, or taken out whole.         *)
(***************************************************************************)
CONSTANTS Keys, Exports, None

VARIABLES map, putting

Init == map = [k \in Keys |-> None] /\ putting = {}

\* Someone has an export for a key and sets out to put it there.
Offer(k, e) == putting' = putting \cup {<<k, e>>} /\ UNCHANGED map
Put(k, e) == <<k, e>> \in putting /\ map' = [map EXCEPT ![k] = e] /\ UNCHANGED putting
Take(k) == map[k] # None /\ map' = [map EXCEPT ![k] = None] /\ UNCHANGED putting

Next == \E k \in Keys : Take(k) \/ \E e \in Exports : Offer(k, e) \/ Put(k, e)

Spec == Init /\ [][Next]_<<map, putting>>
=============================================================================
