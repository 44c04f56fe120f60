------------------------------ MODULE MCPathMemory ------------------------------
(***************************************************************************)
(* Two paths that fork, checkpoint and write one byte or two.              *)
(***************************************************************************)
EXTENDS PathMemory, TLC

MCImage == [a \in Addresses |-> 0]
MCWrites == {1 :> 1, 1 :> 0 @@ 2 :> 1}
=============================================================================
