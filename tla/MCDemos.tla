------------------------------ MODULE MCDemos ------------------------------
(***************************************************************************)
(* The boot sequence from a kernel that has not started anything yet.      *)
(***************************************************************************)
EXTENDS Demos

NobodyYet == [p \in {} |-> <<>>]

============================================================================
