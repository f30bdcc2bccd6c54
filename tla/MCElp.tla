------------------------------- MODULE MCElp --------------------------------
(* Elp with two threads besides the interrupt thread. *)
EXTENDS Elp
CONSTANTS op1, op2

MCOps == {op1, op2}
=============================================================================
