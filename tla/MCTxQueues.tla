----------------------------- MODULE MCTxQueues -----------------------------
(* TxQueues with one link beside the system link. *)
EXTENDS TxQueues
CONSTANTS sys, l1

MCStaLinks == {l1}
=============================================================================
