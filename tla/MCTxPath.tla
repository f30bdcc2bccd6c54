------------------------------ MODULE MCTxPath ------------------------------
(* TxPath with one frame that competes with the dummy packet for the only    *)
(* descriptor and for two memory blocks, of which Rx may borrow one.         *)
EXTENDS TxPath
CONSTANT f1

MCFrames == {f1}
MCBlocks == [p \in Packets |-> 1]
=============================================================================
