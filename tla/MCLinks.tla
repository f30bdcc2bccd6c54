------------------------------ MODULE MCLinks ------------------------------
EXTENDS Links

CONSTANT a1

MCApOf == [c \in Clients |-> a1]

=============================================================================
