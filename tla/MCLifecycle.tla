---------------------------- MODULE MCLifecycle ----------------------------
(* Lifecycle with two interfaces. *)
EXTENDS Lifecycle
CONSTANTS v1, v2

MCVifs == {v1, v2}
=============================================================================
