---------------------------- MODULE MCLifecycle ----------------------------
(* Instances of Lifecycle small enough for TLC. *)
EXTENDS Lifecycle

CONSTANTS p1, p2
=============================================================================
