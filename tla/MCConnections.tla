--------------------------- MODULE MCConnections ---------------------------
(* Instances of Connections small enough for TLC. *)
EXTENDS Connections

CONSTANTS c1, c2, c3, c4, ip1, ip2

\* Three connections from one address, and one from another.
MCIpOf == [c \in Conns |-> IF c = c4 THEN ip2 ELSE ip1]
=============================================================================
