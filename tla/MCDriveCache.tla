---------------------------- MODULE MCDriveCache ----------------------------
(* Two logins of an account whose target is a name, one of an account whose *)
(* target is an id.                                                         *)
EXTENDS DriveCache

CONSTANTS byName, byId, l1, l2, l3, d1, d2, n1

MCAccountOf == [l \in Logins |-> IF l = l3 THEN byId ELSE byName]
MCTarget    == [a \in Accounts |-> IF a = byId THEN d1 ELSE n1]
=============================================================================
