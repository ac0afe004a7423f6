------------------------------ MODULE MCBridge ------------------------------
(* Instances of Bridge small enough for TLC. *)
EXTENDS Bridge, TLC

CONSTANTS acc1, acc2, u1, u2, u3

MCUnknownSize == {-1}

\* One account, a session for every upload, one name.
OneAccount   == [u \in Uploads |-> acc1]
OwnSession   == [u \in Uploads |-> u]
SameName     == [u \in Uploads |-> 1]
Renaming     == [c \in Accounts |-> "rename"]
Rejecting    == [c \in Accounts |-> "reject"]
Unlimited    == [c \in Accounts |-> 0]
OneAtATime   == [c \in Accounts |-> 1]

\* Two accounts on one drive: one renames, the other overwrites.
TwoAccounts  == [u \in Uploads |-> IF u = u1 THEN acc1 ELSE acc2]
MixedPolicy  == [c \in Accounts |-> IF c = acc1 THEN "rename" ELSE "overwrite"]

BridgeSymmetry == Permutations(Uploads)
=============================================================================
