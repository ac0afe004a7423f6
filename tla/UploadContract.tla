--------------------------- MODULE UploadContract ---------------------------
(***************************************************************************)
(* What the bridge promises an FTP client, and the owners of the drive, of *)
(* one STOR: whatever happens to the spool, the session or the requests,   *)
(*   - "ok" is said only of an upload that arrived whole and was stored,   *)
(*   - every STOR is answered at most once,                                *)
(*   - an object is never replaced but by an upload that may replace.      *)
(* An upload answered with "error" may be stored, and be stored later.     *)
(***************************************************************************)
CONSTANTS
  Uploads,
  Replacing  \* uploads of accounts whose collision policy is overwrite

VARIABLES
  drive,     \* content of the paths that exist
  kept,      \* uploads that were stored at some time
  cut,       \* uploads of which only a part arrived
  reply

contractVars == <<drive, kept, cut, reply>>

Init ==
  /\ \A p \in DOMAIN drive : drive[p] \notin Uploads
  /\ kept = {}
  /\ cut = {}
  /\ reply = [u \in Uploads |-> "none"]

\* Objects come and never go.
Writes(p, content) ==
  /\ DOMAIN drive' = DOMAIN drive \cup {p}
  /\ drive'[p] = content
  /\ \A q \in DOMAIN drive \ {p} : drive'[q] = drive[q]

Store(u) ==
  /\ \E p \in DOMAIN drive' : Writes(p, u) /\ (p \in DOMAIN drive => u \in Replacing)
  /\ kept' = kept \cup {u}
  /\ UNCHANGED <<cut, reply>>

StoreForeign ==
  /\ \E p \in DOMAIN drive' \ DOMAIN drive :
       Writes(p, drive'[p]) /\ drive'[p] \notin Uploads
  /\ UNCHANGED <<kept, cut, reply>>

CutShort(u) ==
  /\ reply[u] = "none"
  /\ cut' = cut \cup {u}
  /\ UNCHANGED <<drive, kept, reply>>

ReplyOk(u) ==
  /\ reply[u] = "none"
  /\ u \in kept \ cut
  /\ reply' = [reply EXCEPT ![u] = "ok"]
  /\ UNCHANGED <<drive, kept, cut>>

ReplyError(u) ==
  /\ reply[u] = "none"
  /\ reply' = [reply EXCEPT ![u] = "error"]
  /\ UNCHANGED <<drive, kept, cut>>

Next ==
  \/ \E u \in Uploads : Store(u) \/ CutShort(u) \/ ReplyOk(u) \/ ReplyError(u)
  \/ StoreForeign

Spec == Init /\ [][Next]_contractVars
=============================================================================
