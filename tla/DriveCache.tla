----------------------------- MODULE DriveCache -----------------------------
(***************************************************************************)
(* How a login finds its drive: resolveDriveForAccount of                  *)
(* pkg/ftp/driver.go with its cache, over the Graph client of              *)
(* pkg/graph/client.go.                                                    *)
(*                                                                         *)
(* The lock of the cache is held for the look-up and for the store, not    *)
(* for the request between them.  Logins of one account ask at once, their *)
(* answers come in any order, and the drives change meanwhile.             *)
(***************************************************************************)
EXTENDS Integers

CONSTANTS
  Logins,
  Accounts, AccountOf, \* the account of a login
  Drives, Names,       \* drive ids and drive names of the oCIS server
  TargetById,          \* accounts whose target is a drive_id
  Target,              \* that id, or the drive name of the other accounts
  TTL,                 \* driveResolutionCacheTTL, in ticks of the clock
  CallTimeout,         \* graphOpTimeout
  MaxChanges           \* changes on the server (a bound of the model)

ASSUME DriveCacheAssumption ==
  /\ AccountOf \in [Logins -> Accounts]
  /\ TargetById \subseteq Accounts
  /\ Target \in [Accounts -> Drives \cup Names]
  /\ TTL \in Nat /\ CallTimeout \in Nat /\ MaxChanges \in Nat

VARIABLES
  driveCache, \* account -> drive, and the time the entry has left
  at,         \* where a login is
  drive,      \* the drive it has got; meaningless before
  waited,     \* how long its request is under way
  drives,     \* server: the name of every drive that exists
  revoked,    \* server: accounts whose app token is revoked
  changes,
  stale       \* how long ago the account's target was that drive (history)

loginVars  == <<at, drive, waited>>
serverVars == <<drives, revoked, changes, stale>>
cacheVars  == <<driveCache, loginVars, serverVars>>

Places == {"idle", "asking", "answered", "resolved", "failed"}
OnCall == {"asking", "answered"}
Never  == TTL + CallTimeout + 1

-----------------------------------------------------------------------------
(* The server *)

Matches(a) ==
  {d \in DOMAIN drives : IF a \in TargetById THEN d = Target[a] ELSE drives[d] = Target[a]}

\* Mutant: the first of several drives of the name.
ResolvesFirst(a, d) == a \notin revoked /\ d \in Matches(a)

\* resolveDriveFresh: a drive by its id, or the only one of its name.
Resolves(a, d) == a \notin revoked /\ Matches(a) = {d}

\* The account's target in fact, whatever the bridge makes of it.
IsTarget(a, d) ==
  /\ a \notin revoked /\ d \in Matches(a)
  /\ \A e \in Matches(a) : e = d

Aged(n) == [p \in Accounts \X Drives |->
  IF IsTarget(p[1], p[2])' THEN 0 ELSE IF stale[p] + n > Never THEN Never ELSE stale[p] + n]

Init ==
  /\ driveCache = [a \in {} |-> 0]
  /\ at = [l \in Logins |-> "idle"]
  /\ drive \in {[l \in Logins |-> d] : d \in Drives}
  /\ waited = [l \in Logins |-> 0]
  /\ \E ds \in SUBSET Drives : drives \in [ds -> Names]
  /\ revoked = {}
  /\ changes = 0
  /\ stale = [p \in Accounts \X Drives |-> IF IsTarget(p[1], p[2]) THEN 0 ELSE Never]

\* A drive is created, renamed or deleted, a token revoked or restored.
ServerChanges ==
  /\ changes < MaxChanges
  /\ changes' = changes + 1
  /\ \/ /\ \E d \in Drives, n \in Names :
             drives' = [e \in DOMAIN drives \cup {d} |-> IF e = d THEN n ELSE drives[e]]
        /\ UNCHANGED revoked
     \/ /\ \E d \in DOMAIN drives : drives' = [e \in DOMAIN drives \ {d} |-> drives[e]]
        /\ UNCHANGED revoked
     \/ /\ \E a \in Accounts :
             revoked' = IF a \in revoked THEN revoked \ {a} ELSE revoked \cup {a}
        /\ UNCHANGED drives
  /\ stale' = Aged(0)
  /\ UNCHANGED <<driveCache, loginVars>>

-----------------------------------------------------------------------------
(* resolveDriveForAccount *)

Step(l, from, to) == at[l] = from /\ at' = [at EXCEPT ![l] = to]

Entry(d) == [drive |-> d, left |-> TTL]

PutEntry(a, entry) ==
  driveCache' = [b \in DOMAIN driveCache \cup {a} |-> IF b = a THEN entry ELSE driveCache[b]]

\* An entry is still good at the very end of its time.
Cached(a) == a \in DOMAIN driveCache /\ driveCache[a].left >= 0

\* Mutant: a look-up gives the entry its whole time again.
HitExtends(l) ==
  LET a == AccountOf[l] IN
  /\ Cached(a)
  /\ Step(l, "idle", "resolved")
  /\ drive' = [drive EXCEPT ![l] = driveCache[a].drive]
  /\ PutEntry(a, Entry(driveCache[a].drive))
  /\ UNCHANGED <<waited, serverVars>>

Hit(l) ==
  LET a == AccountOf[l] IN
  /\ Cached(a)
  /\ Step(l, "idle", "resolved")
  /\ drive' = [drive EXCEPT ![l] = driveCache[a].drive]
  /\ UNCHANGED <<driveCache, waited, serverVars>>

Miss(l) ==
  /\ ~Cached(AccountOf[l])
  /\ Step(l, "idle", "asking")
  /\ waited' = [waited EXCEPT ![l] = 0]
  /\ UNCHANGED <<driveCache, drive, serverVars>>

\* The moment at which the server reads its drives; the answer takes a while.
GraphAnswers(l, d) ==
  /\ Resolves(AccountOf[l], d)
  /\ Step(l, "asking", "answered")
  /\ drive' = [drive EXCEPT ![l] = d]
  /\ UNCHANGED <<driveCache, waited, serverVars>>

\* No such drive, an ambiguous name, a revoked token, a broken connection, or
\* the end of the call's time: nothing is stored, and nothing evicted.
GraphFails(l) ==
  /\ Step(l, "asking", "failed") \/ Step(l, "answered", "failed")
  /\ UNCHANGED <<driveCache, drive, waited, serverVars>>

StoreResolution(l) ==
  /\ Step(l, "answered", "resolved")
  /\ PutEntry(AccountOf[l], Entry(drive[l]))
  /\ UNCHANGED <<drive, waited, serverVars>>

\* The next login of the connection.
LogInAgain(l) ==
  /\ Step(l, "resolved", "idle") \/ Step(l, "failed", "idle")
  /\ UNCHANGED <<driveCache, drive, waited, serverVars>>

\* No call outlasts its deadline.
Tick ==
  /\ \A l \in Logins : at[l] \in OnCall => waited[l] < CallTimeout
  /\ waited' = [l \in Logins |-> IF at[l] \in OnCall THEN waited[l] + 1 ELSE waited[l]]
  /\ driveCache' = [a \in DOMAIN driveCache |->
       [driveCache[a] EXCEPT !.left = IF @ < 0 THEN @ ELSE @ - 1]]
  /\ UNCHANGED <<at, drive, drives, revoked, changes>>
  /\ stale' = Aged(1)

Resolution(l) ==
  \/ Hit(l) \/ Miss(l) \/ StoreResolution(l) \/ GraphFails(l)
  \/ \E d \in Drives : GraphAnswers(l, d)

Next ==
  \/ \E l \in Logins : Resolution(l) \/ LogInAgain(l)
  \/ ServerChanges
  \/ Tick

Spec == Init /\ [][Next]_cacheVars

\* The clock goes on, and every call ends by its deadline.
FairSpec ==
  /\ Spec
  /\ WF_cacheVars(Tick)
  /\ \A l \in Logins : WF_cacheVars(StoreResolution(l) \/ GraphFails(l))

-----------------------------------------------------------------------------
(* Properties *)

\* The type of the state.
TypeOK ==
  /\ DOMAIN driveCache \subseteq Accounts
  /\ \A a \in DOMAIN driveCache : driveCache[a] \in [drive : Drives, left : -1 .. TTL]
  /\ at \in [Logins -> Places]
  /\ drive \in [Logins -> Drives]
  /\ waited \in [Logins -> 0 .. CallTimeout]
  /\ DOMAIN drives \subseteq Drives
  /\ \A d \in DOMAIN drives : drives[d] \in Names
  /\ revoked \subseteq Accounts
  /\ changes \in 0 .. MaxChanges
  /\ stale \in [Accounts \X Drives -> 0 .. Never]

\* An entry that is still served was the account's target not longer ago
\* than its age and the time of one request, although an older answer may
\* have replaced a newer one (driver.go, storeDriveResolution).
EntriesAge ==
  \A a \in DOMAIN driveCache :
    Cached(a) => stale[<<a, driveCache[a].drive>>] + driveCache[a].left <= TTL + CallTimeout

\* An answer that is on its way is not older than its request.
AnswersAge ==
  \A l \in Logins : at[l] = "answered" => stale[<<AccountOf[l], drive[l]>>] <= waited[l]

\* The inductive invariant (driver.go, resolveDriveForAccount).
CacheInv == TypeOK /\ EntriesAge /\ AnswersAge

\* "The TTL keeps deletions and renames from going unnoticed": no login is
\* given a drive that stopped being the account's target, by a deletion, a
\* rename, a second drive of the name or a revoked token, longer ago than the
\* TTL and the time of one request.
DriveWasTarget ==
  [][\A l \in Logins :
       at'[l] = "resolved" /\ at[l] # "resolved" =>
         stale[<<AccountOf[l], drive'[l]>>] <= TTL + CallTimeout]_cacheVars

\* When the server changes no more, there is a time after which every login
\* gets the current target, however often the account logs in.
ChangesNoticed ==
  <>[][\A l \in Logins :
         at'[l] = "resolved" /\ at[l] # "resolved" =>
           IsTarget(AccountOf[l], drive'[l])]_cacheVars
=============================================================================
