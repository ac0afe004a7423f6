-------------------------- MODULE DriveCacheProofs --------------------------
(* Proofs about DriveCache: how old a drive can be that a login is given. *)
EXTENDS DriveCache, TLAPS

USE DriveCacheAssumption

\* Whatever the server and the clock do, the history of a pair is a number
\* up to Never, and grows by at most the ticks that passed.
LEMMA AgedBounds ==
  ASSUME stale \in [Accounts \X Drives -> 0 .. Never],
         NEW n \in {0, 1}, stale' = Aged(n)
  PROVE  /\ stale' \in [Accounts \X Drives -> 0 .. Never]
         /\ \A p \in Accounts \X Drives : stale'[p] <= stale[p] + n
BY DEF Aged, Never

\* A drive that the server resolves is the target.
LEMMA ResolvedIsTarget ==
  ASSUME NEW a \in Accounts, NEW d \in Drives, Resolves(a, d)
  PROVE  IsTarget(a, d)
BY DEF Resolves, IsTarget

-----------------------------------------------------------------------------
\* The history agrees with the server: the target's own entry is 0. Together
\* with CacheInv this is inductive.
HistoryInv == \A a \in Accounts, d \in Drives : IsTarget(a, d) => stale[<<a, d>>] = 0

LEMMA InitInv == Init => CacheInv /\ HistoryInv
<1> SUFFICES ASSUME Init PROVE CacheInv /\ HistoryInv
  OBVIOUS
<1>1. TypeOK
  BY DEF Init, TypeOK, Places, Never
<1>2. EntriesAge /\ AnswersAge
  BY DEF Init, EntriesAge, AnswersAge, Cached
<1>3. HistoryInv
  BY DEF Init, HistoryInv
<1> QED BY <1>1, <1>2, <1>3 DEF CacheInv

-----------------------------------------------------------------------------
(* One lemma per kind of step *)

\* A step that leaves the server alone keeps the history.
LEMMA SameHistory ==
  ASSUME HistoryInv, UNCHANGED serverVars
  PROVE  HistoryInv'
BY DEF HistoryInv, serverVars, IsTarget, Matches

\* A look-up hands out what is in the cache.
LEMMA HitStep ==
  ASSUME CacheInv, NEW l \in Logins, Hit(l)
  PROVE  CacheInv'
<1>1. /\ AccountOf[l] \in Accounts
      /\ drive' = [drive EXCEPT ![l] = driveCache[AccountOf[l]].drive]
      /\ at' = [at EXCEPT ![l] = "resolved"]
      /\ driveCache[AccountOf[l]].drive \in Drives
      /\ UNCHANGED <<driveCache, waited, drives, revoked, changes, stale>>
  BY DEF Hit, Step, CacheInv, TypeOK, Cached, serverVars
<1>2. TypeOK'
  BY <1>1 DEF CacheInv, TypeOK, Places
<1>3. EntriesAge'
  BY <1>1 DEF CacheInv, EntriesAge, Cached
<1>4. AnswersAge'
  BY <1>1 DEF CacheInv, AnswersAge, TypeOK
<1> QED BY <1>2, <1>3, <1>4 DEF CacheInv

\* Starting, failing or ending a login touches neither cache nor drives.
LEMMA LocalStep ==
  ASSUME CacheInv, NEW l \in Logins, Miss(l) \/ GraphFails(l) \/ LogInAgain(l)
  PROVE  CacheInv'
<1>1. /\ \E p \in {"asking", "failed", "idle"} : at' = [at EXCEPT ![l] = p]
      /\ waited' \in {waited, [waited EXCEPT ![l] = 0]}
      /\ UNCHANGED <<driveCache, drive, drives, revoked, changes, stale>>
  BY DEF Miss, GraphFails, LogInAgain, Step, serverVars
<1>2. TypeOK'
  BY <1>1 DEF CacheInv, TypeOK, Places
<1>3. EntriesAge'
  BY <1>1 DEF CacheInv, EntriesAge, Cached
<1>4. AnswersAge'
  <2> SUFFICES ASSUME NEW k \in Logins, at'[k] = "answered"
               PROVE  stale'[<<AccountOf[k], drive'[k]>>] <= waited'[k]
    BY DEF AnswersAge
  <2>1. k # l
    BY <1>1 DEF CacheInv, TypeOK
  <2>2. at[k] = "answered" /\ waited'[k] = waited[k]
    BY <1>1, <2>1 DEF CacheInv, TypeOK
  <2> QED BY <1>1, <2>2 DEF CacheInv, AnswersAge
<1> QED BY <1>2, <1>3, <1>4 DEF CacheInv

\* The server answers with the target of that moment.
LEMMA AnswerStep ==
  ASSUME CacheInv, HistoryInv, NEW l \in Logins, NEW d \in Drives, GraphAnswers(l, d)
  PROVE  CacheInv'
<1>1. /\ at' = [at EXCEPT ![l] = "answered"]
      /\ drive' = [drive EXCEPT ![l] = d]
      /\ UNCHANGED <<driveCache, waited, drives, revoked, changes, stale>>
  BY DEF GraphAnswers, Step, serverVars
<1>2. AccountOf[l] \in Accounts /\ stale[<<AccountOf[l], d>>] = 0
  BY ResolvedIsTarget DEF GraphAnswers, HistoryInv
<1>3. TypeOK'
  BY <1>1 DEF CacheInv, TypeOK, Places
<1>4. EntriesAge'
  BY <1>1 DEF CacheInv, EntriesAge, Cached
<1>5. AnswersAge'
  <2> SUFFICES ASSUME NEW k \in Logins, at'[k] = "answered"
               PROVE  stale[<<AccountOf[k], drive'[k]>>] <= waited[k]
    BY <1>1 DEF AnswersAge
  <2>1. CASE k = l
    BY <2>1, <1>1, <1>2 DEF CacheInv, TypeOK
  <2>2. CASE k # l
    BY <2>2, <1>1 DEF CacheInv, TypeOK, AnswersAge
  <2> QED BY <2>1, <2>2
<1> QED BY <1>3, <1>4, <1>5 DEF CacheInv

\* A new entry is as old as its request at most.
LEMMA StoreStep ==
  ASSUME CacheInv, NEW l \in Logins, StoreResolution(l)
  PROVE  CacheInv'
<1> DEFINE a == AccountOf[l]
<1>1. /\ at[l] = "answered"
      /\ at' = [at EXCEPT ![l] = "resolved"]
      /\ driveCache' = [b \in DOMAIN driveCache \cup {a} |->
                          IF b = a THEN Entry(drive[l]) ELSE driveCache[b]]
      /\ UNCHANGED <<drive, waited, drives, revoked, changes, stale>>
  BY DEF StoreResolution, Step, PutEntry, serverVars
<1>2. a \in Accounts /\ Entry(drive[l]) \in [drive : Drives, left : -1 .. TTL]
  BY DEF CacheInv, TypeOK, Entry
<1>3. stale[<<a, drive[l]>>] + Entry(drive[l]).left <= TTL + CallTimeout
  <2>1. stale[<<a, drive[l]>>] <= waited[l] /\ waited[l] \in 0 .. CallTimeout
    BY <1>1 DEF CacheInv, AnswersAge, TypeOK
  <2>2. stale[<<a, drive[l]>>] \in 0 .. Never
    BY <1>2 DEF CacheInv, TypeOK
  <2>3. Entry(drive[l]).left = TTL
    BY DEF Entry
  <2> QED BY <2>1, <2>2, <2>3 DEF Never
<1>4. Entry(drive[l]).drive = drive[l]
  BY DEF Entry
<1> HIDE DEF a
<1>5. TypeOK'
  BY <1>1, <1>2 DEF CacheInv, TypeOK, Places
<1>6. EntriesAge'
  <2> SUFFICES ASSUME NEW b \in DOMAIN driveCache', Cached(b)'
               PROVE  stale[<<b, driveCache'[b].drive>>] + driveCache'[b].left <= TTL + CallTimeout
    BY <1>1 DEF EntriesAge
  <2>1. CASE b = a
    BY <2>1, <1>1, <1>3, <1>4
  <2>2. CASE b # a
    BY <2>2, <1>1 DEF CacheInv, EntriesAge, Cached
  <2> QED BY <2>1, <2>2
<1>7. AnswersAge'
  BY <1>1 DEF CacheInv, AnswersAge, TypeOK
<1> QED BY <1>5, <1>6, <1>7 DEF CacheInv

\* A change on the server ages nothing; the target starts at 0.
LEMMA ChangeStep ==
  ASSUME CacheInv, ServerChanges
  PROVE  CacheInv' /\ HistoryInv'
<1>1. /\ changes < MaxChanges /\ changes' = changes + 1
      /\ stale' = Aged(0)
      /\ UNCHANGED <<driveCache, at, drive, waited>>
  BY DEF ServerChanges, loginVars
<1>2. /\ stale' \in [Accounts \X Drives -> 0 .. Never]
      /\ \A p \in Accounts \X Drives : stale'[p] <= stale[p]
  <2>1. stale \in [Accounts \X Drives -> 0 .. Never]
    BY DEF CacheInv, TypeOK
  <2>2. /\ stale' \in [Accounts \X Drives -> 0 .. Never]
        /\ \A p \in Accounts \X Drives : stale'[p] <= stale[p] + 0
    BY <2>1, <1>1, AgedBounds
  <2> QED BY <2>1, <2>2 DEF Never
<1>3. DOMAIN drives' \subseteq Drives /\ \A d \in DOMAIN drives' : drives'[d] \in Names
  BY DEF ServerChanges, CacheInv, TypeOK
<1>4. revoked' \subseteq Accounts
  BY DEF ServerChanges, CacheInv, TypeOK
<1>5. TypeOK'
  BY <1>1, <1>2, <1>3, <1>4 DEF CacheInv, TypeOK
<1>6. EntriesAge'
  <2> SUFFICES ASSUME NEW a \in DOMAIN driveCache, Cached(a)
               PROVE  stale'[<<a, driveCache[a].drive>>] + driveCache[a].left <= TTL + CallTimeout
    BY <1>1 DEF EntriesAge, Cached
  <2>1. <<a, driveCache[a].drive>> \in Accounts \X Drives /\ driveCache[a].left \in -1 .. TTL
    BY DEF CacheInv, TypeOK
  <2>2. stale[<<a, driveCache[a].drive>>] + driveCache[a].left <= TTL + CallTimeout
    BY DEF CacheInv, EntriesAge
  <2>3. /\ stale[<<a, driveCache[a].drive>>] \in 0 .. Never
        /\ stale'[<<a, driveCache[a].drive>>] \in 0 .. Never
        /\ stale'[<<a, driveCache[a].drive>>] <= stale[<<a, driveCache[a].drive>>]
    BY <2>1, <1>2 DEF CacheInv, TypeOK
  <2> QED BY <2>1, <2>2, <2>3 DEF Never
<1>7. AnswersAge'
  <2> SUFFICES ASSUME NEW l \in Logins, at[l] = "answered"
               PROVE  stale'[<<AccountOf[l], drive[l]>>] <= waited[l]
    BY <1>1 DEF AnswersAge
  <2>1. <<AccountOf[l], drive[l]>> \in Accounts \X Drives /\ waited[l] \in Nat
    BY DEF CacheInv, TypeOK
  <2>2. stale[<<AccountOf[l], drive[l]>>] <= waited[l]
    BY DEF CacheInv, AnswersAge
  <2>3. /\ stale[<<AccountOf[l], drive[l]>>] \in 0 .. Never
        /\ stale'[<<AccountOf[l], drive[l]>>] \in 0 .. Never
        /\ stale'[<<AccountOf[l], drive[l]>>] <= stale[<<AccountOf[l], drive[l]>>]
    BY <2>1, <1>2 DEF CacheInv, TypeOK
  <2> QED BY <2>1, <2>2, <2>3 DEF Never
<1>8. HistoryInv'
  BY <1>1 DEF HistoryInv, Aged
<1> QED BY <1>5, <1>6, <1>7, <1>8 DEF CacheInv

\* A tick takes from an entry what it adds to its age, and every request on
\* its way ages with its answer.
LEMMA TickStep ==
  ASSUME CacheInv, Tick
  PROVE  CacheInv' /\ HistoryInv'
<1>1. /\ waited' = [l \in Logins |-> IF at[l] \in OnCall THEN waited[l] + 1 ELSE waited[l]]
      /\ driveCache' = [a \in DOMAIN driveCache |->
            [driveCache[a] EXCEPT !.left = IF @ < 0 THEN @ ELSE @ - 1]]
      /\ stale' = Aged(1)
      /\ UNCHANGED <<at, drive, drives, revoked, changes>>
  BY DEF Tick
<1>2. /\ stale' \in [Accounts \X Drives -> 0 .. Never]
      /\ \A p \in Accounts \X Drives : stale'[p] <= stale[p] + 1
  <2>1. stale \in [Accounts \X Drives -> 0 .. Never]
    BY DEF CacheInv, TypeOK
  <2> QED BY <2>1, <1>1, AgedBounds
<1>3. waited' \in [Logins -> 0 .. CallTimeout]
  BY DEF Tick, CacheInv, TypeOK
<1>4. \A a \in DOMAIN driveCache :
        /\ driveCache[a] \in [drive : Drives, left : -1 .. TTL]
        /\ driveCache'[a] \in [drive : Drives, left : -1 .. TTL]
        /\ driveCache'[a].drive = driveCache[a].drive
        /\ driveCache'[a].left >= 0 =>
             driveCache[a].left >= 0 /\ driveCache'[a].left = driveCache[a].left - 1
  BY <1>1 DEF CacheInv, TypeOK
<1>5. TypeOK'
  BY <1>1, <1>2, <1>3, <1>4 DEF CacheInv, TypeOK
<1>6. EntriesAge'
  <2> SUFFICES ASSUME NEW a \in DOMAIN driveCache, driveCache'[a].left >= 0
               PROVE  stale'[<<a, driveCache'[a].drive>>] + driveCache'[a].left <= TTL + CallTimeout
    BY <1>1 DEF EntriesAge, Cached
  <2>1. /\ <<a, driveCache[a].drive>> \in Accounts \X Drives
        /\ driveCache[a].left \in -1 .. TTL
        /\ driveCache[a].left >= 0 /\ driveCache'[a].left = driveCache[a].left - 1
        /\ driveCache'[a].drive = driveCache[a].drive
    BY <1>4 DEF CacheInv, TypeOK
  <2>2. stale[<<a, driveCache[a].drive>>] + driveCache[a].left <= TTL + CallTimeout
    BY <2>1 DEF CacheInv, EntriesAge, Cached
  <2>3. /\ stale[<<a, driveCache[a].drive>>] \in 0 .. Never
        /\ stale'[<<a, driveCache[a].drive>>] \in 0 .. Never
        /\ stale'[<<a, driveCache[a].drive>>] <= stale[<<a, driveCache[a].drive>>] + 1
    BY <2>1, <1>2 DEF CacheInv, TypeOK
  <2> QED BY <2>1, <2>2, <2>3 DEF Never
<1>7. AnswersAge'
  <2> SUFFICES ASSUME NEW l \in Logins, at[l] = "answered"
               PROVE  stale'[<<AccountOf[l], drive[l]>>] <= waited'[l]
    BY <1>1 DEF AnswersAge
  <2>1. /\ <<AccountOf[l], drive[l]>> \in Accounts \X Drives
        /\ waited[l] \in Nat /\ waited'[l] = waited[l] + 1
    BY <1>1 DEF CacheInv, TypeOK, OnCall
  <2>2. stale[<<AccountOf[l], drive[l]>>] <= waited[l]
    BY DEF CacheInv, AnswersAge
  <2>3. /\ stale[<<AccountOf[l], drive[l]>>] \in 0 .. Never
        /\ stale'[<<AccountOf[l], drive[l]>>] \in 0 .. Never
        /\ stale'[<<AccountOf[l], drive[l]>>] <= stale[<<AccountOf[l], drive[l]>>] + 1
    BY <2>1, <1>2 DEF CacheInv, TypeOK
  <2> QED BY <2>1, <2>2, <2>3 DEF Never
<1>8. HistoryInv'
  BY <1>1 DEF HistoryInv, Aged
<1> QED BY <1>5, <1>6, <1>7, <1>8 DEF CacheInv

-----------------------------------------------------------------------------
LEMMA StepInv == CacheInv /\ HistoryInv /\ [Next]_cacheVars => CacheInv' /\ HistoryInv'
<1> SUFFICES ASSUME CacheInv, HistoryInv, [Next]_cacheVars
             PROVE  CacheInv' /\ HistoryInv'
  OBVIOUS
<1>1. ASSUME NEW l \in Logins, Resolution(l) \/ LogInAgain(l)
      PROVE  CacheInv' /\ HistoryInv'
  <2>1. HistoryInv'
    BY <1>1, SameHistory
    DEF Resolution, Hit, Miss, StoreResolution, GraphFails, GraphAnswers, LogInAgain
  <2>2. CacheInv'
    BY <1>1, HitStep, LocalStep, AnswerStep, StoreStep DEF Resolution
  <2> QED BY <2>1, <2>2
<1>2. CASE UNCHANGED cacheVars
  <2>1. HistoryInv'
    BY <1>2, SameHistory DEF cacheVars
  <2>2. CacheInv'
    BY <1>2 DEF cacheVars, loginVars, serverVars, CacheInv, TypeOK, EntriesAge, AnswersAge, Cached
  <2> QED BY <2>1, <2>2
<1> QED BY <1>1, <1>2, ChangeStep, TickStep DEF Next

\* The inductive invariant holds in every state: an entry that is still
\* served is no older than the TTL and one request (driver.go,
\* resolveDriveForAccount).
THEOREM CacheInvariant == Spec => []CacheInv
<1>1. CacheInv /\ HistoryInv /\ [Next]_cacheVars => (CacheInv /\ HistoryInv)'
  BY StepInv
<1>2. Init => CacheInv /\ HistoryInv
  BY InitInv
<1> QED BY <1>1, <1>2, PTL DEF Spec

\* A login is given a drive that was the account's target no longer ago than
\* the TTL and the time of one request (driver.go, "the TTL keeps deletions
\* and renames from going unnoticed").
LEMMA GivenDrive ==
  ASSUME CacheInv, [Next]_cacheVars, NEW l \in Logins,
         at'[l] = "resolved", at[l] # "resolved"
  PROVE  stale[<<AccountOf[l], drive'[l]>>] <= TTL + CallTimeout
<1>1. \/ Hit(l) \/ StoreResolution(l)
  <2>1. Next
    BY DEF cacheVars, loginVars
  <2>2. ~ServerChanges /\ ~Tick
    BY DEF ServerChanges, Tick, loginVars
  <2>3. PICK k \in Logins : Resolution(k) \/ LogInAgain(k)
    BY <2>1, <2>2 DEF Next
  <2>4. k = l
    BY <2>3 DEF Resolution, Hit, Miss, StoreResolution, GraphFails, GraphAnswers, LogInAgain, Step,
           CacheInv, TypeOK
  <2> QED
    BY <2>3, <2>4 DEF Resolution, Miss, GraphFails, GraphAnswers, LogInAgain, Step, CacheInv, TypeOK
<1>2. CASE Hit(l)
  <2> DEFINE a == AccountOf[l]
  <2>1. a \in DOMAIN driveCache /\ Cached(a) /\ drive'[l] = driveCache[a].drive
    BY <1>2 DEF Hit, Cached, CacheInv, TypeOK
  <2>2. stale[<<a, driveCache[a].drive>>] + driveCache[a].left <= TTL + CallTimeout
    BY <2>1 DEF CacheInv, EntriesAge
  <2>3. driveCache[a].left \in Nat /\ stale[<<a, driveCache[a].drive>>] \in 0 .. Never
    BY <2>1 DEF CacheInv, TypeOK, Cached
  <2> QED BY <2>1, <2>2, <2>3 DEF Never
<1>3. CASE StoreResolution(l)
  <2>1. /\ stale[<<AccountOf[l], drive[l]>>] <= waited[l]
        /\ waited[l] \in 0 .. CallTimeout
        /\ stale[<<AccountOf[l], drive[l]>>] \in 0 .. Never
        /\ drive'[l] = drive[l]
    BY <1>3 DEF StoreResolution, Step, CacheInv, AnswersAge, TypeOK
  <2> QED BY <2>1 DEF Never
<1> QED BY <1>1, <1>2, <1>3

\* The statement above for every step of every behaviour (driver.go,
\* resolveDriveForAccount).
THEOREM GivenDriveWasTarget == Spec => DriveWasTarget
<1>1. CacheInv /\ [Next]_cacheVars =>
        [\A l \in Logins :
           at'[l] = "resolved" /\ at[l] # "resolved" =>
             stale[<<AccountOf[l], drive'[l]>>] <= TTL + CallTimeout]_cacheVars
  BY GivenDrive
<1> QED BY <1>1, CacheInvariant, PTL DEF Spec, DriveWasTarget
=============================================================================
