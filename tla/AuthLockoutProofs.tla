-------------------------- MODULE AuthLockoutProofs --------------------------
(* Theorems about AuthLockout, for any number of connections and addresses *)
(* and any limit, window and lockout.                                      *)
EXTENDS AuthLockout, FiniteSetTheorems, TLAPS

USE AuthAssumption

-----------------------------------------------------------------------------
(* Counting the logins that are under way *)

LEMMA UnderwayFinite ==
  ASSUME NEW ip
  PROVE  /\ IsFiniteSet(ConnsFrom(ip)) /\ IsFiniteSet(Underway(ip))
         /\ Cardinality(ConnsFrom(ip)) \in Nat /\ Cardinality(Underway(ip)) \in Nat
<1>1. ConnsFrom(ip) \subseteq Conns /\ Underway(ip) \subseteq ConnsFrom(ip)
  BY DEF ConnsFrom, Underway
<1>2. IsFiniteSet(ConnsFrom(ip))
  BY <1>1, FS_Subset
<1>3. IsFiniteSet(Underway(ip))
  BY <1>1, <1>2, FS_Subset
<1> QED BY <1>2, <1>3, FS_CardinalityType

\* A login that ends takes its connection out, and there is room for it.
LEMMA UnderwayShrinks ==
  ASSUME NEW c \in Conns, NEW ip, IpOf[c] = ip, at[c] # "idle",
         at' = [at EXCEPT ![c] = "idle"], at \in [Conns -> {"idle", "passed", "verifying"}]
  PROVE  /\ Cardinality(Underway(ip)') = Cardinality(Underway(ip)) - 1
         /\ Cardinality(Underway(ip)) <= Cardinality(ConnsFrom(ip))
<1>1. c \in Underway(ip)
  BY DEF Underway, ConnsFrom
<1>2. Underway(ip)' = Underway(ip) \ {c}
  BY DEF Underway, ConnsFrom
<1>3. Cardinality(Underway(ip) \ {c}) = Cardinality(Underway(ip)) - 1
  BY <1>1, UnderwayFinite, FS_RemoveElement
<1>4. Underway(ip) \subseteq ConnsFrom(ip)
  BY DEF Underway
<1>5. Cardinality(Underway(ip)) <= Cardinality(ConnsFrom(ip))
  BY <1>4, UnderwayFinite, FS_Subset
<1> QED BY <1>2, <1>3, <1>5

\* The logins of other addresses are not touched.
LEMMA UnderwayElsewhere ==
  ASSUME NEW c \in Conns, NEW ip, IpOf[c] # ip, NEW place,
         at' = [at EXCEPT ![c] = place], at \in [Conns -> {"idle", "passed", "verifying"}]
  PROVE  Underway(ip)' = Underway(ip)
BY DEF Underway, ConnsFrom

-----------------------------------------------------------------------------
(* What is said of one entry *)

Sound(info, underway, all) ==
  /\ info \in Info
  /\ info.count > 0
  /\ info.lockedOut \/ info.count < MaxAttempts
  /\ info.lockedOut => info.count + underway <= MaxAttempts - 1 + all

Entries ==
  \A ip \in DOMAIN ipAttempts :
    Sound(ipAttempts[ip], Cardinality(Underway(ip)), Cardinality(ConnsFrom(ip)))

LEMMA InvByEntries ==
  LockInv <=> /\ DOMAIN ipAttempts \subseteq IPs
              /\ at \in [Conns -> {"idle", "passed", "verifying"}]
              /\ Entries
BY DEF LockInv, TypeOK, LockedAtLimit, BudgetHolds, Entries, Sound

LEMMA InvByEntriesNext ==
  LockInv' <=> /\ DOMAIN ipAttempts' \subseteq IPs
               /\ at' \in [Conns -> {"idle", "passed", "verifying"}]
               /\ Entries'
BY DEF LockInv, TypeOK, LockedAtLimit, BudgetHolds, Entries, Sound

\* A failure takes one from the logins under way and adds one to the count at
\* most, and locks at the limit (driver.go, RecordAuthAttempt).
LEMMA FailIsSound ==
  ASSUME NEW u \in Nat, NEW m \in Nat, u > 0, u <= m, NEW info,
         Sound(info, u, m) \/ info = NewInfo
  PROVE  Sound(Fail(info), u - 1, m)
<1>0. /\ 0 \in 0 .. Window + 1 /\ -1 \in -1 .. Lockout /\ Lockout \in -1 .. Lockout
      /\ 0 \in Nat /\ 1 \in Nat
  OBVIOUS
<1>1. info \in Info
  <2>1. NewInfo \in Info
    BY <1>0 DEF NewInfo, Info
  <2> QED BY <2>1 DEF Sound
<1>2. /\ info.count \in Nat /\ info.sinceFirst \in 0 .. Window + 1
      /\ info.lockedOut \in BOOLEAN /\ info.left \in -1 .. Lockout
  BY <1>1 DEF Info
<1>3. /\ info.lockedOut => info.count > 0 /\ info.count + u <= MaxAttempts - 1 + m
      /\ info.lockedOut \/ info.count < MaxAttempts
  BY DEF Sound, NewInfo
<1>4. WindowOver(info) => info.count > 0
  BY DEF Sound, NewInfo, WindowOver
<1>5. CASE info.count + 1 < MaxAttempts
  <2>1. Fail(info) = [info EXCEPT !.count = info.count + 1]
    BY <1>5 DEF Fail
  <2>2. /\ Fail(info) \in Info /\ Fail(info).count = info.count + 1
        /\ Fail(info).lockedOut = info.lockedOut
    BY <2>1, <1>1, <1>2 DEF Info
  <2> QED BY <1>2, <1>3, <1>5, <2>2 DEF Sound
<1>6. CASE info.count + 1 >= MaxAttempts /\ ~WindowOver(info)
  <2>1. Fail(info) = [info EXCEPT !.count = info.count + 1, !.lockedOut = TRUE, !.left = Lockout]
    BY <1>2, <1>6 DEF Fail
  <2>a. Fail(info) = [count |-> info.count + 1, sinceFirst |-> info.sinceFirst,
                      lockedOut |-> TRUE, left |-> Lockout]
    BY <2>1, <1>1 DEF Info
  <2>b. info.count + 1 \in Nat
    BY <1>2
  <2>2. /\ Fail(info) \in Info /\ Fail(info).count = info.count + 1
        /\ Fail(info).lockedOut = TRUE
    BY <2>a, <2>b, <1>0, <1>2 DEF Info
  <2>3. info.count + 1 + (u - 1) <= MaxAttempts - 1 + m
    BY <1>2, <1>3
  <2> QED BY <1>2, <2>2, <2>3 DEF Sound
<1>7. CASE info.count + 1 >= MaxAttempts /\ WindowOver(info)
  <2>1. Fail(info) = [info EXCEPT !.count = 1, !.sinceFirst = 0]
    BY <1>2, <1>7 DEF Fail
  <2>2. /\ Fail(info) \in Info /\ Fail(info).count = 1
        /\ Fail(info).lockedOut = info.lockedOut
    BY <2>1, <1>0, <1>1, <1>2 DEF Info
  <2>3. info.count > 0
    BY <1>4, <1>7
  <2>4. info.lockedOut \/ 1 < MaxAttempts
    BY <1>2, <1>3, <1>7, <2>3
  <2>5. info.lockedOut => 1 + (u - 1) <= MaxAttempts - 1 + m
    BY <1>2, <1>3, <2>3
  <2> QED BY <2>2, <2>4, <2>5 DEF Sound
<1> QED BY <1>2, <1>5, <1>6, <1>7

-----------------------------------------------------------------------------
(* One lemma per kind of step *)

\* A login that is refused, or goes on, changes no entry but an expired one.
LEMMA BeginStep ==
  ASSUME LockInv, NEW c \in Conns, LoginRefused(c) \/ LoginPasses(c)
  PROVE  LockInv'
<1> DEFINE ip == IpOf[c]
<1>1. /\ DOMAIN ipAttempts \subseteq IPs
      /\ at \in [Conns -> {"idle", "passed", "verifying"}]
      /\ Entries
  BY InvByEntries
<1>2. Known(ip) => ~AtLimit(ipAttempts[ip])
  BY <1>1 DEF Known, AtLimit, Entries, Sound, Info
<1>3. CASE LoginRefused(c)
  <2>1. UNCHANGED <<ipAttempts, at>>
    BY <1>2, <1>3 DEF LoginRefused, LockedOut
  <2> QED BY <2>1 DEF LockInv, TypeOK, LockedAtLimit, BudgetHolds, Underway
<1>4. CASE LoginPasses(c)
  <2>1. at' = [at EXCEPT ![c] = "passed"]
    BY <1>4 DEF LoginPasses, Step
  <2>2. /\ DOMAIN ipAttempts' \subseteq DOMAIN ipAttempts
        /\ \A i \in DOMAIN ipAttempts' : ipAttempts'[i] = ipAttempts[i]
        /\ Known(ip)' => ~ipAttempts[ip].lockedOut
    <3>1. Known(ip) /\ ipAttempts[ip].lockedOut => Expired(ipAttempts[ip])
      BY <1>1, <1>4 DEF LoginPasses, LockedOut, Expired, Known, Entries, Sound, Info
    <3> QED BY <1>4, <3>1 DEF LoginPasses, Forget, Known
  <2>3. ASSUME NEW i \in DOMAIN ipAttempts'
        PROVE  Sound(ipAttempts[i], Cardinality(Underway(i)'), Cardinality(ConnsFrom(i)))
    <3>1. CASE i = ip
      BY <1>1, <2>2, <2>3, <3>1 DEF Entries, Sound, Known
    <3>2. CASE i # ip
      BY <1>1, <2>1, <2>2, <2>3, <3>2, UnderwayElsewhere DEF Entries
    <3> QED BY <3>1, <3>2
  <2>4. Entries'
    BY <2>2, <2>3 DEF Entries, ConnsFrom
  <2>5. at' \in [Conns -> {"idle", "passed", "verifying"}]
    BY <1>1, <2>1
  <2> QED BY <1>1, <2>2, <2>4, <2>5, InvByEntriesNext
<1> QED BY <1>3, <1>4

\* Going on to the verification changes nothing that is counted.
LEMMA TokenStep ==
  ASSUME LockInv, NEW c \in Conns, TakeToken(c)
  PROVE  LockInv'
<1>1. at[c] = "passed" /\ at' = [at EXCEPT ![c] = "verifying"] /\ ipAttempts' = ipAttempts
  BY DEF TakeToken, Step
<1>2. at \in [Conns -> {"idle", "passed", "verifying"}]
  BY DEF LockInv, TypeOK
<1>3. \A ip : Underway(ip)' = Underway(ip)
  BY <1>1, <1>2 DEF Underway, ConnsFrom
<1> QED BY <1>1, <1>2, <1>3 DEF LockInv, TypeOK, LockedAtLimit, BudgetHolds, ConnsFrom

\* A login that ends without a failure adds to no count.
LEMMA EndStep ==
  ASSUME LockInv, NEW c \in Conns, LoginEndsUnrecorded(c) \/ RecordSuccess(c)
  PROVE  LockInv'
<1>1. /\ DOMAIN ipAttempts \subseteq IPs
      /\ at \in [Conns -> {"idle", "passed", "verifying"}]
      /\ Entries
  BY InvByEntries
<1>2. /\ at[c] # "idle" /\ at' = [at EXCEPT ![c] = "idle"]
      /\ DOMAIN ipAttempts' \subseteq DOMAIN ipAttempts
      /\ \A i \in DOMAIN ipAttempts' : ipAttempts'[i] = ipAttempts[i]
  BY DEF LoginEndsUnrecorded, RecordSuccess, Step, Forget
<1>3. ASSUME NEW i \in DOMAIN ipAttempts'
      PROVE  Sound(ipAttempts[i], Cardinality(Underway(i)'), Cardinality(ConnsFrom(i)))
  <2>1. Sound(ipAttempts[i], Cardinality(Underway(i)), Cardinality(ConnsFrom(i)))
    BY <1>1, <1>2 DEF Entries
  <2>2. Cardinality(Underway(i)') <= Cardinality(Underway(i)) /\ Cardinality(Underway(i)') \in Int
    <3>1. CASE i = IpOf[c]
      <4>1. Cardinality(Underway(i)') = Cardinality(Underway(i)) - 1
        BY <1>1, <1>2, <3>1, UnderwayShrinks
      <4>2. Cardinality(Underway(i)) \in Nat
        BY UnderwayFinite
      <4> QED BY <4>1, <4>2
    <3>2. CASE i # IpOf[c]
      <4>1. Underway(i)' = Underway(i)
        BY <1>1, <1>2, <3>2, UnderwayElsewhere
      <4>2. Cardinality(Underway(i)) \in Nat
        BY UnderwayFinite
      <4> QED BY <4>1, <4>2
    <3> QED BY <3>1, <3>2
  <2> QED BY <2>1, <2>2, UnderwayFinite DEF Sound, Info
<1>4. Entries'
  BY <1>2, <1>3 DEF Entries, ConnsFrom
<1>5. at' \in [Conns -> {"idle", "passed", "verifying"}]
  BY <1>1, <1>2
<1> QED BY <1>1, <1>2, <1>4, <1>5, InvByEntriesNext

\* A failure counts once, and its login is over.
LEMMA FailureStep ==
  ASSUME LockInv, NEW c \in Conns, RecordFailure(c)
  PROVE  LockInv'
<1> DEFINE ip == IpOf[c]
           old == IF Known(ip) THEN ipAttempts[ip] ELSE NewInfo
<1>1. /\ DOMAIN ipAttempts \subseteq IPs
      /\ at \in [Conns -> {"idle", "passed", "verifying"}]
      /\ Entries
  BY InvByEntries
<1>2. /\ at[c] # "idle" /\ at' = [at EXCEPT ![c] = "idle"]
      /\ DOMAIN ipAttempts' = DOMAIN ipAttempts \cup {ip}
      /\ ipAttempts'[ip] = Fail(old)
      /\ \A i \in DOMAIN ipAttempts \ {ip} : ipAttempts'[i] = ipAttempts[i]
  BY DEF RecordFailure, Step, Remember
<1>3. ip \in IPs
  OBVIOUS
<1>4. Sound(Fail(old), Cardinality(Underway(ip)'), Cardinality(ConnsFrom(ip)))
  <2>1. /\ Cardinality(Underway(ip)') = Cardinality(Underway(ip)) - 1
        /\ Cardinality(Underway(ip)) <= Cardinality(ConnsFrom(ip))
    BY <1>1, <1>2, UnderwayShrinks
  <2>2. Cardinality(Underway(ip)) > 0
    <3>1. c \in Underway(ip)
      BY <1>2 DEF Underway, ConnsFrom
    <3>2. Cardinality(Underway(ip)) # 0
      BY <3>1, UnderwayFinite, FS_EmptySet
    <3> QED BY <3>2, UnderwayFinite
  <2>3. Sound(old, Cardinality(Underway(ip)), Cardinality(ConnsFrom(ip))) \/ old = NewInfo
    BY <1>1 DEF Entries, Known
  <2>4. Cardinality(Underway(ip)) \in Nat /\ Cardinality(ConnsFrom(ip)) \in Nat
    BY UnderwayFinite
  <2> HIDE DEF ip, old
  <2> QED BY <2>1, <2>2, <2>3, <2>4, FailIsSound
<1>5. ASSUME NEW i \in DOMAIN ipAttempts \ {ip}
      PROVE  Sound(ipAttempts[i], Cardinality(Underway(i)'), Cardinality(ConnsFrom(i)))
  BY <1>1, <1>2, UnderwayElsewhere DEF Entries
<1> HIDE DEF ip, old
<1>6. Entries'
  BY <1>2, <1>4, <1>5 DEF Entries, ConnsFrom
<1>7. at' \in [Conns -> {"idle", "passed", "verifying"}]
  BY <1>1, <1>2
<1> QED BY <1>1, <1>2, <1>3, <1>6, <1>7, InvByEntriesNext

\* The janitor drops entries, and the clock changes neither counts nor locks.
LEMMA ClockStep ==
  ASSUME LockInv, Sweep \/ Tick
  PROVE  LockInv'
<1>1. at' = at
  BY DEF Sweep, Tick
<1>2. /\ DOMAIN ipAttempts' \subseteq DOMAIN ipAttempts
      /\ \A i \in DOMAIN ipAttempts' :
           /\ ipAttempts'[i] \in Info
           /\ ipAttempts'[i].count = ipAttempts[i].count
           /\ ipAttempts'[i].lockedOut = ipAttempts[i].lockedOut
  <2>1. CASE Sweep
    BY <2>1 DEF Sweep, Forget, LockInv, TypeOK
  <2>2. CASE Tick
    <3>1. DOMAIN ipAttempts' = DOMAIN ipAttempts
      BY <2>2 DEF Tick
    <3>2. ASSUME NEW i \in DOMAIN ipAttempts
          PROVE  \E s \in 0 .. Window + 1, l \in -1 .. Lockout :
                   ipAttempts'[i] = [ipAttempts[i] EXCEPT !.sinceFirst = s, !.left = l]
      <4>1. /\ ipAttempts[i] \in Info
            /\ ipAttempts[i].sinceFirst \in 0 .. Window + 1
            /\ ipAttempts[i].left \in -1 .. Lockout
        BY DEF LockInv, TypeOK, Info
      <4> DEFINE s == IF WindowOver(ipAttempts[i]) THEN ipAttempts[i].sinceFirst
                                                   ELSE ipAttempts[i].sinceFirst + 1
                 l == IF ipAttempts[i].left < 0 THEN ipAttempts[i].left ELSE ipAttempts[i].left - 1
      <4>2. s \in 0 .. Window + 1 /\ l \in -1 .. Lockout
        BY <4>1 DEF WindowOver
      <4>3. ipAttempts'[i] = [ipAttempts[i] EXCEPT !.sinceFirst = s, !.left = l]
        BY <2>2, <4>1 DEF Tick, Info
      <4> QED BY <4>2, <4>3
    <3>3. \A i \in DOMAIN ipAttempts : ipAttempts[i] \in Info
      BY DEF LockInv, TypeOK
    <3>4. ASSUME NEW i \in DOMAIN ipAttempts
          PROVE  /\ ipAttempts'[i] \in Info
                 /\ ipAttempts'[i].count = ipAttempts[i].count
                 /\ ipAttempts'[i].lockedOut = ipAttempts[i].lockedOut
      <4>1. PICK s \in 0 .. Window + 1, l \in -1 .. Lockout :
              ipAttempts'[i] = [ipAttempts[i] EXCEPT !.sinceFirst = s, !.left = l]
        BY <3>2
      <4> QED BY <3>3, <4>1 DEF Info
    <3> QED BY <3>1, <3>4
  <2> QED BY <2>1, <2>2
<1>3. \A i : Underway(i)' = Underway(i)
  BY <1>1 DEF Underway
<1>4. TypeOK'
  BY <1>1, <1>2 DEF LockInv, TypeOK
<1>5. LockedAtLimit'
  BY <1>2 DEF LockInv, LockedAtLimit
<1>6. BudgetHolds'
  BY <1>2, <1>3 DEF LockInv, BudgetHolds, ConnsFrom
<1> QED BY <1>4, <1>5, <1>6 DEF LockInv

-----------------------------------------------------------------------------
LEMMA StepInv == LockInv /\ [Next]_authVars => LockInv'
<1> SUFFICES ASSUME LockInv, [Next]_authVars PROVE LockInv'
  OBVIOUS
<1>1. ASSUME NEW c \in Conns, Login(c) PROVE LockInv'
  BY <1>1, BeginStep, TokenStep, EndStep, FailureStep DEF Login
<1>2. CASE UNCHANGED authVars
  BY <1>2 DEF authVars, LockInv, TypeOK, LockedAtLimit, BudgetHolds, Underway, ConnsFrom
<1> QED BY <1>1, <1>2, ClockStep DEF Next

\* The inductive invariant of the lockout holds in every state (driver.go,
\* AuthAttemptTracker).
THEOREM LockInvariant == Spec => []LockInv
<1>1. Init => LockInv
  BY DEF Init, LockInv, TypeOK, LockedAtLimit, BudgetHolds
<1> QED BY <1>1, StepInv, PTL DEF Spec

\* The passwords an address gets to try before it is locked out exceed the
\* limit by its other connections at most (driver.go, AuthUser).
THEOREM BudgetAlwaysHolds == Spec => []BudgetHolds
<1>1. LockInv => BudgetHolds
  BY DEF LockInv
<1> QED BY <1>1, LockInvariant, PTL

\* No address is at the limit without a lockout (driver.go, IsIPLockedOut).
THEOREM LimitAlwaysLocks == Spec => []LockedAtLimit
<1>1. LockInv => LockedAtLimit
  BY DEF LockInv
<1> QED BY <1>1, LockInvariant, PTL

-----------------------------------------------------------------------------
\* What may happen to a lockout in a step.
StillLocked(ip) ==
  /\ ip \in DOMAIN ipAttempts'
  /\ ipAttempts'[ip].lockedOut
  /\ ipAttempts'[ip].left >= ipAttempts[ip].left - 1

LoggedIn(ip) == ip \notin DOMAIN ipAttempts' /\ \E c \in Underway(ip) : at'[c] = "idle"

\* A failure keeps a lockout or starts it anew.
LEMMA FailKeepsLock ==
  ASSUME NEW info \in Info, info.lockedOut
  PROVE  /\ Fail(info).lockedOut
         /\ Fail(info).left \in Int /\ Fail(info).left >= info.left
<1>1. info.left \in -1 .. Lockout /\ info.lockedOut = TRUE
  BY DEF Info
<1>2. Fail(info) \in {[info EXCEPT !.count = info.count + 1],
                      [info EXCEPT !.count = info.count + 1, !.lockedOut = TRUE, !.left = Lockout],
                      [info EXCEPT !.count = 1, !.sinceFirst = 0]}
  BY DEF Fail
<1>3. Fail(info).lockedOut /\ Fail(info).left \in {info.left, Lockout}
  BY <1>1, <1>2 DEF Info
<1> QED BY <1>1, <1>3

LEMMA LockoutStep ==
  ASSUME LockInv, [Next]_authVars, NEW ip \in DOMAIN ipAttempts,
         ipAttempts[ip].lockedOut, ipAttempts[ip].left > 0
  PROVE  StillLocked(ip) \/ LoggedIn(ip)
<1>1. /\ ipAttempts[ip] \in Info
      /\ ipAttempts[ip].left \in -1 .. Lockout
      /\ at \in [Conns -> {"idle", "passed", "verifying"}]
  BY DEF LockInv, TypeOK, Info
<1>2. ASSUME ip \in DOMAIN ipAttempts', ipAttempts'[ip] = ipAttempts[ip]
      PROVE  StillLocked(ip)
  BY <1>1, <1>2 DEF StillLocked
<1>3. ASSUME NEW c \in Conns, Login(c)
      PROVE  StillLocked(ip) \/ LoggedIn(ip)
  <2>1. CASE LoginRefused(c)
    <3>1. CASE IpOf[c] = ip
      BY <2>1, <3>1, <1>2 DEF LoginRefused, AtLimit
    <3>2. CASE IpOf[c] # ip
      BY <2>1, <3>2, <1>2 DEF LoginRefused, Remember
    <3> QED BY <3>1, <3>2
  <2>2. CASE LoginPasses(c)
    <3>1. IpOf[c] # ip
      BY <2>2 DEF LoginPasses, LockedOut, Known
    <3> QED BY <2>2, <3>1, <1>2 DEF LoginPasses, Forget
  <2>3. CASE TakeToken(c) \/ LoginEndsUnrecorded(c)
    BY <2>3, <1>2 DEF TakeToken, LoginEndsUnrecorded
  <2>4. CASE RecordFailure(c)
    <3>1. CASE IpOf[c] = ip
      <4>1. ip \in DOMAIN ipAttempts' /\ ipAttempts'[ip] = Fail(ipAttempts[ip])
        BY <2>4, <3>1 DEF RecordFailure, Remember, Known
      <4>2. /\ Fail(ipAttempts[ip]).lockedOut
            /\ Fail(ipAttempts[ip]).left \in Int
            /\ Fail(ipAttempts[ip]).left >= ipAttempts[ip].left
        BY <1>1, FailKeepsLock
      <4> QED BY <4>1, <4>2, <1>1 DEF StillLocked
    <3>2. CASE IpOf[c] # ip
      BY <2>4, <3>2, <1>2 DEF RecordFailure, Remember
    <3> QED BY <3>1, <3>2
  <2>5. CASE RecordSuccess(c)
    <3>1. CASE IpOf[c] = ip
      BY <2>5, <3>1, <1>1 DEF RecordSuccess, Forget, Step, LoggedIn, Underway, ConnsFrom
    <3>2. CASE IpOf[c] # ip
      BY <2>5, <3>2, <1>2 DEF RecordSuccess, Forget
    <3> QED BY <3>1, <3>2
  <2> QED BY <1>3, <2>1, <2>2, <2>3, <2>4, <2>5 DEF Login
<1>4. CASE Sweep
  <2>1. ~Swept(ipAttempts[ip])
    BY <1>1 DEF Swept
  <2> QED BY <1>2, <1>4, <2>1 DEF Sweep, Forget
<1>5. CASE Tick
  <2>1. /\ ip \in DOMAIN ipAttempts'
        /\ ipAttempts'[ip].lockedOut
        /\ ipAttempts'[ip].left = ipAttempts[ip].left - 1
    <3> DEFINE n == IF WindowOver(ipAttempts[ip]) THEN ipAttempts[ip].sinceFirst
                                                  ELSE ipAttempts[ip].sinceFirst + 1
               l == IF ipAttempts[ip].left < 0 THEN ipAttempts[ip].left
                                               ELSE ipAttempts[ip].left - 1
    <3>1. /\ ip \in DOMAIN ipAttempts'
          /\ ipAttempts'[ip] = [ipAttempts[ip] EXCEPT !.sinceFirst = n, !.left = l]
      BY <1>1, <1>5 DEF Tick, Info
    <3>2. l = ipAttempts[ip].left - 1
      BY <1>1
    <3> HIDE DEF n, l
    <3> QED BY <3>1, <3>2, <1>1 DEF Info
  <2> QED BY <2>1, <1>1 DEF StillLocked
<1>6. CASE UNCHANGED authVars
  BY <1>2, <1>6 DEF authVars
<1> QED BY <1>3, <1>4, <1>5, <1>6 DEF Next

\* Only the clock, and a login of the address that was under way already,
\* end a lockout (driver.go, RecordAuthAttempt and sweep).
THEOREM LockoutsLast == Spec => LockoutLasts
<1>1. LockInv /\ [Next]_authVars =>
        [\A ip \in DOMAIN ipAttempts :
           ipAttempts[ip].lockedOut /\ ipAttempts[ip].left > 0 =>
             \/ /\ ip \in DOMAIN ipAttempts'
                /\ ipAttempts'[ip].lockedOut
                /\ ipAttempts'[ip].left >= ipAttempts[ip].left - 1
             \/ ip \notin DOMAIN ipAttempts' /\ \E c \in Underway(ip) : at'[c] = "idle"]_authVars
  BY LockoutStep DEF StillLocked, LoggedIn
<1> QED BY <1>1, LockInvariant, PTL DEF Spec, LockoutLasts
=============================================================================
