----------------------------- MODULE AuthLockout -----------------------------
(***************************************************************************)
(* The lockout of addresses after failed logins: the AuthAttemptTracker of *)
(* pkg/ftp/driver.go, as AuthUser uses it.                                 *)
(*                                                                         *)
(* A login asks IsIPLockedOut, verifies the password, and calls            *)
(* RecordAuthAttempt.  Each call holds the tracker's lock, the time        *)
(* between them does not, and an address has many connections: whole       *)
(* logins of others run between the question and the record.               *)
(*                                                                         *)
(* Timestamps are kept relative to the clock: sinceFirst is now -          *)
(* firstFail, stopped where it exceeds the window, and left is lockoutEnd  *)
(* - now, stopped below zero.  The code compares nothing else.             *)
(***************************************************************************)
EXTENDS Integers, FiniteSets

CONSTANTS
  Conns, IPs, IpOf, \* connections and their addresses
  MaxAttempts,      \* rate_limiting.max_auth_attempts_per_ip
  Window,           \* auth_attempt_window, in ticks of the clock
  Lockout,          \* auth_lockout_duration
  AuthSlots         \* capacity of authSemaphore

\* A limit below one, which the configuration does not refuse, would lock an
\* address out by its first failure as a limit of one does.
ASSUME AuthAssumption ==
  /\ IsFiniteSet(Conns)
  /\ IpOf \in [Conns -> IPs]
  /\ MaxAttempts \in Nat \ {0}
  /\ Window \in Nat /\ Lockout \in Nat
  /\ AuthSlots \in Nat

VARIABLES
  ipAttempts, \* the tracker's map: address -> authAttemptInfo
  at          \* where the login of a connection is

authVars == <<ipAttempts, at>>

Info == [count : Nat, sinceFirst : 0 .. Window + 1, lockedOut : BOOLEAN, left : -1 .. Lockout]

Init ==
  /\ ipAttempts = [ip \in {} |-> 0]
  /\ at = [c \in Conns |-> "idle"]

Step(c, from, to) == at[c] = from /\ at' = [at EXCEPT ![c] = to]

Known(ip) == ip \in DOMAIN ipAttempts
Forget(gone) == ipAttempts' = [ip \in DOMAIN ipAttempts \ gone |-> ipAttempts[ip]]
Remember(ip, info) ==
  ipAttempts' = [i \in DOMAIN ipAttempts \cup {ip} |-> IF i = ip THEN info ELSE ipAttempts[i]]

-----------------------------------------------------------------------------
(* IsIPLockedOut *)

WindowOver(info) == info.sinceFirst > Window
Expired(info) == IF info.lockedOut THEN info.left <= 0 ELSE WindowOver(info)

\* "This shouldn't happen normally, but handle it."
AtLimit(info) == ~info.lockedOut /\ ~WindowOver(info) /\ info.count >= MaxAttempts

LockedOut(ip) ==
  /\ Known(ip)
  /\ \/ ipAttempts[ip].lockedOut /\ ipAttempts[ip].left > 0
     \/ AtLimit(ipAttempts[ip])

LoginRefused(c) ==
  LET ip == IpOf[c] IN
  /\ at[c] = "idle" /\ LockedOut(ip)
  /\ IF AtLimit(ipAttempts[ip])
     THEN Remember(ip, [ipAttempts[ip] EXCEPT !.lockedOut = TRUE, !.left = Lockout])
     ELSE UNCHANGED ipAttempts
  /\ UNCHANGED at

\* Mutant: an expired lockout is not evicted.
PassUnswept(c) ==
  /\ Step(c, "idle", "passed")
  /\ ~LockedOut(IpOf[c])
  /\ UNCHANGED ipAttempts

\* Not locked out: an entry that has expired is dropped.
LoginPasses(c) ==
  LET ip == IpOf[c] IN
  /\ Step(c, "idle", "passed")
  /\ ~LockedOut(ip)
  /\ IF Known(ip) /\ Expired(ipAttempts[ip]) THEN Forget({ip}) ELSE UNCHANGED ipAttempts

-----------------------------------------------------------------------------
(* The rest of AuthUser *)

Verifying == {c \in Conns : at[c] = "verifying"}

TakeToken(c) ==
  /\ Step(c, "passed", "verifying")
  /\ Cardinality(Verifying) < AuthSlots
  /\ UNCHANGED ipAttempts

\* Nothing is recorded of a login that max_connections refuses (any of them,
\* for all this module knows of other logins), that finds no token, or whose
\* drive cannot be resolved.
LoginEndsUnrecorded(c) ==
  /\ Step(c, "passed", "idle") \/ Step(c, "verifying", "idle")
  /\ UNCHANGED ipAttempts

NewInfo == [count |-> 0, sinceFirst |-> 0, lockedOut |-> FALSE, left |-> -1]

\* Mutant: one failure more before the lockout.
FailLate(info) ==
  LET n == info.count + 1 IN
  IF n > MaxAttempts /\ ~WindowOver(info)
  THEN [info EXCEPT !.count = n, !.lockedOut = TRUE, !.left = Lockout]
  ELSE [info EXCEPT !.count = n]

\* Mutant: a new window starts, and the lockout ends with the old one.
FailUnlocks(info) ==
  LET n == info.count + 1 IN
  IF n < MaxAttempts THEN [info EXCEPT !.count = n]
  ELSE IF ~WindowOver(info)
  THEN [info EXCEPT !.count = n, !.lockedOut = TRUE, !.left = Lockout]
  ELSE [NewInfo EXCEPT !.count = 1]

\* What a failure makes of an entry. The window that is over starts anew,
\* but a lockout stays as it is.
Fail(info) ==
  LET n == info.count + 1 IN
  IF n < MaxAttempts THEN [info EXCEPT !.count = n]
  ELSE IF ~WindowOver(info)
  THEN [info EXCEPT !.count = n, !.lockedOut = TRUE, !.left = Lockout]
  ELSE [info EXCEPT !.count = 1, !.sinceFirst = 0]

RecordFailure(c) ==
  LET ip == IpOf[c] IN
  /\ Step(c, "verifying", "idle")
  /\ Remember(ip, Fail(IF Known(ip) THEN ipAttempts[ip] ELSE NewInfo))

RecordSuccess(c) ==
  /\ Step(c, "verifying", "idle")
  /\ Forget({IpOf[c]})

-----------------------------------------------------------------------------
(* The janitor, and the clock *)

\* Mutant: the janitor looks at the lockouts only.
SweptLockouts(info) == info.lockedOut /\ info.left < 0

Swept(info) == IF info.lockedOut THEN info.left < 0 ELSE WindowOver(info)

Sweep ==
  /\ Forget({ip \in DOMAIN ipAttempts : Swept(ipAttempts[ip])})
  /\ UNCHANGED at

Tick ==
  /\ ipAttempts' = [ip \in DOMAIN ipAttempts |->
       LET info == ipAttempts[ip] IN
       [info EXCEPT !.sinceFirst = IF WindowOver(info) THEN @ ELSE @ + 1,
                    !.left = IF @ < 0 THEN @ ELSE @ - 1]]
  /\ UNCHANGED at

Login(c) ==
  \/ LoginRefused(c) \/ LoginPasses(c) \/ TakeToken(c) \/ LoginEndsUnrecorded(c)
  \/ RecordFailure(c) \/ RecordSuccess(c)

Next == (\E c \in Conns : Login(c)) \/ Sweep \/ Tick

Spec == Init /\ [][Next]_authVars

\* The clock goes on, and the ticker of the janitor keeps firing.
FairSpec == Spec /\ WF_authVars(Tick) /\ WF_authVars(Sweep)

-----------------------------------------------------------------------------
(* Properties *)

\* The type of the tracker's state.
TypeOK ==
  /\ DOMAIN ipAttempts \subseteq IPs
  /\ \A ip \in DOMAIN ipAttempts : ipAttempts[ip] \in Info
  /\ at \in [Conns -> {"idle", "passed", "verifying"}]

ConnsFrom(ip) == {c \in Conns : IpOf[c] = ip}
Underway(ip) == {c \in ConnsFrom(ip) : at[c] # "idle"}

\* However the logins of an address interleave, the passwords it gets to try
\* before the lockout stops it are max_auth_attempts_per_ip, and one for each
\* further connection whose login was under way when the last of them failed
\* (driver.go, AuthUser: the question and the record are two critical
\* sections).
BudgetHolds ==
  \A ip \in DOMAIN ipAttempts :
    ipAttempts[ip].lockedOut =>
      ipAttempts[ip].count + Cardinality(Underway(ip))
        <= MaxAttempts - 1 + Cardinality(ConnsFrom(ip))

\* RecordAuthAttempt never leaves an entry at the limit unlocked, the case
\* that IsIPLockedOut says "shouldn't happen normally": not even where the
\* window runs out between the question and the record.
LockedAtLimit ==
  \A ip \in DOMAIN ipAttempts :
    /\ ipAttempts[ip].count > 0
    /\ ipAttempts[ip].lockedOut \/ ipAttempts[ip].count < MaxAttempts

\* A lockout runs its whole time: a failure that comes late, the janitor, or
\* the end of the window never shorten it. Only a login of the same address
\* that was under way already can end it, by succeeding.
LockoutLasts ==
  [][\A ip \in DOMAIN ipAttempts :
       ipAttempts[ip].lockedOut /\ ipAttempts[ip].left > 0 =>
         \/ /\ ip \in DOMAIN ipAttempts'
            /\ ipAttempts'[ip].lockedOut
            /\ ipAttempts'[ip].left >= ipAttempts[ip].left - 1
         \/ ip \notin DOMAIN ipAttempts' /\ \E c \in Underway(ip) : at'[c] = "idle"]_authVars

\* An address that does not return leaves no entry behind (SEC-012).
EntriesExpire ==
  \A ip \in IPs : []<>(~Known(ip) \/ Underway(ip) # {})

\* The inductive invariant (driver.go, AuthAttemptTracker).
LockInv == TypeOK /\ LockedAtLimit /\ BudgetHolds
=============================================================================
