----------------------------- MODULE Connections -----------------------------
(***************************************************************************)
(* Admission of FTP connections and the life of their sessions: the        *)
(* ConnectionTracker, ClientConnected, AuthUser and ClientDisconnected of  *)
(* pkg/ftp/driver.go.                                                      *)
(*                                                                         *)
(* ftpserverlib runs every connection in a goroutine of its own.  It calls *)
(* ClientConnected first, AuthUser for each login, and ClientDisconnected  *)
(* at the end, also when ClientConnected refused the connection.  The      *)
(* methods take three different locks (the tracker's, the driver's and an  *)
(* atomic counter), so other connections run between their parts.          *)
(***************************************************************************)
EXTENDS Integers, FiniteSets

CONSTANTS
  Conns,          \* connections, by ftpserverlib's client id
  IPs, IpOf,      \* their addresses
  Tracked,        \* rate_limiting.track_failed_attempts: is there a tracker
  MaxPerIP,       \* its limits; 0 is no limit
  MaxGlobal,
  MaxConnections, \* server.max_connections; 0 is no limit
  AuthSlots,      \* capacity of authSemaphore
  MaxLogins       \* logins of one connection (a bound of the model)

ASSUME ConnectionsAssumption ==
  /\ IsFiniteSet(Conns)
  /\ IpOf \in [Conns -> IPs]
  /\ Tracked \in BOOLEAN
  /\ MaxPerIP \in Nat /\ MaxGlobal \in Nat /\ MaxConnections \in Nat
  /\ AuthSlots \in Nat /\ MaxLogins \in Nat

VARIABLES
  at,                 \* where the goroutine of a connection is
  ipConnections,      \* ConnectionTracker: address -> count
  globalCount,
  allowedConnections, \* keys of BridgeDriver.allowedConnections
  wasAllowed,         \* ClientDisconnected's local of that name
  activeConnections,  \* the counter that max_connections is compared with
  asking,             \* connections whose AuthUser is past the shutdown check
  cleared,            \* those that are past the limit of connections as well
  verifying,          \* connections that hold a token of authSemaphore
  clients,            \* BridgeDriver.clients: connection -> session
  sessions,           \* number of sessions a connection ever had
  live,               \* sessions whose context is not done
  shutdown

trackerVars == <<ipConnections, globalCount>>
loginVars == <<asking, cleared>>
sessionVars == <<loginVars, verifying, clients, sessions, live, shutdown>>
connVars == <<at, trackerVars, allowedConnections, wasAllowed, activeConnections, sessionVars>>

Places == {"new", "admitted", "marked", "open", "refused", "closing", "released", "gone"}

Init ==
  /\ at = [c \in Conns |-> "new"]
  /\ ipConnections = [i \in {} |-> 0]
  /\ globalCount = 0
  /\ allowedConnections = {}
  /\ wasAllowed = {}
  /\ activeConnections = 0
  /\ asking = {}
  /\ cleared = {}
  /\ verifying = {}
  /\ clients = [c \in {} |-> 0]
  /\ sessions = [c \in Conns |-> 0]
  /\ live = {}
  /\ shutdown = FALSE

Step(c, from, to) == at[c] = from /\ at' = [at EXCEPT ![c] = to]

-----------------------------------------------------------------------------
(* The tracker, one critical section each *)

Count(ip) == IF ip \in DOMAIN ipConnections THEN ipConnections[ip] ELSE 0

\* Mutant: one connection more than the limits.
AllowOneMore(ip) ==
  /\ MaxGlobal > 0 => globalCount <= MaxGlobal
  /\ MaxPerIP > 0 => Count(ip) <= MaxPerIP

AllowConnection(ip) ==
  /\ MaxGlobal > 0 => globalCount < MaxGlobal
  /\ MaxPerIP > 0 => Count(ip) < MaxPerIP

TakeConnection(ip) ==
  /\ ipConnections' = [i \in DOMAIN ipConnections \cup {ip} |->
                         IF i = ip THEN Count(ip) + 1 ELSE ipConnections[i]]
  /\ globalCount' = globalCount + 1

\* An address with no connection left is evicted from the map.
ReleaseConnection(ip) ==
  /\ ipConnections' =
       IF Count(ip) = 1
       THEN [i \in DOMAIN ipConnections \ {ip} |-> ipConnections[i]]
       ELSE [i \in DOMAIN ipConnections |->
               IF i = ip /\ Count(ip) > 0 THEN Count(ip) - 1 ELSE ipConnections[i]]
  /\ globalCount' = IF globalCount > 0 THEN globalCount - 1 ELSE 0

\* The janitor's defensive eviction.
Sweep ==
  /\ Tracked /\ ~shutdown
  /\ ipConnections' = [i \in {j \in DOMAIN ipConnections : ipConnections[j] > 0} |->
                         ipConnections[i]]
  /\ UNCHANGED <<at, globalCount, allowedConnections, wasAllowed, activeConnections, sessionVars>>

-----------------------------------------------------------------------------
(* ClientConnected *)

Admit(c) ==
  /\ Step(c, "new", "admitted")
  /\ IF Tracked THEN AllowConnection(IpOf[c]) /\ TakeConnection(IpOf[c])
                ELSE UNCHANGED trackerVars
  /\ UNCHANGED <<allowedConnections, wasAllowed, activeConnections, sessionVars>>

RefuseConnection(c) ==
  /\ Step(c, "new", "refused")
  /\ Tracked /\ ~AllowConnection(IpOf[c])
  /\ UNCHANGED <<trackerVars, allowedConnections, wasAllowed, activeConnections, sessionVars>>

MarkAllowed(c) ==
  /\ Step(c, "admitted", "marked")
  /\ allowedConnections' = allowedConnections \cup {c}
  /\ UNCHANGED <<trackerVars, wasAllowed, activeConnections, sessionVars>>

CountActive(c) ==
  /\ Step(c, "marked", "open")
  /\ activeConnections' = activeConnections + 1
  /\ UNCHANGED <<trackerVars, allowedConnections, wasAllowed, sessionVars>>

-----------------------------------------------------------------------------
(* AuthUser: is the driver shutting down, is the address locked out (the     *)
(* AuthLockout module), is there a place, is there a token.  Each question   *)
(* is one of its own.                                                        *)

LoggingIn == asking \cup cleared \cup verifying

EnterLogin(c) ==
  /\ at[c] = "open" /\ c \notin LoggingIn
  /\ ~shutdown
  /\ asking' = asking \cup {c}
  /\ UNCHANGED <<at, trackerVars, allowedConnections, wasAllowed, activeConnections,
                 cleared, verifying, clients, sessions, live, shutdown>>

\* Mutant: off by one.
AtMostLimit == MaxConnections > 0 => activeConnections <= MaxConnections

BelowLimit == MaxConnections > 0 => activeConnections < MaxConnections

PassLimit(c) ==
  /\ c \in asking
  /\ BelowLimit
  /\ asking' = asking \ {c}
  /\ cleared' = cleared \cup {c}
  /\ UNCHANGED <<at, trackerVars, allowedConnections, wasAllowed, activeConnections,
                 verifying, clients, sessions, live, shutdown>>

\* The address is locked out, the limit is reached, or no token is left.
RefuseLogin(c) ==
  /\ c \in asking \/ (c \in cleared /\ Cardinality(verifying) >= AuthSlots)
  /\ asking' = asking \ {c}
  /\ cleared' = cleared \ {c}
  /\ UNCHANGED <<at, trackerVars, allowedConnections, wasAllowed, activeConnections,
                 verifying, clients, sessions, live, shutdown>>

\* The token is taken without waiting.
StartVerifying(c) ==
  /\ c \in cleared
  /\ Cardinality(verifying) < AuthSlots
  /\ cleared' = cleared \ {c}
  /\ verifying' = verifying \cup {c}
  /\ UNCHANGED <<at, trackerVars, allowedConnections, wasAllowed, activeConnections,
                 asking, clients, sessions, live, shutdown>>

AuthFails(c) ==
  /\ c \in verifying
  /\ verifying' = verifying \ {c}
  /\ UNCHANGED <<at, trackerVars, allowedConnections, wasAllowed, activeConnections,
                 loginVars, clients, sessions, live, shutdown>>

\* Mutant: the session context derives from no other.
RegisterDetached(c) ==
  /\ c \in verifying /\ sessions[c] < MaxLogins
  /\ verifying' = verifying \ {c}
  /\ sessions' = [sessions EXCEPT ![c] = @ + 1]
  /\ clients' = [d \in DOMAIN clients \cup {c} |->
                   IF d = c THEN sessions[c] + 1 ELSE clients[d]]
  /\ live' = live \cup {<<c, sessions[c] + 1>>}
  /\ UNCHANGED <<at, trackerVars, allowedConnections, wasAllowed, activeConnections,
                 loginVars, shutdown>>

\* Mutant: the connection is counted a second time (SEC-004).
RegisterCountsAgain(c) ==
  /\ c \in verifying /\ sessions[c] < MaxLogins
  /\ verifying' = verifying \ {c}
  /\ sessions' = [sessions EXCEPT ![c] = @ + 1]
  /\ clients' = [d \in DOMAIN clients \cup {c} |->
                   IF d = c THEN sessions[c] + 1 ELSE clients[d]]
  /\ live' = IF shutdown THEN live ELSE live \cup {<<c, sessions[c] + 1>>}
  /\ activeConnections' = activeConnections + 1
  /\ UNCHANGED <<at, trackerVars, allowedConnections, wasAllowed, loginVars, shutdown>>

\* The session context derives from the driver's, and the session takes the
\* place of any earlier one of the connection in clients.
Register(c) ==
  /\ c \in verifying /\ sessions[c] < MaxLogins
  /\ verifying' = verifying \ {c}
  /\ sessions' = [sessions EXCEPT ![c] = @ + 1]
  /\ clients' = [d \in DOMAIN clients \cup {c} |->
                   IF d = c THEN sessions[c] + 1 ELSE clients[d]]
  /\ live' = IF shutdown THEN live ELSE live \cup {<<c, sessions[c] + 1>>}
  /\ UNCHANGED <<at, trackerVars, allowedConnections, wasAllowed, activeConnections,
                 loginVars, shutdown>>

-----------------------------------------------------------------------------
(* ClientDisconnected, Shutdown *)

\* Mutant: the session leaves the map and is not cancelled.
UnregisterKeepsContext(c) ==
  /\ c \notin LoggingIn
  /\ at[c] \in {"open", "refused"}
  /\ at' = [at EXCEPT ![c] = "closing"]
  /\ clients' = [d \in DOMAIN clients \ {c} |-> clients[d]]
  /\ wasAllowed' = wasAllowed \cup (allowedConnections \cap {c})
  /\ allowedConnections' = allowedConnections \ {c}
  /\ UNCHANGED <<trackerVars, activeConnections, loginVars, verifying, sessions, live, shutdown>>

\* The section under the driver's lock, and the cancel that follows it.
Unregister(c) ==
  /\ c \notin LoggingIn
  /\ at[c] \in {"open", "refused"}
  /\ at' = [at EXCEPT ![c] = "closing"]
  /\ clients' = [d \in DOMAIN clients \ {c} |-> clients[d]]
  /\ live' = IF c \in DOMAIN clients THEN live \ {<<c, clients[c]>>} ELSE live
  /\ wasAllowed' = wasAllowed \cup (allowedConnections \cap {c})
  /\ allowedConnections' = allowedConnections \ {c}
  /\ UNCHANGED <<trackerVars, activeConnections, loginVars, verifying, sessions, shutdown>>

\* Mutant: a connection that was refused is released as well.
ReleaseAnyway(c) ==
  /\ Step(c, "closing", "released")
  /\ IF Tracked THEN ReleaseConnection(IpOf[c]) ELSE UNCHANGED trackerVars
  /\ UNCHANGED <<allowedConnections, wasAllowed, activeConnections, sessionVars>>

ReleaseIfAllowed(c) ==
  /\ Step(c, "closing", "released")
  /\ IF Tracked /\ c \in wasAllowed THEN ReleaseConnection(IpOf[c])
                                    ELSE UNCHANGED trackerVars
  /\ UNCHANGED <<allowedConnections, wasAllowed, activeConnections, sessionVars>>

\* Not conditional on wasAllowed.
DiscountActive(c) ==
  /\ Step(c, "released", "gone")
  /\ activeConnections' = activeConnections - 1
  /\ UNCHANGED <<trackerVars, allowedConnections, wasAllowed, sessionVars>>

\* Cancelling the driver's context cancels every session.
Shutdown ==
  /\ ~shutdown
  /\ shutdown' = TRUE
  /\ live' = {}
  /\ UNCHANGED <<at, trackerVars, allowedConnections, wasAllowed, activeConnections,
                 loginVars, verifying, clients, sessions>>

Connection(c) ==
  \/ Admit(c) \/ RefuseConnection(c) \/ MarkAllowed(c) \/ CountActive(c)
  \/ EnterLogin(c) \/ PassLimit(c) \/ RefuseLogin(c)
  \/ StartVerifying(c) \/ AuthFails(c) \/ Register(c)
  \/ Unregister(c) \/ ReleaseIfAllowed(c) \/ DiscountActive(c)

Next == (\E c \in Conns : Connection(c)) \/ Sweep \/ Shutdown

Spec == Init /\ [][Next]_connVars

-----------------------------------------------------------------------------
(* Properties *)

\* The type of the state. activeConnections is an int64 and may be negative.
TypeOK ==
  /\ at \in [Conns -> Places]
  /\ DOMAIN ipConnections \subseteq IPs
  /\ \A i \in DOMAIN ipConnections : ipConnections[i] \in Nat
  /\ globalCount \in Nat
  /\ allowedConnections \subseteq Conns
  /\ wasAllowed \subseteq Conns
  /\ activeConnections \in Int
  /\ LoggingIn \subseteq Conns
  /\ DOMAIN clients \subseteq Conns
  /\ \A c \in DOMAIN clients : clients[c] \in Nat
  /\ sessions \in [Conns -> Nat]
  /\ live \subseteq Conns \X Nat
  /\ shutdown \in BOOLEAN

\* Connections that own a unit of the tracker's counts.
Holds(c) ==
  \/ at[c] \in {"admitted", "marked", "open"}
  \/ at[c] = "closing" /\ c \in wasAllowed
Holders == {c \in Conns : Holds(c)}
HoldersFrom(ip) == {c \in Holders : IpOf[c] = ip}

\* The tracker's counts are exactly the connections it let in and has not
\* seen the end of, whichever connections come, are refused and go in
\* between; and an address without connections has no entry (driver.go,
\* AllowConnection, ReleaseConnection and ClientDisconnected, SEC-012, #116).
CountsExact ==
  Tracked =>
    /\ globalCount = Cardinality(Holders)
    /\ \A ip \in IPs : Count(ip) = Cardinality(HoldersFrom(ip))
    /\ \A ip \in DOMAIN ipConnections : ipConnections[ip] > 0

\* Nobody gets past the limits.
LimitsHold ==
  Tracked =>
    /\ MaxGlobal > 0 => Cardinality(Holders) <= MaxGlobal
    /\ MaxPerIP > 0 => \A ip \in IPs : Cardinality(HoldersFrom(ip)) <= MaxPerIP

\* Nothing of a connection outlives it in the driver's maps.
NothingLeftBehind ==
  \A c \in Conns : at[c] \in {"closing", "released", "gone"} =>
    c \notin allowedConnections \cup DOMAIN clients \cup LoggingIn

\* At most AuthSlots passwords are verified at a time, and no session lives
\* once the driver shuts down, one whose password was being verified at that
\* moment included (driver.go, AuthUser and Shutdown, QLT-011).
ShutdownEndsSessions ==
  /\ Cardinality(verifying) <= AuthSlots
  /\ shutdown => live = {}

\* The inductive invariant: the exact counts, and a connection is in the
\* maps only while its goroutine is between connect and disconnect.
PlaceInv ==
  \A c \in Conns :
    /\ c \in allowedConnections <=> at[c] \in {"marked", "open"}
    /\ c \in wasAllowed => at[c] \in {"closing", "released", "gone"}
    /\ c \in LoggingIn \cup DOMAIN clients => at[c] = "open"

ConnInv == TypeOK /\ CountsExact /\ LimitsHold /\ PlaceInv /\ ShutdownEndsSessions

\* Connections that are counted, and those that were refused, and never
\* counted, but have been discounted.
Counted == {c \in Conns : at[c] = "open" \/ (at[c] \in {"closing", "released"} /\ c \in wasAllowed)}
Drift == {c \in Conns : at[c] = "gone" /\ c \notin wasAllowed}

\* The counter of active connections is never ahead of the connections that
\* are open, so a free place is never taken for a used one, and it is behind
\* by exactly the refused connections that have gone (driver.go,
\* ClientConnected and ClientDisconnected).
ActiveDrift == activeConnections = Cardinality(Counted) - Cardinality(Drift)

\* Fewer connections than max_connections have a session or are past the
\* limit on their way to one, as long as none was refused: AuthUser compares
\* the limit with a counter that includes the connection itself, and so one
\* that came before all the others that passed. Each refused one that went
\* adds a place.
InUse == cleared \cup verifying \cup DOMAIN clients

LoggedInBounded ==
  MaxConnections > 0 => Cardinality(InUse) < MaxConnections + Cardinality(Drift)

\* Of the sessions of a connection, whose client may send USER and PASS again,
\* the last one ends with the connection; only one that a later login has
\* replaced in the map can outlive it (driver.go, AuthUser and
\* ClientDisconnected, QLT-011).
LastSessionEnds ==
  \A s \in live : s[2] = sessions[s[1]] => s[1] \in DOMAIN clients

\* The inductive part of it: the map holds the last session.
SessionInv ==
  /\ \A c \in DOMAIN clients : clients[c] = sessions[c]
  /\ \A s \in live : s[2] <= sessions[s[1]]
  /\ LastSessionEnds
=============================================================================
