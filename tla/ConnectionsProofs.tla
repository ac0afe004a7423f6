-------------------------- MODULE ConnectionsProofs --------------------------
(***************************************************************************)
(* Theorems about Connections, for any number of connections, addresses    *)
(* and limits.                                                             *)
(***************************************************************************)
EXTENDS Connections, FiniteSetTheorems, TLAPS

USE ConnectionsAssumption

-----------------------------------------------------------------------------
(* Counting the connections that hold a unit *)

\* The holders are finitely many.
LEMMA HoldersFinite ==
  /\ IsFiniteSet(Holders)
  /\ \A ip \in IPs : IsFiniteSet(HoldersFrom(ip))
<1>1. Holders \subseteq Conns
  BY DEF Holders
<1>2. \A ip \in IPs : HoldersFrom(ip) \subseteq Conns
  BY <1>1 DEF HoldersFrom
<1> QED BY <1>1, <1>2, FS_Subset

\* A step that keeps the holders and the tracker keeps the counts.
LEMMA CountsStay ==
  ASSUME CountsExact, LimitsHold, UNCHANGED trackerVars,
         \A c \in Conns : Holds(c)' <=> Holds(c)
  PROVE  CountsExact' /\ LimitsHold'
<1>1. Holders' = Holders
  BY DEF Holders
<1>2. \A ip \in IPs : HoldersFrom(ip)' = HoldersFrom(ip)
  BY <1>1 DEF HoldersFrom
<1> QED BY <1>1, <1>2 DEF CountsExact, LimitsHold, Count, trackerVars

\* Letting a connection in counts it once, globally and for its address
\* (driver.go, AllowConnection).
LEMMA CountsGrow ==
  ASSUME TypeOK, CountsExact, LimitsHold, NEW c \in Conns, ~Holds(c), Holds(c)',
         \A d \in Conns \ {c} : Holds(d)' <=> Holds(d),
         Tracked => AllowConnection(IpOf[c]) /\ TakeConnection(IpOf[c])
  PROVE  CountsExact' /\ LimitsHold'
<1> SUFFICES ASSUME Tracked PROVE CountsExact' /\ LimitsHold'
  BY DEF CountsExact, LimitsHold
<1>1. IpOf[c] \in IPs /\ c \notin Holders /\ c \notin HoldersFrom(IpOf[c])
  BY DEF Holders, HoldersFrom
<1>2. Holders' = Holders \cup {c}
  BY DEF Holders
<1>3. HoldersFrom(IpOf[c])' = HoldersFrom(IpOf[c]) \cup {c}
  BY <1>2 DEF HoldersFrom
<1>4. \A ip \in IPs \ {IpOf[c]} : HoldersFrom(ip)' = HoldersFrom(ip)
  BY <1>2 DEF HoldersFrom
<1>5. Cardinality(Holders') = Cardinality(Holders) + 1
  BY <1>1, <1>2, HoldersFinite, FS_AddElement
<1>6. Cardinality(HoldersFrom(IpOf[c])') = Cardinality(HoldersFrom(IpOf[c])) + 1
  BY <1>1, <1>3, HoldersFinite, FS_AddElement
<1>7. globalCount' = globalCount + 1
  BY DEF TakeConnection
<1>8. /\ Count(IpOf[c])' = Count(IpOf[c]) + 1
      /\ \A ip \in IPs \ {IpOf[c]} : Count(ip)' = Count(ip)
  BY DEF TakeConnection, Count
<1>9. Count(IpOf[c]) \in Nat
  BY DEF TypeOK, Count
<1>10. \A ip \in DOMAIN ipConnections' : ipConnections'[ip] > 0
  BY <1>9 DEF TakeConnection, CountsExact
<1>11. CountsExact'
  BY <1>4, <1>5, <1>6, <1>7, <1>8, <1>10 DEF CountsExact
<1>12. MaxGlobal > 0 => Cardinality(Holders') <= MaxGlobal
  BY <1>5 DEF AllowConnection, CountsExact, TypeOK
<1>13. MaxPerIP > 0 => Cardinality(HoldersFrom(IpOf[c])') <= MaxPerIP
  BY <1>1, <1>6, <1>9 DEF AllowConnection, CountsExact
<1>14. LimitsHold'
  BY <1>4, <1>12, <1>13 DEF LimitsHold
<1> QED BY <1>11, <1>14

\* Releasing a connection takes out exactly what it put in (driver.go,
\* ReleaseConnection).
LEMMA CountsShrink ==
  ASSUME TypeOK, CountsExact, LimitsHold, NEW c \in Conns, Holds(c), ~Holds(c)',
         \A d \in Conns \ {c} : Holds(d)' <=> Holds(d),
         Tracked => ReleaseConnection(IpOf[c])
  PROVE  CountsExact' /\ LimitsHold'
<1> SUFFICES ASSUME Tracked PROVE CountsExact' /\ LimitsHold'
  BY DEF CountsExact, LimitsHold
<1>1. IpOf[c] \in IPs /\ c \in Holders /\ c \in HoldersFrom(IpOf[c])
  BY DEF Holders, HoldersFrom
<1>2. Holders' = Holders \ {c}
  BY DEF Holders
<1>3. HoldersFrom(IpOf[c])' = HoldersFrom(IpOf[c]) \ {c}
  BY <1>2 DEF HoldersFrom
<1>4. \A ip \in IPs \ {IpOf[c]} : HoldersFrom(ip)' = HoldersFrom(ip)
  BY <1>2 DEF HoldersFrom
<1>5. /\ Cardinality(Holders \ {c}) = Cardinality(Holders) - 1
      /\ Cardinality(Holders) \in Nat \ {0}
  BY <1>1, HoldersFinite, FS_RemoveElement, FS_CardinalityType, FS_EmptySet
<1>6. /\ Cardinality(HoldersFrom(IpOf[c]) \ {c}) = Cardinality(HoldersFrom(IpOf[c])) - 1
      /\ Cardinality(HoldersFrom(IpOf[c])) \in Nat \ {0}
  BY <1>1, HoldersFinite, FS_RemoveElement, FS_CardinalityType, FS_EmptySet
<1>7. globalCount = Cardinality(Holders) /\ Count(IpOf[c]) = Cardinality(HoldersFrom(IpOf[c]))
  BY <1>1 DEF CountsExact
<1>8. globalCount' = globalCount - 1
  BY <1>5, <1>7 DEF ReleaseConnection
<1>9. IpOf[c] \in DOMAIN ipConnections
  BY <1>6, <1>7 DEF Count
<1>10. /\ Count(IpOf[c])' = Count(IpOf[c]) - 1
       /\ \A ip \in IPs \ {IpOf[c]} : Count(ip)' = Count(ip)
  <2>1. CASE Count(IpOf[c]) = 1
    BY <2>1 DEF ReleaseConnection, Count
  <2>2. CASE Count(IpOf[c]) # 1
    BY <1>6, <1>7, <1>9, <2>2 DEF ReleaseConnection, Count
  <2> QED BY <2>1, <2>2
<1>11. \A ip \in DOMAIN ipConnections' : ipConnections'[ip] > 0
  <2>1. CASE Count(IpOf[c]) = 1
    BY <2>1 DEF ReleaseConnection, CountsExact
  <2>2. CASE Count(IpOf[c]) # 1
    BY <1>6, <1>7, <2>2 DEF ReleaseConnection, CountsExact
  <2> QED BY <2>1, <2>2
<1>12. Cardinality(Holders') = Cardinality(Holders) - 1
  BY <1>2, <1>5
<1>13. Cardinality(HoldersFrom(IpOf[c])') = Cardinality(HoldersFrom(IpOf[c])) - 1
  BY <1>3, <1>6
<1>14. CountsExact'
  BY <1>4, <1>7, <1>8, <1>10, <1>11, <1>12, <1>13 DEF CountsExact
<1>15. LimitsHold'
  BY <1>4, <1>5, <1>6, <1>12, <1>13 DEF LimitsHold
<1> QED BY <1>14, <1>15

-----------------------------------------------------------------------------
(* The inductive invariant *)

\* Nobody is connected at first.
LEMMA ConnInit == Init => ConnInv
<1> SUFFICES ASSUME Init PROVE ConnInv
  OBVIOUS
<1> USE DEF Init
<1>1. TypeOK
  <2>1. DOMAIN ipConnections = {} /\ DOMAIN clients = {}
    OBVIOUS
  <2>2. /\ \A i \in DOMAIN ipConnections : ipConnections[i] \in Nat
        /\ \A c \in DOMAIN clients : clients[c] \in Nat
    BY <2>1
  <2>3. /\ at \in [Conns -> Places] /\ sessions \in [Conns -> Nat]
        /\ globalCount \in Nat /\ activeConnections \in Int
    BY DEF Places
  <2>4. /\ live \subseteq Conns \X Nat /\ shutdown \in BOOLEAN
        /\ allowedConnections \subseteq Conns /\ wasAllowed \subseteq Conns
        /\ LoggingIn \subseteq Conns
    BY DEF LoggingIn
  <2> QED BY <2>1, <2>2, <2>3, <2>4 DEF TypeOK
<1>2. Holders = {}
  BY DEF Holders, Holds
<1>3. \A ip \in IPs : HoldersFrom(ip) = {}
  BY <1>2 DEF HoldersFrom
<1>4. Cardinality({}) = 0
  BY FS_EmptySet
<1>5. CountsExact
  BY <1>2, <1>3, <1>4 DEF CountsExact, Count
<1>6. \A ip \in IPs : Cardinality(HoldersFrom(ip)) = 0
  BY <1>3, <1>4
<1>7. LimitsHold
  BY <1>2, <1>4, <1>6 DEF LimitsHold
<1>8. PlaceInv /\ ShutdownEndsSessions
  BY <1>4 DEF PlaceInv, LoggingIn, ShutdownEndsSessions
<1> QED BY <1>1, <1>5, <1>7, <1>8 DEF ConnInv

\* The steps of one connection keep the types.
LEMMA StepKeepsTypes ==
  ASSUME ConnInv, NEW c \in Conns, Connection(c)
  PROVE  TypeOK'
<1> USE DEF ConnInv, TypeOK, Step, Places, LoggingIn, loginVars, sessionVars, trackerVars
<1>1. IpOf[c] \in IPs /\ \A ip \in IPs : Count(ip) \in Nat
  BY DEF Count
<1>2. CASE Admit(c) BY <1>1, <1>2 DEF Admit, TakeConnection
<1>3. CASE RefuseConnection(c) BY <1>3 DEF RefuseConnection
<1>4. CASE MarkAllowed(c) BY <1>4 DEF MarkAllowed
<1>5. CASE CountActive(c) BY <1>5 DEF CountActive
<1>6. CASE EnterLogin(c) \/ PassLimit(c) \/ RefuseLogin(c) \/ StartVerifying(c)
  BY <1>6 DEF EnterLogin, PassLimit, RefuseLogin, StartVerifying
<1>7. CASE AuthFails(c) BY <1>7 DEF AuthFails
<1>8. CASE Register(c)
  <2>1. sessions[c] + 1 \in Nat
    OBVIOUS
  <2> QED BY <1>8, <2>1 DEF Register
<1>9. CASE Unregister(c) BY <1>9 DEF Unregister
<1>10. CASE ReleaseIfAllowed(c)
  <2>1. /\ DOMAIN ipConnections' \subseteq IPs
        /\ \A i \in DOMAIN ipConnections' : ipConnections'[i] \in Nat
        /\ globalCount' \in Nat
    BY <1>1, <1>10 DEF ReleaseIfAllowed, ReleaseConnection, Count
  <2> QED BY <1>10, <2>1 DEF ReleaseIfAllowed
<1>11. CASE DiscountActive(c) BY <1>11 DEF DiscountActive
<1> QED BY <1>2, <1>3, <1>4, <1>5, <1>6, <1>7, <1>8, <1>9, <1>10, <1>11 DEF Connection

\* The steps of one connection keep its place in the maps.
LEMMA StepKeepsPlaces ==
  ASSUME ConnInv, NEW c \in Conns, Connection(c)
  PROVE  PlaceInv'
<1> USE DEF ConnInv, TypeOK, PlaceInv, Step, LoggingIn, loginVars, sessionVars
<1>1. CASE Admit(c) BY <1>1 DEF Admit
<1>2. CASE RefuseConnection(c) BY <1>2 DEF RefuseConnection
<1>3. CASE MarkAllowed(c) BY <1>3 DEF MarkAllowed
<1>4. CASE CountActive(c) BY <1>4 DEF CountActive
<1>5. CASE EnterLogin(c) \/ PassLimit(c) \/ RefuseLogin(c) \/ StartVerifying(c)
  BY <1>5 DEF EnterLogin, PassLimit, RefuseLogin, StartVerifying
<1>6. CASE AuthFails(c) BY <1>6 DEF AuthFails
<1>7. CASE Register(c) BY <1>7 DEF Register
<1>8. CASE Unregister(c) BY <1>8 DEF Unregister
<1>9. CASE ReleaseIfAllowed(c) BY <1>9 DEF ReleaseIfAllowed
<1>10. CASE DiscountActive(c) BY <1>10 DEF DiscountActive
<1> QED BY <1>1, <1>2, <1>3, <1>4, <1>5, <1>6, <1>7, <1>8, <1>9, <1>10 DEF Connection

\* The steps of one connection keep the tracker's counts (driver.go).
LEMMA StepKeepsCounts ==
  ASSUME ConnInv, NEW c \in Conns, Connection(c)
  PROVE  CountsExact' /\ LimitsHold'
<1> USE DEF ConnInv, Step, Holds
<1> DEFINE Others == \A d \in Conns \ {c} : Holds(d)' <=> Holds(d)
           Same   == \A d \in Conns : Holds(d)' <=> Holds(d)
<1>1. CASE Admit(c)
  <2>1. ~Holds(c) /\ Holds(c)' /\ Others
    BY <1>1 DEF Admit, TypeOK
  <2> HIDE DEF Holds
  <2> QED BY <1>1, <2>1, CountsGrow DEF Admit
<1>2. CASE RefuseConnection(c) \/ MarkAllowed(c) \/ CountActive(c) \/ DiscountActive(c)
  <2>1. Same /\ UNCHANGED trackerVars
    BY <1>2 DEF RefuseConnection, MarkAllowed, CountActive, DiscountActive, TypeOK
  <2> HIDE DEF Holds
  <2> QED BY <2>1, CountsStay
<1>3. CASE \/ EnterLogin(c) \/ PassLimit(c) \/ RefuseLogin(c)
           \/ StartVerifying(c) \/ AuthFails(c) \/ Register(c)
  <2>1. Same /\ UNCHANGED trackerVars
    BY <1>3 DEF EnterLogin, PassLimit, RefuseLogin, StartVerifying, AuthFails, Register, TypeOK
  <2> HIDE DEF Holds
  <2> QED BY <2>1, CountsStay
<1>4. CASE Unregister(c)
  <2>1. Same /\ UNCHANGED trackerVars
    BY <1>4 DEF Unregister, TypeOK, PlaceInv
  <2> HIDE DEF Holds
  <2> QED BY <2>1, CountsStay
<1>5. CASE ReleaseIfAllowed(c) /\ c \in wasAllowed
  <2>1. Holds(c) /\ ~Holds(c)' /\ Others
    BY <1>5 DEF ReleaseIfAllowed, TypeOK
  <2> HIDE DEF Holds
  <2> QED BY <1>5, <2>1, CountsShrink DEF ReleaseIfAllowed
<1>6. CASE ReleaseIfAllowed(c) /\ c \notin wasAllowed
  <2>1. Same /\ UNCHANGED trackerVars
    BY <1>6 DEF ReleaseIfAllowed, TypeOK
  <2> HIDE DEF Holds
  <2> QED BY <2>1, CountsStay
<1> QED BY <1>1, <1>2, <1>3, <1>4, <1>5, <1>6 DEF Connection

\* The semaphore is never overdrawn, and a session that starts after the
\* shutdown is born dead (driver.go, AuthUser).
LEMMA StepKeepsBounds ==
  ASSUME ConnInv, NEW c \in Conns, Connection(c)
  PROVE  ShutdownEndsSessions'
<1> USE DEF ConnInv, sessionVars
<1>1. IsFiniteSet(verifying)
  BY FS_Subset DEF TypeOK, LoggingIn
<1>2. Cardinality(verifying) \in Nat /\ Cardinality(verifying) <= AuthSlots
  BY <1>1, FS_CardinalityType DEF ShutdownEndsSessions
<1>3. CASE StartVerifying(c)
  <2>1. CASE c \in verifying
    <3>1. verifying' = verifying
      BY <1>3, <2>1 DEF StartVerifying
    <3> QED BY <1>3, <3>1 DEF StartVerifying, ShutdownEndsSessions
  <2>2. CASE c \notin verifying
    <3>1. Cardinality(verifying \cup {c}) = Cardinality(verifying) + 1
      BY <1>1, <2>2, FS_AddElement
    <3> QED BY <1>2, <1>3, <3>1 DEF StartVerifying, ShutdownEndsSessions
  <2> QED BY <2>1, <2>2
<1>4. CASE AuthFails(c) \/ Register(c)
  <2>1. Cardinality(verifying \ {c}) = Cardinality(verifying) - 1
    BY <1>1, <1>4, FS_RemoveElement DEF AuthFails, Register
  <2>2. verifying' = verifying \ {c} /\ shutdown' = shutdown
    BY <1>4 DEF AuthFails, Register
  <2>3. shutdown => live' = live
    BY <1>4 DEF AuthFails, Register
  <2>4. Cardinality(verifying') <= AuthSlots
    BY <1>2, <2>1, <2>2
  <2> QED BY <2>2, <2>3, <2>4 DEF ShutdownEndsSessions
<1>5. CASE Unregister(c)
  BY <1>5 DEF Unregister, ShutdownEndsSessions
<1>6. CASE \/ Admit(c) \/ RefuseConnection(c) \/ MarkAllowed(c) \/ CountActive(c)
           \/ EnterLogin(c) \/ PassLimit(c) \/ RefuseLogin(c)
           \/ ReleaseIfAllowed(c) \/ DiscountActive(c)
  BY <1>6 DEF EnterLogin, PassLimit, RefuseLogin, Admit, RefuseConnection, MarkAllowed,
              CountActive, ReleaseIfAllowed, DiscountActive, ShutdownEndsSessions
<1> QED BY <1>3, <1>4, <1>5, <1>6 DEF Connection

\* Every step preserves the invariant.
LEMMA ConnStep == ConnInv /\ [Next]_connVars => ConnInv'
<1> SUFFICES ASSUME ConnInv, [Next]_connVars PROVE ConnInv'
  OBVIOUS
<1>1. ASSUME NEW c \in Conns, Connection(c) PROVE ConnInv'
  BY <1>1, StepKeepsTypes, StepKeepsPlaces, StepKeepsCounts, StepKeepsBounds DEF ConnInv
<1>2. CASE Sweep
  <2> USE <1>2 DEF Sweep, ConnInv, LoggingIn, loginVars, sessionVars
  <2>1. ipConnections' = [i \in DOMAIN ipConnections |-> ipConnections[i]]
    BY DEF CountsExact
  <2>2. /\ DOMAIN ipConnections' = DOMAIN ipConnections
        /\ \A i \in DOMAIN ipConnections : ipConnections'[i] = ipConnections[i]
    BY <2>1
  <2>3. TypeOK'
    BY <2>2 DEF TypeOK
  <2>4. /\ Holders' = Holders
        /\ \A ip \in IPs : HoldersFrom(ip)' = HoldersFrom(ip) /\ Count(ip)' = Count(ip)
    BY <2>2 DEF Holders, Holds, HoldersFrom, Count
  <2>5. CountsExact' /\ LimitsHold'
    BY <2>2, <2>4 DEF CountsExact, LimitsHold
  <2>6. PlaceInv' /\ ShutdownEndsSessions'
    BY DEF PlaceInv, ShutdownEndsSessions
  <2> QED BY <2>3, <2>5, <2>6
<1>3. CASE Shutdown
  <2> USE <1>3 DEF Shutdown, ConnInv, LoggingIn, loginVars, trackerVars
  <2>1. TypeOK' /\ PlaceInv' /\ ShutdownEndsSessions'
    BY DEF TypeOK, PlaceInv, ShutdownEndsSessions
  <2>2. \A d \in Conns : Holds(d)' <=> Holds(d)
    BY DEF Holds
  <2> QED BY <2>1, <2>2, CountsStay
<1>4. CASE UNCHANGED connVars
  <2> USE <1>4 DEF connVars, LoggingIn, loginVars, sessionVars, trackerVars, ConnInv
  <2>1. TypeOK' /\ PlaceInv' /\ ShutdownEndsSessions'
    BY DEF TypeOK, PlaceInv, ShutdownEndsSessions
  <2>2. \A d \in Conns : Holds(d)' <=> Holds(d)
    BY DEF Holds
  <2> QED BY <2>1, <2>2, CountsStay
<1> QED BY <1>1, <1>2, <1>3, <1>4 DEF Next

\* The invariant of connections and sessions holds in every reachable state.
THEOREM ConnectionsInvariant == Spec => []ConnInv
BY ConnInit, ConnStep, PTL DEF Spec

\* The tracker counts exactly the connections it let in, for any number of
\* connections and addresses (driver.go, ConnectionTracker).
THEOREM CountsAreExact == Spec => []CountsExact
<1>1. ConnInv => CountsExact
  BY DEF ConnInv
<1> QED BY <1>1, ConnectionsInvariant, PTL

\* The limits per address and in all are never exceeded (driver.go,
\* AllowConnection).
THEOREM LimitsAlwaysHold == Spec => []LimitsHold
<1>1. ConnInv => LimitsHold
  BY DEF ConnInv
<1> QED BY <1>1, ConnectionsInvariant, PTL

\* After ClientDisconnected the maps hold nothing of the connection.
THEOREM MapsAreClean == Spec => []NothingLeftBehind
<1>1. ConnInv => NothingLeftBehind
  BY DEF ConnInv, PlaceInv, NothingLeftBehind
<1> QED BY <1>1, ConnectionsInvariant, PTL

\* No session outlives the shutdown of the driver, and the verifications of
\* passwords are bounded (driver.go, AuthUser and Shutdown).
THEOREM SessionsEndAtShutdown == Spec => []ShutdownEndsSessions
<1>1. ConnInv => ShutdownEndsSessions
  BY DEF ConnInv
<1> QED BY <1>1, ConnectionsInvariant, PTL

-----------------------------------------------------------------------------
(* The counter of active connections *)

\* What a step does to the counter: a connection that is let in is added, one
\* that goes is subtracted, whether it was added or not.
LEMMA StepCounts ==
  ASSUME ConnInv, NEW c \in Conns, Connection(c)
  PROVE  \/ Counted' = Counted /\ Drift' = Drift /\ activeConnections' = activeConnections
         \/ /\ c \notin Counted /\ Counted' = Counted \cup {c} /\ Drift' = Drift
            /\ activeConnections' = activeConnections + 1
         \/ /\ c \in Counted /\ Counted' = Counted \ {c} /\ Drift' = Drift
            /\ activeConnections' = activeConnections - 1
         \/ /\ c \notin Drift /\ Counted' = Counted /\ Drift' = Drift \cup {c}
            /\ activeConnections' = activeConnections - 1
<1> USE DEF ConnInv, PlaceInv, Step, sessionVars, trackerVars
<1>0. at \in [Conns -> Places]
  BY DEF TypeOK
<1> HIDE DEF ConnInv
<1>p. PlaceInv
  BY DEF ConnInv
<1>1. CASE Admit(c) \/ RefuseConnection(c) \/ MarkAllowed(c) \/ ReleaseIfAllowed(c)
  <2>1. wasAllowed' = wasAllowed /\ activeConnections' = activeConnections
    BY <1>1 DEF Admit, RefuseConnection, MarkAllowed, ReleaseIfAllowed
  <2>2. Counted' = Counted /\ Drift' = Drift
    BY <1>0, <1>1, <1>p, <2>1
    DEF Admit, RefuseConnection, MarkAllowed, ReleaseIfAllowed, Counted, Drift
  <2> QED BY <2>1, <2>2
<1>2. CASE CountActive(c)
  <2>1. at[c] = "marked" /\ at' = [at EXCEPT ![c] = "open"] /\ wasAllowed' = wasAllowed
    BY <1>2 DEF CountActive
  <2>2. c \notin Counted /\ Counted' = Counted \cup {c} /\ Drift' = Drift
    BY <1>0, <2>1 DEF Counted, Drift
  <2> QED BY <1>2, <2>2 DEF CountActive
<1>3. CASE \/ EnterLogin(c) \/ PassLimit(c) \/ RefuseLogin(c)
           \/ StartVerifying(c) \/ AuthFails(c) \/ Register(c)
  <2>1. UNCHANGED <<at, wasAllowed, activeConnections>>
    BY <1>3 DEF EnterLogin, PassLimit, RefuseLogin, StartVerifying, AuthFails, Register
  <2> QED BY <2>1 DEF Counted, Drift
<1>4. CASE Unregister(c)
  <2>1. /\ at' = [at EXCEPT ![c] = "closing"]
        /\ wasAllowed' = wasAllowed \cup (allowedConnections \cap {c})
        /\ activeConnections' = activeConnections
        /\ at[c] \in {"open", "refused"}
    BY <1>4 DEF Unregister
  <2>2. (at[c] = "open" <=> c \in wasAllowed') /\ c \notin wasAllowed
    BY <1>p, <2>1
  <2>3. \A d \in Conns \ {c} : at'[d] = at[d] /\ (d \in wasAllowed' <=> d \in wasAllowed)
    BY <1>0, <2>1
  <2>4. at'[c] = "closing"
    BY <1>0, <2>1
  <2>5. Counted' = Counted /\ Drift' = Drift
    BY <2>1, <2>2, <2>3, <2>4 DEF Counted, Drift
  <2> QED BY <2>1, <2>5
<1>5. CASE DiscountActive(c)
  <2>1. /\ at[c] = "released" /\ at' = [at EXCEPT ![c] = "gone"]
        /\ wasAllowed' = wasAllowed /\ activeConnections' = activeConnections - 1
    BY <1>5 DEF DiscountActive
  <2>2. CASE c \in wasAllowed
    <3>1. c \in Counted /\ Counted' = Counted \ {c} /\ Drift' = Drift
      BY <1>0, <2>1, <2>2 DEF Counted, Drift
    <3> QED BY <2>1, <3>1
  <2>3. CASE c \notin wasAllowed
    <3>1. c \notin Drift /\ Counted' = Counted /\ Drift' = Drift \cup {c}
      BY <1>0, <2>1, <2>3 DEF Counted, Drift
    <3> QED BY <2>1, <3>1
  <2> QED BY <2>2, <2>3
<1> QED BY <1>1, <1>2, <1>3, <1>4, <1>5 DEF Connection

\* What a step does to the connections with a session or on their way to one:
\* it may let one more past the limit while the counter is below it.
LEMMA StepLogsIn ==
  ASSUME ConnInv, NEW c \in Conns, Connection(c)
  PROVE  \/ InUse' \subseteq InUse
         \/ /\ InUse' \subseteq Counted
            /\ Counted' = Counted /\ Drift' = Drift
            /\ MaxConnections > 0 => activeConnections < MaxConnections
<1> USE DEF Step, InUse, loginVars, sessionVars, trackerVars
<1>1. PlaceInv /\ TypeOK
  BY DEF ConnInv
<1>2. CASE PassLimit(c)
  <2>1. /\ UNCHANGED <<at, wasAllowed, verifying, clients>> /\ cleared' = cleared \cup {c}
        /\ c \in asking
        /\ MaxConnections > 0 => activeConnections < MaxConnections
    BY <1>2 DEF PassLimit, BelowLimit
  <2>2. InUse \cup {c} \subseteq Counted
    BY <1>1, <2>1 DEF Counted, PlaceInv, LoggingIn, TypeOK
  <2>3. Counted' = Counted /\ Drift' = Drift
    BY <2>1 DEF Counted, Drift
  <2> QED BY <2>1, <2>2, <2>3
<1>3. CASE EnterLogin(c) \/ RefuseLogin(c) \/ StartVerifying(c) \/ AuthFails(c)
  BY <1>3 DEF EnterLogin, RefuseLogin, StartVerifying, AuthFails
<1>4. CASE Register(c)
  BY <1>4 DEF Register
<1>5. CASE Unregister(c)
  BY <1>5 DEF Unregister
<1>6. CASE \/ Admit(c) \/ RefuseConnection(c) \/ MarkAllowed(c) \/ CountActive(c)
           \/ ReleaseIfAllowed(c) \/ DiscountActive(c)
  BY <1>6 DEF Admit, RefuseConnection, MarkAllowed, CountActive, ReleaseIfAllowed, DiscountActive
<1> QED BY <1>2, <1>3, <1>4, <1>5, <1>6 DEF Connection

ActiveInv == ConnInv /\ ActiveDrift /\ LoggedInBounded

LEMMA ActiveInit == Init => ActiveInv
<1> SUFFICES ASSUME Init PROVE ActiveInv
  OBVIOUS
<1>1. Counted = {} /\ Drift = {} /\ InUse = {} /\ activeConnections = 0
  BY DEF Init, InUse, Counted, Drift
<1>2. Cardinality({}) = 0
  BY FS_EmptySet
<1>3. /\ Cardinality(Counted) = 0 /\ Cardinality(Drift) = 0
      /\ Cardinality(InUse) = 0
  BY <1>1, <1>2
<1>4. ActiveDrift /\ LoggedInBounded
  BY <1>1, <1>3 DEF ActiveDrift, LoggedInBounded
<1> QED BY <1>4, ConnInit DEF ActiveInv

LEMMA ActiveStep == ActiveInv /\ [Next]_connVars => ActiveInv'
<1> SUFFICES ASSUME ActiveInv, [Next]_connVars PROVE ActiveInv'
  OBVIOUS
<1>1. ConnInv /\ ConnInv'
  BY ConnStep DEF ActiveInv
<1>2. TypeOK /\ TypeOK'
  BY <1>1 DEF ConnInv
<1> DEFINE n == Cardinality(Counted)
           k == Cardinality(Drift)
           m == Cardinality(InUse)
<1>3. /\ n \in Nat /\ k \in Nat /\ m \in Nat /\ n' \in Nat /\ k' \in Nat /\ m' \in Nat
      /\ IsFiniteSet(Counted) /\ IsFiniteSet(Drift) /\ IsFiniteSet(InUse)
      /\ MaxConnections \in Nat /\ activeConnections \in Int
  <2>1. /\ Counted \subseteq Conns /\ Drift \subseteq Conns /\ InUse \subseteq Conns
        /\ Counted' \subseteq Conns /\ Drift' \subseteq Conns
        /\ InUse' \subseteq Conns
    BY <1>2 DEF TypeOK, LoggingIn, InUse, Counted, Drift
  <2>2. \A S \in SUBSET Conns : IsFiniteSet(S) /\ Cardinality(S) \in Nat
    BY FS_Subset, FS_CardinalityType
  <2> QED BY <1>2, <2>1, <2>2 DEF TypeOK
<1>4. activeConnections = n - k /\ (MaxConnections > 0 => m < MaxConnections + k)
  BY DEF ActiveInv, ActiveDrift, LoggedInBounded
<1>5. ASSUME NEW c \in Conns, Connection(c)
      PROVE  ActiveDrift' /\ LoggedInBounded'
  <2>1. activeConnections' = n' - k' /\ k' >= k
    <3>1. CASE Counted' = Counted /\ Drift' = Drift /\ activeConnections' = activeConnections
      BY <1>3, <1>4, <3>1
    <3>2. CASE /\ c \notin Counted /\ Counted' = Counted \cup {c} /\ Drift' = Drift
               /\ activeConnections' = activeConnections + 1
      <4>1. n' = n + 1 /\ k' = k
        BY <1>3, <3>2, FS_AddElement
      <4> QED BY <1>3, <1>4, <3>2, <4>1
    <3>3. CASE /\ c \in Counted /\ Counted' = Counted \ {c} /\ Drift' = Drift
               /\ activeConnections' = activeConnections - 1
      <4>1. n' = n - 1 /\ k' = k
        BY <1>3, <3>3, FS_RemoveElement
      <4> QED BY <1>3, <1>4, <3>3, <4>1
    <3>4. CASE /\ c \notin Drift /\ Counted' = Counted /\ Drift' = Drift \cup {c}
               /\ activeConnections' = activeConnections - 1
      <4>1. n' = n /\ k' = k + 1
        BY <1>3, <3>4, FS_AddElement
      <4> QED BY <1>3, <1>4, <3>4, <4>1
    <3> QED BY <1>1, <1>5, <3>1, <3>2, <3>3, <3>4, StepCounts
  <2>2. MaxConnections > 0 => m' < MaxConnections + k'
    <3>1. CASE InUse' \subseteq InUse
      <4>1. m' <= m
        BY <1>3, <3>1, FS_Subset
      <4> QED BY <1>3, <1>4, <2>1, <4>1
    <3>2. CASE /\ InUse' \subseteq Counted
               /\ Counted' = Counted /\ Drift' = Drift
               /\ MaxConnections > 0 => activeConnections < MaxConnections
      <4>1. m' <= n /\ k' = k
        BY <1>3, <3>2, FS_Subset
      <4> QED BY <1>3, <1>4, <3>2, <4>1
    <3> QED BY <1>1, <1>5, <3>1, <3>2, StepLogsIn
  <2> QED BY <2>1, <2>2 DEF ActiveDrift, LoggedInBounded
<1>6. CASE Sweep \/ Shutdown \/ UNCHANGED connVars
  <2>1. UNCHANGED <<at, wasAllowed, activeConnections, loginVars, verifying, clients>>
    BY <1>6 DEF Sweep, Shutdown, connVars, sessionVars, trackerVars
  <2>2. n' = n /\ k' = k /\ m' = m
    BY <2>1 DEF InUse, loginVars, Counted, Drift
  <2> QED BY <1>1, <1>4, <2>1, <2>2 DEF ActiveInv, ActiveDrift, LoggedInBounded
<1> QED BY <1>1, <1>5, <1>6 DEF Next, ActiveInv

\* The counter of active connections is behind by exactly the refused
\* connections that have gone (driver.go, ClientDisconnected).
THEOREM ActiveDriftsByRefusals == Spec => []ActiveDrift
<1>1. ActiveInv => ActiveDrift
  BY DEF ActiveInv
<1> QED BY <1>1, ActiveInit, ActiveStep, PTL DEF Spec

\* Fewer than max_connections have a session, but for what the drift adds
\* (driver.go, AuthUser).
THEOREM LoginsAreBounded == Spec => []LoggedInBounded
<1>1. ActiveInv => LoggedInBounded
  BY DEF ActiveInv
<1> QED BY <1>1, ActiveInit, ActiveStep, PTL DEF Spec

-----------------------------------------------------------------------------
(* The sessions of a connection *)

LEMMA SessionInit == Init => SessionInv
<1> SUFFICES ASSUME Init PROVE SessionInv
  OBVIOUS
<1>1. live = {} /\ DOMAIN clients = {}
  BY DEF Init
<1> QED BY <1>1 DEF SessionInv, LastSessionEnds

LEMMA SessionStep == ConnInv /\ SessionInv /\ [Next]_connVars => SessionInv'
<1> SUFFICES ASSUME ConnInv, SessionInv, [Next]_connVars PROVE SessionInv'
  OBVIOUS
<1> USE DEF SessionInv, LastSessionEnds
<1>1. TypeOK
  BY DEF ConnInv
<1>2. ASSUME NEW c \in Conns, Register(c) PROVE SessionInv'
  <2>1. /\ sessions' = [sessions EXCEPT ![c] = sessions[c] + 1] /\ sessions[c] \in Nat
        /\ \A d \in DOMAIN clients' : d # c => clients'[d] = clients[d] /\ d \in DOMAIN clients
        /\ c \in DOMAIN clients' /\ clients'[c] = sessions[c] + 1
        /\ DOMAIN clients \subseteq DOMAIN clients'
        /\ live' \subseteq live \cup {<<c, sessions[c] + 1>>}
    BY <1>1, <1>2 DEF Register, TypeOK
  <2>2. sessions'[c] = sessions[c] + 1 /\ \A d \in Conns \ {c} : sessions'[d] = sessions[d]
    BY <1>1, <2>1 DEF TypeOK
  <2>3. \A d \in DOMAIN clients' : clients'[d] = sessions'[d]
    <3> SUFFICES ASSUME NEW d \in DOMAIN clients' PROVE clients'[d] = sessions'[d]
      OBVIOUS
    <3>1. CASE d = c
      BY <2>1, <2>2, <3>1
    <3>2. CASE d # c
      BY <1>1, <2>1, <2>2, <3>2 DEF TypeOK
    <3> QED BY <3>1, <3>2
  <2>4. ASSUME NEW s \in live'
        PROVE  s[2] <= sessions'[s[1]] /\ (s[2] = sessions'[s[1]] => s[1] \in DOMAIN clients')
    <3>1. CASE s = <<c, sessions[c] + 1>>
      BY <2>1, <2>2, <3>1
    <3>2. CASE s \in live
      <4>1. s[1] \in Conns /\ s[2] \in Nat /\ s[2] <= sessions[s[1]]
        BY <1>1, <3>2 DEF TypeOK
      <4>2. CASE s[1] = c
        BY <2>1, <2>2, <4>1, <4>2
      <4>3. CASE s[1] # c
        BY <2>1, <2>2, <3>2, <4>1, <4>3
      <4> QED BY <4>2, <4>3
    <3> QED BY <2>1, <3>1, <3>2
  <2> QED BY <2>3, <2>4
<1>3. ASSUME NEW c \in Conns, Unregister(c) PROVE SessionInv'
  <2>1. /\ sessions' = sessions
        /\ DOMAIN clients' = DOMAIN clients \ {c}
        /\ \A d \in DOMAIN clients' : clients'[d] = clients[d]
        /\ live' = IF c \in DOMAIN clients THEN live \ {<<c, clients[c]>>} ELSE live
    BY <1>3 DEF Unregister
  <2>2. ASSUME NEW s \in live', s[2] = sessions[s[1]] PROVE s[1] \in DOMAIN clients'
    <3>1. s \in live /\ s[1] \in DOMAIN clients
      BY <2>1, <2>2
    <3>2. s = <<s[1], s[2]>>
      BY <1>1, <3>1 DEF TypeOK
    <3>3. s[1] # c
      BY <2>1, <2>2, <3>1, <3>2
    <3> QED BY <2>1, <3>1, <3>3
  <2>3. \A s \in live' : s \in live
    BY <2>1
  <2> QED BY <2>1, <2>2, <2>3
<1>4. ASSUME NEW c \in Conns,
             \/ Admit(c) \/ RefuseConnection(c) \/ MarkAllowed(c) \/ CountActive(c)
             \/ EnterLogin(c) \/ PassLimit(c) \/ RefuseLogin(c)
             \/ StartVerifying(c) \/ AuthFails(c) \/ ReleaseIfAllowed(c) \/ DiscountActive(c)
      PROVE  SessionInv'
  BY <1>4 DEF Admit, RefuseConnection, MarkAllowed, CountActive, EnterLogin, PassLimit,
              RefuseLogin, StartVerifying, AuthFails,
              ReleaseIfAllowed, DiscountActive, sessionVars
<1>5. CASE Sweep
  BY <1>5 DEF Sweep, sessionVars
<1>6. CASE Shutdown
  BY <1>6 DEF Shutdown
<1>7. CASE UNCHANGED connVars
  BY <1>7 DEF connVars, sessionVars
<1> QED BY <1>2, <1>3, <1>4, <1>5, <1>6, <1>7 DEF Next, Connection

\* The last session of a connection ends with it (driver.go, AuthUser and
\* ClientDisconnected).
THEOREM LastSessionsEnd == Spec => []LastSessionEnds
<1>1. SessionInv => LastSessionEnds
  BY DEF SessionInv
<1> QED BY <1>1, SessionInit, SessionStep, ConnectionsInvariant, PTL DEF Spec
=============================================================================
