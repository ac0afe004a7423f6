--------------------------- MODULE LifecycleProofs ---------------------------
(***************************************************************************)
(* Proofs about Lifecycle. LifeInv is inductive; each step of the service  *)
(* keeps it, and its probes take the steps of Readiness and no others, so  *)
(* that what is proved of Readiness holds in the running service.          *)
(***************************************************************************)
EXTENDS Lifecycle, ReadinessProofs

LEMMA LifeInitInv == Init => LifeInv
<1> SUFFICES ASSUME Init PROVE LifeInv
  OBVIOUS
<1> USE LifecycleAssumption DEF Init
<1>0. /\ cancelled \in BOOLEAN /\ driverDown \in BOOLEAN /\ started \in BOOLEAN
      /\ inShutdown \in BOOLEAN /\ stopMonitor \in BOOLEAN /\ timedOut \in BOOLEAN
  BY Zenon
<1>1. TypeOK BY <1>0 DEF TypeOK
<1>2. BirthInv BY DEF BirthInv, Started, HTTPFailed
<1>3. ServeInv BY DEF ServeInv, ProbesIdle, ReadyInit
<1>4. StopInv BY DEF StopInv
<1>5. QED BY <1>1, <1>2, <1>3, <1>4 DEF LifeInv

LEMMA ServiceParts == Service => (RunSteps \/ Others) /\ probe' = probe /\ run # "returned"
BY DEF Service, Alive, readyVars

LEMMA StartServersKeeps == ASSUME LifeInv, StartServers, probe' = probe, run # "returned" PROVE LifeInv'
<1> USE LifecycleAssumption DEF StartServers, RunStep, ftpVars, httpVars, monitorVars
<1>1. TypeOK' BY DEF LifeInv, TypeOK
<1>2. BirthInv' BY DEF LifeInv, TypeOK, BirthInv, Started, HTTPFailed
<1>3. ServeInv'
  BY DEF LifeInv, TypeOK, BirthInv, ServeInv, Started, HTTPFailed, ProbesIdle
<1>4. StopInv'
  BY DEF LifeInv, TypeOK, BirthInv, ServeInv, StopInv, Started, HTTPFailed, ProbesIdle
<1>5. QED BY <1>1, <1>2, <1>3, <1>4 DEF LifeInv

LEMMA StopMonitorKeeps == ASSUME LifeInv, StopMonitor, probe' = probe, run # "returned" PROVE LifeInv'
<1> USE LifecycleAssumption DEF StopMonitor, RunStep, ftpVars, httpVars, monitorVars
<1>1. TypeOK' BY DEF LifeInv, TypeOK
<1>2. BirthInv' BY DEF LifeInv, TypeOK, BirthInv, Started, HTTPFailed
<1>3. ServeInv'
  BY DEF LifeInv, TypeOK, BirthInv, ServeInv, Started, HTTPFailed, ProbesIdle
<1>4. StopInv'
  BY DEF LifeInv, TypeOK, BirthInv, ServeInv, StopInv, Started, HTTPFailed, ProbesIdle
<1>5. QED BY <1>1, <1>2, <1>3, <1>4 DEF LifeInv

LEMMA MonitorStoppedKeeps == ASSUME LifeInv, MonitorStopped, probe' = probe, run # "returned" PROVE LifeInv'
<1> USE LifecycleAssumption DEF MonitorStopped, RunStep, ftpVars, httpVars, monitorVars
<1>1. TypeOK' BY DEF LifeInv, TypeOK
<1>2. BirthInv' BY DEF LifeInv, TypeOK, BirthInv, Started, HTTPFailed
<1>3. ServeInv'
  BY DEF LifeInv, TypeOK, BirthInv, ServeInv, Started, HTTPFailed, ProbesIdle
<1>4. StopInv'
  BY DEF LifeInv, TypeOK, BirthInv, ServeInv, StopInv, Started, HTTPFailed, ProbesIdle
<1>5. QED BY <1>1, <1>2, <1>3, <1>4 DEF LifeInv

LEMMA ShutdownDriverKeeps == ASSUME LifeInv, ShutdownDriver, probe' = probe, run # "returned" PROVE LifeInv'
<1> USE LifecycleAssumption DEF ShutdownDriver, RunStep, ftpVars, httpVars, monitorVars
<1>1. TypeOK' BY DEF LifeInv, TypeOK
<1>2. BirthInv' BY DEF LifeInv, TypeOK, BirthInv, Started, HTTPFailed
<1>3. ServeInv'
  BY DEF LifeInv, TypeOK, BirthInv, ServeInv, Started, HTTPFailed, ProbesIdle
<1>4. StopInv'
  BY DEF LifeInv, TypeOK, BirthInv, ServeInv, StopInv, Started, HTTPFailed, ProbesIdle
<1>5. QED BY <1>1, <1>2, <1>3, <1>4 DEF LifeInv

LEMMA StopFTPKeeps == ASSUME LifeInv, StopFTP, probe' = probe, run # "returned" PROVE LifeInv'
<1> USE LifecycleAssumption DEF StopFTP, RunStep, ftpVars, httpVars, monitorVars
<1>1. TypeOK' BY DEF LifeInv, TypeOK
<1>2. BirthInv' BY DEF LifeInv, TypeOK, BirthInv, Started, HTTPFailed
<1>3. ServeInv'
  BY DEF LifeInv, TypeOK, BirthInv, ServeInv, Started, HTTPFailed, ProbesIdle
<1>4. StopInv'
  BY DEF LifeInv, TypeOK, BirthInv, ServeInv, StopInv, Started, HTTPFailed, ProbesIdle
<1>5. QED BY <1>1, <1>2, <1>3, <1>4 DEF LifeInv

LEMMA StopHTTPKeeps == ASSUME LifeInv, StopHTTP, probe' = probe, run # "returned" PROVE LifeInv'
<1> USE LifecycleAssumption DEF StopHTTP, RunStep, ftpVars, httpVars, monitorVars
<1>1. TypeOK' BY DEF LifeInv, TypeOK
<1>2. BirthInv' BY DEF LifeInv, TypeOK, BirthInv, Started, HTTPFailed
<1>3. ServeInv'
  BY DEF LifeInv, TypeOK, BirthInv, ServeInv, Started, HTTPFailed, ProbesIdle
<1>4. StopInv'
  BY DEF LifeInv, TypeOK, BirthInv, ServeInv, StopInv, Started, HTTPFailed, ProbesIdle
<1>5. QED BY <1>1, <1>2, <1>3, <1>4 DEF LifeInv

LEMMA BeginShutdownKeeps == ASSUME LifeInv, BeginShutdown, probe' = probe, run # "returned" PROVE LifeInv'
<1> USE LifecycleAssumption DEF BeginShutdown, RunStep, ftpVars, httpVars, monitorVars
<1>1. TypeOK' BY DEF LifeInv, TypeOK
<1>2. BirthInv' BY DEF LifeInv, TypeOK, BirthInv, Started, HTTPFailed
<1>3. ServeInv'
  BY DEF LifeInv, TypeOK, BirthInv, ServeInv, Started, HTTPFailed, ProbesIdle
<1>4. StopInv'
  BY DEF LifeInv, TypeOK, BirthInv, ServeInv, StopInv, Started, HTTPFailed, ProbesIdle
<1>5. QED BY <1>1, <1>2, <1>3, <1>4 DEF LifeInv

LEMMA DrainedKeeps == ASSUME LifeInv, Drained, probe' = probe, run # "returned" PROVE LifeInv'
<1> USE LifecycleAssumption DEF Drained, RunStep, ftpVars, httpVars, monitorVars
<1>1. TypeOK' BY DEF LifeInv, TypeOK
<1>2. BirthInv' BY DEF LifeInv, TypeOK, BirthInv, Started, HTTPFailed
<1>3. ServeInv'
  BY DEF LifeInv, TypeOK, BirthInv, ServeInv, Started, HTTPFailed, ProbesIdle
<1>4. StopInv'
  BY DEF LifeInv, TypeOK, BirthInv, ServeInv, StopInv, Started, HTTPFailed, ProbesIdle
<1>5. QED BY <1>1, <1>2, <1>3, <1>4 DEF LifeInv

LEMMA DrainTimesOutKeeps == ASSUME LifeInv, DrainTimesOut, probe' = probe, run # "returned" PROVE LifeInv'
<1> USE LifecycleAssumption DEF DrainTimesOut, RunStep, ftpVars, httpVars, monitorVars
<1>1. TypeOK' BY DEF LifeInv, TypeOK
<1>2. BirthInv' BY DEF LifeInv, TypeOK, BirthInv, Started, HTTPFailed
<1>3. ServeInv'
  BY DEF LifeInv, TypeOK, BirthInv, ServeInv, Started, HTTPFailed, ProbesIdle
<1>4. StopInv'
  BY DEF LifeInv, TypeOK, BirthInv, ServeInv, StopInv, Started, HTTPFailed, ProbesIdle
<1>5. QED BY <1>1, <1>2, <1>3, <1>4 DEF LifeInv

LEMMA JoinServeKeeps == ASSUME LifeInv, JoinServe, probe' = probe, run # "returned" PROVE LifeInv'
<1> USE LifecycleAssumption DEF JoinServe, RunStep, ftpVars, httpVars, monitorVars
<1>0. started' \in BOOLEAN BY Zenon
<1>1. TypeOK' BY <1>0 DEF LifeInv, TypeOK
<1>2. BirthInv' BY DEF LifeInv, TypeOK, BirthInv, Started, HTTPFailed
<1>3. ServeInv'
  BY DEF LifeInv, TypeOK, BirthInv, ServeInv, Started, HTTPFailed, ProbesIdle
<1>4. StopInv'
  BY DEF LifeInv, TypeOK, BirthInv, ServeInv, StopInv, Started, HTTPFailed, ProbesIdle
<1>5. QED BY <1>1, <1>2, <1>3, <1>4 DEF LifeInv

LEMMA JoinServersKeeps == ASSUME LifeInv, JoinServers, probe' = probe, run # "returned" PROVE LifeInv'
<1> USE LifecycleAssumption DEF JoinServers, RunStep, ftpVars, httpVars, monitorVars
<1>1. TypeOK' BY DEF LifeInv, TypeOK
<1>2. BirthInv' BY DEF LifeInv, TypeOK, BirthInv, Started, HTTPFailed
<1>3. ServeInv'
  BY DEF LifeInv, TypeOK, BirthInv, ServeInv, Started, HTTPFailed, ProbesIdle
<1>4. StopInv'
  BY DEF LifeInv, TypeOK, BirthInv, ServeInv, StopInv, Started, HTTPFailed, ProbesIdle
<1>5. QED BY <1>1, <1>2, <1>3, <1>4 DEF LifeInv

LEMMA CancelKeeps == ASSUME LifeInv, Cancel, probe' = probe, run # "returned" PROVE LifeInv'
<1> USE LifecycleAssumption DEF Cancel, ftpVars, httpVars, monitorVars
<1>1. TypeOK' BY DEF LifeInv, TypeOK
<1>2. BirthInv' BY DEF LifeInv, TypeOK, BirthInv, Started, HTTPFailed
<1>3. ServeInv'
  BY DEF LifeInv, TypeOK, BirthInv, ServeInv, Started, HTTPFailed, ProbesIdle
<1>4. StopInv'
  BY DEF LifeInv, TypeOK, BirthInv, ServeInv, StopInv, Started, HTTPFailed, ProbesIdle
<1>5. QED BY <1>1, <1>2, <1>3, <1>4 DEF LifeInv

LEMMA FTPListensKeeps == ASSUME LifeInv, FTPListens, probe' = probe, run # "returned" PROVE LifeInv'
<1> USE LifecycleAssumption DEF FTPListens, FTPStep, ftpVars, httpVars, monitorVars
<1>1. TypeOK' BY DEF LifeInv, TypeOK
<1>2. BirthInv' BY DEF LifeInv, TypeOK, BirthInv, Started, HTTPFailed
<1>3. ServeInv'
  BY DEF LifeInv, TypeOK, BirthInv, ServeInv, Started, HTTPFailed, ProbesIdle
<1>4. StopInv'
  BY DEF LifeInv, TypeOK, BirthInv, ServeInv, StopInv, Started, HTTPFailed, ProbesIdle
<1>5. QED BY <1>1, <1>2, <1>3, <1>4 DEF LifeInv

LEMMA FTPFailsKeeps == ASSUME LifeInv, FTPFails, probe' = probe, run # "returned" PROVE LifeInv'
<1> USE LifecycleAssumption DEF FTPFails, FTPStep, ftpVars, httpVars, monitorVars
<1>1. TypeOK' BY DEF LifeInv, TypeOK
<1>2. BirthInv' BY DEF LifeInv, TypeOK, BirthInv, Started, HTTPFailed
<1>3. ServeInv'
  BY DEF LifeInv, TypeOK, BirthInv, ServeInv, Started, HTTPFailed, ProbesIdle
<1>4. StopInv'
  BY DEF LifeInv, TypeOK, BirthInv, ServeInv, StopInv, Started, HTTPFailed, ProbesIdle
<1>5. QED BY <1>1, <1>2, <1>3, <1>4 DEF LifeInv

LEMMA FTPReturnsKeeps == ASSUME LifeInv, FTPReturns, probe' = probe, run # "returned" PROVE LifeInv'
<1> USE LifecycleAssumption DEF FTPReturns, FTPStep, ftpVars, httpVars, monitorVars
<1>1. TypeOK' BY DEF LifeInv, TypeOK
<1>2. BirthInv' BY DEF LifeInv, TypeOK, BirthInv, Started, HTTPFailed
<1>3. ServeInv'
  BY DEF LifeInv, TypeOK, BirthInv, ServeInv, Started, HTTPFailed, ProbesIdle
<1>4. StopInv'
  BY DEF LifeInv, TypeOK, BirthInv, ServeInv, StopInv, Started, HTTPFailed, ProbesIdle
<1>5. QED BY <1>1, <1>2, <1>3, <1>4 DEF LifeInv

LEMMA HTTPStartsKeeps == ASSUME LifeInv, HTTPStarts, probe' = probe, run # "returned" PROVE LifeInv'
<1> USE LifecycleAssumption DEF HTTPStarts, ftpVars, httpVars, monitorVars
<1>1. TypeOK' BY DEF LifeInv, TypeOK
<1>2. BirthInv' BY DEF LifeInv, TypeOK, BirthInv, Started, HTTPFailed
<1>3. ServeInv'
  BY DEF LifeInv, TypeOK, BirthInv, ServeInv, Started, HTTPFailed, ProbesIdle
<1>4. StopInv'
  BY DEF LifeInv, TypeOK, BirthInv, ServeInv, StopInv, Started, HTTPFailed, ProbesIdle
<1>5. QED BY <1>1, <1>2, <1>3, <1>4 DEF LifeInv

LEMMA HTTPBindsKeeps == ASSUME LifeInv, HTTPBinds, probe' = probe, run # "returned" PROVE LifeInv'
<1> USE LifecycleAssumption DEF HTTPBinds, ftpVars, httpVars, monitorVars
<1>1. TypeOK' BY DEF LifeInv, TypeOK
<1>2. BirthInv' BY DEF LifeInv, TypeOK, BirthInv, Started, HTTPFailed
<1>3. ServeInv'
  BY DEF LifeInv, TypeOK, BirthInv, ServeInv, Started, HTTPFailed, ProbesIdle
<1>4. StopInv'
  BY DEF LifeInv, TypeOK, BirthInv, ServeInv, StopInv, Started, HTTPFailed, ProbesIdle
<1>5. QED BY <1>1, <1>2, <1>3, <1>4 DEF LifeInv

LEMMA HTTPBindFailsKeeps == ASSUME LifeInv, HTTPBindFails, probe' = probe, run # "returned" PROVE LifeInv'
<1> USE LifecycleAssumption DEF HTTPBindFails, ftpVars, httpVars, monitorVars
<1>0. started' \in BOOLEAN BY Zenon
<1>1. TypeOK' BY <1>0 DEF LifeInv, TypeOK
<1>2. BirthInv' BY DEF LifeInv, TypeOK, BirthInv, Started, HTTPFailed
<1>3. ServeInv'
  BY DEF LifeInv, TypeOK, BirthInv, ServeInv, Started, HTTPFailed, ProbesIdle
<1>4. StopInv'
  BY DEF LifeInv, TypeOK, BirthInv, ServeInv, StopInv, Started, HTTPFailed, ProbesIdle
<1>5. QED BY <1>1, <1>2, <1>3, <1>4 DEF LifeInv

LEMMA HTTPSpawnsServeKeeps == ASSUME LifeInv, HTTPSpawnsServe, probe' = probe, run # "returned" PROVE LifeInv'
<1> USE LifecycleAssumption DEF HTTPSpawnsServe, ftpVars, httpVars, monitorVars
<1>1. TypeOK' BY DEF LifeInv, TypeOK
<1>2. BirthInv' BY DEF LifeInv, TypeOK, BirthInv, Started, HTTPFailed
<1>3. ServeInv'
  BY DEF LifeInv, TypeOK, BirthInv, ServeInv, Started, HTTPFailed, ProbesIdle
<1>4. StopInv'
  BY DEF LifeInv, TypeOK, BirthInv, ServeInv, StopInv, Started, HTTPFailed, ProbesIdle
<1>5. QED BY <1>1, <1>2, <1>3, <1>4 DEF LifeInv

LEMMA ServeKeeps == ASSUME LifeInv, Serve, probe' = probe, run # "returned" PROVE LifeInv'
<1> USE LifecycleAssumption DEF Serve, ServeStep, ftpVars, httpVars, monitorVars
<1>1. TypeOK' BY DEF LifeInv, TypeOK
<1>2. BirthInv' BY DEF LifeInv, TypeOK, BirthInv, Started, HTTPFailed
<1>3. ServeInv'
  BY DEF LifeInv, TypeOK, BirthInv, ServeInv, Started, HTTPFailed, ProbesIdle
<1>4. StopInv'
  BY DEF LifeInv, TypeOK, BirthInv, ServeInv, StopInv, Started, HTTPFailed, ProbesIdle
<1>5. QED BY <1>1, <1>2, <1>3, <1>4 DEF LifeInv

LEMMA ServeReturnsKeeps == ASSUME LifeInv, ServeReturns, probe' = probe, run # "returned" PROVE LifeInv'
<1> USE LifecycleAssumption DEF ServeReturns, ServeStep, ftpVars, httpVars, monitorVars
<1>1. TypeOK' BY DEF LifeInv, TypeOK
<1>2. BirthInv' BY DEF LifeInv, TypeOK, BirthInv, Started, HTTPFailed
<1>3. ServeInv'
  BY DEF LifeInv, TypeOK, BirthInv, ServeInv, Started, HTTPFailed, ProbesIdle
<1>4. StopInv'
  BY DEF LifeInv, TypeOK, BirthInv, ServeInv, StopInv, Started, HTTPFailed, ProbesIdle
<1>5. QED BY <1>1, <1>2, <1>3, <1>4 DEF LifeInv

LEMMA MonitorStopsKeeps == ASSUME LifeInv, MonitorStops, probe' = probe, run # "returned" PROVE LifeInv'
<1> USE LifecycleAssumption DEF MonitorStops, ftpVars, httpVars, monitorVars
<1>1. TypeOK' BY DEF LifeInv, TypeOK
<1>2. BirthInv' BY DEF LifeInv, TypeOK, BirthInv, Started, HTTPFailed
<1>3. ServeInv'
  BY DEF LifeInv, TypeOK, BirthInv, ServeInv, Started, HTTPFailed, ProbesIdle
<1>4. StopInv'
  BY DEF LifeInv, TypeOK, BirthInv, ServeInv, StopInv, Started, HTTPFailed, ProbesIdle
<1>5. QED BY <1>1, <1>2, <1>3, <1>4 DEF LifeInv

LEMMA ServiceKeeps == ASSUME LifeInv, Service PROVE LifeInv'
<1>1. probe' = probe /\ run # "returned" BY ServiceParts
<1>2. CASE RunSteps
  BY <1>1, <1>2, StartServersKeeps, StopMonitorKeeps, MonitorStoppedKeeps, ShutdownDriverKeeps, StopFTPKeeps, StopHTTPKeeps,
     BeginShutdownKeeps, DrainedKeeps, DrainTimesOutKeeps, JoinServeKeeps, JoinServersKeeps
  DEF RunSteps
<1>3. CASE Others
  BY <1>1, <1>3, CancelKeeps, FTPListensKeeps, FTPFailsKeeps, FTPReturnsKeeps, HTTPStartsKeeps,
     HTTPBindsKeeps, HTTPBindFailsKeeps, HTTPSpawnsServeKeeps, ServeKeeps, ServeReturnsKeeps, MonitorStopsKeeps
  DEF Others, HTTPSteps
<1>4. QED BY <1>2, <1>3, ServiceParts

\* The probes come in while the listener accepts, and are only answered after.
LEMMA WorldKeeps == ASSUME LifeInv, World PROVE LifeInv'
<1> USE LifecycleAssumption DEF serviceVars, ftpVars, httpVars, monitorVars
<1>1. CASE \E p \in Probes : ProbeArrives(p)
  <2>1. PICK p \in Probes : ProbeArrives(p) BY <1>1
  <2>2. serve = "accepting" /\ started /\ ~inShutdown /\ ~HTTPFailed
    BY <2>1 DEF ProbeArrives, LifeInv, ServeInv, BirthInv, HTTPFailed
  <2>3. UNCHANGED serviceVars BY <2>1 DEF ProbeArrives
  <2>4. TypeOK' /\ BirthInv' BY <2>3 DEF LifeInv, TypeOK, BirthInv, Started, HTTPFailed
  <2>5. ServeInv' BY <2>2, <2>3 DEF LifeInv, ServeInv, ProbesIdle
  <2>6. StopInv' BY <2>2, <2>3 DEF LifeInv, StopInv, ProbesIdle, HTTPFailed
  <2>7. QED BY <2>4, <2>5, <2>6 DEF LifeInv
<1>2. CASE (\E p \in Probes : GetMutex(p) \/ GoOn(p)) \/ BackendRecovers
  <2>1. UNCHANGED serviceVars BY <1>2 DEF GetMutex, GoOn, BackendRecovers
  <2>2. ProbesIdle => ProbesIdle'
    BY <1>2 DEF ProbesIdle, GetMutex, GoOn, BackendRecovers, Acquire, Round, ServeCached,
         StartRound, CheckOCIS, CheckWebDAV, EndRound, Recover
  <2>3. QED BY <2>1, <2>2
    DEF LifeInv, TypeOK, BirthInv, ServeInv, StopInv, Started, HTTPFailed
<1>3. CASE TimePasses
  <2>1. ProbesIdle => ProbesIdle' BY <1>3 DEF ProbesIdle, TimePasses, Tick
  <2>2. drain' \in 0..ShutdownTimeout BY <1>3 DEF TimePasses, LifeInv, TypeOK
  <2>3. UNCHANGED <<run, cancelled, ftpVars, http, started, serve, inShutdown, httpAtStop,
                    timedOut, monitorVars>> BY <1>3 DEF TimePasses
  <2>4. QED BY <2>1, <2>2, <2>3
    DEF LifeInv, TypeOK, BirthInv, ServeInv, StopInv, Started, HTTPFailed
<1>4. QED BY <1>1, <1>2, <1>3 DEF World

LEMMA LifeStepInv == ASSUME LifeInv, [Next]_lifeVars PROVE LifeInv'
<1>1. CASE UNCHANGED lifeVars
  BY <1>1 DEF lifeVars, readyVars, serviceVars, ftpVars, httpVars, monitorVars, LifeInv, TypeOK,
       BirthInv, ServeInv, StopInv, Started, HTTPFailed, ProbesIdle
<1>2. QED BY <1>1, ServiceKeeps, WorldKeeps DEF Next

\* How far the goroutines can be at each point of Run.
THEOREM LifeInvHolds == Spec => []LifeInv
<1>1. Init => LifeInv BY LifeInitInv
<1>2. LifeInv /\ [Next]_lifeVars => LifeInv' BY LifeStepInv
<1>3. QED BY <1>1, <1>2, PTL DEF Spec

\* Whatever the start had reached when the signal came, what Run leaves behind
\* when it returns is a server that had not started, or probes it gave up.
THEOREM QuietWhenReturned == Spec => []QuietAfterReturn
<1>1. LifeInv => QuietAfterReturn
  BY DEF LifeInv, TypeOK, ServeInv, StopInv, QuietAfterReturn, HTTPFailed, ProbesIdle
<1>2. QED BY <1>1, LifeInvHolds, PTL

\* started is true of a server that accepts, and false only of one that is quiet.
THEOREM StartedMeansStarted == Spec => []StartedIsTrue
<1>1. LifeInv => StartedIsTrue
  BY DEF LifeInv, ServeInv, StopInv, StartedIsTrue, ProbesIdle
<1>2. QED BY <1>1, LifeInvHolds, PTL

\* Every behaviour of the service is one of Readiness.
THEOREM ServiceIsReadiness == Spec => ReadySpec
<1>1. Init => ReadyInit BY DEF Init
<1>2. [Next]_lifeVars => [ReadyNext]_readyVars
  <2>1. Service => UNCHANGED readyVars BY DEF Service, Alive
  <2>2. World => ReadyNext
    BY DEF World, ProbeArrives, GetMutex, GoOn, BackendRecovers, TimePasses, ReadyNext
  <2>3. UNCHANGED lifeVars => UNCHANGED readyVars BY DEF lifeVars
  <2>4. QED BY <2>1, <2>2, <2>3 DEF Next
<1>3. QED BY <1>1, <1>2, PTL DEF Spec, ReadySpec

\* In the running service, up to its end: probes wait no longer than one round,
\* are told the truth of the last TTL, and cause one round per TTL.
THEOREM ServiceIsReady == Spec => []WaitBounded /\ ReadyWasUp /\ OneRoundPerTTL
BY ServiceIsReadiness, WaitsAreBounded, ReadyIsRecent, RoundsAreSpaced, PTL

\* The invariant of the whole service (server.go, Run; http/server.go).
THEOREM ServiceInvHolds == Spec => []ServiceInv
<1>1. LifeInv /\ ReadyInv => ServiceInv BY DEF ServiceInv
<1>2. QED BY <1>1, LifeInvHolds, ServiceIsReadiness, ReadyInvHolds, PTL

-----------------------------------------------------------------------------
(* What Run waits for, and how long the service can go on. That the steps    *)
(* left are taken is fairness, which the runs of TLC assume.                 *)

\* Run has closed stopChan before it waits for the monitor, and has told the
\* FTP server to stop by the time it turns to the operations server.
FTPTold == run \in {"stoppingHTTP", "shuttingDown", "draining", "joining", "waiting", "returned"}
ToldInv ==
  /\ run \notin {"starting", "serving"} => cancelled /\ stopMonitor
  /\ FTPTold => ftpAtStop = "spawned" \/ ftp \in {"closed", "done"}

\* Run never waits for a goroutine that nobody told to end: not for a monitor
\* whose stopChan is open, nor for a Serve that still accepts, nor for an FTP
\* server that listens, unless that one had no listener yet when it was told
\* to stop and got one afterwards (server.go:164-183, http/server.go:668-693).
WaitsForTheTold ==
  /\ run = "stoppingMonitor" => stopMonitor
  /\ run = "joining" => serve # "accepting"
  /\ run = "waiting" => ftp # "listening" \/ ftpAtStop = "spawned"

LEMMA ToldInvStep == ASSUME LifeInv, ToldInv, [Next]_lifeVars PROVE ToldInv'
<1> USE DEF ToldInv, FTPTold
<1>1. CASE Service
  <2> USE DEF RunStep, FTPStep, ServeStep, ftpVars, httpVars, monitorVars
  <2>1. CASE StartServers \/ StopMonitor \/ MonitorStopped \/ ShutdownDriver
    BY <2>1 DEF StartServers, StopMonitor, MonitorStopped, ShutdownDriver
  <2>2. CASE StopFTP
    BY <2>2 DEF StopFTP, LifeInv, TypeOK, BirthInv, Started
  <2>3. CASE StopHTTP \/ BeginShutdown \/ Drained \/ DrainTimesOut \/ JoinServe \/ JoinServers
    BY <2>3 DEF StopHTTP, BeginShutdown, Drained, DrainTimesOut, JoinServe, JoinServers
  <2>4. CASE Cancel \/ FTPListens \/ FTPFails \/ FTPReturns
    BY <2>4 DEF Cancel, FTPListens, FTPFails, FTPReturns
  <2>5. CASE HTTPSteps \/ MonitorStops
    BY <2>5 DEF HTTPSteps, HTTPStarts, HTTPBinds, HTTPBindFails, HTTPSpawnsServe, Serve,
         ServeReturns, MonitorStops
  <2>6. QED BY <1>1, <2>1, <2>2, <2>3, <2>4, <2>5 DEF Service, RunSteps, Others
<1>2. CASE World \/ UNCHANGED lifeVars
  <2>1. UNCHANGED <<run, cancelled, stopMonitor, ftp, ftpAtStop>>
    BY <1>2 DEF World, ProbeArrives, GetMutex, GoOn, BackendRecovers, TimePasses, lifeVars,
         serviceVars, ftpVars, monitorVars
  <2>2. QED BY <2>1
<1>3. QED BY <1>1, <1>2 DEF Next

\* What Run waits for has been told to end, and the one that may not have heard
\* it is an FTP server that found its listener too late.
THEOREM RunWaitsForTheTold == Spec => []WaitsForTheTold
<1>1. Init => ToldInv BY DEF Init, ToldInv, FTPTold
<1>2. LifeInv /\ ToldInv /\ [Next]_lifeVars => ToldInv' BY ToldInvStep
<1>3. LifeInv /\ ToldInv => WaitsForTheTold
  BY DEF LifeInv, ServeInv, ToldInv, FTPTold, WaitsForTheTold
<1>4. QED BY <1>1, <1>2, <1>3, LifeInvHolds, PTL DEF Spec

\* How many steps Run and each of its goroutines can take yet.
RunLeft ==
  [starting |-> 10, serving |-> 9, stoppingMonitor |-> 8, stoppingFTP |-> 7, closingFTP |-> 6,
   stoppingHTTP |-> 5, shuttingDown |-> 4, draining |-> 3, joining |-> 2, waiting |-> 1,
   returned |-> 0]
FTPLeft == [unborn |-> 4, spawned |-> 3, listening |-> 2, closed |-> 1, done |-> 0]
HTTPLeft == [unborn |-> 4, spawned |-> 3, started |-> 2, bound |-> 1, done |-> 0]
ServeLeft == [unborn |-> 4, spawned |-> 3, accepting |-> 2, closed |-> 1, done |-> 0]
MonitorLeft == [unborn |-> 2, waiting |-> 1, done |-> 0]

StepsLeft == RunLeft[run] + FTPLeft[ftp] + HTTPLeft[http] + ServeLeft[serve] + MonitorLeft[monitor]

LEMMA LeftAreNumbers ==
  ASSUME LifeInv
  PROVE  /\ RunLeft[run] \in 0..10 /\ FTPLeft[ftp] \in 0..4 /\ HTTPLeft[http] \in 0..4
         /\ ServeLeft[serve] \in 0..4 /\ MonitorLeft[monitor] \in 0..2
<1>1. RunLeft[run] \in 0..10 BY DEF LifeInv, TypeOK, RunLeft
<1>2. FTPLeft[ftp] \in 0..4 BY DEF LifeInv, TypeOK, FTPLeft
<1>3. HTTPLeft[http] \in 0..4 BY DEF LifeInv, TypeOK, HTTPLeft
<1>4. ServeLeft[serve] \in 0..4 BY DEF LifeInv, TypeOK, ServeLeft
<1>5. MonitorLeft[monitor] \in 0..2 BY DEF LifeInv, TypeOK, MonitorLeft
<1>6. QED BY <1>1, <1>2, <1>3, <1>4, <1>5

\* The steps left are a number, and no more than 24.
LEMMA StepsLeftBounded == ASSUME LifeInv PROVE StepsLeft \in 0..24
BY LeftAreNumbers DEF StepsLeft

LEMMA RunTakesOne == ASSUME LifeInv, RunSteps PROVE StepsLeft' < StepsLeft
<1> USE DEF RunStep, ftpVars, httpVars, monitorVars
<1>1. CASE StartServers
  <2>1. FTPLeft[ftp] = 4 /\ FTPLeft[ftp'] = 3 /\ HTTPLeft[http] = 4 /\ HTTPLeft[http'] = 3
    BY <1>1 DEF StartServers, LifeInv, BirthInv, Started, FTPLeft, HTTPLeft
  <2>2. MonitorLeft[monitor] = 2 /\ MonitorLeft[monitor'] \in 0..1
    BY <1>1 DEF StartServers, LifeInv, BirthInv, Started, MonitorLeft
  <2>3. RunLeft[run] = 10 /\ RunLeft[run'] = 9 BY <1>1 DEF StartServers, RunLeft
  <2>4. serve' = serve BY <1>1 DEF StartServers
  <2>5. QED BY <2>1, <2>2, <2>3, <2>4, LeftAreNumbers DEF StepsLeft
<1>2. CASE StopFTP
  <2>1. RunLeft[run] = 6 /\ RunLeft[run'] = 5 BY <1>2 DEF StopFTP, RunLeft
  <2>2. FTPLeft[ftp] \in 0..4 /\ FTPLeft[ftp'] \in 0..FTPLeft[ftp]
    BY <1>2 DEF StopFTP, LifeInv, TypeOK, FTPLeft
  <2>3. UNCHANGED <<http, serve, monitor>> BY <1>2 DEF StopFTP
  <2>4. QED BY <2>1, <2>2, <2>3, LeftAreNumbers DEF StepsLeft
<1>3. CASE BeginShutdown
  <2>1. RunLeft[run] = 4 /\ RunLeft[run'] = 3 BY <1>3 DEF BeginShutdown, RunLeft
  <2>2. ServeLeft[serve] \in 0..4 /\ ServeLeft[serve'] \in 0..ServeLeft[serve]
    BY <1>3 DEF BeginShutdown, LifeInv, TypeOK, ServeLeft
  <2>3. UNCHANGED <<ftp, http, monitor>> BY <1>3 DEF BeginShutdown
  <2>4. QED BY <2>1, <2>2, <2>3, LeftAreNumbers DEF StepsLeft
<1>4. CASE StopMonitor \/ MonitorStopped \/ ShutdownDriver \/ StopHTTP \/ Drained
           \/ DrainTimesOut \/ JoinServe \/ JoinServers
  <2>1. RunLeft[run'] < RunLeft[run] /\ RunLeft[run] \in 0..10 /\ RunLeft[run'] \in 0..10
    BY <1>4 DEF StopMonitor, MonitorStopped, ShutdownDriver, StopHTTP, Drained, DrainTimesOut,
         JoinServe, JoinServers, RunLeft
  <2>2. UNCHANGED <<ftp, http, serve, monitor>>
    BY <1>4 DEF StopMonitor, MonitorStopped, ShutdownDriver, StopHTTP, Drained, DrainTimesOut,
         JoinServe, JoinServers
  <2>3. QED BY <2>1, <2>2, LeftAreNumbers DEF StepsLeft
<1>5. QED BY <1>1, <1>2, <1>3, <1>4 DEF RunSteps

LEMMA OthersTakeOne == ASSUME LifeInv, Others, ~Cancel PROVE StepsLeft' < StepsLeft
<1>1. CASE FTPListens \/ FTPFails \/ FTPReturns
  <2>1. FTPLeft[ftp] \in 0..4 /\ FTPLeft[ftp'] \in 0..4 /\ FTPLeft[ftp'] < FTPLeft[ftp]
    BY <1>1 DEF FTPListens, FTPFails, FTPReturns, FTPStep, FTPLeft
  <2>2. UNCHANGED <<run, http, serve, monitor>>
    BY <1>1 DEF FTPListens, FTPFails, FTPReturns, FTPStep, httpVars, monitorVars
  <2>3. QED BY <2>1, <2>2, LeftAreNumbers DEF StepsLeft
<1>2. CASE HTTPStarts \/ HTTPBinds \/ HTTPBindFails
  <2>1. HTTPLeft[http] \in 0..4 /\ HTTPLeft[http'] \in 0..4 /\ HTTPLeft[http'] < HTTPLeft[http]
    BY <1>2 DEF HTTPStarts, HTTPBinds, HTTPBindFails, HTTPLeft
  <2>2. UNCHANGED <<run, ftp, serve, monitor>>
    BY <1>2 DEF HTTPStarts, HTTPBinds, HTTPBindFails, ftpVars, monitorVars
  <2>3. QED BY <2>1, <2>2, LeftAreNumbers DEF StepsLeft
<1>3. CASE HTTPSpawnsServe
  <2>1. HTTPLeft[http] = 1 /\ HTTPLeft[http'] = 0 BY <1>3 DEF HTTPSpawnsServe, HTTPLeft
  <2>2. ServeLeft[serve] = 4 /\ ServeLeft[serve'] = 3
    BY <1>3 DEF HTTPSpawnsServe, LifeInv, BirthInv, ServeLeft
  <2>3. UNCHANGED <<run, ftp, monitor>> BY <1>3 DEF HTTPSpawnsServe, ftpVars, monitorVars
  <2>4. QED BY <2>1, <2>2, <2>3, LeftAreNumbers DEF StepsLeft
<1>4. CASE Serve \/ ServeReturns
  <2>1. ServeLeft[serve] \in 0..4 /\ ServeLeft[serve'] \in 0..4 /\ ServeLeft[serve'] < ServeLeft[serve]
    BY <1>4 DEF Serve, ServeReturns, ServeStep, ServeLeft
  <2>2. UNCHANGED <<run, ftp, http, monitor>>
    BY <1>4 DEF Serve, ServeReturns, ServeStep, ftpVars, monitorVars
  <2>3. QED BY <2>1, <2>2, LeftAreNumbers DEF StepsLeft
<1>5. CASE MonitorStops
  <2>1. MonitorLeft[monitor] = 1 /\ MonitorLeft[monitor'] = 0 BY <1>5 DEF MonitorStops, MonitorLeft
  <2>2. UNCHANGED <<run, ftp, http, serve>> BY <1>5 DEF MonitorStops, ftpVars, httpVars
  <2>3. QED BY <2>1, <2>2, LeftAreNumbers DEF StepsLeft
<1>6. QED BY <1>1, <1>2, <1>3, <1>4, <1>5 DEF Others, HTTPSteps

LEMMA NobodyAddsSteps == ASSUME World \/ Cancel \/ UNCHANGED lifeVars PROVE StepsLeft' = StepsLeft
<1>1. UNCHANGED <<run, ftp, http, serve, monitor>>
  BY DEF World, ProbeArrives, GetMutex, GoOn, BackendRecovers, TimePasses, Cancel, lifeVars,
       serviceVars, ftpVars, httpVars, monitorVars
<1>2. QED BY <1>1 DEF StepsLeft

\* From its start to its return the service takes at most 24 steps of its own
\* besides the signal: no goroutine of it is ever started twice or goes round
\* in circles, and neither probes, nor backends, nor time give it more to do
\* (server.go, Run; http/server.go, Run and Stop; monitor.go). The half of
\* ReturnsOnceListening that needs no fairness.
THEOREM ServiceComesToAnEnd ==
  Spec => /\ [](StepsLeft \in 0..24)
          /\ [][Service /\ ~Cancel => StepsLeft' < StepsLeft]_lifeVars
          /\ [][World \/ Cancel => StepsLeft' = StepsLeft]_lifeVars
<1>1. LifeInv => StepsLeft \in 0..24 BY StepsLeftBounded
<1>2. LifeInv /\ [Next]_lifeVars => [Service /\ ~Cancel => StepsLeft' < StepsLeft]_lifeVars
  BY ServiceParts, RunTakesOne, OthersTakeOne
<1>3. [Next]_lifeVars => [World \/ Cancel => StepsLeft' = StepsLeft]_lifeVars
  BY NobodyAddsSteps
<1>4. QED BY <1>1, <1>2, <1>3, LifeInvHolds, PTL DEF Spec
=============================================================================
