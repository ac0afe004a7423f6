------------------------------- MODULE Lifecycle -------------------------------
(***************************************************************************)
(* The service of pkg/server/server.go from Run to its return, with the    *)
(* servers it starts: the FTP server, the operations HTTP server           *)
(* (pkg/http/server.go, Run and Stop) with the probes of Readiness, and    *)
(* the spool monitor (pkg/spool/monitor.go).                               *)
(*                                                                         *)
(* Run starts three goroutines, waits for the context, stops the three in  *)
(* turn and waits for the first two.  Nothing makes it wait until they     *)
(* listen, so the context may be done at any point of their start.  When   *)
(* Run returns, main returns: nothing moves any more.                      *)
(*                                                                         *)
(* External: ftpserverlib's Stop closes the listener and returns an error  *)
(* when there is none yet (server_test.go:466); net/http's Shutdown closes *)
(* the listeners it serves, waits for the requests under way, and makes a  *)
(* later Serve close its listener and return.                              *)
(***************************************************************************)
EXTENDS Readiness

CONSTANTS
  Monitored,       \* spool.monitoring.enabled
  ShutdownTimeout  \* of OperationsServer.Stop

ASSUME LifecycleAssumption == Monitored \in BOOLEAN /\ ShutdownTimeout \in Nat

VARIABLES
  run,        \* where service.Run is
  cancelled,  \* its context is done
  driverDown, \* BridgeDriver.shutdownChan is closed
  ftp,        \* the goroutine of runFTPServer
  http,       \* the goroutine of runHTTPServer
  started,    \* OperationsServer.started
  serve,      \* the goroutine of http.Server.Serve
  inShutdown, \* http.Server.inShutdown
  drain,      \* time in Shutdown
  monitor,    \* the goroutine of monitorLoop
  stopMonitor,\* Monitor.stopChan is closed
  ftpAtStop,  \* history: ftp when it was told to stop
  httpAtStop, \* history: http when it was told to stop
  timedOut    \* history: Shutdown gave up

ftpVars == <<ftp, driverDown, ftpAtStop>>
httpVars == <<http, started, serve, inShutdown, drain, httpAtStop, timedOut>>
monitorVars == <<monitor, stopMonitor>>
serviceVars == <<run, cancelled, ftpVars, httpVars, monitorVars>>
lifeVars == <<readyVars, serviceVars>>

Init ==
  /\ ReadyInit
  /\ run = "starting"
  /\ cancelled = FALSE
  /\ driverDown = FALSE
  /\ ftp = "unborn"
  /\ http = "unborn"
  /\ started = FALSE
  /\ serve = "unborn"
  /\ inShutdown = FALSE
  /\ drain = 0
  /\ monitor = "unborn"
  /\ stopMonitor = FALSE
  /\ ftpAtStop = "unborn"
  /\ httpAtStop = "unborn"
  /\ timedOut = FALSE

RunStep(from, to) == run = from /\ run' = to

-----------------------------------------------------------------------------
(* service.Run *)

StartServers ==
  /\ RunStep("starting", "serving")
  /\ ftp' = "spawned"
  /\ http' = "spawned"
  /\ monitor' = IF Monitored THEN "waiting" ELSE "done"
  /\ UNCHANGED <<cancelled, driverDown, ftpAtStop, started, serve, inShutdown, drain,
                 httpAtStop, timedOut, stopMonitor>>

\* SIGINT or SIGTERM, at any time.
Cancel ==
  /\ ~cancelled /\ run \in {"starting", "serving"}
  /\ cancelled' = TRUE
  /\ UNCHANGED <<run, ftpVars, httpVars, monitorVars>>

\* Monitor.Stop closes stopChan, and waits in the next step.
StopMonitor ==
  /\ cancelled
  /\ RunStep("serving", "stoppingMonitor")
  /\ stopMonitor' = TRUE
  /\ UNCHANGED <<cancelled, ftpVars, httpVars, monitor>>

MonitorStopped ==
  /\ monitor = "done"
  /\ RunStep("stoppingMonitor", "stoppingFTP")
  /\ UNCHANGED <<cancelled, ftpVars, httpVars, monitorVars>>

ShutdownDriver ==
  /\ RunStep("stoppingFTP", "closingFTP")
  /\ driverDown' = TRUE
  /\ UNCHANGED <<cancelled, ftp, ftpAtStop, httpVars, monitorVars>>

\* Mutant: the listener is not closed.
LeaveFTPListening ==
  /\ RunStep("closingFTP", "stoppingHTTP")
  /\ ftpAtStop' = ftp
  /\ UNCHANGED <<cancelled, ftp, driverDown, httpVars, monitorVars>>

\* Without a listener Stop returns an error, which is logged.
StopFTP ==
  /\ RunStep("closingFTP", "stoppingHTTP")
  /\ ftp' = IF ftp = "listening" THEN "closed" ELSE ftp
  /\ ftpAtStop' = ftp
  /\ UNCHANGED <<cancelled, driverDown, httpVars, monitorVars>>

\* OperationsServer.Stop reads started, and returns when it is not set.
StopHTTP ==
  /\ run = "stoppingHTTP"
  /\ run' = IF started THEN "shuttingDown" ELSE "waiting"
  /\ httpAtStop' = http
  /\ UNCHANGED <<cancelled, ftpVars, http, started, serve, inShutdown, drain, timedOut, monitorVars>>

BeginShutdown ==
  /\ RunStep("shuttingDown", "draining")
  /\ inShutdown' = TRUE
  /\ serve' = IF serve = "accepting" THEN "closed" ELSE serve
  /\ UNCHANGED <<cancelled, ftpVars, http, started, drain, httpAtStop, timedOut, monitorVars>>

Drained ==
  /\ \A p \in Probes : probe[p] = "idle"
  /\ RunStep("draining", "joining")
  /\ UNCHANGED <<cancelled, ftpVars, httpVars, monitorVars>>

\* Mutant: the server that could not be shut down in time is forgotten.
DrainForgets ==
  /\ drain >= ShutdownTimeout
  /\ RunStep("draining", "waiting")
  /\ timedOut' = TRUE
  /\ started' = FALSE
  /\ UNCHANGED <<cancelled, ftpVars, http, serve, inShutdown, drain, httpAtStop, monitorVars>>

\* Stop returns an error, which is logged; started stays set.
DrainTimesOut ==
  /\ drain >= ShutdownTimeout
  /\ RunStep("draining", "waiting")
  /\ timedOut' = TRUE
  /\ UNCHANGED <<cancelled, ftpVars, http, started, serve, inShutdown, drain, httpAtStop, monitorVars>>

\* The WaitGroup of the operations server counts the goroutine of Serve.
JoinServe ==
  /\ serve \in {"unborn", "done"}
  /\ RunStep("joining", "waiting")
  /\ started' = FALSE
  /\ UNCHANGED <<cancelled, ftpVars, http, serve, inShutdown, drain, httpAtStop, timedOut, monitorVars>>

\* Mutant: the goroutine of the FTP server is not counted in the WaitGroup.
JoinHTTPOnly ==
  /\ http = "done"
  /\ RunStep("waiting", "returned")
  /\ UNCHANGED <<cancelled, ftpVars, httpVars, monitorVars>>

JoinServers ==
  /\ ftp = "done" /\ http = "done"
  /\ RunStep("waiting", "returned")
  /\ UNCHANGED <<cancelled, ftpVars, httpVars, monitorVars>>

RunSteps ==
  \/ StartServers \/ StopMonitor \/ MonitorStopped \/ ShutdownDriver \/ StopFTP
  \/ StopHTTP \/ BeginShutdown \/ Drained \/ DrainTimesOut \/ JoinServe \/ JoinServers

-----------------------------------------------------------------------------
(* The other goroutines *)

FTPStep(from, to) ==
  /\ ftp = from /\ ftp' = to
  /\ UNCHANGED <<run, cancelled, driverDown, ftpAtStop, httpVars, monitorVars>>

FTPListens == FTPStep("spawned", "listening")

\* The address is taken, or accepting fails: an error, which is logged.
FTPFails == \E from \in {"spawned", "listening"} : FTPStep(from, "done")

FTPReturns == FTPStep("closed", "done")

\* OperationsServer.Run sets started first.
HTTPStarts ==
  /\ http = "spawned" /\ http' = "started"
  /\ started' = TRUE
  /\ UNCHANGED <<run, cancelled, ftpVars, serve, inShutdown, drain, httpAtStop, timedOut, monitorVars>>

HTTPBinds ==
  /\ http = "started" /\ http' = "bound"
  /\ UNCHANGED <<run, cancelled, ftpVars, started, serve, inShutdown, drain, httpAtStop, timedOut, monitorVars>>

HTTPBindFails ==
  /\ http = "started" /\ http' = "done"
  /\ started' = FALSE
  /\ UNCHANGED <<run, cancelled, ftpVars, serve, inShutdown, drain, httpAtStop, timedOut, monitorVars>>

\* Run returns when the goroutine of Serve is spawned.
HTTPSpawnsServe ==
  /\ http = "bound" /\ http' = "done"
  /\ serve' = "spawned"
  /\ UNCHANGED <<run, cancelled, ftpVars, started, inShutdown, drain, httpAtStop, timedOut, monitorVars>>

ServeStep(from, to) ==
  /\ serve = from /\ serve' = to
  /\ UNCHANGED <<run, cancelled, ftpVars, http, started, inShutdown, drain, httpAtStop, timedOut, monitorVars>>

Serve == ServeStep("spawned", IF inShutdown THEN "done" ELSE "accepting")

ServeReturns == ServeStep("closed", "done")

HTTPSteps == HTTPStarts \/ HTTPBinds \/ HTTPBindFails \/ HTTPSpawnsServe \/ Serve \/ ServeReturns

\* select chooses among the channels that are ready. The check that it makes
\* when the ticker fires only sets gauges, which are left out.
MonitorStops ==
  /\ stopMonitor
  /\ monitor = "waiting" /\ monitor' = "done"
  /\ UNCHANGED <<run, cancelled, ftpVars, httpVars, stopMonitor>>

Others ==
  \/ Cancel \/ FTPListens \/ FTPFails \/ FTPReturns \/ HTTPSteps \/ MonitorStops

Alive == run # "returned" /\ UNCHANGED readyVars

Service == (RunSteps \/ Others) /\ Alive

-----------------------------------------------------------------------------
(* The probes, while there is somebody to answer them *)

ProbeArrives(p) ==
  /\ run # "returned" /\ serve = "accepting"
  /\ Arrive(p)
  /\ UNCHANGED serviceVars

GetMutex(p) == run # "returned" /\ Acquire(p) /\ UNCHANGED serviceVars
GoOn(p) == run # "returned" /\ Round(p) /\ UNCHANGED serviceVars

BackendRecovers == run # "returned" /\ Recover /\ UNCHANGED serviceVars

TimePasses ==
  /\ run # "returned"
  /\ run = "draining" => drain < ShutdownTimeout
  /\ Tick
  /\ drain' = IF run = "draining" THEN drain + 1 ELSE drain
  /\ UNCHANGED <<run, cancelled, ftpVars, http, started, serve, inShutdown, httpAtStop, timedOut, monitorVars>>

World ==
  \/ \E p \in Probes : ProbeArrives(p) \/ GetMutex(p) \/ GoOn(p)
  \/ BackendRecovers
  \/ TimePasses

Next == Service \/ World

Spec == Init /\ [][Next]_lifeVars

\* The goroutines run, every check of a round ends, and select does not
\* choose the ticker forever. Nothing is said of signals, of the FTP listener
\* failing, or of who probes.
Fairness ==
  /\ WF_lifeVars(RunSteps /\ Alive)
  /\ WF_lifeVars(FTPListens /\ Alive) /\ WF_lifeVars(FTPReturns /\ Alive)
  /\ WF_lifeVars(HTTPSteps /\ Alive)
  /\ WF_lifeVars(MonitorStops /\ Alive)
  /\ \A p \in Probes : WF_lifeVars(GetMutex(p)) /\ WF_lifeVars(GoOn(p))

FairSpec == Spec /\ Fairness

-----------------------------------------------------------------------------
(* Properties *)

\* The type of the state.
TypeOK ==
  /\ run \in {"starting", "serving", "stoppingMonitor", "stoppingFTP", "closingFTP",
              "stoppingHTTP", "shuttingDown", "draining", "joining", "waiting", "returned"}
  /\ ftp \in {"unborn", "spawned", "listening", "closed", "done"}
  /\ ftpAtStop \in {"unborn", "spawned", "listening", "closed", "done"}
  /\ http \in {"unborn", "spawned", "started", "bound", "done"}
  /\ httpAtStop \in {"unborn", "spawned", "started", "bound", "done"}
  /\ serve \in {"unborn", "spawned", "accepting", "closed", "done"}
  /\ monitor \in {"unborn", "waiting", "done"}
  /\ cancelled \in BOOLEAN /\ driverDown \in BOOLEAN /\ started \in BOOLEAN
  /\ inShutdown \in BOOLEAN /\ stopMonitor \in BOOLEAN /\ timedOut \in BOOLEAN
  /\ drain \in 0..ShutdownTimeout

\* When Run returns, the monitor and the FTP server are over and no probe is
\* cut off, whatever the start of the three had reached when the context was
\* done; but for two ways out that the code has: the operations server had
\* not set started when it was told to stop, so that nothing stopped it, or
\* Shutdown timed out on probes that wait for backends (server.go:164-183,
\* http/server.go:668-693).
QuietAfterReturn ==
  run = "returned" =>
    /\ monitor = "done" /\ ftp = "done" /\ driverDown
    /\ httpAtStop # "spawned" =>
         /\ serve \in {"unborn", "spawned", "closed", "done"}
         /\ (\E p \in Probes : probe[p] # "idle") => timedOut

\* The operations server that was shut down in time can be started again, and
\* one that was not stopped is still marked as started: started is what Stop
\* and Run agree on, although they read and write it in sections of their own
\* (http/server.go:630-693).
StartedIsTrue ==
  /\ serve = "accepting" => started
  /\ run \in {"joining", "waiting", "returned"} /\ inShutdown /\ ~started =>
       serve # "accepting" /\ \A p \in Probes : probe[p] = "idle"

\* Every probe that was accepted is answered, unless the process ends.
EveryProbeAnswered ==
  \A p \in Probes : probe[p] = "waiting" ~> probe[p] = "idle" \/ run = "returned"

\* The service returns after a signal, when the FTP server had come as far as
\* its listener, or had failed, by the time it was told to stop.
ReturnsOnceListening ==
  cancelled ~> run = "returned" \/ ftpAtStop = "spawned"

\* The inductive invariant: how far the goroutines can be at each point of
\* Run. Every probe came through a listener that was accepting; a listener
\* accepts only with started set and before Shutdown; what Stop found tells
\* whether there was anything left to shut down.
Started == run # "starting"
HTTPFailed == http = "done" /\ serve = "unborn"
ProbesIdle == \A p \in Probes : probe[p] = "idle"

BirthInv ==
  /\ Started <=> ftp # "unborn"
  /\ Started <=> http # "unborn"
  /\ Started <=> monitor # "unborn"
  /\ serve # "unborn" => http = "done"
  /\ http \in {"unborn", "spawned"} \/ HTTPFailed => ~started
  /\ ~Started => ~stopMonitor

ServeInv ==
  /\ serve = "accepting" => started /\ ~inShutdown
  /\ serve \in {"closed", "done"} => inShutdown
  /\ serve \in {"unborn", "spawned"} => ProbesIdle
  /\ run \in {"shuttingDown", "draining", "joining"} \/ inShutdown =>
       http \notin {"unborn", "spawned"}
  /\ inShutdown => run \in {"draining", "joining", "waiting", "returned"}
  /\ run \in {"draining", "joining"} => inShutdown
  /\ http \in {"started", "bound"} \/ serve \in {"spawned", "closed", "done"} =>
       started \/ (inShutdown /\ run \in {"waiting", "returned"})

StopInv ==
  /\ run \in {"joining", "waiting", "returned"} /\ inShutdown => timedOut \/ ProbesIdle
  /\ timedOut => run \in {"waiting", "returned"} /\ (started \/ ProbesIdle)
  /\ run \in {"waiting", "returned"} /\ ~inShutdown => httpAtStop = "spawned" \/ HTTPFailed
  /\ run \in {"stoppingFTP", "closingFTP", "stoppingHTTP", "shuttingDown", "draining",
              "joining", "waiting", "returned"} => monitor = "done"
  /\ run \in {"closingFTP", "stoppingHTTP", "shuttingDown", "draining",
              "joining", "waiting", "returned"} => driverDown
  /\ run = "returned" => ftp = "done" /\ http = "done"

LifeInv == TypeOK /\ BirthInv /\ ServeInv /\ StopInv

\* The invariant of the whole service, with the probes it serves: wherever Run
\* and its goroutines are, started and Shutdown agree with what still listens,
\* and the mutex of the checks with what is in memory (server.go, Run;
\* http/server.go, Run, Stop and cachedHealthChecks).
ServiceInv == LifeInv /\ ReadyInv

\* server.go:126: Run keeps the service alive until shutdown is requested;
\* server.go:182, wait for all servers to stop.
ReturnsWhenCancelled == cancelled ~> run = "returned"
=============================================================================
