------------------------------- MODULE Readiness -------------------------------
(***************************************************************************)
(* The readiness endpoint of pkg/http/server.go.                           *)
(*                                                                         *)
(* net/http serves every GET /readyz in a goroutine of its own.  Under     *)
(* healthMu a probe is answered from the results in memory while they are  *)
(* younger than healthCheckCacheTTL; otherwise it asks oCIS, WebDAV and    *)
(* the spool directory, with the mutex held, and the others wait for it.   *)
(* Nobody outside the tests calls SetReady or UpdateReadiness, so the flag *)
(* `ready' is always 1 and is left out.                                    *)
(*                                                                         *)
(* Time is counted in ticks.  What costs no time (the mutex when it is     *)
(* free, memory, the local disk) is done before the next tick.             *)
(***************************************************************************)
EXTENDS Integers, FiniteSets

CONSTANTS
  Probes,       \* requests under way at a time
  TTL,          \* healthCheckCacheTTL
  CheckTimeout, \* HealthCheckConfig.CheckTimeout
  Patient,      \* the probe whose wait is measured, any of them
  Watched       \* the check whose subject is followed, any of them

Checks == {"ocis", "webdav", "spool"}
InRound == {"ocis", "webdav", "spool"}

ASSUME ReadinessAssumption ==
  /\ IsFiniteSet(Probes)
  /\ TTL \in Nat \ {0}
  /\ CheckTimeout \in Nat
  /\ Patient \in Probes
  /\ Watched \in Checks

VARIABLES
  probe,  \* where the goroutine of a probe is
  waited, \* history: how long Patient has been there
  spent,  \* time in the outbound check of the round under way
  failed, \* checks that failed in this round
  age,    \* now - healthCachedAt, TTL if that or more
  cached, \* healthFailed: the checks that failed in the stored round
  down,   \* history: how long since the subject of Watched last worked
  quiet   \* history: how long since the last outbound request, TTL if more

roundVars == <<spent, failed>>
cacheVars == <<age, cached>>
historyVars == <<waited, down, quiet>>
readyVars == <<probe, roundVars, cacheVars, historyVars>>

\* Bounds of the two counters that only measure.
MaxWaited == 2 * CheckTimeout + 1
MaxDown == TTL + 2 * CheckTimeout

AtMost(n, bound) == IF n > bound THEN bound ELSE n

ReadyInit ==
  /\ probe = [p \in Probes |-> "idle"]
  /\ waited = 0
  /\ spent = 0
  /\ failed = {}
  /\ age = TTL
  /\ cached = {}
  /\ down \in {0, MaxDown}
  /\ quiet = TTL

\* Mutant: healthMu is not held during the checks.
AlwaysFree == TRUE

\* healthMu: held by the probe that runs a round.
LockFree == \A p \in Probes : probe[p] \notin InRound

Fresh == age < TTL

\* A probe is answered from cachedHealthChecks' results, which are in memory
\* then, whether it made them or not: /readyz says "ready" if none has failed.
SaysReady(p) == probe[p] # "idle" /\ probe'[p] = "idle" /\ cached' = {}

Leave(p) ==
  /\ probe' = [probe EXCEPT ![p] = "idle"]
  /\ waited' = IF p = Patient THEN 0 ELSE waited

-----------------------------------------------------------------------------
(* The handler *)

Arrive(p) ==
  /\ probe[p] = "idle"
  /\ probe' = [probe EXCEPT ![p] = "waiting"]
  /\ UNCHANGED <<roundVars, cacheVars, historyVars>>

ServeCached(p) ==
  /\ probe[p] = "waiting" /\ LockFree
  /\ Fresh
  /\ Leave(p)
  /\ UNCHANGED <<roundVars, cacheVars, down, quiet>>

StartRound(p) ==
  /\ probe[p] = "waiting" /\ LockFree
  /\ ~Fresh
  /\ probe' = [probe EXCEPT ![p] = "ocis"]
  /\ spent' = 0
  /\ failed' = {}
  /\ quiet' = 0
  /\ UNCHANGED <<cacheVars, waited, down>>

\* Mutant: a backend that did not answer in time is not a failure.
CheckForgives(c) == {failed, failed \cup {c}}

\* A good answer in time was given by a backend that worked at some moment
\* since the request; a failure needs no reason (a status, the network, the
\* deadline). The history follows one check, any; the others may do either.
CheckResults(c) ==
  {failed \cup {c}} \cup (IF c = Watched /\ down > spent THEN {} ELSE {failed})

CheckOCIS(p) ==
  /\ probe[p] = "ocis"
  /\ failed' \in CheckResults("ocis")
  /\ probe' = [probe EXCEPT ![p] = "webdav"]
  /\ spent' = 0
  /\ quiet' = 0
  /\ UNCHANGED <<cacheVars, waited, down>>

\* Mutant: the request is repeated until it succeeds.
CheckWebDAVAgain(p) ==
  /\ probe[p] = "webdav"
  /\ failed' \in CheckResults("webdav")
  /\ probe' = [probe EXCEPT ![p] = IF "webdav" \in failed' THEN "webdav" ELSE "spool"]
  /\ spent' = 0
  /\ UNCHANGED <<cacheVars, historyVars>>

CheckWebDAV(p) ==
  /\ probe[p] = "webdav"
  /\ failed' \in CheckResults("webdav")
  /\ probe' = [probe EXCEPT ![p] = "spool"]
  /\ spent' = 0
  /\ UNCHANGED <<cacheVars, historyVars>>

\* Mutant: the results are kept without their time.
StoreWithoutTime(failures) == cached' = failures /\ UNCHANGED age

StoreResults(failures) == cached' = failures /\ age' = 0

\* The spool check, the store under the mutex, and the answer.
EndRound(p) ==
  /\ probe[p] = "spool"
  /\ \E failures \in CheckResults("spool") : StoreResults(failures)
  /\ Leave(p)
  /\ spent' = 0
  /\ failed' = {}
  /\ UNCHANGED <<down, quiet>>

-----------------------------------------------------------------------------
(* The backends and the clock *)

\* What was down works again. What works may stop at any tick.
Recover ==
  /\ down > 0
  /\ down' = 0
  /\ UNCHANGED <<probe, roundVars, cacheVars, waited, quiet>>

\* Something has to happen before the next tick.
Urgent ==
  \/ LockFree /\ \E p \in Probes : probe[p] = "waiting"
  \/ \E p \in Probes : probe[p] = "spool"
  \/ ~LockFree /\ spent >= CheckTimeout

Tick ==
  /\ ~Urgent
  /\ waited' = IF probe[Patient] = "idle" THEN 0 ELSE AtMost(waited + 1, MaxWaited)
  /\ spent' = IF LockFree THEN 0 ELSE spent + 1
  /\ age' = AtMost(age + 1, TTL)
  /\ quiet' = AtMost(quiet + 1, TTL)
  /\ \/ down = 0 /\ down' = 0
     \/ down' = AtMost(down + 1, MaxDown)
  /\ UNCHANGED <<probe, failed, cached>>

Acquire(p) == ServeCached(p) \/ StartRound(p)
Round(p) == CheckOCIS(p) \/ CheckWebDAV(p) \/ EndRound(p)

ReadyNext ==
  \/ \E p \in Probes : Arrive(p) \/ Acquire(p) \/ Round(p)
  \/ Recover
  \/ Tick

ReadySpec == ReadyInit /\ [][ReadyNext]_readyVars

\* Every check ends, at the latest by its deadline, and a goroutine that
\* waits for a mutex that is free gets it.
ReadyFairness == \A p \in Probes : WF_readyVars(Acquire(p)) /\ WF_readyVars(Round(p))
-----------------------------------------------------------------------------
(* Properties *)

\* The type of the state.
ReadyTypeOK ==
  /\ probe \in [Probes -> {"idle", "waiting"} \cup InRound]
  /\ waited \in 0..MaxWaited
  /\ spent \in 0..CheckTimeout
  /\ failed \subseteq Checks
  /\ age \in 0..TTL
  /\ cached \subseteq Checks
  /\ down \in 0..MaxDown
  /\ quiet \in 0..TTL

\* How long before the end of a round the answer of a check was true: the
\* checks run one after the other.
Late(c) == IF c = "ocis" THEN 2 * CheckTimeout
           ELSE IF c = "webdav" THEN CheckTimeout ELSE 0

\* "ready" is never said of something that has been down for longer than the
\* results are kept and the checks behind it in the round may take, whether
\* the answer comes from memory, was waited for, or is the round's own, and
\* although the results get their time after the checks (server.go,
\* performHealthChecks and cachedHealthChecks).
ReadyWasUp ==
  [][\A p \in Probes : SaysReady(p) => down < TTL + Late(Watched)]_readyVars

\* However many probes come, a round of outbound requests begins only when
\* none has been sent for the TTL and no other round is under way
\* (server.go:284, SEC-010).
OneRoundPerTTL ==
  [][\A p \in Probes :
       probe[p] = "waiting" /\ probe'[p] = "ocis" =>
         quiet = TTL /\ \A q \in Probes : probe[q] \notin InRound]_readyVars

\* A probe waits for one round at most, its own or another's, never for
\* one after the other: two check timeouts (server.go:288, the mutex is held
\* during the checks).
WaitBounded == waited <= 2 * CheckTimeout

\* Time since the round under way began, if every check before took its
\* whole time-out.
Elapsed ==
  IF \E p \in Probes : probe[p] = "ocis" THEN spent
  ELSE IF \E p \in Probes : probe[p] = "webdav" THEN CheckTimeout + spent
  ELSE 2 * CheckTimeout

\* The inductive invariant. What is in memory or was found in this round is
\* not older than its age and its place in the round allow; probes that have
\* waited wait for the round under way or are about to read its results.
MutexInv == \A p, q \in Probes : probe[p] \in InRound /\ probe[q] \in InRound => p = q

FoundInv ==
  /\ Fresh /\ Watched \notin cached => down <= age + Late(Watched)
  /\ (\E p \in Probes : probe[p] = "webdav") /\ Watched = "ocis" /\ Watched \notin failed =>
       down <= CheckTimeout + spent
  /\ (\E p \in Probes : probe[p] = "spool") =>
       /\ spent = 0
       /\ Watched \in {"ocis", "webdav"} \ failed => down <= Late(Watched)

QuietInv == IF LockFree THEN quiet >= age ELSE ~Fresh

WaitInv ==
  waited > 0 =>
    IF LockFree THEN age = 0 /\ waited <= 2 * CheckTimeout
                ELSE waited <= Elapsed

ReadyInv == ReadyTypeOK /\ MutexInv /\ FoundInv /\ QuietInv /\ WaitInv /\ WaitBounded
=============================================================================
