---------------------------- MODULE ReadinessProofs ----------------------------
(***************************************************************************)
(* Proofs about Readiness, for any number of probes, any TTL and any check *)
(* timeout.  ReadyInv is inductive: WaitInv needs that a probe which has   *)
(* waited finds the results of a round that has just ended, so that it     *)
(* never starts a round of its own; FoundInv adds up the time each check   *)
(* may take to the age of what was found before it.                        *)
(***************************************************************************)
EXTENDS Readiness, TLAPS

\* Late and the bounds of the histories are numbers.
LEMMA LateFacts ==
  /\ Late("ocis") = 2 * CheckTimeout /\ Late("webdav") = CheckTimeout /\ Late("spool") = 0
  /\ Late(Watched) \in Nat /\ Late(Watched) <= 2 * CheckTimeout
  /\ MaxDown \in Nat /\ MaxWaited \in Nat
<1>1. Late("ocis") = 2 * CheckTimeout /\ Late("webdav") = CheckTimeout /\ Late("spool") = 0
  BY DEF Late
<1>2. CheckTimeout \in Nat /\ TTL \in Nat /\ Watched \in {"ocis", "webdav", "spool"}
  BY ReadinessAssumption DEF Checks
<1>3. Late(Watched) \in Nat /\ Late(Watched) <= 2 * CheckTimeout
  BY <1>1, <1>2
<1>4. QED BY <1>1, <1>2, <1>3 DEF MaxDown, MaxWaited

LEMMA ReadyInitInv == ReadyInit => ReadyInv
<1> SUFFICES ASSUME ReadyInit PROVE ReadyInv
  OBVIOUS
<1> USE ReadinessAssumption, LateFacts DEF ReadyInit
<1>1. ReadyTypeOK BY DEF ReadyTypeOK, InRound, Checks, MaxDown, MaxWaited
<1>2. MutexInv BY DEF MutexInv, InRound
<1>3. FoundInv BY DEF FoundInv, Fresh
<1>4. QuietInv BY DEF QuietInv, LockFree, InRound
<1>5. WaitInv /\ WaitBounded BY DEF WaitInv, WaitBounded
<1>6. QED BY <1>1, <1>2, <1>3, <1>4, <1>5 DEF ReadyInv

LEMMA ArriveInv ==
  ASSUME ReadyInv, NEW p \in Probes, Arrive(p) PROVE ReadyInv'
<1> USE ReadinessAssumption, LateFacts DEF Arrive, roundVars, cacheVars, historyVars
<1>1. ReadyTypeOK' BY DEF ReadyInv, ReadyTypeOK, InRound
<1>2. \A q \in Probes : probe'[q] \in InRound <=> probe[q] \in InRound
  BY DEF ReadyInv, ReadyTypeOK, InRound
<1>3. \A q \in Probes, s \in InRound : probe'[q] = s <=> probe[q] = s
  BY DEF ReadyInv, ReadyTypeOK, InRound
<1>4. MutexInv' BY <1>2 DEF ReadyInv, MutexInv
<1>5. LockFree' <=> LockFree BY <1>2 DEF LockFree
<1>6. FoundInv' BY <1>3 DEF ReadyInv, FoundInv, Fresh, InRound
<1>7. QuietInv' BY <1>5 DEF ReadyInv, QuietInv, Fresh
<1>8. Elapsed' = Elapsed BY <1>3 DEF Elapsed, InRound
<1>9. (WaitInv /\ WaitBounded)' BY <1>5, <1>8 DEF ReadyInv, WaitInv, WaitBounded, Fresh
<1>10. QED BY <1>1, <1>4, <1>6, <1>7, <1>9 DEF ReadyInv

LEMMA ServeCachedInv ==
  ASSUME ReadyInv, NEW p \in Probes, ServeCached(p) PROVE ReadyInv'
<1> USE ReadinessAssumption, LateFacts DEF ServeCached, Leave, roundVars, cacheVars
<1>1. ReadyTypeOK' BY DEF ReadyInv, ReadyTypeOK, InRound, MaxWaited
<1>2. \A q \in Probes : probe'[q] \notin InRound
  BY DEF ReadyInv, ReadyTypeOK, InRound, LockFree
<1>3. LockFree' BY <1>2 DEF LockFree
<1>4. MutexInv' BY <1>2 DEF MutexInv
<1>5. FoundInv' BY <1>2 DEF ReadyInv, FoundInv, Fresh, InRound
<1>6. QuietInv' BY <1>3 DEF ReadyInv, QuietInv
<1>7. waited' \in {0, waited} OBVIOUS
<1>8. (WaitInv /\ WaitBounded)' BY <1>3, <1>7 DEF ReadyInv, ReadyTypeOK, WaitInv, WaitBounded
<1>9. QED BY <1>1, <1>4, <1>5, <1>6, <1>8 DEF ReadyInv

LEMMA StartRoundInv ==
  ASSUME ReadyInv, NEW p \in Probes, StartRound(p) PROVE ReadyInv'
<1> USE ReadinessAssumption, LateFacts DEF StartRound, cacheVars
<1>1. ReadyTypeOK' BY DEF ReadyInv, ReadyTypeOK, InRound
<1>2. \A q \in Probes : probe'[q] \in InRound => q = p
  BY DEF ReadyInv, ReadyTypeOK, InRound, LockFree
<1>3. probe'[p] = "ocis" BY DEF ReadyInv, ReadyTypeOK
<1>4. MutexInv' BY <1>2 DEF MutexInv
<1>5. ~LockFree' /\ ~Fresh' BY <1>3 DEF LockFree, InRound, Fresh
<1>6. FoundInv' BY <1>2, <1>3, <1>5 DEF FoundInv, InRound
<1>7. QuietInv' BY <1>5 DEF QuietInv
<1>8. waited' = 0
  BY DEF ReadyInv, ReadyTypeOK, WaitInv, Fresh
<1>9. (WaitInv /\ WaitBounded)' BY <1>8 DEF WaitInv, WaitBounded
<1>10. QED BY <1>1, <1>4, <1>6, <1>7, <1>9 DEF ReadyInv

\* While a probe runs a round, no other does and the results are too old.
LEMMA RoundFacts ==
  ASSUME ReadyInv, NEW p \in Probes, probe[p] \in InRound
  PROVE  /\ ~LockFree
         /\ \A q \in Probes : probe[q] \in InRound => q = p
         /\ probe[p] = "ocis" => Elapsed = spent
         /\ probe[p] = "webdav" => Elapsed = CheckTimeout + spent
         /\ probe[p] = "spool" => Elapsed = 2 * CheckTimeout
<1>1. ~LockFree BY DEF LockFree
<1>2. \A q \in Probes : probe[q] \in InRound => q = p BY DEF ReadyInv, MutexInv
<1>3. \A s \in InRound : (\E q \in Probes : probe[q] = s) <=> probe[p] = s
  BY <1>2
<1>4. QED BY <1>1, <1>2, <1>3 DEF Elapsed, InRound

LEMMA CheckOCISInv ==
  ASSUME ReadyInv, NEW p \in Probes, CheckOCIS(p) PROVE ReadyInv'
<1> USE ReadinessAssumption, LateFacts DEF CheckOCIS, cacheVars
<1>0. probe[p] \in InRound BY DEF InRound
<1>1. failed' \subseteq Checks BY DEF ReadyInv, ReadyTypeOK, CheckResults, Checks
<1>2. ReadyTypeOK' BY <1>1 DEF ReadyInv, ReadyTypeOK, InRound
<1>3. probe'[p] = "webdav" BY DEF ReadyInv, ReadyTypeOK
<1>4. \A q \in Probes : probe'[q] \in InRound => q = p
  BY <1>0, RoundFacts DEF ReadyInv, ReadyTypeOK
<1>5. MutexInv' BY <1>4 DEF MutexInv
<1>6. ~LockFree' BY <1>3 DEF LockFree, InRound
<1>7. Watched = "ocis" /\ Watched \notin failed' => down <= spent
  BY DEF CheckResults, ReadyInv, ReadyTypeOK
<1>8. FoundInv'
  <2>1. (Fresh /\ Watched \notin cached => down <= age + Late(Watched))'
    BY DEF ReadyInv, FoundInv, Fresh
  <2>2. Watched = "ocis" /\ Watched \notin failed' => down' <= CheckTimeout + spent'
    BY <1>7 DEF ReadyInv, ReadyTypeOK
  <2>3. ~\E q \in Probes : probe'[q] = "spool" BY <1>3, <1>4 DEF InRound
  <2>4. QED BY <2>1, <2>2, <2>3 DEF FoundInv
<1>9. QuietInv' BY <1>0, <1>6, RoundFacts DEF ReadyInv, QuietInv, Fresh
<1>10. Elapsed' = CheckTimeout + spent'
  BY <1>3, <1>4 DEF Elapsed, InRound
<1>11. waited > 0 => waited <= CheckTimeout
  BY <1>0, RoundFacts DEF ReadyInv, ReadyTypeOK, WaitInv
<1>12. (WaitInv /\ WaitBounded)'
  BY <1>6, <1>10, <1>11 DEF ReadyInv, ReadyTypeOK, WaitInv, WaitBounded, Fresh
<1>13. QED BY <1>2, <1>5, <1>8, <1>9, <1>12 DEF ReadyInv

LEMMA CheckWebDAVInv ==
  ASSUME ReadyInv, NEW p \in Probes, CheckWebDAV(p) PROVE ReadyInv'
<1> USE ReadinessAssumption, LateFacts DEF CheckWebDAV, cacheVars, historyVars
<1>0. probe[p] \in InRound BY DEF InRound
<1>1. failed' \subseteq Checks BY DEF ReadyInv, ReadyTypeOK, CheckResults, Checks
<1>2. ReadyTypeOK' BY <1>1 DEF ReadyInv, ReadyTypeOK, InRound
<1>3. probe'[p] = "spool" BY DEF ReadyInv, ReadyTypeOK
<1>4. \A q \in Probes : probe'[q] \in InRound => q = p
  BY <1>0, RoundFacts DEF ReadyInv, ReadyTypeOK
<1>5. MutexInv' BY <1>4 DEF MutexInv
<1>6. ~LockFree' BY <1>3 DEF LockFree, InRound
<1>7. failed \subseteq failed' BY DEF CheckResults
<1>8. Watched = "webdav" /\ Watched \notin failed' => down <= spent
  BY DEF CheckResults, ReadyInv, ReadyTypeOK
<1>9. Watched = "ocis" /\ Watched \notin failed => down <= CheckTimeout + spent
  BY DEF ReadyInv, FoundInv
<1>10. FoundInv'
  <2>1. (Fresh /\ Watched \notin cached => down <= age + Late(Watched))'
    BY DEF ReadyInv, FoundInv, Fresh
  <2>2. ~\E q \in Probes : probe'[q] = "webdav" BY <1>3, <1>4 DEF InRound
  <2>3. Watched \in {"ocis", "webdav"} \ failed' => down' <= Late(Watched)
    BY <1>7, <1>8, <1>9 DEF ReadyInv, ReadyTypeOK
  <2>4. QED BY <2>1, <2>2, <2>3 DEF FoundInv
<1>11. QuietInv' BY <1>0, <1>6, RoundFacts DEF ReadyInv, QuietInv, Fresh
<1>12. Elapsed' = 2 * CheckTimeout
  BY <1>3, <1>4 DEF Elapsed, InRound
<1>13. waited > 0 => waited <= 2 * CheckTimeout
  BY <1>0, RoundFacts DEF ReadyInv, ReadyTypeOK, WaitInv
<1>14. (WaitInv /\ WaitBounded)'
  BY <1>6, <1>12, <1>13 DEF ReadyInv, ReadyTypeOK, WaitInv, WaitBounded, Fresh
<1>15. QED BY <1>2, <1>5, <1>10, <1>11, <1>14 DEF ReadyInv

LEMMA EndRoundInv ==
  ASSUME ReadyInv, NEW p \in Probes, EndRound(p) PROVE ReadyInv'
<1> USE ReadinessAssumption, LateFacts DEF EndRound, StoreResults, Leave
<1>0. probe[p] \in InRound BY DEF InRound
<1>1. cached' \in CheckResults("spool") /\ age' = 0 OBVIOUS
<1>2. cached' \subseteq Checks
  BY <1>1 DEF ReadyInv, ReadyTypeOK, CheckResults, Checks
<1>3. ReadyTypeOK' BY <1>1, <1>2 DEF ReadyInv, ReadyTypeOK, InRound, MaxWaited
<1>4. \A q \in Probes : probe'[q] \notin InRound
  BY <1>0, RoundFacts DEF ReadyInv, ReadyTypeOK, InRound
<1>5. MutexInv' BY <1>4 DEF MutexInv
<1>6. LockFree' BY <1>4 DEF LockFree
<1>7. Watched \notin cached' => down <= Late(Watched)
  <2>1. Watched \notin cached' => Watched \notin failed BY <1>1 DEF CheckResults
  <2>2. spent = 0 /\ (Watched \in {"ocis", "webdav"} \ failed => down <= Late(Watched))
    BY DEF ReadyInv, FoundInv
  <2>3. Watched = "spool" /\ Watched \notin cached' => down <= 0
    BY <1>1, <2>2 DEF CheckResults, ReadyInv, ReadyTypeOK
  <2>4. QED BY <2>1, <2>2, <2>3 DEF Checks
<1>8. FoundInv'
  <2>1. (Fresh /\ Watched \notin cached => down <= age + Late(Watched))'
    BY <1>1, <1>7 DEF ReadyInv, ReadyTypeOK
  <2>2. QED BY <1>4, <2>1 DEF FoundInv, InRound
<1>9. QuietInv' BY <1>1, <1>6 DEF ReadyInv, ReadyTypeOK, QuietInv
<1>10. waited <= 2 * CheckTimeout /\ waited' \in {0, waited} BY DEF ReadyInv, WaitBounded
<1>11. (WaitInv /\ WaitBounded)'
  BY <1>1, <1>6, <1>10 DEF ReadyInv, ReadyTypeOK, WaitInv, WaitBounded
<1>12. QED BY <1>3, <1>5, <1>8, <1>9, <1>11 DEF ReadyInv

LEMMA RecoverInv == ASSUME ReadyInv, Recover PROVE ReadyInv'
<1> USE ReadinessAssumption, LateFacts DEF Recover, roundVars, cacheVars
<1>1. ReadyTypeOK' BY DEF ReadyInv, ReadyTypeOK
<1>2. MutexInv' BY DEF ReadyInv, MutexInv
<1>3. LockFree' = LockFree /\ Elapsed' = Elapsed /\ Fresh' = Fresh
  BY DEF LockFree, Elapsed, Fresh
<1>4. FoundInv' BY <1>3 DEF ReadyInv, ReadyTypeOK, FoundInv
<1>5. QuietInv' BY <1>3 DEF ReadyInv, QuietInv
<1>6. (WaitInv /\ WaitBounded)' BY <1>3 DEF ReadyInv, WaitInv, WaitBounded
<1>7. QED BY <1>1, <1>2, <1>4, <1>5, <1>6 DEF ReadyInv

LEMMA TickInv == ASSUME ReadyInv, Tick PROVE ReadyInv'
<1> USE ReadinessAssumption, LateFacts DEF Tick
<1>1. /\ waited \in Nat /\ spent \in Nat /\ age \in Nat /\ quiet \in Nat /\ down \in Nat
      /\ spent <= CheckTimeout /\ age <= TTL /\ quiet <= TTL /\ down <= MaxDown
      /\ waited <= MaxWaited
  BY DEF ReadyInv, ReadyTypeOK
<1>2. /\ ~LockFree => spent < CheckTimeout /\ spent' = spent + 1
      /\ LockFree => spent' = 0
  BY <1>1 DEF Urgent
<1>3. /\ age' \in Nat /\ age' <= TTL
      /\ age < TTL => age' = age + 1
      /\ age = TTL => age' = TTL
  BY <1>1 DEF AtMost
<1>4. quiet' \in Nat /\ quiet' <= TTL /\ (quiet >= age => quiet' >= age')
  BY <1>1 DEF AtMost
<1>5. down' \in Nat /\ down' <= MaxDown /\ down' <= down + 1
  BY <1>1 DEF AtMost
<1>6. /\ waited' \in Nat /\ waited' <= MaxWaited /\ waited' <= waited + 1
      /\ probe[Patient] = "idle" => waited' = 0
  BY <1>1 DEF AtMost
<1>7. ReadyTypeOK'
  BY <1>1, <1>2, <1>3, <1>4, <1>5, <1>6 DEF ReadyInv, ReadyTypeOK
<1>8. MutexInv' BY DEF ReadyInv, MutexInv
<1>9. LockFree' = LockFree BY DEF LockFree
<1>10. FoundInv'
  <2>1. (Fresh /\ Watched \notin cached => down <= age + Late(Watched))'
    BY <1>1, <1>3, <1>5 DEF ReadyInv, FoundInv, Fresh
  <2>2. ((\E q \in Probes : probe[q] = "webdav") /\ Watched = "ocis" /\ Watched \notin failed
           => down <= CheckTimeout + spent)'
    <3>1. (\E q \in Probes : probe[q] = "webdav") => ~LockFree BY DEF LockFree, InRound
    <3>2. QED BY <1>1, <1>2, <1>5, <3>1 DEF ReadyInv, FoundInv
  <2>3. ~\E q \in Probes : probe'[q] = "spool" BY DEF Urgent
  <2>4. QED BY <2>1, <2>2, <2>3 DEF FoundInv
<1>11. QuietInv' BY <1>1, <1>3, <1>4, <1>9 DEF ReadyInv, QuietInv, Fresh
<1>12. LockFree => waited' = 0
  BY <1>6 DEF Urgent, ReadyInv, ReadyTypeOK, LockFree, InRound
<1>13. ~LockFree => Elapsed' = Elapsed + 1 /\ Elapsed \in Nat /\ Elapsed + 1 <= 2 * CheckTimeout
  <2>1. ASSUME ~LockFree
        PROVE  Elapsed' = Elapsed + 1 /\ Elapsed \in Nat /\ Elapsed + 1 <= 2 * CheckTimeout
    <3>1. PICK p \in Probes : probe[p] \in InRound BY <2>1 DEF LockFree
    <3>2. probe[p] \in {"ocis", "webdav"} BY <3>1 DEF InRound, Urgent
    <3>3. probe' = probe OBVIOUS
    <3>4. CASE probe[p] = "ocis"
      <4>1. Elapsed = spent /\ Elapsed' = spent' BY <3>3, <3>4 DEF Elapsed
      <4>2. QED BY <1>1, <1>2, <2>1, <4>1
    <3>5. CASE probe[p] = "webdav"
      <4>1. ~\E q \in Probes : probe[q] = "ocis"
        BY <3>1, <3>5 DEF ReadyInv, MutexInv, InRound
      <4>2. Elapsed = CheckTimeout + spent /\ Elapsed' = CheckTimeout + spent'
        BY <3>3, <3>5, <4>1 DEF Elapsed
      <4>3. QED BY <1>1, <1>2, <2>1, <4>2
    <3>6. QED BY <3>2, <3>4, <3>5
  <2>2. QED BY <2>1
<1>14. waited > 0 /\ ~LockFree => waited <= Elapsed
  BY DEF ReadyInv, WaitInv
<1>16. (WaitInv /\ WaitBounded)'
  BY <1>1, <1>6, <1>9, <1>12, <1>13, <1>14 DEF WaitInv, WaitBounded
<1>17. QED BY <1>7, <1>8, <1>10, <1>11, <1>16 DEF ReadyInv

LEMMA ReadyStepInv == ASSUME ReadyInv, [ReadyNext]_readyVars PROVE ReadyInv'
<1>1. CASE UNCHANGED readyVars
  BY <1>1 DEF readyVars, roundVars, cacheVars, historyVars, ReadyInv, ReadyTypeOK, MutexInv,
       FoundInv, QuietInv, WaitInv, WaitBounded, LockFree, Elapsed, Fresh
<1>2. ASSUME NEW p \in Probes, Arrive(p) \/ Acquire(p) \/ Round(p) PROVE ReadyInv'
  BY <1>2, ArriveInv, ServeCachedInv, StartRoundInv, CheckOCISInv, CheckWebDAVInv, EndRoundInv
  DEF Acquire, Round
<1>3. QED BY <1>1, <1>2, RecoverInv, TickInv DEF ReadyNext

\* The state always satisfies the inductive invariant: types, one round at a
\* time, the age of what was found, and the waits.
THEOREM ReadyInvHolds == ReadySpec => []ReadyInv
<1>1. ReadyInit => ReadyInv BY ReadyInitInv
<1>2. ReadyInv /\ [ReadyNext]_readyVars => ReadyInv' BY ReadyStepInv
<1>3. QED BY <1>1, <1>2, PTL DEF ReadySpec

\* No probe waits longer than two check timeouts, however many there are.
THEOREM WaitsAreBounded == ReadySpec => []WaitBounded
<1>1. ReadyInv => WaitBounded BY DEF ReadyInv
<1>2. QED BY <1>1, ReadyInvHolds, PTL

\* The step of either property, for the modules that take these steps whole.
LEMMA ReadyStepWasUp ==
  ASSUME ReadyInv, [ReadyNext]_readyVars, NEW p \in Probes, SaysReady(p)
  PROVE  down < TTL + Late(Watched)
<1> USE ReadinessAssumption, LateFacts
<1>1. probe[p] # "idle" /\ probe'[p] = "idle" /\ cached' = {} BY DEF SaysReady
<1>2. ~UNCHANGED readyVars BY <1>1 DEF readyVars
<1>3. ASSUME NEW q \in Probes, ServeCached(q) PROVE down < TTL + Late(Watched)
  BY <1>1, <1>3 DEF ServeCached, cacheVars, Fresh, ReadyInv, ReadyTypeOK, FoundInv
<1>4. ASSUME NEW q \in Probes, EndRound(q) PROVE down < TTL + Late(Watched)
  <2>1. (Fresh /\ Watched \notin cached => down <= age + Late(Watched))'
    BY <1>4, EndRoundInv DEF ReadyInv, FoundInv
  <2>2. age' = 0 /\ down' = down BY <1>4 DEF EndRound, StoreResults
  <2>3. Fresh' BY <2>2 DEF Fresh
  <2>4. QED BY <1>1, <2>1, <2>2, <2>3 DEF ReadyInv, ReadyTypeOK
<1>5. ASSUME NEW q \in Probes, Arrive(q) \/ StartRound(q) \/ CheckOCIS(q) \/ CheckWebDAV(q)
      PROVE  FALSE
  BY <1>1, <1>5 DEF Arrive, StartRound, CheckOCIS, CheckWebDAV, ReadyInv, ReadyTypeOK
<1>6. ~Recover /\ ~Tick BY <1>1 DEF Recover, Tick
<1>7. QED BY <1>2, <1>3, <1>4, <1>5, <1>6 DEF ReadyNext, Acquire, Round

LEMMA ReadyStepOneRound ==
  ASSUME ReadyInv, [ReadyNext]_readyVars, NEW p \in Probes,
         probe[p] = "waiting", probe'[p] = "ocis"
  PROVE  quiet = TTL /\ \A q \in Probes : probe[q] \notin InRound
<1> USE ReadinessAssumption
<1>1. ~UNCHANGED readyVars BY DEF readyVars
<1>2. ASSUME NEW q \in Probes, StartRound(q)
      PROVE  quiet = TTL /\ \A r \in Probes : probe[r] \notin InRound
  BY <1>2 DEF StartRound, LockFree, Fresh, ReadyInv, ReadyTypeOK, QuietInv
<1>3. ASSUME NEW q \in Probes,
             Arrive(q) \/ ServeCached(q) \/ CheckOCIS(q) \/ CheckWebDAV(q) \/ EndRound(q)
      PROVE  FALSE
  BY <1>3 DEF Arrive, ServeCached, CheckOCIS, CheckWebDAV, EndRound, Leave, ReadyInv, ReadyTypeOK
<1>4. ~Recover /\ ~Tick BY DEF Recover, Tick
<1>5. QED BY <1>1, <1>2, <1>3, <1>4 DEF ReadyNext, Acquire, Round

\* "ready" is never said of a backend that has been down for longer than the
\* TTL and the rest of the round.
THEOREM ReadyIsRecent == ReadySpec => ReadyWasUp
<1>1. ReadyInv /\ [ReadyNext]_readyVars
        => \A p \in Probes : SaysReady(p) => down < TTL + Late(Watched)
  BY ReadyStepWasUp
<1>2. QED BY <1>1, ReadyInvHolds, PTL DEF ReadySpec, ReadyWasUp

\* Probes are not amplified into requests to the backends.
THEOREM RoundsAreSpaced == ReadySpec => OneRoundPerTTL
<1>1. ReadyInv /\ [ReadyNext]_readyVars
        => \A p \in Probes : probe[p] = "waiting" /\ probe'[p] = "ocis" =>
             quiet = TTL /\ \A q \in Probes : probe[q] \notin InRound
  BY ReadyStepOneRound
<1>2. QED BY <1>1, ReadyInvHolds, PTL DEF ReadySpec, OneRoundPerTTL
=============================================================================
