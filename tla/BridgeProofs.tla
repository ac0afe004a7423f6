---------------------------- MODULE BridgeProofs ----------------------------
(***************************************************************************)
(* Theorems about Bridge, for any number of uploads, accounts and sessions *)
(* and whatever fails.                                                     *)
(***************************************************************************)
EXTENDS Bridge, SpoolProofs

USE SpoolAssumption, BridgeAssumption

-----------------------------------------------------------------------------
(* The composition adds nothing to what the spool does. *)

\* Every step of the bridge is a step of the spool or leaves it alone.
LEMMA StepOfSpool ==
  BridgeNext => [Next]_spoolVars
<1> SUFFICES ASSUME BridgeNext PROVE [Next]_spoolVars
  OBVIOUS
<1>1. ASSUME NEW u \in Uploads, Client(u) PROVE [Next]_spoolVars
  BY <1>1 DEF Client, Resolve, ResolveFails, Receive, EndTransfer, Next, Owner
<1>2. ASSUME NEW u \in Uploads, Driver(u) PROVE [Next]_spoolVars
  <2>1. CASE AcquireUploadSlot(u) \/ SlotRefused(u)
    BY <2>1 DEF AcquireUploadSlot, SlotRefused
  <2>2. CASE OpenUpload(u)
    <3>1. ContextDone(u) \in BOOLEAN
      BY DEF ContextDone
    <3> QED BY <2>2, <3>1 DEF OpenUpload, Next, Owner
  <2>3. CASE OpenRefused(u) BY <2>3 DEF OpenRefused, Next, Owner
  <2>4. CASE Receive(u) BY <2>4 DEF Receive, Next, Owner
  <2>5. CASE CloseAborts(u) BY <2>5 DEF CloseAborts, Next, Owner
  <2>6. CASE CloseFinishes(u) BY <2>6 DEF CloseFinishes, Next, Owner
  <2>7. CASE CommitParents(u) \/ SendPut(u) \/ StopWaiting(u) \/ HandleAnswer(u) \/ Reply(u)
    BY <2>7 DEF CommitParents, SendPut, StopWaiting, HandleAnswer, Reply
  <2>8. CASE DropSpooled(u) BY <2>8 DEF DropSpooled, Next, OtherCalls
  <2> QED BY <1>2, <2>1, <2>2, <2>3, <2>4, <2>5, <2>6, <2>7, <2>8 DEF Driver
<1>3. CASE Server BY <1>3 DEF Server, ServePut
<1>4. ASSUME NEW n \in Names, ForeignPut(n) PROVE [Next]_spoolVars
  BY <1>4 DEF ForeignPut
<1>5. ASSUME NEW s \in Sessions, ClientDisconnected(s) PROVE [Next]_spoolVars
  BY <1>5 DEF ClientDisconnected, Next, Started
<1>6. CASE Shutdown BY <1>6 DEF Shutdown, Next, Started
<1>7. CASE Crash BY <1>7 DEF Crash, Next
<1> QED BY <1>1, <1>2, <1>3, <1>4, <1>5, <1>6, <1>7 DEF BridgeNext

\* The bridge uses the spool as the Spool module says it is used, so that
\* every theorem of SpoolProofs holds of the bridge (driver.go and spool.go).
THEOREM BridgeUsesSpool == BridgeSpec => Spec
<1>1. BridgeInit => Init
  BY DEF BridgeInit
<1>2. [BridgeNext]_bridgeVars => [Next]_spoolVars
  BY StepOfSpool DEF bridgeVars
<1> QED BY <1>1, <1>2, PTL DEF BridgeSpec, Spec

-----------------------------------------------------------------------------
(* Types *)

\* A candidate name is a path (transfer.go, GenerateUniqueFilename).
LEMMA CandidateIsPath ==
  ASSUME uploadCounter \in [Accounts -> Nat],
         NEW u \in Uploads, NEW s \in Seconds, NEW k \in Nat
  PROVE  Candidate(u, s, k) \in Paths
<1>1. NameOf[u] \in Nat /\ AccountOf[u] \in Accounts /\ s \in Nat
  OBVIOUS
<1>2. CASE k = 0 BY <1>1, <1>2 DEF Candidate, Paths
<1>3. CASE k = 1 BY <1>1, <1>3 DEF Candidate, Paths
<1>4. CASE k > 1
  <2>1. uploadCounter[AccountOf[u]] + k - 1 \in Nat
    BY <1>1, <1>4
  <2> QED BY <1>1, <1>4, <2>1 DEF Candidate, Paths
<1> QED BY <1>2, <1>3, <1>4

\* The client's side of an upload keeps the types (driver.go).
LEMMA ClientKeepsTypes ==
  ASSUME BridgeTypeOK, NEW u \in Uploads, Client(u)
  PROVE  BridgeTypeOK'
<1> USE DEF BridgeTypeOK
<1>1. ASSUME NEW s \in Seconds, ResolveFails(u, s) PROVE BridgeTypeOK'
  BY <1>1 DEF ResolveFails, Refuse, Move, PCs, Idle
<1>2. ASSUME NEW s \in Seconds, NEW k \in 0 .. MaxCandidates, Resolve(u, s, k)
      PROVE  BridgeTypeOK'
  <2>1. k \in Nat
    OBVIOUS
  <2>2. Candidate(u, s, k) \in Paths
    BY <2>1, CandidateIsPath
  <2>3. path' \in [Uploads -> Paths]
    BY <1>2, <2>2 DEF Resolve
  <2>4. pc' \in [Uploads -> PCs]
    BY <1>2 DEF Resolve, PCs
  <2>5. uploadCounter' \in [Accounts -> Nat]
    BY <1>2, <2>1 DEF Resolve
  <2>6. parents' \subseteq {"drive", "personal"}
    BY <1>2 DEF Resolve, ParentsExist
  <2> QED BY <1>2, <2>3, <2>4, <2>5, <2>6 DEF Resolve
<1>3. CASE Receive(u) BY <1>3 DEF Receive, callVars, driverVars, serverVars
<1>4. CASE EndTransfer(u)
  BY <1>4 DEF EndTransfer, Move, PCs, SlotHeld, driverVars, serverVars
<1> QED BY <1>1, <1>2, <1>3, <1>4 DEF Client

\* The goroutine of an upload keeps the types (driver.go).
LEMMA DriverKeepsTypes ==
  ASSUME BridgeTypeOK, NEW u \in Uploads, Driver(u)
  PROVE  BridgeTypeOK'
<1> USE DEF BridgeTypeOK, Move, PCs, SlotHeld, driverVars, serverVars
<1>1. AccountOf[u] \in Accounts
  OBVIOUS
<1>2. CASE AcquireUploadSlot(u) BY <1>1, <1>2 DEF AcquireUploadSlot
<1>3. CASE SlotRefused(u) BY <1>3 DEF SlotRefused, Refuse, Idle
<1>4. CASE OpenUpload(u) BY <1>4 DEF OpenUpload
<1>5. CASE OpenRefused(u) BY <1>1, <1>5 DEF OpenRefused, Refuse, ReleaseUploadSlot, Idle
<1>6. CASE Receive(u) BY <1>6 DEF Receive, callVars
<1>7. CASE CloseAborts(u) BY <1>7 DEF CloseAborts
<1>8. CASE CloseFinishes(u) BY <1>8 DEF CloseFinishes
<1>9. CASE CommitParents(u) BY <1>9 DEF CommitParents, ParentsExist, ParentsFail
<1>10. CASE SendPut(u) BY <1>10 DEF SendPut, Answers
<1>11. CASE StopWaiting(u) BY <1>11 DEF StopWaiting, Answers
<1>12. CASE HandleAnswer(u)
  <2>1. path[u] \in Seq(Nat) /\ attempt[u] \in 0 .. 2 /\ tries[u] \in 1 .. 3
    BY DEF Paths
  <2>2. attempt[u] + 2 \in Nat
    BY <2>1
  <2>3. Append(path[u], attempt[u] + 2) \in Paths
    BY <2>1, <2>2 DEF Paths
  <2>4. path' = path \/ path' = [path EXCEPT ![u] = Append(path[u], attempt[u] + 2)]
    BY <1>12 DEF HandleAnswer
  <2>5. path' \in [Uploads -> Paths]
    BY <2>3, <2>4
  <2>6. \/ attempt' = attempt
        \/ attempt[u] + 1 \in 0 .. 2 /\ attempt' = [attempt EXCEPT ![u] = attempt[u] + 1]
    BY <1>12, <2>1 DEF HandleAnswer, Renamable
  <2>7. attempt' \in [Uploads -> 0 .. 2]
    BY <2>6
  <2>8. \/ tries' = tries
        \/ tries[u] + 1 \in 1 .. 3 /\ tries' = [tries EXCEPT ![u] = tries[u] + 1]
        \/ 1 \in 1 .. 3 /\ tries' = [tries EXCEPT ![u] = 1]
    BY <1>12, <2>1 DEF HandleAnswer, Resendable
  <2>9. tries' \in [Uploads -> 1 .. 3]
    BY <2>8
  <2>10. \/ pc' = [pc EXCEPT ![u] = "stored"]
         \/ pc' = [pc EXCEPT ![u] = "put"]
         \/ pc' = [pc EXCEPT ![u] = "rejected"]
    BY <1>12 DEF HandleAnswer
  <2>11. pc' \in [Uploads -> PCs]
    BY <2>10
  <2> QED BY <1>12, <2>5, <2>7, <2>9, <2>11 DEF HandleAnswer
<1>13. CASE DropSpooled(u) BY <1>13 DEF DropSpooled
<1>14. CASE Reply(u) BY <1>1, <1>14 DEF Reply, ReleaseUploadSlot, Idle
<1> QED BY <1>2, <1>3, <1>4, <1>5, <1>6, <1>7, <1>8, <1>9, <1>10, <1>11, <1>12, <1>13, <1>14
        DEF Driver

\* So does everybody else: the server, other clients, and the ends of
\* sessions, driver and process.
LEMMA OthersKeepTypes ==
  ASSUME BridgeTypeOK,
         \/ Server \/ Shutdown \/ Crash
         \/ \E n \in Names : ForeignPut(n)
         \/ \E s \in Sessions : ClientDisconnected(s)
  PROVE  BridgeTypeOK'
<1> USE DEF BridgeTypeOK, callVars, driverVars, serverVars
<1>1. CASE Server
  <2>1. PICK u \in Uploads, p \in Paths : ServePut(u, p)
    BY <1>1 DEF Server
  <2>2. pc' \in [Uploads -> PCs] /\ answer' \in [Uploads -> Answers]
    BY <2>1 DEF ServePut, Answer, PCs, SlotHeld, Answers
  <2>3. /\ DOMAIN objects' \subseteq Paths
        /\ \A q \in DOMAIN objects' : objects'[q] \in Uploads \cup {Foreign}
        /\ stored' \subseteq Uploads \X Paths
    BY <2>1 DEF ServePut, StorePut, PutObject
  <2> QED BY <2>1, <2>2, <2>3 DEF ServePut
<1>2. CASE Shutdown BY <1>2 DEF Shutdown
<1>3. CASE Crash BY <1>3 DEF Crash, PCs, Idle
<1>4. ASSUME NEW n \in Names, ForeignPut(n) PROVE BridgeTypeOK'
  <2>1. n \in Nat
    OBVIOUS
  <2>2. <<n>> \in Paths
    BY <2>1 DEF Paths
  <2> QED BY <1>4, <2>2 DEF ForeignPut, PutObject
<1>5. ASSUME NEW s \in Sessions, ClientDisconnected(s) PROVE BridgeTypeOK'
  BY <1>5 DEF ClientDisconnected
<1> QED BY <1>1, <1>2, <1>3, <1>4, <1>5

-----------------------------------------------------------------------------
(* Upload slots *)

\* A step that moves no upload in or out of the critical part keeps the count.
LEMMA SlotsStay ==
  ASSUME SlotsExact, slots' = slots,
         \A u \in Uploads : pc'[u] \in SlotHeld <=> pc[u] \in SlotHeld
  PROVE  SlotsExact'
<1>1. \A c \in Accounts : HoldersOf(c)' = HoldersOf(c)
  BY DEF HoldersOf
<1> QED BY <1>1 DEF SlotsExact, Capped

\* The uploads that hold a slot are finitely many.
LEMMA HoldersFinite ==
  ASSUME NEW c \in Accounts
  PROVE  IsFiniteSet(HoldersOf(c))
<1>1. HoldersOf(c) \subseteq Uploads
  BY DEF HoldersOf
<1> QED BY <1>1, FS_Subset

\* A slot is taken only when there is one (driver.go, acquireUploadSlot).
LEMMA SlotTaken ==
  ASSUME BridgeTypeOK, SlotsExact, NEW u \in Uploads, AcquireUploadSlot(u)
  PROVE  SlotsExact'
<1> USE DEF AcquireUploadSlot, Move
<1>1. AccountOf[u] \in Accounts /\ u \notin HoldersOf(AccountOf[u])
  BY DEF HoldersOf, SlotHeld
<1>2. pc'[u] \in SlotHeld /\ \A v \in Uploads \ {u} : pc'[v] = pc[v]
  BY DEF BridgeTypeOK, SlotHeld
<1>3. HoldersOf(AccountOf[u])' = HoldersOf(AccountOf[u]) \cup {u}
  BY <1>2 DEF HoldersOf
<1>4. \A c \in Accounts \ {AccountOf[u]} : HoldersOf(c)' = HoldersOf(c)
  BY <1>2 DEF HoldersOf
<1>5. Cardinality(HoldersOf(AccountOf[u])') = Cardinality(HoldersOf(AccountOf[u])) + 1
  BY <1>1, <1>3, HoldersFinite, FS_AddElement
<1> QED BY <1>1, <1>4, <1>5 DEF SlotsExact, Capped, BridgeTypeOK

\* A slot that is held is given back, and it is the holder's own (driver.go,
\* releaseUploadSlot).
LEMMA SlotReturned ==
  ASSUME BridgeTypeOK, SlotsExact, NEW u \in Uploads,
         pc[u] \in SlotHeld, pc' = [pc EXCEPT ![u] = "done"], ReleaseUploadSlot(u)
  PROVE  SlotsExact'
<1>1. AccountOf[u] \in Accounts /\ u \in HoldersOf(AccountOf[u])
  BY DEF HoldersOf
<1>2. pc'[u] \notin SlotHeld /\ \A v \in Uploads \ {u} : pc'[v] = pc[v]
  BY DEF BridgeTypeOK, SlotHeld
<1>3. HoldersOf(AccountOf[u])' = HoldersOf(AccountOf[u]) \ {u}
  BY <1>2 DEF HoldersOf
<1>4. \A c \in Accounts \ {AccountOf[u]} : HoldersOf(c)' = HoldersOf(c)
  BY <1>2 DEF HoldersOf
<1>5. IsFiniteSet(HoldersOf(AccountOf[u]))
  BY <1>1, HoldersFinite
<1>6. Cardinality(HoldersOf(AccountOf[u])') = Cardinality(HoldersOf(AccountOf[u])) - 1
  <2>1. Cardinality(HoldersOf(AccountOf[u]) \ {u}) = Cardinality(HoldersOf(AccountOf[u])) - 1
    BY <1>1, <1>5, FS_RemoveElement
  <2> QED BY <1>3, <2>1
<1>7. Cardinality(HoldersOf(AccountOf[u])) \in Nat \ {0}
  BY <1>1, <1>5, FS_CardinalityType, FS_EmptySet
<1> QED BY <1>1, <1>4, <1>6, <1>7 DEF SlotsExact, Capped, BridgeTypeOK, ReleaseUploadSlot

\* The steps of an upload's own goroutine keep the count exact (driver.go).
LEMMA DriverKeepsSlots ==
  ASSUME BridgeTypeOK, SlotsExact, NEW u \in Uploads, Client(u) \/ Driver(u)
  PROVE  SlotsExact'
<1> USE DEF Move, SlotHeld, BridgeTypeOK, driverVars
<1>1. ASSUME NEW s \in Seconds, ResolveFails(u, s) PROVE SlotsExact'
  BY <1>1, SlotsStay DEF ResolveFails, Refuse
<1>2. ASSUME NEW s \in Seconds, NEW k \in 0 .. MaxCandidates, Resolve(u, s, k)
      PROVE  SlotsExact'
  BY <1>2, SlotsStay DEF Resolve, StorArrives
<1>3. CASE Receive(u) BY <1>3, SlotsStay DEF Receive, callVars
<1>4. CASE EndTransfer(u) BY <1>4, SlotsStay DEF EndTransfer
<1>5. CASE AcquireUploadSlot(u) BY <1>5, SlotTaken
<1>6. CASE SlotRefused(u) BY <1>6, SlotsStay DEF SlotRefused, Refuse
<1>7. CASE OpenUpload(u) BY <1>7, SlotsStay DEF OpenUpload
<1>8. CASE OpenRefused(u) BY <1>8, SlotReturned DEF OpenRefused, Refuse
<1>9. CASE CloseAborts(u) BY <1>9, SlotsStay DEF CloseAborts
<1>10. CASE CloseFinishes(u) BY <1>10, SlotsStay DEF CloseFinishes
<1>11. CASE CommitParents(u) BY <1>11, SlotsStay DEF CommitParents
<1>12. CASE SendPut(u) BY <1>12, SlotsStay DEF SendPut
<1>13. CASE StopWaiting(u) BY <1>13, SlotsStay DEF StopWaiting
<1>14. CASE HandleAnswer(u) BY <1>14, SlotsStay DEF HandleAnswer
<1>15. CASE DropSpooled(u) BY <1>15, SlotsStay DEF DropSpooled
<1>16. CASE Reply(u) BY <1>16, SlotReturned DEF Reply
<1> QED BY <1>1, <1>2, <1>3, <1>4, <1>5, <1>6, <1>7, <1>8, <1>9, <1>10, <1>11, <1>12,
           <1>13, <1>14, <1>15, <1>16 DEF Client, Driver

\* Nobody else touches a slot, and a crash empties all channels.
LEMMA OthersKeepSlots ==
  ASSUME BridgeTypeOK, SlotsExact,
         \/ Server \/ Shutdown \/ Crash
         \/ \E n \in Names : ForeignPut(n)
         \/ \E s \in Sessions : ClientDisconnected(s)
  PROVE  SlotsExact'
<1> USE DEF callVars, driverVars, serverVars
<1>1. CASE Server
  <2>1. PICK u \in Uploads, p \in Paths : ServePut(u, p)
    BY <1>1 DEF Server, BridgeTypeOK
  <2>2. pc' = pc \/ (pc[u] = "waiting" /\ pc' = [pc EXCEPT ![u] = "answered"])
    BY <2>1 DEF ServePut, Answer
  <2> QED BY <2>1, <2>2, SlotsStay DEF ServePut, SlotHeld, BridgeTypeOK
<1>2. CASE Shutdown BY <1>2, SlotsStay DEF Shutdown
<1>3. CASE Crash
  <2>1. \A u \in Uploads : pc'[u] \notin SlotHeld
    BY <1>3 DEF Crash, Idle, SlotHeld
  <2>2. \A c \in Accounts : HoldersOf(c)' = {}
    BY <2>1 DEF HoldersOf
  <2>3. \A c \in Accounts : slots'[c] = 0 /\ MaxConcurrent[c] \in Nat
    BY <1>3 DEF Crash
  <2>4. Cardinality({}) = 0
    BY FS_EmptySet
  <2>5. \A c \in Accounts : Cardinality(HoldersOf(c)') = 0
    BY <2>2, <2>4
  <2> QED BY <2>3, <2>5 DEF SlotsExact, Capped
<1>4. ASSUME NEW n \in Names, ForeignPut(n) PROVE SlotsExact'
  BY <1>4, SlotsStay DEF ForeignPut
<1>5. ASSUME NEW s \in Sessions, ClientDisconnected(s) PROVE SlotsExact'
  BY <1>5, SlotsStay DEF ClientDisconnected
<1> QED BY <1>1, <1>2, <1>3, <1>4, <1>5

-----------------------------------------------------------------------------
(* What is stored, and what is said of it *)

\* A stored object stays, or an upload that may overwrite takes its place
\* (client.go, doUpload's If-None-Match).
LEMMA StoreStays ==
  ASSUME BridgeTypeOK, StoreInv, BridgeNext
  PROVE  StoreInv'
<1>1. CASE UNCHANGED <<objects, stored>>
  BY <1>1 DEF StoreInv, Overwrites
<1>2. ASSUME NEW u \in Uploads, NEW p \in Paths, StorePut(u, p) PROVE StoreInv'
  BY <1>2 DEF StorePut, PutObject, Precondition, StoreInv, Overwrites
<1>3. ASSUME NEW n \in Names, ForeignPut(n) PROVE StoreInv'
  BY <1>3 DEF ForeignPut, PutObject, StoreInv, Overwrites
<1>4. CASE Server
  <2>1. PICK u \in Uploads, p \in Paths : ServePut(u, p)
    BY <1>4 DEF Server, BridgeTypeOK
  <2> QED BY <1>1, <1>2, <2>1 DEF ServePut
<1>5. ASSUME NEW u \in Uploads, Client(u) PROVE UNCHANGED <<objects, stored>>
  BY <1>5 DEF Client, Resolve, ResolveFails, Refuse, Receive, EndTransfer, serverVars
<1>6. ASSUME NEW u \in Uploads, Driver(u) PROVE UNCHANGED <<objects, stored>>
  BY <1>6 DEF Driver, AcquireUploadSlot, SlotRefused, OpenUpload, OpenRefused, Refuse, Receive,
     CloseAborts, CloseFinishes, CommitParents, SendPut, StopWaiting, HandleAnswer, DropSpooled,
     Reply, serverVars
<1>7. ASSUME \/ Shutdown \/ Crash
             \/ \E s \in Sessions : ClientDisconnected(s)
      PROVE  UNCHANGED <<objects, stored>>
  BY <1>7 DEF Shutdown, Crash, ClientDisconnected, serverVars
<1> QED BY <1>1, <1>3, <1>4, <1>5, <1>6, <1>7 DEF BridgeNext

\* The client's side says nothing, and breaks only uploads in transfer.
LEMMA ClientKeepsReplies ==
  ASSUME BridgeTypeOK, ReplyInv, NEW u \in Uploads, Client(u)
  PROVE  ReplyInv'
<1> USE DEF BridgeTypeOK, ReplyInv
<1>1. ASSUME NEW s \in Seconds, ResolveFails(u, s) PROVE ReplyInv'
  BY <1>1 DEF ResolveFails, Refuse, Move
<1>2. ASSUME NEW s \in Seconds, NEW k \in 0 .. MaxCandidates, Resolve(u, s, k)
      PROVE  ReplyInv'
  BY <1>2 DEF Resolve, StorArrives
<1>3. CASE Receive(u) BY <1>3 DEF Receive, callVars, serverVars
<1>4. CASE EndTransfer(u) BY <1>4 DEF EndTransfer, Move, serverVars
<1> QED BY <1>1, <1>2, <1>3, <1>4 DEF Client

\* What commitToWebDAV does with an answer: success ends it, anything else
\* sends again or gives up.
LEMMA AnswerHandled ==
  ASSUME BridgeTypeOK, NEW u \in Uploads, HandleAnswer(u)
  PROVE  /\ pc[u] = "answered"
         /\ UNCHANGED <<stored, broken, outcome, answer, spoolVars>>
         /\ \A v \in Uploads \ {u} : pc'[v] = pc[v] /\ path'[v] = path[v]
         /\ \/ answer[u] = "ok" /\ pc' = [pc EXCEPT ![u] = "stored"] /\ pc'[u] = "stored"
               /\ path'[u] = path[u]
            \/ pc' = [pc EXCEPT ![u] = "put"] /\ pc'[u] = "put"
            \/ pc' = [pc EXCEPT ![u] = "rejected"] /\ pc'[u] = "rejected"
<1>1. /\ pc[u] = "answered"
      /\ UNCHANGED <<stored, broken, outcome, answer, spoolVars>>
  BY DEF HandleAnswer, Move, serverVars
<1>2. \A v \in Uploads \ {u} : pc'[v] = pc[v] /\ path'[v] = path[v]
  BY DEF HandleAnswer, Move, BridgeTypeOK
<1>3. \/ answer[u] = "ok" /\ pc' = [pc EXCEPT ![u] = "stored"] /\ path'[u] = path[u]
      \/ pc' = [pc EXCEPT ![u] = "put"]
      \/ pc' = [pc EXCEPT ![u] = "rejected"]
  BY DEF HandleAnswer, Move
<1>4. \A c : pc' = [pc EXCEPT ![u] = c] => pc'[u] = c
  BY DEF BridgeTypeOK
<1> QED BY <1>1, <1>2, <1>3, <1>4

\* The driver takes an upload for stored only on the answer to the PUT of
\* its path, and never changes the path after that (driver.go,
\* commitToWebDAV).
LEMMA DriverKeepsReplies ==
  ASSUME BridgeTypeOK, ReplyInv, NEW u \in Uploads, Driver(u)
  PROVE  ReplyInv'
<1> USE DEF BridgeTypeOK, ReplyInv, Move, serverVars
<1>1. CASE AcquireUploadSlot(u) BY <1>1 DEF AcquireUploadSlot
<1>2. CASE SlotRefused(u) BY <1>2 DEF SlotRefused, Refuse
<1>3. CASE OpenUpload(u) BY <1>3 DEF OpenUpload
<1>4. CASE OpenRefused(u) BY <1>4 DEF OpenRefused, Refuse
<1>5. CASE Receive(u) BY <1>5 DEF Receive, callVars
<1>6. CASE CloseAborts(u) BY <1>6 DEF CloseAborts
<1>7. CASE CloseFinishes(u) BY <1>7 DEF CloseFinishes
<1>8. CASE CommitParents(u) BY <1>8 DEF CommitParents
<1>9. CASE SendPut(u) BY <1>9 DEF SendPut
<1>10. CASE StopWaiting(u) BY <1>10 DEF StopWaiting
<1>11. CASE HandleAnswer(u)
  <2>1. /\ pc[u] = "answered"
        /\ UNCHANGED <<stored, broken, outcome, answer>>
        /\ \A v \in Uploads \ {u} : pc'[v] = pc[v] /\ path'[v] = path[v]
        /\ \/ answer[u] = "ok" /\ pc'[u] = "stored" /\ path'[u] = path[u]
           \/ pc'[u] \in {"put", "rejected"}
    BY <1>11, AnswerHandled
  <2>2. outcome[u] # "ok" /\ outcome[u] = "none"
    BY <2>1
  <2>3. ASSUME NEW v \in Uploads \ {u}
        PROVE  /\ outcome'[v] # "none" => pc'[v] = "done"
               /\ pc'[v] \in {"stored", "success"} \/ (pc'[v] = "answered" /\ answer'[v] = "ok")
                    => <<v, path'[v]>> \in stored'
               /\ outcome'[v] = "ok" => v \notin broken' /\ <<v, path'[v]>> \in stored'
    BY <2>1, <2>3
  <2>4. pc'[u] = "stored" => <<u, path'[u]>> \in stored'
    BY <2>1
  <2> QED BY <2>1, <2>2, <2>3, <2>4
<1>12. CASE DropSpooled(u) BY <1>12 DEF DropSpooled
<1>13. CASE Reply(u) BY <1>13 DEF Reply
<1> QED BY <1>1, <1>2, <1>3, <1>4, <1>5, <1>6, <1>7, <1>8, <1>9, <1>10, <1>11, <1>12, <1>13
        DEF Driver

\* The server says "ok" only of the path it stored just now.
LEMMA OthersKeepReplies ==
  ASSUME BridgeTypeOK, ReplyInv,
         \/ Server \/ Shutdown \/ Crash
         \/ \E n \in Names : ForeignPut(n)
         \/ \E s \in Sessions : ClientDisconnected(s)
  PROVE  ReplyInv'
<1> USE DEF ReplyInv, BridgeTypeOK, callVars, driverVars, serverVars
<1>1. CASE Server
  <2>1. PICK u \in Uploads, p \in Paths : ServePut(u, p)
    BY <1>1 DEF Server
  <2>2. stored \subseteq stored'
    BY <2>1 DEF ServePut, StorePut
  <2>3. CASE UNCHANGED <<pc, answer>>
    BY <2>1, <2>2, <2>3 DEF ServePut
  <2>4. CASE pc[u] = "waiting" /\ path[u] = p /\ pc' = [pc EXCEPT ![u] = "answered"]
    <3>1. answer'[u] = "ok" => <<u, p>> \in stored'
      BY <2>1, <2>4 DEF ServePut, StorePut, Answer
    <3>2. \A v \in Uploads \ {u} : pc'[v] = pc[v] /\ answer'[v] = answer[v]
      BY <2>1, <2>4 DEF ServePut, Answer
    <3>3. outcome[u] = "none"
      BY <2>4
    <3> QED BY <2>1, <2>2, <2>4, <3>1, <3>2, <3>3 DEF ServePut
  <2> QED BY <2>1, <2>3, <2>4 DEF ServePut, Answer
<1>2. CASE Shutdown BY <1>2 DEF Shutdown
<1>3. CASE Crash BY <1>3 DEF Crash, Idle
<1>4. ASSUME NEW n \in Names, ForeignPut(n) PROVE ReplyInv'
  BY <1>4 DEF ForeignPut
<1>5. ASSUME NEW s \in Sessions, ClientDisconnected(s) PROVE ReplyInv'
  BY <1>5 DEF ClientDisconnected
<1> QED BY <1>1, <1>2, <1>3, <1>4, <1>5

-----------------------------------------------------------------------------
(* The inductive invariant *)

\* The initial states satisfy the invariant: nothing has been said or stored.
LEMMA BridgeInitInv == BridgeInit => BridgeIndInv
<1> SUFFICES ASSUME BridgeInit PROVE BridgeIndInv
  OBVIOUS
<1>1. \A n \in Names : <<n>> \in Paths
  BY DEF Paths
<1>2. \A u \in Uploads : NameOf[u] \in Names
  OBVIOUS
<1>3. BridgeTypeOK
  <2>1. DOMAIN objects \subseteq Paths /\ \A p \in DOMAIN objects : objects[p] = Foreign
    BY <1>1 DEF BridgeInit
  <2>2. path \in [Uploads -> Paths]
    BY <1>1, <1>2 DEF BridgeInit
  <2>3. /\ pc \in [Uploads -> PCs]
        /\ answer \in [Uploads -> Answers]
        /\ outcome \in [Uploads -> {"none", "ok", "error"}]
    BY DEF BridgeInit, PCs, Idle, Answers
  <2>4. /\ attempt \in [Uploads -> 0 .. 2] /\ tries \in [Uploads -> 1 .. 3]
        /\ slots \in [Accounts -> Nat] /\ uploadCounter \in [Accounts -> Nat]
    BY DEF BridgeInit
  <2>5. /\ broken \subseteq Uploads /\ gone \subseteq Sessions /\ shutdown \in BOOLEAN
        /\ parents \subseteq {"drive", "personal"}
        /\ inflight \subseteq Uploads \X Paths /\ stored \subseteq Uploads \X Paths
    BY DEF BridgeInit
  <2> QED BY <2>1, <2>2, <2>3, <2>4, <2>5 DEF BridgeTypeOK
<1>4. \A a \in Accounts : HoldersOf(a) = {}
  BY DEF BridgeInit, HoldersOf, SlotHeld
<1>5. Cardinality({}) = 0
  BY FS_EmptySet
<1>6. \A a \in Accounts : Cardinality(HoldersOf(a)) = 0
  BY <1>4, <1>5
<1>7. SlotsExact
  BY <1>6 DEF BridgeInit, SlotsExact, Capped
<1>8. StoreInv /\ ReplyInv
  BY DEF BridgeInit, StoreInv, ReplyInv
<1> QED BY <1>3, <1>7, <1>8 DEF BridgeIndInv

\* Every step preserves the invariant.
LEMMA BridgeStepInv == BridgeIndInv /\ [BridgeNext]_bridgeVars => BridgeIndInv'
<1> SUFFICES ASSUME BridgeIndInv, [BridgeNext]_bridgeVars PROVE BridgeIndInv'
  OBVIOUS
<1> USE DEF BridgeIndInv
<1>1. CASE BridgeNext
  <2>1. StoreInv'
    BY <1>1, StoreStays
  <2>2. ASSUME NEW u \in Uploads, Client(u) PROVE BridgeTypeOK' /\ SlotsExact' /\ ReplyInv'
    BY <2>2, ClientKeepsTypes, DriverKeepsSlots, ClientKeepsReplies
  <2>3. ASSUME NEW u \in Uploads, Driver(u) PROVE BridgeTypeOK' /\ SlotsExact' /\ ReplyInv'
    BY <2>3, DriverKeepsTypes, DriverKeepsSlots, DriverKeepsReplies
  <2>4. ASSUME \/ Server \/ Shutdown \/ Crash
               \/ \E n \in Names : ForeignPut(n)
               \/ \E s \in Sessions : ClientDisconnected(s)
        PROVE  BridgeTypeOK' /\ SlotsExact' /\ ReplyInv'
    BY <2>4, OthersKeepTypes, OthersKeepSlots, OthersKeepReplies
  <2> QED BY <1>1, <2>1, <2>2, <2>3, <2>4 DEF BridgeNext
<1>2. CASE UNCHANGED bridgeVars
  <2> USE <1>2 DEF bridgeVars, callVars, driverVars, serverVars
  <2>1. BridgeTypeOK'
    BY DEF BridgeTypeOK
  <2>2. SlotsExact'
    BY SlotsStay
  <2>3. StoreInv' /\ ReplyInv'
    BY DEF StoreInv, ReplyInv, Overwrites
  <2> QED BY <2>1, <2>2, <2>3
<1> QED BY <1>1, <1>2

\* The invariant of the driver holds in every reachable state, for any
\* number of uploads and accounts (driver.go).
THEOREM BridgeInvariant == BridgeSpec => []BridgeIndInv
BY BridgeInitInv, BridgeStepInv, PTL DEF BridgeSpec

\* Driver and server state keeps its types.
THEOREM BridgeTypeCorrect == BridgeSpec => []BridgeTypeOK
<1>1. BridgeIndInv => BridgeTypeOK
  BY DEF BridgeIndInv
<1> QED BY <1>1, BridgeInvariant, PTL

\* Every upload slot is given back exactly once, whatever fails: the number
\* of tokens is the number of uploads in progress (driver.go,
\* acquireUploadSlot and releaseUploadSlot).
THEOREM SlotsAreExact == BridgeSpec => []SlotsExact
<1>1. BridgeIndInv => SlotsExact
  BY DEF BridgeIndInv
<1> QED BY <1>1, BridgeInvariant, PTL

\* A client that reads success has its whole file in the drive (driver.go,
\* Close: "The FTP transfer only succeeds if the WebDAV upload succeeds").
THEOREM SuccessIsStored == BridgeSpec => []SuccessMeansStored
<1>1. BridgeIndInv => SuccessMeansStored
  BY DEF BridgeIndInv, StoreInv, ReplyInv, SuccessMeansStored
<1> QED BY <1>1, BridgeInvariant, PTL

-----------------------------------------------------------------------------
(* Overwriting, and the contract *)

\* One step of the drive: unchanged, or one object is added, or replaced by
\* an upload that may overwrite.
LEMMA DriveSteps ==
  ASSUME BridgeTypeOK, BridgeNext
  PROVE  \/ UNCHANGED <<objects, stored>>
         \/ \E u \in Uploads, p \in Paths :
              /\ StorePut(u, p)
              /\ UNCHANGED <<broken, outcome>>
         \/ \E n \in Names : ForeignPut(n)
<1>1. CASE Server
  <2>1. PICK u \in Uploads, p \in Paths : ServePut(u, p)
    BY <1>1 DEF Server, BridgeTypeOK
  <2> QED BY <2>1 DEF ServePut
<1>2. ASSUME NEW u \in Uploads, Client(u) PROVE UNCHANGED <<objects, stored>>
  BY <1>2 DEF Client, Resolve, ResolveFails, Refuse, Receive, EndTransfer, serverVars
<1>3. ASSUME NEW u \in Uploads, Driver(u) PROVE UNCHANGED <<objects, stored>>
  BY <1>3 DEF Driver, AcquireUploadSlot, SlotRefused, OpenUpload, OpenRefused, Refuse, Receive,
     CloseAborts, CloseFinishes, CommitParents, SendPut, StopWaiting, HandleAnswer, DropSpooled,
     Reply, serverVars
<1>4. ASSUME \/ Shutdown \/ Crash
             \/ \E s \in Sessions : ClientDisconnected(s)
      PROVE  UNCHANGED <<objects, stored>>
  BY <1>4 DEF Shutdown, Crash, ClientDisconnected, serverVars
<1> QED BY <1>1, <1>2, <1>3, <1>4 DEF BridgeNext

\* No object is replaced but by an upload whose account's policy is overwrite,
\* however checks and PUTs race (driver.go, commitToWebDAV).
THEOREM NothingIsOverwritten == BridgeSpec => NoSilentOverwrite
<1> DEFINE Kept(p) == /\ p \in DOMAIN objects'
                      /\ objects'[p] # objects[p] =>
                           objects'[p] \in Uploads /\ Overwrites(objects'[p])
<1>1. BridgeTypeOK /\ [BridgeNext]_bridgeVars => [\A p \in DOMAIN objects : Kept(p)]_bridgeVars
  <2> SUFFICES ASSUME BridgeTypeOK, BridgeNext, NEW p \in DOMAIN objects PROVE Kept(p)
    OBVIOUS
  <2>1. ASSUME NEW u \in Uploads, NEW q \in Paths, StorePut(u, q) PROVE Kept(p)
    BY <2>1 DEF StorePut, PutObject, Precondition
  <2>2. ASSUME NEW n \in Names, ForeignPut(n) PROVE Kept(p)
    BY <2>2 DEF ForeignPut, PutObject
  <2> QED BY <2>1, <2>2, DriveSteps
<1> QED BY <1>1, BridgeTypeCorrect, PTL DEF BridgeSpec, NoSilentOverwrite

\* A PUT that is executed is a Store of the contract.
LEMMA PutIsStore ==
  ASSUME BridgeTypeOK, NEW u \in Uploads, NEW p \in Paths,
         StorePut(u, p), UNCHANGED <<broken, outcome>>
  PROVE  Contract!Store(u)
<1>1. p \in DOMAIN objects' /\ objects'[p] = u
  BY DEF StorePut, PutObject
<1>2. Contract!Writes(p, u)
  BY DEF StorePut, PutObject, Contract!Writes
<1>3. {v \in Uploads : \E r \in stored' : r[1] = v}
        = {v \in Uploads : \E r \in stored : r[1] = v} \cup {u}
  <2>1. \A r : r \in stored' <=> r \in stored \/ r = <<u, p>>
    BY DEF StorePut
  <2>2. <<u, p>>[1] = u
    OBVIOUS
  <2>3. \A v : (\E r \in stored' : r[1] = v) <=> (\E r \in stored : r[1] = v) \/ v = u
    BY <2>1, <2>2, Zenon
  <2> QED BY <2>3, Zenon
<1>4. p \in DOMAIN objects => u \in {v \in Uploads : Overwrites(v)}
  BY DEF StorePut, Precondition
<1> QED BY <1>1, <1>2, <1>3, <1>4 DEF Contract!Store

\* So is the PUT of another client.
LEMMA ForeignIsStore ==
  ASSUME NEW n \in Names, ForeignPut(n)
  PROVE  Contract!StoreForeign
<1>1. <<n>> \in DOMAIN objects' \ DOMAIN objects /\ objects'[<<n>>] = Foreign
  BY DEF ForeignPut, PutObject
<1>2. Contract!Writes(<<n>>, objects'[<<n>>])
  BY DEF ForeignPut, PutObject, Contract!Writes
<1> QED BY <1>1, <1>2 DEF ForeignPut, callVars, Contract!StoreForeign

\* Every step of the bridge is a step of the contract, or none.
LEMMA StepOfContract ==
  ASSUME BridgeIndInv, BridgeNext
  PROVE  [Contract!Next]_(Contract!contractVars)
<1> USE DEF BridgeIndInv
<1>1. CASE Server
  <2>1. PICK u \in Uploads, p \in Paths : ServePut(u, p)
    BY <1>1 DEF Server, BridgeTypeOK
  <2>2. CASE StorePut(u, p)
    BY <2>1, <2>2, PutIsStore DEF ServePut, Contract!Next
  <2>3. CASE UNCHANGED <<objects, stored>>
    BY <2>1, <2>3 DEF ServePut, Contract!contractVars
  <2> QED BY <2>1, <2>2, <2>3 DEF ServePut
<1>2. ASSUME NEW n \in Names, ForeignPut(n) PROVE Contract!Next
  BY <1>2, ForeignIsStore DEF Contract!Next
<1>3. ASSUME NEW u \in Uploads, Refuse(u, "idle") \/ Refuse(u, "resolved") \/ Refuse(u, "slotted")
      PROVE  Contract!Next
  <2>1. outcome[u] = "none"
    BY <1>3 DEF Refuse, Move, ReplyInv, BridgeTypeOK
  <2>2. Contract!ReplyError(u)
    BY <1>3, <2>1 DEF Refuse, Contract!ReplyError
  <2> QED BY <2>2 DEF Contract!Next
<1>4. ASSUME NEW u \in Uploads, Client(u) PROVE [Contract!Next]_(Contract!contractVars)
  <2>1. ASSUME NEW s \in Seconds, ResolveFails(u, s) PROVE Contract!Next
    BY <1>3, <2>1 DEF ResolveFails
  <2>2. ASSUME NEW s \in Seconds, NEW k \in 0 .. MaxCandidates, Resolve(u, s, k)
        PROVE  UNCHANGED Contract!contractVars
    BY <2>2 DEF Resolve, Contract!contractVars
  <2>3. CASE Receive(u)
    BY <2>3 DEF Receive, callVars, serverVars, Contract!contractVars
  <2>4. CASE EndTransfer(u)
    <3>1. UNCHANGED <<objects, stored, outcome>>
      BY <2>4 DEF EndTransfer, serverVars
    <3>2. outcome[u] = "none"
      BY <2>4 DEF EndTransfer, Move, ReplyInv, BridgeTypeOK
    <3>3. broken' = broken \/ broken' = broken \cup {u}
      BY <2>4 DEF EndTransfer
    <3>4. UNCHANGED Contract!contractVars \/ Contract!CutShort(u)
      BY <3>1, <3>2, <3>3 DEF Contract!CutShort, Contract!contractVars
    <3> QED BY <3>4 DEF Contract!Next
  <2> QED BY <1>4, <2>1, <2>2, <2>3, <2>4 DEF Client
<1>5. ASSUME NEW u \in Uploads, Driver(u) PROVE [Contract!Next]_(Contract!contractVars)
  <2>1. CASE SlotRefused(u) \/ OpenRefused(u)
    BY <1>3, <2>1 DEF SlotRefused, OpenRefused
  <2>2. CASE Reply(u)
    <3>1. outcome[u] = "none"
      BY <2>2 DEF Reply, Move, ReplyInv, BridgeTypeOK
    <3>2. pc[u] = "success" => u \in {v \in Uploads : \E r \in stored : r[1] = v}
      BY DEF ReplyInv
    <3>3. Contract!ReplyOk(u) \/ Contract!ReplyError(u)
      BY <2>2, <3>1, <3>2 DEF Reply, serverVars, Contract!ReplyOk, Contract!ReplyError
    <3> QED BY <3>3 DEF Contract!Next
  <2>3. CASE Receive(u)
    BY <2>3 DEF Receive, callVars, serverVars, Contract!contractVars
  <2>4. CASE AcquireUploadSlot(u) \/ OpenUpload(u) \/ CloseAborts(u) \/ CloseFinishes(u)
    BY <2>4 DEF AcquireUploadSlot, OpenUpload, CloseAborts, CloseFinishes, serverVars,
                Contract!contractVars
  <2>5. CASE CommitParents(u) \/ SendPut(u) \/ StopWaiting(u) \/ HandleAnswer(u) \/ DropSpooled(u)
    BY <2>5 DEF CommitParents, SendPut, StopWaiting, HandleAnswer, DropSpooled, serverVars,
                Contract!contractVars
  <2> QED BY <1>5, <2>1, <2>2, <2>3, <2>4, <2>5 DEF Driver
<1>6. ASSUME \/ Shutdown \/ Crash
             \/ \E s \in Sessions : ClientDisconnected(s)
      PROVE  UNCHANGED Contract!contractVars
  BY <1>6 DEF Shutdown, Crash, ClientDisconnected, callVars, serverVars, Contract!contractVars
<1> QED BY <1>1, <1>2, <1>4, <1>5, <1>6 DEF BridgeNext

\* The bridge implements the contract: each state of the driver, the spool
\* and the server maps to one of UploadContract (driver.go, Close).
THEOREM ContractIsKept == BridgeSpec => ContractKept
<1>1. BridgeInit => Contract!Init
  <2> SUFFICES ASSUME BridgeInit PROVE Contract!Init
    OBVIOUS
  <2>1. \A p \in DOMAIN objects : objects[p] \notin Uploads
    BY DEF BridgeInit
  <2>2. {v \in Uploads : \E r \in stored : r[1] = v} = {}
    BY DEF BridgeInit
  <2> QED BY <2>1, <2>2 DEF BridgeInit, Contract!Init
<1>2. BridgeIndInv /\ [BridgeNext]_bridgeVars => [Contract!Next]_(Contract!contractVars)
  <2>1. UNCHANGED bridgeVars => UNCHANGED Contract!contractVars
    BY DEF bridgeVars, callVars, serverVars, Contract!contractVars
  <2> QED BY <2>1, StepOfContract
<1> QED BY <1>1, <1>2, BridgeInvariant, PTL DEF BridgeSpec, ContractKept, Contract!Spec

-----------------------------------------------------------------------------
(* The copies of an upload *)

\* Nothing of an upload has been sent.
BeforePut == {"idle", "resolved", "slotted", "transfer", "closing", "commit"}

CopiesInv ==
  \A r \in stored \cup inflight : pc[r[1]] \notin BeforePut /\ NameOfAttempt(r[1], r[2])

\* A step that sends nothing and changes no path keeps the invariant.
LEMMA CopiesStay ==
  ASSUME CopiesInv, BridgeTypeOK, UNCHANGED <<path, attempt>>,
         stored' \cup inflight' \subseteq stored \cup inflight,
         \A u \in Uploads : pc'[u] \in BeforePut => pc[u] \in BeforePut
  PROVE  CopiesInv'
<1> SUFFICES ASSUME NEW r \in stored' \cup inflight'
             PROVE  pc'[r[1]] \notin BeforePut /\ NameOfAttempt(r[1], r[2])'
  BY DEF CopiesInv
<1>1. r \in stored \cup inflight /\ r[1] \in Uploads
  BY DEF BridgeTypeOK
<1> QED BY <1>1 DEF CopiesInv, NameOfAttempt

\* The client's side finds a path before anything is sent.
LEMMA ClientKeepsCopies ==
  ASSUME CopiesInv, BridgeTypeOK, NEW u \in Uploads, Client(u)
  PROVE  CopiesInv'
<1>1. ASSUME NEW s \in Seconds, ResolveFails(u, s) PROVE CopiesInv'
  BY <1>1, CopiesStay DEF ResolveFails, Refuse, Move, BridgeTypeOK, BeforePut, serverVars
<1>2. ASSUME NEW s \in Seconds, NEW k \in 0 .. MaxCandidates, Resolve(u, s, k)
      PROVE  CopiesInv'
  <2>1. /\ pc[u] = "idle" /\ stored' = stored /\ inflight' = inflight
        /\ \A v \in Uploads \ {u} :
             pc'[v] = pc[v] /\ path'[v] = path[v] /\ attempt'[v] = attempt[v]
    BY <1>2 DEF Resolve, StorArrives, BridgeTypeOK
  <2>2. ASSUME NEW r \in stored \cup inflight
        PROVE  pc'[r[1]] \notin BeforePut /\ NameOfAttempt(r[1], r[2])'
    <3>1. r[1] \in Uploads \ {u}
      BY <2>1 DEF CopiesInv, BeforePut, BridgeTypeOK
    <3>2. pc'[r[1]] = pc[r[1]] /\ path'[r[1]] = path[r[1]] /\ attempt'[r[1]] = attempt[r[1]]
      BY <2>1, <3>1
    <3>3. NameOfAttempt(r[1], r[2])' <=> NameOfAttempt(r[1], r[2])
      BY <3>2 DEF NameOfAttempt
    <3> QED BY <3>2, <3>3 DEF CopiesInv
  <2> QED BY <2>1, <2>2 DEF CopiesInv
<1>3. CASE Receive(u) BY <1>3, CopiesStay DEF Receive, callVars, serverVars
<1>4. CASE EndTransfer(u)
  BY <1>4, CopiesStay DEF EndTransfer, Move, serverVars, BridgeTypeOK, BeforePut
<1> QED BY <1>1, <1>2, <1>3, <1>4 DEF Client

\* The driver sends a file under its path, and then extends the path, under the
\* rename policy, with its attempts (driver.go, commitToWebDAV).
LEMMA DriverKeepsCopies ==
  ASSUME CopiesInv, BridgeTypeOK, NEW u \in Uploads, Driver(u)
  PROVE  CopiesInv'
<1> USE DEF Move, serverVars, BridgeTypeOK, BeforePut
<1>1. CASE AcquireUploadSlot(u) BY <1>1, CopiesStay DEF AcquireUploadSlot
<1>2. CASE SlotRefused(u) BY <1>2, CopiesStay DEF SlotRefused, Refuse
<1>3. CASE OpenUpload(u) BY <1>3, CopiesStay DEF OpenUpload
<1>4. CASE OpenRefused(u) BY <1>4, CopiesStay DEF OpenRefused, Refuse
<1>5. CASE Receive(u) BY <1>5, CopiesStay DEF Receive, callVars
<1>6. CASE CloseAborts(u) BY <1>6, CopiesStay DEF CloseAborts
<1>7. CASE CloseFinishes(u) BY <1>7, CopiesStay DEF CloseFinishes
<1>8. CASE CommitParents(u) BY <1>8, CopiesStay DEF CommitParents
<1>9. CASE SendPut(u)
  <2>1. /\ stored' = stored /\ inflight' \subseteq inflight \cup {<<u, path[u]>>}
        /\ path' = path /\ attempt' = attempt /\ pc'[u] \notin BeforePut
        /\ \A v \in Uploads \ {u} : pc'[v] = pc[v]
    BY <1>9 DEF SendPut
  <2>2. ASSUME NEW r \in stored' \cup inflight'
        PROVE  pc'[r[1]] \notin BeforePut /\ NameOfAttempt(r[1], r[2])'
    <3>1. CASE r = <<u, path[u]>>
      <4>1. Len(path[u]) \in Nat /\ attempt[u] \in 0 .. 2
        BY DEF Paths
      <4>2. r[1] = u /\ r[2] = path[u]
        BY <3>1
      <4> QED BY <2>1, <4>1, <4>2 DEF NameOfAttempt
    <3>2. CASE r \in stored \cup inflight
      <4>1. r[1] \in Uploads
        BY <3>2
      <4> QED BY <2>1, <3>2, <4>1 DEF CopiesInv, NameOfAttempt
    <3> QED BY <2>1, <3>1, <3>2
  <2> QED BY <2>2 DEF CopiesInv
<1>10. CASE StopWaiting(u) BY <1>10, CopiesStay DEF StopWaiting
<1>11. CASE HandleAnswer(u)
  <2>1. CASE UNCHANGED <<path, attempt>>
    <3>1. stored' = stored /\ inflight' = inflight
      BY <1>11 DEF HandleAnswer, serverVars
    <3>2. pc[u] \notin BeforePut
      BY <1>11, AnswerHandled DEF BeforePut
    <3>3. \A v \in Uploads : pc'[v] \in BeforePut => pc[v] \in BeforePut
      <4>1. \A v \in Uploads \ {u} : pc'[v] = pc[v]
        BY <1>11, AnswerHandled
      <4>2. pc'[u] \notin BeforePut
        BY <1>11, AnswerHandled DEF BeforePut
      <4> QED BY <4>1, <4>2
    <3> QED BY <2>1, <3>1, <3>3, CopiesStay
  <2>2. CASE /\ Renamable(u)
             /\ path' = [path EXCEPT ![u] = Append(@, attempt[u] + 2)]
             /\ attempt' = [attempt EXCEPT ![u] = @ + 1]
    <3>1. /\ stored' = stored /\ inflight' = inflight
          /\ pc' = [pc EXCEPT ![u] = "put"]
      BY <1>11, <2>2 DEF HandleAnswer, Renamable
    <3>2. /\ path[u] \in Seq(Nat) /\ attempt[u] \in Nat
          /\ path'[u] = Append(path[u], attempt[u] + 2) /\ attempt'[u] = attempt[u] + 1
          /\ Policy[AccountOf[u]] = "rename"
      BY <2>2 DEF Paths, Renamable
    <3>3. /\ Len(path[u]) \in Nat /\ Len(path'[u]) = Len(path[u]) + 1
          /\ \A i \in 1 .. Len(path[u]) : path'[u][i] = path[u][i]
      BY <3>2
    <3>4. ASSUME NEW r \in stored \cup inflight
          PROVE  pc'[r[1]] \notin BeforePut /\ NameOfAttempt(r[1], r[2])'
      <4>1. r[1] \in Uploads /\ r[2] \in Seq(Nat) /\ Len(r[2]) \in Nat
        BY DEF Paths
      <4>2. pc[r[1]] \notin BeforePut /\ NameOfAttempt(r[1], r[2])
        BY DEF CopiesInv
      <4>3. pc'[r[1]] \notin BeforePut
        BY <3>1, <4>1, <4>2
      <4>4. CASE r[1] = u
        <5>1. /\ Len(r[2]) <= Len(path[u]) /\ Len(path[u]) <= Len(r[2]) + attempt[u]
              /\ \A i \in 1 .. Len(r[2]) : r[2][i] = path[u][i]
          BY <3>2, <4>2, <4>4 DEF NameOfAttempt
        <5>2. /\ Len(r[2]) <= Len(path'[u]) /\ Len(path'[u]) <= Len(r[2]) + attempt'[u]
          BY <3>2, <3>3, <4>1, <5>1
        <5>3. ASSUME NEW i \in 1 .. Len(r[2]) PROVE r[2][i] = path'[u][i]
          <6>1. i \in 1 .. Len(path[u])
            BY <3>3, <4>1, <5>1
          <6> QED BY <3>3, <5>1, <6>1
        <5> QED BY <3>2, <4>3, <4>4, <5>2, <5>3 DEF NameOfAttempt
      <4>5. CASE r[1] # u
        <5>1. path'[r[1]] = path[r[1]] /\ attempt'[r[1]] = attempt[r[1]]
          BY <2>2, <4>1, <4>5
        <5> QED BY <4>2, <4>3, <5>1 DEF NameOfAttempt
      <4> QED BY <4>4, <4>5
    <3> QED BY <3>1, <3>4 DEF CopiesInv
  <2> QED BY <1>11, <2>1, <2>2 DEF HandleAnswer
<1>12. CASE DropSpooled(u) BY <1>12, CopiesStay DEF DropSpooled
<1>13. CASE Reply(u) BY <1>13, CopiesStay DEF Reply
<1> QED BY <1>1, <1>2, <1>3, <1>4, <1>5, <1>6, <1>7, <1>8, <1>9, <1>10, <1>11, <1>12, <1>13
        DEF Driver

\* The server stores what is in flight.
LEMMA OthersKeepCopies ==
  ASSUME CopiesInv, BridgeTypeOK,
         \/ Server \/ Shutdown \/ Crash
         \/ \E n \in Names : ForeignPut(n)
         \/ \E s \in Sessions : ClientDisconnected(s)
  PROVE  CopiesInv'
<1> USE DEF BridgeTypeOK, callVars, driverVars, serverVars, BeforePut
<1>1. CASE Server
  <2>1. PICK u \in Uploads, p \in Paths : ServePut(u, p)
    BY <1>1 DEF Server
  <2>2. stored' \cup inflight' \subseteq stored \cup inflight
    BY <2>1 DEF ServePut, StorePut
  <2>3. \A v \in Uploads : pc'[v] \in BeforePut => pc[v] \in BeforePut
    BY <2>1 DEF ServePut, Answer
  <2> QED BY <2>1, <2>2, <2>3, CopiesStay DEF ServePut
<1>2. CASE Shutdown BY <1>2, CopiesStay DEF Shutdown
<1>3. CASE Crash BY <1>3, CopiesStay DEF Crash, Idle
<1>4. ASSUME NEW n \in Names, ForeignPut(n) PROVE CopiesInv'
  BY <1>4, CopiesStay DEF ForeignPut
<1>5. ASSUME NEW s \in Sessions, ClientDisconnected(s) PROVE CopiesInv'
  BY <1>5, CopiesStay DEF ClientDisconnected
<1> QED BY <1>1, <1>2, <1>3, <1>4, <1>5

\* Each copy of an upload in the drive has the name of one of its attempts,
\* however many answers are late or lost (driver.go, commitToWebDAV).
THEOREM CopiesHaveNamesOfAttempts == BridgeSpec => []CopiesAreAttempts
<1>1. BridgeInit => CopiesInv
  BY DEF BridgeInit, CopiesInv
<1>2. BridgeIndInv /\ CopiesInv /\ [BridgeNext]_bridgeVars => CopiesInv'
  <2> SUFFICES ASSUME BridgeIndInv, CopiesInv, [BridgeNext]_bridgeVars PROVE CopiesInv'
    OBVIOUS
  <2>1. BridgeTypeOK
    BY DEF BridgeIndInv
  <2>2. CASE BridgeNext
    BY <2>1, <2>2, ClientKeepsCopies, DriverKeepsCopies, OthersKeepCopies DEF BridgeNext
  <2>3. CASE UNCHANGED bridgeVars
    BY <2>1, <2>3, CopiesStay DEF bridgeVars, callVars, serverVars
  <2> QED BY <2>2, <2>3
<1>3. CopiesInv => CopiesAreAttempts
  BY DEF CopiesInv, CopiesAreAttempts
<1> QED BY <1>1, <1>2, <1>3, BridgeInvariant, PTL DEF BridgeSpec

-----------------------------------------------------------------------------
(* What an answered upload leaves in the spool *)

\* What the goroutine of an upload does with its spool file at each point.
PhaseInv(u) ==
  /\ pc[u] \in {"idle", "resolved", "slotted"} => phase[u] = "new"
  /\ pc[u] = "transfer" => phase[u] \in Writing \cup {"open", "failed"}
  /\ pc[u] = "closing" => phase[u] \in {"open", "failed", "aborting", "finishing", "moved"}
  /\ pc[u] \in {"commit", "put", "waiting", "answered", "stored", "rejected"} =>
       phase[u] = "committed"
  /\ pc[u] \in {"success", "failure", "done"} =>
       \/ phase[u] \in {"new", "refused", "aborted", "finishFailed", "deleted"}
       \/ phase[u] = "lost" /\ pc[u] = "done"
       \/ phase[u] \in {"committed", "chmodFailed"} /\ DiskFaults

\* Where the file is, on a disk that does not fail.
NoTemp == {"new", "refused", "aborting", "aborted", "moved", "committed", "deleted"}
NoFinal == Phases \ {"finishFailed", "lost", "moved", "committed"}

PlaceInv(u) ==
  /\ phase[u] \in NoTemp => temp[u] = NoFile
  /\ phase[u] \in NoFinal => final[u] = NoFile
  /\ pc[u] = "done" /\ phase[u] = "lost" /\ NobodyLeaves => temp[u] = NoFile /\ final[u] = NoFile

\* While nobody leaves, FinishUpload has no reason to refuse.
CalmInv ==
  NobodyLeaves =>
    /\ ~shutdown /\ gone = {}
    /\ \A u \in Uploads :
         /\ phase[u] \in Writing \cup {"new", "open", "finishing"} => u \notin cancelled
         /\ ~DiskFaults => phase[u] # "finishFailed"

\* What the phases and files of every upload are.
FilesInv == \A u \in Uploads : PhaseInv(u) /\ size[u] = 0 /\ (~DiskFaults => PlaceInv(u))

\* A step that leaves the spool alone and moves u between points that say the
\* same of its phase.
LEMMA FilesStay ==
  ASSUME FilesInv, UNCHANGED <<phase, size, temp, final>>,
         \A u \in Uploads : pc'[u] = pc[u] \/ (PhaseInv(u)' /\ pc'[u] # "done")
                           \/ (PhaseInv(u)' /\ phase[u] # "lost")
  PROVE  FilesInv'
<1> SUFFICES ASSUME NEW u \in Uploads
             PROVE  PhaseInv(u)' /\ size'[u] = 0 /\ (~DiskFaults => PlaceInv(u)')
  BY DEF FilesInv
<1> QED BY DEF FilesInv, PhaseInv, PlaceInv, NobodyLeaves

\* The client's side: a transfer is open until it ends (driver.go, Write).
LEMMA ClientKeepsFiles ==
  ASSUME TypeOK, BridgeTypeOK, FilesInv, NEW u \in Uploads, Client(u)
  PROVE  FilesInv'
<1> USE DEF TypeOK, BridgeTypeOK
<1>1. ASSUME NEW s \in Seconds, ResolveFails(u, s) PROVE FilesInv'
  BY <1>1, FilesStay DEF ResolveFails, Refuse, Move, StorArrives, FilesInv, PhaseInv, spoolVars, uploadVars, diskVars
<1>2. ASSUME NEW s \in Seconds, NEW k \in 0 .. MaxCandidates, Resolve(u, s, k)
      PROVE  FilesInv'
  BY <1>2, FilesStay DEF Resolve, StorArrives, FilesInv, PhaseInv, spoolVars, uploadVars, diskVars
<1>3. CASE Receive(u)
  BY <1>3 DEF Receive, callVars, uploadVars, diskVars, Goto, ReserveChunk, RejectChunk, WriteData,
     WriteDataFails, AccountChunk, RollbackChunk, FilesInv, PhaseInv, PlaceInv, Writing, NoTemp, NoFinal, Phases
<1>4. CASE EndTransfer(u)
  BY <1>4, FilesStay DEF EndTransfer, Move, FilesInv, PhaseInv, Writing, spoolVars, uploadVars, diskVars
<1> QED BY <1>1, <1>2, <1>3, <1>4 DEF Client

\* The goroutine of an upload: open, finish or abort, commit, delete (driver.go,
\* handleUploadOpen, Close and commitToWebDAV).
LEMMA DriverKeepsFiles ==
  ASSUME TypeOK, BridgeTypeOK, FilesInv, NEW u \in Uploads, Driver(u)
  PROVE  FilesInv'
<1> USE DEF TypeOK, BridgeTypeOK
<1>1. CASE AcquireUploadSlot(u)
  BY <1>1, FilesStay DEF AcquireUploadSlot, Move, FilesInv, PhaseInv, spoolVars, uploadVars, diskVars
<1>2. CASE SlotRefused(u)
  BY <1>2, FilesStay DEF SlotRefused, Refuse, Move, FilesInv, PhaseInv, spoolVars, uploadVars, diskVars
<1>3. CASE OpenUpload(u)
  BY <1>3 DEF OpenUpload, StartUpload, Goto, Move, Known, FilesInv, PhaseInv, PlaceInv, Writing,
     NoTemp, NoFinal, Phases
<1>4. CASE OpenRefused(u)
  BY <1>4 DEF OpenRefused, StartRefused, ChmodFails, Refuse, Goto, Move, FilesInv, PhaseInv, PlaceInv,
     NoTemp, NoFinal, Phases, diskVars
<1>5. CASE Receive(u)
  BY <1>5 DEF Receive, callVars, uploadVars, diskVars, Goto, ReserveChunk, RejectChunk, WriteData,
     WriteDataFails, AccountChunk, RollbackChunk, FilesInv, PhaseInv, PlaceInv, Writing, NoTemp, NoFinal, Phases
<1>6. CASE CloseAborts(u)
  BY <1>6 DEF CloseAborts, AbortBegin, AbortRelease, Goto, Move, FilesInv, PhaseInv, PlaceInv,
     NoTemp, NoFinal, Phases, diskVars
<1>7. CASE CloseFinishes(u)
  <2>1. CASE FinishBegin(u) /\ pc[u] = "closing" /\ UNCHANGED pc
    BY <2>1 DEF FinishBegin, Goto, FilesInv, PhaseInv, PlaceInv, NoTemp, NoFinal, Phases, diskVars
  <2>2. CASE MoveToFinal(u) /\ pc[u] = "closing" /\ UNCHANGED pc
    BY <2>2 DEF MoveToFinal, Goto, FilesInv, PhaseInv, PlaceInv, NoTemp, NoFinal, Phases
  <2>3. CASE FinishRelease(u) /\ Move(u, "closing", "commit")
    BY <2>3 DEF FinishRelease, Goto, Move, FilesInv, PhaseInv, PlaceInv, NoTemp, NoFinal, Phases, diskVars
  <2>4. CASE FinishRefused(u) /\ Move(u, "closing", "failure")
    BY <2>4 DEF FinishRefused, Goto, Move, FilesInv, PhaseInv, PlaceInv, NoTemp, NoFinal, Phases, diskVars
  <2>5. CASE MoveFails(u) /\ Move(u, "closing", "failure")
    BY <2>5 DEF MoveFails, Goto, Move, FilesInv, PhaseInv, PlaceInv, NoTemp, NoFinal, Phases, diskVars
  <2> QED BY <1>7, <2>1, <2>2, <2>3, <2>4, <2>5 DEF CloseFinishes
<1>8. CASE CommitParents(u)
  BY <1>8, FilesStay DEF CommitParents, Move, FilesInv, PhaseInv, spoolVars, uploadVars, diskVars
<1>9. CASE SendPut(u)
  BY <1>9, FilesStay DEF SendPut, Move, FilesInv, PhaseInv, spoolVars, uploadVars, diskVars
<1>10. CASE StopWaiting(u)
  BY <1>10, FilesStay DEF StopWaiting, Move, FilesInv, PhaseInv, spoolVars, uploadVars, diskVars
<1>11. CASE HandleAnswer(u)
  <2>1. /\ pc[u] = "answered" /\ pc'[u] \in {"stored", "put", "rejected"}
        /\ UNCHANGED <<phase, size, temp, final>>
        /\ \A v \in Uploads \ {u} : pc'[v] = pc[v]
    BY <1>11, AnswerHandled DEF spoolVars, uploadVars, diskVars
  <2>2. PhaseInv(u)' /\ pc'[u] # "done"
    BY <2>1 DEF FilesInv, PhaseInv
  <2> QED BY <2>1, <2>2, FilesStay
<1>12. CASE DropSpooled(u)
  <2>1. CASE DeleteByPath(u)
    BY <1>12, <2>1 DEF DropSpooled, DeleteByPath, Goto, Move, FilesInv, PhaseInv, PlaceInv, NoTemp, NoFinal, Phases
  <2>2. CASE DiskFaults /\ UNCHANGED spoolVars
    BY <1>12, <2>2, FilesStay DEF DropSpooled, Move, FilesInv, PhaseInv, spoolVars, uploadVars, diskVars
  <2> QED BY <1>12, <2>1, <2>2 DEF DropSpooled
<1>13. CASE Reply(u)
  BY <1>13, FilesStay DEF Reply, Move, FilesInv, PhaseInv, spoolVars, uploadVars, diskVars
<1> QED BY <1>1, <1>2, <1>3, <1>4, <1>5, <1>6, <1>7, <1>8, <1>9, <1>10, <1>11, <1>12, <1>13
        DEF Driver

\* A crash only takes files away; the rest of the world does not touch them.
LEMMA OthersKeepFiles ==
  ASSUME TypeOK, BridgeTypeOK, FilesInv, CalmInv,
         \/ Server \/ Shutdown \/ Crash
         \/ \E n \in Names : ForeignPut(n)
         \/ \E s \in Sessions : ClientDisconnected(s)
  PROVE  FilesInv'
<1> USE DEF TypeOK, BridgeTypeOK, callVars, driverVars, serverVars
<1>1. CASE Server
  <2>1. PICK u \in Uploads, p \in Paths : ServePut(u, p)
    BY <1>1 DEF Server
  <2>2. UNCHANGED <<phase, size, temp, final>>
    BY <2>1 DEF ServePut, spoolVars, uploadVars, diskVars
  <2>3. \A v \in Uploads : pc'[v] = pc[v] \/ (pc[v] = "waiting" /\ pc'[v] = "answered")
    BY <2>1 DEF ServePut, Answer
  <2> QED BY <2>2, <2>3, FilesStay DEF FilesInv, PhaseInv
<1>2. CASE Shutdown BY <1>2, FilesStay DEF Shutdown, CancelContext, diskVars
<1>3. CASE Crash
  <2> SUFFICES ASSUME NEW u \in Uploads
               PROVE  PhaseInv(u)' /\ size'[u] = 0 /\ (~DiskFaults => PlaceInv(u)')
    BY DEF FilesInv
  <2>1. /\ phase'[u] = (IF phase[u] = "new" THEN "new" ELSE "lost")
        /\ pc'[u] = (IF pc[u] \in Idle THEN pc[u] ELSE "lost")
        /\ size' = size
        /\ temp'[u] \in {temp[u], NoFile} /\ final'[u] \in {final[u], NoFile}
    BY <1>3 DEF Crash, Restart, Cleanup
  <2>2. PhaseInv(u)'
    BY <2>1 DEF FilesInv, PhaseInv, Idle
  <2>3. ASSUME ~DiskFaults PROVE PlaceInv(u)'
    <3>1. PlaceInv(u) /\ PhaseInv(u)
      BY <2>3 DEF FilesInv
    <3>2. NobodyLeaves => phase[u] # "finishFailed"
      BY <2>3 DEF CalmInv
    <3> QED BY <2>1, <2>3, <3>1, <3>2 DEF PhaseInv, PlaceInv, NoTemp, NoFinal, Phases, Idle, NobodyLeaves
  <2> QED BY <2>1, <2>2, <2>3 DEF FilesInv
<1>4. ASSUME NEW n \in Names, ForeignPut(n) PROVE FilesInv'
  BY <1>4, FilesStay DEF ForeignPut, spoolVars, uploadVars, diskVars
<1>5. ASSUME NEW s \in Sessions, ClientDisconnected(s) PROVE FilesInv'
  BY <1>5, FilesStay DEF ClientDisconnected, CancelContext, diskVars
<1> QED BY <1>1, <1>2, <1>3, <1>4, <1>5

\* A step that opens no upload, fails none, and cancels nothing keeps it calm.
LEMMA CalmStays ==
  ASSUME CalmInv, UNCHANGED <<cancelled, shutdown, gone>>,
         \A u \in Uploads :
           /\ phase'[u] \in Writing \cup {"new", "open", "finishing"} =>
                phase[u] \in Writing \cup {"new", "open", "finishing"}
           /\ phase'[u] = "finishFailed" => phase[u] = "finishFailed" \/ DiskFaults
  PROVE  CalmInv'
BY DEF CalmInv, NobodyLeaves

\* Nobody cancels but clients that leave and the driver's shutdown; an upload
\* that is aborted is over (driver.go, handleUploadOpen and Close).
LEMMA StepKeepsCalm ==
  ASSUME TypeOK, BridgeTypeOK, FilesInv, CalmInv, BridgeNext
  PROVE  CalmInv'
<1> USE DEF TypeOK, BridgeTypeOK, Goto, Writing
<1>1. ASSUME NEW u \in Uploads, Client(u) PROVE CalmInv'
  BY <1>1, CalmStays DEF Client, ResolveFails, Refuse, Resolve, EndTransfer, Receive, ReserveChunk,
     RejectChunk, WriteData, WriteDataFails, AccountChunk, RollbackChunk, driverVars, spoolVars, uploadVars
<1>2. ASSUME NEW u \in Uploads, Driver(u) PROVE CalmInv'
  <2>1. CASE OpenUpload(u)
    <3>1. NobodyLeaves => cancelled' = cancelled
      BY <2>1 DEF OpenUpload, StartUpload, CalmInv, ContextDone
    <3>2. NobodyLeaves => u \notin cancelled'
      BY <2>1, <3>1 DEF OpenUpload, StartUpload, CalmInv
    <3> QED BY <2>1, <3>1, <3>2 DEF OpenUpload, StartUpload, CalmInv, NobodyLeaves, driverVars
  <2>2. CASE CloseAborts(u)
    <3>1. CASE AbortBegin(u)
      BY <2>2, <3>1 DEF CloseAborts, AbortBegin, CalmInv, NobodyLeaves, driverVars
    <3>2. CASE AbortRelease(u)
      BY <2>2, <3>2, CalmStays DEF CloseAborts, AbortRelease, driverVars
    <3> QED BY <2>2, <3>1, <3>2 DEF CloseAborts
  <2>3. CASE CloseFinishes(u)
    <3>1. CASE FinishRefused(u)
      <4>1. phase[u] = "open" /\ u \in cancelled
        BY <3>1 DEF FinishRefused, Finishable, FilesInv
      <4>2. ~NobodyLeaves
        BY <4>1 DEF CalmInv
      <4> QED BY <4>2 DEF CalmInv, NobodyLeaves
    <3>2. CASE FinishBegin(u) \/ MoveToFinal(u) \/ FinishRelease(u) \/ MoveFails(u)
      BY <2>3, <3>2, CalmStays DEF CloseFinishes, FinishBegin, MoveToFinal, FinishRelease, MoveFails, driverVars
    <3> QED BY <2>3, <3>1, <3>2 DEF CloseFinishes
  <2>4. CASE Receive(u)
    BY <2>4, CalmStays DEF Receive, ReserveChunk, RejectChunk, WriteData, WriteDataFails, AccountChunk,
       RollbackChunk, driverVars
  <2>5. CASE \/ AcquireUploadSlot(u) \/ SlotRefused(u) \/ OpenRefused(u)
             \/ CommitParents(u) \/ SendPut(u) \/ StopWaiting(u) \/ HandleAnswer(u)
             \/ DropSpooled(u) \/ Reply(u)
    BY <2>5, CalmStays DEF AcquireUploadSlot, SlotRefused, OpenRefused, StartRefused, ChmodFails, Refuse, CommitParents,
       SendPut, StopWaiting, HandleAnswer, DropSpooled, DeleteByPath, Reply, driverVars, spoolVars, uploadVars
  <2> QED BY <1>2, <2>1, <2>2, <2>3, <2>4, <2>5 DEF Driver
<1>3. CASE Server BY <1>3, CalmStays DEF Server, ServePut, driverVars, spoolVars, uploadVars
<1>4. ASSUME NEW n \in Names, ForeignPut(n) PROVE CalmInv'
  BY <1>4, CalmStays DEF ForeignPut, driverVars, spoolVars, uploadVars
<1>5. ASSUME NEW s \in Sessions, ClientDisconnected(s) PROVE CalmInv'
  BY <1>5 DEF ClientDisconnected, CalmInv, NobodyLeaves
<1>6. CASE Shutdown BY <1>6 DEF Shutdown, CalmInv, NobodyLeaves
<1>7. CASE Crash BY <1>7 DEF Crash, Restart, CalmInv, NobodyLeaves
<1> QED BY <1>1, <1>2, <1>3, <1>4, <1>5, <1>6, <1>7 DEF BridgeNext

\* The spool's own invariant holds of the bridge.
LEMMA SpoolInvOfBridge == BridgeSpec => []IndInv
BY BridgeUsesSpool, SpoolInvariant, PTL

\* The phases and files of every upload, and the calm while nobody leaves
\* (driver.go, handleUploadOpen and Close).
LEMMA FilesInvariant == BridgeSpec => [](FilesInv /\ CalmInv)
<1>1. BridgeInit => FilesInv /\ CalmInv
  BY DEF BridgeInit, Init, FilesInv, PhaseInv, PlaceInv, CalmInv, Writing, NoTemp, NoFinal
<1>2. /\ IndInv /\ BridgeIndInv /\ FilesInv /\ CalmInv /\ [BridgeNext]_bridgeVars
      => FilesInv' /\ CalmInv'
  <2> SUFFICES ASSUME IndInv, BridgeIndInv, FilesInv, CalmInv, [BridgeNext]_bridgeVars
               PROVE  FilesInv' /\ CalmInv'
    OBVIOUS
  <2>1. TypeOK /\ BridgeTypeOK
    BY DEF IndInv, BridgeIndInv
  <2>2. CASE BridgeNext
    BY <2>1, <2>2, ClientKeepsFiles, DriverKeepsFiles, OthersKeepFiles, StepKeepsCalm DEF BridgeNext
  <2>3. CASE UNCHANGED bridgeVars
    BY <2>3, FilesStay, CalmStays DEF bridgeVars, spoolVars, uploadVars, diskVars, callVars, driverVars
  <2> QED BY <2>2, <2>3
<1> QED BY <1>1, <1>2, SpoolInvOfBridge, BridgeInvariant, PTL DEF BridgeSpec

\* An answered upload holds no capacity and no file, unless FinishUpload
\* reported an error or the disk fails; a STOR refused because its file's
\* permissions could not be set leaves that file open (driver.go, Close).
THEOREM SpoolIsEmptied == BridgeSpec => []SpoolEmptied
<1>1. IndInv /\ BridgeIndInv /\ FilesInv /\ CalmInv => SpoolEmptied
  <2> SUFFICES ASSUME IndInv, BridgeIndInv, FilesInv, CalmInv,
                      NEW u \in Uploads, outcome[u] # "none", phase[u] # "finishFailed"
               PROVE  /\ u \notin activeUploads
                      /\ u \in handles => phase[u] = "chmodFailed"
                      /\ ~DiskFaults /\ (phase[u] = "lost" => NobodyLeaves) =>
                           temp[u] = NoFile /\ final[u] = NoFile
    BY DEF SpoolEmptied
  <2>1. pc[u] = "done"
    BY DEF BridgeIndInv, ReplyInv
  <2>2. \/ phase[u] \in {"new", "refused", "aborted", "deleted", "lost"}
        \/ phase[u] \in {"committed", "chmodFailed"} /\ DiskFaults
    BY <2>1 DEF FilesInv, PhaseInv
  <2>3. u \notin activeUploads /\ (u \in handles => phase[u] = "chmodFailed")
    BY <2>2 DEF IndInv, OwnerInv, Untracked, Writing
  <2>4. ASSUME ~DiskFaults, phase[u] = "lost" => NobodyLeaves
        PROVE  temp[u] = NoFile /\ final[u] = NoFile
    BY <2>1, <2>2, <2>4 DEF FilesInv, PlaceInv, NoTemp, NoFinal, Phases
  <2> QED BY <2>3, <2>4
<1> QED BY <1>1, SpoolInvOfBridge, BridgeInvariant, FilesInvariant, PTL

-----------------------------------------------------------------------------
(* An upload whose answers all arrive is stored once *)

\* The server is done with u, and the driver knows it stored the file.
KnownStored(u) ==
  \/ pc[u] = "answered" /\ answer[u] = "ok"
  \/ pc[u] \in {"stored", "success", "lost"}
  \/ pc[u] = "done" /\ outcome[u] = "ok"

\* u can still be sent, or never will be: nothing is in flight or stored.
Unsent(u) ==
  \/ pc[u] \in BeforePut \cup {"put", "rejected", "failure"}
  \/ pc[u] = "answered" /\ answer[u] # "ok"
  \/ pc[u] = "done" /\ outcome[u] # "ok"

\* A failed transfer is aborted.
BrokenInv(u) ==
  /\ pc[u] \in {"closing", "failure", "done", "lost"}
  /\ phase[u] \in {"failed", "aborting", "aborted", "lost"}

OnceInv ==
  AnswersArrive =>
    /\ ~shutdown /\ gone = {}
    /\ \A r \in inflight : path[r[1]] = r[2] /\ pc[r[1]] \in {"waiting", "lost"}
    /\ \A r \in stored : path[r[1]] = r[2] /\ KnownStored(r[1])
    /\ \A u \in broken : BrokenInv(u)

\* A step that sends and stores nothing keeps the invariant when what it moves
\* was not sent, or stays where it was.
LEMMA OnceStays ==
  ASSUME BridgeTypeOK, OnceInv, UNCHANGED <<inflight, stored, shutdown, gone>>,
         \A u \in Uploads : \/ Unsent(u)
                            \/ path'[u] = path[u] /\ (KnownStored(u) => KnownStored(u)')
                               /\ (pc[u] \in {"waiting", "lost"} => pc'[u] \in {"waiting", "lost"}),
         AnswersArrive => \A u \in broken' : BrokenInv(u)'
  PROVE  OnceInv'
<1> SUFFICES ASSUME AnswersArrive PROVE OnceInv'
  BY DEF OnceInv, AnswersArrive
<1>1. ASSUME NEW r \in inflight PROVE path'[r[1]] = r[2] /\ pc'[r[1]] \in {"waiting", "lost"}
  <2>1. r[1] \in Uploads /\ pc[r[1]] \in {"waiting", "lost"} /\ path[r[1]] = r[2]
    BY DEF BridgeTypeOK, OnceInv
  <2>2. ~Unsent(r[1])
    BY <2>1 DEF Unsent, BeforePut
  <2> QED BY <2>1, <2>2
<1>2. ASSUME NEW r \in stored PROVE path'[r[1]] = r[2] /\ KnownStored(r[1])'
  <2>1. r[1] \in Uploads /\ KnownStored(r[1]) /\ path[r[1]] = r[2]
    BY DEF BridgeTypeOK, OnceInv
  <2>2. ~Unsent(r[1])
    BY <2>1 DEF Unsent, KnownStored, BeforePut
  <2> QED BY <2>1, <2>2
<1> QED BY <1>1, <1>2 DEF OnceInv

\* The client's side, before anything is sent.
LEMMA ClientKeepsOnce ==
  ASSUME TypeOK, BridgeTypeOK, OnceInv, NEW u \in Uploads, Client(u)
  PROVE  OnceInv'
<1> USE DEF TypeOK, BridgeTypeOK, Move, BeforePut
<1>1. ASSUME NEW s \in Seconds, ResolveFails(u, s) PROVE OnceInv'
  BY <1>1, OnceStays DEF ResolveFails, StorArrives, Refuse, Unsent, KnownStored, BrokenInv, OnceInv,
     spoolVars, uploadVars
<1>2. ASSUME NEW s \in Seconds, NEW k \in 0 .. MaxCandidates, Resolve(u, s, k)
      PROVE  OnceInv'
  <2>1. pc[u] = "idle" /\ UNCHANGED <<inflight, stored, shutdown, gone, broken, phase, answer, outcome>>
    BY <1>2 DEF Resolve, StorArrives, spoolVars, uploadVars
  <2>2. \A v \in Uploads \ {u} : pc'[v] = pc[v] /\ path'[v] = path[v]
    BY <1>2 DEF Resolve
  <2>3. AnswersArrive => u \notin broken
    BY <2>1 DEF OnceInv, BrokenInv
  <2> QED BY <2>1, <2>2, <2>3, OnceStays DEF Unsent, KnownStored, BrokenInv, OnceInv
<1>3. CASE Receive(u)
  <2>1. AnswersArrive => u \notin broken
    BY <1>3 DEF Receive, OnceInv, BrokenInv
  <2>2. \A v \in Uploads \ {u} : phase'[v] = phase[v]
    BY <1>3 DEF Receive, ReserveChunk, RejectChunk, WriteData, WriteDataFails, AccountChunk, RollbackChunk,
       Goto, uploadVars
  <2> QED BY <1>3, <2>1, <2>2, OnceStays DEF Receive, callVars, driverVars, serverVars, KnownStored, BrokenInv, OnceInv
<1>4. CASE EndTransfer(u)
  <2>1. AnswersArrive => broken' = (IF phase[u] = "failed" THEN broken \cup {u} ELSE broken)
    BY <1>4 DEF EndTransfer, AnswersArrive
  <2> QED BY <1>4, <2>1, OnceStays DEF EndTransfer, driverVars, serverVars, spoolVars, uploadVars, Unsent,
             KnownStored, BrokenInv, OnceInv
<1> QED BY <1>1, <1>2, <1>3, <1>4 DEF Client

\* The driver sends a path only after the one before it was refused (driver.go,
\* commitToWebDAV).
LEMMA DriverKeepsOnce ==
  ASSUME TypeOK, BridgeTypeOK, OnceInv, NEW u \in Uploads, Driver(u)
  PROVE  OnceInv'
<1> USE DEF TypeOK, BridgeTypeOK, Move, BeforePut, driverVars, serverVars
<1>1. CASE AcquireUploadSlot(u) \/ SlotRefused(u) \/ CommitParents(u)
  BY <1>1, OnceStays DEF AcquireUploadSlot, SlotRefused, CommitParents, Refuse, Unsent, KnownStored, BrokenInv,
     OnceInv, spoolVars, uploadVars
<1>2. CASE OpenUpload(u) \/ OpenRefused(u)
  <2>1. /\ pc[u] = "slotted" /\ broken' = broken
        /\ \A v \in Uploads \ {u} : phase'[v] = phase[v] /\ pc'[v] = pc[v]
    BY <1>2 DEF OpenUpload, OpenRefused, StartUpload, StartRefused, ChmodFails, Refuse, Goto
  <2>2. AnswersArrive => \A v \in broken' : BrokenInv(v)'
    BY <2>1 DEF OnceInv, BrokenInv
  <2> QED BY <1>2, <2>1, <2>2, OnceStays DEF OpenUpload, OpenRefused, Refuse, Unsent, KnownStored
<1>3. CASE Receive(u)
  <2>1. AnswersArrive => u \notin broken
    BY <1>3 DEF Receive, OnceInv, BrokenInv
  <2>2. \A v \in Uploads \ {u} : phase'[v] = phase[v]
    BY <1>3 DEF Receive, ReserveChunk, RejectChunk, WriteData, WriteDataFails, AccountChunk, RollbackChunk,
       Goto, uploadVars
  <2> QED BY <1>3, <2>1, <2>2, OnceStays DEF Receive, callVars, KnownStored, BrokenInv, OnceInv
<1>4. CASE CloseAborts(u)
  <2>1. /\ pc[u] = "closing" /\ broken' = broken /\ pc'[u] \in {"closing", "failure"}
        /\ phase'[u] \in {"aborting", "aborted"}
        /\ \A v \in Uploads \ {u} : phase'[v] = phase[v] /\ pc'[v] = pc[v]
    BY <1>4 DEF CloseAborts, AbortBegin, AbortRelease, Goto
  <2>2. AnswersArrive => \A v \in broken' : BrokenInv(v)'
    BY <2>1 DEF OnceInv, BrokenInv
  <2> QED BY <1>4, <2>1, <2>2, OnceStays DEF CloseAborts, Unsent, KnownStored
<1>5. CASE CloseFinishes(u)
  <2>1. /\ pc[u] = "closing" /\ broken' = broken /\ phase[u] \in {"open", "finishing", "moved"}
        /\ \A v \in Uploads \ {u} : phase'[v] = phase[v] /\ pc'[v] = pc[v]
    BY <1>5 DEF CloseFinishes, FinishBegin, FinishRefused, MoveToFinal, MoveFails, FinishRelease, Goto
  <2>2. AnswersArrive => u \notin broken
    BY <2>1 DEF OnceInv, BrokenInv
  <2>3. AnswersArrive => \A v \in broken' : BrokenInv(v)'
    BY <2>1, <2>2 DEF OnceInv, BrokenInv
  <2> QED BY <1>5, <2>1, <2>3, OnceStays DEF CloseFinishes, Unsent, KnownStored
<1>6. CASE SendPut(u)
  <2>1. /\ pc[u] = "put" /\ UNCHANGED <<stored, broken, phase, path, outcome, shutdown, gone>>
        /\ \A v \in Uploads \ {u} : pc'[v] = pc[v] /\ answer'[v] = answer[v]
    BY <1>6 DEF SendPut, spoolVars, uploadVars
  <2>2. AnswersArrive => \A v \in broken' : BrokenInv(v)'
    BY <2>1 DEF OnceInv, BrokenInv
  <2>3. CASE inflight' = inflight
    BY <1>6, <2>1, <2>2, <2>3, OnceStays DEF Unsent, KnownStored
  <2>4. CASE pc'[u] = "waiting" /\ inflight' = inflight \cup {<<u, path[u]>>}
    <3>1. ASSUME AnswersArrive, NEW r \in inflight \cup {<<u, path[u]>>}
          PROVE  path'[r[1]] = r[2] /\ pc'[r[1]] \in {"waiting", "lost"}
      BY <2>1, <2>4, <3>1 DEF OnceInv
    <3>2. ASSUME AnswersArrive, NEW r \in stored PROVE path'[r[1]] = r[2] /\ KnownStored(r[1])'
      BY <2>1, <3>2 DEF OnceInv, KnownStored
    <3> QED BY <2>1, <2>2, <2>4, <3>1, <3>2 DEF OnceInv, AnswersArrive
  <2> QED BY <1>6, <2>3, <2>4 DEF SendPut
<1>7. CASE StopWaiting(u)
  <2>1. ~AnswersArrive
    BY <1>7 DEF StopWaiting, ContextDone, AnswersArrive, OnceInv
  <2> QED BY <2>1 DEF OnceInv, AnswersArrive
<1>8. CASE HandleAnswer(u)
  <2>1. /\ pc[u] = "answered" /\ UNCHANGED <<inflight, stored, broken, phase, answer, outcome, shutdown, gone>>
        /\ \A v \in Uploads \ {u} : pc'[v] = pc[v] /\ path'[v] = path[v]
        /\ (answer[u] = "ok" => pc'[u] = "stored" /\ path' = path)
    BY <1>8 DEF HandleAnswer, Resendable, Renamable, spoolVars, uploadVars
  <2>2. AnswersArrive => \A v \in broken' : BrokenInv(v)'
    BY <2>1 DEF OnceInv, BrokenInv
  <2> QED BY <2>1, <2>2, OnceStays DEF Unsent, KnownStored
<1>9. CASE DropSpooled(u)
  <2>1. /\ pc[u] \in {"stored", "rejected"} /\ pc'[u] = (IF pc[u] = "stored" THEN "success" ELSE "failure")
        /\ UNCHANGED <<inflight, stored, broken, answer, outcome, path, shutdown, gone>>
        /\ \A v \in Uploads \ {u} : pc'[v] = pc[v] /\ phase'[v] = phase[v]
    BY <1>9 DEF DropSpooled, DeleteByPath, Goto, spoolVars, uploadVars
  <2>2. AnswersArrive => \A v \in broken' : BrokenInv(v)'
    BY <2>1 DEF OnceInv, BrokenInv
  <2> QED BY <2>1, <2>2, OnceStays DEF Unsent, KnownStored
<1>10. CASE Reply(u)
  <2>1. /\ pc[u] \in {"success", "failure"} /\ pc'[u] = "done"
        /\ outcome'[u] = (IF pc[u] = "success" /\ u \notin broken THEN "ok" ELSE "error")
        /\ UNCHANGED <<inflight, stored, broken, phase, answer, path, shutdown, gone>>
        /\ \A v \in Uploads \ {u} : pc'[v] = pc[v] /\ outcome'[v] = outcome[v]
    BY <1>10 DEF Reply, spoolVars, uploadVars
  <2>2. AnswersArrive => \A v \in broken' : BrokenInv(v)'
    BY <2>1 DEF OnceInv, BrokenInv
  <2>3. AnswersArrive /\ pc[u] = "success" => u \notin broken
    BY DEF OnceInv, BrokenInv
  <2>4. ~AnswersArrive => OnceInv'
    BY DEF OnceInv, AnswersArrive
  <2> QED BY <2>1, <2>2, <2>3, <2>4, OnceStays DEF Unsent, KnownStored
<1> QED BY <1>1, <1>2, <1>3, <1>4, <1>5, <1>6, <1>7, <1>8, <1>9, <1>10 DEF Driver

\* The server answers what it does, and nobody else sends for an upload.
LEMMA OthersKeepOnce ==
  ASSUME TypeOK, BridgeTypeOK, OnceInv,
         \/ Server \/ Shutdown \/ Crash
         \/ \E n \in Names : ForeignPut(n)
         \/ \E s \in Sessions : ClientDisconnected(s)
  PROVE  OnceInv'
<1> USE DEF TypeOK, BridgeTypeOK, callVars, driverVars, serverVars, spoolVars, uploadVars, AnswersArrive
<1>1. CASE Server
  <2> SUFFICES ASSUME AnswersArrive PROVE OnceInv'
    BY DEF OnceInv
  <2>1. PICK u \in Uploads, p \in Paths : ServePut(u, p)
    BY <1>1 DEF Server
  <2>2. /\ <<u, p>> \in inflight /\ inflight' = inflight \ {<<u, p>>}
        /\ UNCHANGED <<phase, path, broken, outcome, shutdown, gone>>
        /\ \A v \in Uploads \ {u} : pc'[v] = pc[v] /\ answer'[v] = answer[v]
    BY <2>1 DEF ServePut, Answer
  <2>3. path[u] = p /\ pc[u] \in {"waiting", "lost"}
    BY <2>2 DEF OnceInv
  <2>4. \/ stored' = stored
        \/ /\ stored' = stored \cup {<<u, p>>}
           /\ IF pc[u] = "waiting" THEN pc'[u] = "answered" /\ answer'[u] = "ok" ELSE pc' = pc
    BY <2>1, <2>3 DEF ServePut, StorePut, Answer
  <2>5. pc[u] = "lost" => pc' = pc
    BY <2>1, <2>3 DEF ServePut, Answer
  <2>6. ASSUME NEW r \in inflight' PROVE path'[r[1]] = r[2] /\ pc'[r[1]] \in {"waiting", "lost"}
    <3>1. r \in inflight /\ r \in Uploads \X Paths /\ r # <<u, p>>
      BY <2>2
    <3>2. path[r[1]] = r[2] /\ pc[r[1]] \in {"waiting", "lost"}
      BY <3>1 DEF OnceInv
    <3>3. r[1] # u
      BY <2>3, <3>1, <3>2
    <3> QED BY <2>2, <3>1, <3>2, <3>3
  <2>7. ASSUME NEW r \in stored' PROVE path'[r[1]] = r[2] /\ KnownStored(r[1])'
    <3>1. CASE r = <<u, p>> /\ stored' # stored
      <4>1. r[1] = u /\ r[2] = p
        BY <3>1
      <4> QED BY <2>2, <2>3, <2>4, <3>1, <4>1 DEF KnownStored
    <3>2. CASE r \in stored
      <4>1. path[r[1]] = r[2] /\ KnownStored(r[1]) /\ r[1] \in Uploads
        BY <3>2 DEF OnceInv
      <4> QED BY <2>2, <2>3, <2>5, <4>1 DEF KnownStored
    <3> QED BY <2>4, <3>1, <3>2
  <2>8. ASSUME NEW v \in broken' PROVE BrokenInv(v)'
    BY <2>2, <2>3, <2>5 DEF OnceInv, BrokenInv
  <2> QED BY <2>2, <2>6, <2>7, <2>8 DEF OnceInv
<1>2. CASE Shutdown BY <1>2 DEF Shutdown, OnceInv
<1>3. CASE Crash
  <2> SUFFICES ASSUME AnswersArrive PROVE OnceInv'
    BY DEF OnceInv
  <2>1. /\ \A v \in Uploads : pc'[v] = (IF pc[v] \in Idle THEN pc[v] ELSE "lost")
        /\ \A v \in Uploads : phase'[v] = (IF phase[v] = "new" THEN "new" ELSE "lost")
        /\ UNCHANGED <<path, answer, broken, outcome, inflight, stored>>
        /\ ~shutdown' /\ gone' = {}
    BY <1>3 DEF Crash, Restart
  <2>2. \A v \in broken' : BrokenInv(v)'
    BY <2>1 DEF OnceInv, BrokenInv, Idle
  <2>3. \A r \in inflight : r[1] \in Uploads /\ path[r[1]] = r[2] /\ pc'[r[1]] \in {"waiting", "lost"}
    BY <2>1 DEF OnceInv, Idle
  <2>4. ASSUME NEW r \in stored PROVE path'[r[1]] = r[2] /\ KnownStored(r[1])'
    BY <2>1 DEF OnceInv, KnownStored, Idle
  <2> QED BY <2>1, <2>2, <2>3, <2>4 DEF OnceInv
<1>4. ASSUME NEW n \in Names, ForeignPut(n) PROVE OnceInv'
  BY <1>4, OnceStays DEF ForeignPut, KnownStored, BrokenInv, OnceInv
<1>5. ASSUME NEW s \in Sessions, ClientDisconnected(s) PROVE OnceInv'
  BY <1>5 DEF ClientDisconnected, OnceInv
<1> QED BY <1>1, <1>2, <1>3, <1>4, <1>5

\* The driver knows of every copy it stored while all answers arrive.
LEMMA OnceInvariant == BridgeSpec => []OnceInv
<1>1. BridgeInit => OnceInv
  BY DEF BridgeInit, OnceInv
<1>2. IndInv /\ BridgeIndInv /\ OnceInv /\ [BridgeNext]_bridgeVars => OnceInv'
  <2> SUFFICES ASSUME IndInv, BridgeIndInv, OnceInv, [BridgeNext]_bridgeVars PROVE OnceInv'
    OBVIOUS
  <2>1. TypeOK /\ BridgeTypeOK
    BY DEF IndInv, BridgeIndInv
  <2>2. CASE BridgeNext
    BY <2>1, <2>2, ClientKeepsOnce, DriverKeepsOnce, OthersKeepOnce DEF BridgeNext
  <2>3. CASE UNCHANGED bridgeVars
    BY <2>1, <2>3, OnceStays DEF bridgeVars, spoolVars, uploadVars, callVars, driverVars, serverVars,
       KnownStored, BrokenInv, OnceInv
  <2> QED BY <2>2, <2>3
<1> QED BY <1>1, <1>2, SpoolInvOfBridge, BridgeInvariant, PTL DEF BridgeSpec

\* When every answer arrives, an upload is stored once at most, and one that
\* ends in an error is not stored at all, also when the process dies (driver.go,
\* commitToWebDAV).
THEOREM StoredAtMostOnce == BridgeSpec => []StoredOnceIfAtAll
<1>1. BridgeIndInv /\ OnceInv => StoredOnceIfAtAll
  BY DEF BridgeIndInv, BridgeTypeOK, ReplyInv, OnceInv, KnownStored, StoredOnceIfAtAll
<1> QED BY <1>1, OnceInvariant, BridgeInvariant, PTL

-----------------------------------------------------------------------------
(* A file that loses every race *)

\* Whoever holds a name: an upload that was stored under it, or another
\* client, which takes no name but those that clients ask for.
HolderInv ==
  \A p \in DOMAIN objects :
    IF objects[p] = Foreign THEN Len(p) = 1 ELSE <<objects[p], p>> \in stored

\* The uploads the theorem speaks of.
Renames(u) == Policy[AccountOf[u]] = "rename" /\ ~Capped(AccountOf[u])

\* A name of that length was lost to somebody else. The names of one upload
\* have different lengths, and those that others took are theirs alone.
LengthTaken(n) == (\E r \in stored : Len(r[2]) = n) \/ ("others" \in Faults /\ n = 1)

Outrun(u) == u \in broken \/ Cardinality(OtherWriters(u)) >= 3

RaceInv(u) ==
  /\ pc[u] \in BeforePut => attempt[u] = 0
  /\ pc[u] \notin {"idle", "done"} => "drive" \in parents
  /\ pc[u] = "closing" /\ phase[u] \in {"failed", "aborting"} => u \in broken
  /\ pc[u] = "answered" => answer[u] \in {"ok", "conflict"}
  /\ attempt[u] < Len(path[u])
  /\ pc[u] \notin {"idle", "done"} /\ path[u] \in DOMAIN objects /\ objects[path[u]] = Foreign
       => "others" \in Faults
  /\ \A n \in Len(path[u]) - attempt[u] .. Len(path[u]) - 1 : LengthTaken(n)
  /\ pc[u] = "answered" /\ answer[u] = "conflict" => LengthTaken(Len(path[u]))
  /\ pc[u] \in {"rejected", "failure"} \/ outcome[u] = "error" => Outrun(u)

RivalInv == Undisturbed => \A u \in Uploads : Renames(u) => RaceInv(u)

\* Three different writers are at least three.
LEMMA ThreeAreThree ==
  ASSUME NEW S, IsFiniteSet(S), NEW a \in S, NEW b \in S, NEW c \in S, a # b, a # c, b # c
  PROVE  Cardinality(S) >= 3
<1>1. IsFiniteSet({}) /\ Cardinality({}) = 0
  BY FS_EmptySet
<1>2. IsFiniteSet({a}) /\ Cardinality({a}) = 1
  BY FS_Singleton
<1>3. IsFiniteSet({a, b}) /\ Cardinality({a, b}) = 2
  <2>1. {a} \cup {b} = {a, b}
    OBVIOUS
  <2>2. Cardinality({a} \cup {b}) = 1 + 1 /\ IsFiniteSet({a} \cup {b})
    BY <1>2, FS_AddElement
  <2> QED BY <2>1, <2>2
<1>4. Cardinality({a, b, c}) = 3
  <2>1. {a, b} \cup {c} = {a, b, c}
    OBVIOUS
  <2>2. Cardinality({a, b} \cup {c}) = 2 + 1
    BY <1>3, FS_AddElement
  <2> QED BY <2>1, <2>2
<1>5. {a, b, c} \subseteq S
  OBVIOUS
<1>6. Cardinality({a, b, c}) <= Cardinality(S)
  BY <1>5, FS_Subset
<1>7. Cardinality(S) \in Nat
  BY FS_CardinalityType
<1> QED BY <1>4, <1>6, <1>7

\* The writers of the drive are finitely many, and only become more.
LEMMA WritersFinite ==
  ASSUME stored \subseteq Uploads \X Paths, NEW u
  PROVE  IsFiniteSet(OtherWriters(u))
<1>1. IsFiniteSet(Uploads \cup {Foreign})
  BY FS_AddElement
<1>2. OtherWriters(u) \subseteq Uploads \cup {Foreign}
  BY DEF OtherWriters
<1> QED BY <1>1, <1>2, FS_Subset

LEMMA OutrunStays ==
  ASSUME stored' \subseteq Uploads \X Paths, stored \subseteq stored', broken \subseteq broken',
         NEW u, Outrun(u)
  PROVE  Outrun(u)'
<1>1. CASE u \in broken BY <1>1 DEF Outrun
<1>2. CASE Cardinality(OtherWriters(u)) >= 3
  <2>1. IsFiniteSet(OtherWriters(u)')
    <3>1. IsFiniteSet(Uploads \cup {Foreign})
      BY FS_AddElement
    <3>2. OtherWriters(u)' \subseteq Uploads \cup {Foreign}
      BY DEF OtherWriters
    <3> QED BY <3>1, <3>2, FS_Subset
  <2>2. OtherWriters(u) \subseteq OtherWriters(u)'
    BY DEF OtherWriters
  <2>3. /\ Cardinality(OtherWriters(u)) <= Cardinality(OtherWriters(u)')
        /\ Cardinality(OtherWriters(u)) \in Nat /\ Cardinality(OtherWriters(u)') \in Nat
    BY <2>1, <2>2, FS_Subset, FS_CardinalityType
  <2> QED BY <1>2, <2>3 DEF Outrun
<1> QED BY <1>1, <1>2 DEF Outrun

\* Three names are held by three writers: by OnceInv an upload is stored under
\* one name.
LEMMA ThreeNamesThreeWriters ==
  ASSUME BridgeTypeOK, OnceInv, AnswersArrive, NEW u \in Uploads, Unsent(u),
         NEW r \in stored, NEW s \in stored, NEW t \in stored,
         r[2] # s[2], r[2] # t[2], s[2] # t[2]
  PROVE  Outrun(u)
<1>1. \A q \in stored : q[1] \in Uploads /\ path[q[1]] = q[2] /\ q[1] # u
  BY DEF BridgeTypeOK, OnceInv, KnownStored, Unsent, BeforePut
<1>2. r[1] # s[1] /\ r[1] # t[1] /\ s[1] # t[1]
  BY <1>1
<1>3. r[1] \in OtherWriters(u) /\ s[1] \in OtherWriters(u) /\ t[1] \in OtherWriters(u)
  BY <1>1 DEF OtherWriters
<1> QED BY <1>2, <1>3, WritersFinite, ThreeAreThree DEF Outrun, BridgeTypeOK

\* So are a name of another client and two more.
LEMMA TwoNamesAndAnother ==
  ASSUME BridgeTypeOK, OnceInv, AnswersArrive, NEW u \in Uploads, Unsent(u), "others" \in Faults,
         NEW s \in stored, NEW t \in stored, s[2] # t[2]
  PROVE  Outrun(u)
<1>1. \A q \in stored : q[1] \in Uploads /\ path[q[1]] = q[2] /\ q[1] # u
  BY DEF BridgeTypeOK, OnceInv, KnownStored, Unsent, BeforePut
<1>2. s[1] # t[1] /\ s[1] # Foreign /\ t[1] # Foreign
  BY <1>1
<1>3. s[1] \in OtherWriters(u) /\ t[1] \in OtherWriters(u) /\ Foreign \in OtherWriters(u)
  BY <1>1 DEF OtherWriters
<1> QED BY <1>2, <1>3, WritersFinite, ThreeAreThree DEF Outrun, BridgeTypeOK

\* An upload that was refused three names was outrun.
LEMMA RefusedThrice ==
  ASSUME BridgeTypeOK, OnceInv, AnswersArrive, NEW u \in Uploads, RaceInv(u),
         pc[u] = "answered", answer[u] # "ok", attempt[u] >= 2
  PROVE  Outrun(u)
<1>0. PICK n \in Nat : n = Len(path[u])
  BY DEF BridgeTypeOK, Paths
<1>1. attempt[u] = 2 /\ n > 2
  BY <1>0 DEF BridgeTypeOK, RaceInv
<1>2. LengthTaken(n - 2) /\ LengthTaken(n - 1) /\ LengthTaken(n)
  <2>1. \A k \in n - 2 .. n - 1 : LengthTaken(k)
    BY <1>0, <1>1 DEF RaceInv
  <2>2. LengthTaken(n)
    BY <1>0 DEF RaceInv
  <2> QED BY <1>1, <2>1, <2>2
<1>3. PICK s \in stored : Len(s[2]) = n - 1
  <2>1. n - 1 # 1
    BY <1>1
  <2> QED BY <1>2, <2>1 DEF LengthTaken
<1>4. PICK t \in stored : Len(t[2]) = n
  BY <1>1, <1>2 DEF LengthTaken
<1>5. s[2] # t[2] /\ Unsent(u)
  BY <1>1, <1>3, <1>4 DEF Unsent
<1>6. CASE "others" \in Faults
  BY <1>5, <1>6, TwoNamesAndAnother
<1>7. CASE \E r \in stored : Len(r[2]) = n - 2
  <2>1. PICK r \in stored : Len(r[2]) = n - 2
    BY <1>7
  <2>2. r[2] # s[2] /\ r[2] # t[2]
    BY <1>1, <1>3, <1>4, <2>1
  <2> QED BY <1>5, <2>2, ThreeNamesThreeWriters
<1> QED BY <1>2, <1>6, <1>7 DEF LengthTaken

\* While nothing disturbs, no context ends and the server fails nobody.
LEMMA QuietWorld ==
  ASSUME Undisturbed, OnceInv
  PROVE  /\ AnswersArrive /\ NobodyLeaves /\ ~shutdown /\ gone = {}
         /\ \A v : ~ContextDone(v)
         /\ Faults \cap {"head", "mkcol", "server", "network", "data"} = {}
<1>1. AnswersArrive /\ NobodyLeaves /\ Faults \cap {"head", "mkcol", "server", "network", "data"} = {}
  BY DEF Undisturbed, AnswersArrive, NobodyLeaves
<1>2. ~shutdown /\ gone = {}
  BY <1>1 DEF OnceInv
<1> QED BY <1>1, <1>2 DEF ContextDone

\* What an upload's part of the invariant depends on.
LEMMA RaceStays ==
  ASSUME NEW u \in Uploads, RaceInv(u), path'[u] = path[u], attempt'[u] = attempt[u],
         stored' \subseteq Uploads \X Paths, stored \subseteq stored',
         parents \subseteq parents', broken \subseteq broken',
         path[u] \in DOMAIN objects' /\ objects'[path[u]] = Foreign
           => (path[u] \in DOMAIN objects /\ objects[path[u]] = Foreign) \/ "others" \in Faults,
         pc'[u] \in BeforePut => pc[u] \in BeforePut,
         pc[u] \in {"idle", "done"} => pc'[u] \in {"idle", "done"},
         pc'[u] = "closing" /\ phase'[u] \in {"failed", "aborting"}
           => (pc[u] = "closing" /\ phase[u] \in {"failed", "aborting"}) \/ u \in broken',
         pc'[u] = "answered" => pc[u] = "answered" /\ answer'[u] = answer[u],
         pc'[u] \in {"rejected", "failure"} \/ outcome'[u] = "error"
           => pc[u] \in {"rejected", "failure"} \/ outcome[u] = "error" \/ Outrun(u)'
  PROVE  RaceInv(u)'
<1>1. \A n : LengthTaken(n) => LengthTaken(n)'
  BY DEF LengthTaken
<1>2. Outrun(u) => Outrun(u)'
  BY OutrunStays
<1>3. \A n \in Len(path'[u]) - attempt'[u] .. Len(path'[u]) - 1 : LengthTaken(n)'
  BY <1>1 DEF RaceInv
<1>4. /\ attempt'[u] < Len(path'[u])
      /\ pc'[u] \in BeforePut => attempt'[u] = 0
      /\ pc'[u] \notin {"idle", "done"} => "drive" \in parents'
      /\ pc'[u] = "closing" /\ phase'[u] \in {"failed", "aborting"} => u \in broken'
      /\ pc'[u] = "answered" => answer'[u] \in {"ok", "conflict"}
  BY DEF RaceInv
<1>5. pc'[u] = "answered" /\ answer'[u] = "conflict" => LengthTaken(Len(path[u]))'
  BY <1>1 DEF RaceInv
<1>6. pc'[u] \notin {"idle", "done"} /\ path'[u] \in DOMAIN objects' /\ objects'[path'[u]] = Foreign
        => "others" \in Faults
  BY DEF RaceInv
<1>7. pc'[u] \in {"rejected", "failure"} \/ outcome'[u] = "error" => Outrun(u)'
  BY <1>2 DEF RaceInv
<1> QED BY <1>3, <1>4, <1>5, <1>6, <1>7 DEF RaceInv

\* The holders of names: only a PUT changes them.
LEMMA StepKeepsHolders ==
  ASSUME BridgeTypeOK, HolderInv, BridgeNext
  PROVE  HolderInv'
<1>1. CASE UNCHANGED <<objects, stored>>
  BY <1>1 DEF HolderInv
<1>2. ASSUME NEW u \in Uploads, NEW p \in Paths, StorePut(u, p) PROVE HolderInv'
  BY <1>2 DEF StorePut, PutObject, HolderInv
<1>3. ASSUME NEW n \in Names, ForeignPut(n) PROVE HolderInv'
  <2>1. stored' = stored
    BY <1>3 DEF ForeignPut
  <2>2. \A p \in DOMAIN objects' :
          (p = <<n>> /\ objects'[p] = Foreign) \/ (p \in DOMAIN objects /\ objects'[p] = objects[p])
    BY <1>3 DEF ForeignPut, PutObject
  <2>3. Len(<<n>>) = 1
    OBVIOUS
  <2> QED BY <2>1, <2>2, <2>3 DEF HolderInv
<1> QED BY <1>1, <1>2, <1>3, DriveSteps

\* The lengths of candidate names, and that no two of them are the same.
LEMMA Candidates ==
  ASSUME BridgeTypeOK, NEW u \in Uploads, NEW s \in Seconds
  PROVE  /\ \A k \in Nat : /\ Candidate(u, s, k) \in Paths
                           /\ Len(Candidate(u, s, k)) > 0
                           /\ k > 0 => Len(Candidate(u, s, k)) # 1
         /\ \A j, k \in Nat \ {0} : j # k => Candidate(u, s, j) # Candidate(u, s, k)
<1>1. NameOf[u] \in Nat /\ s \in Nat /\ uploadCounter[AccountOf[u]] \in Nat
  BY DEF BridgeTypeOK
<1> QED BY <1>1 DEF Candidate, Paths

\* The search gives up only when three and more names with a suffix are taken
\* (transfer.go, GenerateUniqueFilename).
LEMMA SearchOutrun ==
  ASSUME BridgeTypeOK, OnceInv, HolderInv, Undisturbed, NEW u \in Uploads, NEW s \in Seconds,
         pc[u] = "idle", Policy[AccountOf[u]] = "rename", NoChoice(u, s)
  PROVE  Outrun(u)
<1> DEFINE c(k) == Candidate(u, s, k)
           holder(k) == <<objects[c(k)], c(k)>>
<1>1. \A k \in 1 .. 3 : c(k) \in DOMAIN objects
  BY DEF NoChoice, LooksTaken, Undisturbed
<1>2. ASSUME NEW i \in 1 .. 3 PROVE holder(i) \in stored /\ holder(i)[2] = c(i)
  <2>1. c(i) \in DOMAIN objects
    BY <1>1
  <2>2. Len(c(i)) # 1
    <3>1. i \in Nat /\ i > 0
      OBVIOUS
    <3> QED BY <3>1, Candidates
  <2> QED BY <2>1, <2>2 DEF HolderInv
<1>3. c(1) # c(2) /\ c(1) # c(3) /\ c(2) # c(3)
  BY Candidates
<1>4. AnswersArrive /\ Unsent(u)
  BY QuietWorld DEF Unsent, BeforePut
<1> HIDE DEF c, holder
<1> QED BY <1>2, <1>3, <1>4, ThreeNamesThreeWriters

\* The client's side: an upload starts under a name that was free, and fails
\* at once only if it was outrun.
LEMMA ClientKeepsRace ==
  ASSUME TypeOK, BridgeTypeOK, FilesInv, OnceInv, HolderInv, RivalInv, Undisturbed,
         NEW u \in Uploads, Client(u), NEW v \in Uploads, Renames(v)
  PROVE  RaceInv(v)'
<1> USE DEF BridgeTypeOK, TypeOK
<1>1. RaceInv(v)
  BY DEF RivalInv
<1>2. ASSUME NEW s \in Seconds, ResolveFails(u, s) PROVE RaceInv(v)'
  <2>1. /\ pc[u] = "idle" /\ pc' = [pc EXCEPT ![u] = "done"]
        /\ outcome' = [outcome EXCEPT ![u] = "error"]
        /\ UNCHANGED <<path, attempt, answer, broken, phase, objects, parents, stored>>
    BY <1>2 DEF ResolveFails, Refuse, Move, spoolVars, uploadVars
  <2>2. u = v => Outrun(u)'
    <3> SUFFICES ASSUME u = v PROVE Outrun(u)'
      OBVIOUS
    <3>1. NoChoice(u, s)
      BY <1>2, QuietWorld DEF ResolveFails, ParentsFail
    <3>2. Outrun(u)
      BY <2>1, <3>1, SearchOutrun DEF Renames
    <3> QED BY <2>1, <3>2 DEF Outrun, OtherWriters
  <2> QED BY <1>1, <2>1, <2>2, RaceStays DEF BeforePut
<1>3. ASSUME NEW s \in Seconds, NEW k \in 0 .. MaxCandidates, Resolve(u, s, k)
      PROVE  RaceInv(v)'
  <2>1. /\ pc[u] = "idle" /\ pc' = [pc EXCEPT ![u] = "resolved"]
        /\ path' = [path EXCEPT ![u] = Candidate(u, s, k)]
        /\ parents' = parents \cup {"drive"}
        /\ UNCHANGED <<attempt, answer, broken, outcome, phase, objects, stored>>
    BY <1>3 DEF Resolve, StorArrives, ParentsExist, Undisturbed, spoolVars, uploadVars
  <2>2. CASE u # v
    BY <1>1, <2>1, <2>2, RaceStays DEF BeforePut
  <2>3. CASE u = v
    <3>1. Candidate(u, s, k) \notin DOMAIN objects
      BY <1>3, <2>3, QuietWorld DEF Resolve, Chooses, Overwrites, LooksFree, LooksTaken, Renames, Undisturbed
    <3>2. k \in Nat
      OBVIOUS
    <3>3. attempt[u] = 0 /\ Len(Candidate(u, s, k)) \in Nat /\ Len(Candidate(u, s, k)) > 0
      <4>1. Candidate(u, s, k) \in Seq(Nat) /\ Len(Candidate(u, s, k)) > 0
        BY <3>2, Candidates DEF Paths
      <4>2. attempt[u] = 0
        BY <1>1, <2>1, <2>3 DEF RaceInv, BeforePut
      <4> QED BY <4>1, <4>2
    <3>4. /\ path'[u] = Candidate(u, s, k) /\ attempt'[u] = 0 /\ pc'[u] = "resolved"
      BY <2>1, <3>3
    <3>5. outcome'[u] = "error" => Outrun(u)'
      BY <1>1, <2>1, <2>3 DEF RaceInv, Outrun, OtherWriters
    <3>6. \A n \in Len(path'[u]) - attempt'[u] .. Len(path'[u]) - 1 : LengthTaken(n)'
      BY <3>3, <3>4
    <3> QED BY <2>1, <2>3, <3>1, <3>3, <3>4, <3>5, <3>6 DEF RaceInv
  <2> QED BY <2>2, <2>3
<1>4. CASE Receive(u)
  <2>1. /\ pc[u] = "transfer" /\ \A w \in Uploads \ {u} : phase'[w] = phase[w]
    BY <1>4 DEF Receive, ReserveChunk, RejectChunk, WriteData, WriteDataFails, AccountChunk, RollbackChunk,
       Goto, uploadVars
  <2> QED BY <1>1, <1>4, <2>1, RaceStays DEF Receive, callVars, driverVars, serverVars
<1>5. CASE EndTransfer(u)
  <2>1. /\ pc[u] = "transfer" /\ pc' = [pc EXCEPT ![u] = "closing"]
        /\ phase[u] \in {"open", "failed"} /\ (phase[u] = "failed" => u \in broken')
        /\ broken \subseteq broken'
        /\ UNCHANGED <<path, attempt, answer, outcome, phase, objects, parents, stored>>
    BY <1>5 DEF EndTransfer, Move, spoolVars, uploadVars, serverVars
  <2> QED BY <1>1, <2>1, RaceStays DEF BeforePut
<1> QED BY <1>2, <1>3, <1>4, <1>5 DEF Client

\* An answer: stored, or the next name, or, after three names, the end
\* (driver.go, commitToWebDAV).
LEMMA AnswerKeepsRace ==
  ASSUME BridgeTypeOK, OnceInv, HolderInv, RivalInv, Undisturbed,
         NEW u \in Uploads, HandleAnswer(u), Renames(u)
  PROVE  RaceInv(u)'
<1>1. RaceInv(u) /\ pc[u] = "answered" /\ answer[u] \in {"ok", "conflict"} /\ pc \in [Uploads -> PCs]
  BY DEF RivalInv, RaceInv, HandleAnswer, Move, BridgeTypeOK
<1>2. /\ UNCHANGED <<answer, broken, outcome, objects, parents, stored, phase>>
      /\ stored \subseteq Uploads \X Paths
  BY DEF HandleAnswer, serverVars, spoolVars, uploadVars, BridgeTypeOK
<1>3. CASE answer[u] = "ok" /\ Move(u, "answered", "stored") /\ UNCHANGED <<path, attempt>>
  <2>1. pc'[u] = "stored"
    BY <1>1, <1>3 DEF Move
  <2> QED BY <1>1, <1>2, <1>3, <2>1, RaceStays DEF BeforePut
<1>4. CASE /\ Renamable(u) /\ Move(u, "answered", "put")
           /\ path' = [path EXCEPT ![u] = Append(@, attempt[u] + 2)]
           /\ attempt' = [attempt EXCEPT ![u] = @ + 1]
  <2>1. pc'[u] = "put"
    BY <1>1, <1>4 DEF Move
  <2>2. PICK n \in Nat : n = Len(path[u])
    BY DEF BridgeTypeOK, Paths
  <2>3. PICK i \in 0 .. 2 : i = attempt[u]
    BY DEF BridgeTypeOK
  <2>4. path'[u] = Append(path[u], i + 2) /\ attempt'[u] = i + 1 /\ path[u] \in Seq(Nat)
    BY <1>4, <2>3 DEF BridgeTypeOK, Paths
  <2>5. Len(path'[u]) = n + 1
    BY <2>2, <2>4
  <2>6. LengthTaken(n)
    BY <1>1, <1>4, <2>2 DEF RaceInv, Renamable
  <2>7. \A k \in n - i .. n - 1 : LengthTaken(k)
    BY <1>1, <2>2, <2>3 DEF RaceInv
  <2>8. \A k \in Len(path'[u]) - attempt'[u] .. Len(path'[u]) - 1 : LengthTaken(k)'
    <3>1. \A k : LengthTaken(k) => LengthTaken(k)'
      BY <1>2 DEF LengthTaken
    <3> SUFFICES ASSUME NEW k \in (n + 1) - (i + 1) .. (n + 1) - 1 PROVE LengthTaken(k)
      BY <2>4, <2>5, <3>1
    <3> QED BY <2>6, <2>7
  <2>9. i < n
    BY <1>1, <2>2, <2>3 DEF RaceInv
  <2>10. outcome'[u] = "error" => Outrun(u)'
    BY <1>1, <1>2 DEF RaceInv, Outrun, OtherWriters
  <2>11. "drive" \in parents'
    BY <1>1, <1>2 DEF RaceInv
  <2>12. path'[u] \in DOMAIN objects' => objects'[path'[u]] # Foreign
    <3>1. n + 1 # 1
      BY <2>3, <2>9
    <3> QED BY <2>5, <3>1, <1>2 DEF HolderInv
  <2> QED BY <2>1, <2>4, <2>5, <2>8, <2>9, <2>10, <2>11, <2>12 DEF RaceInv, BeforePut
<1>5. CASE /\ answer[u] # "ok" /\ ~Resendable(u) /\ ~Renamable(u) /\ Move(u, "answered", "rejected")
           /\ UNCHANGED <<path, attempt>>
  <2>1. pc'[u] = "rejected"
    BY <1>1, <1>5 DEF Move
  <2>2. attempt[u] >= 2
    BY <1>5 DEF Renamable, Renames, BridgeTypeOK
  <2>3. Outrun(u)
    BY <1>1, <1>5, <2>2, RefusedThrice, QuietWorld
  <2>4. Outrun(u)'
    BY <1>2, <2>3 DEF Outrun, OtherWriters
  <2> QED BY <1>1, <1>2, <1>5, <2>1, <2>4, RaceStays DEF BeforePut
<1>6. ~Resendable(u)
  BY <1>1 DEF Resendable
<1> QED BY <1>3, <1>4, <1>5, <1>6 DEF HandleAnswer

\* The goroutine of an upload: nothing but an answer, or a failed transfer,
\* can end it badly (driver.go, handleUploadOpen, Close and commitToWebDAV).
LEMMA DriverKeepsRace ==
  ASSUME IndInv, BridgeTypeOK, FilesInv, CalmInv, OnceInv, HolderInv, RivalInv, Undisturbed,
         NEW u \in Uploads, Driver(u), NEW v \in Uploads, Renames(v)
  PROVE  RaceInv(v)'
<1> USE DEF BridgeTypeOK, TypeOK, Move, BeforePut, serverVars
<1>1. RaceInv(v) /\ TypeOK /\ (u = v => RaceInv(u) /\ Renames(u))
  BY DEF RivalInv, IndInv
<1>2. ~DiskFaults /\ ~ContextDone(u) /\ ~shutdown
      /\ Faults \cap {"head", "mkcol", "server", "network", "data"} = {}
  BY QuietWorld DEF Undisturbed
<1>3. CASE AcquireUploadSlot(u)
  BY <1>1, <1>3, RaceStays DEF AcquireUploadSlot, spoolVars, uploadVars
<1>4. CASE SlotRefused(u)
  <2>1. u # v
    BY <1>1, <1>4 DEF SlotRefused, Renames
  <2> QED BY <1>1, <1>4, <2>1, RaceStays DEF SlotRefused, Refuse, spoolVars, uploadVars
<1>5. CASE OpenUpload(u)
  BY <1>1, <1>5, RaceStays DEF OpenUpload, StartUpload, Goto
<1>6. CASE OpenRefused(u)
  <2>1. StartAllowed(-1)
    BY <1>1 DEF StartAllowed, Known, Undisturbed, IndInv, CounterInv, WithinCapacity
  <2> QED BY <1>2, <1>6, <2>1 DEF OpenRefused, StartRefused, ChmodFails
<1>7. CASE Receive(u)
  <2>1. pc[u] = "transfer" /\ \A w \in Uploads \ {u} : phase'[w] = phase[w]
    BY <1>1, <1>7 DEF Receive, ReserveChunk, RejectChunk, WriteData, WriteDataFails, AccountChunk,
       RollbackChunk, Goto, uploadVars
  <2> QED BY <1>1, <1>7, <2>1, RaceStays DEF Receive, callVars
<1>8. CASE CloseAborts(u)
  <2>1. UNCHANGED <<path, attempt, answer, broken, outcome, objects, parents, stored>>
    BY <1>8 DEF CloseAborts
  <2>2. CASE phase[u] = "failed" /\ AbortBegin(u) /\ pc[u] = "closing" /\ UNCHANGED pc
    <3>1. \A w \in Uploads \ {u} : phase'[w] = phase[w]
      BY <1>1, <2>2 DEF AbortBegin
    <3> QED BY <1>1, <2>1, <2>2, <3>1, RaceStays
  <2>3. CASE AbortRelease(u) /\ pc[u] = "closing" /\ pc' = [pc EXCEPT ![u] = "failure"]
    <3>1. phase[u] = "aborting" /\ \A w \in Uploads \ {u} : phase'[w] = phase[w]
      BY <1>1, <2>3 DEF AbortRelease, Goto
    <3>2. u = v => Outrun(u)'
      BY <1>1, <2>1, <2>3, <3>1 DEF RaceInv, Outrun
    <3> QED BY <1>1, <2>1, <2>3, <3>1, <3>2, RaceStays
  <2> QED BY <1>8, <2>2, <2>3 DEF CloseAborts
<1>9. CASE CloseFinishes(u)
  <2>1. /\ pc[u] = "closing" /\ UNCHANGED <<path, attempt, answer, broken, outcome, objects, parents, stored>>
    BY <1>9 DEF CloseFinishes
  <2>2. CASE (FinishBegin(u) \/ MoveToFinal(u)) /\ UNCHANGED pc
    <3>1. phase'[u] \in {"finishing", "moved"} /\ \A w \in Uploads \ {u} : phase'[w] = phase[w]
      BY <1>1, <2>2 DEF FinishBegin, MoveToFinal, Goto
    <3> QED BY <1>1, <2>1, <2>2, <3>1, RaceStays
  <2>3. CASE FinishRelease(u) /\ pc' = [pc EXCEPT ![u] = "commit"]
    <3>1. \A w \in Uploads \ {u} : phase'[w] = phase[w]
      BY <1>1, <2>3 DEF FinishRelease, Goto
    <3> QED BY <1>1, <2>1, <2>3, <3>1, RaceStays
  <2>4. ~FinishRefused(u)
    <3> SUFFICES ASSUME phase[u] = "open" PROVE Finishable(u)
      BY DEF FinishRefused, Goto
    <3>1. u \notin cancelled
      BY QuietWorld DEF CalmInv
    <3>2. size[u] = 0
      BY DEF FilesInv
    <3> QED BY <3>1, <3>2 DEF Finishable
  <2>5. ~MoveFails(u)
    BY <1>2 DEF MoveFails
  <2> QED BY <1>9, <2>2, <2>3, <2>4, <2>5 DEF CloseFinishes
<1>10. CASE CommitParents(u)
  <2>1. /\ pc[u] = "commit" /\ pc' = [pc EXCEPT ![u] = "put"] /\ parents \subseteq parents'
        /\ UNCHANGED <<path, attempt, answer, broken, outcome, objects, stored, phase>>
    BY <1>2, <1>10 DEF CommitParents, ParentsFail, ParentsExist, spoolVars, uploadVars
  <2> QED BY <1>1, <2>1, RaceStays
<1>11. CASE SendPut(u)
  <2>1. /\ pc[u] = "put" /\ pc' = [pc EXCEPT ![u] = "waiting"]
        /\ UNCHANGED <<path, attempt, answer, broken, outcome, objects, parents, stored, phase>>
    BY <1>2, <1>11 DEF SendPut, spoolVars, uploadVars
  <2> QED BY <1>1, <2>1, RaceStays
<1>12. CASE StopWaiting(u)
  BY <1>2, <1>12 DEF StopWaiting
<1>13. CASE HandleAnswer(u)
  <2>1. CASE u = v
    BY <1>1, <1>13, <2>1, AnswerKeepsRace
  <2>2. CASE u # v
    <3>1. /\ pc'[v] = pc[v] /\ path'[v] = path[v] /\ attempt'[v] = attempt[v]
          /\ UNCHANGED <<answer, broken, outcome, objects, parents, stored, phase>>
      BY <1>13, <2>2 DEF HandleAnswer, spoolVars, uploadVars
    <3> QED BY <1>1, <3>1, RaceStays
  <2> QED BY <2>1, <2>2
<1>14. CASE DropSpooled(u)
  <2>1. /\ UNCHANGED <<path, attempt, answer, broken, outcome, objects, parents, stored>>
        /\ \/ pc[u] = "stored" /\ pc' = [pc EXCEPT ![u] = "success"]
           \/ pc[u] = "rejected" /\ pc' = [pc EXCEPT ![u] = "failure"]
        /\ \A w \in Uploads \ {u} : phase'[w] = phase[w]
    BY <1>1, <1>2, <1>14 DEF DropSpooled, DeleteByPath, Goto
  <2> QED BY <1>1, <2>1, RaceStays
<1>15. CASE Reply(u)
  <2>1. /\ UNCHANGED <<path, attempt, answer, broken, objects, parents, stored, phase>>
        /\ pc[u] \in {"success", "failure"} /\ pc' = [pc EXCEPT ![u] = "done"]
        /\ outcome' = [outcome EXCEPT ![u] =
                         IF pc[u] = "success" /\ u \notin broken THEN "ok" ELSE "error"]
    BY <1>15 DEF Reply, spoolVars, uploadVars
  <2>2. u = v /\ outcome'[u] = "error" => Outrun(u)'
    BY <1>1, <2>1 DEF RaceInv, Outrun, OtherWriters
  <2> QED BY <1>1, <2>1, <2>2, RaceStays
<1> QED BY <1>3, <1>4, <1>5, <1>6, <1>7, <1>8, <1>9, <1>10, <1>11, <1>12, <1>13, <1>14, <1>15
        DEF Driver

\* The server refuses a name only if somebody has it, and answers what it did.
LEMMA PutKeepsRace ==
  ASSUME BridgeTypeOK, BridgeTypeOK', OnceInv, HolderInv, RivalInv, Undisturbed,
         NEW u \in Uploads, NEW p \in Paths, ServePut(u, p), NEW v \in Uploads, Renames(v)
  PROVE  RaceInv(v)'
<1> USE DEF BridgeTypeOK
<1>1. RaceInv(v)
  BY DEF RivalInv
<1>2. path[u] = p /\ pc[u] \in {"waiting", "lost"}
  BY QuietWorld DEF ServePut, OnceInv
<1>3. /\ UNCHANGED <<path, attempt, broken, outcome, parents, phase>>
      /\ stored \subseteq stored'
      /\ \A q \in DOMAIN objects' : objects'[q] = Foreign => q \in DOMAIN objects /\ objects[q] = Foreign
      /\ \A w \in Uploads \ {u} : pc'[w] = pc[w] /\ answer'[w] = answer[w]
  BY DEF ServePut, StorePut, PutObject, Answer, spoolVars, uploadVars
<1>4. stored' \subseteq Uploads \X Paths
  OBVIOUS
<1>5. CASE u # v \/ UNCHANGED <<pc, answer>>
  BY <1>1, <1>3, <1>4, <1>5, RaceStays
<1>6. CASE u = v /\ pc[u] = "waiting"
  <2>1. "drive" \in parents /\ "server" \notin Faults
    BY <1>1, <1>6, QuietWorld DEF RaceInv
  <2>2. /\ pc'[u] = "answered" /\ answer'[u] \in {"ok", "conflict"}
        /\ answer'[u] = "conflict" => ~Precondition(u, p)
    BY <1>2, <1>6, <2>1 DEF ServePut, Answer
  <2>3. answer'[u] = "conflict" => LengthTaken(Len(path[u]))
    <3> SUFFICES ASSUME answer'[u] = "conflict" PROVE LengthTaken(Len(p))
      BY <1>2
    <3>1. p \in DOMAIN objects
      BY <2>2 DEF Precondition
    <3>2. CASE objects[p] = Foreign
      <4>1. Len(p) = 1
        BY <3>1, <3>2 DEF HolderInv
      <4>2. "others" \in Faults
        BY <1>1, <1>2, <1>6, <3>1, <3>2 DEF RaceInv
      <4> QED BY <4>1, <4>2 DEF LengthTaken
    <3>3. CASE objects[p] # Foreign
      <4>1. <<objects[p], p>> \in stored /\ <<objects[p], p>>[2] = p
        BY <3>1, <3>3 DEF HolderInv
      <4> QED BY <4>1 DEF LengthTaken
    <3> QED BY <3>2, <3>3
  <2>4. \A n : LengthTaken(n) => LengthTaken(n)'
    BY <1>3 DEF LengthTaken
  <2>5. \A n \in Len(path'[u]) - attempt'[u] .. Len(path'[u]) - 1 : LengthTaken(n)'
    BY <1>1, <1>3, <1>6, <2>4 DEF RaceInv
  <2>6. outcome'[u] = "error" => Outrun(u)'
    <3>1. outcome'[u] = "error" => Outrun(u)
      BY <1>1, <1>3, <1>6 DEF RaceInv
    <3> QED BY <1>3, <1>4, <3>1, OutrunStays
  <2>7. /\ attempt'[u] < Len(path'[u]) /\ "drive" \in parents'
        /\ path'[u] \in DOMAIN objects' /\ objects'[path'[u]] = Foreign => "others" \in Faults
    BY <1>1, <1>3, <1>6, <2>1 DEF RaceInv
  <2> QED BY <1>3, <1>6, <2>2, <2>3, <2>4, <2>5, <2>6, <2>7 DEF RaceInv, BeforePut
<1> QED BY <1>2, <1>5, <1>6 DEF ServePut, Answer

\* Nobody else answers an upload.
LEMMA OthersKeepRace ==
  ASSUME BridgeTypeOK, BridgeTypeOK', OnceInv, HolderInv, RivalInv, Undisturbed,
         \/ Server \/ Shutdown \/ Crash
         \/ \E n \in Names : ForeignPut(n)
         \/ \E s \in Sessions : ClientDisconnected(s),
         NEW v \in Uploads, Renames(v)
  PROVE  RaceInv(v)'
<1> USE DEF BridgeTypeOK, callVars, serverVars, driverVars
<1>1. RaceInv(v)
  BY DEF RivalInv
<1>2. CASE Server
  <2>1. PICK u \in Uploads, p \in Paths : ServePut(u, p)
    BY <1>2 DEF Server
  <2> QED BY <2>1, PutKeepsRace
<1>3. CASE Shutdown BY <1>3 DEF Shutdown, Undisturbed
<1>4. CASE Crash
  <2>1. /\ pc'[v] = (IF pc[v] \in Idle THEN pc[v] ELSE "lost")
        /\ UNCHANGED <<path, attempt, answer, broken, outcome, objects, parents, stored>>
    BY <1>4 DEF Crash
  <2> QED BY <1>1, <2>1, RaceStays DEF Idle, BeforePut
<1>5. ASSUME NEW n \in Names, ForeignPut(n) PROVE RaceInv(v)'
  BY <1>1, <1>5, RaceStays DEF ForeignPut, spoolVars, uploadVars
<1>6. ASSUME NEW s \in Sessions, ClientDisconnected(s) PROVE RaceInv(v)'
  BY <1>6 DEF ClientDisconnected, Undisturbed
<1> QED BY <1>2, <1>3, <1>4, <1>5, <1>6

\* Every name an upload was refused has a holder, and no two the same.
LEMMA RaceInvariant == BridgeSpec => [](HolderInv /\ RivalInv)
<1> DEFINE Inv == IndInv /\ BridgeIndInv /\ FilesInv /\ CalmInv /\ OnceInv
<1>1. BridgeInit => HolderInv /\ RivalInv
  <2> SUFFICES ASSUME BridgeInit PROVE HolderInv /\ RivalInv
    OBVIOUS
  <2>1. HolderInv
    BY DEF BridgeInit, HolderInv
  <2>2. ASSUME NEW u \in Uploads PROVE RaceInv(u)
    <3>1. attempt[u] = 0 /\ path[u] = <<NameOf[u]>> /\ pc[u] = "idle" /\ outcome[u] = "none"
      BY <2>2 DEF BridgeInit
    <3>2. Len(path[u]) = 1
      BY <3>1
    <3> QED BY <3>1, <3>2 DEF RaceInv
  <2> QED BY <2>1, <2>2 DEF RivalInv
<1>2. Inv /\ Inv' /\ HolderInv /\ RivalInv /\ [BridgeNext]_bridgeVars => HolderInv' /\ RivalInv'
  <2> SUFFICES ASSUME Inv, Inv', HolderInv, RivalInv, [BridgeNext]_bridgeVars
               PROVE  HolderInv' /\ RivalInv'
    OBVIOUS
  <2>1. TypeOK /\ BridgeTypeOK /\ BridgeTypeOK'
    BY DEF IndInv, BridgeIndInv
  <2>2. CASE BridgeNext
    <3>1. HolderInv'
      BY <2>1, <2>2, StepKeepsHolders
    <3>2. ASSUME Undisturbed, NEW v \in Uploads, Renames(v) PROVE RaceInv(v)'
      BY <2>1, <2>2, <3>2, ClientKeepsRace, DriverKeepsRace, OthersKeepRace DEF BridgeNext
    <3>3. Undisturbed' = Undisturbed /\ \A v : Renames(v)' = Renames(v)
      BY DEF Undisturbed, Renames, Capped
    <3> QED BY <3>1, <3>2, <3>3 DEF RivalInv
  <2>3. CASE UNCHANGED bridgeVars
    <3>1. UNCHANGED <<pc, path, attempt, answer, broken, outcome, phase, objects, parents, stored>>
      BY <2>3 DEF bridgeVars, spoolVars, uploadVars, callVars, serverVars
    <3> QED BY <3>1 DEF HolderInv, RivalInv, RaceInv, LengthTaken, Outrun, OtherWriters, Undisturbed,
               Renames, Capped
  <2> QED BY <2>2, <2>3
<1>3. BridgeSpec => []Inv
  BY SpoolInvOfBridge, BridgeInvariant, FilesInvariant, OnceInvariant, PTL
<1> QED BY <1>1, <1>2, <1>3, PTL DEF BridgeSpec

\* A file whose data arrived is refused under the rename policy only if three
\* others took its names (driver.go, commitToWebDAV, issue #110).
THEOREM LosersMeetThree == BridgeSpec => []RenameLosesToThree
<1>1. RivalInv => RenameLosesToThree
  BY DEF RivalInv, RaceInv, Renames, Outrun, RenameLosesToThree
<1> QED BY <1>1, RaceInvariant, PTL

\* At most three writers in all, other clients counted as one.
FewWriters == Cardinality(Uploads) + (IF "others" \in Faults THEN 1 ELSE 0) <= 3

\* Among so few nobody loses: the race of two uploads that issue #110 is
\* about ends with both in the drive (driver.go, commitToWebDAV).
THEOREM FewNeverLose ==
  BridgeSpec => [](Undisturbed /\ FewWriters =>
                     \A u \in Uploads \ broken : Renames(u) => outcome[u] # "error")
<1>1. BridgeTypeOK /\ RenameLosesToThree =>
        (Undisturbed /\ FewWriters =>
           \A u \in Uploads \ broken : Renames(u) => outcome[u] # "error")
  <2> SUFFICES ASSUME BridgeTypeOK, RenameLosesToThree, Undisturbed, FewWriters,
                      NEW u \in Uploads \ broken, Renames(u), outcome[u] = "error"
               PROVE  FALSE
    OBVIOUS
  <2>1. Cardinality(OtherWriters(u)) >= 3
    BY DEF RenameLosesToThree, Renames
  <2> DEFINE us == Uploads \ {u}
  <2>2. IsFiniteSet(us) /\ Cardinality(us) = Cardinality(Uploads) - 1
    BY FS_RemoveElement
  <2>3. Cardinality(Uploads) \in Nat
    BY FS_CardinalityType
  <2>4. CASE "others" \in Faults
    <3>1. OtherWriters(u) \subseteq us \cup {Foreign}
      BY DEF OtherWriters, BridgeTypeOK
    <3>2. IsFiniteSet(us \cup {Foreign}) /\ Cardinality(us \cup {Foreign}) = Cardinality(us) + 1
      BY <2>2, FS_AddElement
    <3>3. Cardinality(OtherWriters(u)) <= Cardinality(us) + 1 /\ Cardinality(OtherWriters(u)) \in Nat
      BY <3>1, <3>2, FS_Subset, FS_CardinalityType
    <3> QED BY <2>1, <2>2, <2>3, <2>4, <3>3 DEF FewWriters
  <2>5. CASE "others" \notin Faults
    <3>1. OtherWriters(u) \subseteq us
      BY <2>5 DEF OtherWriters, BridgeTypeOK
    <3>2. Cardinality(OtherWriters(u)) <= Cardinality(us) /\ Cardinality(OtherWriters(u)) \in Nat
      BY <2>2, <3>1, FS_Subset, FS_CardinalityType
    <3> QED BY <2>1, <2>2, <2>3, <2>5, <3>2 DEF FewWriters
  <2> QED BY <2>4, <2>5
<1> QED BY <1>1, BridgeTypeCorrect, LosersMeetThree, PTL

-----------------------------------------------------------------------------
(* The work left in an upload *)

\* The PUTs that commitToWebDAV can still send: three for each of three names.
PutsLeft(u) == 3 * (2 - attempt[u]) + (3 - tries[u])

\* How many steps the goroutine of an upload can still make, the reception of
\* chunks apart that the client has yet to send.
Work(u) ==
  CASE pc[u] = "resolved" -> 40
    [] pc[u] = "slotted"  -> 39
    [] pc[u] = "transfer" -> IF phase[u] = "reserved" THEN 38
                             ELSE IF phase[u] \in {"written", "unwritten"} THEN 37 ELSE 36
    [] pc[u] = "closing"  -> IF phase[u] \in {"open", "failed"} THEN 34
                             ELSE IF phase[u] \in {"finishing", "aborting"} THEN 33 ELSE 32
    [] pc[u] = "commit"   -> 31
    [] pc[u] = "put"      -> 3 * PutsLeft(u) + 6
    [] pc[u] = "waiting"  -> 3 * PutsLeft(u) + 5
    [] pc[u] = "answered" -> 3 * PutsLeft(u) + 4
    [] pc[u] \in {"stored", "rejected"}  -> 2
    [] pc[u] \in {"success", "failure"}  -> 1
    [] OTHER -> 0

LEMMA WorkBounded ==
  ASSUME BridgeTypeOK, NEW u \in Uploads
  PROVE  PutsLeft(u) \in 0 .. 8 /\ Work(u) \in 0 .. 40
<1>1. PutsLeft(u) \in 0 .. 8
  BY DEF BridgeTypeOK, PutsLeft
<1> QED BY <1>1 DEF Work

\* What the work of an upload depends on.
LEMMA WorkStays ==
  ASSUME NEW u, pc'[u] = pc[u], attempt'[u] = attempt[u], tries'[u] = tries[u], phase'[u] = phase[u]
  PROVE  Work(u)' = Work(u)
BY DEF Work, PutsLeft

\* A step of its goroutine, or the end of its data, leaves less to do.
LEMMA DriverWorks ==
  ASSUME TypeOK, BridgeTypeOK, NEW u \in Uploads, Driver(u) \/ EndTransfer(u)
  PROVE  Work(u)' < Work(u)
<1> USE DEF TypeOK, BridgeTypeOK, Move
<1>1. PutsLeft(u) \in 0 .. 8
  BY WorkBounded
<1>2. CASE AcquireUploadSlot(u)
  <2>1. pc[u] = "resolved" /\ pc'[u] = "slotted"
    BY <1>2 DEF AcquireUploadSlot
  <2> QED BY <2>1 DEF Work
<1>3. CASE SlotRefused(u)
  <2>1. pc[u] = "resolved" /\ pc'[u] = "done"
    BY <1>3 DEF SlotRefused, Refuse
  <2> QED BY <2>1 DEF Work
<1>4. CASE OpenUpload(u)
  <2>1. pc[u] = "slotted" /\ pc'[u] = "transfer" /\ phase'[u] = "open"
    BY <1>4 DEF OpenUpload, StartUpload, Goto
  <2> QED BY <2>1 DEF Work
<1>5. CASE OpenRefused(u)
  <2>1. pc[u] = "slotted" /\ pc'[u] = "done"
    BY <1>5 DEF OpenRefused, Refuse
  <2> QED BY <2>1 DEF Work
<1>6. CASE Receive(u) /\ phase[u] # "open"
  <2>1. pc[u] = "transfer" /\ pc'[u] = "transfer"
    BY <1>6 DEF Receive, callVars
  <2>2. \/ phase[u] = "reserved" /\ phase'[u] \in {"written", "unwritten"}
        \/ phase[u] \in {"written", "unwritten"} /\ phase'[u] \in {"open", "failed"}
    BY <1>6 DEF Receive, ReserveChunk, RejectChunk, WriteData, WriteDataFails, AccountChunk, RollbackChunk, Goto
  <2> QED BY <2>1, <2>2 DEF Work
<1>7. CASE EndTransfer(u)
  <2>1. pc[u] = "transfer" /\ pc'[u] = "closing" /\ phase'[u] = phase[u] /\ phase[u] \in {"open", "failed"}
    BY <1>7 DEF EndTransfer, spoolVars, uploadVars
  <2> QED BY <2>1 DEF Work
<1>8. CASE CloseAborts(u)
  <2>1. /\ pc[u] = "closing"
        /\ \/ pc'[u] = "closing" /\ phase[u] = "failed" /\ phase'[u] = "aborting"
           \/ pc'[u] = "failure"
    BY <1>8 DEF CloseAborts, AbortBegin
  <2> QED BY <2>1 DEF Work
<1>9. CASE CloseFinishes(u)
  <2>1. /\ pc[u] = "closing"
        /\ \/ pc'[u] = "closing" /\ phase[u] = "open" /\ phase'[u] = "finishing"
           \/ pc'[u] = "closing" /\ phase[u] = "finishing" /\ phase'[u] = "moved"
           \/ pc'[u] \in {"commit", "failure"}
    BY <1>9 DEF CloseFinishes, FinishBegin, MoveToFinal, Goto
  <2> QED BY <2>1 DEF Work
<1>10. CASE CommitParents(u)
  <2>1. pc[u] = "commit" /\ pc'[u] \in {"put", "rejected"} /\ attempt' = attempt /\ tries' = tries
    BY <1>10 DEF CommitParents
  <2>2. PutsLeft(u)' = PutsLeft(u)
    BY <2>1 DEF PutsLeft
  <2> QED BY <1>1, <2>1, <2>2 DEF Work
<1>11. CASE SendPut(u)
  <2>1. pc[u] = "put" /\ pc'[u] \in {"rejected", "answered", "waiting"} /\ attempt' = attempt /\ tries' = tries
    BY <1>11 DEF SendPut
  <2>2. PutsLeft(u)' = PutsLeft(u)
    BY <2>1 DEF PutsLeft
  <2> QED BY <1>1, <2>1, <2>2 DEF Work
<1>12. CASE StopWaiting(u)
  <2>1. pc[u] = "waiting" /\ pc'[u] = "answered" /\ attempt' = attempt /\ tries' = tries
    BY <1>12 DEF StopWaiting
  <2>2. PutsLeft(u)' = PutsLeft(u)
    BY <2>1 DEF PutsLeft
  <2> QED BY <1>1, <2>1, <2>2 DEF Work
<1>13. CASE HandleAnswer(u)
  <2>1. /\ pc[u] = "answered"
        /\ \/ pc'[u] \in {"stored", "rejected"}
           \/ pc'[u] = "put" /\ attempt'[u] = attempt[u] /\ tries'[u] = tries[u] + 1
           \/ pc'[u] = "put" /\ attempt'[u] = attempt[u] + 1 /\ tries'[u] = 1
    BY <1>13 DEF HandleAnswer
  <2>2. attempt[u] \in 0 .. 2 /\ tries[u] \in 1 .. 3
    OBVIOUS
  <2>3. pc'[u] = "put" => PutsLeft(u)' \in Int /\ PutsLeft(u)' + 1 <= PutsLeft(u)
    BY <2>1, <2>2 DEF PutsLeft
  <2> QED BY <1>1, <2>1, <2>3 DEF Work
<1>14. CASE DropSpooled(u)
  <2>1. pc[u] \in {"stored", "rejected"} /\ pc'[u] \in {"success", "failure"}
    BY <1>14 DEF DropSpooled
  <2> QED BY <2>1 DEF Work
<1>15. CASE Reply(u)
  <2>1. pc[u] \in {"success", "failure"} /\ pc'[u] = "done"
    BY <1>15 DEF Reply
  <2> QED BY <2>1 DEF Work
<1> QED BY <1>2, <1>3, <1>4, <1>5, <1>6, <1>7, <1>8, <1>9, <1>10, <1>11, <1>12, <1>13, <1>14, <1>15
        DEF Driver

\* What others do leaves an upload's work as it is, answers it, or ends it.
LEMMA OthersAddNoWork ==
  ASSUME TypeOK, BridgeTypeOK, BridgeTypeOK', BridgeNext, NEW u \in Uploads, ~Client(u)
  PROVE  Work(u)' <= Work(u)
<1>1. Work(u) \in Nat
  BY WorkBounded
<1>0. Work(u)' \in Nat
  <2>1. PutsLeft(u)' \in 0 .. 8
    BY DEF PutsLeft, BridgeTypeOK
  <2> QED BY <2>1 DEF Work
<1> USE DEF TypeOK, BridgeTypeOK, Move, callVars, Goto, spoolVars, uploadVars
<1>2. ASSUME NEW v \in Uploads, v # u, Client(v) PROVE Work(u)' <= Work(u)
  <2>1. pc'[u] = pc[u] /\ attempt'[u] = attempt[u] /\ tries'[u] = tries[u] /\ phase'[u] = phase[u]
    <3>1. CASE Receive(v) /\ phase[v] = "open"
      BY <1>2, <3>1 DEF Receive, ReserveChunk, RejectChunk, WriteData, WriteDataFails, AccountChunk, RollbackChunk
    <3> QED BY <1>2, <3>1 DEF Client, ResolveFails, Refuse, Resolve, EndTransfer
  <2> QED BY <1>1, <2>1, WorkStays
<1>3. ASSUME NEW v \in Uploads, Driver(v) PROVE Work(u)' <= Work(u)
  <2>1. CASE v = u
    <3>1. Work(u)' < Work(u)
      BY <1>3, <2>1, DriverWorks
    <3> QED BY <1>1, <1>0, <3>1
  <2>2. CASE v # u
    <3>1. pc'[u] = pc[u] /\ attempt'[u] = attempt[u] /\ tries'[u] = tries[u] /\ phase'[u] = phase[u]
      <4>1. CASE Receive(v)
        BY <2>2, <4>1 DEF Receive, ReserveChunk, RejectChunk, WriteData, WriteDataFails, AccountChunk, RollbackChunk
      <4>2. CASE CloseAborts(v)
        BY <2>2, <4>2 DEF CloseAborts, AbortBegin, AbortRelease
      <4>3. CASE CloseFinishes(v)
        BY <2>2, <4>3 DEF CloseFinishes, FinishBegin, FinishRefused, MoveToFinal, MoveFails, FinishRelease
      <4>4. CASE OpenUpload(v) BY <2>2, <4>4 DEF OpenUpload, StartUpload
      <4>5. CASE OpenRefused(v) BY <2>2, <4>5 DEF OpenRefused, StartRefused, ChmodFails, Refuse
      <4>6. CASE AcquireUploadSlot(v) BY <2>2, <4>6 DEF AcquireUploadSlot
      <4>7. CASE SlotRefused(v) BY <2>2, <4>7 DEF SlotRefused, Refuse
      <4>8. CASE CommitParents(v) \/ SendPut(v) \/ StopWaiting(v)
        BY <2>2, <4>8 DEF CommitParents, SendPut, StopWaiting
      <4>9. CASE HandleAnswer(v)
        <5>1. pc'[u] = pc[u]
          BY <2>2, <4>9, AnswerHandled
        <5>2. /\ attempt' \in {attempt, [attempt EXCEPT ![v] = @ + 1]}
              /\ tries' \in {tries, [tries EXCEPT ![v] = @ + 1], [tries EXCEPT ![v] = 1]}
              /\ phase' = phase
          BY <4>9 DEF HandleAnswer
        <5>3. attempt'[u] = attempt[u] /\ tries'[u] = tries[u]
          BY <2>2, <5>2
        <5> QED BY <5>1, <5>2, <5>3
      <4>10. CASE DropSpooled(v) \/ Reply(v)
        BY <2>2, <4>10 DEF DropSpooled, DeleteByPath, Reply
      <4> QED BY <1>3, <4>1, <4>2, <4>3, <4>4, <4>5, <4>6, <4>7, <4>8, <4>9, <4>10 DEF Driver
    <3> QED BY <1>1, <3>1, WorkStays
  <2> QED BY <2>1, <2>2
<1>4. CASE Server
  <2>1. PICK v \in Uploads, p \in Paths : ServePut(v, p)
    BY <1>4 DEF Server
  <2>2. /\ attempt'[u] = attempt[u] /\ tries'[u] = tries[u] /\ phase'[u] = phase[u]
        /\ pc'[u] = pc[u] \/ (pc[u] = "waiting" /\ pc'[u] = "answered")
    BY <2>1 DEF ServePut, Answer
  <2>3. PutsLeft(u) \in 0 .. 8 /\ PutsLeft(u)' = PutsLeft(u)
    BY <2>2, WorkBounded DEF PutsLeft
  <2>4. CASE pc[u] = "waiting" /\ pc'[u] = "answered"
    BY <2>3, <2>4 DEF Work
  <2> QED BY <1>1, <2>2, <2>4, WorkStays
<1>5. CASE Crash
  <2>1. pc'[u] = (IF pc[u] \in Idle THEN pc[u] ELSE "lost")
    BY <1>5 DEF Crash
  <2>2. Work(u)' = 0
    BY <2>1 DEF Work, Idle
  <2> QED BY <1>1, <2>2
<1>6. ASSUME Shutdown \/ (\E n \in Names : ForeignPut(n)) \/ (\E s \in Sessions : ClientDisconnected(s))
      PROVE  Work(u)' <= Work(u)
  <2>1. pc'[u] = pc[u] /\ attempt'[u] = attempt[u] /\ tries'[u] = tries[u] /\ phase'[u] = phase[u]
    BY <1>6 DEF Shutdown, ForeignPut, ClientDisconnected, CancelContext
  <2> QED BY <1>1, <2>1, WorkStays
<1> QED BY <1>2, <1>3, <1>4, <1>5, <1>6 DEF BridgeNext

\* Nothing goes on for ever once an upload was accepted: each step of its
\* goroutine uses up some of at most forty, which only data of the client can
\* add to, and no step of anybody else gives it more to do. So the retries of
\* commitToWebDAV and UploadStream end, nine PUTs at most, whatever the server
\* answers (driver.go, commitToWebDAV; client.go, UploadStream).
THEOREM UploadsComeToAnEnd ==
  BridgeSpec =>
    /\ [](\A u \in Uploads : PutsLeft(u) \in 0 .. 8 /\ Work(u) \in 0 .. 40)
    /\ [][\A u \in Uploads :
            /\ Driver(u) \/ EndTransfer(u) => Work(u)' < Work(u)
            /\ Client(u) \/ Work(u)' <= Work(u)]_bridgeVars
<1>1. BridgeTypeOK => \A u \in Uploads : PutsLeft(u) \in 0 .. 8 /\ Work(u) \in 0 .. 40
  BY WorkBounded
<1>2. TypeOK /\ BridgeTypeOK /\ BridgeTypeOK' /\ [BridgeNext]_bridgeVars
        => [\A u \in Uploads :
              /\ Driver(u) \/ EndTransfer(u) => Work(u)' < Work(u)
              /\ Client(u) \/ Work(u)' <= Work(u)]_bridgeVars
  BY DriverWorks, OthersAddNoWork
<1>3. BridgeSpec => []TypeOK
  BY BridgeUsesSpool, TypeCorrect, PTL
<1> QED BY <1>1, <1>2, <1>3, BridgeTypeCorrect, PTL DEF BridgeSpec
=============================================================================
