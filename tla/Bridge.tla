------------------------------- MODULE Bridge -------------------------------
(***************************************************************************)
(* One FTP upload from STOR to the reply: the driver of pkg/ftp/driver.go  *)
(* with the name resolution of pkg/transfer and the PUT of pkg/webdav,     *)
(* composed with the spool (Spool) and with the oCIS server, which is      *)
(* external.                                                               *)
(*                                                                         *)
(* Every upload runs in the goroutine of its FTP session.  Uploads meet in *)
(* the spool, in the account's upload slots, and in the drive they write.  *)
(* A session context is done when the client is gone or the driver shuts   *)
(* down; the request the driver was waiting for may still reach the server.*)
(***************************************************************************)
EXTENDS Spool, Sequences

CONSTANTS
  Accounts, Sessions,
  Names,         \* file names that clients ask for; naturals
  AccountOf,     \* the account, the session and the name of an upload
  SessionOf,
  NameOf,
  Policy,        \* collision policy of an account
  MaxConcurrent, \* max_concurrent_uploads of an account; 0 is no limit
  Seconds,       \* values of the timestamp suffix; naturals
  MaxCandidates, \* maxUniqueFilenameAttempts
  ControlSpace,  \* the space the transfer managers talk to; PUTs go to "drive"
  Foreign,       \* content of an object that another client stored
  Faults         \* what may go wrong outside the bridge

AllFaults == {"head", "mkcol", "server", "network", "data", "disconnect", "shutdown", "others"}

ASSUME BridgeAssumption ==
  /\ Names \subseteq Nat /\ Seconds \subseteq Nat /\ MaxCandidates \in Nat
  /\ AccountOf \in [Uploads -> Accounts]
  /\ SessionOf \in [Uploads -> Sessions]
  /\ NameOf \in [Uploads -> Names]
  /\ Policy \in [Accounts -> {"rename", "reject", "overwrite"}]
  /\ MaxConcurrent \in [Accounts -> Nat]
  /\ ControlSpace \in {"drive", "personal"}
  /\ Foreign \notin Uploads
  /\ Faults \subseteq AllFaults
  /\ -1 \in ExpectedSizes

VARIABLES
  pc,        \* where the goroutine of an upload is
  path,      \* target path: the name asked for, and the suffixes added to it
  attempt,   \* commitToWebDAV's attempt
  tries,     \* UploadStream's attempt
  answer,    \* what doUpload returned last
  broken,    \* uploads whose data connection failed
  outcome,   \* reply to STOR: "none", "ok" or "error"
  slots,     \* length of the account's slot channel
  uploadCounter, \* TransferManager.uploadCounters of the account
  gone,      \* sessions whose client disconnected
  shutdown,  \* the driver's lifecycle context is done
  objects,   \* content of the drive: a function on the paths that exist
  parents,   \* spaces in which the target directory exists
  inflight,  \* PUT requests the server may still execute
  stored     \* every <<upload, path>> the server ever stored

callVars   == <<pc, path, attempt, tries, answer, broken, outcome>>
driverVars == <<slots, uploadCounter, gone, shutdown>>
serverVars == <<objects, parents, inflight, stored>>
bridgeVars == <<spoolVars, callVars, driverVars, serverVars>>

Idle     == {"idle", "done", "lost"}
SlotHeld == {"slotted", "transfer", "closing", "commit", "put", "waiting", "answered",
             "stored", "rejected", "success", "failure"}
PCs      == Idle \cup SlotHeld \cup {"resolved"}
Answers  == {"none", "ok", "conflict", "temporary", "error"}
Paths    == Seq(Nat)

BridgeInit ==
  /\ Init
  /\ pc = [u \in Uploads |-> "idle"]
  /\ path = [u \in Uploads |-> <<NameOf[u]>>]
  /\ attempt = [u \in Uploads |-> 0]
  /\ tries = [u \in Uploads |-> 1]
  /\ answer = [u \in Uploads |-> "none"]
  /\ broken = {}
  /\ outcome = [u \in Uploads |-> "none"]
  /\ slots = [a \in Accounts |-> 0]
  /\ uploadCounter = [a \in Accounts |-> 0]
  /\ gone = {}
  /\ shutdown = FALSE
  /\ \E old \in SUBSET Names : objects = [p \in {<<n>> : n \in old} |-> Foreign]
  /\ parents \in {{}, {"drive"}}
  /\ inflight = {}
  /\ stored = {}

ContextDone(u) == shutdown \/ SessionOf[u] \in gone
Move(u, from, to) == pc[u] = from /\ pc' = [pc EXCEPT ![u] = to]
Overwrites(u) == Policy[AccountOf[u]] = "overwrite"

-----------------------------------------------------------------------------
(* ProcessUpload: collision policy, then the parent directories *)

\* CheckCollision: the HEAD goes to the control space, and every error of it,
\* the cancelled context of a shutdown included, reads as "does not exist".
LooksTaken(p) == ~shutdown /\ ControlSpace = "drive" /\ p \in DOMAIN objects
LooksFree(p)  == ~LooksTaken(p) \/ "head" \in Faults

\* The name, then the name with a timestamp, then with a counter as well.
Candidate(u, s, k) ==
  IF k = 0 THEN <<NameOf[u]>>
  ELSE IF k = 1 THEN <<NameOf[u], s>>
  ELSE <<NameOf[u], s, uploadCounter[AccountOf[u]] + k - 1>>

\* The requests of one search are one step. Objects are never removed, so
\* all its answers are still true when the last one arrives.
Chooses(u, s, k) ==
  \/ Overwrites(u) /\ k = 0
  \/ Policy[AccountOf[u]] = "reject" /\ k = 0 /\ LooksFree(Candidate(u, s, 0))
  \/ /\ Policy[AccountOf[u]] = "rename"
     /\ \A j \in 0 .. k - 1 : LooksTaken(Candidate(u, s, j))
     /\ LooksFree(Candidate(u, s, k))

NoChoice(u, s) ==
  \/ Policy[AccountOf[u]] = "reject" /\ LooksTaken(Candidate(u, s, 0))
  \/ /\ Policy[AccountOf[u]] = "rename"
     /\ \A j \in 0 .. MaxCandidates : LooksTaken(Candidate(u, s, j))

ParentsExist == ~shutdown /\ parents' = parents \cup {ControlSpace}
ParentsFail  == (shutdown \/ "mkcol" \in Faults) /\ UNCHANGED parents

\* STOR: a session runs one transfer at a time.
StorArrives(u) ==
  /\ pc[u] = "idle"
  /\ SessionOf[u] \notin gone
  /\ \A v \in Uploads : SessionOf[v] = SessionOf[u] => pc[v] \in Idle

Resolve(u, s, k) ==
  /\ StorArrives(u) /\ Chooses(u, s, k) /\ ParentsExist
  /\ pc' = [pc EXCEPT ![u] = "resolved"]
  /\ path' = [path EXCEPT ![u] = Candidate(u, s, k)]
  /\ uploadCounter' = [uploadCounter EXCEPT ![AccountOf[u]] = IF k > 1 THEN @ + k - 1 ELSE @]
  /\ UNCHANGED <<spoolVars, attempt, tries, answer, broken, outcome,
                 slots, gone, shutdown, objects, inflight, stored>>

\* handleUploadOpen returns an error: the client is told at once.
Refuse(u, from) ==
  /\ Move(u, from, "done")
  /\ outcome' = [outcome EXCEPT ![u] = "error"]
  /\ UNCHANGED <<path, attempt, tries, answer, broken, uploadCounter, gone, shutdown,
                 objects, parents, inflight, stored>>

ResolveFails(u, s) ==
  /\ StorArrives(u)
  /\ NoChoice(u, s) \/ ParentsFail
  /\ Refuse(u, "idle")
  /\ UNCHANGED <<spoolVars, slots>>

-----------------------------------------------------------------------------
(* Upload slots and StartUpload *)

Capped(a) == MaxConcurrent[a] > 0

AcquireUploadSlot(u) ==
  LET a == AccountOf[u] IN
  /\ Capped(a) => slots[a] < MaxConcurrent[a]
  /\ slots' = [slots EXCEPT ![a] = IF Capped(a) THEN @ + 1 ELSE @]
  /\ Move(u, "resolved", "slotted")
  /\ UNCHANGED <<spoolVars, path, attempt, tries, answer, broken, outcome,
                 uploadCounter, gone, shutdown, serverVars>>

SlotRefused(u) ==
  LET a == AccountOf[u] IN
  /\ Capped(a) /\ slots[a] >= MaxConcurrent[a]
  /\ Refuse(u, "resolved")
  /\ UNCHANGED <<spoolVars, slots>>

\* Takes a token out of the channel if there is one, whoever put it there.
ReleaseUploadSlot(u) ==
  LET a == AccountOf[u] IN
  slots' = [slots EXCEPT ![a] = IF Capped(a) /\ @ > 0 THEN @ - 1 ELSE @]

OpenUpload(u) ==
  /\ StartUpload(u, -1, ContextDone(u))
  /\ Move(u, "slotted", "transfer")
  /\ UNCHANGED <<path, attempt, tries, answer, broken, outcome, driverVars, serverVars>>

\* Mutant: no slot release when StartUpload fails.
OpenRefusedKeepsSlot(u) ==
  /\ StartRefused(u, -1)
  /\ Refuse(u, "slotted")
  /\ UNCHANGED slots

OpenRefused(u) ==
  /\ StartRefused(u, -1)
  /\ Refuse(u, "slotted")
  /\ ReleaseUploadSlot(u)

-----------------------------------------------------------------------------
(* The data connection, and uploadWriter.Close *)

Receive(u) ==
  /\ pc[u] = "transfer"
  /\ \/ \E n \in Chunks : ReserveChunk(u, n) \/ RejectChunk(u, n)
     \/ WriteData(u) \/ WriteDataFails(u) \/ AccountChunk(u) \/ RollbackChunk(u)
  /\ UNCHANGED <<callVars, driverVars, serverVars>>

\* The copy loop of ftpserverlib ends: no more data, a failed Write, or a
\* failed data connection, of which uploadFile is not told.
EndTransfer(u) ==
  /\ phase[u] \in {"open", "failed"}
  /\ Move(u, "transfer", "closing")
  /\ \/ broken' = IF phase[u] = "failed" THEN broken \cup {u} ELSE broken
     \/ "data" \in Faults /\ broken' = broken \cup {u}
  /\ UNCHANGED <<spoolVars, path, attempt, tries, answer, outcome, driverVars, serverVars>>

\* writeErr was set: Close aborts.
CloseAborts(u) ==
  /\ \/ phase[u] = "failed" /\ AbortBegin(u) /\ pc[u] = "closing" /\ UNCHANGED pc
     \/ AbortRelease(u) /\ Move(u, "closing", "failure")
  /\ UNCHANGED <<path, attempt, tries, answer, broken, outcome, driverVars, serverVars>>

\* Mutant: an error of FinishUpload is not returned.
CloseNeverFails(u) ==
  /\ \/ (FinishBegin(u) \/ MoveToFinal(u)) /\ pc[u] = "closing" /\ UNCHANGED pc
     \/ FinishRelease(u) /\ Move(u, "closing", "commit")
  /\ UNCHANGED <<path, attempt, tries, answer, broken, outcome, driverVars, serverVars>>

\* The size is unknown, so Close finishes whatever was received. An error of
\* FinishUpload is returned without an AbortUpload.
CloseFinishes(u) ==
  /\ \/ (FinishBegin(u) \/ MoveToFinal(u)) /\ pc[u] = "closing" /\ UNCHANGED pc
     \/ FinishRelease(u) /\ Move(u, "closing", "commit")
     \/ (FinishRefused(u) \/ MoveFails(u)) /\ Move(u, "closing", "failure")
  /\ UNCHANGED <<path, attempt, tries, answer, broken, outcome, driverVars, serverVars>>

-----------------------------------------------------------------------------
(* commitToWebDAV *)

CommitParents(u) ==
  /\ \/ ParentsExist /\ Move(u, "commit", "put")
     \/ ParentsFail /\ Move(u, "commit", "rejected")
  /\ UNCHANGED <<spoolVars, path, attempt, tries, answer, broken, outcome, driverVars,
                 objects, inflight, stored>>

SendPut(u) ==
  /\ \/ /\ DiskFaults /\ tries[u] = 1 \* os.Open of the spooled file
        /\ Move(u, "put", "rejected")
        /\ UNCHANGED <<answer, inflight>>
     \/ /\ ContextDone(u)
        /\ Move(u, "put", "answered")
        /\ answer' = [answer EXCEPT ![u] = "error"]
        /\ UNCHANGED inflight
     \/ /\ ~ContextDone(u)
        /\ Move(u, "put", "waiting")
        /\ inflight' = inflight \cup {<<u, path[u]>>}
        /\ UNCHANGED answer
  /\ UNCHANGED <<spoolVars, path, attempt, tries, broken, outcome, driverVars,
                 objects, parents, stored>>

\* The connection breaks, the response headers do not come in time, or the
\* session ends: the driver stops waiting, the request may be on its way.
StopWaiting(u) ==
  /\ "network" \in Faults \/ ContextDone(u)
  /\ Move(u, "waiting", "answered")
  /\ answer' = [answer EXCEPT ![u] = "error"]
  /\ UNCHANGED <<spoolVars, path, attempt, tries, broken, outcome, driverVars, serverVars>>

\* UploadStream tries again after a temporary failure if it can rewind the
\* body. The transport closed the *os.File of a non-empty upload, so only an
\* empty one, sent as http.NoBody, can be.
Resendable(u) ==
  /\ answer[u] = "temporary"
  /\ bytesReceived[u] = 0 /\ tries[u] < 3 /\ ~ContextDone(u)

\* Mutant: a success goes on with another name too.
RenamesAlways(u) ==
  ~Resendable(u) /\ Policy[AccountOf[u]] = "rename" /\ attempt[u] < 2

\* Mutant: one name less.
RenamesOnce(u) ==
  /\ answer[u] # "ok" /\ ~Resendable(u)
  /\ Policy[AccountOf[u]] = "rename" /\ attempt[u] < 1

\* Mutant: every policy goes on.
RenamesByAnyPolicy(u) == answer[u] # "ok" /\ ~Resendable(u) /\ attempt[u] < 2

\* On any other error the rename policy goes on with another name.
Renamable(u) ==
  /\ answer[u] # "ok" /\ ~Resendable(u)
  /\ Policy[AccountOf[u]] = "rename" /\ attempt[u] < 2

\* Mutant: 412 is taken for "the file is there already".
ConflictIsSuccess(u) ==
  /\ IF answer[u] \in {"ok", "conflict"} THEN Move(u, "answered", "stored")
                                           ELSE Move(u, "answered", "rejected")
  /\ UNCHANGED <<spoolVars, path, attempt, tries, answer, broken, outcome, driverVars, serverVars>>

HandleAnswer(u) ==
  /\ \/ /\ answer[u] = "ok"
        /\ Move(u, "answered", "stored")
        /\ UNCHANGED <<path, attempt, tries>>
     \/ /\ Resendable(u)
        /\ Move(u, "answered", "put")
        /\ tries' = [tries EXCEPT ![u] = @ + 1]
        /\ UNCHANGED <<path, attempt>>
     \/ /\ Renamable(u)
        /\ Move(u, "answered", "put")
        /\ path' = [path EXCEPT ![u] = Append(@, attempt[u] + 2)]
        /\ attempt' = [attempt EXCEPT ![u] = @ + 1]
        /\ tries' = [tries EXCEPT ![u] = 1]
     \/ /\ answer[u] # "ok" /\ ~Resendable(u) /\ ~Renamable(u)
        /\ Move(u, "answered", "rejected")
        /\ UNCHANGED <<path, attempt, tries>>
  /\ UNCHANGED <<spoolVars, answer, broken, outcome, driverVars, serverVars>>

\* Mutant: the spooled file is not deleted.
KeepSpooled(u) ==
  /\ Move(u, "stored", "success") \/ Move(u, "rejected", "failure")
  /\ UNCHANGED <<spoolVars, path, attempt, tries, answer, broken, outcome, driverVars, serverVars>>

\* Close deletes the spooled file whether the commit succeeded or not, and
\* ignores an error of that.
DropSpooled(u) ==
  /\ Move(u, "stored", "success") \/ Move(u, "rejected", "failure")
  /\ DeleteByPath(u) \/ (DiskFaults /\ UNCHANGED spoolVars)
  /\ UNCHANGED <<path, attempt, tries, answer, broken, outcome, driverVars, serverVars>>

\* Mutant: the result of the commit is not returned by Close.
ReplyIgnoresCommit(u) ==
  /\ Move(u, "success", "done") \/ Move(u, "failure", "done")
  /\ ReleaseUploadSlot(u)
  /\ outcome' = [outcome EXCEPT ![u] = IF u \notin broken THEN "ok" ELSE "error"]
  /\ UNCHANGED <<spoolVars, path, attempt, tries, answer, broken,
                 uploadCounter, gone, shutdown, serverVars>>

\* The deferred release, then the reply of ftpserverlib: an error of the
\* data connection comes before the result of Close.
Reply(u) ==
  /\ Move(u, "success", "done") \/ Move(u, "failure", "done")
  /\ ReleaseUploadSlot(u)
  /\ outcome' = [outcome EXCEPT ![u] =
                   IF pc[u] = "success" /\ u \notin broken THEN "ok" ELSE "error"]
  /\ UNCHANGED <<spoolVars, path, attempt, tries, answer, broken,
                 uploadCounter, gone, shutdown, serverVars>>

-----------------------------------------------------------------------------
(* The oCIS server *)

PutObject(p, content) ==
  objects' = [q \in DOMAIN objects \cup {p} |-> IF q = p THEN content ELSE objects[q]]

\* Mutant: If-None-Match is not sent.
NoPrecondition(u, p) == TRUE

\* If-None-Match: * is sent unless the policy is overwrite.
Precondition(u, p) == p \in DOMAIN objects => Overwrites(u)

StorePut(u, p) ==
  /\ Precondition(u, p) /\ "drive" \in parents
  /\ PutObject(p, u)
  /\ stored' = stored \cup {<<u, p>>}

Answer(u, p, code) ==
  IF pc[u] = "waiting" /\ path[u] = p
  THEN /\ pc' = [pc EXCEPT ![u] = "answered"]
       /\ answer' = [answer EXCEPT ![u] = code]
  ELSE UNCHANGED <<pc, answer>>

ServePut(u, p) ==
  /\ <<u, p>> \in inflight
  /\ inflight' = inflight \ {<<u, p>>}
  /\ \/ StorePut(u, p) /\ Answer(u, p, "ok")
     \/ /\ ~Precondition(u, p) /\ Answer(u, p, "conflict")
        /\ UNCHANGED <<objects, stored>>
     \/ /\ "drive" \notin parents /\ Answer(u, p, "error")
        /\ UNCHANGED <<objects, stored>>
     \/ /\ "server" \in Faults
        /\ \E code \in {"temporary", "error"} : Answer(u, p, code)
        /\ StorePut(u, p) \/ UNCHANGED <<objects, stored>>
  /\ UNCHANGED <<spoolVars, path, attempt, tries, broken, outcome, driverVars, parents>>

\* Another client of the drive.
ForeignPut(n) ==
  /\ "others" \in Faults
  /\ <<n>> \notin DOMAIN objects
  /\ PutObject(<<n>>, Foreign)
  /\ UNCHANGED <<spoolVars, callVars, driverVars, parents, inflight, stored>>

-----------------------------------------------------------------------------
(* The end of sessions, of the driver, and of the process *)

Started == {u \in Uploads : phase[u] # "new"}

ClientDisconnected(s) ==
  /\ "disconnect" \in Faults
  /\ s \notin gone
  /\ gone' = gone \cup {s}
  /\ CancelContext({u \in Started : SessionOf[u] = s})
  /\ UNCHANGED <<callVars, slots, uploadCounter, shutdown, serverVars>>

Shutdown ==
  /\ "shutdown" \in Faults
  /\ ~shutdown
  /\ shutdown' = TRUE
  /\ CancelContext(Started)
  /\ UNCHANGED <<callVars, slots, uploadCounter, gone, serverVars>>

\* What is left of a crash is the spool directory, the drive, and requests
\* that were on their way.
Crash ==
  /\ Restart
  /\ pc' = [u \in Uploads |-> IF pc[u] \in Idle THEN pc[u] ELSE "lost"]
  /\ slots' = [a \in Accounts |-> 0]
  /\ uploadCounter' = [a \in Accounts |-> 0]
  /\ gone' = {}
  /\ shutdown' = FALSE
  /\ UNCHANGED <<path, attempt, tries, answer, broken, outcome, serverVars>>

\* What the client decides: to send a file, and how much of it.
Client(u) ==
  \/ \E s \in Seconds : ResolveFails(u, s) \/ \E k \in 0 .. MaxCandidates : Resolve(u, s, k)
  \/ Receive(u) /\ phase[u] = "open"
  \/ EndTransfer(u)

\* What the goroutine of the upload does on its own.
Driver(u) ==
  \/ AcquireUploadSlot(u) \/ SlotRefused(u) \/ OpenUpload(u) \/ OpenRefused(u)
  \/ Receive(u) /\ phase[u] # "open"
  \/ CloseAborts(u) \/ CloseFinishes(u)
  \/ CommitParents(u) \/ SendPut(u) \/ StopWaiting(u) \/ HandleAnswer(u)
  \/ DropSpooled(u) \/ Reply(u)

Server == \E r \in inflight : ServePut(r[1], r[2])

BridgeNext ==
  \/ \E u \in Uploads : Client(u) \/ Driver(u)
  \/ Server
  \/ \E n \in Names : ForeignPut(n)
  \/ \E s \in Sessions : ClientDisconnected(s)
  \/ Shutdown
  \/ Crash

BridgeSpec == BridgeInit /\ [][BridgeNext]_bridgeVars

\* The scheduler runs every goroutine, and the server answers what it got.
FairBridgeSpec ==
  /\ BridgeSpec
  /\ \A u \in Uploads : WF_bridgeVars(Driver(u)) /\ WF_bridgeVars(EndTransfer(u))
  /\ WF_bridgeVars(Server)

-----------------------------------------------------------------------------
(* Properties *)

\* The type of the driver's and the server's state.
BridgeTypeOK ==
  /\ pc \in [Uploads -> PCs]
  /\ path \in [Uploads -> Paths]
  /\ attempt \in [Uploads -> 0 .. 2]
  /\ tries \in [Uploads -> 1 .. 3]
  /\ answer \in [Uploads -> Answers]
  /\ broken \subseteq Uploads
  /\ outcome \in [Uploads -> {"none", "ok", "error"}]
  /\ slots \in [Accounts -> Nat]
  /\ uploadCounter \in [Accounts -> Nat]
  /\ gone \subseteq Sessions
  /\ shutdown \in BOOLEAN
  /\ DOMAIN objects \subseteq Paths
  /\ \A p \in DOMAIN objects : objects[p] \in Uploads \cup {Foreign}
  /\ parents \subseteq {"drive", "personal"}
  /\ inflight \subseteq Uploads \X Paths
  /\ stored \subseteq Uploads \X Paths

HoldersOf(a) == {u \in Uploads : AccountOf[u] = a /\ pc[u] \in SlotHeld}

\* Every way out of an upload gives its slot back exactly once: the tokens
\* in an account's channel are its uploads in progress, no more and no
\* fewer, and so never more than max_concurrent_uploads (driver.go,
\* acquireUploadSlot, handleUploadOpen, Close).
SlotsExact ==
  \A a \in Accounts :
    IF Capped(a) THEN slots[a] = Cardinality(HoldersOf(a)) /\ slots[a] <= MaxConcurrent[a]
                 ELSE slots[a] = 0

\* "The FTP transfer only succeeds if the WebDAV upload succeeds": a client
\* that reads success has its whole file in the drive, under the name the
\* driver reports, until an upload that may overwrite replaces it.
SuccessMeansStored ==
  \A u \in Uploads : outcome[u] = "ok" =>
    /\ u \notin broken
    /\ <<u, path[u]>> \in stored
    /\ path[u] \in DOMAIN objects
    /\ objects[path[u]] # u =>
         objects[path[u]] \in Uploads /\ Overwrites(objects[path[u]])

\* No race between a collision check and a PUT, of this bridge or of anybody
\* else, replaces an object, unless the account's policy is overwrite
\* (driver.go, commitToWebDAV; client.go, If-None-Match).
NoSilentOverwrite ==
  [][\A p \in DOMAIN objects :
       /\ p \in DOMAIN objects'
       /\ objects'[p] # objects[p] =>
            objects'[p] \in Uploads /\ Overwrites(objects'[p])]_bridgeVars

\* When the client has its reply, the upload holds no capacity, and on a disk
\* that does not fail no file is left, unless FinishUpload reported an error:
\* then the file stays, and outlives the process (driver.go, Close). A file is
\* still open only after the same error, or after a STOR that was refused
\* because the permissions of its file could not be set (spool.go:338-341).
NobodyLeaves == Faults \cap {"disconnect", "shutdown"} = {}

SpoolEmptied ==
  \A u \in Uploads : outcome[u] # "none" /\ phase[u] # "finishFailed" =>
    /\ u \notin activeUploads
    /\ u \in handles => phase[u] = "chmodFailed"
    /\ ~DiskFaults /\ (phase[u] = "lost" => NobodyLeaves) => temp[u] = NoFile /\ final[u] = NoFile

\* If every request is answered with what the server did, and clients, data
\* connections and driver hold, an upload is stored once at most, and one that
\* ends in an error is not stored at all, also if the process dies (driver.go,
\* commitToWebDAV).
AnswersArrive ==
  Faults \cap {"server", "network", "data", "disconnect", "shutdown"} = {}

StoredOnceIfAtAll ==
  AnswersArrive => \A r \in stored : outcome[r[1]] # "error" /\ path[r[1]] = r[2]

\* p is the path of an attempt of u: the present one, without the suffixes of
\* later attempts.
NameOfAttempt(u, p) ==
  IF Policy[AccountOf[u]] = "rename"
  THEN /\ Len(p) <= Len(path[u]) /\ Len(path[u]) <= Len(p) + attempt[u]
       /\ \A i \in 1 .. Len(p) : p[i] = path[u][i]
  ELSE p = path[u]

\* However late or lost the answers are, each copy of an upload in the drive
\* has the name of one of the attempts of commitToWebDAV: at most three, and
\* only under the rename policy more than the one whose name the driver
\* reports (driver.go:1341-1390; the code sends the file again after every
\* error, a lost answer included, though its comment says after a conflict).
CopiesAreAttempts ==
  \A r \in stored : NameOfAttempt(r[1], r[2])

\* The other writers of the drive: the uploads that were stored, and other
\* clients if there are any.
OtherWriters(u) ==
  ({r[1] : r \in stored} \ {u}) \cup (IF "others" \in Faults THEN {Foreign} ELSE {})

\* Nothing fails but the process and the race with other writers, and the
\* collision check looks where the PUT goes.
Undisturbed ==
  /\ Faults \subseteq {"others"} /\ ~DiskFaults
  /\ ControlSpace = "drive" /\ AccountMaxSize > 0 /\ MaxCandidates >= 3

\* Uploads of one name that race under the rename policy do not lose a file to
\* a race of two or three: one whose data arrived ends in an error only if
\* three others were faster, a name each (driver.go, commitToWebDAV, issue
\* #110).
RenameLosesToThree ==
  Undisturbed =>
    \A u \in Uploads \ broken :
      Policy[AccountOf[u]] = "rename" /\ ~Capped(AccountOf[u]) /\ outcome[u] = "error"
        => Cardinality(OtherWriters(u)) >= 3

\* Every STOR that is accepted is answered, whichever of disk, session and
\* driver fails on the way, unless the process dies.
EveryStorAnswered ==
  \A u \in Uploads : pc[u] = "resolved" ~> outcome[u] # "none" \/ pc[u] = "lost"

(***************************************************************************)
(* Why these hold: what was stored is still there, or was overwritten by   *)
(* right; the driver takes an upload for stored only after the answer to   *)
(* the PUT of its current path; an upload that is answered is over.        *)
(***************************************************************************)
StoreInv ==
  \A r \in stored :
    /\ r[2] \in DOMAIN objects
    /\ objects[r[2]] # r[1] => objects[r[2]] \in Uploads /\ Overwrites(objects[r[2]])

ReplyInv ==
  \A u \in Uploads :
    /\ outcome[u] # "none" => pc[u] = "done"
    /\ pc[u] \in {"stored", "success"} \/ (pc[u] = "answered" /\ answer[u] = "ok")
         => <<u, path[u]>> \in stored
    /\ outcome[u] = "ok" => u \notin broken /\ <<u, path[u]>> \in stored

\* The inductive invariant of the driver and the server (driver.go, Close
\* and commitToWebDAV).
BridgeIndInv == BridgeTypeOK /\ SlotsExact /\ StoreInv /\ ReplyInv

\* The abstract specification that the bridge implements.
Contract == INSTANCE UploadContract WITH
  Replacing <- {u \in Uploads : Overwrites(u)},
  drive <- objects,
  kept <- {u \in Uploads : \E r \in stored : r[1] = u},
  cut <- broken,
  reply <- outcome

\* The bridge keeps the contract of UploadContract.
ContractKept == Contract!Spec

\* docs/architecture.md: "Partial Uploads: Automatically cleaned up when FTP
\* session ends".
AbandonedUploadsAreCleaned ==
  \A u \in Uploads :
    pc[u] = "done" /\ SessionOf[u] \in gone => u \notin activeUploads /\ temp[u] = NoFile

\* CHANGELOG.md: "Partial upload cleanup on aborted sessions": what arrived
\* in part is cleaned up, and not stored.
PartialNeverStored == \A r \in stored : r[1] \notin broken
=============================================================================
