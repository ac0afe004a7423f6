------------------------------- MODULE Spool -------------------------------
(***************************************************************************)
(* The upload spool of pkg/spool/spool.go: the uploadManager, its capacity *)
(* counter, and the files it leaves in the spool directory.                *)
(*                                                                         *)
(* Several FTP transfers run at once, each in a goroutine of its own that  *)
(* calls the methods of one Upload in sequence.  What they share is the    *)
(* pair currentUsage / activeUploads, guarded by one mutex, and the disk.  *)
(* A step of this module is what happens between two points where another  *)
(* goroutine can interfere: one critical section, or one system call.      *)
(***************************************************************************)
EXTENDS Integers, FiniteSets

CONSTANTS
  Uploads,        \* one element for every call of StartUpload (or Store)
  MaxTotalSize,   \* spool.max_total_size, in bytes
  AccountMaxSize, \* upload.max_size of the accounts, in bytes
  Chunks,         \* lengths of the buffers handed to WriteChunk
  ExpectedSizes,  \* sizes announced to StartUpload; negative means unknown
  DiskFaults,     \* TRUE: open, write, fsync, rename, copy, chmod and remove may fail
  MaxRestarts     \* how many times the process may die and start again

ASSUME SpoolAssumption ==
  /\ IsFiniteSet(Uploads)
  /\ MaxTotalSize \in Nat
  /\ AccountMaxSize \in Nat
  /\ Chunks \subseteq Nat \ {0}
  /\ ExpectedSizes \subseteq Int
  /\ DiskFaults \in BOOLEAN
  /\ MaxRestarts \in Nat

VARIABLES
  currentUsage,   \* uploadManager.currentUsage
  activeUploads,  \* keys of uploadManager.activeUploads
  phase,          \* where the goroutine that owns an upload is
  size,           \* Upload.Size; 0 when the size is unknown
  bytesReceived,  \* Upload.BytesReceived
  chunk,          \* len(data) of the WriteChunk in progress, 0 outside one
  cancelled,      \* uploads whose Upload.Context is done
  handles,        \* uploads whose temporary file no call has closed
  temp,           \* bytes in upload-*.tmp on disk, or NoFile
  final,          \* bytes in file-* on disk, or NoFile
  restarts

managerVars == <<currentUsage, activeUploads>>
uploadVars  == <<phase, size, bytesReceived, chunk, cancelled>>
diskVars    == <<handles, temp, final>>
spoolVars   == <<managerVars, uploadVars, diskVars, restarts>>

NoFile == -1
FileSizes == Nat \cup {NoFile}

(***************************************************************************)
(* Phases of an upload.  Inside WriteChunk: reserved (capacity taken),     *)
(* written (bytes on disk), unwritten (the write failed).  Inside          *)
(* FinishUpload: finishing, moved.  Inside AbortUpload: aborting.          *)
(***************************************************************************)
Writing == {"reserved", "written", "unwritten"}
Phases  == Writing \cup {"new", "refused", "open", "failed", "finishing", "moved",
                         "finishFailed", "aborting", "aborted", "committed",
                         "deleted", "chmodFailed", "lost"}

Init ==
  /\ currentUsage = 0
  /\ activeUploads = {}
  /\ phase = [u \in Uploads |-> "new"]
  /\ size = [u \in Uploads |-> 0]
  /\ bytesReceived = [u \in Uploads |-> 0]
  /\ chunk = [u \in Uploads |-> 0]
  /\ cancelled = {}
  /\ handles = {}
  /\ temp = [u \in Uploads |-> NoFile]
  /\ final = [u \in Uploads |-> NoFile]
  /\ restarts = 0

Goto(u, from, to) ==
  /\ phase[u] = from
  /\ phase' = [phase EXCEPT ![u] = to]

-----------------------------------------------------------------------------
(* StartUpload *)

Known(expected) == IF expected < 0 THEN 0 ELSE expected

\* The validations and the advisory capacity check, made under the mutex.
StartAllowed(expected) ==
  /\ AccountMaxSize > 0
  /\ Known(expected) <= AccountMaxSize
  /\ currentUsage + Known(expected) <= MaxTotalSize

\* parentDone: the session context was already cancelled. StartUpload does
\* not look at it, the derived context is simply born done.
StartUpload(u, expected, parentDone) ==
  /\ StartAllowed(expected)
  /\ Goto(u, "new", "open")
  /\ size' = [size EXCEPT ![u] = Known(expected)]
  /\ activeUploads' = activeUploads \cup {u}
  /\ handles' = handles \cup {u}
  /\ temp' = [temp EXCEPT ![u] = 0]
  /\ cancelled' = IF parentDone THEN cancelled \cup {u} ELSE cancelled
  /\ UNCHANGED <<currentUsage, bytesReceived, chunk, final, restarts>>

\* The new file refuses its permissions: it is removed by name, an error of
\* that being ignored, and nobody closes it. (Go may close it when it collects
\* the os.File, which it does not promise; handles does not count on it.)
ChmodFails(u) ==
  /\ DiskFaults
  /\ Goto(u, "new", "chmodFailed")
  /\ handles' = handles \cup {u}
  /\ UNCHANGED temp \/ temp' = [temp EXCEPT ![u] = 0]
  /\ UNCHANGED final

\* A parameter or the capacity check refuses it, creating the file fails, or
\* its permissions cannot be set.
StartRefused(u, expected) ==
  /\ \/ /\ ~StartAllowed(expected) \/ DiskFaults
        /\ Goto(u, "new", "refused")
        /\ UNCHANGED diskVars
     \/ StartAllowed(expected) /\ ChmodFails(u)
  /\ UNCHANGED <<managerVars, size, bytesReceived, chunk, cancelled, restarts>>

CancelContext(us) ==
  /\ cancelled' = cancelled \cup us
  /\ UNCHANGED <<managerVars, phase, size, bytesReceived, chunk, diskVars, restarts>>

-----------------------------------------------------------------------------
(* WriteChunk: check, reserve under the mutex, write, account. *)

FitsUpload(u, n) ==
  /\ size[u] > 0 => n <= size[u] - bytesReceived[u]
  /\ bytesReceived[u] + n <= AccountMaxSize

\* Mutant: the capacity is looked at, but the chunk is not counted.
FitsWithoutChunk(n) == currentUsage <= MaxTotalSize

FitsSpool(n) == currentUsage + n <= MaxTotalSize

ReserveChunk(u, n) ==
  /\ u \notin cancelled /\ FitsUpload(u, n) /\ FitsSpool(n)
  /\ Goto(u, "open", "reserved")
  /\ chunk' = [chunk EXCEPT ![u] = n]
  /\ currentUsage' = currentUsage + n
  /\ UNCHANGED <<activeUploads, size, bytesReceived, cancelled, diskVars, restarts>>

RejectChunk(u, n) ==
  /\ ~(u \notin cancelled /\ FitsUpload(u, n) /\ FitsSpool(n))
  /\ Goto(u, "open", "failed")
  /\ UNCHANGED <<managerVars, size, bytesReceived, chunk, cancelled, diskVars, restarts>>

WriteData(u) ==
  /\ Goto(u, "reserved", "written")
  /\ temp' = [temp EXCEPT ![u] = @ + chunk[u]]
  /\ UNCHANGED <<managerVars, size, bytesReceived, chunk, cancelled, handles, final, restarts>>

\* A failing write leaves any prefix of the chunk in the file.
WriteDataFails(u) ==
  /\ DiskFaults
  /\ Goto(u, "reserved", "unwritten")
  /\ \E k \in 0 .. chunk[u] - 1 : temp' = [temp EXCEPT ![u] = @ + k]
  /\ UNCHANGED <<managerVars, size, bytesReceived, chunk, cancelled, handles, final, restarts>>

AccountChunk(u) ==
  /\ Goto(u, "written", "open")
  /\ bytesReceived' = [bytesReceived EXCEPT ![u] = @ + chunk[u]]
  /\ chunk' = [chunk EXCEPT ![u] = 0]
  /\ UNCHANGED <<managerVars, size, cancelled, diskVars, restarts>>

\* Mutant: the failed write keeps what it reserved.
KeepReserved(u) ==
  /\ Goto(u, "unwritten", "failed")
  /\ chunk' = [chunk EXCEPT ![u] = 0]
  /\ UNCHANGED <<managerVars, size, bytesReceived, cancelled, diskVars, restarts>>

RollbackChunk(u) ==
  /\ Goto(u, "unwritten", "failed")
  /\ currentUsage' = currentUsage - chunk[u]
  /\ chunk' = [chunk EXCEPT ![u] = 0]
  /\ UNCHANGED <<activeUploads, size, bytesReceived, cancelled, diskVars, restarts>>

-----------------------------------------------------------------------------
(* FinishUpload, AbortUpload, RemoveUpload *)

\* Mutant: releases the announced size.
ReleaseAnnounced(u) ==
  IF u \in activeUploads
  THEN /\ activeUploads' = activeUploads \ {u}
       /\ currentUsage' = IF currentUsage >= size[u] THEN currentUsage - size[u] ELSE 0
  ELSE UNCHANGED managerVars

\* releaseUploadBytes: idempotent, and it never lets the counter wrap.
ReleaseUploadBytes(u) ==
  IF u \in activeUploads
  THEN /\ activeUploads' = activeUploads \ {u}
       /\ currentUsage' = IF currentUsage >= bytesReceived[u]
                          THEN currentUsage - bytesReceived[u] ELSE 0
  ELSE UNCHANGED managerVars

\* Mutant: the received size is not compared with the announced one.
FinishableAtAnySize(u) == u \notin cancelled

Finishable(u) ==
  /\ u \notin cancelled
  /\ size[u] > 0 => bytesReceived[u] = size[u]

FinishBegin(u) ==
  /\ Finishable(u)
  /\ Goto(u, "open", "finishing")
  /\ UNCHANGED <<managerVars, size, bytesReceived, chunk, cancelled, diskVars, restarts>>

\* ErrUploadCancelled or ErrUploadIncomplete: nothing is closed or released.
FinishRefused(u) ==
  /\ ~Finishable(u)
  /\ Goto(u, "open", "finishFailed")
  /\ UNCHANGED <<managerVars, size, bytesReceived, chunk, cancelled, diskVars, restarts>>

\* Mutant: the file is renamed but not closed.
MoveOpenFile(u) ==
  /\ Goto(u, "finishing", "moved")
  /\ final' = [final EXCEPT ![u] = temp[u]]
  /\ temp' = [temp EXCEPT ![u] = NoFile]
  /\ UNCHANGED <<managerVars, size, bytesReceived, chunk, cancelled, handles, restarts>>

\* Sync, Close, Rename, Chmod. Where Rename fails the file is copied and the
\* temporary file removed, an error of that removal being ignored.
MoveToFinal(u) ==
  /\ Goto(u, "finishing", "moved")
  /\ handles' = handles \ {u}
  /\ final' = [final EXCEPT ![u] = temp[u]]
  /\ \/ temp' = [temp EXCEPT ![u] = NoFile]
     \/ DiskFaults /\ UNCHANGED temp
  /\ UNCHANGED <<managerVars, size, bytesReceived, chunk, cancelled, restarts>>

\* One of them fails: Sync (the file stays open), Close, the copy (a prefix
\* of the final file may exist), or Chmod (the final file is complete).
MoveFails(u) ==
  /\ DiskFaults
  /\ Goto(u, "finishing", "finishFailed")
  /\ \/ UNCHANGED diskVars
     \/ /\ handles' = handles \ {u}
        /\ UNCHANGED temp
        /\ \E k \in NoFile .. temp[u] : final' = [final EXCEPT ![u] = k]
     \/ /\ handles' = handles \ {u}
        /\ temp' = [temp EXCEPT ![u] = NoFile]
        /\ final' = [final EXCEPT ![u] = temp[u]]
  /\ UNCHANGED <<managerVars, size, bytesReceived, chunk, cancelled, restarts>>

FinishRelease(u) ==
  /\ Goto(u, "moved", "committed")
  /\ ReleaseUploadBytes(u)
  /\ UNCHANGED <<size, bytesReceived, chunk, cancelled, diskVars, restarts>>

\* Cancel the context, close and remove the temporary file, an error of the
\* removal being ignored.
AbortBegin(u) ==
  /\ phase[u] \in {"open", "failed", "finishFailed"}
  /\ phase' = [phase EXCEPT ![u] = "aborting"]
  /\ cancelled' = cancelled \cup {u}
  /\ handles' = handles \ {u}
  /\ \/ temp' = [temp EXCEPT ![u] = NoFile]
     \/ DiskFaults /\ UNCHANGED temp
  /\ UNCHANGED <<managerVars, size, bytesReceived, chunk, final, restarts>>

\* Mutant: an aborted upload is not released.
AbortForgets(u) ==
  /\ Goto(u, "aborting", "aborted")
  /\ UNCHANGED <<managerVars, size, bytesReceived, chunk, cancelled, diskVars, restarts>>

AbortRelease(u) ==
  /\ Goto(u, "aborting", "aborted")
  /\ ReleaseUploadBytes(u)
  /\ UNCHANGED <<size, bytesReceived, chunk, cancelled, diskVars, restarts>>

\* Drops the tracking of an upload nobody writes to any more.
RemoveUpload(u) ==
  /\ phase[u] \in {"failed", "finishFailed"}
  /\ ReleaseUploadBytes(u)
  /\ UNCHANGED <<uploadVars, diskVars, restarts>>

-----------------------------------------------------------------------------
(* The manager's files, and the life of the process *)

\* Store writes a file in one go and never meets the upload manager.
Store(u, n) ==
  /\ n <= MaxTotalSize
  /\ Goto(u, "new", "committed")
  /\ bytesReceived' = [bytesReceived EXCEPT ![u] = n]
  /\ final' = [final EXCEPT ![u] = n]
  /\ UNCHANGED <<managerVars, size, chunk, cancelled, handles, temp, restarts>>

DeleteByPath(u) ==
  /\ Goto(u, "committed", "deleted")
  /\ final' = [final EXCEPT ![u] = NoFile]
  /\ UNCHANGED <<managerVars, size, bytesReceived, chunk, cancelled, handles, temp, restarts>>

\* Every file under the user directories, temporary ones included.
ListAll == {<<u, "tmp">> : u \in {v \in Uploads : temp[v] # NoFile}}
           \cup {<<u, "file">> : u \in {v \in Uploads : final[v] # NoFile}}

\* Cleanup(30) deletes what is older than the cutoff. How old the files of
\* the previous process are by now is the environment's choice.
Cleanup(old) ==
  /\ temp' = [u \in Uploads |-> IF <<u, "tmp">> \in old THEN NoFile ELSE temp[u]]
  /\ final' = [u \in Uploads |-> IF <<u, "file">> \in old THEN NoFile ELSE final[u]]

\* The process dies at any point; NewManager starts from an empty table and
\* initializeSpool runs Cleanup once.
Restart ==
  /\ restarts < MaxRestarts
  /\ restarts' = restarts + 1
  /\ currentUsage' = 0
  /\ activeUploads' = {}
  /\ phase' = [u \in Uploads |-> IF phase[u] = "new" THEN "new" ELSE "lost"]
  /\ chunk' = [u \in Uploads |-> 0]
  /\ handles' = {}
  /\ \E old \in SUBSET ListAll : Cleanup(old)
  /\ UNCHANGED <<size, bytesReceived, cancelled>>

-----------------------------------------------------------------------------
(* The owner of an upload, as StoreStream and the FTP driver play it: one  *)
(* call at a time, and nothing but AbortUpload after a failed chunk.       *)

Owner(u) ==
  \/ \E e \in ExpectedSizes : StartRefused(u, e) \/ \E b \in BOOLEAN : StartUpload(u, e, b)
  \/ \E n \in Chunks : ReserveChunk(u, n) \/ RejectChunk(u, n)
  \/ WriteData(u) \/ WriteDataFails(u) \/ AccountChunk(u) \/ RollbackChunk(u)
  \/ FinishBegin(u) \/ FinishRefused(u)
  \/ MoveToFinal(u) \/ MoveFails(u) \/ FinishRelease(u)
  \/ AbortBegin(u) \/ AbortRelease(u)

OtherCalls(u) ==
  \/ RemoveUpload(u)
  \/ \E n \in Chunks : Store(u, n)
  \/ DeleteByPath(u)

Next ==
  \/ \E u \in Uploads : Owner(u) \/ OtherCalls(u)
  \/ \E us \in SUBSET Uploads : CancelContext(us)
  \/ Restart

Spec == Init /\ [][Next]_spoolVars

-----------------------------------------------------------------------------
(* Properties *)

\* The type of the state: every counter is a natural number, so that in
\* particular currentUsage never goes below zero (it is a uint64).
TypeOK ==
  /\ currentUsage \in Nat
  /\ activeUploads \subseteq Uploads
  /\ phase \in [Uploads -> Phases]
  /\ size \in [Uploads -> Nat]
  /\ bytesReceived \in [Uploads -> Nat]
  /\ chunk \in [Uploads -> Nat]
  /\ cancelled \subseteq Uploads
  /\ handles \subseteq Uploads
  /\ temp \in [Uploads -> FileSizes]
  /\ final \in [Uploads -> FileSizes]
  /\ restarts \in Nat

\* One element for every byte that the uploads in us hold.
BytesOf(us, held) == UNION {{u} \X (1 .. held[u]) : u \in us}

\* What an active upload holds: the bytes received and the chunk in progress.
Held == [u \in Uploads |-> bytesReceived[u] + chunk[u]]

ChargedBytes == BytesOf(activeUploads, Held)

\* The counter never drifts: however WriteChunk, FinishUpload, AbortUpload
\* and RemoveUpload of different uploads interleave, and whichever of them
\* fails halfway, currentUsage is exactly the bytes that the active uploads
\* hold (spool.go, WriteChunk and releaseUploadBytes).
Accounting == currentUsage = Cardinality(ChargedBytes)

\* Concurrent uploads cannot overshoot max_total_size: capacity is reserved
\* before it is written (spool.go, WriteChunk).
WithinCapacity == currentUsage <= MaxTotalSize

\* A file FinishUpload hands out holds exactly the bytes it is said to hold
\* (FileRef.Size), the announced size where one was announced, and never
\* the remains of a failed write.
CommittedIsComplete ==
  \A u \in Uploads : phase[u] \in {"moved", "committed"} =>
    /\ final[u] = bytesReceived[u]
    /\ size[u] > 0 => bytesReceived[u] = size[u]

\* The space of the uploads that receive data: while they do, their temporary
\* files take no more of the disk than the counter has reserved, so no more
\* than max_total_size, whatever is written, fails or is released in between.
\* What the counter does not bound is the rest: a failed upload until it is
\* aborted, a committed file until it is deleted, the files of a process that
\* died (spool.go, WriteChunk and the release in FinishUpload).
Receiving == {u \in Uploads : phase[u] \in Writing \cup {"open", "finishing"}}

ReceivedFits == Cardinality(BytesOf(Receiving, temp)) <= MaxTotalSize

Returned == {"refused", "chmodFailed", "aborted", "committed", "deleted", "finishFailed"}

\* When the owner's last call has returned, capacity and an entry of
\* activeUploads are left behind by nothing but a FinishUpload that reported
\* an error, and an open file by nothing but that and a StartUpload that could
\* not set the file's permissions (spool.go, FinishUpload's early returns, and
\* StartUpload, which removes the file and does not close it).
LeakOnlyOnError ==
  \A u \in Uploads : phase[u] \in Returned =>
    /\ u \in activeUploads => phase[u] = "finishFailed"
    /\ u \in handles => phase[u] \in {"finishFailed", "chmodFailed"}

\* An upload can leave the active set only once, and takes exactly its own
\* bytes out of the counter: the saturating branch of releaseUploadBytes is
\* never what keeps the counter from wrapping.
ReleaseExact ==
  [][\A u \in activeUploads \ activeUploads' :
       restarts' = restarts => currentUsage' = currentUsage - bytesReceived[u]]_spoolVars

(***************************************************************************)
(* Why Accounting is an invariant.  The owner's phase decides whether the  *)
(* upload is tracked, whether a chunk is pending, and what its files hold. *)
(***************************************************************************)
Tracked   == Writing \cup {"open", "finishing", "moved"}
Untracked == {"new", "refused", "chmodFailed", "committed", "deleted", "aborted", "lost"}

OwnerInv(u) ==
  /\ phase[u] \in Tracked => u \in activeUploads
  /\ phase[u] \in Untracked => u \notin activeUploads
  /\ u \in handles =>
       phase[u] \in Writing \cup {"open", "failed", "finishing", "finishFailed", "chmodFailed"}
  /\ phase[u] \notin Writing => chunk[u] = 0
  /\ phase[u] = "new" => size[u] = 0 /\ bytesReceived[u] = 0

FileInv(u) ==
  /\ phase[u] \in {"open", "reserved", "finishing"} => temp[u] = bytesReceived[u]
  /\ phase[u] = "written" => temp[u] = bytesReceived[u] + chunk[u]
  /\ phase[u] = "unwritten" => temp[u] < bytesReceived[u] + chunk[u]
  /\ phase[u] = "finishing" /\ size[u] > 0 => bytesReceived[u] = size[u]

CounterInv == IsFiniteSet(ChargedBytes) /\ Accounting /\ WithinCapacity

\* The inductive invariant: the counter matches the uploads that are
\* tracked, and each owner's phase matches the upload's state (spool.go).
IndInv ==
  /\ TypeOK
  /\ CounterInv
  /\ \A u \in Uploads : OwnerInv(u) /\ FileInv(u)
  /\ CommittedIsComplete
=============================================================================
