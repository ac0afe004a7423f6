# ocis-ftp-bridge in TLA+

TLA+ models of the ocis-ftp-bridge service, TLC runs over small instances of
them, and theorems checked by TLAPS for every instance.

The bridge accepts uploads over FTP, spools each on local disk, and commits it
to a drive of an oCIS server by WebDAV PUT. The client reads success only
after the PUT. What could go wrong is mostly in one place: what several
sessions, the disk, the server and the end of a connection do to an upload
between the first byte and the reply. The rest of the hard part is the edge of
the service: who is let in, which names pass, and how it stops.

    tlc -workers 2 -config MCBridge_remote.cfg MCBridge.tla     # a run
    tlapm BridgeProofs.tla                                      # the proofs

## 1. The system

| Component | Source | State it keeps | Operations |
|---|---|---|---|
| Upload spool | `pkg/spool/spool.go` | `currentUsage`, `activeUploads`, one mutex; per upload its size, bytes received, temp file, context; files in the spool directory | `StartUpload`, `WriteChunk`, `FinishUpload`, `AbortUpload`, `RemoveUpload`, `Store`, `StoreStream`, `DeleteByPath`, `Cleanup` |
| FTP driver, uploads | `pkg/ftp/driver.go` | upload slots of an account, the session context, the `uploadWriter` | `OpenFile`, `Write`, `Close`, `commitToWebDAV` |
| FTP driver, connections | `pkg/ftp/driver.go` | `ConnectionTracker`, `allowedConnections`, `activeConnections`, `clients`, `authSemaphore` | `ClientConnected`, `AuthUser`, `ClientDisconnected`, `Shutdown` |
| FTP driver, lockout | `pkg/ftp/driver.go` | `AuthAttemptTracker.ipAttempts` | `IsIPLockedOut`, `RecordAuthAttempt`, `sweep` |
| FTP driver, drive cache | `pkg/ftp/driver.go`, `pkg/graph` | `driveCache` with expiry | `resolveDriveForAccount` |
| Transfer manager | `pkg/transfer/transfer.go` | `uploadCounters` | `ProcessUpload`, collision policy, parent directories |
| Path mapping | `pkg/transfer/transfer.go`, `pkg/webdav/client.go` | none; the name of an upload on its way | `CalculateTargetPath`, `normalizeFTPPath`, `sanitizeFilename`, `normalizePath` |
| WebDAV client | `pkg/webdav/client.go` | none between requests | `UploadStream`, `CreateDirectory`, `CheckPathExistence` |
| Service lifecycle | `pkg/server/server.go` | the context, a WaitGroup | `Run`, `runFTPServer`, `stopFTPServer` |
| Operations server | `pkg/http/server.go` | `started`, the cached health results and their mutex | `Run`, `Stop`, `/readyz` |
| Spool monitor | `pkg/spool/monitor.go` | `stopChan`, `doneChan` | `Start`, `Stop`, `monitorLoop` |
| Rest | `pkg/config`, `pkg/errors`, `pkg/observability`, `cmd` | start-up validation, formatting, logging | – |

How they interact: ftpserverlib runs every FTP connection in a goroutine of
its own and calls the driver. `OpenFile` for STOR calls the account's transfer
manager (HEAD, MKCOL), takes an upload slot and calls `StartUpload`. The copy
loop calls `Write` (`WriteChunk`) and at the end `Close`, which calls
`FinishUpload` (or `AbortUpload` after a failed write), `commitToWebDAV`
(MKCOL, PUT, other names after failures), `DeleteByPath`, and gives the slot
back. The only things shared by sessions are the spool's counter, the slots,
the trackers, the drive cache, and the drive itself. `service.Run` starts the
FTP server, the operations server and the monitor, waits for a signal, stops
them in turn and waits for the goroutines of the first two.

What is hard, and what correctness means there (PROJECT.json "hazards" lists
each at its line):

- *Capacity.* Uploads reserve and release concurrently, and any call may fail
  halfway. The counter must equal what the active uploads hold, and what is
  being received must fit the limit on disk.
- *Races for a name.* HEAD and PUT are far apart; the reply of a PUT can be
  lost while the server executes it. Nothing may be overwritten but by policy,
  success means stored, and a copy never has a name nobody tried.
- *Ends.* The client, the driver or the process may end at each of those
  steps. Slots, capacity and files must be given back once, and each STOR
  answered.
- *Admission.* Connections are counted in three places under three locks, and
  the library reports the end of connections that were refused, too.
- *Checks outside of locks.* Lockout and drive cache are asked under a lock,
  used after it, and updated later, with other logins in between.
- *Four judges of one name.* A name is checked in one spelling, stored in
  another, and judged by four functions, the last of them after the transfer.
- *Stopping while starting.* The signal may come before a server listens; the
  flags by which `Run` and `Stop` know of each other are read and written in
  separate critical sections; `Shutdown` has a time limit shorter than a probe.
- *Answers from memory.* `/readyz` repeats results for five seconds and makes
  everybody wait for the mutex while it asks.

## 2. Modules

| Module | Models | Main correspondence |
|---|---|---|
| `Spool` | the upload manager and the spool directory | one action per critical section or system call; `phase` is the program counter of the goroutine that owns the upload |
| `UploadContract` | what the bridge promises a client and the owners of the drive | abstract specification: stored, cut short, reply |
| `Bridge` (EXTENDS `Spool`) | STOR to reply, with the oCIS server and other writers | `pc` is the session goroutine; `inflight` the requests the server may still execute; `stored` the history of what it executed |
| `Connections` | admission and session registration, repeated logins | `at` is the connection goroutine; the tracker and the driver's maps as functions and sets; `live` the contexts that are not cancelled |
| `AuthLockout` | failed-login lockout | times relative to the clock: `sinceFirst` = now - firstFail, `left` = lockoutEnd - now |
| `DriveCache` | drive resolution with its cache | `left` of an entry; `stale` is history: how long ago a drive was the account's target |
| `PathMapping` | one upload's path through every function that judges or changes it, with retries and other writers | `stage` is how far the upload has come; a name is a sequence of kinds of characters; `asked` is history: names a HEAD called free |
| `Readiness` | `/readyz` with its cache and mutex | `probe` is the handler's goroutine; `age` = now - healthCachedAt; `down`, `quiet`, `waited` are histories |
| `Lifecycle` (EXTENDS `Readiness`) | `service.Run`, the operations server and the monitor from start to return, with the probes | `run`, `ftp`, `http`, `serve`, `monitor` are goroutines; `ftpAtStop`, `httpAtStop`, `timedOut` are histories |
| `MC*` | instances for TLC | `.cfg` files give the constants |
| `*Proofs` | theorems | one proof module per component |

Choices that shape the models:

- `Bridge` uses the actions of `Spool` whole. `ReserveChunk` is the critical
  section that checks and takes capacity, `WriteData` the write without the
  lock, `AccountChunk` or `RollbackChunk` what follows. `MoveToFinal` joins
  Sync, Close, Rename (or copy and remove) and Chmod, which no other goroutine
  can observe apart; `MoveFails` has an outcome for each of them that fails.
- `handles` are the temporary files that no call has closed. `ChmodFails` is the
  way out of `StartUpload` that leaves one: the file is removed by name, and its
  `os.File` is dropped. Go may close it when it collects the garbage; it does
  not promise to, and the model does not count on it. `os.Remove` may fail where
  its error is ignored (`StartUpload`, `AbortUpload`, `FinishUpload` after a
  copy, and `Close`, which ignores the error of `DeleteByPath`).
- `AuthUser` asks four questions one after the other (shutdown, lockout, limit,
  token), and other connections come and go in between: `EnterLogin`,
  `PassLimit` and `StartVerifying` of `Connections` are separate steps, and a
  place is bounded from the second one on (`InUse`). In `AuthLockout`, which does
  not know the other logins, the limit may refuse any login.
- In `Bridge` a path is a sequence: the name the client gave, then the suffixes
  added to it (timestamp, counter, attempt). Spelling is left out there and is
  the subject of `PathMapping`, which has no concurrency but other writers.
- The HEAD requests of one candidate search are one step. Objects are never
  removed in the model, so every "taken" is still true when the last answer
  arrives, and "free" is only trusted as far as `If-None-Match` checks it.
- The size of an FTP upload is unknown to the driver (`-1`), so `Bridge` only
  starts uploads of that size. `Spool` also has announced sizes.
- A cancelled context cancels `Upload.Context` of started uploads; `StartUpload`
  under a done context creates an upload that is born cancelled, as in the code.
- `ControlSpace` is the space that HEAD and MKCOL talk to. The code builds the
  transfer managers with `ocis.webdav_url` and the PUT client with the drive's
  own URL, so the two can differ.
- A crash keeps the spool directory, the drive and requests under way, and
  loses everything else; `Restart` includes the `Cleanup` of `initializeSpool`.
- `PathMapping` has one character of each kind that some function tells apart:
  a letter, underscore, dot, backslash, colon, a character outside of ASCII, a
  control character, DEL, and a byte that is no UTF-8. Lengths count bytes in
  one function and runes in another, as in the code.
- `Readiness` counts time in ticks; what costs no time happens before the next
  tick (`Urgent`). The backends may go down at any tick and recover at any
  moment, and a check that fails needs no reason.
- `Lifecycle` ends when `Run` returns, since `main` returns then: nothing moves
  afterwards.
- Data of other accounts, passwords, metrics and logging are left out.

## 3. Runs

| Run | Instance | Shows |
|---|---|---|
| `MCSpool_faults` | 2 uploads, chunks 1 and 2, capacity 3, sizes unknown or 2, every disk fault, 1 restart | `Accounting`, `CommittedIsComplete`, `ReceivedFits`, `LeakOnlyOnError`, `ReleaseExact` and the inductive invariant |
| `MCBridge_race` | 3 uploads of one name, rename policy, another client that takes names, one death of the process | each is stored once, a file is lost only to three faster writers (`RenameLosesToThree`), nothing stays in the spool |
| `MCBridge_failures` | 2 sessions, one slot, capacity for one chunk, reject policy; disk, MKCOL, data connection, client and driver fail | slots exact, every accepted STOR is answered (liveness) |
| `MCBridge_remote` | 2 accounts (rename, overwrite) on one drive; server errors, lost replies, failing HEAD, other writers | success means stored, no silent overwrite, every copy has the name of an attempt, `Bridge` implements `UploadContract` |
| `MCConnections_limits` | 4 connections of 2 addresses, 2 per address, 3 in all, 1 verification and up to 2 logins of a connection | tracker exact, how far the counter of active connections drifts and how many can log in, no session after shutdown, the last session of a connection ends with it |
| `MCAuthLockout_budget` | 4 connections of 2 addresses, 3 attempts, window 1, lockout 2 | budget of failures, lockout never shortened, entries expire (liveness) |
| `MCDriveCache_changes` | 2 logins of an account by name, 1 by id, 2 drives, one drive name, TTL 1, timeout 1, two changes | no login gets a drive older than TTL and one request; changes are noticed (liveness) |
| `MCLifecycle_shutdown` | 2 probes, TTL, check time-out and shutdown time-out 1 tick each, a signal at any time | what is over when `Run` returns; how late "ready" can be; one round of checks per TTL; a probe waits for one round; probes are answered and `Run` returns (liveness) |
| `MCPathMapping_names` | some 120 names, 9 folders, 3 roots, 3 policies; 2 candidates, 3 attempts | what is refused after the transfer and why, under which name the object is stored, and that ordinary names pass |

Runs that end in a counterexample, each for a statement the repository makes:

| Run | Statement | What the code does |
|---|---|---|
| `MCBridge_abandoned` | architecture.md:270, partial uploads are cleaned up when the session ends | `FinishUpload` refuses a cancelled upload before it closes the file; `Close` returns that error without `AbortUpload`; file, handle and capacity stay |
| `MCBridge_partial` | CHANGELOG.md:81, partial upload cleanup on aborted sessions | `Close` is not told that the data connection broke; what arrived is committed |
| `MCLifecycle_hang` | server.go:126, the service is alive until shutdown is requested; server.go:182, wait for all servers to stop | a signal before the FTP server listens: ftpserverlib's `Stop` finds no listener and returns an error that is logged; the server then listens, and `wg.Wait` never returns |

### Why these bounds

Two uploads are enough for capacity and slots: every conflict over either is
between one holder and one that asks, and capacity 3 with chunks 1 and 2 has
the cases fits, fits exactly and does not fit. Names need three: the third
loses to a winner of the first race and to one of the second. `MaxCandidates`
is 100 in the code; 4 is as many as three uploads and another client take, also
when the counters start again after a crash (with 2 the search ends too early,
an artefact; the theorem asks for 3). All timestamps are one value, the worst case for uniqueness. A chunk
of 1 byte stands for any content in `Bridge`, whose properties do not look at
sizes; empty uploads occur, because an upload may end before its first chunk.

Times: the lockout is longer than the window, so that a window can end within
a lockout. In the drive cache an old answer outlives a newer one within the
TTL, and two changes let the two name different drives; with one drive name, a
drive renamed away is one that is deleted, as the resolver by name sees it (the
theorems have names and changes without bound). The three time-outs of the operations server
are all 5 seconds in the code and one tick each in the run; a round of two
checks then takes longer than `Shutdown` waits, which is the case that matters.
Two probes: one runs the round, the other waits for the mutex. Histories stop
at `MaxWaited` and `MaxDown`, just above the bounds they are compared with.

Names: all of one or two characters, all of three made of a letter, a dot and
a colon (a drive letter, an extension, dots in a row), and names of 4 to 6
letters or wide characters, with `MaxPath` 12 and `MaxName` 7, so that a name
can fit alone and not with its folder, and fit and not with its suffixes. One
root contains dots in a row, which only `StartUpload` refuses. `MaxLogins` and
`MaxChanges` bound counters that the code does not have. The proofs have none
of these bounds.

### Fairness

- `FairBridgeSpec`: weak fairness of each session goroutine (`Driver(u)`: the
  Go scheduler runs it, and its locks are held for bounded sections), of
  `EndTransfer` (the data connection ends by the library's idle timeout) and of
  the server. The last is an assumption about the environment: the
  response-header timeout starts when the request has been written, and does
  not bound a server that stops reading the body of a PUT, so
  `EveryStorAnswered` is about servers that read what they are sent.
  `StopWaiting`, the client's giving up, is neither assumed nor needed. Nothing
  is assumed of clients that do not start an upload.
- `AuthLockout!FairSpec`: the clock goes on and the janitor's ticker fires.
- `DriveCache!FairSpec`: the clock goes on and a Graph call ends by its
  deadline (`graphOpTimeout`); the store after it is counted as part of the call.
- `Lifecycle!FairSpec`: the goroutines of the service run, each check of a
  round ends (`CheckTimeout` is its deadline), a goroutine that waits for a
  mutex that is free gets it, and `select` does not prefer the monitor's ticker
  for ever. Nothing is assumed of signals, of probes, or of the FTP listener.

## 4. Proofs

All for any number of uploads, accounts, connections, probes and requests, and
any limits; the assumptions are the named `ASSUME`s of the modules (constants
have their types, the sets that are counted are finite), which TLC evaluates in
the runs.

- `SpoolProofs`. `IndInv` says more than `Accounting`: it ties each owner's
  `phase` to its upload's handle, chunk, file and membership in `activeUploads`,
  since `releaseUploadBytes` is only exact if no chunk is outstanding and the
  upload is released once. Bytes are counted as the cardinality of a set of
  (upload, index) pairs, so that sums need no induction. From it:
  `Accounting`, `WithinCapacity`, `CommittedIsComplete`,
  `LeakOnlyOnError`, the action property `ReleaseExact`, and
  `ReceivedFits`, which relates the counter to the disk.
- `BridgeProofs`. `BridgeUsesSpool` shows that every bridge behaviour is a
  spool behaviour, so the spool's theorems hold in `Bridge`. `BridgeIndInv` adds
  to slots and types that what was stored is still there or was replaced by
  right (`StoreInv`), and that the driver takes an upload for stored only if the
  server executed a PUT of its current path (`ReplyInv`); neither
  `SuccessMeansStored` nor the refinement is inductive without them. Theorems:
  `SlotsAreExact`, `SuccessIsStored`, `NothingIsOverwritten`, and
  `ContractIsKept`, the refinement of `UploadContract` step by step.
  Three more invariants stand on it. `CopiesInv`: what is stored or in flight
  has a name of an attempt, and nothing is before the first PUT; then
  `CopiesHaveNamesOfAttempts`. `FilesInv` and `CalmInv`: which phase the
  spool file has at each point of the goroutine, where the file is, and that
  nobody cancels while nobody leaves; then `SpoolIsEmptied`. `OnceInv`: as
  long as answers arrive, an upload has one request in flight or one object on
  the drive and never both; then `StoredAtMostOnce`.
  `LosersMeetThree` proves `RenameLosesToThree` by `RaceInv`: the names that one
  upload tries have different lengths, each length it has passed was taken by
  somebody else (`HolderInv` says by whom), and by `OnceInv` one upload holds
  one name only; so three lost names are three other writers. It is exact: with
  three uploads and another client the run has behaviours in which the third
  loses. `FewNeverLose` is the case of at most three writers.
  `UploadsComeToAnEnd` is the half of `EveryStorAnswered` that needs no
  fairness: `Work(u)`, at most 40, gets smaller with every step of the
  goroutine and of the transfer's end, and nobody but the client's side, with a
  chunk that it sends, makes it larger. That a step is enabled and taken is
  left to TLC.
- `ConnectionsProofs`. `ConnInv`: the counts equal the cardinality of the set of
  holders; adding or removing one holder changes one address. `ActiveDrift` is
  inductive with it and gives `LoggedInBounded`: whoever passed the limit last
  found all the others among the counted; `SessionInv` says that the map
  holds a connection's last session, which gives `LastSessionEnds`.
- `AuthLockoutProofs`. `LockInv`: an entry has a positive count below the limit
  or is locked, and count plus logins under way stay within the budget. It
  assumes `MaxAttempts` of at least 1, which the configuration does not check (the
  default is 5, config.go:241).
  `LockoutsLast` follows for every step.
- `DriveCacheProofs`. `CacheInv`: age of an entry plus time left never exceeds
  TTL plus timeout; an answer is no older than its request. A second fact, that
  the history of the current target is 0, carries the step where the server
  answers.
- `ReadinessProofs`. `ReadyInv`: one round at a time; a result is no older than
  its age and its place in the round allow; whoever has waited waits for the
  round under way or is about to read its results. It gives `WaitsAreBounded`,
  `ReadyIsRecent` and `RoundsAreSpaced`.
- `LifecycleProofs`. `LifeInv`: how far the goroutines can be at each point of
  `Run`; every probe came through a listener that was accepting, and what `Stop`
  found tells whether there was anything to shut down. `ServiceIsReadiness` shows
  that the service refines `Readiness`, so its theorems hold during start and
  stop (`ServiceIsReady`). `RunWaitsForTheTold`: where `Run` waits, what it
  waits for was told to end, except for an FTP server that found its listener
  after `Stop` had looked for one; this is the exception of
  `ReturnsOnceListening` and the cause of `MCLifecycle_hang`.
  `ServiceComesToAnEnd`: the service makes at most 24 steps of its own
  (`StepsLeft`) besides the signal, and probes, backends and time add none.
- `PathMappingProofs`. `PathInv`: what each stage has made sure of. The lemmas
  say that a sanitised name has none of the characters the WebDAV client
  refuses, and that a suffix adds none and makes no dots in a row. `RoomInv`
  bounds how long an ordinary name can get: a suffix lengthens a path by its own
  width at most (`Grown`), a part of a path is no longer than the path
  (`Within`), so what fits with room for every suffix passes every check
  (`OrdinaryNames`).

Only model-checked: the liveness properties (`EveryStorAnswered`,
`EntriesExpire`, `ChangesNoticed`, `EveryProbeAnswered`,
`ReturnsOnceListening`), since fairness and ENABLED are outside the prover. Of
`EveryStorAnswered` and `ReturnsOnceListening` it is proved that the steps left
are bounded and get fewer. The violations are counterexamples of TLC.

Proved and not in a run of their own, because a checked invariant contains
them: `TypeOK`, `BridgeTypeOK`, `WithinCapacity`, `LimitsHold`, `LockedAtLimit`,
`NothingLeftBehind`, `StartedIsTrue`.

## 5. Divergences described, without a run

- `driver.go:1375` says that a conflict is retried under a new name; the code
  retries after every error (`Renamable`), so a PUT whose reply is lost can leave
  the file on the drive up to three times. `CopiesAreAttempts` states exactly
  which copies there can be.
- `client.go:116` says that temporary failures are retried. The transport has
  closed the file that is the body of a non-empty upload, `Seek` fails, and the
  failure is final (`Resendable`).
- `driver_test.go:251` wants `activeConnections` to be 0 after a disconnect.
  Connections that were refused are subtracted though they were never added
  (`ActiveDrift`), and each of them adds a place to `max_connections`
  (`LoggedInBounded`).
- `docs/security.md:411` calls `max_connections` the total; the connection that
  logs in is counted already when it is compared with the limit, so one less
  can log in.
- `docs/security.md:486` says disk usage is bounded by `spool.max_total_size`.
  `FinishUpload` releases the capacity of a file that stays on disk until its
  commit, so uploads that wait for a slow server exceed it. What is bounded is
  what is being received (`ReceivedFits`).
- A `StartUpload` whose `Chmod` fails returns an error without closing the file
  it has created and removed (spool.go:338); an error of `FinishUpload` leaves
  the file open as well. Nothing else does (`LeakOnlyOnError`).
- `spool.go:127` says `GetPendingFiles` returns committed files; it lists
  `upload-*.tmp` as well. It has no caller.
- `architecture.md:273` says spool files are only removed after a successful
  commit, `architecture.md:208` that they are removed on any failure; `Close`
  does the latter (`DropSpooled`).
- A second login of a connection replaces the entry in `d.clients` without
  cancelling the context of the session it replaces (`LastSessionEnds` is about
  the last one).
- `driver.go:382` says collision checks run against the endpoint of the uploads;
  they run against `ocis.webdav_url`, uploads against the drive (see
  `ControlSpace`). `If-None-Match` still prevents an overwrite, which is proved
  for both cases.
- The attempt window starts at the first failure and does not slide.
- A busy port of the operations server is logged and the service goes on
  without health checks (`HTTPBindFails`, server.go:144).
- `OperationsServer.Stop` that runs before `Run` has set `started` does nothing,
  and the server then starts: its listener is there until the process ends
  (`QuietAfterReturn` has the case).
- `Shutdown` waits for 5 seconds, a probe for up to two checks of 5 seconds: the
  probe is cut off, and `started` stays set (`DrainTimesOut`).
- Whether the name of a file in the root of the drive may begin with a colon
  depends on who looks: `sanitizeFilename` accepts it, `normalizePath` takes it
  for a drive letter and refuses it after the transfer (`LateRefusal`).
- Under the rename and reject policies a name that is rewritten by
  `sanitizeFilename` is checked in the spelling that was sent
  (`StoredAsChecked`); only `If-None-Match` sees the one that is stored.
- A target root like `/a..b` passes the configuration, and `StartUpload` refuses
  every upload to it.

## 6. Not modelled, and what is left

- Configuration: parsing and validation of a file at start-up is a pure function
  without state. `ParseByteSize` guards its multiplication, and
  `upload.max_size` is kept below 2^63, so the byte counters of the spool are
  natural numbers in the model.
- Error constructors, logging, metrics and gauges, the hash-password tool,
  generated aliases, construction of the service in `New`, flags in `main`.
- `/healthz`, `/metrics` and their authentication: they change no state.
- In the spool, `Delete` and `Retrieve` by file id, `List` and
  `GetPendingFiles` have no caller in the service; `MarkPublished` and
  `MarkFailed` are no-ops. In the WebDAV client the same holds for `DeleteFile`
  and `GetFileInfo`, in the Graph client for search and spaces.
- Downloads, renames and deletions are refused by the driver.

Every safety and action property of the runs is stated by a theorem; the
liveness properties are TLC's. Left for the model: uploads that are open while the
service stops (`Bridge!Shutdown` and `Lifecycle` are apart, since `Run` does not
wait for sessions).
