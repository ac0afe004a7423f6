------------------------------ MODULE PathMapping ------------------------------
(***************************************************************************)
(* The way of an FTP path to a path on the drive: handleUploadOpen and     *)
(* commitToWebDAV of pkg/ftp/driver.go, ProcessUpload and what it calls in *)
(* pkg/transfer/transfer.go, StartUpload of pkg/spool/spool.go and         *)
(* normalizePath of pkg/webdav/client.go.                                  *)
(*                                                                         *)
(* Each of them has its own idea of a legal name, and they see different   *)
(* spellings of it: the collision check asks for the name as the client    *)
(* wrote it, the object gets the sanitised one, and normalizePath judges   *)
(* the whole path, after the file has been received.                       *)
(*                                                                         *)
(* A name is a non-empty sequence of characters, one of each kind that the *)
(* code tells apart; a path is a sequence of names.  ftpserverlib passes   *)
(* cleaned absolute paths, so no name is "." or "..".                      *)
(***************************************************************************)
EXTENDS Integers, Sequences, FiniteSets

CONSTANTS
  Requests,      \* what an upload may ask for: root, dir, name, policy
  MaxPath,       \* MaxPathLength of webdav and maxPathLength of transfer, bytes
  MaxName,       \* maxFilenameLength, runes
  MarkWidth,     \* length of a suffix like -20060102-150405, at least 2
  MaxCandidates, \* maxUniqueFilenameAttempts
  MaxRetries,    \* maxRetries of commitToWebDAV
  Mark(_),       \* the suffix of a candidate of the rename policy
  RetryMark(_),  \* the suffix of a retry of commitToWebDAV
  Others         \* names that other writers use in the folder

\* A letter, an underscore, a dot, a backslash, a colon, a character outside of
\* ASCII, a control character, DEL, and a byte that is no UTF-8.
Chars == {"x", "_", "dot", "back", "colon", "wide", "ctl", "del", "bad"}
Marks == {Mark(k) : k \in 1..MaxCandidates} \cup {RetryMark(k) : k \in 1..MaxRetries}
Policies == {"overwrite", "reject", "rename"}

Name == {n \in Seq(Chars \cup Marks) : n # <<>>}

ASSUME PathAssumption ==
  /\ MaxPath \in Nat /\ MaxName \in Nat /\ MarkWidth \in Nat \ {0, 1}
  /\ MaxCandidates \in Nat /\ MaxRetries \in Nat \ {0}
  /\ Marks \cap Chars = {}
  /\ \A r \in Requests :
       r.root \in Seq(Name) /\ r.dir \in Seq(Name) /\ r.name \in Name /\ r.policy \in Policies

VARIABLES
  request,  \* TransferRequest and the account's TargetConfig
  stage,    \* how far the upload has come
  name,     \* its file name at that stage
  attempt,  \* of the PUT
  taken,    \* names of objects in the folder on the drive
  asked,    \* history: names of which a HEAD said that they were free
  blind     \* history: a HEAD of a legal path failed

pathVars == <<request, stage, name, attempt, taken, asked, blind>>

-----------------------------------------------------------------------------
(* What the functions accept *)

Places(p) == UNION {{i} \X DOMAIN p[i] : i \in DOMAIN p}
Count(p, kinds) == Cardinality({w \in Places(p) : p[w[1]][w[2]] \in kinds})

\* A slash before each name; other characters outside of ASCII have 3 bytes.
Bytes(p) == Len(p) + Cardinality(Places(p)) + 2 * Count(p, {"wide"}) + (MarkWidth - 1) * Count(p, Marks)

Runes(n) == Len(n) + (MarkWidth - 1) * Count(<<n>>, Marks)

HasIn(p, kinds) == \E i \in DOMAIN p : \E j \in DOMAIN p[i] : p[i][j] \in kinds

HasDots(n) == \E i \in 1..(Len(n) - 1) : n[i] = "dot" /\ n[i + 1] = "dot"
HasDotsIn(p) == \E i \in DOMAIN p : HasDots(p[i])

\* The second byte is a colon, as after a drive letter.
HasDrive(n) == Len(n) >= 2 /\ n[1] # "wide" /\ n[2] = "colon"

StartsWindowsPath(n) == n[1] = "back" \/ HasDrive(n)

\* normalizeFTPPath accepts a directory, without its leading slash.
DirAccepted(dir) ==
  dir # <<>> =>
    /\ ~HasDotsIn(dir)
    /\ ~StartsWindowsPath(dir[1])
    /\ Bytes(dir) - 1 <= MaxPath

\* Mutant: control characters go through.
CleanLeavesControl(c) == IF c = "bad" THEN "wide" ELSE c

\* Mutant: byte by byte, which breaks a character.
CleanBytewise(c) == IF c \in {"ctl", "del"} THEN "_" ELSE IF c = "wide" THEN "bad" ELSE c

\* Decoding an invalid byte gives U+FFFD.
Clean(c) == IF c \in {"ctl", "del"} THEN "_" ELSE IF c = "bad" THEN "wide" ELSE c

Sanitized(n) == [i \in DOMAIN n |-> Clean(n[i])]

\* sanitizeFilename accepts a name.
NameAccepted(n) == ~StartsWindowsPath(n) /\ Runes(n) <= MaxName

\* normalizePath of the WebDAV client accepts a path. The drive letter it
\* looks for is at the second byte, after the slash.
Legal(p) ==
  /\ p # <<>> => p[1][1] # "colon"
  /\ ~HasIn(p, {"ctl", "bad"})
  /\ ~HasDotsIn(p)
  /\ Bytes(p) <= MaxPath

\* filepath.Ext begins at the last dot.
IsExtAt(n, e) == n[e] = "dot" /\ \A i \in DOMAIN n : i > e => n[i] # "dot"
ExtAt(n) == IF \E e \in DOMAIN n : IsExtAt(n, e)
            THEN CHOOSE e \in DOMAIN n : IsExtAt(n, e)
            ELSE Len(n) + 1

\* The name with a suffix before its extension.
Suffixed(n, mark) ==
  [i \in 1..(Len(n) + 1) |->
     IF i < ExtAt(n) THEN n[i] ELSE IF i = ExtAt(n) THEN mark ELSE n[i - 1]]

Folder == request.root \o request.dir
PathOf(n) == Append(Folder, n)

-----------------------------------------------------------------------------
(* ProcessUpload *)

Init ==
  /\ request \in Requests
  /\ stage = "requested"
  /\ name = request.name
  /\ attempt = 1
  /\ taken = {}
  /\ asked = {}
  /\ blind = FALSE

Goes(from, to) == stage = from /\ stage' = to

\* CalculateTargetPath without a file name.
MapDir ==
  /\ Goes("requested", IF DirAccepted(request.dir) THEN "mapped" ELSE "refused: dir")
  /\ UNCHANGED <<request, name, attempt, taken, asked, blind>>

\* CheckCollision: a name seems taken if the HEAD says so, and free if the
\* HEAD says so or there is any error, from the server or of normalizePath.
SeemsTaken(n) == Legal(PathOf(n)) /\ n \in taken

\* The collision check of n finds it free.
FindsFree(n) ==
  \/ /\ Legal(PathOf(n)) /\ n \notin taken
     /\ asked' = asked \cup {n} /\ UNCHANGED blind
  \/ ~Legal(PathOf(n)) /\ UNCHANGED <<asked, blind>>
  \/ Legal(PathOf(n)) /\ blind' = TRUE /\ UNCHANGED asked

ResolveOverwrite ==
  /\ request.policy = "overwrite"
  /\ Goes("mapped", "resolved")
  /\ UNCHANGED <<request, name, attempt, taken, asked, blind>>

ResolveReject ==
  /\ request.policy = "reject"
  /\ Goes("mapped", "resolved")
  /\ FindsFree(name)
  /\ UNCHANGED <<request, name, attempt, taken>>

RejectTaken ==
  /\ request.policy = "reject"
  /\ Goes("mapped", "refused: exists")
  /\ SeemsTaken(name)
  /\ UNCHANGED <<request, name, attempt, taken, asked, blind>>

Candidate(k) == IF k = 0 THEN request.name ELSE Suffixed(request.name, Mark(k))

\* Mutant: the candidate after the one that was found free.
ResolveRenameNext ==
  /\ request.policy = "rename"
  /\ Goes("mapped", "resolved")
  /\ \E k \in 0..(MaxCandidates - 1) :
       /\ \A j \in 0..(k - 1) : SeemsTaken(Candidate(j))
       /\ FindsFree(Candidate(k))
       /\ name' = Candidate(k + 1)
  /\ UNCHANGED <<request, attempt, taken>>

\* GenerateUniqueFilename: the first that seems free.
ResolveRename ==
  /\ request.policy = "rename"
  /\ Goes("mapped", "resolved")
  /\ \E k \in 0..MaxCandidates :
       /\ \A j \in 0..(k - 1) : SeemsTaken(Candidate(j))
       /\ FindsFree(Candidate(k))
       /\ name' = Candidate(k)
  /\ UNCHANGED <<request, attempt, taken>>

RenameExhausted ==
  /\ request.policy = "rename"
  /\ Goes("mapped", "refused: exists")
  /\ \A j \in 0..MaxCandidates : SeemsTaken(Candidate(j))
  /\ UNCHANGED <<request, name, attempt, taken, asked, blind>>

\* CalculateTargetPath with the resolved name. validateTargetPath compares
\* cleaned paths of which one begins with the other, and never refuses.
Place ==
  /\ Goes("resolved", IF NameAccepted(name) THEN "placed" ELSE "refused: name")
  /\ name' = IF NameAccepted(name) THEN Sanitized(name) ELSE name
  /\ UNCHANGED <<request, attempt, taken, asked, blind>>

\* Mutant: an error of the existence check is taken for an existing parent.
MakeParentsTrusting ==
  /\ Goes("placed", "parents")
  /\ UNCHANGED <<request, name, attempt, taken, asked, blind>>

\* EnsureParentDirectories. The root of the drive needs none; CreateDirectory
\* refuses what is not legal, and the server may refuse anything.
MakeParents ==
  /\ Goes("placed", "parents")
  /\ Folder # <<>> => Legal(Folder)
  /\ UNCHANGED <<request, name, attempt, taken, asked, blind>>

ParentsFail ==
  /\ Folder # <<>>
  /\ Goes("placed", IF Legal(Folder) THEN "refused: server" ELSE "refused: parents")
  /\ UNCHANGED <<request, name, attempt, taken, asked, blind>>

-----------------------------------------------------------------------------
(* StartUpload, and commitToWebDAV after the file has been received *)

StartUpload ==
  /\ Goes("parents", IF HasDotsIn(PathOf(name)) THEN "refused: spool" ELSE "accepted")
  /\ UNCHANGED <<request, name, attempt, taken, asked, blind>>

\* commitToWebDAV makes sure of the folder once more, before the first PUT:
\* it was legal, so that only the server can refuse it now.
ParentsFailAgain ==
  /\ Folder # <<>> /\ attempt = 1
  /\ Goes("accepted", "failed: server")
  /\ UNCHANGED <<request, name, attempt, taken, asked, blind>>

Put ==
  /\ Goes("accepted", "stored")
  /\ Legal(PathOf(name))
  /\ request.policy = "overwrite" \/ name \notin taken
  /\ taken' = taken \cup {name}
  /\ UNCHANGED <<request, name, attempt, asked, blind>>

\* Why a PUT fails: normalizePath, If-None-Match, or the server.
Failure ==
  IF ~Legal(PathOf(name)) THEN "failed: illegal"
  ELSE IF request.policy # "overwrite" /\ name \in taken THEN "failed: conflict"
  ELSE "failed: server"

\* Every failure is retried under a new name, which nobody checks.
PutRetried ==
  /\ stage = "accepted"
  /\ request.policy = "rename" /\ attempt < MaxRetries
  /\ name' = Suffixed(name, RetryMark(attempt + 1))
  /\ attempt' = attempt + 1
  /\ UNCHANGED <<request, stage, taken, asked, blind>>

PutFails ==
  /\ request.policy # "rename" \/ attempt = MaxRetries
  /\ Goes("accepted", Failure)
  /\ UNCHANGED <<request, name, attempt, taken, asked, blind>>

OtherStores ==
  /\ stage \in {"requested", "mapped", "resolved", "accepted"}
  /\ \E n \in Others \cup {name, Sanitized(name)} :
       n \notin taken /\ taken' = taken \cup {n}
  /\ UNCHANGED <<request, stage, name, attempt, asked, blind>>

Next ==
  \/ MapDir
  \/ ResolveOverwrite \/ ResolveReject \/ RejectTaken \/ ResolveRename \/ RenameExhausted
  \/ Place \/ MakeParents \/ ParentsFail \/ StartUpload
  \/ ParentsFailAgain \/ Put \/ PutRetried \/ PutFails
  \/ OtherStores

Spec == Init /\ [][Next]_pathVars

-----------------------------------------------------------------------------
(* Properties *)

\* The type of the state.
TypeOK ==
  /\ request \in Requests
  /\ stage \in {"requested", "mapped", "resolved", "placed", "parents", "accepted", "stored",
                "refused: dir", "refused: exists", "refused: name", "refused: server",
                "refused: parents", "refused: spool",
                "failed: illegal", "failed: conflict", "failed: server"}
  /\ name \in Name
  /\ attempt \in 1..MaxRetries
  /\ blind \in BOOLEAN

\* A file that has been received is refused for its path only if the path is
\* too long, or if it lies in the root of the drive and its name begins with a
\* colon, which normalizePath takes for a drive letter: everything else that
\* the WebDAV client refuses was refused or rewritten before the transfer
\* (transfer.go:228, client.go:493), the names made by the retries included.
LateRefusal ==
  stage = "failed: illegal" =>
    \/ ~(Bytes(PathOf(name)) <= MaxPath)
    \/ Folder = <<>> /\ name[1] = "colon"

Rewritten == Sanitized(request.name) # request.name

\* Unless the HEAD failed, the object is stored under a name that was found
\* free, or the name was rewritten after the check (ResolveCollision asks for
\* the name as it was sent, transfer.go:507), or it is one that
\* commitToWebDAV made after a failure.
StoredAsChecked ==
  stage = "stored" /\ request.policy # "overwrite" /\ attempt = 1 /\ ~blind =>
    name \in asked \/ Rewritten

\* Ordinary names: no character that any of the functions looks for, and room
\* for every suffix.
Ordinary ==
  /\ Legal(PathOf(request.name))
  /\ ~HasIn(PathOf(request.name), {"back", "colon", "del"})
  /\ Bytes(PathOf(request.name)) + (MaxRetries + 1) * MarkWidth <= MaxPath
  /\ Runes(request.name) + MarkWidth <= MaxName

\* The upload of an ordinary name is never refused for its name, whichever
\* suffixes it is given on its way and whichever function sees it.
OrdinaryNamesPass ==
  Ordinary => stage \notin {"refused: dir", "refused: name", "refused: parents",
                            "refused: spool", "failed: illegal"}

\* The inductive invariant: what each stage has made sure of.
CleanName == \A i \in DOMAIN name : name[i] \notin {"ctl", "del", "bad"}

NameInv ==
  /\ stage \in {"requested", "mapped"} => name = request.name
  /\ stage = "resolved" => \E k \in 0..MaxCandidates : name = Candidate(k)
  /\ stage \in {"placed", "parents", "accepted", "stored", "failed: illegal"} => CleanName

CheckedInv ==
  /\ stage \in {"parents", "accepted", "stored", "failed: illegal"} =>
       Folder = <<>> \/ Legal(Folder)
  /\ stage \in {"accepted", "stored", "failed: illegal"} => ~HasDotsIn(PathOf(name))
  /\ stage = "stored" => Legal(PathOf(name))
  /\ stage = "failed: illegal" => ~Legal(PathOf(name))

AskedInv ==
  /\ stage \in {"resolved", "placed", "parents", "accepted", "stored"}
  /\ request.policy # "overwrite" /\ attempt = 1 /\ ~blind
  => name \in asked \/ ~Legal(PathOf(name)) \/ Rewritten

PathInv == TypeOK /\ NameInv /\ CheckedInv /\ AskedInv
=============================================================================
