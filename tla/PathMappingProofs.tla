--------------------------- MODULE PathMappingProofs ---------------------------
(***************************************************************************)
(* Proofs about PathMapping, for any set of requests and any limits.  The  *)
(* lemmas say what sanitising and suffixes do to a name: neither makes an  *)
(* illegal character or two dots in a row out of what had none.  PathInv   *)
(* follows the upload through the stages.  RoomInv bounds the length of an *)
(* ordinary name on its way: each suffix adds no more than its own width.  *)
(***************************************************************************)
EXTENDS PathMapping, SequenceTheorems, FiniteSetTheorems, TLAPS

Illegal == {"ctl", "del", "bad"}

LEMMA Emptiness ==
  ASSUME NEW S, NEW f \in Seq(S)
  PROVE  /\ f = <<>> => DOMAIN f = {} /\ Len(f) + 1 = 1
         /\ f # <<>> => 1 \in 1..Len(f)
<1>1. Len(<<>>) = 0 /\ (f # <<>> => Len(f) \in Nat \ {0}) BY EmptySeq
<1>2. DOMAIN f = 1..Len(f) BY LenProperties
<1>3. QED BY <1>1, <1>2

LEMMA MarkFacts == ASSUME NEW m \in Marks PROVE m \notin Chars
BY PathAssumption

LEMMA NameFacts ==
  ASSUME NEW n \in Name
  PROVE  n \in Seq(Chars \cup Marks) /\ Len(n) \in Nat /\ Len(n) >= 1 /\ DOMAIN n = 1..Len(n)
BY DEF Name

LEMMA SanitizedName ==
  ASSUME NEW n \in Name
  PROVE  /\ Sanitized(n) \in Name
         /\ Len(Sanitized(n)) = Len(n)
         /\ \A i \in DOMAIN Sanitized(n) : Sanitized(n)[i] \notin Illegal
<1>1. n \in Seq(Chars \cup Marks) /\ Len(n) \in Nat /\ Len(n) >= 1 /\ DOMAIN n = 1..Len(n)
  BY NameFacts
<1>2. ASSUME NEW c \in Chars \cup Marks
      PROVE  Clean(c) \in Chars \cup Marks /\ Clean(c) \notin Illegal
  <2>1. CASE c \in Chars BY <2>1 DEF Clean, Chars, Illegal
  <2>2. CASE c \notin Chars
    <3>1. c \notin Illegal BY <2>2 DEF Chars, Illegal
    <3>2. Clean(c) = c BY <3>1 DEF Clean, Illegal
    <3>3. QED BY <3>1, <3>2
  <2>3. QED BY <2>1, <2>2
<1>3. Sanitized(n) = [i \in 1..Len(n) |-> Clean(n[i])] BY <1>1 DEF Sanitized
<1>4. Sanitized(n) \in Seq(Chars \cup Marks) /\ Len(Sanitized(n)) = Len(n)
  BY <1>1, <1>2, <1>3
<1>5. Sanitized(n) # <<>> BY <1>1, <1>4
<1>6. Sanitized(n) \in Name BY <1>4, <1>5 DEF Name
<1>7. \A i \in DOMAIN Sanitized(n) : Sanitized(n)[i] \notin Illegal BY <1>1, <1>2, <1>3
<1>8. QED BY <1>4, <1>6, <1>7

\* Sanitising a second time changes nothing: CalculateTargetPath may be applied
\* to names that went through it (transfer.go:507-514).
THEOREM SanitizedOnce == \A n \in Name : Sanitized(Sanitized(n)) = Sanitized(n)
<1> SUFFICES ASSUME NEW n \in Name PROVE Sanitized(Sanitized(n)) = Sanitized(n)
  OBVIOUS
<1>1. \A i \in DOMAIN n : Clean(Clean(n[i])) = Clean(n[i]) BY DEF Clean
<1>2. DOMAIN Sanitized(n) = DOMAIN n BY DEF Sanitized
<1>3. QED BY <1>1, <1>2 DEF Sanitized

LEMMA ExtFacts == ASSUME NEW n \in Name PROVE ExtAt(n) \in 1..(Len(n) + 1)
<1>1. Len(n) \in Nat /\ DOMAIN n = 1..Len(n) BY NameFacts
<1>2. CASE \E e \in DOMAIN n : IsExtAt(n, e) BY <1>1, <1>2 DEF ExtAt
<1>3. CASE ~\E e \in DOMAIN n : IsExtAt(n, e)
  <2>1. ExtAt(n) = Len(n) + 1 BY <1>3 DEF ExtAt
  <2>2. QED BY <1>1, <2>1
<1>4. QED BY <1>2, <1>3

LEMMA SuffixedName ==
  ASSUME NEW n \in Name, NEW mark \in Marks
  PROVE  /\ Suffixed(n, mark) \in Name
         /\ (\A i \in DOMAIN n : n[i] \notin Illegal)
              => \A i \in DOMAIN Suffixed(n, mark) : Suffixed(n, mark)[i] \notin Illegal
         /\ ~HasDots(n) => ~HasDots(Suffixed(n, mark))
         /\ Sanitized(n) = n => Sanitized(Suffixed(n, mark)) = Suffixed(n, mark)
<1> DEFINE e == ExtAt(n)
           s == Suffixed(n, mark)
<1>1. n \in Seq(Chars \cup Marks) /\ Len(n) \in Nat /\ Len(n) >= 1 /\ DOMAIN n = 1..Len(n)
  BY NameFacts
<1>2. e \in 1..(Len(n) + 1) BY ExtFacts
<1>3. s = [i \in 1..(Len(n) + 1) |-> IF i < e THEN n[i] ELSE IF i = e THEN mark ELSE n[i - 1]]
  BY DEF Suffixed
<1> HIDE DEF e, s
<1>4. \A i \in 1..(Len(n) + 1) :
        \/ i < e /\ i \in 1..Len(n) /\ s[i] = n[i]
        \/ i = e /\ s[i] = mark
        \/ i > e /\ i - 1 \in 1..Len(n) /\ s[i] = n[i - 1]
  BY <1>1, <1>2, <1>3
<1>5. mark \notin Chars BY MarkFacts
<1>6. \A i \in 1..(Len(n) + 1) : s[i] \in Chars \cup Marks BY <1>1, <1>4
<1>7. s \in Seq(Chars \cup Marks) /\ Len(s) = Len(n) + 1 /\ DOMAIN s = 1..(Len(n) + 1)
  BY <1>1, <1>3, <1>6
<1>8. s \in Name
  <2>1. s # <<>> BY <1>1, <1>7
  <2>2. QED BY <1>7, <2>1 DEF Name
<1>9. (\A i \in DOMAIN n : n[i] \notin Illegal)
        => (\A i \in DOMAIN s : s[i] \notin Illegal)
  <2> HAVE \A i \in DOMAIN n : n[i] \notin Illegal
  <2>1. mark \notin Illegal BY <1>5 DEF Chars, Illegal
  <2>2. QED BY <1>1, <1>4, <1>7, <2>1
<1>10. ~HasDots(n) => ~HasDots(s)
  <2> HAVE ~HasDots(n)
  <2>1. mark # "dot" BY <1>5 DEF Chars
  <2>2. SUFFICES ASSUME NEW i \in 1..(Len(s) - 1), s[i] = "dot", s[i + 1] = "dot"
                 PROVE FALSE
    BY DEF HasDots
  <2>3. i \in 1..(Len(n) + 1) /\ i + 1 \in 1..(Len(n) + 1) BY <1>1, <1>7
  <2>4. i # e /\ i + 1 # e BY <1>4, <2>1, <2>2, <2>3
  <2>5. CASE i + 1 < e
    <3>1. n[i] = "dot" /\ n[i + 1] = "dot" /\ i + 1 \in 1..Len(n)
      BY <1>1, <1>2, <1>4, <2>2, <2>3, <2>5
    <3>2. i \in 1..(Len(n) - 1) BY <1>1, <2>3, <3>1
    <3>3. QED BY <3>1, <3>2 DEF HasDots
  <2>6. CASE i > e
    <3>1. n[i - 1] = "dot" /\ n[i] = "dot" /\ i - 1 \in 1..Len(n) /\ i \in 1..Len(n)
      BY <1>1, <1>2, <1>4, <2>2, <2>3, <2>6
    <3>2. i - 1 \in 1..(Len(n) - 1) /\ (i - 1) + 1 = i BY <1>1, <3>1
    <3>3. QED BY <3>1, <3>2 DEF HasDots
  <2>7. QED BY <1>2, <2>3, <2>4, <2>5, <2>6
<1>11. Sanitized(n) = n => Sanitized(s) = s
  <2> HAVE Sanitized(n) = n
  <2>1. Clean(mark) = mark BY <1>5 DEF Clean, Chars
  <2>2. \A i \in 1..Len(n) : Clean(n[i]) = n[i] BY <1>1 DEF Sanitized
  <2>3. \A i \in 1..(Len(n) + 1) : Clean(s[i]) = s[i] BY <1>1, <1>4, <2>1, <2>2
  <2>4. Sanitized(s) = [i \in 1..(Len(n) + 1) |-> s[i]] BY <1>7, <2>3 DEF Sanitized
  <2>5. QED BY <1>3, <1>7, <2>4
<1>12. QED BY <1>8, <1>9, <1>10, <1>11 DEF s

\* A path is judged by its folder and its name.
LEMMA PathFacts ==
  ASSUME NEW folder \in Seq(Name), NEW n \in Name
  PROVE  LET p == Append(folder, n)
         IN  /\ DOMAIN p = 1..(Len(folder) + 1)
             /\ p # <<>>
             /\ p[Len(folder) + 1] = n
             /\ \A i \in 1..Len(folder) : p[i] = folder[i]
             /\ HasDotsIn(p) <=> HasDotsIn(folder) \/ HasDots(n)
             /\ \A kinds : HasIn(p, kinds) <=>
                  HasIn(folder, kinds) \/ \E j \in DOMAIN n : n[j] \in kinds
<1> DEFINE p == Append(folder, n)
<1>1. /\ Len(folder) \in Nat /\ DOMAIN folder = 1..Len(folder)
      /\ DOMAIN p = 1..(Len(folder) + 1)
      /\ p[Len(folder) + 1] = n
      /\ \A i \in 1..Len(folder) : p[i] = folder[i]
  OBVIOUS
<1>2. Len(p) = Len(folder) + 1 OBVIOUS
<1>3. p # <<>> BY <1>1, <1>2
<1> HIDE DEF p
<1>4. \A i \in DOMAIN p :
        (i \in DOMAIN folder /\ p[i] = folder[i]) \/ (i = Len(folder) + 1 /\ p[i] = n)
  BY <1>1
<1>5. \A i \in DOMAIN folder : i \in DOMAIN p /\ p[i] = folder[i] BY <1>1
<1>6. Len(folder) + 1 \in DOMAIN p BY <1>1
<1>7. HasDotsIn(p) <=> HasDotsIn(folder) \/ HasDots(n)
  BY <1>1, <1>4, <1>5, <1>6 DEF HasDotsIn
<1>8. ASSUME NEW kinds
      PROVE  HasIn(p, kinds) <=> HasIn(folder, kinds) \/ \E j \in DOMAIN n : n[j] \in kinds
  BY <1>1, <1>4, <1>5, <1>6 DEF HasIn
<1>9. QED BY <1>1, <1>3, <1>7, <1>8 DEF p

LEMMA FolderFacts == ASSUME request \in Requests PROVE Folder \in Seq(Name) /\ request.name \in Name
<1>1. request.root \in Seq(Name) /\ request.dir \in Seq(Name) /\ request.name \in Name
  BY PathAssumption
<1>2. QED BY <1>1 DEF Folder

LEMMA CandidateFacts ==
  ASSUME request \in Requests, NEW k \in 0..MaxCandidates
  PROVE  /\ Candidate(k) \in Name
         /\ ~Rewritten => Sanitized(Candidate(k)) = Candidate(k)
<1>1. request.name \in Name BY FolderFacts
<1>2. CASE k = 0 BY <1>1, <1>2 DEF Candidate, Rewritten
<1>3. CASE k # 0
  <2>1. k \in 1..MaxCandidates BY <1>3, PathAssumption
  <2>2. Mark(k) \in Marks BY <2>1 DEF Marks
  <2>3. Candidate(k) = Suffixed(request.name, Mark(k)) BY <1>3 DEF Candidate
  <2>4. QED BY <1>1, <2>2, <2>3, SuffixedName DEF Rewritten
<1>4. QED BY <1>2, <1>3

LEMMA RetryFacts ==
  ASSUME TypeOK, attempt < MaxRetries
  PROVE  RetryMark(attempt + 1) \in Marks
<1>1. attempt \in 1..MaxRetries /\ MaxRetries \in Nat BY PathAssumption DEF TypeOK
<1>2. attempt + 1 \in 1..MaxRetries BY <1>1
<1>3. QED BY <1>2 DEF Marks

-----------------------------------------------------------------------------
(* The invariant *)

LEMMA InitPathInv == Init => PathInv
<1> SUFFICES ASSUME Init PROVE PathInv OBVIOUS
<1>1. request.name \in Name BY FolderFacts DEF Init
<1>2. 1 \in 1..MaxRetries BY PathAssumption
<1>3. TypeOK BY <1>1, <1>2 DEF Init, TypeOK
<1>4. QED BY <1>3 DEF Init, PathInv, NameInv, CheckedInv, AskedInv

\* The stages before the name is placed.
LEMMA ResolveKeeps ==
  ASSUME PathInv,
         MapDir \/ ResolveOverwrite \/ ResolveReject \/ RejectTaken \/ ResolveRename \/ RenameExhausted
  PROVE  PathInv'
<1> USE DEF PathInv, NameInv, CheckedInv, AskedInv, Goes
<1>1. CASE MapDir BY <1>1 DEF MapDir, TypeOK
<1>2. CASE ResolveOverwrite
  <2>1. Candidate(0)' = name' /\ 0 \in 0..MaxCandidates
    BY <1>2, PathAssumption DEF ResolveOverwrite, Candidate
  <2>2. QED BY <1>2, <2>1 DEF ResolveOverwrite, TypeOK
<1>3. CASE ResolveReject
  <2>1. Candidate(0)' = name' /\ 0 \in 0..MaxCandidates
    BY <1>3, PathAssumption DEF ResolveReject, Candidate
  <2>2. name' \in asked' \/ ~Legal(PathOf(name))' \/ blind'
    BY <1>3 DEF ResolveReject, FindsFree, PathOf, Folder
  <2>3. blind' \in BOOLEAN BY <1>3 DEF ResolveReject, FindsFree, TypeOK
  <2>4. QED BY <1>3, <2>1, <2>2, <2>3 DEF ResolveReject, TypeOK
<1>4. CASE RejectTaken BY <1>4 DEF RejectTaken, TypeOK
<1>5. CASE ResolveRename
  <2>1. PICK k \in 0..MaxCandidates : FindsFree(Candidate(k)) /\ name' = Candidate(k)
    BY <1>5 DEF ResolveRename
  <2>2. name' \in Name BY <2>1, CandidateFacts DEF TypeOK
  <2>3. name' = Candidate(k)' BY <1>5, <2>1 DEF ResolveRename, Candidate
  <2>4. name' \in asked' \/ ~Legal(PathOf(name))' \/ blind'
    BY <1>5, <2>1 DEF ResolveRename, FindsFree, PathOf, Folder
  <2>5. blind' \in BOOLEAN BY <2>1 DEF FindsFree, TypeOK
  <2>6. QED BY <1>5, <2>2, <2>3, <2>4, <2>5 DEF ResolveRename, TypeOK
<1>6. CASE RenameExhausted BY <1>6 DEF RenameExhausted, TypeOK
<1>7. QED BY <1>1, <1>2, <1>3, <1>4, <1>5, <1>6

\* Sanitising makes the name clean; it changes the name that was asked for only
\* if it changes the client's.
LEMMA PlaceKeeps == ASSUME PathInv, Place PROVE PathInv'
<1> USE DEF PathInv
<1>1. PICK k \in 0..MaxCandidates : name = Candidate(k) BY DEF NameInv, Place, Goes
<1>2. ~Rewritten => Sanitized(name) = name BY <1>1, CandidateFacts DEF TypeOK
<1>3. name \in Name BY DEF TypeOK
<1>4. /\ Sanitized(name) \in Name
      /\ \A i \in DOMAIN Sanitized(name) : Sanitized(name)[i] \notin {"ctl", "del", "bad"}
  BY <1>3, SanitizedName DEF Illegal
<1>5. CASE NameAccepted(name)
  <2>1. stage' = "placed" /\ name' = Sanitized(name) BY <1>5 DEF Place, Goes
  <2>2. UNCHANGED <<request, attempt, asked, blind>> BY DEF Place
  <2>3. TypeOK' BY <1>4, <2>1, <2>2 DEF TypeOK
  <2>4. NameInv' BY <1>4, <2>1 DEF NameInv, CleanName
  <2>5. CheckedInv' BY <2>1 DEF CheckedInv
  <2>6. AskedInv'
    <3>1. Rewritten' = Rewritten BY <2>2 DEF Rewritten
    <3>2. CASE Rewritten BY <3>1, <3>2 DEF AskedInv
    <3>3. CASE ~Rewritten
      <4>1. name' = name BY <1>2, <2>1, <3>3
      <4>2. PathOf(name)' = PathOf(name) BY <2>2, <4>1 DEF PathOf, Folder
      <4>3. Legal(PathOf(name))' = Legal(PathOf(name)) BY <4>2 DEF Legal
      <4>4. stage = "resolved" BY DEF Place, Goes
      <4>5. QED BY <2>1, <2>2, <3>1, <4>1, <4>3, <4>4 DEF AskedInv
    <3>4. QED BY <3>2, <3>3
  <2>7. QED BY <2>3, <2>4, <2>5, <2>6
<1>6. CASE ~NameAccepted(name)
  <2>1. stage' = "refused: name" /\ UNCHANGED <<request, name, attempt, asked, blind>>
    BY <1>6 DEF Place, Goes
  <2>2. QED BY <2>1 DEF TypeOK, NameInv, CheckedInv, AskedInv
<1>7. QED BY <1>5, <1>6

\* What later stages read of the path does not change when the name does not.
LEMMA SamePath ==
  ASSUME UNCHANGED <<request, name>>
  PROVE  /\ UNCHANGED <<Folder, PathOf(name), Rewritten, CleanName>>
         /\ Legal(Folder)' = Legal(Folder)
         /\ Legal(PathOf(name))' = Legal(PathOf(name))
         /\ HasDotsIn(PathOf(name))' = HasDotsIn(PathOf(name))
<1>1. UNCHANGED <<Folder, PathOf(name), Rewritten, CleanName>>
  BY DEF Folder, PathOf, Rewritten, CleanName
<1>2. QED BY <1>1 DEF Legal, HasDotsIn

LEMMA UploadKeeps ==
  ASSUME PathInv,
         \/ MakeParents \/ ParentsFail \/ StartUpload
         \/ ParentsFailAgain \/ Put \/ PutFails \/ OtherStores
  PROVE  PathInv'
<1> USE DEF PathInv, Goes
<1>1. UNCHANGED <<request, name, attempt, asked, blind>>
  BY DEF MakeParents, ParentsFail, StartUpload, ParentsFailAgain, Put, PutFails, OtherStores
<1>2. /\ UNCHANGED <<Folder, PathOf(name), Rewritten, CleanName>>
      /\ Legal(Folder)' = Legal(Folder)
      /\ Legal(PathOf(name))' = Legal(PathOf(name))
      /\ HasDotsIn(PathOf(name))' = HasDotsIn(PathOf(name))
  BY <1>1, SamePath
<1>3. CASE MakeParents
  BY <1>1, <1>2, <1>3 DEF MakeParents, TypeOK, NameInv, CheckedInv, AskedInv
<1>4. CASE ParentsFail
  BY <1>1, <1>2, <1>4 DEF ParentsFail, TypeOK, NameInv, CheckedInv, AskedInv
<1>5. CASE StartUpload
  <2>1. /\ stage = "parents"
        /\ stage' = IF HasDotsIn(PathOf(name)) THEN "refused: spool" ELSE "accepted"
    BY <1>5 DEF StartUpload
  <2>2. TypeOK' BY <1>1, <2>1 DEF TypeOK
  <2>3. NameInv' BY <1>1, <1>2, <2>1 DEF NameInv
  <2>4. CheckedInv' BY <1>1, <1>2, <2>1 DEF CheckedInv
  <2>5. AskedInv' BY <1>1, <1>2, <2>1 DEF AskedInv
  <2>6. QED BY <2>2, <2>3, <2>4, <2>5
<1>6. CASE Put
  BY <1>1, <1>2, <1>6 DEF Put, TypeOK, NameInv, CheckedInv, AskedInv
<1>7. CASE PutFails
  BY <1>1, <1>2, <1>7 DEF PutFails, Failure, TypeOK, NameInv, CheckedInv, AskedInv
<1>8. CASE OtherStores
  <2>1. stage' = stage BY <1>8 DEF OtherStores
  <2>2. TypeOK' BY <1>1, <2>1 DEF TypeOK
  <2>3. NameInv'
    <3>1. \A k : Candidate(k)' = Candidate(k) BY <1>1 DEF Candidate
    <3>2. QED BY <1>1, <1>2, <2>1, <3>1 DEF NameInv
  <2>4. CheckedInv' BY <1>1, <1>2, <2>1 DEF CheckedInv
  <2>5. AskedInv' BY <1>1, <1>2, <2>1 DEF AskedInv
  <2>6. QED BY <2>2, <2>3, <2>4, <2>5
<1>9. CASE ParentsFailAgain
  BY <1>1, <1>2, <1>9 DEF ParentsFailAgain, TypeOK, NameInv, CheckedInv, AskedInv
<1>10. QED BY <1>3, <1>4, <1>5, <1>6, <1>7, <1>8, <1>9

\* The name of a retry is as clean as the one before.
LEMMA RetryKeeps == ASSUME PathInv, PutRetried PROVE PathInv'
<1> USE DEF PathInv
<1>1. name \in Name /\ attempt \in 1..MaxRetries /\ attempt < MaxRetries /\ stage = "accepted"
  BY DEF TypeOK, PutRetried
<1>2. stage' = "accepted" /\ attempt' = attempt + 1 /\ UNCHANGED <<request, asked, blind>>
  BY <1>1 DEF PutRetried
<1>3. name' = Suffixed(name, RetryMark(attempt + 1)) BY DEF PutRetried
<1>4. RetryMark(attempt + 1) \in Marks BY <1>1, RetryFacts
<1>5. Folder \in Seq(Name) /\ Folder' = Folder BY <1>2, FolderFacts DEF TypeOK, Folder
<1>6. name' \in Name BY <1>1, <1>3, <1>4, SuffixedName
<1>7. TypeOK'
  <2>1. attempt' \in 1..MaxRetries BY <1>1, <1>2, PathAssumption
  <2>2. QED BY <1>2, <1>6, <2>1 DEF TypeOK
<1>8. CleanName'
  <2>1. \A i \in DOMAIN name : name[i] \notin Illegal
    BY <1>1 DEF NameInv, CleanName, Illegal
  <2>2. \A i \in DOMAIN name' : name'[i] \notin Illegal
    BY <1>1, <1>3, <1>4, <2>1, SuffixedName
  <2>3. QED BY <2>2 DEF CleanName, Illegal
<1>9. NameInv' BY <1>2, <1>8 DEF NameInv
<1>10. ~HasDotsIn(PathOf(name))'
  <2>1. ~HasDotsIn(Append(Folder, name)) BY <1>1 DEF CheckedInv, PathOf
  <2>2. ~HasDotsIn(Folder) /\ ~HasDots(name) BY <1>1, <1>5, <2>1, PathFacts
  <2>3. ~HasDots(name') BY <1>1, <1>3, <1>4, <2>2, SuffixedName
  <2>4. ~HasDotsIn(Append(Folder, name')) BY <1>5, <1>6, <2>2, <2>3, PathFacts
  <2>5. QED BY <1>5, <2>4 DEF PathOf, HasDotsIn
<1>11. CheckedInv'
  <2>1. Legal(Folder)' = Legal(Folder) BY <1>5 DEF Legal
  <2>2. QED BY <1>1, <1>2, <1>5, <1>10, <2>1 DEF CheckedInv
<1>12. AskedInv'
  <2>1. attempt' # 1 BY <1>1, <1>2
  <2>2. QED BY <2>1 DEF AskedInv
<1>13. QED BY <1>7, <1>9, <1>11, <1>12

\* Each stage has made sure of what the next ones rely on.
THEOREM PathInvHolds == Spec => []PathInv
<1>1. Init => PathInv BY InitPathInv
<1>2. PathInv /\ [Next]_pathVars => PathInv'
  <2> SUFFICES ASSUME PathInv, [Next]_pathVars PROVE PathInv' OBVIOUS
  <2>1. CASE Next BY <2>1, ResolveKeeps, PlaceKeeps, UploadKeeps, RetryKeeps DEF Next
  <2>2. CASE UNCHANGED pathVars
    <3>1. UNCHANGED <<request, stage, name, attempt, asked, blind>> BY <2>2 DEF pathVars
    <3>2. /\ UNCHANGED <<Folder, PathOf(name), Rewritten, CleanName>>
          /\ Legal(Folder)' = Legal(Folder)
          /\ Legal(PathOf(name))' = Legal(PathOf(name))
          /\ HasDotsIn(PathOf(name))' = HasDotsIn(PathOf(name))
      BY <3>1, SamePath
    <3>3. \A k : Candidate(k)' = Candidate(k) BY <3>1 DEF Candidate
    <3>4. QED BY <3>1, <3>2, <3>3 DEF PathInv, TypeOK, NameInv, CheckedInv, AskedInv
  <2>3. QED BY <2>1, <2>2
<1>3. QED BY <1>1, <1>2, PTL DEF Spec

\* A file that has been received is refused for its path only if it is too
\* long, or if a name in the root of the drive begins with a colon
\* (webdav/client.go, normalizePath).
THEOREM RefusalsAreEarly == Spec => []LateRefusal
<1>1. PathInv => LateRefusal
  <2> SUFFICES ASSUME PathInv, stage = "failed: illegal", Bytes(PathOf(name)) <= MaxPath
               PROVE  Folder = <<>> /\ name[1] = "colon"
    BY DEF LateRefusal
  <2> DEFINE p == Append(Folder, name)
  <2>1. Folder \in Seq(Name) /\ name \in Name BY FolderFacts DEF PathInv, TypeOK
  <2>2. /\ ~Legal(p) /\ ~HasDotsIn(p) /\ CleanName
        /\ Folder = <<>> \/ Legal(Folder)
        /\ Bytes(p) <= MaxPath
    BY DEF PathInv, NameInv, CheckedInv, PathOf
  <2>3. ~HasIn(Folder, {"ctl", "bad"})
    <3>1. CASE Folder = <<>>
      <4>1. DOMAIN Folder = {} BY <2>1, <3>1, Emptiness
      <4>2. QED BY <4>1 DEF HasIn
    <3>2. CASE Legal(Folder) BY <3>2 DEF Legal
    <3>3. QED BY <2>2, <3>1, <3>2
  <2>4. ~\E j \in DOMAIN name : name[j] \in {"ctl", "bad"} BY <2>2 DEF CleanName
  <2>5. ~HasIn(p, {"ctl", "bad"}) BY <2>1, <2>3, <2>4, PathFacts
  <2>6. p # <<>> BY <2>1, PathFacts
  <2> HIDE DEF p
  <2>7. p[1][1] = "colon" BY <2>2, <2>5, <2>6 DEF Legal
  <2>8. CASE Folder = <<>>
    <3>1. p[1] = name
      <4>1. Len(Folder) + 1 = 1 BY <2>1, <2>8, Emptiness
      <4>2. p[Len(Folder) + 1] = name BY <2>1, PathFacts DEF p
      <4>3. QED BY <4>1, <4>2
    <3>2. QED BY <2>7, <2>8, <3>1
  <2>9. CASE Folder # <<>>
    <3>1. p[1] = Folder[1]
      <4>1. 1 \in 1..Len(Folder) BY <2>1, <2>9, Emptiness
      <4>2. QED BY <2>1, <4>1, PathFacts DEF p
    <3>2. Folder[1][1] # "colon" BY <2>2, <2>9 DEF Legal
    <3>3. QED BY <2>7, <3>1, <3>2
  <2>10. QED BY <2>8, <2>9
<1>2. QED BY <1>1, PathInvHolds, PTL

\* An object is stored under the name that was asked for, but for the cases that
\* StoredAsChecked names (transfer.go, ResolveCollision).
THEOREM NamesAreChecked == Spec => []StoredAsChecked
<1>1. PathInv => StoredAsChecked BY DEF PathInv, CheckedInv, AskedInv, StoredAsChecked
<1>2. QED BY <1>1, PathInvHolds, PTL

-----------------------------------------------------------------------------
(* How many bytes a path has *)

\* The characters of a path of some kinds.
Of(p, kinds) == {w \in Places(p) : p[w[1]][w[2]] \in kinds}

LEMMA PlaceFacts ==
  ASSUME NEW p \in Seq(Name)
  PROVE  /\ Len(p) \in Nat /\ DOMAIN p = 1..Len(p)
         /\ \A i \in DOMAIN p : p[i] \in Name
         /\ \A w : w \in Places(p) <=> \E i \in DOMAIN p : \E j \in DOMAIN p[i] : w = <<i, j>>
         /\ IsFiniteSet(Places(p))
<1>1. Len(p) \in Nat /\ DOMAIN p = 1..Len(p) /\ \A i \in DOMAIN p : p[i] \in Name OBVIOUS
<1>2. \A w : w \in Places(p) <=> \E i \in DOMAIN p : \E j \in DOMAIN p[i] : w = <<i, j>>
  BY DEF Places
<1>3. IsFiniteSet(Places(p))
  <2> DEFINE row == [i \in DOMAIN p |-> {i} \X DOMAIN p[i]]
             rows == {{i} \X DOMAIN p[i] : i \in DOMAIN p}
  <2>1. row \in Surjection(DOMAIN p, rows) BY DEF Surjection
  <2>2. IsFiniteSet(DOMAIN p) BY <1>1, FS_Interval
  <2>3. IsFiniteSet(rows) BY <2>1, <2>2, FS_Surjection
  <2>4. ASSUME NEW i \in DOMAIN p PROVE IsFiniteSet({i} \X DOMAIN p[i])
    <3>1. DOMAIN p[i] = 1..Len(p[i]) /\ Len(p[i]) \in Nat BY <1>1, NameFacts
    <3>2. IsFiniteSet(1..Len(p[i])) BY <3>1, FS_Interval
    <3>3. IsFiniteSet({i}) BY FS_Singleton
    <3>4. QED BY <3>1, <3>2, <3>3, FS_Product
  <2>5. IsFiniteSet(UNION rows) BY <2>3, <2>4, FS_UNION
  <2>6. QED BY <2>5 DEF Places
<1>4. QED BY <1>1, <1>2, <1>3

LEMMA OfFacts ==
  ASSUME NEW p \in Seq(Name), NEW kinds
  PROVE  /\ IsFiniteSet(Of(p, kinds))
         /\ Count(p, kinds) = Cardinality(Of(p, kinds))
         /\ Count(p, kinds) \in Nat
<1>1. Of(p, kinds) \in SUBSET Places(p) BY DEF Of
<1>2. IsFiniteSet(Of(p, kinds)) BY <1>1, PlaceFacts, FS_Subset
<1>3. Count(p, kinds) = Cardinality(Of(p, kinds)) BY DEF Count, Of
<1>4. QED BY <1>2, <1>3, FS_CardinalityType

\* Every character is of some kind.
LEMMA AllPlaces ==
  ASSUME NEW p \in Seq(Name)
  PROVE  Cardinality(Places(p)) = Count(p, Chars \cup Marks)
<1>1. ASSUME NEW w \in Places(p) PROVE p[w[1]][w[2]] \in Chars \cup Marks
  <2>0. PICK i \in DOMAIN p : \E j \in DOMAIN p[i] : w = <<i, j>> BY PlaceFacts
  <2>1. PICK j \in DOMAIN p[i] : w = <<i, j>> BY <2>0
  <2>2. p[i] \in Name BY PlaceFacts
  <2>3. p[i][j] \in Chars \cup Marks BY <2>1, <2>2, NameFacts
  <2>4. QED BY <2>1, <2>3
<1>2. Of(p, Chars \cup Marks) = Places(p) BY <1>1 DEF Of
<1>3. QED BY <1>2, OfFacts

LEMMA Scaled == ASSUME NEW a \in Nat, NEW b \in Nat, NEW c \in Nat, a <= b PROVE c * a <= c * b
<1>1. b - a \in Nat /\ b = a + (b - a) OBVIOUS
<1>2. c * b = c * a + c * (b - a) BY <1>1
<1>3. c * (b - a) >= 0 BY <1>1
<1>4. c * a \in Nat /\ c * (b - a) \in Nat BY <1>1
<1>5. QED BY <1>2, <1>3, <1>4

\* A path that lies within another has no more of anything.
LEMMA WithinCount ==
  ASSUME NEW p \in Seq(Name), NEW q \in Seq(Name), NEW h \in Nat, NEW kinds,
         \A i \in DOMAIN p : i + h \in DOMAIN q /\ p[i] = q[i + h]
  PROVE  Count(p, kinds) <= Count(q, kinds)
<1> DEFINE A == Of(p, kinds)
           B == Of(q, kinds)
           f == [w \in A |-> <<w[1] + h, w[2]>>]
<1>1. ASSUME NEW w \in A
      PROVE  /\ w[1] \in Nat /\ w = <<w[1], w[2]>>
             /\ <<w[1] + h, w[2]>> \in B
  <2>0. PICK i \in DOMAIN p : \E j \in DOMAIN p[i] : w = <<i, j>> BY PlaceFacts DEF Of
  <2>1. PICK j \in DOMAIN p[i] : w = <<i, j>> BY <2>0
  <2>2. i \in Nat BY PlaceFacts
  <2>3. i + h \in DOMAIN q /\ j \in DOMAIN q[i + h] BY <2>1
  <2>4. <<i + h, j>> \in Places(q) BY <2>3, PlaceFacts
  <2>5. p[i][j] \in kinds BY <2>1 DEF Of
  <2>6. q[i + h][j] \in kinds BY <2>5
  <2>7. <<i + h, j>> \in B BY <2>4, <2>6 DEF Of
  <2>8. QED BY <2>1, <2>2, <2>7
<1>2. f \in [A -> B] BY <1>1
<1>3. ASSUME NEW v \in A, NEW w \in A, f[v] = f[w] PROVE v = w
  <2>1. v[1] + h = w[1] + h /\ v[2] = w[2] BY <1>3
  <2>2. v[1] \in Nat /\ w[1] \in Nat /\ v = <<v[1], v[2]>> /\ w = <<w[1], w[2]>> BY <1>1
  <2>3. v[1] = w[1] BY <2>1, <2>2
  <2>4. QED BY <2>1, <2>2, <2>3
<1>4. f \in Injection(A, B) BY <1>2, <1>3 DEF Injection, IsInjective
<1>5. IsFiniteSet(B) BY OfFacts
<1>6. Cardinality(A) <= Cardinality(B) BY <1>4, <1>5, FS_Injection
<1>7. QED BY <1>6, OfFacts

LEMMA Within ==
  ASSUME NEW p \in Seq(Name), NEW q \in Seq(Name), NEW h \in Nat,
         \A i \in DOMAIN p : i + h \in DOMAIN q /\ p[i] = q[i + h]
  PROVE  Bytes(p) <= Bytes(q) /\ Bytes(p) \in Nat /\ Bytes(q) \in Nat
<1> DEFINE M == MarkWidth - 1
<1>1. M \in Nat BY PathAssumption
<1>2. \A kinds : /\ Count(p, kinds) <= Count(q, kinds)
                 /\ Count(p, kinds) \in Nat /\ Count(q, kinds) \in Nat
  BY WithinCount, OfFacts
<1>3. Len(p) <= Len(q) /\ Len(p) \in Nat /\ Len(q) \in Nat
  <2>1. Len(p) \in Nat /\ Len(q) \in Nat /\ DOMAIN p = 1..Len(p) /\ DOMAIN q = 1..Len(q)
    BY PlaceFacts
  <2>2. CASE Len(p) = 0 BY <2>1, <2>2
  <2>3. CASE Len(p) # 0
    <3>1. Len(p) \in DOMAIN p BY <2>1, <2>3
    <3>2. Len(p) + h \in DOMAIN q BY <3>1
    <3>3. QED BY <2>1, <3>2
  <2>4. QED BY <2>2, <2>3
<1>4. /\ Cardinality(Places(p)) = Count(p, Chars \cup Marks)
      /\ Cardinality(Places(q)) = Count(q, Chars \cup Marks)
  BY AllPlaces
<1>5. M * Count(p, Marks) <= M * Count(q, Marks)
  <2> HIDE DEF M
  <2>1. QED BY <1>1, <1>2, Scaled
<1>6. M * Count(p, Marks) \in Nat /\ M * Count(q, Marks) \in Nat
  <2> HIDE DEF M
  <2>1. QED BY <1>1, <1>2
<1>7. Bytes(p) = Len(p) + Count(p, Chars \cup Marks) + 2 * Count(p, {"wide"}) + M * Count(p, Marks)
  BY <1>4 DEF Bytes
<1>8. Bytes(q) = Len(q) + Count(q, Chars \cup Marks) + 2 * Count(q, {"wide"}) + M * Count(q, Marks)
  BY <1>4 DEF Bytes
<1> DEFINE x == M * Count(p, Marks)
           y == M * Count(q, Marks)
           a == Count(p, Chars \cup Marks)
           b == Count(q, Chars \cup Marks)
           c == Count(p, {"wide"})
           d == Count(q, {"wide"})
<1>9. Bytes(p) = Len(p) + a + 2 * c + x /\ Bytes(q) = Len(q) + b + 2 * d + y
  BY <1>7, <1>8
<1>10. /\ a \in Nat /\ b \in Nat /\ c \in Nat /\ d \in Nat /\ x \in Nat /\ y \in Nat
       /\ a <= b /\ c <= d /\ x <= y
  BY <1>2, <1>5, <1>6
<1> HIDE DEF M, x, y, a, b, c, d
<1>11. QED BY <1>3, <1>9, <1>10

\* A suffix adds itself to the name and nothing else.
LEMMA GrownCount ==
  ASSUME NEW f \in Seq(Name), NEW n \in Name, NEW mark \in Marks, NEW kinds
  PROVE  Count(Append(f, Suffixed(n, mark)), kinds)
           <= Count(Append(f, n), kinds) + (IF mark \in kinds THEN 1 ELSE 0)
<1> DEFINE s == Suffixed(n, mark)
           p == Append(f, n)
           q == Append(f, s)
           e == ExtAt(n)
           L == Len(f) + 1
           x == <<L, e>>
           A == Of(q, kinds) \ {x}
           B == Of(p, kinds)
           g == [w \in A |-> IF w[1] = L /\ w[2] > e THEN <<L, w[2] - 1>> ELSE w]
<1>1. s \in Name BY SuffixedName
<1>2. p \in Seq(Name) /\ q \in Seq(Name) BY <1>1
<1>3. /\ Len(f) \in Nat /\ DOMAIN p = 1..L /\ DOMAIN q = 1..L
      /\ p[L] = n /\ q[L] = s /\ \A i \in 1..Len(f) : p[i] = q[i]
  BY <1>1, PathFacts
<1>4. Len(n) \in Nat /\ DOMAIN n = 1..Len(n) BY NameFacts
<1>5. e \in 1..(Len(n) + 1) BY ExtFacts
<1>6. s = [i \in 1..(Len(n) + 1) |-> IF i < e THEN n[i] ELSE IF i = e THEN mark ELSE n[i - 1]]
  BY DEF Suffixed
<1> HIDE DEF s, p, q, e
<1>7. ASSUME NEW w \in A
      PROVE  \/ /\ w[1] \in 1..Len(f) /\ w = <<w[1], w[2]>> /\ g[w] = w /\ w \in B
             \/ /\ w[1] = L /\ w[2] \in 1..Len(n) /\ w[2] < e /\ w = <<w[1], w[2]>>
                /\ g[w] = w /\ w \in B
             \/ /\ w[1] = L /\ w[2] \in 1..(Len(n) + 1) /\ w[2] > e /\ w = <<w[1], w[2]>>
                /\ g[w] = <<L, w[2] - 1>> /\ <<L, w[2] - 1>> \in B
  <2>1. w \in Places(q) /\ w # x /\ q[w[1]][w[2]] \in kinds BY DEF Of
  <2>pick. PICK i \in DOMAIN q : \E j \in DOMAIN q[i] : w = <<i, j>> BY <1>2, <2>1, PlaceFacts
  <2>2. PICK j \in DOMAIN q[i] : w = <<i, j>> BY <2>pick
  <2>3. w[1] = i /\ w[2] = j BY <2>2
  <2>4. \A a \in DOMAIN p : \A b \in DOMAIN p[a] : p[a][b] \in kinds => <<a, b>> \in B
    BY <1>2, PlaceFacts DEF Of
  <2>5. CASE i \in 1..Len(f)
    <3>1. i # L BY <1>3, <2>5
    <3>2. i \in DOMAIN p /\ p[i] = q[i] BY <1>3, <2>5
    <3>3. <<i, j>> \in B BY <2>1, <2>2, <2>3, <2>4, <3>2
    <3>4. QED BY <2>2, <2>3, <2>5, <3>1, <3>3
  <2>6. CASE i = L
    <3>1. j \in 1..(Len(n) + 1) BY <1>3, <1>6, <2>2, <2>6
    <3>2. j # e BY <2>1, <2>2, <2>6
    <3>3. s[j] \in kinds BY <1>3, <2>1, <2>3, <2>6
    <3>4. L \in DOMAIN p /\ p[L] = n BY <1>3
    <3>5. CASE j < e
      <4>1. j \in 1..Len(n) /\ s[j] = n[j] BY <1>4, <1>5, <1>6, <3>1, <3>5
      <4>2. <<L, j>> \in B BY <1>4, <2>4, <3>3, <3>4, <4>1
      <4>3. ~(w[2] > e) BY <1>4, <1>5, <2>3, <3>1, <3>5
      <4>4. QED BY <2>2, <2>3, <2>6, <3>5, <4>1, <4>2, <4>3
    <3>6. CASE j > e
      <4>1. j - 1 \in 1..Len(n) /\ s[j] = n[j - 1] BY <1>4, <1>5, <1>6, <3>1, <3>6
      <4>2. <<L, j - 1>> \in B BY <1>4, <2>4, <3>3, <3>4, <4>1
      <4>3. QED BY <2>2, <2>3, <2>6, <3>1, <3>6, <4>2
    <3>7. QED BY <1>4, <1>5, <3>1, <3>2, <3>5, <3>6
  <2>7. QED BY <1>3, <2>2, <2>5, <2>6
<1>8. g \in [A -> B] BY <1>7
<1>9. ASSUME NEW v \in A, NEW w \in A, g[v] = g[w] PROVE v = w
  <2>1. L \notin 1..Len(f) BY <1>3
  <2>2. QED BY <1>4, <1>5, <1>7, <1>9, <2>1
<1>10. g \in Injection(A, B) BY <1>8, <1>9 DEF Injection, IsInjective
<1>11. IsFiniteSet(B) /\ IsFiniteSet(Of(q, kinds)) BY <1>2, OfFacts
<1>12. Cardinality(A) <= Cardinality(B) BY <1>10, <1>11, FS_Injection
<1>13. x \in Of(q, kinds) => mark \in kinds
  <2>1. s[e] = mark BY <1>4, <1>5, <1>6
  <2>2. q[L][e] = mark BY <1>3, <2>1
  <2>3. QED BY <2>2 DEF Of
<1>14. Cardinality(A) = IF x \in Of(q, kinds) THEN Cardinality(Of(q, kinds)) - 1
                                              ELSE Cardinality(Of(q, kinds))
  BY <1>11, FS_RemoveElement
<1>15. Cardinality(Of(q, kinds)) = Count(q, kinds) /\ Cardinality(B) = Count(p, kinds)
       /\ Count(q, kinds) \in Nat /\ Count(p, kinds) \in Nat
  BY <1>2, OfFacts
<1> HIDE DEF A, B, x
<1>16. Count(q, kinds) <= Count(p, kinds) + (IF mark \in kinds THEN 1 ELSE 0)
  BY <1>12, <1>13, <1>14, <1>15
<1>17. QED BY <1>16 DEF p, q, s

LEMMA Grown ==
  ASSUME NEW f \in Seq(Name), NEW n \in Name, NEW mark \in Marks
  PROVE  /\ Bytes(Append(f, Suffixed(n, mark))) <= Bytes(Append(f, n)) + MarkWidth
         /\ Runes(Suffixed(n, mark)) <= Runes(n) + MarkWidth
         /\ Runes(Suffixed(n, mark)) \in Nat /\ Runes(n) \in Nat
         /\ Bytes(Append(f, Suffixed(n, mark))) \in Nat /\ Bytes(Append(f, n)) \in Nat
<1> DEFINE M == MarkWidth - 1
           s == Suffixed(n, mark)
<1>1. M \in Nat /\ MarkWidth \in Nat BY PathAssumption
<1>2. s \in Name BY SuffixedName
<1> HIDE DEF s
<1>3. Len(s) = Len(n) + 1 /\ Len(n) \in Nat
  <2>1. s = [i \in 1..(Len(n) + 1) |->
               IF i < ExtAt(n) THEN n[i] ELSE IF i = ExtAt(n) THEN mark ELSE n[i - 1]]
    BY DEF s, Suffixed
  <2>2. DOMAIN s = 1..(Len(n) + 1) BY <2>1
  <2>3. DOMAIN s = 1..Len(s) /\ Len(s) \in Nat /\ Len(n) \in Nat BY <1>2, NameFacts
  <2>4. Len(s) \in 1..(Len(n) + 1) BY <1>2, <2>2, <2>3, NameFacts
  <2>5. Len(n) + 1 \in 1..Len(s) BY <2>2, <2>3
  <2>6. Len(s) <= Len(n) + 1 /\ Len(n) + 1 <= Len(s) BY <2>3, <2>4, <2>5
  <2>7. Len(s) \in Nat /\ Len(n) \in Nat BY <2>3
  <2>8. QED BY <2>6, <2>7
<1>4. mark \notin Chars /\ mark # "wide" BY MarkFacts DEF Chars
<1>5. ASSUME NEW a \in Seq(Name)
      PROVE  LET p == Append(a, n)
                 q == Append(a, s)
             IN  /\ p \in Seq(Name) /\ q \in Seq(Name)
                 /\ \A kinds : Count(p, kinds) \in Nat /\ Count(q, kinds) \in Nat
                 /\ \A kinds : Count(q, kinds) <= Count(p, kinds) + (IF mark \in kinds THEN 1 ELSE 0)
                 /\ M * Count(p, Marks) \in Nat /\ M * Count(q, Marks) \in Nat
                 /\ M * Count(q, Marks) <= M * Count(p, Marks) + M
  <2> DEFINE p == Append(a, n)
             q == Append(a, s)
  <2>1. p \in Seq(Name) /\ q \in Seq(Name) BY <1>2
  <2>2. \A kinds : Count(q, kinds) <= Count(p, kinds) + (IF mark \in kinds THEN 1 ELSE 0)
    BY GrownCount DEF s
  <2> HIDE DEF p, q, M
  <2>3. \A kinds : Count(p, kinds) \in Nat /\ Count(q, kinds) \in Nat BY <2>1, OfFacts
  <2>4. Count(q, Marks) <= Count(p, Marks) + 1 BY <2>2
  <2>5. Count(p, Marks) \in Nat /\ Count(q, Marks) \in Nat BY <2>3
  <2>6. M * Count(q, Marks) <= M * (Count(p, Marks) + 1) BY <1>1, <2>4, <2>5, Scaled
  <2>7. M * (Count(p, Marks) + 1) = M * Count(p, Marks) + M BY <1>1, <2>5
  <2>8. M * Count(p, Marks) \in Nat /\ M * Count(q, Marks) \in Nat BY <1>1, <2>5
  <2>9. QED BY <2>1, <2>2, <2>3, <2>6, <2>7, <2>8 DEF p, q
<1>6. /\ Bytes(Append(f, s)) <= Bytes(Append(f, n)) + MarkWidth
      /\ Bytes(Append(f, s)) \in Nat /\ Bytes(Append(f, n)) \in Nat
  <2> DEFINE p == Append(f, n)
             q == Append(f, s)
             x == M * Count(p, Marks)
             y == M * Count(q, Marks)
  <2>1. Len(p) = Len(f) + 1 /\ Len(q) = Len(f) + 1 /\ Len(f) \in Nat OBVIOUS
  <2>2. /\ p \in Seq(Name) /\ q \in Seq(Name)
        /\ \A kinds : Count(p, kinds) \in Nat /\ Count(q, kinds) \in Nat
        /\ \A kinds : Count(q, kinds) <= Count(p, kinds) + (IF mark \in kinds THEN 1 ELSE 0)
        /\ x \in Nat /\ y \in Nat /\ y <= x + M
    BY <1>5
  <2> HIDE DEF p, q
  <2>3. /\ Cardinality(Places(p)) = Count(p, Chars \cup Marks)
        /\ Cardinality(Places(q)) = Count(q, Chars \cup Marks)
    BY <2>2, AllPlaces
  <2>4. Bytes(p) = Len(p) + Count(p, Chars \cup Marks) + 2 * Count(p, {"wide"}) + x
    BY <2>3 DEF Bytes
  <2>5. Bytes(q) = Len(q) + Count(q, Chars \cup Marks) + 2 * Count(q, {"wide"}) + y
    BY <2>3 DEF Bytes
  <2>6. /\ Count(q, Chars \cup Marks) <= Count(p, Chars \cup Marks) + 1
        /\ Count(q, {"wide"}) <= Count(p, {"wide"})
    <3>1. Count(q, {"wide"}) <= Count(p, {"wide"}) + 0 BY <1>4, <2>2
    <3>2. QED BY <2>2, <3>1
  <2>7. M + 1 = MarkWidth BY <1>1
  <2>8. /\ Count(p, Chars \cup Marks) \in Nat /\ Count(q, Chars \cup Marks) \in Nat
        /\ Count(p, {"wide"}) \in Nat /\ Count(q, {"wide"}) \in Nat
    BY <2>2
  <2>9. x \in Nat /\ y \in Nat /\ y <= x + M BY <2>2
  <2>10. MarkWidth \in Nat BY <1>1
  <2> HIDE DEF M, x, y
  <2>11. Bytes(p) \in Nat /\ Bytes(q) \in Nat /\ Bytes(q) <= Bytes(p) + MarkWidth
    <3> DEFINE a == Count(p, Chars \cup Marks)
               b == Count(q, Chars \cup Marks)
               c == Count(p, {"wide"})
               d == Count(q, {"wide"})
               l == Len(f) + 1
    <3>1. Bytes(p) = l + a + 2 * c + x /\ Bytes(q) = l + b + 2 * d + y
      BY <2>1, <2>4, <2>5
    <3>2. /\ a \in Nat /\ b \in Nat /\ c \in Nat /\ d \in Nat /\ l \in Nat
          /\ b <= a + 1 /\ d <= c
      BY <2>1, <2>6, <2>8
    <3> HIDE DEF a, b, c, d, l
    <3>3. QED BY <1>1, <2>7, <2>9, <2>10, <3>1, <3>2
  <2>12. QED BY <2>11 DEF p, q
<1>7. Runes(s) <= Runes(n) + MarkWidth /\ Runes(s) \in Nat /\ Runes(n) \in Nat
  <2>1. Append(<<>>, n) = <<n>> /\ Append(<<>>, s) = <<s>> /\ <<>> \in Seq(Name) OBVIOUS
  <2>2. /\ M * Count(<<n>>, Marks) \in Nat /\ M * Count(<<s>>, Marks) \in Nat
        /\ M * Count(<<s>>, Marks) <= M * Count(<<n>>, Marks) + M
    BY <1>5, <2>1
  <2>3. Runes(n) = Len(n) + M * Count(<<n>>, Marks) /\ Runes(s) = Len(s) + M * Count(<<s>>, Marks)
    BY DEF Runes
  <2>4. M + 1 = MarkWidth BY <1>1
  <2> HIDE DEF M
  <2>5. QED BY <1>1, <1>3, <2>2, <2>3, <2>4
<1>8. QED BY <1>6, <1>7 DEF s

-----------------------------------------------------------------------------
(* Ordinary names *)

\* What some function looks for in a name.
Sought == {"back", "colon", "ctl", "del", "bad"}
Plain(n) == ~HasDots(n) /\ \A i \in DOMAIN n : n[i] \notin Sought

LEMMA PlainSuffixed ==
  ASSUME NEW n \in Name, NEW mark \in Marks, Plain(n)
  PROVE  Plain(Suffixed(n, mark))
<1>1. Suffixed(n, mark) \in Name /\ ~HasDots(Suffixed(n, mark)) BY SuffixedName DEF Plain
<1>2. Len(n) \in Nat /\ DOMAIN n = 1..Len(n) BY NameFacts
<1>3. ExtAt(n) \in 1..(Len(n) + 1) BY ExtFacts
<1>4. mark \notin Sought BY MarkFacts DEF Chars, Sought
<1>5. ASSUME NEW i \in 1..(Len(n) + 1) PROVE Suffixed(n, mark)[i] \notin Sought
  <2>1. CASE i < ExtAt(n)
    <3>1. i \in DOMAIN n BY <1>2, <1>3, <2>1
    <3>2. Suffixed(n, mark)[i] = n[i] BY <2>1 DEF Suffixed
    <3>3. QED BY <3>1, <3>2 DEF Plain
  <2>2. CASE i = ExtAt(n)
    <3>1. Suffixed(n, mark)[i] = mark BY <1>2, <1>3, <2>2 DEF Suffixed
    <3>2. QED BY <1>4, <3>1
  <2>3. CASE i > ExtAt(n)
    <3>1. i - 1 \in DOMAIN n BY <1>2, <1>3, <2>3
    <3>2. Suffixed(n, mark)[i] = n[i - 1] BY <1>2, <1>3, <2>3 DEF Suffixed
    <3>3. QED BY <3>1, <3>2 DEF Plain
  <2>4. QED BY <1>2, <1>3, <2>1, <2>2, <2>3
<1>6. DOMAIN Suffixed(n, mark) = 1..(Len(n) + 1) BY DEF Suffixed
<1>7. QED BY <1>1, <1>5, <1>6 DEF Plain

LEMMA PlainName ==
  ASSUME NEW n \in Name, Plain(n)
  PROVE  ~StartsWindowsPath(n) /\ n[1] # "colon" /\ Sanitized(n) = n
<1>1. Len(n) \in Nat /\ Len(n) >= 1 /\ DOMAIN n = 1..Len(n) /\ n \in Seq(Chars \cup Marks)
  BY NameFacts
<1>2. n[1] \notin Sought BY <1>1 DEF Plain
<1>3. Len(n) >= 2 => n[2] \notin Sought BY <1>1 DEF Plain
<1>4. ~StartsWindowsPath(n) BY <1>2, <1>3 DEF StartsWindowsPath, HasDrive, Sought
<1>5. Sanitized(n) = n
  <2>1. \A i \in DOMAIN n : Clean(n[i]) = n[i] BY DEF Plain, Sought, Clean
  <2>2. n = [i \in DOMAIN n |-> n[i]] BY <1>1
  <2>3. QED BY <2>1, <2>2 DEF Sanitized
<1>6. QED BY <1>2, <1>4, <1>5 DEF Sought

\* What an ordinary request has in its folder and its name.
LEMMA OrdinaryFacts ==
  ASSUME request \in Requests, Ordinary
  PROVE  /\ Folder \in Seq(Name) /\ request.name \in Name
         /\ Plain(request.name)
         /\ \A i \in DOMAIN Folder : Plain(Folder[i])
         /\ Folder # <<>> => Folder[1][1] # "colon"
<1>1. Folder \in Seq(Name) /\ request.name \in Name BY FolderFacts
<1> DEFINE p == Append(Folder, request.name)
<1>2. /\ ~HasDotsIn(p) /\ ~HasIn(p, {"ctl", "bad"}) /\ ~HasIn(p, {"back", "colon", "del"})
  BY DEF Ordinary, Legal, PathOf
<1>3. \A i \in DOMAIN p : Plain(p[i]) BY <1>2 DEF Plain, HasDotsIn, HasIn, Sought
<1>4. /\ Len(Folder) \in Nat /\ DOMAIN Folder = 1..Len(Folder)
      /\ DOMAIN p = 1..(Len(Folder) + 1) /\ p[Len(Folder) + 1] = request.name
      /\ \A i \in 1..Len(Folder) : p[i] = Folder[i]
  BY <1>1, PathFacts
<1> HIDE DEF p
<1>5. \A i \in DOMAIN Folder : Plain(Folder[i]) BY <1>3, <1>4
<1>6. Plain(request.name) BY <1>3, <1>4
<1>7. Folder # <<>> => Folder[1][1] # "colon"
  <2> HAVE Folder # <<>>
  <2>1. 1 \in DOMAIN Folder BY <1>1, <1>4, Emptiness
  <2>2. Folder[1] \in Name BY <1>1, <2>1
  <2>3. QED BY <1>5, <2>1, <2>2, PlainName
<1>8. QED BY <1>1, <1>5, <1>6, <1>7

LEMMA Joined ==
  ASSUME NEW S, NEW a \in Seq(S), NEW b \in Seq(S)
  PROVE  Len(a \o b) = Len(a) + Len(b) /\ \A i \in 1..Len(b) : (a \o b)[i + Len(a)] = b[i]
<1>1. Len(a) \in Nat /\ Len(b) \in Nat /\ Len(a \o b) = Len(a) + Len(b) OBVIOUS
<1>2. \A i \in 1..(Len(a) + Len(b)) : (a \o b)[i] = IF i <= Len(a) THEN a[i] ELSE b[i - Len(a)]
  OBVIOUS
<1>3. ASSUME NEW i \in 1..Len(b) PROVE (a \o b)[i + Len(a)] = b[i]
  <2>1. i + Len(a) \in 1..(Len(a) + Len(b)) /\ ~(i + Len(a) <= Len(a)) /\ (i + Len(a)) - Len(a) = i
    BY <1>1
  <2>2. QED BY <1>2, <2>1
<1>4. QED BY <1>1, <1>3

\* A plain name that fits is legal in an ordinary folder, and so is the folder.
LEMMA OrdinaryPath ==
  ASSUME request \in Requests, Ordinary, NEW n \in Name, Plain(n),
         Bytes(PathOf(n)) <= MaxPath
  PROVE  /\ Legal(PathOf(n)) /\ ~HasDotsIn(PathOf(n))
         /\ Folder # <<>> => Legal(Folder)
         /\ DirAccepted(request.dir)
<1> DEFINE p == Append(Folder, n)
<1>1. Folder \in Seq(Name) /\ p \in Seq(Name) BY OrdinaryFacts
<1>2. \A i \in DOMAIN Folder : Plain(Folder[i]) BY OrdinaryFacts
<1>3. /\ Len(Folder) \in Nat /\ DOMAIN Folder = 1..Len(Folder)
      /\ DOMAIN p = 1..(Len(Folder) + 1) /\ p[Len(Folder) + 1] = n
      /\ \A i \in 1..Len(Folder) : p[i] = Folder[i]
  BY <1>1, PathFacts
<1>4. Bytes(p) <= MaxPath BY DEF PathOf
<1> HIDE DEF p
<1>5. \A i \in DOMAIN p : Plain(p[i]) /\ p[i] \in Name
  <2>1. \A i \in DOMAIN p : i \in 1..Len(Folder) \/ i = Len(Folder) + 1 BY <1>3
  <2>2. \A i \in 1..Len(Folder) : Folder[i] \in Name BY <1>1, <1>3
  <2>3. QED BY <1>2, <1>3, <2>1, <2>2
<1>6. ASSUME NEW q \in Seq(Name), \A i \in DOMAIN q : Plain(q[i]), Bytes(q) <= MaxPath
      PROVE  Legal(q) /\ ~HasDotsIn(q)
  <2>1. ~HasDotsIn(q) BY <1>6 DEF HasDotsIn, Plain
  <2>2. ~HasIn(q, {"ctl", "bad"}) BY <1>6 DEF HasIn, Plain, Sought
  <2>3. q # <<>> => q[1][1] # "colon"
    <3> HAVE q # <<>>
    <3>1. 1 \in DOMAIN q /\ q[1] \in Name BY Emptiness
    <3>2. QED BY <1>6, <3>1, PlainName
  <2>4. QED BY <1>6, <2>1, <2>2, <2>3 DEF Legal
<1>7. Legal(p) /\ ~HasDotsIn(p) BY <1>1, <1>4, <1>5, <1>6
<1>8. MaxPath \in Nat /\ 0 \in Nat BY PathAssumption
<1>9. Legal(Folder)
  <2>1. \A i \in DOMAIN Folder : i + 0 \in DOMAIN p /\ Folder[i] = p[i + 0] BY <1>3
  <2>2. Bytes(Folder) <= Bytes(p) /\ Bytes(Folder) \in Nat /\ Bytes(p) \in Nat
    BY <1>1, <1>8, <2>1, Within
  <2>3. Bytes(Folder) <= MaxPath BY <1>4, <1>8, <2>2
  <2>4. QED BY <1>1, <1>2, <1>6, <2>3
<1>10. DirAccepted(request.dir)
  <2> DEFINE d == request.dir
             h == Len(request.root)
  <2>1. request.root \in Seq(Name) /\ d \in Seq(Name) BY PathAssumption
  <2>2. h \in Nat /\ Len(d) \in Nat /\ DOMAIN d = 1..Len(d) BY <2>1
  <2>3. Len(Folder) = h + Len(d) /\ \A i \in 1..Len(d) : Folder[i + h] = d[i]
    <3> DEFINE r == request.root
    <3>1. Folder = r \o d BY DEF Folder
    <3>2. r \in Seq(Name) /\ d \in Seq(Name) BY <2>1
    <3> HIDE DEF r, d
    <3>3. Len(r \o d) = Len(r) + Len(d) /\ \A i \in 1..Len(d) : (r \o d)[i + Len(r)] = d[i]
      BY <3>2, Joined
    <3>4. h = Len(r) BY DEF r
    <3>5. QED BY <3>1, <3>3, <3>4 DEF d
  <2> HIDE DEF d, h
  <2>4. \A i \in DOMAIN d : i + h \in 1..Len(Folder) BY <2>2, <2>3
  <2>5. \A i \in DOMAIN d : i + h \in DOMAIN p /\ d[i] = p[i + h]
    BY <1>3, <2>2, <2>3, <2>4
  <2>6. Bytes(d) <= Bytes(p) /\ Bytes(d) \in Nat /\ Bytes(p) \in Nat
    BY <1>1, <2>1, <2>2, <2>5, Within
  <2>7. Bytes(d) - 1 <= MaxPath BY <1>4, <1>8, <2>6
  <2>8. \A i \in DOMAIN d : Plain(d[i]) BY <1>5, <2>5
  <2>9. ~HasDotsIn(d) BY <2>8 DEF HasDotsIn, Plain
  <2>10. d # <<>> => ~StartsWindowsPath(d[1])
    <3> HAVE d # <<>>
    <3>1. 1 \in DOMAIN d /\ d[1] \in Name BY <2>1, <2>2, Emptiness
    <3>2. QED BY <2>8, <3>1, PlainName
  <2>11. QED BY <2>7, <2>9, <2>10 DEF DirAccepted, d
<1>11. QED BY <1>7, <1>9, <1>10 DEF p, PathOf

-----------------------------------------------------------------------------
\* The room that the suffixes have left.
RoomFor(n, marks) ==
  /\ Plain(n)
  /\ Bytes(PathOf(n)) <= Bytes(PathOf(request.name)) + marks * MarkWidth

\* While the upload of an ordinary name goes on, its name is plain and fits.
RoomInv ==
  Ordinary =>
    /\ stage \notin {"refused: dir", "refused: name", "refused: parents",
                     "refused: spool", "failed: illegal"}
    /\ stage \in {"requested", "mapped", "resolved", "placed", "parents", "accepted"} =>
         RoomFor(name, attempt)
    /\ stage \in {"requested", "mapped", "resolved"} => attempt = 1
    /\ stage = "resolved" => Runes(name) <= MaxName

LEMMA SameOrdinary ==
  ASSUME request' = request
  PROVE  /\ Ordinary' = Ordinary
         /\ \A n, k : RoomFor(n, k)' = RoomFor(n, k)
<1>1. Ordinary' = Ordinary BY DEF Ordinary, PathOf, Folder, Legal
<1>2. \A n, k : RoomFor(n, k)' = RoomFor(n, k)
  BY DEF RoomFor, PathOf, Folder, Plain, HasDots, Bytes
<1>3. QED BY <1>1, <1>2

LEMMA BytesNat == ASSUME NEW p \in Seq(Name) PROVE Bytes(p) \in Nat
<1>1. \A i \in DOMAIN p : i + 0 \in DOMAIN p /\ p[i] = p[i + 0] OBVIOUS
<1>2. QED BY <1>1, Within

LEMMA RoomIsEnough ==
  ASSUME TypeOK, Ordinary, RoomFor(name, attempt)
  PROVE  /\ Legal(PathOf(name)) /\ ~HasDotsIn(PathOf(name))
         /\ Folder # <<>> => Legal(Folder)
         /\ DirAccepted(request.dir)
<1>1. /\ request \in Requests /\ name \in Name /\ attempt \in Nat /\ attempt <= MaxRetries
      /\ MaxRetries \in Nat /\ MarkWidth \in Nat /\ MaxPath \in Nat
  <2>1. MaxRetries \in Nat /\ MarkWidth \in Nat /\ MaxPath \in Nat BY PathAssumption
  <2>2. request \in Requests /\ name \in Name /\ attempt \in 1..MaxRetries BY DEF TypeOK
  <2>3. QED BY <2>1, <2>2
<1>2. Bytes(PathOf(request.name)) \in Nat /\ Bytes(PathOf(name)) \in Nat
  <2>1. Folder \in Seq(Name) /\ request.name \in Name BY <1>1, FolderFacts
  <2>2. PathOf(request.name) \in Seq(Name) /\ PathOf(name) \in Seq(Name) BY <1>1, <2>1 DEF PathOf
  <2>3. QED BY <2>2, BytesNat
<1>3. attempt * MarkWidth <= (MaxRetries + 1) * MarkWidth
  <2>1. MarkWidth * attempt <= MarkWidth * (MaxRetries + 1) BY <1>1, Scaled
  <2>2. QED BY <1>1, <2>1
<1>4. attempt * MarkWidth \in Nat /\ (MaxRetries + 1) * MarkWidth \in Nat BY <1>1
<1>5. Bytes(PathOf(request.name)) + (MaxRetries + 1) * MarkWidth <= MaxPath BY DEF Ordinary
<1>6. Bytes(PathOf(name)) <= Bytes(PathOf(request.name)) + attempt * MarkWidth BY DEF RoomFor
<1>7. Bytes(PathOf(name)) <= MaxPath BY <1>1, <1>2, <1>3, <1>4, <1>5, <1>6
<1>8. QED BY <1>1, <1>7, OrdinaryPath DEF RoomFor

LEMMA RunesNat == ASSUME NEW n \in Name PROVE Runes(n) \in Nat
<1>1. <<n>> \in Seq(Name) /\ Len(n) \in Nat BY NameFacts
<1>2. Count(<<n>>, Marks) \in Nat BY <1>1, OfFacts
<1>3. MarkWidth - 1 \in Nat BY PathAssumption
<1>4. (MarkWidth - 1) * Count(<<n>>, Marks) \in Nat
  <2> DEFINE a == MarkWidth - 1
             b == Count(<<n>>, Marks)
  <2>1. a \in Nat /\ b \in Nat BY <1>2, <1>3
  <2> HIDE DEF a, b
  <2>2. a * b \in Nat BY <2>1
  <2>3. QED BY <2>2 DEF a, b
<1>5. QED BY <1>1, <1>4 DEF Runes

\* A suffix uses the room of one suffix.
LEMMA NextRoom ==
  ASSUME request \in Requests, NEW n \in Name, NEW k \in Nat, RoomFor(n, k), NEW mark \in Marks
  PROVE  RoomFor(Suffixed(n, mark), k + 1)
<1>1. Folder \in Seq(Name) /\ request.name \in Name BY FolderFacts
<1>2. /\ Bytes(PathOf(Suffixed(n, mark))) <= Bytes(PathOf(n)) + MarkWidth
      /\ Bytes(PathOf(Suffixed(n, mark))) \in Nat /\ Bytes(PathOf(n)) \in Nat
  BY <1>1, Grown DEF PathOf
<1>3. Bytes(PathOf(request.name)) \in Nat
  <2>1. PathOf(request.name) \in Seq(Name) BY <1>1 DEF PathOf
  <2>2. QED BY <2>1, BytesNat
<1>4. MarkWidth \in Nat BY PathAssumption
<1>5. k * MarkWidth \in Nat /\ (k + 1) * MarkWidth = k * MarkWidth + MarkWidth BY <1>4
<1>6. Bytes(PathOf(n)) <= Bytes(PathOf(request.name)) + k * MarkWidth BY DEF RoomFor
<1>7. Bytes(PathOf(Suffixed(n, mark))) <= Bytes(PathOf(request.name)) + (k + 1) * MarkWidth
  BY <1>2, <1>3, <1>4, <1>5, <1>6
<1>8. Plain(Suffixed(n, mark)) BY PlainSuffixed DEF RoomFor
<1>9. QED BY <1>7, <1>8 DEF RoomFor

LEMMA CandidateRoom ==
  ASSUME request \in Requests, Ordinary, NEW k \in 0..MaxCandidates
  PROVE  RoomFor(Candidate(k), 1) /\ Runes(Candidate(k)) <= MaxName
<1>1. Folder \in Seq(Name) /\ request.name \in Name /\ Plain(request.name) BY OrdinaryFacts
<1>2. MarkWidth \in Nat /\ MaxName \in Nat BY PathAssumption
<1>3. Runes(request.name) + MarkWidth <= MaxName BY DEF Ordinary
<1>4. Runes(request.name) \in Nat BY <1>1, RunesNat
<1>5. Bytes(PathOf(request.name)) \in Nat
  <2>1. PathOf(request.name) \in Seq(Name) BY <1>1 DEF PathOf
  <2>2. QED BY <2>1, BytesNat
<1>6. RoomFor(request.name, 0) /\ RoomFor(request.name, 1)
  <2>1. 0 * MarkWidth = 0 /\ 1 * MarkWidth = MarkWidth BY <1>2
  <2>2. QED BY <1>1, <1>2, <1>5, <2>1 DEF RoomFor
<1>7. CASE k = 0
  <2>1. Candidate(k) = request.name BY <1>7 DEF Candidate
  <2>2. QED BY <1>2, <1>3, <1>4, <1>6, <2>1
<1>8. CASE k # 0
  <2>1. k \in 1..MaxCandidates BY <1>8, PathAssumption
  <2>2. Mark(k) \in Marks BY <2>1 DEF Marks
  <2>3. Candidate(k) = Suffixed(request.name, Mark(k)) BY <1>8 DEF Candidate
  <2>4. RoomFor(Candidate(k), 0 + 1) BY <1>1, <1>6, <2>2, <2>3, NextRoom
  <2>5. /\ Runes(Candidate(k)) <= Runes(request.name) + MarkWidth
        /\ Runes(Candidate(k)) \in Nat
    BY <1>1, <2>2, <2>3, Grown
  <2>6. QED BY <1>2, <1>3, <1>4, <2>4, <2>5
<1>9. QED BY <1>7, <1>8

LEMMA InitRoom == Init => RoomInv
<1> SUFFICES ASSUME Init, Ordinary
             PROVE  RoomFor(name, 1)
  BY DEF Init, RoomInv
<1>1. request \in Requests /\ name = request.name BY DEF Init
<1>2. Plain(request.name) /\ request.name \in Name /\ Folder \in Seq(Name) BY <1>1, OrdinaryFacts
<1>3. MarkWidth \in Nat /\ MaxName \in Nat BY PathAssumption
<1>4. PathOf(name) \in Seq(Name) BY <1>1, <1>2 DEF PathOf
<1>5. Bytes(PathOf(name)) \in Nat BY <1>4, BytesNat
<1>6. QED BY <1>1, <1>2, <1>3, <1>5 DEF RoomFor

LEMMA RoomKept ==
  ASSUME PathInv, RoomInv, Ordinary, [Next]_pathVars
  PROVE  RoomInv'
<1> DEFINE Early == {"requested", "mapped", "resolved"}
           Going == Early \cup {"placed", "parents", "accepted"}
           Refused == {"refused: dir", "refused: name", "refused: parents",
                       "refused: spool", "failed: illegal"}
<1>1. TypeOK BY DEF PathInv
<1>2. request' = request
  BY DEF Next, pathVars, MapDir, ResolveOverwrite, ResolveReject, RejectTaken, ResolveRename,
         RenameExhausted, Place, MakeParents, ParentsFail, StartUpload, ParentsFailAgain, Put, PutRetried, PutFails,
         OtherStores
<1>3. /\ Ordinary'
      /\ \A n, k : RoomFor(n, k)' = RoomFor(n, k)
  BY <1>2, SameOrdinary
<1>4. /\ stage \notin Refused
      /\ stage \in Going => RoomFor(name, attempt)
      /\ stage \in Early => attempt = 1
      /\ stage = "resolved" => Runes(name) <= MaxName
  BY DEF RoomInv
<1>5. SUFFICES /\ stage' \notin Refused
               /\ stage' \in Going => RoomFor(name', attempt')
               /\ stage' \in Early => attempt' = 1
               /\ stage' = "resolved" => Runes(name') <= MaxName
  <2>1. RoomFor(name, attempt)' = RoomFor(name', attempt')
    BY <1>2 DEF RoomFor, PathOf, Folder, Plain, HasDots, Bytes
  <2>2. Runes(name)' = Runes(name') BY DEF Runes
  <2>3. QED BY <1>3, <2>1, <2>2 DEF RoomInv
<1>6. stage \in Going =>
        /\ Legal(PathOf(name)) /\ ~HasDotsIn(PathOf(name))
        /\ Folder # <<>> => Legal(Folder)
        /\ DirAccepted(request.dir)
        /\ ~StartsWindowsPath(name) /\ Sanitized(name) = name
  <2> HAVE stage \in Going
  <2>1. name \in Name BY <1>1 DEF TypeOK
  <2>2. Plain(name) BY <1>4 DEF RoomFor
  <2>3. QED BY <1>1, <1>4, <2>1, <2>2, RoomIsEnough, PlainName
<1>7. stage \in {"requested", "mapped"} => name = request.name BY DEF PathInv, NameInv
<1>8. Runes(request.name) <= MaxName
  <2>1. MaxName \in Nat /\ MarkWidth \in Nat BY PathAssumption
  <2>2. Runes(request.name) + MarkWidth <= MaxName BY DEF Ordinary
  <2>3. Runes(request.name) \in Nat BY <1>1, FolderFacts, RunesNat DEF TypeOK
  <2>4. QED BY <2>1, <2>2, <2>3
<1> USE DEF Goes
<1>9. CASE MapDir BY <1>4, <1>6, <1>9 DEF MapDir
<1>10. CASE ResolveOverwrite BY <1>4, <1>7, <1>8, <1>10 DEF ResolveOverwrite
<1>11. CASE ResolveReject BY <1>4, <1>7, <1>8, <1>11 DEF ResolveReject
<1>12. CASE RejectTaken BY <1>4, <1>12 DEF RejectTaken
<1>13. CASE ResolveRename
  <2>1. PICK k \in 0..MaxCandidates : name' = Candidate(k) BY <1>13 DEF ResolveRename
  <2>2. stage = "mapped" /\ stage' = "resolved" /\ attempt' = attempt BY <1>13 DEF ResolveRename
  <2>3. attempt' = 1 /\ name = request.name /\ RoomFor(request.name, 1) BY <1>4, <1>7, <2>2
  <2>4. RoomFor(Candidate(k), 1) /\ Runes(Candidate(k)) <= MaxName
    BY <1>1, <1>8, <2>3, CandidateRoom DEF TypeOK
  <2>5. QED BY <2>1, <2>2, <2>3, <2>4
<1>14. CASE RenameExhausted BY <1>4, <1>14 DEF RenameExhausted
<1>15. CASE Place
  <2>1. NameAccepted(name) BY <1>4, <1>6, <1>15 DEF Place, NameAccepted
  <2>2. QED BY <1>4, <1>6, <1>15, <2>1 DEF Place
<1>16. CASE MakeParents BY <1>4, <1>16 DEF MakeParents
<1>17. CASE ParentsFail BY <1>4, <1>6, <1>17 DEF ParentsFail
<1>18. CASE StartUpload BY <1>4, <1>6, <1>18 DEF StartUpload
<1>19. CASE Put BY <1>4, <1>19 DEF Put
<1>20. CASE PutRetried
  <2>1. /\ stage = "accepted" /\ stage' = "accepted" /\ attempt' = attempt + 1
        /\ attempt < MaxRetries /\ name' = Suffixed(name, RetryMark(attempt + 1))
    BY <1>20 DEF PutRetried
  <2>2. RetryMark(attempt + 1) \in Marks BY <1>1, <2>1, RetryFacts
  <2>3. RoomFor(name', attempt') BY <1>1, <1>4, <2>1, <2>2, NextRoom DEF TypeOK
  <2>4. QED BY <2>1, <2>3
<1>21. CASE PutFails
  <2>1. Failure # "failed: illegal" /\ Failure \in {"failed: conflict", "failed: server"}
    BY <1>6, <1>21 DEF PutFails, Failure
  <2>2. QED BY <1>21, <2>1 DEF PutFails
<1>22. CASE OtherStores BY <1>4, <1>22 DEF OtherStores
<1>23. CASE UNCHANGED pathVars BY <1>4, <1>23 DEF pathVars
<1>24. CASE ParentsFailAgain BY <1>4, <1>24 DEF ParentsFailAgain
<1>25. QED
  BY <1>24, <1>9, <1>10, <1>11, <1>12, <1>13, <1>14, <1>15, <1>16, <1>17, <1>18, <1>19, <1>20, <1>21,
     <1>22, <1>23 DEF Next

\* The upload of an ordinary name is never refused for its name, whatever it
\* meets on its way (normalizeFTPPath and sanitizeFilename of transfer.go,
\* StartUpload of spool.go, normalizePath of webdav/client.go).
THEOREM OrdinaryNames == Spec => []OrdinaryNamesPass
<1>1. Init => RoomInv BY InitRoom
<1>2. PathInv /\ RoomInv /\ [Next]_pathVars => RoomInv'
  <2> SUFFICES ASSUME PathInv, RoomInv, [Next]_pathVars PROVE RoomInv' OBVIOUS
  <2>1. CASE Ordinary BY <2>1, RoomKept
  <2>2. CASE ~Ordinary
    <3>1. request' = request
      BY DEF Next, pathVars, MapDir, ResolveOverwrite, ResolveReject, RejectTaken, ResolveRename,
             RenameExhausted, Place, MakeParents, ParentsFail, StartUpload, ParentsFailAgain, Put, PutRetried,
             PutFails, OtherStores
    <3>2. ~Ordinary' BY <2>2, <3>1, SameOrdinary
    <3>3. QED BY <3>2 DEF RoomInv
  <2>3. QED BY <2>1, <2>2
<1>3. RoomInv => OrdinaryNamesPass BY DEF RoomInv, OrdinaryNamesPass
<1>4. QED BY <1>1, <1>2, <1>3, PathInvHolds, PTL DEF Spec
=============================================================================
