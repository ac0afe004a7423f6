---------------------------- MODULE SpoolProofs ----------------------------
(***************************************************************************)
(* Proofs about Spool for any set of uploads, any capacity, any chunk      *)
(* sizes and any number of restarts.                                       *)
(***************************************************************************)
EXTENDS Spool, FiniteSetTheorems, TLAPS

-----------------------------------------------------------------------------
(* How many bytes a set of uploads holds *)

LEMMA InBytes ==
  ASSUME NEW A, NEW h, NEW x
  PROVE  x \in BytesOf(A, h) <=> \E u \in A : \E i \in 1 .. h[u] : x = <<u, i>>
BY DEF BytesOf

LEMMA ColumnSize ==
  ASSUME NEW u, NEW a \in Nat, NEW n \in Nat
  PROVE  /\ IsFiniteSet({u} \X (a + 1 .. a + n))
         /\ Cardinality({u} \X (a + 1 .. a + n)) = n
<1>1. IsFiniteSet({u}) /\ Cardinality({u}) = 1
  BY FS_Singleton
<1>2. IsFiniteSet(a + 1 .. a + n) /\ Cardinality(a + 1 .. a + n) = n
  <2>1. a + 1 \in Int /\ a + n \in Int
    OBVIOUS
  <2>2. /\ IsFiniteSet(a + 1 .. a + n)
        /\ Cardinality(a + 1 .. a + n) = IF a + 1 > a + n THEN 0 ELSE (a + n) - (a + 1) + 1
    BY <2>1, FS_Interval
  <2> QED BY <2>2
<1> QED BY <1>1, <1>2, FS_Product

LEMMA DisjointSum ==
  ASSUME NEW S, NEW T, IsFiniteSet(S), IsFiniteSet(T), S \cap T = {}
  PROVE  /\ IsFiniteSet(S \cup T)
         /\ Cardinality(S \cup T) = Cardinality(S) + Cardinality(T)
<1>1. Cardinality(S) \in Nat /\ Cardinality(T) \in Nat
  BY FS_CardinalityType
<1>2. Cardinality(S \cap T) = 0
  BY FS_EmptySet
<1>3. /\ IsFiniteSet(S \cup T)
      /\ Cardinality(S \cup T) = Cardinality(S) + Cardinality(T) - Cardinality(S \cap T)
  BY FS_Union, Zenon
<1> QED BY <1>1, <1>2, <1>3

\* One upload of A comes to hold n more bytes.
LEMMA Grow ==
  ASSUME NEW A, NEW h, NEW g, NEW u \in A, NEW n \in Nat,
         h[u] \in Nat, g[u] = h[u] + n, \A v \in A \ {u} : g[v] = h[v],
         IsFiniteSet(BytesOf(A, h))
  PROVE  /\ IsFiniteSet(BytesOf(A, g))
         /\ Cardinality(BytesOf(A, g)) = Cardinality(BytesOf(A, h)) + n
<1> DEFINE New == {u} \X (h[u] + 1 .. h[u] + n)
<1>1. IsFiniteSet(New) /\ Cardinality(New) = n
  <2>1. \A a \in Nat, k \in Nat : /\ IsFiniteSet({u} \X (a + 1 .. a + k))
                                 /\ Cardinality({u} \X (a + 1 .. a + k)) = k
    BY ColumnSize
  <2> QED BY <2>1, Zenon
<1>2. BytesOf(A, h) \cap New = {}
  BY DEF BytesOf
<1>3. BytesOf(A, g) = BytesOf(A, h) \cup New
  <2>1. ASSUME NEW x \in BytesOf(A, g) PROVE x \in BytesOf(A, h) \cup New
    <3>1. PICK v \in A : \E i \in 1 .. g[v] : x = <<v, i>>
      BY InBytes
    <3>2. PICK i \in 1 .. g[v] : x = <<v, i>>
      BY <3>1
    <3>3. CASE v = u
      <4>1. i \in 1 .. h[u] \/ i \in h[u] + 1 .. h[u] + n
        BY <3>3
      <4> QED BY <4>1, <3>2, <3>3, InBytes
    <3>4. CASE v # u
      <4>1. i \in 1 .. h[v]
        BY <3>4
      <4> QED BY <4>1, <3>2, InBytes
    <3> QED BY <3>3, <3>4
  <2>2. ASSUME NEW x \in BytesOf(A, h) PROVE x \in BytesOf(A, g)
    <3>1. PICK v \in A : \E i \in 1 .. h[v] : x = <<v, i>>
      BY InBytes
    <3>2. PICK i \in 1 .. h[v] : x = <<v, i>>
      BY <3>1
    <3>3. i \in 1 .. g[v]
      <4>1. CASE v = u
        BY <4>1
      <4>2. CASE v # u
        BY <4>2
      <4> QED BY <4>1, <4>2
    <3> QED BY <3>2, <3>3, InBytes
  <2>3. ASSUME NEW x \in New PROVE x \in BytesOf(A, g)
    <3>1. PICK i \in h[u] + 1 .. h[u] + n : x = <<u, i>>
      OBVIOUS
    <3>2. i \in 1 .. g[u]
      OBVIOUS
    <3> QED BY <3>1, <3>2, InBytes
  <2> QED BY <2>1, <2>2, <2>3
<1> QED BY <1>1, <1>2, <1>3, DisjointSum

\* One upload of A gives n bytes back.
LEMMA Shrink ==
  ASSUME NEW A, NEW h, NEW g, NEW u \in A, NEW n \in Nat,
         g[u] \in Nat, h[u] = g[u] + n, \A v \in A \ {u} : g[v] = h[v],
         IsFiniteSet(BytesOf(A, h))
  PROVE  /\ IsFiniteSet(BytesOf(A, g))
         /\ Cardinality(BytesOf(A, g)) = Cardinality(BytesOf(A, h)) - n
         /\ n <= Cardinality(BytesOf(A, h))
<1>1. BytesOf(A, g) \subseteq BytesOf(A, h)
  <2> SUFFICES ASSUME NEW x \in BytesOf(A, g) PROVE x \in BytesOf(A, h)
    OBVIOUS
  <2>1. PICK v \in A : \E i \in 1 .. g[v] : x = <<v, i>>
    BY InBytes
  <2>2. PICK i \in 1 .. g[v] : x = <<v, i>>
    BY <2>1
  <2>3. i \in 1 .. h[v]
    <3>1. CASE v = u
      BY <3>1
    <3>2. CASE v # u
      BY <3>2
    <3> QED BY <3>1, <3>2
  <2> QED BY <2>2, <2>3, InBytes
<1>2. IsFiniteSet(BytesOf(A, g))
  BY <1>1, FS_Subset
<1>3. Cardinality(BytesOf(A, h)) = Cardinality(BytesOf(A, g)) + n
  <2>1. \A v \in A \ {u} : h[v] = g[v]
    OBVIOUS
  <2> QED BY <1>2, <2>1, Grow
<1>4. Cardinality(BytesOf(A, g)) \in Nat
  BY <1>2, FS_CardinalityType
<1> QED BY <1>2, <1>3, <1>4

\* One upload leaves A.
LEMMA Drop ==
  ASSUME NEW A, NEW h, NEW u \in A, h[u] \in Nat, IsFiniteSet(BytesOf(A, h))
  PROVE  /\ IsFiniteSet(BytesOf(A \ {u}, h))
         /\ Cardinality(BytesOf(A \ {u}, h)) = Cardinality(BytesOf(A, h)) - h[u]
         /\ h[u] <= Cardinality(BytesOf(A, h))
<1> DEFINE Old == {u} \X (0 + 1 .. 0 + h[u])
<1>1. IsFiniteSet(Old) /\ Cardinality(Old) = h[u]
  <2>1. \A a \in Nat, k \in Nat : /\ IsFiniteSet({u} \X (a + 1 .. a + k))
                                 /\ Cardinality({u} \X (a + 1 .. a + k)) = k
    BY ColumnSize
  <2>2. 0 \in Nat
    OBVIOUS
  <2> QED BY <2>1, <2>2, Zenon
<1>2. BytesOf(A, h) = BytesOf(A \ {u}, h) \cup Old
  BY DEF BytesOf
<1>3. BytesOf(A \ {u}, h) \cap Old = {}
  BY DEF BytesOf
<1>4. IsFiniteSet(BytesOf(A \ {u}, h))
  BY <1>2, FS_Subset
<1>5. Cardinality(BytesOf(A \ {u}, h)) \in Nat
  BY <1>4, FS_CardinalityType
<1>6. Cardinality(BytesOf(A, h)) = Cardinality(BytesOf(A \ {u}, h)) + Cardinality(Old)
  <2> HIDE DEF Old
  <2> QED BY <1>1, <1>2, <1>3, <1>4, DisjointSum
<1> QED BY <1>1, <1>4, <1>5, <1>6

\* An upload that holds nothing yet joins A.
LEMMA Join ==
  ASSUME NEW A, NEW u, NEW h, h[u] = 0
  PROVE  BytesOf(A \cup {u}, h) = BytesOf(A, h)
<1>1. ASSUME NEW x PROVE x \in BytesOf(A \cup {u}, h) <=> x \in BytesOf(A, h)
  <2>1. 1 .. h[u] = {}
    OBVIOUS
  <2> QED BY <2>1, InBytes
<1> QED BY <1>1

-----------------------------------------------------------------------------
(* The counter *)

LEMMA InitCounter == Init => CounterInv
<1> SUFFICES ASSUME Init PROVE CounterInv
  OBVIOUS
<1>1. ChargedBytes = {}
  BY DEF Init, ChargedBytes, BytesOf
<1>2. 0 <= MaxTotalSize
  BY SpoolAssumption DEF SpoolAssumption
<1> QED BY <1>1, <1>2, FS_EmptySet DEF Init, CounterInv, Accounting, WithinCapacity

\* A step that touches neither the counter nor what uploads hold.
LEMMA QuietKeepsCounter ==
  ASSUME CounterInv, UNCHANGED <<managerVars, bytesReceived, chunk>>
  PROVE  CounterInv'
BY DEF CounterInv, Accounting, WithinCapacity, ChargedBytes, Held, BytesOf, managerVars

LEMMA StartKeepsCounter ==
  ASSUME IndInv, NEW u \in Uploads, NEW e, NEW b, StartUpload(u, e, b)
  PROVE  CounterInv'
<1>1. Held' = Held /\ currentUsage' = currentUsage
  BY DEF StartUpload, Held
<1>2. Held[u] = 0
  BY DEF IndInv, TypeOK, OwnerInv, StartUpload, Goto, Held, Writing
<1>3. ChargedBytes' = ChargedBytes
  <2>1. BytesOf(activeUploads \cup {u}, Held) = BytesOf(activeUploads, Held)
    <3> DEFINE h == Held
    <3>1. h[u] = 0
      BY <1>2
    <3> HIDE DEF h
    <3>2. BytesOf(activeUploads \cup {u}, h) = BytesOf(activeUploads, h)
      BY <3>1, Join
    <3> QED BY <3>2 DEF h
  <2>2. activeUploads' = activeUploads \cup {u}
    BY DEF StartUpload
  <2> QED BY <1>1, <2>1, <2>2 DEF ChargedBytes
<1> QED BY <1>1, <1>3 DEF IndInv, CounterInv, Accounting, WithinCapacity

LEMMA ReserveKeepsCounter ==
  ASSUME IndInv, NEW u \in Uploads, NEW n \in Chunks, ReserveChunk(u, n)
  PROVE  CounterInv' /\ currentUsage' \in Nat
<1>1. n \in Nat
  BY SpoolAssumption DEF SpoolAssumption
<1>2. u \in activeUploads
  BY DEF IndInv, OwnerInv, ReserveChunk, Goto, Tracked
<1>3. /\ Held \in [Uploads -> Nat]
      /\ Held'[u] = Held[u] + n
      /\ \A v \in activeUploads \ {u} : Held'[v] = Held[v]
  BY <1>1 DEF IndInv, TypeOK, OwnerInv, ReserveChunk, Goto, Held, Writing
<1>4. /\ IsFiniteSet(ChargedBytes')
      /\ Cardinality(ChargedBytes') = Cardinality(ChargedBytes) + n
  <2>1. IsFiniteSet(BytesOf(activeUploads, Held))
    BY DEF IndInv, CounterInv, ChargedBytes
  <2>2. /\ IsFiniteSet(BytesOf(activeUploads, Held'))
        /\ Cardinality(BytesOf(activeUploads, Held')) = Cardinality(BytesOf(activeUploads, Held)) + n
    <3> DEFINE h == Held
               g == Held'
    <3>1. h[u] \in Nat /\ g[u] = h[u] + n /\ \A v \in activeUploads \ {u} : g[v] = h[v]
      BY <1>3
    <3> HIDE DEF h, g
    <3>2. IsFiniteSet(BytesOf(activeUploads, h))
      BY <2>1 DEF h
    <3>3. /\ IsFiniteSet(BytesOf(activeUploads, g))
          /\ Cardinality(BytesOf(activeUploads, g)) = Cardinality(BytesOf(activeUploads, h)) + n
      BY <1>1, <1>2, <3>1, <3>2, Grow
    <3> QED BY <3>3 DEF h, g
  <2>3. activeUploads' = activeUploads
    BY DEF ReserveChunk
  <2> QED BY <2>2, <2>3 DEF ChargedBytes
<1> QED BY <1>1, <1>4 DEF IndInv, TypeOK, CounterInv, Accounting, WithinCapacity, ReserveChunk, FitsSpool

LEMMA RollbackKeepsCounter ==
  ASSUME IndInv, NEW u \in Uploads, RollbackChunk(u)
  PROVE  CounterInv' /\ currentUsage' \in Nat
<1> DEFINE n == chunk[u]
           h == Held
           g == Held'
<1>1. n \in Nat
  BY DEF IndInv, TypeOK
<1>2. u \in activeUploads
  BY DEF IndInv, OwnerInv, RollbackChunk, Goto, Tracked, Writing
<1>3. /\ g[u] \in Nat /\ h[u] = g[u] + n
      /\ \A v \in activeUploads \ {u} : g[v] = h[v]
  BY DEF IndInv, TypeOK, RollbackChunk, Goto, Held
<1>4. IsFiniteSet(BytesOf(activeUploads, h))
  BY DEF IndInv, CounterInv, ChargedBytes
<1>5. /\ IsFiniteSet(BytesOf(activeUploads, g))
      /\ Cardinality(BytesOf(activeUploads, g)) = Cardinality(BytesOf(activeUploads, h)) - n
      /\ n <= Cardinality(BytesOf(activeUploads, h))
  <2> HIDE DEF n, h, g
  <2> QED BY <1>1, <1>2, <1>3, <1>4, Shrink
<1>6. ChargedBytes' = BytesOf(activeUploads, g) /\ ChargedBytes = BytesOf(activeUploads, h)
  BY DEF ChargedBytes, RollbackChunk
<1>7. /\ currentUsage = Cardinality(ChargedBytes) /\ currentUsage \in Nat
      /\ currentUsage <= MaxTotalSize /\ currentUsage' = currentUsage - n
      /\ MaxTotalSize \in Nat
  BY SpoolAssumption DEF SpoolAssumption, IndInv, TypeOK, CounterInv, Accounting, WithinCapacity, RollbackChunk
<1> HIDE DEF n, h, g
<1> QED BY <1>1, <1>5, <1>6, <1>7 DEF CounterInv, Accounting, WithinCapacity

\* The counter holds at least the bytes of every active upload, so that the
\* release takes exactly those bytes out.
LEMMA ReleaseKeepsCounter ==
  ASSUME IndInv, NEW u \in Uploads, chunk[u] = 0,
         ReleaseUploadBytes(u), UNCHANGED <<bytesReceived, chunk>>
  PROVE  /\ CounterInv'
         /\ currentUsage' \in Nat
         /\ activeUploads' \subseteq activeUploads
         /\ \A v \in activeUploads \ activeUploads' :
               v = u /\ currentUsage' = currentUsage - bytesReceived[u]
<1>1. CASE u \notin activeUploads
  <2>1. UNCHANGED managerVars
    BY <1>1 DEF ReleaseUploadBytes
  <2>2. CounterInv'
    BY <2>1, QuietKeepsCounter DEF IndInv
  <2> QED BY <2>1, <2>2 DEF managerVars, IndInv, TypeOK
<1>2. CASE u \in activeUploads
  <2> DEFINE h == Held
  <2>1. h[u] = bytesReceived[u] /\ h[u] \in Nat /\ Held' = h
    BY DEF Held, IndInv, TypeOK
  <2>2. IsFiniteSet(BytesOf(activeUploads, h))
    BY DEF IndInv, CounterInv, ChargedBytes
  <2>3. /\ IsFiniteSet(BytesOf(activeUploads \ {u}, h))
        /\ Cardinality(BytesOf(activeUploads \ {u}, h)) = Cardinality(BytesOf(activeUploads, h)) - h[u]
        /\ h[u] <= Cardinality(BytesOf(activeUploads, h))
    <3> HIDE DEF h
    <3> QED BY <1>2, <2>1, <2>2, Drop
  <2>4. /\ currentUsage = Cardinality(BytesOf(activeUploads, h)) /\ currentUsage \in Nat
        /\ currentUsage <= MaxTotalSize /\ MaxTotalSize \in Nat
    BY SpoolAssumption DEF SpoolAssumption, IndInv, TypeOK, CounterInv, Accounting, WithinCapacity, ChargedBytes
  <2>5. activeUploads' = activeUploads \ {u} /\ currentUsage' = currentUsage - h[u]
    BY <1>2, <2>1, <2>3, <2>4 DEF ReleaseUploadBytes
  <2>6. ChargedBytes' = BytesOf(activeUploads \ {u}, h)
    BY <2>1, <2>5 DEF ChargedBytes
  <2> HIDE DEF h
  <2> QED BY <2>1, <2>3, <2>4, <2>5, <2>6 DEF CounterInv, Accounting, WithinCapacity
<1> QED BY <1>1, <1>2

\* The chunk in progress becomes received bytes: what is held is the same.
LEMMA AccountKeepsCounter ==
  ASSUME IndInv, NEW u \in Uploads, AccountChunk(u)
  PROVE  CounterInv'
<1>1. Held' = Held
  BY DEF IndInv, TypeOK, AccountChunk, Held
<1>2. ChargedBytes' = ChargedBytes /\ currentUsage' = currentUsage
  BY <1>1 DEF ChargedBytes, AccountChunk, managerVars
<1> QED BY <1>2 DEF IndInv, CounterInv, Accounting, WithinCapacity

LEMMA RestartResetsCounter ==
  ASSUME IndInv, Restart
  PROVE  CounterInv'
<1>1. ChargedBytes' = {}
  BY DEF Restart, ChargedBytes, BytesOf
<1>2. 0 <= MaxTotalSize
  BY SpoolAssumption DEF SpoolAssumption
<1> QED BY <1>1, <1>2, FS_EmptySet DEF Restart, CounterInv, Accounting, WithinCapacity

-----------------------------------------------------------------------------
(* Every action preserves the invariant *)

LEMMA StartUploadKeepsInv ==
  ASSUME IndInv, NEW u \in Uploads, NEW e \in Int, NEW b \in BOOLEAN, StartUpload(u, e, b)
  PROVE  IndInv'
<1>1. CounterInv'
  BY StartKeepsCounter
<1>2. TypeOK'
  BY <1>1, SpoolAssumption DEF IndInv, TypeOK, SpoolAssumption, OwnerInv, FileInv, Phases, Writing, FileSizes, NoFile, Known, Goto, managerVars, uploadVars, diskVars, StartUpload
<1>3. \A v \in Uploads : OwnerInv(v)' /\ FileInv(v)'
  BY <1>1 DEF IndInv, TypeOK, OwnerInv, FileInv, Writing, Tracked, Untracked, Finishable, Known, Goto, managerVars, uploadVars, diskVars, StartUpload
<1>4. CommittedIsComplete'
  BY <1>1 DEF IndInv, TypeOK, OwnerInv, FileInv, CommittedIsComplete, Finishable, Writing, Goto, managerVars, uploadVars, diskVars, StartUpload
<1> QED BY <1>1, <1>2, <1>3, <1>4 DEF IndInv

LEMMA StartRefusedKeepsInv ==
  ASSUME IndInv, NEW u \in Uploads, NEW e, StartRefused(u, e)
  PROVE  IndInv'
<1>1. CounterInv'
  BY QuietKeepsCounter DEF IndInv, StartRefused, ChmodFails, managerVars, uploadVars
<1>2. TypeOK'
  BY <1>1, SpoolAssumption DEF IndInv, TypeOK, SpoolAssumption, OwnerInv, FileInv, Phases, Writing, FileSizes, NoFile, Known, Goto, managerVars, uploadVars, diskVars, StartRefused, ChmodFails
<1>3. \A v \in Uploads : OwnerInv(v)' /\ FileInv(v)'
  BY <1>1 DEF IndInv, TypeOK, OwnerInv, FileInv, Writing, Tracked, Untracked, Finishable, Known, Goto, managerVars, uploadVars, diskVars, StartRefused, ChmodFails
<1>4. CommittedIsComplete'
  BY <1>1 DEF IndInv, TypeOK, OwnerInv, FileInv, CommittedIsComplete, Finishable, Writing, Goto, managerVars, uploadVars, diskVars, StartRefused, ChmodFails
<1> QED BY <1>1, <1>2, <1>3, <1>4 DEF IndInv

LEMMA RejectChunkKeepsInv ==
  ASSUME IndInv, NEW u \in Uploads, NEW n \in Chunks, RejectChunk(u, n)
  PROVE  IndInv'
<1>1. CounterInv'
  BY QuietKeepsCounter DEF IndInv, RejectChunk, managerVars, uploadVars
<1>2. TypeOK'
  BY <1>1, SpoolAssumption DEF IndInv, TypeOK, SpoolAssumption, OwnerInv, FileInv, Phases, Writing, FileSizes, NoFile, Known, Goto, managerVars, uploadVars, diskVars, RejectChunk
<1>3. \A v \in Uploads : OwnerInv(v)' /\ FileInv(v)'
  BY <1>1 DEF IndInv, TypeOK, OwnerInv, FileInv, Writing, Tracked, Untracked, Finishable, Known, Goto, managerVars, uploadVars, diskVars, RejectChunk
<1>4. CommittedIsComplete'
  BY <1>1 DEF IndInv, TypeOK, OwnerInv, FileInv, CommittedIsComplete, Finishable, Writing, Goto, managerVars, uploadVars, diskVars, RejectChunk
<1> QED BY <1>1, <1>2, <1>3, <1>4 DEF IndInv

LEMMA WriteDataKeepsInv ==
  ASSUME IndInv, NEW u \in Uploads, WriteData(u)
  PROVE  IndInv'
<1>1. CounterInv'
  BY QuietKeepsCounter DEF IndInv, WriteData, managerVars, uploadVars
<1>2. TypeOK'
  BY <1>1, SpoolAssumption DEF IndInv, TypeOK, SpoolAssumption, OwnerInv, FileInv, Phases, Writing, FileSizes, NoFile, Known, Goto, managerVars, uploadVars, diskVars, WriteData
<1>3. \A v \in Uploads : OwnerInv(v)' /\ FileInv(v)'
  BY <1>1 DEF IndInv, TypeOK, OwnerInv, FileInv, Writing, Tracked, Untracked, Finishable, Known, Goto, managerVars, uploadVars, diskVars, WriteData
<1>4. CommittedIsComplete'
  BY <1>1 DEF IndInv, TypeOK, OwnerInv, FileInv, CommittedIsComplete, Finishable, Writing, Goto, managerVars, uploadVars, diskVars, WriteData
<1> QED BY <1>1, <1>2, <1>3, <1>4 DEF IndInv

LEMMA WriteDataFailsKeepsInv ==
  ASSUME IndInv, NEW u \in Uploads, WriteDataFails(u)
  PROVE  IndInv'
<1>1. CounterInv'
  BY QuietKeepsCounter DEF IndInv, WriteDataFails, managerVars, uploadVars
<1>2. TypeOK'
  BY <1>1, SpoolAssumption DEF IndInv, TypeOK, SpoolAssumption, OwnerInv, FileInv, Phases, Writing, FileSizes, NoFile, Known, Goto, managerVars, uploadVars, diskVars, WriteDataFails
<1>3. \A v \in Uploads : OwnerInv(v)' /\ FileInv(v)'
  BY <1>1 DEF IndInv, TypeOK, OwnerInv, FileInv, Writing, Tracked, Untracked, Finishable, Known, Goto, managerVars, uploadVars, diskVars, WriteDataFails
<1>4. CommittedIsComplete'
  BY <1>1 DEF IndInv, TypeOK, OwnerInv, FileInv, CommittedIsComplete, Finishable, Writing, Goto, managerVars, uploadVars, diskVars, WriteDataFails
<1> QED BY <1>1, <1>2, <1>3, <1>4 DEF IndInv

LEMMA FinishBeginKeepsInv ==
  ASSUME IndInv, NEW u \in Uploads, FinishBegin(u)
  PROVE  IndInv'
<1>1. CounterInv'
  BY QuietKeepsCounter DEF IndInv, FinishBegin, managerVars, uploadVars
<1>2. TypeOK'
  BY <1>1, SpoolAssumption DEF IndInv, TypeOK, SpoolAssumption, OwnerInv, FileInv, Phases, Writing, FileSizes, NoFile, Known, Goto, managerVars, uploadVars, diskVars, FinishBegin
<1>3. \A v \in Uploads : OwnerInv(v)' /\ FileInv(v)'
  BY <1>1 DEF IndInv, TypeOK, OwnerInv, FileInv, Writing, Tracked, Untracked, Finishable, Known, Goto, managerVars, uploadVars, diskVars, FinishBegin
<1>4. CommittedIsComplete'
  BY <1>1 DEF IndInv, TypeOK, OwnerInv, FileInv, CommittedIsComplete, Finishable, Writing, Goto, managerVars, uploadVars, diskVars, FinishBegin
<1> QED BY <1>1, <1>2, <1>3, <1>4 DEF IndInv

LEMMA FinishRefusedKeepsInv ==
  ASSUME IndInv, NEW u \in Uploads, FinishRefused(u)
  PROVE  IndInv'
<1>1. CounterInv'
  BY QuietKeepsCounter DEF IndInv, FinishRefused, managerVars, uploadVars
<1>2. TypeOK'
  BY <1>1, SpoolAssumption DEF IndInv, TypeOK, SpoolAssumption, OwnerInv, FileInv, Phases, Writing, FileSizes, NoFile, Known, Goto, managerVars, uploadVars, diskVars, FinishRefused
<1>3. \A v \in Uploads : OwnerInv(v)' /\ FileInv(v)'
  BY <1>1 DEF IndInv, TypeOK, OwnerInv, FileInv, Writing, Tracked, Untracked, Finishable, Known, Goto, managerVars, uploadVars, diskVars, FinishRefused
<1>4. CommittedIsComplete'
  BY <1>1 DEF IndInv, TypeOK, OwnerInv, FileInv, CommittedIsComplete, Finishable, Writing, Goto, managerVars, uploadVars, diskVars, FinishRefused
<1> QED BY <1>1, <1>2, <1>3, <1>4 DEF IndInv

LEMMA MoveToFinalKeepsInv ==
  ASSUME IndInv, NEW u \in Uploads, MoveToFinal(u)
  PROVE  IndInv'
<1>1. CounterInv'
  BY QuietKeepsCounter DEF IndInv, MoveToFinal, managerVars, uploadVars
<1>2. TypeOK'
  BY <1>1, SpoolAssumption DEF IndInv, TypeOK, SpoolAssumption, OwnerInv, FileInv, Phases, Writing, FileSizes, NoFile, Known, Goto, managerVars, uploadVars, diskVars, MoveToFinal
<1>3. \A v \in Uploads : OwnerInv(v)' /\ FileInv(v)'
  BY <1>1 DEF IndInv, TypeOK, OwnerInv, FileInv, Writing, Tracked, Untracked, Finishable, Known, Goto, managerVars, uploadVars, diskVars, MoveToFinal
<1>4. CommittedIsComplete'
  BY <1>1 DEF IndInv, TypeOK, OwnerInv, FileInv, CommittedIsComplete, Finishable, Writing, Goto, managerVars, uploadVars, diskVars, MoveToFinal
<1> QED BY <1>1, <1>2, <1>3, <1>4 DEF IndInv

LEMMA MoveFailsKeepsInv ==
  ASSUME IndInv, NEW u \in Uploads, MoveFails(u)
  PROVE  IndInv'
<1>1. CounterInv'
  BY QuietKeepsCounter DEF IndInv, MoveFails, managerVars, uploadVars
<1>2. TypeOK'
  BY <1>1, SpoolAssumption DEF IndInv, TypeOK, SpoolAssumption, OwnerInv, FileInv, Phases, Writing, FileSizes, NoFile, Known, Goto, managerVars, uploadVars, diskVars, MoveFails
<1>3. \A v \in Uploads : OwnerInv(v)' /\ FileInv(v)'
  BY <1>1 DEF IndInv, TypeOK, OwnerInv, FileInv, Writing, Tracked, Untracked, Finishable, Known, Goto, managerVars, uploadVars, diskVars, MoveFails
<1>4. CommittedIsComplete'
  BY <1>1 DEF IndInv, TypeOK, OwnerInv, FileInv, CommittedIsComplete, Finishable, Writing, Goto, managerVars, uploadVars, diskVars, MoveFails
<1> QED BY <1>1, <1>2, <1>3, <1>4 DEF IndInv

LEMMA AbortBeginKeepsInv ==
  ASSUME IndInv, NEW u \in Uploads, AbortBegin(u)
  PROVE  IndInv'
<1>1. CounterInv'
  BY QuietKeepsCounter DEF IndInv, AbortBegin, managerVars, uploadVars
<1>2. TypeOK'
  BY <1>1, SpoolAssumption DEF IndInv, TypeOK, SpoolAssumption, OwnerInv, FileInv, Phases, Writing, FileSizes, NoFile, Known, Goto, managerVars, uploadVars, diskVars, AbortBegin
<1>3. \A v \in Uploads : OwnerInv(v)' /\ FileInv(v)'
  BY <1>1 DEF IndInv, TypeOK, OwnerInv, FileInv, Writing, Tracked, Untracked, Finishable, Known, Goto, managerVars, uploadVars, diskVars, AbortBegin
<1>4. CommittedIsComplete'
  BY <1>1 DEF IndInv, TypeOK, OwnerInv, FileInv, CommittedIsComplete, Finishable, Writing, Goto, managerVars, uploadVars, diskVars, AbortBegin
<1> QED BY <1>1, <1>2, <1>3, <1>4 DEF IndInv

LEMMA ReserveChunkKeepsInv ==
  ASSUME IndInv, NEW u \in Uploads, NEW n \in Chunks, ReserveChunk(u, n)
  PROVE  IndInv'
<1>1. CounterInv' /\ currentUsage' \in Nat
  BY ReserveKeepsCounter
<1>2. TypeOK'
  BY <1>1, SpoolAssumption DEF IndInv, TypeOK, SpoolAssumption, OwnerInv, FileInv, Phases, Writing, FileSizes, NoFile, Known, Goto, managerVars, uploadVars, diskVars, ReserveChunk
<1>3. \A v \in Uploads : OwnerInv(v)' /\ FileInv(v)'
  BY <1>1 DEF IndInv, TypeOK, OwnerInv, FileInv, Writing, Tracked, Untracked, Finishable, Known, Goto, managerVars, uploadVars, diskVars, ReserveChunk
<1>4. CommittedIsComplete'
  BY <1>1 DEF IndInv, TypeOK, OwnerInv, FileInv, CommittedIsComplete, Finishable, Writing, Goto, managerVars, uploadVars, diskVars, ReserveChunk
<1> QED BY <1>1, <1>2, <1>3, <1>4 DEF IndInv

LEMMA AccountChunkKeepsInv ==
  ASSUME IndInv, NEW u \in Uploads, AccountChunk(u)
  PROVE  IndInv'
<1>1. CounterInv'
  BY AccountKeepsCounter
<1>2. TypeOK'
  BY <1>1, SpoolAssumption DEF IndInv, TypeOK, SpoolAssumption, OwnerInv, FileInv, Phases, Writing, FileSizes, NoFile, Known, Goto, managerVars, uploadVars, diskVars, AccountChunk
<1>3. \A v \in Uploads : OwnerInv(v)' /\ FileInv(v)'
  BY <1>1 DEF IndInv, TypeOK, OwnerInv, FileInv, Writing, Tracked, Untracked, Finishable, Known, Goto, managerVars, uploadVars, diskVars, AccountChunk
<1>4. CommittedIsComplete'
  BY <1>1 DEF IndInv, TypeOK, OwnerInv, FileInv, CommittedIsComplete, Finishable, Writing, Goto, managerVars, uploadVars, diskVars, AccountChunk
<1> QED BY <1>1, <1>2, <1>3, <1>4 DEF IndInv

LEMMA RollbackChunkKeepsInv ==
  ASSUME IndInv, NEW u \in Uploads, RollbackChunk(u)
  PROVE  IndInv'
<1>1. CounterInv' /\ currentUsage' \in Nat
  BY RollbackKeepsCounter
<1>2. TypeOK'
  BY <1>1, SpoolAssumption DEF IndInv, TypeOK, SpoolAssumption, OwnerInv, FileInv, Phases, Writing, FileSizes, NoFile, Known, Goto, managerVars, uploadVars, diskVars, RollbackChunk
<1>3. \A v \in Uploads : OwnerInv(v)' /\ FileInv(v)'
  BY <1>1 DEF IndInv, TypeOK, OwnerInv, FileInv, Writing, Tracked, Untracked, Finishable, Known, Goto, managerVars, uploadVars, diskVars, RollbackChunk
<1>4. CommittedIsComplete'
  BY <1>1 DEF IndInv, TypeOK, OwnerInv, FileInv, CommittedIsComplete, Finishable, Writing, Goto, managerVars, uploadVars, diskVars, RollbackChunk
<1> QED BY <1>1, <1>2, <1>3, <1>4 DEF IndInv

LEMMA FinishReleaseKeepsInv ==
  ASSUME IndInv, NEW u \in Uploads, FinishRelease(u)
  PROVE  IndInv'
<1>1. /\ CounterInv' /\ currentUsage' \in Nat /\ activeUploads' \subseteq activeUploads
      /\ activeUploads \ activeUploads' \subseteq {u} /\ u \notin activeUploads'
  <2>1. chunk[u] = 0 /\ ReleaseUploadBytes(u) /\ UNCHANGED <<bytesReceived, chunk>>
    BY DEF IndInv, TypeOK, OwnerInv, Writing, Goto, uploadVars, FinishRelease
  <2>2. u \notin activeUploads'
    BY <2>1 DEF ReleaseUploadBytes, managerVars
  <2> QED BY <2>1, <2>2, ReleaseKeepsCounter
<1>2. TypeOK'
  BY <1>1, SpoolAssumption DEF IndInv, TypeOK, SpoolAssumption, OwnerInv, FileInv, Phases, Writing, FileSizes, NoFile, Known, Goto, managerVars, uploadVars, diskVars, FinishRelease
<1>3. \A v \in Uploads : OwnerInv(v)' /\ FileInv(v)'
  BY <1>1 DEF IndInv, TypeOK, OwnerInv, FileInv, Writing, Tracked, Untracked, Finishable, Known, Goto, managerVars, uploadVars, diskVars, FinishRelease
<1>4. CommittedIsComplete'
  BY <1>1 DEF IndInv, TypeOK, OwnerInv, FileInv, CommittedIsComplete, Finishable, Writing, Goto, managerVars, uploadVars, diskVars, FinishRelease
<1> QED BY <1>1, <1>2, <1>3, <1>4 DEF IndInv

LEMMA AbortReleaseKeepsInv ==
  ASSUME IndInv, NEW u \in Uploads, AbortRelease(u)
  PROVE  IndInv'
<1>1. /\ CounterInv' /\ currentUsage' \in Nat /\ activeUploads' \subseteq activeUploads
      /\ activeUploads \ activeUploads' \subseteq {u} /\ u \notin activeUploads'
  <2>1. chunk[u] = 0 /\ ReleaseUploadBytes(u) /\ UNCHANGED <<bytesReceived, chunk>>
    BY DEF IndInv, TypeOK, OwnerInv, Writing, Goto, uploadVars, AbortRelease
  <2>2. u \notin activeUploads'
    BY <2>1 DEF ReleaseUploadBytes, managerVars
  <2> QED BY <2>1, <2>2, ReleaseKeepsCounter
<1>2. TypeOK'
  BY <1>1, SpoolAssumption DEF IndInv, TypeOK, SpoolAssumption, OwnerInv, FileInv, Phases, Writing, FileSizes, NoFile, Known, Goto, managerVars, uploadVars, diskVars, AbortRelease
<1>3. \A v \in Uploads : OwnerInv(v)' /\ FileInv(v)'
  BY <1>1 DEF IndInv, TypeOK, OwnerInv, FileInv, Writing, Tracked, Untracked, Finishable, Known, Goto, managerVars, uploadVars, diskVars, AbortRelease
<1>4. CommittedIsComplete'
  BY <1>1 DEF IndInv, TypeOK, OwnerInv, FileInv, CommittedIsComplete, Finishable, Writing, Goto, managerVars, uploadVars, diskVars, AbortRelease
<1> QED BY <1>1, <1>2, <1>3, <1>4 DEF IndInv

LEMMA RemoveUploadKeepsInv ==
  ASSUME IndInv, NEW u \in Uploads, RemoveUpload(u)
  PROVE  IndInv'
<1>1. /\ CounterInv' /\ currentUsage' \in Nat /\ activeUploads' \subseteq activeUploads
      /\ activeUploads \ activeUploads' \subseteq {u} /\ u \notin activeUploads'
  <2>1. chunk[u] = 0 /\ ReleaseUploadBytes(u) /\ UNCHANGED <<bytesReceived, chunk>>
    BY DEF IndInv, TypeOK, OwnerInv, Writing, Goto, uploadVars, RemoveUpload
  <2>2. u \notin activeUploads'
    BY <2>1 DEF ReleaseUploadBytes, managerVars
  <2> QED BY <2>1, <2>2, ReleaseKeepsCounter
<1>2. TypeOK'
  BY <1>1, SpoolAssumption DEF IndInv, TypeOK, SpoolAssumption, OwnerInv, FileInv, Phases, Writing, FileSizes, NoFile, Known, Goto, managerVars, uploadVars, diskVars, RemoveUpload
<1>3. \A v \in Uploads : OwnerInv(v)' /\ FileInv(v)'
  BY <1>1 DEF IndInv, TypeOK, OwnerInv, FileInv, Writing, Tracked, Untracked, Finishable, Known, Goto, managerVars, uploadVars, diskVars, RemoveUpload
<1>4. CommittedIsComplete'
  BY <1>1 DEF IndInv, TypeOK, OwnerInv, FileInv, CommittedIsComplete, Finishable, Writing, Goto, managerVars, uploadVars, diskVars, RemoveUpload
<1> QED BY <1>1, <1>2, <1>3, <1>4 DEF IndInv

LEMMA StoreKeepsInv ==
  ASSUME IndInv, NEW u \in Uploads, NEW n \in Chunks, Store(u, n)
  PROVE  IndInv'
<1>1. CounterInv'
  <2>1. \A v \in activeUploads : Held'[v] = Held[v]
    BY DEF IndInv, TypeOK, OwnerInv, Untracked, Goto, Held, Store
  <2>2. BytesOf(activeUploads, Held') = BytesOf(activeUploads, Held)
    BY <2>1 DEF BytesOf
  <2>3. ChargedBytes' = ChargedBytes /\ currentUsage' = currentUsage
    BY <2>2 DEF ChargedBytes, Store, managerVars
  <2> QED BY <2>3 DEF IndInv, CounterInv, Accounting, WithinCapacity
<1>2. TypeOK'
  BY <1>1, SpoolAssumption DEF IndInv, TypeOK, SpoolAssumption, OwnerInv, FileInv, Phases, Writing, FileSizes, NoFile, Known, Goto, managerVars, uploadVars, diskVars, Store
<1>3. \A v \in Uploads : OwnerInv(v)' /\ FileInv(v)'
  BY <1>1 DEF IndInv, TypeOK, OwnerInv, FileInv, Writing, Tracked, Untracked, Finishable, Known, Goto, managerVars, uploadVars, diskVars, Store
<1>4. CommittedIsComplete'
  BY <1>1 DEF IndInv, TypeOK, OwnerInv, FileInv, CommittedIsComplete, Finishable, Writing, Goto, managerVars, uploadVars, diskVars, Store
<1> QED BY <1>1, <1>2, <1>3, <1>4 DEF IndInv

LEMMA DeleteByPathKeepsInv ==
  ASSUME IndInv, NEW u \in Uploads, DeleteByPath(u)
  PROVE  IndInv'
<1>1. CounterInv'
  BY QuietKeepsCounter DEF IndInv, DeleteByPath
<1>2. TypeOK'
  BY <1>1, SpoolAssumption DEF IndInv, TypeOK, SpoolAssumption, OwnerInv, FileInv, Phases, Writing, FileSizes, NoFile, Known, Goto, managerVars, uploadVars, diskVars, DeleteByPath
<1>3. \A v \in Uploads : OwnerInv(v)' /\ FileInv(v)'
  BY <1>1 DEF IndInv, TypeOK, OwnerInv, FileInv, Writing, Tracked, Untracked, Finishable, Known, Goto, managerVars, uploadVars, diskVars, DeleteByPath
<1>4. CommittedIsComplete'
  BY <1>1 DEF IndInv, TypeOK, OwnerInv, FileInv, CommittedIsComplete, Finishable, Writing, Goto, managerVars, uploadVars, diskVars, DeleteByPath
<1> QED BY <1>1, <1>2, <1>3, <1>4 DEF IndInv

LEMMA CancelContextKeepsInv ==
  ASSUME IndInv, NEW us \in SUBSET Uploads, CancelContext(us)
  PROVE  IndInv'
<1>1. CounterInv'
  BY QuietKeepsCounter DEF IndInv, CancelContext
<1>2. TypeOK'
  BY <1>1, SpoolAssumption DEF IndInv, TypeOK, SpoolAssumption, OwnerInv, FileInv, Phases, Writing, FileSizes, NoFile, Known, Goto, managerVars, uploadVars, diskVars, CancelContext
<1>3. \A v \in Uploads : OwnerInv(v)' /\ FileInv(v)'
  BY <1>1 DEF IndInv, TypeOK, OwnerInv, FileInv, Writing, Tracked, Untracked, Finishable, Known, Goto, managerVars, uploadVars, diskVars, CancelContext
<1>4. CommittedIsComplete'
  BY <1>1 DEF IndInv, TypeOK, OwnerInv, FileInv, CommittedIsComplete, Finishable, Writing, Goto, managerVars, uploadVars, diskVars, CancelContext
<1> QED BY <1>1, <1>2, <1>3, <1>4 DEF IndInv

LEMMA RestartKeepsInv ==
  ASSUME IndInv, Restart
  PROVE  IndInv'
<1>1. CounterInv'
  BY RestartResetsCounter
<1>2. TypeOK'
  BY <1>1, SpoolAssumption DEF IndInv, TypeOK, SpoolAssumption, OwnerInv, FileInv, Phases, Writing, FileSizes, NoFile, Known, Goto, managerVars, uploadVars, diskVars, Cleanup, Restart
<1>3. \A v \in Uploads : OwnerInv(v)' /\ FileInv(v)'
  BY <1>1 DEF IndInv, TypeOK, OwnerInv, FileInv, Writing, Tracked, Untracked, Finishable, Known, Goto, managerVars, uploadVars, diskVars, Cleanup, Restart
<1>4. CommittedIsComplete'
  BY <1>1 DEF IndInv, TypeOK, OwnerInv, FileInv, CommittedIsComplete, Finishable, Writing, Goto, managerVars, uploadVars, diskVars, Cleanup, Restart
<1> QED BY <1>1, <1>2, <1>3, <1>4 DEF IndInv

-----------------------------------------------------------------------------
(* The theorems *)

\* The initial state satisfies the inductive invariant.
THEOREM InitIndInv == Init => IndInv
<1>1. Init => CounterInv
  BY InitCounter
<1> QED BY <1>1, SpoolAssumption DEF Init, IndInv, TypeOK, OwnerInv, FileInv, CommittedIsComplete,
          SpoolAssumption, Phases, Writing, Tracked, Untracked, FileSizes, NoFile

\* Every step of the spool preserves the inductive invariant.
THEOREM NextIndInv == IndInv /\ [Next]_spoolVars => IndInv'
<1> SUFFICES ASSUME IndInv, [Next]_spoolVars PROVE IndInv'
  OBVIOUS
<1>1. ASSUME NEW u \in Uploads, NEW e \in ExpectedSizes, NEW b \in BOOLEAN, StartUpload(u, e, b) PROVE IndInv'
  BY <1>1, StartUploadKeepsInv, SpoolAssumption DEF SpoolAssumption
<1>2. ASSUME NEW u \in Uploads, NEW e \in ExpectedSizes, StartRefused(u, e) PROVE IndInv'
  BY <1>2, StartRefusedKeepsInv
<1>3. ASSUME NEW u \in Uploads, NEW n \in Chunks, ReserveChunk(u, n) PROVE IndInv'
  BY <1>3, ReserveChunkKeepsInv
<1>4. ASSUME NEW u \in Uploads, NEW n \in Chunks, RejectChunk(u, n) PROVE IndInv'
  BY <1>4, RejectChunkKeepsInv
<1>5. ASSUME NEW u \in Uploads, WriteData(u) PROVE IndInv'
  BY <1>5, WriteDataKeepsInv
<1>6. ASSUME NEW u \in Uploads, WriteDataFails(u) PROVE IndInv'
  BY <1>6, WriteDataFailsKeepsInv
<1>7. ASSUME NEW u \in Uploads, AccountChunk(u) PROVE IndInv'
  BY <1>7, AccountChunkKeepsInv
<1>8. ASSUME NEW u \in Uploads, RollbackChunk(u) PROVE IndInv'
  BY <1>8, RollbackChunkKeepsInv
<1>9. ASSUME NEW u \in Uploads, FinishBegin(u) PROVE IndInv'
  BY <1>9, FinishBeginKeepsInv
<1>10. ASSUME NEW u \in Uploads, FinishRefused(u) PROVE IndInv'
  BY <1>10, FinishRefusedKeepsInv
<1>11. ASSUME NEW u \in Uploads, MoveToFinal(u) PROVE IndInv'
  BY <1>11, MoveToFinalKeepsInv
<1>12. ASSUME NEW u \in Uploads, MoveFails(u) PROVE IndInv'
  BY <1>12, MoveFailsKeepsInv
<1>13. ASSUME NEW u \in Uploads, FinishRelease(u) PROVE IndInv'
  BY <1>13, FinishReleaseKeepsInv
<1>14. ASSUME NEW u \in Uploads, AbortBegin(u) PROVE IndInv'
  BY <1>14, AbortBeginKeepsInv
<1>15. ASSUME NEW u \in Uploads, AbortRelease(u) PROVE IndInv'
  BY <1>15, AbortReleaseKeepsInv
<1>16. ASSUME NEW u \in Uploads, RemoveUpload(u) PROVE IndInv'
  BY <1>16, RemoveUploadKeepsInv
<1>17. ASSUME NEW u \in Uploads, NEW n \in Chunks, Store(u, n) PROVE IndInv'
  BY <1>17, StoreKeepsInv
<1>18. ASSUME NEW u \in Uploads, DeleteByPath(u) PROVE IndInv'
  BY <1>18, DeleteByPathKeepsInv
<1>19. ASSUME NEW us \in SUBSET Uploads, CancelContext(us) PROVE IndInv'
  BY <1>19, CancelContextKeepsInv
<1>20. CASE Restart
  BY <1>20, RestartKeepsInv
<1>21. CASE UNCHANGED spoolVars
  BY <1>21, QuietKeepsCounter DEF IndInv, TypeOK, OwnerInv, FileInv, CommittedIsComplete,
     spoolVars, managerVars, uploadVars, diskVars
<1> QED BY <1>1, <1>2, <1>3, <1>4, <1>5, <1>6, <1>7, <1>8, <1>9, <1>10, <1>11, <1>12, <1>13, <1>14, <1>15, <1>16, <1>17, <1>18, <1>19, <1>20, <1>21 DEF Next, Owner, OtherCalls

\* The inductive invariant holds in every reachable state.
THEOREM SpoolInvariant == Spec => []IndInv
<1>1. Init => IndInv
  BY InitIndInv
<1>2. IndInv /\ [Next]_spoolVars => IndInv'
  BY NextIndInv
<1> QED BY <1>1, <1>2, PTL DEF Spec

\* The state keeps its type; in particular the unsigned counter of the
\* upload manager never goes below zero.
THEOREM TypeCorrect == Spec => []TypeOK
<1>1. IndInv => TypeOK
  BY DEF IndInv
<1> QED BY <1>1, SpoolInvariant, PTL

\* currentUsage is exactly what the active uploads hold, whatever WriteChunk,
\* FinishUpload, AbortUpload and RemoveUpload of the others do.
THEOREM AccountingHolds == Spec => []Accounting
<1>1. IndInv => Accounting
  BY DEF IndInv, CounterInv
<1> QED BY <1>1, SpoolInvariant, PTL

\* Concurrent WriteChunk calls never overshoot max_total_size.
THEOREM CapacityHolds == Spec => []WithinCapacity
<1>1. IndInv => WithinCapacity
  BY DEF IndInv, CounterInv
<1> QED BY <1>1, SpoolInvariant, PTL

\* A file that FinishUpload hands out holds the bytes FileRef.Size says.
THEOREM CommittedFilesComplete == Spec => []CommittedIsComplete
<1>1. IndInv => CommittedIsComplete
  BY DEF IndInv
<1> QED BY <1>1, SpoolInvariant, PTL

\* The temporary files of the uploads that receive data fit in the spool.
THEOREM ReceivedDataFits == Spec => []ReceivedFits
<1>1. IndInv => ReceivedFits
  <2> SUFFICES ASSUME IndInv PROVE ReceivedFits
    OBVIOUS
  <2>1. Receiving \subseteq activeUploads
    BY DEF IndInv, OwnerInv, Receiving, Tracked
  <2>2. ASSUME NEW u \in Receiving PROVE temp[u] \in Int /\ Held[u] \in Nat /\ temp[u] <= Held[u]
    BY DEF IndInv, TypeOK, FileInv, OwnerInv, Receiving, Held, Writing, FileSizes, NoFile
  <2>3. BytesOf(Receiving, temp) \subseteq ChargedBytes
    <3> SUFFICES ASSUME NEW x \in BytesOf(Receiving, temp) PROVE x \in BytesOf(activeUploads, Held)
      BY DEF ChargedBytes
    <3>1. PICK u \in Receiving : \E i \in 1 .. temp[u] : x = <<u, i>>
      BY InBytes
    <3>2. PICK i \in 1 .. temp[u] : x = <<u, i>>
      BY <3>1
    <3>3. i \in 1 .. Held[u]
      BY <2>2
    <3> QED BY <2>1, <3>2, <3>3, InBytes
  <2>4. /\ IsFiniteSet(ChargedBytes)
        /\ currentUsage = Cardinality(ChargedBytes)
        /\ currentUsage <= MaxTotalSize
    BY DEF IndInv, CounterInv, Accounting, WithinCapacity
  <2>5. /\ IsFiniteSet(BytesOf(Receiving, temp))
        /\ Cardinality(BytesOf(Receiving, temp)) <= Cardinality(ChargedBytes)
    BY <2>3, <2>4, FS_Subset
  <2>6. Cardinality(BytesOf(Receiving, temp)) \in Nat /\ Cardinality(ChargedBytes) \in Nat
    BY <2>4, <2>5, FS_CardinalityType
  <2> QED BY <2>4, <2>5, <2>6, SpoolAssumption DEF ReceivedFits, SpoolAssumption
<1> QED BY <1>1, SpoolInvariant, PTL

\* Only an error of FinishUpload leaves capacity behind, and only that and a
\* StartUpload that could not set the file's permissions leave a file open.
THEOREM LeakFreeButForErrors == Spec => []LeakOnlyOnError
<1>1. IndInv => LeakOnlyOnError
  BY DEF IndInv, OwnerInv, LeakOnlyOnError, Returned, Untracked, Writing
<1> QED BY <1>1, SpoolInvariant, PTL

\* Leaving the active set takes exactly the upload's bytes out of the
\* counter: releaseUploadBytes never has to saturate at zero.
THEOREM ReleaseIsExact == Spec => ReleaseExact
<1> DEFINE Exact == \A u \in activeUploads \ activeUploads' :
                     restarts' = restarts => currentUsage' = currentUsage - bytesReceived[u]
<1>1. IndInv /\ [Next]_spoolVars => [Exact]_spoolVars
  <2> SUFFICES ASSUME IndInv, Next PROVE Exact
    BY DEF Exact
  <2>1. ASSUME NEW u \in Uploads, FinishRelease(u) \/ AbortRelease(u) \/ RemoveUpload(u)
        PROVE  Exact
    <3>1. chunk[u] = 0 /\ ReleaseUploadBytes(u) /\ UNCHANGED <<bytesReceived, chunk>>
      BY <2>1 DEF IndInv, TypeOK, OwnerInv, Writing, Goto, uploadVars, FinishRelease, AbortRelease, RemoveUpload
    <3>2. \A v \in activeUploads \ activeUploads' :
            v = u /\ currentUsage' = currentUsage - bytesReceived[u]
      BY <3>1, ReleaseKeepsCounter
    <3> QED BY <3>2
  <2>2. CASE Restart
    BY <2>2 DEF Restart, IndInv, TypeOK
  <2>3. CASE activeUploads \subseteq activeUploads'
    BY <2>3
  <2>4. \/ \E u \in Uploads : FinishRelease(u) \/ AbortRelease(u) \/ RemoveUpload(u)
        \/ Restart
        \/ activeUploads \subseteq activeUploads'
    BY DEF Next, Owner, OtherCalls, managerVars, uploadVars, diskVars, StartUpload, StartRefused, ChmodFails, CancelContext,
       ReserveChunk, RejectChunk, WriteData, WriteDataFails, AccountChunk, RollbackChunk, FinishBegin,
       FinishRefused, MoveToFinal, MoveFails, AbortBegin, Store, DeleteByPath
  <2> QED BY <2>1, <2>2, <2>3, <2>4
<1>2. Spec => [][Exact]_spoolVars
  BY <1>1, SpoolInvariant, PTL DEF Spec
<1> QED BY <1>2 DEF ReleaseExact
=============================================================================
