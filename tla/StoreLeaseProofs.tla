-------------------------- MODULE StoreLeaseProofs --------------------------
(***************************************************************************)
(* Store implements LeaseSpec: the proof of LeaseRefinement.               *)
(*                                                                         *)
(* The lease counts and the marks for deferred deletion are not part of    *)
(* LeaseSpec, which speaks of the readers themselves; LeaseBacked is what  *)
(* connects them (LeasesAreReaders). The budget enters where a package is  *)
(* put in place: its size is at most MaxBytes because every file is on the *)
(* account and the account is within the budget (BInv).                    *)
(***************************************************************************)
EXTENDS StoreBudgetProofs

USE DEF files, control, vars

\* The refinement mapping.
Result == [d \in Dirs |-> size[d]["result"]]
Reader == [r \in Readers |-> IF handle[r].stage = "open" THEN handle[r].dir ELSE NoDir]

\* The readers of d.
ReadersOf(d) == {r \in Readers : Reader[r] = d}

\* A directory without leases has no reader, and the holder of its only lease
\* is its only reader.
LEMMA LeasesAreReaders ==
    ASSUME SInv, NEW d \in Dirs
    PROVE  /\ leases[d] = 0 => ReadersOf(d) = {}
           /\ \A r \in ReadersOf(d) : leases[d] = 1 => ReadersOf(d) = {r}
<1>1. ReadersOf(d) = Open(d)
  BY StoreAssumption DEF ReadersOf, Reader, Open
<1>2. leases[d] = Cardinality(Open(d))
  BY DEF SInv, LeaseBacked, Open
<1>3. IsFiniteSet(Open(d))
  BY OpenFinite
<1>4. leases[d] = 0 => Open(d) = {}
  BY <1>2, <1>3, FS_EmptySet
<1>5. leases[d] = 1 => \E x : Open(d) = {x}
  BY <1>2, <1>3, FS_Singleton
<1> QED
  BY <1>1, <1>4, <1>5

\* A step that leaves the directories, the tasks, the packages and the open
\* handles alone is a stuttering step of LeaseSpec.
Still == UNCHANGED <<dirs, known, Result, Reader>>

\* What the actions of LeaseSpec mean under the mapping.
LEMMA Mapped ==
    /\ Still => UNCHANGED Leases!vars
    /\ \A d \in Dirs :
         dirs[d] = "new" /\ dirs' = [dirs EXCEPT ![d] = "live"] /\ known' = known \cup {d}
           /\ UNCHANGED <<Result, Reader>> => Leases!Next
    /\ \A d \in Dirs :
         d \in known /\ known' = known \ {d} /\ UNCHANGED <<dirs, Result, Reader>> => Leases!Next
    /\ \A d \in Dirs :
         dirs[d] = "live" /\ ReadersOf(d) = {} /\ Result[d] = NoFile
           /\ dirs' = [dirs EXCEPT ![d] = "gone"] /\ known' = known \ {d}
           /\ UNCHANGED <<Result, Reader>> => Leases!Next
    /\ \A d \in Dirs : \A c \in (0..MaxBytes) \cup {NoFile} :
         dirs[d] = "live" /\ ReadersOf(d) = {} /\ (c # NoFile => d \in known)
           /\ Result' = [Result EXCEPT ![d] = c]
           /\ UNCHANGED <<dirs, known, Reader>> => Leases!Next
    /\ \A d \in Dirs : \A r \in Readers :
         Reader[r] = NoDir /\ Result[d] # NoFile /\ Reader' = [Reader EXCEPT ![r] = d]
           /\ UNCHANGED <<dirs, known, Result>> => Leases!Next
    /\ \A r \in Readers :
         Reader[r] # NoDir /\ Reader' = [Reader EXCEPT ![r] = NoDir]
           /\ \/ UNCHANGED Result
              \/ ReadersOf(Reader[r]) = {r} /\ Result' = [Result EXCEPT ![Reader[r]] = NoFile]
           /\ UNCHANGED <<dirs, known>> => Leases!Next
BY DEF Leases!Next, Leases!Make, Leases!Drop, Leases!Vanish, Leases!Put, Leases!Open,
       Leases!Close, Leases!Held, Leases!vars, Still, Result, Reader, ReadersOf

\* An edit of a file other than the package leaves the packages alone, and an
\* edit of a package is one.
LEMMA ResultEdits ==
    ASSUME TypeOK, NEW d \in Dirs
    PROVE  /\ size' = size => Result' = Result
           /\ \A k \in Kinds \ {"result"} : \A n :
                size' = [size EXCEPT ![d][k] = n] => Result' = Result
           /\ \A n : size' = [size EXCEPT ![d]["result"] = n] =>
                Result' = [Result EXCEPT ![d] = n]
           /\ \A n, m : size' = [size EXCEPT ![d] = [@ EXCEPT !["result"] = n, !["part"] = m]] =>
                Result' = [Result EXCEPT ![d] = n]
<1>1. size \in [Dirs -> [Kinds -> Nat \cup {NoFile}]]
  BY DEF TypeOK, Sizes
<1>2. "result" \in Kinds /\ "part" \in Kinds
  BY DEF Kinds
<1>3. Result' = [e \in Dirs |-> size'[e]["result"]]
  BY DEF Result
<1>4. size' = size => Result' = Result
  BY DEF Result
<1>5. ASSUME NEW k \in Kinds \ {"result"}, NEW n, size' = [size EXCEPT ![d][k] = n]
      PROVE  Result' = Result
  <2>1. \A e \in Dirs : size'[e]["result"] = size[e]["result"]
    BY <1>1, <1>2, <1>5
  <2> QED
    BY <1>3, <2>1 DEF Result
<1>6. ASSUME NEW n, size' = [size EXCEPT ![d]["result"] = n]
      PROVE  Result' = [Result EXCEPT ![d] = n]
  <2>1. \A e \in Dirs : size'[e]["result"] = IF e = d THEN n ELSE size[e]["result"]
    BY <1>1, <1>2, <1>6
  <2> QED
    BY <1>3, <2>1 DEF Result
<1>7. ASSUME NEW n, NEW m,
             size' = [size EXCEPT ![d] = [@ EXCEPT !["result"] = n, !["part"] = m]]
      PROVE  Result' = [Result EXCEPT ![d] = n]
  <2>1. \A e \in Dirs : size'[e]["result"] = IF e = d THEN n ELSE size[e]["result"]
    BY <1>1, <1>2, <1>7
  <2> QED
    BY <1>3, <2>1 DEF Result
<1> QED
  BY <1>4, <1>5, <1>6, <1>7

\* Only handles matter for who reads.
LEMMA ReaderSame == handle' = handle => Reader' = Reader
BY DEF Reader

\* Every step of the store is a step of LeaseSpec, or leaves its variables
\* alone.
LEMMA StepMaps ==
    ASSUME BInv, [Next]_vars
    PROVE  [Leases!Next]_(Leases!vars)
<1> USE StoreAssumption
<1>inv. SInv /\ TypeOK /\ LeaseBacked /\ PendingHeld /\ KnownIsLive /\ Owned
  BY DEF BInv, SInv
<1>kinds. /\ "meta" \in Kinds \ {"result"} /\ "stray" \in Kinds \ {"result"}
          /\ "data" \in Kinds \ {"result"} /\ "part" \in Kinds \ {"result"}
          /\ "part" \in Kinds /\ "result" \in Kinds
  BY DEF Kinds
<1>still. Still => [Leases!Next]_(Leases!vars)
  BY Mapped
<1>1. ASSUME \/ BeginCapture \/ EndCapture \/ TrimEnd \/ UNCHANGED vars
             \/ \E d \in Dirs : SweepTask(d) \/ SweepResult(d)
             \/ \E t \in Threads : RmList(t)
      PROVE  Still
  <2>1. UNCHANGED <<dirs, known, size, handle>>
    BY <1>1 DEF BeginCapture, EndCapture, TrimEnd, SweepTask, SweepResult, RmList
  <2> QED
    BY <2>1 DEF Still, Result, Reader
<1>2. ASSUME NEW d \in Dirs, NEW n \in 1..MaxLen, Create(d, n) PROVE Leases!Next
  <2>1. Result' = Result
    BY <1>2, <1>inv, <1>kinds, ResultEdits DEF Create
  <2>2. Reader' = Reader
    BY <1>2, ReaderSame DEF Create
  <2>3. dirs[d] = "new" /\ dirs' = [dirs EXCEPT ![d] = "live"] /\ known' = known \cup {d}
    BY <1>2 DEF Create
  <2> QED
    BY <2>1, <2>2, <2>3, Mapped
<1>3. ASSUME NEW d \in Dirs, NEW n \in 1..MaxLen, Atomic(d, n) \/ AtomicFail(d, n) PROVE Still
  <2>1. Result' = Result
    BY <1>3, <1>inv, <1>kinds, ResultEdits DEF Atomic, AtomicFail
  <2>2. UNCHANGED <<dirs, known, handle>>
    BY <1>3 DEF Atomic, AtomicFail
  <2> QED
    BY <2>1, <2>2, ReaderSame DEF Still
<1>4. ASSUME NEW d \in Dirs, AppendData(d) \/ AppendPart(d) PROVE Still
  <2>1. PICK k \in Kinds \ {"result"} :
          \E mode \in {"plain", "capture", "consume"}, n \in 1..MaxLen :
            \E w \in 0..n : Append(d, k, mode, n, w)
    BY <1>4, <1>kinds DEF AppendData, AppendPart
  <2>2. /\ \E v : size' = [size EXCEPT ![d][k] = v]
        /\ UNCHANGED <<dirs, known, handle>>
    BY <2>1 DEF Append
  <2>3. Result' = Result
    <3>1. PICK v : size' = [size EXCEPT ![d][k] = v]
      BY <2>2
    <3> QED
      BY <1>inv, <3>1, ResultEdits
  <2> QED
    BY <2>2, <2>3, ReaderSame DEF Still
<1>5. ASSUME NEW d \in Dirs, Publish(d) PROVE Leases!Next
  <2>1. dirs[d] = "live" /\ d \in known /\ leases[d] = 0
    BY <1>5, <1>inv DEF Publish, KnownIsLive
  <2>2. ReadersOf(d) = {}
    BY <1>inv, <2>1, LeasesAreReaders
  <2>3. size[d]["part"] \in 0..MaxBytes
    <3>1. size[d]["part"] \in Nat
      BY <1>5, <1>inv, <1>kinds DEF Publish, TypeOK, Sizes
    <3>2. Bytes(size[d]["part"]) = size[d]["part"]
      BY <3>1 DEF Bytes, NoFile
    <3>3. used \in Nat /\ Bytes(size[d]["part"]) <= used
      BY <1>kinds, AccountBounds DEF BInv, SInv
    <3>4. used + reserve <= MaxBytes /\ reserve \in Nat
      BY DEF BInv, SInv, TypeOK, WithinBudget
    <3> QED
      BY <3>1, <3>2, <3>3, <3>4
  <2>4. UNCHANGED <<dirs, known, handle>>
    BY <1>5 DEF Publish
  <2>5. Reader' = Reader
    BY <2>4, ReaderSame
  <2>6. \/ Result' = [Result EXCEPT ![d] = size[d]["part"]]
        \/ Result' = [Result EXCEPT ![d] = NoFile]
    BY <1>5, <1>inv, ResultEdits DEF Publish
  <2> QED
    BY <2>1, <2>2, <2>3, <2>4, <2>5, <2>6, Mapped
<1>6. ASSUME NEW d \in Dirs, NEW k \in Kinds, Remove(d, k), UNCHANGED <<dirs, known, handle>>
      PROVE  [Leases!Next]_(Leases!vars)
  <2>1. Reader' = Reader
    BY <1>6, ReaderSame
  <2>2. CASE Result' = Result
    BY <1>6, <1>still, <2>1, <2>2 DEF Still
  <2>3. CASE Result' # Result
    <3>1. size' # size
      BY <1>inv, <2>3, ResultEdits
    <3>2. size' = [size EXCEPT ![d][k] = NoFile] /\ ~(k = "result" /\ leases[d] > 0 /\ size[d][k] # NoFile)
      BY <1>6, <3>1 DEF Remove
    <3>3. k = "result"
      BY <1>inv, <2>3, <3>2, ResultEdits
    <3>4. Result' = [Result EXCEPT ![d] = NoFile]
      BY <1>inv, <3>2, <3>3, ResultEdits
    <3>5. size[d]["result"] # NoFile
      BY <1>inv, <1>kinds, <3>1, <3>2, <3>3 DEF TypeOK, Sizes
    <3>6. leases[d] = 0
      BY <1>inv, <3>2, <3>3, <3>5 DEF TypeOK
    <3>7. dirs[d] = "live"
      BY <1>inv, <1>kinds, <3>5 DEF Owned, Present
    <3>8. ReadersOf(d) = {}
      BY <1>inv, <3>6, LeasesAreReaders
    <3>9. Leases!Next
      BY <1>6, <2>1, <3>4, <3>7, <3>8, Mapped
    <3> QED
      BY <3>9
  <2> QED
    BY <2>2, <2>3
<1>7. ASSUME NEW d \in Dirs, DropPart(d) PROVE [Leases!Next]_(Leases!vars)
  BY <1>6, <1>7, <1>kinds DEF DropPart
<1>8. ASSUME NEW t \in Threads, RmScan(t) PROVE [Leases!Next]_(Leases!vars)
  <2>1. rm[t].dir \in Dirs /\ UNCHANGED <<dirs, size, handle>>
    BY <1>8, <1>inv DEF RmScan, Owned
  <2>2. Result' = Result /\ Reader' = Reader
    BY <2>1 DEF Result, Reader
  <2>3. known' = known \/ known' = known \ {rm[t].dir}
    BY <1>8 DEF RmScan, Forget
  <2>4. CASE known' = known
    BY <1>still, <2>1, <2>2, <2>4 DEF Still
  <2>5. CASE known' # known
    <3>1. rm[t].dir \in known /\ known' = known \ {rm[t].dir}
      BY <2>3, <2>5
    <3>2. Leases!Next
      BY <2>1, <2>2, <3>1, Mapped
    <3> QED
      BY <3>2
  <2> QED
    BY <2>4, <2>5
<1>9. ASSUME NEW t \in Threads, RmFile(t) PROVE [Leases!Next]_(Leases!vars)
  <2>1. rm[t].dir \in Dirs /\ rm[t].todo \subseteq Kinds /\ UNCHANGED <<dirs, known, handle>>
    BY <1>9, <1>inv DEF RmFile, Owned, TypeOK, Removals
  <2>2. CASE size' = size
    BY <1>still, <2>1, <2>2 DEF Still, Result, Reader
  <2>3. CASE \E k \in rm[t].todo : Remove(rm[t].dir, k)
    BY <1>6, <2>1, <2>3
  <2> QED
    BY <1>9, <2>2, <2>3 DEF RmFile
<1>10. ASSUME NEW t \in Threads, RmDir(t) PROVE [Leases!Next]_(Leases!vars)
  <2> DEFINE d == rm[t].dir
  <2>1. d \in Dirs /\ UNCHANGED <<size, handle>>
    BY <1>10, <1>inv DEF RmDir, Owned
  <2>2. Result' = Result /\ Reader' = Reader
    BY <2>1 DEF Result, Reader
  <2>3. CASE UNCHANGED <<dirs, known>>
    BY <1>still, <2>2, <2>3 DEF Still
  <2>4. CASE dirs[d] = "live" /\ Present(d) = {} /\ dirs' = [dirs EXCEPT ![d] = "gone"] /\ Forget(t)
    <3>1. size[d]["result"] = NoFile
      BY <1>kinds, <2>4 DEF Present
    <3>2. leases[d] = 0
      <4>1. leases[d] \in Nat
        BY <1>inv, <2>1 DEF TypeOK
      <4>2. ~(leases[d] > 0)
        BY <1>inv, <2>1, <3>1 DEF LeaseBacked
      <4> QED
        BY <4>1, <4>2
    <3>3. ReadersOf(d) = {}
      BY <1>inv, <2>1, <3>2, LeasesAreReaders
    <3>4. known' = known \ {d}
      <4>1. CASE t = Sweeper
        BY <2>4, <4>1 DEF Forget
      <4>2. CASE t # Sweeper
        <5>1. d \notin known
          BY <1>10, <1>inv, <4>2 DEF Owned, RmDir, Threads
        <5> QED
          BY <2>4, <4>2, <5>1 DEF Forget
      <4> QED
        BY <4>1, <4>2
    <3>5. Result[d] = NoFile
      BY <2>1, <3>1 DEF Result
    <3> HIDE DEF d
    <3>6. Leases!Next
      BY <2>1, <2>2, <2>4, <3>3, <3>4, <3>5, Mapped
    <3> QED
      BY <3>6
  <2> QED
    BY <1>10, <2>3, <2>4 DEF RmDir
<1>11. ASSUME NEW r \in Readers, NEW d \in Dirs, handle[r].stage # "open", Lease(r, d)
       PROVE  Leases!Next
  <2>1. Reader[r] = NoDir /\ Result[d] # NoFile
    BY <1>11 DEF Reader, Result, Lease
  <2>2. UNCHANGED <<dirs, known, size>> /\ Result' = Result
    BY <1>11 DEF Lease, Result
  <2>3. Reader' = [Reader EXCEPT ![r] = d]
    BY <1>11, <1>inv DEF Reader, Lease, TypeOK
  <2> QED
    BY <2>1, <2>2, <2>3, Mapped
<1>12. ASSUME NEW r \in Downloads, NEW d \in Dirs, DownloadLease(r, d) PROVE Leases!Next
  BY <1>11, <1>12 DEF DownloadLease, Free, Readers
<1>13. ASSUME NEW d \in Dirs, UploadPick(d) PROVE Still
  <2>1. UNCHANGED <<dirs, known, size>>
    BY <1>13 DEF UploadPick
  <2>2. Reader' = Reader
    BY <1>13, <1>inv DEF UploadPick, Free, Reader, TypeOK
  <2> QED
    BY <2>1, <2>2 DEF Still, Result
<1>14. ASSUME UploadLease PROVE [Leases!Next]_(Leases!vars)
  <2>0. Uploader \in Readers /\ handle[Uploader].stage = "picked" /\ handle[Uploader].dir \in Dirs
    BY <1>14, <1>inv DEF Readers, UploadLease, Owned
  <2>1. CASE Lease(Uploader, handle[Uploader].dir)
    BY <1>11, <2>0, <2>1
  <2>2. CASE UNCHANGED <<dirs, known, size>> /\ handle' = [handle EXCEPT ![Uploader] = NoHandle]
    <3>1. Reader' = Reader
      BY <1>inv, <2>0, <2>2 DEF Reader, TypeOK, NoHandle
    <3> QED
      BY <1>still, <2>2, <3>1 DEF Still, Result
  <2> QED
    BY <1>14, <2>1, <2>2 DEF UploadLease
<1>15. ASSUME NEW r \in Readers, FileClose(r) PROVE Leases!Next
  <2> DEFINE d == handle[r].dir
  <2>1. d \in Dirs /\ handle[r].stage = "open"
    BY <1>15, <1>inv DEF FileClose, Owned
  <2>2. Reader[r] = d /\ Reader[r] # NoDir /\ r \in ReadersOf(d)
    BY <2>1 DEF Reader, ReadersOf
  <2>3. Reader' = [Reader EXCEPT ![r] = NoDir]
    BY <1>15, <1>inv DEF Reader, FileClose, NoHandle, TypeOK
  <2>4. UNCHANGED <<dirs, known>>
    BY <1>15 DEF FileClose
  <2>5. \/ size' = size
        \/ leases[d] = 1 /\ size' = [size EXCEPT ![d]["result"] = NoFile]
    BY <1>15 DEF FileClose
  <2> HIDE DEF d
  <2>6. CASE size' = size
    <3>1. Result' = Result
      BY <2>6 DEF Result
    <3> QED
      BY <2>2, <2>3, <2>4, <3>1, Mapped
  <2>7. CASE leases[d] = 1 /\ size' = [size EXCEPT ![d]["result"] = NoFile]
    <3>1. Result' = [Result EXCEPT ![d] = NoFile]
      BY <1>inv, <2>1, <2>7, ResultEdits
    <3>2. ReadersOf(d) = {r}
      BY <1>inv, <2>1, <2>2, <2>7, LeasesAreReaders
    <3> QED
      BY <2>2, <2>3, <2>4, <3>1, <3>2, Mapped
  <2> QED
    BY <2>5, <2>6, <2>7
<1>16. ASSUME Restart PROVE Leases!Next
  <2> DEFINE gone == {d \in Dirs : dirs[d] = "live" /\ Present(d) = {}}
  <2>1. dirs' = [d \in Dirs |-> IF d \in gone THEN "gone" ELSE dirs[d]]
    BY <1>16 DEF Restart
  <2>2. gone \in SUBSET {d \in Dirs : dirs[d] = "live" /\ Result[d] = NoFile}
    BY <1>kinds DEF Present, Result
  <2>3. Result' = Result
    BY <1>16 DEF Restart, Result
  <2>4. Reader' = [r \in Readers |-> NoDir]
    BY <1>16 DEF Restart, Reader, NoHandle
  <2>5. known' \in SUBSET {d \in Dirs : dirs'[d] = "live"}
    <3>1. \A d \in Dirs : size[d]["meta"] # NoFile => Present(d) # {}
      BY <1>kinds DEF Present
    <3>2. \A d \in Dirs : size[d]["meta"] # NoFile => dirs[d] = "live"
      BY <1>inv, <3>1 DEF Owned
    <3>3. known' = {d \in Dirs : size[d]["meta"] # NoFile}
      BY <1>16 DEF Restart
    <3> QED
      BY <2>1, <3>1, <3>2, <3>3
  <2> HIDE DEF gone
  <2>6. Leases!Restart
    BY <2>1, <2>2, <2>3, <2>4, <2>5 DEF Leases!Restart, Result, Reader
  <2> QED
    BY <2>6 DEF Leases!Next
<1> QED
  BY <1>still, <1>1, <1>2, <1>3, <1>4, <1>5, <1>7, <1>8, <1>9, <1>10, <1>12, <1>13, <1>14, <1>15,
     <1>16
     DEF Next, Write, RmStep

\* An empty store is an initial state of LeaseSpec.
LEMMA InitMaps == Init => Leases!Init
BY DEF Init, Leases!Init, NoHandle, Kinds

\* The store implements LeaseSpec: whatever the lease counts, the marks and the
\* interrupted deletions do, no package changes or vanishes under a reader,
\* and no directory goes without its task.
THEOREM StoreImplementsLeases == Spec => LeaseRefinement
<1>1. BInv /\ [Next]_vars => [Leases!Next]_(Leases!vars)
  BY StepMaps
<1> QED
  BY InitMaps, <1>1, BudgetInvariant, PTL DEF Spec, LeaseRefinement, Leases!Spec
=============================================================================
