---------------------------- MODULE StoreProofs ----------------------------
(***************************************************************************)
(* Proofs about Store, for any number of task directories, downloads,      *)
(* faults and restarts, and any budget.                                    *)
(*                                                                         *)
(* A lease protects its file only as long as the count is right and nobody *)
(* deletes a counted file, so LeaseBacked and PendingHeld are proved       *)
(* together. That a served directory stays needs to know who may be        *)
(* removing one: readers remove only directories that the agent has        *)
(* forgotten (Owned).                                                      *)
(*                                                                         *)
(* That a directory which was given up has somebody to finish it is not    *)
(* visible in one state of one goroutine: it needs the order in which a    *)
(* directory loses its task, its readers and its files (Orderly).          *)
(***************************************************************************)
EXTENDS Store, FiniteSetTheorems, TLAPS

\* The readers that have d's result open.
Open(d) == {r \in Readers : handle[r].stage = "open" /\ handle[r].dir = d}

\* Who may hold which directory.
Owned ==
    /\ \A r \in Readers : handle[r].stage # "idle" =>
         handle[r].dir \in Dirs /\ dirs[handle[r].dir] # "new"
    /\ \A t \in Threads : rm[t].pc # "idle" => rm[t].dir \in Dirs /\ dirs[rm[t].dir] # "new"
    /\ \A r \in Readers : rm[r].pc # "idle" => rm[r].dir \notin known
    /\ \A d \in removedDirs : d \notin known /\ dirs[d] # "new"
    /\ \A d \in Dirs : dirs[d] # "live" => Present(d) = {}

SInv == TypeOK /\ LeaseBacked /\ PendingHeld /\ KnownIsLive /\ Owned

USE DEF files, control, vars

\* Sizes stay sizes.
LEMMA SizeEdits ==
    ASSUME TypeOK, NEW d \in Dirs, NEW k \in Kinds
    PROVE  /\ Bytes(size[d][k]) \in Nat
           /\ \A n \in Nat \cup {NoFile} :
                [size EXCEPT ![d][k] = n] \in Sizes
           /\ \A n \in Nat : Bytes(size[d][k]) + n \in Nat
BY DEF TypeOK, Sizes, Bytes, NoFile

\* Every step keeps the types.
LEMMA TypeStep ==
    ASSUME SInv, [Next]_vars
    PROVE  TypeOK'
<1> USE StoreAssumption DEF SInv, TypeOK, NoHandle, Fault
<1>edit. /\ Idle \in Removals
         /\ \A t \in Threads : \A v \in Removals : [rm EXCEPT ![t] = v] \in [Threads -> Removals]
         /\ \A t \in Threads : \A K \in SUBSET Kinds :
              /\ [rm[t] EXCEPT !.todo = K] \in Removals
              /\ [rm[t] EXCEPT !.pc = "list"] \in Removals
              /\ [rm[t] EXCEPT !.pc = "files", !.todo = K] \in Removals
  BY DEF Idle, Removals
<1>who. Sweeper \in Threads /\ Uploader \in Readers /\ Readers \subseteq Threads
  BY DEF Threads, Readers
<1>1. ASSUME BeginCapture \/ EndCapture \/ TrimEnd PROVE TypeOK'
  <2>1. rm' \in [Threads -> Removals]
    BY <1>1, <1>who, <1>edit DEF BeginCapture, EndCapture, TrimEnd
  <2> QED
    BY <1>1, <2>1 DEF BeginCapture, EndCapture, TrimEnd
<1>ul. CASE UploadLease
  BY <1>ul, <1>who DEF UploadLease, Lease, Owned
<1>2. ASSUME NEW d \in Dirs, NEW n \in 1..MaxLen, Create(d, n) \/ Atomic(d, n) PROVE TypeOK'
  <2>1. "meta" \in Kinds /\ n \in Nat
    BY DEF Kinds
  <2>2. size' = [size EXCEPT ![d]["meta"] = n]
    BY <1>2 DEF Create, Atomic
  <2>3. size' \in Sizes
    BY <2>1, <2>2, SizeEdits
  <2>4. dirs' \in [Dirs -> {"new", "live", "gone"}] /\ known' \subseteq Dirs
    BY <1>2 DEF Create, Atomic
  <2> QED
    BY <1>2, <2>3, <2>4 DEF Create, Atomic
<1>3. ASSUME NEW d \in Dirs, NEW n \in 1..MaxLen, AtomicFail(d, n) PROVE TypeOK'
  <2>1. "stray" \in Kinds /\ n \in Nat
    BY DEF Kinds
  <2>2. Bytes(size[d]["stray"]) + n \in Nat
    BY <2>1, SizeEdits
  <2>3. size' \in Sizes
    BY <1>3, <2>1, <2>2 DEF AtomicFail, Sizes
  <2> QED
    BY <1>3, <2>3 DEF AtomicFail
<1>4. ASSUME NEW d \in Dirs, NEW k \in Kinds, NEW mode, NEW n \in 1..MaxLen, NEW w \in 0..n,
             Append(d, k, mode, n, w)
      PROVE  TypeOK'
  <2>1. Bytes(size[d][k]) + w \in Nat
    BY SizeEdits
  <2>2. size' \in Sizes
    BY <1>4, <2>1 DEF Append, Sizes
  <2>3. reserve' \in Nat
    BY <1>4 DEF Append, Reservation
  <2> QED
    BY <1>4, <2>2, <2>3 DEF Append
<1>5. ASSUME NEW d \in Dirs, AppendData(d) \/ AppendPart(d) PROVE TypeOK'
  BY <1>4, <1>5 DEF AppendData, AppendPart, Kinds
<1>6. ASSUME NEW d \in Dirs, Publish(d) PROVE TypeOK'
  <2>1. "part" \in Kinds /\ "result" \in Kinds
    BY DEF Kinds
  <2>2. \A f \in [Kinds -> Nat \cup {NoFile}] : [size EXCEPT ![d] = f] \in Sizes
    BY DEF Sizes
  <2>3. [size[d] EXCEPT !["result"] = size[d]["part"], !["part"] = NoFile]
          \in [Kinds -> Nat \cup {NoFile}]
    BY <2>1 DEF Sizes
  <2>4. \/ size' = [size EXCEPT ![d] = [size[d] EXCEPT !["result"] = size[d]["part"],
                                                       !["part"] = NoFile]]
        \/ size' = [size EXCEPT ![d]["result"] = NoFile]
    BY <1>6 DEF Publish
  <2>5. [size EXCEPT ![d]["result"] = NoFile] \in Sizes
    BY <2>1, SizeEdits
  <2>6. [size EXCEPT ![d] = [size[d] EXCEPT !["result"] = size[d]["part"], !["part"] = NoFile]]
          \in Sizes
    BY <2>2, <2>3
  <2>7. size' \in Sizes
    BY <2>4, <2>5, <2>6
  <2> QED
    BY <1>6, <2>7 DEF Publish
<1>7. ASSUME NEW d \in Dirs, NEW k \in Kinds, Remove(d, k)
      PROVE  /\ size' \in Sizes
             /\ pending' \in [Dirs -> Nat \cup {NoFile}]
  <2>1. [size EXCEPT ![d][k] = NoFile] \in Sizes
    BY SizeEdits
  <2>2. [pending EXCEPT ![d] = size[d][k]] \in [Dirs -> Nat \cup {NoFile}]
    BY DEF Sizes
  <2> QED
    BY <1>7, <2>1, <2>2 DEF Remove
<1>8. ASSUME NEW d \in Dirs, DropPart(d) PROVE TypeOK'
  BY <1>7, <1>8 DEF DropPart, Kinds
<1>9. ASSUME NEW d \in Dirs, SweepTask(d) \/ SweepResult(d) \/ UploadPick(d) PROVE TypeOK'
  <2>1. ASSUME NEW p \in {"scan", "trim"}, NEW K \in SUBSET Kinds
        PROVE  [pc |-> p, dir |-> d, todo |-> K] \in Removals
    BY DEF Removals
  <2>2. Present(d) \ {"meta"} \in SUBSET Kinds
    BY DEF Present
  <2>3. rm' \in [Threads -> Removals]
    <3>1. [pc |-> "scan", dir |-> d, todo |-> {}] \in Removals
      BY <2>1
    <3>2. [pc |-> "trim", dir |-> d, todo |-> Present(d) \ {"meta"}] \in Removals
      BY <2>1, <2>2
    <3> QED
      BY <1>9, <1>who, <1>edit, <3>1, <3>2 DEF SweepTask, SweepResult, UploadPick
  <2>4. handle' \in [Readers -> [stage: {"idle", "picked", "open"}, dir: Dirs \cup {NoDir}]]
    BY <1>9, <1>who DEF SweepTask, SweepResult, UploadPick
  <2> QED
    BY <1>9, <2>3, <2>4 DEF SweepTask, SweepResult, UploadPick
<1>10. ASSUME NEW t \in Threads, RmScan(t) \/ RmList(t) \/ RmDir(t) PROVE TypeOK'
  <2>1. rm[t].dir \in Dirs
    BY <1>10 DEF RmScan, RmList, RmDir, Owned
  <2>2. rm' \in [Threads -> Removals]
    <3>1. CASE RmScan(t)
      <4>1. rm' = [rm EXCEPT ![t] = Idle] \/ rm' = [rm EXCEPT ![t] = [rm[t] EXCEPT !.pc = "list"]]
        BY <3>1 DEF RmScan
      <4> QED
        BY <4>1, <1>edit
    <3>2. CASE RmList(t)
      <4>1. \/ rm' = [rm EXCEPT ![t] = Idle]
            \/ rm' = [rm EXCEPT ![t] = [rm[t] EXCEPT !.pc = "files", !.todo = Present(rm[t].dir)]]
        BY <3>2 DEF RmList
      <4>2. Present(rm[t].dir) \in SUBSET Kinds
        BY DEF Present
      <4>3. [rm[t] EXCEPT !.pc = "files", !.todo = Present(rm[t].dir)] \in Removals
        BY <4>2, <1>edit
      <4> QED
        BY <4>1, <4>3, <1>edit
    <3>3. CASE RmDir(t)
      BY <3>3, <1>edit DEF RmDir
    <3> QED
      BY <1>10, <3>1, <3>2, <3>3
  <2>3. known' \subseteq Dirs /\ removedDirs' \subseteq Dirs
    BY <1>10, <2>1 DEF RmScan, RmList, RmDir, Forget
  <2>4. dirs' \in [Dirs -> {"new", "live", "gone"}]
    BY <1>10, <2>1 DEF RmScan, RmList, RmDir
  <2> QED
    BY <1>10, <2>2, <2>3, <2>4 DEF RmScan, RmList, RmDir
<1>11. ASSUME NEW t \in Threads, RmFile(t) PROVE TypeOK'
  <2>1. rm[t].dir \in Dirs
    BY <1>11 DEF RmFile, Owned
  <2>2. PICK k \in rm[t].todo :
          \/ /\ Remove(rm[t].dir, k)
             /\ rm' = [rm EXCEPT ![t].todo = @ \ {k}]
             /\ UNCHANGED faults
          \/ /\ Fault
             /\ rm' = [rm EXCEPT ![t] = IF rm[t].pc = "files" THEN Idle
                                        ELSE [rm[t] EXCEPT !.todo = @ \ {k}]]
             /\ UNCHANGED <<size, used, pending>>
    BY <1>11 DEF RmFile
  <2>3. k \in Kinds
    BY <2>2 DEF Removals
  <2>4. rm' \in [Threads -> Removals]
    <3>1. rm[t].todo \in SUBSET Kinds
      BY DEF Removals
    <3>2. \/ rm' = [rm EXCEPT ![t] = Idle]
          \/ rm' = [rm EXCEPT ![t] = [rm[t] EXCEPT !.todo = rm[t].todo \ {k}]]
      BY <2>2
    <3>3. rm[t].todo \ {k} \in SUBSET Kinds
      BY <3>1
    <3>4. [rm[t] EXCEPT !.todo = rm[t].todo \ {k}] \in Removals
      BY <3>3, <1>edit
    <3> QED
      BY <3>2, <3>4, <1>edit
  <2>5. size' \in Sizes /\ pending' \in [Dirs -> Nat \cup {NoFile}]
    BY <1>7, <2>1, <2>2, <2>3
  <2> QED
    BY <1>11, <2>2, <2>4, <2>5 DEF RmFile
<1>12. ASSUME NEW r \in Downloads, NEW d \in Dirs, DownloadLease(r, d) PROVE TypeOK'
  BY <1>12 DEF DownloadLease, Lease, Readers
<1>13. ASSUME NEW r \in Readers, FileClose(r) PROVE TypeOK'
  <2>1. handle[r].dir \in Dirs /\ leases[handle[r].dir] > 0
    <3>1. handle[r].dir \in Dirs /\ r \in Open(handle[r].dir)
      BY <1>13 DEF FileClose, Owned, Open
    <3>2. IsFiniteSet(Open(handle[r].dir))
      BY FS_Subset, FS_AddElement DEF Open, Readers
    <3>3. Cardinality(Open(handle[r].dir)) # 0
      BY <3>1, <3>2, FS_EmptySet
    <3> QED
      BY <3>1, <3>3 DEF LeaseBacked, Open
  <2>2. leases' \in [Dirs -> Nat]
    BY <1>13, <2>1 DEF FileClose
  <2>3. size' \in Sizes /\ pending' \in [Dirs -> Nat \cup {NoFile}]
    <3>1. [size EXCEPT ![handle[r].dir]["result"] = NoFile] \in Sizes
      BY <2>1, SizeEdits DEF Kinds
    <3> QED
      BY <1>13, <2>1, <3>1 DEF FileClose, Settled
  <2>4. AfterClose(handle[r].dir) \in Removals
    BY <2>1, <1>edit DEF AfterClose, Removals
  <2>5. rm' \in [Threads -> Removals]
    BY <1>13, <2>4, <1>edit DEF FileClose, Threads
  <2> QED
    BY <1>13, <2>1, <2>2, <2>3, <2>5 DEF FileClose
<1>14. CASE Restart
  <2>1. rm' \in [Threads -> Removals]
    BY <1>14, <1>edit DEF Restart
  <2>2. dirs' \in [Dirs -> {"new", "live", "gone"}]
    BY <1>14 DEF Restart
  <2> QED
    BY <1>14, <2>1, <2>2 DEF Restart, NoFile
<1>15. CASE UNCHANGED vars
  BY <1>15
<1> QED
  BY <1>1, <1>ul, <1>2, <1>3, <1>5, <1>6, <1>8, <1>9, <1>10, <1>11, <1>12, <1>13, <1>14, <1>15
     DEF Next, Write, RmStep

\* Only these change a result, a lease or a mark: everything else is quiet.
Quiet == /\ UNCHANGED <<handle, leases, pending>>
         /\ \A d \in Dirs : size'[d]["result"] = size[d]["result"]

\* The sets of open handles are finite.
LEMMA OpenFinite == ASSUME NEW d PROVE IsFiniteSet(Open(d))
BY StoreAssumption, FS_Subset, FS_AddElement DEF Open, Readers

\* Leases stay counted and counted files stay.
LEMMA LeaseStep ==
    ASSUME SInv, [Next]_vars
    PROVE  LeaseBacked' /\ PendingHeld'
<1> USE StoreAssumption DEF SInv
<1>typ. /\ leases \in [Dirs -> Nat] /\ pending \in [Dirs -> Nat \cup {NoFile}]
        /\ size \in Sizes /\ {"meta", "stray", "data", "part", "result"} = Kinds
        /\ handle \in [Readers -> [stage: {"idle", "picked", "open"}, dir: Dirs \cup {NoDir}]]
        /\ Uploader \in Readers
  BY DEF TypeOK, Kinds, Readers
<1>count. \A d \in Dirs : leases[d] = Cardinality(Open(d))
  BY DEF LeaseBacked, Open
<1>file. \A d \in Dirs : leases[d] > 0 => size[d]["result"] # NoFile
  BY DEF LeaseBacked
<1>goal. ASSUME \A d \in Dirs : leases'[d] = Cardinality(Open(d)'),
                \A d \in Dirs : leases'[d] > 0 => size'[d]["result"] # NoFile,
                \A d \in Dirs : pending'[d] # NoFile =>
                                   leases'[d] > 0 /\ pending'[d] = size'[d]["result"]
         PROVE  LeaseBacked' /\ PendingHeld'
  BY <1>goal DEF LeaseBacked, PendingHeld, Open
<1>1. CASE Quiet
  BY <1>1 DEF Quiet, LeaseBacked, PendingHeld
<1>2. ASSUME BeginCapture \/ EndCapture \/ TrimEnd \/ UNCHANGED vars PROVE Quiet
  BY <1>2 DEF BeginCapture, EndCapture, TrimEnd, Quiet
<1>3. ASSUME NEW d \in Dirs, NEW n \in 1..MaxLen, Create(d, n) \/ Atomic(d, n) \/ AtomicFail(d, n)
      PROVE  Quiet
  <2>1. PICK k \in {"meta", "stray"}, v \in Int : size' = [size EXCEPT ![d][k] = v]
    <3>1. Bytes(size[d]["stray"]) + n \in Int
      BY <1>typ, SizeEdits
    <3> QED
      BY <1>3, <3>1 DEF Create, Atomic, AtomicFail
  <2>2. UNCHANGED <<handle, leases, pending>>
    BY <1>3 DEF Create, Atomic, AtomicFail
  <2> QED
    BY <2>1, <2>2, <1>typ DEF Quiet, Sizes
<1>4. ASSUME NEW d \in Dirs, AppendData(d) \/ AppendPart(d) PROVE Quiet
  <2>1. PICK k \in {"data", "part"}, v \in Int : size' = [size EXCEPT ![d][k] = v]
    <3>1. \A k \in Kinds, n \in 1..MaxLen : \A w \in 0..n : Bytes(size[d][k]) + w \in Int
      BY <1>typ, SizeEdits
    <3> QED
      BY <1>4, <1>typ, <3>1 DEF AppendData, AppendPart, Append
  <2>2. UNCHANGED <<handle, leases, pending>>
    BY <1>4 DEF AppendData, AppendPart, Append
  <2> QED
    BY <2>1, <2>2, <1>typ DEF Quiet, Sizes
<1>5. ASSUME NEW d \in Dirs, SweepTask(d) \/ SweepResult(d) PROVE Quiet
  BY <1>5 DEF SweepTask, SweepResult, Quiet
<1>6. ASSUME NEW t \in Threads, RmScan(t) \/ RmList(t) \/ RmDir(t) PROVE Quiet
  BY <1>6 DEF RmScan, RmList, RmDir, Quiet
<1>7. ASSUME NEW d \in Dirs, Publish(d) PROVE LeaseBacked' /\ PendingHeld'
  <2>1. \A e \in Dirs \ {d} : size'[e] = size[e]
    BY <1>7, <1>typ DEF Publish, Sizes
  <2>2. leases[d] = 0 /\ pending[d] = NoFile
    BY <1>7 DEF Publish, PendingHeld
  <2>3. UNCHANGED <<handle, leases, pending>>
    BY <1>7 DEF Publish
  <2> QED
    BY <2>1, <2>2, <2>3 DEF LeaseBacked, PendingHeld
<1>8. ASSUME NEW d \in Dirs, NEW k \in Kinds, Remove(d, k), UNCHANGED <<handle, leases>>
      PROVE  LeaseBacked' /\ PendingHeld'
  <2>1. CASE k = "result" /\ leases[d] > 0 /\ size[d][k] # NoFile
    <3>1. pending' = [pending EXCEPT ![d] = size[d]["result"]] /\ size' = size
      BY <1>8, <2>1 DEF Remove
    <3> QED
      BY <1>8, <2>1, <3>1, <1>typ DEF LeaseBacked, PendingHeld
  <2>2. CASE ~(k = "result" /\ leases[d] > 0 /\ size[d][k] # NoFile)
    <3>1. size' = [size EXCEPT ![d][k] = NoFile] /\ pending' = pending
      BY <1>8, <2>2 DEF Remove
    <3>2. \A e \in Dirs : leases[e] > 0 => size'[e]["result"] = size[e]["result"]
      BY <2>2, <3>1, <1>typ DEF Sizes
    <3> QED
      BY <1>8, <3>1, <3>2 DEF LeaseBacked, PendingHeld
  <2> QED
    BY <2>1, <2>2
<1>9. ASSUME NEW d \in Dirs, DropPart(d) PROVE LeaseBacked' /\ PendingHeld'
  BY <1>8, <1>9, <1>typ DEF DropPart
<1>10. ASSUME NEW t \in Threads, RmFile(t) PROVE LeaseBacked' /\ PendingHeld'
  <2>1. rm[t].dir \in Dirs /\ rm[t].todo \in SUBSET Kinds
    BY <1>10 DEF RmFile, Owned, TypeOK, Removals
  <2>2. UNCHANGED <<handle, leases>>
    BY <1>10 DEF RmFile
  <2>3. UNCHANGED <<size, pending>> \/ \E k \in rm[t].todo : Remove(rm[t].dir, k)
    BY <1>10 DEF RmFile
  <2>4. CASE UNCHANGED <<size, pending>>
    BY <1>1, <2>2, <2>4 DEF Quiet
  <2> QED
    BY <1>8, <2>1, <2>2, <2>3, <2>4
<1>11. ASSUME NEW r \in Readers, NEW d \in Dirs, Lease(r, d), handle[r].stage # "open"
       PROVE  LeaseBacked' /\ PendingHeld'
  <2>1. /\ leases' = [leases EXCEPT ![d] = @ + 1]
        /\ handle' = [handle EXCEPT ![r] = [stage |-> "open", dir |-> d]]
        /\ size' = size /\ pending' = pending /\ size[d]["result"] # NoFile
    BY <1>11 DEF Lease
  <2>2. Open(d)' = Open(d) \cup {r} /\ r \notin Open(d)
    BY <1>11, <2>1, <1>typ DEF Open
  <2>3. \A e \in Dirs \ {d} : Open(e)' = Open(e)
    BY <1>11, <2>1, <1>typ DEF Open
  <2>4. Cardinality(Open(d)') = Cardinality(Open(d)) + 1
    BY <2>2, OpenFinite, FS_AddElement
  <2>5. \A e \in Dirs : leases'[e] = Cardinality(Open(e)')
    BY <2>1, <2>3, <2>4, <1>count, <1>typ
  <2>6. \A e \in Dirs : leases'[e] > 0 => size'[e]["result"] # NoFile
    BY <2>1, <1>typ DEF LeaseBacked
  <2>7. \A e \in Dirs : pending'[e] # NoFile => leases'[e] > 0 /\ pending'[e] = size'[e]["result"]
    BY <2>1, <1>typ DEF PendingHeld
  <2> QED
    BY <2>5, <2>6, <2>7, <1>goal
<1>12. ASSUME UNCHANGED <<size, leases, pending>>, \A d \in Dirs : Open(d)' = Open(d)
       PROVE  LeaseBacked' /\ PendingHeld'
  BY <1>12 DEF LeaseBacked, PendingHeld, Open
<1>13. ASSUME NEW d \in Dirs, UploadPick(d) PROVE LeaseBacked' /\ PendingHeld'
  <2>1. \A e \in Dirs : Open(e)' = Open(e)
    BY <1>13, <1>typ DEF UploadPick, Free, Open
  <2> QED
    BY <1>12, <1>13, <2>1 DEF UploadPick
<1>14. CASE UploadLease
  <2>1. handle[Uploader].stage = "picked" /\ handle[Uploader].dir \in Dirs
    BY <1>14, <1>typ DEF UploadLease, Owned
  <2>2. CASE handle' = [handle EXCEPT ![Uploader] = NoHandle] /\ UNCHANGED <<size, leases, pending>>
    <3>1. \A e \in Dirs : Open(e)' = Open(e)
      BY <2>1, <2>2, <1>typ DEF Open, NoHandle
    <3> QED
      BY <1>12, <2>2, <3>1
  <2> QED
    BY <1>11, <1>14, <1>typ, <2>1, <2>2 DEF UploadLease
<1>15. ASSUME NEW r \in Downloads, NEW d \in Dirs, DownloadLease(r, d)
       PROVE  LeaseBacked' /\ PendingHeld'
  BY <1>11, <1>15 DEF DownloadLease, Free, Readers
<1>16. ASSUME NEW r \in Readers, FileClose(r) PROVE LeaseBacked' /\ PendingHeld'
  <2>1. PICK d \in Dirs : handle[r].stage = "open" /\ handle[r].dir = d
    BY <1>16 DEF FileClose, Owned
  <2>2. leases' = [leases EXCEPT ![d] = @ - 1] /\ handle' = [handle EXCEPT ![r] = NoHandle]
    BY <1>16, <2>1 DEF FileClose
  <2>3. Open(d)' = Open(d) \ {r} /\ r \in Open(d)
    BY <2>1, <2>2, <1>typ DEF Open, NoHandle
  <2>4. \A e \in Dirs \ {d} : Open(e)' = Open(e)
    BY <2>1, <2>2, <1>typ DEF Open, NoHandle
  <2>5. Cardinality(Open(d)') = Cardinality(Open(d)) - 1
    BY <2>3, OpenFinite, FS_RemoveElement
  <2>6. \A e \in Dirs : leases'[e] = Cardinality(Open(e)')
    BY <2>1, <2>2, <2>4, <2>5, <1>count, <1>typ
  <2>7. \A e \in Dirs \ {d} : size'[e] = size[e] /\ pending'[e] = pending[e] /\ leases'[e] = leases[e]
    BY <1>16, <2>1, <2>2, <1>typ DEF FileClose, Settled, Sizes
  <2>8. CASE leases[d] = 1 /\ pending[d] # NoFile
    <3>1. pending'[d] = NoFile /\ leases'[d] = 0
      BY <1>16, <2>1, <2>2, <2>8, <1>typ DEF FileClose, Settled
    <3>2. \A e \in Dirs : leases'[e] > 0 => size'[e]["result"] # NoFile
      BY <2>7, <3>1, <1>file
    <3>3. \A e \in Dirs : pending'[e] # NoFile => leases'[e] > 0 /\ pending'[e] = size'[e]["result"]
      BY <2>7, <3>1 DEF PendingHeld
    <3> QED
      BY <2>6, <3>2, <3>3, <1>goal
  <2>9. CASE ~(leases[d] = 1 /\ pending[d] # NoFile)
    <3>1. size' = size /\ pending' = pending
      BY <1>16, <2>1, <2>9 DEF FileClose
    <3>2. leases'[d] = leases[d] - 1 /\ leases[d] \in Nat
      BY <2>1, <2>2, <1>typ
    <3>3. \A e \in Dirs : leases'[e] > 0 => size'[e]["result"] # NoFile
      BY <2>7, <3>1, <3>2, <1>file
    <3>4. \A e \in Dirs : pending'[e] # NoFile => leases'[e] > 0 /\ pending'[e] = size'[e]["result"]
      BY <2>7, <2>9, <3>1, <3>2, <1>typ DEF PendingHeld
    <3> QED
      BY <2>6, <3>3, <3>4, <1>goal
  <2> QED
    BY <2>8, <2>9
<1>17. CASE Restart
  <2>1. \A d \in Dirs : Open(d)' = {}
    BY <1>17 DEF Restart, Open, NoHandle
  <2>2. \A d \in Dirs : leases'[d] = 0 /\ pending'[d] = NoFile
    BY <1>17 DEF Restart
  <2> QED
    BY <2>1, <2>2, FS_EmptySet, <1>goal
<1> QED
  BY <1>1, <1>2, <1>3, <1>4, <1>5, <1>6, <1>7, <1>9, <1>10, <1>13, <1>14, <1>15, <1>16, <1>17
     DEF Next, Write, RmStep

\* Readers remove forgotten directories only, so what is served stays, and no
\* file appears where there is no directory.
LEMMA OwnStep ==
    ASSUME SInv, [Next]_vars
    PROVE  KnownIsLive' /\ Owned'
<1> USE StoreAssumption DEF SInv
<1>typ. /\ dirs \in [Dirs -> {"new", "live", "gone"}] /\ size \in Sizes
        /\ removedDirs \subseteq Dirs /\ known \subseteq Dirs
        /\ handle \in [Readers -> [stage: {"idle", "picked", "open"}, dir: Dirs \cup {NoDir}]]
        /\ rm \in [Threads -> Removals] /\ rm[Sweeper] \in Removals
        /\ Uploader \in Readers /\ Readers \subseteq Threads
        /\ Sweeper \in Threads /\ Sweeper \notin Readers
        /\ {"meta", "stray", "data", "part", "result"} = Kinds
  BY DEF TypeOK, Readers, Threads, Kinds
\* A write goes to a directory that is or becomes live.
<1>write. ASSUME NEW d \in Dirs, dirs'[d] = "live", d \in known \/ dirs[d] = "new",
                 \A e \in Dirs \ {d} : dirs'[e] = dirs[e] /\ size'[e] = size[e],
                 known' = known \cup {d}, UNCHANGED <<removedDirs, handle, rm>>
          PROVE  KnownIsLive' /\ Owned'
  BY <1>write, <1>typ DEF KnownIsLive, Owned, Present
<1>same. ASSUME UNCHANGED <<dirs, known, removedDirs, handle, rm>>,
                \A d \in Dirs : Present(d)' \subseteq Present(d)
         PROVE  KnownIsLive' /\ Owned'
  BY <1>same DEF KnownIsLive, Owned
<1>1. ASSUME BeginCapture \/ EndCapture \/ UNCHANGED vars PROVE KnownIsLive' /\ Owned'
  BY <1>1, <1>same DEF BeginCapture, EndCapture, Present
<1>2. ASSUME NEW d \in Dirs, NEW n \in 1..MaxLen, Create(d, n) PROVE KnownIsLive' /\ Owned'
  BY <1>2, <1>write, <1>typ DEF Create, Sizes
<1>3. ASSUME NEW d \in Dirs, NEW n \in 1..MaxLen, Atomic(d, n) \/ AtomicFail(d, n)
      PROVE  KnownIsLive' /\ Owned'
  <2>1. d \in known /\ dirs'[d] = "live"
    BY <1>3 DEF Atomic, AtomicFail, KnownIsLive
  <2>2. \A e \in Dirs \ {d} : size'[e] = size[e]
    BY <1>3, <1>typ DEF Atomic, AtomicFail, Sizes
  <2>3. known' = known \cup {d} /\ UNCHANGED <<dirs, removedDirs, handle, rm>>
    BY <1>3, <2>1 DEF Atomic, AtomicFail
  <2> QED
    BY <2>1, <2>2, <2>3, <1>write
<1>4. ASSUME NEW d \in Dirs, AppendData(d) \/ AppendPart(d) \/ Publish(d)
      PROVE  KnownIsLive' /\ Owned'
  <2>1. d \in known /\ dirs'[d] = "live"
    BY <1>4 DEF AppendData, AppendPart, Append, Publish, KnownIsLive
  <2>2. \A e \in Dirs \ {d} : size'[e] = size[e]
    BY <1>4, <1>typ DEF AppendData, AppendPart, Append, Publish, Sizes
  <2>3. known' = known \cup {d} /\ UNCHANGED <<dirs, removedDirs, handle, rm>>
    BY <1>4, <2>1 DEF AppendData, AppendPart, Append, Publish
  <2> QED
    BY <2>1, <2>2, <2>3, <1>write
\* A removal of a file only empties.
<1>5. ASSUME NEW d \in Dirs, NEW k \in Kinds, Remove(d, k)
      PROVE  \A e \in Dirs : Present(e)' \subseteq Present(e)
  BY <1>5, <1>typ DEF Remove, Present, Sizes
<1>6. ASSUME NEW d \in Dirs, DropPart(d) PROVE KnownIsLive' /\ Owned'
  BY <1>5, <1>6, <1>typ, <1>same DEF DropPart
<1>7. ASSUME NEW d \in Dirs, SweepTask(d) \/ SweepResult(d) PROVE KnownIsLive' /\ Owned'
  <2>1. /\ \A t \in Threads \ {Sweeper} : rm'[t] = rm[t]
        /\ rm'[Sweeper].dir = d /\ d \in known
    BY <1>7, <1>typ DEF SweepTask, SweepResult
  <2>2. UNCHANGED <<dirs, size, known, removedDirs, handle>>
    BY <1>7 DEF SweepTask, SweepResult
  <2> QED
    BY <2>1, <2>2, <1>typ DEF KnownIsLive, Owned, Present
<1>8. ASSUME NEW d \in Dirs, UploadPick(d) PROVE KnownIsLive' /\ Owned'
  BY <1>8, <1>typ DEF UploadPick, KnownIsLive, Owned, Present
<1>9. CASE UploadLease
  BY <1>9, <1>typ DEF UploadLease, Lease, NoHandle, KnownIsLive, Owned, Present
<1>10. ASSUME NEW r \in Downloads, NEW d \in Dirs, DownloadLease(r, d) PROVE KnownIsLive' /\ Owned'
  BY <1>10, <1>typ DEF DownloadLease, Lease, Readers, KnownIsLive, Owned, Present
\* A thread goes on with its directory, or stops.
<1>go. ASSUME NEW t \in Threads, \A u \in Threads \ {t} : rm'[u] = rm[u],
              rm'[t].pc # "idle" => rm'[t].dir = rm[t].dir /\ rm[t].pc # "idle",
              UNCHANGED <<dirs, known, removedDirs, handle>>,
              \A d \in Dirs : Present(d)' \subseteq Present(d)
       PROVE  KnownIsLive' /\ Owned'
  BY <1>go, <1>typ DEF KnownIsLive, Owned
<1>11. CASE TrimEnd
  BY <1>11, <1>typ, <1>go DEF TrimEnd, Idle, Present
<1>12. ASSUME NEW t \in Threads, RmList(t) PROVE KnownIsLive' /\ Owned'
  BY <1>12, <1>typ, <1>go DEF RmList, Idle, Present, Removals
<1>13. ASSUME NEW t \in Threads, RmFile(t) PROVE KnownIsLive' /\ Owned'
  <2>1. rm[t].dir \in Dirs /\ rm[t].todo \subseteq Kinds /\ rm[t].pc # "idle"
    BY <1>13, <1>typ DEF RmFile, Owned, Removals
  <2>2. \A d \in Dirs : Present(d)' \subseteq Present(d)
    <3>1. UNCHANGED size \/ \E k \in rm[t].todo : Remove(rm[t].dir, k)
      BY <1>13 DEF RmFile
    <3> QED
      BY <1>5, <2>1, <3>1 DEF Present
  <2>3. PICK k \in Kinds : \/ rm' = [rm EXCEPT ![t].todo = @ \ {k}]
                           \/ rm' = [rm EXCEPT ![t] = IF rm[t].pc = "files" THEN Idle
                                                      ELSE [rm[t] EXCEPT !.todo = @ \ {k}]]
    BY <1>13, <2>1 DEF RmFile
  <2>4. rm'[t].pc # "idle" => rm'[t].dir = rm[t].dir
    BY <2>3, <1>typ DEF Idle, Removals
  <2>5. \A u \in Threads \ {t} : rm'[u] = rm[u]
    BY <2>3, <1>typ
  <2>6. UNCHANGED <<dirs, known, removedDirs, handle>>
    BY <1>13 DEF RmFile
  <2> QED
    BY <2>1, <2>2, <2>4, <2>5, <2>6, <1>go
<1>14. ASSUME NEW t \in Threads, RmScan(t) PROVE KnownIsLive' /\ Owned'
  <2>1. PICK d \in Dirs : rm[t].dir = d /\ dirs[d] # "new" /\ (t # Sweeper => d \notin known)
    BY <1>14, <1>typ DEF RmScan, Owned, Threads
  <2>2. CASE leases[d] > 0
    <3>1. /\ removedDirs' = removedDirs \cup {d} /\ rm' = [rm EXCEPT ![t] = Idle]
          /\ known' = known \ {d} /\ UNCHANGED <<dirs, size, handle>>
      BY <1>14, <2>1, <2>2, <1>typ DEF RmScan, Forget
    <3>2. \A u \in Threads : rm'[u].pc # "idle" => rm'[u] = rm[u]
      BY <3>1, <1>typ DEF Idle
    <3> QED
      BY <2>1, <3>1, <3>2, <1>typ DEF KnownIsLive, Owned, Present
  <2>3. CASE ~(leases[d] > 0)
    <3>1. rm' = [rm EXCEPT ![t].pc = "list"] /\ UNCHANGED <<dirs, size, known, removedDirs, handle>>
      BY <1>14, <2>1, <2>3 DEF RmScan
    <3>2. rm'[t].dir = rm[t].dir /\ rm[t].pc # "idle"
      BY <1>14, <3>1, <1>typ DEF RmScan, Removals
    <3> QED
      BY <3>1, <3>2, <1>typ, <1>go DEF Present
  <2> QED
    BY <2>2, <2>3
<1>15. ASSUME NEW t \in Threads, RmDir(t) PROVE KnownIsLive' /\ Owned'
  <2>1. PICK d \in Dirs : rm[t].dir = d /\ dirs[d] # "new" /\ (t # Sweeper => d \notin known)
    BY <1>15, <1>typ DEF RmDir, Owned, Threads
  <2>2. rm' = [rm EXCEPT ![t] = Idle] /\ UNCHANGED <<size, handle>>
    BY <1>15 DEF RmDir
  <2>3. \A u \in Threads : rm'[u].pc # "idle" => rm'[u] = rm[u]
    BY <2>2, <1>typ DEF Idle
  <2>4. CASE dirs[d] = "live" /\ Present(d) = {} /\ ~UNCHANGED <<dirs, removedDirs, known>>
    <3>1. /\ dirs' = [dirs EXCEPT ![d] = "gone"] /\ removedDirs' = removedDirs \ {d}
          /\ known' = known \ {d}
      BY <1>15, <2>1, <2>4, <1>typ DEF RmDir, Forget
    <3> QED
      BY <2>1, <2>2, <2>3, <2>4, <3>1, <1>typ DEF KnownIsLive, Owned, Present
  <2>5. CASE UNCHANGED <<dirs, removedDirs, known>>
    BY <2>2, <2>3, <2>5, <1>typ DEF KnownIsLive, Owned, Present
  <2> QED
    BY <1>15, <2>1, <2>4, <2>5 DEF RmDir
<1>16. ASSUME NEW r \in Readers, FileClose(r) PROVE KnownIsLive' /\ Owned'
  <2>1. PICK d \in Dirs : handle[r].stage = "open" /\ handle[r].dir = d
    BY <1>16 DEF FileClose, Owned
  <2>2. /\ handle' = [handle EXCEPT ![r] = NoHandle] /\ rm' = [rm EXCEPT ![r] = AfterClose(d)]
        /\ UNCHANGED <<dirs, removedDirs, known>>
    BY <1>16, <2>1 DEF FileClose
  <2>3. \A e \in Dirs : Present(e)' \subseteq Present(e)
    <3>1. size' \in {size, [size EXCEPT ![d]["result"] = NoFile]}
      BY <1>16, <2>1 DEF FileClose
    <3> QED
      BY <2>1, <3>1, <1>typ DEF Present, Sizes
  <2>4. rm'[r].pc # "idle" => rm'[r].dir = d /\ d \in removedDirs
    BY <2>1, <2>2, <1>typ DEF AfterClose, Idle
  <2>5. \A u \in Threads \ {r} : rm'[u] = rm[u]
    BY <2>2, <1>typ
  <2>6. \A u \in Readers : handle'[u].stage # "idle" => handle'[u] = handle[u]
    BY <2>2, <1>typ DEF NoHandle
  <2> QED
    BY <2>1, <2>2, <2>3, <2>4, <2>5, <2>6, <1>typ DEF KnownIsLive, Owned
<1>17. CASE Restart
  <2>1. \A d \in Dirs : size[d]["meta"] # NoFile => dirs[d] = "live" /\ Present(d) # {}
    BY <1>typ DEF Owned, Present
  <2> QED
    BY <1>17, <2>1, <1>typ DEF Restart, KnownIsLive, Owned, NoHandle, Idle, Present
<1> QED
  BY <1>1, <1>2, <1>3, <1>4, <1>6, <1>7, <1>8, <1>9, <1>10, <1>11, <1>12, <1>13, <1>14, <1>15,
     <1>16, <1>17
     DEF Next, Write, RmStep

-----------------------------------------------------------------------------
(* The theorems.                                                           *)

\* An empty store satisfies the invariant.
LEMMA InitInv == Init => SInv
<1> SUFFICES ASSUME Init PROVE SInv
  OBVIOUS
<1> USE StoreAssumption DEF Init, Idle, NoHandle, NoFile
<1>1. TypeOK
  BY DEF TypeOK, Sizes, Removals
<1>2. LeaseBacked
  <2>1. \A d \in Dirs : {r \in Readers : handle[r].stage = "open" /\ handle[r].dir = d} = {}
    OBVIOUS
  <2>2. \A d \in Dirs :
          Cardinality({r \in Readers : handle[r].stage = "open" /\ handle[r].dir = d}) = 0
    BY <2>1, FS_EmptySet, Zenon
  <2>3. \A d \in Dirs : leases[d] = 0
    OBVIOUS
  <2> QED
    BY <2>2, <2>3 DEF LeaseBacked
<1>3. PendingHeld /\ KnownIsLive
  BY DEF PendingHeld, KnownIsLive
<1>4. Owned
  BY DEF Owned, Present, Threads
<1> QED
  BY <1>1, <1>2, <1>3, <1>4 DEF SInv

\* Leases, marks and removals are consistent in every reachable state.
THEOREM StoreInvariant == Spec => []SInv
<1>1. SInv /\ [Next]_vars => SInv'
  BY TypeStep, LeaseStep, OwnStep DEF SInv
<1> QED
  BY InitInv, <1>1, PTL DEF Spec

\* The store's state has its types.
THEOREM StoreTypes == Spec => []TypeOK
<1>1. SInv => TypeOK
  BY DEF SInv
<1> QED
  BY StoreInvariant, <1>1, PTL

\* A file under an open download or upload stays until its last reader closed
\* it, and a deletion that was put off has a reader to carry it out.
THEOREM LeasesProtect == Spec => [](LeaseBacked /\ PendingHeld)
<1>1. SInv => LeaseBacked /\ PendingHeld
  BY DEF SInv
<1> QED
  BY StoreInvariant, <1>1, PTL

\* The directory of a task that the agent serves is never removed under it.
THEOREM ServedStays == Spec => []KnownIsLive
<1>1. SInv => KnownIsLive
  BY DEF SInv
<1> QED
  BY StoreInvariant, <1>1, PTL

-----------------------------------------------------------------------------
(* Deletion.                                                               *)

\* A removal that ends without taking the directory away has left it to a
\* reader. For that a thread must not lose the removal it is in (a reader with
\* a handle is in none), a sweep of results must not be taken for one (it is
\* about a served task), and what a removal has dealt with must not come back:
\* a file that it no longer has to remove is gone or marked.
Orderly ==
    /\ \A r \in Readers : handle[r].stage # "idle" => rm[r].pc = "idle"
    /\ \A t \in Threads : rm[t].pc = "trim" => t = Sweeper
    /\ rm[Sweeper].pc # "idle" => rm[Sweeper].dir \in known
    /\ \A d \in removedDirs : dirs[d] = "live"
    /\ faults = 0 => \A t \in Threads : rm[t].pc = "files" =>
         \A k \in Present(rm[t].dir) \ rm[t].todo :
            k = "result" /\ pending[rm[t].dir] # NoFile

DInv == SInv /\ Orderly /\ NothingStranded

\* Somebody will see to the removal of d.
Cared(d) == leases[d] > 0 \/ \E t \in Threads : rm[t].pc # "idle" /\ rm[t].dir = d

\* No step breaks off a deletion.
LEMMA DeletionStep ==
    ASSUME DInv, [Next]_vars
    PROVE  Orderly' /\ NothingStranded'
<1> USE StoreAssumption
<1>inv. /\ SInv /\ LeaseBacked /\ PendingHeld /\ Owned
        /\ \A r \in Readers : handle[r].stage # "idle" => rm[r].pc = "idle"
        /\ \A t \in Threads : rm[t].pc = "trim" => t = Sweeper
        /\ rm[Sweeper].pc # "idle" => rm[Sweeper].dir \in known
        /\ \A d \in removedDirs : dirs[d] = "live"
        /\ faults = 0 => \A t \in Threads : rm[t].pc = "files" =>
             \A k \in Present(rm[t].dir) \ rm[t].todo :
                k = "result" /\ pending[rm[t].dir] # NoFile
        /\ faults = 0 => \A d \in removedDirs : Cared(d)
  BY DEF DInv, SInv, Orderly, NothingStranded, Cared
<1>typ. /\ dirs \in [Dirs -> {"new", "live", "gone"}] /\ size \in Sizes
        /\ removedDirs \subseteq Dirs /\ known \subseteq Dirs
        /\ leases \in [Dirs -> Nat] /\ pending \in [Dirs -> Nat \cup {NoFile}]
        /\ handle \in [Readers -> [stage: {"idle", "picked", "open"}, dir: Dirs \cup {NoDir}]]
        /\ rm \in [Threads -> Removals] /\ rm[Sweeper] \in Removals
        /\ Uploader \in Readers /\ Readers \subseteq Threads
        /\ Sweeper \in Threads /\ Sweeper \notin Readers
        /\ {"meta", "stray", "data", "part", "result"} = Kinds
        /\ faults \in Nat
  BY DEF DInv, SInv, TypeOK, Readers, Threads, Kinds
<1>goal. ASSUME \A r \in Readers : handle'[r].stage # "idle" => rm'[r].pc = "idle",
                \A t \in Threads : rm'[t].pc = "trim" => t = Sweeper,
                rm'[Sweeper].pc # "idle" => rm'[Sweeper].dir \in known',
                \A d \in removedDirs' : dirs'[d] = "live",
                faults' = 0 => \A t \in Threads : rm'[t].pc = "files" =>
                  \A k \in Present(rm[t].dir)' \ rm'[t].todo :
                     k = "result" /\ pending'[rm'[t].dir] # NoFile,
                faults' = 0 => \A d \in removedDirs' : Cared(d)'
         PROVE  Orderly' /\ NothingStranded'
  BY <1>goal DEF Orderly, NothingStranded, Cared
\* A write is to a served directory, and no sweep is going on.
<1>write. ASSUME NEW d \in Dirs, MuFree, d \in known \/ dirs[d] = "new",
                 \A e \in Dirs \ {d} : size'[e] = size[e],
                 UNCHANGED <<dirs, known>> \/ (dirs' = [dirs EXCEPT ![d] = "live"] /\ known' = known \cup {d}),
                 faults' = faults \/ faults' = faults + 1,
                 UNCHANGED <<leases, pending, removedDirs, handle, rm>>
          PROVE  Orderly' /\ NothingStranded'
  <2>1. \A t \in Threads : rm[t].pc = "files" =>
          rm[t].dir \in Dirs \ {d} /\ Present(rm[t].dir)' = Present(rm[t].dir)
    <3> SUFFICES ASSUME NEW t \in Threads, rm[t].pc = "files"
                 PROVE  rm[t].dir \in Dirs \ {d} /\ Present(rm[t].dir)' = Present(rm[t].dir)
      OBVIOUS
    <3>1. t \in Readers
      BY <1>write DEF MuFree, Threads
    <3>2. rm[t].dir \in Dirs \ {d}
      BY <1>write, <1>inv, <3>1 DEF Owned
    <3> QED
      BY <1>write, <3>2 DEF Present
  <2>2. faults' = 0 => faults = 0
    BY <1>write, <1>typ
  <2>3. \A e \in removedDirs' : dirs'[e] = "live"
    BY <1>write, <1>inv, <1>typ
  <2>4. \A e : Cared(e)' = Cared(e)
    BY <1>write DEF Cared
  <2>5. rm'[Sweeper].pc # "idle" => rm'[Sweeper].dir \in known'
    BY <1>write DEF MuFree
  <2> QED
    BY <1>write, <1>inv, <2>1, <2>2, <2>3, <2>4, <2>5, <1>goal
<1>1. ASSUME NEW d \in Dirs, NEW n \in 1..MaxLen, Create(d, n) \/ Atomic(d, n) \/ AtomicFail(d, n)
      PROVE  Orderly' /\ NothingStranded'
  <2>1. MuFree /\ (d \in known \/ dirs[d] = "new")
    BY <1>1 DEF Create, Atomic, AtomicFail
  <2>2. \A e \in Dirs \ {d} : size'[e] = size[e]
    BY <1>1, <1>typ DEF Create, Atomic, AtomicFail, Sizes
  <2>3. /\ UNCHANGED <<dirs, known>> \/ (dirs' = [dirs EXCEPT ![d] = "live"] /\ known' = known \cup {d})
        /\ faults' = faults \/ faults' = faults + 1
        /\ UNCHANGED <<leases, pending, removedDirs, handle, rm>>
    BY <1>1 DEF Create, Atomic, AtomicFail, Fault
  <2> QED
    BY <1>write, <2>1, <2>2, <2>3
<1>2. ASSUME NEW d \in Dirs, AppendData(d) \/ AppendPart(d) \/ Publish(d) \/ DropPart(d)
      PROVE  Orderly' /\ NothingStranded'
  <2>1. MuFree /\ d \in known
    BY <1>2 DEF AppendData, AppendPart, Append, Publish, DropPart
  <2>2. \A e \in Dirs \ {d} : size'[e] = size[e]
    BY <1>2, <1>typ DEF AppendData, AppendPart, Append, Publish, DropPart, Remove, Sizes
  <2>3. /\ UNCHANGED <<dirs, known>>
        /\ faults' = faults \/ faults' = faults + 1
        /\ UNCHANGED <<leases, pending, removedDirs, handle, rm>>
    BY <1>2 DEF AppendData, AppendPart, Append, Publish, DropPart, Remove, Fault
  <2> QED
    BY <1>write, <2>1, <2>2, <2>3
\* Steps that touch no file, no mark and no directory.
<1>3. ASSUME BeginCapture \/ EndCapture \/ UNCHANGED vars PROVE Orderly' /\ NothingStranded'
  <2>1. UNCHANGED <<dirs, size, known, leases, pending, removedDirs, handle, rm, faults>>
    BY <1>3 DEF BeginCapture, EndCapture
  <2>2. \A e : Present(e)' = Present(e) /\ Cared(e)' = Cared(e)
    BY <2>1 DEF Present, Cared
  <2> QED
    BY <2>1, <2>2, <1>inv, <1>goal
<1>4. ASSUME NEW d \in Dirs, SweepTask(d) \/ SweepResult(d) PROVE Orderly' /\ NothingStranded'
  <2>1. /\ \A t \in Threads \ {Sweeper} : rm'[t] = rm[t]
        /\ rm'[Sweeper].dir = d /\ d \in known /\ rm'[Sweeper].pc \in {"scan", "trim"}
        /\ rm[Sweeper].pc = "idle"
    BY <1>4, <1>typ DEF SweepTask, SweepResult, MuFree
  <2>2. UNCHANGED <<dirs, size, known, leases, pending, removedDirs, handle, faults>>
    BY <1>4 DEF SweepTask, SweepResult
  <2>3. \A e : Present(e)' = Present(e)
    BY <2>2 DEF Present
  <2>4. \A e : Cared(e) => Cared(e)'
    BY <2>1, <2>2 DEF Cared
  <2>5. \A r \in Readers : handle'[r].stage # "idle" => rm'[r].pc = "idle"
    BY <2>1, <2>2, <1>inv, <1>typ
  <2>6. \A t \in Threads : rm'[t].pc = "files" => rm'[t] = rm[t]
    BY <2>1
  <2>7. \A t \in Threads : rm'[t].pc = "trim" => t = Sweeper
    BY <2>1, <1>inv
  <2> QED
    BY <2>1, <2>2, <2>3, <2>4, <2>5, <2>6, <2>7, <1>inv, <1>goal
<1>5. ASSUME TrimEnd PROVE Orderly' /\ NothingStranded'
  <2>1. /\ \A t \in Threads \ {Sweeper} : rm'[t] = rm[t]
        /\ rm'[Sweeper].pc = "idle" /\ rm[Sweeper].dir \in known
    BY <1>5, <1>typ, <1>inv DEF TrimEnd, Idle
  <2>2. UNCHANGED <<dirs, size, known, leases, pending, removedDirs, handle, faults>>
    BY <1>5 DEF TrimEnd
  <2>3. \A e : Present(e)' = Present(e)
    BY <2>2 DEF Present
  <2>4. \A e \in removedDirs : Cared(e) => Cared(e)'
    <3>1. \A e \in removedDirs : e # rm[Sweeper].dir
      BY <2>1, <1>inv DEF Owned
    <3> QED
      BY <2>1, <2>2, <3>1 DEF Cared
  <2>5. \A r \in Readers : handle'[r].stage # "idle" => rm'[r].pc = "idle"
    BY <2>1, <2>2, <1>inv, <1>typ
  <2>6. \A t \in Threads : rm'[t].pc # "idle" => rm'[t] = rm[t]
    BY <2>1
  <2> QED
    BY <2>1, <2>2, <2>3, <2>4, <2>5, <2>6, <1>inv, <1>goal
\* A lease only adds to who cares.
<1>6. ASSUME NEW r \in Readers, rm[r].pc = "idle", \A u \in Readers \ {r} : handle'[u] = handle[u],
             \A e \in Dirs : leases[e] > 0 => leases'[e] > 0,
             UNCHANGED <<dirs, size, known, pending, removedDirs, rm, faults>>
      PROVE  Orderly' /\ NothingStranded'
  <2>1. \A e : Present(e)' = Present(e)
    BY <1>6 DEF Present
  <2>2. \A e \in removedDirs : Cared(e) => Cared(e)'
    BY <1>6, <1>typ DEF Cared
  <2>3. \A u \in Readers : handle'[u].stage # "idle" => rm'[u].pc = "idle"
    BY <1>6, <1>inv
  <2> QED
    BY <1>6, <2>1, <2>2, <2>3, <1>inv, <1>goal
<1>7. ASSUME NEW r \in Downloads, NEW d \in Dirs, DownloadLease(r, d)
      PROVE  Orderly' /\ NothingStranded'
  <2>1. r \in Readers /\ rm[r].pc = "idle"
    BY <1>7 DEF DownloadLease, Free, Readers
  <2>2. /\ \A u \in Readers \ {r} : handle'[u] = handle[u]
        /\ \A e \in Dirs : leases[e] > 0 => leases'[e] > 0
        /\ UNCHANGED <<dirs, size, known, pending, removedDirs, rm, faults>>
    BY <1>7, <1>typ DEF DownloadLease, Lease
  <2> QED
    BY <1>6, <2>1, <2>2
<1>8. ASSUME UploadLease \/ \E d \in Dirs : UploadPick(d) PROVE Orderly' /\ NothingStranded'
  <2>1. rm[Uploader].pc = "idle"
    BY <1>8, <1>inv, <1>typ DEF UploadLease, UploadPick, Free
  <2>2. UNCHANGED <<dirs, size, known, pending, removedDirs, rm, faults>>
    BY <1>8 DEF UploadLease, UploadPick, Lease
  <2>3. \A u \in Readers \ {Uploader} : handle'[u] = handle[u]
    BY <1>8, <1>typ DEF UploadLease, UploadPick, Lease
  <2>4. \A e \in Dirs : leases[e] > 0 => leases'[e] > 0
    BY <1>8, <1>typ DEF UploadLease, UploadPick, Lease
  <2> QED
    BY <1>6, <1>typ, <2>1, <2>2, <2>3, <2>4
\* A thread goes on with the directory it was at.
<1>go. ASSUME NEW t \in Threads, rm[t].pc # "idle", \A u \in Threads \ {t} : rm'[u] = rm[u],
              rm'[t].dir = rm[t].dir, rm'[t].pc # "idle", rm'[t].pc = "trim" => rm[t].pc = "trim",
              UNCHANGED <<dirs, known, leases, removedDirs, handle>>,
              faults' = 0 => faults = 0,
              faults' = 0 => \A u \in Threads : rm'[u].pc = "files" =>
                \A k \in Present(rm[u].dir)' \ rm'[u].todo :
                   k = "result" /\ pending'[rm'[u].dir] # NoFile
       PROVE  Orderly' /\ NothingStranded'
  <2>1. \A u \in Readers : handle'[u].stage # "idle" => rm'[u].pc = "idle"
    BY <1>go, <1>inv, <1>typ
  <2>2. \A u \in Threads : rm'[u].pc = "trim" => u = Sweeper
    BY <1>go, <1>inv
  <2>3. rm'[Sweeper].pc # "idle" => rm'[Sweeper].dir \in known'
    BY <1>go, <1>inv, <1>typ
  <2>4. \A e : Cared(e) => Cared(e)'
    BY <1>go DEF Cared
  <2> QED
    BY <1>go, <1>inv, <1>goal, <2>1, <2>2, <2>3, <2>4
\* A thread is done, and the directory it was at is not given up or is leased.
<1>done. ASSUME NEW t \in Threads, rm[t].pc # "idle", rm' = [rm EXCEPT ![t] = Idle],
                UNCHANGED <<size, leases, pending, handle, faults>>,
                t # Sweeper => known' = known,
                removedDirs' \subseteq removedDirs \cup {rm[t].dir},
                \A d \in removedDirs' : dirs'[d] = "live",
                faults = 0 /\ rm[t].dir \in removedDirs' => leases[rm[t].dir] > 0
         PROVE  Orderly' /\ NothingStranded'
  <2>1. (\A u \in Threads \ {t} : rm'[u] = rm[u]) /\ rm'[t].pc = "idle"
    BY <1>done, <1>typ DEF Idle
  <2>2. \A u \in Readers : handle'[u].stage # "idle" => rm'[u].pc = "idle"
    BY <1>done, <2>1, <1>inv, <1>typ
  <2>3. \A u \in Threads : rm'[u].pc # "idle" => rm'[u] = rm[u] /\ u # t
    BY <2>1
  <2>4. rm'[Sweeper].pc # "idle" => rm'[Sweeper].dir \in known'
    BY <1>done, <2>3, <1>inv, <1>typ
  <2>5. \A e : Present(e)' = Present(e)
    BY <1>done DEF Present
  <2>6. faults' = 0 => \A e \in removedDirs' : Cared(e)'
    <3> SUFFICES ASSUME faults' = 0, NEW e \in removedDirs' PROVE Cared(e)'
      OBVIOUS
    <3>1. CASE e = rm[t].dir
      BY <1>done, <3>1 DEF Cared
    <3>2. CASE e # rm[t].dir
      <4>1. Cared(e)
        BY <1>done, <1>inv, <3>2
      <4> QED
        BY <1>done, <2>1, <3>2, <4>1 DEF Cared
    <3> QED
      BY <3>1, <3>2
  <2> QED
    BY <1>done, <1>inv, <1>goal, <2>2, <2>3, <2>4, <2>5, <2>6
<1>at. \A t \in Threads : rm[t].pc # "idle" => rm[t].dir \in Dirs /\ rm[t] \in Removals
  BY <1>inv, <1>typ DEF Owned
\* A lease, or a mark, shows that the directory is there.
<1>live. \A d \in Dirs : leases[d] > 0 => dirs[d] = "live"
  <2>1. \A d \in Dirs : leases[d] > 0 => "result" \in Present(d)
    BY <1>inv, <1>typ DEF LeaseBacked, Present
  <2> QED
    BY <1>inv, <2>1 DEF Owned
<1>9. ASSUME NEW t \in Threads, RmScan(t) PROVE Orderly' /\ NothingStranded'
  <2>1. rm[t].pc = "scan" /\ rm[t].dir \in Dirs /\ rm[t] \in Removals
    BY <1>9, <1>at DEF RmScan
  <2>2. CASE leases[rm[t].dir] > 0
    <3>1. /\ removedDirs' = removedDirs \cup {rm[t].dir} /\ rm' = [rm EXCEPT ![t] = Idle]
          /\ Forget(t) /\ UNCHANGED <<dirs, size, leases, pending, handle, faults>>
      BY <1>9, <2>2 DEF RmScan
    <3>2. t # Sweeper => known' = known
      BY <3>1 DEF Forget
    <3>3. \A d \in removedDirs' : dirs'[d] = "live"
      BY <3>1, <2>1, <2>2, <1>inv, <1>live
    <3> QED
      BY <1>done, <2>1, <2>2, <3>1, <3>2, <3>3
  <2>3. CASE ~(leases[rm[t].dir] > 0)
    <3>1. /\ rm' = [rm EXCEPT ![t].pc = "list"]
          /\ UNCHANGED <<dirs, size, known, leases, pending, removedDirs, handle, faults>>
      BY <1>9, <2>3 DEF RmScan
    <3>2. /\ \A u \in Threads \ {t} : rm'[u] = rm[u]
          /\ rm'[t].dir = rm[t].dir /\ rm'[t].pc = "list"
      BY <2>1, <3>1, <1>typ DEF Removals
    <3>3. \A e : Present(e)' = Present(e)
      BY <3>1 DEF Present
    <3>4. \A u \in Threads : rm'[u].pc = "files" => rm'[u] = rm[u]
      BY <3>2
    <3>5. faults' = 0 => \A u \in Threads : rm'[u].pc = "files" =>
            \A k \in Present(rm[u].dir)' \ rm'[u].todo :
               k = "result" /\ pending'[rm'[u].dir] # NoFile
      BY <3>1, <3>3, <3>4, <1>inv
    <3> QED
      BY <1>go, <2>1, <3>1, <3>2, <3>5
  <2> QED
    BY <2>2, <2>3
<1>10. ASSUME NEW t \in Threads, RmList(t) PROVE Orderly' /\ NothingStranded'
  <2>1. rm[t].pc = "list" /\ rm[t].dir \in Dirs /\ rm[t] \in Removals
    BY <1>10, <1>at DEF RmList
  <2>2. UNCHANGED <<dirs, size, known, leases, pending, removedDirs, handle, faults>>
    BY <1>10 DEF RmList
  <2>3. \A e : Present(e)' = Present(e)
    BY <2>2 DEF Present
  <2>4. CASE dirs[rm[t].dir] = "live"
    <3>1. rm' = [rm EXCEPT ![t] = [@ EXCEPT !.pc = "files", !.todo = Present(rm[t].dir)]]
      BY <1>10, <2>4 DEF RmList
    <3>2. /\ \A u \in Threads \ {t} : rm'[u] = rm[u]
          /\ rm'[t].dir = rm[t].dir /\ rm'[t].pc = "files" /\ rm'[t].todo = Present(rm[t].dir)
      BY <2>1, <3>1, <1>typ DEF Removals
    <3>3. faults' = 0 => \A u \in Threads : rm'[u].pc = "files" =>
            \A k \in Present(rm[u].dir)' \ rm'[u].todo :
               k = "result" /\ pending'[rm'[u].dir] # NoFile
      BY <2>2, <2>3, <3>2, <1>inv
    <3> QED
      BY <1>go, <2>1, <2>2, <3>2, <3>3
  <2>5. CASE dirs[rm[t].dir] # "live"
    <3>1. rm' = [rm EXCEPT ![t] = Idle]
      BY <1>10, <2>5 DEF RmList
    <3>2. rm[t].dir \notin removedDirs
      BY <2>5, <1>inv
    <3> QED
      BY <1>done, <1>inv, <2>1, <2>2, <3>1, <3>2
  <2> QED
    BY <2>4, <2>5
<1>11. ASSUME NEW t \in Threads, RmFile(t) PROVE Orderly' /\ NothingStranded'
  <2> DEFINE d == rm[t].dir
  <2>1. rm[t].pc \in {"files", "trim"} /\ d \in Dirs /\ rm[t] \in Removals /\ rm[t].todo \subseteq Kinds
    BY <1>11, <1>at DEF RmFile, Removals
  <2>2. UNCHANGED <<dirs, leases, removedDirs, known, handle>>
    BY <1>11 DEF RmFile
  <2>3. ASSUME NEW k \in rm[t].todo, Remove(d, k), rm' = [rm EXCEPT ![t].todo = @ \ {k}],
               faults' = faults
        PROVE  Orderly' /\ NothingStranded'
    <3>1. /\ \A u \in Threads \ {t} : rm'[u] = rm[u]
          /\ rm'[t].dir = d /\ rm'[t].pc = rm[t].pc /\ rm'[t].todo = rm[t].todo \ {k}
      BY <2>1, <2>3, <1>typ DEF Removals
    <3>2. /\ \A e \in Dirs : Present(e)' \subseteq Present(e)
          /\ k \in Present(d)' => k = "result" /\ pending'[d] # NoFile
          /\ \A e \in Dirs : pending[e] # NoFile => pending'[e] # NoFile
      <4>1. CASE /\ k = "result" /\ size[d][k] # NoFile
                 /\ pending' = [pending EXCEPT ![d] = size[d][k]] /\ UNCHANGED size
        BY <2>1, <4>1, <1>typ DEF Present
      <4>2. CASE size' = [size EXCEPT ![d][k] = NoFile] /\ UNCHANGED pending
        <5>1. Present(d)' = {j \in Kinds : size'[d][j] # NoFile}
          BY <3>1 DEF Present
        <5>2. \A e \in Dirs, j \in Kinds : size'[e][j] # NoFile => size[e][j] # NoFile
          BY <2>1, <4>2, <1>typ DEF Sizes
        <5>3. size'[d][k] = NoFile
          BY <2>1, <4>2, <1>typ DEF Sizes
        <5> QED
          BY <4>2, <5>1, <5>2, <5>3 DEF Present
      <4> QED
        BY <2>3, <4>1, <4>2 DEF Remove
    <3>3. ASSUME faults' = 0, NEW u \in Threads, rm'[u].pc = "files",
                 NEW j \in Present(rm[u].dir)' \ rm'[u].todo
          PROVE  j = "result" /\ pending'[rm'[u].dir] # NoFile
      <4>1. rm'[u].dir = rm[u].dir /\ rm[u].pc = "files" /\ rm[u].dir \in Dirs
        BY <3>1, <3>3, <1>at
      <4>2. CASE j \notin rm[u].todo
        <5>1. j \in Present(rm[u].dir) \ rm[u].todo
          BY <3>2, <3>3, <4>1, <4>2
        <5> QED
          BY <2>3, <3>2, <3>3, <4>1, <5>1, <1>inv
      <4>3. CASE j \in rm[u].todo
        <5>1. u = t /\ j = k
          BY <3>1, <3>3, <4>3
        <5>2. k \in Present(d)'
          <6>1. Present(rm[u].dir)' = Present(d)'
            BY <3>1, <5>1 DEF Present
          <6> QED
            BY <3>3, <5>1, <6>1
        <5> QED
          BY <3>1, <3>2, <5>1, <5>2
      <4> QED
        BY <4>2, <4>3
    <3> HIDE DEF d
    <3> QED
      BY <1>go, <2>1, <2>2, <2>3, <3>1, <3>3 DEF d
  <2>4. ASSUME NEW k \in rm[t].todo, Fault,
               rm' = [rm EXCEPT ![t] = IF rm[t].pc = "files" THEN Idle
                                       ELSE [rm[t] EXCEPT !.todo = @ \ {k}]]
        PROVE  Orderly' /\ NothingStranded'
    <3>1. /\ \A u \in Threads \ {t} : rm'[u] = rm[u]
          /\ rm'[t].pc # "idle" => rm'[t].dir = d /\ rm'[t].pc = rm[t].pc
      BY <2>1, <2>4, <1>typ DEF Removals, Idle
    <3>2. faults' # 0
      BY <2>4, <1>typ DEF Fault
    <3>3. \A u \in Readers : handle'[u].stage # "idle" => rm'[u].pc = "idle"
      BY <2>1, <2>2, <3>1, <1>inv, <1>typ
    <3>4. \A u \in Threads : rm'[u].pc = "trim" => u = Sweeper
      BY <3>1, <1>inv
    <3>5. rm'[Sweeper].pc # "idle" => rm'[Sweeper].dir \in known'
      BY <2>1, <2>2, <3>1, <1>inv, <1>typ
    <3> QED
      BY <2>2, <3>2, <3>3, <3>4, <3>5, <1>inv, <1>goal
  <2> QED
    BY <1>11, <2>3, <2>4 DEF RmFile
<1>12. ASSUME NEW t \in Threads, RmDir(t) PROVE Orderly' /\ NothingStranded'
  <2>1. rm[t].pc = "files" /\ rm[t].todo = {} /\ rm[t].dir \in Dirs
    BY <1>12, <1>at DEF RmDir
  <2>2. rm' = [rm EXCEPT ![t] = Idle] /\ UNCHANGED <<size, leases, pending, handle>>
    BY <1>12 DEF RmDir
  <2>3. t # Sweeper => known' = known
    BY <1>12 DEF RmDir, Forget
  <2>4. CASE Fault /\ UNCHANGED <<dirs, removedDirs, known>>
    <3>1. (\A u \in Threads \ {t} : rm'[u] = rm[u]) /\ rm'[t].pc = "idle"
      BY <2>2, <1>typ DEF Idle
    <3>2. faults' # 0
      BY <2>4, <1>typ DEF Fault
    <3>3. \A u \in Readers : handle'[u].stage # "idle" => rm'[u].pc = "idle"
      BY <2>2, <3>1, <1>inv, <1>typ
    <3>4. \A u \in Threads : rm'[u].pc = "trim" => u = Sweeper
      BY <3>1, <1>inv
    <3>5. rm'[Sweeper].pc # "idle" => rm'[Sweeper].dir \in known'
      BY <2>4, <3>1, <1>inv, <1>typ
    <3> QED
      BY <2>4, <3>2, <3>3, <3>4, <3>5, <1>inv, <1>goal
  <2>5. CASE /\ dirs' = [dirs EXCEPT ![rm[t].dir] = "gone"] /\ removedDirs' = removedDirs \ {rm[t].dir}
             /\ UNCHANGED faults
    <3>1. \A d \in removedDirs' : dirs'[d] = "live"
      BY <2>5, <1>inv, <1>typ
    <3> QED
      BY <1>done, <2>1, <2>2, <2>3, <2>5, <3>1
  <2>6. CASE ~(dirs[rm[t].dir] = "live" /\ Present(rm[t].dir) = {})
    <3>1. UNCHANGED <<dirs, removedDirs, faults>>
      BY <1>12, <2>6 DEF RmDir
    <3>2. faults = 0 /\ rm[t].dir \in removedDirs => leases[rm[t].dir] > 0
      <4> SUFFICES ASSUME faults = 0, rm[t].dir \in removedDirs PROVE leases[rm[t].dir] > 0
        OBVIOUS
      <4>1. Present(rm[t].dir) # {}
        BY <2>6, <1>inv
      <4>2. pending[rm[t].dir] # NoFile
        BY <2>1, <4>1, <1>inv
      <4> QED
        BY <2>1, <4>2, <1>inv DEF PendingHeld
    <3> QED
      BY <1>done, <1>inv, <2>1, <2>2, <2>3, <3>1, <3>2
  <2> QED
    BY <1>12, <2>4, <2>5, <2>6 DEF RmDir
<1>13. ASSUME NEW r \in Readers, FileClose(r) PROVE Orderly' /\ NothingStranded'
  <2> DEFINE d == handle[r].dir
  <2>1. handle[r].stage = "open" /\ d \in Dirs /\ rm[r].pc = "idle" /\ r \in Threads /\ r # Sweeper
    BY <1>13, <1>inv, <1>typ DEF FileClose, Owned
  <2>2. /\ \A u \in Readers \ {r} : handle'[u] = handle[u]
        /\ handle'[r].stage = "idle"
        /\ \A u \in Threads \ {r} : rm'[u] = rm[u]
        /\ rm'[r] = AfterClose(d)
        /\ \A e \in Dirs \ {d} : leases'[e] = leases[e]
        /\ UNCHANGED <<dirs, removedDirs, known>>
    BY <1>13, <2>1, <1>typ DEF FileClose, NoHandle
  <2>3. /\ rm'[r].pc \in {"idle", "scan"}
        /\ d \in removedDirs => rm'[r].pc = "scan" /\ rm'[r].dir = d
    BY <2>2 DEF AfterClose, Idle
  <2>4. \A u \in Readers : handle'[u].stage # "idle" => rm'[u].pc = "idle"
    BY <2>2, <1>inv, <1>typ
  <2>5. \A u \in Threads : rm'[u].pc = "trim" => u = Sweeper
    BY <2>2, <2>3, <1>inv
  <2>6. rm'[Sweeper].pc # "idle" => rm'[Sweeper].dir \in known'
    BY <2>1, <2>2, <1>inv, <1>typ
  <2>7. ASSUME faults' = 0, NEW u \in Threads, rm'[u].pc = "files",
               NEW j \in Present(rm[u].dir)' \ rm'[u].todo
        PROVE  j = "result" /\ pending'[rm'[u].dir] # NoFile
    <3>1. rm'[u] = rm[u] /\ rm[u].dir \in Dirs
      BY <2>2, <2>3, <2>7, <1>at
    <3>2. faults = 0
      BY <1>13, <2>7, <1>typ DEF FileClose, Fault
    <3>3. Present(rm[u].dir)' = {k \in Kinds : size'[rm[u].dir][k] # NoFile}
      BY <3>1 DEF Present
    <3>4. CASE UNCHANGED <<size, pending>>
      <4>1. j \in Present(rm[u].dir) \ rm[u].todo
        BY <2>7, <3>1, <3>3, <3>4 DEF Present
      <4> QED
        BY <2>7, <3>1, <3>2, <3>4, <4>1, <1>inv
    <3>5. CASE size' = [size EXCEPT ![d]["result"] = NoFile] /\ pending' = Settled(d)
      <4>1. j \in Present(rm[u].dir) \ rm[u].todo
        BY <2>1, <2>7, <3>1, <3>3, <3>5, <1>typ DEF Present, Sizes
      <4>2. j = "result" /\ pending[rm[u].dir] # NoFile
        BY <2>7, <3>1, <3>2, <4>1, <1>inv
      <4>3. rm[u].dir # d
        BY <2>1, <2>7, <3>1, <3>3, <3>5, <4>2, <1>typ DEF Sizes
      <4> QED
        BY <3>1, <3>5, <4>2, <4>3, <1>typ DEF Settled
    <3> QED
      BY <1>13, <2>7, <3>2, <3>4, <3>5 DEF FileClose, Fault
  <2>8. faults' = 0 => \A e \in removedDirs' : Cared(e)'
    <3> SUFFICES ASSUME faults' = 0, NEW e \in removedDirs' PROVE Cared(e)'
      OBVIOUS
    <3>1. CASE e = d
      BY <2>1, <2>2, <2>3, <3>1 DEF Cared
    <3>2. CASE e # d
      <4>1. faults = 0
        BY <1>13, <1>typ DEF FileClose, Fault
      <4>2. Cared(e) /\ e \in Dirs
        BY <2>2, <4>1, <1>inv, <1>typ
      <4>3. leases'[e] = leases[e]
        BY <2>2, <3>2, <4>2
      <4> HIDE DEF d
      <4> QED
        BY <2>1, <2>2, <4>2, <4>3 DEF Cared
    <3> QED
      BY <3>1, <3>2
  <2> HIDE DEF d
  <2> QED
    BY <2>2, <2>4, <2>5, <2>6, <2>7, <2>8, <1>inv, <1>goal
<1>14. ASSUME Restart PROVE Orderly' /\ NothingStranded'
  <2>1. /\ \A t \in Threads : rm'[t].pc = "idle"
        /\ \A r \in Readers : handle'[r].stage = "idle"
        /\ removedDirs' = {}
    BY <1>14 DEF Restart, Idle, NoHandle
  <2> QED
    BY <2>1, <1>goal, <1>typ
<1> QED
  BY <1>1, <1>2, <1>3, <1>4, <1>5, <1>7, <1>8, <1>9, <1>10, <1>11, <1>12, <1>13, <1>14
     DEF Next, Write, RmStep

\* Deletions are taken to their end in every reachable state.
THEOREM DeletionInvariant == Spec => []DInv
<1>1. Init => DInv
  <2> SUFFICES ASSUME Init PROVE DInv
    OBVIOUS
  <2>1. \A t \in Threads : rm[t].pc = "idle"
    BY DEF Init, Idle
  <2>2. \A r \in Readers : handle[r].stage = "idle"
    BY DEF Init, NoHandle
  <2>3. removedDirs = {} /\ Sweeper \in Threads
    BY DEF Init, Threads
  <2> QED
    BY <2>1, <2>2, <2>3, InitInv DEF DInv, Orderly, NothingStranded
<1>2. DInv /\ [Next]_vars => DInv'
  <2>1. DInv /\ [Next]_vars => SInv'
    BY TypeStep, LeaseStep, OwnStep DEF DInv, SInv
  <2> QED
    BY <2>1, DeletionStep DEF DInv
<1> QED
  BY <1>1, <1>2, PTL DEF Spec

\* A directory that RemoveTask left to its readers is on disk and has a reader
\* or a goroutine that removes it, unless a system call failed.
THEOREM DeletionsAreFollowed == Spec => []NothingStranded
<1>1. DInv => NothingStranded
  BY DEF DInv
<1> QED
  BY DeletionInvariant, <1>1, PTL

\* A deletion that was put off has a reader who carries it out and credits the
\* size that the file still has.
THEOREM DeferredHasReader == Spec => []PendingHeld
<1>1. SInv => PendingHeld
  BY DEF SInv
<1> QED
  BY StoreInvariant, <1>1, PTL
=============================================================================
