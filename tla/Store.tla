------------------------------- MODULE Store -------------------------------
(***************************************************************************)
(* The byte-accounted store of the agent (internal/agent/store.go): the    *)
(* budget with its reservation for packaging, leases on results, and the   *)
(* deletion of task directories, which releases s.mu between its steps and *)
(* races with leases taken and dropped by other goroutines.                *)
(*                                                                         *)
(* Threads, from the callers of store.go:                                  *)
(*   the worker (agent.go), which writes, packages and sweeps; a sweep     *)
(*     holds a.mu, and Submit and storeTransfer need a.mu too;             *)
(*   downloads (http.go), which take the lease under a.mu and release it   *)
(*     without;                                                            *)
(*   the upload worker (s3_worker.go), which looks at the task under a.mu  *)
(*     and takes the lease later, without it.                              *)
(*                                                                         *)
(* Simplifications:                                                        *)
(*  - the worker's writes come in any order and for any known task, since  *)
(*    nothing in store.go depends on their order;                          *)
(*  - a Submit that fails half-way is followed in Agent, not here;         *)
(*  - one file of each kind in a directory; the sizes of several leftover  *)
(*    task.json.<uuid>.tmp are added up in one;                            *)
(*  - background files differ from "data" by their directory only, which   *)
(*    is never removed; they count as plain appends;                       *)
(*  - a refused or failed operation that changes nothing is not a step, so *)
(*    the free-space test of checkLocked, which can only refuse, is left   *)
(*    out.                                                                 *)
(***************************************************************************)
EXTENDS Integers, FiniteSets, Functions

CONSTANTS
    Dirs,            \* task ids
    NoDir,
    Downloads,       \* slots for concurrent downloads
    Uploader,        \* the upload worker
    Sweeper,         \* the worker, when it runs cleanup
    MaxBytes,        \* StorageConfig.MaxBytes
    MetadataReserve, \* metadataReserve, 64 KiB
    CaptureReserve,  \* the 4096 bytes of BeginCapture
    MaxLen,          \* bound: length of one write
    MaxFaults,       \* bound: failed system calls
    MaxCrashes       \* bound: restarts

Readers == Downloads \cup {Uploader}
Threads == Readers \cup {Sweeper}

\* task.json, its leftover temporary files, samples.jsonl and its like, the
\* package being written, result.tar.gz.
Kinds  == {"meta", "stray", "data", "part", "result"}
NoFile == -1

ASSUME StoreAssumption ==
    /\ NoDir \notin Dirs
    /\ IsFiniteSet(Dirs) /\ IsFiniteSet(Downloads)
    /\ Uploader \notin Downloads /\ Sweeper \notin Readers
    /\ MaxBytes \in Nat /\ MetadataReserve \in Nat /\ CaptureReserve \in Nat \ {0}
    /\ MaxLen \in Nat /\ MaxFaults \in Nat /\ MaxCrashes \in Nat

VARIABLES
    dirs,        \* tasks/<id>: "new" (not made yet) | "live" | "gone"
    size,        \* bytes of each file, or NoFile
    used,        \* s.used
    reserve,     \* s.reserve
    leases,      \* s.leases of the directory's result.tar.gz
    pending,     \* s.pending of it: its size, or NoFile
    removedDirs, \* s.removedDirs
    known,       \* directories whose task is still in a.tasks
    handle,      \* what each reader has: [stage, dir]
    rm,          \* each thread's RemoveTask, or sweep: [pc, dir, todo]
    faults, crashes

files   == <<dirs, size, used>>
control == <<leases, pending, removedDirs>>
vars    == <<files, reserve, control, known, handle, rm, faults, crashes>>

Idle == [pc |-> "idle", dir |-> NoDir, todo |-> {}]
NoHandle == [stage |-> "idle", dir |-> NoDir]

Fault == faults < MaxFaults /\ faults' = faults + 1

\* a.mu is not held by a sweep.
MuFree == rm[Sweeper].pc = "idle"

Bytes(n) == IF n = NoFile THEN 0 ELSE n

\* What openStore's walk adds up.
Total == SumFunction([d \in Dirs |-> SumFunction([k \in Kinds |-> Bytes(size[d][k])])])

Init ==
    /\ dirs = [d \in Dirs |-> "new"]
    /\ size = [d \in Dirs |-> [k \in Kinds |-> NoFile]]
    /\ used = 0 /\ reserve = 0
    /\ leases = [d \in Dirs |-> 0] /\ pending = [d \in Dirs |-> NoFile]
    /\ removedDirs = {} /\ known = {}
    /\ handle = [r \in Readers |-> NoHandle]
    /\ rm = [t \in Threads |-> Idle]
    /\ faults = 0 /\ crashes = 0

-----------------------------------------------------------------------------
(* Writing.                                                                *)

\* Mutant: what is already reserved is not set aside.
FitsUnreserved(extra, r) == used + extra <= MaxBytes

\* checkLocked.
Fits(extra, r) == used + extra + r <= MaxBytes

\* BeginCapture, for a task that was submitted.
BeginCapture ==
    /\ MuFree /\ known # {} /\ Fits(0, MetadataReserve + CaptureReserve)
    /\ reserve' = CaptureReserve
    /\ UNCHANGED <<files, control, known, handle, rm, faults, crashes>>

EndCapture ==
    /\ MuFree /\ reserve # 0
    /\ reserve' = 0
    /\ UNCHANGED <<files, control, known, handle, rm, faults, crashes>>

\* Submit: Available, Mkdir and the first record; the task becomes known.
Create(d, n) ==
    /\ MuFree /\ dirs[d] = "new" /\ Fits(0, reserve + MetadataReserve) /\ Fits(n, reserve)
    /\ dirs' = [dirs EXCEPT ![d] = "live"]
    /\ size' = [size EXCEPT ![d]["meta"] = n]
    /\ used' = used + n
    /\ known' = known \cup {d}
    /\ UNCHANGED <<reserve, control, handle, rm, faults, crashes>>

\* Atomic replaces task.json: for a while both versions are on disk.
Atomic(d, n) ==
    /\ MuFree /\ d \in known /\ Fits(n, reserve)
    /\ size' = [size EXCEPT ![d]["meta"] = n]
    /\ used' = used + n - Bytes(size[d]["meta"])
    /\ UNCHANGED <<dirs, reserve, control, known, handle, rm, faults, crashes>>

\* The write or the rename fails, and so does the removal of the temporary
\* file; n bytes were written.
AtomicFail(d, n) ==
    /\ MuFree /\ d \in known /\ Fits(n, reserve) /\ Fault
    /\ size' = [size EXCEPT ![d]["stray"] = Bytes(@) + n]
    /\ used' = used + n
    /\ UNCHANGED <<dirs, reserve, control, known, handle, rm, crashes>>

\* Mutant: more is taken from the reservation than there is.
ReservationUncapped(mode, n) ==
    CASE mode = "capture" -> reserve + 2 * n
      [] mode = "consume" -> reserve - n
      [] OTHER -> reserve

\* The reservation after an Append of n bytes.
Reservation(mode, n) ==
    CASE mode = "capture" -> reserve + 2 * n
      [] mode = "consume" -> reserve - (IF n < reserve THEN n ELSE reserve)
      [] OTHER -> reserve

\* Append: n bytes are asked for, w of them written. A short write is an error
\* but both the bytes and the reservation stay.
Append(d, k, mode, n, w) ==
    /\ MuFree /\ d \in known
    /\ Fits(n, Reservation(mode, n) + MetadataReserve)
    /\ IF w = n THEN UNCHANGED faults ELSE Fault
    /\ size' = [size EXCEPT ![d][k] = Bytes(@) + w]
    /\ used' = used + w
    /\ reserve' = Reservation(mode, n)
    /\ UNCHANGED <<dirs, control, known, handle, rm, crashes>>

\* Samples; those of a task are appended while its capture is open.
AppendData(d) ==
    \E n \in 1..MaxLen, mode \in {"plain", "capture"} : \E w \in 0..n :
        (mode = "capture" => reserve > 0) /\ Append(d, "data", mode, n, w)

AppendPart(d) ==
    \E n \in 1..MaxLen : \E w \in 0..n : Append(d, "part", "consume", n, w)

\* Mutant: the bytes of the replaced package stay on the account.
PublishUncredited(d) ==
    /\ MuFree /\ d \in known /\ size[d]["part"] # NoFile /\ leases[d] = 0
    /\ size' = [size EXCEPT ![d] = [@ EXCEPT !["result"] = size[d]["part"], !["part"] = NoFile]]
    /\ UNCHANGED <<dirs, used, reserve, control, known, handle, rm, faults, crashes>>

\* Mutant: a leased package is replaced too.
PublishLeased(d) ==
    /\ MuFree /\ d \in known /\ size[d]["part"] # NoFile
    /\ size' = [size EXCEPT ![d] = [@ EXCEPT !["result"] = size[d]["part"], !["part"] = NoFile]]
    /\ used' = used - Bytes(size[d]["result"])
    /\ UNCHANGED <<dirs, reserve, control, known, handle, rm, faults, crashes>>

\* Publish: an old package goes first, unless it is leased; then the rename,
\* which may fail.
Publish(d) ==
    /\ MuFree /\ d \in known /\ size[d]["part"] # NoFile /\ leases[d] = 0
    /\ used' = used - Bytes(size[d]["result"])
    /\ \/ /\ size' = [size EXCEPT ![d] = [@ EXCEPT !["result"] = size[d]["part"],
                                                   !["part"] = NoFile]]
          /\ UNCHANGED faults
       \/ size' = [size EXCEPT ![d]["result"] = NoFile] /\ Fault
    /\ UNCHANGED <<dirs, reserve, control, known, handle, rm, crashes>>

-----------------------------------------------------------------------------
(* Removal.                                                                *)

\* Mutant: a lease does not protect the file.
RemoveAlways(d, k) ==
    /\ size' = [size EXCEPT ![d][k] = NoFile]
    /\ used' = used - Bytes(size[d][k])
    /\ UNCHANGED pending

\* Remove: a leased result is only marked.
Remove(d, k) ==
    IF k = "result" /\ leases[d] > 0 /\ size[d][k] # NoFile
      THEN /\ pending' = [pending EXCEPT ![d] = size[d][k]]
           /\ UNCHANGED <<size, used>>
      ELSE /\ size' = [size EXCEPT ![d][k] = NoFile]
           /\ used' = used - Bytes(size[d][k])
           /\ UNCHANGED pending

\* archive's deferred Remove of what it could not publish.
DropPart(d) ==
    /\ MuFree /\ d \in known /\ size[d]["part"] # NoFile
    /\ Remove(d, "part")
    /\ UNCHANGED <<dirs, reserve, leases, removedDirs, known, handle, rm, faults, crashes>>

Present(d) == {k \in Kinds : size[d][k] # NoFile}

\* cleanup under a.mu: the task is too old, or only its result is.
SweepTask(d) ==
    /\ MuFree /\ d \in known /\ reserve = 0
    /\ rm' = [rm EXCEPT ![Sweeper] = [pc |-> "scan", dir |-> d, todo |-> {}]]
    /\ UNCHANGED <<files, reserve, control, known, handle, faults, crashes>>

SweepResult(d) ==
    /\ MuFree /\ d \in known /\ reserve = 0 /\ Present(d) \ {"meta"} # {}
    /\ rm' = [rm EXCEPT ![Sweeper] = [pc |-> "trim", dir |-> d, todo |-> Present(d) \ {"meta"}]]
    /\ UNCHANGED <<files, reserve, control, known, handle, faults, crashes>>

\* Mutant: the task stays in the maps.
ForgetNever(t) == UNCHANGED known

\* cleanup drops the task from the maps when RemoveTask returned nil.
Forget(t) == known' = IF t = Sweeper THEN known \ {rm[t].dir} ELSE known

\* RemoveTask, first critical section: a leased directory is left to the
\* reader that closes it.
RmScan(t) ==
    /\ rm[t].pc = "scan"
    /\ IF leases[rm[t].dir] > 0
         THEN /\ removedDirs' = removedDirs \cup {rm[t].dir}
              /\ rm' = [rm EXCEPT ![t] = Idle]
              /\ Forget(t)
         ELSE /\ rm' = [rm EXCEPT ![t].pc = "list"]
              /\ UNCHANGED <<removedDirs, known>>
    /\ UNCHANGED <<files, reserve, leases, pending, handle, faults, crashes>>

\* Entries: the directory may have gone in the meantime.
RmList(t) ==
    /\ rm[t].pc = "list"
    /\ rm' = [rm EXCEPT ![t] = IF dirs[@.dir] = "live"
                               THEN [@ EXCEPT !.pc = "files", !.todo = Present(rm[t].dir)]
                               ELSE Idle]
    /\ UNCHANGED <<files, reserve, control, known, handle, faults, crashes>>

\* One iteration. RemoveTask gives up when a file cannot be removed, while a
\* sweep of results ignores it.
RmFile(t) ==
    /\ rm[t].pc \in {"files", "trim"}
    /\ \E k \in rm[t].todo :
         \/ /\ Remove(rm[t].dir, k)
            /\ rm' = [rm EXCEPT ![t].todo = @ \ {k}]
            /\ UNCHANGED faults
         \/ /\ Fault
            /\ rm' = [rm EXCEPT ![t] = IF rm[t].pc = "files" THEN Idle
                                       ELSE [rm[t] EXCEPT !.todo = @ \ {k}]]
            /\ UNCHANGED <<size, used, pending>>
    /\ UNCHANGED <<dirs, reserve, leases, removedDirs, known, handle, crashes>>

\* Last critical section: rmdir fails unless the directory is there and empty,
\* and may fail even then.
RmDir(t) ==
    /\ rm[t].pc = "files" /\ rm[t].todo = {}
    /\ IF dirs[rm[t].dir] = "live" /\ Present(rm[t].dir) = {}
         THEN \/ /\ dirs' = [dirs EXCEPT ![rm[t].dir] = "gone"]
                 /\ removedDirs' = removedDirs \ {rm[t].dir}
                 /\ Forget(t) /\ UNCHANGED faults
              \/ Fault /\ UNCHANGED <<dirs, removedDirs, known>>
         ELSE UNCHANGED <<dirs, removedDirs, known, faults>>
    /\ rm' = [rm EXCEPT ![t] = Idle]
    /\ UNCHANGED <<size, used, reserve, leases, pending, handle, crashes>>

TrimEnd ==
    /\ rm[Sweeper].pc = "trim" /\ rm[Sweeper].todo = {}
    /\ rm' = [rm EXCEPT ![Sweeper] = Idle]
    /\ UNCHANGED <<files, reserve, control, known, handle, faults, crashes>>

-----------------------------------------------------------------------------
(* Leases.                                                                 *)

Lease(r, d) ==
    /\ size[d]["result"] # NoFile
    /\ leases' = [leases EXCEPT ![d] = @ + 1]
    /\ handle' = [handle EXCEPT ![r] = [stage |-> "open", dir |-> d]]
    /\ UNCHANGED <<files, reserve, pending, removedDirs, known, rm, faults, crashes>>

Free(r) == handle[r].stage = "idle" /\ rm[r].pc = "idle"

DownloadLease(r, d) == MuFree /\ Free(r) /\ d \in known /\ Lease(r, d)

\* transfer stores "uploading" under a.mu, and opens the package afterwards.
UploadPick(d) ==
    /\ MuFree /\ Free(Uploader) /\ d \in known
    /\ handle' = [handle EXCEPT ![Uploader] = [stage |-> "picked", dir |-> d]]
    /\ UNCHANGED <<files, reserve, control, known, rm, faults, crashes>>

UploadLease ==
    /\ handle[Uploader].stage = "picked"
    /\ \/ Lease(Uploader, handle[Uploader].dir)
       \/ /\ size[handle[Uploader].dir]["result"] = NoFile
          /\ handle' = [handle EXCEPT ![Uploader] = NoHandle]
          /\ UNCHANGED <<files, reserve, control, known, rm, faults, crashes>>

\* Mutant: the reader does not remove the directory it kept alive.
AfterCloseNothing(d) == Idle

\* leasedFile.Close goes on with RemoveTask if the directory was given up.
AfterClose(d) == IF d \in removedDirs THEN [pc |-> "scan", dir |-> d, todo |-> {}] ELSE Idle

\* Mutant: the mark survives the deletion it stands for.
SettledNever(d) == pending

\* s.pending after the last lease on d is gone.
Settled(d) == [pending EXCEPT ![d] = NoFile]

\* The last reader of a marked result deletes it, if the unlink succeeds.
FileClose(r) ==
    /\ handle[r].stage = "open"
    /\ LET d == handle[r].dir
       IN  /\ leases' = [leases EXCEPT ![d] = @ - 1]
           /\ IF leases[d] = 1 /\ pending[d] # NoFile
                THEN /\ pending' = Settled(d)
                     /\ \/ /\ size' = [size EXCEPT ![d]["result"] = NoFile]
                           /\ used' = used - pending[d]
                           /\ UNCHANGED faults
                        \/ Fault /\ UNCHANGED <<size, used>>
                ELSE UNCHANGED <<pending, size, used, faults>>
           /\ rm' = [rm EXCEPT ![r] = AfterClose(d)]
    /\ handle' = [handle EXCEPT ![r] = NoHandle]
    /\ UNCHANGED <<dirs, reserve, removedDirs, known, crashes>>

-----------------------------------------------------------------------------
\* The process dies; openStore counts again, recover keeps the directories
\* that have a record and removes the empty ones.
Restart ==
    /\ crashes < MaxCrashes /\ crashes' = crashes + 1
    /\ used' = Total /\ reserve' = 0
    /\ dirs' = [d \in Dirs |-> IF dirs[d] = "live" /\ Present(d) = {} THEN "gone" ELSE dirs[d]]
    /\ known' = {d \in Dirs : size[d]["meta"] # NoFile}
    /\ leases' = [d \in Dirs |-> 0] /\ pending' = [d \in Dirs |-> NoFile] /\ removedDirs' = {}
    /\ handle' = [r \in Readers |-> NoHandle] /\ rm' = [t \in Threads |-> Idle]
    /\ UNCHANGED <<size, faults>>

Write(d) == \/ \E n \in 1..MaxLen : Create(d, n) \/ Atomic(d, n) \/ AtomicFail(d, n)
            \/ AppendData(d) \/ AppendPart(d) \/ Publish(d) \/ DropPart(d)

RmStep(t) == RmScan(t) \/ RmList(t) \/ RmFile(t) \/ RmDir(t)

Next == \/ BeginCapture \/ EndCapture
        \/ \E d \in Dirs : Write(d) \/ SweepTask(d) \/ SweepResult(d) \/ UploadPick(d)
        \/ \E t \in Threads : RmStep(t)
        \/ TrimEnd
        \/ \E r \in Downloads, d \in Dirs : DownloadLease(r, d)
        \/ UploadLease
        \/ \E r \in Readers : FileClose(r)
        \/ Restart

Spec == Init /\ [][Next]_vars

\* A goroutine that is in RemoveTask goes on, and every reader closes its file
\* in the end: http.Server has a write timeout, a transfer has a deadline.
FairSpec == /\ Spec
            /\ \A t \in Threads : WF_vars(RmStep(t))
            /\ \A r \in Readers : WF_vars(FileClose(r))
-----------------------------------------------------------------------------
(* Properties.                                                             *)

Sizes    == [Dirs -> [Kinds -> Nat \cup {NoFile}]]
Removals == [pc: {"idle", "scan", "list", "files", "trim"}, dir: Dirs \cup {NoDir},
             todo: SUBSET Kinds]

\* The types of the store's fields; no size, reservation or count of leases is
\* ever negative.
TypeOK ==
    /\ dirs \in [Dirs -> {"new", "live", "gone"}]
    /\ size \in Sizes
    /\ reserve \in Nat
    /\ leases \in [Dirs -> Nat] /\ pending \in [Dirs -> Nat \cup {NoFile}]
    /\ removedDirs \subseteq Dirs /\ known \subseteq Dirs
    /\ handle \in [Readers -> [stage: {"idle", "picked", "open"}, dir: Dirs \cup {NoDir}]]
    /\ rm \in [Threads -> Removals]
    /\ faults \in Nat /\ crashes \in Nat

\* s.used is what the files on disk add up to, at every point where s.mu is
\* free, through short writes, failed renames, deferred and concurrent
\* deletions: no byte is counted twice or credited twice.
Accounted == used = Total

\* Everything written and everything set aside for the package stay within
\* storage.max_bytes.
WithinBudget == used + reserve <= MaxBytes

\* The file under an open download or upload is not deleted: the lease count is
\* the number of open handles, and a counted file is there. That it is not
\* replaced either is a matter of steps, and part of LeaseRefinement.
LeaseBacked ==
    \A d \in Dirs :
        /\ leases[d] = Cardinality({r \in Readers : handle[r].stage = "open" /\ handle[r].dir = d})
        /\ leases[d] > 0 => size[d]["result"] # NoFile

\* A deletion that was put off has a reader who will carry it out, and credits
\* the size the file still has.
PendingHeld ==
    \A d \in Dirs : pending[d] # NoFile => leases[d] > 0 /\ pending[d] = size[d]["result"]

\* A directory that was given up to its readers has one, or somebody is
\* removing it: unless a system call failed, it is not stranded until the next
\* restart while its bytes keep counting.
NothingStranded ==
    faults = 0 => \A d \in removedDirs :
        /\ dirs[d] = "live"
        /\ leases[d] > 0 \/ \E t \in Threads : rm[t].pc # "idle" /\ rm[t].dir = d

\* No step of a writer, a sweep or a reader takes away a directory whose task
\* the agent still serves.
KnownIsLive == \A d \in known : dirs[d] = "live"

\* A directory given up to its readers goes away, whoever leases it meanwhile,
\* unless a system call fails or the process dies first.
RemovedGoes ==
    \A d \in Dirs : d \in removedDirs ~> dirs[d] = "gone" \/ faults > 0 \/ crashes > 0

\* The abstract store: an open handle is a reader, a file's size its content.
Leases == INSTANCE LeaseSpec WITH
    dir <- dirs, served <- known,
    result <- [d \in Dirs |-> size[d]["result"]],
    reader <- [r \in Readers |-> IF handle[r].stage = "open" THEN handle[r].dir ELSE NoDir],
    Absent <- NoFile, Contents <- 0..MaxBytes

\* The store implements it: the lease counts, the marks for deferred deletion
\* and a RemoveTask that lets go of s.mu between its steps never let a package
\* change or vanish under a reader, nor a directory without its task.
LeaseRefinement == Leases!Spec

\* docs/design/agent-technical-design.md: room for packaging is set aside while
\* a task is sampled, so a piece of the package that is no longer than the
\* reservation fits.
PackagingFits ==
    \A n \in 1..MaxLen : n <= reserve => Fits(n, Reservation("consume", n) + MetadataReserve)
=============================================================================
