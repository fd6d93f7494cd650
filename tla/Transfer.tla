------------------------------ MODULE Transfer ------------------------------
(***************************************************************************)
(* Asynchronous transfer of finished packages to an S3 bucket or to YOS    *)
(* (internal/agent/s3_worker.go, s3_client.go, yos_client.go, s3_types.go):*)
(* the single upload worker, its records in task.json, multipart uploads   *)
(* and their cleanup, lost requests and lost answers, other writers of the *)
(* bucket, failed writes, expiry, and restarts under another configuration.*)
(*                                                                         *)
(* A task's transfer exists in three places: disk[i], the S3 part of       *)
(* task.json; mem[i], its copy in a.tasks, which clients see; and the      *)
(* bucket (object, uploads), which only remote calls reach.                *)
(*                                                                         *)
(* Simplifications:                                                        *)
(*  - a target is its provider: the rest of S3Target is only compared; the *)
(*    agent is not degraded, which only keeps nextUpload from choosing;    *)
(*  - opening a package that exists succeeds;                              *)
(*  - the restarted agent finishes what was running at once, before any    *)
(*    time passes;                                                         *)
(*  - back-off is left out: a task may be chosen as soon as it waits;      *)
(*  - the deadline of an attempt is the expiry of the result or, as a      *)
(*    fault, an earlier timeout;                                           *)
(*  - the key is unique to the task and its digest, so the bucket holds    *)
(*    for each task no object, the agent's own or a foreign one, which     *)
(*    another writer puts only where there is none;                        *)
(*  - signing a link for a client changes nothing;                         *)
(*  - an aborted upload keeps no parts; the ListParts loop of Abort is one *)
(*    call.                                                                *)
(***************************************************************************)
EXTENDS Integers, FiniteSets

CONSTANTS
    Ids,           \* tasks accepted with S3 enabled
    Yos,           \* those of them whose target is a YOS namespace
    Configs,       \* what a start may find configured: "s3", "yos", "off"
    NoRec,         \* a task that cleanup removed
    MaxUploads,    \* bound: multipart uploads created for a task
    MaxFaults,     \* bound: failed calls and writes
    MaxCrashes     \* bound: restarts

ASSUME TransferAssumption ==
    /\ Ids # {} /\ Yos \subseteq Ids
    /\ Configs \subseteq {"s3", "yos", "off"} /\ Configs # {}
    /\ MaxUploads \in Nat \ {0} /\ MaxFaults \in Nat /\ MaxCrashes \in Nat

Done   == {"uploaded", "expired", "unavailable"}
States == Done \cup {"waiting_result", "pending", "uploading", "retry_wait"}
NoUp   == 0                       \* UploadID = ""

\* S3Config.target(), as recorded with the task.
Target(i) == IF i \in Yos THEN "yos" ELSE "s3"

\* The S3Result of a task; big: its Size is over what one Put takes; term: the
\* task's own state is final.
Rec == [st: States, up: 0..MaxUploads, big: BOOLEAN, term: BOOLEAN]

ASSUME NoRecAssumption == NoRec \notin Rec

VARIABLES
    mem, disk,   \* the records
    age,         \* 0, 1: ResultExpiresAt has passed, 2: TaskExpiresAt has too
    pkg,         \* result.tar.gz: "none" | "good" | "bad"
    object,      \* the bucket under the task's key: "none" | "ours" | "foreign"
    uploads,     \* multipart uploads: "unused" | "open" | "parts" | "closed"
    w,           \* the upload worker: [pc, id, up, big, miss, new]
    ready,       \* newAgent has finished recover and started the worker
    conf,        \* the configured target
    faults, crashes

records == <<mem, disk>>
bucket  == <<object, uploads>>
limits  == <<faults, crashes>>
start   == <<ready, conf>>
vars    == <<records, age, pkg, bucket, w, start, limits>>

Fault == faults < MaxFaults /\ faults' = faults + 1

Resting == [pc |-> "idle", id |-> CHOOSE i \in Ids : TRUE, up |-> NoUp, big |-> FALSE,
            miss |-> FALSE, new |-> NoUp]

Init ==
    /\ mem = [i \in Ids |-> NoRec] /\ disk = mem
    /\ age = [i \in Ids |-> 0] /\ pkg = [i \in Ids |-> "none"]
    /\ object = [i \in Ids |-> "none"]
    /\ uploads = [i \in Ids |-> [n \in 1..MaxUploads |-> "unused"]]
    /\ w = Resting /\ ready = TRUE /\ conf \in Configs /\ faults = 0 /\ crashes = 0

-----------------------------------------------------------------------------
(* The rest of the agent.                                                  *)

\* Submit, one task at a time: the target is recorded with the task.
Accept(i) ==
    /\ ready /\ mem[i] = NoRec /\ age[i] = 0 /\ conf = Target(i)
    /\ \A j \in Ids : mem[j] # NoRec => mem[j].term
    /\ mem' = [mem EXCEPT ![i] = [st |-> "waiting_result", up |-> NoUp, big |-> FALSE,
                                  term |-> FALSE]]
    /\ disk' = [disk EXCEPT ![i] = mem'[i]]
    /\ UNCHANGED <<age, pkg, bucket, w, start, limits>>

\* prepareTransfer: what a finished task with or without a package waits for; a
\* package that is too large for YOS is not sent.
Prepared(i, p, big) ==
    [st |-> IF p = "good" /\ ~(i \in Yos /\ big) THEN "pending" ELSE "unavailable",
     up |-> NoUp, big |-> big, term |-> TRUE]

\* finish: archive, prepareTransfer and publish, which changes a.tasks even
\* when task.json could not be written.
Finish(i) ==
    /\ mem[i] # NoRec /\ ~mem[i].term
    /\ \E p \in {"good", "none"}, big \in BOOLEAN :
         LET r == Prepared(i, p, big)
         IN  /\ big => p = "good"
             /\ pkg' = [pkg EXCEPT ![i] = p]
             /\ mem' = [mem EXCEPT ![i] = r]
             /\ \/ disk' = [disk EXCEPT ![i] = r] /\ UNCHANGED faults
                \/ Fault /\ disk' \in {disk, [disk EXCEPT ![i] = r]}
    /\ UNCHANGED <<age, bucket, w, start, crashes>>

\* recover finishes what was running before the worker starts.
RecoverDone ==
    /\ ~ready /\ \A i \in Ids : mem[i] # NoRec => mem[i].term
    /\ ready' = TRUE
    /\ UNCHANGED <<records, age, pkg, bucket, w, conf, limits>>

Lapse(i) ==
    /\ mem[i] # NoRec /\ mem[i].term /\ age[i] < 2
    /\ age' = [age EXCEPT ![i] = @ + 1]
    /\ UNCHANGED <<records, pkg, bucket, w, start, limits>>

\* cleanup: the package goes with the result's retention, the task with its own.
\* A leased package stays readable for the worker.
CleanResult(i) ==
    /\ age[i] = 1 /\ pkg[i] # "none"
    /\ pkg' = [pkg EXCEPT ![i] = "none"]
    /\ UNCHANGED <<records, age, bucket, w, start, limits>>

CleanTask(i) ==
    /\ age[i] = 2 /\ mem[i] # NoRec
    /\ mem' = [mem EXCEPT ![i] = NoRec] /\ disk' = [disk EXCEPT ![i] = NoRec]
    /\ pkg' = [pkg EXCEPT ![i] = "none"]
    /\ UNCHANGED <<age, bucket, w, start, limits>>

Damage(i) ==
    /\ pkg[i] = "good" /\ Fault
    /\ pkg' = [pkg EXCEPT ![i] = "bad"]
    /\ UNCHANGED <<records, age, bucket, w, start, crashes>>

\* download finds the damage and persists the task as it is in memory.
Withdraw(i) ==
    /\ ready /\ pkg[i] = "bad" /\ mem[i] # NoRec /\ mem[i].term
    /\ \/ disk' = [disk EXCEPT ![i] = mem[i]] /\ UNCHANGED faults
       \/ Fault /\ disk' \in {disk, [disk EXCEPT ![i] = mem[i]]}
    /\ UNCHANGED <<mem, age, pkg, bucket, w, start, crashes>>

\* Another writer takes the key.
Intrude(i) ==
    /\ mem[i] # NoRec /\ object[i] = "none"
    /\ object' = [object EXCEPT ![i] = "foreign"]
    /\ UNCHANGED <<records, age, pkg, uploads, w, start, limits>>

\* The end of a task that is not on disk is dated again by recover. The next
\* start may find another target configured, or none.
Restart ==
    /\ crashes < MaxCrashes /\ crashes' = crashes + 1
    /\ mem' = disk /\ w' = Resting /\ ready' = FALSE /\ conf' \in Configs
    /\ age' = [i \in Ids |-> IF disk[i] # NoRec /\ ~disk[i].term THEN 0 ELSE age[i]]
    /\ UNCHANGED <<disk, pkg, bucket, faults>>

-----------------------------------------------------------------------------
(* Parts of transfer.                                                      *)

\* Mutant: the new state shows in memory although it was not written.
StoreEager(r, pc) ==
    /\ mem[w.id] # NoRec
    /\ mem' = [mem EXCEPT ![w.id] = r]
    /\ w' = [w EXCEPT !.pc = pc]
    /\ \/ disk' = [disk EXCEPT ![w.id] = r] /\ UNCHANGED faults
       \/ Fault /\ UNCHANGED disk

\* storeTransfer: memory follows the disk.
Store(r, pc) ==
    /\ mem[w.id] # NoRec
    /\ disk' = [disk EXCEPT ![w.id] = r] /\ mem' = [mem EXCEPT ![w.id] = r]
    /\ w' = [w EXCEPT !.pc = pc]
    /\ UNCHANGED faults

\* It fails: the task is gone, or the write failed and the file is old or new.
StoreFail(r, pc) ==
    /\ \/ mem[w.id] = NoRec /\ UNCHANGED <<disk, faults>>
       \/ mem[w.id] # NoRec /\ Fault /\ disk' \in {disk, [disk EXCEPT ![w.id] = r]}
    /\ UNCHANGED mem
    /\ w' = [w EXCEPT !.pc = pc]

At(pc) == ready /\ w.pc = pc

\* The attempt has time left, as seen by a remote call.
InTime == age[w.id] = 0

\* A remote call fails: the deadline has passed, or the network fails.
CallFails == (~InTime /\ UNCHANGED faults) \/ Fault

Closed(i, n) == [uploads EXCEPT ![i][n] = "closed"]

-----------------------------------------------------------------------------
(* nextUpload and transfer.                                                *)

Lapsed == {i \in Ids : /\ mem[i] # NoRec /\ mem[i].term /\ age[i] = 1
                       /\ mem[i].st \notin {"uploaded", "expired"}}

\* Mutant: a multipart upload of a transfer that is over is left to itself.
EligibleLive(m) == {i \in Ids : /\ m[i] # NoRec /\ m[i].term /\ age[i] < 2
                                /\ conf = Target(i) /\ m[i].st \notin Done}

\* Mutant: an attempt that a restart or a failed write cut short is not resumed.
EligibleFresh(m) == {i \in Ids : /\ m[i] # NoRec /\ m[i].term /\ age[i] < 2 /\ conf = Target(i)
                                 /\ m[i].st \in Done \cup {"uploading"} => m[i].up # NoUp}

\* What the worker may choose, in the map m.
Eligible(m) == {i \in Ids : /\ m[i] # NoRec /\ m[i].term /\ age[i] < 2 /\ conf = Target(i)
                            /\ m[i].st \in Done => m[i].up # NoUp}

\* nextUpload, under a.mu: transfers whose result has expired are closed,
\* whatever is configured, and one task of the configured target is chosen;
\* those that could not be closed are passed over.
NextUpload ==
    /\ At("idle")
    /\ \E bad \in SUBSET Lapsed :
         LET over(i) == [mem[i] EXCEPT !.st = "expired"]
             m == [i \in Ids |-> IF i \in Lapsed \ bad THEN over(i) ELSE mem[i]]
         IN  /\ IF bad = {} THEN UNCHANGED faults ELSE Fault
             /\ \E half \in SUBSET bad :
                  disk' = [i \in Ids |-> IF i \in (Lapsed \ bad) \cup half THEN over(i) ELSE disk[i]]
             /\ mem' = m
             /\ \/ \E i \in Eligible(m) \ bad :
                     w' = [Resting EXCEPT !.pc = IF m[i].st \in Done THEN "drop" ELSE "start",
                                          !.id = i, !.up = m[i].up, !.big = m[i].big]
                \/ Lapsed # {} /\ UNCHANGED w
    /\ UNCHANGED <<age, pkg, bucket, start, crashes>>

\* A transfer that is over: its multipart upload is aborted.
Drop ==
    /\ At("drop")
    /\ uploads' = Closed(w.id, w.up)
    /\ w' = [w EXCEPT !.pc = "dropped"]
    /\ UNCHANGED <<records, age, pkg, object, start, limits>>

DropFail ==
    /\ At("drop") /\ Fault
    /\ uploads' \in {uploads, Closed(w.id, w.up)}
    /\ w' = [w EXCEPT !.pc = "retry"]
    /\ UNCHANGED <<records, age, pkg, object, start, crashes>>

Dropped ==
    /\ At("dropped")
    /\ LET r == [mem[w.id] EXCEPT !.up = NoUp]
       IN  Store(r, "idle") \/ StoreFail(r, "idle")
    /\ UNCHANGED <<age, pkg, bucket, start, crashes>>

\* Mutant: the attempt is not recorded.
StartUnrecorded ==
    /\ At("start")
    /\ w' = [w EXCEPT !.pc = IF InTime THEN "lease" ELSE "idle"]
    /\ UNCHANGED <<records, age, pkg, bucket, start, limits>>

\* The attempt is recorded before anything is sent.
Start ==
    /\ At("start")
    /\ LET r == [mem[w.id] EXCEPT !.st = "uploading"]
       IN  \/ ~InTime /\ w' = [w EXCEPT !.pc = "idle"] /\ UNCHANGED <<records, faults>>
           \/ InTime /\ (Store(r, "lease") \/ StoreFail(r, "idle"))
    /\ UNCHANGED <<age, pkg, bucket, start, crashes>>

\* The package is leased and its digest compared.
LeaseFile ==
    /\ At("lease")
    /\ LET r == [mem[w.id] EXCEPT !.st = "unavailable"]
       IN  \/ /\ pkg[w.id] = "good"
              /\ \/ InTime /\ w' = [w EXCEPT !.pc = "check"] /\ UNCHANGED faults
                 \/ CallFails /\ w' = [w EXCEPT !.pc = "retry"]
              /\ UNCHANGED records
           \/ pkg[w.id] = "bad" /\ CallFails /\ w' = [w EXCEPT !.pc = "retry"] /\ UNCHANGED records
           \/ pkg[w.id] # "good" /\ (Store(r, "idle") \/ StoreFail(r, "idle"))
    /\ UNCHANGED <<age, pkg, bucket, start, crashes>>

\* Where transfer goes after the first Check, an old upload aside.
AfterCheck(miss) == IF miss THEN "put" ELSE "commit"

\* Mutant: any object under the key is taken for the package.
CheckLoose ==
    /\ At("check") /\ InTime
    /\ LET miss == object[w.id] = "none"
       IN  w' = [w EXCEPT !.pc = IF w.up # NoUp THEN "abort" ELSE AfterCheck(miss), !.miss = miss]
    /\ UNCHANGED <<records, age, pkg, bucket, start, limits>>

\* Check's errObjectConflict: YOS reads the object and compares its digest, S3
\* compares the metadata that was stored with it.
Conflict(i) == object[i] = "foreign"

Check ==
    /\ At("check") /\ InTime
    /\ LET miss == object[w.id] = "none"
       IN  w' = IF Conflict(w.id) THEN [w EXCEPT !.pc = "retry"]
                ELSE [w EXCEPT !.pc = IF w.up # NoUp THEN "abort" ELSE AfterCheck(miss),
                               !.miss = miss]
    /\ UNCHANGED <<records, age, pkg, bucket, start, limits>>

\* Check, before or after Put, gets no answer.
CheckFail ==
    /\ At("check") \/ At("recheck")
    /\ CallFails
    /\ w' = [w EXCEPT !.pc = "retry"]
    /\ UNCHANGED <<records, age, pkg, bucket, start, crashes>>

\* The upload that an earlier attempt left is aborted, then forgotten.
AbortOld ==
    /\ At("abort")
    /\ \/ /\ InTime /\ uploads' = Closed(w.id, w.up)
          /\ w' = [w EXCEPT !.pc = "clear"] /\ UNCHANGED faults
       \/ /\ CallFails /\ uploads' \in {uploads, Closed(w.id, w.up)}
          /\ w' = [w EXCEPT !.pc = "retry"]
    /\ UNCHANGED <<records, age, pkg, object, start, crashes>>

ClearOld ==
    /\ At("clear")
    /\ LET r == [mem[w.id] EXCEPT !.up = NoUp]
       IN  Store(r, AfterCheck(w.miss)) \/ StoreFail(r, "idle")
    /\ UNCHANGED <<age, pkg, bucket, start, crashes>>

\* PutObject with If-None-Match; without an answer the object may be there.
PutSmall ==
    /\ At("put") /\ ~w.big /\ w.id \notin Yos
    /\ \/ /\ InTime /\ object[w.id] = "none"
          /\ object' = [object EXCEPT ![w.id] = "ours"]
          /\ w' = [w EXCEPT !.pc = "recheck"] /\ UNCHANGED faults
       \/ /\ InTime /\ object[w.id] # "none" /\ UNCHANGED <<object, faults>>
          /\ w' = [w EXCEPT !.pc = "retry"]
       \/ /\ CallFails
          /\ object' \in {object, [object EXCEPT ![w.id] = IF @ = "none" THEN "ours" ELSE @]}
          /\ w' = [w EXCEPT !.pc = "retry"]
    /\ UNCHANGED <<records, age, pkg, uploads, start, crashes>>

\* YOS has no conditional write: its Put replaces what is there.
PutYos ==
    /\ At("put") /\ w.id \in Yos
    /\ \/ /\ InTime /\ object' = [object EXCEPT ![w.id] = "ours"]
          /\ w' = [w EXCEPT !.pc = "recheck"] /\ UNCHANGED faults
       \/ /\ CallFails /\ object' \in {object, [object EXCEPT ![w.id] = "ours"]}
          /\ w' = [w EXCEPT !.pc = "retry"]
    /\ UNCHANGED <<records, age, pkg, uploads, start, crashes>>

\* CreateMultipartUpload; without an answer nobody knows the upload.
PutCreate ==
    /\ At("put") /\ w.big /\ w.id \notin Yos
    /\ \E n \in 1..MaxUploads :
         /\ uploads[w.id][n] = "unused"
         /\ \/ /\ InTime /\ uploads' = [uploads EXCEPT ![w.id][n] = "open"]
               /\ w' = [w EXCEPT !.pc = "checkpoint", !.new = n] /\ UNCHANGED faults
            \/ /\ CallFails
               /\ uploads' \in {uploads, [uploads EXCEPT ![w.id][n] = "open"]}
               /\ w' = [w EXCEPT !.pc = "retry"]
    /\ UNCHANGED <<records, age, pkg, object, start, crashes>>

\* Mutant: parts are sent before the upload id is on disk.
CheckpointSkipped ==
    /\ At("checkpoint")
    /\ w' = [w EXCEPT !.pc = "parts"]
    /\ UNCHANGED <<records, age, pkg, bucket, start, limits>>

\* The upload id is on disk before parts are sent.
Checkpoint ==
    /\ At("checkpoint")
    /\ LET r == [mem[w.id] EXCEPT !.up = w.new]
       IN  Store(r, "parts") \/ StoreFail(r, "abandon")
    /\ UNCHANGED <<age, pkg, bucket, start, crashes>>

\* An upload that could not be recorded is aborted, once.
Abandon ==
    /\ At("abandon")
    /\ \/ InTime /\ uploads' = Closed(w.id, w.new) /\ UNCHANGED faults
       \/ CallFails /\ uploads' \in {uploads, Closed(w.id, w.new)}
    /\ w' = [w EXCEPT !.pc = "retry"]
    /\ UNCHANGED <<records, age, pkg, object, start, crashes>>

PutParts ==
    /\ At("parts")
    /\ \/ /\ InTime /\ uploads' = [uploads EXCEPT ![w.id][w.new] = "parts"]
          /\ w' = [w EXCEPT !.pc = "complete"] /\ UNCHANGED faults
       \/ /\ CallFails /\ uploads' \in {uploads, [uploads EXCEPT ![w.id][w.new] = "parts"]}
          /\ w' = [w EXCEPT !.pc = "undo"]
    /\ UNCHANGED <<records, age, pkg, object, start, crashes>>

\* Mutant: the completed upload replaces what is there.
CompletesAlways ==
    object' = [object EXCEPT ![w.id] = "ours"] /\ uploads' = Closed(w.id, w.new)

\* CompleteMultipartUpload with If-None-Match.
Completes ==
    /\ object[w.id] = "none"
    /\ object' = [object EXCEPT ![w.id] = "ours"] /\ uploads' = Closed(w.id, w.new)

PutComplete ==
    /\ At("complete")
    /\ \/ InTime /\ Completes /\ w' = [w EXCEPT !.pc = "recheck"] /\ UNCHANGED faults
       \/ /\ InTime /\ object[w.id] # "none" /\ UNCHANGED <<bucket, faults>>
          /\ w' = [w EXCEPT !.pc = "undo"]
       \/ CallFails /\ (Completes \/ UNCHANGED bucket) /\ w' = [w EXCEPT !.pc = "undo"]
    /\ UNCHANGED <<records, age, pkg, start, crashes>>

\* Put's deferred function: abort, and only then forget the upload.
Undo ==
    /\ At("undo")
    /\ \/ /\ InTime /\ uploads' = Closed(w.id, w.new)
          /\ w' = [w EXCEPT !.pc = "unmark"] /\ UNCHANGED faults
       \/ /\ CallFails /\ uploads' \in {uploads, Closed(w.id, w.new)}
          /\ w' = [w EXCEPT !.pc = "retry"]
    /\ UNCHANGED <<records, age, pkg, object, start, crashes>>

Unmark ==
    /\ At("unmark")
    /\ LET r == [mem[w.id] EXCEPT !.up = NoUp]
       IN  Store(r, "retry") \/ StoreFail(r, "retry")
    /\ UNCHANGED <<age, pkg, bucket, start, crashes>>

Recheck ==
    /\ At("recheck") /\ InTime
    /\ w' = [w EXCEPT !.pc = IF object[w.id] = "ours" THEN "commit" ELSE "retry"]
    /\ UNCHANGED <<records, age, pkg, bucket, start, limits>>

\* The deadline is looked at once more, then the success is recorded.
Commit ==
    /\ At("commit")
    /\ \/ InTime /\ w' = [w EXCEPT !.pc = "record"] /\ UNCHANGED faults
       \/ CallFails /\ w' = [w EXCEPT !.pc = "retry"]
    /\ UNCHANGED <<records, age, pkg, bucket, start, crashes>>

Record ==
    /\ At("record")
    /\ LET r == [mem[w.id] EXCEPT !.st = "uploaded", !.up = NoUp]
       IN  Store(r, "idle") \/ StoreFail(r, "idle")
    /\ UNCHANGED <<age, pkg, bucket, start, crashes>>

\* Mutant: a state that S3Result.valid does not know.
RetryRecordUnknown(r) == [r EXCEPT !.st = "retry"]

\* Mutant: the state of a transfer that is over is overwritten.
RetryRecordAlways(r) == [r EXCEPT !.st = "retry_wait"]

RetryRecord(r) == IF r.st \in Done THEN r ELSE [r EXCEPT !.st = "retry_wait"]

\* retryTransfer; its own failure is ignored.
Retry ==
    /\ At("retry")
    /\ LET r == RetryRecord(mem[w.id])
       IN  Store(r, "idle") \/ StoreFail(r, "idle")
    /\ UNCHANGED <<age, pkg, bucket, start, crashes>>

-----------------------------------------------------------------------------
\* resultView: the state a client is shown, and whether the transfer is paused
\* because its target is not the configured one.
Shown(i)  == IF mem[i].st # "uploaded" /\ mem[i].term /\ age[i] > 0 THEN "expired" ELSE mem[i].st
Paused(i) == Shown(i) \notin Done /\ conf # Target(i)

\* S3Result.valid, which decides whether recover loads the task at all.
ValidRecord(i, r) == r.st \in States /\ (i \in Yos => r.up = NoUp)

Step == \/ Drop \/ DropFail \/ Dropped \/ Start \/ LeaseFile \/ Check \/ CheckFail \/ AbortOld
        \/ ClearOld \/ PutSmall \/ PutYos \/ PutCreate \/ Checkpoint \/ Abandon \/ PutParts
        \/ PutComplete \/ Undo \/ Unmark \/ Recheck \/ Commit \/ Record \/ Retry

Agent(i) == Finish(i) \/ CleanResult(i) \/ CleanTask(i) \/ Withdraw(i)

Next == \/ NextUpload \/ Step \/ RecoverDone \/ Restart
        \/ \E i \in Ids : Accept(i) \/ Agent(i) \/ Lapse(i) \/ Damage(i) \/ Intrude(i)

Spec == Init /\ [][Next]_vars

\* The worker's goroutine runs and polls every second, recover comes to its end,
\* and the worker, which chooses the task that has waited longest, chooses every
\* task that waits.
FairSpec ==
    /\ Spec /\ WF_vars(Step) /\ WF_vars(NextUpload) /\ WF_vars(RecoverDone)
    /\ \A i \in Ids : /\ WF_vars(Finish(i))
                      /\ SF_vars(NextUpload /\ w'.pc # "idle" /\ w'.id = i)
-----------------------------------------------------------------------------
(* Properties.                                                             *)

\* The types of the records and the worker's position; a record on disk is one
\* that S3Result.valid accepts at the next start.
TypeOK ==
    /\ mem \in [Ids -> Rec \cup {NoRec}] /\ disk \in [Ids -> Rec \cup {NoRec}]
    /\ age \in [Ids -> 0..2] /\ pkg \in [Ids -> {"none", "good", "bad"}]
    /\ object \in [Ids -> {"none", "ours", "foreign"}]
    /\ uploads \in [Ids -> [1..MaxUploads -> {"unused", "open", "parts", "closed"}]]
    /\ w \in [pc: {"idle", "drop", "dropped", "start", "lease", "check", "recheck", "abort", "clear",
                   "put", "checkpoint", "abandon", "parts", "complete", "undo", "unmark",
                   "commit", "record", "retry"},
              id: Ids, up: 0..MaxUploads, big: BOOLEAN, miss: BOOLEAN, new: 0..MaxUploads]
    /\ \A i \in Ids : disk[i] # NoRec => ValidRecord(i, disk[i])
    /\ ready \in BOOLEAN /\ conf \in Configs /\ faults \in Nat /\ crashes \in Nat

\* A transfer that is reported as uploaded, or would be after a restart, has the
\* agent's own package in the bucket: no lost answer, retry, conflict or crash
\* turns an unverified object into a success.
UploadedIsThere ==
    \A i \in Ids : \A r \in {mem[i], disk[i]} :
        r # NoRec /\ r.st = "uploaded" => object[i] = "ours"

\* s3_worker.go: uploaded is never shown in memory before the record is durable.
UploadedIsDurable ==
    \A i \in Ids : mem[i] # NoRec /\ mem[i].st = "uploaded" => disk[i] # NoRec /\ disk[i].st = "uploaded"

\* s3_client.go: an upload id is persisted before parts are sent, and stays
\* until they are gone. So parts that occupy the bucket can always be aborted,
\* by this process or the next, while the task exists.
PartsRecorded ==
    \A i \in Ids, n \in 1..MaxUploads :
        uploads[i][n] = "parts" /\ disk[i] # NoRec => disk[i].up = n

\* Remote calls are made for a task only after its final record, with its
\* transfer under way, is on disk (docs/design/s3-remote-storage.md), and only
\* to the target it was accepted for.
CommittedBeforeSending ==
    w.pc \in {"check", "put", "checkpoint", "parts", "complete", "recheck", "commit", "record"}
        /\ disk[w.id] # NoRec
    => disk[w.id].term /\ disk[w.id].st = "uploading" /\ conf = Target(w.id)

\* transfer, retryTransfer, nextUpload and resultView: a success that clients
\* have seen stays, also over a restart, as long as the task exists; and a
\* transfer that was shown as over is not shown as under way again by the same
\* process, though its expiry is shown before it is recorded.
TransferIsFinal ==
    [][\A i \in Ids : mem[i] # NoRec /\ mem'[i] # NoRec =>
          /\ Shown(i) = "uploaded" => Shown(i)' = "uploaded"
          /\ Shown(i) \in Done /\ crashes' = crashes => Shown(i)' \in Done]_vars

\* The S3 client never replaces an object of another writer, although one may
\* appear between its Check and the request that creates the object.
ForeignKept ==
    [][\A i \in Ids \ Yos : object[i] = "foreign" => object'[i] = "foreign"]_vars

\* Once faults and crashes stop, a finished package reaches the bucket and is
\* reported, unless its retention ends first, it is paused, the bucket holds a
\* foreign object or the package is damaged.
TransferEnds ==
    \A i \in Ids : mem[i] # NoRec /\ mem[i].st = "pending"
        ~> \/ mem[i] = NoRec \/ mem[i].st \in {"uploaded", "unavailable"} \/ age[i] > 0
           \/ object[i] = "foreign" \/ Paused(i)

\* A multipart upload that the agent knows of is aborted and forgotten in the
\* end, also when the result expires or the agent restarts, unless the task
\* itself expires first or its target is no longer configured. transfer returns
\* on a conflict before it aborts, so a foreign object under the key puts this
\* off until the result has expired.
UploadsCleared ==
    \A i \in Ids : mem[i] # NoRec /\ mem[i].up # NoUp
        ~> \/ mem[i] = NoRec \/ mem[i].up = NoUp \/ age[i] = 2 \/ conf # Target(i)
           \/ object[i] = "foreign" /\ age[i] = 0
=============================================================================
