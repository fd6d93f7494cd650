------------------------------- MODULE Agent -------------------------------
(***************************************************************************)
(* Task life cycle of the deitysight agent (internal/agent/agent.go,       *)
(* window_task.go, archive.go, http.go): admission of a request, the       *)
(* single worker that samples and packages the task, download, cleanup by  *)
(* age, crashes at any point and the recovery of the next start.           *)
(*                                                                         *)
(* Three copies of a task exist and may disagree:                          *)
(*   rec[id]    tasks/<id>/task.json, what a restart finds,                *)
(*   tasks[id]  the entry of the map a.tasks, what clients see,            *)
(*   loc        the private copy of the thread that runs or recovers it.   *)
(*                                                                         *)
(* Simplifications:                                                        *)
(*  - the agent runs in window mode with S3 off (Result.S3 = nil, so       *)
(*    prepareTransfer returns at once);                                    *)
(*  - ResultExpiresAt and TaskExpiresAt are EndedAt plus a constant, since *)
(*    endTimes sets the three together and nothing else does;              *)
(*  - one frame yields one source record, so SourceRecords = frames; what  *)
(*    freezeHistory finds wrong is added to Errors when the window ends;   *)
(*  - answers that change nothing (400, 404, 409, 503, 507 before Mkdir,   *)
(*    an idempotent replay) are the cases in which no action is enabled;   *)
(*  - a failed write leaves the old or the new task.json: store.Atomic     *)
(*    reports a failed directory sync after the rename is done;            *)
(*  - the process dies as a whole (Crash); a clean Close is a crash that   *)
(*    comes when the worker is between two steps;                          *)
(*  - a torn last line is the only damage to samples.jsonl; it counts as a *)
(*    fault. A frame whose last line has no newline is torn: repair's      *)
(*    scanner does not return it;                                          *)
(*  - a power loss takes frames that were never synced, a process death    *)
(*    none; task.json and the package are synced before they are renamed;  *)
(*  - a package that cannot be read counts as damaged;                     *)
(*  - paused and roundDeadline only feed /health and an earlier 503.       *)
(***************************************************************************)
EXTENDS Integers, FiniteSets

CONSTANTS
    Ids,              \* task ids: uuid() never returns one twice
    Reqs,             \* client-supplied request ids
    NoId,             \* the empty string in active, an absent map entry
    NoTask,           \* an absent map entry, a missing task.json
    ResultRetention,  \* StorageConfig.ResultRetention
    TaskRetention,    \* StorageConfig.TaskRetention
    MaxFrames,        \* bound: frames of one window
    MaxTime,          \* bound: clock values
    MaxFaults,        \* bound: failed or damaged writes
    MaxCrashes        \* bound: process deaths

NoTime == -1          \* a nil *time.Time
NoFile == -1          \* samples.jsonl does not exist

Terminal == {"completed", "partial", "failed", "interrupted"}
Phases   == {"sampling", "packaging", "finished"}

\* The fields of types.go's Task that decide control flow.
Task == [req: Reqs, state: Terminal \cup {"running"}, phase: Phases,
         ended: Nat \cup {NoTime}, src: Nat, errs: BOOLEAN, avail: BOOLEAN]

ASSUME ConstAssumption ==
    /\ NoId \notin Ids /\ Reqs # {}
    /\ NoTask \notin Task
    /\ ResultRetention \in Nat \ {0}
    /\ TaskRetention \in Nat
    /\ ResultRetention <= TaskRetention      \* config.go Validate
    /\ MaxFrames \in Nat /\ MaxTime \in Nat
    /\ MaxFaults \in Nat /\ MaxCrashes \in Nat

VARIABLES
    now,        \* time.Now()
    up,         \* "down" | "recovering" (inside newAgent) | "up"
    tasks,      \* a.tasks
    requests,   \* a.requests
    degraded,   \* a.degraded
    active,     \* a.active
    job,        \* content of the channel a.jobs (capacity 1)
    mu,         \* who holds a.mu across several steps
    sub,        \* the Submit in progress: [req, id, stage]
    wpc,        \* control point of the thread that owns loc
    cur, loc,   \* its task id and its private copy t
    todo,       \* ids still to visit in recover's or cleanup's loop
    dl,         \* a download: [id, stage], stage "none" | "open" | "purge"
    pending,    \* s.pending: results to delete when their lease ends
    removed,    \* s.removedDirs
    dir,        \* existing directories tasks/<id>
    tmp,        \* those that hold a task.json.<uuid>.tmp
    rec,        \* content of task.json
    samples,    \* complete frames in samples.jsonl, or NoFile
    tail,       \* its last frame: "synced" | "volatile" (not synced) | "lost"
    arc,        \* result.tar.gz: "none" | "good" | "bad" (damaged)
    issued,     \* ids handed out by uuid()
    faults, crashes

memory == <<tasks, requests, degraded, active, job>>
worker == <<wpc, cur, loc, todo>>
leases == <<dl, pending, removed>>
disk   == <<dir, tmp, rec, samples, tail, arc>>
limits == <<issued, faults, crashes>>
vars   == <<now, up, memory, mu, sub, worker, leases, disk, limits>>

-----------------------------------------------------------------------------
(* Expiry, types.go and agent.go.                                          *)

TaskExpired(t)   == t.ended # NoTime /\ now >= t.ended + TaskRetention
ResultExpired(t) == t.ended # NoTime /\ now >= t.ended + ResultRetention

\* Mutants: the end is dated again at every finish; it is never dated.
EndTimesAgain(t) == [t EXCEPT !.ended = now]
EndTimesNever(t) == t

EndTimes(t) == IF t.ended = NoTime THEN [t EXCEPT !.ended = now] ELSE t

Flagged(t)   == [t EXCEPT !.errs = TRUE]                      \* addError
Withdrawn(t) == [t EXCEPT !.avail = FALSE, !.errs = TRUE]
Packaged(t)  == [t EXCEPT !.avail = TRUE]
Counted(t, n) == [t EXCEPT !.src = n]
Packaging(t, e) == [t EXCEPT !.errs = e, !.phase = "packaging"]
Interrupted(t) == [EndTimes(t) EXCEPT !.state = "interrupted", !.errs = TRUE,
                                      !.phase = "packaging"]

NewTask(r) == [req |-> r, state |-> "running", phase |-> "sampling",
               ended |-> NoTime, src |-> 0, errs |-> FALSE, avail |-> FALSE]

NoSub == [req |-> CHOOSE r \in Reqs : TRUE, id |-> NoId, stage |-> "none"]
NoDownload == [id |-> NoId, stage |-> "none"]

\* A storage operation fails: at most MaxFaults times.
Fault == faults < MaxFaults /\ faults' = faults + 1

\* task.json after a persist that reported an error: renamed or not.
LostWrite(id, t) == rec' = rec \/ rec' = [rec EXCEPT ![id] = t]

Init ==
    /\ now = 0 /\ up = "up" /\ mu = "free" /\ sub = NoSub
    /\ tasks = [i \in Ids |-> NoTask] /\ requests = [r \in Reqs |-> NoId]
    /\ degraded = FALSE /\ active = NoId /\ job = NoId
    /\ wpc = "idle" /\ cur = NoId /\ loc = NoTask /\ todo = {}
    /\ dl = NoDownload /\ pending = {} /\ removed = {}
    /\ dir = {} /\ tmp = {} /\ rec = [i \in Ids |-> NoTask]
    /\ samples = [i \in Ids |-> NoFile] /\ tail = [i \in Ids |-> "synced"]
    /\ arc = [i \in Ids |-> "none"]
    /\ issued = {} /\ faults = 0 /\ crashes = 0

-----------------------------------------------------------------------------
(* Submit: a.mu is held from the checks to the enqueueing of the job.      *)

\* Mutants: the index is not consulted; a second task is let in.
UnclaimedAlways(r) == TRUE
AdmitsBusy == up = "up" /\ mu = "free" /\ ~degraded

\* No task answers for r: the idempotent replay does not apply.
Unclaimed(r) == requests[r] # NoId => TaskExpired(tasks[requests[r]])

Admits == up = "up" /\ mu = "free" /\ ~degraded /\ active = NoId

SubmitMkdir(r, id) ==
    /\ Admits /\ Unclaimed(r) /\ id \notin issued
    /\ issued' = issued \cup {id}
    /\ \/ /\ dir' = dir \cup {id}
          /\ mu' = "submit"
          /\ sub' = [req |-> r, id |-> id, stage |-> "made"]
          /\ UNCHANGED faults
       \/ /\ Fault                                  \* 507, nothing accepted
          /\ dir' \in {dir, dir \cup {id}}
          /\ UNCHANGED <<mu, sub>>
    /\ UNCHANGED <<now, up, memory, worker, leases, tmp, rec, samples, tail, arc, crashes>>

\* store.Atomic, first half: the temporary file is written and synced.
SubmitWrite ==
    /\ mu = "submit" /\ sub.stage = "made"
    /\ tmp' = tmp \cup {sub.id}
    /\ sub' = [sub EXCEPT !.stage = "written"]
    /\ UNCHANGED <<now, up, memory, mu, worker, leases, dir, rec, samples, tail, arc, limits>>

\* Second half: the rename, and everything Submit does after persist returned.
SubmitAccept ==
    /\ mu = "submit" /\ sub.stage = "written"
    /\ tmp' = tmp \ {sub.id}
    /\ rec' = [rec EXCEPT ![sub.id] = NewTask(sub.req)]
    /\ tasks' = [tasks EXCEPT ![sub.id] = NewTask(sub.req)]
    /\ requests' = [requests EXCEPT ![sub.req] = sub.id]
    /\ active' = sub.id /\ job' = sub.id
    /\ mu' = "free" /\ sub' = NoSub
    /\ UNCHANGED <<now, up, degraded, worker, leases, dir, samples, tail, arc, limits>>

\* persist failed: nobody knows whether the record exists, so admission stops.
SubmitFail ==
    /\ mu = "submit" /\ Fault
    /\ \/ tmp' \in {tmp, tmp \ {sub.id}} /\ UNCHANGED rec
       \/ /\ sub.stage = "written" /\ tmp' = tmp \ {sub.id}
          /\ rec' = [rec EXCEPT ![sub.id] = NewTask(sub.req)]
    /\ degraded' = TRUE
    /\ mu' = "free" /\ sub' = NoSub
    /\ UNCHANGED <<now, up, tasks, requests, active, job, worker, leases,
                   dir, samples, tail, arc, issued, crashes>>

-----------------------------------------------------------------------------
(* The worker: runWindow and finish.                                       *)

\* publish: task.json first, then a.tasks, which changes even when that failed.
Publish(t) ==
    /\ mu = "free"
    /\ rec' = [rec EXCEPT ![cur] = t]
    /\ tasks' = [tasks EXCEPT ![cur] = t]

PublishFail(t) ==
    /\ mu = "free" /\ Fault
    /\ LostWrite(cur, t)
    /\ tasks' = [tasks EXCEPT ![cur] = t]

WTake ==
    /\ up = "up" /\ wpc = "idle" /\ job # NoId /\ mu = "free"
    /\ job' = NoId
    /\ cur' = job /\ loc' = tasks[job] /\ wpc' = "prepare"
    /\ UNCHANGED <<now, up, tasks, requests, degraded, active, mu, sub, todo,
                   leases, disk, limits>>

\* BeginCapture, the empty data files, freezeHistory and the first publish.
WPrepare ==
    /\ wpc = "prepare"
    /\ samples' = [samples EXCEPT ![cur] = 0]
    /\ Publish(loc)
    /\ wpc' = "sampling"
    /\ UNCHANGED <<now, up, requests, degraded, active, job, mu, sub, cur, loc,
                   todo, leases, dir, tmp, tail, arc, limits>>

\* Mutant: the worker gives the task up without finishing it.
WPrepareAbandon ==
    /\ wpc = "prepare" /\ Fault
    /\ wpc' = "release"
    /\ UNCHANGED <<now, up, memory, mu, sub, cur, loc, todo, leases, disk, issued, crashes>>

WPrepareFail ==
    /\ wpc = "prepare" /\ Fault
    /\ samples' \in {samples, [samples EXCEPT ![cur] = 0]}
    /\ loc' = Flagged(loc)
    /\ wpc' = "finish"
    /\ UNCHANGED <<now, up, memory, mu, sub, cur, todo, leases, dir, tmp, rec,
                   tail, arc, issued, crashes>>

\* A complete frame reaches samples.jsonl; nothing of it is synced yet.
GrowSamples ==
    /\ samples' = [samples EXCEPT ![cur] = @ + 1]
    /\ tail' = [tail EXCEPT ![cur] = "volatile"]

SyncSamples == tail' = [tail EXCEPT ![cur] = "synced"]

\* Mutant: the record that counts the frame is published before the sync.
WAppendEager ==
    /\ wpc = "sampling" /\ loc.src < MaxFrames
    /\ GrowSamples
    /\ loc' = Counted(loc, loc.src + 1)
    /\ Publish(loc')
    /\ wpc' = "appended"
    /\ UNCHANGED <<now, up, requests, degraded, active, job, mu, sub, cur, todo,
                   leases, dir, tmp, arc, limits>>

\* One frame of atop output, up to and including its frame_end record.
WAppend ==
    /\ wpc = "sampling" /\ loc.src < MaxFrames
    /\ GrowSamples
    /\ loc' = Counted(loc, loc.src + 1)
    /\ wpc' = "appended"
    /\ UNCHANGED <<now, up, memory, mu, sub, cur, todo, leases, dir, tmp, rec,
                   arc, limits>>

\* The frame is synced before the record that counts it is published.
WCommit ==
    /\ wpc = "appended"
    /\ SyncSamples
    /\ Publish(loc)
    /\ wpc' = "sampling"
    /\ UNCHANGED <<now, up, requests, degraded, active, job, mu, sub, cur, loc,
                   todo, leases, dir, tmp, samples, arc, limits>>

\* One of the three calls failed and CollectWindow returns that error. A failed
\* Append may leave all of its record in the file, uncounted; a failed Sync
\* leaves a frame that is counted already and that nobody syncs again.
WFrameFail ==
    /\ \/ /\ wpc = "sampling" /\ Fault /\ UNCHANGED <<tasks, rec>>              \* Append
          /\ (loc.src < MaxFrames /\ GrowSamples) \/ UNCHANGED <<samples, tail>>
       \/ wpc = "appended" /\ Fault /\ UNCHANGED <<tasks, rec, samples, tail>>  \* Sync
       \/ wpc = "appended" /\ SyncSamples /\ PublishFail(loc) /\ UNCHANGED samples
    /\ loc' = Flagged(loc)
    /\ wpc' = "collected"
    /\ UNCHANGED <<now, up, requests, degraded, active, job, mu, sub, cur, todo,
                   leases, dir, tmp, arc, issued, crashes>>

\* The window is over, with or without an atop error or missed points; the
\* outcome of this publish is ignored.
WEndWindow ==
    /\ wpc \in {"sampling", "collected"}
    /\ \E e \in {loc.errs, TRUE} :
         loc' = Packaging(loc, e)
    /\ \/ Publish(loc') /\ UNCHANGED faults
       \/ PublishFail(loc')
    /\ wpc' = "finish"
    /\ UNCHANGED <<now, up, requests, degraded, active, job, mu, sub, cur, todo,
                   leases, dir, tmp, samples, tail, arc, issued, crashes>>

FinalState(t) == IF t.state = "interrupted" THEN "interrupted"
                 ELSE IF t.src = 0 THEN "failed"
                 ELSE IF t.errs THEN "partial" ELSE "completed"

Finished(t) == [EndTimes(t) EXCEPT !.phase = "finished", !.state = FinalState(t)]

WFinish ==
    /\ wpc = "finish"
    /\ loc' = Finished(loc)
    /\ wpc' = "archive"
    /\ UNCHANGED <<now, up, memory, mu, sub, cur, todo, leases, disk, limits>>

\* A missing samples.jsonl is created empty.
CountFrames(n) == IF n = NoFile THEN 0 ELSE n

\* archive creates what is missing, writes, verifies and publishes the package.
WArchive ==
    /\ wpc = "archive"
    /\ samples' = [samples EXCEPT ![cur] = CountFrames(@)]
    /\ arc' = [arc EXCEPT ![cur] = "good"]
    /\ loc' = Packaged(loc)
    /\ wpc' = "publish"
    /\ UNCHANGED <<now, up, memory, mu, sub, cur, todo, leases, dir, tmp, rec, tail, limits>>

\* Mutant: the result is offered although there is no package.
UnpackagedOffered(t) == [t EXCEPT !.avail = TRUE, !.errs = TRUE]

Unpackaged(t) == [t EXCEPT !.avail = FALSE, !.errs = TRUE,
                           !.state = IF @ = "interrupted" THEN @ ELSE "failed"]

\* store.Publish removes an old package before the rename and may fail after it;
\* a record that an earlier failure cut short makes coverage fail, see Collect.
WArchiveFail ==
    /\ wpc = "archive"
    /\ \/ Fault /\ arc' \in {arc, [arc EXCEPT ![cur] = "none"], [arc EXCEPT ![cur] = "good"]}
       \/ faults > 0 /\ loc.errs /\ UNCHANGED <<arc, faults>>
    /\ loc' = Unpackaged(loc)
    /\ wpc' = "publish"
    /\ UNCHANGED <<now, up, memory, mu, sub, cur, todo, leases, dir, tmp, rec,
                   samples, tail, issued, crashes>>

WPublish ==
    /\ wpc = "publish"
    /\ \/ Publish(loc) /\ wpc' = "release" /\ UNCHANGED faults
       \/ PublishFail(loc) /\ wpc' = "retract"
    /\ UNCHANGED <<now, up, requests, degraded, active, job, mu, sub, cur, loc,
                   todo, leases, dir, tmp, samples, tail, arc, issued, crashes>>

\* finish takes a.mu again to withdraw the result it could not commit.
WRetract ==
    /\ wpc = "retract" /\ mu = "free"
    /\ tasks' = [tasks EXCEPT ![cur] = Withdrawn(@)]
    /\ wpc' = "release"
    /\ UNCHANGED <<now, up, requests, degraded, active, job, mu, sub, cur, loc,
                   todo, leases, disk, limits>>

\* The deferred function of runWindow: the agent accepts tasks again.
WRelease ==
    /\ up = "up" /\ wpc = "release" /\ mu = "free"
    /\ active' = NoId
    /\ wpc' = "idle" /\ cur' = NoId /\ loc' = NoTask
    /\ UNCHANGED <<now, up, tasks, requests, degraded, job, mu, sub, todo,
                   leases, disk, limits>>

-----------------------------------------------------------------------------
(* cleanup, by the idle worker or at the end of recover. a.mu is held, so  *)
(* nobody else reads the clock and Tick may wait for its end.              *)

Stale == {i \in Ids : /\ tasks[i] # NoTask /\ tasks[i].state # "running"
                      /\ TaskExpired(tasks[i]) \/ ResultExpired(tasks[i])}

\* A sweep that finds nothing to delete is left out.
HasWork(id) == \/ TaskExpired(tasks[id]) \/ id \in tmp \/ samples[id] # NoFile
               \/ arc[id] # "none" /\ id \notin pending

CleanupBegin ==
    /\ mu = "free"
    /\ \/ up = "up" /\ wpc = "idle" /\ \E id \in Stale : HasWork(id)
       \/ up = "recovering" /\ wpc = "recover" /\ todo = {}
    /\ mu' = "cleanup" /\ wpc' = "cleanup" /\ todo' = Stale
    /\ UNCHANGED <<now, up, memory, sub, cur, loc, leases, disk, limits>>

\* Files of tasks/<id>.
Empty(id) == id \notin tmp /\ rec[id] = NoTask /\ samples[id] = NoFile /\ arc[id] = "none"

\* Mutant: the task goes when its result expires.
ExpiringEarly(id) == id \in todo /\ ResultExpired(tasks[id])

Expiring(id) == id \in todo /\ TaskExpired(tasks[id])

DropSamples(id) ==
    /\ samples' = [samples EXCEPT ![id] = NoFile]
    /\ tail' = [tail EXCEPT ![id] = "synced"]

\* RemoveTask deletes the files one by one, in the order readdir returned them.
DropFile(id) ==
    \/ id \in tmp /\ tmp' = tmp \ {id} /\ UNCHANGED <<rec, samples, tail, arc>>
    \/ rec[id] # NoTask /\ rec' = [rec EXCEPT ![id] = NoTask]
         /\ UNCHANGED <<tmp, samples, tail, arc>>
    \/ samples[id] # NoFile /\ DropSamples(id) /\ UNCHANGED <<tmp, rec, arc>>
    \/ arc[id] # "none" /\ arc' = [arc EXCEPT ![id] = "none"]
         /\ UNCHANGED <<tmp, rec, samples, tail>>

CleanupFile(id) ==
    /\ wpc = "cleanup" /\ Expiring(id) /\ dl.id # id
    /\ DropFile(id)
    /\ UNCHANGED <<now, up, memory, mu, sub, worker, leases, dir, limits>>

\* Mutant: the request index keeps the removed task.
ForgetTaskOnly(id) ==
    /\ tasks' = [tasks EXCEPT ![id] = NoTask]
    /\ UNCHANGED requests

Forget(id) ==
    /\ tasks' = [tasks EXCEPT ![id] = NoTask]
    /\ requests' = [r \in Reqs |-> IF requests[r] = id THEN NoId ELSE requests[r]]

CleanupTask(id) ==
    /\ wpc = "cleanup" /\ Expiring(id)
    /\ \/ dl.id # id /\ Empty(id) /\ dir' = dir \ {id} /\ UNCHANGED removed
       \/ dl.id = id /\ removed' = removed \cup {id} /\ UNCHANGED dir   \* leased
    /\ Forget(id)
    /\ todo' = todo \ {id}
    /\ UNCHANGED <<now, up, degraded, active, job, mu, sub, wpc, cur, loc, dl,
                   pending, tmp, rec, samples, tail, arc, limits>>

CleanupFail(id) ==
    /\ wpc = "cleanup" /\ Expiring(id) /\ Fault
    /\ todo' = todo \ {id}
    /\ UNCHANGED <<now, up, memory, mu, sub, wpc, cur, loc, leases, disk, issued, crashes>>

\* The result is too old but its task is not: everything but task.json goes.
CleanupResult(id) ==
    /\ wpc = "cleanup" /\ id \in todo /\ ~TaskExpired(tasks[id])
    /\ tmp' = tmp \ {id}
    /\ DropSamples(id)
    /\ IF dl.id = id
         THEN pending' = pending \cup {id} /\ UNCHANGED arc
         ELSE arc' = [arc EXCEPT ![id] = "none"] /\ UNCHANGED pending
    /\ todo' = todo \ {id}
    /\ UNCHANGED <<now, up, memory, mu, sub, wpc, cur, loc, dl, removed, dir, rec, limits>>

CleanupEnd ==
    /\ wpc = "cleanup" /\ todo = {}
    /\ mu' = "free" /\ wpc' = "idle" /\ up' = "up"
    /\ UNCHANGED <<now, memory, sub, cur, loc, todo, leases, disk, limits>>

-----------------------------------------------------------------------------
(* download: the lease is taken under a.mu, the digest is checked after.   *)

DownloadOpen(id) ==
    /\ up = "up" /\ mu = "free" /\ dl = NoDownload
    /\ tasks[id] # NoTask /\ tasks[id].state # "running" /\ tasks[id].avail
    /\ ~TaskExpired(tasks[id]) /\ ~ResultExpired(tasks[id])
    /\ arc[id] # "none"
    /\ dl' = [id |-> id, stage |-> "open"]
    /\ UNCHANGED <<now, up, memory, mu, sub, worker, pending, removed, disk, limits>>

\* Digest mismatch: the result is withdrawn; a failed persist is ignored.
DownloadCorrupt ==
    /\ dl.stage = "open" /\ arc[dl.id] = "bad" /\ mu = "free"
    /\ tasks[dl.id] # NoTask
    /\ LET t == Withdrawn(tasks[dl.id])
       IN  /\ tasks' = [tasks EXCEPT ![dl.id] = t]
           /\ \/ rec' = [rec EXCEPT ![dl.id] = t] /\ UNCHANGED faults
              \/ Fault /\ LostWrite(dl.id, t)
    /\ UNCHANGED <<now, up, requests, degraded, active, job, mu, sub, worker,
                   leases, dir, tmp, samples, tail, arc, issued, crashes>>

\* Mutant: Close does not look at removedDirs.
DownloadCloseOnly ==
    /\ dl.stage = "open"
    /\ arc' = IF dl.id \in pending THEN [arc EXCEPT ![dl.id] = "none"] ELSE arc
    /\ pending' = pending \ {dl.id} /\ dl' = NoDownload
    /\ UNCHANGED <<now, up, memory, mu, sub, worker, removed, dir, tmp, rec, samples, tail,
                   limits>>

\* leasedFile.Close: the deletions that waited for the lease. A package that
\* cannot be deleted stays, and is no longer waited for.
DownloadClose ==
    /\ dl.stage = "open"
    /\ \/ /\ arc' = IF dl.id \in pending THEN [arc EXCEPT ![dl.id] = "none"] ELSE arc
          /\ UNCHANGED faults
       \/ dl.id \in pending /\ Fault /\ UNCHANGED arc
    /\ pending' = pending \ {dl.id}
    /\ dl' = IF dl.id \in removed THEN [dl EXCEPT !.stage = "purge"] ELSE NoDownload
    /\ UNCHANGED <<now, up, memory, mu, sub, worker, removed, dir, tmp, rec, samples, tail,
                   issued, crashes>>

PurgeFile ==
    /\ dl.stage = "purge"
    /\ DropFile(dl.id)
    /\ UNCHANGED <<now, up, memory, mu, sub, worker, leases, dir, limits>>

PurgeDir ==
    /\ dl.stage = "purge" /\ Empty(dl.id)
    /\ dir' = dir \ {dl.id} /\ removed' = removed \ {dl.id} /\ dl' = NoDownload
    /\ UNCHANGED <<now, up, memory, mu, sub, worker, pending, tmp, rec, samples, tail, arc,
                   limits>>

\* A file or the directory cannot be deleted: Close returns the error, and the
\* directory of a task nobody knows any more stays until a restart finds it.
PurgeFail ==
    /\ dl.stage = "purge" /\ Fault
    /\ dl' = NoDownload
    /\ UNCHANGED <<now, up, memory, mu, sub, worker, pending, removed, disk, issued, crashes>>

-----------------------------------------------------------------------------
(* Crash and recover.                                                      *)

\* Frames that a power loss takes now: of those that were never synced, any.
PowerLoss ==
    \E lost \in SUBSET {i \in Ids : tail[i] = "volatile"} :
        /\ samples' = [i \in Ids |-> IF i \in lost /\ samples[i] > 0 THEN samples[i] - 1
                                                                   ELSE samples[i]]
        /\ tail' = [i \in Ids |-> IF i \in lost THEN "lost" ELSE tail[i]]

\* The process dies, alone or with the kernel.
Crash ==
    /\ up # "down" /\ crashes < MaxCrashes
    /\ crashes' = crashes + 1 /\ up' = "down"
    /\ tasks' = [i \in Ids |-> NoTask] /\ requests' = [r \in Reqs |-> NoId]
    /\ degraded' = FALSE /\ active' = NoId /\ job' = NoId
    /\ mu' = "free" /\ sub' = NoSub
    /\ wpc' = "off" /\ cur' = NoId /\ loc' = NoTask /\ todo' = {}
    /\ dl' = NoDownload /\ pending' = {} /\ removed' = {}
    /\ PowerLoss
    /\ UNCHANGED <<now, dir, tmp, rec, arc, issued, faults>>

Recorded == {i \in Ids : rec[i] # NoTask}

\* The valid records that claim r.
Claims(r) == {i \in Recorded : rec[i].req = r /\ ~TaskExpired(rec[i])}

\* Mutant: a record that cannot be read is skipped.
SuspectSkip(lost) ==
    \/ \E i \in dir : rec[i] = NoTask /\ ~Empty(i)
    \/ \E r \in Reqs : \E i, j \in Claims(r) \ lost : i # j

\* Reasons to stop admission.
Suspect(lost) ==
    \/ lost # {}
    \/ \E i \in dir : rec[i] = NoTask /\ ~Empty(i)
    \/ \E r \in Reqs : \E i, j \in Claims(r) \ lost : i # j

\* recover's first loop. An empty directory is removed; one with files but no
\* task.json, a record that cannot be read and a request claimed twice stop
\* admission.
RecoverLoad ==
    /\ up = "down"
    /\ up' = "recovering" /\ wpc' = "recover"
    /\ dir' = {i \in dir : ~Empty(i)}
    /\ \E lost \in SUBSET Recorded :
         /\ IF lost = {} THEN UNCHANGED faults ELSE Fault
         /\ todo' = Recorded \ lost
         /\ tasks' = [i \in Ids |-> IF i \in lost THEN NoTask ELSE rec[i]]
         /\ requests' = [r \in Reqs |->
                           IF \E i \in Ids : Claims(r) \ lost = {i}
                           THEN CHOOSE i \in Ids : Claims(r) \ lost = {i} ELSE NoId]
         /\ degraded' = Suspect(lost)
    /\ UNCHANGED <<now, active, job, mu, sub, cur, loc, leases, tmp, rec,
                   samples, tail, arc, issued, crashes>>

Visiting(id) == wpc = "recover" /\ id \in todo

\* A task found running was interrupted; its end is dated and persisted before
\* the package is rebuilt.
RecoverInterrupt(id) ==
    /\ Visiting(id) /\ tasks[id].state = "running"
    /\ LET t == Interrupted(tasks[id])
       IN  \/ /\ rec' = [rec EXCEPT ![id] = t]
              /\ cur' = id /\ loc' = t /\ wpc' = "repair"
              /\ UNCHANGED <<tasks, degraded, todo, faults>>
           \/ /\ Fault /\ LostWrite(id, t)
              /\ tasks' = [tasks EXCEPT ![id] = t]
              /\ degraded' = TRUE
              /\ todo' = todo \ {id}
              /\ UNCHANGED <<cur, loc, wpc>>
    /\ UNCHANGED <<now, up, requests, active, job, mu, sub, leases, dir, tmp,
                   samples, tail, arc, issued, crashes>>

\* The agent died while it rebuilt this package.
RecoverResume(id) ==
    /\ Visiting(id) /\ tasks[id].state = "interrupted" /\ tasks[id].phase = "packaging"
    /\ cur' = id /\ loc' = tasks[id] /\ wpc' = "repair"
    /\ UNCHANGED <<now, up, memory, mu, sub, todo, leases, disk, limits>>

\* Mutant: repair goes on to count although samples.jsonl is missing.
RecountedMissing(t, n) == Counted(t, n)

\* What repair leaves of t: it counts the complete frames on disk, and keeps
\* the counts of the record if samples.jsonl is missing.
Recounted(t, n) == IF n = NoFile THEN t ELSE Counted(t, n)

\* repairAndFinish. A failure may come before or after the counts are taken.
RecoverRepair ==
    /\ wpc = "repair"
    /\ \/ /\ samples' = [samples EXCEPT ![cur] = CountFrames(@)]
          /\ loc' = Recounted(loc, samples[cur])
          /\ \/ UNCHANGED <<degraded, faults>>
             \/ Fault /\ degraded' \in {degraded, TRUE}   \* history or errors.jsonl
       \/ /\ Fault
          /\ loc' \in {Flagged(loc), Flagged(Recounted(loc, samples[cur]))}
          /\ degraded' = TRUE
          /\ UNCHANGED samples
    /\ wpc' = "finish"
    /\ UNCHANGED <<now, up, tasks, requests, active, job, mu, sub, cur, todo,
                   leases, dir, tmp, rec, tail, arc, issued, crashes>>

\* The crash tore the last line of samples.jsonl: the complete lines replace the
\* file, which is set aside first.
RecoverSetAside ==
    /\ wpc = "repair" /\ samples[cur] # NoFile /\ Fault
    /\ samples' = [samples EXCEPT ![cur] = NoFile]
    /\ tail' = [tail EXCEPT ![cur] = IF @ = "volatile" THEN "synced" ELSE @]
    /\ loc' = Flagged(Recounted(loc, samples[cur]))
    /\ wpc' = "replace"
    /\ UNCHANGED <<now, up, memory, mu, sub, cur, todo, leases, dir, tmp, rec, arc,
                   issued, crashes>>

RecoverReplace ==
    /\ wpc = "replace"
    /\ \/ samples' = [samples EXCEPT ![cur] = loc.src] /\ UNCHANGED <<loc, degraded, faults>>
       \/ Fault /\ loc' = Flagged(loc) /\ degraded' = TRUE /\ UNCHANGED samples
    /\ wpc' = "finish"
    /\ UNCHANGED <<now, up, tasks, requests, active, job, mu, sub, cur, todo,
                   leases, dir, tmp, rec, tail, arc, issued, crashes>>

\* The end of the loop body stores the local copy once more.
RecoverStore ==
    /\ up = "recovering" /\ wpc = "release"
    /\ tasks' = [tasks EXCEPT ![cur] = loc]
    /\ todo' = todo \ {cur}
    /\ wpc' = "recover" /\ cur' = NoId /\ loc' = NoTask
    /\ UNCHANGED <<now, up, requests, degraded, active, job, mu, sub, leases, disk, limits>>

\* A finished task: its package is verified while it can still be downloaded.
RecoverVerify(id) ==
    /\ Visiting(id) /\ tasks[id].state # "running"
    /\ ~(tasks[id].state = "interrupted" /\ tasks[id].phase = "packaging")
    /\ IF tasks[id].avail /\ ~ResultExpired(tasks[id]) /\ arc[id] # "good"
         THEN LET t == Withdrawn(tasks[id])
              IN  /\ tasks' = [tasks EXCEPT ![id] = t]
                  /\ \/ rec' = [rec EXCEPT ![id] = t] /\ UNCHANGED <<degraded, faults>>
                     \/ Fault /\ LostWrite(id, t) /\ degraded' = TRUE
         ELSE UNCHANGED <<tasks, rec, degraded, faults>>
    /\ todo' = todo \ {id}
    /\ UNCHANGED <<now, up, requests, active, job, mu, sub, wpc, cur, loc,
                   leases, dir, tmp, samples, tail, arc, issued, crashes>>

-----------------------------------------------------------------------------
(* The environment.                                                        *)

Tick == /\ now < MaxTime /\ mu # "cleanup"
        /\ now' = now + 1
        /\ UNCHANGED <<up, memory, mu, sub, worker, leases, disk, limits>>

\* A package on disk is damaged from outside.
Damage(id) ==
    /\ arc[id] = "good" /\ Fault
    /\ arc' = [arc EXCEPT ![id] = "bad"]
    /\ UNCHANGED <<now, up, memory, mu, sub, worker, leases, dir, tmp, rec,
                   samples, tail, issued, crashes>>

Submit   == (\E r \in Reqs, id \in Ids : SubmitMkdir(r, id))
SubmitGo == SubmitWrite \/ SubmitAccept \/ SubmitFail
Run      == \/ WTake \/ WPrepare \/ WPrepareFail \/ WAppend \/ WCommit \/ WFrameFail
            \/ WEndWindow \/ WFinish \/ WArchive \/ WArchiveFail \/ WPublish
            \/ WRetract \/ WRelease
Cleanup  == \/ CleanupBegin \/ CleanupEnd
            \/ \E id \in Ids : CleanupFile(id) \/ CleanupTask(id) \/ CleanupFail(id)
                                 \/ CleanupResult(id)
Download == (\E id \in Ids : DownloadOpen(id)) \/ DownloadCorrupt
Release  == DownloadClose \/ PurgeFile \/ PurgeDir \/ PurgeFail
Recover  == \/ RecoverLoad \/ RecoverRepair \/ RecoverSetAside \/ RecoverReplace \/ RecoverStore
            \/ \E id \in Ids : RecoverInterrupt(id) \/ RecoverResume(id) \/ RecoverVerify(id)

Next == \/ Submit \/ SubmitGo \/ Run \/ Cleanup \/ Download \/ Release \/ Recover
        \/ Crash \/ Tick \/ (\E id \in Ids : Damage(id))

\* Goroutines that can run do run, and systemd restarts the service. A client
\* may never ask, and no fault, crash or passage of time is promised.
\* The worker looks at a.jobs first after every sweep, so a queued task is
\* taken although sweeps recur.
Fairness == /\ WF_vars(SubmitGo) /\ WF_vars(Run) /\ SF_vars(WTake)
            /\ WF_vars(Cleanup) /\ WF_vars(Release) /\ WF_vars(Recover)

Spec == Init /\ [][Next]_vars
FairSpec == Spec /\ Fairness
-----------------------------------------------------------------------------
(* Properties.                                                             *)

\* The types of the agent's variables: an id, a record or a count is never
\* missing where the code uses it.
TypeOK ==
    /\ now \in Nat /\ up \in {"down", "recovering", "up"}
    /\ tasks \in [Ids -> Task \cup {NoTask}] /\ requests \in [Reqs -> Ids \cup {NoId}]
    /\ degraded \in BOOLEAN /\ active \in Ids \cup {NoId} /\ job \in Ids \cup {NoId}
    /\ mu \in {"free", "submit", "cleanup"}
    /\ sub \in [req: Reqs, id: Ids \cup {NoId}, stage: {"none", "made", "written"}]
    /\ wpc \in {"off", "idle", "prepare", "sampling", "appended", "collected", "finish",
                "archive", "publish", "retract", "release", "cleanup", "recover", "repair",
                "replace"}
    /\ cur \in Ids \cup {NoId} /\ loc \in Task \cup {NoTask} /\ todo \subseteq Ids
    /\ dl \in [id: Ids \cup {NoId}, stage: {"none", "open", "purge"}]
    /\ pending \subseteq Ids /\ removed \subseteq Ids
    /\ dir \subseteq Ids /\ tmp \subseteq Ids /\ rec \in [Ids -> Task \cup {NoTask}]
    /\ samples \in [Ids -> Nat \cup {NoFile}] /\ tail \in [Ids -> {"synced", "volatile", "lost"}]
    /\ arc \in [Ids -> {"none", "good", "bad"}]
    /\ issued \subseteq Ids /\ faults \in Nat /\ crashes \in Nat

\* What recover's validTask demands of a record: it would stop admission on the
\* next start otherwise.
ValidRecords ==
    \A i \in Ids : rec[i] # NoTask => (rec[i].state = "running" <=> rec[i].ended = NoTime)

\* While the agent admits tasks, every task whose retention has not passed is
\* the one its request id leads to: a repeated Submit finds it, before and
\* after restarts, and no request id has two valid tasks in memory.
RequestIndex ==
    ~degraded => \A i \in Ids : tasks[i] # NoTask /\ ~TaskExpired(tasks[i])
                                  => requests[tasks[i].req] = i

\* An entry of the request index leads to a task of that request; Submit would
\* answer with a zero Task otherwise (a.tasks[id] of a missing key).
IndexSound ==
    \A r \in Reqs : requests[r] # NoId =>
        tasks[requests[r]] # NoTask /\ tasks[requests[r]].req = r

\* What a client can see of a valid task is backed by a task.json of the same
\* request, so an accepted request survives a crash at any moment.
BackedByDisk ==
    \A i \in Ids : tasks[i] # NoTask /\ ~TaskExpired(tasks[i])
        => rec[i] # NoTask /\ rec[i].req = tasks[i].req

\* A running agent that admits tasks knows every record on its disk, save those
\* it has already given up and only keeps for a download in progress.
NoForgottenRecord ==
    up = "up" /\ ~degraded => \A i \in Ids : rec[i] # NoTask => tasks[i] # NoTask \/ i \in removed

\* A task shown as running is the active one, and it is queued or in the hands
\* of the worker: the send to a.jobs under a.mu cannot block, and no task is
\* left running with nobody to finish it.
OneActive ==
    up = "up" =>
        /\ \A i \in Ids : tasks[i] # NoTask /\ tasks[i].state = "running" => i = active
        /\ active # NoId => (job = active) # (cur = active)
        /\ active = NoId => job = NoId /\ cur = NoId

\* A durable record that offers a result has its package on disk until the
\* result expires: the package is published before the record.
ResultBacked ==
    \A i \in Ids : rec[i] # NoTask /\ rec[i].avail /\ ~ResultExpired(rec[i]) => arc[i] # "none"

\* Complete frames of task i that survive a power loss now.
Surviving(i) == samples[i] - (IF tail[i] = "volatile" THEN 1 ELSE 0)

\* A durable record that reports no error never counts a frame that a power loss
\* could still take: the frame is synced before the record that counts it is
\* published. After a failed Sync the count is published all the same, but then
\* the record carries the storage error, in every later state and over restarts.
FramesDurable ==
    \A i \in Ids : rec[i] # NoTask /\ ~rec[i].errs /\ samples[i] # NoFile
        => rec[i].src <= Surviving(i)

\* The end of a task is dated once and its outcome is decided once: later
\* restarts neither extend its retention nor change its state.
EndedOnce ==
    [][\A i \in Ids : rec[i] # NoTask /\ rec[i].ended # NoTime /\ rec'[i] # NoTask
          => rec'[i].ended = rec[i].ended /\ rec'[i].state = rec[i].state]_vars

\* A live agent forgets a task, and its task.json disappears, only after the
\* task's retention has passed.
RetentionHonoured ==
    [][\A i \in Ids :
         /\ tasks[i] # NoTask /\ tasks'[i] = NoTask /\ up' # "down" => TaskExpired(tasks[i])
         /\ rec[i] # NoTask /\ rec'[i] = NoTask
              => i \in removed \/ (tasks[i] # NoTask /\ TaskExpired(tasks[i]))]_vars

\* Every recorded task comes to an end that a running agent reports, whatever
\* crashes and failed writes come before; an agent that does not know the task
\* says so by refusing admission.
AcceptedTaskEnds ==
    \A i \in Ids : rec[i] # NoTask /\ rec[i].state = "running"
        ~> up = "up" /\ IF tasks[i] = NoTask THEN degraded \/ rec[i] = NoTask
                                             ELSE tasks[i].state # "running"

\* The directory of an expired task goes away, unless the process dies or a
\* deletion fails first. A sweep that failed keeps the task and tries again, so
\* the promise is renewed; after a failed deletion in a reader's Close the task
\* is forgotten already and nobody does.
ExpiredTaskRemoved ==
    \A i \in Ids, n \in 0 .. MaxFaults :
        up = "up" /\ tasks[i] # NoTask /\ TaskExpired(tasks[i]) /\ faults = n
            ~> i \notin dir \/ up = "down" \/ faults > n

\* docs/design/agent-technical-design.md: a result may be downloaded only when
\* the terminal record that offers it is committed.
DownloadCommitted ==
    [][\A i \in Ids : dl.id # i /\ dl'.id = i => rec[i] # NoTask /\ rec[i].avail]_vars

\* The same document: one request id never has two valid tasks at a time.
OneValidTask ==
    up = "up" => \A i, j \in Ids :
        /\ tasks[i] # NoTask /\ ~TaskExpired(tasks[i])
        /\ tasks[j] # NoTask /\ ~TaskExpired(tasks[j])
        /\ tasks[i].req = tasks[j].req
        => i = j

\* The same document: recovery keeps every complete record that was synced. So
\* the data that goes into a package holds what the durable record counts, unless
\* a power loss took a frame whose Sync had failed.
RecordedFramesKept ==
    wpc = "archive" /\ tail[cur] # "lost" => CountFrames(samples[cur]) >= rec[cur].src

\* boundary_test.go: metadata goes last, since data without its task.json is an
\* orphan that no restart can handle.
NoOrphanAtStart ==
    wpc = "recover" => \A i \in dir :
        samples[i] # NoFile \/ arc[i] # "none" => rec[i] # NoTask
=============================================================================
