# A TLA+ model of the deitysight agent

deitysight is a single-binary Go agent. A client asks it over HTTP to sample a
host with `atop` for a while; the agent writes the frames to disk, packages
them, serves the package for download, optionally copies it to an S3 bucket
or a YOS namespace, keeps a short background history between tasks,
and forgets everything after two retention times. It runs unattended, may be
killed at any moment, works within a byte budget and must come back after a
restart with the same answers. This project models that machinery in TLA+,
checks it with TLC on small instances and proves its safety properties with
TLAPS for all of them.

## 1. The system

All state is in the process and in one directory (`storage.path`); there is one
process per directory (flock). Sources are under `src/internal/agent` unless a
path says otherwise.

| Component | State it keeps | Operations | Correct means |
|---|---|---|---|
| Task life cycle, admission (`agent.go`, `window_task.go`, `types.go`) | `a.tasks`, `a.requests`, `a.active`, `a.degraded`, the channel `a.jobs` (capacity 1); `tasks/<id>/task.json` | `Submit`, `worker`, `runWindow`, `finish`, `publish`, `cleanup` | a request id has one valid task; an accepted task survives crashes, comes to one dated end, and is forgotten only when its retention is over |
| Archive and recovery (`archive.go`) | `samples.jsonl`, `result.tar.gz` | `archive`, `recover`, `repair`, `repairAndFinish` | what was synced is packaged; every record on disk is known again or admission stops |
| HTTP API (`http.go`) | 32 request slots | submit, get, download, health | a download gets a verified package, and the package stays while it is read |
| Store (`store.go`) | `s.used`, `s.reserve`, `s.leases`, `s.pending`, `s.removedDirs` | `Atomic`, `Append`, `Publish`, `Remove`, `RemoveTask`, `Lease`, `Close` | the account equals the disk, the budget holds, leased files stay, given-up directories go |
| Transfer to S3 (`s3_worker.go`, `s3_client.go`, `s3_types.go`) | `Task.Result.S3` in memory and in `task.json`; objects and multipart uploads in the bucket | `uploadWorker`, `nextUpload`, `transfer`, `storeTransfer`, `retryTransfer`, `Check`, `Put`, `Abort` | reported as uploaded means it is there and on record; no parts are left that nobody knows of |
| Transfer to YOS (`yos_client.go`) | none | `Check`, `Put`, `Presign` | as S3, without conditional writes |
| Atop collector, stream parser (`atop_window.go`, `scenarios.go`) | a child process; the frame being parsed | `CollectWindow`, `ParseAtopStream` | only complete frames come out, in time order; a window is complete exactly when all planned frames came |
| Background history (`agent.go`, `window_task.go`) | `background/*.jsonl`, `a.bgCancel` | `backgroundWindow`, `pruneBackground`, `freezeHistory` | a task preempts it; only complete frames are kept |
| Point sampling (`agent.go`) | schedule | `run`, `collect`, `waitPoint` | reached by tests only: the program installs the window collector |
| Configuration, sandbox, wiring (`config.go`, `internal/sandbox`, `cmd/deitysight`) | none that changes | load, validate, start | - |

How they interact: HTTP handlers, the worker and the upload worker are
goroutines that share the maps under `a.mu` and the store under `s.mu`. `a.mu`
may be held while `s.mu` is taken, never the other way round. The worker
releases `a.mu` between its steps and carries a private copy of its task; the
upload worker does the same with a copy of the transfer; a download holds a
lease on the package without any lock. `leasedFile.Close` calls `RemoveTask`,
so a reader may be the one that deletes a directory.

What is hard: three copies of each task (disk, map, private copy) that differ
whenever a write fails; crashes between any two writes, and inside the recovery
from an earlier crash; a rename that happened although the call reported an
error; readers, sweeps and uploads that race to delete one directory; remote
calls that take effect without an answer; a child process that may hang, die or
stop in the middle of a frame, and a window whose outcome is computed from
several counters. `PROJECT.json` lists these hazards
at their lines with the properties aimed at them.

## 2. The modules

| Module | Models | Lines it stands for |
|---|---|---|
| `Agent` | life cycle, archive, recovery, download, cleanup | `agent.go`, `window_task.go`, `archive.go`, `http.go` |
| `Store` | the byte account, leases, removal of directories | `store.go` and its callers |
| `LeaseSpec` | what the store promises its readers; `Store` implements it | abstract |
| `Transfer` | the upload worker, its records, the bucket | `s3_worker.go`, `s3_client.go`, `yos_client.go`, `s3_types.go` |
| `AtopStream` | the plan of a window and the stream parser, as operators, with a reference definition | `scenarios.go`, `config.go` |
| `Collect` | the worker's loop, atop sessions for tasks and for the background, their sinks and the outcome; extends `AtopStream` | `atop_window.go`, `window_task.go`, `agent.go`, `archive.go` |
| `MCAgent`, `MCStore`, `MCTransfer`, `MCCollect` | the instances for TLC (symmetry sets) | |
| `AgentProofs`, `AgentLifeProofs` | proofs about `Agent`: identity and durability of tasks; their life and results | |
| `StoreProofs`, `StoreBudgetProofs`, `StoreLeaseProofs` | proofs about `Store`: leases and removal; the account; the refinement of `LeaseSpec` | |
| `TransferProofs`, `CollectProofs` | proofs about `Transfer` and `Collect` | |
| `FoldTheorems` | what the folds of the community modules compute, used by `StoreBudgetProofs` and `CollectProofs` | |

`PROJECT.json` maps every definition to the lines it translates. Each module
begins with the list of its simplifications.

**Agent.** `tasks`, `requests`, `degraded`, `active` and `job` are the fields
of the Go struct; `rec`, `samples`, `arc`, `tmp` and `dir` are the files of
`tasks/<id>`, `tail` says whether the last frame of `samples.jsonl` is synced;
`wpc`, `cur`, `loc` and `todo` are the control point and the
local variables of the goroutine that runs, sweeps or recovers (before the
worker starts, `newAgent` is that goroutine, so one set of variables is
enough). `mu` records who holds `a.mu` across several steps: `Submit`, whose
`store.Atomic` is split into the write of the temporary file and the rename,
and `cleanup`, which deletes file by file. A step that holds `a.mu` throughout
is one action guarded by `mu = "free"`. Time is a counter; `EndTimes` dates
the end and both expiries follow from it. Every write may fail, before or
after its rename. `Crash` may come between any two actions; it may be a power
loss, which takes any frame that was never synced. `runWindow` counts a frame
before it syncs it, and after a failed `Sync` it publishes the count and does
not sync again (`WFrameFail`), so such a frame stays volatile to the end of the
task and may be lost by any later crash. A failed `Append` may leave a whole
frame that is not counted. A deletion in the `RemoveTask` of a reader's `Close`
may fail like any other (`DownloadClose`, `PurgeFail`); the task is forgotten by
then. `RecoverLoad` is `recover`'s
first loop, the other `Recover...` actions one iteration of the second; both
then share `finish` (`WFinish` to `WRetract`) with the worker, as in the code.

**Store.** The granularity is a critical section of `s.mu`. A directory holds
one file of each kind. `rm[t]` is the position of goroutine `t` in
`RemoveTask`: scan for leases, list, remove one file after the other, rmdir.
The sweeping worker is one such goroutine (it holds `a.mu`, see `MuFree`);
every reader becomes one when it closes a file of a directory that was given
up. The upload worker takes its lease without `a.mu`, after it chose the task
under it, so it may lease a package of a task that is already forgotten.

**LeaseSpec.** The same store for a reader who knows nothing of lease counts,
`pending`, `removedDirs` or the steps of `RemoveTask`: a package is put in
place or taken away only when nobody reads it, a directory disappears in one
step, empty, and together with its task. `Store` instantiates it with the mapping
`Leases` (a reader is a handle in stage `open`, the content of a package its
size); `LeaseRefinement` says that every behaviour of `Store`, its crashes and
failed system calls included, is one of `LeaseSpec`.

**Transfer.** `mem` and `disk` are the transfer's part of the task in memory
and in `task.json`, `object` and `uploads` the bucket, `w` the upload worker:
one action per remote call and per call of `storeTransfer`, each of which may
fail before or after it took effect. `Finish`, `CleanResult`, `CleanTask`,
`Withdraw` and `Restart` are what the rest of the agent does to the same
record. `Intrude` is another writer of the bucket, at any time: also between
`Check` and the request that creates the object. Tasks of `Yos` go through a
client that overwrites and has no multipart uploads; the size of a package
(`big`) is known at its end, and one too large for YOS is `unavailable`.
`conf` is the configured target: a restart may find another one or none, and
`Accept` records the current one with the task. `Shown` and `Paused` are what
`resultView` makes of a record, `ValidRecord` is `S3Result.valid`, on which the
next start depends. `Commit` and `Record` are two steps, because the deadline
is looked at before the success is written.

**AtopStream.** `ParseAtopStream` with its locals as a record (`ParserStart`,
`Accepts`, `After`, `AtEnd`). A line is `RESET`, `SEP`, a row known by label,
epoch and whether it describes a thread, or `Junk`, which stands for every line
that a check of its own text rejects. The reference (`MayFollow`, `Emitted`,
`EndsWell`) describes the same language over the whole stream: the first frame
starts after `RESET`, every frame has one epoch, later than all before it, and
every label its scenes require. `Schedule`, `PointCount` and `Samples` are the
three places of the code that compute how many points a window has.

**Collect.** `pc` is the worker: `poll` and `select` are the two `select`
statements of its loop, the others the positions in `runWindow`,
`backgroundWindow` and the collector under them. `active` and the cancelled
context are what `Submit`, on its own thread, does to a running background
session. `child` is atop, which is external: it writes any line within the
bounds, exits with any status after any line, or hangs. `par` and `read` are
the parser, `out` the file that its records reach, `task` the counters of
`runWindow`, `history` the files in `background/`. `Coverage` and `Repair` read
`out` back as packaging and recovery do. An append that fails leaves nothing, a
part of its record (`torn`) or all of it, with or without its newline (`stray`);
`Acknowledged` are the records whose append succeeded, which `runWindow` counts,
`Scanned` those that repair's scanner returns. What `Agent` models as `WAppend`,
`WCommit` and `WEndWindow` (a frame that comes or does not) is opened up here;
what `Agent` says of a task's life around its window is closed here.

The S3 service, atop, the clock, process death and damage to stored files are
outside `src/`; their actions are marked external.

## 3. The runs

Bounds are the constants of the `.cfg` files. All of them bound the
environment (time, ids, faults, crashes), so every behaviour ends in a state
where nothing is left to happen; deadlock checking is off for that reason,
except in `collect`, whose worker never stops.

| Run | Checks | Result |
|---|---|---|
| `agent_safety` | `TypeOK ValidRecords RequestIndex IndexSound BackedByDisk NoForgottenRecord OneActive ResultBacked FramesDurable EndedOnce RetentionHonoured` | holds, 2.9 M states |
| `agent_liveness` | `AcceptedTaskEnds ExpiredTaskRemoved` | holds, 195 k states |
| `store_safety` | `TypeOK Accounted WithinBudget LeaseBacked PendingHeld NothingStranded KnownIsLive`, and under fairness `RemovedGoes`; `LeaseRefinement` | holds, 349 k states |
| `transfer_safety` | `TypeOK UploadedIsThere UploadedIsDurable PartsRecorded CommittedBeforeSending TransferIsFinal ForeignKept` | holds, 3.7 M states |
| `transfer_liveness` | `TransferEnds UploadsCleared` | holds, 420 k states |
| `collect` | `TypeOK StreamReference CountsAgree HistoryWhole BackgroundYields CompletedIsWhole WholeWindowCompletes`, and under fairness `ActiveEnds CleanupNotStarved` | holds, 147 k states |
| `agent_two_valid` | `OneValidTask` | violated |
| `agent_orphan` | `NoOrphanAtStart` | violated |
| `agent_uncommitted_download` | `DownloadCommitted` | violated |
| `agent_lost_frames` | `RecordedFramesKept` | violated |
| `store_packaging` | `PackagingFits` | violated |
| `collect_torn` | `TruncatedIsPartial` | violated |

What the passing runs show. `agent_safety`: two ids that compete for one
request id, results that live for one clock value and tasks for two, four
clock values, one failed or damaged write and two crashes. That is enough for
a task to be accepted, sampled, packaged, downloaded, expired and replaced by
a second one, with a crash in the middle of the recovery from another crash.
`store_safety`: one directory, two downloads, the upload worker and the
sweeper (four goroutines in `RemoveTask` at once), writes of one or two bytes
against a budget of five, one failed system call, one restart. A second
directory shares only the budget with the first. `transfer_safety`: a package
for S3, small or large, and one for YOS, two faults, one restart under either
target, two multipart uploads per task, so that an upload can be abandoned and
a second one started. `transfer_liveness`: one package for S3 with four
uploads, since each failed attempt may use one up, and a restart that may find
S3 switched off. `collect`: requests of two and of three points, one with a
step that does not divide its window and threads included, one that is refused
for too many points; two scenes, one whose rows may be absent; three epochs,
seven lines of a session (eight give the same result) and three rows of a frame:
a window of two or three complete frames, or complete frames and a cut one, with
every order of lines in between. Sessions and crashes are not counted, so the
loop runs for ever and its liveness is checked over unbounded repetitions.

What the violated runs show, each a document, comment or test of the
repository that the code does not meet:

- `agent_two_valid`: when the write of the terminal record fails, the old
  record stays `running` on disk. Memory forgets the task by age, the same
  request is accepted again, and after a restart both are valid. The agent
  notices (`degraded`) and refuses new tasks from then on.
- `agent_orphan`: `RemoveTask` deletes in the order of `readdir`, so
  `task.json` may go before the data. A crash then leaves a directory that no
  start can handle, and the agent refuses tasks.
- `agent_uncommitted_download`: a result can be fetched between the failed
  write of its record and its withdrawal.
- `agent_lost_frames`: a damaged `samples.jsonl` is moved aside before its
  replacement is moved in; a crash in between makes the next recovery start
  from an empty file.
- `store_packaging`: `Atomic` does not respect `metadataReserve`, so a growing
  `task.json` can use up the room that `Append` wants while the package is
  written. The instance has records shorter than the reserve, as in the code
  (64 KiB), and the trace is the plain one: a task is accepted, its capture
  begins, one record is appended up to the limit, and the next `task.json` is
  one byte longer.
- `collect_torn`: an append that fails half-way leaves a cut record at the end
  of `samples.jsonl`. A restart would repair the file and package the frames
  before it; the running process cannot read it and reports `failed`. (The
  design document allows `failed` when nothing can be packaged; the README
  promises `partial` while there is a usable frame.)

Seen while modelling and not counted as findings: a crash inside the first
write of `Submit` leaves only `task.json.<uuid>.tmp`, which is enough for the
next start to stop admission (this is in `Agent`: `Suspect`); the comment of
`storeTransfer` calls it the only asynchronous mutation of a task, but
`download` is another one (in `Transfer`: `Withdraw`); `paused` is never reset
with the window collector and only feeds `/v1/health`; an upload whose
checkpoint failed after the rename may be left in the bucket without parts; a
foreign object under the key makes `transfer` return before it aborts an
upload left by an earlier attempt, which then stays until the result expires
(`UploadsCleared` says so); after a failed `Sync` the frame's count is published
although nothing makes the frame durable, with the error beside it
(`FramesDurable` says so); a failed deletion in a reader's `Close` leaves the
directory of a forgotten task, and its bytes in the budget, until a restart
(`ExpiredTaskRemoved` and `NothingStranded` except it); a failed append can leave
a whole record, so that the manifest's coverage has one frame more than the
task's counters (`CountsAgree` says by how much).

### Fairness

- `Agent`: goroutines that can run do run (Go's scheduler), also in a `Submit`,
  a download that closes (the HTTP server has a write timeout of two minutes,
  `cmd/deitysight/main.go`) and a recovery; a killed agent is restarted by
  systemd (`deploy/deitysight.service`, `Restart=on-failure`). `WTake` is
  strongly fair because `worker` looks at `a.jobs` before anything else after
  each sweep. Nothing is assumed of clients, faults, crashes or the clock.
- `Store`: a goroutine inside `RemoveTask` goes on, and readers close their
  file (write timeout; deadline of a transfer).
- `Transfer`: the upload worker's steps (ticker of one second, deadlines on
  every call), the end of recovery. Every waiting task is chosen in the end,
  because `nextUpload` takes the one that has waited longest.
- `Collect`: the worker's own steps go on, the context's deadline passes, and a
  child whose context has ended is killed (`exec.CommandContext`, `WaitDelay`).
  atop itself owes nothing: it may hang for ever. The cleanup tick is strongly
  fair, because Go's `select` picks at random among the channels that are ready
  and the tick stays in its channel.

### Mutants

Every property of a passing run has a mutant: an operator, defined just above
the one it replaces, that changes it the way a plausible bug would (a guard
dropped, a record published too early, a reset forgotten). With the mutant in
place TLC finds the property violated under the same configuration.

## 4. The proofs

Every invariant and every action property of the passing runs is a theorem: the
run shows it on one instance, the theorem for any number of ids, requests,
directories, readers, faults, crashes, time stamps and lines of a stream. So is the refinement of `LeaseSpec`. The theorems
are listed in `PROJECT.json`.

What is assumed is in the `ASSUME` of each model, which TLC evaluates:
`ConstAssumption` (the retention of results is positive and not longer than
that of tasks, as `config.go` demands), `StoreAssumption` (finitely many
directories, sizes are numbers), `TransferAssumption` (there is a task to
transfer, the tasks for YOS are among them) and `CollectAssumption` with
`SceneAssumption` (windows and steps are numbers; what a scene requires is
asked of atop).

Hardly any of the properties is inductive alone, because a goroutine acts on
what it read before it released a lock. Each invariant below says what a
goroutine may still rely on at each of its control points; all of them were
checked with TLC on the instances of the runs before they were proved. A proof
that a step keeps an invariant has one lemma per part and one case per action.

| Module | Inductive invariant | Theorems (property) |
|---|---|---|
| `AgentProofs` | `IInv` | `TypeCorrect`, `SubmitIdempotent` (`RequestIndex`), `IndexIsSound`, `AcceptedIsDurable` (`BackedByDisk`), `DiskIsKnown` (`NoForgottenRecord`), `RetentionKept` (`RetentionHonoured`) |
| `AgentLifeProofs` | `IInv /\ LInv` | `RecordsAreValid`, `OneTaskAtATime` (`OneActive`), `OfferedIsThere` (`ResultBacked`), `CountedIsDurable` (`FramesDurable`), `EndIsFinal` (`EndedOnce`) |
| `StoreProofs` | `SInv`, `DInv` | `StoreTypes`, `LeasesProtect` (`LeaseBacked`), `DeferredHasReader` (`PendingHeld`), `ServedStays` (`KnownIsLive`), `DeletionsAreFollowed` (`NothingStranded`) |
| `StoreBudgetProofs` | `BInv` | `EveryByteAccounted` (`Accounted`), `BudgetKept` (`WithinBudget`) |
| `StoreLeaseProofs` | `BInv` | `StoreImplementsLeases` (`LeaseRefinement`) |
| `TransferProofs` | `TInv` | `TransferTypes`, `SuccessIsThere` (`UploadedIsThere`), `SuccessIsDurable` (`UploadedIsDurable`), `PartsCanBeAborted` (`PartsRecorded`), `NothingSentUncommitted` (`CommittedBeforeSending`), `ForeignIsKept` (`ForeignKept`), `OverIsFinal` (`TransferIsFinal`) |
| `CollectProofs` | `CInv`, `OInv`, `RInv` | `CollectTypes`, `ParserMeetsReference` (`StreamReference`), `HistoryIsWhole` (`HistoryWhole`), `BackgroundGivesWay` (`BackgroundYields`), `EvidenceCountsAgree` (`CountsAgree`), `CompletedMeansWhole` (`CompletedIsWhole`), `WholeMeansCompleted` (`WholeWindowCompletes`), `PlanAgrees` |

- `IInv` adds to the properties: `SubmitInv` (the request is still unclaimed and
  nothing is active while `Submit` writes), `WorkerInv` (the private copy
  belongs to a known task, with its request and its dated end; in a running
  agent it is the active task), `LoopInv` (the loops of `recover` and `cleanup`
  visit known tasks), `DownloadInv` (a directory left to a reader is forgotten),
  `IssuedInv` (an id in use was handed out, so a new one is free) and
  `RecordInv`. `TaskEdits` states what all edits of a task have in common.
- `LInv` is about the three copies of a task. `Copies`: each of them by itself
  is dated exactly when it is not running. `Custody`: a task shown as running is
  in the hands of one thread, or recovery will still visit it. `Agreement`: an
  end that reached the disk is the one the map shows, or the one the thread is
  about to show; this is what makes a second `finish` after a crash keep the
  first end. `Offers`: a package disappears only for a task whose result has
  expired, or while no record offers it. `Frames`: a record without an error
  counts synced frames only. For that, the worker has synced what it counts or
  has an error to report at each of its positions (`Counts`), and whatever
  recovery writes carries an error from its first record on (`Told`,
  `Rebuilt`), because it may count a frame that was never synced.
- `SInv` adds `Owned`: a reader removes only directories the agent has
  forgotten, and a directory that is not live is empty. `DInv` adds `Orderly`:
  without faults, a goroutine that deletes the files of a directory has nothing
  but a leased package left outside its list. Without it, a goroutine could
  finish its list and leave a file that nobody will come back for.
- `BInv`: with the leases, `s.used` is the sum of all sizes and stays within the
  budget. A reader that carries out a deferred deletion credits what
  `s.pending` says, so `Accounted` needs `PendingHeld`.
- `StoreImplementsLeases` needs `LeaseBacked`, because `LeaseSpec` speaks of
  readers and `Store` of counts, and the budget, because `LeaseSpec` bounds the
  size of a package.
- `TInv`: `Twins` (memory and disk have the same tasks), `PartsKept` (parts in
  the bucket belong to a finished task, and *both* records name their upload, so
  that a write that fails half way or a restart cannot lose the id) and `Course`
  (what the worker's earlier calls have established at each of its positions).
- `CInv`: `Filing` relates the parser to the file between two records, from
  which it follows that a separator ends a whole frame. `OInv` adds what the
  counters of `runWindow` say about the two folds that read the file back:
  `RepairOf(task)` and `CoverOf(task)` are the complete results of the folds,
  not only the totals, so that one appended record is one step of each
  (`Backed`, `CountStep`). After a failed append that left its record, the
  counters still back the file without it, and counters one step ahead back the
  whole file; no record follows.
  `Parsing` and `Outcome` carry this to the end of the window, where
  `PlanAgrees` (the three ways of counting the points of a window agree for
  every window and step) decides whether it is whole. `RInv` adds `Reading`: the
  parser keeps six locals and forgets the lines it has read, and `Heard` says
  what the locals still know of them (whether a frame is open, its epoch, the
  labels kept, that closed frames are older). That is enough to decide every
  later line as the reference does, which looks at the whole stream
  (`HeardAgrees`), and `Heard` is kept by every line (`HeardStep`). `EmitStep`
  does the same for the records in the file.

`Accounted`, `Coverage` and `Repair` are folds (`SumFunction`, `FoldLeft`).
What a fold computes is proved in `FoldTheorems` for any operation, start and
order, by an induction in first-order form: a finite, non-empty set of
counterexamples has a smallest one. Each use is an `INSTANCE` with the operation
substituted.

Only model-checked:

- liveness (`AcceptedTaskEnds`, `ExpiredTaskRemoved`, `RemovedGoes`,
  `TransferEnds`, `UploadsCleared`, `ActiveEnds`, `CleanupNotStarved`), which is
  out of the prover's reach;
- the violated runs, whose result is a counterexample.

## 5. Plan

Done, in this order: `Agent` with its runs, `Store`, `Transfer`, `AgentProofs`,
`StoreProofs`; then `AtopStream` and `Collect`, `Transfer` with YOS, other
writers and changed targets, `LeaseSpec` and its refinement; then the other
proof modules. The reference output of the parser is stated by the positions of
the kept lines (`Emitted`) and not with `SelectSeq`, which the provers cannot
expand.

Left: the safety arguments under the liveness properties (that the measures they
rest on never grow) could be stated and proved; the liveness itself stays with
TLC.

Not modelled: point sampling (`run`, `collect`, `background` and `waitPoint`
for a collector without windows), which the shipped program never reaches;
authentication, JSON parsing, request slots and presigned links, which change
no task; loading of the configuration; the tar and gzip encoding (one step that
succeeds or fails); the seccomp filter, the wiring in `main` and the
integration scripts.
