-------------------------- MODULE AgentLifeProofs --------------------------
(***************************************************************************)
(* Further proofs about Agent: one task at a time, an end that is dated    *)
(* and decided once, a package behind every offered result, frames that    *)
(* are durable before they are counted.                                    *)
(*                                                                         *)
(* All of them depend on how the three copies of a task differ while a     *)
(* thread works on it, a write has failed or a restart has interrupted it. *)
(* LInv says so, given the invariant of AgentProofs:                       *)
(*  - Copies: what each copy is by itself;                                 *)
(*  - Custody: who may change a running task;                              *)
(*  - Agreement: where the record on disk, the map and the private copy    *)
(*    must have the same end;                                              *)
(*  - Offers: what keeps the package of an offered result;                 *)
(*  - Frames: what the counts of the three copies promise.                 *)
(***************************************************************************)
EXTENDS AgentProofs

\* A task that is not running has an end, and offers its result only then.
Sound(t) == /\ t.state = "running" <=> t.ended = NoTime
            /\ t.avail => t.ended # NoTime /\ t.phase = "finished"

\* Positions at which finish has not packaged the task yet, and those after.
Early == {"prepare", "sampling", "appended", "collected", "finish", "repair", "replace"}
Late  == {"publish", "retract", "release"}

\* Those of runWindow itself.
Sampling == {"prepare", "sampling", "appended", "collected"}

SoundCopies == \A i \in Ids : /\ tasks[i] # NoTask => Sound(tasks[i])
                              /\ rec[i] # NoTask => Sound(rec[i])

OwnCopy ==
    /\ wpc \in Holding => Sound(loc)
    /\ wpc \in Early \cup {"archive"} => ~loc.avail
    /\ wpc \in Late \cup {"archive"} => loc.ended # NoTime /\ loc.phase = "finished"
    /\ wpc \in {"repair", "replace"} => loc.ended # NoTime

Copies == SoundCopies /\ OwnCopy

\* A thread that holds no task has none in its hands.
Hands == /\ wpc \notin Holding => cur = NoId
         /\ up = "up" /\ wpc \notin Holding => active = job

\* A task shown as running is the active one, or recover will visit it.
Running ==
    \A i \in Ids : tasks[i] # NoTask /\ tasks[i].state = "running" =>
        /\ up = "up" => i = active
        /\ up = "recovering" => /\ wpc # "cleanup"
                                /\ i \in todo \/ (wpc \in Holding /\ i = cur)

\* The worker's task is shown as running until finish publishes its end.
Shown ==
    /\ wpc \in Sampling => up = "up"
    /\ up = "up" /\ wpc \in Early => loc.state = "running"
    /\ up = "up" /\ wpc \in Holding /\ wpc \notin {"retract", "release"} =>
         tasks[cur].state = "running"
    /\ wpc \in {"retract", "release"} =>
         /\ tasks[cur].state = loc.state /\ tasks[cur].ended = loc.ended
         /\ tasks[cur].src = loc.src

\* Only a finished task is downloaded, or one that cleanup has given up.
Opened ==
    /\ dl.stage = "none" => dl.id = NoId
    /\ dl.stage = "open" => \/ dl.id \in removed
                            \/ Known(dl.id) /\ tasks[dl.id].state # "running"

Custody == Hands /\ Running /\ Shown /\ Opened

\* u has the end of t.
SameEnd(t, u) == u.ended = t.ended /\ u.state = t.state

\* An end that is on disk is the one the map shows, or the one the thread that
\* holds the task is about to show; before finish it can only be recover's.
Ended ==
    \A i \in Ids : rec[i] # NoTask /\ rec[i].ended # NoTime =>
        /\ Known(i) /\ ~(wpc \in Holding /\ i = cur) => SameEnd(rec[i], tasks[i])
        /\ wpc \in Holding /\ i = cur =>
             /\ SameEnd(rec[i], loc)
             /\ wpc \in Early \cup {"archive"} => rec[i].state = "interrupted"

\* Before finish publishes, the disk does not offer the result.
Unoffered == wpc \in Early \cup {"archive", "publish"} /\ rec[cur] # NoTask => ~rec[cur].avail

\* A task being admitted has no record yet.
Fresh == mu = "submit" => rec[sub.id] = NoTask

\* recover has not changed a task before it visits it.
Unvisited ==
    up = "recovering" /\ wpc # "cleanup" =>
        \A i \in todo : ~(wpc \in Holding /\ i = cur) => tasks[i] = rec[i]

Agreement == Ended /\ Unoffered /\ Fresh /\ Unvisited

\* cleanup's loop holds tasks that are old enough.
Sweep == wpc = "cleanup" => \A i \in todo : TaskExpired(tasks[i]) \/ ResultExpired(tasks[i])

\* A result waits for its deletion only while it is downloaded.
Leased == pending # {} => up = "up" /\ pending = {dl.id} /\ dl.stage = "open"

\* The package is on disk before the record that offers it.
Packed == wpc = "publish" /\ loc.avail => arc[cur] # "none"

\* What waits for the end of a download is expired.
Waiting == \A i \in Ids : rec[i] # NoTask /\ rec[i].avail /\ i \in removed \cup pending =>
              ResultExpired(rec[i])

Offers == Sweep /\ Leased /\ Packed /\ Waiting /\ ResultBacked

\* A queued task has no frames.
Queued == job # NoId => tasks[job].src = 0 /\ (rec[job] # NoTask => rec[job].src = 0)

\* A task has no samples.jsonl before the worker takes it.
Blank ==
    /\ \A i \in Ids : i \notin issued => samples[i] = NoFile
    /\ mu = "submit" => samples[sub.id] = NoFile
    /\ job # NoId => samples[job] = NoFile

\* A frame that is not synced is in its file.
Grounded == \A i \in Ids : tail[i] = "volatile" => samples[i] > 0

\* A record of an interrupted task says so among its errors.
Told == \A i \in Ids : rec[i] # NoTask /\ rec[i].state = "interrupted" => rec[i].errs

\* What recover rebuilds carries an error, in the private copy and on disk.
Rebuilt ==
    up = "recovering" /\ wpc \in Holding =>
        /\ loc.errs /\ (rec[cur] # NoTask => rec[cur].errs)
        /\ wpc = "replace" => tail[cur] # "volatile"

\* The worker counts what it appends, and has synced what it counts or has an
\* error to report.
Counts ==
    up = "up" /\ wpc \in Holding =>
        /\ loc.state # "interrupted"
        /\ wpc = "prepare" => loc.src = 0 /\ samples[cur] = NoFile
        /\ wpc \in {"sampling", "appended"} => samples[cur] = loc.src
        /\ wpc = "sampling" => tail[cur] # "volatile"
        /\ wpc = "appended" => tail[cur] = "volatile"
        /\ wpc = "collected" => loc.errs
        /\ wpc \in {"finish", "archive"} \cup Late =>
             loc.errs \/ (samples[cur] # NoFile /\ loc.src <= Surviving(cur))
        /\ samples[cur] = NoFile /\ rec[cur] # NoTask => rec[cur].src = 0 \/ rec[cur].errs

Frames == Queued /\ Blank /\ Grounded /\ Told /\ Rebuilt /\ Counts /\ FramesDurable

LInv == Copies /\ Custody /\ Agreement /\ Offers /\ Frames

-----------------------------------------------------------------------------
(* What the agent does to a task, field by field.                          *)

USE DEF memory, worker, leases, disk, limits, vars

\* v has the fields of t that decide its end, and its count.
Same(t, v) == /\ v \in Task /\ v.state = t.state /\ v.ended = t.ended /\ v.src = t.src

\* Flags, a withdrawn package and packaging leave a task's end and count alone; a
\* package that cannot be made turns a success into a failure and nothing else.
LEMMA Fields ==
    ASSUME NEW t \in Task, now \in Nat
    PROVE  /\ Same(t, Flagged(t)) /\ Flagged(t).phase = t.phase /\ Flagged(t).avail = t.avail
           /\ Same(t, Withdrawn(t)) /\ Withdrawn(t).phase = t.phase /\ ~Withdrawn(t).avail
           /\ Same(t, Packaged(t)) /\ Packaged(t).phase = t.phase
           /\ Unpackaged(t).ended = t.ended /\ Unpackaged(t).phase = t.phase
           /\ Unpackaged(t).src = t.src /\ ~Unpackaged(t).avail
           /\ Unpackaged(t).state = IF t.state = "interrupted" THEN "interrupted" ELSE "failed"
           /\ \A e \in BOOLEAN : Same(t, Packaging(t, e)) /\ Packaging(t, e).avail = t.avail
<1> USE DEF Same
<1>1. Same(t, Flagged(t)) /\ Flagged(t).phase = t.phase /\ Flagged(t).avail = t.avail
  BY DEF Flagged, Task
<1>2. Same(t, Withdrawn(t)) /\ Withdrawn(t).phase = t.phase /\ ~Withdrawn(t).avail
  <2>1. Withdrawn(t) \in Task
    BY TaskEdits DEF Keeps
  <2> QED
    BY <2>1 DEF Withdrawn, Task
<1>3. Same(t, Packaged(t)) /\ Packaged(t).phase = t.phase
  BY DEF Packaged, Task
<1>4. /\ Unpackaged(t).ended = t.ended /\ Unpackaged(t).phase = t.phase
      /\ Unpackaged(t).src = t.src /\ ~Unpackaged(t).avail
      /\ Unpackaged(t).state = IF t.state = "interrupted" THEN "interrupted" ELSE "failed"
  BY DEF Unpackaged, Task
<1>5. \A e \in BOOLEAN : Same(t, Packaging(t, e)) /\ Packaging(t, e).avail = t.avail
  <2> TAKE e \in BOOLEAN
  <2>1. Packaging(t, e) \in Task
    BY TaskEdits DEF Keeps
  <2> QED
    BY <2>1 DEF Packaging, Task
<1> QED
  BY <1>1, <1>2, <1>3, <1>4, <1>5

\* An ended task has a terminal state and a time of its end, the first one set.
LEMMA EndFields ==
    ASSUME NEW t \in Task, now \in Nat
    PROVE  /\ Finished(t).state = FinalState(t) /\ Finished(t).state # "running"
           /\ Finished(t).ended = (IF t.ended = NoTime THEN now ELSE t.ended)
           /\ Finished(t).ended # NoTime /\ Finished(t).phase = "finished"
           /\ Finished(t).src = t.src /\ Finished(t).avail = t.avail
           /\ Interrupted(t).state = "interrupted"
           /\ Interrupted(t).ended = (IF t.ended = NoTime THEN now ELSE t.ended)
           /\ Interrupted(t).ended # NoTime /\ Interrupted(t).phase = "packaging"
           /\ Interrupted(t).src = t.src /\ Interrupted(t).avail = t.avail
<1> DEFINE u == EndTimes(t)
<1>1. /\ u \in Task /\ u.state = t.state /\ u.phase = t.phase /\ u.src = t.src
      /\ u.avail = t.avail /\ u.ended = (IF t.ended = NoTime THEN now ELSE t.ended)
  BY DEF EndTimes, Task
<1>2. u.ended # NoTime
  BY <1>1 DEF NoTime
<1>3. FinalState(t) # "running"
  BY DEF FinalState
<1>4. /\ Finished(t) = [u EXCEPT !.phase = "finished", !.state = FinalState(t)]
      /\ Interrupted(t) = [u EXCEPT !.state = "interrupted", !.errs = TRUE, !.phase = "packaging"]
  BY DEF Finished, Interrupted
<1> HIDE DEF u
<1> QED
  BY <1>1, <1>2, <1>3, <1>4 DEF Task

\* Counting the frames, at run time or in recovery, touches only the count.
LEMMA CountFields ==
    ASSUME NEW t \in Task
    PROVE  /\ \A n \in Nat : /\ Counted(t, n) \in Task /\ SameEnd(t, Counted(t, n))
                             /\ Counted(t, n).src = n /\ Counted(t, n).phase = t.phase
                             /\ Counted(t, n).avail = t.avail
           /\ \A n \in Nat \cup {NoFile} :
                /\ Recounted(t, n) \in Task /\ SameEnd(t, Recounted(t, n))
                /\ Recounted(t, n).phase = t.phase /\ Recounted(t, n).avail = t.avail
<1>1. \A n \in Nat : /\ Counted(t, n) \in Task /\ SameEnd(t, Counted(t, n))
                     /\ Counted(t, n).src = n /\ Counted(t, n).phase = t.phase
                     /\ Counted(t, n).avail = t.avail
  BY DEF Counted, Task, SameEnd
<1> QED
  BY <1>1 DEF Recounted, NoFile, SameEnd

-----------------------------------------------------------------------------
(* The copies, each by itself.                                             *)

\* What step proofs use of the invariants about the maps and the private copy.
LEMMA Held ==
    ASSUME IInv, LInv
    PROVE  /\ now \in Nat /\ tasks \in [Ids -> Task \cup {NoTask}]
           /\ rec \in [Ids -> Task \cup {NoTask}] /\ NoTask \notin Task
           /\ samples \in [Ids -> Nat \cup {NoFile}] /\ arc \in [Ids -> {"none", "good", "bad"}]
           /\ SoundCopies /\ OwnCopy
           /\ wpc \in Holding => cur \in Ids /\ loc \in Task /\ Sound(loc) /\ loc # NoTask
BY ConstAssumption DEF IInv, LInv, TypeOK, WorkerInv, Copies, OwnCopy

\* Every step keeps the copies sound: publish writes a sound private copy, and
\* the end is dated before finish or recover makes a state final.
LEMMA SoundStep ==
    ASSUME IInv, LInv, [Next]_vars
    PROVE  SoundCopies'
<1>3. ASSUME Submit \/ SubmitWrite \/ Tick \/ DownloadClose \/ PurgeDir \/ PurgeFail \/ UNCHANGED vars
             \/ WTake \/ WPrepareFail \/ WAppend \/ WFinish
      PROVE  UNCHANGED <<tasks, rec>>
  BY <1>3 DEF Submit, SubmitMkdir, SubmitWrite, Tick, DownloadClose, PurgeDir, PurgeFail,
     WTake, WPrepareFail, WAppend, WFinish
<1>4. ASSUME WArchive \/ WArchiveFail \/ WRelease \/ CleanupBegin \/ CleanupEnd
             \/ RecoverRepair \/ RecoverSetAside \/ RecoverReplace
      PROVE  UNCHANGED <<tasks, rec>>
  BY <1>4 DEF WArchive, WArchiveFail, WRelease, CleanupBegin, CleanupEnd,
     RecoverRepair, RecoverSetAside, RecoverReplace
<1>5. ASSUME NEW id \in Ids, CleanupFail(id) \/ CleanupResult(id) \/ DownloadOpen(id)
                               \/ Damage(id) \/ RecoverResume(id)
      PROVE  UNCHANGED <<tasks, rec>>
  BY <1>5 DEF CleanupFail, CleanupResult, DownloadOpen, Damage, RecoverResume
<1> USE ConstAssumption, Held
<1>1. ASSUME UNCHANGED <<tasks, rec>> PROVE SoundCopies'
  BY <1>1 DEF SoundCopies
<1>2. ASSUME NEW i \in Ids, NEW u, u # NoTask => Sound(u),
             tasks' = tasks \/ tasks' = [tasks EXCEPT ![i] = u],
             rec' = rec \/ rec' = [rec EXCEPT ![i] = u]
      PROVE  SoundCopies'
  <2> SUFFICES ASSUME NEW j \in Ids
               PROVE  /\ tasks'[j] # NoTask => Sound(tasks'[j])
                      /\ rec'[j] # NoTask => Sound(rec'[j])
    BY DEF SoundCopies
  <2>1. tasks'[j] = tasks[j] \/ tasks'[j] = u
    BY <1>2
  <2>2. rec'[j] = rec[j] \/ rec'[j] = u
    BY <1>2
  <2> QED
    BY <1>2, <2>1, <2>2 DEF SoundCopies
<1>6. ASSUME SubmitAccept \/ SubmitFail PROVE SoundCopies'
  <2>1. sub.id \in Ids
    BY <1>6 DEF SubmitAccept, SubmitFail, IInv, SubmitInv
  <2>2. Sound(NewTask(sub.req))
    BY DEF Sound, NewTask
  <2>3. /\ tasks' = tasks \/ tasks' = [tasks EXCEPT ![sub.id] = NewTask(sub.req)]
        /\ rec' = rec \/ rec' = [rec EXCEPT ![sub.id] = NewTask(sub.req)]
    BY <1>6 DEF SubmitAccept, SubmitFail
  <2> QED
    BY <2>1, <2>2, <2>3, <1>2
<1>7. ASSUME WPrepare \/ WCommit \/ WFrameFail \/ WPublish \/ RecoverStore PROVE SoundCopies'
  <2>1. cur \in Ids /\ Sound(loc)
    BY <1>7 DEF WPrepare, WCommit, WFrameFail, WPublish, RecoverStore, Holding
  <2>2. /\ tasks' = tasks \/ tasks' = [tasks EXCEPT ![cur] = loc]
        /\ rec' = rec \/ rec' = [rec EXCEPT ![cur] = loc]
    BY <1>7 DEF WPrepare, WCommit, WFrameFail, WPublish, RecoverStore, Publish, PublishFail, LostWrite
  <2> QED
    BY <2>1, <2>2, <1>2
<1>8. CASE WEndWindow
  <2>1. PICK e \in {loc.errs, TRUE} : loc' = Packaging(loc, e)
    BY <1>8 DEF WEndWindow
  <2>2. wpc \in Holding /\ wpc \in Early
    BY <1>8 DEF WEndWindow, Holding, Early
  <2>3. cur \in Ids /\ loc \in Task /\ Sound(loc) /\ ~loc.avail
    BY <2>2 DEF OwnCopy
  <2>4. e \in BOOLEAN
    BY <2>1, <2>3 DEF Task
  <2>5. Same(loc, loc') /\ loc'.avail = loc.avail
    BY <2>1, <2>3, <2>4, Fields
  <2>6. Sound(loc')
    BY <2>3, <2>5 DEF Sound, Same
  <2>7. /\ tasks' = tasks \/ tasks' = [tasks EXCEPT ![cur] = loc']
        /\ rec' = rec \/ rec' = [rec EXCEPT ![cur] = loc']
    BY <1>8 DEF WEndWindow, Publish, PublishFail, LostWrite
  <2> QED
    BY <2>3, <2>6, <2>7, <1>2
<1>9. ASSUME NEW i \in Ids, Known(i), LET u == Withdrawn(tasks[i]) IN
             /\ tasks' = tasks \/ tasks' = [tasks EXCEPT ![i] = u]
             /\ rec' = rec \/ rec' = [rec EXCEPT ![i] = u]
      PROVE  SoundCopies'
  <2>1. tasks[i] \in Task /\ Sound(tasks[i])
    BY <1>9 DEF Known, SoundCopies
  <2>2. Sound(Withdrawn(tasks[i]))
    BY <2>1, Fields DEF Same, Sound
  <2> QED
    BY <1>9, <2>2, <1>2
<1>10. CASE WRetract
  <2>1. cur \in Ids /\ Known(cur)
    BY <1>10 DEF WRetract, Holding, IInv, WorkerInv
  <2> QED
    BY <1>10, <2>1, <1>9 DEF WRetract
<1>11. CASE DownloadCorrupt
  <2>1. dl.id \in Ids /\ Known(dl.id)
    BY <1>11 DEF DownloadCorrupt, IInv, DownloadInv, Known
  <2> QED
    BY <1>11, <2>1, <1>9 DEF DownloadCorrupt, LostWrite
<1>12. ASSUME NEW id \in Ids, RecoverVerify(id) PROVE SoundCopies'
  <2>1. Known(id)
    BY <1>12 DEF RecoverVerify, Visiting, IInv, LoopInv
  <2> QED
    BY <1>12, <2>1, <1>9 DEF RecoverVerify, LostWrite
<1>13. ASSUME NEW id \in Ids, RecoverInterrupt(id) PROVE SoundCopies'
  <2> DEFINE t == Interrupted(tasks[id])
  <2>1. Known(id) /\ tasks[id].state = "running"
    BY <1>13 DEF RecoverInterrupt, Visiting, IInv, LoopInv
  <2>2. tasks[id] \in Task /\ ~tasks[id].avail
    BY <2>1 DEF Known, SoundCopies, Sound
  <2>3. Sound(t)
    BY <2>2, EndFields DEF Sound
  <2>4. /\ tasks' = tasks \/ tasks' = [tasks EXCEPT ![id] = t]
        /\ rec' = rec \/ rec' = [rec EXCEPT ![id] = t]
    BY <1>13 DEF RecoverInterrupt, LostWrite
  <2> HIDE DEF t
  <2> QED
    BY <2>3, <2>4, <1>2
<1>14. ASSUME NEW id \in Ids, CleanupFile(id) \/ CleanupTask(id) PROVE SoundCopies'
  <2>1. /\ tasks' = tasks \/ tasks' = [tasks EXCEPT ![id] = NoTask]
        /\ rec' = rec \/ rec' = [rec EXCEPT ![id] = NoTask]
    BY <1>14 DEF CleanupFile, DropFile, CleanupTask, Forget
  <2> QED
    BY <2>1, <1>2
<1>15. CASE PurgeFile
  <2>1. dl.id \in Ids
    BY <1>15 DEF PurgeFile, IInv, DownloadInv
  <2>2. tasks' = tasks /\ (rec' = rec \/ rec' = [rec EXCEPT ![dl.id] = NoTask])
    BY <1>15 DEF PurgeFile, DropFile
  <2> QED
    BY <2>1, <2>2, <1>2
<1>16. CASE RecoverLoad
  <2>1. UNCHANGED rec /\ \A i \in Ids : tasks'[i] = NoTask \/ tasks'[i] = rec[i]
    BY <1>16 DEF RecoverLoad
  <2> QED
    BY <2>1 DEF SoundCopies
<1>17. CASE Crash
  BY <1>17 DEF Crash, SoundCopies
<1> QED
  BY <1>1, <1>3, <1>4, <1>5, <1>6, <1>7, <1>8, <1>10, <1>11, <1>12, <1>13, <1>14, <1>15, <1>16,
     <1>17 DEF Next, SubmitGo, Run, Cleanup, Download, Release, Recover

\* The private copy is dated before it is final and offered only once packaged.
LEMMA OwnStep ==
    ASSUME IInv, LInv, [Next]_vars
    PROVE  OwnCopy'
<1>3. ASSUME Submit \/ SubmitGo \/ Release \/ Tick \/ DownloadCorrupt \/ UNCHANGED vars
      PROVE  UNCHANGED <<wpc, loc>>
  BY <1>3 DEF Submit, SubmitMkdir, SubmitGo, SubmitWrite, SubmitAccept, SubmitFail,
     Release, DownloadClose, PurgeFile, PurgeDir, PurgeFail, Tick, DownloadCorrupt
<1>4. ASSUME NEW id \in Ids, CleanupFile(id) \/ CleanupTask(id) \/ CleanupFail(id)
               \/ CleanupResult(id) \/ DownloadOpen(id) \/ Damage(id) \/ RecoverVerify(id)
      PROVE  UNCHANGED <<wpc, loc>>
  BY <1>4 DEF CleanupFile, CleanupTask, CleanupFail, CleanupResult, DownloadOpen, Damage,
     RecoverVerify
<1> USE ConstAssumption, Held DEF Holding, Early, Late
<1>1. ASSUME UNCHANGED <<wpc, loc>> PROVE OwnCopy'
  BY <1>1 DEF OwnCopy
<1>2. ASSUME wpc' \in {"off", "idle", "cleanup", "recover"} PROVE OwnCopy'
  BY <1>2 DEF OwnCopy
<1>5. ASSUME WRelease \/ CleanupBegin \/ CleanupEnd \/ Crash \/ RecoverLoad \/ RecoverStore
      PROVE  OwnCopy'
  BY <1>5, <1>2 DEF WRelease, CleanupBegin, CleanupEnd, Crash, RecoverLoad, RecoverStore
<1>6. CASE WTake
  <2>1. Known(job) /\ tasks[job].ended = NoTime /\ job \in Ids
    BY <1>6 DEF WTake, IInv, WorkerInv
  <2>2. loc' = tasks[job] /\ wpc' = "prepare"
    BY <1>6 DEF WTake
  <2>3. Sound(tasks[job])
    BY <2>1 DEF SoundCopies, Known
  <2> QED
    BY <2>1, <2>2, <2>3 DEF OwnCopy, Sound
<1>7. ASSUME wpc \in Early, wpc' \in Early, SameEnd(loc, loc'), loc'.avail = loc.avail,
             wpc \in {"repair", "replace"} \/ wpc' \notin {"repair", "replace"}
      PROVE  OwnCopy'
  <2>1. Sound(loc) /\ ~loc.avail
    BY <1>7 DEF OwnCopy
  <2>2. Sound(loc') /\ ~loc'.avail
    BY <2>1, <1>7 DEF Sound, SameEnd
  <2> QED
    BY <1>7, <2>1, <2>2 DEF OwnCopy, SameEnd
<1>8. ASSUME WPrepare \/ WCommit PROVE OwnCopy'
  BY <1>8, <1>7 DEF WPrepare, WCommit, SameEnd
<1>9. ASSUME WPrepareFail \/ WFrameFail PROVE OwnCopy'
  <2>1. loc' = Flagged(loc) /\ loc \in Task
    BY <1>9 DEF WPrepareFail, WFrameFail
  <2>2. SameEnd(loc, loc') /\ loc'.avail = loc.avail
    BY <2>1, Fields DEF Same, SameEnd
  <2> QED
    BY <1>9, <2>2, <1>7 DEF WPrepareFail, WFrameFail
<1>10. CASE WAppend
  <2>1. loc' = Counted(loc, loc.src + 1) /\ loc \in Task
    BY <1>10 DEF WAppend
  <2>2. loc.src + 1 \in Nat
    BY <2>1 DEF Task
  <2>3. SameEnd(loc, loc') /\ loc'.avail = loc.avail
    BY <2>1, <2>2, CountFields
  <2> QED
    BY <1>10, <2>3, <1>7 DEF WAppend
<1>11. CASE WEndWindow
  <2>1. PICK e \in {loc.errs, TRUE} : loc' = Packaging(loc, e)
    BY <1>11 DEF WEndWindow
  <2>2. wpc \in {"sampling", "collected"} /\ wpc' = "finish"
    BY <1>11 DEF WEndWindow
  <2>3. loc \in Task
    BY <2>2
  <2>4. e \in BOOLEAN
    BY <2>1, <2>3 DEF Task
  <2>5. SameEnd(loc, loc') /\ loc'.avail = loc.avail
    BY <2>1, <2>3, <2>4, Fields DEF Same, SameEnd
  <2> QED
    BY <2>2, <2>5, <1>7
<1>12. ASSUME RecoverRepair \/ RecoverSetAside \/ RecoverReplace PROVE OwnCopy'
  <2>1. wpc \in {"repair", "replace"} /\ wpc' \in {"finish", "replace"}
    BY <1>12 DEF RecoverRepair, RecoverSetAside, RecoverReplace
  <2>2. loc \in Task /\ samples[cur] \in Nat \cup {NoFile}
    BY <2>1
  <2> DEFINE r == Recounted(loc, samples[cur])
  <2>3. loc' = loc \/ loc' = Flagged(loc) \/ loc' = r \/ loc' = Flagged(r)
    BY <1>12 DEF RecoverRepair, RecoverSetAside, RecoverReplace
  <2>4. r \in Task /\ SameEnd(loc, r) /\ r.avail = loc.avail
    BY <2>2, CountFields
  <2> HIDE DEF r
  <2>5. SameEnd(loc, loc') /\ loc'.avail = loc.avail
    BY <2>2, <2>3, <2>4, Fields DEF Same, SameEnd
  <2> QED
    BY <2>1, <2>5, <1>7
<1>13. CASE WFinish
  <2>1. loc' = Finished(loc) /\ wpc = "finish" /\ wpc' = "archive"
    BY <1>13 DEF WFinish
  <2>2. loc \in Task /\ ~loc.avail
    BY <2>1 DEF OwnCopy
  <2>3. loc'.state # "running" /\ loc'.ended # NoTime /\ loc'.phase = "finished" /\ ~loc'.avail
    BY <2>1, <2>2, EndFields
  <2> QED
    BY <2>1, <2>3 DEF Sound, OwnCopy
<1>14. ASSUME WArchive \/ WArchiveFail PROVE OwnCopy'
  <2>1. wpc = "archive" /\ wpc' = "publish" /\ (loc' = Packaged(loc) \/ loc' = Unpackaged(loc))
    BY <1>14 DEF WArchive, WArchiveFail
  <2>2. loc \in Task /\ loc.ended # NoTime /\ loc.phase = "finished" /\ loc.state # "running"
    BY <2>1 DEF OwnCopy, Sound
  <2>3. loc'.ended = loc.ended /\ loc'.phase = loc.phase /\ loc'.state # "running"
    BY <2>1, <2>2, Fields DEF Same
  <2> QED
    BY <2>1, <2>2, <2>3 DEF Sound, OwnCopy
<1>15. ASSUME WPublish \/ WRetract PROVE OwnCopy'
  BY <1>15 DEF WPublish, WRetract, OwnCopy
<1>16. ASSUME NEW id \in Ids, RecoverInterrupt(id) PROVE OwnCopy'
  <2> DEFINE t == Interrupted(tasks[id])
  <2>1. Known(id) /\ tasks[id].state = "running"
    BY <1>16 DEF RecoverInterrupt, Visiting, IInv, LoopInv
  <2>2. tasks[id] \in Task /\ ~tasks[id].avail
    BY <2>1 DEF Known, SoundCopies, Sound
  <2>3. Sound(t) /\ ~t.avail /\ t.ended # NoTime
    BY <2>2, EndFields DEF Sound
  <2>4. (wpc' = "repair" /\ loc' = t) \/ UNCHANGED <<wpc, loc>>
    BY <1>16 DEF RecoverInterrupt
  <2> HIDE DEF t
  <2> QED
    BY <2>3, <2>4, <1>1 DEF OwnCopy
<1>17. ASSUME NEW id \in Ids, RecoverResume(id) PROVE OwnCopy'
  <2>1. Known(id) /\ tasks[id].state = "interrupted" /\ tasks[id].phase = "packaging"
    BY <1>17 DEF RecoverResume, Visiting, IInv, LoopInv
  <2>2. Sound(tasks[id]) /\ ~tasks[id].avail /\ tasks[id].ended # NoTime
    BY <2>1 DEF Known, SoundCopies, Sound
  <2>3. wpc' = "repair" /\ loc' = tasks[id]
    BY <1>17 DEF RecoverResume
  <2> QED
    BY <2>2, <2>3 DEF OwnCopy
<1> QED
  BY <1>1, <1>3, <1>4, <1>5, <1>6, <1>8, <1>9, <1>10, <1>11, <1>12, <1>13, <1>14, <1>15, <1>16,
     <1>17 DEF Next, Run, Cleanup, Download, Recover

-----------------------------------------------------------------------------
(* Custody of a running task.                                              *)

\* The worker takes a task off the queue, and lets go of it, in one step with
\* the change of a.active or of the control point.
LEMMA HandsStep ==
    ASSUME IInv, LInv, [Next]_vars
    PROVE  Hands'
<1>3. ASSUME Submit \/ SubmitWrite \/ SubmitFail \/ Release \/ Tick \/ DownloadCorrupt
             \/ UNCHANGED vars
      PROVE  UNCHANGED <<wpc, cur, up, active, job>>
  BY <1>3 DEF Submit, SubmitMkdir, SubmitWrite, SubmitFail,
     Release, DownloadClose, PurgeFile, PurgeDir, PurgeFail, Tick, DownloadCorrupt
<1>4. ASSUME NEW id \in Ids, CleanupFile(id) \/ CleanupTask(id) \/ CleanupFail(id)
               \/ CleanupResult(id) \/ DownloadOpen(id) \/ Damage(id) \/ RecoverVerify(id)
      PROVE  UNCHANGED <<wpc, cur, up, active, job>>
  BY <1>4 DEF CleanupFile, CleanupTask, CleanupFail, CleanupResult, DownloadOpen, Damage,
     RecoverVerify
<1>5. ASSUME WPrepare \/ WPrepareFail \/ WAppend \/ WCommit \/ WFrameFail \/ WEndWindow \/ WFinish
      PROVE  wpc' \in Holding
  BY <1>5 DEF WPrepare, WPrepareFail, WAppend, WCommit, WFrameFail, WEndWindow, WFinish, Holding
<1>6. ASSUME WTake \/ WArchive \/ WArchiveFail \/ WPublish \/ WRetract
             \/ RecoverRepair \/ RecoverSetAside \/ RecoverReplace
      PROVE  wpc' \in Holding
  BY <1>6 DEF WTake, WArchive, WArchiveFail, WPublish, WRetract, RecoverRepair, RecoverSetAside,
     RecoverReplace, Holding
<1> USE ConstAssumption DEF Holding, Hands
<1>h. Hands
  BY DEF LInv, Custody
<1>1. ASSUME UNCHANGED <<wpc, cur, up, active, job>> PROVE Hands'
  BY <1>1, <1>h
<1>2. ASSUME wpc' \in Holding PROVE Hands'
  BY <1>2
<1>7. ASSUME SubmitAccept \/ CleanupBegin PROVE Hands'
  BY <1>7, <1>h DEF SubmitAccept, CleanupBegin
<1>8. CASE CleanupEnd
  BY <1>8, <1>h DEF CleanupEnd, IInv, LoopInv, TypeOK
<1>9. CASE WRelease
  BY <1>9, <1>h DEF WRelease, IInv, WorkerInv
<1>10. ASSUME Crash \/ RecoverStore PROVE Hands'
  BY <1>10 DEF Crash, RecoverStore
<1>11. CASE RecoverLoad
  BY <1>11, <1>h DEF RecoverLoad, IInv, LoopInv
<1>12. ASSUME NEW id \in Ids, RecoverInterrupt(id) \/ RecoverResume(id) PROVE Hands'
  BY <1>12, <1>h DEF RecoverInterrupt, RecoverResume
<1> QED
  BY <1>1, <1>2, <1>3, <1>4, <1>5, <1>6, <1>7, <1>8, <1>9, <1>10, <1>11, <1>12
     DEF Next, SubmitGo, Run, Cleanup, Download, Recover

\* No task is left running without somebody to finish it: recover does not end
\* before it has visited every task, and the worker lets go of a task only
\* after it has published its end.
LEMMA RunningStep ==
    ASSUME IInv, LInv, [Next]_vars
    PROVE  Running'
<1>3. ASSUME Submit \/ SubmitWrite \/ SubmitFail \/ Release \/ Tick \/ UNCHANGED vars
      PROVE  UNCHANGED <<wpc, cur, up, active, todo, tasks>>
  BY <1>3 DEF Submit, SubmitMkdir, SubmitWrite, SubmitFail,
     Release, DownloadClose, PurgeFile, PurgeDir, PurgeFail, Tick
<1>4. ASSUME NEW id \in Ids, CleanupFile(id) \/ DownloadOpen(id) \/ Damage(id)
      PROVE  UNCHANGED <<wpc, cur, up, active, todo, tasks>>
  BY <1>4 DEF CleanupFile, DownloadOpen, Damage
<1>5. ASSUME WPrepareFail \/ WAppend \/ WFinish \/ WArchive \/ WArchiveFail
             \/ RecoverRepair \/ RecoverSetAside \/ RecoverReplace
      PROVE  wpc \in Holding /\ wpc' \in Holding /\ UNCHANGED <<cur, up, active, todo, tasks>>
  BY <1>5 DEF WPrepareFail, WAppend, WFinish, WArchive, WArchiveFail,
     RecoverRepair, RecoverSetAside, RecoverReplace, Holding
<1>6. ASSUME WPrepare \/ WCommit \/ WFrameFail \/ WEndWindow \/ WPublish
      PROVE  /\ wpc \in Holding /\ wpc' \in Holding /\ UNCHANGED <<cur, up, active, todo>>
             /\ tasks' = tasks \/ \E u : tasks' = [tasks EXCEPT ![cur] = u]
  BY <1>6 DEF WPrepare, WCommit, WFrameFail, WEndWindow, WPublish, Publish, PublishFail, Holding
<1> USE ConstAssumption, Held DEF Running
<1>h. Running /\ Hands /\ Shown
  BY DEF LInv, Custody
<1>1. ASSUME UNCHANGED <<wpc, cur, up, active, todo, tasks>> PROVE Running'
  BY <1>1, <1>h
<1>7. ASSUME wpc \in Holding, wpc' \in Holding, UNCHANGED <<cur, up, active, todo>>,
             tasks' = tasks \/ \E u : tasks' = [tasks EXCEPT ![cur] = u]
      PROVE  Running'
  <2>1. cur \in Ids /\ (up = "up" => active = cur)
    BY <1>7 DEF IInv, WorkerInv
  <2>2. \A i \in Ids : i # cur => tasks'[i] = tasks[i]
    BY <1>7, <2>1
  <2> QED
    BY <1>7, <2>1, <2>2, <1>h DEF Holding
<1>8. CASE SubmitAccept
  <2>1. up = "up" /\ sub.id \in Ids /\ active = NoId
    BY <1>8 DEF SubmitAccept, IInv, SubmitInv
  <2> QED
    BY <1>8, <2>1, <1>h DEF SubmitAccept
<1>9. CASE WTake
  BY <1>9, <1>h DEF WTake
<1>10. ASSUME NEW i \in Ids, Known(i), tasks' = [tasks EXCEPT ![i] = Withdrawn(tasks[i])]
       PROVE  \A j \in Ids : /\ tasks'[j] # NoTask => tasks[j] # NoTask
                             /\ tasks'[j].state = tasks[j].state
  <2>1. tasks[i] \in Task
    BY <1>10 DEF Known
  <2>2. Withdrawn(tasks[i]).state = tasks[i].state
    BY <2>1, Fields DEF Same
  <2> QED
    BY <1>10, <2>2 DEF Known
<1>11. CASE WRetract
  <2>1. cur \in Ids /\ Known(cur)
    BY <1>11 DEF WRetract, IInv, WorkerInv, Holding
  <2> QED
    BY <1>11, <2>1, <1>10, <1>h DEF WRetract, Holding
<1>12. CASE DownloadCorrupt
  <2>1. dl.id \in Ids /\ Known(dl.id)
    BY <1>12 DEF DownloadCorrupt, IInv, DownloadInv, Known
  <2> QED
    BY <1>12, <2>1, <1>10, <1>h DEF DownloadCorrupt
<1>13. CASE WRelease
  <2>1. tasks[cur].state # "running" /\ active = cur /\ up = "up"
    BY <1>13, <1>h DEF WRelease, Shown, IInv, WorkerInv, Holding, OwnCopy, Late, Sound
  <2> QED
    BY <1>13, <2>1, <1>h DEF WRelease
<1>14. CASE CleanupBegin
  BY <1>14, <1>h DEF CleanupBegin, Holding
<1>15. CASE CleanupEnd
  BY <1>15, <1>h DEF CleanupEnd, IInv, LoopInv, TypeOK
<1>16. ASSUME NEW id \in Ids, CleanupFail(id) \/ CleanupResult(id) PROVE Running'
  BY <1>16, <1>h DEF CleanupFail, CleanupResult
<1>17. ASSUME NEW id \in Ids, CleanupTask(id) PROVE Running'
  BY <1>17, <1>h DEF CleanupTask, Forget
<1>18. CASE Crash
  BY <1>18 DEF Crash
<1>19. CASE RecoverLoad
  <2>1. PICK lost \in SUBSET Recorded :
          /\ todo' = Recorded \ lost
          /\ tasks' = [i \in Ids |-> IF i \in lost THEN NoTask ELSE rec[i]]
    BY <1>19 DEF RecoverLoad
  <2>2. up' = "recovering" /\ wpc' = "recover"
    BY <1>19 DEF RecoverLoad
  <2> QED
    BY <2>1, <2>2 DEF Recorded
<1>20. ASSUME NEW id \in Ids, RecoverInterrupt(id) PROVE Running'
  <2> DEFINE t == Interrupted(tasks[id])
  <2>1. Known(id) /\ wpc = "recover" /\ up = "recovering"
    BY <1>20 DEF RecoverInterrupt, Visiting, IInv, LoopInv
  <2>2. t.state = "interrupted"
    BY <2>1, EndFields DEF Known
  <2>3. /\ UNCHANGED up
        /\ \/ cur' = id /\ wpc' = "repair" /\ UNCHANGED <<tasks, todo>>
           \/ tasks' = [tasks EXCEPT ![id] = t] /\ todo' = todo \ {id} /\ UNCHANGED <<cur, wpc>>
    BY <1>20 DEF RecoverInterrupt
  <2> HIDE DEF t
  <2> QED
    BY <2>1, <2>2, <2>3, <1>h DEF Holding
<1>21. ASSUME NEW id \in Ids, RecoverResume(id) PROVE Running'
  BY <1>21, <1>h DEF RecoverResume, Visiting, Holding, IInv, LoopInv
<1>22. ASSUME NEW id \in Ids, RecoverVerify(id) PROVE Running'
  <2>1. Known(id) /\ tasks[id].state # "running" /\ wpc = "recover" /\ up = "recovering"
    BY <1>22 DEF RecoverVerify, Visiting, IInv, LoopInv
  <2>2. /\ tasks' = tasks \/ tasks' = [tasks EXCEPT ![id] = Withdrawn(tasks[id])]
        /\ todo' = todo \ {id} /\ UNCHANGED <<cur, wpc, up>>
    BY <1>22 DEF RecoverVerify
  <2>3. \A j \in Ids : tasks'[j] # NoTask => tasks[j] # NoTask /\ tasks'[j].state = tasks[j].state
    BY <2>1, <2>2, <1>10
  <2> QED
    BY <2>1, <2>2, <2>3, <1>h DEF Holding
<1>23. CASE RecoverStore
  <2>1. cur \in Ids /\ loc.state # "running"
    BY <1>23 DEF RecoverStore, OwnCopy, Late, Holding, Sound
  <2> QED
    BY <1>23, <2>1, <1>h DEF RecoverStore, Holding
<1> QED
  BY <1>1, <1>3, <1>4, <1>5, <1>6, <1>7, <1>8, <1>9, <1>11, <1>12, <1>13, <1>14, <1>15, <1>16,
     <1>17, <1>18, <1>19, <1>20, <1>21, <1>22, <1>23
     DEF Next, SubmitGo, Run, Cleanup, Download, Recover

\* Until finish publishes its end, clients see the worker's task as running.
LEMMA ShownStep ==
    ASSUME IInv, LInv, [Next]_vars
    PROVE  Shown'
<1>3. ASSUME Submit \/ SubmitWrite \/ SubmitFail \/ Release \/ Tick \/ UNCHANGED vars
      PROVE  UNCHANGED <<wpc, cur, up, loc, tasks>>
  BY <1>3 DEF Submit, SubmitMkdir, SubmitWrite, SubmitFail,
     Release, DownloadClose, PurgeFile, PurgeDir, PurgeFail, Tick
<1>4. ASSUME NEW id \in Ids, CleanupFile(id) \/ DownloadOpen(id) \/ Damage(id)
               \/ CleanupFail(id) \/ CleanupResult(id)
      PROVE  UNCHANGED <<wpc, cur, up, loc, tasks>>
  BY <1>4 DEF CleanupFile, DownloadOpen, Damage, CleanupFail, CleanupResult
<1>5. ASSUME WRelease \/ CleanupBegin \/ CleanupEnd \/ Crash \/ RecoverLoad \/ RecoverStore
      PROVE  wpc' \in {"off", "idle", "cleanup", "recover"}
  BY <1>5 DEF WRelease, CleanupBegin, CleanupEnd, Crash, RecoverLoad, RecoverStore
<1> USE ConstAssumption, Held DEF Shown, Holding, Early, Sampling
<1>h. Shown
  BY DEF LInv, Custody
<1>1. ASSUME UNCHANGED <<wpc, cur, up, loc, tasks>> PROVE Shown'
  BY <1>1, <1>h
<1>2. ASSUME wpc' \in {"off", "idle", "cleanup", "recover"} PROVE Shown'
  BY <1>2
<1>6. CASE SubmitAccept
  <2>1. sub.id \in Ids /\ ~Known(sub.id) /\ (wpc \in Holding => cur \in Ids /\ Known(cur))
    BY <1>6 DEF SubmitAccept, IInv, SubmitInv, WorkerInv
  <2>2. wpc \in Holding => tasks'[cur] = tasks[cur]
    BY <1>6, <2>1 DEF SubmitAccept
  <2>3. UNCHANGED <<wpc, cur, up, loc>>
    BY <1>6 DEF SubmitAccept
  <2> QED
    BY <2>2, <2>3, <1>h
<1>7. CASE WTake
  <2>1. job \in Ids /\ Known(job) /\ tasks[job].ended = NoTime
    BY <1>7 DEF WTake, IInv, WorkerInv
  <2>2. tasks[job].state = "running"
    BY <2>1 DEF SoundCopies, Sound, Known
  <2> QED
    BY <1>7, <2>2 DEF WTake
<1>8. ASSUME wpc \in Early, wpc' \in Early, loc'.state = loc.state, UNCHANGED <<cur, up>>,
             wpc \in Sampling \/ wpc' \notin Sampling,
             tasks' = tasks \/ tasks' = [tasks EXCEPT ![cur] = loc]
                            \/ tasks' = [tasks EXCEPT ![cur] = loc']
      PROVE  Shown'
  <2>1. cur \in Ids
    BY <1>8
  <2>2. tasks'[cur] = tasks[cur] \/ tasks'[cur] = loc \/ tasks'[cur] = loc'
    BY <1>8, <2>1
  <2> QED
    BY <1>8, <2>2, <1>h
<1>9. ASSUME WPrepare \/ WCommit PROVE Shown'
  BY <1>9, <1>8 DEF WPrepare, WCommit, Publish
<1>10. ASSUME WPrepareFail \/ WFrameFail PROVE Shown'
  <2>1. loc' = Flagged(loc) /\ loc \in Task
    BY <1>10 DEF WPrepareFail, WFrameFail
  <2>2. loc'.state = loc.state
    BY <2>1, Fields DEF Same
  <2> QED
    BY <1>10, <2>2, <1>8 DEF WPrepareFail, WFrameFail, PublishFail
<1>11. CASE WAppend
  <2>1. loc' = Counted(loc, loc.src + 1) /\ loc \in Task
    BY <1>11 DEF WAppend
  <2>2. loc.src + 1 \in Nat
    BY <2>1 DEF Task
  <2>3. loc'.state = loc.state
    BY <2>1, <2>2, CountFields DEF SameEnd
  <2> QED
    BY <1>11, <2>3, <1>8 DEF WAppend
<1>12. CASE WEndWindow
  <2>1. PICK e \in {loc.errs, TRUE} : loc' = Packaging(loc, e)
    BY <1>12 DEF WEndWindow
  <2>2. wpc \in {"sampling", "collected"} /\ wpc' = "finish" /\ UNCHANGED <<cur, up>>
        /\ tasks' = [tasks EXCEPT ![cur] = loc']
    BY <1>12 DEF WEndWindow, Publish, PublishFail
  <2>3. loc \in Task
    BY <2>2
  <2>4. e \in BOOLEAN
    BY <2>1, <2>3 DEF Task
  <2>5. loc'.state = loc.state
    BY <2>1, <2>3, <2>4, Fields DEF Same
  <2> QED
    BY <2>2, <2>5, <1>8
<1>13. ASSUME RecoverRepair \/ RecoverSetAside \/ RecoverReplace PROVE Shown'
  <2>1. wpc \in {"repair", "replace"} /\ wpc' \in {"finish", "replace"} /\ UNCHANGED <<cur, up, tasks>>
    BY <1>13 DEF RecoverRepair, RecoverSetAside, RecoverReplace
  <2>2. loc \in Task /\ samples[cur] \in Nat \cup {NoFile}
    BY <2>1
  <2> DEFINE r == Recounted(loc, samples[cur])
  <2>3. loc' = loc \/ loc' = Flagged(loc) \/ loc' = r \/ loc' = Flagged(r)
    BY <1>13 DEF RecoverRepair, RecoverSetAside, RecoverReplace
  <2>4. r \in Task /\ r.state = loc.state
    BY <2>2, CountFields DEF SameEnd
  <2> HIDE DEF r
  <2>5. loc'.state = loc.state
    BY <2>2, <2>3, <2>4, Fields DEF Same
  <2> QED
    BY <2>1, <2>5, <1>8
<1>14. ASSUME WFinish \/ WArchive \/ WArchiveFail PROVE Shown'
  <2>1. /\ UNCHANGED <<tasks, up, cur>> /\ wpc \in {"finish", "archive"}
        /\ wpc' \in {"archive", "publish"}
    BY <1>14 DEF WFinish, WArchive, WArchiveFail
  <2> QED
    BY <2>1, <1>h
<1>15. CASE WPublish
  <2>1. tasks' = [tasks EXCEPT ![cur] = loc] /\ UNCHANGED <<cur, loc>> /\ wpc = "publish"
        /\ wpc' \in {"retract", "release"}
    BY <1>15 DEF WPublish, Publish, PublishFail
  <2> QED
    BY <2>1
<1>16. ASSUME NEW i \in Ids, Known(i), tasks' = [tasks EXCEPT ![i] = Withdrawn(tasks[i])]
       PROVE  \A j \in Ids : /\ tasks'[j].state = tasks[j].state /\ tasks'[j].src = tasks[j].src
                             /\ tasks'[j].ended = tasks[j].ended
  <2>1. tasks[i] \in Task
    BY <1>16 DEF Known
  <2>2. Same(tasks[i], Withdrawn(tasks[i]))
    BY <2>1, Fields
  <2> QED
    BY <1>16, <2>2 DEF Same
<1>17. CASE WRetract
  <2>1. cur \in Ids /\ Known(cur)
    BY <1>17 DEF WRetract, IInv, WorkerInv
  <2> QED
    BY <1>17, <2>1, <1>16, <1>h DEF WRetract
<1>18. CASE DownloadCorrupt
  <2>1. dl.id \in Ids /\ Known(dl.id)
    BY <1>18 DEF DownloadCorrupt, IInv, DownloadInv, Known
  <2> QED
    BY <1>18, <2>1, <1>16, <1>h DEF DownloadCorrupt
<1>19. ASSUME NEW id \in Ids, CleanupTask(id) \/ RecoverVerify(id) PROVE Shown'
  <2>1. wpc' \in {"cleanup", "recover"}
    BY <1>19 DEF CleanupTask, RecoverVerify, Visiting
  <2> QED
    BY <2>1
<1>20. ASSUME NEW id \in Ids, RecoverInterrupt(id) \/ RecoverResume(id) PROVE Shown'
  <2>1. up' = "recovering" /\ wpc' \in {"repair", "recover"}
    BY <1>20 DEF RecoverInterrupt, RecoverResume, Visiting, IInv, LoopInv
  <2> QED
    BY <2>1
<1> QED
  BY <1>1, <1>2, <1>3, <1>4, <1>5, <1>6, <1>7, <1>9, <1>10, <1>11, <1>12, <1>13, <1>14, <1>15,
     <1>17, <1>18, <1>19, <1>20
     DEF Next, SubmitGo, Run, Cleanup, Download, Recover

\* The task behind a download stays finished: the worker cannot publish over it.
LEMMA OpenedStep ==
    ASSUME IInv, LInv, [Next]_vars
    PROVE  Opened'
<1>3. ASSUME Submit \/ SubmitWrite \/ SubmitFail \/ PurgeFile \/ Tick \/ UNCHANGED vars
             \/ CleanupBegin \/ CleanupEnd
             \/ (\E id \in Ids : CleanupFile(id) \/ Damage(id) \/ CleanupFail(id)
                                   \/ CleanupResult(id))
      PROVE  UNCHANGED <<dl, removed, tasks>>
  BY <1>3 DEF Submit, SubmitMkdir, SubmitWrite, SubmitFail, PurgeFile, Tick, CleanupBegin,
     CleanupEnd, CleanupFile, Damage, CleanupFail, CleanupResult
<1>4. ASSUME WTake \/ WPrepareFail \/ WAppend \/ WFinish \/ WArchive \/ WArchiveFail \/ WRelease
      PROVE  UNCHANGED <<dl, removed, tasks>>
  BY <1>4 DEF WTake, WPrepareFail, WAppend, WFinish, WArchive, WArchiveFail, WRelease
<1>5. ASSUME WPrepare \/ WCommit \/ WFrameFail \/ WEndWindow \/ WPublish
      PROVE  /\ wpc \in Holding \ {"retract", "release"} /\ UNCHANGED <<dl, removed>>
             /\ tasks' = tasks \/ \E u : tasks' = [tasks EXCEPT ![cur] = u]
  BY <1>5 DEF WPrepare, WCommit, WFrameFail, WEndWindow, WPublish, Publish, PublishFail, Holding
<1>6. ASSUME Recover PROVE dl' = NoDownload
  <2>3. wpc \in {"repair", "replace"} => up # "up"
    BY DEF LInv, Custody, Shown, Copies, OwnCopy, Sound, Early, Holding
  <2>1. up # "up"
    BY <1>6, <2>3 DEF Recover, RecoverLoad, RecoverRepair, RecoverSetAside, RecoverReplace,
       RecoverStore, RecoverInterrupt, RecoverResume, RecoverVerify, Visiting, IInv, LoopInv
  <2>2. UNCHANGED dl
    BY <1>6 DEF Recover, RecoverLoad, RecoverRepair, RecoverSetAside, RecoverReplace, RecoverStore,
       RecoverInterrupt, RecoverResume, RecoverVerify
  <2> QED
    BY <2>1, <2>2 DEF IInv, LoopInv, TypeOK
<1> USE ConstAssumption, Held DEF Opened, Known
<1>h. Opened
  BY DEF LInv, Custody
<1>1. ASSUME UNCHANGED <<dl, removed, tasks>> PROVE Opened'
  BY <1>1, <1>h
<1>2. ASSUME dl' = NoDownload PROVE Opened'
  BY <1>2 DEF NoDownload
<1>7. ASSUME wpc \in Holding \ {"retract", "release"}, UNCHANGED <<dl, removed>>,
             tasks' = tasks \/ \E u : tasks' = [tasks EXCEPT ![cur] = u]
      PROVE  Opened'
  <2>1. CASE up = "up"
    <3>1. cur \in Ids /\ Known(cur) /\ tasks[cur].state = "running"
      BY <1>7, <2>1 DEF IInv, WorkerInv, LInv, Custody, Shown
    <3>2. dl.stage = "open" => dl.id \in Ids /\ (dl.id # cur \/ dl.id \in removed)
      BY <3>1, <1>h DEF IInv, DownloadInv
    <3>3. dl.id \in Ids /\ dl.id # cur => tasks'[dl.id] = tasks[dl.id]
      BY <1>7, <3>1
    <3> QED
      BY <1>7, <3>2, <3>3, <1>h
  <2>2. CASE up # "up"
    BY <1>7, <2>2, <1>2 DEF IInv, LoopInv, WorkerInv, TypeOK
  <2> QED
    BY <2>1, <2>2
<1>8. CASE SubmitAccept
  <2>1. sub.id \in Ids /\ ~Known(sub.id) /\ sub.id \notin removed
    BY <1>8 DEF SubmitAccept, IInv, SubmitInv
  <2>2. dl.stage = "open" => dl.id \in Ids /\ dl.id # sub.id
    BY <2>1, <1>h DEF IInv, DownloadInv
  <2> QED
    BY <1>8, <2>1, <2>2, <1>h DEF SubmitAccept
<1>9. ASSUME NEW i \in Ids, tasks[i] # NoTask, UNCHANGED <<dl, removed>>,
             tasks' = [tasks EXCEPT ![i] = Withdrawn(tasks[i])]
      PROVE  Opened'
  <2>1. tasks[i] \in Task
    BY <1>9
  <2>2. Withdrawn(tasks[i]).state = tasks[i].state /\ Withdrawn(tasks[i]) \in Task
    BY <2>1, Fields DEF Same
  <2>3. dl.stage = "open" => dl.id \in Ids
    BY DEF IInv, DownloadInv
  <2> QED
    BY <1>9, <2>2, <2>3, <1>h
<1>10. CASE WRetract
  <2>1. cur \in Ids /\ tasks[cur] # NoTask
    BY <1>10 DEF WRetract, IInv, WorkerInv, Holding
  <2> QED
    BY <1>10, <2>1, <1>9 DEF WRetract
<1>11. CASE DownloadCorrupt
  <2>1. dl.id \in Ids /\ tasks[dl.id] # NoTask
    BY <1>11 DEF DownloadCorrupt, IInv, DownloadInv
  <2> QED
    BY <1>11, <2>1, <1>9 DEF DownloadCorrupt
<1>12. ASSUME NEW id \in Ids, DownloadOpen(id) PROVE Opened'
  BY <1>12 DEF DownloadOpen
<1>13. ASSUME NEW id \in Ids, CleanupTask(id) PROVE Opened'
  BY <1>13, <1>h DEF CleanupTask, Forget, IInv, DownloadInv
<1>14. ASSUME DownloadClose \/ PurgeDir \/ PurgeFail \/ Crash PROVE Opened'
  <2>1. dl' = NoDownload \/ dl'.stage = "purge"
    BY <1>14 DEF DownloadClose, PurgeDir, PurgeFail, Crash, IInv, TypeOK
  <2> QED
    BY <2>1, <1>2
<1> QED
  BY <1>1, <1>2, <1>3, <1>4, <1>5, <1>6, <1>7, <1>8, <1>10, <1>11, <1>12, <1>13, <1>14
     DEF Next, Submit, SubmitGo, Run, Cleanup, Download, Release

-----------------------------------------------------------------------------
(* Agreement of the record, the map and the private copy.                  *)

\* A task that is being admitted has an id that no record ever had.
LEMMA FreshStep ==
    ASSUME IInv, LInv, [Next]_vars
    PROVE  Fresh'
<1>1. CASE mu' # "submit"
  BY <1>1 DEF Fresh
<1>2. CASE mu # "submit" /\ mu' = "submit"
  <2>1. PICK r \in Reqs, id \in Ids : SubmitMkdir(r, id)
    BY <1>2 DEF Next, Submit, SubmitGo, SubmitWrite, SubmitAccept, SubmitFail, Run, WTake, WPrepare,
       WPrepareFail, WAppend, WCommit, WFrameFail, WEndWindow, WFinish, WArchive, WArchiveFail,
       WPublish, WRetract, WRelease, Cleanup, CleanupBegin, CleanupEnd, CleanupFile, CleanupTask,
       CleanupFail, CleanupResult, Download, DownloadOpen, DownloadCorrupt, Release, DownloadClose,
       PurgeFile, PurgeDir, PurgeFail, Recover, RecoverLoad, RecoverRepair, RecoverSetAside, RecoverReplace,
       RecoverStore, RecoverInterrupt, RecoverResume, RecoverVerify, Crash, Tick, Damage
  <2> QED
    BY <1>2, <2>1 DEF SubmitMkdir, Fresh, IInv, IssuedInv
<1>3. CASE mu = "submit" /\ mu' = "submit"
  <2>1. up = "up" /\ wpc # "cleanup" /\ sub.id \in Ids
    BY <1>3 DEF IInv, SubmitInv, LoopInv
  <2>2. /\ sub'.id = sub.id
        /\ rec' = rec \/ \E i \in Ids : rec' = [rec EXCEPT ![i] = NoTask]
    <3>1. ASSUME Submit \/ SubmitGo PROVE sub'.id = sub.id /\ rec' = rec
      BY <1>3, <3>1 DEF Submit, SubmitMkdir, Admits, SubmitGo, SubmitWrite, SubmitAccept, SubmitFail,
         IInv, TypeOK
    <3>2. ASSUME WTake \/ WPrepareFail \/ WAppend \/ WFinish \/ WArchive \/ WArchiveFail
          PROVE  sub' = sub /\ rec' = rec
      BY <3>2 DEF WTake, WPrepareFail, WAppend, WFinish, WArchive, WArchiveFail
    <3>3. ASSUME WPrepare \/ WCommit \/ WFrameFail \/ WEndWindow \/ WPublish \/ WRetract \/ WRelease
          PROVE  sub' = sub /\ rec' = rec
      BY <1>3, <3>3 DEF WPrepare, WCommit, WFrameFail, WEndWindow, WPublish, WRetract, WRelease, Publish,
         PublishFail
    <3>4. ASSUME Cleanup \/ Crash PROVE FALSE
      BY <1>3, <2>1, <3>4 DEF Cleanup, CleanupBegin, CleanupEnd, CleanupFile, CleanupTask, CleanupFail,
         CleanupResult, Crash
    <3>5. ASSUME Download \/ DownloadClose \/ PurgeDir \/ PurgeFail \/ Tick \/ UNCHANGED vars
                 \/ \E id \in Ids : Damage(id)
          PROVE  sub' = sub /\ rec' = rec
      BY <1>3, <3>5 DEF Download, DownloadOpen, DownloadCorrupt, DownloadClose, PurgeDir, PurgeFail, Tick, Damage
    <3>6. ASSUME PurgeFile
          PROVE  sub' = sub /\ (rec' = rec \/ \E i \in Ids : rec' = [rec EXCEPT ![i] = NoTask])
      <4>1. dl.id \in Ids
        BY <3>6 DEF PurgeFile, IInv, DownloadInv
      <4> QED
        BY <3>6, <4>1 DEF PurgeFile, DropFile
    <3>7. ASSUME Recover PROVE sub' = sub /\ rec' = rec
      <4>1. ASSUME NEW id \in Ids PROVE ~Visiting(id)
        BY <2>1 DEF Visiting, IInv, LoopInv
      <4> QED
        BY <2>1, <3>7, <4>1 DEF Recover, RecoverLoad, RecoverRepair, RecoverSetAside, RecoverReplace,
           RecoverStore, RecoverInterrupt, RecoverResume, RecoverVerify
    <3> QED
      BY <3>1, <3>2, <3>3, <3>4, <3>5, <3>6, <3>7 DEF Next, Run, Release
  <2>3. rec[sub.id] = NoTask /\ rec \in [Ids -> Task \cup {NoTask}]
    BY <1>3 DEF LInv, Agreement, Fresh, IInv, TypeOK
  <2> QED
    BY <2>1, <2>2, <2>3 DEF Fresh
<1> QED
  BY <1>1, <1>2, <1>3

\* recover visits the tasks as it loaded them.
LEMMA UnvisitedStep ==
    ASSUME IInv, LInv, [Next]_vars
    PROVE  Unvisited'
<1>1. ASSUME up' # "recovering" \/ wpc' = "cleanup" PROVE Unvisited'
  BY <1>1 DEF Unvisited
<1>2. ASSUME UNCHANGED <<up, wpc, cur, todo, tasks, rec>> PROVE Unvisited'
  BY <1>2 DEF LInv, Agreement, Unvisited
<1>3. ASSUME wpc \in Holding, wpc' \in Holding, UNCHANGED <<up, cur, todo>>,
             tasks' = tasks \/ \E u : tasks' = [tasks EXCEPT ![cur] = u],
             rec' = rec \/ \E u : rec' = [rec EXCEPT ![cur] = u]
      PROVE  Unvisited'
  <2>1. cur \in Ids /\ todo \subseteq Ids /\ wpc # "cleanup"
    BY <1>3 DEF IInv, WorkerInv, TypeOK, Holding
  <2>2. \A i \in Ids : i # cur => tasks'[i] = tasks[i] /\ rec'[i] = rec[i]
    BY <1>3, <2>1 DEF IInv, TypeOK
  <2> QED
    BY <1>3, <2>1, <2>2 DEF LInv, Agreement, Unvisited
<1>4. ASSUME Submit \/ SubmitGo PROVE Unvisited'
  <2>1. up' = "up"
    BY <1>4 DEF Submit, SubmitMkdir, Admits, SubmitGo, SubmitWrite, SubmitAccept, SubmitFail, IInv,
       SubmitInv
  <2> QED
    BY <2>1, <1>1
<1>5. ASSUME WPrepareFail \/ WAppend \/ WFinish \/ WArchive \/ WArchiveFail
             \/ RecoverRepair \/ RecoverSetAside \/ RecoverReplace
      PROVE  Unvisited'
  <2>1. wpc \in Holding /\ wpc' \in Holding /\ UNCHANGED <<up, cur, todo, tasks, rec>>
    BY <1>5 DEF WPrepareFail, WAppend, WFinish, WArchive, WArchiveFail,
       RecoverRepair, RecoverSetAside, RecoverReplace, Holding
  <2> QED
    BY <2>1, <1>3
<1>6. ASSUME WPrepare \/ WCommit \/ WFrameFail \/ WEndWindow \/ WPublish \/ WRetract
      PROVE  Unvisited'
  <2>1. /\ wpc \in Holding /\ wpc' \in Holding /\ UNCHANGED <<up, cur, todo>>
        /\ tasks' = tasks \/ \E u : tasks' = [tasks EXCEPT ![cur] = u]
        /\ rec' = rec \/ \E u : rec' = [rec EXCEPT ![cur] = u]
    BY <1>6 DEF WPrepare, WCommit, WFrameFail, WEndWindow, WPublish, WRetract, Publish, PublishFail,
       LostWrite, Holding
  <2> QED
    BY <2>1, <1>3
<1>7. ASSUME WTake \/ WRelease \/ Cleanup \/ Crash PROVE Unvisited'
  <2>1. up' # "recovering" \/ wpc' = "cleanup" \/ UNCHANGED <<up, wpc, cur, todo, tasks, rec>>
    BY <1>7 DEF WTake, WRelease, Cleanup, CleanupBegin, CleanupEnd, CleanupFile, CleanupTask,
       CleanupFail, CleanupResult, Crash
  <2> QED
    BY <2>1, <1>1, <1>2
<1>8. ASSUME Download \/ Release \/ Tick \/ (\E id \in Ids : Damage(id)) \/ UNCHANGED vars
      PROVE  Unvisited'
  <2>1. up = "recovering" => ~DownloadCorrupt /\ ~PurgeFile
    BY DEF DownloadCorrupt, PurgeFile, IInv, LoopInv, NoDownload
  <2>2. up' # "recovering" \/ UNCHANGED <<up, wpc, cur, todo, tasks, rec>>
    BY <1>8, <2>1 DEF Download, DownloadOpen, DownloadCorrupt, Release, DownloadClose, PurgeFile,
       PurgeDir, PurgeFail, Tick, Damage
  <2> QED
    BY <2>2, <1>1, <1>2
<1>9. CASE RecoverLoad
  <2>1. PICK lost \in SUBSET Recorded :
          /\ todo' = Recorded \ lost
          /\ tasks' = [i \in Ids |-> IF i \in lost THEN NoTask ELSE rec[i]]
    BY <1>9 DEF RecoverLoad
  <2>2. rec' = rec
    BY <1>9 DEF RecoverLoad
  <2> QED
    BY <2>1, <2>2 DEF Recorded, Unvisited
<1>10. ASSUME NEW id \in Ids, Visiting(id),
              tasks' = tasks \/ \E u : tasks' = [tasks EXCEPT ![id] = u],
              rec' = rec \/ \E u : rec' = [rec EXCEPT ![id] = u],
              \/ todo' = todo \ {id} /\ wpc' = wpc
              \/ todo' = todo /\ wpc' \in Holding /\ cur' = id
       PROVE  Unvisited'
  <2>1. wpc = "recover" /\ up = "recovering" /\ todo \subseteq Ids
    BY <1>10 DEF Visiting, IInv, LoopInv, TypeOK
  <2>2. \A i \in todo : tasks[i] = rec[i]
    BY <2>1 DEF LInv, Agreement, Unvisited, Holding
  <2>3. \A i \in Ids : i # id => tasks'[i] = tasks[i] /\ rec'[i] = rec[i]
    BY <1>10 DEF IInv, TypeOK
  <2> QED
    BY <1>10, <2>1, <2>2, <2>3 DEF Unvisited
<1>11. ASSUME NEW id \in Ids, RecoverInterrupt(id) \/ RecoverResume(id) \/ RecoverVerify(id)
       PROVE  Unvisited'
  <2>1. /\ tasks' = tasks \/ \E u : tasks' = [tasks EXCEPT ![id] = u]
        /\ rec' = rec \/ \E u : rec' = [rec EXCEPT ![id] = u]
        /\ \/ todo' = todo \ {id} /\ wpc' = wpc
           \/ todo' = todo /\ wpc' \in Holding /\ cur' = id
    BY <1>11 DEF RecoverInterrupt, RecoverResume, RecoverVerify, LostWrite, Holding
  <2>2. Visiting(id)
    BY <1>11 DEF RecoverInterrupt, RecoverResume, RecoverVerify
  <2> QED
    BY <2>1, <2>2, <1>10
<1>12. CASE RecoverStore
  <2>1. cur \in Ids /\ todo \subseteq Ids /\ wpc # "cleanup" /\ wpc \in Holding
    BY <1>12 DEF RecoverStore, IInv, WorkerInv, TypeOK, Holding
  <2>2. \A i \in Ids : i # cur => tasks'[i] = tasks[i] /\ rec'[i] = rec[i]
    BY <1>12, <2>1 DEF RecoverStore, IInv, TypeOK
  <2> QED
    BY <1>12, <2>1, <2>2 DEF RecoverStore, LInv, Agreement, Unvisited
<1> QED
  BY <1>4, <1>5, <1>6, <1>7, <1>8, <1>9, <1>11, <1>12 DEF Next, Run, Recover

\* Nothing on disk offers the result of a task that is not packaged yet.
LEMMA UnofferedStep ==
    ASSUME IInv, LInv, [Next]_vars
    PROVE  Unoffered'
<1> DEFINE Before == Early \cup {"archive", "publish"}
<1>1. ASSUME wpc' \notin Before PROVE Unoffered'
  BY <1>1 DEF Unoffered
<1>3. ASSUME wpc \in Before, UNCHANGED cur,
             rec' = rec \/ \E i \in Ids : \E u : rec' = [rec EXCEPT ![i] = u] /\ (u # NoTask => ~u.avail)
      PROVE  Unoffered'
  <2>1. cur \in Ids /\ rec \in [Ids -> Task \cup {NoTask}]
    BY <1>3 DEF IInv, WorkerInv, TypeOK, Early, Holding
  <2> QED
    BY <1>3, <2>1 DEF LInv, Agreement, Unoffered
<1>4. ASSUME Submit \/ SubmitWrite \/ Tick \/ DownloadClose \/ PurgeDir \/ PurgeFail \/ UNCHANGED vars
             \/ (\E id \in Ids : CleanupFail(id) \/ CleanupResult(id) \/ DownloadOpen(id) \/ Damage(id))
      PROVE  UNCHANGED <<wpc, cur, rec>>
  BY <1>4 DEF Submit, SubmitMkdir, SubmitWrite, Tick, DownloadClose, PurgeDir, PurgeFail, CleanupFail,
     CleanupResult, DownloadOpen, Damage
<1>5. ASSUME WPrepareFail \/ WAppend \/ WFinish \/ WArchive \/ WArchiveFail
             \/ RecoverRepair \/ RecoverSetAside \/ RecoverReplace
      PROVE  wpc \in Before /\ UNCHANGED <<cur, rec>>
  BY <1>5 DEF WPrepareFail, WAppend, WFinish, WArchive, WArchiveFail, RecoverRepair,
     RecoverSetAside, RecoverReplace, Early
<1>6. ASSUME WRelease \/ WRetract \/ WPublish \/ Cleanup \/ Crash \/ RecoverLoad \/ RecoverStore
      PROVE  wpc' \notin Before
  BY <1>6 DEF WRelease, WRetract, WPublish, Cleanup, CleanupBegin, CleanupEnd, CleanupFile,
     CleanupTask, CleanupFail, CleanupResult, Crash, RecoverLoad, RecoverStore, Early
<1> USE ConstAssumption, Held
<1>7. ASSUME SubmitAccept \/ SubmitFail PROVE Unoffered'
  <2>1. sub.id \in Ids /\ UNCHANGED <<wpc, cur>> /\ ~NewTask(sub.req).avail
        /\ (rec' = rec \/ rec' = [rec EXCEPT ![sub.id] = NewTask(sub.req)])
    BY <1>7 DEF SubmitAccept, SubmitFail, IInv, SubmitInv, NewTask
  <2> HIDE DEF Before
  <2> QED
    BY <2>1, <1>1, <1>3
<1>8. CASE WTake
  <2>1. job \in Ids /\ Known(job) /\ tasks[job].ended = NoTime /\ cur' = job /\ rec' = rec
    BY <1>8 DEF WTake, IInv, WorkerInv
  <2>2. rec[job] # NoTask => rec[job].ended = NoTime
    BY <1>8, <2>1 DEF WTake, LInv, Agreement, Ended, SameEnd, Holding
  <2>3. rec[job] # NoTask => ~rec[job].avail
    BY <2>1, <2>2 DEF SoundCopies, Sound
  <2> QED
    BY <2>1, <2>3 DEF Unoffered
<1>9. ASSUME WPrepare \/ WCommit \/ WFrameFail PROVE Unoffered'
  <2>1. wpc \in Early /\ UNCHANGED cur /\ (rec' = rec \/ rec' = [rec EXCEPT ![cur] = loc])
    BY <1>9 DEF WPrepare, WCommit, WFrameFail, Publish, PublishFail, LostWrite, Early
  <2>2. cur \in Ids /\ ~loc.avail
    BY <2>1 DEF OwnCopy, Early, Holding
  <2> QED
    BY <2>1, <2>2, <1>3
<1>10. CASE WEndWindow
  <2>1. /\ wpc \in Early /\ wpc' \in Early /\ UNCHANGED cur
        /\ rec' = rec \/ rec' = [rec EXCEPT ![cur] = loc']
    BY <1>10 DEF WEndWindow, Publish, PublishFail, LostWrite, Early
  <2>2. cur \in Ids
    BY <2>1 DEF Early, Holding
  <2>3. ~loc'.avail
    BY <2>1, OwnStep DEF OwnCopy
  <2> QED
    BY <2>1, <2>2, <2>3, <1>3
<1>11. CASE DownloadCorrupt
  <2>1. dl.id \in Ids /\ tasks[dl.id] \in Task /\ UNCHANGED <<wpc, cur>>
        /\ (rec' = rec \/ rec' = [rec EXCEPT ![dl.id] = Withdrawn(tasks[dl.id])])
    BY <1>11 DEF DownloadCorrupt, LostWrite, IInv, DownloadInv
  <2>2. ~Withdrawn(tasks[dl.id]).avail
    BY <2>1, Fields
  <2> HIDE DEF Before
  <2> QED
    BY <2>1, <2>2, <1>1, <1>3
<1>12. CASE PurgeFile
  <2>1. dl.id \in Ids /\ UNCHANGED <<wpc, cur>>
        /\ (rec' = rec \/ rec' = [rec EXCEPT ![dl.id] = NoTask])
    BY <1>12 DEF PurgeFile, DropFile, IInv, DownloadInv
  <2> HIDE DEF Before
  <2> QED
    BY <2>1, <1>1, <1>3
<1>13. ASSUME NEW id \in Ids, RecoverInterrupt(id) PROVE Unoffered'
  <2> DEFINE t == Interrupted(tasks[id])
  <2>1. tasks[id] \in Task /\ tasks[id].state = "running" /\ wpc = "recover"
    BY <1>13 DEF RecoverInterrupt, Visiting, IInv, LoopInv, Known
  <2>2. ~t.avail
    BY <2>1, EndFields DEF SoundCopies, Sound
  <2>3. (cur' = id /\ rec' = [rec EXCEPT ![id] = t]) \/ wpc' = wpc
    BY <1>13 DEF RecoverInterrupt
  <2> HIDE DEF t
  <2> QED
    BY <2>1, <2>2, <2>3 DEF Unoffered, Early
<1>14. ASSUME NEW id \in Ids, RecoverResume(id) PROVE Unoffered'
  <2>1. /\ Known(id) /\ tasks[id].phase = "packaging" /\ cur' = id /\ rec' = rec
        /\ wpc = "recover" /\ up = "recovering" /\ id \in todo
    BY <1>14 DEF RecoverResume, Visiting, IInv, LoopInv
  <2>2. rec[id] = tasks[id]
    BY <2>1 DEF LInv, Agreement, Unvisited, Holding
  <2> QED
    BY <2>1, <2>2 DEF Unoffered, SoundCopies, Sound, Known
<1>15. ASSUME NEW id \in Ids, RecoverVerify(id) PROVE Unoffered'
  BY <1>15, <1>1 DEF RecoverVerify, Visiting, Early
<1> HIDE DEF Before
<1>16. ASSUME UNCHANGED <<wpc, cur, rec>> PROVE Unoffered'
  BY <1>16, <1>1, <1>3
<1> QED
  BY <1>1, <1>3, <1>4, <1>5, <1>6, <1>7, <1>8, <1>9, <1>10, <1>11, <1>12, <1>13, <1>14, <1>15, <1>16
     DEF Next, SubmitGo, Run, Cleanup, Download, Release, Recover

\* An end that has reached the disk is never contradicted: by the worker, which
\* dates it once, by recover, which keeps the date it finds, or by a write that
\* was reported as failed and took place.
LEMMA EndedStep ==
    ASSUME IInv, LInv, [Next]_vars
    PROVE  Ended'
<1>a. ASSUME Submit \/ SubmitWrite \/ Tick \/ DownloadClose \/ PurgeDir \/ PurgeFail \/ UNCHANGED vars
             \/ (\E id \in Ids : CleanupFail(id) \/ CleanupResult(id) \/ DownloadOpen(id) \/ Damage(id))
      PROVE  UNCHANGED <<wpc, cur, loc, tasks, rec>>
  BY <1>a DEF Submit, SubmitMkdir, SubmitWrite, Tick, DownloadClose, PurgeDir, PurgeFail, CleanupFail,
     CleanupResult, DownloadOpen, Damage
<1> USE ConstAssumption, Held DEF Known
<1>h. Ended
  BY DEF LInv, Agreement
<1> DEFINE Mine(i) == wpc \in Holding /\ i = cur
           Agrees(i) == rec[i] # NoTask /\ rec[i].ended # NoTime =>
                          /\ tasks[i] # NoTask /\ ~Mine(i) => SameEnd(rec[i], tasks[i])
                          /\ Mine(i) => /\ SameEnd(rec[i], loc)
                                        /\ wpc \in Early \cup {"archive"} => rec[i].state = "interrupted"
<1>s. (\A i \in Ids : Agrees(i)') => Ended'
  BY DEF Ended
<1>o. \A i \in Ids : Agrees(i)
  BY <1>h DEF Ended
<1>1. ASSUME UNCHANGED <<wpc, cur, loc, tasks, rec>> PROVE Ended'
  BY <1>1, <1>h DEF Ended
<1>2. ASSUME NEW i \in Ids, ~Mine(i), ~Mine(i)', tasks'[i] = tasks[i] \/ tasks'[i] = NoTask,
             rec'[i] = rec[i] \/ rec'[i] = NoTask
      PROVE  Agrees(i)'
  BY <1>2, <1>o
<1>3. ASSUME wpc \notin Holding, wpc' \notin Holding, \A i \in Ids : tasks'[i] = tasks[i] \/ tasks'[i] = NoTask,
             \A i \in Ids : rec'[i] = rec[i] \/ rec'[i] = NoTask
      PROVE  Ended'
  BY <1>3, <1>2, <1>s
<1>4. ASSUME SubmitAccept \/ SubmitFail PROVE Ended'
  <2>1. /\ sub.id \in Ids /\ UNCHANGED <<wpc, cur, loc>> /\ NewTask(sub.req).ended = NoTime
        /\ rec' = rec \/ rec' = [rec EXCEPT ![sub.id] = NewTask(sub.req)]
        /\ tasks' = tasks \/ (tasks' = [tasks EXCEPT ![sub.id] = NewTask(sub.req)] /\ rec'[sub.id] = NewTask(sub.req))
    BY <1>4 DEF SubmitAccept, SubmitFail, IInv, SubmitInv, NewTask
  <2> SUFFICES ASSUME NEW i \in Ids PROVE Agrees(i)'
    BY <1>s
  <2>2. rec'[i] = NewTask(sub.req) \/ (rec'[i] = rec[i] /\ tasks'[i] = tasks[i])
    BY <2>1
  <2> QED
    BY <2>1, <2>2, <1>o
<1>5. CASE WTake
  <2>1. job \in Ids /\ tasks[job] # NoTask /\ tasks[job].ended = NoTime /\ wpc \notin Holding
    BY <1>5 DEF WTake, IInv, WorkerInv, Holding
  <2>2. rec[job] # NoTask => rec[job].ended = NoTime
    BY <2>1, <1>o DEF SameEnd
  <2>3. UNCHANGED <<tasks, rec>> /\ cur' = job
    BY <1>5 DEF WTake
  <2> SUFFICES ASSUME NEW i \in Ids PROVE Agrees(i)'
    BY <1>s
  <2>4. CASE i = job
    BY <2>2, <2>3, <2>4
  <2>5. CASE i # job
    BY <2>1, <2>3, <2>5, <1>o
  <2> QED
    BY <2>4, <2>5
\* The worker, before finish.
<1>6. ASSUME up = "up", wpc \in Early, wpc' \in Early, UNCHANGED cur, SameEnd(loc, loc'),
             tasks' = tasks \/ \E u : tasks' = [tasks EXCEPT ![cur] = u],
             rec' = rec \/ rec' = [rec EXCEPT ![cur] = loc] \/ rec' = [rec EXCEPT ![cur] = loc']
      PROVE  Ended'
  <2>1. wpc \in Holding /\ wpc' \in Holding
    BY <1>6 DEF Early, Holding
  <2>2. loc.state = "running" /\ loc.ended = NoTime /\ cur \in Ids
    BY <1>6, <2>1 DEF LInv, Custody, Shown, Sound
  <2>3. rec[cur] # NoTask => rec[cur].ended = NoTime
    BY <2>1, <2>2, <1>o DEF SameEnd
  <2>4. rec'[cur] # NoTask => rec'[cur].ended = NoTime
    BY <1>6, <2>2, <2>3 DEF SameEnd
  <2> SUFFICES ASSUME NEW i \in Ids PROVE Agrees(i)'
    BY <1>s
  <2>5. CASE i = cur
    BY <1>6, <2>4, <2>5
  <2>6. CASE i # cur
    BY <1>6, <2>6, <2>2, <1>o
  <2> QED
    BY <2>5, <2>6
<1>7. ASSUME WPrepare \/ WCommit PROVE Ended'
  <2>1. up = "up"
    BY <1>7 DEF WPrepare, WCommit, LInv, Custody, Shown, Sampling
  <2> QED
    BY <1>7, <2>1, <1>6 DEF WPrepare, WCommit, Publish, SameEnd, Early
<1>8. ASSUME WPrepareFail \/ WFrameFail PROVE Ended'
  <2>1. up = "up" /\ wpc \in Holding
    BY <1>8 DEF WPrepareFail, WFrameFail, LInv, Custody, Shown, Sampling, Holding
  <2>2. loc' = Flagged(loc) /\ loc \in Task
    BY <1>8, <2>1 DEF WPrepareFail, WFrameFail
  <2>3. SameEnd(loc, loc')
    BY <2>2, Fields DEF Same, SameEnd
  <2> QED
    BY <1>8, <2>1, <2>3, <1>6 DEF WPrepareFail, WFrameFail, PublishFail, LostWrite, Early
<1>9. CASE WAppend
  <2>1. up = "up" /\ wpc \in Holding
    BY <1>9 DEF WAppend, LInv, Custody, Shown, Sampling, Holding
  <2>2. loc' = Counted(loc, loc.src + 1) /\ loc \in Task
    BY <1>9, <2>1 DEF WAppend
  <2>3. loc.src + 1 \in Nat
    BY <2>2 DEF Task
  <2>4. SameEnd(loc, loc')
    BY <2>2, <2>3, CountFields
  <2> QED
    BY <1>9, <2>1, <2>4, <1>6 DEF WAppend, Early
<1>10. CASE WEndWindow
  <2>1. PICK e \in {loc.errs, TRUE} : loc' = Packaging(loc, e)
    BY <1>10 DEF WEndWindow
  <2>2. /\ wpc \in {"sampling", "collected"} /\ wpc' = "finish" /\ UNCHANGED cur
        /\ tasks' = [tasks EXCEPT ![cur] = loc'] /\ (rec' = rec \/ rec' = [rec EXCEPT ![cur] = loc'])
    BY <1>10 DEF WEndWindow, Publish, PublishFail, LostWrite
  <2>3. up = "up" /\ loc \in Task
    BY <2>2 DEF LInv, Custody, Shown, Sampling, Holding
  <2>4. e \in BOOLEAN
    BY <2>1, <2>3 DEF Task
  <2>5. SameEnd(loc, loc')
    BY <2>1, <2>3, <2>4, Fields DEF Same, SameEnd
  <2> QED
    BY <2>2, <2>3, <2>5, <1>6 DEF Early
\* A step that changes the private copy only.
<1>11. ASSUME wpc \in Holding, wpc' \in Holding, UNCHANGED <<cur, tasks, rec>>,
              wpc \in Early \cup {"archive"},
              rec[cur] # NoTask /\ rec[cur].ended # NoTime /\ loc.state = "interrupted"
                /\ loc.ended # NoTime => SameEnd(loc, loc')
       PROVE  Ended'
  <2> SUFFICES ASSUME NEW i \in Ids PROVE Agrees(i)'
    BY <1>s
  <2>1. CASE i = cur
    BY <1>11, <2>1, <1>o DEF SameEnd
  <2>2. CASE i # cur
    BY <1>11, <2>2, <1>o
  <2> QED
    BY <2>1, <2>2
<1>12. ASSUME RecoverRepair \/ RecoverSetAside \/ RecoverReplace PROVE Ended'
  <2>1. wpc \in {"repair", "replace"} /\ wpc' \in {"finish", "replace"} /\ UNCHANGED <<cur, tasks, rec>>
    BY <1>12 DEF RecoverRepair, RecoverSetAside, RecoverReplace
  <2>2. loc \in Task /\ samples[cur] \in Nat \cup {NoFile}
    BY <2>1 DEF Holding
  <2> DEFINE r == Recounted(loc, samples[cur])
  <2>3. loc' = loc \/ loc' = Flagged(loc) \/ loc' = r \/ loc' = Flagged(r)
    BY <1>12 DEF RecoverRepair, RecoverSetAside, RecoverReplace
  <2>4. r \in Task /\ SameEnd(loc, r)
    BY <2>2, CountFields
  <2> HIDE DEF r
  <2>5. SameEnd(loc, loc')
    BY <2>2, <2>3, <2>4, Fields DEF Same, SameEnd
  <2> QED
    BY <2>1, <2>5, <1>11 DEF Early, Holding
<1>13. CASE WFinish
  <2>1. loc' = Finished(loc) /\ wpc = "finish" /\ wpc' = "archive" /\ UNCHANGED <<cur, tasks, rec>>
    BY <1>13 DEF WFinish
  <2>2. loc \in Task
    BY <2>1 DEF Holding
  <2>3. loc.state = "interrupted" /\ loc.ended # NoTime => SameEnd(loc, loc')
    BY <2>1, <2>2, EndFields DEF SameEnd, FinalState
  <2> QED
    BY <2>1, <2>3, <1>11 DEF Early, Holding
<1>14. ASSUME WArchive \/ WArchiveFail PROVE Ended'
  <2>1. /\ wpc = "archive" /\ wpc' = "publish" /\ (loc' = Packaged(loc) \/ loc' = Unpackaged(loc))
        /\ UNCHANGED <<cur, tasks, rec>>
    BY <1>14 DEF WArchive, WArchiveFail
  <2>2. loc \in Task
    BY <2>1 DEF Holding
  <2>3. loc.state = "interrupted" => SameEnd(loc, loc')
    BY <2>1, <2>2, Fields DEF Same, SameEnd
  <2> QED
    BY <2>1, <2>3, <1>11 DEF Early, Holding
<1>15. CASE WPublish
  <2>1. /\ tasks' = [tasks EXCEPT ![cur] = loc] /\ UNCHANGED <<cur, loc>> /\ wpc = "publish"
        /\ wpc' \in {"retract", "release"} /\ (rec' = rec \/ rec' = [rec EXCEPT ![cur] = loc])
    BY <1>15 DEF WPublish, Publish, PublishFail, LostWrite
  <2>2. cur \in Ids /\ wpc \in Holding /\ wpc' \in Holding /\ wpc' \notin Early \cup {"archive"}
    BY <2>1 DEF Holding, Early
  <2> SUFFICES ASSUME NEW i \in Ids PROVE Agrees(i)'
    BY <1>s
  <2>3. CASE i = cur
    BY <2>1, <2>2, <2>3, <1>o DEF SameEnd
  <2>4. CASE i # cur
    BY <2>1, <2>2, <2>4, <1>o
  <2> QED
    BY <2>3, <2>4
<1>16. CASE WRetract
  <2>1. /\ tasks' = [tasks EXCEPT ![cur] = Withdrawn(tasks[cur])] /\ UNCHANGED <<cur, loc, rec>>
        /\ wpc = "retract" /\ wpc' = "release"
    BY <1>16 DEF WRetract
  <2>2. cur \in Ids /\ wpc \in Holding /\ wpc' \in Holding /\ wpc' \notin Early \cup {"archive"}
    BY <2>1 DEF Holding, Early
  <2> SUFFICES ASSUME NEW i \in Ids PROVE Agrees(i)'
    BY <1>s
  <2>3. CASE i = cur
    BY <2>1, <2>2, <2>3, <1>o
  <2>4. CASE i # cur
    BY <2>1, <2>2, <2>4, <1>o
  <2> QED
    BY <2>3, <2>4
<1>17. ASSUME WRelease \/ RecoverStore PROVE Ended'
  <2>1. /\ wpc = "release" /\ wpc' \notin Holding /\ UNCHANGED rec
        /\ tasks' = tasks \/ tasks' = [tasks EXCEPT ![cur] = loc]
    BY <1>17 DEF WRelease, RecoverStore, Holding
  <2>2. cur \in Ids /\ wpc \in Holding /\ SameEnd(loc, tasks[cur])
    BY <2>1 DEF Holding, LInv, Custody, Shown, SameEnd
  <2>3. SameEnd(loc, tasks'[cur])
    BY <2>1, <2>2 DEF SameEnd
  <2> SUFFICES ASSUME NEW i \in Ids PROVE Agrees(i)'
    BY <1>s
  <2>4. CASE i = cur
    BY <2>1, <2>2, <2>3, <2>4, <1>o DEF SameEnd
  <2>5. CASE i # cur
    BY <2>1, <2>2, <2>5, <1>o
  <2> QED
    BY <2>4, <2>5
<1>18. ASSUME CleanupBegin \/ CleanupEnd \/ Crash PROVE Ended'
  <2>1. /\ wpc' \notin Holding /\ rec' = rec
        /\ (wpc \notin Holding /\ tasks' = tasks) \/ (\A i \in Ids : tasks'[i] = NoTask)
    BY <1>18 DEF CleanupBegin, CleanupEnd, Crash, Holding
  <2>2. CASE wpc \notin Holding /\ tasks' = tasks
    BY <2>1, <2>2, <1>3
  <2>3. CASE \A i \in Ids : tasks'[i] = NoTask
    BY <2>1, <2>3 DEF Ended
  <2> QED
    BY <2>1, <2>2, <2>3
<1>19. ASSUME NEW id \in Ids, CleanupFile(id) \/ CleanupTask(id) PROVE Ended'
  <2>1. /\ wpc \notin Holding /\ wpc' \notin Holding
        /\ tasks' = tasks \/ tasks' = [tasks EXCEPT ![id] = NoTask]
        /\ rec' = rec \/ rec' = [rec EXCEPT ![id] = NoTask]
    BY <1>19 DEF CleanupFile, DropFile, CleanupTask, Forget, Holding
  <2> QED
    BY <2>1, <1>3
<1>20. CASE PurgeFile
  <2>1. dl.id \in Ids /\ UNCHANGED <<wpc, cur, loc, tasks>>
        /\ (rec' = rec \/ rec' = [rec EXCEPT ![dl.id] = NoTask])
    BY <1>20 DEF PurgeFile, DropFile, IInv, DownloadInv
  <2> SUFFICES ASSUME NEW i \in Ids PROVE Agrees(i)'
    BY <1>s
  <2>2. rec'[i] = rec[i] \/ rec'[i] = NoTask
    BY <2>1
  <2> QED
    BY <2>1, <2>2, <1>o
<1>21. CASE DownloadCorrupt
  <2> DEFINE t == Withdrawn(tasks[dl.id])
  <2>1. dl.id \in Ids /\ tasks[dl.id] \in Task /\ UNCHANGED <<wpc, cur, loc>>
        /\ tasks' = [tasks EXCEPT ![dl.id] = t] /\ (rec' = rec \/ rec' = [rec EXCEPT ![dl.id] = t])
    BY <1>21 DEF DownloadCorrupt, LostWrite, IInv, DownloadInv
  <2>2. SameEnd(tasks[dl.id], t)
    BY <2>1, Fields DEF Same, SameEnd
  <2>3. Mine(dl.id) => /\ wpc \notin Early \cup {"archive"}
                       /\ SameEnd(loc, t)
    <3> SUFFICES ASSUME wpc \in Holding, dl.id = cur
                 PROVE  wpc \in {"retract", "release"} /\ SameEnd(loc, t)
      BY DEF Early
    <3>1. up = "up" /\ tasks[cur].state # "running"
      BY <1>21, <2>1 DEF DownloadCorrupt, IInv, LoopInv, TypeOK, NoDownload, LInv, Custody, Opened,
         DownloadInv
    <3>2. wpc \in {"retract", "release"}
      BY <3>1 DEF LInv, Custody, Shown
    <3> QED
      BY <2>2, <3>2 DEF SameEnd, LInv, Custody, Shown
  <2> HIDE DEF t
  <2> SUFFICES ASSUME NEW i \in Ids PROVE Agrees(i)'
    BY <1>s
  <2>4. CASE i = dl.id
    BY <2>1, <2>2, <2>3, <2>4, <1>o DEF SameEnd
  <2>5. CASE i # dl.id
    BY <2>1, <2>5, <1>o
  <2> QED
    BY <2>4, <2>5
<1>22. CASE RecoverLoad
  <2>1. wpc' \notin Holding /\ rec' = rec /\ \A i \in Ids : tasks'[i] = NoTask \/ tasks'[i] = rec[i]
    BY <1>22 DEF RecoverLoad, Holding
  <2> QED
    BY <2>1 DEF Ended, SameEnd
<1>23. ASSUME NEW id \in Ids, Visiting(id)
       PROVE  /\ tasks[id] \in Task /\ rec[id] = tasks[id] /\ wpc = "recover" /\ wpc \notin Holding
  BY <1>23 DEF Visiting, IInv, LoopInv, LInv, Agreement, Unvisited, Holding
<1>24. ASSUME NEW id \in Ids, RecoverInterrupt(id) PROVE Ended'
  <2> DEFINE t == Interrupted(tasks[id])
  <2>1. /\ tasks[id] \in Task /\ rec[id] = tasks[id] /\ tasks[id].state = "running"
        /\ wpc = "recover" /\ wpc \notin Holding
    BY <1>24, <1>23 DEF RecoverInterrupt
  <2>2. t.state = "interrupted" /\ rec[id].ended = NoTime
    BY <2>1, EndFields DEF SoundCopies, Sound
  <2>3. \/ rec' = [rec EXCEPT ![id] = t] /\ cur' = id /\ loc' = t /\ wpc' = "repair" /\ tasks' = tasks
        \/ /\ rec' = rec \/ rec' = [rec EXCEPT ![id] = t]
           /\ tasks' = [tasks EXCEPT ![id] = t] /\ wpc' = wpc
    BY <1>24 DEF RecoverInterrupt, LostWrite
  <2> HIDE DEF t
  <2> SUFFICES ASSUME NEW i \in Ids PROVE Agrees(i)'
    BY <1>s
  <2>4. CASE i = id
    BY <2>1, <2>2, <2>3, <2>4 DEF SameEnd, Holding
  <2>5. CASE i # id
    BY <2>1, <2>3, <2>5, <1>o
  <2> QED
    BY <2>4, <2>5
<1>25. ASSUME NEW id \in Ids, RecoverResume(id) PROVE Ended'
  <2>1. /\ tasks[id] \in Task /\ rec[id] = tasks[id] /\ tasks[id].state = "interrupted"
        /\ wpc \notin Holding
    BY <1>25, <1>23 DEF RecoverResume
  <2>2. UNCHANGED <<tasks, rec>> /\ cur' = id /\ loc' = tasks[id] /\ wpc' = "repair"
    BY <1>25 DEF RecoverResume
  <2> SUFFICES ASSUME NEW i \in Ids PROVE Agrees(i)'
    BY <1>s
  <2>3. CASE i = id
    BY <2>1, <2>2, <2>3 DEF SameEnd, Holding
  <2>4. CASE i # id
    BY <2>1, <2>2, <2>4, <1>o
  <2> QED
    BY <2>3, <2>4
<1>26. ASSUME NEW id \in Ids, RecoverVerify(id) PROVE Ended'
  <2> DEFINE t == Withdrawn(tasks[id])
  <2>1. tasks[id] \in Task /\ rec[id] = tasks[id] /\ wpc \notin Holding
    BY <1>26, <1>23 DEF RecoverVerify
  <2>2. SameEnd(tasks[id], t)
    BY <2>1, Fields DEF Same, SameEnd
  <2>3. /\ wpc' = wpc
        /\ \/ tasks' = tasks /\ rec' = rec
           \/ tasks' = [tasks EXCEPT ![id] = t] /\ (rec' = rec \/ rec' = [rec EXCEPT ![id] = t])
    BY <1>26 DEF RecoverVerify, LostWrite
  <2> HIDE DEF t
  <2> SUFFICES ASSUME NEW i \in Ids PROVE Agrees(i)'
    BY <1>s
  <2>4. CASE i = id
    BY <2>1, <2>2, <2>3, <2>4 DEF SameEnd
  <2>5. CASE i # id
    BY <2>1, <2>3, <2>5, <1>o
  <2> QED
    BY <2>4, <2>5
<1> HIDE DEF Mine, Agrees
<1> QED
  BY <1>a, <1>1, <1>4, <1>5, <1>7, <1>8, <1>9, <1>10, <1>12, <1>13, <1>14, <1>15, <1>16, <1>17,
     <1>18, <1>19, <1>20, <1>21, <1>22, <1>24, <1>25, <1>26
     DEF Next, SubmitGo, Run, Cleanup, Download, Release, Recover

-----------------------------------------------------------------------------
(* The packages behind offered results.                                    *)

\* cleanup holds a.mu, so what it found old is still old when it comes to it.
LEMMA SweepStep ==
    ASSUME IInv, LInv, [Next]_vars
    PROVE  Sweep'
<1>1. ASSUME wpc' # "cleanup" PROVE Sweep'
  BY <1>1 DEF Sweep
<1>2. ASSUME wpc = "cleanup", UNCHANGED <<wpc, tasks, now>>, todo' \subseteq todo PROVE Sweep'
  BY <1>2 DEF LInv, Offers, Sweep, TaskExpired, ResultExpired
<1>m. wpc = "cleanup" <=> mu = "cleanup"
  BY DEF IInv, LoopInv
<1>3. ASSUME Run \/ Recover \/ Crash \/ CleanupEnd PROVE Sweep'
  <2>1. wpc' # "cleanup" \/ (wpc' = wpc /\ wpc = "recover")
    <3>1. ASSUME Run PROVE wpc' # "cleanup"
      BY <3>1 DEF Run, WTake, WPrepare, WPrepareFail, WAppend, WCommit, WFrameFail, WEndWindow,
         WFinish, WArchive, WArchiveFail, WPublish, WRetract, WRelease
    <3>2. ASSUME Recover PROVE wpc' # "cleanup" \/ (wpc' = wpc /\ wpc = "recover")
      BY <3>2 DEF Recover, RecoverLoad, RecoverRepair, RecoverSetAside, RecoverReplace,
         RecoverStore, RecoverInterrupt, RecoverResume, RecoverVerify, Visiting
    <3> QED
      BY <1>3, <3>1, <3>2 DEF Crash, CleanupEnd
  <2> QED
    BY <2>1, <1>1
<1>4. ASSUME Submit \/ SubmitGo \/ Download \/ Release \/ Tick \/ UNCHANGED vars
             \/ (\E id \in Ids : CleanupFile(id) \/ CleanupFail(id) \/ CleanupResult(id) \/ Damage(id))
      PROVE  Sweep'
  <2>1. wpc' = wpc
    BY <1>4 DEF Submit, SubmitMkdir, SubmitGo, SubmitWrite, SubmitAccept, SubmitFail, Download,
       DownloadOpen, DownloadCorrupt, Release, DownloadClose, PurgeFile, PurgeDir, PurgeFail, Tick,
       CleanupFile, CleanupFail, CleanupResult, Damage
  <2>2. mu = "cleanup" => UNCHANGED <<tasks, now>> /\ todo' \subseteq todo
    BY <1>4 DEF Submit, SubmitMkdir, Admits, SubmitGo, SubmitWrite, SubmitAccept, SubmitFail, Download,
       DownloadOpen, DownloadCorrupt, Release, DownloadClose, PurgeFile, PurgeDir, PurgeFail, Tick,
       CleanupFile, CleanupFail, CleanupResult, Damage
  <2> QED
    BY <2>1, <2>2, <1>m, <1>1, <1>2
<1>5. CASE CleanupBegin
  BY <1>5 DEF CleanupBegin, Stale, Sweep, TaskExpired, ResultExpired
<1>6. ASSUME NEW id \in Ids, CleanupTask(id) PROVE Sweep'
  <2>1. /\ wpc = "cleanup" /\ todo' = todo \ {id} /\ now' = now /\ todo \subseteq Ids
        /\ tasks' = [tasks EXCEPT ![id] = NoTask] /\ tasks \in [Ids -> Task \cup {NoTask}]
    BY <1>6 DEF CleanupTask, Forget, IInv, TypeOK
  <2>2. \A i \in todo' : i \in todo /\ tasks'[i] = tasks[i]
    BY <2>1
  <2> QED
    BY <2>1, <2>2 DEF LInv, Offers, Sweep, TaskExpired, ResultExpired
<1> QED
  BY <1>3, <1>4, <1>5, <1>6 DEF Next, Cleanup

\* A deletion is put off only for the download in progress, and Close does it.
LEMMA LeasedStep ==
    ASSUME IInv, LInv, [Next]_vars
    PROVE  Leased'
<1>h. Leased
  BY DEF LInv, Offers
<1>1. ASSUME UNCHANGED <<pending, dl>>, up = "up" => up' = "up" PROVE Leased'
  BY <1>1, <1>h DEF Leased
<1>2. ASSUME pending' = {} PROVE Leased'
  BY <1>2 DEF Leased
<1>3. ASSUME Submit \/ SubmitGo \/ DownloadCorrupt \/ PurgeFile \/ Tick \/ UNCHANGED vars
             \/ CleanupBegin \/ CleanupEnd
             \/ (\E id \in Ids : CleanupFile(id) \/ CleanupFail(id) \/ CleanupTask(id) \/ Damage(id))
      PROVE  UNCHANGED <<pending, dl>> /\ (up = "up" => up' = "up")
  BY <1>3 DEF Submit, SubmitMkdir, SubmitGo, SubmitWrite, SubmitAccept, SubmitFail, DownloadCorrupt,
     PurgeFile, Tick, CleanupBegin, CleanupEnd, CleanupFile, CleanupFail, CleanupTask, Damage
<1>4. ASSUME Run PROVE UNCHANGED <<pending, dl, up>>
  BY <1>4 DEF Run, WTake, WPrepare, WPrepareFail, WAppend, WCommit, WFrameFail, WEndWindow,
     WFinish, WArchive, WArchiveFail, WPublish, WRetract, WRelease
<1>5. ASSUME Recover PROVE UNCHANGED <<pending, dl>> /\ (up = "up" => up' = "up")
  BY <1>5 DEF Recover, RecoverLoad, RecoverRepair, RecoverSetAside, RecoverReplace,
     RecoverStore, RecoverInterrupt, RecoverResume, RecoverVerify
<1>6. ASSUME NEW id \in Ids, CleanupResult(id) PROVE Leased'
  <2>1. CASE dl.id # id
    BY <1>6, <2>1, <1>1 DEF CleanupResult
  <2>2. CASE dl.id = id
    <3>1. Known(id) /\ dl.stage = "open"
      BY <1>6, <2>2, ConstAssumption DEF CleanupResult, IInv, LoopInv, DownloadInv, TypeOK, LInv,
         Custody, Opened
    <3>2. up = "up"
      BY <1>6, <3>1 DEF CleanupResult, IInv, LoopInv, TypeOK, NoDownload
    <3>3. pending = {} \/ pending = {id}
      BY <2>2, <1>h DEF Leased
    <3> QED
      BY <1>6, <2>2, <3>1, <3>2, <3>3 DEF CleanupResult, Leased
  <2> QED
    BY <2>1, <2>2
<1>7. ASSUME NEW id \in Ids, DownloadOpen(id) PROVE Leased'
  <2>1. pending = {}
    BY <1>7, <1>h DEF DownloadOpen, NoDownload, Leased
  <2> QED
    BY <1>7, <2>1, <1>2 DEF DownloadOpen
<1>8. ASSUME DownloadClose \/ PurgeDir \/ PurgeFail \/ Crash PROVE Leased'
  <2>1. pending' = {}
    BY <1>8, <1>h DEF DownloadClose, PurgeDir, PurgeFail, Crash, Leased
  <2> QED
    BY <2>1, <1>2
<1> QED
  BY <1>1, <1>3, <1>4, <1>5, <1>6, <1>7, <1>8 DEF Next, Cleanup, Download, Release

\* The task that finish publishes is not the one that is being downloaded.
LEMMA NotDownloaded ==
    ASSUME IInv, LInv, wpc \in Holding \ {"retract", "release"}
    PROVE  /\ dl.stage \in {"open", "purge"} => dl.id # cur
           /\ cur \notin removed \cup pending
<1>1. cur \in Ids /\ Known(cur) /\ up # "down"
  BY DEF IInv, WorkerInv
<1>2. cur \notin removed
  BY <1>1 DEF IInv, DownloadInv
<1>3. dl.stage = "purge" => dl.id # cur
  BY <1>2 DEF IInv, DownloadInv
<1>4. CASE up = "up"
  BY <1>1, <1>2, <1>3, <1>4 DEF LInv, Custody, Shown, Opened, Offers, Leased
<1>5. CASE up # "up"
  BY <1>1, <1>2, <1>5 DEF IInv, LoopInv, TypeOK, NoDownload, LInv, Offers, Leased
<1> QED
  BY <1>4, <1>5

\* Nobody deletes the package between its publication and that of the record.
LEMMA PackedStep ==
    ASSUME IInv, LInv, [Next]_vars
    PROVE  Packed'
<1>h. Packed /\ arc \in [Ids -> {"none", "good", "bad"}]
  BY DEF LInv, Offers, IInv, TypeOK
<1>1. ASSUME wpc' # "publish" PROVE Packed'
  BY <1>1 DEF Packed
<1>2. ASSUME UNCHANGED <<wpc, loc, cur, arc>> PROVE Packed'
  BY <1>2, <1>h DEF Packed
<1>3. ASSUME Submit \/ SubmitGo \/ Download \/ PurgeDir \/ PurgeFail \/ Tick \/ UNCHANGED vars
      PROVE  UNCHANGED <<wpc, loc, cur, arc>>
  BY <1>3 DEF Submit, SubmitMkdir, SubmitGo, SubmitWrite, SubmitAccept, SubmitFail, Download,
     DownloadOpen, DownloadCorrupt, PurgeDir, PurgeFail, Tick
<1>4. ASSUME WTake \/ WPrepare \/ WPrepareFail \/ WAppend \/ WCommit \/ WFrameFail \/ WEndWindow
             \/ WFinish \/ WPublish \/ WRetract \/ WRelease \/ Crash
      PROVE  wpc' # "publish"
  BY <1>4 DEF WTake, WPrepare, WPrepareFail, WAppend, WCommit, WFrameFail, WEndWindow,
     WFinish, WPublish, WRetract, WRelease, Crash
<1>5. ASSUME Recover \/ Cleanup PROVE wpc' # "publish"
  BY <1>5 DEF Recover, RecoverLoad, RecoverRepair, RecoverSetAside, RecoverReplace,
     RecoverStore, RecoverInterrupt, RecoverResume, RecoverVerify, Visiting, Cleanup, CleanupBegin,
     CleanupEnd, CleanupFile, CleanupTask, CleanupFail, CleanupResult
<1>6. CASE WArchive
  <2>1. cur \in Ids
    BY <1>6 DEF WArchive, IInv, WorkerInv, Holding
  <2> QED
    BY <1>6, <1>h, <2>1 DEF WArchive, Packed
<1>7. CASE WArchiveFail
  <2>1. loc \in Task /\ now \in Nat
    BY <1>7 DEF WArchiveFail, IInv, WorkerInv, Holding, TypeOK
  <2>2. ~loc'.avail
    BY <1>7, <2>1, Fields DEF WArchiveFail
  <2> QED
    BY <2>2 DEF Packed
<1>8. ASSUME NEW id \in Ids, Damage(id) PROVE Packed'
  <2>1. UNCHANGED <<wpc, loc, cur>> /\ arc' = [arc EXCEPT ![id] = "bad"]
    BY <1>8 DEF Damage
  <2>2. wpc = "publish" => cur \in Ids
    BY DEF IInv, WorkerInv, Holding
  <2> QED
    BY <2>1, <2>2, <1>h DEF Packed
<1>9. ASSUME DownloadClose \/ PurgeFile PROVE Packed'
  <2>1. /\ UNCHANGED <<wpc, loc, cur>> /\ dl.stage \in {"open", "purge"}
        /\ arc' = arc \/ arc' = [arc EXCEPT ![dl.id] = "none"]
    BY <1>9 DEF DownloadClose, PurgeFile, DropFile
  <2>2. wpc = "publish" => dl.id # cur /\ cur \in Ids
    BY <2>1, NotDownloaded DEF Holding, IInv, WorkerInv
  <2>3. wpc = "publish" => arc'[cur] = arc[cur]
    BY <2>1, <2>2, <1>h
  <2> QED
    BY <2>1, <2>3, <1>h DEF Packed
<1> QED
  BY <1>1, <1>2, <1>3, <1>4, <1>5, <1>6, <1>7, <1>8, <1>9 DEF Next, Run, Release

\* A record that offers a result loses its package only when the result is
\* expired: cleanup's view of the end is the one on disk.
LEMMA BackedStep ==
    ASSUME IInv, LInv, [Next]_vars
    PROVE  (Waiting /\ ResultBacked)'
<1>a. ASSUME Submit \/ SubmitWrite \/ UNCHANGED vars
             \/ (\E id \in Ids : CleanupFail(id) \/ DownloadOpen(id) \/ RecoverResume(id))
      PROVE  UNCHANGED <<now, rec, arc, removed, pending>>
  BY <1>a DEF Submit, SubmitMkdir, SubmitWrite, CleanupFail, DownloadOpen, RecoverResume
<1>b. ASSUME WTake \/ WPrepareFail \/ WAppend \/ WFinish \/ WRetract \/ WRelease
             \/ CleanupBegin \/ CleanupEnd
      PROVE  UNCHANGED <<now, rec, arc, removed, pending>>
  BY <1>b DEF WTake, WPrepareFail, WAppend, WFinish, WRetract, WRelease, CleanupBegin, CleanupEnd
<1>c. ASSUME RecoverLoad \/ RecoverRepair \/ RecoverSetAside \/ RecoverReplace \/ RecoverStore
      PROVE  UNCHANGED <<now, rec, arc, removed, pending>>
  BY <1>c DEF RecoverLoad, RecoverRepair, RecoverSetAside, RecoverReplace, RecoverStore
<1> USE ConstAssumption, Held
<1>h. Waiting /\ ResultBacked
  BY DEF LInv, Offers
<1> DEFINE Good(i) == rec[i] # NoTask /\ rec[i].avail =>
                        /\ i \in removed \cup pending => ResultExpired(rec[i])
                        /\ ~ResultExpired(rec[i]) => arc[i] # "none"
<1>o. \A i \in Ids : Good(i)
  BY <1>h DEF Waiting, ResultBacked
<1>s. (\A i \in Ids : Good(i)') => (Waiting /\ ResultBacked)'
  BY DEF Waiting, ResultBacked
\* Time only makes results older.
<1>1. ASSUME NEW i \in Ids, rec'[i] = rec[i], now' = now \/ now' = now + 1,
             arc'[i] = arc[i] \/ arc'[i] # "none",
             i \in removed' \cup pending' => i \in removed \cup pending
      PROVE  Good(i)'
  <2>1. rec[i] # NoTask => rec[i].ended \in Int
    BY DEF Task, NoTime
  <2>2. rec[i] # NoTask /\ ResultExpired(rec[i]) => ResultExpired(rec[i])'
    BY <1>1, <2>1 DEF ResultExpired
  <2> QED
    BY <1>1, <2>2, <1>o
<1>2. ASSUME NEW i \in Ids, rec'[i] # NoTask => ~rec'[i].avail PROVE Good(i)'
  BY <1>2
<1>3. ASSUME NEW i \in Ids, rec'[i] = rec[i], now' = now, rec[i] # NoTask /\ rec[i].avail => ResultExpired(rec[i])
      PROVE  Good(i)'
  BY <1>3 DEF ResultExpired
<1> HIDE DEF Good
<1>4. ASSUME UNCHANGED <<now, rec, arc, removed, pending>> PROVE (Waiting /\ ResultBacked)'
  BY <1>4, <1>1, <1>s
<1>5. CASE Tick
  BY <1>5, <1>1, <1>s DEF Tick
\* A record is written that offers nothing.
<1>6. ASSUME NEW j \in Ids, NEW u, u # NoTask => ~u.avail, UNCHANGED <<now, arc, removed, pending>>,
             rec' = rec \/ rec' = [rec EXCEPT ![j] = u]
      PROVE  (Waiting /\ ResultBacked)'
  <2> SUFFICES ASSUME NEW i \in Ids PROVE Good(i)'
    BY <1>s
  <2>1. rec'[i] = rec[i] \/ rec'[i] = u
    BY <1>6
  <2> QED
    BY <1>6, <2>1, <1>1, <1>2
<1>7. ASSUME SubmitAccept \/ SubmitFail PROVE (Waiting /\ ResultBacked)'
  <2>1. /\ sub.id \in Ids /\ ~NewTask(sub.req).avail /\ UNCHANGED <<now, arc, removed, pending>>
        /\ rec' = rec \/ rec' = [rec EXCEPT ![sub.id] = NewTask(sub.req)]
    BY <1>7 DEF SubmitAccept, SubmitFail, IInv, SubmitInv, NewTask
  <2> QED
    BY <2>1, <1>6
<1>8. ASSUME WPrepare \/ WCommit \/ WFrameFail PROVE (Waiting /\ ResultBacked)'
  <2>1. /\ wpc \in Early /\ UNCHANGED <<now, arc, removed, pending>>
        /\ rec' = rec \/ rec' = [rec EXCEPT ![cur] = loc]
    BY <1>8 DEF WPrepare, WCommit, WFrameFail, Publish, PublishFail, LostWrite, Early
  <2>2. cur \in Ids /\ ~loc.avail
    BY <2>1 DEF OwnCopy, Early, Holding
  <2> QED
    BY <2>1, <2>2, <1>6
<1>9. CASE WEndWindow
  <2>1. /\ wpc \in Early /\ wpc' \in Early /\ UNCHANGED <<now, arc, removed, pending>>
        /\ rec' = rec \/ rec' = [rec EXCEPT ![cur] = loc']
    BY <1>9 DEF WEndWindow, Publish, PublishFail, LostWrite, Early
  <2>2. cur \in Ids
    BY <2>1 DEF Early, Holding
  <2>3. ~loc'.avail
    BY <2>1, OwnStep DEF OwnCopy
  <2> QED
    BY <2>1, <2>2, <2>3, <1>6
<1>10. CASE WPublish
  <2>1. /\ wpc = "publish" /\ UNCHANGED <<now, arc, removed, pending>>
        /\ rec' = rec \/ rec' = [rec EXCEPT ![cur] = loc]
    BY <1>10 DEF WPublish, Publish, PublishFail, LostWrite
  <2>2. cur \in Ids /\ cur \notin removed \cup pending /\ (loc.avail => arc[cur] # "none")
    BY <2>1, NotDownloaded DEF Holding, LInv, Offers, Packed
  <2> SUFFICES ASSUME NEW i \in Ids PROVE Good(i)'
    BY <1>s
  <2>3. rec'[i] = rec[i] \/ (i = cur /\ rec'[i] = loc)
    BY <2>1, <2>2
  <2> QED
    BY <2>1, <2>2, <2>3, <1>1 DEF Good
<1>11. ASSUME WArchive \/ WArchiveFail PROVE (Waiting /\ ResultBacked)'
  <2>1. /\ wpc = "archive" /\ UNCHANGED <<now, rec, removed, pending>>
        /\ arc' = arc \/ \E x : arc' = [arc EXCEPT ![cur] = x]
    BY <1>11 DEF WArchive, WArchiveFail
  <2>2. cur \in Ids /\ (rec[cur] # NoTask => ~rec[cur].avail)
    BY <2>1 DEF Holding, LInv, Agreement, Unoffered
  <2> SUFFICES ASSUME NEW i \in Ids PROVE Good(i)'
    BY <1>s
  <2>3. i = cur \/ arc'[i] = arc[i]
    BY <2>1, <2>2
  <2> QED
    BY <2>1, <2>2, <2>3, <1>1, <1>2
<1>12. ASSUME NEW id \in Ids, Damage(id) PROVE (Waiting /\ ResultBacked)'
  <2>1. UNCHANGED <<now, rec, removed, pending>> /\ arc' = [arc EXCEPT ![id] = "bad"]
    BY <1>12 DEF Damage
  <2> SUFFICES ASSUME NEW i \in Ids PROVE Good(i)'
    BY <1>s
  <2>2. arc'[i] = arc[i] \/ arc'[i] = "bad"
    BY <2>1
  <2> QED
    BY <2>1, <2>2, <1>1
\* What cleanup finds old in memory is old on disk.
<1>13. ASSUME NEW id \in Ids, wpc = "cleanup", id \in todo
       PROVE  rec[id] # NoTask /\ rec[id].avail => ResultExpired(rec[id])
  <2> SUFFICES ASSUME rec[id] # NoTask, rec[id].avail PROVE ResultExpired(rec[id])
    OBVIOUS
  <2>1. Known(id) /\ (TaskExpired(tasks[id]) \/ ResultExpired(tasks[id]))
    BY <1>13 DEF IInv, LoopInv, LInv, Offers, Sweep
  <2>2. rec[id].ended # NoTime
    BY DEF SoundCopies, Sound
  <2>3. rec[id].ended = tasks[id].ended
    BY <1>13, <2>1, <2>2 DEF LInv, Agreement, Ended, SameEnd, Holding
  <2>4. rec[id].ended \in Nat
    BY <2>2 DEF Task
  <2> QED
    BY <2>1, <2>2, <2>3, <2>4 DEF TaskExpired, ResultExpired
<1>14. ASSUME NEW id \in Ids, CleanupFile(id) PROVE (Waiting /\ ResultBacked)'
  <2>1. /\ wpc = "cleanup" /\ id \in todo /\ UNCHANGED <<now, removed, pending>>
        /\ rec' = rec \/ rec' = [rec EXCEPT ![id] = NoTask]
        /\ arc' = arc \/ arc' = [arc EXCEPT ![id] = "none"]
    BY <1>14 DEF CleanupFile, DropFile, Expiring
  <2> SUFFICES ASSUME NEW i \in Ids PROVE Good(i)'
    BY <1>s
  <2>2. rec'[i] = rec[i] \/ rec'[i] = NoTask
    BY <2>1
  <2>3. i = id \/ arc'[i] = arc[i]
    BY <2>1
  <2> QED
    BY <2>1, <2>2, <2>3, <1>1, <1>2, <1>3, <1>13
<1>15. ASSUME NEW id \in Ids, CleanupTask(id) PROVE (Waiting /\ ResultBacked)'
  <2>1. /\ wpc = "cleanup" /\ id \in todo /\ UNCHANGED <<now, rec, arc, pending>>
        /\ removed' \subseteq removed \cup {id}
    BY <1>15 DEF CleanupTask, Expiring
  <2> SUFFICES ASSUME NEW i \in Ids PROVE Good(i)'
    BY <1>s
  <2> QED
    BY <2>1, <1>1, <1>3, <1>13
<1>16. ASSUME NEW id \in Ids, CleanupResult(id) PROVE (Waiting /\ ResultBacked)'
  <2>1. /\ wpc = "cleanup" /\ id \in todo /\ UNCHANGED <<now, rec, removed>>
        /\ arc' = arc \/ arc' = [arc EXCEPT ![id] = "none"]
        /\ pending' \subseteq pending \cup {id}
    BY <1>16 DEF CleanupResult
  <2> SUFFICES ASSUME NEW i \in Ids PROVE Good(i)'
    BY <1>s
  <2>2. i = id \/ arc'[i] = arc[i]
    BY <2>1
  <2> QED
    BY <2>1, <2>2, <1>1, <1>3, <1>13
<1>17. CASE DownloadCorrupt
  <2>1. /\ dl.id \in Ids /\ tasks[dl.id] \in Task /\ UNCHANGED <<now, arc, removed, pending>>
        /\ rec' = rec \/ rec' = [rec EXCEPT ![dl.id] = Withdrawn(tasks[dl.id])]
    BY <1>17 DEF DownloadCorrupt, LostWrite, IInv, DownloadInv
  <2>2. ~Withdrawn(tasks[dl.id]).avail
    BY <2>1, Fields
  <2> QED
    BY <2>1, <2>2, <1>6
<1>18. ASSUME DownloadClose \/ PurgeFile PROVE (Waiting /\ ResultBacked)'
  <2>1. /\ dl.id \in Ids /\ UNCHANGED <<now, removed>> /\ pending' \subseteq pending
        /\ rec' = rec \/ rec' = [rec EXCEPT ![dl.id] = NoTask]
        /\ arc' = arc \/ (arc' = [arc EXCEPT ![dl.id] = "none"] /\ dl.id \in removed \cup pending)
    BY <1>18 DEF DownloadClose, PurgeFile, DropFile, IInv, DownloadInv
  <2> SUFFICES ASSUME NEW i \in Ids PROVE Good(i)'
    BY <1>s
  <2>2. rec'[i] = rec[i] \/ rec'[i] = NoTask
    BY <2>1
  <2>3. arc'[i] = arc[i] \/ i \in removed \cup pending
    BY <2>1
  <2> QED
    BY <2>1, <2>2, <2>3, <1>o, <1>1, <1>2, <1>3 DEF Good
<1>19. ASSUME PurgeDir \/ PurgeFail \/ Crash PROVE (Waiting /\ ResultBacked)'
  <2>1. UNCHANGED <<now, rec, arc>> /\ removed' \subseteq removed /\ pending' \subseteq pending
    BY <1>19 DEF PurgeDir, PurgeFail, Crash
  <2> QED
    BY <2>1, <1>1, <1>s
<1>20. ASSUME NEW id \in Ids, RecoverInterrupt(id) PROVE (Waiting /\ ResultBacked)'
  <2> DEFINE t == Interrupted(tasks[id])
  <2>1. tasks[id] \in Task /\ tasks[id].state = "running"
    BY <1>20 DEF RecoverInterrupt, Visiting, IInv, LoopInv, Known
  <2>2. ~t.avail
    BY <2>1, EndFields DEF SoundCopies, Sound
  <2>3. UNCHANGED <<now, arc, removed, pending>> /\ (rec' = rec \/ rec' = [rec EXCEPT ![id] = t])
    BY <1>20 DEF RecoverInterrupt, LostWrite
  <2> HIDE DEF t
  <2> QED
    BY <2>2, <2>3, <1>6
<1>21. ASSUME NEW id \in Ids, RecoverVerify(id) PROVE (Waiting /\ ResultBacked)'
  <2> DEFINE t == Withdrawn(tasks[id])
  <2>1. tasks[id] \in Task
    BY <1>21 DEF RecoverVerify, Visiting, IInv, LoopInv, Known
  <2>2. ~t.avail
    BY <2>1, Fields
  <2>3. UNCHANGED <<now, arc, removed, pending>> /\ (rec' = rec \/ rec' = [rec EXCEPT ![id] = t])
    BY <1>21 DEF RecoverVerify, LostWrite
  <2> HIDE DEF t
  <2> QED
    BY <2>2, <2>3, <1>6
<1> QED
  BY <1>a, <1>b, <1>c, <1>4, <1>5, <1>7, <1>8, <1>9, <1>10, <1>11, <1>12, <1>14, <1>15, <1>16,
     <1>17, <1>18, <1>19, <1>20, <1>21
     DEF Next, SubmitGo, Run, Cleanup, Download, Release, Recover

-----------------------------------------------------------------------------
(* The frames behind the counts.                                           *)

\* Nothing is counted for a task that still waits in a.jobs.
LEMMA QueuedStep ==
    ASSUME IInv, LInv, [Next]_vars
    PROVE  Queued'
<1> USE ConstAssumption, Held
<1>h. Queued
  BY DEF LInv, Frames
<1>1. ASSUME job' = NoId PROVE Queued'
  BY <1>1 DEF Queued
<1>2. ASSUME job' = job, NEW i \in Ids, NEW u, u # NoTask => u.src = 0,
             tasks' = tasks \/ (tasks' = [tasks EXCEPT ![i] = u] /\ (u = NoTask => i # job)),
             rec' = rec \/ rec' = [rec EXCEPT ![i] = u]
      PROVE  Queued'
  <2>1. job # NoId => job \in Ids
    BY DEF IInv, TypeOK
  <2> QED
    BY <1>2, <1>h, <2>1 DEF Queued
<1>3. ASSUME UNCHANGED <<job, tasks, rec>> PROVE Queued'
  BY <1>3, <1>h DEF Queued
<1>4. wpc \in Holding \/ up # "up" => job = NoId
  BY DEF IInv, WorkerInv, LoopInv, TypeOK
<1>5. ASSUME Run PROVE Queued'
  <2>1. job' = NoId \/ (job' = job /\ wpc \in Holding)
    BY <1>5 DEF Run, WTake, WPrepare, WPrepareFail, WAppend, WCommit, WFrameFail, WEndWindow,
       WFinish, WArchive, WArchiveFail, WPublish, WRetract, WRelease, Holding
  <2> QED
    BY <2>1, <1>4, <1>1
<1>6. ASSUME Recover \/ Crash PROVE Queued'
  <2>1. job' = NoId \/ (job' = job /\ (wpc \in Holding \/ up # "up"))
    <3>1. ASSUME NEW id \in Ids, Visiting(id) PROVE up # "up"
      BY <3>1 DEF Visiting, IInv, LoopInv
    <3> QED
      BY <1>6, <3>1 DEF Recover, RecoverLoad, RecoverRepair, RecoverSetAside, RecoverReplace,
         RecoverStore, RecoverInterrupt, RecoverResume, RecoverVerify, Holding, Crash
  <2> QED
    BY <2>1, <1>4, <1>1
<1>7. ASSUME Submit \/ SubmitWrite \/ Tick \/ DownloadClose \/ PurgeDir \/ PurgeFail \/ UNCHANGED vars
             \/ CleanupBegin \/ CleanupEnd
             \/ (\E id \in Ids : CleanupFail(id) \/ CleanupResult(id) \/ DownloadOpen(id) \/ Damage(id))
      PROVE  UNCHANGED <<job, tasks, rec>>
  BY <1>7 DEF Submit, SubmitMkdir, SubmitWrite, Tick, DownloadClose, PurgeDir, PurgeFail, CleanupBegin,
     CleanupEnd, CleanupFail, CleanupResult, DownloadOpen, Damage
<1>8. CASE SubmitAccept
  <2>1. sub.id \in Ids /\ NewTask(sub.req).src = 0
    BY <1>8 DEF SubmitAccept, IInv, SubmitInv, NewTask
  <2> QED
    BY <1>8, <2>1 DEF SubmitAccept, Queued
<1>9. CASE SubmitFail
  <2>1. /\ sub.id \in Ids /\ NewTask(sub.req).src = 0 /\ UNCHANGED <<job, tasks>>
        /\ rec' = rec \/ rec' = [rec EXCEPT ![sub.id] = NewTask(sub.req)]
    BY <1>9 DEF SubmitFail, IInv, SubmitInv, NewTask
  <2> QED
    BY <2>1, <1>2
<1>10. ASSUME NEW id \in Ids, CleanupFile(id) \/ CleanupTask(id) PROVE Queued'
  <2>1. id # job
    BY <1>10 DEF CleanupFile, CleanupTask, Expiring, TaskExpired, IInv, WorkerInv
  <2>2. /\ job' = job /\ (tasks' = tasks \/ tasks' = [tasks EXCEPT ![id] = NoTask])
        /\ rec' = rec \/ rec' = [rec EXCEPT ![id] = NoTask]
    BY <1>10 DEF CleanupFile, DropFile, CleanupTask, Forget
  <2> QED
    BY <2>1, <2>2, <1>2
<1>11. CASE PurgeFile
  <2>1. /\ dl.id \in Ids /\ UNCHANGED <<job, tasks>>
        /\ rec' = rec \/ rec' = [rec EXCEPT ![dl.id] = NoTask]
    BY <1>11 DEF PurgeFile, DropFile, IInv, DownloadInv
  <2> QED
    BY <2>1, <1>2
<1>12. CASE DownloadCorrupt
  <2> DEFINE t == Withdrawn(tasks[dl.id])
  <2>1. /\ dl.id \in Ids /\ tasks[dl.id] \in Task /\ UNCHANGED job
        /\ tasks' = [tasks EXCEPT ![dl.id] = t] /\ (rec' = rec \/ rec' = [rec EXCEPT ![dl.id] = t])
    BY <1>12 DEF DownloadCorrupt, LostWrite, IInv, DownloadInv
  <2>2. t.src = tasks[dl.id].src
    BY <2>1, Fields DEF Same
  <2>3. job # NoId => job \in Ids
    BY DEF IInv, TypeOK
  <2> HIDE DEF t
  <2> QED
    BY <2>1, <2>2, <2>3, <1>h DEF Queued
<1> QED
  BY <1>3, <1>5, <1>6, <1>7, <1>8, <1>9, <1>10, <1>11, <1>12
     DEF Next, SubmitGo, Cleanup, Download, Release

\* What each edit leaves in Errors.
LEMMA ErrFields ==
    ASSUME NEW t \in Task, now \in Nat
    PROVE  /\ Flagged(t).errs = TRUE /\ Withdrawn(t).errs = TRUE /\ Unpackaged(t).errs = TRUE
           /\ Interrupted(t).errs = TRUE
           /\ Packaged(t).errs = t.errs /\ Finished(t).errs = t.errs
           /\ \A n \in Nat \cup {NoFile} : Counted(t, n).errs = t.errs /\ Recounted(t, n).errs = t.errs
           /\ \A e \in BOOLEAN : Packaging(t, e).errs = e
<1>1. EndTimes(t) \in [req: Reqs, state: Terminal \cup {"running"}, phase: Phases,
                       ended: Nat \cup {NoTime}, src: Nat, errs: {t.errs}, avail: BOOLEAN]
  BY DEF EndTimes, Task
<1>2. Finished(t).errs = t.errs /\ Interrupted(t).errs = TRUE
  BY <1>1 DEF Finished, Interrupted
<1>3. /\ Flagged(t).errs = TRUE /\ Withdrawn(t).errs = TRUE /\ Unpackaged(t).errs = TRUE
      /\ Packaged(t).errs = t.errs
  BY DEF Flagged, Withdrawn, Unpackaged, Packaged, Task
<1>4. \A n \in Nat \cup {NoFile} : Counted(t, n).errs = t.errs /\ Recounted(t, n).errs = t.errs
  BY DEF Counted, Recounted, Task
<1>5. \A e \in BOOLEAN : Packaging(t, e).errs = e
  BY DEF Packaging, Task
<1> QED
  BY <1>2, <1>3, <1>4, <1>5

\* Steps that leave samples.jsonl of every task alone.
Dry == UNCHANGED <<samples, tail>>

\* What a step may do to the files samples.jsonl: nothing, delete one, lose
\* frames with the power, or work on the one of the task in hand.
LEMMA FileKinds ==
    ASSUME IInv, LInv, [Next]_vars
    PROVE  \/ Dry \/ Crash
           \/ \E i \in Ids : DropSamples(i) /\ rec' = rec /\ ~(wpc \in Holding /\ i = cur)
           \/ /\ wpc \in Holding
              /\ \/ WPrepare \/ WPrepareFail \/ WAppend \/ WCommit \/ WFrameFail \/ WArchive
                 \/ RecoverRepair \/ RecoverSetAside \/ RecoverReplace
<1> USE ConstAssumption, Held DEF Dry, Holding
<1>1. ASSUME Submit \/ SubmitGo PROVE Dry
  BY <1>1 DEF Submit, SubmitMkdir, SubmitGo, SubmitWrite, SubmitAccept, SubmitFail
<1>2. ASSUME WTake \/ WEndWindow \/ WFinish \/ WArchiveFail \/ WPublish \/ WRetract \/ WRelease
      PROVE  Dry
  BY <1>2 DEF WTake, WEndWindow, WFinish, WArchiveFail, WPublish, WRetract, WRelease
<1>3. ASSUME WPrepare \/ WPrepareFail \/ WAppend \/ WCommit \/ WFrameFail \/ WArchive
             \/ RecoverRepair \/ RecoverSetAside \/ RecoverReplace
      PROVE  wpc \in Holding
  BY <1>3 DEF WPrepare, WPrepareFail, WAppend, WCommit, WFrameFail, WArchive, RecoverRepair,
     RecoverSetAside, RecoverReplace
<1>4. ASSUME CleanupBegin \/ CleanupEnd \/ Download \/ DownloadClose \/ PurgeDir \/ PurgeFail \/ Tick
             \/ UNCHANGED vars \/ (\E id \in Ids : CleanupTask(id) \/ CleanupFail(id) \/ Damage(id))
      PROVE  Dry
  BY <1>4 DEF CleanupBegin, CleanupEnd, Download, DownloadOpen, DownloadCorrupt, DownloadClose,
     PurgeDir, PurgeFail, Tick, CleanupTask, CleanupFail, Damage
<1>5. ASSUME NEW id \in Ids, CleanupFile(id) \/ CleanupResult(id)
      PROVE  Dry \/ (DropSamples(id) /\ rec' = rec /\ wpc \notin Holding)
  BY <1>5 DEF CleanupFile, CleanupResult, DropFile
<1>6. CASE PurgeFile
  <2>1. dl.id \in Ids /\ ~(wpc \in Holding /\ dl.id = cur)
    BY <1>6 DEF PurgeFile, IInv, DownloadInv, WorkerInv
  <2> QED
    BY <1>6, <2>1 DEF PurgeFile, DropFile
<1>7. ASSUME RecoverLoad \/ RecoverStore
             \/ (\E id \in Ids : RecoverInterrupt(id) \/ RecoverResume(id) \/ RecoverVerify(id))
      PROVE  Dry
  BY <1>7 DEF RecoverLoad, RecoverStore, RecoverInterrupt, RecoverResume, RecoverVerify
<1> HIDE DEF Dry, Holding
<1> QED
  BY <1>1, <1>2, <1>3, <1>4, <1>5, <1>6, <1>7 DEF Next, Run, Cleanup, Release, Recover

\* Only the thread that holds a task creates its samples.jsonl.
LEMMA BlankStep ==
    ASSUME IInv, LInv, [Next]_vars
    PROVE  Blank'
<1> USE ConstAssumption, Held DEF NoFile
<1>h. Blank
  BY DEF LInv, Frames
<1>1. ASSUME NEW i \in Ids, samples[i] = NoFile, samples'[i] # NoFile
      PROVE  wpc \in Holding /\ i = cur
  <2>1. ASSUME Dry PROVE FALSE
    BY <1>1, <2>1 DEF Dry
  <2>2. ASSUME Crash PROVE FALSE
    BY <1>1, <2>2 DEF Crash, PowerLoss
  <2>3. ASSUME NEW j \in Ids, DropSamples(j) PROVE FALSE
    BY <1>1, <2>3 DEF DropSamples
  <2>4. ASSUME RecoverRepair PROVE i = cur
    BY <1>1, <2>4, RepairOutcomes DEF RepairOutcome
  <2>5. ASSUME WPrepare \/ WPrepareFail \/ WAppend \/ WCommit \/ WFrameFail \/ WArchive
               \/ RecoverSetAside \/ RecoverReplace
        PROVE  i = cur
    BY <1>1, <2>5 DEF WPrepare, WPrepareFail, WAppend, GrowSamples, WCommit, WFrameFail, WArchive,
       RecoverSetAside, RecoverReplace
  <2> QED
    BY FileKinds, <2>1, <2>2, <2>3, <2>4, <2>5
<1>2. wpc \in Holding => Known(cur) /\ cur \in issued /\ job = NoId
  BY DEF IInv, WorkerInv, IssuedInv, LoopInv, TypeOK
<1>3. issued \subseteq issued' /\ (job' = job \/ job' = NoId \/ SubmitAccept)
  BY StepKinds DEF Next, Submit, SubmitMkdir, SubmitGo, SubmitWrite, SubmitAccept, SubmitFail, Run,
     WTake, WPrepare, WPrepareFail, WAppend, WCommit, WFrameFail, WEndWindow, WFinish, WArchive,
     WArchiveFail, WPublish, WRetract, WRelease, Cleanup, CleanupBegin, CleanupEnd, CleanupFile,
     CleanupTask, CleanupFail, CleanupResult, Download, DownloadOpen, DownloadCorrupt, Release,
     DownloadClose, PurgeFile, PurgeDir, PurgeFail, Recover, RecoverLoad, RecoverRepair,
     RecoverSetAside, RecoverReplace, RecoverStore, RecoverInterrupt, RecoverResume, RecoverVerify,
     Crash, Tick, Damage
<1>4. mu' = "submit" => \/ mu = "submit" /\ sub'.id = sub.id
                        \/ sub'.id \in Ids /\ sub'.id \notin issued /\ Dry
  <2>1. ASSUME NEW r \in Reqs, NEW id \in Ids, SubmitMkdir(r, id)
        PROVE  (sub'.id = id /\ id \notin issued /\ Dry) \/ UNCHANGED <<mu, sub>>
    BY <2>1 DEF SubmitMkdir, Dry
  <2>2. ASSUME SubmitWrite \/ SubmitAccept \/ SubmitFail PROVE mu' = "submit" => mu = "submit" /\ sub'.id = sub.id
    BY <2>2 DEF SubmitWrite, SubmitAccept, SubmitFail, IInv, TypeOK
  <2>3. ASSUME Run \/ Cleanup \/ Download \/ Release \/ Recover \/ Crash \/ Tick \/ UNCHANGED vars
               \/ (\E id \in Ids : Damage(id))
        PROVE  mu' = "submit" => UNCHANGED <<mu, sub>>
    BY <2>3 DEF Run, WTake, WPrepare, WPrepareFail, WAppend, WCommit, WFrameFail, WEndWindow, WFinish,
       WArchive, WArchiveFail, WPublish, WRetract, WRelease, Cleanup, CleanupBegin, CleanupEnd,
       CleanupFile, CleanupTask, CleanupFail, CleanupResult, Download, DownloadOpen, DownloadCorrupt,
       Release, DownloadClose, PurgeFile, PurgeDir, PurgeFail, Recover, RecoverLoad, RecoverRepair,
       RecoverSetAside, RecoverReplace, RecoverStore, RecoverInterrupt, RecoverResume, RecoverVerify,
       Crash, Tick, Damage
  <2> QED
    BY <2>1, <2>2, <2>3 DEF Next, Submit, SubmitGo
<1>5. mu = "submit" => sub.id \in Ids /\ ~Known(sub.id) /\ sub.id \in issued
  BY DEF IInv, SubmitInv
<1>6. job # NoId => job \in Ids
  BY DEF IInv, TypeOK
<1>7. \A i \in Ids : i \notin issued' => samples'[i] = NoFile
  BY <1>h, <1>1, <1>2, <1>3 DEF Blank
<1>8. mu' = "submit" => samples'[sub'.id] = NoFile
  <2>1. ASSUME mu = "submit", sub'.id = sub.id PROVE samples'[sub'.id] = NoFile
    BY <2>1, <1>h, <1>1, <1>2, <1>5 DEF Blank
  <2>2. ASSUME sub'.id \in Ids, sub'.id \notin issued, Dry PROVE samples'[sub'.id] = NoFile
    BY <2>2, <1>h DEF Blank, Dry
  <2> QED
    BY <1>4, <2>1, <2>2
<1>9. job' # NoId => samples'[job'] = NoFile
  <2>1. ASSUME SubmitAccept PROVE samples'[job'] = NoFile
    BY <2>1, <1>h DEF SubmitAccept, Blank
  <2>2. ASSUME job' = job, job # NoId PROVE samples'[job'] = NoFile
    BY <2>2, <1>h, <1>1, <1>2, <1>6 DEF Blank
  <2> QED
    BY <1>3, <2>1, <2>2
<1> QED
  BY <1>7, <1>8, <1>9 DEF Blank

\* The three calls of a frame and how they fail.
LEMMA FrameFailures ==
    WFrameFail => \/ wpc = "sampling" /\ rec' = rec /\ (GrowSamples \/ Dry)
                  \/ wpc = "appended" /\ rec' = rec /\ Dry
                  \/ /\ wpc = "appended" /\ SyncSamples /\ samples' = samples
                     /\ rec' = rec \/ rec' = [rec EXCEPT ![cur] = loc]
BY DEF WFrameFail, PublishFail, LostWrite, Dry

\* The worker runs the window, recover rebuilds packages.
LEMMA WhoseStep ==
    ASSUME IInv, LInv
    PROVE  /\ wpc \in Sampling => up = "up"
           /\ wpc \in {"repair", "replace"} => up = "recovering"
           /\ wpc \in Holding => up \in {"up", "recovering"}
<1>1. wpc \in Sampling => up = "up"
  BY DEF LInv, Custody, Shown
<1>2. wpc \in {"repair", "replace"} => up # "up"
  BY DEF LInv, Custody, Shown, Copies, OwnCopy, Sound, Early, Holding
<1>3. wpc \in Holding => up # "down" /\ up \in {"down", "recovering", "up"}
  BY DEF IInv, WorkerInv, TypeOK
<1> QED
  BY <1>1, <1>2, <1>3 DEF Holding

\* A frame that is not synced stays in its file until it is lost or deleted.
LEMMA GroundedStep ==
    ASSUME IInv, LInv, [Next]_vars
    PROVE  Grounded'
<1> USE ConstAssumption, Held DEF NoFile
<1>h. Grounded /\ Counts /\ Rebuilt
  BY DEF LInv, Frames
<1>t. tail \in [Ids -> {"synced", "volatile", "lost"}]
  BY DEF IInv, TypeOK
<1>1. ASSUME Dry PROVE Grounded'
  BY <1>1, <1>h DEF Dry, Grounded
<1>2. ASSUME Crash PROVE Grounded'
  BY <1>2, <1>h, <1>t DEF Crash, PowerLoss, Grounded
<1>3. ASSUME NEW j \in Ids, DropSamples(j) PROVE Grounded'
  BY <1>3, <1>h, <1>t DEF DropSamples, Grounded
<1>4. ASSUME wpc \in Holding, wpc = "prepare", tail' = tail,
             samples' = samples \/ samples' = [samples EXCEPT ![cur] = 0]
      PROVE  Grounded'
  <2>1. samples[cur] = NoFile
    BY <1>4, <1>h, WhoseStep DEF Counts, Sampling
  <2>2. tail[cur] # "volatile"
    BY <1>4, <1>h, <2>1 DEF Grounded
  <2> QED
    BY <1>4, <1>h, <2>2 DEF Grounded
<1>5. ASSUME wpc \in Holding, wpc = "sampling", GrowSamples PROVE Grounded'
  <2>1. samples[cur] = loc.src /\ loc.src \in Nat
    BY <1>5, <1>h, WhoseStep DEF Counts, Sampling, Task
  <2> QED
    BY <1>5, <1>h, <1>t, <2>1 DEF Grounded, GrowSamples
<1>6. ASSUME wpc \in Holding, SyncSamples, samples' = samples PROVE Grounded'
  BY <1>6, <1>h, <1>t DEF SyncSamples, Grounded
<1>7. ASSUME wpc \in Holding, tail' = tail,
             samples' = samples \/ samples' = [samples EXCEPT ![cur] = CountFrames(samples[cur])]
      PROVE  Grounded'
  BY <1>7, <1>h DEF CountFrames, Grounded
<1>8. ASSUME wpc \in Holding, RecoverSetAside PROVE Grounded'
  BY <1>8, <1>h, <1>t DEF RecoverSetAside, Grounded
<1>9. ASSUME wpc \in Holding, RecoverReplace PROVE Grounded'
  <2>1. tail[cur] # "volatile"
    BY <1>9, <1>h, WhoseStep DEF RecoverReplace, Rebuilt
  <2> QED
    BY <1>9, <1>h, <2>1 DEF RecoverReplace, Grounded
<1>10. ASSUME wpc \in Holding, WPrepare \/ WPrepareFail \/ WAppend \/ WCommit \/ WArchive PROVE Grounded'
  BY <1>10, <1>4, <1>5, <1>6, <1>7 DEF WPrepare, WPrepareFail, WAppend, WCommit, WArchive
<1>11. ASSUME wpc \in Holding, WFrameFail PROVE Grounded'
  BY <1>11, <1>1, <1>5, <1>6, FrameFailures
<1>12. ASSUME wpc \in Holding, RecoverRepair PROVE Grounded'
  <2>1. tail' = tail
    BY <1>12 DEF RecoverRepair
  <2> QED
    BY <1>12, <1>7, <2>1, RepairOutcomes DEF RepairOutcome
<1> QED
  BY FileKinds, <1>1, <1>2, <1>3, <1>8, <1>9, <1>10, <1>11, <1>12

\* A record that reports no error counts only frames that are safe: it is
\* published after the sync, and whatever is published later without one carries
\* an error.
LEMMA DurableStep ==
    ASSUME IInv, LInv, [Next]_vars
    PROVE  FramesDurable' /\ Told'
<1> USE ConstAssumption, Held DEF NoFile
<1>h. FramesDurable /\ Told /\ Grounded /\ Counts /\ Rebuilt
  BY DEF LInv, Frames
<1>t. tail \in [Ids -> {"synced", "volatile", "lost"}]
  BY DEF IInv, TypeOK
<1>s. \A i \in Ids : samples[i] # NoFile => Surviving(i) >= 0
  BY <1>h, <1>t DEF Surviving, Grounded
<1>r. \A i \in Ids : rec[i] # NoTask => rec[i] \in Task /\ rec[i].src \in Nat
  BY DEF Task
\* A record is rewritten with an error or without a frame, or deleted.
<1>1. ASSUME Dry, NEW j \in Ids, NEW u, rec' = rec \/ rec' = [rec EXCEPT ![j] = u],
             u # NoTask => u.errs = TRUE \/ (u.src = 0 /\ u.state = "running")
      PROVE  FramesDurable' /\ Told'
  BY <1>1, <1>h, <1>t, <1>s DEF Dry, FramesDurable, Told, Surviving
\* No record is written and no counted frame becomes unsafe.
<1>2. ASSUME rec' = rec,
             \A i \in Ids : samples'[i] # NoFile =>
                \/ samples[i] # NoFile /\ Surviving(i)' >= Surviving(i)
                \/ rec[i] # NoTask => rec[i].errs = TRUE \/ (rec[i].src = 0 /\ Surviving(i)' >= 0)
      PROVE  FramesDurable' /\ Told'
  <2>1. Told'
    BY <1>2, <1>h DEF Told
  <2>2. ASSUME NEW i \in Ids, rec'[i] # NoTask, ~rec'[i].errs, samples'[i] # NoFile
        PROVE  rec'[i].src <= Surviving(i)'
    <3>1. /\ rec[i] # NoTask /\ rec[i].src \in Nat /\ rec[i].errs # TRUE
          /\ samples[i] # NoFile => rec[i].src <= Surviving(i)
      BY <2>2, <1>2, <1>h, <1>r DEF FramesDurable
    <3>2. Surviving(i) \in Int /\ (samples'[i] \in Int => Surviving(i)' \in Int)
      BY DEF Surviving
    <3>3. samples'[i] \in Int
      BY TypeStep DEF TypeOK
    <3>4. rec'[i].src = rec[i].src
      BY <1>2
    <3> QED
      BY <1>2, <2>2, <3>1, <3>2, <3>3, <3>4
  <2> QED
    BY <2>1, <2>2 DEF FramesDurable
\* The thread that holds the task publishes its copy.
<1>3. ASSUME wpc \in Holding, NEW u \in Task, rec' = rec \/ rec' = [rec EXCEPT ![cur] = u],
             \A i \in Ids : i # cur => samples'[i] = samples[i] /\ tail'[i] = tail[i],
             u.state = "interrupted" => u.errs = TRUE,
             u.errs = TRUE \/ (samples'[cur] # NoFile => u.src <= samples'[cur] - (IF tail'[cur] = "volatile" THEN 1 ELSE 0)),
             samples[cur] # NoFile => samples'[cur] = samples[cur] /\ (tail'[cur] = tail[cur] \/ tail'[cur] = "synced"),
             samples[cur] = NoFile /\ samples'[cur] # NoFile => rec' = [rec EXCEPT ![cur] = u]
      PROVE  FramesDurable' /\ Told'
  <2>1. Told'
    BY <1>3, <1>h DEF Told
  <2>2. ASSUME NEW i \in Ids, rec'[i] # NoTask, ~rec'[i].errs, samples'[i] # NoFile
        PROVE  rec'[i].src <= Surviving(i)'
    <3>1. Surviving(i)' = samples'[i] - (IF tail'[i] = "volatile" THEN 1 ELSE 0)
      BY DEF Surviving
    <3>2. CASE rec'[i] = rec[i] /\ ~(i = cur /\ samples[cur] = NoFile)
      <4>1. rec[i] # NoTask /\ rec[i].errs # TRUE /\ samples[i] # NoFile /\ rec[i].src \in Nat
        BY <2>2, <3>2, <1>3, <1>r
      <4>2. rec[i].src <= Surviving(i)
        BY <2>2, <3>2, <4>1, <1>h DEF FramesDurable
      <4>3. samples'[i] = samples[i] /\ (tail'[i] = tail[i] \/ tail'[i] = "synced")
        BY <1>3, <4>1
      <4> QED
        BY <3>1, <3>2, <4>1, <4>2, <4>3, <1>t DEF Surviving
    <3>3. CASE i = cur /\ rec'[i] = u
      <4>1. u.errs # TRUE
        BY <2>2, <3>3
      <4> QED
        BY <1>3, <2>2, <3>1, <3>3, <4>1
    <3> QED
      BY <1>3, <2>2, <3>2, <3>3
  <2> QED
    BY <2>1, <2>2 DEF FramesDurable
<1>4. ASSUME Dry, rec' = rec PROVE FramesDurable' /\ Told'
  BY <1>4, <1>h DEF Dry, FramesDurable, Told, Surviving
<1>5. ASSUME Submit \/ SubmitWrite \/ Tick \/ DownloadClose \/ PurgeDir \/ PurgeFail \/ UNCHANGED vars
             \/ CleanupBegin \/ CleanupEnd \/ WTake \/ WFinish \/ WArchiveFail \/ WRetract \/ WRelease
             \/ RecoverLoad \/ RecoverStore
             \/ (\E id \in Ids : CleanupTask(id) \/ CleanupFail(id) \/ DownloadOpen(id) \/ Damage(id)
                                   \/ RecoverResume(id))
      PROVE  Dry /\ rec' = rec
  BY <1>5 DEF Submit, SubmitMkdir, SubmitWrite, Tick, DownloadClose, PurgeDir, PurgeFail, CleanupBegin,
     CleanupEnd, WTake, WFinish, WArchiveFail, WRetract, WRelease, RecoverLoad, RecoverStore,
     CleanupTask, CleanupFail, DownloadOpen, Damage, RecoverResume, Dry
<1>6. CASE Crash
  <2>1. rec' = rec /\ PowerLoss
    BY <1>6 DEF Crash
  <2>2. \A i \in Ids : samples'[i] # NoFile => samples[i] # NoFile /\ Surviving(i)' >= Surviving(i)
    BY <2>1, <1>t DEF PowerLoss, Surviving
  <2> QED
    BY <2>1, <2>2, <1>2
<1>7. ASSUME NEW j \in Ids, DropSamples(j), rec' = rec PROVE FramesDurable' /\ Told'
  <2>1. \A i \in Ids : samples'[i] # NoFile => samples[i] # NoFile /\ Surviving(i)' >= Surviving(i)
    BY <1>7, <1>t DEF DropSamples, Surviving
  <2> QED
    BY <1>7, <2>1, <1>2
<1>8. ASSUME NEW id \in Ids, DropFile(id) PROVE FramesDurable' /\ Told'
  BY <1>8, <1>1, <1>7 DEF DropFile, Dry
<1>9. ASSUME PurgeFile \/ (\E id \in Ids : CleanupFile(id) \/ CleanupResult(id))
      PROVE  FramesDurable' /\ Told'
  <2>1. PurgeFile => dl.id \in Ids
    BY DEF PurgeFile, IInv, DownloadInv
  <2> QED
    BY <1>7, <1>8, <1>9, <2>1 DEF PurgeFile, CleanupFile, CleanupResult
<1>10. ASSUME SubmitAccept \/ SubmitFail PROVE FramesDurable' /\ Told'
  <2>1. /\ sub.id \in Ids /\ Dry /\ NewTask(sub.req).src = 0 /\ NewTask(sub.req).state = "running"
        /\ rec' = rec \/ rec' = [rec EXCEPT ![sub.id] = NewTask(sub.req)]
    BY <1>10 DEF SubmitAccept, SubmitFail, IInv, SubmitInv, Dry, NewTask
  <2> QED
    BY <2>1, <1>1
<1>11. CASE DownloadCorrupt
  <2>1. /\ dl.id \in Ids /\ tasks[dl.id] \in Task /\ Dry
        /\ rec' = rec \/ rec' = [rec EXCEPT ![dl.id] = Withdrawn(tasks[dl.id])]
    BY <1>11 DEF DownloadCorrupt, LostWrite, IInv, DownloadInv, Dry
  <2>2. Withdrawn(tasks[dl.id]).errs = TRUE
    BY <2>1, ErrFields
  <2> QED
    BY <2>1, <2>2, <1>1
<1>12. ASSUME NEW id \in Ids, RecoverInterrupt(id) \/ RecoverVerify(id) PROVE FramesDurable' /\ Told'
  <2>1. /\ tasks[id] \in Task /\ Dry
        /\ \/ rec' = rec \/ rec' = [rec EXCEPT ![id] = Withdrawn(tasks[id])]
           \/ rec' = [rec EXCEPT ![id] = Interrupted(tasks[id])]
    BY <1>12 DEF RecoverInterrupt, RecoverVerify, Visiting, LostWrite, IInv, LoopInv, Known, Dry
  <2>2. Withdrawn(tasks[id]).errs = TRUE /\ Interrupted(tasks[id]).errs = TRUE
    BY <2>1, ErrFields
  <2> QED
    BY <2>1, <2>2, <1>1, <1>4
<1>13. ASSUME wpc \in Holding, up = "up", samples[cur] = NoFile
       PROVE  tail[cur] # "volatile" /\ (rec[cur] # NoTask => rec[cur].src = 0 \/ rec[cur].errs = TRUE)
  <2>1. rec[cur] # NoTask => rec[cur].errs \in BOOLEAN
    BY <1>13, <1>r DEF Task
  <2> QED
    BY <1>13, <2>1, <1>h DEF Counts, Grounded
<1>14. ASSUME wpc \in Holding, wpc = "sampling", GrowSamples, rec' = rec PROVE FramesDurable' /\ Told'
  <2>1. tail[cur] # "volatile"
    BY <1>14, <1>h, WhoseStep DEF Counts, Sampling
  <2>2. \A i \in Ids : samples'[i] # NoFile /\ i # cur => samples[i] # NoFile /\ Surviving(i)' >= Surviving(i)
    BY <1>14, <1>t DEF GrowSamples, Surviving
  <2>3. samples[cur] # NoFile /\ Surviving(cur) = samples[cur]
    BY <1>14, <2>1, <1>h, WhoseStep DEF Counts, Sampling, Surviving, Task
  <2>4. \A i \in Ids : i = cur => Surviving(i)' = samples[cur]
    BY <1>14, <1>t DEF GrowSamples, Surviving
  <2>5. \A i \in Ids : samples'[i] # NoFile => samples[i] # NoFile /\ Surviving(i)' >= Surviving(i)
    <3> TAKE i \in Ids
    <3>1. CASE i = cur
      <4>1. samples[cur] \in Int
        BY <1>14
      <4>2. Surviving(i)' = samples[cur] /\ Surviving(i) = samples[cur] /\ samples[i] # NoFile
        BY <3>1, <2>3, <2>4
      <4> QED
        BY <4>1, <4>2
    <3> QED
      BY <3>1, <2>2
  <2> QED
    BY <1>14, <1>2, <2>5
<1>15. CASE WPrepare
  <2>1. wpc \in Holding /\ wpc = "prepare" /\ up = "up"
    BY <1>15, WhoseStep DEF WPrepare, Holding, Sampling
  <2>2. loc.src = 0 /\ samples[cur] = NoFile /\ loc.state # "interrupted" /\ tail[cur] # "volatile"
    BY <2>1, <1>h, <1>13 DEF Counts
  <2>3. /\ samples' = [samples EXCEPT ![cur] = 0] /\ tail' = tail
        /\ rec' = [rec EXCEPT ![cur] = loc]
    BY <1>15 DEF WPrepare, Publish
  <2>4. /\ cur \in Ids /\ loc \in Task /\ samples'[cur] = 0 /\ tail'[cur] # "volatile"
        /\ \A i \in Ids : i # cur => samples'[i] = samples[i] /\ tail'[i] = tail[i]
    BY <2>1, <2>2, <2>3
  <2>5. loc.src <= samples'[cur] - (IF tail'[cur] = "volatile" THEN 1 ELSE 0)
    BY <2>2, <2>4
  <2> QED
    BY <2>1, <2>2, <2>3, <2>4, <2>5, <1>3
<1>16. ASSUME NEW n, wpc \in Holding, rec' = rec, tail' = tail, up = "up" \/ wpc = "archive",
              samples' = samples \/ samples' = [samples EXCEPT ![cur] = n],
              n = 0 \/ n = samples[cur], samples[cur] = NoFile \/ n = samples[cur]
       PROVE  FramesDurable' /\ Told'
  <2>1. \A i \in Ids : samples'[i] # NoFile /\ samples[i] # NoFile => Surviving(i)' >= Surviving(i)
    BY <1>16, <1>t DEF Surviving
  <2>2. ASSUME samples[cur] = NoFile, samples'[cur] # NoFile
        PROVE  rec[cur] # NoTask => rec[cur].errs = TRUE \/ (rec[cur].src = 0 /\ \A i \in Ids : i = cur => Surviving(i)' >= 0)
    <3>1. CASE up = "up"
      <4>1. tail[cur] # "volatile" /\ (rec[cur] # NoTask => rec[cur].src = 0 \/ rec[cur].errs = TRUE)
        BY <1>16, <2>2, <3>1, <1>13
      <4>2. cur \in Ids /\ tail'[cur] # "volatile" /\ samples'[cur] = 0
        BY <1>16, <2>2, <4>1
      <4>3. \A i \in Ids : i = cur => Surviving(i)' >= 0
        BY <4>2 DEF Surviving
      <4> QED
        BY <4>1, <4>3
    <3>2. CASE up = "recovering"
      <4>1. rec[cur] # NoTask => rec[cur].errs \in BOOLEAN
        BY <1>16, <1>r DEF Task
      <4> QED
        BY <1>16, <3>2, <4>1, <1>h DEF Rebuilt
    <3> QED
      BY <1>16, <3>1, <3>2, WhoseStep
  <2>3. \A i \in Ids : samples'[i] # NoFile /\ samples[i] = NoFile => i = cur
    BY <1>16
  <2> QED
    BY <1>16, <1>2, <2>1, <2>2, <2>3
<1>17. ASSUME WPrepareFail \/ WArchive PROVE FramesDurable' /\ Told'
  <2>1. wpc \in Holding /\ rec' = rec /\ tail' = tail /\ (up = "up" \/ wpc = "archive")
    BY <1>17, WhoseStep DEF WPrepareFail, WArchive, Holding, Sampling
  <2>2. CASE WPrepareFail
    <3>1. samples[cur] = NoFile
      BY <2>1, <2>2, <1>h, WhoseStep DEF WPrepareFail, Counts, Sampling
    <3> QED
      BY <2>1, <2>2, <3>1, <1>16 DEF WPrepareFail
  <2>3. CASE WArchive
    BY <2>1, <2>3, <1>16 DEF WArchive, CountFrames
  <2> QED
    BY <1>17, <2>2, <2>3
<1>18. ASSUME wpc = "appended", wpc \in Holding, SyncSamples, samples' = samples,
              rec' = rec \/ rec' = [rec EXCEPT ![cur] = loc]
       PROVE  FramesDurable' /\ Told'
  <2>1. loc.state # "interrupted" /\ samples[cur] = loc.src /\ loc.src \in Nat
    BY <1>18, <1>h, WhoseStep DEF Counts, Sampling, Task
  <2>2. tail'[cur] = "synced" /\ \A i \in Ids : i # cur => tail'[i] = tail[i]
    BY <1>18, <1>t DEF SyncSamples
  <2>3. loc.src <= samples'[cur] - (IF tail'[cur] = "volatile" THEN 1 ELSE 0)
    BY <1>18, <2>1, <2>2
  <2>4. \A i \in Ids : samples'[i] = samples[i]
    BY <1>18
  <2> QED
    BY <1>18, <2>1, <2>2, <2>3, <2>4, <1>3
<1>19. ASSUME WAppend \/ WCommit \/ WFrameFail PROVE FramesDurable' /\ Told'
  <2>1. wpc \in Holding
    BY <1>19 DEF WAppend, WCommit, WFrameFail, Holding
  <2>2. CASE WAppend
    BY <2>1, <2>2, <1>14 DEF WAppend
  <2>3. CASE WCommit
    BY <2>1, <2>3, <1>18 DEF WCommit, Publish
  <2>4. CASE WFrameFail
    BY <2>1, <2>4, <1>4, <1>14, <1>18, FrameFailures
  <2> QED
    BY <1>19, <2>2, <2>3, <2>4
\* A copy that is published with the files as they are.
<1>20. ASSUME wpc \in Holding, Dry, NEW u \in Task, rec' = rec \/ rec' = [rec EXCEPT ![cur] = u],
              u.state = "interrupted" => u.errs = TRUE,
              u.errs = TRUE \/ (samples[cur] # NoFile => u.src <= Surviving(cur))
       PROVE  FramesDurable' /\ Told'
  BY <1>20, <1>3 DEF Dry, Surviving
<1>21. CASE WEndWindow
  <2>1. PICK e \in {loc.errs, TRUE} : loc' = Packaging(loc, e)
    BY <1>21 DEF WEndWindow
  <2>2. /\ wpc \in Holding /\ wpc \in {"sampling", "collected"} /\ up = "up" /\ Dry
        /\ rec' = rec \/ rec' = [rec EXCEPT ![cur] = loc']
    BY <1>21, WhoseStep DEF WEndWindow, Publish, PublishFail, LostWrite, Holding, Sampling, Dry
  <2>3. e \in BOOLEAN /\ loc.errs \in BOOLEAN /\ loc.src \in Nat
    BY <2>1, <2>2 DEF Task
  <2>4. loc' \in Task /\ loc'.state = loc.state /\ loc'.src = loc.src /\ loc'.errs = e
    <3>1. Same(loc, loc')
      BY <2>1, <2>2, <2>3, Fields
    <3>2. loc'.errs = e
      <4>1. \A d \in BOOLEAN : Packaging(loc, d).errs = d
        BY <2>2, ErrFields
      <4> QED
        BY <2>1, <2>3, <4>1, Zenon
    <3> QED
      BY <3>1, <3>2 DEF Same
  <2>5. loc.state # "interrupted" /\ (wpc = "collected" => loc.errs = TRUE)
    BY <2>2, <2>3, <1>h DEF Counts
  <2>6. wpc = "sampling" => samples[cur] = loc.src /\ tail[cur] # "volatile"
    BY <2>2, <1>h DEF Counts
  <2>7. loc'.errs = TRUE \/ loc'.src <= Surviving(cur)
    <3>1. CASE wpc = "sampling"
      BY <2>3, <2>4, <2>6, <3>1 DEF Surviving
    <3>2. CASE wpc = "collected"
      BY <2>1, <2>4, <2>5, <3>2
    <3> QED
      BY <2>2, <3>1, <3>2
  <2> QED
    BY <2>2, <2>4, <2>5, <2>7, <1>20
<1>22. CASE WPublish
  <2>1. /\ wpc \in Holding /\ Dry /\ (rec' = rec \/ rec' = [rec EXCEPT ![cur] = loc])
        /\ wpc = "publish"
    BY <1>22 DEF WPublish, Publish, PublishFail, LostWrite, Holding, Dry
  <2>2. loc.errs \in BOOLEAN
    BY <2>1 DEF Task
  <2>3. up = "up" => loc.state # "interrupted" /\ (loc.errs = TRUE \/ loc.src <= Surviving(cur))
    BY <2>1, <2>2, <1>h DEF Counts, Late
  <2>4. up = "recovering" => loc.errs = TRUE
    BY <2>1, <2>2, <1>h DEF Rebuilt
  <2> QED
    BY <2>1, <2>3, <2>4, <1>20, WhoseStep
<1>23. ASSUME RecoverRepair \/ RecoverSetAside \/ RecoverReplace PROVE FramesDurable' /\ Told'
  <2>1. wpc \in Holding /\ up = "recovering" /\ rec' = rec
    BY <1>23, WhoseStep DEF RecoverRepair, RecoverSetAside, RecoverReplace, Holding
  <2>2. rec[cur] # NoTask => rec[cur].errs = TRUE
    <3>1. rec[cur] # NoTask => rec[cur].errs \in BOOLEAN
      BY <2>1, <1>r DEF Task
    <3> QED
      BY <2>1, <3>1, <1>h DEF Rebuilt
  <2>3. \A i \in Ids : i # cur => samples'[i] = samples[i] /\ tail'[i] = tail[i]
    <3>1. ASSUME RecoverRepair PROVE tail' = tail
      BY <3>1 DEF RecoverRepair
    <3>2. ASSUME RecoverRepair PROVE \A i \in Ids : i # cur => samples'[i] = samples[i]
      BY <2>1, <3>2, RepairOutcomes DEF RepairOutcome
    <3>3. ASSUME RecoverSetAside \/ RecoverReplace
          PROVE  \A i \in Ids : i # cur => samples'[i] = samples[i] /\ tail'[i] = tail[i]
      BY <2>1, <3>3, <1>t DEF RecoverSetAside, RecoverReplace
    <3> QED
      BY <1>23, <3>1, <3>2, <3>3
  <2>4. \A i \in Ids : i # cur /\ samples'[i] # NoFile => samples[i] # NoFile /\ Surviving(i)' >= Surviving(i)
    BY <2>3, <1>t DEF Surviving
  <2> QED
    BY <2>1, <2>2, <2>4, <1>2
<1> QED
  BY <1>4, <1>5, <1>6, <1>9, <1>10, <1>11, <1>12, <1>15, <1>17, <1>19, <1>21, <1>22, <1>23
     DEF Next, SubmitGo, Run, Cleanup, Download, Release, Recover

\* What recover rebuilds is of an interrupted task, whose errors say so.
LEMMA RebuiltStep ==
    ASSUME IInv, LInv, [Next]_vars
    PROVE  Rebuilt'
<1> USE ConstAssumption, Held DEF NoFile
<1>h. Rebuilt /\ Told
  BY DEF LInv, Frames
<1>1. ASSUME up' # "recovering" \/ wpc' \notin Holding PROVE Rebuilt'
  BY <1>1 DEF Rebuilt
<1>2. CASE up = "up"
  <2>1. ASSUME up' = "recovering" PROVE FALSE
    BY <1>2, <2>1 DEF Next, Submit, SubmitMkdir, SubmitGo, SubmitWrite, SubmitAccept, SubmitFail, Run,
       WTake, WPrepare, WPrepareFail, WAppend, WCommit, WFrameFail, WEndWindow, WFinish, WArchive,
       WArchiveFail, WPublish, WRetract, WRelease, Cleanup, CleanupBegin, CleanupEnd, CleanupFile,
       CleanupTask, CleanupFail, CleanupResult, Download, DownloadOpen, DownloadCorrupt, Release,
       DownloadClose, PurgeFile, PurgeDir, PurgeFail, Recover, RecoverLoad, RecoverRepair,
       RecoverSetAside, RecoverReplace, RecoverStore, RecoverInterrupt, RecoverResume, RecoverVerify,
       Crash, Tick, Damage
  <2> QED
    BY <1>1, <2>1
<1>3. ASSUME RecoverLoad \/ Crash \/ Cleanup \/ RecoverStore \/ WRelease PROVE Rebuilt'
  <2>1. up' # "recovering" \/ wpc' \notin Holding
    BY <1>3 DEF RecoverLoad, Crash, Cleanup, CleanupBegin, CleanupEnd, CleanupFile, CleanupTask,
       CleanupFail, CleanupResult, RecoverStore, WRelease, Holding
  <2> QED
    BY <1>1, <2>1
<1>4. ASSUME up # "up", NEW id \in Ids, RecoverInterrupt(id) PROVE Rebuilt'
  <2>1. tasks[id] \in Task /\ rec' \in [Ids -> Task \cup {NoTask}] /\ wpc = "recover"
    BY <1>4, TypeStep DEF RecoverInterrupt, Visiting, IInv, LoopInv, Known, TypeOK
  <2>2. \/ wpc' \notin Holding
        \/ /\ cur' = id /\ loc' = Interrupted(tasks[id]) /\ wpc' = "repair"
           /\ rec'[id] = Interrupted(tasks[id])
    BY <1>4, <2>1 DEF RecoverInterrupt, Holding
  <2>3. Interrupted(tasks[id]).errs = TRUE
    BY <2>1, ErrFields
  <2> QED
    BY <1>1, <2>2, <2>3 DEF Rebuilt
<1>5. ASSUME up # "up", NEW id \in Ids, RecoverResume(id) PROVE Rebuilt'
  <2>1. Known(id) /\ rec[id] = tasks[id] /\ tasks[id].state = "interrupted"
    BY <1>5 DEF RecoverResume, Visiting, IInv, LoopInv, LInv, Agreement, Unvisited, Holding
  <2>2. rec[id].errs
    BY <2>1, <1>h DEF Told, Known
  <2> QED
    BY <1>5, <2>1, <2>2 DEF RecoverResume, Rebuilt, Known
<1>6. ASSUME NEW id \in Ids, RecoverVerify(id) PROVE Rebuilt'
  BY <1>6, <1>1 DEF RecoverVerify, Visiting, Holding
<1>7. ASSUME up = "recovering", wpc \in Holding
      PROVE  /\ loc.errs = TRUE /\ (rec[cur] # NoTask => rec[cur].errs = TRUE)
             /\ wpc = "replace" => tail[cur] # "volatile"
             /\ now \in Nat /\ loc \in Task /\ cur \in Ids
  <2>1. loc.errs \in BOOLEAN /\ (rec[cur] # NoTask => rec[cur].errs \in BOOLEAN)
    BY <1>7 DEF Task
  <2> QED
    BY <1>7, <2>1, <1>h DEF Rebuilt
<1>8. ASSUME up = "recovering", wpc \in Holding, cur' = cur, loc'.errs = TRUE,
             rec'[cur] = rec[cur] \/ rec'[cur] = loc, wpc' = "replace" => tail'[cur] # "volatile"
      PROVE  Rebuilt'
  BY <1>7, <1>8 DEF Rebuilt
<1>9. ASSUME up = "recovering", RecoverRepair \/ RecoverSetAside \/ RecoverReplace PROVE Rebuilt'
  <2>1. wpc \in Holding /\ cur' = cur /\ rec' = rec
    BY <1>9 DEF RecoverRepair, RecoverSetAside, RecoverReplace, Holding
  <2>2. samples[cur] \in Nat \cup {NoFile}
    BY <1>9, <1>7, <2>1
  <2>3. loc' \in {loc, Flagged(loc), Recounted(loc, samples[cur]), Flagged(Recounted(loc, samples[cur]))}
    BY <1>9, RepairOutcomes DEF RepairOutcome, RecoverSetAside, RecoverReplace
  <2>4. loc'.errs = TRUE
    <3>1. loc \in Task /\ loc.errs = TRUE
      BY <1>9, <2>1, <1>7
    <3>2. Recounted(loc, samples[cur]) \in Task
      BY <2>2, <3>1, CountFields
    <3>3. Flagged(loc).errs = TRUE /\ Recounted(loc, samples[cur]).errs = loc.errs
      BY <1>9, <2>1, <1>7, <2>2, <3>1, ErrFields
    <3>4. Flagged(Recounted(loc, samples[cur])).errs = TRUE
      BY <1>9, <2>1, <1>7, <3>2, ErrFields
    <3> QED
      BY <2>3, <3>1, <3>3, <3>4, Zenon
  <2>5. wpc' = "replace" => tail'[cur] # "volatile"
    BY <1>9, <1>7, <2>1 DEF RecoverRepair, RecoverSetAside, RecoverReplace, IInv, TypeOK
  <2> QED
    BY <1>9, <2>1, <2>4, <2>5, <1>8
<1>10. ASSUME up = "recovering", WFinish \/ WArchive \/ WArchiveFail \/ WPublish \/ WRetract PROVE Rebuilt'
  <2>1. wpc \in Holding /\ cur' = cur /\ wpc' # "replace"
    BY <1>10 DEF WFinish, WArchive, WArchiveFail, WPublish, WRetract, Holding
  <2>2. loc' \in {loc, Finished(loc), Packaged(loc), Unpackaged(loc)}
    BY <1>10 DEF WFinish, WArchive, WArchiveFail, WPublish, WRetract
  <2>3. rec'[cur] = rec[cur] \/ rec'[cur] = loc
    BY <1>10, <2>1, <1>7 DEF WFinish, WArchive, WArchiveFail, WPublish, WRetract, Publish, PublishFail,
       LostWrite
  <2>4. loc'.errs = TRUE
    <3>1. loc \in Task /\ loc.errs = TRUE
      BY <1>10, <2>1, <1>7
    <3>2. Finished(loc).errs = loc.errs /\ Packaged(loc).errs = loc.errs /\ Unpackaged(loc).errs = TRUE
      BY <1>10, <2>1, <1>7, <3>1, ErrFields
    <3> QED
      BY <2>2, <3>1, <3>2, Zenon
  <2> QED
    BY <1>10, <2>1, <2>3, <2>4, <1>8
<1>11. ASSUME up # "up",
              WTake \/ WPrepare \/ WPrepareFail \/ WAppend \/ WCommit \/ WFrameFail \/ WEndWindow
       PROVE  FALSE
  BY <1>11, WhoseStep DEF WTake, WPrepare, WPrepareFail, WAppend, WCommit, WFrameFail, WEndWindow,
     Sampling
<1>12. ASSUME up # "up", Submit \/ SubmitGo \/ Download \/ Release PROVE FALSE
  <2>1. mu # "submit" /\ dl = NoDownload
    BY <1>12 DEF IInv, SubmitInv, LoopInv, TypeOK
  <2> QED
    BY <1>12, <2>1 DEF Submit, SubmitMkdir, Admits, SubmitGo, SubmitWrite, SubmitAccept, SubmitFail,
       Download, DownloadOpen, DownloadCorrupt, Release, DownloadClose, PurgeFile, PurgeDir, PurgeFail,
       NoDownload
<1>13. ASSUME Tick \/ UNCHANGED vars \/ (\E id \in Ids : Damage(id)) PROVE Rebuilt'
  <2>1. UNCHANGED <<up, wpc, cur, loc, rec, tail>>
    BY <1>13 DEF Tick, Damage
  <2> QED
    BY <2>1, <1>h DEF Rebuilt
<1>14. up = "down" => wpc \notin Holding
  BY DEF IInv, WorkerInv
<1>15. ASSUME up = "down", Run \/ RecoverRepair \/ RecoverSetAside \/ RecoverReplace PROVE Rebuilt'
  <2>1. wpc \in Holding \/ up = "up"
    BY <1>15 DEF Run, WTake, WPrepare, WPrepareFail, WAppend, WCommit, WFrameFail, WEndWindow, WFinish,
       WArchive, WArchiveFail, WPublish, WRetract, WRelease, RecoverRepair, RecoverSetAside,
       RecoverReplace, Holding
  <2> QED
    BY <1>14, <1>15, <2>1
<1>16. up \in {"up", "recovering", "down"}
  BY DEF IInv, TypeOK
<1> QED
  BY <1>2, <1>3, <1>4, <1>5, <1>6, <1>9, <1>10, <1>11, <1>12, <1>13, <1>15, <1>16
     DEF Next, Run, Recover

\* A frame is on disk before the worker counts it, and synced before the record
\* does.
LEMMA CountsStep ==
    ASSUME IInv, LInv, [Next]_vars
    PROVE  Counts'
<1> USE ConstAssumption, Held DEF NoFile
<1>h. Counts
  BY DEF LInv, Frames
<1>1. ASSUME up' # "up" \/ wpc' \notin Holding PROVE Counts'
  BY <1>1 DEF Counts
<1>2. CASE up # "up" \/ (wpc \notin Holding /\ ~WTake)
  <2>1. ASSUME CleanupBegin \/ CleanupEnd PROVE wpc' \notin Holding
    BY <2>1 DEF CleanupBegin, CleanupEnd, Holding
  <2>2. ASSUME NEW id \in Ids, CleanupFile(id) \/ CleanupTask(id) \/ CleanupFail(id) \/ CleanupResult(id)
        PROVE  wpc' \notin Holding
    BY <2>2 DEF CleanupFile, CleanupTask, CleanupFail, CleanupResult, Holding
  <2>3. ASSUME Run, ~WTake PROVE UNCHANGED up /\ wpc \in Holding
    BY <2>3 DEF Run, WPrepare, WPrepareFail, WAppend, WCommit, WFrameFail, WEndWindow,
       WFinish, WArchive, WArchiveFail, WPublish, WRetract, WRelease, Holding
  <2>4. ASSUME WTake PROVE up = "up" /\ wpc \notin Holding
    BY <2>4 DEF WTake, Holding
  <2>5. ASSUME Submit \/ SubmitGo \/ Download \/ Release \/ Tick \/ UNCHANGED vars
               \/ (\E id \in Ids : Damage(id))
        PROVE  UNCHANGED <<up, wpc>>
    BY <2>5 DEF Submit, SubmitMkdir, SubmitGo, SubmitWrite, SubmitAccept, SubmitFail, Download,
       DownloadOpen, DownloadCorrupt, Release, DownloadClose, PurgeFile, PurgeDir, PurgeFail, Tick, Damage
  <2>6. ASSUME Recover PROVE up' # "up"
    <3>1. wpc \in {"repair", "replace"} => up # "up"
      BY DEF LInv, Custody, Shown, OwnCopy, Sound, Early, Holding
    <3>2. ASSUME NEW id \in Ids, Visiting(id) PROVE up # "up"
      BY <3>2 DEF Visiting, IInv, LoopInv
    <3> QED
      BY <2>6, <3>1, <3>2 DEF Recover, RecoverLoad, RecoverRepair, RecoverSetAside, RecoverReplace,
         RecoverStore, RecoverInterrupt, RecoverResume, RecoverVerify
  <2>7. ASSUME Crash PROVE up' # "up"
    BY <2>7 DEF Crash
  <2> QED
    BY <1>2, <1>1, <2>1, <2>2, <2>3, <2>4, <2>5, <2>6, <2>7 DEF Next, Cleanup
<1>3. CASE WTake
  <2>1. /\ job \in Ids /\ tasks[job].src = 0 /\ (rec[job] # NoTask => rec[job].src = 0)
        /\ samples[job] = NoFile /\ Known(job) /\ tasks[job].ended = NoTime
    BY <1>3 DEF WTake, IInv, WorkerInv, LInv, Frames, Queued, Blank
  <2>2. loc' = tasks[job] /\ cur' = job /\ rec' = rec /\ wpc' = "prepare" /\ samples' = samples
    BY <1>3 DEF WTake
  <2>3. tasks[job].state # "interrupted"
    BY <2>1 DEF SoundCopies, Sound, Known
  <2> QED
    BY <2>1, <2>2, <2>3 DEF Counts, Late
<1>4. CASE up = "up" /\ wpc \in Holding
  <2>1. /\ cur \in Ids /\ loc \in Task /\ samples[cur] \in Nat \cup {NoFile} /\ loc.src \in Nat
        /\ loc.errs \in BOOLEAN
    BY <1>4 DEF Task
  <2>2. rec[cur] # NoTask => rec[cur] \in Task /\ rec[cur].src \in Nat /\ rec[cur].errs \in BOOLEAN
    BY <2>1 DEF Task
  <2>3. /\ loc.state # "interrupted"
        /\ wpc = "prepare" => loc.src = 0 /\ samples[cur] = NoFile
        /\ wpc \in {"sampling", "appended"} => samples[cur] = loc.src
        /\ wpc = "sampling" => tail[cur] # "volatile"
        /\ wpc = "appended" => tail[cur] = "volatile"
        /\ wpc = "collected" => loc.errs
        /\ wpc \in {"finish", "archive"} \cup Late =>
             loc.errs \/ (samples[cur] # NoFile /\ loc.src <= Surviving(cur))
        /\ samples[cur] = NoFile /\ rec[cur] # NoTask => rec[cur].src = 0 \/ rec[cur].errs
    BY <1>4, <1>h DEF Counts
  <2>s. Surviving(cur) = samples[cur] - (IF tail[cur] = "volatile" THEN 1 ELSE 0)
    BY DEF Surviving
  <2>t. cur' = cur => Surviving(cur)' = samples'[cur] - (IF tail'[cur] = "volatile" THEN 1 ELSE 0)
    BY DEF Surviving
  <2>u. samples[cur] = NoFile => tail[cur] # "volatile"
    BY <2>1 DEF LInv, Frames, Grounded
  \* Steps of others.
  <2>4. ASSUME UNCHANGED <<wpc, cur, loc>>, samples'[cur] = samples[cur], tail'[cur] = tail[cur],
               \/ rec'[cur] = rec[cur] \/ rec'[cur] = NoTask \/ rec'[cur].errs = TRUE
        PROVE  Counts'
    BY <2>1, <2>2, <2>3, <2>4, <2>s, <2>t DEF Counts
  <2>5. ASSUME Submit \/ SubmitWrite \/ Tick \/ DownloadClose \/ PurgeDir \/ PurgeFail \/ UNCHANGED vars
               \/ (\E id \in Ids : DownloadOpen(id) \/ Damage(id))
        PROVE  UNCHANGED <<wpc, cur, loc, samples, tail, rec>>
    BY <2>5 DEF Submit, SubmitMkdir, SubmitWrite, Tick, DownloadClose, PurgeDir, PurgeFail, DownloadOpen,
       Damage
  <2>6. ASSUME SubmitAccept \/ SubmitFail PROVE Counts'
    <3>1. /\ sub.id \in Ids /\ UNCHANGED <<wpc, cur, loc, samples, tail>>
          /\ rec' = rec \/ rec' = [rec EXCEPT ![sub.id] = NewTask(sub.req)]
          /\ sub.id # cur
      BY <1>4, <2>6 DEF SubmitAccept, SubmitFail, IInv, SubmitInv, WorkerInv
    <3> QED
      BY <2>1, <2>4, <3>1
  <2>7. CASE PurgeFile
    <3>1. dl.id # cur /\ dl.id \in Ids
      BY <1>4, <2>7 DEF PurgeFile, IInv, DownloadInv, WorkerInv
    <3>2. /\ rec'[cur] = rec[cur] /\ samples'[cur] = samples[cur] /\ tail'[cur] = tail[cur]
          /\ UNCHANGED <<wpc, cur, loc>>
      BY <2>7, <2>1, <3>1 DEF PurgeFile, DropFile, DropSamples, IInv, TypeOK
    <3> QED
      BY <3>2, <2>4
  <2>8. CASE DownloadCorrupt
    <3> DEFINE t == Withdrawn(tasks[dl.id])
    <3>1. /\ dl.id \in Ids /\ tasks[dl.id] \in Task /\ UNCHANGED <<wpc, cur, loc, samples, tail>>
          /\ rec' = rec \/ rec' = [rec EXCEPT ![dl.id] = t]
      BY <2>8 DEF DownloadCorrupt, LostWrite, IInv, DownloadInv
    <3>2. t.errs = TRUE
      BY <3>1, ErrFields
    <3> HIDE DEF t
    <3> QED
      BY <2>1, <2>4, <3>1, <3>2
  <2>9. ASSUME Cleanup \/ Crash PROVE Counts'
    <3>1. up' # "up" \/ wpc' \notin Holding
      BY <1>4, <2>9 DEF Cleanup, CleanupBegin, CleanupEnd, CleanupFile, CleanupTask, CleanupFail,
         CleanupResult, Crash, Holding
    <3> QED
      BY <3>1, <1>1
  <2>10. ASSUME Recover PROVE Counts'
    <3>1. wpc \notin {"repair", "replace"}
      BY <1>4 DEF LInv, Custody, Shown, OwnCopy, Sound, Early, Holding
    <3>2. ASSUME NEW id \in Ids PROVE ~Visiting(id)
      BY <1>4 DEF Visiting, Holding
    <3> QED
      BY <1>4, <2>10, <3>1, <3>2 DEF Recover, RecoverLoad, RecoverRepair, RecoverSetAside, RecoverReplace,
         RecoverStore, RecoverInterrupt, RecoverResume, RecoverVerify
  \* Steps of the worker.
  <2>11. CASE WPrepare
    <3>1. /\ wpc = "prepare" /\ UNCHANGED <<cur, loc, tail>> /\ wpc' = "sampling" /\ samples'[cur] = 0
      BY <2>1, <2>11 DEF WPrepare
    <3> QED
      BY <2>1, <2>3, <2>u, <3>1 DEF Counts, Late
  <2>12. CASE WPrepareFail
    <3>1. /\ loc' = Flagged(loc) /\ UNCHANGED <<cur, rec>> /\ wpc = "prepare" /\ wpc' = "finish"
          /\ samples'[cur] \in {samples[cur], 0}
      BY <2>1, <2>12 DEF WPrepareFail
    <3>2. loc'.state = loc.state /\ loc'.errs = TRUE
      BY <2>1, <3>1, Fields, ErrFields DEF Same
    <3> QED
      BY <2>3, <3>1, <3>2 DEF Counts, Late
  <2>13. CASE WAppend
    <3>1. /\ wpc = "sampling" /\ loc' = Counted(loc, loc.src + 1) /\ UNCHANGED cur
          /\ wpc' = "appended" /\ samples'[cur] = samples[cur] + 1 /\ tail'[cur] = "volatile"
      BY <2>1, <2>13 DEF WAppend, GrowSamples, IInv, TypeOK
    <3>3. loc.src + 1 \in Nat
      BY <2>1
    <3>2. loc'.src = loc.src + 1 /\ loc'.state = loc.state
      BY <2>1, <3>1, <3>3, CountFields DEF SameEnd
    <3> QED
      BY <2>1, <2>3, <3>1, <3>2 DEF Counts, Late
  <2>14. CASE WCommit
    <3>1. /\ wpc = "appended" /\ UNCHANGED <<cur, loc, samples>> /\ wpc' = "sampling"
          /\ tail'[cur] = "synced"
      BY <2>1, <2>14 DEF WCommit, SyncSamples, IInv, TypeOK
    <3> QED
      BY <2>1, <2>3, <3>1 DEF Counts, Late
  <2>15. CASE WFrameFail
    <3>1. /\ wpc \in {"sampling", "appended"} /\ loc' = Flagged(loc) /\ UNCHANGED cur
          /\ wpc' = "collected"
      BY <2>15 DEF WFrameFail
    <3>2. loc'.state = loc.state /\ loc'.errs = TRUE
      BY <2>1, <3>1, Fields, ErrFields DEF Same
    <3>3. samples'[cur] # NoFile
      <4>1. samples[cur] \in Nat
        BY <2>1, <2>3, <3>1
      <4>2. samples'[cur] = samples[cur] \/ samples'[cur] = samples[cur] + 1
        BY <2>1, <2>15, FrameFailures DEF GrowSamples, Dry
      <4> QED
        BY <4>1, <4>2
    <3> QED
      BY <2>1, <2>3, <3>1, <3>2, <3>3 DEF Counts, Late
  <2>16. CASE WEndWindow
    <3>1. PICK e \in {loc.errs, TRUE} : loc' = Packaging(loc, e)
      BY <2>16 DEF WEndWindow
    <3>2. /\ wpc \in {"sampling", "collected"} /\ UNCHANGED <<cur, samples, tail>> /\ wpc' = "finish"
          /\ rec'[cur] = rec[cur] \/ rec'[cur] = loc'
      BY <2>1, <2>16 DEF WEndWindow, Publish, PublishFail, LostWrite
    <3>3. e \in BOOLEAN
      BY <2>1, <3>1
    <3>4. loc'.src = loc.src /\ loc'.state = loc.state
      BY <2>1, <3>1, <3>3, Fields DEF Same
    <3>5. loc'.errs = e
      <4>1. \A d \in BOOLEAN : Packaging(loc, d).errs = d
        BY <2>1, ErrFields
      <4> QED
        BY <3>1, <3>3, <4>1, Zenon
    <3>6. CASE wpc = "sampling"
      <4>1. samples'[cur] # NoFile /\ loc'.src <= Surviving(cur)'
        BY <2>1, <2>3, <2>t, <3>2, <3>4, <3>6
      <4> QED
        BY <2>3, <3>2, <3>4, <4>1 DEF Counts
    <3>7. CASE wpc = "collected"
      <4>1. loc'.errs = TRUE
        BY <2>3, <3>1, <3>5, <3>7
      <4> QED
        BY <2>3, <3>2, <3>4, <4>1 DEF Counts
    <3> QED
      BY <3>2, <3>6, <3>7
  <2>17. CASE WFinish
    <3>1. /\ loc' = Finished(loc) /\ UNCHANGED <<cur, samples, tail, rec>>
          /\ wpc = "finish" /\ wpc' = "archive"
      BY <2>17 DEF WFinish
    <3>2. loc'.src = loc.src /\ loc'.state = FinalState(loc) /\ loc'.errs = loc.errs
      BY <2>1, <3>1, EndFields, ErrFields
    <3>3. FinalState(loc) # "interrupted"
      BY <2>3 DEF FinalState
    <3> QED
      BY <2>1, <2>2, <2>3, <2>s, <2>t, <3>1, <3>2, <3>3 DEF Counts
  <2>18. CASE WArchive
    <3>1. /\ wpc = "archive" /\ wpc' = "publish" /\ loc' = Packaged(loc)
          /\ UNCHANGED <<cur, rec, tail>> /\ samples'[cur] = CountFrames(samples[cur])
      BY <2>1, <2>18 DEF WArchive
    <3>2. loc'.src = loc.src /\ loc'.state = loc.state /\ loc'.errs = loc.errs
      BY <2>1, <3>1, Fields, ErrFields DEF Same
    <3>3. CASE samples[cur] = NoFile
      <4>1. loc.errs /\ samples'[cur] = 0
        BY <2>3, <3>1, <3>3 DEF CountFrames
      <4> QED
        BY <2>1, <2>3, <3>1, <3>2, <4>1 DEF Counts
    <3>4. CASE samples[cur] # NoFile
      <4>1. samples'[cur] = samples[cur]
        BY <3>1, <3>4 DEF CountFrames
      <4> QED
        BY <2>1, <2>2, <2>3, <2>s, <2>t, <3>1, <3>2, <4>1 DEF Counts, Late
    <3> QED
      BY <3>3, <3>4
  <2>22. CASE WArchiveFail
    <3>1. /\ wpc = "archive" /\ wpc' = "publish" /\ loc' = Unpackaged(loc)
          /\ UNCHANGED <<cur, rec, tail, samples>>
      BY <2>22 DEF WArchiveFail
    <3>2. loc'.state # "interrupted" /\ loc'.errs = TRUE
      BY <2>1, <2>3, <3>1, Fields, ErrFields
    <3> QED
      BY <2>3, <3>1, <3>2 DEF Counts
  <2>19. CASE WPublish
    <3>1. /\ wpc = "publish" /\ UNCHANGED <<cur, loc, samples, tail>> /\ wpc' \in {"retract", "release"}
          /\ rec'[cur] = rec[cur] \/ rec'[cur] = loc
      BY <2>1, <2>19 DEF WPublish, Publish, PublishFail, LostWrite
    <3> QED
      BY <2>1, <2>2, <2>3, <2>s, <2>t, <3>1 DEF Counts, Late
  <2>20. CASE WRetract
    <3>1. UNCHANGED <<cur, loc, samples, tail, rec>> /\ wpc = "retract" /\ wpc' = "release"
      BY <2>20 DEF WRetract
    <3> QED
      BY <2>3, <2>s, <2>t, <3>1 DEF Counts, Late
  <2>21. CASE WRelease
    BY <2>21, <1>1 DEF WRelease, Holding
  <2> QED
    BY <1>3, <2>4, <2>5, <2>6, <2>7, <2>8, <2>9, <2>10, <2>11, <2>12, <2>13, <2>14, <2>15, <2>16,
       <2>17, <2>18, <2>19, <2>20, <2>21, <2>22 DEF Next, SubmitGo, Run, Download, Release
<1> QED
  BY <1>2, <1>3, <1>4

-----------------------------------------------------------------------------
(* The theorems.                                                           *)

\* The invariant holds when the agent starts on an empty data directory.
LEMMA InitLife == Init => LInv
<1> SUFFICES ASSUME Init PROVE LInv
  OBVIOUS
<1> USE ConstAssumption DEF Init, Holding, Early, Late, Sampling, Known, NoDownload
<1>1. Copies /\ Custody
  BY DEF Copies, SoundCopies, OwnCopy, Custody, Hands, Running, Shown, Opened
<1>2. Agreement
  BY DEF Agreement, Ended, Unoffered, Fresh, Unvisited
<1>3. Offers /\ Frames
  BY DEF Offers, Sweep, Leased, Packed, Waiting, ResultBacked, Frames, Queued, Blank,
     Grounded, Told, Rebuilt, Counts, FramesDurable
<1> QED
  BY <1>1, <1>2, <1>3 DEF LInv

\* What the record, the map and the private copy of every task say of each
\* other, and who has the task in hand, in every reachable state.
THEOREM LifeInvariant == Spec => [](IInv /\ LInv)
<1>1. LInv /\ IInv /\ [Next]_vars => LInv'
  BY SoundStep, OwnStep, HandsStep, RunningStep, ShownStep, OpenedStep, EndedStep, UnofferedStep,
     FreshStep, UnvisitedStep, SweepStep, LeasedStep, PackedStep, BackedStep, QueuedStep,
     BlankStep, GroundedStep, DurableStep, RebuiltStep, CountsStep
     DEF LInv, Copies, Custody, Agreement, Offers, Frames
<1> QED
  BY InductiveInvariant, InitLife, <1>1, PTL DEF Spec

\* Every task.json the agent leaves behind passes recover's validTask: whatever
\* write fails or crash intervenes, a start never stops admission because of a
\* record with a state but no end, or an end and no final state.
THEOREM RecordsAreValid == Spec => []ValidRecords
<1>1. LInv => ValidRecords
  BY DEF LInv, Copies, SoundCopies, Sound, ValidRecords
<1> QED
  BY LifeInvariant, <1>1, PTL

\* At most one task is shown as running, and it is queued or in the worker's
\* hands, never both and never neither: the send to a.jobs under a.mu cannot
\* block, and no restart leaves a task running that nobody finishes.
THEOREM OneTaskAtATime == Spec => []OneActive
<1>1. ASSUME IInv, LInv PROVE OneActive
  <2> SUFFICES ASSUME up = "up" PROVE OneActive
    BY DEF OneActive
  <2>1. \A i \in Ids : tasks[i] # NoTask /\ tasks[i].state = "running" => i = active
    BY <1>1 DEF LInv, Custody, Running
  <2>2. wpc \in Holding => cur \in Ids /\ active = cur /\ job = NoId
    BY <1>1 DEF IInv, WorkerInv
  <2>3. wpc \notin Holding => cur = NoId /\ active = job
    BY <1>1 DEF LInv, Custody, Hands
  <2> QED
    BY <2>1, <2>2, <2>3, ConstAssumption DEF OneActive
<1> QED
  BY LifeInvariant, <1>1, PTL

\* A durable record that offers a result has its package on disk until the
\* result expires, whatever fails between archive and publish.
THEOREM OfferedIsThere == Spec => []ResultBacked
<1>1. LInv => ResultBacked
  BY DEF LInv, Offers
<1> QED
  BY LifeInvariant, <1>1, PTL

\* A power loss never takes a frame that a durable record without an error counts,
\* at any time in the life of the task and over any number of failed writes and
\* restarts: Append and Sync come before publish, and when Sync fails everything
\* published afterwards carries the error.
THEOREM CountedIsDurable == Spec => []FramesDurable
<1>1. LInv => FramesDurable
  BY DEF LInv, Frames
<1> QED
  BY LifeInvariant, <1>1, PTL

\* The end of a task is dated once and its outcome decided once: a restart, a
\* repaired package, a withdrawn result or a write that was reported as failed
\* and took place changes neither.
THEOREM EndIsFinal == Spec => EndedOnce
<1> DEFINE Kept == \A i \in Ids : rec[i] # NoTask /\ rec[i].ended # NoTime /\ rec'[i] # NoTask
                      => rec'[i].ended = rec[i].ended /\ rec'[i].state = rec[i].state
<1>1. ASSUME IInv, LInv, [Next]_vars PROVE Kept
  <2> USE ConstAssumption, Held, <1>1
  <2>o. Ended
    BY DEF LInv, Agreement
  \* A record is rewritten with the same end, or had none.
  <2>1. ASSUME NEW j \in Ids, NEW u, rec' = rec \/ rec' = [rec EXCEPT ![j] = u],
               rec[j] # NoTask /\ rec[j].ended # NoTime /\ u # NoTask => SameEnd(rec[j], u)
        PROVE  Kept
    <3> SUFFICES ASSUME NEW i \in Ids, rec[i] # NoTask, rec[i].ended # NoTime, rec'[i] # NoTask
                 PROVE  rec'[i].ended = rec[i].ended /\ rec'[i].state = rec[i].state
      OBVIOUS
    <3>1. rec'[i] = rec[i] \/ (i = j /\ rec'[i] = u)
      BY <2>1
    <3> QED
      BY <2>1, <3>1 DEF SameEnd
  <2>2. ASSUME rec' = rec PROVE Kept
    BY <2>2
  <2> HIDE DEF Kept
  <2>3. ASSUME Submit \/ SubmitWrite \/ Tick \/ DownloadClose \/ PurgeDir \/ PurgeFail \/ Crash \/ UNCHANGED vars
               \/ CleanupBegin \/ CleanupEnd
               \/ (\E id \in Ids : CleanupTask(id) \/ CleanupFail(id) \/ CleanupResult(id)
                                     \/ DownloadOpen(id) \/ Damage(id) \/ RecoverResume(id))
        PROVE  rec' = rec
    BY <2>3 DEF Submit, SubmitMkdir, SubmitWrite, Tick, DownloadClose, PurgeDir, PurgeFail, Crash, CleanupBegin,
       CleanupEnd, CleanupTask, CleanupFail, CleanupResult, DownloadOpen, Damage, RecoverResume
  <2>4. ASSUME WTake \/ WPrepareFail \/ WAppend \/ WFinish \/ WArchive \/ WArchiveFail \/ WRetract
               \/ WRelease \/ RecoverLoad \/ RecoverRepair \/ RecoverSetAside \/ RecoverReplace
               \/ RecoverStore
        PROVE  rec' = rec
    BY <2>4 DEF WTake, WPrepareFail, WAppend, WFinish, WArchive, WArchiveFail, WRetract, WRelease,
       RecoverLoad, RecoverRepair, RecoverSetAside, RecoverReplace, RecoverStore
  <2>5. ASSUME SubmitAccept \/ SubmitFail PROVE Kept
    <3>1. /\ sub.id \in Ids /\ rec[sub.id] = NoTask
          /\ rec' = rec \/ rec' = [rec EXCEPT ![sub.id] = NewTask(sub.req)]
      BY <2>5 DEF SubmitAccept, SubmitFail, IInv, SubmitInv, LInv, Agreement, Fresh
    <3> QED
      BY <3>1, <2>1
  <2>6. ASSUME wpc \in Holding PROVE rec[cur] # NoTask /\ rec[cur].ended # NoTime => SameEnd(rec[cur], loc)
    BY <2>6, <2>o DEF Ended
  <2>7. ASSUME WPrepare \/ WCommit \/ WFrameFail \/ WPublish PROVE Kept
    <3>1. wpc \in Holding /\ (rec' = rec \/ rec' = [rec EXCEPT ![cur] = loc])
      BY <2>7 DEF WPrepare, WCommit, WFrameFail, WPublish, Publish, PublishFail, LostWrite, Holding
    <3> QED
      BY <3>1, <2>1, <2>6
  <2>8. CASE WEndWindow
    <3>1. PICK e \in {loc.errs, TRUE} : loc' = Packaging(loc, e)
      BY <2>8 DEF WEndWindow
    <3>2. wpc \in Holding /\ (rec' = rec \/ rec' = [rec EXCEPT ![cur] = loc'])
      BY <2>8 DEF WEndWindow, Publish, PublishFail, LostWrite, Holding
    <3>3. e \in BOOLEAN
      BY <3>1, <3>2 DEF Task
    <3>4. SameEnd(loc, loc')
      BY <3>1, <3>2, <3>3, Fields DEF Same, SameEnd
    <3>5. rec[cur] # NoTask /\ rec[cur].ended # NoTime => SameEnd(rec[cur], loc')
      BY <3>2, <3>4, <2>6 DEF SameEnd
    <3> QED
      BY <3>2, <3>5, <2>1
  <2>9. ASSUME NEW id \in Ids, CleanupFile(id) PROVE Kept
    BY <2>9, <2>1 DEF CleanupFile, DropFile
  <2>10. CASE PurgeFile
    <3>1. dl.id \in Ids /\ (rec' = rec \/ rec' = [rec EXCEPT ![dl.id] = NoTask])
      BY <2>10 DEF PurgeFile, DropFile, IInv, DownloadInv
    <3> QED
      BY <3>1, <2>1
  <2>11. ASSUME NEW j \in Ids, Known(j) PROVE SameEnd(tasks[j], Withdrawn(tasks[j]))
    BY <2>11, Fields DEF Known, Same, SameEnd
  <2>12. CASE DownloadCorrupt
    <3>1. /\ dl.id \in Ids /\ Known(dl.id) /\ dl.stage = "open"
          /\ rec' = rec \/ rec' = [rec EXCEPT ![dl.id] = Withdrawn(tasks[dl.id])]
      BY <2>12 DEF DownloadCorrupt, LostWrite, IInv, DownloadInv, Known
    <3>2. wpc \in Holding /\ dl.id = cur => SameEnd(loc, tasks[cur])
      BY <3>1, NotDownloaded DEF LInv, Custody, Shown, SameEnd
    <3>3. rec[dl.id] # NoTask /\ rec[dl.id].ended # NoTime => SameEnd(rec[dl.id], tasks[dl.id])
      BY <3>1, <3>2, <2>o DEF Ended, SameEnd
    <3>4. rec[dl.id] # NoTask /\ rec[dl.id].ended # NoTime => SameEnd(rec[dl.id], Withdrawn(tasks[dl.id]))
      BY <3>1, <3>3, <2>11 DEF SameEnd
    <3> QED
      BY <3>1, <3>4, <2>1
  <2>13. ASSUME NEW id \in Ids, Visiting(id) PROVE Known(id) /\ rec[id] = tasks[id]
    BY <2>13 DEF Visiting, IInv, LoopInv, LInv, Agreement, Unvisited, Holding
  <2>14. ASSUME NEW id \in Ids, RecoverInterrupt(id) PROVE Kept
    <3>1. /\ Known(id) /\ rec[id] = tasks[id] /\ tasks[id].state = "running"
          /\ rec' = rec \/ rec' = [rec EXCEPT ![id] = Interrupted(tasks[id])]
      BY <2>14, <2>13 DEF RecoverInterrupt, LostWrite
    <3>2. rec[id].ended = NoTime
      BY <3>1 DEF Known, SoundCopies, Sound
    <3> QED
      BY <3>1, <3>2, <2>1
  <2>15. ASSUME NEW id \in Ids, RecoverVerify(id) PROVE Kept
    <3>1. /\ Known(id) /\ rec[id] = tasks[id]
          /\ rec' = rec \/ rec' = [rec EXCEPT ![id] = Withdrawn(tasks[id])]
      BY <2>15, <2>13 DEF RecoverVerify, LostWrite
    <3> QED
      BY <3>1, <2>1, <2>11
  <2> QED
    BY <2>2, <2>3, <2>4, <2>5, <2>7, <2>8, <2>9, <2>10, <2>12, <2>14, <2>15
       DEF Next, SubmitGo, Run, Cleanup, Download, Release, Recover
<1> QED
  BY LifeInvariant, <1>1, PTL DEF Spec, EndedOnce
=============================================================================
