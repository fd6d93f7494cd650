---------------------------- MODULE AgentProofs ----------------------------
(***************************************************************************)
(* Proofs about Agent, for any set of tasks, request ids and any number of *)
(* faults, crashes and clock values.                                       *)
(*                                                                         *)
(* The request index is only as good as what the threads hold while they   *)
(* do not hold a.mu, so the inductive invariant says, beside the           *)
(* properties themselves, what a Submit in progress (SubmitInv), the       *)
(* worker or the recovery loop (WorkerInv, LoopInv) and a download         *)
(* (DownloadInv) have in their hands.                                      *)
(***************************************************************************)
EXTENDS Agent, TLAPS

Known(i) == tasks[i] # NoTask

\* Control points at which cur and loc are a task's.
Holding == {"prepare", "sampling", "appended", "collected", "finish", "archive",
            "publish", "retract", "release", "repair", "replace"}

SubmitInv ==
    mu = "submit" =>
        /\ up = "up" /\ sub.id \in Ids /\ sub.id \in issued /\ sub.id \notin removed
        /\ ~Known(sub.id) /\ active = NoId
        /\ Unclaimed(sub.req)

\* The private copy is of the task the map knows, and agrees with it on the
\* request and on an end that is already dated.
WorkerInv ==
    /\ wpc \in Holding =>
         /\ cur \in Ids /\ loc \in Task /\ Known(cur)
         /\ loc.req = tasks[cur].req
         /\ tasks[cur].ended # NoTime => loc.ended = tasks[cur].ended
         /\ up # "down" /\ (up = "up" => active = cur /\ job = NoId)
    /\ job # NoId => /\ job \in Ids /\ active = job /\ up = "up"
                     /\ Known(job) /\ tasks[job].ended = NoTime

LoopInv ==
    /\ up = "recovering" \/ wpc = "cleanup" => \A i \in todo : Known(i)
    /\ wpc = "recover" => up = "recovering"
    /\ up = "recovering" => removed = {} /\ dl = NoDownload /\ active = NoId /\ job = NoId
    /\ up = "down" => wpc = "off" /\ removed = {} /\ dl = NoDownload
                        /\ active = NoId /\ job = NoId /\ mu = "free"
                        /\ \A i \in Ids : ~Known(i)
    /\ wpc = "cleanup" <=> mu = "cleanup"

DownloadInv ==
    /\ dl.stage # "none" => dl.id \in Ids
    /\ dl.stage = "purge" => dl.id \in removed
    /\ \A i \in removed : ~Known(i)

IssuedInv ==
    \A i \in Ids : Known(i) \/ rec[i] # NoTask \/ i \in removed => i \in issued

RecordInv == up # "down" /\ ~degraded =>
                \A i \in Ids : rec[i] # NoTask => Known(i) \/ i \in removed

IInv == /\ TypeOK /\ SubmitInv /\ WorkerInv /\ LoopInv /\ DownloadInv /\ IssuedInv
        /\ IndexSound /\ RequestIndex /\ BackedByDisk /\ RecordInv

-----------------------------------------------------------------------------
USE DEF memory, worker, leases, disk, limits, vars

\* u is a task that t may become: the same request, and the same end once it
\* is dated.
Keeps(t, u) == /\ u \in Task /\ u.req = t.req
               /\ t.ended # NoTime => u.ended = t.ended

\* A fresh task, and the absent Submit, have their types.
LEMMA NewTaskType ==
    /\ \A r \in Reqs : NewTask(r) \in Task /\ NewTask(r).req = r /\ NewTask(r).ended = NoTime
    /\ NoSub \in [req: Reqs, id: Ids \cup {NoId}, stage: {"none", "made", "written"}]
BY ConstAssumption DEF NewTask, Task, Phases, NoTime, NoSub

\* Whatever the agent does to a task, it keeps it in this sense.
LEMMA TaskEdits ==
    ASSUME NEW t \in Task, now \in Nat
    PROVE  /\ Keeps(t, Flagged(t)) /\ Keeps(t, Withdrawn(t)) /\ Keeps(t, Packaged(t))
           /\ Keeps(t, Unpackaged(t)) /\ Keeps(t, Finished(t)) /\ Keeps(t, Interrupted(t))
           /\ \A n \in Nat : Keeps(t, Counted(t, n))
           /\ \A e \in BOOLEAN : Keeps(t, Packaging(t, e))
<1> USE DEF Keeps
<1>1. Keeps(t, EndTimes(t))
  BY DEF EndTimes, Task
<1>2. FinalState(t) \in Terminal \cup {"running"}
  BY DEF FinalState, Terminal
<1>3. Keeps(t, Flagged(t))
  BY DEF Flagged, Task, Phases, Terminal
<1>4. Keeps(t, Withdrawn(t))
  BY DEF Withdrawn, Task, Phases, Terminal
<1>5. Keeps(t, Packaged(t))
  BY DEF Packaged, Task, Phases, Terminal
<1>6. Keeps(t, Unpackaged(t))
  BY DEF Unpackaged, Task, Phases, Terminal
<1>7. Keeps(t, Finished(t))
  BY <1>1, <1>2 DEF Finished, Task, Phases, Terminal
<1>8. Keeps(t, Interrupted(t))
  BY <1>1, <1>2 DEF Interrupted, Task, Phases, Terminal
<1>9. \A n \in Nat : Keeps(t, Counted(t, n))
  BY DEF Counted, Task, Phases, Terminal
<1>10. \A e \in BOOLEAN : Keeps(t, Packaging(t, e))
  BY DEF Packaging, Task, Phases, Terminal
<1> QED
  BY <1>3, <1>4, <1>5, <1>6, <1>7, <1>8, <1>9, <1>10

\* So does repair, with the counts it takes from the disk.
LEMMA RecountKeeps ==
    ASSUME NEW t \in Task, NEW n \in Nat \cup {NoFile}
    PROVE  Keeps(t, Recounted(t, n)) /\ Keeps(t, Flagged(Recounted(t, n)))
<1>1. Keeps(t, Recounted(t, n))
  BY DEF Keeps, Recounted, Counted, NoFile, Task, Phases, Terminal
<1>2. Keeps(Recounted(t, n), Flagged(Recounted(t, n)))
  BY <1>1 DEF Keeps, Flagged, Task, Phases, Terminal
<1> QED
  BY <1>1, <1>2 DEF Keeps

\* What repairAndFinish does to the frames and to the local copy.
RepairOutcome ==
    /\ \/ /\ samples' = [samples EXCEPT ![cur] = CountFrames(samples[cur])]
          /\ loc' = Recounted(loc, samples[cur])
       \/ /\ samples' = samples
          /\ loc' \in {Flagged(loc), Flagged(Recounted(loc, samples[cur]))}
    /\ faults' = faults \/ Fault

\* RecoverRepair, without its effect on degraded.
LEMMA RepairOutcomes == RecoverRepair => RepairOutcome
BY DEF RecoverRepair, RepairOutcome

\* A frame more in samples.jsonl.
LEMMA GrowType ==
    ASSUME TypeOK, cur \in Ids, GrowSamples
    PROVE  /\ samples' \in [Ids -> Nat \cup {NoFile}]
           /\ tail' \in [Ids -> {"synced", "volatile", "lost"}]
BY DEF TypeOK, GrowSamples, NoFile

\* Every step keeps the types.
LEMMA TypeStep ==
    ASSUME IInv, [Next]_vars
    PROVE  TypeOK'
<1> USE ConstAssumption DEF IInv, TypeOK, Keeps, Known
<1>1. ASSUME NEW r \in Reqs, NEW id \in Ids, SubmitMkdir(r, id) PROVE TypeOK'
  BY <1>1 DEF SubmitMkdir, Admits, Fault
<1>2. CASE SubmitWrite
  BY <1>2 DEF SubmitWrite, SubmitInv
<1>3. CASE SubmitAccept
  BY <1>3, NewTaskType DEF SubmitAccept, SubmitInv
<1>4. CASE SubmitFail
  BY <1>4, NewTaskType DEF SubmitFail, Fault, SubmitInv
<1>5. CASE WTake
  BY <1>5 DEF WTake, WorkerInv, Holding
<1>6. CASE WPrepare
  BY <1>6 DEF WPrepare, Publish, WorkerInv, Holding
<1>7. CASE WPrepareFail
  BY <1>7, TaskEdits DEF WPrepareFail, Fault, WorkerInv, Holding
<1>8. CASE WAppend
  <2>1. cur \in Ids /\ loc \in Task /\ loc.src + 1 \in Nat
    BY <1>8 DEF WAppend, WorkerInv, Holding, Task
  <2>2. loc' \in Task
    BY <1>8, <2>1, TaskEdits DEF WAppend
  <2>3. /\ samples' \in [Ids -> Nat \cup {NoFile}]
        /\ tail' \in [Ids -> {"synced", "volatile", "lost"}]
    BY <1>8, <2>1, GrowType DEF WAppend
  <2> QED
    BY <1>8, <2>1, <2>2, <2>3 DEF WAppend
<1>9. CASE WCommit
  BY <1>9 DEF WCommit, SyncSamples, Publish, WorkerInv, Holding
<1>10. CASE WFrameFail
  <2>1. cur \in Ids /\ loc \in Task
    BY <1>10 DEF WFrameFail, WorkerInv, Holding
  <2>2. loc' \in Task
    BY <1>10, <2>1, TaskEdits DEF WFrameFail
  <2>3. /\ samples' \in [Ids -> Nat \cup {NoFile}]
        /\ tail' \in [Ids -> {"synced", "volatile", "lost"}]
    BY <1>10, <2>1, GrowType DEF WFrameFail, SyncSamples
  <2>4. /\ tasks' \in [Ids -> Task \cup {NoTask}] /\ rec' \in [Ids -> Task \cup {NoTask}]
        /\ faults' \in Nat
    BY <1>10, <2>1 DEF WFrameFail, Fault, PublishFail, LostWrite
  <2> QED
    BY <1>10, <2>2, <2>3, <2>4 DEF WFrameFail
<1>11. CASE WEndWindow
  <2>1. cur \in Ids /\ loc \in Task /\ loc.errs \in BOOLEAN
    BY <1>11 DEF WEndWindow, WorkerInv, Holding, Task
  <2>2. PICK e \in {loc.errs, TRUE} : loc' = Packaging(loc, e)
    BY <1>11 DEF WEndWindow
  <2>3. e \in BOOLEAN
    BY <2>1, <2>2
  <2>4. loc' \in Task
    BY <2>1, <2>2, <2>3, TaskEdits
  <2> QED
    BY <1>11, <2>1, <2>4 DEF WEndWindow, Fault, PublishFail, LostWrite, Publish
<1>12. CASE WFinish
  BY <1>12, TaskEdits DEF WFinish, WorkerInv, Holding
<1>13. CASE WArchive
  BY <1>13, TaskEdits DEF WArchive, CountFrames, NoFile, WorkerInv, Holding
<1>14. CASE WArchiveFail
  BY <1>14, TaskEdits DEF WArchiveFail, Fault, WorkerInv, Holding
<1>15. CASE WPublish
  BY <1>15 DEF WPublish, Fault, PublishFail, LostWrite, Publish, WorkerInv, Holding
<1>16. CASE WRetract
  BY <1>16, TaskEdits DEF WRetract, WorkerInv, Holding
<1>17. CASE WRelease
  BY <1>17 DEF WRelease, WorkerInv, Holding
<1>18. CASE CleanupBegin
  BY <1>18 DEF CleanupBegin, Stale
<1>19. CASE CleanupEnd
  BY <1>19 DEF CleanupEnd
<1>20. CASE DownloadCorrupt
  BY <1>20, TaskEdits DEF DownloadCorrupt, Fault, LostWrite, DownloadInv
<1>21. CASE DownloadClose
  BY <1>21 DEF DownloadClose, Fault, NoDownload, DownloadInv
<1>22. CASE PurgeFile
  BY <1>22 DEF PurgeFile, DropFile, DropSamples, NoFile, DownloadInv
<1>23. CASE PurgeDir
  BY <1>23 DEF PurgeDir, NoDownload, DownloadInv
<1>41. CASE PurgeFail
  BY <1>41 DEF PurgeFail, Fault, NoDownload, DownloadInv
<1>24. CASE RecoverLoad
  <2>1. PICK lost \in SUBSET Recorded :
          /\ IF lost = {} THEN UNCHANGED faults ELSE Fault
          /\ todo' = Recorded \ lost
          /\ tasks' = [i \in Ids |-> IF i \in lost THEN NoTask ELSE rec[i]]
          /\ requests' = [r \in Reqs |->
                            IF \E i \in Ids : Claims(r) \ lost = {i}
                            THEN CHOOSE i \in Ids : Claims(r) \ lost = {i} ELSE NoId]
          /\ degraded' = Suspect(lost)
    BY <1>24 DEF RecoverLoad
  <2>2. tasks' \in [Ids -> Task \cup {NoTask}] /\ todo' \subseteq Ids /\ faults' \in Nat
    BY <2>1 DEF Recorded, Fault
  <2>3. requests' \in [Reqs -> Ids \cup {NoId}]
    BY <2>1
  <2>4. degraded' \in BOOLEAN
    BY <2>1 DEF Suspect
  <2> QED
    BY <1>24, <2>2, <2>3, <2>4 DEF RecoverLoad
<1>25. CASE RecoverRepair
  <2>1. cur \in Ids /\ loc \in Task
    BY <1>25 DEF RecoverRepair, WorkerInv, Holding
  <2>2. RepairOutcome
    BY <1>25, RepairOutcomes
  <2>3. CountFrames(samples[cur]) \in Nat
    BY <2>1 DEF CountFrames, NoFile
  <2>4. /\ Recounted(loc, samples[cur]) \in Task
        /\ Flagged(Recounted(loc, samples[cur])) \in Task
        /\ Flagged(loc) \in Task
    BY <2>1, TaskEdits, RecountKeeps
  <2>8. samples' \in [Ids -> Nat \cup {NoFile}]
    BY <2>1, <2>2, <2>3 DEF RepairOutcome
  <2>9. loc' \in Task
    BY <2>1, <2>2, <2>3, <2>4 DEF RepairOutcome
  <2>5. degraded' \in BOOLEAN
    BY <1>25 DEF RecoverRepair
  <2>6. faults' \in Nat
    BY <2>2 DEF RepairOutcome, Fault
  <2>7. UNCHANGED <<now, up, tasks, requests, active, job, mu, sub, cur, todo,
                    leases, dir, tmp, rec, tail, arc, issued, crashes>> /\ wpc' = "finish"
    BY <1>25 DEF RecoverRepair
  <2> QED
    BY <2>5, <2>6, <2>7, <2>8, <2>9 DEF leases
<1>39. CASE RecoverSetAside
  <2>1. cur \in Ids /\ loc \in Task /\ samples[cur] \in Nat
    BY <1>39 DEF RecoverSetAside, WorkerInv, Holding
  <2>2. Flagged(Recounted(loc, samples[cur])) \in Task
    BY <2>1, RecountKeeps
  <2> QED
    BY <1>39, <2>1, <2>2 DEF RecoverSetAside, Fault
<1>40. CASE RecoverReplace
  <2>1. cur \in Ids /\ loc \in Task /\ loc.src \in Nat
    BY <1>40 DEF RecoverReplace, WorkerInv, Holding, Task
  <2>2. Flagged(loc) \in Task
    BY <2>1, TaskEdits
  <2>3. degraded' \in BOOLEAN
    BY <1>40 DEF RecoverReplace
  <2> QED
    BY <1>40, <2>1, <2>2, <2>3 DEF RecoverReplace, Fault
<1>26. CASE RecoverStore
  BY <1>26 DEF RecoverStore, WorkerInv, Holding
<1>27. CASE Crash
  <2>1. /\ samples' \in [Ids -> Nat \cup {NoFile}]
        /\ tail' \in [Ids -> {"synced", "volatile", "lost"}]
    BY <1>27 DEF Crash, PowerLoss, NoFile
  <2>2. degraded' \in BOOLEAN
    BY <1>27 DEF Crash
  <2> QED
    BY <1>27, <2>1, <2>2, NewTaskType DEF Crash, NoDownload
<1>28. CASE Tick
  BY <1>28 DEF Tick
<1>29. ASSUME NEW id \in Ids, CleanupFile(id) PROVE TypeOK'
  BY <1>29 DEF CleanupFile, DropFile, DropSamples, NoFile, Expiring
<1>30. ASSUME NEW id \in Ids, CleanupTask(id) PROVE TypeOK'
  BY <1>30 DEF CleanupTask, Expiring, Forget
<1>31. ASSUME NEW id \in Ids, CleanupFail(id) PROVE TypeOK'
  BY <1>31 DEF CleanupFail, Fault, Expiring
<1>32. ASSUME NEW id \in Ids, CleanupResult(id) PROVE TypeOK'
  BY <1>32 DEF CleanupResult, DropSamples, NoFile
<1>33. ASSUME NEW id \in Ids, DownloadOpen(id) PROVE TypeOK'
  BY <1>33 DEF DownloadOpen
<1>34. ASSUME NEW id \in Ids, RecoverInterrupt(id) PROVE TypeOK'
  <2>1. tasks[id] \in Task
    BY <1>34 DEF RecoverInterrupt, Visiting, LoopInv
  <2>2. Interrupted(tasks[id]) \in Task
    BY <2>1, TaskEdits
  <2>3. degraded' \in BOOLEAN
    BY <1>34 DEF RecoverInterrupt
  <2> QED
    BY <1>34, <2>2, <2>3 DEF RecoverInterrupt, Fault, LostWrite
<1>35. ASSUME NEW id \in Ids, RecoverResume(id) PROVE TypeOK'
  BY <1>35 DEF RecoverResume, Visiting, LoopInv
<1>36. ASSUME NEW id \in Ids, RecoverVerify(id) PROVE TypeOK'
  <2>1. tasks[id] \in Task
    BY <1>36 DEF RecoverVerify, Visiting, LoopInv
  <2>2. Withdrawn(tasks[id]) \in Task
    BY <2>1, TaskEdits
  <2>3. degraded' \in BOOLEAN
    BY <1>36 DEF RecoverVerify
  <2> QED
    BY <1>36, <2>2, <2>3 DEF RecoverVerify, Fault, LostWrite
<1>37. ASSUME NEW id \in Ids, Damage(id) PROVE TypeOK'
  BY <1>37 DEF Damage, Fault
<1>38. CASE UNCHANGED vars
  BY <1>38
<1> QED
  BY <1>1, <1>2, <1>3, <1>4, <1>5, <1>6, <1>7, <1>8, <1>9, <1>10, <1>11, <1>12, <1>13, <1>14, <1>15, <1>16, <1>17, <1>18, <1>19, <1>20, <1>21, <1>22, <1>23, <1>24, <1>25, <1>26, <1>27, <1>28, <1>29, <1>30, <1>31, <1>32, <1>33, <1>34, <1>35, <1>36, <1>37, <1>38,
     <1>39, <1>40, <1>41 DEF Next, Submit, SubmitGo, Run, Cleanup, Download, Release, Recover
-----------------------------------------------------------------------------
(* Kinds of steps, as far as tasks and their records are concerned.        *)

\* One known task is edited, in memory, on disk or both.
Touch ==
    /\ \E i \in Ids : \E u \in Task :
         /\ Known(i) /\ Keeps(tasks[i], u)
         /\ tasks' \in {tasks, [tasks EXCEPT ![i] = u]}
         /\ rec' \in {rec, [rec EXCEPT ![i] = u]}
    /\ UNCHANGED <<now, up, requests, issued, removed>>
    /\ degraded => degraded'

\* No task and no record changes.
Calm ==
    /\ UNCHANGED <<now, tasks, requests, rec, removed>>
    /\ up = "down" => up' = "down"
    /\ degraded => degraded'
    /\ issued \subseteq issued'

\* The record of a task that is expired or already forgotten is deleted.
Shed ==
    /\ \E i \in Ids : /\ i \in removed \/ (Known(i) /\ TaskExpired(tasks[i]))
                      /\ rec' \in {rec, [rec EXCEPT ![i] = NoTask]}
    /\ UNCHANGED <<now, up, tasks, requests, degraded, issued, removed>>

\* Every step is of one of these kinds or one of the seven actions that
\* admit, forget, reload or lose tasks or move the clock.
LEMMA StepKinds ==
    ASSUME IInv, [Next]_vars
    PROVE  \/ Touch \/ Calm \/ Shed
           \/ SubmitAccept \/ SubmitFail \/ PurgeDir \/ RecoverLoad \/ Crash \/ Tick
           \/ \E id \in Ids : CleanupTask(id)
<1> USE ConstAssumption DEF IInv, TypeOK, Known
<1>cur. wpc \in Holding => cur \in Ids /\ Known(cur) /\ loc \in Task /\ Keeps(tasks[cur], loc)
  BY DEF WorkerInv, Keeps
<1>1. ASSUME NEW r \in Reqs, NEW id \in Ids, SubmitMkdir(r, id) PROVE Calm
  BY <1>1 DEF SubmitMkdir, Calm
<1>2. ASSUME SubmitWrite \/ WTake \/ WPrepareFail \/ WAppend \/ WFinish PROVE Calm
  BY <1>2 DEF SubmitWrite, WTake, WPrepareFail, WAppend, WFinish, Calm
<1>3. ASSUME WArchive \/ WArchiveFail \/ WRelease \/ CleanupBegin \/ CleanupEnd PROVE Calm
  BY <1>3 DEF WArchive, WArchiveFail, WRelease, CleanupBegin, CleanupEnd, Calm, LoopInv
<1>4. ASSUME \/ DownloadClose \/ PurgeFail \/ RecoverRepair \/ RecoverSetAside
             \/ RecoverReplace \/ UNCHANGED vars
      PROVE  Calm
  BY <1>4 DEF DownloadClose, PurgeFail, RecoverRepair, RecoverSetAside, RecoverReplace, Calm
<1>5. ASSUME NEW id \in Ids, CleanupFail(id) \/ CleanupResult(id) \/ DownloadOpen(id)
                               \/ RecoverResume(id) \/ Damage(id)
      PROVE  Calm
  BY <1>5 DEF CleanupFail, CleanupResult, DownloadOpen, RecoverResume, Damage, Calm
<1>6. ASSUME WPrepare \/ WCommit \/ WPublish PROVE Touch
  <2>1. wpc \in Holding
    BY <1>6 DEF WPrepare, WCommit, WPublish, Holding
  <2> QED
    BY <1>6, <2>1, <1>cur DEF WPrepare, WCommit, WPublish, Publish, PublishFail, LostWrite, Touch
<1>7. CASE WFrameFail
  <2>1. wpc \in Holding
    BY <1>7 DEF WFrameFail, Holding
  <2> QED
    BY <1>7, <2>1, <1>cur DEF WFrameFail, PublishFail, LostWrite, Touch
<1>8. CASE WEndWindow
  <2>1. wpc \in Holding /\ loc.errs \in BOOLEAN
    BY <1>8, <1>cur DEF WEndWindow, Holding, Task
  <2>2. PICK e \in {loc.errs, TRUE} : loc' = Packaging(loc, e)
    BY <1>8 DEF WEndWindow
  <2>3. e \in BOOLEAN
    BY <2>1, <2>2
  <2>4. Keeps(loc, loc')
    BY <2>1, <2>2, <2>3, <1>cur, TaskEdits
  <2>5. loc' \in Task /\ Keeps(tasks[cur], loc')
    BY <2>1, <2>4, <1>cur DEF Keeps
  <2> QED
    BY <1>8, <2>1, <2>5, <1>cur DEF WEndWindow, Publish, PublishFail, LostWrite, Touch
<1>9. CASE WRetract
  <2>1. cur \in Ids /\ Known(cur) /\ tasks[cur] \in Task
    BY <1>9, <1>cur DEF WRetract, Holding
  <2>2. Withdrawn(tasks[cur]) \in Task /\ Keeps(tasks[cur], Withdrawn(tasks[cur]))
    BY <2>1, TaskEdits DEF Keeps
  <2> QED
    BY <1>9, <2>1, <2>2 DEF WRetract, Touch
<1>10. CASE DownloadCorrupt
  <2>1. dl.id \in Ids /\ Known(dl.id) /\ tasks[dl.id] \in Task
    BY <1>10 DEF DownloadCorrupt, DownloadInv
  <2>2. Withdrawn(tasks[dl.id]) \in Task /\ Keeps(tasks[dl.id], Withdrawn(tasks[dl.id]))
    BY <2>1, TaskEdits DEF Keeps
  <2>3. /\ tasks' = [tasks EXCEPT ![dl.id] = Withdrawn(tasks[dl.id])]
        /\ rec' \in {rec, [rec EXCEPT ![dl.id] = Withdrawn(tasks[dl.id])]}
    BY <1>10 DEF DownloadCorrupt, LostWrite
  <2>4. UNCHANGED <<now, up, requests, issued, removed, degraded>>
    BY <1>10 DEF DownloadCorrupt
  <2> QED
    BY <2>1, <2>2, <2>3, <2>4 DEF Touch
<1>11. ASSUME NEW id \in Ids, RecoverInterrupt(id) PROVE Touch
  <2>1. Known(id) /\ tasks[id] \in Task
    BY <1>11 DEF RecoverInterrupt, Visiting, LoopInv
  <2>2. Interrupted(tasks[id]) \in Task /\ Keeps(tasks[id], Interrupted(tasks[id]))
    BY <2>1, TaskEdits DEF Keeps
  <2> QED
    BY <1>11, <2>1, <2>2 DEF RecoverInterrupt, LostWrite, Touch
<1>12. ASSUME NEW id \in Ids, RecoverVerify(id) PROVE Touch
  <2>1. Known(id) /\ tasks[id] \in Task
    BY <1>12 DEF RecoverVerify, Visiting, LoopInv
  <2>2. Withdrawn(tasks[id]) \in Task /\ Keeps(tasks[id], Withdrawn(tasks[id]))
    BY <2>1, TaskEdits DEF Keeps
  <2> QED
    BY <1>12, <2>1, <2>2 DEF RecoverVerify, LostWrite, Touch
<1>13. CASE RecoverStore
  <2>1. wpc \in Holding
    BY <1>13 DEF RecoverStore, Holding
  <2> QED
    BY <1>13, <2>1, <1>cur DEF RecoverStore, Touch
<1>14. ASSUME NEW id \in Ids, CleanupFile(id) PROVE Shed
  BY <1>14 DEF CleanupFile, DropFile, Expiring, Shed, LoopInv
<1>15. CASE PurgeFile
  BY <1>15 DEF PurgeFile, DropFile, Shed, DownloadInv
<1> QED
  BY <1>1, <1>2, <1>3, <1>4, <1>5, <1>6, <1>7, <1>8, <1>9, <1>10, <1>11, <1>12, <1>13, <1>14, <1>15
     DEF Next, Submit, SubmitGo, Run, Cleanup, Download, Release, Recover
-----------------------------------------------------------------------------
(* The request index.                                                      *)

\* The index stays right: a task enters it when it is accepted, leaves it when it
\* is forgotten, and a restart rebuilds it or stops admission.
LEMMA IndexStep ==
    ASSUME IInv, [Next]_vars
    PROVE  IndexSound' /\ RequestIndex'
<1> USE ConstAssumption DEF IInv, TypeOK, IndexSound, RequestIndex
<1>1. ASSUME Calm \/ Shed \/ SubmitFail \/ PurgeDir PROVE IndexSound' /\ RequestIndex'
  BY <1>1 DEF Calm, Shed, SubmitFail, PurgeDir, TaskExpired
<1>2. CASE Touch
  <2>1. PICK i \in Ids, u \in Task :
          /\ Known(i) /\ Keeps(tasks[i], u)
          /\ tasks' \in {tasks, [tasks EXCEPT ![i] = u]}
    BY <1>2 DEF Touch
  <2>2. UNCHANGED <<now, requests>> /\ (degraded => degraded')
    BY <1>2 DEF Touch
  <2>3. \A j \in Ids : tasks'[j] # NoTask => tasks[j] # NoTask /\ tasks'[j].req = tasks[j].req
    BY <2>1 DEF Keeps, Known
  <2>4. \A j \in Ids : tasks[j] # NoTask => tasks'[j] # NoTask
    BY <2>1
  <2>5. \A j \in Ids : tasks[j] # NoTask /\ TaskExpired(tasks[j]) => TaskExpired(tasks[j])'
    BY <2>1, <2>2 DEF Keeps, Known, TaskExpired
  <2> QED
    BY <2>2, <2>3, <2>4, <2>5
<1>3. CASE SubmitAccept
  <2>1. sub.id \in Ids /\ sub.req \in Reqs /\ ~Known(sub.id) /\ Unclaimed(sub.req)
    BY <1>3 DEF SubmitAccept, SubmitInv
  <2>2. /\ tasks' = [tasks EXCEPT ![sub.id] = NewTask(sub.req)]
        /\ requests' = [requests EXCEPT ![sub.req] = sub.id]
        /\ UNCHANGED <<now, degraded>>
    BY <1>3 DEF SubmitAccept
  <2>3. tasks'[sub.id] # NoTask /\ tasks'[sub.id].req = sub.req
    BY <2>1, <2>2, NewTaskType
  <2>4. \A j \in Ids \ {sub.id} : tasks'[j] = tasks[j]
    BY <2>1, <2>2
  <2>5. IndexSound'
    BY <2>1, <2>2, <2>3, <2>4 DEF Known
  <2>6. ASSUME ~degraded, NEW j \in Ids \ {sub.id}, tasks[j] # NoTask, ~TaskExpired(tasks[j])
        PROVE  tasks[j].req # sub.req
    BY <2>1, <2>6 DEF Unclaimed
  <2>7. RequestIndex'
    BY <2>1, <2>2, <2>3, <2>4, <2>6 DEF TaskExpired
  <2> QED
    BY <2>5, <2>7
<1>4. ASSUME NEW id \in Ids, CleanupTask(id) PROVE IndexSound' /\ RequestIndex'
  <2>1. /\ tasks' = [tasks EXCEPT ![id] = NoTask]
        /\ requests' = [r \in Reqs |-> IF requests[r] = id THEN NoId ELSE requests[r]]
        /\ UNCHANGED <<now, degraded>>
    BY <1>4 DEF CleanupTask, Forget
  <2> QED
    BY <2>1 DEF TaskExpired, Task
<1>5. CASE RecoverLoad
  <2>1. PICK lost \in SUBSET Recorded :
          /\ tasks' = [i \in Ids |-> IF i \in lost THEN NoTask ELSE rec[i]]
          /\ requests' = [r \in Reqs |->
                            IF \E i \in Ids : Claims(r) \ lost = {i}
                            THEN CHOOSE i \in Ids : Claims(r) \ lost = {i} ELSE NoId]
          /\ degraded' = Suspect(lost)
    BY <1>5 DEF RecoverLoad
  <2>2. UNCHANGED now
    BY <1>5 DEF RecoverLoad
  <2>3. \A r \in Reqs : requests'[r] # NoId =>
          requests'[r] \in Ids /\ Claims(r) \ lost = {requests'[r]}
    BY <2>1
  <2>4. \A r \in Reqs, i \in Ids : i \in Claims(r) \ lost =>
          tasks'[i] # NoTask /\ tasks'[i].req = r
    BY <2>1 DEF Claims, Recorded
  <2>5. IndexSound'
    BY <2>3, <2>4
  <2>6. ASSUME ~degraded', NEW i \in Ids, tasks'[i] # NoTask, ~TaskExpired(tasks[i])'
        PROVE  requests'[tasks'[i].req] = i
    <3>1. i \notin lost /\ tasks'[i] = rec[i] /\ rec[i] \in Task
      BY <2>1, <2>6
    <3>2. rec[i].req \in Reqs /\ i \in Claims(rec[i].req) \ lost
      BY <3>1, <2>2, <2>6 DEF Claims, Recorded, TaskExpired, Task
    <3>3. \A j \in Claims(rec[i].req) \ lost : j = i
      BY <3>2, <2>1, <2>6 DEF Suspect
    <3>4. Claims(rec[i].req) \ lost = {i}
      BY <3>2, <3>3
    <3>5. \E k \in Ids : Claims(rec[i].req) \ lost = {k}
      BY <3>4
    <3>6. requests'[rec[i].req] \in Ids /\ Claims(rec[i].req) \ lost = {requests'[rec[i].req]}
      BY <2>1, <3>2, <3>5
    <3> QED
      BY <3>1, <3>4, <3>6
  <2> QED
    BY <2>5, <2>6
<1>6. CASE Crash
  BY <1>6 DEF Crash
<1>7. CASE Tick
  <2>1. now' = now + 1 /\ UNCHANGED <<tasks, requests, degraded>>
    BY <1>7 DEF Tick
  <2>2. \A i \in Ids : tasks[i] # NoTask /\ TaskExpired(tasks[i]) => TaskExpired(tasks[i])'
    BY <2>1 DEF TaskExpired, Task, NoTime
  <2> QED
    BY <2>1, <2>2
<1> QED
  BY StepKinds, <1>1, <1>2, <1>3, <1>4, <1>5, <1>6, <1>7

-----------------------------------------------------------------------------
(* Memory and disk.                                                        *)

\* Memory is never ahead of the disk, nor the disk of an agent that admits tasks.
LEMMA DiskStep ==
    ASSUME IInv, [Next]_vars
    PROVE  BackedByDisk' /\ RecordInv' /\ IssuedInv'
<1> USE ConstAssumption DEF IInv, TypeOK, BackedByDisk, RecordInv, IssuedInv, Known
<1>1. CASE Calm
  BY <1>1 DEF Calm, TaskExpired
<1>2. CASE Shed
  BY <1>2 DEF Shed, TaskExpired, DownloadInv
<1>3. CASE Touch
  <2>1. PICK i \in Ids, u \in Task :
          /\ Known(i) /\ Keeps(tasks[i], u)
          /\ tasks' \in {tasks, [tasks EXCEPT ![i] = u]}
          /\ rec' \in {rec, [rec EXCEPT ![i] = u]}
    BY <1>3 DEF Touch
  <2>2. UNCHANGED <<now, up, requests, issued, removed>> /\ (degraded => degraded')
    BY <1>3 DEF Touch
  <2>3. \A j \in Ids : tasks[j] # NoTask /\ TaskExpired(tasks[j]) => TaskExpired(tasks[j])'
    BY <2>1, <2>2 DEF Keeps, TaskExpired
  <2>4. BackedByDisk'
    BY <2>1, <2>2, <2>3 DEF Keeps
  <2>5. RecordInv' /\ IssuedInv'
    BY <2>1, <2>2
  <2> QED
    BY <2>4, <2>5
<1>4. CASE SubmitAccept
  <2>1. sub.id \in Ids /\ sub.req \in Reqs /\ sub.id \in issued
    BY <1>4 DEF SubmitAccept, SubmitInv
  <2>2. /\ tasks' = [tasks EXCEPT ![sub.id] = NewTask(sub.req)]
        /\ rec' = [rec EXCEPT ![sub.id] = NewTask(sub.req)]
        /\ UNCHANGED <<now, up, degraded, issued, removed>>
    BY <1>4 DEF SubmitAccept
  <2> QED
    BY <2>1, <2>2, NewTaskType DEF TaskExpired
<1>5. CASE SubmitFail
  <2>1. sub.id \in Ids /\ sub.id \in issued /\ ~Known(sub.id)
    BY <1>5 DEF SubmitFail, SubmitInv
  <2>2. /\ rec' \in {rec, [rec EXCEPT ![sub.id] = NewTask(sub.req)]}
        /\ UNCHANGED <<now, up, tasks, issued, removed>> /\ degraded'
    BY <1>5 DEF SubmitFail
  <2> QED
    BY <2>1, <2>2 DEF TaskExpired
<1>6. CASE PurgeDir
  BY <1>6 DEF PurgeDir, Empty, TaskExpired
<1>7. ASSUME NEW id \in Ids, CleanupTask(id) PROVE BackedByDisk' /\ RecordInv' /\ IssuedInv'
  <2>1. /\ tasks' = [tasks EXCEPT ![id] = NoTask]
        /\ UNCHANGED <<now, up, degraded, rec, issued>>
        /\ \/ rec[id] = NoTask /\ removed' = removed
           \/ removed' = removed \cup {id}
    BY <1>7 DEF CleanupTask, Forget, Empty
  <2>2. Known(id)
    BY <1>7 DEF CleanupTask, Expiring, LoopInv
  <2> QED
    BY <2>1, <2>2 DEF TaskExpired
<1>8. CASE RecoverLoad
  <2>1. PICK lost \in SUBSET Recorded :
          /\ tasks' = [i \in Ids |-> IF i \in lost THEN NoTask ELSE rec[i]]
          /\ degraded' = Suspect(lost)
    BY <1>8 DEF RecoverLoad
  <2>2. UNCHANGED <<now, rec, removed, issued>>
    BY <1>8 DEF RecoverLoad
  <2>3. ~degraded' => lost = {}
    BY <2>1 DEF Suspect
  <2> QED
    BY <2>1, <2>2, <2>3
<1>9. CASE Crash
  BY <1>9 DEF Crash
<1>10. CASE Tick
  <2>1. now' = now + 1 /\ UNCHANGED <<tasks, rec, up, degraded, issued, removed>>
    BY <1>10 DEF Tick
  <2>2. \A i \in Ids : tasks[i] # NoTask /\ TaskExpired(tasks[i]) => TaskExpired(tasks[i])'
    BY <2>1 DEF TaskExpired, Task, NoTime
  <2> QED
    BY <2>1, <2>2
<1> QED
  BY StepKinds, <1>1, <1>2, <1>3, <1>4, <1>5, <1>6, <1>7, <1>8, <1>9, <1>10
-----------------------------------------------------------------------------
(* What the threads hold.                                                  *)

\* Nothing overtakes a Submit that holds a.mu.
LEMMA SubmitStep ==
    ASSUME IInv, [Next]_vars
    PROVE  SubmitInv'
<1> USE ConstAssumption DEF IInv, TypeOK, SubmitInv, Known, Unclaimed
<1>1. ASSUME NEW r \in Reqs, NEW id \in Ids, SubmitMkdir(r, id) PROVE SubmitInv'
  <2>1. ~Known(id) /\ id \notin removed /\ id \in issued'
    BY <1>1 DEF SubmitMkdir, IssuedInv
  <2> QED
    BY <1>1, <2>1 DEF SubmitMkdir, Admits, TaskExpired
<1>2. CASE SubmitWrite
  BY <1>2 DEF SubmitWrite, TaskExpired
<1>3. ASSUME SubmitAccept \/ SubmitFail \/ Crash \/ CleanupEnd \/ CleanupBegin PROVE SubmitInv'
  BY <1>3 DEF SubmitAccept, SubmitFail, Crash, CleanupEnd, CleanupBegin
\* A worker that holds a task and a Submit in progress exclude each other.
<1>4. mu = "submit" => wpc \notin Holding
  BY DEF WorkerInv
<1>5. ASSUME mu # "submit", UNCHANGED mu PROVE SubmitInv'
  BY <1>5
<1>6. ASSUME Run PROVE SubmitInv'
  BY <1>4, <1>5, <1>6 DEF Run, WTake, WPrepare, WPrepareFail, WAppend, WCommit, WFrameFail,
     WEndWindow, WFinish, WArchive, WArchiveFail, WPublish, WRetract, WRelease, Publish,
     PublishFail, Holding
<1>7. ASSUME NEW id \in Ids, CleanupFile(id) \/ CleanupTask(id) \/ CleanupFail(id)
                               \/ CleanupResult(id)
      PROVE  SubmitInv'
  BY <1>5, <1>7 DEF CleanupFile, CleanupTask, CleanupFail, CleanupResult, LoopInv
<1>8. ASSUME Download \/ Recover PROVE SubmitInv'
  BY <1>4, <1>5, <1>8 DEF Download, DownloadOpen, DownloadCorrupt, Recover, RecoverLoad,
     RecoverRepair, RecoverSetAside, RecoverReplace, RecoverStore, RecoverInterrupt, RecoverResume, RecoverVerify, Visiting,
     Holding, LoopInv
<1>9. ASSUME Release \/ (\E id \in Ids : Damage(id)) \/ UNCHANGED vars PROVE SubmitInv'
  BY <1>9 DEF Release, DownloadClose, PurgeFile, PurgeDir, PurgeFail, Damage, TaskExpired
<1>10. CASE Tick
  <2>1. now' = now + 1 /\ UNCHANGED <<up, sub, mu, tasks, requests, active, issued, removed>>
    BY <1>10 DEF Tick
  <2>2. \A i \in Ids : tasks[i] # NoTask /\ TaskExpired(tasks[i]) => TaskExpired(tasks[i])'
    BY <2>1 DEF TaskExpired, Task, NoTime
  <2> QED
    BY <2>1, <2>2 DEF IndexSound
<1> QED
  BY <1>1, <1>2, <1>3, <1>6, <1>7, <1>8, <1>9, <1>10 DEF Next, Submit, SubmitGo, Cleanup

\* The private copy stays a copy of the task the map knows.
LEMMA WorkerStep ==
    ASSUME IInv, [Next]_vars
    PROVE  WorkerInv'
<1> USE ConstAssumption DEF IInv, TypeOK, WorkerInv, Known
<1> DEFINE Held == wpc \in Holding /\ cur \in Ids /\ loc \in Task /\ Keeps(tasks[cur], loc)
<1>cur. wpc \in Holding => Held
  BY DEF Keeps
<1>1. ASSUME Submit \/ SubmitWrite \/ SubmitFail PROVE WorkerInv'
  BY <1>1 DEF Submit, SubmitMkdir, SubmitWrite, SubmitFail
<1>2. CASE SubmitAccept
  <2>1. sub.id \in Ids /\ sub.req \in Reqs /\ up = "up" /\ active = NoId
    BY <1>2 DEF SubmitAccept, SubmitInv
  <2>2. wpc \notin Holding
    BY <2>1
  <2> QED
    BY <1>2, <2>1, <2>2, NewTaskType DEF SubmitAccept
<1>3. CASE WTake
  BY <1>3 DEF WTake, Holding
<1>4. ASSUME WPrepare \/ WCommit \/ WPublish PROVE WorkerInv'
  BY <1>4, <1>cur DEF WPrepare, WCommit, WPublish, Publish, PublishFail, Holding
<1>5. ASSUME WPrepareFail \/ WFinish \/ WArchive \/ WArchiveFail PROVE WorkerInv'
  <2>1. Held
    BY <1>5, <1>cur DEF WPrepareFail, WFinish, WArchive, WArchiveFail, Holding
  <2>2. Keeps(loc, loc')
    BY <1>5, <2>1, TaskEdits DEF WPrepareFail, WFinish, WArchive, WArchiveFail
  <2> QED
    BY <1>5, <2>1, <2>2 DEF WPrepareFail, WFinish, WArchive, WArchiveFail, Holding, Keeps
<1>6. CASE WAppend
  <2>1. Held /\ loc.src + 1 \in Nat
    BY <1>6, <1>cur DEF WAppend, Holding, Task
  <2>2. Keeps(loc, loc')
    BY <1>6, <2>1, TaskEdits DEF WAppend
  <2> QED
    BY <1>6, <2>1, <2>2 DEF WAppend, Holding, Keeps
<1>7. CASE WFrameFail
  <2>1. Held
    BY <1>7, <1>cur DEF WFrameFail, Holding
  <2>2. Keeps(loc, loc')
    BY <1>7, <2>1, TaskEdits DEF WFrameFail
  <2>3. tasks' \in {tasks, [tasks EXCEPT ![cur] = loc]}
    BY <1>7 DEF WFrameFail, PublishFail
  <2> QED
    BY <1>7, <2>1, <2>2, <2>3 DEF WFrameFail, Holding, Keeps
<1>8. CASE WEndWindow
  <2>1. Held /\ loc.errs \in BOOLEAN
    BY <1>8, <1>cur DEF WEndWindow, Holding, Task
  <2>2. PICK e \in {loc.errs, TRUE} : loc' = Packaging(loc, e)
    BY <1>8 DEF WEndWindow
  <2>3. e \in BOOLEAN
    BY <2>1, <2>2
  <2>4. Keeps(loc, loc')
    BY <2>1, <2>2, <2>3, TaskEdits
  <2>5. tasks' = [tasks EXCEPT ![cur] = loc']
    BY <1>8 DEF WEndWindow, Publish, PublishFail
  <2> QED
    BY <1>8, <2>1, <2>4, <2>5 DEF WEndWindow, Holding, Keeps
<1>9. CASE WRetract
  <2>1. Held /\ tasks[cur] \in Task
    BY <1>9, <1>cur DEF WRetract, Holding
  <2>2. Keeps(tasks[cur], Withdrawn(tasks[cur]))
    BY <2>1, TaskEdits
  <2>3. tasks[cur].ended = NoTime => Withdrawn(tasks[cur]).ended = NoTime
    BY <2>1 DEF Withdrawn, Task
  <2> QED
    BY <1>9, <2>1, <2>2, <2>3 DEF WRetract, Holding, Keeps
<1>10. ASSUME WRelease \/ Crash PROVE WorkerInv'
  BY <1>10 DEF WRelease, Crash, Holding
<1>11. ASSUME CleanupBegin \/ CleanupEnd PROVE WorkerInv'
  BY <1>11 DEF CleanupBegin, CleanupEnd, Holding, LoopInv
<1>12. ASSUME NEW id \in Ids, CleanupFile(id) \/ CleanupFail(id) \/ CleanupResult(id)
                                \/ DownloadOpen(id) \/ Damage(id)
       PROVE  WorkerInv'
  BY <1>12 DEF CleanupFile, CleanupFail, CleanupResult, DownloadOpen, Damage
<1>13. ASSUME NEW id \in Ids, CleanupTask(id) PROVE WorkerInv'
  BY <1>13 DEF CleanupTask, Expiring, TaskExpired, Forget, Holding
<1>14. CASE DownloadCorrupt
  <2>1. dl.id \in Ids /\ tasks[dl.id] \in Task
    BY <1>14 DEF DownloadCorrupt, DownloadInv
  <2>2. Keeps(tasks[dl.id], Withdrawn(tasks[dl.id]))
    BY <2>1, TaskEdits
  <2>3. Withdrawn(tasks[dl.id]).ended = tasks[dl.id].ended
    BY <2>1 DEF Withdrawn, Task
  <2>4. tasks' = [tasks EXCEPT ![dl.id] = Withdrawn(tasks[dl.id])]
    BY <1>14 DEF DownloadCorrupt
  <2>5. UNCHANGED <<wpc, cur, loc, up, active, job>>
    BY <1>14 DEF DownloadCorrupt
  <2> QED
    BY <2>1, <2>2, <2>3, <2>4, <2>5 DEF Keeps
<1>15. ASSUME Release \/ Tick \/ UNCHANGED vars PROVE WorkerInv'
  BY <1>15 DEF Release, DownloadClose, PurgeFile, PurgeDir, PurgeFail, Tick
<1>16. CASE RecoverLoad
  BY <1>16 DEF RecoverLoad, LoopInv, Holding
<1>17. CASE RecoverRepair
  <2>1. Held /\ samples[cur] \in Nat \cup {NoFile}
    BY <1>17, <1>cur DEF RecoverRepair, Holding
  <2>3. loc' \in {Flagged(loc), Recounted(loc, samples[cur]),
                 Flagged(Recounted(loc, samples[cur]))}
    BY <1>17, RepairOutcomes DEF RepairOutcome
  <2>4. /\ Keeps(loc, Flagged(loc)) /\ Keeps(loc, Recounted(loc, samples[cur]))
        /\ Keeps(loc, Flagged(Recounted(loc, samples[cur])))
    BY <2>1, TaskEdits, RecountKeeps
  <2>2. Keeps(loc, loc')
    BY <2>3, <2>4
  <2> QED
    BY <1>17, <2>1, <2>2 DEF RecoverRepair, Holding, Keeps
<1>25. CASE RecoverSetAside
  <2>1. Held /\ samples[cur] \in Nat
    BY <1>25, <1>cur DEF RecoverSetAside, Holding, NoFile
  <2>2. Keeps(loc, loc')
    BY <1>25, <2>1, RecountKeeps DEF RecoverSetAside
  <2> QED
    BY <1>25, <2>1, <2>2 DEF RecoverSetAside, Holding, Keeps
<1>26. CASE RecoverReplace
  <2>1. Held
    BY <1>26, <1>cur DEF RecoverReplace, Holding
  <2>2. loc' = loc \/ loc' = Flagged(loc)
    BY <1>26 DEF RecoverReplace
  <2>3. Keeps(loc, loc')
    BY <2>1, <2>2, TaskEdits DEF Keeps
  <2>4. UNCHANGED <<tasks, up, active, job, cur>> /\ wpc' = "finish"
    BY <1>26 DEF RecoverReplace
  <2> QED
    BY <2>1, <2>3, <2>4 DEF Holding, Keeps
<1>18. CASE RecoverStore
  BY <1>18 DEF RecoverStore, Holding, LoopInv
<1>19. ASSUME NEW id \in Ids, RecoverInterrupt(id) PROVE WorkerInv'
  <2>1. tasks[id] \in Task /\ job = NoId /\ up = "recovering"
    BY <1>19 DEF RecoverInterrupt, Visiting, LoopInv
  <2>2. Keeps(tasks[id], Interrupted(tasks[id]))
    BY <2>1, TaskEdits
  <2> QED
    BY <1>19, <2>1, <2>2 DEF RecoverInterrupt, Visiting, Holding, Keeps
<1>20. ASSUME NEW id \in Ids, RecoverResume(id) PROVE WorkerInv'
  BY <1>20 DEF RecoverResume, Visiting, Holding, LoopInv
<1>21. ASSUME NEW id \in Ids, RecoverVerify(id) PROVE WorkerInv'
  BY <1>21 DEF RecoverVerify, Visiting, Holding, LoopInv
<1> QED
  BY <1>1, <1>2, <1>3, <1>4, <1>5, <1>6, <1>7, <1>8, <1>9, <1>10, <1>11, <1>12, <1>13, <1>14,
     <1>15, <1>16, <1>17, <1>18, <1>19, <1>20, <1>21, <1>25, <1>26
     DEF Next, SubmitGo, Run, Cleanup, Download, Recover

\* The loops of recover and cleanup visit known tasks only.
LEMMA LoopStep ==
    ASSUME IInv, [Next]_vars
    PROVE  LoopInv'
<1> USE ConstAssumption DEF IInv, TypeOK, LoopInv, Known
<1>1. ASSUME Submit \/ SubmitWrite \/ SubmitFail PROVE LoopInv'
  BY <1>1 DEF Submit, SubmitMkdir, Admits, SubmitWrite, SubmitFail, SubmitInv
<1>2. CASE SubmitAccept
  BY <1>2 DEF SubmitAccept, SubmitInv
<1>3. ASSUME wpc \in Holding, UNCHANGED <<mu, up, removed, dl, active, job, todo>>,
             wpc' \notin {"cleanup", "recover"},
             \A i \in Ids : tasks[i] # NoTask => tasks'[i] # NoTask
      PROVE  LoopInv'
  BY <1>3 DEF WorkerInv, Holding
<1>4. CASE WTake
  BY <1>4 DEF WTake
<1>5. ASSUME WPrepare \/ WCommit \/ WPublish \/ WFrameFail PROVE LoopInv'
  <2>1. wpc \in Holding /\ loc \in Task /\ cur \in Ids
    BY <1>5 DEF WPrepare, WCommit, WPublish, WFrameFail, Holding, WorkerInv
  <2>2. tasks' \in {tasks, [tasks EXCEPT ![cur] = loc]}
    BY <1>5 DEF WPrepare, WCommit, WPublish, WFrameFail, Publish, PublishFail
  <2>3. \A i \in Ids : tasks[i] # NoTask => tasks'[i] # NoTask
    BY <2>1, <2>2
  <2> QED
    BY <1>5, <2>1, <2>3, <1>3 DEF WPrepare, WCommit, WPublish, WFrameFail
<1>6. ASSUME WPrepareFail \/ WAppend \/ WFinish \/ WArchive \/ WArchiveFail \/ RecoverRepair
                \/ RecoverSetAside \/ RecoverReplace
      PROVE  LoopInv'
  BY <1>3, <1>6 DEF WPrepareFail, WAppend, WFinish, WArchive, WArchiveFail, RecoverRepair,
     RecoverSetAside, RecoverReplace, Holding
<1>7. CASE WEndWindow
  <2>1. wpc \in Holding
    BY <1>7 DEF WEndWindow, Holding
  <2>2. cur \in Ids /\ loc' \in Task
    BY <1>7, <2>1, TypeStep DEF WEndWindow, WorkerInv, Packaging, Task, Phases
  <2>3. tasks' = [tasks EXCEPT ![cur] = loc']
    BY <1>7 DEF WEndWindow, Publish, PublishFail
  <2>4. \A i \in Ids : tasks[i] # NoTask => tasks'[i] # NoTask
    BY <2>2, <2>3
  <2> QED
    BY <1>7, <2>1, <2>4, <1>3 DEF WEndWindow
<1>8. CASE WRetract
  <2>1. wpc \in Holding /\ cur \in Ids /\ tasks[cur] \in Task
    BY <1>8 DEF WRetract, Holding, WorkerInv
  <2>2. Withdrawn(tasks[cur]) \in Task
    BY <2>1, TaskEdits DEF Keeps
  <2>3. \A i \in Ids : tasks[i] # NoTask => tasks'[i] # NoTask
    BY <1>8, <2>1, <2>2 DEF WRetract
  <2> QED
    BY <1>8, <2>1, <2>3, <1>3 DEF WRetract
<1>9. ASSUME WRelease \/ Crash PROVE LoopInv'
  BY <1>9 DEF WRelease, Crash
<1>10. ASSUME CleanupBegin \/ CleanupEnd PROVE LoopInv'
  BY <1>10 DEF CleanupBegin, CleanupEnd, Stale
<1>11. ASSUME NEW id \in Ids, CleanupFile(id) \/ CleanupFail(id) \/ CleanupResult(id)
                                \/ DownloadOpen(id) \/ Damage(id)
       PROVE  LoopInv'
  BY <1>11 DEF CleanupFile, CleanupFail, CleanupResult, DownloadOpen, Damage
<1>12. ASSUME NEW id \in Ids, CleanupTask(id) PROVE LoopInv'
  BY <1>12 DEF CleanupTask, Forget, NoDownload
<1>13. CASE DownloadCorrupt
  <2>1. dl.id \in Ids /\ tasks[dl.id] \in Task /\ dl # NoDownload
    BY <1>13 DEF DownloadCorrupt, DownloadInv, NoDownload
  <2>2. Withdrawn(tasks[dl.id]) \in Task
    BY <2>1, TaskEdits DEF Keeps
  <2>3. tasks' = [tasks EXCEPT ![dl.id] = Withdrawn(tasks[dl.id])]
    BY <1>13 DEF DownloadCorrupt
  <2>4. \A i \in Ids : tasks[i] # NoTask => tasks'[i] # NoTask
    BY <2>1, <2>2, <2>3
  <2> QED
    BY <1>13, <2>1, <2>4 DEF DownloadCorrupt
<1>14. ASSUME Release PROVE LoopInv'
  <2>1. dl # NoDownload
    BY <1>14 DEF Release, DownloadClose, PurgeFile, PurgeDir, PurgeFail, NoDownload
  <2> QED
    BY <1>14, <2>1 DEF Release, DownloadClose, PurgeFile, PurgeDir, PurgeFail
<1>15. ASSUME Tick \/ UNCHANGED vars PROVE LoopInv'
  BY <1>15 DEF Tick
<1>16. CASE RecoverLoad
  <2>1. \A i \in todo' : tasks'[i] # NoTask
    BY <1>16 DEF RecoverLoad, Recorded
  <2> QED
    BY <1>16, <2>1 DEF RecoverLoad
<1>17. CASE RecoverStore
  BY <1>17 DEF RecoverStore, WorkerInv, Holding
<1>18. ASSUME NEW id \in Ids, RecoverInterrupt(id) \/ RecoverVerify(id) PROVE LoopInv'
  <2>1. tasks[id] \in Task
    BY <1>18 DEF RecoverInterrupt, RecoverVerify, Visiting
  <2>2. Interrupted(tasks[id]) \in Task /\ Withdrawn(tasks[id]) \in Task
    BY <2>1, TaskEdits DEF Keeps
  <2>3. \A i \in Ids : tasks[i] # NoTask => tasks'[i] # NoTask
    BY <1>18, <2>2 DEF RecoverInterrupt, RecoverVerify
  <2> QED
    BY <1>18, <2>3 DEF RecoverInterrupt, RecoverVerify, Visiting
<1>19. ASSUME NEW id \in Ids, RecoverResume(id) PROVE LoopInv'
  BY <1>19 DEF RecoverResume, Visiting
<1> QED
  BY <1>1, <1>2, <1>4, <1>5, <1>6, <1>7, <1>8, <1>9, <1>10, <1>11, <1>12, <1>13, <1>14,
     <1>15, <1>16, <1>17, <1>18, <1>19
     DEF Next, SubmitGo, Run, Cleanup, Download, Recover

\* A directory that only waits for its download has no task in memory.
LEMMA DownloadStep ==
    ASSUME IInv, [Next]_vars
    PROVE  DownloadInv'
<1> USE ConstAssumption DEF IInv, TypeOK, DownloadInv, Known
<1>1. CASE Touch /\ UNCHANGED dl
  BY <1>1 DEF Touch
<1>2. CASE (Calm \/ Shed) /\ UNCHANGED dl
  BY <1>2 DEF Calm, Shed
<1>3. CASE SubmitAccept
  BY <1>3 DEF SubmitAccept, SubmitInv
<1>4. ASSUME SubmitFail \/ Crash \/ Tick PROVE DownloadInv'
  BY <1>4 DEF SubmitFail, Crash, NoDownload, Tick
<1>5. ASSUME DownloadClose \/ PurgeDir \/ PurgeFail PROVE DownloadInv'
  BY <1>5 DEF DownloadClose, PurgeDir, PurgeFail, NoDownload
<1>6. CASE RecoverLoad
  BY <1>6 DEF RecoverLoad, LoopInv
<1>7. ASSUME NEW id \in Ids, CleanupTask(id) PROVE DownloadInv'
  BY <1>7 DEF CleanupTask, Forget
<1>8. ASSUME NEW id \in Ids, DownloadOpen(id) PROVE DownloadInv'
  BY <1>8 DEF DownloadOpen
<1>9. ASSUME Submit \/ SubmitWrite \/ Run \/ Recover \/ DownloadCorrupt \/ PurgeFile
               \/ UNCHANGED vars
               \/ (\E id \in Ids : Damage(id)) \/ CleanupBegin \/ CleanupEnd
               \/ (\E id \in Ids : CleanupFile(id) \/ CleanupFail(id) \/ CleanupResult(id))
      PROVE  UNCHANGED dl
  <2>1. ASSUME Run PROVE UNCHANGED dl
    BY <2>1 DEF Run, WTake, WPrepare, WPrepareFail, WAppend, WCommit, WFrameFail,
       WEndWindow, WFinish, WArchive, WArchiveFail, WPublish, WRetract, WRelease
  <2>2. ASSUME Recover PROVE UNCHANGED dl
    BY <2>2 DEF Recover, RecoverLoad, RecoverRepair, RecoverSetAside, RecoverReplace, RecoverStore,
     RecoverInterrupt,
       RecoverResume, RecoverVerify
  <2> QED
    BY <1>9, <2>1, <2>2 DEF Submit, SubmitMkdir, SubmitWrite, DownloadCorrupt, PurgeFile,
       Damage, CleanupBegin, CleanupEnd, CleanupFile, CleanupFail, CleanupResult
<1> QED
  BY StepKinds, <1>1, <1>2, <1>3, <1>4, <1>5, <1>6, <1>7, <1>8, <1>9
     DEF Next, SubmitGo, Cleanup, Download, Release

-----------------------------------------------------------------------------
(* The theorems.                                                           *)

\* The invariant holds when the agent starts on an empty data directory.
LEMMA InitInv == Init => IInv
<1> SUFFICES ASSUME Init PROVE IInv
  OBVIOUS
<1> USE ConstAssumption DEF Init, Known
<1>1. TypeOK
  BY NewTaskType DEF TypeOK, NoDownload, NoFile
<1>2. SubmitInv /\ WorkerInv /\ LoopInv /\ DownloadInv /\ IssuedInv
  BY DEF SubmitInv, WorkerInv, Holding, LoopInv, DownloadInv, IssuedInv, NoDownload
<1>3. IndexSound /\ RequestIndex /\ BackedByDisk /\ RecordInv
  BY DEF IndexSound, RequestIndex, BackedByDisk, RecordInv
<1> QED
  BY <1>1, <1>2, <1>3 DEF IInv

\* What the agent's threads hold and what memory and disk say of each other is
\* consistent in every reachable state, for any number of tasks, faults and
\* crashes.
THEOREM InductiveInvariant == Spec => []IInv
<1>1. IInv /\ [Next]_vars => IInv'
  BY TypeStep, SubmitStep, WorkerStep, LoopStep, DownloadStep, DiskStep, IndexStep DEF IInv
<1> QED
  BY InitInv, <1>1, PTL DEF Spec

\* Every variable keeps its type.
THEOREM TypeCorrect == Spec => []TypeOK
<1>1. IInv => TypeOK
  BY DEF IInv
<1> QED
  BY InductiveInvariant, <1>1, PTL

\* Submit is idempotent: while the agent admits tasks, the request id of a
\* valid task leads to that task, and no request id leads to another's.
THEOREM SubmitIdempotent == Spec => [](RequestIndex /\ IndexSound)
<1>1. IInv => RequestIndex /\ IndexSound
  BY DEF IInv
<1> QED
  BY InductiveInvariant, <1>1, PTL

\* An accepted task has its record on disk until its retention has passed, so
\* a crash at any moment leaves it to the next start.
THEOREM AcceptedIsDurable == Spec => []BackedByDisk
<1>1. IInv => BackedByDisk
  BY DEF IInv
<1> QED
  BY InductiveInvariant, <1>1, PTL

\* An agent that admits tasks has taken every record on its disk into account.
THEOREM DiskIsKnown == Spec => []NoForgottenRecord
<1>1. IInv => NoForgottenRecord
  BY DEF IInv, RecordInv, NoForgottenRecord, Known
<1> QED
  BY InductiveInvariant, <1>1, PTL

\* A running agent forgets a task, and its record disappears, only after the
\* retention has passed: cleanup is the only handler that forgets.
THEOREM RetentionKept == Spec => RetentionHonoured
<1> DEFINE Kept(i) ==
      /\ tasks[i] # NoTask /\ tasks'[i] = NoTask /\ up' # "down" => TaskExpired(tasks[i])
      /\ rec[i] # NoTask /\ rec'[i] = NoTask
           => i \in removed \/ (tasks[i] # NoTask /\ TaskExpired(tasks[i]))
<1>1. ASSUME IInv, [Next]_vars PROVE [\A i \in Ids : Kept(i)]_vars
  <2> USE ConstAssumption, <1>1 DEF IInv, TypeOK, Known
  <2>1. CASE Touch
    BY <2>1 DEF Touch
  <2>2. ASSUME Calm \/ Shed PROVE \A i \in Ids : Kept(i)
    BY <2>2 DEF Calm, Shed
  <2>3. ASSUME SubmitAccept \/ SubmitFail PROVE \A i \in Ids : Kept(i)
    BY <2>3, NewTaskType DEF SubmitAccept, SubmitFail, SubmitInv
  <2>4. ASSUME PurgeDir \/ Tick \/ Crash PROVE \A i \in Ids : Kept(i)
    BY <2>4 DEF PurgeDir, Tick, Crash
  <2>5. CASE RecoverLoad
    BY <2>5 DEF RecoverLoad, LoopInv
  <2>6. ASSUME NEW id \in Ids, CleanupTask(id) PROVE \A i \in Ids : Kept(i)
    BY <2>6 DEF CleanupTask, Forget, Expiring
  <2> QED
    BY StepKinds, <2>1, <2>2, <2>3, <2>4, <2>5, <2>6
<1> QED
  BY InductiveInvariant, <1>1, PTL DEF Spec, RetentionHonoured

\* No request id leads to another request's task, or to one that is gone.
THEOREM IndexIsSound == Spec => []IndexSound
<1>1. IInv => IndexSound
  BY DEF IInv
<1> QED
  BY InductiveInvariant, <1>1, PTL
=============================================================================
