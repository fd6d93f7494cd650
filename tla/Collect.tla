------------------------------ MODULE Collect ------------------------------
(***************************************************************************)
(* Collection of evidence by the deitysight agent: the worker's loop       *)
(* (internal/agent/agent.go), one atop session at a time for a task or for *)
(* the background history (window_task.go, atop_window.go), the parser's   *)
(* records on their way to disk (scenarios.go, AtopStream) and the outcome *)
(* of the window (agent.go finish, archive.go coverage).                   *)
(*                                                                         *)
(* Task life cycle, archive publication and recovery are in Agent; here a  *)
(* task is the request being served, a crash forgets the session and only  *)
(* what is on disk remains.  Simplifications:                              *)
(*  - atop is external: it writes any lines, delivers at most the samples  *)
(*    it was asked for, may exit with any status after any line, or hang;  *)
(*    its exit is seen at the end of its output;                           *)
(*  - a line the parser rejects is not recorded in read;                   *)
(*  - a.mu is held for one step by Submit and by backgroundWindow's start; *)
(*  - background/ is the set of the kinds of files in it, and pruning by   *)
(*    age removes any of them; a .tmp left behind is read by nobody;       *)
(*  - of a write that fails there is nothing on disk, a part of the record *)
(*    ("torn") or all of it, with or without its newline ("stray");        *)
(*  - atop is available, the agent is not degraded, paused only feeds      *)
(*    /health.                                                             *)
(***************************************************************************)
EXTENDS AtopStream

CONSTANTS
    Requests,        \* what clients ask for: [w, s, scenes, threads]
    Background,      \* backgroundWindow's spec
    NoRequest,       \* no active task
    MinStep, MaxWindow, MaxPoints,   \* SamplingConfig
    Epochs,          \* bound: time stamps of rows
    MaxLines,        \* bound: lines of one session
    MaxRows          \* bound: rows of one frame

ASSUME CollectAssumption ==
    /\ Requests \subseteq [w: Nat, s: Nat, scenes: {NoScenes} \cup SUBSET STRING, threads: BOOLEAN]
    /\ Background \in [w: Nat, s: Nat, scenes: SUBSET AllScenes, threads: BOOLEAN]
    /\ NoRequest \notin Requests
    /\ MinStep \in Nat /\ MaxWindow \in Nat /\ MaxPoints \in Nat
    /\ Epochs \subseteq Nat \ {0} /\ MaxLines \in Nat /\ MaxRows \in Nat

VARIABLES
    pc,       \* control point of the worker
    active,   \* a.active: the request being served, or NoRequest
    due,      \* the cleanup ticker has fired
    kind,     \* whose session runs: "none" | "task" | "background"
    ctx,      \* the session's context: "live" | "cancelled" | "deadline"
    child,    \* atop: "none" | "running" | "ok" | "bad" (status # 0 or killed)
    par,      \* ParseAtopStream's locals
    read,     \* the lines it accepted so far, while it runs
    out,      \* records in samples.jsonl, or in the background .tmp
    err,      \* the error a call returned: "none", or its class
    task,     \* runWindow's t: counters, error codes, state; torn: its file
              \* ends inside a record; stray: or with a whole record whose
              \* Append failed, "ended" by a newline or "bare"; broken: some
              \* storage call failed
    history   \* kinds of background/*.jsonl: [whole, synced]

session == <<kind, ctx, child, par, read, out, err>>
vars    == <<pc, active, due, session, task, history>>

Lines == LinesOver({"PRG"} \cup UNION {SceneLabels[s] : s \in AllScenes}, Epochs)

\* The WindowSpec of the session that runs.
Now == IF kind = "task" THEN [active EXCEPT !.scenes = NormalizeScenes(@)] ELSE Background
Planned == Len(Schedule(Now.w, Now.s))

NewTask == [sampled |-> 0, src |-> 0, pend |-> 0, errs |-> {}, state |-> "running",
            torn |-> FALSE, stray |-> "none", broken |-> FALSE]

NoSession == /\ kind' = "none" /\ ctx' = "live" /\ child' = "none"
             /\ par' = ParserStart /\ read' = << >> /\ out' = << >> /\ err' = "none"

Init ==
    /\ pc = "poll" /\ active = NoRequest /\ due = FALSE
    /\ kind = "none" /\ ctx = "live" /\ child = "none" /\ par = ParserStart
    /\ read = << >> /\ out = << >> /\ err = "none"
    /\ task = NewTask /\ history = {}

-----------------------------------------------------------------------------
(* Submit, from an HTTP thread, and the two tickers' side of the loop.     *)

\* a.bgCancel() when it is set; the first cause of an ended context stays.
Preempt == IF kind = "background" /\ ctx = "live" THEN "cancelled" ELSE ctx

Submit(r) ==
    /\ active = NoRequest /\ ValidScenes(r.scenes)
    /\ ValidSampling(r.w, r.s, MinStep, MaxWindow, MaxPoints)
    /\ active' = r /\ ctx' = Preempt
    /\ UNCHANGED <<pc, due, kind, child, par, read, out, err, task, history>>

CleanupTick == ~due /\ due' = TRUE /\ UNCHANGED <<pc, active, session, task, history>>

\* worker: the receive from a.jobs, and runWindow's start.
Take ==
    /\ active # NoRequest
    /\ pc' = "prepare" /\ kind' = "task" /\ task' = NewTask
    /\ UNCHANGED <<active, due, ctx, child, par, read, out, err, history>>

\* pruneBackground: old files disappear.
Prune == \E h \in SUBSET history : history' = h

\* Mutant: a.active is not looked at.
BackgroundAlways ==
    /\ Prune /\ \/ pc' = "start" /\ kind' = "background"
                \/ pc' = "poll" /\ UNCHANGED kind
    /\ UNCHANGED <<active, due, ctx, child, par, read, out, err, task>>

\* backgroundWindow up to CollectWindow; refused while a task is active, and
\* left again when the store is full.
BackgroundTick ==
    /\ IF active # NoRequest
       THEN pc' = "poll" /\ UNCHANGED <<kind, history>>
       ELSE Prune /\ \/ pc' = "start" /\ kind' = "background"
                     \/ pc' = "poll" /\ UNCHANGED kind
    /\ UNCHANGED <<active, due, ctx, child, par, read, out, err, task>>

ToSelect == /\ active = NoRequest /\ pc' = "select"
            /\ UNCHANGED <<active, due, session, task, history>>

\* Mutant: the loop looks for background work before it waits.
PollEager == pc = "poll" /\ (Take \/ (active = NoRequest /\ BackgroundTick) \/ ToSelect)

\* The first select: pending work only, then on to the second one.
Poll == pc = "poll" /\ (Take \/ ToSelect)

\* The second select waits for a job, a background tick or a cleanup tick.
SelectJob == pc = "select" /\ Take

SelectBackground == pc = "select" /\ BackgroundTick

SelectCleanup ==
    /\ pc = "select" /\ due
    /\ pc' = "poll" /\ due' = FALSE /\ Prune
    /\ UNCHANGED <<active, session, task>>

-----------------------------------------------------------------------------
(* runWindow before the collector is started.                              *)

\* freezeHistory copies every retained file record by record and needs them all.
FreezeHistory == \A h \in history : h.whole

\* Space reserved, files created, history frozen, StartedAt published.
Prepare ==
    /\ pc = "prepare" /\ FreezeHistory
    /\ pc' = "start" /\ UNCHANGED <<active, due, session, task, history>>

\* Any of these fails: a file of the history that cannot be read, or storage.
PrepareFail ==
    /\ pc = "prepare"
    /\ task' = [task EXCEPT !.errs = {"storage_unavailable"}, !.broken = TRUE]
    /\ pc' = "finish" /\ UNCHANGED <<active, due, session, history>>

-----------------------------------------------------------------------------
(* CollectWindow and runStream.                                            *)

\* cmd.Start: an ended context or the system refuses.
Start ==
    /\ pc = "start"
    /\ \/ /\ ctx = "live" /\ child' = "running" /\ pc' = "parse" /\ UNCHANGED err
       \/ /\ child' = "bad" /\ err' = (IF ctx = "live" THEN "exit" ELSE ctx) /\ pc' = "return"
    /\ UNCHANGED <<active, due, kind, ctx, par, read, out, task, history>>

\* The timeout of the session: window plus both grace periods.
Deadline ==
    /\ pc \in {"parse", "sync", "publish", "wait", "return"} /\ ctx = "live"
    /\ ctx' = "deadline"
    /\ UNCHANGED <<pc, active, due, kind, child, par, read, out, err, task, history>>

\* The parser gives up: runStream kills atop, closes the pipe and waits.
StopParsing(e) == /\ err' = e /\ pc' = "return" /\ child' = "bad"
                  /\ par' = ParserStart /\ read' = << >>

RowsNow == Cardinality({j \in DOMAIN read : FrameOf(read, j) = FrameOf(read, Len(read) + 1)
                                              /\ read[j].kind = "row"})

\* What atop may still write within the bounds.
Delivers(l) ==
    /\ Len(read) < MaxLines /\ (l.kind = "row" => RowsNow < MaxRows)
    /\ FrameOf(read, Len(read) + 1) <= Samples(Now.w, Now.s)

Reads(l) == /\ par' = After(par, l, Now) /\ read' = Append(read, l)

\* A line that yields no record.
ReadSilent(l) ==
    /\ pc = "parse" /\ Delivers(l) /\ Accepts(par, l, Now) /\ ~Kept(l, Now)
    /\ Reads(l)
    /\ UNCHANGED <<pc, active, due, kind, ctx, child, out, err, task, history>>

\* emit's first check: no record passes once the context has ended.
ReadLate(l) ==
    /\ pc = "parse" /\ Delivers(l) /\ Accepts(par, l, Now) /\ Kept(l, Now)
    /\ ctx # "live" /\ StopParsing(ctx)
    /\ UNCHANGED <<active, due, kind, ctx, out, task, history>>

ReadRejected ==
    /\ pc = "parse" /\ \E l \in Lines : ~Accepts(par, l, Now)
    /\ StopParsing("format")
    /\ UNCHANGED <<active, due, kind, ctx, out, task, history>>

\* atop exits by itself, or is killed because the context has ended.
Eof(status) ==
    /\ pc = "parse"
    /\ child' = status /\ par' = ParserStart /\ read' = << >>
    /\ IF AtEnd(par) THEN pc' = "wait" /\ UNCHANGED err
                     ELSE pc' = "return" /\ err' = "format"
    /\ UNCHANGED <<active, due, kind, ctx, out, task, history>>

\* Mutant: an ended context does not reach the child.
KillNever == FALSE /\ Eof("bad")

Kill == ctx # "live" /\ Eof("bad")

\* Mutant: the exit status is not looked at.
WaitIgnored ==
    /\ pc = "wait" /\ pc' = "return"
    /\ UNCHANGED <<active, due, kind, ctx, child, par, read, out, err, task, history>>

Wait ==
    /\ pc = "wait" /\ pc' = "return"
    /\ err' = IF child = "bad" THEN "exit" ELSE "none"
    /\ UNCHANGED <<active, due, kind, ctx, child, par, read, out, task, history>>

\* CollectWindow returns the context's error before any other.
Return ==
    /\ pc = "return"
    /\ err' = IF ctx # "live" THEN ctx ELSE err
    /\ pc' = IF kind = "task" THEN "end" ELSE "close"
    /\ UNCHANGED <<active, due, kind, ctx, child, par, read, out, task, history>>

-----------------------------------------------------------------------------
(* The task's sink: runWindow's emit.                                      *)

\* Mutant: every record is counted as it arrives.
CountEager(t, r) == [t EXCEPT !.src = @ + 1,
                              !.sampled = IF r.kind = "source" THEN @ ELSE @ + 1]

\* Records count when their frame is complete.
Count(t, r) == IF r.kind = "source" THEN [t EXCEPT !.pend = @ + 1]
               ELSE [t EXCEPT !.src = @ + t.pend, !.pend = 0, !.sampled = @ + 1]

TaskRecord(l) ==
    LET r == RecordOf(par, After(par, l, Now), l)
    IN  /\ pc = "parse" /\ kind = "task" /\ ctx = "live"
        /\ Delivers(l) /\ Accepts(par, l, Now) /\ Kept(l, Now)
        /\ \/ \* stored, and at a frame's end synced and published
              /\ Reads(l) /\ out' = Append(out, r) /\ task' = Count(task, r)
              /\ UNCHANGED <<pc, child, err>>
           \/ \* the append fails, with a part of the record on disk or nothing
              /\ \E cut \in BOOLEAN : task' = [task EXCEPT !.broken = TRUE, !.torn = cut]
              /\ StopParsing("storage") /\ UNCHANGED out
           \/ \* the append fails at the newline or at the close, the record on disk
              /\ \E how \in {"ended", "bare"} :
                   task' = [task EXCEPT !.broken = TRUE, !.stray = how]
              /\ StopParsing("storage") /\ out' = Append(out, r)
           \/ \* the frame is counted, then its sync or its publication fails
              /\ r.kind = "frame_end" /\ out' = Append(out, r)
              /\ task' = [Count(task, r) EXCEPT !.broken = TRUE] /\ StopParsing("storage")
    /\ UNCHANGED <<active, due, kind, ctx, history>>

-----------------------------------------------------------------------------
(* The background sink: one file per frame.                                *)

BackgroundRecord(l) ==
    LET r == RecordOf(par, After(par, l, Now), l)
    IN  /\ pc = "parse" /\ kind = "background" /\ ctx = "live"
        /\ Delivers(l) /\ Accepts(par, l, Now) /\ Kept(l, Now)
        /\ \/ /\ Reads(l) /\ out' = Append(out, r)
              /\ pc' = IF r.kind = "frame_end" THEN "sync" ELSE "parse"
              /\ UNCHANGED <<child, err>>
           \/ StopParsing("storage") /\ UNCHANGED out
    /\ UNCHANGED <<active, due, kind, ctx, task, history>>

\* A file's content is one complete frame.
WholeFrame(rs) ==
    /\ Len(rs) > 1 /\ rs[Len(rs)].kind = "frame_end"
    /\ \A i \in 1 .. Len(rs) - 1 : rs[i].kind = "source" /\ rs[i].frame = rs[Len(rs)].frame

\* Mutant: the frame is renamed into place before it is synced.
BackgroundSyncLate ==
    /\ pc = "sync" /\ pc' = "publish"
    /\ history' = history \cup {[whole |-> WholeFrame(out), synced |-> FALSE]}
    /\ UNCHANGED <<active, due, session, task>>

BackgroundSync ==
    /\ pc = "sync"
    /\ \/ pc' = "publish" /\ UNCHANGED <<child, par, read, err>>
       \/ StopParsing("storage")
    /\ UNCHANGED <<active, due, kind, ctx, out, task, history>>

\* The rename, then pruneBackground.
BackgroundPublish ==
    /\ pc = "publish"
    /\ \/ /\ \E h \in SUBSET (history \cup {[whole |-> WholeFrame(out), synced |-> TRUE]}) :
                history' = h
          /\ out' = << >> /\ pc' = "parse" /\ UNCHANGED <<child, par, read, err>>
       \/ StopParsing("storage") /\ UNCHANGED <<out, history>>
    /\ UNCHANGED <<active, due, kind, ctx, task>>

\* The deferred removal of the .tmp; bgCancel is cleared, the loop goes on.
BackgroundClose ==
    /\ pc = "close"
    /\ pc' = "poll" /\ NoSession /\ UNCHANGED <<active, due, task, history>>

-----------------------------------------------------------------------------
(* The end of runWindow, and what finish makes of it.                      *)

ScenarioError(e) == CASE e = "storage"   -> "storage_unavailable"
                      [] e = "deadline"  -> "atop_timeout"
                      [] e = "cancelled" -> "atop_cancelled"
                      [] e = "format"    -> "atop_invalid_stream"
                      [] OTHER           -> "atop_failed"

EndWindow ==
    /\ pc = "end" /\ pc' = "finish"
    /\ task' = [task EXCEPT !.errs =
                  IF err # "none" THEN {ScenarioError(err)}
                  ELSE IF task.sampled < Planned THEN {"sample_missed"} ELSE {}]
    /\ UNCHANGED <<active, due, session, history>>

\* Mutant: a task without a record keeps its state.
FinalStateKept(t) == IF t.src = 0 THEN t.state ELSE IF t.errs # {} THEN "partial" ELSE "completed"

FinalState(t) == IF t.src = 0 THEN "failed" ELSE IF t.errs # {} THEN "partial" ELSE "completed"

\* archive's coverage reads the samples record by record and needs them all;
\* the package may also fail by itself.
Finish ==
    /\ pc = "finish" /\ pc' = "done"
    /\ \/ ~task.torn /\ task' = [task EXCEPT !.state = FinalState(task)]
       \/ task.torn /\ task' = [task EXCEPT !.state = "failed"]
       \/ task' = [task EXCEPT !.state = "failed", !.broken = TRUE, !.torn = FALSE]
    /\ UNCHANGED <<active, due, session, history>>

\* runWindow's deferred function.
Release ==
    /\ pc = "done"
    /\ active' = NoRequest /\ pc' = "poll" /\ task' = NewTask /\ NoSession
    /\ UNCHANGED <<due, history>>

-----------------------------------------------------------------------------
(* Reading samples.jsonl back: archive.go's coverage and repair.           *)

\* coverage: records of a frame are added when its frame_end is read.
CoverageStep(c, r) ==
    LET pend == (IF r.frame = c.id THEN c.pend ELSE 0) + 1
    IN  IF r.kind = "frame_end" THEN [id |-> 0, pend |-> 0, total |-> c.total + pend]
                                ELSE [id |-> r.frame, pend |-> pend, total |-> c.total]

Covered(rs)  == FoldLeft(CoverageStep, [id |-> 0, pend |-> 0, total |-> 0], rs)
Coverage(rs) == Covered(rs).total

\* repair: sources and frames counted up to the first record that does not fit.
RepairStep(c, r) ==
    CASE c.damaged -> c
      [] ~c.damaged /\ r.kind = "source" ->
           IF c.id # 0 /\ c.id # r.frame THEN [c EXCEPT !.damaged = TRUE]
           ELSE [c EXCEPT !.id = r.frame, !.pend = c.pend + 1]
      [] OTHER ->
           IF c.pend = 0 \/ c.id # r.frame THEN [c EXCEPT !.damaged = TRUE]
           ELSE [c EXCEPT !.id = 0, !.pend = 0, !.src = c.src + c.pend,
                          !.frames = c.frames \cup {r.frame}]

Repair(rs) ==
    FoldLeft(RepairStep, [damaged |-> FALSE, id |-> 0, pend |-> 0, src |-> 0, frames |-> {}], rs)

\* The records repair's scanner returns: those that end with a newline.
Scanned == IF task.stray = "bare" THEN Front(out) ELSE out

\* The records runWindow counts: those whose Append returned nil.
Acknowledged == IF task.stray = "none" THEN out ELSE Front(out)

-----------------------------------------------------------------------------
\* The process dies: files of the history that were not synced are cut.
Crash ==
    /\ pc' = "poll" /\ active' = NoRequest /\ due' = FALSE /\ NoSession /\ task' = NewTask
    /\ history' = {[whole |-> h.whole /\ h.synced, synced |-> TRUE] : h \in history}

Read == \E l \in Lines : ReadSilent(l) \/ ReadLate(l) \/ TaskRecord(l) \/ BackgroundRecord(l)

Exit == Eof("ok") \/ Eof("bad")

Loop == Poll \/ SelectJob

Work == \/ Prepare \/ PrepareFail \/ Start \/ Wait \/ Return
        \/ BackgroundSync \/ BackgroundPublish \/ BackgroundClose
        \/ EndWindow \/ Finish \/ Release

Next == \/ \E r \in Requests : Submit(r)
        \/ CleanupTick \/ Loop \/ SelectBackground \/ SelectCleanup
        \/ Work \/ Deadline \/ Read \/ ReadRejected \/ Exit \/ Kill \/ Crash

\* The worker's own steps go on and timers fire; atop owes nothing.  The
\* select picks at random among what is ready, so a ready tick is not passed
\* over for ever.
Fairness == /\ WF_vars(Loop) /\ WF_vars(Work) /\ WF_vars(Deadline) /\ WF_vars(Kill)
            /\ SF_vars(SelectCleanup)

Spec == Init /\ [][Next]_vars
FairSpec == Spec /\ Fairness

-----------------------------------------------------------------------------
(* Properties.                                                             *)

\* Type invariant.
TypeOK ==
    /\ pc \in {"poll", "select", "prepare", "start", "parse", "sync", "publish", "wait",
               "return", "close", "end", "finish", "done"}
    /\ active \in Requests \cup {NoRequest} /\ due \in BOOLEAN
    /\ kind \in {"none", "task", "background"}
    /\ ctx \in {"live", "cancelled", "deadline"}
    /\ child \in {"none", "running", "ok", "bad"}
    /\ par \in [open: BOOLEAN, first: BOOLEAN, baseline: BOOLEAN, epoch: Nat,
                seen: SUBSET {l.label : l \in {x \in Lines : x.kind = "row"}}, frame: Nat]
    /\ \A i \in DOMAIN read : read[i] \in Lines
    /\ \A i \in DOMAIN out : out[i].kind \in {"source", "frame_end"} /\ out[i].frame > 0
    /\ err \in {"none", "cancelled", "deadline", "storage", "format", "exit"}
    /\ task.sampled \in Nat /\ task.src \in Nat /\ task.pend \in Nat
    /\ task.stray \in {"none", "ended", "bare"}
    /\ task.state \in {"completed", "partial", "failed"} \/ (task.state = "running" /\ pc # "done")
    /\ history \subseteq [whole: BOOLEAN, synced: BOOLEAN]

\* ParseAtopStream keeps a few locals and looks at one line at a time, yet at
\* every point of every stream it accepts exactly the lines the reference
\* allows after all that was read, has emitted exactly the records of the
\* stream (those of the open frame, in a background file), and would report
\* success at the end of the input just when the last frame is closed.
StreamReference ==
    pc = "parse" =>
      LET from == IF kind = "task" THEN 1 ELSE FrameOf(read, Len(read) + 1)
      IN  /\ \A l \in Lines : Accepts(par, l, Now) <=> MayFollow(read, l, Now)
          /\ Emitted(out, read, from, Now)
          /\ AtEnd(par) <=> EndsWell(read)

\* Three places count the evidence of a task: runWindow while it is written,
\* archive's coverage for the manifest, and repair after a crash.  They agree
\* after every record, whether or not the stream stopped inside a frame, but
\* for an Append that failed and left its whole record behind: runWindow has
\* not counted that record, coverage has, and repair goes with coverage if the
\* newline is there and with runWindow if it is missing.  No count is more than
\* one frame behind, and repair finds nothing out of order.
CountsAgree ==
    kind = "task" =>
      /\ ~Repair(Scanned).damaged
      /\ task.sampled = Cardinality(Repair(Acknowledged).frames)
      /\ task.src = Repair(Acknowledged).src
      /\ Coverage(out) = Repair(out).src + Cardinality(Repair(out).frames)
      /\ Cardinality(Repair(out).frames) \in {task.sampled, task.sampled + 1}
      /\ task.stray = "none" => Coverage(out) = task.src + task.sampled

\* Every file backgroundWindow publishes holds one complete frame, and still
\* does after a power failure: freezeHistory never meets a cut record.
HistoryWhole == \A h \in history : h.whole

\* An on-demand task does not wait for the background: from the moment Submit
\* has made a task active, a background session's context is cancelled.
BackgroundYields == active # NoRequest /\ kind = "background" => ctx # "live"

\* A task ends completed only with every planned point in a committed frame,
\* from an atop that ended by itself with status 0, in time and with no failed
\* storage call.
CompletedIsWhole ==
    pc = "done" /\ task.state = "completed" =>
      /\ Cardinality(Repair(out).frames) = Planned /\ task.pend = 0
      /\ child = "ok" /\ ctx = "live" /\ ~task.broken

\* A window in which atop delivered every sample it was asked for and ended
\* normally, with no storage failure and before the deadline, is completed:
\* what args asks for is what Schedule plans.
WholeWindowCompletes ==
    /\ pc = "done" /\ child = "ok" /\ ctx = "live" /\ err = "none" /\ ~task.broken
    /\ Cardinality(Repair(out).frames) = Samples(Now.w, Now.s)
    => task.state = "completed"

\* An accepted task ends although atop may hang: the deadline kills it.
ActiveEnds == active # NoRequest ~> active = NoRequest

\* Background windows, which follow each other without a pause, do not keep
\* the cleanup from its turn; only on-demand tasks may.
CleanupNotStarved == due ~> (~due \/ active # NoRequest)

\* README: a truncated or damaged capture is partial, and failed only when it
\* has no usable complete frame. Here for a capture whose last record was cut by
\* a failed write and whose package did not fail for another reason.
TruncatedIsPartial ==
    pc = "done" /\ task.torn /\ task.sampled > 0 => task.state = "partial"

=============================================================================
