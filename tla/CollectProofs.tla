--------------------------- MODULE CollectProofs ---------------------------
(***************************************************************************)
(* Proofs about Collect, for any scenes, requests, time stamps and lengths *)
(* of a stream.                                                            *)
(*                                                                         *)
(* That a published background file is one whole frame depends on what the *)
(* parser and the sink agree on between two records: what is in the file   *)
(* so far is sources of the parser's open frame, some as soon as the       *)
(* parser has seen a label it keeps, and none between two frames (Filing). *)
(* A separator is accepted only in an open frame with a label seen, so the *)
(* file it ends is whole, and it is synced before it is published.         *)
(*                                                                         *)
(* What a window reports is settled by counters that run beside the file.  *)
(* They agree with the folds that read the file back because one record    *)
(* appended is one step of each fold, from a state of the fold that the    *)
(* counters determine (Counting, Parsing). An append that fails with its   *)
(* record on disk leaves the counters where they were and the folds one    *)
(* step ahead; nothing is appended after it. Requested and Outcome carry   *)
(* that to the end of the window, where the plan of its points is compared *)
(* with the frames (PlanAgrees).                                           *)
(*                                                                         *)
(* The parser forgets the lines it has read. Heard says what its locals    *)
(* still know of them; it is enough to decide every later line as the      *)
(* reference does, which looks at all of them (HeardAgrees).               *)
(***************************************************************************)
EXTENDS Collect, FiniteSetTheorems, TLAPS

USE DEF session, vars

RowLabels == {l.label : l \in {x \in Lines : x.kind = "row"}}
Parsers == [open: BOOLEAN, first: BOOLEAN, baseline: BOOLEAN, epoch: Nat,
            seen: SUBSET RowLabels, frame: Nat]
Written == [kind: {"source", "frame_end"}, frame: Nat \ {0}, baseline: BOOLEAN]
Codes == {"storage_unavailable", "atop_timeout", "atop_cancelled", "atop_invalid_stream",
          "atop_failed", "sample_missed"}
Counters == [sampled: Nat, src: Nat, pend: Nat, errs: SUBSET Codes,
             state: {"running", "completed", "partial", "failed"},
             torn: BOOLEAN, stray: {"none", "ended", "bare"}, broken: BOOLEAN]

\* TypeOK with the whole of every record.
Types ==
    /\ pc \in {"poll", "select", "prepare", "start", "parse", "sync", "publish", "wait",
               "return", "close", "end", "finish", "done"}
    /\ active \in Requests \cup {NoRequest} /\ due \in BOOLEAN
    /\ kind \in {"none", "task", "background"}
    /\ ctx \in {"live", "cancelled", "deadline"}
    /\ child \in {"none", "running", "ok", "bad"}
    /\ par \in Parsers /\ read \in Seq(Lines) /\ out \in Seq(Written)
    /\ err \in {"none", "cancelled", "deadline", "storage", "format", "exit"}
    /\ task \in Counters
    /\ history \subseteq [whole: BOOLEAN, synced: BOOLEAN]

\* The parser has numbered the frame it is in.
Numbered == par.open => par.frame > 0

\* A task that is done has its final state.
Settled == pc = "done" => task.state # "running"

\* What the file of the running session holds.
Filing ==
    /\ pc \in {"poll", "select", "prepare", "start"} => out = << >> /\ par = ParserStart
    /\ pc = "parse" /\ kind = "background" =>
         /\ \A i \in DOMAIN out : out[i].kind = "source" /\ out[i].frame = par.frame
         /\ out = << >> => par.seen = {}
         /\ ~par.open => out = << >>
    /\ pc \in {"sync", "publish"} =>
         /\ kind = "background" /\ WholeFrame(out)
         /\ par.seen = {} /\ ~par.open

\* Every published file is whole and synced.
Durable == \A h \in history : h.whole /\ h.synced

CInv == Types /\ Numbered /\ Settled /\ Filing /\ Durable /\ BackgroundYields

\* What repair and coverage must find in the file of a task with counters t:
\* the committed frames are the first t.sampled ones, and records of the next
\* frame may follow.
RepairOf(t) == [damaged |-> FALSE, id |-> IF t.pend = 0 THEN 0 ELSE t.sampled + 1,
                pend |-> t.pend, src |-> t.src, frames |-> 1 .. t.sampled]
CoverOf(t)  == [id |-> IF t.pend = 0 THEN 0 ELSE t.sampled + 1,
                pend |-> t.pend, total |-> t.src + t.sampled]

Backed(rs, t) ==
    Repair(rs) = RepairOf(t) /\ Covered(rs) = CoverOf(t) /\ t.sampled <= t.src

\* The records runWindow counted, and the file if it ends with one more.
Counting ==
    kind = "task" =>
      /\ Backed(Acknowledged, task)
      /\ task.stray # "none" =>
           \E t \in Counters : Backed(out, t) /\ t.sampled \in {task.sampled, task.sampled + 1}

\* A task's session before atop runs, and the parser while it runs: the frame
\* it is in follows the committed ones, and it has kept a row of it just when
\* the sink has one pending.
Parsing ==
    /\ pc \in {"poll", "select", "prepare", "start"} => read = << >>
    /\ kind = "task" /\ pc \in {"prepare", "start"} => task = NewTask
    /\ kind = "task" /\ pc = "parse" =>
         /\ par.frame = IF par.open THEN task.sampled + 1 ELSE task.sampled
         /\ FrameOf(read, Len(read) + 1) = task.sampled + 1
         /\ (task.pend = 0) <=> (par.seen = {})
         /\ task.pend > 0 => par.open

\* The request of a task was validated, and stays until the task is released.
Requested ==
    /\ active # NoRequest => ValidSampling(active.w, active.s, MinStep, MaxWindow, MaxPoints)
    /\ kind = "task" => active # NoRequest
    /\ pc \in {"prepare", "end", "finish", "done"} => kind = "task"

\* A window without an error: what it says of atop, the context, the storage
\* and the frame that was open.
Clean == child = "ok" /\ ctx = "live" /\ err = "none" /\ task.pend = 0 /\ ~task.broken

\* How far a task's window has come, and what its error list means.
Outcome ==
    kind = "task" =>
      /\ task.torn \/ task.stray # "none" => task.broken
      /\ task.sampled <= Samples(active.w, active.s)
      /\ pc \in {"prepare", "start", "parse", "wait"} => ~task.broken
      /\ pc = "wait" => task.pend = 0 /\ child \in {"ok", "bad"}
      /\ pc = "return" /\ err = "none" => child = "ok" /\ task.pend = 0 /\ ~task.broken
      /\ pc = "end" /\ err = "none" => Clean
      /\ pc = "finish" /\ task.errs = {} => Clean /\ task.sampled = Samples(active.w, active.s)
      /\ pc = "done" /\ task.state = "completed" =>
           Clean /\ task.sampled = Samples(active.w, active.s)
      /\ pc = "finish" /\ ~task.broken /\ err = "none"
           /\ task.sampled = Samples(active.w, active.s) => task.errs = {}
      /\ pc = "done" /\ ~task.broken /\ err = "none"
           /\ task.sampled = Samples(active.w, active.s) => task.state = "completed"

OInv == CInv /\ Counting /\ Parsing /\ Requested /\ Outcome

-----------------------------------------------------------------------------
(* Lines and the parser.                                                   *)

\* Fields of a line.
LEMMA LineFields ==
    ASSUME NEW l \in Lines
    PROVE  /\ l.kind \in {"reset", "sep", "junk", "row"}
           /\ l.kind = "row" => l.epoch \in Epochs /\ l.thread \in BOOLEAN /\ l.label \in RowLabels
<1> DEFINE L == {"PRG"} \cup UNION {SceneLabels[s] : s \in AllScenes}
<1>1. l \in {Reset, Sep, Junk} \cup Rows(L, Epochs, FALSE) \cup Rows(L \cap ProcessLabels, Epochs, TRUE)
  BY DEF Lines, LinesOver
<1>2. l.kind = "row" => l.label \in RowLabels
  BY DEF RowLabels
<1> HIDE DEF L
<1>3. CASE l \in {Reset, Sep, Junk}
  BY <1>3 DEF Reset, Sep, Junk
<1>4. CASE l \in Rows(L, Epochs, FALSE)
  BY <1>2, <1>4 DEF Rows
<1>5. CASE l \in Rows(L \cap ProcessLabels, Epochs, TRUE)
  BY <1>2, <1>5 DEF Rows
<1> QED
  BY <1>1, <1>3, <1>4, <1>5

\* The parser's locals stay what they are, and an open frame is numbered.
LEMMA ParserStep ==
    ASSUME NEW p \in Parsers, p.open => p.frame > 0, NEW l \in Lines, NEW spec,
           Accepts(p, l, spec)
    PROVE  /\ After(p, l, spec) \in Parsers
           /\ After(p, l, spec).open => After(p, l, spec).frame > 0
           /\ Kept(l, spec) => RecordOf(p, After(p, l, spec), l) \in Written
<1> DEFINE q == After(p, l, spec)
<1>0. l.kind \in {"reset", "sep", "row"} /\ Epochs \subseteq Nat
  BY LineFields, CollectAssumption DEF Accepts
<1>1. CASE l.kind = "reset"
  <2>1. q = [p EXCEPT !.baseline = TRUE]
    BY <1>1 DEF After
  <2> QED
    BY <1>1, <2>1 DEF Parsers, Kept
<1>2. CASE l.kind = "sep"
  <2>1. q = [[[[p EXCEPT !.open = FALSE] EXCEPT !.first = FALSE] EXCEPT !.baseline = FALSE]
               EXCEPT !.seen = {}]
    BY <1>2 DEF After, Parsers
  <2>2. q \in Parsers /\ ~q.open
    BY <2>1 DEF Parsers
  <2>3. RecordOf(p, q, l) = FrameEnd(p.frame, p.baseline)
    BY <1>2 DEF RecordOf
  <2>4. p.open /\ p.frame \in Nat \ {0} /\ p.baseline \in BOOLEAN
    BY <1>2 DEF Accepts, Parsers
  <2>5. RecordOf(p, q, l) \in Written
    BY <2>3, <2>4 DEF FrameEnd, Written
  <2> QED
    BY <2>2, <2>5
<1>3. CASE l.kind = "row"
  <2> DEFINE fr == IF p.open THEN p.frame ELSE p.frame + 1
             sn == IF Kept(l, spec) THEN p.seen \cup {l.label} ELSE p.seen
  <2>1. fr \in Nat \ {0} /\ sn \in SUBSET RowLabels /\ l.epoch \in Nat
    <3>1. l.epoch \in Nat /\ l.label \in RowLabels
      BY <1>0, <1>3, LineFields
    <3>2. p.frame \in Nat /\ p.seen \in SUBSET RowLabels
      BY DEF Parsers
    <3> QED
      BY <3>1, <3>2
  <2>2. q = [[[[p EXCEPT !.open = TRUE] EXCEPT !.epoch = l.epoch] EXCEPT !.frame = fr]
               EXCEPT !.seen = sn]
    BY <1>3 DEF After, Parsers
  <2>3. RecordOf(p, q, l) = Source(q.frame, q.baseline)
    BY <1>3 DEF RecordOf
  <2> HIDE DEF fr, sn, q
  <2>4. q \in Parsers /\ q.frame = fr
    BY <2>1, <2>2 DEF Parsers
  <2>5. RecordOf(p, q, l) \in Written
    BY <2>1, <2>3, <2>4 DEF Source, Written, Parsers
  <2> QED
    BY <2>1, <2>4, <2>5 DEF q
<1> QED
  BY <1>0, <1>1, <1>2, <1>3

\* The number of samples asked of atop, the number of points that the window
\* is planned for and the number that its validation bounds are the same.
THEOREM PlanAgrees ==
    ASSUME NEW w \in Nat, NEW s \in Nat, 0 < s, s <= w
    PROVE  /\ Samples(w, s) = (w - 1) \div s + 2
           /\ Len(Schedule(w, s)) = (w - 1) \div s + 2
           /\ PointCount(w, s) = (w - 1) \div s + 2
<1>1. Samples(w, s) = (w - 1) \div s + 2
  BY DEF Samples
<1>2. Len(Schedule(w, s)) = (w - 1) \div s + 2
  BY DEF Schedule
<1>3. PointCount(w, s) = (w - 1) \div s + 2
  BY DEF PointCount
<1> QED
  BY <1>1, <1>2, <1>3

-----------------------------------------------------------------------------
(* The edits of a task's counters.                                         *)

\* Counting a record, an error, a failure or an end leaves a task's counters.
LEMMA CounterEdits ==
    ASSUME NEW t \in Counters
    PROVE  /\ \A r : Count(t, r) \in Counters
           /\ \A e \in SUBSET Codes : [t EXCEPT !.errs = e] \in Counters
           /\ [t EXCEPT !.broken = TRUE] \in Counters
           /\ \A c \in BOOLEAN : [t EXCEPT !.broken = TRUE, !.torn = c] \in Counters
           /\ \A h \in {"ended", "bare"} : [t EXCEPT !.broken = TRUE, !.stray = h] \in Counters
           /\ [t EXCEPT !.errs = {"storage_unavailable"}, !.broken = TRUE] \in Counters
           /\ [t EXCEPT !.state = FinalState(t)] \in Counters
           /\ [t EXCEPT !.state = "failed"] \in Counters
           /\ [t EXCEPT !.state = "failed", !.broken = TRUE, !.torn = FALSE] \in Counters
<1> DEFINE a == t.src + t.pend
           b == t.sampled + 1
           c == t.pend + 1
<1>0. a \in Nat /\ b \in Nat /\ c \in Nat
  BY DEF Counters
<1>1. ASSUME NEW r
      PROVE  Count(t, r) \in Counters
  <2>1. CASE r.kind = "source"
    <3>1. Count(t, r) = [t EXCEPT !.pend = c]
      BY <2>1 DEF Count, Counters
    <3> HIDE DEF c
    <3> QED
      BY <1>0, <3>1 DEF Counters
  <2>2. CASE r.kind # "source"
    <3>1. Count(t, r) = [t EXCEPT !.src = a, !.pend = 0, !.sampled = b]
      BY <2>2 DEF Count
    <3>2. [t EXCEPT !.src = a, !.pend = 0, !.sampled = b]
            = [[[t EXCEPT !.src = a] EXCEPT !.pend = 0] EXCEPT !.sampled = b]
      BY DEF Counters
    <3> HIDE DEF a, b
    <3>3. [t EXCEPT !.src = a] \in Counters
      BY <1>0 DEF Counters
    <3>4. [[t EXCEPT !.src = a] EXCEPT !.pend = 0] \in Counters
      BY <3>3 DEF Counters
    <3>5. [[[t EXCEPT !.src = a] EXCEPT !.pend = 0] EXCEPT !.sampled = b] \in Counters
      BY <1>0, <3>4 DEF Counters
    <3> QED
      BY <3>1, <3>2, <3>5
  <2> QED
    BY <2>1, <2>2
<1>2. \A e \in SUBSET Codes : [t EXCEPT !.errs = e] \in Counters
  BY DEF Counters
<1>3. [t EXCEPT !.broken = TRUE] \in Counters
  BY DEF Counters
<1>4. ASSUME NEW cut \in BOOLEAN
      PROVE  [t EXCEPT !.broken = TRUE, !.torn = cut] \in Counters
  BY DEF Counters
<1>5. [t EXCEPT !.errs = {"storage_unavailable"}, !.broken = TRUE] \in Counters
  BY DEF Counters, Codes
<1>6. FinalState(t) \in {"completed", "partial", "failed"}
  BY DEF FinalState
<1>7. [t EXCEPT !.state = FinalState(t)] \in Counters
  BY <1>6 DEF Counters
<1>8. [t EXCEPT !.state = "failed"] \in Counters
  BY DEF Counters
<1>9. [t EXCEPT !.state = "failed", !.broken = TRUE, !.torn = FALSE] \in Counters
  BY DEF Counters
<1>10. ASSUME NEW h \in {"ended", "bare"}
       PROVE  [t EXCEPT !.broken = TRUE, !.stray = h] \in Counters
  BY DEF Counters
<1> QED
  BY <1>1, <1>2, <1>3, <1>4, <1>5, <1>7, <1>8, <1>9, <1>10

\* A session that has not begun.
LEMMA Beginnings ==
    /\ ParserStart \in Parsers /\ ~ParserStart.open /\ ParserStart.seen = {}
    /\ NewTask \in Counters
    /\ << >> \in Seq(Lines) /\ << >> \in Seq(Written)
<1>1. ParserStart \in Parsers /\ ~ParserStart.open /\ ParserStart.seen = {}
  BY DEF ParserStart, Parsers
<1>2. NewTask \in Counters
  BY DEF NewTask, Counters
<1> QED
  BY <1>1, <1>2

\* A whole file that was synced.
LEMMA SyncedFile ==
    LET f == [whole |-> TRUE, synced |-> TRUE]
    IN  f \in [whole: BOOLEAN, synced: BOOLEAN] /\ f.whole /\ f.synced
  OBVIOUS

-----------------------------------------------------------------------------
(* CInv is inductive.                                                      *)

\* The worker's loop begins with no session and an empty history.
LEMMA InitCInv == Init => CInv
<1> SUFFICES ASSUME Init
             PROVE  CInv
  OBVIOUS
<1>1. Types
  BY Beginnings DEF Init, Types
<1> QED
  BY <1>1, Beginnings DEF Init, CInv, Numbered, Settled, Filing, Durable, BackgroundYields

\* The loop, the tickers and Submit.
LEMMA LoopStep ==
    ASSUME CInv, (\E r \in Requests : Submit(r)) \/ CleanupTick \/ Loop \/ SelectBackground
                 \/ SelectCleanup
    PROVE  CInv'
<1> USE DEF CInv
<1>1. ASSUME NEW r \in Requests, Submit(r)
      PROVE  CInv'
  BY <1>1 DEF Submit, Preempt, Types, Numbered, Settled, Filing, Durable, BackgroundYields, Parsers
<1>2. CASE CleanupTick
  BY <1>2 DEF CleanupTick, Types, Numbered, Settled, Filing, Durable, BackgroundYields
<1>3. ASSUME Take, pc \in {"poll", "select"}
      PROVE  CInv'
  BY <1>3, Beginnings DEF Take, Types, Numbered, Settled, Filing, Durable, BackgroundYields
<1>4. CASE pc = "poll" /\ ToSelect
  BY <1>4 DEF ToSelect, Types, Numbered, Settled, Filing, Durable, BackgroundYields
<1>5. CASE SelectBackground
  BY <1>5 DEF SelectBackground, BackgroundTick, Prune, Types, Numbered, Settled, Filing, Durable,
              BackgroundYields
<1>6. CASE SelectCleanup
  BY <1>6 DEF SelectCleanup, Prune, Types, Numbered, Settled, Filing, Durable, BackgroundYields
<1> QED
  BY <1>1, <1>2, <1>3, <1>4, <1>5, <1>6 DEF Loop, Poll, SelectJob

\* A step that gives up the stream, whatever it does to the counters.
LEMMA StopKeeps ==
    ASSUME CInv, NEW e \in {"cancelled", "deadline", "storage", "format"}, StopParsing(e),
           UNCHANGED <<active, due, kind, ctx, history>>,
           out' \in Seq(Written), task' \in Counters
    PROVE  CInv'
  BY Beginnings DEF CInv, StopParsing, Types, Numbered, Settled, Filing, Durable, BackgroundYields

\* The session outside the parser, and the end of a window.
LEMMA WorkStep ==
    ASSUME CInv, Work \/ Deadline \/ Crash
    PROVE  CInv'
<1> USE DEF CInv
<1>1. CASE Prepare
  BY <1>1 DEF Prepare, Types, Numbered, Settled, Filing, Durable, BackgroundYields
<1>2. CASE PrepareFail
  BY <1>2, CounterEdits DEF PrepareFail, Types, Numbered, Settled, Filing, Durable, BackgroundYields
<1>3. CASE Start
  BY <1>3, Beginnings DEF Start, Types, Numbered, Settled, Filing, Durable, BackgroundYields
<1>4. CASE Wait
  BY <1>4 DEF Wait, Types, Numbered, Settled, Filing, Durable, BackgroundYields
<1>5. CASE Return
  BY <1>5 DEF Return, Types, Numbered, Settled, Filing, Durable, BackgroundYields
<1>6. CASE BackgroundSync
  <2>1. CASE pc' = "publish" /\ UNCHANGED <<child, par, read, err>>
    BY <1>6, <2>1 DEF BackgroundSync, Types, Numbered, Settled, Filing, Durable, BackgroundYields
  <2>2. CASE StopParsing("storage")
    BY <1>6, <2>2, StopKeeps DEF BackgroundSync, Types
  <2> QED
    BY <1>6, <2>1, <2>2 DEF BackgroundSync
<1>7. CASE BackgroundPublish
  <2>1. CASE StopParsing("storage") /\ UNCHANGED <<out, history>>
    BY <1>7, <2>1, StopKeeps DEF BackgroundPublish, Types
  <2>2. CASE ~(StopParsing("storage") /\ UNCHANGED <<out, history>>)
    <3>1. PICK h \in SUBSET (history \cup {[whole |-> WholeFrame(out), synced |-> TRUE]}) :
             history' = h
      BY <1>7, <2>2 DEF BackgroundPublish
    <3>2. /\ pc = "publish" /\ pc' = "parse" /\ out' = << >>
          /\ UNCHANGED <<child, par, read, err, active, due, kind, ctx, task>>
      BY <1>7, <2>2 DEF BackgroundPublish
    <3>3. WholeFrame(out) /\ par.seen = {} /\ ~par.open
      BY <3>2 DEF Filing
    <3>4. \A x \in history' : x \in history \/ x = [whole |-> TRUE, synced |-> TRUE]
      <4>1. WholeFrame(out) = TRUE
        BY <3>3 DEF WholeFrame
      <4>2. [whole |-> WholeFrame(out), synced |-> TRUE] = [whole |-> TRUE, synced |-> TRUE]
        BY <4>1, Zenon
      <4> QED
        BY <3>1, <4>2
    <3>5. history' \subseteq [whole: BOOLEAN, synced: BOOLEAN] /\ Durable'
      BY <3>4, SyncedFile DEF Durable, Types
    <3>6. Types'
      BY <3>2, <3>5, Beginnings DEF Types
    <3> QED
      BY <3>2, <3>3, <3>5, <3>6 DEF Numbered, Settled, Filing, BackgroundYields
  <2> QED
    BY <2>1, <2>2
<1>8. CASE BackgroundClose
  BY <1>8, Beginnings DEF BackgroundClose, NoSession, Types, Numbered, Settled, Filing, Durable, BackgroundYields
<1>9. CASE EndWindow
  <2>1. task' \in Counters
    <3>1. PICK e \in SUBSET Codes : task' = [task EXCEPT !.errs = e]
      BY <1>9 DEF EndWindow, ScenarioError, Codes
    <3> QED
      BY <3>1, CounterEdits DEF Types
  <2> QED
    BY <1>9, <2>1 DEF EndWindow, Types, Numbered, Settled, Filing, Durable, BackgroundYields
<1>10. CASE Finish
  <2>1. task' \in Counters
    BY <1>10, CounterEdits DEF Finish, Types
  <2>2. task'.state # "running"
    BY <1>10 DEF Finish, FinalState, Types, Counters
  <2> QED
    BY <1>10, <2>1, <2>2 DEF Finish, Types, Numbered, Settled, Filing, Durable, BackgroundYields
<1>11. CASE Release
  BY <1>11, Beginnings DEF Release, NoSession, Types, Numbered, Settled, Filing, Durable, BackgroundYields
<1>12. CASE Deadline
  BY <1>12 DEF Deadline, Types, Numbered, Settled, Filing, Durable, BackgroundYields
<1>13. CASE Crash
  <2>1. ASSUME NEW h \in history
        PROVE  [whole |-> h.whole /\ h.synced, synced |-> TRUE] = [whole |-> TRUE, synced |-> TRUE]
    <3>1. (h.whole /\ h.synced) = TRUE
      BY DEF Durable
    <3> QED
      BY <3>1, Zenon
  <2>2. \A x \in history' : x = [whole |-> TRUE, synced |-> TRUE]
    BY <1>13, <2>1, Zenon DEF Crash
  <2>3. history' \subseteq [whole: BOOLEAN, synced: BOOLEAN] /\ Durable'
    BY <2>2, SyncedFile DEF Durable
  <2> QED
    BY <1>13, <2>3, Beginnings DEF Crash, NoSession, Types, Numbered, Settled, Filing, BackgroundYields
<1> QED
  BY <1>1, <1>2, <1>3, <1>4, <1>5, <1>6, <1>7, <1>8, <1>9, <1>10, <1>11, <1>12, <1>13 DEF Work

\* What reading an accepted line does to the parser and to the lines read.
LEMMA ReadsFacts ==
    ASSUME CInv, NEW l \in Lines, Accepts(par, l, Now), Reads(l)
    PROVE  /\ par' \in Parsers /\ (par'.open => par'.frame > 0)
           /\ read' \in Seq(Lines)
           /\ Kept(l, Now) => RecordOf(par, par', l) \in Written
<1>1. par \in Parsers /\ (par.open => par.frame > 0) /\ read \in Seq(Lines)
  BY DEF CInv, Types, Numbered
<1>2. par' = After(par, l, Now) /\ read' = Append(read, l)
  BY DEF Reads
<1> QED
  BY <1>1, <1>2, ParserStep

\* In an open frame the parser stays in that frame, and what it has kept of it
\* only grows; a row that is kept is seen.
LEMMA RowAfter ==
    ASSUME NEW p \in Parsers, NEW l, NEW spec, l.kind = "row"
    PROVE  LET q == After(p, l, spec)
           IN  /\ q.open /\ q.frame = (IF p.open THEN p.frame ELSE p.frame + 1)
               /\ q.baseline = p.baseline /\ q.first = p.first
               /\ q.seen = IF Kept(l, spec) THEN p.seen \cup {l.label} ELSE p.seen
  BY DEF After, Parsers

\* At the parser's steps.
LEMMA ReadStep ==
    ASSUME CInv, Read \/ ReadRejected \/ Exit \/ Kill
    PROVE  CInv'
<1> USE DEF CInv
<1>1. ASSUME NEW l \in Lines, ReadSilent(l)
      PROVE  CInv'
  <2>1. /\ par' \in Parsers /\ (par'.open => par'.frame > 0) /\ read' \in Seq(Lines)
    BY <1>1, ReadsFacts DEF ReadSilent
  <2>2. /\ pc = "parse" /\ ~Kept(l, Now) /\ par' = After(par, l, Now) /\ par \in Parsers
        /\ UNCHANGED <<pc, active, due, kind, ctx, child, out, err, task, history>>
        /\ Accepts(par, l, Now)
    BY <1>1 DEF ReadSilent, Reads, Types
  <2>3. Types'
    BY <2>1, <2>2 DEF Types
  <2>4. l.kind \in {"reset", "row"}
    BY <2>2 DEF Accepts, Kept
  <2>5. CASE l.kind = "reset"
    <3>1. ~par.open /\ par'.open = par.open /\ par'.seen = par.seen
      BY <2>2, <2>5 DEF After, Accepts, Resets, Parsers
    <3>2. Filing'
      BY <2>2, <3>1 DEF Filing
    <3> QED
      BY <2>1, <2>2, <2>3, <3>2 DEF Numbered, Settled, Durable, BackgroundYields
  <2>6. CASE l.kind = "row"
    <3>1. /\ par'.open /\ par'.seen = par.seen
          /\ par'.frame = (IF par.open THEN par.frame ELSE par.frame + 1)
      BY <2>2, <2>6 DEF After, Parsers
    <3>2. Filing'
      BY <2>2, <3>1 DEF Filing
    <3> QED
      BY <2>1, <2>2, <2>3, <3>2 DEF Numbered, Settled, Durable, BackgroundYields
  <2> QED
    BY <2>4, <2>5, <2>6
<1>2. ASSUME NEW l \in Lines, ReadLate(l)
      PROVE  CInv'
  BY <1>2, StopKeeps DEF ReadLate, Types
<1>3. CASE ReadRejected
  BY <1>3, StopKeeps DEF ReadRejected, Types
<1>4. ASSUME NEW s \in {"ok", "bad"}, Eof(s)
      PROVE  CInv'
  BY <1>4, Beginnings DEF Eof, Types, Numbered, Settled, Filing, Durable, BackgroundYields
<1>5. ASSUME NEW l \in Lines, TaskRecord(l)
      PROVE  CInv'
  <2> DEFINE r == RecordOf(par, After(par, l, Now), l)
  <2>1. /\ pc = "parse" /\ kind = "task" /\ Accepts(par, l, Now) /\ Kept(l, Now)
        /\ UNCHANGED <<active, due, kind, ctx, history>> /\ task \in Counters
    BY <1>5 DEF TaskRecord, Types
  <2>2. r \in Written /\ Append(out, r) \in Seq(Written)
    BY <2>1, ParserStep DEF Types, Numbered
  <2>3. CASE /\ Reads(l) /\ out' = Append(out, r) /\ task' = Count(task, r)
             /\ UNCHANGED <<pc, child, err>>
    <3>1. /\ par' \in Parsers /\ (par'.open => par'.frame > 0) /\ read' \in Seq(Lines)
      BY <2>1, <2>3, ReadsFacts
    <3>2. task' \in Counters
      BY <2>1, <2>3, CounterEdits
    <3> QED
      BY <2>1, <2>2, <2>3, <3>1, <3>2 DEF Types, Numbered, Settled, Filing, Durable, BackgroundYields
  <2>4. CASE /\ \E cut \in BOOLEAN : task' = [task EXCEPT !.broken = TRUE, !.torn = cut]
             /\ StopParsing("storage") /\ UNCHANGED out
    BY <2>1, <2>4, CounterEdits, StopKeeps DEF Types
  <2>5. CASE /\ r.kind = "frame_end" /\ out' = Append(out, r)
             /\ task' = [Count(task, r) EXCEPT !.broken = TRUE] /\ StopParsing("storage")
    <3>1. Count(task, r) \in Counters
      BY <2>1, CounterEdits
    <3>2. task' \in Counters
      BY <2>5, <3>1, CounterEdits
    <3> QED
      BY <2>1, <2>2, <2>5, <3>2, StopKeeps
  <2>6. CASE /\ \E how \in {"ended", "bare"} : task' = [task EXCEPT !.broken = TRUE, !.stray = how]
             /\ StopParsing("storage") /\ out' = Append(out, r)
    <3>1. task' \in Counters
      BY <2>1, <2>6, CounterEdits
    <3> QED
      BY <2>1, <2>2, <2>6, <3>1, StopKeeps
  <2> QED
    BY <1>5, <2>3, <2>4, <2>5, <2>6 DEF TaskRecord
<1>6. ASSUME NEW l \in Lines, BackgroundRecord(l)
      PROVE  CInv'
  <2> DEFINE r == RecordOf(par, After(par, l, Now), l)
  <2>1. /\ pc = "parse" /\ kind = "background" /\ Accepts(par, l, Now) /\ Kept(l, Now)
        /\ UNCHANGED <<active, due, kind, ctx, history, task>>
        /\ par \in Parsers /\ out \in Seq(Written)
    BY <1>6 DEF BackgroundRecord, Types
  <2>2. r \in Written /\ Append(out, r) \in Seq(Written)
    BY <2>1, ParserStep DEF Types, Numbered
  <2>3. CASE StopParsing("storage") /\ UNCHANGED out
    BY <2>1, <2>3, StopKeeps DEF Types
  <2>4. CASE /\ Reads(l) /\ out' = Append(out, r)
             /\ pc' = (IF r.kind = "frame_end" THEN "sync" ELSE "parse")
             /\ UNCHANGED <<child, err>>
    <3>1. /\ par' \in Parsers /\ (par'.open => par'.frame > 0) /\ read' \in Seq(Lines)
          /\ par' = After(par, l, Now)
      BY <2>1, <2>4, ReadsFacts DEF Reads
    <3>2. Types'
      BY <2>1, <2>2, <2>4, <3>1 DEF Types
    <3>3. /\ \A i \in 1 .. Len(out) : out[i].kind = "source" /\ out[i].frame = par.frame
          /\ out = << >> => par.seen = {}
          /\ ~par.open => out = << >>
      BY <2>1 DEF Filing
    <3>4. /\ out' = Append(out, r) /\ Len(out') = Len(out) + 1 /\ out'[Len(out) + 1] = r
          /\ \A i \in 1 .. Len(out) : out'[i] = out[i]
          /\ DOMAIN out' = 1 .. Len(out) + 1 /\ out' # << >> /\ Len(out) \in Nat
      BY <2>1, <2>2, <2>4
    <3>5. CASE l.kind = "sep"
      <4>1. r = FrameEnd(par.frame, par.baseline)
        BY <3>5 DEF RecordOf
      <4>2. r.kind = "frame_end" /\ r.frame = par.frame /\ pc' = "sync"
        BY <2>4, <4>1 DEF FrameEnd
      <4>3. par.seen # {} /\ par'.seen = {} /\ ~par'.open
        BY <2>1, <3>1, <3>5 DEF Accepts, After, Parsers
      <4>4. Len(out) > 0
        BY <2>1, <3>3, <4>3
      <4> HIDE DEF r
      <4>5. WholeFrame(out')
        BY <3>3, <3>4, <4>2, <4>4 DEF WholeFrame
      <4>6. Filing'
        BY <2>1, <4>2, <4>3, <4>5 DEF Filing, WholeFrame
      <4> QED
        BY <2>1, <3>1, <3>2, <4>2, <4>6 DEF Numbered, Settled, Durable, BackgroundYields
    <3>6. CASE l.kind = "row"
      <4>1. /\ par'.open /\ par'.frame = (IF par.open THEN par.frame ELSE par.frame + 1)
        BY <2>1, <3>1, <3>6, RowAfter
      <4>2. r.kind = "source" /\ r.frame = par'.frame /\ pc' = "parse"
        BY <2>4, <3>1, <3>6 DEF RecordOf, Source
      <4> HIDE DEF r
      <4>3. \A i \in 1 .. Len(out) : par.open
        BY <3>3, <2>1
      <4>4. Filing'
        BY <2>1, <3>3, <3>4, <4>1, <4>2, <4>3 DEF Filing
      <4> QED
        BY <2>1, <3>1, <3>2, <4>2, <4>4 DEF Numbered, Settled, Durable, BackgroundYields
    <3> QED
      BY <2>1, <3>5, <3>6 DEF Kept
  <2> QED
    BY <1>6, <2>3, <2>4 DEF BackgroundRecord
<1> QED
  BY <1>1, <1>2, <1>3, <1>4, <1>5, <1>6 DEF Read, Exit, Kill

\* CInv holds in every reachable state of the collector.
THEOREM CollectInvariant == Spec => []CInv
<1>1. CInv /\ [Next]_vars => CInv'
  <2> SUFFICES ASSUME CInv, [Next]_vars
               PROVE  CInv'
    OBVIOUS
  <2>1. CASE Next
    BY <2>1, LoopStep, WorkStep, ReadStep DEF Next
  <2>2. CASE UNCHANGED vars
    BY <2>2 DEF CInv, Types, Numbered, Settled, Filing, Durable, BackgroundYields
  <2> QED
    BY <2>1, <2>2
<1> QED
  BY <1>1, InitCInv, PTL DEF Spec

\* The type invariant: variables of the worker, its session, the counters of a
\* task, the records on disk and the files of the history.
THEOREM CollectTypes == Spec => []TypeOK
<1>1. CInv => TypeOK
  <2> SUFFICES ASSUME CInv
               PROVE  TypeOK
    OBVIOUS
  <2>1. \A i \in DOMAIN out : out[i].kind \in {"source", "frame_end"} /\ out[i].frame > 0
    <3>1. out \in Seq(Written)
      BY DEF CInv, Types
    <3>2. \A i \in DOMAIN out : out[i] \in Written
      BY <3>1
    <3> QED
      BY <3>2 DEF Written
  <2>2. \A i \in DOMAIN read : read[i] \in Lines
    BY DEF CInv, Types
  <2> QED
    BY <2>1, <2>2 DEF CInv, Types, Settled, TypeOK, Parsers, Counters, RowLabels
<1> QED
  BY <1>1, CollectInvariant, PTL

\* Every file that backgroundWindow has published is one complete frame, before
\* and after a power failure.
THEOREM HistoryIsWhole == Spec => []HistoryWhole
<1>1. CInv => HistoryWhole
  BY DEF CInv, Durable, HistoryWhole
<1> QED
  BY <1>1, CollectInvariant, PTL

\* From the moment Submit has made a task active, a background session that
\* runs has its context cancelled.
THEOREM BackgroundGivesWay == Spec => []BackgroundYields
<1>1. CInv => BackgroundYields
  BY DEF CInv
<1> QED
  BY <1>1, CollectInvariant, PTL

-----------------------------------------------------------------------------
(* Reading a file back, one record at a time: repair and coverage are      *)
(* folds over a sequence, and a longer file is one step of the fold.       *)

RepairStart == [damaged |-> FALSE, id |-> 0, pend |-> 0, src |-> 0, frames |-> {}]
CoverStart == [id |-> 0, pend |-> 0, total |-> 0]

\* The steps as FoldLeft takes them.
RepairOp(r, c) == RepairStep(c, r)
CoverOp(r, c) == CoverageStep(c, r)
LastPos(S) == Max(S)

Repairing == INSTANCE FoldTheorems WITH Op <- RepairOp, Base <- RepairStart, Choice <- LastPos
Covering == INSTANCE FoldTheorems WITH Op <- CoverOp, Base <- CoverStart, Choice <- LastPos

\* The positions of a file are finitely many.
LEMMA PositionsFinite ==
    ASSUME NEW n \in Nat
    PROVE  Repairing!IsFiniteSet(1 .. n) /\ Covering!IsFiniteSet(1 .. n)
<1>1. IsFiniteSet(1 .. n)
  BY FS_Interval
<1> QED
  BY <1>1, Zenon DEF IsFiniteSet, Repairing!IsFiniteSet, Covering!IsFiniteSet

\* Positions of a file: the last of some of them is one of them.
LEMMA LastIsThere ==
    ASSUME NEW n \in Nat, NEW s \in SUBSET (1 .. n), s # {}
    PROVE  LastPos(s) \in s
<1> DEFINE F == {x .. n : x \in s}
           P == 1 .. n
<1>1. Repairing!IsFiniteSet(P)
  BY PositionsFinite
<1>2. F \subseteq SUBSET P /\ F # {}
  <2>1. \A x \in s : x .. n \in SUBSET P
    OBVIOUS
  <2>2. PICK x \in s : TRUE
    OBVIOUS
  <2>3. x .. n \in F
    OBVIOUS
  <2> QED
    BY <2>1, <2>3, Zenon
<1> HIDE DEF F, P
<1>3. PICK f \in F : \A u \in F : u \subseteq f => u = f
  BY <1>1, <1>2, Repairing!Minimal
<1>4. PICK x \in s : f = x .. n
  BY DEF F
<1>5. ASSUME NEW y \in s, ~(x >= y)
      PROVE  FALSE
  <2>1. x \in Int /\ y \in Int /\ x < y /\ y <= n
    BY <1>5
  <2>2. y .. n \in F
    BY DEF F
  <2>3. y .. n \subseteq f /\ x \in f /\ x \notin y .. n
    BY <1>4, <2>1
  <2> QED
    BY <1>3, <2>2, <2>3
<1>6. \E m \in s : \A y \in s : m >= y
  BY <1>5
<1> QED
  BY <1>6, Zenon DEF LastPos, Max

\* The last position.
LEMMA LastOf ==
    ASSUME NEW n \in Nat
    PROVE  LastPos(1 .. n + 1) = n + 1
<1>1. LastPos(1 .. n + 1) \in 1 .. n + 1 /\ \A y \in 1 .. n + 1 : LastPos(1 .. n + 1) >= y
  <2>1. \E m \in 1 .. n + 1 : \A y \in 1 .. n + 1 : m >= y
    OBVIOUS
  <2> QED
    BY <2>1, Zenon DEF LastPos, Max
<1> QED
  BY <1>1

\* Repair of an empty file, and of a file with one more record.
LEMMA RepairSteps ==
    /\ Repair(<< >>) = RepairStart
    /\ \A rs \in Seq(Written), r \in Written : Repair(Append(rs, r)) = RepairStep(Repair(rs), r)
<1>1. ASSUME NEW rs
      PROVE  Repair(rs) = Repairing!Fold(rs, DOMAIN rs)[DOMAIN rs]
  BY Zenon DEF Repair, FoldLeft, MapThenFoldSet, Repairing!Fold, Repairing!Folds, RepairOp,
               RepairStart, LastPos
<1>2. ASSUME NEW n \in Nat
      PROVE  Repairing!Chooses(1 .. n) /\ Repairing!IsFiniteSet(1 .. n)
  <2>1. Repairing!IsFiniteSet(1 .. n)
    BY PositionsFinite
  <2> QED
    BY <2>1, LastIsThere DEF Repairing!Chooses
<1>3. Repair(<< >>) = RepairStart
  <2>1. Repairing!Folds(Repairing!Fold(<< >>, 1 .. 0), << >>, 1 .. 0)
    BY <1>2, Repairing!FoldFolds
  <2>2. Repairing!Fold(<< >>, 1 .. 0)[{}] = RepairStart
    BY <2>1, Repairing!FoldsEmpty
  <2>3. DOMAIN << >> = 1 .. 0 /\ 1 .. 0 = {}
    OBVIOUS
  <2> QED
    BY <1>1, <2>2, <2>3
<1>4. ASSUME NEW rs \in Seq(Written), NEW r \in Written
      PROVE  Repair(Append(rs, r)) = RepairStep(Repair(rs), r)
  <2> DEFINE n == Len(rs)
             as == Append(rs, r)
             S == 1 .. n + 1
  <2>1. n \in Nat /\ DOMAIN rs = 1 .. n /\ DOMAIN as = S /\ as[n + 1] = r
        /\ \A x \in 1 .. n : as[x] = rs[x]
    OBVIOUS
  <2>2. LastPos(S) = n + 1 /\ S # {} /\ Repairing!Chooses(S) /\ Repairing!IsFiniteSet(S)
    <3>1. n + 1 \in Nat /\ S # {}
      BY <2>1
    <3>2. Repairing!Chooses(1 .. n + 1) /\ Repairing!IsFiniteSet(1 .. n + 1)
      BY <1>2, <3>1
    <3> QED
      BY <2>1, <3>1, <3>2, LastOf
  <2>3. S \ {LastPos(S)} = 1 .. n
    BY <2>1, <2>2
  <2> HIDE DEF n, as, S
  <2>4. \A x \in S \ {LastPos(S)} : as[x] = rs[x]
    BY <2>1, <2>3
  <2>5. Repairing!Fold(as, S)[S]
          = RepairOp(as[LastPos(S)], Repairing!Fold(rs, S \ {LastPos(S)})[S \ {LastPos(S)}])
    BY <2>2, <2>4, Repairing!FoldStep
  <2>6. Repair(as) = RepairOp(r, Repair(rs))
    BY <1>1, <2>1, <2>2, <2>3, <2>5
  <2> QED
    BY <2>6 DEF RepairOp, as
<1> QED
  BY <1>3, <1>4

\* Coverage of an empty file, and of a file with one more record.
LEMMA CoverSteps ==
    /\ Covered(<< >>) = CoverStart
    /\ \A rs \in Seq(Written), r \in Written : Covered(Append(rs, r)) = CoverageStep(Covered(rs), r)
<1>1. ASSUME NEW rs
      PROVE  Covered(rs) = Covering!Fold(rs, DOMAIN rs)[DOMAIN rs]
  BY Zenon DEF Covered, FoldLeft, MapThenFoldSet, Covering!Fold, Covering!Folds, CoverOp,
               CoverStart, LastPos
<1>2. ASSUME NEW n \in Nat
      PROVE  Covering!Chooses(1 .. n) /\ Covering!IsFiniteSet(1 .. n)
  <2>1. Covering!IsFiniteSet(1 .. n)
    BY PositionsFinite
  <2> QED
    BY <2>1, LastIsThere DEF Covering!Chooses
<1>3. Covered(<< >>) = CoverStart
  <2>1. Covering!Folds(Covering!Fold(<< >>, 1 .. 0), << >>, 1 .. 0)
    BY <1>2, Covering!FoldFolds
  <2>2. Covering!Fold(<< >>, 1 .. 0)[{}] = CoverStart
    BY <2>1, Covering!FoldsEmpty
  <2>3. DOMAIN << >> = 1 .. 0 /\ 1 .. 0 = {}
    OBVIOUS
  <2> QED
    BY <1>1, <2>2, <2>3
<1>4. ASSUME NEW rs \in Seq(Written), NEW r \in Written
      PROVE  Covered(Append(rs, r)) = CoverageStep(Covered(rs), r)
  <2> DEFINE n == Len(rs)
             as == Append(rs, r)
             S == 1 .. n + 1
  <2>1. n \in Nat /\ DOMAIN rs = 1 .. n /\ DOMAIN as = S /\ as[n + 1] = r
        /\ \A x \in 1 .. n : as[x] = rs[x]
    OBVIOUS
  <2>2. LastPos(S) = n + 1 /\ S # {} /\ Covering!Chooses(S) /\ Covering!IsFiniteSet(S)
    <3>1. n + 1 \in Nat /\ S # {}
      BY <2>1
    <3>2. Covering!Chooses(1 .. n + 1) /\ Covering!IsFiniteSet(1 .. n + 1)
      BY <1>2, <3>1
    <3> QED
      BY <2>1, <3>1, <3>2, LastOf
  <2>3. S \ {LastPos(S)} = 1 .. n
    BY <2>1, <2>2
  <2> HIDE DEF n, as, S
  <2>4. \A x \in S \ {LastPos(S)} : as[x] = rs[x]
    BY <2>1, <2>3
  <2>5. Covering!Fold(as, S)[S]
          = CoverOp(as[LastPos(S)], Covering!Fold(rs, S \ {LastPos(S)})[S \ {LastPos(S)}])
    BY <2>2, <2>4, Covering!FoldStep
  <2>6. Covered(as) = CoverOp(r, Covered(rs))
    BY <1>1, <2>1, <2>2, <2>3, <2>5
  <2> QED
    BY <2>6 DEF CoverOp, as
<1> QED
  BY <1>3, <1>4

\* One more record is one more step of the count: what repair and coverage
\* find after it is what the task has counted.
LEMMA CountStep ==
    ASSUME NEW t \in Counters, NEW rs \in Seq(Written), NEW r \in Written,
           Backed(rs, t), r.frame = t.sampled + 1, r.kind = "frame_end" => t.pend > 0
    PROVE  Backed(Append(rs, r), Count(t, r))
<1> USE DEF Backed
<1>1. /\ Repair(Append(rs, r)) = RepairStep(RepairOf(t), r)
      /\ Covered(Append(rs, r)) = CoverageStep(CoverOf(t), r)
  BY RepairSteps, CoverSteps
<1>2. t.sampled \in Nat /\ t.src \in Nat /\ t.pend \in Nat
  BY DEF Counters
<1> DEFINE c == RepairOf(t)
           d == CoverOf(t)
           u == Count(t, r)
           id == IF t.pend = 0 THEN 0 ELSE t.sampled + 1
<1>a. /\ c = [damaged |-> FALSE, id |-> id, pend |-> t.pend, src |-> t.src, frames |-> 1 .. t.sampled]
      /\ d = [id |-> id, pend |-> t.pend, total |-> t.src + t.sampled]
      /\ id \in {0, r.frame} /\ (t.pend > 0 => id = r.frame)
  BY <1>2 DEF RepairOf, CoverOf
<1>b. (IF r.frame = d.id THEN d.pend ELSE 0) + 1 = t.pend + 1
  BY <1>2, <1>a
<1> HIDE DEF c, d, id
<1>3. CASE r.kind = "source"
  <2>1. u.pend = t.pend + 1 /\ u.src = t.src /\ u.sampled = t.sampled
    BY <1>3 DEF Count, Counters
  <2> HIDE DEF u
  <2>2. /\ RepairOf(u) = [damaged |-> FALSE, id |-> r.frame, pend |-> t.pend + 1, src |-> t.src,
                           frames |-> 1 .. t.sampled]
        /\ CoverOf(u) = [id |-> r.frame, pend |-> t.pend + 1, total |-> t.src + t.sampled]
    <3>1. (IF u.pend = 0 THEN 0 ELSE u.sampled + 1) = r.frame
      BY <1>2, <2>1
    <3> QED
      BY <2>1, <3>1 DEF RepairOf, CoverOf
  <2>3. RepairStep(c, r) = RepairOf(u)
    <3>1. RepairStep(c, r) = [c EXCEPT !.id = r.frame, !.pend = c.pend + 1]
      BY <1>3, <1>a DEF RepairStep
    <3> QED
      BY <1>a, <2>2, <3>1
  <2>4. CoverageStep(d, r) = CoverOf(u)
    <3>1. CoverageStep(d, r) = [id |-> r.frame, pend |-> t.pend + 1, total |-> d.total]
      BY <1>3, <1>b DEF CoverageStep
    <3> QED
      BY <1>a, <2>2, <3>1
  <2> QED
    BY <1>1, <2>1, <2>3, <2>4 DEF c, d, u
<1>4. CASE r.kind = "frame_end"
  <2>1. u.pend = 0 /\ u.src = t.src + t.pend /\ u.sampled = t.sampled + 1
    BY <1>4 DEF Count, Counters
  <2> HIDE DEF u
  <2>2. /\ RepairOf(u) = [damaged |-> FALSE, id |-> 0, pend |-> 0, src |-> t.src + t.pend,
                           frames |-> 1 .. t.sampled + 1]
        /\ CoverOf(u) = [id |-> 0, pend |-> 0, total |-> (t.src + t.pend) + (t.sampled + 1)]
    BY <1>2, <2>1 DEF RepairOf, CoverOf
  <2>3. RepairStep(c, r) = RepairOf(u)
    <3>1. 1 .. t.sampled + 1 = (1 .. t.sampled) \cup {r.frame}
      BY <1>2
    <3>2. ~c.damaged /\ c.pend # 0 /\ c.id = r.frame
      BY <1>2, <1>4, <1>a
    <3>3. RepairStep(c, r) = [c EXCEPT !.id = 0, !.pend = 0, !.src = c.src + c.pend,
                                       !.frames = c.frames \cup {r.frame}]
      BY <1>4, <3>2 DEF RepairStep
    <3> QED
      BY <1>a, <2>2, <3>1, <3>3
  <2>4. CoverageStep(d, r) = CoverOf(u)
    <3>1. CoverageStep(d, r) = [id |-> 0, pend |-> 0, total |-> d.total + (t.pend + 1)]
      BY <1>4, <1>b DEF CoverageStep
    <3>2. d.total = t.src + t.sampled
      BY <1>a
    <3>3. (t.src + t.sampled) + (t.pend + 1) = (t.src + t.pend) + (t.sampled + 1)
      BY <1>2
    <3> QED
      BY <2>2, <3>1, <3>2, <3>3
  <2>5. u.sampled <= u.src
    BY <1>2, <1>4, <2>1
  <2> QED
    BY <1>1, <2>3, <2>4, <2>5 DEF c, d, u
<1> QED
  BY <1>3, <1>4 DEF Written

\* The number of the frame that the next line belongs to.
LEMMA NextFrame ==
    /\ FrameOf(<< >>, 1) = 1
    /\ \A s \in Seq(Lines), l \in Lines :
         /\ FrameOf(s, Len(s) + 1) \in Nat
         /\ FrameOf(Append(s, l), Len(s) + 2)
              = FrameOf(s, Len(s) + 1) + (IF l.kind = "sep" THEN 1 ELSE 0)
<1>1. FrameOf(<< >>, 1) = 1
  <2>1. {j \in 1 .. 1 - 1 : << >>[j].kind = "sep"} = {}
    OBVIOUS
  <2> QED
    BY <2>1, FS_EmptySet DEF FrameOf
<1>2. ASSUME NEW s \in Seq(Lines), NEW l \in Lines
      PROVE  /\ FrameOf(s, Len(s) + 1) \in Nat
             /\ FrameOf(Append(s, l), Len(s) + 2)
                  = FrameOf(s, Len(s) + 1) + (IF l.kind = "sep" THEN 1 ELSE 0)
  <2> DEFINE n == Len(s)
             E == {j \in 1 .. n : s[j].kind = "sep"}
             A == {j \in 1 .. n + 1 : Append(s, l)[j].kind = "sep"}
  <2>1. n \in Nat /\ n + 1 - 1 = n /\ n + 2 - 1 = n + 1
    OBVIOUS
  <2>2. FrameOf(s, n + 1) = Cardinality(E) + 1
    <3>1. {j \in 1 .. (n + 1) - 1 : s[j].kind = "sep"} = E
      BY <2>1
    <3> QED
      BY <3>1, Zenon DEF FrameOf
  <2>3. FrameOf(Append(s, l), n + 2) = Cardinality(A) + 1
    <3>1. {j \in 1 .. (n + 2) - 1 : Append(s, l)[j].kind = "sep"} = A
      BY <2>1
    <3> QED
      BY <3>1, Zenon DEF FrameOf
  <2>4. IsFiniteSet(E) /\ Cardinality(E) \in Nat
    <3>1. IsFiniteSet(1 .. n) /\ E \subseteq 1 .. n
      BY <2>1, FS_Interval
    <3> HIDE DEF E
    <3>2. IsFiniteSet(E)
      BY <3>1, FS_Subset
    <3> QED
      BY <3>2, FS_CardinalityType
  <2>5. n + 1 \notin E /\ A = (IF l.kind = "sep" THEN E \cup {n + 1} ELSE E)
    OBVIOUS
  <2> HIDE DEF n, E, A
  <2>6. Cardinality(E \cup {n + 1}) = Cardinality(E) + 1
    BY <2>4, <2>5, FS_AddElement
  <2> QED
    BY <2>2, <2>3, <2>4, <2>5, <2>6 DEF n
<1> QED
  BY <1>1, <1>2

-----------------------------------------------------------------------------
(* The outcome of a window.                                                *)

\* The plan of a valid request: as many points are planned as samples asked.
LEMMA RequestPlan ==
    ASSUME NEW r \in Requests, ValidSampling(r.w, r.s, MinStep, MaxWindow, MaxPoints)
    PROVE  /\ Samples(r.w, r.s) \in Nat /\ Samples(r.w, r.s) > 1
           /\ Len(Schedule(r.w, r.s)) = Samples(r.w, r.s)
<1>1. r \in [w: Nat, s: Nat, scenes: {NoScenes} \cup SUBSET STRING, threads: BOOLEAN]
  BY CollectAssumption
<1>2. r.w \in Nat /\ r.s \in Nat /\ 0 < r.s /\ r.s <= r.w
  BY <1>1 DEF ValidSampling
<1>3. /\ Samples(r.w, r.s) = (r.w - 1) \div r.s + 2
      /\ Len(Schedule(r.w, r.s)) = (r.w - 1) \div r.s + 2
  BY <1>2, PlanAgrees
<1>4. (r.w - 1) \div r.s \in Nat
  BY <1>2
<1> QED
  BY <1>3, <1>4

\* The plan of the task that runs.
LEMMA TaskPlan ==
    ASSUME Requested, kind = "task", active \in Requests \cup {NoRequest}
    PROVE  /\ active \in Requests /\ Now.w = active.w /\ Now.s = active.s
           /\ Samples(active.w, active.s) \in Nat /\ Samples(active.w, active.s) > 1
           /\ Planned = Samples(active.w, active.s)
<1>1. /\ active \in Requests /\ active # NoRequest
      /\ ValidSampling(active.w, active.s, MinStep, MaxWindow, MaxPoints)
  BY DEF Requested
<1>2. active \in [w: Nat, s: Nat, scenes: {NoScenes} \cup SUBSET STRING, threads: BOOLEAN]
  BY <1>1, CollectAssumption
<1>3. Now = [active EXCEPT !.scenes = NormalizeScenes(active.scenes)]
  BY DEF Now
<1>4. Now.w = active.w /\ Now.s = active.s
  BY <1>2, <1>3
<1>5. Planned = Len(Schedule(active.w, active.s))
  BY <1>4 DEF Planned
<1> QED
  BY <1>1, <1>4, <1>5, RequestPlan

\* Front undoes Append.
LEMMA AppendFront ==
    ASSUME NEW S, NEW rs \in Seq(S), NEW r \in S
    PROVE  Front(Append(rs, r)) = rs
  BY DEF Front

\* A step that counts nothing and stores nothing of a task.
LEMMA CountsKept ==
    ASSUME Counting,
           kind' = "task" => /\ kind = "task" /\ out' = out /\ task'.pend = task.pend
                             /\ task'.src = task.src /\ task'.sampled = task.sampled
                             /\ task'.stray = task.stray
    PROVE  Counting'
<1> SUFFICES ASSUME kind' = "task" PROVE Counting'
  BY DEF Counting
<1>1. Acknowledged' = Acknowledged
  BY DEF Acknowledged
<1>2. RepairOf(task') = RepairOf(task) /\ CoverOf(task') = CoverOf(task)
  BY DEF RepairOf, CoverOf
<1> QED
  BY <1>1, <1>2 DEF Counting, Backed

\* A task begins with nothing counted and nothing stored.
LEMMA CountsBegin ==
    ASSUME out' = << >>, task' = NewTask
    PROVE  Counting'
<1>1. 1 .. 0 = {}
  OBVIOUS
<1>2. RepairOf(NewTask) = RepairStart /\ CoverOf(NewTask) = CoverStart
  BY <1>1 DEF RepairOf, CoverOf, RepairStart, CoverStart, NewTask
<1>3. Repair(<< >>) = RepairStart /\ Covered(<< >>) = CoverStart
  BY RepairSteps, CoverSteps
<1>4. NewTask.sampled = 0 /\ NewTask.src = 0 /\ NewTask.stray = "none"
  BY DEF NewTask
<1> QED
  BY <1>2, <1>3, <1>4 DEF Counting, Backed, Acknowledged

\* The agent begins without a task.
LEMMA InitOInv == Init => OInv
  BY InitCInv DEF Init, OInv, Counting, Parsing, Requested, Outcome

\* The fields of a task that has just begun.
LEMMA NewTaskFields ==
    /\ NewTask.sampled = 0 /\ NewTask.src = 0 /\ NewTask.pend = 0 /\ NewTask.errs = {}
    /\ NewTask.state = "running" /\ ~NewTask.torn /\ ~NewTask.broken
    /\ NewTask.stray = "none"
  BY DEF NewTask

\* Submit, the tickers and the loop.
LEMMA LoopOutcome ==
    ASSUME OInv, (\E r \in Requests : Submit(r)) \/ CleanupTick \/ Loop \/ SelectBackground
                 \/ SelectCleanup
    PROVE  Counting' /\ Parsing' /\ Requested' /\ Outcome'
<1> USE DEF OInv
<1>1. ASSUME NEW r \in Requests, Submit(r)
      PROVE  Counting' /\ Parsing' /\ Requested' /\ Outcome'
  <2>1. kind # "task" /\ kind' = kind
    BY <1>1 DEF Submit, Requested
  <2> QED
    BY <1>1, <2>1 DEF Submit, Counting, Parsing, Requested, Outcome
<1>2. CASE CleanupTick
  <2>1. Counting'
    BY <1>2, CountsKept DEF CleanupTick
  <2> QED
    BY <1>2, <2>1 DEF CleanupTick, Parsing, Requested, Outcome, Clean
<1>3. ASSUME Take, pc \in {"poll", "select"}
      PROVE  Counting' /\ Parsing' /\ Requested' /\ Outcome'
  <2>1. out' = << >> /\ task' = NewTask /\ pc' = "prepare" /\ kind' = "task" /\ read' = << >>
        /\ active # NoRequest /\ active' = active
    BY <1>3 DEF Take, CInv, Filing, Parsing
  <2>2. Counting'
    BY <2>1, CountsBegin
  <2>3. Requested'
    BY <2>1 DEF Requested
  <2>4. active \in Requests
        /\ ValidSampling(active.w, active.s, MinStep, MaxWindow, MaxPoints)
    BY <2>1 DEF CInv, Types, Requested
  <2>5. Samples(active.w, active.s) \in Nat
    BY <2>4, RequestPlan
  <2>6. Outcome'
    BY <2>1, <2>5, NewTaskFields DEF Outcome
  <2> QED
    BY <2>1, <2>2, <2>3, <2>6 DEF Parsing
<1>4. CASE pc = "poll" /\ ToSelect
  <2>1. Counting'
    BY <1>4, CountsKept DEF ToSelect
  <2> QED
    BY <1>4, <2>1 DEF ToSelect, Parsing, Requested, Outcome, Clean
<1>5. CASE SelectBackground
  <2>1. Counting'
    BY <1>5, CountsKept DEF SelectBackground, BackgroundTick
  <2> QED
    BY <1>5, <2>1 DEF SelectBackground, BackgroundTick, Prune, Parsing, Requested, Outcome, Clean
<1>6. CASE SelectCleanup
  <2>1. Counting'
    BY <1>6, CountsKept DEF SelectCleanup
  <2> QED
    BY <1>6, <2>1 DEF SelectCleanup, Parsing, Requested, Outcome, Clean
<1> QED
  BY <1>1, <1>2, <1>3, <1>4, <1>5, <1>6 DEF Loop, Poll, SelectJob

\* A step that gives up the stream with an error.
LEMMA StopOutcome ==
    ASSUME OInv, pc \in {"parse", "sync", "publish"},
           NEW e \in {"cancelled", "deadline", "storage", "format"}, StopParsing(e),
           UNCHANGED <<active, due, kind, ctx, history>>, Counting',
           kind = "task" => /\ task'.torn \/ task'.stray # "none" => task'.broken
                            /\ task'.sampled <= Samples(active.w, active.s)
    PROVE  Counting' /\ Parsing' /\ Requested' /\ Outcome'
  BY DEF OInv, StopParsing, Parsing, Requested, Outcome

\* The session outside the parser, and the end of the window.
LEMMA WorkOutcome ==
    ASSUME OInv, Work \/ Deadline \/ Crash
    PROVE  Counting' /\ Parsing' /\ Requested' /\ Outcome'
<1> USE DEF OInv
<1>0. task \in Counters /\ (kind = "task" => active \in Requests \cup {NoRequest})
  BY DEF CInv, Types
<1>1. CASE Prepare
  <2>1. Counting'
    BY <1>1, CountsKept DEF Prepare
  <2> QED
    BY <1>1, <2>1 DEF Prepare, Parsing, Requested, Outcome, Clean
<1>2. CASE PrepareFail
  <2>1. /\ task' = [task EXCEPT !.errs = {"storage_unavailable"}, !.broken = TRUE]
        /\ task'.pend = task.pend /\ task'.src = task.src /\ task'.sampled = task.sampled
        /\ task'.torn = task.torn /\ task'.broken /\ task'.errs # {} /\ task'.stray = task.stray
    BY <1>0, <1>2 DEF PrepareFail, Counters
  <2>2. Counting'
    BY <1>2, <2>1, CountsKept DEF PrepareFail
  <2> QED
    BY <1>2, <2>1, <2>2 DEF PrepareFail, Parsing, Requested, Outcome, Clean
<1>3. CASE Start
  <2>1. Counting'
    BY <1>3, CountsKept DEF Start
  <2>2. kind = "task" => /\ task = NewTask /\ read = << >> /\ par = ParserStart
                         /\ FrameOf(read, Len(read) + 1) = 1
    BY <1>3, NextFrame DEF Start, Parsing, CInv, Filing
  <2>3. ~ParserStart.open /\ ParserStart.frame = 0 /\ ParserStart.seen = {}
    BY DEF ParserStart
  <2>4. Parsing'
    BY <1>3, <2>2, <2>3, NewTaskFields DEF Start, Parsing
  <2>5. Outcome'
    BY <1>3, <2>2, NewTaskFields DEF Start, Outcome, CInv, Types
  <2> QED
    BY <1>3, <2>1, <2>4, <2>5 DEF Start, Requested
<1>4. CASE Wait
  <2>1. Counting'
    BY <1>4, CountsKept DEF Wait
  <2> QED
    BY <1>4, <2>1 DEF Wait, Parsing, Requested, Outcome
<1>5. CASE Return
  <2>1. Counting'
    BY <1>5, CountsKept DEF Return
  <2> QED
    BY <1>5, <2>1 DEF Return, Parsing, Requested, Outcome, Clean, CInv, Types
<1>6. CASE BackgroundSync
  <2>1. kind # "task" /\ kind' = kind
    BY <1>6 DEF BackgroundSync, CInv, Filing
  <2> QED
    BY <1>6, <2>1 DEF BackgroundSync, StopParsing, Counting, Parsing, Requested, Outcome
<1>7. CASE BackgroundPublish
  <2>1. kind # "task" /\ kind' = kind
    BY <1>7 DEF BackgroundPublish, CInv, Filing
  <2>2. pc' \in {"parse", "return"} /\ active' = active
    BY <1>7 DEF BackgroundPublish, StopParsing
  <2> QED
    BY <2>1, <2>2 DEF Counting, Parsing, Requested, Outcome
<1>8. CASE BackgroundClose
  BY <1>8 DEF BackgroundClose, NoSession, Counting, Parsing, Requested, Outcome
<1>9. CASE EndWindow
  <2> DEFINE e == IF err # "none" THEN {ScenarioError(err)}
                  ELSE IF task.sampled < Planned THEN {"sample_missed"} ELSE {}
  <2>1. task' = [task EXCEPT !.errs = e]
    BY <1>9 DEF EndWindow
  <2>2. kind = "task" /\ Planned = Samples(active.w, active.s) /\ Planned \in Nat
    BY <1>0, <1>9, TaskPlan DEF EndWindow, Requested
  <2>3. e = {} <=> err = "none" /\ ~(task.sampled < Planned)
    OBVIOUS
  <2> HIDE DEF e
  <2>4. /\ task'.errs = e /\ task'.pend = task.pend /\ task'.src = task.src
        /\ task'.sampled = task.sampled /\ task'.torn = task.torn /\ task'.broken = task.broken
        /\ task'.stray = task.stray
    BY <1>0, <2>1 DEF Counters
  <2>5. task.sampled \in Nat
    BY <1>0 DEF Counters
  <2>6. Counting'
    BY <1>9, <2>4, CountsKept DEF EndWindow
  <2>7. Outcome'
    BY <1>9, <2>2, <2>3, <2>4, <2>5 DEF EndWindow, Outcome, Clean
  <2> QED
    BY <1>9, <2>6, <2>7 DEF EndWindow, Parsing, Requested
<1>10. CASE Finish
  <2>1. /\ task'.pend = task.pend /\ task'.src = task.src /\ task'.sampled = task.sampled
        /\ task'.stray = task.stray
        /\ \/ ~task.torn /\ task'.state = FinalState(task) /\ task'.broken = task.broken
              /\ task'.torn = task.torn
           \/ task.torn /\ task'.state = "failed" /\ task'.broken = task.broken
              /\ task'.torn = task.torn
           \/ task'.state = "failed" /\ task'.broken /\ ~task'.torn
    BY <1>0, <1>10 DEF Finish, Counters
  <2>2. Counting'
    BY <1>10, <2>1, CountsKept DEF Finish
  <2>3. kind = "task" /\ Samples(active.w, active.s) > 1 /\ Samples(active.w, active.s) \in Nat
    BY <1>0, <1>10, TaskPlan DEF Finish, Requested
  <2>4. task.sampled \in Nat /\ task.src \in Nat /\ task.sampled <= task.src
    BY <1>0, <2>3 DEF Counters, Counting, Backed
  <2>5. /\ FinalState(task) = "completed" => task.errs = {}
        /\ task.src # 0 /\ task.errs = {} => FinalState(task) = "completed"
    BY DEF FinalState
  <2>6. Outcome'
    BY <1>10, <2>1, <2>3, <2>4, <2>5 DEF Finish, Outcome, Clean
  <2> QED
    BY <1>10, <2>2, <2>6 DEF Finish, Parsing, Requested
<1>11. CASE Release
  BY <1>11 DEF Release, NoSession, Counting, Parsing, Requested, Outcome
<1>12. CASE Deadline
  <2>1. Counting'
    BY <1>12, CountsKept DEF Deadline
  <2> QED
    BY <1>12, <2>1 DEF Deadline, Parsing, Requested, Outcome, Clean
<1>13. CASE Crash
  BY <1>13 DEF Crash, NoSession, Counting, Parsing, Requested, Outcome
<1> QED
  BY <1>1, <1>2, <1>3, <1>4, <1>5, <1>6, <1>7, <1>8, <1>9, <1>10, <1>11, <1>12, <1>13 DEF Work

\* What a line does to a task's parser, the frame it is in and the records it
\* has kept, and the record it yields.
LEMMA TaskLine ==
    ASSUME OInv, kind = "task", pc = "parse", NEW l \in Lines, Delivers(l), Accepts(par, l, Now)
    PROVE  LET q == After(par, l, Now)
               r == RecordOf(par, q, l)
               n == task.sampled
           IN  /\ n \in Nat /\ task.pend \in Nat
               /\ FrameOf(Append(read, l), Len(Append(read, l)) + 1)
                    = (IF l.kind = "sep" THEN n + 2 ELSE n + 1)
               /\ l.kind = "reset" => q.open = par.open /\ q.frame = par.frame /\ q.seen = par.seen
               /\ l.kind = "row" =>
                    /\ q.open /\ q.frame = n + 1
                    /\ r.kind = "source" /\ r.frame = n + 1
                    /\ q.seen = IF Kept(l, Now) THEN par.seen \cup {l.label} ELSE par.seen
               /\ l.kind = "sep" =>
                    /\ ~q.open /\ q.frame = n + 1 /\ q.seen = {}
                    /\ r.kind = "frame_end" /\ r.frame = n + 1
                    /\ task.pend > 0 /\ n + 1 <= Samples(active.w, active.s)
<1> DEFINE q == After(par, l, Now)
           r == RecordOf(par, q, l)
           n == task.sampled
<1>1. par \in Parsers /\ task \in Counters /\ read \in Seq(Lines)
      /\ active \in Requests \cup {NoRequest}
  BY DEF OInv, CInv, Types
<1>2. n \in Nat /\ task.pend \in Nat
  BY <1>1 DEF Counters
<1>3. /\ par.frame = (IF par.open THEN n + 1 ELSE n) /\ FrameOf(read, Len(read) + 1) = n + 1
      /\ (task.pend = 0) <=> (par.seen = {})
  BY DEF OInv, Parsing
<1>4. FrameOf(Append(read, l), Len(Append(read, l)) + 1)
        = (IF l.kind = "sep" THEN n + 2 ELSE n + 1)
  <2>1. Len(Append(read, l)) + 1 = Len(read) + 2
    BY <1>1
  <2>2. FrameOf(Append(read, l), Len(read) + 2)
          = FrameOf(read, Len(read) + 1) + (IF l.kind = "sep" THEN 1 ELSE 0)
    BY <1>1, NextFrame
  <2> QED
    BY <1>2, <1>3, <2>1, <2>2
<1>5. ASSUME l.kind = "reset"
      PROVE  q.open = par.open /\ q.frame = par.frame /\ q.seen = par.seen
  BY <1>1, <1>5 DEF After, Parsers
<1>6. ASSUME l.kind = "row"
      PROVE  /\ q.open /\ q.frame = n + 1 /\ r.kind = "source" /\ r.frame = n + 1
             /\ q.seen = IF Kept(l, Now) THEN par.seen \cup {l.label} ELSE par.seen
  <2>1. /\ q.open /\ q.frame = (IF par.open THEN par.frame ELSE par.frame + 1)
        /\ q.seen = IF Kept(l, Now) THEN par.seen \cup {l.label} ELSE par.seen
    BY <1>1, <1>6 DEF After, Parsers
  <2>2. q.frame = n + 1
    BY <1>2, <1>3, <2>1
  <2>3. r = Source(q.frame, q.baseline)
    BY <1>6 DEF RecordOf
  <2> HIDE DEF q, r
  <2> QED
    BY <2>1, <2>2, <2>3 DEF Source
<1>7. ASSUME l.kind = "sep"
      PROVE  /\ ~q.open /\ q.frame = n + 1 /\ q.seen = {}
             /\ r.kind = "frame_end" /\ r.frame = n + 1
             /\ task.pend > 0 /\ n + 1 <= Samples(active.w, active.s)
  <2>1. par.open /\ par.seen # {}
    BY <1>7 DEF Accepts
  <2>2. ~q.open /\ q.frame = par.frame /\ q.seen = {}
    BY <1>1, <1>7 DEF After, Parsers
  <2>3. r = FrameEnd(par.frame, par.baseline)
    BY <1>7 DEF RecordOf
  <2>4. r.kind = "frame_end" /\ r.frame = par.frame
    BY <2>3 DEF FrameEnd
  <2>5. FrameOf(read, Len(read) + 1) <= Samples(active.w, active.s)
    <3>1. Now.w = active.w /\ Now.s = active.s
      BY <1>1, TaskPlan DEF OInv
    <3> QED
      BY <3>1 DEF Delivers
  <2> HIDE DEF q, r
  <2> QED
    BY <1>2, <1>3, <2>1, <2>2, <2>4, <2>5
<1> HIDE DEF q, r, n
<1> QED
  BY <1>2, <1>4, <1>5, <1>6, <1>7 DEF q, r, n

\* At the parser's steps.
LEMMA ReadOutcome ==
    ASSUME OInv, Read \/ ReadRejected \/ Exit \/ Kill
    PROVE  Counting' /\ Parsing' /\ Requested' /\ Outcome'
<1> USE DEF OInv
<1>0. task \in Counters /\ active \in Requests \cup {NoRequest}
  BY DEF CInv, Types
<1>1. ASSUME NEW l \in Lines, ReadSilent(l)
      PROVE  Counting' /\ Parsing' /\ Requested' /\ Outcome'
  <2>1. Counting'
    BY <1>1, CountsKept DEF ReadSilent
  <2>2. Requested' /\ Outcome'
    BY <1>1 DEF ReadSilent, Requested, Outcome, Clean
  <2>3. CASE kind # "task"
    BY <1>1, <2>1, <2>2, <2>3 DEF ReadSilent, Parsing
  <2>4. CASE kind = "task"
    <3>1. /\ pc = "parse" /\ par' = After(par, l, Now) /\ read' = Append(read, l)
          /\ l.kind \in {"reset", "row"} /\ ~Kept(l, Now)
          /\ UNCHANGED <<pc, kind, task>>
      BY <1>1 DEF ReadSilent, Reads, Accepts, Kept
    <3>2. /\ FrameOf(read', Len(read') + 1) = task.sampled + 1
          /\ par'.seen = par.seen /\ task.pend \in Nat
          /\ \/ par'.open = par.open /\ par'.frame = par.frame
             \/ par'.open /\ par'.frame = task.sampled + 1
      BY <1>1, <2>4, <3>1, TaskLine DEF ReadSilent
    <3>3. Parsing'
      BY <2>4, <3>1, <3>2 DEF Parsing
    <3> QED
      BY <2>1, <2>2, <3>3
  <2> QED
    BY <2>3, <2>4
<1>2. ASSUME NEW l \in Lines, ReadLate(l)
      PROVE  Counting' /\ Parsing' /\ Requested' /\ Outcome'
  <2>1. Counting' /\ ctx \in {"cancelled", "deadline"}
    BY <1>2, CountsKept DEF ReadLate, CInv, Types
  <2> QED
    BY <1>2, <2>1, StopOutcome DEF ReadLate, Outcome
<1>3. CASE ReadRejected
  <2>1. Counting'
    BY <1>3, CountsKept DEF ReadRejected
  <2> QED
    BY <1>3, <2>1, StopOutcome DEF ReadRejected, Outcome
<1>4. ASSUME NEW s \in {"ok", "bad"}, Eof(s)
      PROVE  Counting' /\ Parsing' /\ Requested' /\ Outcome'
  <2>1. Counting'
    BY <1>4, CountsKept DEF Eof
  <2>2. kind = "task" /\ ~par.open => task.pend = 0
    BY <1>0, <1>4 DEF Eof, Parsing, Counters
  <2>3. Outcome'
    BY <1>4, <2>2 DEF Eof, AtEnd, Outcome
  <2> QED
    BY <1>4, <2>1, <2>3 DEF Eof, Parsing, Requested
<1>5. ASSUME NEW l \in Lines, TaskRecord(l)
      PROVE  Counting' /\ Parsing' /\ Requested' /\ Outcome'
  <2> DEFINE r == RecordOf(par, After(par, l, Now), l)
             t == Count(task, r)
  <2>1. /\ pc = "parse" /\ kind = "task" /\ Delivers(l) /\ Accepts(par, l, Now) /\ Kept(l, Now)
        /\ UNCHANGED <<active, due, kind, ctx, history>> /\ out \in Seq(Written)
    BY <1>5 DEF TaskRecord, CInv, Types
  <2>2. r \in Written
    BY <2>1, ParserStep DEF CInv, Types, Numbered
  <2>3. /\ task.sampled \in Nat /\ task.pend \in Nat /\ r.frame = task.sampled + 1
        /\ r.kind = "frame_end" => /\ l.kind = "sep" /\ task.pend > 0
                                   /\ task.sampled + 1 <= Samples(active.w, active.s)
        /\ r.kind = "source" => l.kind = "row"
        /\ l.kind \in {"row", "sep"}
    <3>1. l.kind \in {"row", "sep"}
      BY <2>1 DEF Kept
    <3> QED
      BY <2>1, <3>1, TaskLine
  <2>4. Backed(out, task) /\ task.stray = "none"
    BY <2>1 DEF Counting, Acknowledged, Outcome
  <2> HIDE DEF r
  <2>5. Backed(Append(out, r), t)
    BY <1>0, <2>1, <2>2, <2>3, <2>4, CountStep
  <2>6. /\ t.torn = task.torn /\ t.broken = task.broken /\ t.stray = task.stray
        /\ r.kind = "source" => t.pend = task.pend + 1 /\ t.sampled = task.sampled
        /\ r.kind = "frame_end" => t.pend = 0 /\ t.sampled = task.sampled + 1
        /\ t \in Counters
    <3>1. t \in Counters
      BY <1>0, CounterEdits
    <3>2. CASE r.kind = "source"
      <4>1. t = [task EXCEPT !.pend = task.pend + 1]
        BY <3>2 DEF Count
      <4> HIDE DEF t
      <4> QED
        BY <1>0, <3>1, <3>2, <4>1 DEF Counters
    <3>3. CASE r.kind # "source"
      <4>1. t = [task EXCEPT !.src = task.src + task.pend, !.pend = 0, !.sampled = task.sampled + 1]
        BY <3>3 DEF Count
      <4> HIDE DEF t
      <4> QED
        BY <1>0, <3>1, <3>3, <4>1 DEF Counters
    <3> QED
      BY <3>2, <3>3
  <2> HIDE DEF t
  <2>7. t.sampled <= Samples(active.w, active.s)
    BY <2>1, <2>2, <2>3, <2>6 DEF Outcome, Written
  <2>8. CASE /\ Reads(l) /\ out' = Append(out, r) /\ task' = t /\ UNCHANGED <<pc, child, err>>
    <3>1. Counting'
      BY <2>1, <2>4, <2>5, <2>6, <2>8 DEF Counting, Acknowledged
    <3>2. par' = After(par, l, Now) /\ read' = Append(read, l)
      BY <2>8 DEF Reads
    <3>3. ASSUME l.kind = "row"
          PROVE  Parsing'
      <4>1. /\ FrameOf(read', Len(read') + 1) = task.sampled + 1
            /\ par'.open /\ par'.frame = task.sampled + 1 /\ par'.seen = par.seen \cup {l.label}
        BY <2>1, <3>2, <3>3, TaskLine
      <4>2. r.kind = "source"
        BY <2>2, <2>3, <3>3 DEF Written
      <4>3. task'.pend # 0 /\ task'.sampled = task.sampled /\ par'.seen # {}
        <5>1. t.pend = task.pend + 1 /\ t.sampled = task.sampled
          BY <2>6, <4>2
        <5>2. task.pend + 1 # 0
          BY <2>3
        <5>3. par'.seen # {}
          BY <4>1
        <5> QED
          BY <2>8, <5>1, <5>2, <5>3
      <4> QED
        BY <2>1, <2>8, <4>1, <4>3 DEF Parsing
    <3>4. ASSUME l.kind = "sep"
          PROVE  Parsing'
      <4>1. /\ FrameOf(read', Len(read') + 1) = task.sampled + 2
            /\ ~par'.open /\ par'.frame = task.sampled + 1 /\ par'.seen = {}
        BY <2>1, <3>2, <3>4, TaskLine
      <4>2. r.kind = "frame_end"
        BY <2>2, <2>3, <3>4 DEF Written
      <4>3. task'.pend = 0 /\ task'.sampled = task.sampled + 1
        BY <2>6, <2>8, <4>2
      <4>4. FrameOf(read', Len(read') + 1) = task'.sampled + 1
        BY <2>3, <4>1, <4>3
      <4> QED
        BY <2>1, <2>8, <4>1, <4>3, <4>4 DEF Parsing
    <3>5. Parsing'
      BY <2>3, <3>3, <3>4
    <3>6. Outcome'
      BY <2>1, <2>4, <2>6, <2>7, <2>8 DEF Outcome
    <3> QED
      BY <2>1, <2>8, <3>1, <3>5, <3>6 DEF Requested
  <2>9. CASE /\ \E cut \in BOOLEAN : task' = [task EXCEPT !.broken = TRUE, !.torn = cut]
             /\ StopParsing("storage") /\ UNCHANGED out
    <3>1. /\ task'.pend = task.pend /\ task'.src = task.src /\ task'.sampled = task.sampled
          /\ task'.broken /\ task'.stray = task.stray
      BY <1>0, <2>9 DEF Counters
    <3>2. Counting'
      BY <2>1, <2>9, <3>1, CountsKept
    <3>3. task'.sampled <= Samples(active.w, active.s)
      BY <2>1, <3>1 DEF Outcome
    <3> QED
      BY <2>1, <2>9, <3>1, <3>2, <3>3, StopOutcome
  <2>10. CASE /\ r.kind = "frame_end" /\ out' = Append(out, r)
              /\ task' = [t EXCEPT !.broken = TRUE] /\ StopParsing("storage")
    <3>1. /\ task'.pend = t.pend /\ task'.src = t.src /\ task'.sampled = t.sampled
          /\ task'.broken /\ task'.stray = "none"
      BY <2>4, <2>6, <2>10 DEF Counters
    <3>2. RepairOf(task') = RepairOf(t) /\ CoverOf(task') = CoverOf(t)
      BY <3>1 DEF RepairOf, CoverOf
    <3>3. Counting'
      BY <2>5, <2>10, <3>1, <3>2 DEF Counting, Backed, Acknowledged
    <3>4. task'.sampled <= Samples(active.w, active.s)
      BY <2>7, <3>1
    <3> QED
      BY <2>1, <2>10, <3>1, <3>3, <3>4, StopOutcome
  <2>11. CASE /\ \E how \in {"ended", "bare"} : task' = [task EXCEPT !.broken = TRUE, !.stray = how]
              /\ StopParsing("storage") /\ out' = Append(out, r)
    <3>1. /\ task'.pend = task.pend /\ task'.src = task.src /\ task'.sampled = task.sampled
          /\ task'.broken /\ task'.stray # "none"
      BY <1>0, <2>11 DEF Counters
    <3>2. Front(out') = out
      BY <2>1, <2>2, <2>11, AppendFront
    <3>3. RepairOf(task') = RepairOf(task) /\ CoverOf(task') = CoverOf(task)
      BY <3>1 DEF RepairOf, CoverOf
    <3>4. Backed(Acknowledged', task')
      BY <2>4, <3>1, <3>2, <3>3 DEF Backed, Acknowledged
    <3>5. t.sampled \in {task'.sampled, task'.sampled + 1}
      BY <2>2, <2>6, <3>1 DEF Written
    <3>6. Counting'
      BY <2>5, <2>6, <2>11, <3>4, <3>5 DEF Counting
    <3>7. task'.sampled <= Samples(active.w, active.s)
      BY <2>1, <3>1 DEF Outcome
    <3> QED
      BY <2>1, <2>11, <3>1, <3>6, <3>7, StopOutcome
  <2> QED
    BY <1>5, <2>8, <2>9, <2>10, <2>11 DEF TaskRecord, r, t
<1>6. ASSUME NEW l \in Lines, BackgroundRecord(l)
      PROVE  Counting' /\ Parsing' /\ Requested' /\ Outcome'
  <2>1. /\ kind # "task" /\ kind' = kind /\ active' = active
        /\ pc' \in {"sync", "parse", "return"}
    BY <1>6 DEF BackgroundRecord, StopParsing
  <2> QED
    BY <2>1 DEF Counting, Parsing, Requested, Outcome
<1> QED
  BY <1>1, <1>2, <1>3, <1>4, <1>5, <1>6 DEF Read, Exit, Kill

\* OInv holds in every reachable state of the collector.
THEOREM OutcomeInvariant == Spec => []OInv
<1>1. OInv /\ [Next]_vars => OInv'
  <2> SUFFICES ASSUME OInv, [Next]_vars
               PROVE  OInv'
    OBVIOUS
  <2>1. CASE Next
    <3>1. CInv'
      BY <2>1, LoopStep, WorkStep, ReadStep DEF OInv, Next
    <3>2. Counting' /\ Parsing' /\ Requested' /\ Outcome'
      BY <2>1, LoopOutcome, WorkOutcome, ReadOutcome DEF Next
    <3> QED
      BY <3>1, <3>2 DEF OInv
  <2>2. CASE UNCHANGED vars
    <3>1. CInv'
      BY <2>2 DEF OInv, CInv, Types, Numbered, Settled, Filing, Durable, BackgroundYields
    <3>2. Counting'
      BY <2>2, CountsKept DEF OInv
    <3>3. Parsing' /\ Requested' /\ Outcome'
      BY <2>2 DEF OInv, Parsing, Requested, Outcome, Clean
    <3> QED
      BY <3>1, <3>2, <3>3 DEF OInv
  <2> QED
    BY <2>1, <2>2
<1> QED
  BY <1>1, InitOInv, PTL DEF Spec

\* What the folds say of records that back the counters t.
LEMMA BackedCounts ==
    ASSUME NEW t \in Counters, NEW rs, Backed(rs, t)
    PROVE  /\ ~Repair(rs).damaged /\ Repair(rs).src = t.src
           /\ Cardinality(Repair(rs).frames) = t.sampled
           /\ Coverage(rs) = t.src + t.sampled
<1>1. Repair(rs) = RepairOf(t) /\ Covered(rs) = CoverOf(t) /\ t.sampled \in Nat
  BY DEF Backed, Counters
<1>2. /\ ~RepairOf(t).damaged /\ RepairOf(t).src = t.src
      /\ RepairOf(t).frames = 1 .. t.sampled
      /\ CoverOf(t).total = t.src + t.sampled
  BY DEF RepairOf, CoverOf
<1>3. Cardinality(1 .. t.sampled) = t.sampled
  BY <1>1, FS_Interval
<1> QED
  BY <1>1, <1>2, <1>3 DEF Coverage

\* Without a failed append that left its record: the file that repair would
\* read back has as many frames as the task has counted.
LEMMA FramesCounted ==
    ASSUME OInv, kind = "task", task.stray = "none"
    PROVE  /\ ~Repair(out).damaged /\ Repair(out).src = task.src
           /\ Cardinality(Repair(out).frames) = task.sampled
           /\ Coverage(out) = task.src + task.sampled
<1>1. Backed(out, task) /\ task \in Counters
  BY DEF OInv, CInv, Types, Counting, Acknowledged
<1> QED
  BY <1>1, BackedCounts

\* runWindow's counters, archive's coverage and repair agree after every record
\* of a task, in every stream atop may write, whatever fails; but for the one
\* record that a failed append may leave whole at the end of the file.
THEOREM EvidenceCountsAgree == Spec => []CountsAgree
<1>1. OInv => CountsAgree
  <2> SUFFICES ASSUME OInv, kind = "task"
               PROVE  CountsAgree
    BY DEF CountsAgree
  <2>0. task \in Counters /\ task.stray \in {"none", "ended", "bare"}
    BY DEF OInv, CInv, Types, Counters
  <2>1. CASE task.stray = "none"
    <3>1. Scanned = out /\ Acknowledged = out
      BY <2>1 DEF Scanned, Acknowledged
    <3> QED
      BY <2>0, <2>1, <3>1, FramesCounted DEF CountsAgree
  <2>2. CASE task.stray # "none"
    <3>1. Backed(Acknowledged, task)
      BY DEF OInv, Counting
    <3>2. PICK t \in Counters : Backed(out, t) /\ t.sampled \in {task.sampled, task.sampled + 1}
      BY <2>2 DEF OInv, Counting
    <3>3. Scanned = out \/ Scanned = Acknowledged
      BY <2>2 DEF Scanned, Acknowledged
    <3>4. /\ ~Repair(Acknowledged).damaged /\ Repair(Acknowledged).src = task.src
          /\ Cardinality(Repair(Acknowledged).frames) = task.sampled
      BY <2>0, <3>1, BackedCounts
    <3>5. /\ ~Repair(out).damaged /\ Repair(out).src = t.src
          /\ Cardinality(Repair(out).frames) = t.sampled
          /\ Coverage(out) = t.src + t.sampled
      BY <3>2, BackedCounts
    <3>6. ~Repair(Scanned).damaged
      BY <3>3, <3>4, <3>5
    <3> QED
      BY <2>2, <3>2, <3>4, <3>5, <3>6 DEF CountsAgree
  <2> QED
    BY <2>1, <2>2
<1> QED
  BY <1>1, OutcomeInvariant, PTL

\* A completed task has every planned point in a committed frame, from an atop
\* that ended by itself with status 0, in time, without a storage failure.
THEOREM CompletedMeansWhole == Spec => []CompletedIsWhole
<1>1. OInv => CompletedIsWhole
  <2> SUFFICES ASSUME OInv, pc = "done", task.state = "completed"
               PROVE  /\ Cardinality(Repair(out).frames) = Planned /\ task.pend = 0
                      /\ child = "ok" /\ ctx = "live" /\ ~task.broken
    BY DEF CompletedIsWhole
  <2>1. kind = "task" /\ active \in Requests \cup {NoRequest}
    BY DEF OInv, CInv, Types, Requested
  <2>2. Planned = Samples(active.w, active.s)
    BY <2>1, TaskPlan DEF OInv
  <2>3. task.stray = "none"
    BY <2>1 DEF OInv, Outcome, Clean
  <2> QED
    BY <2>1, <2>2, <2>3, FramesCounted DEF OInv, Outcome, Clean
<1> QED
  BY <1>1, OutcomeInvariant, PTL

\* A window in which atop delivered every sample it was asked for and ended
\* normally, in time, without a storage failure, is completed.
THEOREM WholeMeansCompleted == Spec => []WholeWindowCompletes
<1>1. OInv => WholeWindowCompletes
  <2> SUFFICES ASSUME OInv, pc = "done", err = "none", ~task.broken,
                      Cardinality(Repair(out).frames) = Samples(Now.w, Now.s)
               PROVE  task.state = "completed"
    BY DEF WholeWindowCompletes
  <2>1. kind = "task" /\ active \in Requests \cup {NoRequest}
    BY DEF OInv, CInv, Types, Requested
  <2>2. Now.w = active.w /\ Now.s = active.s
    BY <2>1, TaskPlan DEF OInv
  <2>3. task.stray = "none"
    BY <2>1 DEF OInv, Outcome
  <2>4. task.sampled = Samples(active.w, active.s)
    BY <2>1, <2>2, <2>3, FramesCounted
  <2> QED
    BY <2>1, <2>4 DEF OInv, Outcome
<1> QED
  BY <1>1, OutcomeInvariant, PTL

-----------------------------------------------------------------------------
(* The parser and the reference definition of its streams.                 *)

\* What the parser's locals say of the lines s it has read.
Heard(p, s, spec) ==
    /\ p.first <=> \A j \in DOMAIN s : s[j].kind # "sep"
    /\ p.open <=> OpenRows(s) # {}
    /\ p.baseline <=> p.first /\ s # << >>
    /\ p.seen = OpenLabels(s, spec)
    /\ p.frame = FrameOf(s, Len(s) + 1) - (IF p.open THEN 0 ELSE 1)
    /\ \A j \in OpenRows(s) : s[j].epoch = p.epoch
    /\ \A j \in RowsOf(s) \ OpenRows(s) : IF p.open THEN s[j].epoch < p.epoch
                                                   ELSE s[j].epoch <= p.epoch
    /\ ~p.first => \E j \in RowsOf(s) : s[j].epoch = p.epoch
    /\ \A j \in DOMAIN s : /\ s[j].kind # "junk"
                           /\ s[j].kind = "reset" => \A k \in 1 .. j : s[k].kind = "reset"

\* The first frame whose records are in the file of the session.
From == IF kind = "task" THEN 1 ELSE FrameOf(read, Len(read) + 1)

\* The parser knows what matters of what it read, its records are in the file,
\* and a background file is published between two frames.
Reading ==
    /\ pc \in {"parse", "sync", "publish"} => Heard(par, read, Now)
    /\ pc = "parse" => Emitted(out, read, From, Now)
    /\ pc \in {"sync", "publish"} => kind # "task" /\ EndsWell(read)

\* One line more.
LEMMA LineAdded ==
    ASSUME NEW s \in Seq(Lines), NEW l \in Lines
    PROVE  LET t == Append(s, l)
           IN  /\ t \in Seq(Lines) /\ Len(s) \in Nat /\ Len(t) = Len(s) + 1
               /\ DOMAIN s = 1 .. Len(s) /\ DOMAIN t = 1 .. Len(s) + 1
               /\ t[Len(s) + 1] = l /\ \A j \in 1 .. Len(s) : t[j] = s[j]
  OBVIOUS

\* The open frame after one line more.
LEMMA OpenAdded ==
    ASSUME NEW s \in Seq(Lines), NEW l \in Lines, NEW t, t = Append(s, l)
    PROVE  /\ RowsOf(t) = IF l.kind = "row" THEN RowsOf(s) \cup {Len(s) + 1} ELSE RowsOf(s)
           /\ OpenRows(t) = IF l.kind = "sep" THEN {}
                            ELSE IF l.kind = "row" THEN OpenRows(s) \cup {Len(s) + 1}
                            ELSE OpenRows(s)
<1>0. /\ Len(s) \in Nat /\ Len(t) = Len(s) + 1
      /\ DOMAIN s = 1 .. Len(s) /\ DOMAIN t = 1 .. Len(s) + 1
      /\ t[Len(s) + 1] = l /\ \A j \in 1 .. Len(s) : t[j] = s[j]
  BY LineAdded
<1>1. RowsOf(t) = IF l.kind = "row" THEN RowsOf(s) \cup {Len(s) + 1} ELSE RowsOf(s)
  BY <1>0 DEF RowsOf
<1>2. RowsOf(s) \subseteq 1 .. Len(s) /\ RowsOf(t) \subseteq 1 .. Len(s) + 1
  BY <1>0 DEF RowsOf
<1>3. CASE l.kind = "sep"
  <2>1. ASSUME NEW j \in OpenRows(t) PROVE FALSE
    <3>1. j \in 1 .. Len(s) + 1 /\ \A k \in j .. Len(t) : t[k].kind # "sep"
      BY <1>2, <2>1 DEF OpenRows
    <3>2. Len(s) + 1 \in j .. Len(t)
      BY <1>0, <3>1
    <3> QED
      BY <1>0, <1>3, <3>1, <3>2
  <2> QED
    BY <1>1, <1>3, <2>1
<1>4. CASE l.kind # "sep"
  <2>1. ASSUME NEW j \in 1 .. Len(s)
        PROVE  (\A k \in j .. Len(t) : t[k].kind # "sep") <=> (\A k \in j .. Len(s) : s[k].kind # "sep")
    <3>1. \A k \in j .. Len(t) : k \in j .. Len(s) \/ k = Len(s) + 1
      BY <1>0
    <3>2. \A k \in j .. Len(s) : k \in j .. Len(t) /\ t[k] = s[k]
      BY <1>0
    <3> QED
      BY <1>0, <1>4, <3>1, <3>2
  <2>2. \A k \in Len(s) + 1 .. Len(t) : t[k].kind # "sep"
    BY <1>0, <1>4
  <2>3. \A j \in 1 .. Len(s) : j \in OpenRows(t) <=> j \in OpenRows(s)
    <3>1. \A j \in 1 .. Len(s) : j \in RowsOf(t) <=> j \in RowsOf(s)
      BY <1>0, <1>1
    <3> QED
      BY <2>1, <3>1 DEF OpenRows
  <2>4. Len(s) + 1 \in OpenRows(t) <=> l.kind = "row"
    BY <1>0, <1>1, <1>2, <2>2 DEF OpenRows
  <2>5. OpenRows(t) \subseteq 1 .. Len(s) + 1 /\ OpenRows(s) \subseteq 1 .. Len(s)
    BY <1>2 DEF OpenRows
  <2>6. \A j \in 1 .. Len(s) + 1 : j \in 1 .. Len(s) \/ j = Len(s) + 1
    BY <1>0
  <2>7. Len(s) + 1 \notin 1 .. Len(s)
    BY <1>0
  <2>8. CASE l.kind = "row"
    <3>1. OpenRows(t) = OpenRows(s) \cup {Len(s) + 1}
      BY <2>3, <2>4, <2>5, <2>6, <2>8
    <3> QED
      BY <1>1, <2>8, <3>1
  <2>9. CASE l.kind # "row"
    <3>1. OpenRows(t) = OpenRows(s)
      BY <2>3, <2>4, <2>5, <2>6, <2>7, <2>9
    <3> QED
      BY <1>1, <1>4, <2>9, <3>1
  <2> QED
    BY <2>8, <2>9
<1> QED
  BY <1>3, <1>4

\* The labels of the open frame after one line more.
LEMMA LabelsAdded ==
    ASSUME NEW s \in Seq(Lines), NEW l \in Lines, NEW t, t = Append(s, l), NEW spec
    PROVE  OpenLabels(t, spec) = IF l.kind = "sep" THEN {}
                                 ELSE IF l.kind = "row" /\ Kept(l, spec)
                                 THEN OpenLabels(s, spec) \cup {l.label}
                                 ELSE OpenLabels(s, spec)
<1>0. /\ Len(s) \in Nat /\ Len(t) = Len(s) + 1
      /\ DOMAIN s = 1 .. Len(s) /\ DOMAIN t = 1 .. Len(s) + 1
      /\ t[Len(s) + 1] = l /\ \A j \in 1 .. Len(s) : t[j] = s[j]
  BY LineAdded
<1>1. OpenRows(t) = IF l.kind = "sep" THEN {}
                    ELSE IF l.kind = "row" THEN OpenRows(s) \cup {Len(s) + 1}
                    ELSE OpenRows(s)
  BY OpenAdded
<1>2. \A j \in OpenRows(s) : t[j] = s[j]
  BY <1>0 DEF OpenRows, RowsOf
<1>3. CASE l.kind = "sep"
  BY <1>1, <1>3 DEF OpenLabels
<1>4. CASE l.kind = "row"
  <2>1. OpenRows(t) = OpenRows(s) \cup {Len(s) + 1}
    BY <1>1, <1>4
  <2>2. CASE Kept(l, spec)
    <3>1. {k \in OpenRows(t) : Kept(t[k], spec)}
            = {k \in OpenRows(s) : Kept(s[k], spec)} \cup {Len(s) + 1}
      BY <1>0, <1>2, <2>1, <2>2
    <3> DEFINE K == {k \in OpenRows(s) : Kept(s[k], spec)}
    <3>2. OpenLabels(t, spec) = {t[j].label : j \in K \cup {Len(s) + 1}}
      BY <3>1 DEF OpenLabels
    <3>3. {t[j].label : j \in K \cup {Len(s) + 1}} = {t[j].label : j \in K} \cup {t[Len(s) + 1].label}
      BY Zenon
    <3>4. {t[j].label : j \in K} = OpenLabels(s, spec)
      BY <1>2 DEF OpenLabels
    <3>5. OpenLabels(t, spec) = OpenLabels(s, spec) \cup {l.label}
      BY <1>0, <3>2, <3>3, <3>4, Zenon
    <3> QED
      BY <1>4, <2>2, <3>5, Zenon
  <2>3. CASE ~Kept(l, spec)
    <3>1. {k \in OpenRows(t) : Kept(t[k], spec)} = {k \in OpenRows(s) : Kept(s[k], spec)}
      BY <1>0, <1>2, <2>1, <2>3
    <3>2. OpenLabels(t, spec) = OpenLabels(s, spec)
      BY <1>2, <3>1 DEF OpenLabels
    <3> QED
      BY <1>4, <2>3, <3>2, Zenon
  <2> QED
    BY <2>2, <2>3
<1>5. CASE l.kind \notin {"sep", "row"}
  BY <1>1, <1>2, <1>5 DEF OpenLabels
<1> QED
  BY <1>3, <1>4, <1>5

\* Frames are numbered from 1 in the order of the lines; a separator at the end
\* closes the frames of all lines.
LEMMA FrameFacts ==
    ASSUME NEW s \in Seq(Lines)
    PROVE  /\ \A j \in 1 .. Len(s) + 1 : /\ FrameOf(s, j) \in Nat /\ 1 <= FrameOf(s, j)
                                         /\ FrameOf(s, j) <= FrameOf(s, Len(s) + 1)
           /\ FrameOf(s, Len(s) + 1) = 1 <=> \A j \in DOMAIN s : s[j].kind # "sep"
           /\ EndsWell(s) => \A j \in DOMAIN s : FrameOf(s, j) < FrameOf(s, Len(s) + 1)
<1> DEFINE seps(i) == {j \in 1 .. i - 1 : s[j].kind = "sep"}
           all == seps(Len(s) + 1)
<1>0. Len(s) \in Nat /\ DOMAIN s = 1 .. Len(s)
  OBVIOUS
<1>1. IsFiniteSet(all) /\ Cardinality(all) \in Nat
  <2>1. IsFiniteSet(1 .. Len(s))
    BY <1>0, FS_Interval
  <2>2. all \subseteq 1 .. Len(s)
    BY <1>0
  <2> QED
    BY <2>1, <2>2, FS_Subset, FS_CardinalityType
<1>2. \A j \in 1 .. Len(s) + 1 : seps(j) \subseteq all
  BY <1>0
<1>3. \A j \in 1 .. Len(s) + 1 : /\ IsFiniteSet(seps(j)) /\ Cardinality(seps(j)) \in Nat
                                 /\ Cardinality(seps(j)) <= Cardinality(all)
  <2> HIDE DEF seps, all
  <2> QED
    BY <1>1, <1>2, FS_Subset, FS_CardinalityType
<1>4. \A j : FrameOf(s, j) = Cardinality(seps(j)) + 1
  BY DEF FrameOf
<1>5. FrameOf(s, Len(s) + 1) = 1 <=> \A j \in DOMAIN s : s[j].kind # "sep"
  <2>1. Cardinality(all) = 0 <=> all = {}
    <3> HIDE DEF seps, all
    <3> QED
      BY <1>1, FS_EmptySet
  <2>2. all = {} <=> \A j \in DOMAIN s : s[j].kind # "sep"
    BY <1>0
  <2> QED
    BY <1>1, <1>4, <2>1, <2>2
<1>6. ASSUME EndsWell(s), NEW j \in DOMAIN s
      PROVE  FrameOf(s, j) < FrameOf(s, Len(s) + 1)
  <2>1. Len(s) \in all /\ seps(j) \subseteq all \ {Len(s)}
    <3>1. Len(s) > 0
      BY <1>0, <1>6
    <3> QED
      BY <1>0, <1>6, <3>1 DEF EndsWell
  <2>2. /\ IsFiniteSet(all \ {Len(s)})
        /\ Cardinality(all \ {Len(s)}) = Cardinality(all) - 1
    <3> HIDE DEF seps, all
    <3> QED
      BY <1>1, <2>1, FS_RemoveElement
  <2>3. Cardinality(seps(j)) <= Cardinality(all \ {Len(s)})
    <3> HIDE DEF seps, all
    <3> QED
      BY <2>1, <2>2, FS_Subset
  <2>4. Cardinality(seps(j)) \in Nat
    <3>1. j \in 1 .. Len(s) + 1
      BY <1>0
    <3> HIDE DEF seps, all
    <3> QED
      BY <1>3, <3>1
  <2> HIDE DEF seps, all
  <2> QED
    BY <1>1, <1>4, <2>2, <2>3, <2>4 DEF all
<1>7. ASSUME NEW j \in 1 .. Len(s) + 1
      PROVE  /\ FrameOf(s, j) \in Nat /\ 1 <= FrameOf(s, j)
             /\ FrameOf(s, j) <= FrameOf(s, Len(s) + 1)
  <2>1. Cardinality(seps(j)) \in Nat /\ Cardinality(seps(j)) <= Cardinality(all)
    BY <1>3
  <2> HIDE DEF seps
  <2> QED
    BY <1>1, <1>4, <2>1
<1> QED
  BY <1>5, <1>6, <1>7

\* A line more does not renumber the lines before it.
LEMMA FrameAdded ==
    ASSUME NEW s \in Seq(Lines), NEW l \in Lines, NEW j \in 1 .. Len(s) + 1
    PROVE  FrameOf(Append(s, l), j) = FrameOf(s, j)
<1>1. {k \in 1 .. j - 1 : Append(s, l)[k].kind = "sep"} = {k \in 1 .. j - 1 : s[k].kind = "sep"}
  <2>1. \A k \in 1 .. j - 1 : k \in 1 .. Len(s)
    OBVIOUS
  <2> QED
    BY <2>1, LineAdded
<1> QED
  BY <1>1 DEF FrameOf

\* A parser that knows what matters of a stream accepts the lines that may
\* follow it, and reports success where it ends well.
LEMMA HeardAgrees ==
    ASSUME NEW p \in Parsers, NEW s \in Seq(Lines), NEW spec, Heard(p, s, spec)
    PROVE  /\ \A l \in Lines : Accepts(p, l, spec) <=> MayFollow(s, l, spec)
           /\ AtEnd(p) <=> EndsWell(s)
<1>0. /\ Len(s) \in Nat /\ DOMAIN s = 1 .. Len(s) /\ (s # << >> <=> Len(s) > 0)
      /\ \A j \in DOMAIN s : s[j] \in Lines
  OBVIOUS
<1>1. \A j \in DOMAIN s : s[j].kind \in {"reset", "sep", "row"}
  BY <1>0, LineFields DEF Heard
<1>2. /\ RowsOf(s) \subseteq DOMAIN s /\ OpenRows(s) \subseteq RowsOf(s)
      /\ \A j \in RowsOf(s) : s[j].kind = "row" /\ s[j].epoch \in Nat
  <2>1. Epochs \subseteq Nat
    BY CollectAssumption
  <2> QED
    BY <1>0, <2>1, LineFields DEF RowsOf, OpenRows
<1>3. Resets(p) <=> \A j \in DOMAIN s : s[j].kind = "reset"
  <2>1. ASSUME ~p.open, p.first, NEW j \in DOMAIN s
        PROVE  s[j].kind = "reset"
    BY <1>0, <1>1, <2>1 DEF Heard, OpenRows, RowsOf
  <2>2. ASSUME \A j \in DOMAIN s : s[j].kind = "reset"
        PROVE  ~p.open /\ p.first
    BY <1>2, <2>2 DEF Heard
  <2> QED
    BY <2>1, <2>2 DEF Resets
<1>4. CompleteLabels(spec.scenes, p.seen) => p.open /\ p.seen # {}
  <2>1. ASSUME CompleteLabels(spec.scenes, p.seen)
        PROVE  p.seen # {}
    BY <2>1 DEF CompleteLabels
  <2>2. p.seen # {} => OpenRows(s) # {}
    BY DEF Heard, OpenLabels
  <2> QED
    BY <2>1, <2>2 DEF Heard
<1>5. ASSUME NEW l \in Lines, l.kind = "row"
      PROVE  (IF p.open THEN l.epoch = p.epoch ELSE Opens(p, l))
               <=> /\ s # << >> /\ \A j \in OpenRows(s) : s[j].epoch = l.epoch
                   /\ \A j \in RowsOf(s) \ OpenRows(s) : s[j].epoch < l.epoch
  <2>0. l.epoch \in Nat /\ p.epoch \in Nat
    BY <1>5, LineFields, CollectAssumption DEF Parsers
  <2>1. CASE p.open
    <3>1. s # << >> /\ OpenRows(s) # {}
      BY <1>0, <1>2, <2>1 DEF Heard
    <3> QED
      BY <2>1, <3>1, <2>0 DEF Heard
  <2>2. CASE ~p.open /\ p.first
    <3>1. OpenRows(s) = {} /\ RowsOf(s) = {}
      BY <1>0, <1>1, <2>2 DEF Heard, OpenRows, RowsOf
    <3> QED
      BY <2>2, <3>1 DEF Heard, Opens
  <2>3. CASE ~p.open /\ ~p.first
    <3>1. OpenRows(s) = {} /\ s # << >>
      BY <1>0, <2>3 DEF Heard
    <3>2. Opens(p, l) <=> l.epoch > p.epoch
      BY <2>3 DEF Opens
    <3>3. /\ \A j \in RowsOf(s) : s[j].epoch <= p.epoch
          /\ \E j \in RowsOf(s) : s[j].epoch = p.epoch
      BY <2>3, <3>1 DEF Heard
    <3>4. l.epoch > p.epoch <=> \A j \in RowsOf(s) : s[j].epoch < l.epoch
      BY <1>2, <2>0, <3>3
    <3> QED
      BY <2>3, <3>1, <3>2, <3>4
  <2> QED
    BY <2>1, <2>2, <2>3
<1>6. ASSUME NEW l \in Lines
      PROVE  Accepts(p, l, spec) <=> MayFollow(s, l, spec)
  BY <1>3, <1>4, <1>5 DEF Accepts, MayFollow, Heard
<1>7. AtEnd(p) <=> EndsWell(s)
  <2>1. ASSUME EndsWell(s) PROVE AtEnd(p)
    <3>1. Len(s) \in DOMAIN s /\ s[Len(s)].kind = "sep"
      BY <1>0, <2>1 DEF EndsWell
    <3>2. OpenRows(s) = {}
      <4>1. ASSUME NEW j \in OpenRows(s) PROVE FALSE
        BY <1>0, <1>2, <3>1, <4>1 DEF OpenRows
      <4> QED
        BY <4>1
    <3> QED
      BY <3>1, <3>2 DEF Heard, AtEnd
  <2>2. ASSUME AtEnd(p) PROVE EndsWell(s)
    <3>1. ~p.open /\ ~p.first
      BY <2>2 DEF AtEnd
    <3>2. PICK i \in DOMAIN s : s[i].kind = "sep"
      BY <3>1 DEF Heard
    <3>3. Len(s) \in DOMAIN s /\ i \in 1 .. Len(s)
      BY <1>0
    <3>4. s[Len(s)].kind # "reset"
      BY <3>2, <3>3 DEF Heard
    <3>5. s[Len(s)].kind # "row"
      <4>1. ASSUME s[Len(s)].kind = "row" PROVE Len(s) \in OpenRows(s)
        BY <1>0, <3>3, <4>1 DEF OpenRows, RowsOf
      <4> QED
        BY <3>1, <4>1 DEF Heard
    <3> QED
      BY <1>0, <1>1, <3>3, <3>4, <3>5 DEF EndsWell
  <2> QED
    BY <2>1, <2>2
<1> QED
  BY <1>6, <1>7

\* Nothing was read yet.
LEMMA HeardNothing ==
    ASSUME NEW spec
    PROVE  Heard(ParserStart, << >>, spec) /\ \A n : Emitted(<< >>, << >>, n, spec)
<1>1. RowsOf(<< >>) = {} /\ OpenRows(<< >>) = {} /\ OpenLabels(<< >>, spec) = {}
  BY DEF RowsOf, OpenRows, OpenLabels
<1>2. FrameOf(<< >>, Len(<< >>) + 1) = 1
  BY NextFrame
<1>3. Heard(ParserStart, << >>, spec)
  BY <1>1, <1>2 DEF Heard, ParserStart
<1>4. \A n : KeptFrom(<< >>, n, spec) = {}
  BY DEF KeptFrom
<1> QED
  BY <1>3, <1>4, FS_EmptySet DEF Emitted

\* A line that is accepted: the parser still knows what matters.
LEMMA HeardStep ==
    ASSUME NEW p \in Parsers, NEW s \in Seq(Lines), NEW spec, Heard(p, s, spec),
           NEW l \in Lines, Accepts(p, l, spec)
    PROVE  Heard(After(p, l, spec), Append(s, l), spec)
<1> DEFINE t == Append(s, l)
           q == After(p, l, spec)
           N == Len(s) + 1
<1>0. /\ Len(s) \in Nat /\ Len(t) = N /\ DOMAIN s = 1 .. Len(s) /\ DOMAIN t = 1 .. N
      /\ t[N] = l /\ \A j \in 1 .. Len(s) : t[j] = s[j]
  BY LineAdded
<1>1. /\ RowsOf(t) = IF l.kind = "row" THEN RowsOf(s) \cup {N} ELSE RowsOf(s)
      /\ OpenRows(t) = IF l.kind = "sep" THEN {}
                       ELSE IF l.kind = "row" THEN OpenRows(s) \cup {N} ELSE OpenRows(s)
  BY OpenAdded
<1>2. OpenLabels(t, spec) = IF l.kind = "sep" THEN {}
                            ELSE IF l.kind = "row" /\ Kept(l, spec)
                            THEN OpenLabels(s, spec) \cup {l.label} ELSE OpenLabels(s, spec)
  <2> HIDE DEF t
  <2>1. t = Append(s, l)
    BY DEF t
  <2> QED
    BY <2>1, LabelsAdded, Zenon
<1>3. /\ FrameOf(t, Len(t) + 1) = FrameOf(s, N) + (IF l.kind = "sep" THEN 1 ELSE 0)
      /\ FrameOf(s, N) \in Nat
  <2>1. Len(t) + 1 = Len(s) + 2
    BY <1>0
  <2> QED
    BY <2>1, NextFrame
<1>4. /\ RowsOf(s) \subseteq 1 .. Len(s) /\ OpenRows(s) \subseteq RowsOf(s)
      /\ \A j \in RowsOf(s) : t[j] = s[j] /\ s[j].epoch \in Nat
  <2>1. \A j \in 1 .. Len(s) : s[j] \in Lines
    BY <1>0
  <2>2. Epochs \subseteq Nat
    BY CollectAssumption
  <2> QED
    BY <1>0, <2>1, <2>2, LineFields DEF RowsOf, OpenRows
<1>5. t # << >> /\ (s # << >> <=> Len(s) > 0)
  BY <1>0
<1>6. \A j \in 1 .. N : j \in 1 .. Len(s) \/ j = N
  BY <1>0
<1>7. MayFollow(s, l, spec) /\ l.kind \in {"reset", "sep", "row"}
  BY HeardAgrees DEF Accepts
<1>8. \A j \in DOMAIN t : /\ t[j].kind # "junk"
                          /\ t[j].kind = "reset" => \A k \in 1 .. j : t[k].kind = "reset"
  <2>1. ASSUME NEW j \in 1 .. Len(s)
        PROVE  /\ t[j].kind # "junk"
               /\ t[j].kind = "reset" => \A k \in 1 .. j : t[k].kind = "reset"
    BY <1>0 DEF Heard
  <2>2. l.kind = "reset" => \A k \in 1 .. N : t[k].kind = "reset"
    BY <1>0, <1>6, <1>7 DEF MayFollow
  <2> QED
    BY <1>0, <1>6, <1>7, <2>1, <2>2
<1>9. (\A j \in DOMAIN t : t[j].kind # "sep") <=> p.first /\ l.kind # "sep"
  BY <1>0, <1>6 DEF Heard
<1> HIDE DEF t
<1>10. ASSUME l.kind = "reset" PROVE Heard(q, t, spec)
  <2>1. p.first /\ ~p.open
    BY <1>10 DEF Accepts, Resets
  <2>2. /\ q.open = p.open /\ q.first = p.first /\ q.baseline = TRUE /\ q.epoch = p.epoch
        /\ q.seen = p.seen /\ q.frame = p.frame
    BY <1>10 DEF After, Parsers
  <2> HIDE DEF q
  <2>3. RowsOf(t) = RowsOf(s) /\ OpenRows(t) = OpenRows(s) /\ OpenLabels(t, spec) = OpenLabels(s, spec)
    BY <1>1, <1>2, <1>10
  <2>4. FrameOf(t, Len(t) + 1) = FrameOf(s, N)
    BY <1>3, <1>10
  <2> QED
    BY <1>4, <1>5, <1>8, <1>9, <1>10, <2>1, <2>2, <2>3, <2>4 DEF Heard
<1>11. ASSUME l.kind = "sep" PROVE Heard(q, t, spec)
  <2>1. p.open /\ OpenRows(s) # {}
    BY <1>11 DEF Accepts, Heard
  <2>2. /\ q.open = FALSE /\ q.first = FALSE /\ q.baseline = FALSE /\ q.epoch = p.epoch
        /\ q.seen = {} /\ q.frame = p.frame
    BY <1>11 DEF After, Parsers
  <2> HIDE DEF q
  <2>3. RowsOf(t) = RowsOf(s) /\ OpenRows(t) = {} /\ OpenLabels(t, spec) = {}
    BY <1>1, <1>2, <1>11
  <2>4. FrameOf(t, Len(t) + 1) = FrameOf(s, N) + 1
    BY <1>3, <1>11
  <2>5. p.epoch \in Nat
    BY DEF Parsers
  <2>6. /\ \A j \in RowsOf(t) : t[j].epoch <= q.epoch
        /\ \E j \in RowsOf(t) : t[j].epoch = q.epoch
    BY <1>4, <2>1, <2>2, <2>3, <2>5 DEF Heard
  <2> QED
    BY <1>3, <1>8, <1>9, <1>11, <2>1, <2>2, <2>3, <2>4, <2>6 DEF Heard
<1>12. ASSUME l.kind = "row" PROVE Heard(q, t, spec)
  <2>1. /\ q.open = TRUE /\ q.first = p.first /\ q.baseline = p.baseline /\ q.epoch = l.epoch
        /\ q.seen = (IF Kept(l, spec) THEN p.seen \cup {l.label} ELSE p.seen)
        /\ q.frame = (IF p.open THEN p.frame ELSE p.frame + 1)
    BY <1>12 DEF After, Parsers
  <2> HIDE DEF q
  <2>2. RowsOf(t) = RowsOf(s) \cup {N} /\ OpenRows(t) = OpenRows(s) \cup {N}
    BY <1>1, <1>12
  <2>3. q.seen = OpenLabels(t, spec)
    BY <1>2, <1>12, <2>1 DEF Heard
  <2>4. q.frame = FrameOf(t, Len(t) + 1)
    BY <1>3, <1>12, <2>1 DEF Heard
  <2>5. /\ s # << >> /\ \A j \in OpenRows(s) : s[j].epoch = l.epoch
        /\ \A j \in RowsOf(s) \ OpenRows(s) : s[j].epoch < l.epoch
    BY <1>7, <1>12 DEF MayFollow
  <2>6. q.baseline <=> q.first /\ t # << >>
    BY <1>5, <2>1, <2>5 DEF Heard
  <2>7. \A j \in OpenRows(t) : t[j].epoch = q.epoch
    BY <1>0, <1>4, <2>1, <2>2, <2>5
  <2>8. \A j \in RowsOf(t) \ OpenRows(t) : t[j].epoch < q.epoch
    BY <1>4, <2>1, <2>2, <2>5
  <2>9. \E j \in RowsOf(t) : t[j].epoch = q.epoch
    BY <1>0, <2>1, <2>2
  <2>10. q.first <=> \A j \in DOMAIN t : t[j].kind # "sep"
    BY <1>9, <1>12, <2>1
  <2>11. q.open <=> OpenRows(t) # {}
    BY <2>1, <2>2
  <2>12. q.frame = FrameOf(t, Len(t) + 1) - (IF q.open THEN 0 ELSE 1)
    BY <1>3, <1>12, <2>1, <2>4
  <2> QED
    BY <1>8, <2>1, <2>3, <2>6, <2>7, <2>8, <2>9, <2>10, <2>11, <2>12 DEF Heard
<1> QED
  BY <1>7, <1>10, <1>11, <1>12, Zenon DEF t

\* The record of an accepted line is the one the reference has for it.
LEMMA RecordHeard ==
    ASSUME NEW p \in Parsers, NEW s \in Seq(Lines), NEW spec, Heard(p, s, spec),
           NEW l \in Lines, Accepts(p, l, spec), Kept(l, spec)
    PROVE  RecordOf(p, After(p, l, spec), l) = RecordAt(Append(s, l), Len(s) + 1)
<1> DEFINE n == FrameOf(s, Len(s) + 1)
           t == Append(s, l)
           q == After(p, l, spec)
<1>1. Len(s) + 1 \in 1 .. Len(s) + 1 /\ t[Len(s) + 1] = l
  BY LineAdded
<1>2. FrameOf(t, Len(s) + 1) = n
  BY <1>1, FrameAdded
<1>3. n \in Nat /\ (n = 1 <=> p.first)
  BY <1>1, FrameFacts DEF Heard
<1>4. RecordAt(t, Len(s) + 1) = IF l.kind = "sep" THEN FrameEnd(n, n = 1) ELSE Source(n, n = 1)
  <2> HIDE DEF n, t
  <2> QED
    BY <1>1, <1>2 DEF RecordAt
<1>5. MayFollow(s, l, spec)
  BY HeardAgrees
<1>6. CASE l.kind = "sep"
  <2>1. p.open /\ s # << >>
    <3>1. p.open
      BY <1>6 DEF Accepts
    <3> QED
      BY <3>1 DEF Heard, OpenRows, RowsOf
  <2>2. p.frame = n /\ p.baseline = (n = 1)
    <3>1. p.frame = n
      BY <1>3, <2>1 DEF Heard
    <3>2. p.baseline \in BOOLEAN /\ (p.baseline <=> n = 1)
      BY <1>3, <2>1 DEF Heard, Parsers
    <3> QED
      BY <3>1, <3>2
  <2> QED
    BY <1>4, <1>6, <2>2 DEF RecordOf
<1>7. CASE l.kind = "row"
  <2>1. s # << >>
    BY <1>5, <1>7 DEF MayFollow
  <2>2. q.frame = (IF p.open THEN p.frame ELSE p.frame + 1) /\ q.baseline = p.baseline
    BY <1>7 DEF After, Parsers
  <2>3. q.frame = n
    BY <1>3, <2>2 DEF Heard
  <2>4. q.baseline = (n = 1)
    <3>1. p.baseline \in BOOLEAN /\ (p.baseline <=> n = 1)
      BY <1>3, <2>1 DEF Heard, Parsers
    <3> QED
      BY <2>2, <3>1
  <2> QED
    BY <1>4, <1>7, <2>3, <2>4 DEF RecordOf
<1> QED
  BY <1>6, <1>7 DEF Kept

\* A line more, with its record or without one.
LEMMA EmitStep ==
    ASSUME NEW s \in Seq(Lines), NEW l \in Lines, NEW n \in Nat, NEW spec,
           NEW rs \in Seq(Written), Emitted(rs, s, n, spec)
    PROVE  /\ ~Kept(l, spec) => Emitted(rs, Append(s, l), n, spec)
           /\ Kept(l, spec) /\ n <= FrameOf(s, Len(s) + 1) =>
                \A r \in Written : r = RecordAt(Append(s, l), Len(s) + 1)
                                     => Emitted(Append(rs, r), Append(s, l), n, spec)
<1> DEFINE t == Append(s, l)
           N == Len(s) + 1
           K == KeptFrom(s, n, spec)
           rank(j) == {k \in K : k <= j}
<1>0. /\ Len(s) \in Nat /\ Len(t) = N /\ DOMAIN s = 1 .. Len(s) /\ DOMAIN t = 1 .. N
      /\ t[N] = l /\ \A j \in 1 .. Len(s) : t[j] = s[j]
  BY LineAdded
<1>1. \A j \in 1 .. N : FrameOf(t, j) = FrameOf(s, j) /\ FrameOf(s, j) \in Nat
  BY FrameAdded, FrameFacts
<1>2. \A j \in 1 .. Len(s) : RecordAt(t, j) = RecordAt(s, j)
  <2> SUFFICES ASSUME NEW j \in 1 .. Len(s) PROVE RecordAt(t, j) = RecordAt(s, j)
    OBVIOUS
  <2>1. t[j] = s[j] /\ FrameOf(t, j) = FrameOf(s, j)
    BY <1>0, <1>1
  <2> QED
    BY <2>1, Zenon DEF RecordAt
<1>3. /\ \A j \in 1 .. Len(s) : j \in KeptFrom(t, n, spec) <=> j \in K
      /\ N \in KeptFrom(t, n, spec) <=> Kept(l, spec) /\ n <= FrameOf(s, N)
      /\ KeptFrom(t, n, spec) \subseteq 1 .. N /\ K \subseteq 1 .. Len(s)
  <2>1. \A j \in 1 .. Len(s) : j \in 1 .. N
    BY <1>0
  <2>2. N \in 1 .. N
    BY <1>0
  <2> HIDE DEF t, N
  <2> QED
    BY <1>0, <1>1, <2>1, <2>2 DEF KeptFrom
<1>4. \A j \in 1 .. N : j \in 1 .. Len(s) \/ j = N
  BY <1>0
<1>5. IsFiniteSet(K) /\ Cardinality(K) \in Nat /\ Cardinality(K) = Len(rs)
  <2>1. IsFiniteSet(1 .. Len(s))
    BY <1>0, FS_Interval
  <2>2. IsFiniteSet(K)
    BY <1>3, <2>1, FS_Subset
  <2> QED
    BY <2>2, FS_CardinalityType DEF Emitted
<1>6. \A j \in K : /\ Cardinality(rank(j)) \in 1 .. Len(rs)
                   /\ rs[Cardinality(rank(j))] = RecordAt(s, j)
  <2> SUFFICES ASSUME NEW j \in K
               PROVE  /\ Cardinality(rank(j)) \in 1 .. Len(rs)
                      /\ rs[Cardinality(rank(j))] = RecordAt(s, j)
    OBVIOUS
  <2>1. rank(j) \subseteq K /\ j \in rank(j)
    BY <1>3
  <2>2. rs[Cardinality(rank(j))] = RecordAt(s, j)
    BY DEF Emitted
  <2> HIDE DEF rank, K
  <2>3. /\ IsFiniteSet(rank(j)) /\ Cardinality(rank(j)) \in Nat
        /\ Cardinality(rank(j)) <= Cardinality(K)
    BY <1>5, <2>1, FS_Subset, FS_CardinalityType
  <2>4. Cardinality(rank(j)) # 0
    BY <2>1, <2>3, FS_EmptySet
  <2> QED
    BY <1>5, <2>2, <2>3, <2>4
<1>7. ASSUME ~Kept(l, spec)
      PROVE  Emitted(rs, t, n, spec)
  <2>1. KeptFrom(t, n, spec) = K
    BY <1>3, <1>4, <1>7
  <2>2. \A j \in K : RecordAt(t, j) = RecordAt(s, j)
    BY <1>2, <1>3
  <2> HIDE DEF t, K
  <2> QED
    BY <1>5, <1>6, <2>1, <2>2 DEF Emitted
<1>8. ASSUME Kept(l, spec), n <= FrameOf(s, N), NEW r \in Written, r = RecordAt(t, N)
      PROVE  Emitted(Append(rs, r), t, n, spec)
  <2> DEFINE K2 == KeptFrom(t, n, spec)
             us == Append(rs, r)
  <2>1. K2 = K \cup {N} /\ N \notin K
    <3>1. N \notin 1 .. Len(s)
      BY <1>0
    <3> QED
      BY <1>3, <1>4, <1>8, <3>1
  <2>2. Cardinality(K2) = Cardinality(K) + 1
    <3> HIDE DEF K, K2
    <3> QED
      BY <1>5, <2>1, FS_AddElement
  <2>3. /\ Len(us) = Len(rs) + 1 /\ us[Len(rs) + 1] = r
        /\ \A i \in 1 .. Len(rs) : us[i] = rs[i]
    OBVIOUS
  <2>4. \A j \in K : {k \in K2 : k <= j} = rank(j)
    <3>1. \A j \in K : ~(N <= j)
      BY <1>0, <1>3
    <3> QED
      BY <2>1, <3>1
  <2>5. {k \in K2 : k <= N} = K2
    BY <1>0, <1>3
  <2>6. ASSUME NEW j \in K
        PROVE  us[Cardinality({k \in K2 : k <= j})] = RecordAt(t, j)
    <3>1. Cardinality({k \in K2 : k <= j}) = Cardinality(rank(j))
      BY <2>4
    <3>2. Cardinality(rank(j)) \in 1 .. Len(rs) /\ rs[Cardinality(rank(j))] = RecordAt(s, j)
      BY <1>6
    <3>3. RecordAt(t, j) = RecordAt(s, j)
      BY <1>2, <1>3
    <3> HIDE DEF rank, K, K2, us, t
    <3> QED
      BY <2>3, <3>1, <3>2, <3>3
  <2>7. us[Cardinality({k \in K2 : k <= N})] = RecordAt(t, N)
    <3> HIDE DEF K, K2, us, t, N
    <3> QED
      BY <1>5, <1>8, <2>2, <2>3, <2>5
  <2>8. Len(us) = Cardinality(K2)
    BY <1>5, <2>2, <2>3
  <2>9. \A j \in K2 : us[Cardinality({k \in K2 : k <= j})] = RecordAt(t, j)
    <3> HIDE DEF K, K2, us, t, N
    <3> QED
      BY <2>1, <2>6, <2>7
  <2> HIDE DEF us, t
  <2> QED
    BY <2>8, <2>9 DEF Emitted, us
<1> QED
  BY <1>7, <1>8

\* Between two frames, the open one has no records.
LEMMA EmitNone ==
    ASSUME NEW s \in Seq(Lines), EndsWell(s), NEW spec
    PROVE  Emitted(<< >>, s, FrameOf(s, Len(s) + 1), spec)
<1>1. \A j \in DOMAIN s : FrameOf(s, j) < FrameOf(s, Len(s) + 1)
  BY FrameFacts
<1>2. \A j \in DOMAIN s : j \in 1 .. Len(s) + 1
  OBVIOUS
<1>3. Len(s) + 1 \in 1 .. Len(s) + 1
  OBVIOUS
<1>4. \A j \in 1 .. Len(s) + 1 : FrameOf(s, j) \in Nat
  BY FrameFacts
<1>5. KeptFrom(s, FrameOf(s, Len(s) + 1), spec) = {}
  BY <1>1, <1>2, <1>3, <1>4 DEF KeptFrom
<1> QED
  BY <1>5, FS_EmptySet DEF Emitted

\* With it, every step of the session keeps the parser and the reference
\* together.
RInv == OInv /\ Reading

\* What a step leaves alone stays as it was read.
LEMMA ReadingKept ==
    ASSUME Reading, UNCHANGED <<pc, kind, par, read, out>>, kind = "task" => active' = active
    PROVE  Reading'
<1>1. Now' = Now /\ From' = From
  BY DEF Now, From
<1> QED
  BY <1>1 DEF Reading

\* An accepted line that the parser reads, with its record appended or without
\* one; a background file takes records of the open frame only.
LEMMA LineReads ==
    ASSUME RInv, pc = "parse", NEW l \in Lines, Accepts(par, l, Now), Reads(l),
           UNCHANGED <<active, kind>>,
           IF Kept(l, Now) THEN out' = Append(out, RecordOf(par, par', l)) ELSE out' = out
    PROVE  /\ Heard(par', read', Now')
           /\ l.kind # "sep" \/ kind = "task" => Emitted(out', read', From', Now')
           /\ l.kind = "sep" => EndsWell(read')
<1> DEFINE n == FrameOf(read, Len(read) + 1)
<1>0. /\ par \in Parsers /\ read \in Seq(Lines) /\ out \in Seq(Written)
      /\ Heard(par, read, Now) /\ Emitted(out, read, From, Now)
  BY DEF RInv, OInv, CInv, Types, Reading
<1>1. Now' = Now /\ par' = After(par, l, Now) /\ read' = Append(read, l)
  BY DEF Now, Reads
<1>2. /\ Len(read) \in Nat /\ Len(read') = Len(read) + 1 /\ read'[Len(read) + 1] = l
      /\ read' # << >> /\ Len(read) + 1 \in 1 .. Len(read) + 1
  BY <1>0, <1>1
<1>3. Heard(par', read', Now')
  BY <1>0, <1>1, HeardStep
<1>4. n \in Nat /\ 1 <= n
  BY <1>0, <1>2, FrameFacts
<1>5. From \in Nat /\ From <= n
  BY <1>4 DEF From
<1>6. Emitted(out', read', From, Now)
  <2>1. CASE ~Kept(l, Now)
    BY <1>0, <1>1, <1>5, <2>1, EmitStep
  <2>2. CASE Kept(l, Now)
    <3> DEFINE r == RecordOf(par, par', l)
    <3>1. r \in Written
      BY <2>2, ReadsFacts DEF RInv, OInv
    <3>2. r = RecordAt(Append(read, l), Len(read) + 1)
      BY <1>0, <1>1, <2>2, RecordHeard
    <3>3. out' = Append(out, r)
      BY <2>2
    <3> HIDE DEF r
    <3> QED
      BY <1>0, <1>1, <1>5, <2>2, <3>1, <3>2, <3>3, EmitStep
  <2> QED
    BY <2>1, <2>2
<1>7. ASSUME l.kind # "sep" \/ kind = "task"
      PROVE  From' = From
  <2>1. CASE kind = "task"
    BY <2>1 DEF From
  <2>2. CASE kind # "task" /\ l.kind # "sep"
    <3>1. FrameOf(read', Len(read) + 2) = n
      BY <1>0, <1>1, <1>4, <2>2, NextFrame
    <3>2. Len(read') + 1 = Len(read) + 2
      BY <1>2
    <3> QED
      BY <2>2, <3>1, <3>2 DEF From
  <2> QED
    BY <1>7, <2>1, <2>2
<1>8. l.kind = "sep" => EndsWell(read')
  BY <1>2 DEF EndsWell
<1> QED
  BY <1>1, <1>3, <1>6, <1>7, <1>8

\* Every step keeps Reading.
LEMMA ReadingStep ==
    ASSUME RInv, [Next]_vars
    PROVE  Reading'
<1> USE DEF RInv
<1>1. ASSUME pc' \notin {"parse", "sync", "publish"} PROVE Reading'
  BY <1>1 DEF Reading
<1>2. CASE (\E r \in Requests : Submit(r)) \/ CleanupTick \/ Deadline \/ UNCHANGED vars
  <2>1. UNCHANGED <<pc, kind, par, read, out>>
    BY <1>2 DEF Submit, CleanupTick, Deadline
  <2>2. kind = "task" => active' = active
    BY <1>2 DEF Submit, CleanupTick, Deadline, OInv, Requested
  <2> QED
    BY <2>1, <2>2, ReadingKept
<1>3. CASE Start
  <2>1. CASE pc' = "parse"
    <3>1. par = ParserStart /\ read = << >> /\ out = << >>
      BY <1>3 DEF Start, OInv, CInv, Filing, Parsing
    <3>2. par' = ParserStart /\ read' = << >> /\ out' = << >>
      BY <1>3, <3>1 DEF Start
    <3> QED
      BY <2>1, <3>2, HeardNothing DEF Reading
  <2> QED
    BY <1>1, <1>3, <2>1 DEF Start
<1>4. ASSUME NEW l \in Lines, ReadSilent(l) PROVE Reading'
  <2>1. /\ pc = "parse" /\ pc' = "parse" /\ Accepts(par, l, Now) /\ Reads(l)
        /\ UNCHANGED <<active, kind>> /\ ~Kept(l, Now) /\ out' = out
    BY <1>4 DEF ReadSilent
  <2>2. l.kind # "sep"
    BY <2>1 DEF Kept
  <2> QED
    BY <2>1, <2>2, LineReads DEF Reading
<1>5. ASSUME NEW l \in Lines, TaskRecord(l) PROVE Reading'
  <2>1. CASE pc' = "parse"
    <3>1. /\ pc = "parse" /\ kind = "task" /\ Accepts(par, l, Now) /\ Reads(l)
          /\ UNCHANGED <<active, kind>> /\ Kept(l, Now)
          /\ out' = Append(out, RecordOf(par, After(par, l, Now), l))
      BY <1>5, <2>1 DEF TaskRecord, StopParsing
    <3>2. out' = Append(out, RecordOf(par, par', l))
      BY <3>1 DEF Reads
    <3> QED
      BY <2>1, <3>1, <3>2, LineReads DEF Reading
  <2> QED
    BY <1>1, <1>5, <2>1 DEF TaskRecord, StopParsing
<1>6. ASSUME NEW l \in Lines, BackgroundRecord(l) PROVE Reading'
  <2>1. CASE pc' # "return"
    <3> DEFINE r == RecordOf(par, After(par, l, Now), l)
    <3>1. /\ pc = "parse" /\ kind = "background" /\ Accepts(par, l, Now) /\ Reads(l)
          /\ UNCHANGED <<active, kind>> /\ Kept(l, Now) /\ out' = Append(out, r)
          /\ pc' = IF r.kind = "frame_end" THEN "sync" ELSE "parse"
      BY <1>6, <2>1 DEF BackgroundRecord, StopParsing
    <3>2. out' = Append(out, RecordOf(par, par', l))
      BY <3>1 DEF Reads
    <3>3. r.kind = "frame_end" <=> l.kind = "sep"
      BY DEF RecordOf, FrameEnd, Source
    <3> HIDE DEF r
    <3>4. /\ Heard(par', read', Now')
          /\ l.kind # "sep" => Emitted(out', read', From', Now')
          /\ l.kind = "sep" => EndsWell(read')
      BY <3>1, <3>2, LineReads
    <3>5. kind' # "task"
      BY <3>1
    <3> QED
      BY <3>1, <3>3, <3>4, <3>5 DEF Reading
  <2> QED
    BY <1>1, <2>1
<1>7. CASE BackgroundSync
  <2>1. CASE pc' = "publish"
    <3>1. pc = "sync" /\ UNCHANGED <<active, kind, par, read>>
      BY <1>7, <2>1 DEF BackgroundSync, StopParsing
    <3>2. Now' = Now
      BY <3>1 DEF Now
    <3> QED
      BY <2>1, <3>1, <3>2 DEF Reading
  <2> QED
    BY <1>1, <1>7, <2>1 DEF BackgroundSync, StopParsing
<1>8. CASE BackgroundPublish
  <2>1. CASE pc' = "parse"
    <3>1. pc = "publish" /\ UNCHANGED <<active, kind, par, read>> /\ out' = << >>
      BY <1>8, <2>1 DEF BackgroundPublish, StopParsing
    <3>2. Now' = Now /\ From' = From
      BY <3>1 DEF Now, From
    <3>3. /\ Heard(par, read, Now) /\ EndsWell(read) /\ kind # "task" /\ read \in Seq(Lines)
      BY <3>1 DEF Reading, OInv, CInv, Types
    <3>4. Emitted(<< >>, read, From, Now)
      BY <3>3, EmitNone DEF From
    <3> QED
      BY <2>1, <3>1, <3>2, <3>3, <3>4 DEF Reading
  <2> QED
    BY <1>1, <1>8, <2>1 DEF BackgroundPublish, StopParsing
<1>9. CASE Loop \/ SelectBackground \/ SelectCleanup
  <2>1. pc' \notin {"parse", "sync", "publish"}
    BY <1>9 DEF Loop, Poll, SelectJob, Take, ToSelect, SelectBackground, BackgroundTick, SelectCleanup
  <2> QED
    BY <1>1, <2>1
<1>10. CASE Prepare \/ PrepareFail \/ Wait \/ Return \/ BackgroundClose \/ EndWindow \/ Finish
            \/ Release \/ Crash \/ ReadRejected \/ Exit \/ Kill \/ (\E l \in Lines : ReadLate(l))
  <2>1. pc' \notin {"parse", "sync", "publish"}
    BY <1>10 DEF Prepare, PrepareFail, Wait, Return, BackgroundClose, EndWindow, Finish, Release,
                 Crash, ReadRejected, Exit, Kill, Eof, ReadLate, StopParsing
  <2> QED
    BY <1>1, <2>1
<1> QED
  BY <1>2, <1>3, <1>4, <1>5, <1>6, <1>7, <1>8, <1>9, <1>10 DEF Next, Work, Read

\* RInv holds in every reachable state of the collector.
THEOREM StreamInvariant == Spec => []RInv
<1>1. Init => Reading
  BY DEF Init, Reading
<1>2. OInv /\ Reading /\ [Next]_vars => Reading'
  BY ReadingStep DEF RInv
<1>3. OInv /\ Reading => RInv
  BY DEF RInv
<1> QED
  BY <1>1, <1>2, <1>3, OutcomeInvariant, PTL DEF Spec

\* The parser keeps a few locals, but in every session and after every line it
\* accepts exactly the lines that may follow all that was read, has written
\* exactly the records of the stream, in order, and would report success just
\* when the last frame is closed.
THEOREM ParserMeetsReference == Spec => []StreamReference
<1>1. RInv => StreamReference
  <2> SUFFICES ASSUME RInv, pc = "parse" PROVE StreamReference
    BY DEF StreamReference
  <2>1. /\ par \in Parsers /\ read \in Seq(Lines)
        /\ Heard(par, read, Now) /\ Emitted(out, read, From, Now)
    BY DEF RInv, OInv, CInv, Types, Reading
  <2> QED
    BY <2>1, HeardAgrees DEF StreamReference, From
<1> QED
  BY <1>1, StreamInvariant, PTL
=============================================================================
