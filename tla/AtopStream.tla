----------------------------- MODULE AtopStream -----------------------------
(***************************************************************************)
(* The evidence plan and the atop 2.7.1 stream parser of the deitysight    *)
(* agent (internal/agent/scenarios.go, config.go) as pure operators, with  *)
(* a reference definition of the streams that may be accepted.             *)
(*                                                                         *)
(* A line is one of                                                        *)
(*   Reset, Sep       the lines RESET and SEP,                             *)
(*   a row            with a label, an epoch and thread = is_process "n",  *)
(*   Junk             any line that a check of that line alone rejects:    *)
(*                    encoding, field counts, numbers, flags, line limit.  *)
(* A row's host and interval must repeat within a frame as its epoch must, *)
(* so a row that differs in them is one with another epoch.  A record is   *)
(* known by its kind, the number of its frame (SampleID is a fresh uuid    *)
(* per frame) and Baseline; its text does not reach the control.           *)
(***************************************************************************)
EXTENDS Integers, FiniteSets, SequencesExt

CONSTANTS
    SceneLabels,     \* sceneLabels: scene -> labels asked of atop
    RequiredLabels,  \* completeLabels' table: scene -> labels a frame needs
    NoScenes         \* a nil list of scenes

ASSUME SceneAssumption ==
    /\ DOMAIN RequiredLabels = DOMAIN SceneLabels
    /\ \A s \in DOMAIN SceneLabels : RequiredLabels[s] \subseteq SceneLabels[s]
    /\ \A S \in SUBSET DOMAIN SceneLabels : NoScenes # S

AllScenes == DOMAIN SceneLabels

-----------------------------------------------------------------------------
(* The plan of a window: w and s are Window and Step in seconds.           *)

\* config.go Schedule: 0, the multiples of the step below the window, the window.
Schedule(w, s) ==
    LET inner == (w - 1) \div s
    IN  [i \in 1 .. inner + 2 |-> IF i = inner + 2 THEN w ELSE (i - 1) * s]

\* The number of points validateSampling compares with MaxPoints.
PointCount(w, s) == w \div s + 1 + (IF w % s = 0 THEN 0 ELSE 1)

\* Mutant: the last, shorter interval is not asked for.
SamplesFloor(w, s) == w \div s + 1

\* WindowSpec.args: the number of samples asked of atop.
Samples(w, s) == (w + s - 1) \div s + 1

ValidSampling(w, s, minStep, maxWindow, maxPoints) ==
    /\ w > 0 /\ w <= maxWindow /\ s >= minStep /\ s > 0 /\ s <= w
    /\ PointCount(w, s) <= maxPoints

\* normalizeScenes, on a list without duplicates.
ValidScenes(in) == in # NoScenes => (in # {} /\ in \subseteq AllScenes)
NormalizeScenes(in) == IF in = NoScenes THEN AllScenes ELSE in

LabelsFor(scenes) == {"PRG"} \cup UNION {SceneLabels[s] : s \in scenes}

CompleteLabels(scenes, seen) ==
    {"PRG"} \cup UNION {RequiredLabels[s] : s \in scenes} \subseteq seen

-----------------------------------------------------------------------------
(* ParseAtopStream as a state machine: p is the value of its locals.       *)

Reset == [kind |-> "reset"]
Sep   == [kind |-> "sep"]
Junk  == [kind |-> "junk"]
Rows(labels, epochs, th) == [kind: {"row"}, label: labels, epoch: epochs, thread: {th}]

\* The labels whose rows describe a process or a thread.
ProcessLabels == {"PRG", "PRC", "PRM", "PRD", "PRN"}

LinesOver(labels, epochs) ==
    {Reset, Sep, Junk} \cup Rows(labels, epochs, FALSE)
                       \cup Rows(labels \cap ProcessLabels, epochs, TRUE)

\* id = "" is ~open; records = 0 is seen = {}; frame counts the ids drawn.
ParserStart == [open |-> FALSE, first |-> TRUE, baseline |-> FALSE,
                epoch |-> 0, seen |-> {}, frame |-> 0]

\* Mutant: a later frame may repeat the epoch.
OpensRepeating(p, l) == (p.first => p.baseline) /\ (~p.first => l.epoch >= p.epoch)

\* Whether the row may be the first of a frame; whether RESET may come.
Opens(p, l) == (p.first => p.baseline) /\ (~p.first => l.epoch > p.epoch)
Resets(p) == ~p.open /\ p.first

Accepts(p, l, spec) ==
    \/ l.kind = "reset" /\ Resets(p)
    \/ l.kind = "sep" /\ p.open /\ p.seen # {} /\ CompleteLabels(spec.scenes, p.seen)
    \/ /\ l.kind = "row" /\ l.label \in LabelsFor(spec.scenes)
       /\ IF p.open THEN l.epoch = p.epoch ELSE Opens(p, l)

\* A thread's row is checked and opens the frame, but is not kept.
Kept(l, spec) == l.kind = "sep" \/ (l.kind = "row" /\ (l.thread => spec.threads))

After(p, l, spec) ==
    CASE l.kind = "reset" -> [p EXCEPT !.baseline = TRUE]
      [] l.kind = "sep"   -> [p EXCEPT !.open = FALSE, !.first = FALSE,
                                       !.baseline = FALSE, !.seen = {}]
      [] OTHER -> [p EXCEPT !.open = TRUE, !.epoch = l.epoch,
                            !.frame = IF p.open THEN @ ELSE @ + 1,
                            !.seen = IF Kept(l, spec) THEN @ \cup {l.label} ELSE @]

Source(frame, base)   == [kind |-> "source", frame |-> frame, baseline |-> base]
FrameEnd(frame, base) == [kind |-> "frame_end", frame |-> frame, baseline |-> base]

\* The record emitted for a kept line, given the locals after it.
RecordOf(p, q, l) == IF l.kind = "sep" THEN FrameEnd(p.frame, p.baseline)
                                       ELSE Source(q.frame, q.baseline)

\* The checks after the last line: no error at the end of the input.
AtEnd(p) == ~p.open /\ ~p.first /\ ~p.baseline

-----------------------------------------------------------------------------
(* Reference: the same language and output, stated over the whole stream.  *)

\* Number of the frame that position i of s belongs to.
FrameOf(s, i) == Cardinality({j \in 1 .. i - 1 : s[j].kind = "sep"}) + 1

\* The rows of s, and those after its last separator: its open frame.
RowsOf(s)    == {j \in DOMAIN s : s[j].kind = "row"}
OpenRows(s)  == {j \in RowsOf(s) : \A k \in j .. Len(s) : s[k].kind # "sep"}

\* The labels that the open frame has a kept row of.
OpenLabels(s, spec) == {s[j].label : j \in {k \in OpenRows(s) : Kept(s[k], spec)}}

\* Line l may follow the well-formed stream s.
MayFollow(s, l, spec) ==
    \/ l.kind = "reset" /\ \A j \in DOMAIN s : s[j].kind = "reset"
    \/ l.kind = "sep" /\ CompleteLabels(spec.scenes, OpenLabels(s, spec))
    \/ /\ l.kind = "row" /\ s # << >> /\ l.label \in LabelsFor(spec.scenes)
       /\ \A j \in OpenRows(s) : s[j].epoch = l.epoch
       /\ \A j \in RowsOf(s) \ OpenRows(s) : s[j].epoch < l.epoch

\* A stream that ends between two frames, after at least one.
EndsWell(s) == s # << >> /\ s[Len(s)].kind = "sep"

\* The record of line j of s: the first frame, and only it, is the baseline.
RecordAt(s, j) ==
    LET n == FrameOf(s, j)
    IN  IF s[j].kind = "sep" THEN FrameEnd(n, n = 1) ELSE Source(n, n = 1)

\* The lines of s, from frame n on, that a record is emitted for.
KeptFrom(s, n, spec) == {j \in DOMAIN s : Kept(s[j], spec) /\ FrameOf(s, j) >= n}

\* rs has one record for each of these lines, in their order, and no other.
Emitted(rs, s, n, spec) ==
    LET kept == KeptFrom(s, n, spec)
    IN  /\ Len(rs) = Cardinality(kept)
        /\ \A j \in kept : rs[Cardinality({k \in kept : k <= j})] = RecordAt(s, j)

=============================================================================
