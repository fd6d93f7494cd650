--------------------------- MODULE TransferProofs ---------------------------
(***************************************************************************)
(* Proofs about Transfer, for any number of tasks, uploads, faults and     *)
(* restarts. UploadedIsThere and the rest are not inductive by themselves: *)
(* they rest on what the worker carries from one call to the next in w     *)
(* while clients, cleanup and other writers go on. TInv adds this:         *)
(*  - Twins: a task is in memory exactly when it is on disk, and a record  *)
(*    that is not final has not been touched by the worker;                *)
(*  - PartsKept: parts in the bucket belong to a finished task, and both   *)
(*    of its records name their upload, so a write that fails half way,    *)
(*    a withdrawal or a restart cannot lose the id;                        *)
(*  - Course: at each position of the worker, what its earlier calls have  *)
(*    established and nobody else can undo.                                *)
(***************************************************************************)
EXTENDS Transfer, TLAPS

\* Positions between the record of the attempt and its outcome.
Sending == {"lease", "check", "recheck", "abort", "clear", "put", "checkpoint", "abandon",
            "parts", "complete", "undo", "unmark", "commit", "record"}

Positions == Sending \cup {"idle", "drop", "dropped", "start", "retry"}

\* Positions where no parts of the task are in the bucket.
Bare == {"dropped", "clear", "put", "checkpoint", "unmark", "recheck", "commit", "record"}

\* Positions where the worker has not yet forgotten the upload it found.
Found == {"drop", "start", "lease", "check", "abort"}

Twins ==
    \A i \in Ids :
        /\ mem[i] = NoRec <=> disk[i] = NoRec
        /\ mem[i] # NoRec =>
             /\ ~mem[i].term => mem[i].st = "waiting_result"
             /\ ~disk[i].term => disk[i].st = "waiting_result"
             /\ i \in Yos => mem[i].up = NoUp /\ disk[i].up = NoUp

PartsKept ==
    \A i \in Ids, n \in 1..MaxUploads : uploads[i][n] = "parts" =>
        /\ mem[i] = NoRec => age[i] = 2
        /\ mem[i] # NoRec => /\ mem[i].term /\ mem[i].up = n
                             /\ disk[i].term /\ disk[i].up = n

\* What the worker knows of the records of its task.
OnRecords ==
    LET m == mem[w.id]
        d == disk[w.id]
    IN  w.pc # "idle" =>
          /\ conf = Target(w.id)
          /\ m = NoRec => age[w.id] = 2
          /\ m # NoRec =>
               /\ m.term
               /\ w.pc = "start" => m.st \notin Done
               /\ w.pc \in Sending => m.st = "uploading" /\ d.st = "uploading" /\ d.term
               /\ w.pc \in Found => m.up = w.up
               /\ w.pc \in {"parts", "complete", "undo"} => m.up = w.new /\ d.up = w.new
               /\ w.pc \in Bare => \A n \in 1..MaxUploads : uploads[w.id][n] # "parts"

\* What it knows of the bucket.
OnBucket ==
    /\ w.pc \in {"drop", "abort"} => w.up # NoUp
    /\ w.pc \in {"checkpoint", "abandon", "parts", "complete", "undo"} => w.new # NoUp
    /\ w.pc = "checkpoint" => w.id \notin Yos
    /\ w.pc \in {"abort", "clear"} /\ ~w.miss => object[w.id] = "ours"
    /\ w.pc \in {"commit", "record"} => object[w.id] = "ours"

Course == OnRecords /\ OnBucket

TInv == TypeOK /\ UploadedIsThere /\ UploadedIsDurable /\ Twins /\ PartsKept /\ Course

USE DEF records, bucket, limits, start, vars, NoUp

-----------------------------------------------------------------------------
(* What an action may do to the records and the bucket.                    *)

\* Resting is a position of the worker, because there is a task.
LEMMA RestingType ==
    /\ Resting.pc = "idle" /\ Resting.id \in Ids /\ Resting.up = 0 /\ Resting.new = 0
    /\ Resting \in [pc: Positions, id: Ids, up: 0..MaxUploads, big: BOOLEAN, miss: BOOLEAN,
                    new: 0..MaxUploads]
<1>1. (CHOOSE i \in Ids : TRUE) \in Ids
  BY TransferAssumption
<1> QED
  BY <1>1, TransferAssumption DEF Resting, Positions

\* storeTransfer, successful or not, writes the record r that it was given into
\* the file, into memory only together with the file, or nowhere.
LEMMA Written ==
    ASSUME TypeOK, NEW r, NEW p, NEW q, Store(r, p) \/ StoreFail(r, q)
    PROVE  /\ faults' \in Nat
           /\ \/ /\ mem[w.id] # NoRec /\ w' = [w EXCEPT !.pc = p]
                 /\ mem' = [mem EXCEPT ![w.id] = r] /\ mem'[w.id] = r
                 /\ disk' = [disk EXCEPT ![w.id] = r] /\ disk'[w.id] = r
              \/ /\ w' = [w EXCEPT !.pc = q] /\ UNCHANGED mem
                 /\ \/ UNCHANGED disk
                    \/ /\ mem[w.id] # NoRec
                       /\ disk' = [disk EXCEPT ![w.id] = r] /\ disk'[w.id] = r
BY DEF TypeOK, Store, StoreFail, Fault

\* A write keeps the records right when the record written is final, keeps a
\* success and claims none that is not there, and names the parts there are.
LEMMA Edits ==
    ASSUME TInv, w.pc # "idle", NEW r, NEW p \in Positions, NEW q \in Positions,
           mem[w.id] # NoRec =>
              /\ r \in Rec /\ r.term /\ (w.id \in Yos => r.up = 0)
              /\ r.st = "uploaded" => object[w.id] = "ours"
              /\ mem[w.id].st = "uploaded" => r.st = "uploaded"
              /\ \A n \in 1..MaxUploads : uploads[w.id][n] = "parts" => r.up = n,
           Store(r, p) \/ StoreFail(r, q), UNCHANGED <<age, pkg, bucket, start, crashes>>
    PROVE  TypeOK' /\ UploadedIsThere' /\ UploadedIsDurable' /\ Twins' /\ PartsKept'
<1> USE TransferAssumption, NoRecAssumption
<1>t. TypeOK /\ w.id \in Ids
  BY DEF TInv, TypeOK
<1>1. w' \in [pc: Positions, id: Ids, up: 0..MaxUploads, big: BOOLEAN, miss: BOOLEAN,
              new: 0..MaxUploads] /\ faults' \in Nat
  <2>1. /\ w' \in {[w EXCEPT !.pc = p], [w EXCEPT !.pc = q]} /\ faults' \in Nat
    BY <1>t, Written
  <2> QED
    BY <2>1, <1>t DEF TypeOK
<1>2. CASE UNCHANGED records
  <2>1. TypeOK'
    BY <1>1, <1>2, <1>t DEF TypeOK, Positions, Sending, ValidRecord
  <2> QED
    BY <2>1, <1>2 DEF TInv, UploadedIsThere, UploadedIsDurable, Twins, PartsKept
<1>3. CASE /\ mem[w.id] # NoRec /\ disk' = [disk EXCEPT ![w.id] = r]
           /\ mem' \in {mem, [mem EXCEPT ![w.id] = r]}
  <2>r. /\ disk[w.id] # NoRec /\ disk'[w.id] = r /\ mem'[w.id] \in {mem[w.id], r}
        /\ \A i \in Ids \ {w.id} : mem'[i] = mem[i] /\ disk'[i] = disk[i]
    BY <1>3, <1>t DEF TypeOK, TInv, Twins
  <2>1. TypeOK'
    <3>1. mem' \in [Ids -> Rec \cup {NoRec}] /\ disk' \in [Ids -> Rec \cup {NoRec}]
      BY <1>3, <1>t DEF TypeOK
    <3>2. \A i \in Ids : disk'[i] # NoRec => ValidRecord(i, disk'[i])
      BY <2>r, <1>3, <1>t DEF TypeOK, ValidRecord, Rec
    <3> QED
      BY <3>1, <3>2, <1>1, <1>t DEF TypeOK, Positions, Sending, ValidRecord
  <2>2. r # NoRec
    BY <1>3
  <2>3. UploadedIsThere'
    BY <2>r, <2>2, <1>3 DEF TInv, UploadedIsThere
  <2>4. UploadedIsDurable'
    BY <2>r, <2>2, <1>3 DEF TInv, UploadedIsDurable
  <2>m. mem[w.id].term
    BY <1>3 DEF TInv, Course, OnRecords
  <2>5. Twins'
    BY <2>r, <2>2, <2>m, <1>3 DEF TInv, Twins
  <2>6. PartsKept'
    BY <2>r, <2>2, <2>m, <1>3 DEF TInv, PartsKept
  <2> QED
    BY <2>1, <2>3, <2>4, <2>5, <2>6
<1> QED
  BY <1>2, <1>3, <1>t, Written

\* A remote call leaves the records alone; it may put our object where none was
\* verified before, and end uploads.
LEMMA Remote ==
    ASSUME TInv, UNCHANGED <<records, age, pkg, start, crashes>>, faults' \in Nat,
           w' \in [pc: Positions, id: Ids, up: 0..MaxUploads, big: BOOLEAN, miss: BOOLEAN,
                   new: 0..MaxUploads],
           object' \in [Ids -> {"none", "ours", "foreign"}],
           uploads' \in [Ids -> [1..MaxUploads -> {"unused", "open", "parts", "closed"}]],
           \A i \in Ids : object[i] = "ours" => object'[i] = "ours",
           \A i \in Ids, n \in 1..MaxUploads : uploads'[i][n] = "parts" =>
              \/ uploads[i][n] = "parts"
              \/ /\ mem[i] = NoRec => age[i] = 2
                 /\ mem[i] # NoRec => /\ mem[i].term /\ mem[i].up = n
                                      /\ disk[i].term /\ disk[i].up = n
    PROVE  TypeOK' /\ UploadedIsThere' /\ UploadedIsDurable' /\ Twins' /\ PartsKept'
<1>1. TypeOK'
  BY DEF TInv, TypeOK, Positions, Sending, ValidRecord
<1>2. UploadedIsThere'
  BY DEF TInv, UploadedIsThere
<1>3. UploadedIsDurable' /\ Twins'
  BY DEF TInv, UploadedIsDurable, Twins
<1>4. PartsKept'
  BY DEF TInv, PartsKept
<1> QED
  BY <1>1, <1>2, <1>3, <1>4

-----------------------------------------------------------------------------
(* The steps of transfer that write a record.                              *)

\* A step of transfer that writes a record keeps the invariant: each record it
\* may write is one that Edits allows.
LEMMA WriteStep ==
    ASSUME TInv,
           Dropped \/ Start \/ LeaseFile \/ ClearOld \/ Checkpoint \/ Unmark \/ Record \/ Retry
    PROVE  TInv'
<1> USE TransferAssumption, NoRecAssumption
<1>t. /\ TypeOK /\ w.id \in Ids /\ w.up \in 0..MaxUploads /\ w.new \in 0..MaxUploads
      /\ mem[w.id] \in Rec \cup {NoRec} /\ Course /\ OnRecords /\ OnBucket
      /\ UploadedIsThere /\ Twins /\ PartsKept
  BY DEF TInv, TypeOK, Course
<1>w. w \in [pc: Positions, id: Ids, up: 0..MaxUploads, big: BOOLEAN, miss: BOOLEAN,
             new: 0..MaxUploads]
  BY <1>t DEF TypeOK, Positions, Sending
<1>d. mem[w.id] # NoRec => disk[w.id] # NoRec /\ disk[w.id] \in Rec
  BY <1>t DEF Twins, TypeOK
<1>p. \A n \in 1..MaxUploads : mem[w.id] # NoRec /\ uploads[w.id][n] = "parts" => mem[w.id].up = n
  BY <1>t DEF PartsKept
<1>y. mem[w.id] # NoRec => (w.id \in Yos => mem[w.id].up = 0)
  BY <1>t DEF Twins
<1>u. mem[w.id] # NoRec => (mem[w.id].st = "uploaded" => object[w.id] = "ours")
  BY <1>t DEF UploadedIsThere
<1>1. CASE Dropped
  <2> DEFINE r == [mem[w.id] EXCEPT !.up = NoUp]
  <2>1. w.pc = "dropped" /\ (Store(r, "idle") \/ StoreFail(r, "idle"))
        /\ UNCHANGED <<age, pkg, bucket, start, crashes>>
    BY <1>1 DEF Dropped, At
  <2>2. mem[w.id] # NoRec =>
          /\ r \in Rec /\ r.term /\ r.up = 0 /\ r.st = mem[w.id].st
          /\ \A n \in 1..MaxUploads : uploads[w.id][n] # "parts"
    BY <2>1, <1>t DEF Rec, OnRecords, Bare
  <2>3. w'.pc = "idle"
    BY <2>1, <1>w DEF Store, StoreFail
  <2>4. Course'
    BY <2>3 DEF Course, OnRecords, OnBucket
  <2> HIDE DEF r
  <2>5. TypeOK' /\ UploadedIsThere' /\ UploadedIsDurable' /\ Twins' /\ PartsKept'
    BY <2>1, <2>2, <1>u, Edits DEF Positions
  <2> QED
    BY <2>4, <2>5 DEF TInv
<1>2. CASE Start
  <2> DEFINE r == [mem[w.id] EXCEPT !.st = "uploading"]
  <2>1. w.pc = "start" /\ UNCHANGED <<age, pkg, bucket, start, crashes>>
    BY <1>2 DEF Start, At
  <2>2. CASE w' = [w EXCEPT !.pc = "idle"] /\ UNCHANGED <<records, faults>>
    <3>1. w' \in [pc: Positions, id: Ids, up: 0..MaxUploads, big: BOOLEAN, miss: BOOLEAN,
                  new: 0..MaxUploads] /\ w'.pc = "idle"
      BY <2>2, <1>w DEF Positions
    <3>2. Course'
      BY <3>1 DEF Course, OnRecords, OnBucket
    <3>3. TypeOK' /\ UploadedIsThere' /\ UploadedIsDurable' /\ Twins' /\ PartsKept'
      BY <2>1, <2>2, <3>1, <1>t, Remote DEF TypeOK
    <3> QED
      BY <3>2, <3>3 DEF TInv
  <2>3. CASE Store(r, "lease") \/ StoreFail(r, "idle")
    <3>1. mem[w.id] # NoRec =>
            /\ r \in Rec /\ r.term /\ r.up = mem[w.id].up /\ r.up = w.up /\ r.st = "uploading"
            /\ mem[w.id].st \notin Done
      BY <2>1, <1>t DEF Rec, OnRecords, Found, States
    <3> HIDE DEF r
    <3>2. /\ w' = [w EXCEPT !.pc = "lease"] /\ mem'[w.id] = r /\ disk'[w.id] = r
             /\ mem[w.id] # NoRec
          \/ w' = [w EXCEPT !.pc = "idle"]
      BY <2>3, <1>t, <1>w, Written
    <3>3. TypeOK' /\ UploadedIsThere' /\ UploadedIsDurable' /\ Twins' /\ PartsKept'
      BY <2>1, <2>3, <3>1, <1>y, <1>p, Edits DEF Positions, Sending, Done
    <3>4. OnRecords'
      BY <3>1, <3>2, <2>1, <1>w, <1>t DEF OnRecords, Found, Sending, Bare, Target
    <3>5. OnBucket'
      BY <3>2, <1>w DEF OnBucket
    <3> QED
      BY <3>3, <3>4, <3>5 DEF TInv, Course
  <2> QED
    BY <1>2, <2>2, <2>3 DEF Start

<1>3. CASE LeaseFile
  <2> DEFINE r == [mem[w.id] EXCEPT !.st = "unavailable"]
  <2>1. w.pc = "lease" /\ UNCHANGED <<age, pkg, bucket, start, crashes>>
    BY <1>3 DEF LeaseFile, At
  <2>2. CASE /\ w' \in {[w EXCEPT !.pc = "check"], [w EXCEPT !.pc = "retry"]}
             /\ UNCHANGED records /\ faults' \in Nat
    <3>1. w' \in [pc: Positions, id: Ids, up: 0..MaxUploads, big: BOOLEAN, miss: BOOLEAN,
                  new: 0..MaxUploads] /\ w'.pc \in {"check", "retry"} /\ w'.id = w.id /\ w'.up = w.up
      BY <2>2, <1>w DEF Positions, Sending
    <3>2. OnRecords'
      BY <3>1, <2>2, <2>1, <1>t DEF OnRecords, Found, Sending, Bare, Target
    <3>3. OnBucket'
      BY <3>1 DEF OnBucket
    <3>4. TypeOK' /\ UploadedIsThere' /\ UploadedIsDurable' /\ Twins' /\ PartsKept'
      BY <2>1, <2>2, <3>1, <1>t, Remote DEF TypeOK
    <3> QED
      BY <3>2, <3>3, <3>4 DEF TInv, Course
  <2>3. CASE Store(r, "idle") \/ StoreFail(r, "idle")
    <3>1. mem[w.id] # NoRec =>
            /\ r \in Rec /\ r.term /\ r.up = mem[w.id].up /\ r.st = "unavailable"
            /\ mem[w.id].st = "uploading"
      BY <2>1, <1>t DEF Rec, OnRecords, Sending, States, Done
    <3>2. w'.pc = "idle"
      BY <2>3, <1>w DEF Store, StoreFail
    <3>3. Course'
      BY <3>2 DEF Course, OnRecords, OnBucket
    <3> HIDE DEF r
    <3>4. TypeOK' /\ UploadedIsThere' /\ UploadedIsDurable' /\ Twins' /\ PartsKept'
      BY <2>1, <2>3, <3>1, <1>y, <1>p, Edits DEF Positions, Sending
    <3> QED
      BY <3>3, <3>4 DEF TInv
  <2> QED
    BY <1>3, <2>2, <2>3, <1>t DEF LeaseFile, CallFails, Fault, TypeOK
<1>4. CASE ClearOld
  <2> DEFINE r == [mem[w.id] EXCEPT !.up = NoUp]
  <2>1. w.pc = "clear" /\ (Store(r, AfterCheck(w.miss)) \/ StoreFail(r, "idle"))
        /\ UNCHANGED <<age, pkg, bucket, start, crashes>>
    BY <1>4 DEF ClearOld, At
  <2>2. mem[w.id] # NoRec =>
          /\ r \in Rec /\ r.term /\ r.up = 0 /\ r.st = "uploading" /\ mem[w.id].st = "uploading"
          /\ \A n \in 1..MaxUploads : uploads[w.id][n] # "parts"
    BY <2>1, <1>t DEF Rec, OnRecords, Bare, Sending
  <2>3. AfterCheck(w.miss) \in {"put", "commit"} /\ (AfterCheck(w.miss) = "commit" => ~w.miss)
    BY DEF AfterCheck
  <2> HIDE DEF r
  <2>4. \/ /\ w' = [w EXCEPT !.pc = AfterCheck(w.miss)] /\ mem[w.id] # NoRec
           /\ mem'[w.id] = r /\ disk'[w.id] = r
        \/ w' = [w EXCEPT !.pc = "idle"]
    BY <2>1, <2>3, <1>t, <1>w, Written
  <2>5. TypeOK' /\ UploadedIsThere' /\ UploadedIsDurable' /\ Twins' /\ PartsKept'
    BY <2>1, <2>2, <2>3, Edits DEF Positions, Sending
  <2>6. OnRecords'
    BY <2>1, <2>2, <2>3, <2>4, <1>w, <1>t DEF OnRecords, Found, Sending, Bare, Target
  <2>7. OnBucket'
    BY <2>1, <2>3, <2>4, <1>w, <1>t DEF OnBucket
  <2> QED
    BY <2>5, <2>6, <2>7 DEF TInv, Course
<1>5. CASE Checkpoint
  <2> DEFINE r == [mem[w.id] EXCEPT !.up = w.new]
  <2>1. w.pc = "checkpoint" /\ (Store(r, "parts") \/ StoreFail(r, "abandon"))
        /\ UNCHANGED <<age, pkg, bucket, start, crashes>>
    BY <1>5 DEF Checkpoint, At
  <2>2. mem[w.id] # NoRec =>
          /\ r \in Rec /\ r.term /\ r.up = w.new /\ r.st = "uploading"
          /\ mem[w.id].st = "uploading" /\ mem[w.id].term
          /\ disk[w.id].st = "uploading" /\ disk[w.id].term
          /\ \A n \in 1..MaxUploads : uploads[w.id][n] # "parts"
    BY <2>1, <1>t DEF Rec, OnRecords, Bare, Sending
  <2>3. w.id \notin Yos /\ w.new # 0
    BY <2>1, <1>t DEF OnBucket
  <2> HIDE DEF r
  <2>4. /\ \/ w' = [w EXCEPT !.pc = "parts"] /\ mem'[w.id] = r /\ disk'[w.id] = r
           \/ w' = [w EXCEPT !.pc = "abandon"]
        /\ mem'[w.id] \in {mem[w.id], r} /\ disk'[w.id] \in {disk[w.id], r}
        /\ mem[w.id] = NoRec => mem'[w.id] = NoRec
    BY <2>1, <1>t, <1>w DEF Store, StoreFail, TypeOK
  <2>5. TypeOK' /\ UploadedIsThere' /\ UploadedIsDurable' /\ Twins' /\ PartsKept'
    BY <2>1, <2>2, <2>3, Edits DEF Positions, Sending
  <2>6. OnRecords'
    BY <2>1, <2>2, <2>4, <1>w, <1>t DEF OnRecords, Found, Sending, Bare, Target
  <2>7. OnBucket'
    BY <2>1, <2>3, <2>4, <1>w, <1>t DEF OnBucket
  <2> QED
    BY <2>5, <2>6, <2>7 DEF TInv, Course
<1>6. CASE Unmark
  <2> DEFINE r == [mem[w.id] EXCEPT !.up = NoUp]
  <2>1. w.pc = "unmark" /\ (Store(r, "retry") \/ StoreFail(r, "retry"))
        /\ UNCHANGED <<age, pkg, bucket, start, crashes>>
    BY <1>6 DEF Unmark, At
  <2>2. mem[w.id] # NoRec =>
          /\ r \in Rec /\ r.term /\ r.up = 0 /\ r.st = "uploading"
          /\ mem[w.id].st = "uploading" /\ mem[w.id].term
          /\ \A n \in 1..MaxUploads : uploads[w.id][n] # "parts"
    BY <2>1, <1>t DEF Rec, OnRecords, Bare, Sending
  <2> HIDE DEF r
  <2>3. /\ w' = [w EXCEPT !.pc = "retry"] /\ mem'[w.id] \in {mem[w.id], r}
        /\ mem[w.id] = NoRec => mem'[w.id] = NoRec
    BY <2>1, <1>t, <1>w DEF Store, StoreFail, TypeOK
  <2>4. TypeOK' /\ UploadedIsThere' /\ UploadedIsDurable' /\ Twins' /\ PartsKept'
    BY <2>1, <2>2, Edits DEF Positions, Sending
  <2>5. OnRecords'
    BY <2>1, <2>2, <2>3, <1>w, <1>t DEF OnRecords, Found, Sending, Bare, Target
  <2>6. OnBucket'
    BY <2>3, <1>w DEF OnBucket
  <2> QED
    BY <2>4, <2>5, <2>6 DEF TInv, Course
<1>7. CASE Record
  <2> DEFINE r == [mem[w.id] EXCEPT !.st = "uploaded", !.up = NoUp]
  <2>1. w.pc = "record" /\ (Store(r, "idle") \/ StoreFail(r, "idle"))
        /\ UNCHANGED <<age, pkg, bucket, start, crashes>>
    BY <1>7 DEF Record, At
  <2>2. mem[w.id] # NoRec =>
          /\ r \in Rec /\ r.term /\ r.up = 0 /\ r.st = "uploaded"
          /\ \A n \in 1..MaxUploads : uploads[w.id][n] # "parts"
    <3>1. mem[w.id] # NoRec =>
            mem[w.id].term /\ \A n \in 1..MaxUploads : uploads[w.id][n] # "parts"
      BY <2>1, <1>t DEF OnRecords, Bare
    <3>2. ASSUME mem[w.id] \in Rec
          PROVE  r \in Rec /\ r.term = mem[w.id].term /\ r.up = 0 /\ r.st = "uploaded"
      <4> DEFINE m == [mem[w.id] EXCEPT !.st = "uploaded"]
      <4>1. r = [m EXCEPT !.up = 0]
        BY <3>2
      <4>2. m \in Rec /\ m.st = "uploaded" /\ m.term = mem[w.id].term
        BY <3>2 DEF Rec, States, Done
      <4> HIDE DEF r, m
      <4> QED
        BY <4>1, <4>2 DEF Rec
    <3> QED
      BY <3>1, <3>2, <1>t
  <2>3. object[w.id] = "ours"
    BY <2>1, <1>t DEF OnBucket
  <2>4. w'.pc = "idle"
    BY <2>1, <1>w DEF Store, StoreFail
  <2>5. Course'
    BY <2>4 DEF Course, OnRecords, OnBucket
  <2> HIDE DEF r
  <2>6. TypeOK' /\ UploadedIsThere' /\ UploadedIsDurable' /\ Twins' /\ PartsKept'
    BY <2>1, <2>2, <2>3, Edits DEF Positions
  <2> QED
    BY <2>5, <2>6 DEF TInv
<1>8. CASE Retry
  <2> DEFINE r == RetryRecord(mem[w.id])
  <2>1. w.pc = "retry" /\ (Store(r, "idle") \/ StoreFail(r, "idle"))
        /\ UNCHANGED <<age, pkg, bucket, start, crashes>>
    BY <1>8 DEF Retry, At
  <2>2. mem[w.id] # NoRec =>
          /\ r \in Rec /\ r.term /\ r.up = mem[w.id].up
          /\ r.st = "uploaded" <=> mem[w.id].st = "uploaded"
    BY <2>1, <1>t DEF Rec, OnRecords, RetryRecord, States, Done
  <2>3. w'.pc = "idle"
    BY <2>1, <1>w DEF Store, StoreFail
  <2>4. Course'
    BY <2>3 DEF Course, OnRecords, OnBucket
  <2> HIDE DEF r
  <2>5. TypeOK' /\ UploadedIsThere' /\ UploadedIsDurable' /\ Twins' /\ PartsKept'
    BY <2>1, <2>2, <1>u, <1>p, <1>y, Edits DEF Positions
  <2> QED
    BY <2>4, <2>5 DEF TInv
<1> QED
  BY <1>1, <1>2, <1>3, <1>4, <1>5, <1>6, <1>7, <1>8

-----------------------------------------------------------------------------
(* The steps of transfer that call the bucket.                             *)

\* A call that changes one upload leaves the others as they are.
LEMMA OneUpload ==
    ASSUME TypeOK, NEW i \in Ids, NEW n \in 1..MaxUploads,
           NEW v \in {"unused", "open", "parts", "closed"},
           uploads' = [uploads EXCEPT ![i][n] = v]
    PROVE  /\ uploads' \in [Ids -> [1..MaxUploads -> {"unused", "open", "parts", "closed"}]]
           /\ uploads'[i][n] = v
           /\ \A j \in Ids, m \in 1..MaxUploads : j # i \/ m # n => uploads'[j][m] = uploads[j][m]
<1> DEFINE T == {"unused", "open", "parts", "closed"}
           f == uploads[i]
<1>1. uploads \in [Ids -> [1..MaxUploads -> T]] /\ f \in [1..MaxUploads -> T] /\ v \in T
  BY DEF TypeOK
<1>2. uploads' = [uploads EXCEPT ![i] = [f EXCEPT ![n] = v]]
  OBVIOUS
<1> HIDE DEF T, f
<1>3. [f EXCEPT ![n] = v] \in [1..MaxUploads -> T]
  BY <1>1
<1>4. uploads' \in [Ids -> [1..MaxUploads -> T]] /\ uploads'[i] = [f EXCEPT ![n] = v]
  BY <1>1, <1>2, <1>3
<1>5. uploads'[i][n] = v
  BY <1>1, <1>4
<1>6. \A j \in Ids, m \in 1..MaxUploads : j # i \/ m # n => uploads'[j][m] = uploads[j][m]
  BY <1>1, <1>2, <1>4 DEF f
<1> QED
  BY <1>4, <1>5, <1>6 DEF T

\* An upload that is closed has no parts, and the others are as before.
LEMMA Closing ==
    ASSUME TypeOK, NEW i \in Ids, NEW n \in 1..MaxUploads, uploads' \in {uploads, Closed(i, n)}
    PROVE  /\ uploads' \in [Ids -> [1..MaxUploads -> {"unused", "open", "parts", "closed"}]]
           /\ \A j \in Ids, m \in 1..MaxUploads :
                uploads'[j][m] = "parts" => uploads[j][m] = "parts"
           /\ uploads' = Closed(i, n) => uploads'[i][n] # "parts"
<1>1. CASE uploads' = uploads /\ uploads' # Closed(i, n)
  BY <1>1 DEF TypeOK
<1>2. CASE uploads' = Closed(i, n)
  <2>1. uploads' = [uploads EXCEPT ![i][n] = "closed"]
    BY <1>2 DEF Closed
  <2>2. /\ uploads' \in [Ids -> [1..MaxUploads -> {"unused", "open", "parts", "closed"}]]
        /\ uploads'[i][n] = "closed"
        /\ \A j \in Ids, m \in 1..MaxUploads : j # i \/ m # n => uploads'[j][m] = uploads[j][m]
    BY <2>1, OneUpload, ZenonT(30)
  <2> QED
    BY <2>2
<1> QED
  BY <1>1, <1>2

\* Check, before and after Put, and the last look at the deadline.
LEMMA CheckStep ==
    ASSUME TInv, Check \/ CheckFail \/ Recheck \/ Commit
    PROVE  TInv'
<1> USE TransferAssumption, NoRecAssumption
<1>t. TypeOK /\ OnRecords /\ OnBucket /\ PartsKept
  BY DEF TInv, Course
<1>w. w \in [pc: Positions, id: Ids, up: 0..MaxUploads, big: BOOLEAN, miss: BOOLEAN,
             new: 0..MaxUploads] /\ w.id \in Ids
  BY <1>t DEF TypeOK, Positions, Sending
<1>f. UNCHANGED <<records, age, pkg, bucket, start, crashes>> /\ faults' \in Nat
  BY <1>t DEF Check, CheckFail, Recheck, Commit, CallFails, Fault, TypeOK
<1>1. \/ w' = [w EXCEPT !.pc = "retry"] /\ w.pc # "idle"
      \/ /\ w.pc = "check" /\ object[w.id] # "foreign" /\ w.up # 0
         /\ w' = [w EXCEPT !.pc = "abort", !.miss = (object[w.id] = "none")]
      \/ /\ w.pc = "check" /\ object[w.id] # "foreign" /\ w.up = 0
         /\ w' = [w EXCEPT !.pc = AfterCheck(object[w.id] = "none"), !.miss = (object[w.id] = "none")]
      \/ w.pc = "recheck" /\ object[w.id] = "ours" /\ w' = [w EXCEPT !.pc = "commit"]
      \/ w.pc = "commit" /\ w' = [w EXCEPT !.pc = "record"]
  BY DEF Check, CheckFail, Recheck, Commit, At, Conflict
<1>2. /\ w' \in [pc: Positions, id: Ids, up: 0..MaxUploads, big: BOOLEAN, miss: BOOLEAN,
                 new: 0..MaxUploads]
      /\ w'.id = w.id /\ w'.up = w.up /\ w.pc # "idle"
      /\ \/ w'.pc = "retry"
         \/ w.pc = "check" /\ w'.pc = "abort" /\ w.up # 0 /\ (~w'.miss => object[w.id] = "ours")
         \/ w.pc = "check" /\ w'.pc = "put" /\ w.up = 0
         \/ w.pc = "check" /\ w'.pc = "commit" /\ object[w.id] = "ours" /\ w.up = 0
         \/ w.pc = "recheck" /\ w'.pc = "commit" /\ object[w.id] = "ours"
         \/ w.pc = "commit" /\ w'.pc = "record"
  <2> DEFINE miss == object[w.id] = "none"
  <2>1. miss \in BOOLEAN /\ (object[w.id] # "foreign" /\ ~miss => object[w.id] = "ours")
    BY <1>w, <1>t DEF TypeOK
  <2> HIDE DEF miss
  <2>2. CASE /\ w.pc = "check" /\ object[w.id] # "foreign" /\ w.up # 0
             /\ w' = [w EXCEPT !.pc = "abort", !.miss = miss]
    <3>1. w'.pc = "abort" /\ w'.id = w.id /\ w'.up = w.up /\ w'.miss = miss
      BY <2>2, <1>w
    <3> QED
      BY <2>1, <2>2, <3>1, <1>w DEF Positions, Sending
  <2>3. CASE /\ w.pc = "check" /\ object[w.id] # "foreign" /\ w.up = 0
             /\ w' = [w EXCEPT !.pc = AfterCheck(miss), !.miss = miss]
    BY <2>1, <2>3, <1>w DEF AfterCheck, Positions, Sending
  <2>4. CASE \/ w' = [w EXCEPT !.pc = "retry"] /\ w.pc # "idle"
             \/ w.pc = "recheck" /\ object[w.id] = "ours" /\ w' = [w EXCEPT !.pc = "commit"]
             \/ w.pc = "commit" /\ w' = [w EXCEPT !.pc = "record"]
    BY <2>4, <1>w DEF Positions, Sending
  <2> QED
    BY <2>2, <2>3, <2>4, <1>1 DEF miss
<1>3. TypeOK' /\ UploadedIsThere' /\ UploadedIsDurable' /\ Twins' /\ PartsKept'
  BY <1>f, <1>2, <1>t, Remote DEF TypeOK
<1>4. OnBucket'
  BY <1>2, <1>f, <1>t DEF OnBucket
<1>5. OnRecords'
  <2>1. ASSUME mem[w.id] # NoRec, w.pc = "check", w.up = 0
        PROVE  \A n \in 1..MaxUploads : uploads[w.id][n] # "parts"
    BY <2>1, <1>t, <1>w DEF OnRecords, Found, PartsKept
  <2> QED
    BY <2>1, <1>2, <1>f, <1>t DEF OnRecords, Found, Sending, Bare, Target
<1> QED
  BY <1>3, <1>4, <1>5 DEF TInv, Course

\* The calls that end a multipart upload.
LEMMA AbortStep ==
    ASSUME TInv, Drop \/ DropFail \/ AbortOld \/ Abandon \/ Undo
    PROVE  TInv'
<1> USE TransferAssumption, NoRecAssumption
<1>t. TypeOK /\ OnRecords /\ OnBucket /\ PartsKept
  BY DEF TInv, Course
<1>w. w \in [pc: Positions, id: Ids, up: 0..MaxUploads, big: BOOLEAN, miss: BOOLEAN,
             new: 0..MaxUploads] /\ w.id \in Ids
  BY <1>t DEF TypeOK, Positions, Sending
<1>f. UNCHANGED <<records, age, pkg, object, start, crashes>> /\ faults' \in Nat
  BY <1>t DEF Drop, DropFail, AbortOld, Abandon, Undo, CallFails, Fault, TypeOK
<1> DEFINE n == IF w.pc \in {"drop", "abort"} THEN w.up ELSE w.new
<1>1. /\ w.pc \in {"drop", "abort", "abandon", "undo"} /\ uploads' \in {uploads, Closed(w.id, n)}
      /\ \/ w' = [w EXCEPT !.pc = "retry"]
         \/ w' = [w EXCEPT !.pc = "dropped"] /\ w.pc = "drop" /\ uploads' = Closed(w.id, n)
         \/ w' = [w EXCEPT !.pc = "clear"] /\ w.pc = "abort" /\ uploads' = Closed(w.id, n)
         \/ w' = [w EXCEPT !.pc = "unmark"] /\ w.pc = "undo" /\ uploads' = Closed(w.id, n)
  BY DEF Drop, DropFail, AbortOld, Abandon, Undo, At
<1>2. n \in 1..MaxUploads
  BY <1>1, <1>t, <1>w DEF OnBucket
<1>n. /\ mem[w.id] # NoRec /\ w.pc \in {"drop", "abort"} => mem[w.id].up = n
      /\ mem[w.id] # NoRec /\ w.pc = "undo" => mem[w.id].up = n
  BY <1>t DEF OnRecords, Found
<1> HIDE DEF n
<1>3. /\ w' \in [pc: Positions, id: Ids, up: 0..MaxUploads, big: BOOLEAN, miss: BOOLEAN,
                 new: 0..MaxUploads]
      /\ w'.id = w.id /\ w'.miss = w.miss
      /\ \/ w'.pc = "retry"
         \/ w'.pc = "dropped" /\ w.pc = "drop" /\ uploads' = Closed(w.id, n)
         \/ w'.pc = "clear" /\ w.pc = "abort" /\ uploads' = Closed(w.id, n)
         \/ w'.pc = "unmark" /\ w.pc = "undo" /\ uploads' = Closed(w.id, n)
  BY <1>1, <1>w DEF Positions, Sending
<1>4. /\ uploads' \in [Ids -> [1..MaxUploads -> {"unused", "open", "parts", "closed"}]]
      /\ \A j \in Ids, m \in 1..MaxUploads : uploads'[j][m] = "parts" => uploads[j][m] = "parts"
      /\ uploads' = Closed(w.id, n) => uploads'[w.id][n] # "parts"
  BY <1>1, <1>2, <1>w, <1>t, Closing
<1>5. TypeOK' /\ UploadedIsThere' /\ UploadedIsDurable' /\ Twins' /\ PartsKept'
  BY <1>f, <1>3, <1>4, <1>t, Remote DEF TypeOK
<1>6. OnBucket'
  BY <1>3, <1>f, <1>t DEF OnBucket
<1>7. ASSUME mem[w.id] # NoRec, w'.pc # "retry"
      PROVE  \A m \in 1..MaxUploads : uploads'[w.id][m] # "parts"
  BY <1>3, <1>4, <1>7, <1>n, <1>t, <1>w DEF PartsKept
<1>8. OnRecords'
  BY <1>7, <1>1, <1>3, <1>f, <1>t DEF OnRecords, Found, Sending, Bare, Target
<1> QED
  BY <1>5, <1>6, <1>8 DEF TInv, Course

\* The calls that create the object in one request.
LEMMA PutStep ==
    ASSUME TInv, PutSmall \/ PutYos
    PROVE  TInv'
<1> USE TransferAssumption, NoRecAssumption
<1>t. TypeOK /\ OnRecords /\ OnBucket /\ PartsKept
  BY DEF TInv, Course
<1>w. w \in [pc: Positions, id: Ids, up: 0..MaxUploads, big: BOOLEAN, miss: BOOLEAN,
             new: 0..MaxUploads] /\ w.id \in Ids
  BY <1>t DEF TypeOK, Positions, Sending
<1>f. UNCHANGED <<records, age, pkg, uploads, start, crashes>> /\ faults' \in Nat /\ w.pc = "put"
  BY <1>t DEF PutSmall, PutYos, CallFails, Fault, TypeOK, At
<1>1. w' \in {[w EXCEPT !.pc = "recheck"], [w EXCEPT !.pc = "retry"]}
  BY DEF PutSmall, PutYos
<1>2. /\ w' \in [pc: Positions, id: Ids, up: 0..MaxUploads, big: BOOLEAN, miss: BOOLEAN,
                 new: 0..MaxUploads]
      /\ w'.id = w.id /\ w'.pc \in {"recheck", "retry"}
  BY <1>1, <1>w DEF Positions, Sending
<1>3. \/ UNCHANGED object
      \/ object' = [object EXCEPT ![w.id] = "ours"]
      \/ object' = [object EXCEPT ![w.id] = IF @ = "none" THEN "ours" ELSE @]
  BY DEF PutSmall, PutYos
<1>4. /\ object' \in [Ids -> {"none", "ours", "foreign"}]
      /\ \A i \in Ids : object[i] = "ours" => object'[i] = "ours"
  BY <1>3, <1>w, <1>t DEF TypeOK
<1>5. TypeOK' /\ UploadedIsThere' /\ UploadedIsDurable' /\ Twins' /\ PartsKept'
  BY <1>f, <1>2, <1>4, <1>t, Remote DEF TypeOK
<1>6. OnBucket'
  BY <1>2 DEF OnBucket
<1>7. OnRecords'
  BY <1>2, <1>f, <1>t DEF OnRecords, Found, Sending, Bare, Target
<1> QED
  BY <1>5, <1>6, <1>7 DEF TInv, Course

\* CreateMultipartUpload.
LEMMA CreateStep ==
    ASSUME TInv, PutCreate
    PROVE  TInv'
<1> USE TransferAssumption, NoRecAssumption
<1>t. TypeOK /\ OnRecords /\ OnBucket /\ PartsKept
  BY DEF TInv, Course
<1>w. w \in [pc: Positions, id: Ids, up: 0..MaxUploads, big: BOOLEAN, miss: BOOLEAN,
             new: 0..MaxUploads] /\ w.id \in Ids
  BY <1>t DEF TypeOK, Positions, Sending
<1>f. /\ UNCHANGED <<records, age, pkg, object, start, crashes>> /\ faults' \in Nat /\ w.pc = "put"
      /\ w.id \notin Yos
  BY <1>t DEF PutCreate, CallFails, Fault, TypeOK, At
<1>1. PICK n \in 1..MaxUploads :
        /\ uploads' \in {uploads, [uploads EXCEPT ![w.id][n] = "open"]}
        /\ w' \in {[w EXCEPT !.pc = "checkpoint", !.new = n], [w EXCEPT !.pc = "retry"]}
  BY DEF PutCreate
<1>2. /\ w' \in [pc: Positions, id: Ids, up: 0..MaxUploads, big: BOOLEAN, miss: BOOLEAN,
                 new: 0..MaxUploads]
      /\ w'.id = w.id /\ w'.pc \in {"checkpoint", "retry"} /\ (w'.pc = "checkpoint" => w'.new # 0)
  <2>1. CASE w' = [w EXCEPT !.pc = "checkpoint", !.new = n]
    <3> DEFINE v == [w EXCEPT !.pc = "checkpoint"]
    <3>1. w' = [v EXCEPT !.new = n]
      BY <2>1
    <3>2. v \in [pc: Positions, id: Ids, up: 0..MaxUploads, big: BOOLEAN, miss: BOOLEAN,
                 new: 0..MaxUploads] /\ v.id = w.id /\ v.pc = "checkpoint"
      BY <1>w DEF Positions, Sending
    <3> HIDE DEF v
    <3> QED
      BY <3>1, <3>2
  <2>2. CASE w' = [w EXCEPT !.pc = "retry"]
    BY <2>2, <1>w DEF Positions
  <2> QED
    BY <1>1, <2>1, <2>2
<1>3. /\ uploads' \in [Ids -> [1..MaxUploads -> {"unused", "open", "parts", "closed"}]]
      /\ \A j \in Ids, m \in 1..MaxUploads : uploads'[j][m] = "parts" => uploads[j][m] = "parts"
  <2>1. CASE UNCHANGED uploads
    BY <2>1, <1>t DEF TypeOK
  <2>2. CASE uploads' = [uploads EXCEPT ![w.id][n] = "open"]
    <3>1. /\ uploads' \in [Ids -> [1..MaxUploads -> {"unused", "open", "parts", "closed"}]]
          /\ uploads'[w.id][n] = "open"
          /\ \A j \in Ids, m \in 1..MaxUploads : j # w.id \/ m # n => uploads'[j][m] = uploads[j][m]
      BY <2>2, <1>t, <1>w, OneUpload
    <3> QED
      BY <3>1
  <2> QED
    BY <1>1, <2>1, <2>2
<1>4. TypeOK' /\ UploadedIsThere' /\ UploadedIsDurable' /\ Twins' /\ PartsKept'
  BY <1>f, <1>2, <1>3, <1>t, Remote DEF TypeOK
<1>5. OnBucket'
  BY <1>2, <1>f DEF OnBucket
<1>6. OnRecords'
  BY <1>2, <1>3, <1>f, <1>t, <1>w DEF OnRecords, Found, Sending, Bare, Target
<1> QED
  BY <1>4, <1>5, <1>6 DEF TInv, Course

\* The parts, and CompleteMultipartUpload.
LEMMA SendStep ==
    ASSUME TInv, PutParts \/ PutComplete
    PROVE  TInv'
<1> USE TransferAssumption, NoRecAssumption
<1>t. TypeOK /\ OnRecords /\ OnBucket /\ PartsKept
  BY DEF TInv, Course
<1>w. w \in [pc: Positions, id: Ids, up: 0..MaxUploads, big: BOOLEAN, miss: BOOLEAN,
             new: 0..MaxUploads] /\ w.id \in Ids
  BY <1>t DEF TypeOK, Positions, Sending
<1>f. /\ UNCHANGED <<records, age, pkg, start, crashes>> /\ faults' \in Nat
      /\ w.pc \in {"parts", "complete"}
  BY <1>t DEF PutParts, PutComplete, CallFails, Fault, TypeOK, At
<1>n. /\ w.new \in 1..MaxUploads
      /\ mem[w.id] = NoRec => age[w.id] = 2
      /\ mem[w.id] # NoRec => /\ mem[w.id].term /\ mem[w.id].up = w.new
                              /\ disk[w.id].term /\ disk[w.id].up = w.new
  <2>1. w.new \in 1..MaxUploads
    BY <1>f, <1>t, <1>w DEF OnBucket
  <2> QED
    BY <2>1, <1>f, <1>t DEF OnRecords, Sending
<1>1. CASE /\ uploads' \in {uploads, [uploads EXCEPT ![w.id][w.new] = "parts"]} /\ UNCHANGED object
           /\ w' \in {[w EXCEPT !.pc = "complete"], [w EXCEPT !.pc = "undo"]}
  <2>1. /\ w' \in [pc: Positions, id: Ids, up: 0..MaxUploads, big: BOOLEAN, miss: BOOLEAN,
                   new: 0..MaxUploads]
        /\ w'.id = w.id /\ w'.pc \in {"complete", "undo"} /\ w'.new = w.new
    BY <1>1, <1>w DEF Positions, Sending
  <2>2. /\ uploads' \in [Ids -> [1..MaxUploads -> {"unused", "open", "parts", "closed"}]]
        /\ \A j \in Ids, m \in 1..MaxUploads :
             uploads'[j][m] = "parts" => uploads[j][m] = "parts" \/ (j = w.id /\ m = w.new)
    <3>1. CASE UNCHANGED uploads
      BY <3>1, <1>t DEF TypeOK
    <3>2. CASE uploads' = [uploads EXCEPT ![w.id][w.new] = "parts"]
      <4>1. /\ uploads' \in [Ids -> [1..MaxUploads -> {"unused", "open", "parts", "closed"}]]
            /\ \A j \in Ids, m \in 1..MaxUploads :
                 j # w.id \/ m # w.new => uploads'[j][m] = uploads[j][m]
        BY <3>2, <1>t, <1>w, <1>n, OneUpload
      <4> QED
        BY <4>1
    <3> QED
      BY <1>1, <3>1, <3>2
  <2>3. TypeOK' /\ UploadedIsThere' /\ UploadedIsDurable' /\ Twins' /\ PartsKept'
    BY <1>1, <1>f, <1>n, <2>1, <2>2, <1>t, Remote DEF TypeOK
  <2>4. OnBucket'
    BY <2>1, <1>n DEF OnBucket
  <2>5. OnRecords'
    BY <2>1, <1>f, <1>t DEF OnRecords, Found, Sending, Bare, Target
  <2> QED
    BY <2>3, <2>4, <2>5 DEF TInv, Course
<1>2. CASE PutComplete
  <2>1. /\ w.pc = "complete" /\ w' \in {[w EXCEPT !.pc = "recheck"], [w EXCEPT !.pc = "undo"]}
        /\ Completes \/ UNCHANGED bucket
        /\ w' = [w EXCEPT !.pc = "undo"] \/ Completes
    BY <1>2 DEF PutComplete, At
  <2>2. /\ w' \in [pc: Positions, id: Ids, up: 0..MaxUploads, big: BOOLEAN, miss: BOOLEAN,
                   new: 0..MaxUploads]
        /\ w'.id = w.id /\ w'.pc \in {"recheck", "undo"} /\ w'.new = w.new
        /\ w'.pc = "undo" \/ Completes
    BY <2>1, <1>w DEF Positions, Sending
  <2>3. /\ uploads' \in {uploads, Closed(w.id, w.new)}
        /\ Completes => uploads' = Closed(w.id, w.new)
        /\ object' \in [Ids -> {"none", "ours", "foreign"}]
        /\ \A i \in Ids : object[i] = "ours" => object'[i] = "ours"
    BY <2>1, <1>w, <1>t DEF Completes, TypeOK
  <2>4. /\ uploads' \in [Ids -> [1..MaxUploads -> {"unused", "open", "parts", "closed"}]]
        /\ \A j \in Ids, m \in 1..MaxUploads : uploads'[j][m] = "parts" => uploads[j][m] = "parts"
        /\ Completes => uploads'[w.id][w.new] # "parts"
    BY <2>3, <1>n, <1>w, <1>t, Closing
  <2>5. TypeOK' /\ UploadedIsThere' /\ UploadedIsDurable' /\ Twins' /\ PartsKept'
    BY <1>f, <2>2, <2>3, <2>4, <1>t, Remote DEF TypeOK
  <2>6. OnBucket'
    BY <2>2, <1>n DEF OnBucket
  <2>7. mem[w.id] # NoRec /\ Completes => \A m \in 1..MaxUploads : uploads'[w.id][m] # "parts"
    BY <2>4, <1>n, <1>w, <1>t DEF PartsKept
  <2>8. OnRecords'
    BY <2>1, <2>2, <2>7, <1>f, <1>t DEF OnRecords, Found, Sending, Bare, Target
  <2> QED
    BY <2>5, <2>6, <2>8 DEF TInv, Course
<1> QED
  BY <1>1, <1>2 DEF PutParts

-----------------------------------------------------------------------------
(* The rest of the agent, and the other writers.                           *)

\* nextUpload closes expired transfers in memory only when the file was
\* written, and starts with what memory then says.
LEMMA ChooseStep ==
    ASSUME TInv, NextUpload
    PROVE  TInv'
<1> USE TransferAssumption, NoRecAssumption
<1>t. TypeOK /\ PartsKept /\ UploadedIsThere /\ UploadedIsDurable /\ Twins
  BY DEF TInv, Course
<1>f. UNCHANGED <<age, pkg, bucket, start, crashes>> /\ w.pc = "idle"
  BY DEF NextUpload, At
<1> DEFINE over(i) == [mem[i] EXCEPT !.st = "expired"]
<1> DEFINE m(bad) == [i \in Ids |-> IF i \in Lapsed \ bad THEN over(i) ELSE mem[i]]
<1>b. PICK bad \in SUBSET Lapsed :
        /\ IF bad = {} THEN UNCHANGED faults ELSE Fault
        /\ \E half \in SUBSET bad :
             disk' = [i \in Ids |-> IF i \in (Lapsed \ bad) \cup half THEN over(i) ELSE disk[i]]
        /\ mem' = m(bad)
        /\ \/ \E i \in Eligible(m(bad)) \ bad :
                w' = [Resting EXCEPT !.pc = IF m(bad)[i].st \in Done THEN "drop" ELSE "start",
                                     !.id = i, !.up = m(bad)[i].up, !.big = m(bad)[i].big]
           \/ Lapsed # {} /\ UNCHANGED w
  BY DEF NextUpload
<1>h. PICK half \in SUBSET bad :
        disk' = [i \in Ids |-> IF i \in (Lapsed \ bad) \cup half THEN over(i) ELSE disk[i]]
  BY <1>b
<1> HIDE DEF over, m
<1>1. /\ faults' \in Nat /\ half \in SUBSET Lapsed
      /\ mem' = [i \in Ids |-> IF i \in Lapsed \ bad THEN over(i) ELSE mem[i]]
      /\ disk' = [i \in Ids |-> IF i \in (Lapsed \ bad) \cup half THEN over(i) ELSE disk[i]]
      /\ \/ \E i \in Eligible(mem') :
              w' = [Resting EXCEPT !.pc = IF mem'[i].st \in Done THEN "drop" ELSE "start",
                                   !.id = i, !.up = mem'[i].up, !.big = mem'[i].big]
         \/ UNCHANGED w
  <2>1. faults' \in Nat /\ half \in SUBSET Lapsed
    <3>1. half \in SUBSET Lapsed
      OBVIOUS
    <3>2. UNCHANGED faults \/ Fault
      BY <1>b, Zenon
    <3> QED
      BY <3>1, <3>2, <1>t DEF Fault, TypeOK
  <2>2. mem' = [i \in Ids |-> IF i \in Lapsed \ bad THEN over(i) ELSE mem[i]]
    BY <1>b DEF m
  <2> QED
    BY <2>1, <2>2, <1>b, <1>h, Zenon
<1> USE DEF over
<1>o. \A i \in Lapsed : /\ i \in Ids /\ mem[i] \in Rec /\ mem[i].term /\ mem[i].st # "uploaded"
                        /\ disk[i] # NoRec
  BY <1>t DEF Lapsed, TypeOK, Twins
<1>r. \A i \in Lapsed : /\ over(i) \in Rec /\ over(i).st = "expired" /\ over(i).term
                        /\ over(i).up = mem[i].up
  BY <1>o DEF Rec, States, Done
<1> HIDE DEF over
<1>2. /\ \A i \in Ids : mem'[i] = mem[i] \/ (i \in Lapsed /\ mem'[i] = over(i) /\ disk'[i] = over(i))
      /\ \A i \in Ids : disk'[i] = disk[i] \/ (i \in Lapsed /\ disk'[i] = over(i))
      /\ mem' \in [Ids -> Rec \cup {NoRec}] /\ disk' \in [Ids -> Rec \cup {NoRec}]
  <2>1. \A i \in Ids : mem'[i] = mem[i] \/ (i \in Lapsed /\ mem'[i] = over(i) /\ disk'[i] = over(i))
    BY <1>1
  <2>2. \A i \in Ids : disk'[i] = disk[i] \/ (i \in Lapsed /\ disk'[i] = over(i))
    BY <1>1
  <2>3. mem' \in [Ids -> Rec \cup {NoRec}]
    BY <1>1, <1>r, <1>t DEF TypeOK
  <2>4. disk' \in [Ids -> Rec \cup {NoRec}]
    BY <1>1, <1>r, <1>t DEF TypeOK
  <2> QED
    BY <2>1, <2>2, <2>3, <2>4
<1>3. Twins'
  BY <1>2, <1>o, <1>r, <1>f, <1>t DEF Twins
<1>4. UploadedIsThere'
  BY <1>2, <1>o, <1>r, <1>f, <1>t DEF UploadedIsThere
<1>5. UploadedIsDurable'
  BY <1>2, <1>o, <1>r, <1>f, <1>t DEF UploadedIsDurable
<1>6. PartsKept'
  BY <1>2, <1>o, <1>r, <1>f, <1>t DEF PartsKept
<1> DEFINE Chosen(i) ==
             /\ i \in Ids /\ w'.id = i /\ w'.pc \in {"drop", "start"} /\ conf = Target(i)
             /\ mem'[i] # NoRec /\ mem'[i].term /\ mem'[i].up = w'.up
             /\ w'.pc = "start" => mem'[i].st \notin Done
             /\ w'.pc = "drop" => w'.up # 0
<1>7. /\ w' \in [pc: Positions, id: Ids, up: 0..MaxUploads, big: BOOLEAN, miss: BOOLEAN,
                 new: 0..MaxUploads]
      /\ w'.pc = "idle" \/ \E i \in Ids : Chosen(i)
  <2>1. CASE UNCHANGED w
    BY <2>1, <1>f, <1>t DEF TypeOK, Positions, Sending
  <2>2. ASSUME NEW i \in Eligible(mem'),
               w' = [Resting EXCEPT !.pc = IF mem'[i].st \in Done THEN "drop" ELSE "start",
                                    !.id = i, !.up = mem'[i].up, !.big = mem'[i].big]
        PROVE  /\ w' \in [pc: Positions, id: Ids, up: 0..MaxUploads, big: BOOLEAN,
                          miss: BOOLEAN, new: 0..MaxUploads]
               /\ Chosen(i)
    <3>1. /\ i \in Ids /\ mem'[i] \in Rec /\ mem'[i].term /\ conf = Target(i)
          /\ mem'[i].st \in Done => mem'[i].up # 0
      BY <1>2 DEF Eligible
    <3>2. /\ w'.pc = (IF mem'[i].st \in Done THEN "drop" ELSE "start") /\ w'.id = i
          /\ w'.up = mem'[i].up
      BY <2>2, RestingType
    <3>3. w' \in [pc: Positions, id: Ids, up: 0..MaxUploads, big: BOOLEAN, miss: BOOLEAN,
                  new: 0..MaxUploads]
      <4> DEFINE p == IF mem'[i].st \in Done THEN "drop" ELSE "start"
                 b == mem'[i].big
                 u == mem'[i].up
      <4>1. p \in Positions /\ b \in BOOLEAN /\ u \in 0..MaxUploads
        BY <3>1 DEF Rec, Positions
      <4>2. w' = [pc |-> p, id |-> i, up |-> u, big |-> b, miss |-> FALSE, new |-> 0]
        BY <2>2 DEF Resting
      <4> HIDE DEF p, b, u
      <4> QED
        BY <3>1, <4>1, <4>2
    <3> QED
      BY <3>1, <3>2, <3>3
  <2> QED
    BY <1>1, <2>1, <2>2
<1>8. Course'
  BY <1>7, <1>f DEF Course, OnRecords, OnBucket, Sending, Found, Bare, Target
<1>9. TypeOK'
  <2>1. \A i \in Ids : disk'[i] # NoRec => ValidRecord(i, disk'[i])
    BY <1>2, <1>3 DEF ValidRecord, Rec, Twins
  <2> QED
    BY <1>1, <1>2, <1>7, <1>f, <1>t, <2>1 DEF TypeOK, Positions, Sending, ValidRecord
<1> QED
  BY <1>3, <1>4, <1>5, <1>6, <1>8, <1>9 DEF TInv

\* What happens to a task outside the worker.
LEMMA TaskStep ==
    ASSUME TInv, NEW i \in Ids, Accept(i) \/ Agent(i) \/ Lapse(i) \/ Damage(i) \/ Intrude(i)
    PROVE  TInv'
<1> USE TransferAssumption, NoRecAssumption
<1>t. /\ TypeOK /\ PartsKept /\ UploadedIsThere /\ UploadedIsDurable /\ Twins
      /\ OnRecords /\ OnBucket /\ w.id \in Ids
  BY DEF TInv, Course, TypeOK
<1>1. CASE Accept(i)
  <2> DEFINE r == [st |-> "waiting_result", up |-> NoUp, big |-> FALSE, term |-> FALSE]
  <2>1. /\ mem' = [mem EXCEPT ![i] = r] /\ disk' = [disk EXCEPT ![i] = r] /\ mem[i] = NoRec
        /\ age[i] = 0 /\ UNCHANGED <<age, pkg, bucket, w, start, limits>>
    BY <1>1, <1>t DEF Accept, TypeOK
  <2>2. r \in Rec /\ r # NoRec /\ ~r.term /\ r.st = "waiting_result" /\ r.up = 0
    <3>1. r \in Rec
      BY DEF Rec, States
    <3> QED
      BY <3>1
  <2> HIDE DEF r
  <2>3. /\ mem'[i] = r /\ disk'[i] = r /\ \A j \in Ids \ {i} : mem'[j] = mem[j] /\ disk'[j] = disk[j]
        /\ mem' \in [Ids -> Rec \cup {NoRec}] /\ disk' \in [Ids -> Rec \cup {NoRec}]
    BY <2>1, <2>2, <1>t DEF TypeOK
  <2>4. TypeOK'
    BY <2>1, <2>2, <2>3, <1>t DEF TypeOK, ValidRecord, States
  <2>5. UploadedIsThere' /\ UploadedIsDurable' /\ Twins'
    BY <2>1, <2>2, <2>3, <1>t DEF UploadedIsThere, UploadedIsDurable, Twins
  <2>6. PartsKept'
    BY <2>1, <2>3, <1>t DEF PartsKept
  <2>7. OnRecords' /\ OnBucket'
    <3>1. w.pc # "idle" => w.id # i
      BY <2>1, <1>t DEF OnRecords
    <3> QED
      BY <2>1, <2>3, <3>1, <1>t DEF OnRecords, OnBucket, Target
  <2> QED
    BY <2>4, <2>5, <2>6, <2>7 DEF TInv, Course
<1>2. CASE Finish(i)
  <2>1. PICK p \in {"good", "none"}, b \in BOOLEAN :
          /\ pkg' = [pkg EXCEPT ![i] = p] /\ mem' = [mem EXCEPT ![i] = Prepared(i, p, b)]
          /\ \/ disk' = [disk EXCEPT ![i] = Prepared(i, p, b)] /\ UNCHANGED faults
             \/ Fault /\ disk' \in {disk, [disk EXCEPT ![i] = Prepared(i, p, b)]}
    BY <1>2 DEF Finish
  <2> DEFINE r == Prepared(i, p, b)
  <2>2. /\ r \in Rec /\ r # NoRec /\ r.term /\ r.st \in {"pending", "unavailable"} /\ r.up = 0
    <3>1. r \in Rec
      BY DEF Rec, States, Done, Prepared
    <3> QED
      BY <3>1 DEF Prepared
  <2>f. mem[i] # NoRec /\ ~mem[i].term /\ UNCHANGED <<age, bucket, w, start, crashes>>
    BY <1>2 DEF Finish
  <2> HIDE DEF r
  <2>3. /\ mem'[i] = r /\ disk'[i] \in {disk[i], r}
        /\ \A j \in Ids \ {i} : mem'[j] = mem[j] /\ disk'[j] = disk[j]
        /\ mem' \in [Ids -> Rec \cup {NoRec}] /\ disk' \in [Ids -> Rec \cup {NoRec}]
        /\ pkg' \in [Ids -> {"none", "good", "bad"}] /\ faults' \in Nat
    <3>1. mem' = [mem EXCEPT ![i] = r] /\ disk' \in {disk, [disk EXCEPT ![i] = r]}
      BY <2>1 DEF r
    <3>2. pkg' \in [Ids -> {"none", "good", "bad"}] /\ faults' \in Nat
      BY <2>1, <1>t DEF TypeOK, Fault
    <3> QED
      BY <2>2, <3>1, <3>2, <1>t DEF TypeOK
  <2>4. TypeOK'
    <3>1. \A j \in Ids : disk'[j] # NoRec => ValidRecord(j, disk'[j])
      BY <2>2, <2>3, <1>t DEF TypeOK, ValidRecord, Rec
    <3> QED
      BY <2>1, <2>3, <2>f, <3>1, <1>t DEF TypeOK, ValidRecord
  <2>5. UploadedIsThere' /\ UploadedIsDurable' /\ Twins'
    BY <2>2, <2>3, <2>f, <1>t DEF UploadedIsThere, UploadedIsDurable, Twins
  <2>6. PartsKept'
    BY <2>3, <2>f, <1>t DEF PartsKept
  <2>7. OnRecords' /\ OnBucket'
    <3>1. w.pc # "idle" => w.id # i
      BY <2>f, <1>t DEF OnRecords
    <3> QED
      BY <2>3, <2>f, <3>1, <1>t DEF OnRecords, OnBucket, Target
  <2> QED
    BY <2>4, <2>5, <2>6, <2>7 DEF TInv, Course
<1>3. CASE CleanTask(i)
  <2>1. /\ mem' = [mem EXCEPT ![i] = NoRec] /\ disk' = [disk EXCEPT ![i] = NoRec]
        /\ age[i] = 2 /\ pkg' \in [Ids -> {"none", "good", "bad"}]
        /\ UNCHANGED <<age, bucket, w, start, limits>>
    BY <1>3, <1>t DEF CleanTask, TypeOK
  <2>2. /\ mem'[i] = NoRec /\ disk'[i] = NoRec
        /\ \A j \in Ids \ {i} : mem'[j] = mem[j] /\ disk'[j] = disk[j]
        /\ mem' \in [Ids -> Rec \cup {NoRec}] /\ disk' \in [Ids -> Rec \cup {NoRec}]
    BY <2>1, <1>t DEF TypeOK
  <2>3. TypeOK'
    BY <2>1, <2>2, <1>t DEF TypeOK, ValidRecord
  <2>4. UploadedIsThere' /\ UploadedIsDurable' /\ Twins'
    BY <2>1, <2>2, <1>t DEF UploadedIsThere, UploadedIsDurable, Twins
  <2>5. PartsKept'
    BY <2>1, <2>2, <1>t DEF PartsKept
  <2>6. OnRecords' /\ OnBucket'
    BY <2>1, <2>2, <1>t DEF OnRecords, OnBucket, Target
  <2> QED
    BY <2>3, <2>4, <2>5, <2>6 DEF TInv, Course
<1>4. CASE Withdraw(i)
  <2>1. /\ disk' \in {disk, [disk EXCEPT ![i] = mem[i]]} /\ faults' \in Nat
        /\ mem[i] # NoRec /\ mem[i].term /\ UNCHANGED <<mem, age, pkg, bucket, w, start, crashes>>
    BY <1>4, <1>t DEF Withdraw, Fault, TypeOK
  <2>2. /\ disk'[i] \in {disk[i], mem[i]} /\ \A j \in Ids \ {i} : disk'[j] = disk[j]
        /\ disk' \in [Ids -> Rec \cup {NoRec}]
    BY <2>1, <1>t DEF TypeOK
  <2>3. Twins'
    BY <2>1, <2>2, <1>t DEF Twins
  <2>4. TypeOK'
    <3>1. \A j \in Ids : disk'[j] # NoRec => ValidRecord(j, disk'[j])
      BY <2>1, <2>2, <2>3 DEF ValidRecord, Twins, Rec
    <3> QED
      BY <2>1, <2>2, <3>1, <1>t DEF TypeOK, ValidRecord
  <2>5. UploadedIsThere' /\ UploadedIsDurable'
    BY <2>1, <2>2, <1>t DEF UploadedIsThere, UploadedIsDurable
  <2>6. PartsKept'
    BY <2>1, <2>2, <1>t DEF PartsKept
  <2>7. OnRecords' /\ OnBucket'
    BY <2>1, <2>2, <1>t DEF OnRecords, OnBucket, Target
  <2> QED
    BY <2>3, <2>4, <2>5, <2>6, <2>7 DEF TInv, Course
<1>5. CASE CleanResult(i) \/ Damage(i)
  <2>1. /\ pkg' \in [Ids -> {"none", "good", "bad"}] /\ faults' \in Nat
        /\ UNCHANGED <<records, age, bucket, w, start, crashes>>
    <3>1. pkg' \in {[pkg EXCEPT ![i] = "none"], [pkg EXCEPT ![i] = "bad"]}
      BY <1>5 DEF CleanResult, Damage
    <3>2. pkg' \in [Ids -> {"none", "good", "bad"}]
      BY <3>1, <1>t DEF TypeOK
    <3>3. UNCHANGED <<records, age, bucket, w, start, crashes>> /\ faults' \in Nat
      BY <1>5, <1>t DEF CleanResult, Damage, Fault, TypeOK
    <3> QED
      BY <3>2, <3>3
  <2> QED
    BY <2>1, <1>t DEF TInv, TypeOK, ValidRecord, UploadedIsThere, UploadedIsDurable, Twins,
                      PartsKept, Course, OnRecords, OnBucket, Target
<1>6. CASE Lapse(i)
  <2>1. /\ age' \in [Ids -> 0..2] /\ \A j \in Ids : age[j] = 2 => age'[j] = 2
        /\ UNCHANGED <<records, pkg, bucket, w, start, limits>>
    <3>1. age' = [age EXCEPT ![i] = age[i] + 1] /\ age[i] \in 0..1
      BY <1>6, <1>t DEF Lapse, TypeOK
    <3> QED
      BY <3>1, <1>6, <1>t DEF Lapse, TypeOK
  <2>2. TypeOK'
    BY <2>1, <1>t DEF TypeOK, ValidRecord
  <2>3. UploadedIsThere' /\ UploadedIsDurable' /\ Twins' /\ PartsKept'
    BY <2>1, <1>t DEF UploadedIsThere, UploadedIsDurable, Twins, PartsKept
  <2>4. OnRecords' /\ OnBucket'
    BY <2>1, <1>t DEF OnRecords, OnBucket, Target
  <2> QED
    BY <2>2, <2>3, <2>4 DEF TInv, Course
<1>7. CASE Intrude(i)
  <2>1. /\ object' \in [Ids -> {"none", "ours", "foreign"}]
        /\ \A j \in Ids : object[j] = "ours" => object'[j] = "ours"
        /\ UNCHANGED <<records, age, pkg, uploads, w, start, limits>>
    BY <1>7, <1>t DEF Intrude, TypeOK
  <2>2. TypeOK'
    BY <2>1, <1>t DEF TypeOK, ValidRecord
  <2>3. UploadedIsThere' /\ UploadedIsDurable' /\ Twins' /\ PartsKept'
    BY <2>1, <1>t DEF UploadedIsThere, UploadedIsDurable, Twins, PartsKept
  <2>4. OnRecords' /\ OnBucket'
    BY <2>1, <1>t DEF OnRecords, OnBucket, Target
  <2> QED
    BY <2>2, <2>3, <2>4 DEF TInv, Course
<1> QED
  BY <1>1, <1>2, <1>3, <1>4, <1>5, <1>6, <1>7 DEF Agent

\* A restart takes the records from the disk and forgets the worker's position.
LEMMA StartStep ==
    ASSUME TInv, RecoverDone \/ Restart
    PROVE  TInv'
<1> USE TransferAssumption, NoRecAssumption
<1>t. /\ TypeOK /\ PartsKept /\ UploadedIsThere /\ UploadedIsDurable /\ Twins
      /\ OnRecords /\ OnBucket
  BY DEF TInv, Course
<1>1. CASE RecoverDone
  BY <1>1, <1>t DEF RecoverDone, TInv, TypeOK, ValidRecord, UploadedIsThere, UploadedIsDurable,
                    Twins, PartsKept, Course, OnRecords, OnBucket, Target
<1>2. CASE Restart
  <2>1. /\ mem' = disk /\ w' = Resting /\ ready' = FALSE /\ conf' \in Configs /\ crashes' \in Nat
        /\ UNCHANGED <<disk, pkg, bucket, faults>>
    BY <1>2, <1>t DEF Restart, TypeOK
  <2>2. /\ age' \in [Ids -> 0..2]
        /\ \A i \in Ids : mem[i] = NoRec => age'[i] = age[i]
    BY <1>2, <1>t DEF Restart, TypeOK, Twins
  <2>3. w' \in [pc: Positions, id: Ids, up: 0..MaxUploads, big: BOOLEAN, miss: BOOLEAN,
                new: 0..MaxUploads] /\ w'.pc = "idle"
    BY <2>1, RestingType
  <2>4. TypeOK'
    BY <2>1, <2>2, <2>3, <1>t DEF TypeOK, ValidRecord, Positions, Sending
  <2>5. UploadedIsThere' /\ UploadedIsDurable' /\ Twins'
    BY <2>1, <1>t DEF UploadedIsThere, UploadedIsDurable, Twins
  <2>6. PartsKept'
    BY <2>1, <2>2, <1>t DEF PartsKept, Twins
  <2>7. Course'
    BY <2>3 DEF Course, OnRecords, OnBucket
  <2> QED
    BY <2>4, <2>5, <2>6, <2>7 DEF TInv
<1> QED
  BY <1>1, <1>2

\* A fresh agent satisfies the invariant.
LEMMA InitTransfer == Init => TInv
<1> SUFFICES ASSUME Init PROVE TInv
  OBVIOUS
<1> USE TransferAssumption, NoRecAssumption
<1>1. w \in [pc: Positions, id: Ids, up: 0..MaxUploads, big: BOOLEAN, miss: BOOLEAN,
             new: 0..MaxUploads] /\ w.pc = "idle"
  BY RestingType DEF Init
<1>2. TypeOK
  BY <1>1 DEF Init, TypeOK, Positions, Sending, ValidRecord
<1>3. UploadedIsThere /\ UploadedIsDurable /\ Twins /\ PartsKept
  BY DEF Init, UploadedIsThere, UploadedIsDurable, Twins, PartsKept
<1>4. Course
  BY <1>1 DEF Course, OnRecords, OnBucket
<1> QED
  BY <1>2, <1>3, <1>4 DEF TInv

\* Every step keeps it.
LEMMA TransferStep == TInv /\ [Next]_vars => TInv'
<1> SUFFICES ASSUME TInv, [Next]_vars PROVE TInv'
  OBVIOUS
<1>1. CASE Step
  BY <1>1, WriteStep, CheckStep, AbortStep, PutStep, CreateStep, SendStep DEF Step
<1>2. CASE UNCHANGED vars
  BY <1>2 DEF TInv, TypeOK, ValidRecord, UploadedIsThere, UploadedIsDurable, Twins, PartsKept,
              Course, OnRecords, OnBucket, Target
<1> QED
  BY <1>1, <1>2, ChooseStep, TaskStep, StartStep DEF Next

-----------------------------------------------------------------------------
(* The theorems.                                                           *)

\* What the worker carries from call to call is right in every reachable state.
THEOREM TransferInvariant == Spec => []TInv
BY InitTransfer, TransferStep, PTL DEF Spec

\* The records and the worker's position have their types, and every record on
\* disk is one that S3Result.valid accepts at the next start.
THEOREM TransferTypes == Spec => []TypeOK
<1>1. TInv => TypeOK
  BY DEF TInv
<1> QED
  BY TransferInvariant, <1>1, PTL

\* transfer reports a success, in memory or on disk, only for an object in the
\* bucket that Check has found to be the agent's own.
THEOREM SuccessIsThere == Spec => []UploadedIsThere
<1>1. TInv => UploadedIsThere
  BY DEF TInv
<1> QED
  BY TransferInvariant, <1>1, PTL

\* storeTransfer: clients see a success only when it is on disk.
THEOREM SuccessIsDurable == Spec => []UploadedIsDurable
<1>1. TInv => UploadedIsDurable
  BY DEF TInv
<1> QED
  BY TransferInvariant, <1>1, PTL

\* The id of an upload with parts is on disk while its task exists, whatever
\* calls and writes failed before.
THEOREM PartsCanBeAborted == Spec => []PartsRecorded
<1>1. TInv => PartsRecorded
  BY DEF TInv, PartsKept, PartsRecorded, Twins
<1> QED
  BY TransferInvariant, <1>1, PTL

\* Nothing is sent for a task whose final record is not on disk, or to a target
\* other than the one it was accepted for.
THEOREM NothingSentUncommitted == Spec => []CommittedBeforeSending
<1>1. TInv => CommittedBeforeSending
  BY DEF TInv, TypeOK, Course, OnRecords, CommittedBeforeSending, Twins, Sending
<1> QED
  BY TransferInvariant, <1>1, PTL

\* Only the two Puts and CompleteMultipartUpload create the object, and those
\* for S3 are conditional: the S3 client never replaces another writer's object.
THEOREM ForeignIsKept == Spec => ForeignKept
<1> DEFINE Kept == \A i \in Ids \ Yos : object[i] = "foreign" => object'[i] = "foreign"
<1>1. ASSUME TypeOK, [Next]_vars PROVE Kept
  <2>1. \/ UNCHANGED object
        \/ \E i \in Ids : object[i] = "none" /\ object' = [object EXCEPT ![i] = "foreign"]
        \/ object[w.id] = "none" /\ object' = [object EXCEPT ![w.id] = "ours"]
        \/ object' = [object EXCEPT ![w.id] = IF @ = "none" THEN "ours" ELSE @]
        \/ w.id \in Yos /\ object' = [object EXCEPT ![w.id] = "ours"]
    <3>1. CASE Step
      BY <3>1 DEF Step, Drop, DropFail, Dropped, Start, LeaseFile, Check, CheckFail, AbortOld,
                  ClearOld, PutSmall, PutYos, PutCreate, Checkpoint, Abandon, PutParts,
                  PutComplete, Completes, Undo, Unmark, Recheck, Commit, Record, Retry
    <3>2. CASE NextUpload \/ RecoverDone \/ Restart \/ UNCHANGED vars
      BY <3>2 DEF NextUpload, RecoverDone, Restart
    <3>3. ASSUME NEW i \in Ids, Accept(i) \/ Agent(i) \/ Lapse(i) \/ Damage(i) \/ Intrude(i)
          PROVE  UNCHANGED object
                 \/ (object[i] = "none" /\ object' = [object EXCEPT ![i] = "foreign"])
      BY <3>3 DEF Accept, Agent, Finish, CleanResult, CleanTask, Withdraw, Lapse, Damage, Intrude
    <3> QED
      BY <1>1, <3>1, <3>2, <3>3 DEF Next
  <2> QED
    BY <1>1, <2>1 DEF TypeOK
<1>2. TInv /\ [Next]_vars => [Kept]_vars
  BY <1>1 DEF TInv
<1> QED
  BY TransferInvariant, <1>2, PTL DEF Spec, ForeignKept

\* What a step may do to a transfer that is over.
Stays(i) ==
    /\ mem[i].st = "uploaded" => mem'[i].st = "uploaded"
    /\ crashes' = crashes => /\ mem[i].st \in Done => mem'[i].st \in Done
                             /\ mem[i].term => mem'[i].term
                             /\ age[i] > 0 => age'[i] > 0

\* A step keeps a success, and a process keeps what is over.
LEMMA OverStep ==
    ASSUME TInv, [Next]_vars, NEW i \in Ids, mem[i] # NoRec, mem'[i] # NoRec
    PROVE  Stays(i)
<1> USE TransferAssumption, NoRecAssumption
<1>t. /\ TypeOK /\ UploadedIsDurable /\ Twins /\ OnRecords /\ mem[i] \in Rec /\ w.id \in Ids
  BY DEF TInv, Course, TypeOK
<1>1. CASE UNCHANGED <<mem, age>>
  BY <1>1 DEF Stays
<1>2. ASSUME mem'[i] # mem[i], Step PROVE Stays(i)
  <2>1. w.pc # "idle" /\ UNCHANGED age
    BY <1>2 DEF Step, At, Drop, DropFail, Dropped, Start, LeaseFile, Check, CheckFail, AbortOld,
                ClearOld, PutSmall, PutYos, PutCreate, Checkpoint, Abandon, PutParts,
                PutComplete, Undo, Unmark, Recheck, Commit, Record, Retry
  <2> DEFINE m == mem[w.id]
  <2>2. \/ Dropped \/ Start \/ LeaseFile \/ ClearOld \/ Checkpoint \/ Unmark \/ Record \/ Retry
    BY <1>2 DEF Step, Drop, DropFail, Check, CheckFail, AbortOld, PutSmall, PutYos, PutCreate,
                Abandon, PutParts, PutComplete, Undo, Recheck, Commit
  <2>3. PICK r : /\ mem' \in {mem, [mem EXCEPT ![w.id] = r]}
                 /\ r \in {[m EXCEPT !.up = NoUp], [m EXCEPT !.up = w.new], RetryRecord(m)}
                    \/ (w.pc = "start" /\ r = [m EXCEPT !.st = "uploading"])
                    \/ (w.pc = "lease" /\ r = [m EXCEPT !.st = "unavailable"])
                    \/ (w.pc = "record" /\ r = [m EXCEPT !.st = "uploaded", !.up = NoUp])
    BY <2>2 DEF Dropped, Start, LeaseFile, ClearOld, Checkpoint, Unmark, Record, Retry, Store,
                StoreFail, At
  <2>4. i = w.id /\ mem'[i] = r /\ m \in Rec
    BY <1>2, <2>3, <1>t DEF TypeOK
  <2>5. w.pc \in {"start", "lease", "record"} => m.st \notin Done
    BY <2>1, <2>4, <1>t DEF OnRecords, Done, Sending
  <2>6. /\ r.term = m.term /\ (m.st = "uploaded" => r.st = "uploaded")
        /\ m.st \in Done => r.st \in Done
    <3>1. ASSUME r \in {[m EXCEPT !.up = NoUp], [m EXCEPT !.up = w.new]}
          PROVE  r.term = m.term /\ r.st = m.st
      BY <3>1, <2>4 DEF Rec
    <3>2. ASSUME r = RetryRecord(m)
          PROVE  r.term = m.term /\ (m.st \in Done => r.st = m.st)
      BY <3>2, <2>4 DEF Rec, RetryRecord
    <3>3. ASSUME \/ r = [m EXCEPT !.st = "uploading"] \/ r = [m EXCEPT !.st = "unavailable"]
                 \/ r = [m EXCEPT !.st = "uploaded", !.up = NoUp]
          PROVE  r.term = m.term
      BY <3>3, <2>4 DEF Rec
    <3>4. m.st \in Done => r.st = m.st
      BY <2>3, <2>5, <3>1, <3>2
    <3> QED
      BY <2>3, <3>1, <3>2, <3>3, <3>4 DEF Done
  <2> QED
    BY <2>1, <2>4, <2>6 DEF Stays
<1>3. CASE NextUpload
  <2> DEFINE over(j) == [mem[j] EXCEPT !.st = "expired"]
  <2>1. UNCHANGED age
    BY <1>3 DEF NextUpload
  <2>2. mem'[i] = mem[i] \/ (i \in Lapsed /\ mem'[i] = over(i))
    <3>1. PICK bad \in SUBSET Lapsed :
            mem' = [j \in Ids |-> IF j \in Lapsed \ bad THEN over(j) ELSE mem[j]]
      BY <1>3 DEF NextUpload
    <3> QED
      BY <3>1
  <2>3. i \in Lapsed => mem[i].st # "uploaded"
    BY DEF Lapsed
  <2>4. over(i).st = "expired" /\ over(i).term = mem[i].term
    BY <1>t DEF Rec
  <2> QED
    BY <2>1, <2>2, <2>3, <2>4 DEF Stays, Done
<1>4. CASE Restart
  <2>1. mem'[i] = disk[i] /\ crashes' # crashes
    BY <1>4, <1>t DEF Restart, TypeOK
  <2> QED
    BY <2>1, <1>t DEF Stays, UploadedIsDurable
<1>5. ASSUME NEW j \in Ids, Accept(j) \/ Agent(j) \/ Lapse(j) \/ Damage(j) \/ Intrude(j)
      PROVE  Stays(i)
  <2>1. CASE Accept(j)
    BY <2>1, <1>t, <1>1 DEF Accept, TypeOK, Stays
  <2>2. CASE Finish(j)
    <3>1. PICK r \in Rec : mem' = [mem EXCEPT ![j] = r] /\ r.term
      <4>1. PICK p \in {"good", "none"}, b \in BOOLEAN : mem' = [mem EXCEPT ![j] = Prepared(j, p, b)]
        BY <2>2 DEF Finish
      <4>2. Prepared(j, p, b) \in Rec /\ Prepared(j, p, b).term
        BY DEF Prepared, Rec, States, Done
      <4> QED
        BY <4>1, <4>2
    <3>2. UNCHANGED age /\ ~mem[j].term /\ mem[j] # NoRec
      BY <2>2 DEF Finish
    <3>3. mem[j].st \notin Done
      BY <3>2, <1>t DEF Twins, Done
    <3>4. CASE i = j
      BY <3>1, <3>2, <3>3, <3>4, <1>t DEF Stays, TypeOK, Done
    <3>5. CASE i # j
      BY <3>1, <3>2, <3>5, <1>t DEF Stays, TypeOK
    <3> QED
      BY <3>4, <3>5
  <2>3. CASE CleanTask(j)
    BY <2>3, <1>t DEF CleanTask, TypeOK, Stays
  <2>4. CASE Lapse(j)
    <3>1. mem' = mem /\ age' = [age EXCEPT ![j] = age[j] + 1] /\ age[j] \in 0..2 /\ age[i] \in 0..2
      BY <2>4, <1>t DEF Lapse, TypeOK
    <3>2. age[i] > 0 => age'[i] > 0
      BY <3>1, <1>t DEF TypeOK
    <3> QED
      BY <3>1, <3>2 DEF Stays
  <2>5. CASE CleanResult(j) \/ Withdraw(j) \/ Damage(j) \/ Intrude(j)
    BY <2>5, <1>1 DEF CleanResult, Withdraw, Damage, Intrude
  <2> QED
    BY <1>5, <2>1, <2>2, <2>3, <2>4, <2>5 DEF Agent
<1>6. CASE RecoverDone \/ UNCHANGED vars
  BY <1>6, <1>1 DEF RecoverDone
<1>7. CASE Step
  <2>1. UNCHANGED age
    BY <1>7 DEF Step, Drop, DropFail, Dropped, Start, LeaseFile, Check, CheckFail, AbortOld,
                ClearOld, PutSmall, PutYos, PutCreate, Checkpoint, Abandon, PutParts,
                PutComplete, Undo, Unmark, Recheck, Commit, Record, Retry
  <2> QED
    BY <1>2, <1>7, <2>1 DEF Stays
<1> QED
  BY <1>3, <1>4, <1>5, <1>6, <1>7 DEF Next

\* A success that clients have seen stays, also over a restart, and a transfer
\* shown as over is not shown as under way again by the same process.
THEOREM OverIsFinal == Spec => TransferIsFinal
<1> DEFINE Final ==
      \A i \in Ids : mem[i] # NoRec /\ mem'[i] # NoRec =>
          /\ Shown(i) = "uploaded" => Shown(i)' = "uploaded"
          /\ Shown(i) \in Done /\ crashes' = crashes => Shown(i)' \in Done
<1>1. ASSUME TInv, [Next]_vars PROVE Final
  <2> SUFFICES ASSUME NEW i \in Ids, mem[i] # NoRec, mem'[i] # NoRec
               PROVE  /\ Shown(i) = "uploaded" => Shown(i)' = "uploaded"
                      /\ Shown(i) \in Done /\ crashes' = crashes => Shown(i)' \in Done
    OBVIOUS
  <2>1. Stays(i)
    BY <1>1, OverStep
  <2>2. Shown(i)' = IF mem'[i].st # "uploaded" /\ mem'[i].term /\ age'[i] > 0
                    THEN "expired" ELSE mem'[i].st
    BY DEF Shown
  <2> QED
    BY <2>1, <2>2 DEF Shown, Stays, Done
<1>2. TInv /\ [Next]_vars => [Final]_vars
  BY <1>1
<1> QED
  BY TransferInvariant, <1>2, PTL DEF Spec, TransferIsFinal
=============================================================================
