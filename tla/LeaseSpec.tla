----------------------------- MODULE LeaseSpec -----------------------------
(***************************************************************************)
(* What the store promises the readers of results, without its budget, its *)
(* lease counts, its marks for deferred deletion and the steps of a        *)
(* deletion: the package a reader has open is neither replaced nor removed *)
(* until that reader closes it, and a directory leaves the disk as one     *)
(* step, when nobody reads in it and together with its task.               *)
(***************************************************************************)
CONSTANTS Dirs, Readers, NoDir, Absent, Contents

VARIABLES
    dir,     \* each task directory: "new" | "live" | "gone"
    served,  \* tasks the agent answers for
    result,  \* what result.tar.gz holds, or Absent
    reader   \* the directory each reader has a package open in, or NoDir

vars == <<dir, served, result, reader>>

Held(d) == {r \in Readers : reader[r] = d}

Init == /\ dir = [d \in Dirs |-> "new"] /\ served = {}
        /\ result = [d \in Dirs |-> Absent] /\ reader = [r \in Readers |-> NoDir]

\* A task is accepted.
Make(d) == /\ dir[d] = "new"
           /\ dir' = [dir EXCEPT ![d] = "live"] /\ served' = served \cup {d}
           /\ UNCHANGED <<result, reader>>

\* A package is put in place, or taken away: nobody reads it.
Put(d, c) == /\ dir[d] = "live" /\ Held(d) = {}
             /\ c # Absent => d \in served
             /\ result' = [result EXCEPT ![d] = c] /\ UNCHANGED <<dir, served, reader>>

Open(r, d) == /\ reader[r] = NoDir /\ result[d] # Absent
              /\ reader' = [reader EXCEPT ![r] = d] /\ UNCHANGED <<dir, served, result>>

\* The last reader may take the package away with it.
Close(r) == /\ reader[r] # NoDir
            /\ reader' = [reader EXCEPT ![r] = NoDir]
            /\ \/ UNCHANGED result
               \/ Held(reader[r]) = {r} /\ result' = [result EXCEPT ![reader[r]] = Absent]
            /\ UNCHANGED <<dir, served>>

\* The task is given up while its package is still being read.
Drop(d) == d \in served /\ served' = served \ {d} /\ UNCHANGED <<dir, result, reader>>

Vanish(d) == /\ dir[d] = "live" /\ Held(d) = {} /\ result[d] = Absent
             /\ dir' = [dir EXCEPT ![d] = "gone"] /\ served' = served \ {d}
             /\ UNCHANGED <<result, reader>>

\* All readers die with the process; a task given up but still on disk may be
\* served again, a directory left empty goes.
Restart == /\ reader' = [r \in Readers |-> NoDir]
           /\ \E gone \in SUBSET {d \in Dirs : dir[d] = "live" /\ result[d] = Absent} :
                dir' = [d \in Dirs |-> IF d \in gone THEN "gone" ELSE dir[d]]
           /\ served' \in SUBSET {d \in Dirs : dir'[d] = "live"}
           /\ UNCHANGED result

Next == \/ \E d \in Dirs : \/ Make(d) \/ Drop(d) \/ Vanish(d)
                           \/ \E c \in Contents \cup {Absent} : Put(d, c)
                           \/ \E r \in Readers : Open(r, d)
        \/ \E r \in Readers : Close(r)
        \/ Restart

Spec == Init /\ [][Next]_vars
=============================================================================
