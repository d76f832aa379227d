----------------------------- MODULE FileQueue -----------------------------
(***************************************************************************)
(* tools/file_queue.rs: with_file_queue runs an operation on a file while  *)
(* no other operation on it runs.  The queue keeps one semaphore per key,  *)
(* the canonical path of the file or, when there is no such file yet, the  *)
(* path as the caller spelled it.  Entries nobody used for five minutes    *)
(* are removed by a sweep that every Interval-th operation makes, in two   *)
(* passes: one collects the keys, one removes them.                        *)
(***************************************************************************)
EXTENDS Naturals, Sequences

CONSTANTS
    Ops,        \* operations, each made once
    Files,      \* files, named by their canonical path
    Spellings,  \* the other paths a caller may give for a file
    FileOf,     \* the file each path leads to
    Interval    \* CLEANUP_INTERVAL

Paths == Files \cup Spellings

(* What the constants are.                                                 *)
QueueAssumption ==
    /\ Interval \in Nat \ {0}
    /\ FileOf \in [Paths -> Files]
    /\ \A f \in Files : FileOf[f] = f

VARIABLES
    at,       \* where each operation is in with_file_queue
    path,     \* the path it was called with
    key,      \* the key it resolved that path to
    sem,      \* the semaphore it has cloned, 0 for none
    exists,   \* the files that exist
    table,    \* FILE_QUEUE.semaphores: the semaphore of a key, 0 for no entry
    waiting,  \* of each semaphore: who holds the permit, then who waits for it
    idle,     \* keys whose entry was last used more than five minutes ago
    collected,\* to_remove, of each operation that sweeps
    count,    \* operation_count
    taken     \* history: keys removed while an operation was using them

vars == <<at, path, key, sem, exists, table, waiting, idle, collected, count, taken>>

Stages == {"new", "called", "counted", "sweep", "wait", "run", "done"}
InFlight(o) == at[o] \in {"wait", "run"}
Sems == 1 .. Len(waiting)

TypeOK ==
    /\ at \in [Ops -> Stages]
    /\ path \in [Ops -> Paths] /\ key \in [Ops -> Paths]
    /\ sem \in [Ops -> Nat]
    /\ exists \in SUBSET Files /\ idle \in SUBSET Paths /\ taken \in SUBSET Paths
    /\ table \in [Paths -> Nat]
    /\ waiting \in Seq(Seq(Ops))
    /\ collected \in [Ops -> SUBSET Paths]
    /\ count \in Nat

Init ==
    /\ at = [o \in Ops |-> "new"]
    /\ path \in [Ops -> Paths] /\ key = path
    /\ sem = [o \in Ops |-> 0]
    /\ exists \in SUBSET Files
    /\ table = [k \in Paths |-> 0]
    /\ waiting = <<>>
    /\ idle = {} /\ taken = {}
    /\ collected = [o \in Ops |-> {}]
    /\ count = 0

(* canonicalize, or the path itself when that fails.                       *)
Resolve(o) ==
    /\ at[o] = "new"
    /\ at' = [at EXCEPT ![o] = "called"]
    /\ key' = [key EXCEPT ![o] = IF FileOf[path[o]] \in exists THEN FileOf[path[o]] ELSE path[o]]
    /\ UNCHANGED <<path, sem, exists, table, waiting, idle, collected, count, taken>>

(* fetch_add, and the first pass of the sweep when its turn has come.      *)
Count(o) ==
    /\ at[o] = "called"
    /\ count' = count + 1
    /\ IF count' % Interval = 0
       THEN /\ at' = [at EXCEPT ![o] = "sweep"]
            /\ collected' = [collected EXCEPT ![o] = {k \in idle : table[k] # 0}]
       ELSE at' = [at EXCEPT ![o] = "counted"] /\ UNCHANGED collected
    /\ UNCHANGED <<path, key, sem, exists, table, waiting, idle, taken>>

(* The second pass: whatever happened to an entry since, it is removed.    *)
Sweep(o) ==
    /\ at[o] = "sweep"
    /\ at' = [at EXCEPT ![o] = "counted"]
    /\ table' = [k \in Paths |-> IF k \in collected[o] THEN 0 ELSE table[k]]
    /\ taken' = taken \cup {k \in collected[o] : \E p \in Ops : InFlight(p) /\ key[p] = k}
    /\ collected' = [collected EXCEPT ![o] = {}]
    /\ UNCHANGED <<path, key, sem, exists, waiting, idle, count>>

(* A mutant: every operation inserts a semaphore of its own.               *)
FaultEnter(o) ==
    /\ at[o] = "counted"
    /\ at' = [at EXCEPT ![o] = "wait"]
    /\ idle' = idle \ {key[o]}
    /\ waiting' = Append(waiting, <<o>>)
    /\ sem' = [sem EXCEPT ![o] = Len(waiting) + 1]
    /\ table' = [table EXCEPT ![key[o]] = Len(waiting) + 1]
    /\ UNCHANGED <<path, key, exists, collected, count, taken>>

(* entry().or_insert_with, the new time stamp, and a place in the queue of *)
(* the semaphore: tokio hands its permit to waiters in their order.        *)
Enter(o) ==
    /\ at[o] = "counted"
    /\ at' = [at EXCEPT ![o] = "wait"]
    /\ idle' = idle \ {key[o]}
    /\ IF table[key[o]] = 0
       THEN /\ waiting' = Append(waiting, <<o>>)
            /\ sem' = [sem EXCEPT ![o] = Len(waiting) + 1]
            /\ table' = [table EXCEPT ![key[o]] = Len(waiting) + 1]
       ELSE /\ waiting' = [waiting EXCEPT ![table[key[o]]] = Append(@, o)]
            /\ sem' = [sem EXCEPT ![o] = table[key[o]]]
            /\ UNCHANGED table
    /\ UNCHANGED <<path, key, exists, collected, count, taken>>

(* The operation begins; the file it writes exists from now on.            *)
Acquire(o) ==
    /\ at[o] = "wait"
    /\ Head(waiting[sem[o]]) = o
    /\ at' = [at EXCEPT ![o] = "run"]
    /\ exists' = exists \cup {FileOf[path[o]]}
    /\ UNCHANGED <<path, key, sem, table, waiting, idle, collected, count, taken>>

Release(o) ==
    /\ at[o] = "run"
    /\ at' = [at EXCEPT ![o] = "done"]
    /\ waiting' = [waiting EXCEPT ![sem[o]] = Tail(@)]
    /\ UNCHANGED <<path, key, sem, exists, table, idle, collected, count, taken>>

(* Five minutes pass without a call for this key; an operation that runs   *)
(* or waits does not renew its time stamp.                                 *)
GrowIdle(k) ==
    /\ table[k] # 0 /\ k \notin idle
    /\ idle' = idle \cup {k}
    /\ UNCHANGED <<at, path, key, sem, exists, table, waiting, collected, count, taken>>

Step(o) == Resolve(o) \/ Count(o) \/ Sweep(o) \/ Enter(o) \/ Acquire(o) \/ Release(o)

Next ==
    \/ \E o \in Ops : Step(o)
    \/ \E k \in Paths : GrowIdle(k)

Spec == Init /\ [][Next]_vars

-----------------------------------------------------------------------------
(* with_file_queue: "If another operation is already in progress for the   *)
(* same file, this will wait until it completes before proceeding."  Two   *)
(* operations with one key never run together, unless a sweep took the     *)
(* entry away while an operation was using it.                             *)
OneWriterPerKey ==
    \A o, p \in Ops :
        o # p /\ at[o] = "run" /\ at[p] = "run" /\ key[o] = key[p] => key[o] \in taken

(* The same for the file itself, once every caller names it by its         *)
(* canonical path: a file that does not exist yet has no other name.       *)
OneWriterPerFile ==
    \A o, p \in Ops :
        /\ o # p /\ at[o] = "run" /\ at[p] = "run"
        /\ FileOf[path[o]] = FileOf[path[p]]
        /\ {path[o], path[p]} \subseteq Files
        => key[o] \in taken
=============================================================================
