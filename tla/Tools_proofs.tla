---------------------------- MODULE Tools_proofs ----------------------------
(***************************************************************************)
(* The tools, for every value of their constants: operations on one file   *)
(* take turns, a command ends cleanly however its exit, its timeout, the   *)
(* cancellation and the two readers race, the pages of a file show every   *)
(* line, and the edits of a call are made in the text as it was.           *)
(*                                                                         *)
(* An operation in flight stands in the queue of its semaphore, and the    *)
(* one that runs stands first.  As long as no sweep took the entry of its  *)
(* key while it was in use, that semaphore is the one in the table: two    *)
(* operations with one key stand in one queue, and only one can be first.  *)
(***************************************************************************)
EXTENDS Tools, Induction, FiniteSetTheorems, FunctionTheorems, TLAPS

(* The file mutation queue.                                                *)

(* An operation in flight is in the queue of a semaphore that exists.      *)
InItsQueue ==
    \A o \in Ops : Queue!InFlight(o) =>
        /\ sem[o] \in Queue!Sems
        /\ \E i \in 1 .. Len(waiting[sem[o]]) : waiting[sem[o]][i] = o

(* The operation that runs holds the permit.                               *)
HoldsPermit == \A o \in Ops : at[o] = "run" => Head(waiting[sem[o]]) = o

(* The semaphore of an entry that was not taken is the one of the table.   *)
InTable == \A o \in Ops : Queue!InFlight(o) /\ key[o] \notin taken => sem[o] = table[key[o]]

TableOK == \A k \in Queue!Paths : table[k] \in 0 .. Len(waiting)

(* A canonical path is its own key.                                        *)
KeyOK == \A o \in Ops : path[o] \in Files => key[o] = path[o]

QueueInv == Queue!TypeOK /\ TableOK /\ InItsQueue /\ HoldsPermit /\ InTable /\ KeyOK

-----------------------------------------------------------------------------
LEMMA PathsTyped ==
    ASSUME Queue!QueueAssumption
    PROVE  \A q \in Queue!Paths : FileOf[q] \in Files /\ FileOf[q] \in Queue!Paths
BY DEF Queue!QueueAssumption, Queue!Paths

(* What is needed of sequences: their heads and members under Append, Tail. *)
LEMMA AppendFacts ==
    ASSUME NEW S, NEW s \in Seq(S), NEW x \in S
    PROVE  /\ Append(s, x) \in Seq(S)
           /\ Len(Append(s, x)) = Len(s) + 1
           /\ \A i \in 1 .. Len(s) : Append(s, x)[i] = s[i]
           /\ Append(s, x)[Len(s) + 1] = x
           /\ s # <<>> => Head(Append(s, x)) = Head(s)
OBVIOUS

LEMMA TailFacts ==
    ASSUME NEW S, NEW s \in Seq(S), NEW i \in 1 .. Len(s), s[i] # Head(s)
    PROVE  /\ Tail(s) \in Seq(S)
           /\ \E j \in 1 .. Len(Tail(s)) : Tail(s)[j] = s[i]
<1>1. s # <<>> /\ Head(s) = s[1]
  OBVIOUS
<1>2. i # 1
  BY <1>1
<1>3. Tail(s) \in Seq(S) /\ Len(Tail(s)) = Len(s) - 1
  BY <1>1
<1>4. i - 1 \in 1 .. Len(Tail(s))
  BY <1>2, <1>3
<1>5. Tail(s)[i - 1] = s[(i - 1) + 1]
  BY <1>1, <1>4
<1> QED BY <1>3, <1>4, <1>5

LEMMA QueueStarts == ASSUME Queue!QueueAssumption, Queue!Init PROVE QueueInv
BY DEF Queue!Init, QueueInv, Queue!TypeOK, TableOK, InItsQueue, HoldsPermit, InTable, KeyOK,
    Queue!InFlight, Queue!Sems, Queue!Stages, Queue!Paths

-----------------------------------------------------------------------------
(* Steps that leave every queue and every semaphore alone.                 *)
LEMMA QueuesKept ==
    ASSUME QueueInv, UNCHANGED <<waiting, sem>>,
           \A o \in Ops : Queue!InFlight(o)' => Queue!InFlight(o)
    PROVE  InItsQueue'
BY DEF QueueInv, InItsQueue, Queue!Sems

LEMMA ResolveStep ==
    ASSUME Queue!QueueAssumption, QueueInv, NEW o \in Ops, Queue!Resolve(o)
    PROVE  QueueInv'
<1> USE DEF QueueInv
<1>1. Queue!TypeOK'
  BY PathsTyped DEF Queue!TypeOK, Queue!Resolve, Queue!Stages, Queue!Paths
<1>2. \A p \in Ops : /\ Queue!InFlight(p)' => p # o /\ Queue!InFlight(p)
                     /\ p # o => key'[p] = key[p]
  BY DEF Queue!TypeOK, Queue!Resolve, Queue!InFlight
<1>3. TableOK' /\ KeyOK'
  BY DEF TableOK, KeyOK, Queue!TypeOK, Queue!Resolve, Queue!QueueAssumption
<1>4. InItsQueue'
  BY <1>2, QueuesKept DEF Queue!Resolve
<1>5. HoldsPermit' /\ InTable'
  BY <1>2 DEF HoldsPermit, InTable, Queue!TypeOK, Queue!Resolve, Queue!InFlight
<1> QED BY <1>1, <1>3, <1>4, <1>5

LEMMA CountStep ==
    ASSUME Queue!QueueAssumption, QueueInv, NEW o \in Ops, Queue!Count(o)
    PROVE  QueueInv'
<1> USE DEF QueueInv
<1>1. Queue!TypeOK'
  <2>1. \/ /\ at' = [at EXCEPT ![o] = "sweep"]
           /\ collected' = [collected EXCEPT ![o] = {k \in idle : table[k] # 0}]
        \/ at' = [at EXCEPT ![o] = "counted"] /\ collected' = collected
    BY DEF Queue!Count
  <2>2. count' = count + 1 /\ UNCHANGED <<path, key, sem, exists, table, waiting, idle, taken>>
    BY DEF Queue!Count
  <2>3. at' \in [Ops -> Queue!Stages] /\ collected' \in [Ops -> SUBSET Queue!Paths]
    <3>1. {k \in idle : table[k] # 0} \in SUBSET Queue!Paths
      BY DEF Queue!TypeOK
    <3> QED BY <2>1, <3>1 DEF Queue!TypeOK, Queue!Stages
  <2> QED BY <2>2, <2>3 DEF Queue!TypeOK
<1>2. \A p \in Ops : Queue!InFlight(p)' => p # o /\ Queue!InFlight(p)
  BY DEF Queue!TypeOK, Queue!Count, Queue!InFlight
<1>3. TableOK' /\ KeyOK'
  BY DEF TableOK, KeyOK, Queue!Count
<1>4. InItsQueue'
  BY <1>2, QueuesKept DEF Queue!Count
<1>5. HoldsPermit' /\ InTable'
  BY <1>2 DEF HoldsPermit, InTable, Queue!TypeOK, Queue!Count, Queue!InFlight
<1> QED BY <1>1, <1>3, <1>4, <1>5

(* A key whose entry goes is taken, unless nobody in flight has it.        *)
LEMMA SweepStep ==
    ASSUME Queue!QueueAssumption, QueueInv, NEW o \in Ops, Queue!Sweep(o)
    PROVE  QueueInv'
<1> USE DEF QueueInv
<1>1. Queue!TypeOK'
  BY DEF Queue!TypeOK, Queue!Sweep, Queue!Stages
<1>2. \A p \in Ops : Queue!InFlight(p)' => p # o /\ Queue!InFlight(p)
  BY DEF Queue!TypeOK, Queue!Sweep, Queue!InFlight
<1>3. TableOK' /\ KeyOK'
  BY DEF TableOK, KeyOK, Queue!TypeOK, Queue!Sweep
<1>4. InItsQueue'
  BY <1>2, QueuesKept DEF Queue!Sweep
<1>5. HoldsPermit'
  BY <1>2 DEF HoldsPermit, Queue!TypeOK, Queue!Sweep
<1>6. InTable'
  <2> SUFFICES ASSUME NEW p \in Ops, Queue!InFlight(p)', key[p] \notin taken'
               PROVE  sem[p] = table'[key[p]]
    BY DEF InTable, Queue!Sweep
  <2>1. Queue!InFlight(p) /\ key[p] \notin taken /\ key[p] \notin collected[o]
    BY <1>2 DEF Queue!Sweep
  <2>2. table'[key[p]] = table[key[p]]
    BY <2>1 DEF Queue!Sweep, Queue!TypeOK
  <2> QED BY <2>1, <2>2 DEF InTable
<1> QED BY <1>1, <1>3, <1>4, <1>5, <1>6

(* A new semaphore has no one else; an old one gets its operation last.    *)
LEMMA EnterStep ==
    ASSUME Queue!QueueAssumption, QueueInv, NEW o \in Ops, Queue!Enter(o)
    PROVE  QueueInv'
<1> USE DEF QueueInv
<1>1. \A p \in Ops : p # o =>
        (Queue!InFlight(p)' <=> Queue!InFlight(p)) /\ sem'[p] = sem[p] /\ at'[p] = at[p]
  BY DEF Queue!TypeOK, Queue!Enter, Queue!InFlight
<1>2. at[o] = "counted" /\ at'[o] = "wait" /\ ~Queue!InFlight(o)
  BY DEF Queue!TypeOK, Queue!Enter, Queue!InFlight
<1>3. CASE table[key[o]] = 0
  <2>1. waiting' = Append(waiting, <<o>>)
    BY <1>3 DEF Queue!Enter
  <2>2. /\ waiting' \in Seq(Seq(Ops)) /\ Len(waiting') = Len(waiting) + 1
        /\ \A s \in Queue!Sems : waiting'[s] = waiting[s]
        /\ waiting'[Len(waiting) + 1] = <<o>>
    BY <2>1, AppendFacts DEF Queue!TypeOK, Queue!Sems
  <2>3. /\ sem' = [sem EXCEPT ![o] = Len(waiting) + 1]
        /\ table' = [table EXCEPT ![key[o]] = Len(waiting) + 1]
    BY <1>3 DEF Queue!Enter
  <2>4. Queue!TypeOK'
    BY <2>2, <2>3 DEF Queue!TypeOK, Queue!Enter, Queue!Stages
  <2>5. TableOK' /\ KeyOK'
    BY <2>2, <2>3 DEF TableOK, KeyOK, Queue!TypeOK, Queue!Enter
  <2>6. InItsQueue'
    <3> SUFFICES ASSUME NEW p \in Ops, Queue!InFlight(p)'
                 PROVE  /\ sem'[p] \in Queue!Sems'
                        /\ \E i \in 1 .. Len(waiting'[sem'[p]]) : waiting'[sem'[p]][i] = p
      BY DEF InItsQueue
    <3>1. CASE p = o
      <4>1. sem'[p] = Len(waiting) + 1 /\ Len(<<o>>) = 1 /\ <<o>>[1] = p
        BY <3>1, <2>3 DEF Queue!TypeOK
      <4> QED BY <4>1, <2>2 DEF Queue!Sems
    <3>2. CASE p # o
      BY <3>2, <1>1, <2>2 DEF InItsQueue, Queue!Sems
    <3> QED BY <3>1, <3>2
  <2>7. HoldsPermit'
    BY <1>1, <1>2, <2>2 DEF HoldsPermit, InItsQueue, Queue!InFlight
  <2>8. InTable'
    <3> SUFFICES ASSUME NEW p \in Ops, Queue!InFlight(p)', key[p] \notin taken
                 PROVE  sem'[p] = table'[key[p]]
      BY DEF InTable, Queue!Enter
    <3>1. CASE p = o
      BY <3>1, <2>3 DEF Queue!TypeOK
    <3>2. CASE p # o
      <4>1. Queue!InFlight(p) /\ sem[p] = table[key[p]] /\ sem[p] # 0
        BY <3>2, <1>1 DEF InTable, InItsQueue, Queue!Sems
      <4> QED BY <3>2, <4>1, <1>3, <2>3, <1>1 DEF Queue!TypeOK
    <3> QED BY <3>1, <3>2
  <2> QED BY <2>4, <2>5, <2>6, <2>7, <2>8
<1>4. CASE table[key[o]] # 0
  <2> DEFINE q == table[key[o]]
  <2>1. q \in Queue!Sems /\ waiting' = [waiting EXCEPT ![q] = Append(@, o)]
    BY <1>4 DEF Queue!Enter, TableOK, Queue!TypeOK, Queue!Sems
  <2>2. waiting[q] \in Seq(Ops)
    BY <2>1 DEF Queue!TypeOK, Queue!Sems
  <2>3. /\ waiting' \in Seq(Seq(Ops)) /\ Len(waiting') = Len(waiting)
        /\ \A s \in Queue!Sems \ {q} : waiting'[s] = waiting[s]
        /\ waiting'[q] = Append(waiting[q], o)
    BY <2>1, <2>2, AppendFacts DEF Queue!TypeOK, Queue!Sems
  <2>4. sem' = [sem EXCEPT ![o] = q] /\ table' = table
    BY <1>4 DEF Queue!Enter
  <2>5. Queue!TypeOK'
    BY <2>1, <2>3, <2>4 DEF Queue!TypeOK, Queue!Enter, Queue!Stages, Queue!Sems
  <2>6. TableOK' /\ KeyOK'
    BY <2>3, <2>4 DEF TableOK, KeyOK, Queue!Enter
  <2>7. InItsQueue'
    <3> SUFFICES ASSUME NEW p \in Ops, Queue!InFlight(p)'
                 PROVE  /\ sem'[p] \in Queue!Sems'
                        /\ \E i \in 1 .. Len(waiting'[sem'[p]]) : waiting'[sem'[p]][i] = p
      BY DEF InItsQueue
    <3>0. Queue!Sems' = Queue!Sems
      BY <2>3 DEF Queue!Sems
    <3>1. CASE p = o
      <4>1. sem'[p] = q
        BY <3>1, <2>4 DEF Queue!TypeOK
      <4>2. /\ Len(waiting[q]) + 1 \in 1 .. Len(Append(waiting[q], o))
            /\ Append(waiting[q], o)[Len(waiting[q]) + 1] = o
        BY <2>2
      <4> QED BY <4>1, <4>2, <3>0, <3>1, <2>1, <2>3
    <3>2. CASE p # o
      <4>1. Queue!InFlight(p) /\ sem'[p] = sem[p] /\ sem[p] \in Queue!Sems
        BY <3>2, <1>1 DEF InItsQueue
      <4>2. PICK i \in 1 .. Len(waiting[sem[p]]) : waiting[sem[p]][i] = p
        BY <4>1 DEF InItsQueue
      <4>3. CASE sem[p] # q
        BY <4>1, <4>2, <4>3, <3>0, <2>3
      <4>4. CASE sem[p] = q
        <5>1. i \in 1 .. Len(Append(waiting[q], o)) /\ Append(waiting[q], o)[i] = p
          BY <2>2, <4>2, <4>4
        <5> QED BY <5>1, <4>1, <4>4, <3>0, <2>3
      <4> QED BY <4>3, <4>4
    <3> QED BY <3>1, <3>2
  <2>8. HoldsPermit'
    <3> SUFFICES ASSUME NEW p \in Ops, at'[p] = "run"
                 PROVE  Head(waiting'[sem'[p]]) = p
      BY DEF HoldsPermit
    <3>1. /\ p # o /\ at[p] = "run" /\ Queue!InFlight(p) /\ sem'[p] = sem[p]
          /\ sem[p] \in Queue!Sems
      BY <1>1, <1>2 DEF Queue!InFlight, InItsQueue
    <3>2. Head(waiting[sem[p]]) = p /\ waiting[sem[p]] # <<>>
      BY <3>1 DEF HoldsPermit, InItsQueue
    <3>3. CASE sem[p] = q
      BY <3>1, <3>2, <3>3, <2>2, <2>3, AppendFacts
    <3>4. CASE sem[p] # q
      BY <3>1, <3>2, <3>4, <2>3
    <3> QED BY <3>3, <3>4
  <2>9. InTable'
    BY <1>1, <2>4 DEF InTable, Queue!TypeOK, Queue!Enter
  <2> QED BY <2>5, <2>6, <2>7, <2>8, <2>9
<1> QED BY <1>3, <1>4

LEMMA AcquireStep ==
    ASSUME Queue!QueueAssumption, QueueInv, NEW o \in Ops, Queue!Acquire(o)
    PROVE  QueueInv'
<1> USE DEF QueueInv
<1>1. Queue!TypeOK'
  BY PathsTyped DEF Queue!TypeOK, Queue!Acquire, Queue!Stages
<1>2. \A p \in Ops : Queue!InFlight(p)' => Queue!InFlight(p)
  BY DEF Queue!TypeOK, Queue!Acquire, Queue!InFlight
<1>3. TableOK' /\ KeyOK'
  BY DEF TableOK, KeyOK, Queue!Acquire
<1>4. InItsQueue'
  BY <1>2, QueuesKept DEF Queue!Acquire
<1>5. HoldsPermit' /\ InTable'
  BY <1>2 DEF HoldsPermit, InTable, Queue!TypeOK, Queue!Acquire, Queue!InFlight
<1> QED BY <1>1, <1>3, <1>4, <1>5

(* The first leaves its queue; whoever stood behind it still stands there. *)
LEMMA ReleaseStep ==
    ASSUME Queue!QueueAssumption, QueueInv, NEW o \in Ops, Queue!Release(o)
    PROVE  QueueInv'
<1> USE DEF QueueInv
<1> DEFINE q == sem[o]
<1>1. q \in Queue!Sems /\ waiting[q] \in Seq(Ops) /\ waiting[q] # <<>> /\ Head(waiting[q]) = o
  BY DEF Queue!Release, Queue!InFlight, InItsQueue, HoldsPermit, Queue!TypeOK, Queue!Sems
<1>2. /\ waiting' \in Seq(Seq(Ops)) /\ Len(waiting') = Len(waiting)
      /\ \A s \in Queue!Sems \ {q} : waiting'[s] = waiting[s]
      /\ waiting'[q] = Tail(waiting[q])
  <2>1. Tail(waiting[q]) \in Seq(Ops) /\ waiting' = [waiting EXCEPT ![q] = Tail(waiting[q])]
    BY <1>1 DEF Queue!Release
  <2> QED BY <1>1, <2>1 DEF Queue!TypeOK, Queue!Sems
<1>3. \A p \in Ops : Queue!InFlight(p)' => p # o /\ Queue!InFlight(p) /\ at'[p] = at[p]
  BY DEF Queue!TypeOK, Queue!Release, Queue!InFlight
<1>4. Queue!TypeOK'
  BY <1>2 DEF Queue!TypeOK, Queue!Release, Queue!Stages
<1>5. TableOK' /\ KeyOK'
  BY <1>2 DEF TableOK, KeyOK, Queue!Release
<1>6. InItsQueue'
  <2> SUFFICES ASSUME NEW p \in Ops, Queue!InFlight(p)'
               PROVE  /\ sem[p] \in Queue!Sems
                      /\ \E i \in 1 .. Len(waiting'[sem[p]]) : waiting'[sem[p]][i] = p
    <3>1. sem' = sem /\ Len(waiting') = Len(waiting)
      BY <1>2 DEF Queue!Release
    <3> QED BY <3>1 DEF InItsQueue, Queue!Sems
  <2>1. /\ p # o /\ sem[p] \in Queue!Sems
        /\ \E i \in 1 .. Len(waiting[sem[p]]) : waiting[sem[p]][i] = p
    BY <1>3 DEF InItsQueue
  <2>2. CASE sem[p] # q
    BY <2>1, <2>2, <1>2
  <2>3. CASE sem[p] = q
    <3>1. PICK i \in 1 .. Len(waiting[q]) : waiting[q][i] = p
      BY <2>1, <2>3
    <3>2. waiting[q][i] # Head(waiting[q])
      BY <3>1, <2>1, <1>1
    <3>3. \E j \in 1 .. Len(Tail(waiting[q])) : Tail(waiting[q])[j] = waiting[q][i]
      BY <3>2, <1>1, TailFacts
    <3> QED BY <3>1, <3>3, <2>1, <2>3, <1>2
  <2> QED BY <2>2, <2>3
<1>7. HoldsPermit'
  <2> SUFFICES ASSUME NEW p \in Ops, at'[p] = "run"
               PROVE  Head(waiting'[sem[p]]) = p
    BY DEF HoldsPermit, Queue!Release
  <2>1. p # o /\ at[p] = "run" /\ sem[p] \in Queue!Sems /\ Head(waiting[sem[p]]) = p
    BY <1>3 DEF Queue!InFlight, InItsQueue, HoldsPermit
  <2>2. sem[p] # q
    BY <2>1, <1>1
  <2> QED BY <2>1, <2>2, <1>2
<1>8. InTable'
  BY <1>3 DEF InTable, Queue!Release
<1> QED BY <1>4, <1>5, <1>6, <1>7, <1>8

LEMMA GrowIdleStep ==
    ASSUME Queue!QueueAssumption, QueueInv, NEW k \in Queue!Paths, Queue!GrowIdle(k)
    PROVE  QueueInv'
BY DEF QueueInv, Queue!GrowIdle, Queue!TypeOK, TableOK, KeyOK, InItsQueue, HoldsPermit,
    InTable, Queue!InFlight, Queue!Sems, Queue!Stages

LEMMA QueueStep ==
    ASSUME Queue!QueueAssumption, QueueInv, Queue!Next \/ UNCHANGED Queue!vars
    PROVE  QueueInv'
<1>1. CASE UNCHANGED Queue!vars
  BY <1>1 DEF Queue!vars, QueueInv, Queue!TypeOK, TableOK, KeyOK, InItsQueue, HoldsPermit,
      InTable, Queue!InFlight, Queue!Sems, Queue!Stages
<1>2. CASE Queue!Next
  BY <1>2, ResolveStep, CountStep, SweepStep, EnterStep, AcquireStep, ReleaseStep, GrowIdleStep
  DEF Queue!Next, Queue!Step
<1> QED BY <1>1, <1>2

-----------------------------------------------------------------------------
LEMMA OneHolder == ASSUME QueueInv PROVE Queue!OneWriterPerKey
<1> SUFFICES ASSUME NEW o \in Ops, NEW p \in Ops, at[o] = "run", at[p] = "run",
                    key[o] = key[p], key[o] \notin taken
             PROVE  o = p
  BY DEF Queue!OneWriterPerKey
<1>1. sem[o] = sem[p]
  BY DEF QueueInv, InTable, Queue!InFlight
<1> QED BY <1>1 DEF QueueInv, HoldsPermit

-----------------------------------------------------------------------------
(* Seen from the queue, each step of the registry is one of its steps or   *)
(* changes nothing: whatever tools are called, the queue they share        *)
(* behaves as FileQueue says (tools/mod.rs, tools/file_queue.rs).          *)
THEOREM ToolsImplementQueue == Spec => Queue!Spec
<1>1. Init => Queue!Init
  BY DEF Init
<1>2. [Next]_vars => [Queue!Next]_(Queue!vars)
  BY DEF Next, ExecuteBash, ExecuteEdit, ExecuteRead, ExecuteWrite, RefuseUnknown, vars,
      queueVars, Queue!vars
<1> QED BY <1>1, <1>2, PTL DEF Spec, Queue!Spec

(* Whatever operations call with_file_queue, the queue is well formed.     *)
LEMMA QueueInvariant == Queue!Spec => []QueueInv
<1>1. Queue!Init => QueueInv
  BY ToolsAssumption, QueueStarts
<1>2. QueueInv /\ [Queue!Next]_(Queue!vars) => QueueInv'
  BY ToolsAssumption, QueueStep
<1> QED BY <1>1, <1>2, PTL DEF Queue!Spec

(* Two operations whose key is the same never run together, as long as no  *)
(* sweep took the entry of that key while an operation was using it.       *)
THEOREM KeysTakeTurns == Spec => []Queue!OneWriterPerKey
BY ToolsImplementQueue, QueueInvariant, OneHolder, PTL

(* The same for a file that its callers name by its canonical path: two    *)
(* operations on one file that exists do not overlap, unless a sweep took  *)
(* the entry one of them was using.                                        *)
THEOREM WritersTakeTurns == Spec => []OneWriterPerFile
<1>1. QueueInv => OneWriterPerFile
  BY ToolsAssumption, OneHolder
  DEF OneWriterPerFile, Queue!OneWriterPerFile, Queue!OneWriterPerKey, QueueInv, KeyOK,
      Queue!QueueAssumption
<1> QED BY <1>1, ToolsImplementQueue, QueueInvariant, PTL

-----------------------------------------------------------------------------
(* The command.                                                            *)

(* A line that was written is in the pipe, with the reader, or in the      *)
(* output.                                                                 *)
InHand(p) == IF reader[p] = "sending" THEN 1 ELSE 0
NothingLost == \A p \in Bash!Pipes : wrote[p] = got[p] + inPipe[p] + InHand(p)

(* A reader that ended without a cancellation read to the end of its pipe, *)
(* which nobody can open again.                                            *)
ReadToEnd ==
    \A p \in Bash!Pipes : reader[p] = "ended" /\ ~cancel => holds[p] = {} /\ inPipe[p] = 0

(* Where execute is: no reader runs before the race, a result ends it, and *)
(* a command that ended well has no reader left.                           *)
Stage ==
    /\ pc \in {"call", "spawned"} => \A p \in Bash!Pipes : reader[p] = "none"
    /\ result # "none" => pc = "done"
    /\ result = "ok" => \A p \in Bash!Pipes : reader[p] = "ended"

CommandInv ==
    /\ Bash!TypeOK
    /\ NothingLost
    /\ ReadToEnd
    /\ Stage
    /\ Bash!GroupGone

LEMMA CommandStarts == Init => CommandInv
<1> SUFFICES ASSUME Bash!Init PROVE CommandInv
  BY DEF Init
<1> USE DEF Bash!Init
<1>1. Bash!TypeOK
  <2>1. 0 \in 0 .. MaxOutLines /\ 0 \in 0 .. PipeCap /\ 0 \in 0 .. OutCap
    BY ToolsAssumption DEF Bash!BashAssumption
  <2>2. wrote \in [Bash!Pipes -> 0 .. MaxOutLines] /\ got \in [Bash!Pipes -> 0 .. MaxOutLines]
        /\ inPipe \in [Bash!Pipes -> 0 .. PipeCap]
    BY <2>1
  <2>3. holds \in [Bash!Pipes -> SUBSET Bash!Procs]
        /\ reader \in [Bash!Pipes -> {"none", "top", "reading", "sending", "ended"}]
    OBVIOUS
  <2> QED BY <2>1, <2>2, <2>3 DEF Bash!TypeOK
<1>2. NothingLost /\ ReadToEnd /\ Stage /\ Bash!GroupGone
  BY DEF NothingLost, InHand, ReadToEnd, Stage, Bash!GroupGone, Bash!Pipes
<1> QED BY <1>1, <1>2 DEF CommandInv

LEMMA ToolKeeps ==
  ASSUME CommandInv, Bash!Tool
  PROVE  CommandInv'
<1> USE DEF CommandInv, Bash!command, Bash!Return
<1>1. CASE Bash!Refuse
  BY <1>1 DEF Bash!Refuse, Bash!TypeOK, NothingLost, InHand, ReadToEnd, Stage, Bash!GroupGone
<1>2. CASE Bash!Spawn
  BY <1>2 DEF Bash!Spawn, Bash!TypeOK, NothingLost, InHand, ReadToEnd, Stage, Bash!GroupGone,
      Bash!Procs
<1>3. CASE Bash!CheckAfterSpawn
  BY <1>3 DEF Bash!CheckAfterSpawn, Bash!KillProcessGroup, Bash!TypeOK, NothingLost, InHand,
     ReadToEnd, Stage, Bash!GroupGone
<1>4. CASE Bash!Waited
  BY <1>4 DEF Bash!Waited, Bash!TypeOK, NothingLost, InHand, ReadToEnd, Stage, Bash!GroupGone
<1>5. CASE Bash!Finish
  BY <1>5 DEF Bash!Finish, Bash!KillProcessGroup, Bash!TypeOK, NothingLost, InHand,
     ReadToEnd, Stage, Bash!GroupGone
<1>6. CASE Bash!Cancelled
  BY <1>6 DEF Bash!Cancelled, Bash!KillProcessGroup, Bash!TypeOK, NothingLost, InHand,
     ReadToEnd, Stage, Bash!GroupGone
<1> QED BY <1>1, <1>2, <1>3, <1>4, <1>5, <1>6 DEF Bash!Tool

LEMMA ReaderKeeps ==
  ASSUME CommandInv, NEW p \in Bash!Pipes, Bash!Reader(p)
  PROVE  CommandInv'
<1> USE DEF CommandInv, Bash!command, Bash!race
<1>0. MaxOutLines \in Nat /\ PipeCap \in Nat /\ OutCap \in Nat
  BY ToolsAssumption DEF Bash!BashAssumption
<1>1. CASE Bash!ReadTop(p)
  BY <1>1 DEF Bash!ReadTop, Bash!TypeOK, NothingLost, InHand, ReadToEnd, Stage, Bash!GroupGone
<1>2. CASE Bash!ReadLine(p)
  BY <1>0, <1>2 DEF Bash!ReadLine, Bash!TypeOK, NothingLost, InHand, ReadToEnd, Stage,
      Bash!GroupGone
<1>3. CASE Bash!ReadEnd(p)
  BY <1>3 DEF Bash!ReadEnd, Bash!TypeOK, NothingLost, InHand, ReadToEnd, Stage, Bash!GroupGone
<1>4. CASE Bash!SendLine(p)
  BY <1>0, <1>4 DEF Bash!SendLine, Bash!TypeOK, NothingLost, InHand, ReadToEnd, Stage,
      Bash!GroupGone
<1> QED BY <1>1, <1>2, <1>3, <1>4 DEF Bash!Reader

LEMMA WorldKeeps ==
  ASSUME CommandInv,
         \/ Bash!Forward \/ Bash!TimePasses \/ Bash!UserCancels
         \/ \E p \in Bash!Pipes : Bash!Write(p)
         \/ \E q \in Bash!Procs \ {"sh"} : Bash!Fork(q)
         \/ \E q \in Bash!Procs : Bash!Exit(q)
  PROVE  CommandInv'
<1> USE DEF CommandInv, Bash!command, Bash!race
<1>0. MaxOutLines \in Nat /\ PipeCap \in Nat /\ OutCap \in Nat
  BY ToolsAssumption DEF Bash!BashAssumption
<1>1. CASE Bash!Forward
  BY <1>0, <1>1 DEF Bash!Forward, Bash!TypeOK, NothingLost, InHand, ReadToEnd, Stage,
      Bash!GroupGone
<1>2. CASE Bash!TimePasses \/ Bash!UserCancels
  BY <1>2 DEF Bash!TimePasses, Bash!UserCancels, Bash!TypeOK, NothingLost, InHand, ReadToEnd,
     Stage, Bash!GroupGone
<1>3. CASE \E p \in Bash!Pipes : Bash!Write(p)
  BY <1>0, <1>3 DEF Bash!Write, Bash!TypeOK, NothingLost, InHand, ReadToEnd, Stage,
      Bash!GroupGone
<1>4. CASE \E q \in Bash!Procs \ {"sh"} : Bash!Fork(q)
  BY <1>4 DEF Bash!Fork, Bash!TypeOK, NothingLost, InHand, ReadToEnd, Stage, Bash!GroupGone,
     Bash!Procs, Bash!Group
<1>5. CASE \E q \in Bash!Procs : Bash!Exit(q)
  BY <1>5 DEF Bash!Exit, Bash!TypeOK, NothingLost, InHand, ReadToEnd, Stage, Bash!GroupGone
<1> QED BY <1>1, <1>2, <1>3, <1>4, <1>5

LEMMA CommandStep == CommandInv /\ [Next]_vars => CommandInv'
<1> SUFFICES ASSUME CommandInv, [Next]_vars PROVE CommandInv'
  OBVIOUS
<1>1. CASE Bash!Next
  BY <1>1, ToolKeeps, ReaderKeeps, WorldKeeps DEF Bash!Next
<1>2. CASE UNCHANGED bashVars
  BY <1>2 DEF bashVars, CommandInv, Bash!TypeOK, NothingLost, InHand, ReadToEnd, Stage,
      Bash!GroupGone
<1> QED BY <1>1, <1>2 DEF Next, ExecuteBash, ExecuteEdit, ExecuteRead, ExecuteWrite,
        RefuseUnknown, vars

(* A command that timed out or was cancelled leaves no process of its      *)
(* group, and the output of one that ended is all that was written into    *)
(* its pipes, also by the processes it left behind (tools/bash.rs).        *)
THEOREM CommandsEndCleanly == Spec => []CleanEnd
<1>1. CommandInv => CleanEnd
  <2> SUFFICES ASSUME CommandInv PROVE Bash!OutputComplete
    BY DEF CommandInv, CleanEnd, Bash!CleanEnd
  <2> SUFFICES ASSUME result = "ok", ~cancel PROVE got = wrote
    BY DEF Bash!OutputComplete
  <2>1. \A p \in Bash!Pipes : got[p] \in Nat /\ wrote[p] = got[p] + 0 + 0
    BY ToolsAssumption
    DEF CommandInv, Stage, ReadToEnd, NothingLost, InHand, Bash!TypeOK, Bash!BashAssumption
  <2> QED BY <2>1 DEF CommandInv, Bash!TypeOK
<1> QED BY <1>1, CommandStarts, CommandStep, PTL DEF Spec

-----------------------------------------------------------------------------
(* The pages.                                                              *)

Page == [kind : {"page", "bash"}, first : Nat, last : Nat, text : SUBSET Nat]

(* Whoever reads has seen every line that has something in it, up to the   *)
(* offset of the next page.                                                *)
SeenSoFar ==
    \A n \in from .. Len(lines) : lines[n] > 0 /\ (next = 0 \/ n < next) =>
        \E i \in 1 .. Len(pages) : n \in pages[i].text

Fits(p) == p.kind = "page" => p.text = {} \/ Read!Bytes(p.first, Read!Max(p.text)) <= MaxBytes
PagesFit == \A i \in 1 .. Len(pages) : Fits(pages[i])

PagesInv ==
    /\ lines \in Seq(Nat) /\ from \in Nat /\ next \in Nat /\ pages \in Seq(Page)
    /\ SeenSoFar
    /\ PagesFit

LEMMA MaxMember ==
  ASSUME NEW b \in Nat, NEW S \in SUBSET (0 .. b), S # {}
  PROVE  Read!Max(S) \in S
<1>1. \E x \in S : \A y \in S : x >= y
  BY LargestExists
<1> QED BY <1>1 DEF Read!Max

(* A page ends before its first line, or is not too large up to any of its *)
(* lines.                                                                  *)
LEMMA PageEndFacts ==
  ASSUME NEW a \in Nat, a > 0, lines \in Seq(Nat)
  PROVE  LET e == Read!PageEnd(a)
         IN \/ e = a - 1
            \/ e \in a .. Len(lines) /\ \A c \in a .. e : Read!Bytes(a, c) <= MaxBytes
<1> DEFINE Ends == {b \in a .. Len(lines) :
                      b - a < limit /\ \A c \in a .. b : Read!Bytes(a, c) <= MaxBytes}
           S == {a - 1} \cup Ends
<1>1. Read!PageEnd(a) = Read!Max(S)
  BY DEF Read!PageEnd, Read!Total
<1>2. Len(lines) \in Nat
  OBVIOUS
<1>3. a + Len(lines) \in Nat /\ S \in SUBSET (0 .. (a + Len(lines))) /\ S # {}
  BY <1>2
<1> HIDE DEF S
<1>4. Read!Max(S) \in S
  BY <1>3, MaxMember
<1> QED BY <1>1, <1>4 DEF S

(* A page that fits is added to the others.                                *)
LEMMA PageAdded ==
  ASSUME PagesInv, NEW p \in Page, pages' = Append(pages, p)
  PROVE  /\ pages' \in Seq(Page)
         /\ Fits(p) /\ UNCHANGED lines => PagesFit'
         /\ \A n \in Nat : n \in p.text \/ (\E i \in 1 .. Len(pages) : n \in pages[i].text) =>
              \E i \in 1 .. Len(pages') : n \in pages'[i].text
<1>1. /\ pages' \in Seq(Page) /\ Len(pages') = Len(pages) + 1 /\ Len(pages) \in Nat
      /\ \A i \in 1 .. Len(pages) : pages'[i] = pages[i]
      /\ pages'[Len(pages) + 1] = p
  BY DEF PagesInv
<1>2. ASSUME Fits(p), UNCHANGED lines PROVE PagesFit'
  <2> SUFFICES ASSUME NEW i \in 1 .. Len(pages') PROVE Fits(pages[i])'
    BY DEF PagesFit
  <2>1. Fits(pages'[i])
    BY <1>1, <1>2 DEF PagesInv, PagesFit
  <2> QED BY <1>2, <2>1 DEF Fits, Read!Bytes
<1>3. ASSUME NEW n \in Nat, n \in p.text \/ \E i \in 1 .. Len(pages) : n \in pages[i].text
      PROVE  \E i \in 1 .. Len(pages') : n \in pages'[i].text
  <2>1. CASE n \in p.text
    <3>1. Len(pages) + 1 \in 1 .. Len(pages') /\ n \in pages'[Len(pages) + 1].text
      BY <1>1, <2>1
    <3> QED BY <3>1
  <2>2. CASE \E i \in 1 .. Len(pages) : n \in pages[i].text
    <3> PICK i \in 1 .. Len(pages) : n \in pages[i].text
      BY <2>2
    <3>1. i \in 1 .. Len(pages') /\ n \in pages'[i].text
      BY <1>1
    <3> QED BY <3>1
  <2> QED BY <1>3, <2>1, <2>2
<1> QED BY <1>1, <1>2, <1>3

LEMMA PagesStart == Init => PagesInv
<1> SUFFICES ASSUME Init PROVE PagesInv
  OBVIOUS
<1>1. lines \in Seq(Nat) /\ pages = <<>>
  <2>1. CASE tool = "read"
    <3>1. lines \in ReadFiles /\ pages = <<>>
      BY <2>1 DEF Init, Read!Init
    <3> QED BY <3>1, ToolsAssumption DEF Read!ReadAssumption
  <2>2. CASE tool # "read"
    <3>1. lines = <<>> /\ pages = <<>>
      BY <2>2 DEF Init
    <3> QED BY <3>1
  <2> QED BY <2>1, <2>2
<1>2. from \in 1 .. (Len(lines) + 1) /\ next = from /\ Len(lines) \in Nat
  BY <1>1 DEF Init, Read!Init, Read!Total
<1>3. pages \in Seq(Page) /\ Len(pages) = 0
  BY <1>1
<1> QED BY <1>1, <1>2, <1>3 DEF PagesInv, SeenSoFar, PagesFit

LEMMA PageRead ==
  ASSUME PagesInv, Read!ReadPage
  PROVE  PagesInv'
<1> DEFINE e == Read!PageEnd(next)
           p == [kind |-> "page", first |-> next, last |-> e, text |-> Read!Printed(next, e)]
<1>1. /\ lines \in Seq(Nat) /\ Len(lines) \in Nat /\ from \in Nat /\ next \in Nat /\ next > 0
      /\ pages \in Seq(Page) /\ SeenSoFar
      /\ from' = from /\ lines' = lines
      /\ pages' = Append(pages, p)
      /\ next' = IF e < Len(lines) THEN e + 1 ELSE 0
  BY DEF PagesInv, Read!ReadPage, Read!Total
<1>2. \/ e = next - 1
      \/ e \in next .. Len(lines) /\ \A c \in next .. e : Read!Bytes(next, c) <= MaxBytes
  BY <1>1, PageEndFacts
<1>3. e \in Nat
  BY <1>1, <1>2
<1> HIDE DEF e
<1>4. Read!Printed(next, e) \in SUBSET (0 .. e) /\ Read!Printed(next, e) \in SUBSET (next .. e)
      /\ \A n \in next .. e : lines[n] > 0 => n \in Read!Printed(next, e)
  BY <1>1, <1>3 DEF Read!Printed
<1>5. p \in Page
  BY <1>1, <1>3, <1>4 DEF Page
<1>6. Fits(p)
  <2> DEFINE shown == Read!Printed(next, e)
  <2> SUFFICES ASSUME shown # {} PROVE Read!Bytes(next, Read!Max(shown)) <= MaxBytes
    BY DEF Fits
  <2>1. Read!Max(shown) \in shown
    BY <1>3, <1>4, MaxMember
  <2>2. Read!Max(shown) \in next .. e
    BY <1>4, <2>1
  <2> QED BY <1>1, <1>2, <1>3, <2>2
<1> HIDE DEF p
<1>7. pages' \in Seq(Page) /\ PagesFit'
  BY <1>1, <1>5, <1>6, PageAdded
<1>8. ASSUME NEW n \in from .. Len(lines), lines[n] > 0, next' = 0 \/ n < next'
      PROVE  \E i \in 1 .. Len(pages') : n \in pages'[i].text
  <2>1. n \in Nat
    BY <1>1
  <2>2. CASE n < next
    BY <1>1, <1>5, <1>8, <2>1, <2>2, PageAdded DEF SeenSoFar
  <2>3. CASE n >= next
    <3>1. n <= e
      BY <1>1, <1>3, <1>8
    <3>2. n \in next .. e
      BY <1>1, <1>3, <2>1, <2>3, <3>1
    <3>3. n \in p.text
      BY <1>4, <1>8, <3>2 DEF p
    <3> QED BY <1>1, <1>5, <2>1, <3>3, PageAdded
  <2> QED BY <1>1, <2>1, <2>2, <2>3
<1>9. next' \in Nat
  BY <1>1, <1>3
<1> QED BY <1>1, <1>7, <1>8, <1>9 DEF PagesInv, SeenSoFar

LEMMA LineSkipped ==
  ASSUME PagesInv, Read!LineTooLong
  PROVE  PagesInv'
<1> DEFINE p == [kind |-> "bash", first |-> next, last |-> next, text |-> {next}]
<1>1. /\ lines \in Seq(Nat) /\ Len(lines) \in Nat /\ from \in Nat /\ next \in Nat /\ next > 0
      /\ pages \in Seq(Page) /\ SeenSoFar
      /\ from' = from /\ lines' = lines
      /\ pages' = Append(pages, p)
      /\ next' = IF next < Len(lines) THEN next + 1 ELSE 0
  BY DEF PagesInv, Read!LineTooLong, Read!TooLong, Read!Total
<1>2. p \in Page /\ Fits(p) /\ next \in p.text
  BY <1>1 DEF Page, Fits
<1> HIDE DEF p
<1>3. pages' \in Seq(Page) /\ PagesFit'
  BY <1>1, <1>2, PageAdded
<1>4. ASSUME NEW n \in from .. Len(lines), lines[n] > 0, next' = 0 \/ n < next'
      PROVE  \E i \in 1 .. Len(pages') : n \in pages'[i].text
  <2>1. n \in Nat
    BY <1>1
  <2>2. CASE n < next
    BY <1>1, <1>2, <1>4, <2>1, <2>2, PageAdded DEF SeenSoFar
  <2>3. CASE n >= next
    <3>1. n = next
      BY <1>1, <1>4, <2>1, <2>3 DEF Read!Total
    <3> QED BY <1>1, <1>2, <2>1, <3>1, PageAdded
  <2> QED BY <1>1, <2>1, <2>2, <2>3
<1>5. next' \in Nat
  BY <1>1
<1> QED BY <1>1, <1>3, <1>4, <1>5 DEF PagesInv, SeenSoFar

LEMMA PagesStep == PagesInv /\ [Next]_vars => PagesInv'
<1> SUFFICES ASSUME PagesInv, [Next]_vars PROVE PagesInv'
  OBVIOUS
<1>1. CASE Read!Refuse
  BY <1>1 DEF PagesInv, SeenSoFar, PagesFit, Fits, Read!Bytes, Read!Refuse, Read!Total
<1>2. CASE UNCHANGED readVars
  BY <1>2 DEF readVars, PagesInv, SeenSoFar, PagesFit, Fits, Read!Bytes
<1> QED BY <1>1, <1>2, PageRead, LineSkipped
        DEF Next, ExecuteBash, ExecuteEdit, ExecuteRead, ExecuteWrite, RefuseUnknown, vars,
            Read!Next

(* Whoever follows the offsets the pages give to the end of a file has     *)
(* seen every line with something in it, and no page is larger than the    *)
(* tool allows (tools/read.rs).                                            *)
THEOREM PagesShowEveryLine == Spec => []NothingSkipped
<1>1. PagesInv => NothingSkipped
  <2> SUFFICES ASSUME PagesInv PROVE NothingSkipped
    OBVIOUS
  <2>1. DOMAIN pages = 1 .. Len(pages)
    BY DEF PagesInv
  <2> QED BY <2>1 DEF PagesInv, SeenSoFar, PagesFit, Fits, NothingSkipped, Read!NothingSkipped,
      Read!Total
<1> QED BY <1>1, PagesStart, PagesStep, PTL DEF Spec

-----------------------------------------------------------------------------
(* The edits of a call: parts of texts, and replacements.                  *)

(* A part of a sequence that is within it.                                 *)
LEMMA PartFacts ==
    ASSUME NEW S, NEW t \in Seq(S), NEW a \in Nat, NEW b \in Nat, b <= Len(t)
    PROVE  /\ SubSeq(t, a + 1, b) \in Seq(S)
           /\ Len(SubSeq(t, a + 1, b)) = IF a <= b THEN b - a ELSE 0
           /\ \A i \in 1 .. b - a : SubSeq(t, a + 1, b)[i] = t[a + i]
<1>1. \A i \in a + 1 .. b : t[i] \in S
  BY ElementsIn
<1>2. /\ SubSeq(t, a + 1, b) \in Seq(S)
      /\ Len(SubSeq(t, a + 1, b)) = IF a + 1 <= b THEN b - (a + 1) + 1 ELSE 0
      /\ \A i \in 1 .. b - (a + 1) + 1 : SubSeq(t, a + 1, b)[i] = t[(a + 1) + i - 1]
  BY <1>1, SubSeqProperties
<1>3. b - (a + 1) + 1 = b - a
  OBVIOUS
<1>4. \A i \in Nat : (a + 1) + i - 1 = a + i
  OBVIOUS
<1> DEFINE p == SubSeq(t, a + 1, b)
<1> HIDE DEF p
<1>5. ASSUME NEW i \in 1 .. b - a PROVE p[i] = t[a + i]
  <2>1. i \in Nat /\ i \in 1 .. b - (a + 1) + 1
    BY <1>3
  <2>2. p[i] = t[(a + 1) + i - 1]
    BY <1>2, <2>1 DEF p
  <2> QED BY <1>4, <2>1, <2>2
<1>6. Len(p) = IF a <= b THEN b - a ELSE 0
  BY <1>2, <1>3 DEF p
<1> QED BY <1>2, <1>5, <1>6 DEF p

(* From the middle of the first of two sequences.                          *)
LEMMA TailOver ==
    ASSUME NEW S, NEW p \in Seq(S), NEW q \in Seq(S), NEW a \in Nat, a <= Len(p)
    PROVE  SubSeq(p \o q, a + 1, Len(p \o q)) = SubSeq(p, a + 1, Len(p)) \o q
<1> DEFINE u == p \o q
           v == SubSeq(p, a + 1, Len(p))
           w == SubSeq(u, a + 1, Len(u))
<1>1. /\ u \in Seq(S) /\ Len(u) = Len(p) + Len(q)
      /\ \A i \in 1 .. Len(p) + Len(q) : u[i] = IF i <= Len(p) THEN p[i] ELSE q[i - Len(p)]
  BY ConcatProperties
<1>2. Len(p) \in Nat /\ Len(q) \in Nat /\ Len(u) \in Nat
  BY <1>1
<1>3. /\ v \in Seq(S) /\ Len(v) = Len(p) - a
      /\ \A i \in 1 .. Len(p) - a : v[i] = p[a + i]
  BY <1>2, PartFacts
<1> HIDE DEF u
<1>4. /\ w \in Seq(S) /\ Len(w) = Len(u) - a
      /\ \A i \in 1 .. Len(u) - a : w[i] = u[a + i]
  BY <1>1, <1>2, PartFacts
<1> HIDE DEF v, w
<1>5. /\ v \o q \in Seq(S) /\ Len(v \o q) = Len(v) + Len(q)
      /\ \A i \in 1 .. Len(v) + Len(q) : (v \o q)[i] = IF i <= Len(v) THEN v[i] ELSE q[i - Len(v)]
  BY <1>3, ConcatProperties
<1>6. Len(w) = Len(v \o q)
  BY <1>1, <1>2, <1>3, <1>4, <1>5
<1>7. ASSUME NEW i \in 1 .. Len(w) PROVE w[i] = (v \o q)[i]
  <2>1. i \in Nat /\ 1 <= i /\ i <= Len(p) + Len(q) - a
    BY <1>1, <1>2, <1>4
  <2>2. w[i] = u[a + i] /\ a + i \in 1 .. Len(p) + Len(q)
    BY <1>1, <1>2, <1>4, <2>1
  <2>3. i \in 1 .. Len(v) + Len(q)
    BY <1>2, <1>3, <2>1
  <2>4. CASE a + i <= Len(p)
    <3>1. i <= Len(v) /\ i \in 1 .. Len(p) - a
      BY <1>2, <1>3, <2>1, <2>4
    <3>2. u[a + i] = p[a + i]
      BY <1>1, <2>2, <2>4
    <3>3. (v \o q)[i] = v[i]
      BY <1>5, <2>3, <3>1
    <3> QED BY <1>3, <2>2, <3>1, <3>2, <3>3
  <2>5. CASE ~(a + i <= Len(p))
    <3>1. ~(i <= Len(v)) /\ i - Len(v) = (a + i) - Len(p)
      BY <1>2, <1>3, <2>1, <2>5
    <3>2. u[a + i] = q[(a + i) - Len(p)]
      BY <1>1, <2>2, <2>5
    <3>3. (v \o q)[i] = q[i - Len(v)]
      BY <1>5, <2>3, <3>1
    <3> QED BY <2>2, <3>1, <3>2, <3>3
  <2> QED BY <2>4, <2>5
<1>8. w = v \o q
  BY <1>4, <1>5, <1>6, <1>7, SeqEqual
<1> QED BY <1>8 DEF u, v, w

(* A part of a part from the start.                                        *)
LEMMA PartOfStart ==
    ASSUME NEW S, NEW t \in Seq(S), NEW b \in Nat, b <= Len(t), NEW a \in Nat, a <= b
    PROVE  SubSeq(SubSeq(t, 1, b), a + 1, b) = SubSeq(t, a + 1, b)
<1> DEFINE p == SubSeq(t, 1, b)
<1>1. p \in Seq(S) /\ Len(p) = b /\ \A i \in 1 .. b : p[i] = t[i]
  <2>1. /\ SubSeq(t, 0 + 1, b) \in Seq(S)
        /\ Len(SubSeq(t, 0 + 1, b)) = IF 0 <= b THEN b - 0 ELSE 0
        /\ \A i \in 1 .. b - 0 : SubSeq(t, 0 + 1, b)[i] = t[0 + i]
    BY PartFacts
  <2>2. 0 + 1 = 1 /\ b - 0 = b
    OBVIOUS
  <2>3. \A i \in 1 .. b : 0 + i = i
    OBVIOUS
  <2> QED BY <2>1, <2>2, <2>3
<1> HIDE DEF p
<1> DEFINE v == SubSeq(p, a + 1, b)
           w == SubSeq(t, a + 1, b)
<1>2. v \in Seq(S) /\ Len(v) = b - a /\ \A i \in 1 .. b - a : v[i] = p[a + i]
  BY <1>1, PartFacts
<1>3. w \in Seq(S) /\ Len(w) = b - a /\ \A i \in 1 .. b - a : w[i] = t[a + i]
  BY PartFacts
<1> HIDE DEF v, w
<1>4. \A i \in 1 .. b - a : a + i \in 1 .. b
  OBVIOUS
<1>5. v = w
  BY <1>1, <1>2, <1>3, <1>4, SeqEqual
<1> QED BY <1>5 DEF v, w, p

(* Two texts that begin with the same characters have the same parts       *)
(* there.                                                                  *)
LEMMA SamePart ==
    ASSUME NEW S, NEW t \in Seq(S), NEW u \in Seq(S), NEW a \in Nat, NEW b \in Nat,
           b <= Len(t), b <= Len(u), \A i \in 1 .. b : u[i] = t[i]
    PROVE  SubSeq(u, a + 1, b) = SubSeq(t, a + 1, b)
<1> DEFINE v == SubSeq(u, a + 1, b)
           w == SubSeq(t, a + 1, b)
<1>2. v \in Seq(S) /\ Len(v) = (IF a <= b THEN b - a ELSE 0) /\ \A i \in 1 .. b - a : v[i] = u[a + i]
  BY PartFacts
<1>3. w \in Seq(S) /\ Len(w) = (IF a <= b THEN b - a ELSE 0) /\ \A i \in 1 .. b - a : w[i] = t[a + i]
  BY PartFacts
<1> HIDE DEF v, w
<1>4. \A i \in 1 .. Len(v) : i \in 1 .. b - a /\ a + i \in 1 .. b
  BY <1>2
<1>5. v = w
  BY <1>2, <1>3, <1>4, SeqEqual
<1> QED BY <1>5 DEF v, w

(* A text whose characters from b to e became n.                           *)
Swap(t, b, n, e) == SubSeq(t, 1, b) \o n \o SubSeq(t, e + 1, Len(t))

(* It begins as it did, and ends as it did behind n.                       *)
Swapped(u, t, b, n, e) ==
    /\ b <= Len(u)
    /\ \A i \in 1 .. b : u[i] = t[i]
    /\ \A a \in Nat : a <= b =>
         SubSeq(u, a + 1, Len(u)) = SubSeq(t, a + 1, b) \o n \o SubSeq(t, e + 1, Len(t))

(* What a text has where it was changed, and elsewhere.                    *)
LEMMA SwapFacts ==
    ASSUME NEW S, NEW t \in Seq(S), NEW n \in Seq(S), NEW b \in Nat, NEW e \in Nat, b <= e, e <= Len(t)
    PROVE  Swap(t, b, n, e) \in Seq(S) /\ Swapped(Swap(t, b, n, e), t, b, n, e)
<1> DEFINE p == SubSeq(t, 1, b)
           q == SubSeq(t, e + 1, Len(t))
           m == p \o n
<1>0. Len(t) \in Nat /\ Len(n) \in Nat
  OBVIOUS
<1>1. p \in Seq(S) /\ Len(p) = b /\ \A i \in 1 .. b : p[i] = t[i]
  <2>1. /\ SubSeq(t, 0 + 1, b) \in Seq(S)
        /\ Len(SubSeq(t, 0 + 1, b)) = IF 0 <= b THEN b - 0 ELSE 0
        /\ \A i \in 1 .. b - 0 : SubSeq(t, 0 + 1, b)[i] = t[0 + i]
    BY <1>0, PartFacts
  <2>2. 0 + 1 = 1 /\ b - 0 = b
    OBVIOUS
  <2>3. \A i \in 1 .. b : 0 + i = i
    OBVIOUS
  <2> QED BY <2>1, <2>2, <2>3
<1>2. q \in Seq(S)
  BY <1>0, PartFacts
<1>5. \A a \in Nat : a <= b => SubSeq(p, a + 1, b) = SubSeq(t, a + 1, b)
  BY <1>0, PartOfStart
<1> HIDE DEF p, q
<1>3. /\ m \in Seq(S) /\ Len(m) = b + Len(n)
      /\ \A i \in 1 .. Len(p) + Len(n) : m[i] = IF i <= Len(p) THEN p[i] ELSE n[i - Len(p)]
  BY <1>1, ConcatProperties
<1>7. \A a \in Nat : a <= b => SubSeq(m, a + 1, Len(m)) = SubSeq(p, a + 1, b) \o n
  BY <1>1, TailOver
<1> HIDE DEF m
<1> DEFINE w == m \o q
<1>11. Swap(t, b, n, e) = w
  BY DEF m, p, q, Swap
<1>4. /\ w \in Seq(S) /\ Len(w) = Len(m) + Len(q)
      /\ \A i \in 1 .. Len(m) + Len(q) : w[i] = IF i <= Len(m) THEN m[i] ELSE q[i - Len(m)]
  <2>1. m \in Seq(S)
    BY <1>3
  <2> QED BY <1>2, <2>1, ConcatProperties
<1>8. \A a \in Nat : a <= b => SubSeq(w, a + 1, Len(w)) = SubSeq(m, a + 1, Len(m)) \o q
  <2>1. \A a \in Nat : a <= b => a <= Len(m)
    BY <1>0, <1>3
  <2> QED BY <1>2, <1>3, <1>4, <2>1, TailOver
<1> HIDE DEF w
<1>6. Len(q) \in Nat /\ b <= Len(w)
  BY <1>0, <1>2, <1>3, <1>4
<1>9. ASSUME NEW i \in 1 .. b PROVE w[i] = t[i]
  <2>1. i \in 1 .. Len(p) + Len(n) /\ i <= Len(p)
    BY <1>0, <1>1
  <2>2. i \in 1 .. Len(m) + Len(q) /\ i <= Len(m)
    BY <1>0, <1>3, <1>6
  <2> QED BY <1>1, <1>3, <1>4, <2>1, <2>2
<1>10. ASSUME NEW a \in Nat, a <= b
       PROVE  SubSeq(w, a + 1, Len(w)) = SubSeq(t, a + 1, b) \o n \o SubSeq(t, e + 1, Len(t))
  <2>1. SubSeq(w, a + 1, Len(w)) = SubSeq(p, a + 1, b) \o n \o q
    BY <1>7, <1>8, <1>10
  <2> QED BY <1>5, <1>10, <2>1 DEF q
<1> QED BY <1>4, <1>6, <1>9, <1>10, <1>11 DEF Swapped

(* A replacement as the code's tuples of place, length and text.           *)
Replacements(S) == [at : Nat, len : Nat, new : Seq(S)]

(* The characters up to the end of replacement k.                          *)
Ends(rs, k) == IF k = 0 THEN 0 ELSE rs[k].at - 1 + rs[k].len

(* Replacements one behind the other, within the text.                     *)
Cuts(t, rs) ==
    \A i \in 1 .. Len(rs) : Ends(rs, i) <= Len(t) /\ \A j \in 0 .. i - 1 : Ends(rs, j) < rs[i].at

(* What is kept before each replacement, and what it puts there.           *)
Pieces(t, rs) == [k \in 1 .. Len(rs) |-> SubSeq(t, Ends(rs, k - 1) + 1, rs[k].at - 1) \o rs[k].new]
Spliced(t, rs) == FlattenSeq(Pieces(t, rs)) \o SubSeq(t, Ends(rs, Len(rs)) + 1, Len(t))

(* Where replacements end, and where the next may begin.                   *)
LEMMA CutFacts ==
    ASSUME NEW S, NEW t \in Seq(S), NEW rs \in Seq(Replacements(S)), Cuts(t, rs)
    PROVE  /\ \A i \in 1 .. Len(rs) : /\ rs[i].at \in Nat /\ rs[i].len \in Nat /\ rs[i].new \in Seq(S)
                                      /\ rs[i].at >= 1 /\ rs[i].at - 1 \in Nat
                                      /\ rs[i].at - 1 <= Ends(rs, i)
                                      /\ Ends(rs, i - 1) <= rs[i].at - 1
           /\ \A i \in 0 .. Len(rs) : Ends(rs, i) \in Nat /\ Ends(rs, i) <= Len(t)
<1>1. Len(rs) \in Nat /\ Len(t) \in Nat
  OBVIOUS
<1>2. ASSUME NEW i \in 1 .. Len(rs)
      PROVE  /\ rs[i].at \in Nat /\ rs[i].len \in Nat /\ rs[i].new \in Seq(S)
             /\ rs[i].at >= 1 /\ rs[i].at - 1 \in Nat
             /\ rs[i].at - 1 <= Ends(rs, i)
             /\ Ends(rs, i) \in Nat /\ Ends(rs, i) <= Len(t)
  <2>1. rs[i] \in Replacements(S)
    BY ElementsIn
  <2>2. rs[i].at \in Nat /\ rs[i].len \in Nat /\ rs[i].new \in Seq(S)
    BY <2>1 DEF Replacements
  <2>3. 0 \in 0 .. i - 1 /\ Ends(rs, 0) = 0
    BY DEF Ends
  <2>4. 0 < rs[i].at /\ Ends(rs, i) <= Len(t)
    BY <2>3 DEF Cuts
  <2>5. Ends(rs, i) = rs[i].at - 1 + rs[i].len
    BY DEF Ends
  <2> QED BY <2>2, <2>4, <2>5
<1>3. ASSUME NEW i \in 0 .. Len(rs) PROVE Ends(rs, i) \in Nat /\ Ends(rs, i) <= Len(t)
  <2>1. CASE i = 0
    BY <1>1, <2>1 DEF Ends
  <2>2. CASE i \in 1 .. Len(rs)
    BY <1>2, <2>2
  <2> QED BY <1>1, <2>1, <2>2
<1>4. ASSUME NEW i \in 1 .. Len(rs) PROVE Ends(rs, i - 1) <= rs[i].at - 1
  <2>1. i - 1 \in 0 .. i - 1 /\ i - 1 \in 0 .. Len(rs)
    BY <1>1
  <2>2. Ends(rs, i - 1) < rs[i].at
    BY <2>1 DEF Cuts
  <2>3. Ends(rs, i - 1) \in Nat
    BY <1>3, <2>1
  <2> QED BY <1>2, <2>2, <2>3
<1> QED BY <1>2, <1>3, <1>4

(* A sequence with one more element, as a function.                        *)
LEMMA AppendIs ==
    ASSUME NEW T, NEW p \in Seq(T), NEW y \in T
    PROVE  Append(p, y) = [k \in 1 .. Len(p) + 1 |-> IF k <= Len(p) THEN p[k] ELSE y]
<1> DEFINE a == Append(p, y)
           f == [k \in 1 .. Len(p) + 1 |-> IF k <= Len(p) THEN p[k] ELSE y]
<1>1. /\ a \in Seq(T) /\ Len(p) \in Nat /\ Len(a) = Len(p) + 1
      /\ \A k \in 1 .. Len(p) : a[k] = p[k]
      /\ a[Len(p) + 1] = y
  OBVIOUS
<1>2. \A k \in 1 .. Len(p) + 1 : (k <= Len(p) /\ k \in 1 .. Len(p)) \/ (k = Len(p) + 1 /\ ~(k <= Len(p)))
  BY <1>1
<1>3. \A k \in 1 .. Len(p) : p[k] \in T
  OBVIOUS
<1>4. f \in [1 .. Len(p) + 1 -> T]
  BY <1>2, <1>3
<1>5. \A k \in 1 .. Len(p) + 1 : f[k] = a[k]
  BY <1>1, <1>2
<1> HIDE DEF a, f
<1>6. f \in Seq(T) /\ Len(f) = Len(p) + 1
  BY <1>1, <1>4
<1>7. a = f
  BY <1>1, <1>5, <1>6, SeqEqual
<1> QED BY <1>7 DEF a, f

(* The pieces are texts, and so is what they make.                         *)
LEMMA PiecesTyped ==
    ASSUME NEW S, NEW t \in Seq(S), NEW rs \in Seq(Replacements(S)), Cuts(t, rs)
    PROVE  /\ Pieces(t, rs) \in Seq(Seq(S)) /\ Len(Pieces(t, rs)) = Len(rs)
           /\ FlattenSeq(Pieces(t, rs)) \in Seq(S)
           /\ SubSeq(t, Ends(rs, Len(rs)) + 1, Len(t)) \in Seq(S)
           /\ Spliced(t, rs) \in Seq(S)
<1> DEFINE p == Pieces(t, rs)
           T == Seq(S)
           q == SubSeq(t, Ends(rs, Len(rs)) + 1, Len(t))
<1>0. Len(rs) \in Nat /\ Len(t) \in Nat
  OBVIOUS
<1>1. ASSUME NEW k \in 1 .. Len(rs)
      PROVE  SubSeq(t, Ends(rs, k - 1) + 1, rs[k].at - 1) \o rs[k].new \in T
  <2>1. k - 1 \in 0 .. Len(rs) /\ k \in 0 .. Len(rs)
    BY <1>0
  <2>2. /\ Ends(rs, k - 1) \in Nat /\ rs[k].at - 1 \in Nat /\ rs[k].new \in Seq(S)
        /\ rs[k].at - 1 <= Ends(rs, k) /\ Ends(rs, k) \in Nat /\ Ends(rs, k) <= Len(t)
    BY <2>1, CutFacts
  <2>3. rs[k].at - 1 <= Len(t)
    BY <1>0, <2>2
  <2> DEFINE x == SubSeq(t, Ends(rs, k - 1) + 1, rs[k].at - 1)
             n == rs[k].new
  <2>4. x \in Seq(S) /\ n \in Seq(S)
    BY <2>2, <2>3, PartFacts
  <2> HIDE DEF x, n
  <2>5. x \o n \in Seq(S)
    BY <2>4
  <2> QED BY <2>5 DEF x, n
<1>2. p \in Seq(T) /\ Len(p) = Len(rs)
  <2> HIDE DEF T
  <2>1. p = [k \in 1 .. Len(rs) |-> SubSeq(t, Ends(rs, k - 1) + 1, rs[k].at - 1) \o rs[k].new]
    BY DEF Pieces
  <2>2. p \in [1 .. Len(rs) -> T]
    BY <1>1, <2>1
  <2> HIDE DEF p
  <2> QED BY <1>0, <2>2
<1>3. FlattenSeq(p) \in Seq(S)
  BY <1>2, FlattenLaws
<1>4. q \in Seq(S)
  <2>1. Len(rs) \in 0 .. Len(rs)
    BY <1>0
  <2>2. Ends(rs, Len(rs)) \in Nat
    BY <2>1, CutFacts
  <2> QED BY <1>0, <2>2, PartFacts
<1> DEFINE f == FlattenSeq(p)
<1> HIDE DEF f, q
<1>5. f \o q \in Seq(S)
  BY <1>3, <1>4 DEF f
<1> QED BY <1>2, <1>3, <1>4, <1>5 DEF Spliced, f, q

(* The last replacement can be made first: the others are before it.       *)
LEMMA SplicedLast ==
    ASSUME NEW S, NEW t \in Seq(S), NEW us \in Seq(Replacements(S)), NEW r \in Replacements(S),
           Cuts(t, Append(us, r))
    PROVE  /\ r.at >= 1 /\ r.at - 1 + r.len <= Len(t)
           /\ Edit!Replaced(t, r) \in Seq(S)
           /\ Cuts(Edit!Replaced(t, r), us)
           /\ Spliced(t, Append(us, r)) = Spliced(Edit!Replaced(t, r), us)
<1> DEFINE rs == Append(us, r)
           u == Edit!Replaced(t, r)
           m == Len(us)
           a == Ends(us, m)
           b == r.at - 1
           e == r.at - 1 + r.len
           R == Replacements(S)
<1>1. /\ rs \in Seq(R) /\ Len(rs) = m + 1 /\ m \in Nat /\ Len(t) \in Nat
      /\ \A i \in 1 .. m : rs[i] = us[i]
      /\ rs[m + 1] = r
  <2> HIDE DEF R
  <2> QED BY DEF R
<1> HIDE DEF rs
<1>2. Cuts(t, rs)
  BY DEF rs
<1> HIDE DEF R
<1>3. /\ \A i \in 1 .. m + 1 : /\ rs[i].at \in Nat /\ rs[i].len \in Nat /\ rs[i].new \in Seq(S)
                               /\ rs[i].at >= 1 /\ rs[i].at - 1 \in Nat
                               /\ rs[i].at - 1 <= Ends(rs, i)
                               /\ Ends(rs, i - 1) <= rs[i].at - 1
      /\ \A i \in 0 .. m + 1 : Ends(rs, i) \in Nat /\ Ends(rs, i) <= Len(t)
  BY <1>1, <1>2, CutFacts DEF R
<1>4. /\ \A i \in 0 .. m : Ends(us, i) = Ends(rs, i)
      /\ Ends(rs, m + 1) = e
  <2>1. \A i \in 0 .. m : i = 0 \/ i \in 1 .. m
    BY <1>1
  <2> QED BY <1>1, <2>1 DEF Ends
<1>5. /\ r.at >= 1 /\ b \in Nat /\ e \in Nat /\ b <= e /\ e <= Len(t) /\ r.new \in Seq(S)
      /\ a \in Nat /\ a <= b /\ r.at + r.len = e + 1 /\ r.at \in Nat /\ r.len \in Nat
  <2>1. m + 1 \in 1 .. m + 1 /\ m + 1 \in 0 .. m + 1 /\ m \in 0 .. m /\ m \in 0 .. m + 1 /\ (m + 1) - 1 = m
    BY <1>1
  <2>2. /\ r.at \in Nat /\ r.len \in Nat /\ r.new \in Seq(S) /\ r.at >= 1 /\ r.at - 1 \in Nat
        /\ r.at - 1 <= Ends(rs, m + 1) /\ Ends(rs, m) <= r.at - 1
        /\ Ends(rs, m + 1) \in Nat /\ Ends(rs, m + 1) <= Len(t) /\ Ends(rs, m) \in Nat
    BY <1>1, <1>3, <2>1
  <2> QED BY <1>4, <2>1, <2>2
<1>6. u = Swap(t, b, r.new, e)
  BY <1>5 DEF Edit!Replaced, Swap
<1> HIDE DEF u, b, e
<1>7. /\ u \in Seq(S) /\ b <= Len(u)
      /\ \A i \in 1 .. b : u[i] = t[i]
      /\ SubSeq(u, a + 1, Len(u)) = SubSeq(t, a + 1, b) \o r.new \o SubSeq(t, e + 1, Len(t))
  <2> HIDE DEF a
  <2>1. r.new \in Seq(S) /\ b \in Nat /\ e \in Nat /\ b <= e /\ e <= Len(t)
    BY <1>5
  <2>2. Swap(t, b, r.new, e) \in Seq(S) /\ Swapped(Swap(t, b, r.new, e), t, b, r.new, e)
    BY <2>1, SwapFacts
  <2>3. u \in Seq(S) /\ Swapped(u, t, b, r.new, e)
    BY <1>6, <2>2, Zenon
  <2> QED BY <1>5, <2>3 DEF Swapped
<1>8. Len(u) \in Nat /\ b <= Len(t)
  <2>1. b \in Nat /\ e \in Nat /\ Len(u) \in Nat
    BY <1>5, <1>7
  <2> QED BY <1>1, <1>5, <2>1
<1>9. \A i \in 0 .. m : Ends(us, i) \in Nat /\ Ends(us, i) <= b
  <2> SUFFICES ASSUME NEW i \in 0 .. m PROVE Ends(us, i) \in Nat /\ Ends(us, i) <= b
    OBVIOUS
  <2>1. i \in 0 .. (m + 1) - 1 /\ m + 1 \in 1 .. Len(rs) /\ i \in 0 .. m + 1
    BY <1>1
  <2>2. Ends(rs, i) < r.at
    BY <1>1, <1>2, <2>1 DEF Cuts
  <2>3. Ends(rs, i) \in Nat
    BY <1>3, <2>1
  <2> QED BY <1>4, <1>5, <2>2, <2>3 DEF b
<1>10. Cuts(u, us)
  <2> SUFFICES ASSUME NEW i \in 1 .. m
               PROVE  Ends(us, i) <= Len(u) /\ \A j \in 0 .. i - 1 : Ends(us, j) < us[i].at
    BY DEF Cuts
  <2>1. i \in 0 .. m /\ i \in 1 .. Len(rs)
    BY <1>1
  <2>2. Ends(us, i) <= Len(u)
    <3>1. Ends(us, i) \in Nat /\ Ends(us, i) <= b
      BY <1>9, <2>1
    <3> QED BY <1>5, <1>7, <1>8, <3>1
  <2>3. ASSUME NEW j \in 0 .. i - 1 PROVE Ends(us, j) < us[i].at
    <3>1. j \in 0 .. m
      BY <1>1, <2>3
    <3>2. Ends(rs, j) < rs[i].at
      BY <1>2, <2>1 DEF Cuts
    <3> QED BY <1>1, <1>4, <3>1, <3>2
  <2> QED BY <2>2, <2>3
<1> DEFINE p == Pieces(t, us)
           x == SubSeq(t, a + 1, b)
           n == r.new
           q == SubSeq(t, e + 1, Len(t))
<1>11. Pieces(u, us) = p
  <2>1. ASSUME NEW k \in 1 .. m
        PROVE  SubSeq(u, Ends(us, k - 1) + 1, us[k].at - 1) = SubSeq(t, Ends(us, k - 1) + 1, us[k].at - 1)
    <3>1. k - 1 \in 0 .. m /\ k \in 0 .. m /\ k \in 1 .. m + 1
      BY <1>1
    <3>2. Ends(us, k - 1) \in Nat /\ Ends(us, k) <= b /\ Ends(us, k) \in Nat
      BY <1>9, <3>1
    <3>3. us[k].at - 1 \in Nat /\ us[k].at - 1 <= Ends(us, k)
      BY <1>1, <1>3, <1>4, <3>1
    <3>4. us[k].at - 1 <= b /\ b \in Nat
      BY <1>5, <3>2, <3>3
    <3> DEFINE c == Ends(us, k - 1)
               d == us[k].at - 1
    <3>5. c \in Nat /\ d \in Nat
      BY <3>2, <3>3
    <3>6. d <= Len(t) /\ d <= Len(u)
      <4>1. b <= Len(u) /\ b <= Len(t) /\ b \in Nat /\ Len(u) \in Nat /\ Len(t) \in Nat
        BY <1>1, <1>7, <1>8, <3>4
      <4> QED BY <3>4, <3>5, <4>1
    <3>7. \A i \in 1 .. d : u[i] = t[i]
      BY <1>7, <3>3, <3>4
    <3> HIDE DEF c, d
    <3>8. SubSeq(u, c + 1, d) = SubSeq(t, c + 1, d)
      BY <1>7, <3>5, <3>6, <3>7, SamePart
    <3> QED BY <3>8 DEF c, d
  <2> QED BY <2>1 DEF Pieces
<1>13. /\ p \in Seq(Seq(S)) /\ FlattenSeq(p) \in Seq(S)
  <2>1. Pieces(u, us) \in Seq(Seq(S)) /\ FlattenSeq(Pieces(u, us)) \in Seq(S)
    BY <1>7, <1>10, PiecesTyped
  <2> QED BY <1>11, <2>1
<1>14. x \in Seq(S) /\ n \in Seq(S) /\ q \in Seq(S)
  <2>1. b \in Nat /\ a \in Nat /\ e \in Nat
    BY <1>5
  <2> QED BY <1>1, <1>5, <1>8, <2>1, PartFacts
<1>12. Pieces(t, rs) = Append(p, x \o n)
  <2> DEFINE P(k) == SubSeq(t, Ends(rs, k - 1) + 1, rs[k].at - 1) \o rs[k].new
  <2>1. Pieces(t, rs) = [k \in 1 .. m + 1 |-> P(k)]
    BY <1>1 DEF Pieces
  <2>2. \A k \in 1 .. m : p[k] = P(k)
    <3>1. \A k \in 1 .. m : k - 1 \in 0 .. m
      BY <1>1
    <3> QED BY <1>1, <1>4, <3>1 DEF Pieces
  <2>3. P(m + 1) = x \o n
    <3>1. (m + 1) - 1 = m /\ m \in 0 .. m
      BY <1>1
    <3> QED BY <1>1, <1>4, <3>1 DEF b
  <2>4. Len(p) = m /\ Append(p, x \o n) = [k \in 1 .. Len(p) + 1 |-> IF k <= Len(p) THEN p[k] ELSE x \o n]
    <3>1. p = [k \in 1 .. m |-> p[k]]
      BY DEF Pieces
    <3>2. Len(p) = m
      <4> HIDE DEF p
      <4> QED BY <1>1, <3>1
    <3> DEFINE y == x \o n
               T == Seq(S)
    <3>3. p \in Seq(T) /\ y \in T
      <4> HIDE DEF x, n, p
      <4> QED BY <1>13, <1>14
    <3> HIDE DEF p, y, T
    <3>4. Append(p, y) = [k \in 1 .. Len(p) + 1 |-> IF k <= Len(p) THEN p[k] ELSE y]
      BY <3>3, AppendIs
    <3> QED BY <3>2, <3>4 DEF y
  <2> HIDE DEF p, x, n, P
  <2>5. \A k \in 1 .. m + 1 : P(k) = IF k <= m THEN p[k] ELSE x \o n
    <3>1. \A k \in 1 .. m + 1 : (k <= m /\ k \in 1 .. m) \/ (k = m + 1 /\ ~(k <= m))
      BY <1>1
    <3> QED BY <2>2, <2>3, <3>1
  <2> QED BY <2>1, <2>4, <2>5
<1> DEFINE f == FlattenSeq(p)
<1>15. FlattenSeq(Append(p, x \o n)) = f \o (x \o n)
  <2> HIDE DEF p, x, n, q
  <2>1. x \o n \in Seq(S)
    BY <1>14
  <2> QED BY <1>13, <2>1, FlattenLaws
<1>16. Spliced(t, rs) = (f \o (x \o n)) \o q
  BY <1>1, <1>4, <1>12, <1>15 DEF Spliced
<1>17. Spliced(u, us) = f \o ((x \o n) \o q)
  BY <1>7, <1>11 DEF Spliced
<1>18. (f \o (x \o n)) \o q = f \o ((x \o n) \o q)
  <2> HIDE DEF f, p, x, n, q
  <2>1. f \in Seq(S)
    BY <1>13 DEF f
  <2>2. x \o n \in Seq(S)
    BY <1>14
  <2>3. \A y \in Seq(S) : (f \o y) \o q = f \o (y \o q)
    <3>1. q \in Seq(S)
      BY <1>14
    <3> QED BY <2>1, <3>1
  <2> QED BY <2>2, <2>3
<1> QED BY <1>5, <1>7, <1>10, <1>16, <1>17, <1>18 DEF rs, u, e, b

(* A replacement of characters the text has.                               *)
FitsIn(t, r) == r.at >= 1 /\ r.at - 1 + r.len <= Len(t)

(* One step of apply_replacements, defined of every text.                  *)
replacing(S) ==
    [x \in Seq(S) \X Replacements(S) |-> IF FitsIn(x[1], x[2]) THEN Edit!Replaced(x[1], x[2]) ELSE x[1]]

(* A replacement within a text gives a text that is as it was before the   *)
(* place.                                                                  *)
LEMMA ReplacedTyped ==
    ASSUME NEW S, NEW t \in Seq(S), NEW r \in Replacements(S), FitsIn(t, r)
    PROVE  /\ Edit!Replaced(t, r) \in Seq(S)
           /\ r.at - 1 <= Len(Edit!Replaced(t, r))
<1> DEFINE b == r.at - 1
           e == r.at - 1 + r.len
<1>1. r.at \in Nat /\ r.len \in Nat /\ r.new \in Seq(S) /\ r.at >= 1 /\ e <= Len(t)
  BY DEF Replacements, FitsIn
<1>2. b \in Nat /\ e \in Nat /\ b <= e /\ r.at + r.len = e + 1
  BY <1>1
<1>3. Edit!Replaced(t, r) = Swap(t, b, r.new, e)
  BY <1>2 DEF Edit!Replaced, Swap
<1> HIDE DEF b, e
<1>4. Swap(t, b, r.new, e) \in Seq(S) /\ Swapped(Swap(t, b, r.new, e), t, b, r.new, e)
  BY <1>1, <1>2, SwapFacts
<1>5. Edit!Replaced(t, r) \in Seq(S) /\ b <= Len(Edit!Replaced(t, r))
  BY <1>3, <1>4 DEF Swapped
<1> QED BY <1>5 DEF b

(* It is a step of a walk.                                                 *)
LEMMA ReplacingSteps ==
    ASSUME NEW S
    PROVE  /\ replacing(S) \in Steps(Seq(S), Replacements(S))
           /\ \A t \in Seq(S), r \in Replacements(S) :
                FitsIn(t, r) => replacing(S)[<<t, r>>] = Edit!Replaced(t, r)
<1> DEFINE R == Replacements(S)
           T == Seq(S)
<1>1. \A t \in T, r \in R : (IF FitsIn(t, r) THEN Edit!Replaced(t, r) ELSE t) \in T
  BY ReplacedTyped
<1> HIDE DEF R, T
<1> DEFINE f == [x \in T \X R |-> IF FitsIn(x[1], x[2]) THEN Edit!Replaced(x[1], x[2]) ELSE x[1]]
<1>2. f \in [T \X R -> T]
  BY <1>1
<1>3. \A t \in T, r \in R : f[<<t, r>>] = IF FitsIn(t, r) THEN Edit!Replaced(t, r) ELSE t
  OBVIOUS
<1>4. f = replacing(S)
  BY DEF replacing, T, R
<1> HIDE DEF f
<1> QED BY <1>2, <1>3, <1>4 DEF Steps, T, R

(* The same elements, the last one first.                                  *)
LEMMA ReverseFacts ==
    ASSUME NEW X, NEW s \in Seq(X)
    PROVE  /\ Edit!Reverse(s) \in Seq(X) /\ Len(Edit!Reverse(s)) = Len(s)
           /\ \A i \in 1 .. Len(s) : Edit!Reverse(s)[i] = s[Len(s) + 1 - i]
<1> DEFINE f == [i \in 1 .. Len(s) |-> s[(Len(s) - i) + 1]]
<1>1. Edit!Reverse(s) = f
  BY DEF Edit!Reverse
<1>2. Len(s) \in Nat /\ \A i \in 1 .. Len(s) : (Len(s) - i) + 1 \in 1 .. Len(s) /\ (Len(s) - i) + 1 = Len(s) + 1 - i
  OBVIOUS
<1>3. \A i \in 1 .. Len(s) : s[i] \in X
  OBVIOUS
<1>4. f \in [1 .. Len(s) -> X]
  BY <1>2, <1>3
<1>5. \A i \in 1 .. Len(s) : f[i] = s[Len(s) + 1 - i]
  BY <1>2
<1> HIDE DEF f
<1>6. f \in Seq(X) /\ Len(f) = Len(s)
  BY <1>2, <1>4
<1> QED BY <1>1, <1>5, <1>6

(* The reverse of a longer sequence.                                       *)
LEMMA ReverseAppend ==
    ASSUME NEW X, NEW us \in Seq(X), NEW r \in X
    PROVE  Edit!Reverse(Append(us, r)) = <<r>> \o Edit!Reverse(us)
<1> DEFINE m == Len(us)
           a == Append(us, r)
           w == Edit!Reverse(us)
           v == Edit!Reverse(a)
<1>1. /\ a \in Seq(X) /\ Len(a) = m + 1 /\ m \in Nat
      /\ \A i \in 1 .. m : a[i] = us[i]
      /\ a[m + 1] = r
  OBVIOUS
<1>3. /\ w \in Seq(X) /\ Len(w) = m
      /\ \A i \in 1 .. m : w[i] = us[m + 1 - i]
  BY ReverseFacts
<1> HIDE DEF a
<1>4. /\ v \in Seq(X) /\ Len(v) = m + 1
      /\ \A i \in 1 .. m + 1 : v[i] = a[(m + 1) + 1 - i]
  BY <1>1, ReverseFacts
<1> HIDE DEF w, v
<1> DEFINE o == <<r>>
<1>5. o \in Seq(X) /\ Len(o) = 1 /\ o[1] = r
  OBVIOUS
<1> HIDE DEF o
<1>6. /\ o \o w \in Seq(X) /\ Len(o \o w) = 1 + m
      /\ \A i \in 1 .. 1 + m : (o \o w)[i] = IF i <= 1 THEN o[i] ELSE w[i - 1]
  <2>1. /\ o \o w \in Seq(X) /\ Len(o \o w) = Len(o) + Len(w)
        /\ \A i \in 1 .. Len(o) + Len(w) : (o \o w)[i] = IF i <= Len(o) THEN o[i] ELSE w[i - Len(o)]
    <3>1. o \in Seq(X) /\ w \in Seq(X)
      BY <1>3, <1>5
    <3> QED BY <3>1, ConcatProperties
  <2>2. Len(o) = 1 /\ Len(w) = m
    BY <1>3, <1>5
  <2> QED BY <2>1, <2>2
<1>7. ASSUME NEW i \in 1 .. m + 1 PROVE v[i] = (o \o w)[i]
  <2>0. i \in 1 .. 1 + m
    BY <1>1
  <2>1. CASE i = 1
    <3>1. (m + 1) + 1 - i = m + 1
      BY <1>1, <2>1
    <3> QED BY <1>1, <1>4, <1>5, <1>6, <2>0, <2>1, <3>1
  <2>2. CASE i # 1
    <3>1. (m + 1) + 1 - i \in 1 .. m /\ i - 1 \in 1 .. m /\ m + 1 - (i - 1) = (m + 1) + 1 - i /\ ~(i <= 1)
      BY <1>1, <2>2
    <3>2. v[i] = us[(m + 1) + 1 - i]
      BY <1>1, <1>4, <3>1
    <3>3. (o \o w)[i] = w[i - 1]
      BY <1>6, <2>0, <3>1
    <3> QED BY <1>3, <3>1, <3>2, <3>3
  <2> QED BY <2>1, <2>2
<1>8. v = o \o w
  <2>1. Len(v) = Len(o \o w)
    BY <1>1, <1>4, <1>6
  <2> QED BY <1>4, <1>6, <1>7, <2>1, SeqEqual
<1> QED BY <1>8 DEF w, v, o, a

(* One replacement, and the ones after it.                                 *)
LEMMA WalkedFirst ==
    ASSUME NEW S, NEW X, NEW start \in S, NEW step \in Steps(S, X), NEW x \in X, NEW s \in Seq(X)
    PROVE  Walked(step, start, <<x>> \o s) = Walked(step, step[<<start, x>>], s)
<1>1. /\ Walked(step, start, <<>>) = start
      /\ \A u \in Seq(X) : \A e \in X : Walked(step, start, Append(u, e)) = step[<<Walked(step, start, u), e>>]
  BY WalkedSteps
<1>2. <<>> \in Seq(X) /\ Append(<<>>, x) = <<x>> /\ <<x>> \in Seq(X)
  OBVIOUS
<1>3. Walked(step, start, <<x>>) = step[<<start, x>>]
  BY <1>1, <1>2
<1> DEFINE o == <<x>>
<1>4. o \in Seq(X)
  BY <1>2
<1> HIDE DEF o
<1>5. Walked(step, start, o \o s) = Walked(step, Walked(step, start, o), s)
  BY <1>4, WalkedOver
<1> QED BY <1>3, <1>5 DEF o

(* Made from the last to the first, the replacements splice the text.      *)
LEMMA SplicedWalk ==
    ASSUME NEW S
    PROVE  \A rs \in Seq(Replacements(S)) : \A t \in Seq(S) :
             Cuts(t, rs) => Walked(replacing(S), t, Edit!Reverse(rs)) = Spliced(t, rs)
<1> DEFINE X == Replacements(S)
           step == replacing(S)
           T == {rs \in Seq(X) : \A t \in Seq(S) : Cuts(t, rs) => Walked(step, t, Edit!Reverse(rs)) = Spliced(t, rs)}
<1>1. /\ step \in Steps(Seq(S), X)
      /\ \A t \in Seq(S), r \in X : FitsIn(t, r) => step[<<t, r>>] = Edit!Replaced(t, r)
  BY ReplacingSteps
<1> HIDE DEF step
<1>2. <<>> \in T
  <2> SUFFICES ASSUME NEW t \in Seq(S) PROVE Walked(step, t, Edit!Reverse(<<>>)) = Spliced(t, <<>>)
    OBVIOUS
  <2>1. Edit!Reverse(<<>>) = <<>>
    BY DEF Edit!Reverse
  <2>2. Walked(step, t, <<>>) = t
    BY <1>1, WalkedSteps
  <2>3. Pieces(t, <<>>) = <<>>
    BY DEF Pieces
  <2>4. FlattenSeq(<<>>) = <<>>
    BY FlattenLaws
  <2>5. SubSeq(t, Ends(<<>>, Len(<<>>)) + 1, Len(t)) = t
    <3>1. Ends(<<>>, Len(<<>>)) + 1 = 1
      BY DEF Ends
    <3> QED BY <3>1
  <2>6. <<>> \o t = t
    OBVIOUS
  <2> QED BY <2>1, <2>2, <2>3, <2>4, <2>5, <2>6 DEF Spliced
<1>3. ASSUME NEW us \in T, NEW r \in X PROVE Append(us, r) \in T
  <2> DEFINE rs == Append(us, r)
  <2>1. us \in Seq(X) /\ rs \in Seq(X)
    <3> HIDE DEF X
    <3> QED OBVIOUS
  <2>2. \A t \in Seq(S) : Cuts(t, us) => Walked(step, t, Edit!Reverse(us)) = Spliced(t, us)
    OBVIOUS
  <2> SUFFICES ASSUME NEW t \in Seq(S), Cuts(t, rs) PROVE Walked(step, t, Edit!Reverse(rs)) = Spliced(t, rs)
    BY <2>1
  <2> DEFINE u == Edit!Replaced(t, r)
  <2>3. FitsIn(t, r) /\ u \in Seq(S) /\ Cuts(u, us) /\ Spliced(t, rs) = Spliced(u, us)
    <3>1. /\ r.at >= 1 /\ r.at - 1 + r.len <= Len(t)
          /\ u \in Seq(S) /\ Cuts(u, us) /\ Spliced(t, rs) = Spliced(u, us)
      BY <2>1, SplicedLast
    <3> QED BY <3>1 DEF FitsIn
  <2>4. Edit!Reverse(us) \in Seq(X) /\ Edit!Reverse(rs) = <<r>> \o Edit!Reverse(us)
    <3> HIDE DEF X
    <3> QED BY <2>1, ReverseFacts, ReverseAppend
  <2>5. step[<<t, r>>] = u
    BY <1>1, <2>3
  <2> HIDE DEF rs, u
  <2>6. Walked(step, t, Edit!Reverse(rs)) = Walked(step, u, Edit!Reverse(us))
    <3> DEFINE w == Edit!Reverse(us)
               Q == Seq(S)
    <3>1. w \in Seq(X) /\ step \in Steps(Q, X) /\ t \in Q
      BY <1>1, <2>4
    <3> HIDE DEF w, Q, X
    <3>2. Walked(step, t, <<r>> \o w) = Walked(step, step[<<t, r>>], w)
      BY <3>1, WalkedFirst
    <3> QED BY <2>4, <2>5, <3>2 DEF w
  <2> QED BY <2>2, <2>3, <2>6
<1>4. T \in SUBSET Seq(X)
  OBVIOUS
<1> HIDE DEF T, X
<1>5. T = Seq(X)
  BY <1>2, <1>3, <1>4, SeqInduction
<1> QED BY <1>5 DEF T, X, step

(* Every replacement is within the text the ones behind it leave.          *)
LEMMA ReplacementsMade ==
    ASSUME NEW S, NEW t \in Seq(S), NEW rs \in Seq(Replacements(S)), Cuts(t, rs)
    PROVE  Edit!ApplyReplacements(t, rs) = Walked(replacing(S), t, Edit!Reverse(rs))
<1> DEFINE X == Replacements(S)
           Q == Seq(S)
           step == replacing(S)
           v == Edit!Reverse(rs)
           n == Len(v)
           F(g) == g = [i \in 0 .. n |-> IF i = 0 THEN t ELSE Edit!Replaced(g[i - 1], v[i])]
           walk == CHOOSE g : F(g)
<1>1. Edit!ApplyReplacements(t, rs) = walk[n]
  BY DEF Edit!ApplyReplacements, Edit!Through
<1>2. /\ step \in Steps(Q, X)
      /\ \A u \in Q, r \in X : FitsIn(u, r) => step[<<u, r>>] = Edit!Replaced(u, r)
  BY ReplacingSteps
<1>3. v \in Seq(X) /\ n = Len(rs) /\ \A i \in 1 .. n : v[i] = rs[n + 1 - i]
  <2> HIDE DEF X
  <2>1. rs \in Seq(X)
    BY DEF X
  <2> QED BY <2>1, ReverseFacts
<1> HIDE DEF step, v
<1>4. PICK h : /\ h = [i \in 0 .. n |-> IF i = 0 THEN t ELSE step[<<h[i - 1], v[i]>>]]
               /\ \A i \in 1 .. n : h[i - 1] \in Q /\ v[i] \in X
  <2> HIDE DEF Q, X
  <2>1. t \in Q
    BY DEF Q
  <2> QED BY <1>2, <1>3, <2>1, WalkGiven
<1>5. n \in Nat /\ \A i \in 0 .. n : i = 0 \/ i \in 1 .. n
  BY <1>3
<1>6. h[0] = t /\ \A i \in 1 .. n : h[i] = step[<<h[i - 1], v[i]>>]
  <2>1. \A i \in 1 .. n : i \in 0 .. n /\ i # 0
    BY <1>5
  <2>2. 0 \in 0 .. n
    BY <1>5
  <2> QED BY <1>4, <2>1, <2>2
<1>7. \A i \in 1 .. n : /\ rs[i].at \in Nat /\ rs[i].len \in Nat /\ rs[i].at >= 1
                        /\ rs[i] \in X /\ Ends(rs, i) = rs[i].at - 1 + rs[i].len
                        /\ Ends(rs, i) <= Len(t)
                        /\ \A j \in 1 .. i - 1 : Ends(rs, j) <= rs[i].at - 1 /\ Ends(rs, j) \in Nat
  <2>1. ASSUME NEW i \in 1 .. n
        PROVE  /\ rs[i].at \in Nat /\ rs[i].len \in Nat /\ rs[i].at >= 1 /\ rs[i] \in X
               /\ Ends(rs, i) = rs[i].at - 1 + rs[i].len
    <3>1. rs[i] \in X
      BY <1>3
    <3>2. rs[i].at \in Nat /\ rs[i].len \in Nat /\ rs[i].at >= 1
      BY <1>3, CutFacts
    <3>3. i # 0
      BY <1>5
    <3> QED BY <3>1, <3>2, <3>3 DEF Ends
  <2>2. ASSUME NEW i \in 1 .. n, NEW j \in 1 .. i - 1
        PROVE  Ends(rs, j) <= rs[i].at - 1 /\ Ends(rs, j) \in Nat
    <3>1. j \in 0 .. i - 1 /\ j \in 0 .. Len(rs)
      BY <1>3, <1>5
    <3>2. Ends(rs, j) < rs[i].at
      BY <1>3, <3>1 DEF Cuts
    <3>3. Ends(rs, j) \in Nat
      BY <3>1, CutFacts
    <3> QED BY <2>1, <3>2, <3>3
  <2>3. \A i \in 1 .. n : Ends(rs, i) <= Len(t)
    BY <1>3 DEF Cuts
  <2> QED BY <2>1, <2>2, <2>3
<1> DEFINE T == {i \in Nat : i + 1 <= n =>
                   /\ h[i + 1] = Edit!Replaced(h[i], v[i + 1])
                   /\ v[i + 1].at - 1 <= Len(h[i + 1])}
<1>8. ASSUME NEW i \in Nat, i + 1 <= n, FitsIn(h[i], v[i + 1])
      PROVE  h[i + 1] = Edit!Replaced(h[i], v[i + 1]) /\ v[i + 1].at - 1 <= Len(h[i + 1])
  <2>1. i + 1 \in 1 .. n /\ (i + 1) - 1 = i
    BY <1>5, <1>8
  <2>2. h[i] \in Q /\ v[i + 1] \in X
    BY <1>4, <2>1
  <2>3. h[i + 1] = Edit!Replaced(h[i], v[i + 1])
    BY <1>2, <1>6, <1>8, <2>1, <2>2
  <2>4. v[i + 1].at - 1 <= Len(Edit!Replaced(h[i], v[i + 1]))
    BY <1>8, <2>2, ReplacedTyped
  <2> QED BY <2>3, <2>4
<1>9. 0 \in T
  <2> SUFFICES ASSUME 0 + 1 <= n PROVE FitsIn(h[0], v[0 + 1])
    BY <1>8
  <2>1. 0 + 1 = 1 /\ n + 1 - 1 = n /\ 1 \in 1 .. n /\ n \in 1 .. n
    BY <1>5
  <2>2. v[0 + 1] = rs[n]
    BY <1>3, <2>1
  <2>3. rs[n].at >= 1 /\ rs[n].at - 1 + rs[n].len <= Len(t)
    BY <1>7, <2>1
  <2> QED BY <1>6, <2>2, <2>3 DEF FitsIn
<1>10. ASSUME NEW i \in T PROVE i + 1 \in T
  <2> SUFFICES ASSUME (i + 1) + 1 <= n PROVE FitsIn(h[i + 1], v[(i + 1) + 1])
    BY <1>8
  <2>1. i \in Nat /\ i + 1 <= n /\ i + 1 \in 1 .. n /\ (i + 1) + 1 \in 1 .. n /\ i + 1 \in Nat
    BY <1>5
  <2> DEFINE k == n + 1 - (i + 1)
             j == n + 1 - ((i + 1) + 1)
  <2>2. k \in 1 .. n /\ j \in 1 .. n /\ j \in 1 .. k - 1
    BY <1>5, <2>1
  <2>3. v[i + 1] = rs[k] /\ v[(i + 1) + 1] = rs[j]
    BY <1>3, <2>1
  <2>4. rs[k].at - 1 <= Len(h[i + 1])
    BY <2>1, <2>3
  <2>5. Len(h[i + 1]) \in Nat
    <3> DEFINE m == (i + 1) + 1
    <3>2. m \in 1 .. n /\ m - 1 = i + 1
      BY <2>1
    <3> HIDE DEF m
    <3>1. h[m - 1] \in Q
      BY <1>4, <3>2
    <3>3. h[i + 1] \in Seq(S)
      BY <3>1, <3>2
    <3> QED BY <3>3
  <2> HIDE DEF k, j
  <2>6. /\ Ends(rs, j) <= rs[k].at - 1 /\ Ends(rs, j) = rs[j].at - 1 + rs[j].len
        /\ rs[j].at >= 1 /\ rs[j].at \in Nat /\ rs[j].len \in Nat /\ rs[k].at \in Nat
    BY <1>7, <2>2
  <2>7. rs[j].at >= 1 /\ rs[j].at - 1 + rs[j].len <= Len(h[i + 1])
    <3>1. rs[j].at - 1 + rs[j].len <= rs[k].at - 1
      BY <2>6
    <3> DEFINE l == Len(h[i + 1])
               a == rs[j].at
               c == rs[j].len
               d == rs[k].at
    <3>2. l \in Nat /\ a \in Nat /\ c \in Nat /\ d \in Nat /\ d - 1 <= l /\ a - 1 + c <= d - 1 /\ a >= 1
      BY <2>4, <2>5, <2>6, <3>1
    <3> HIDE DEF l, a, c, d
    <3>3. a >= 1 /\ a - 1 + c <= l
      BY <3>2
    <3> QED BY <3>3 DEF l, a, c
  <2> QED BY <2>3, <2>7 DEF FitsIn
<1>11. T \in SUBSET Nat
  OBVIOUS
<1> HIDE DEF T
<1>12. T = Nat
  BY <1>9, <1>10, <1>11, SetInduction
<1>13. ASSUME NEW i \in 1 .. n PROVE h[i] = Edit!Replaced(h[i - 1], v[i])
  <2>1. i - 1 \in Nat /\ (i - 1) + 1 = i /\ i <= n
    BY <1>5
  <2>2. i - 1 \in T
    BY <1>12, <2>1
  <2> QED BY <2>1, <2>2 DEF T
<1>14. F(h)
  <2>1. \A i \in 0 .. n : h[i] = IF i = 0 THEN t ELSE Edit!Replaced(h[i - 1], v[i])
    BY <1>5, <1>6, <1>13
  <2>2. h = [i \in 0 .. n |-> h[i]]
    BY <1>4, Zenon
  <2> QED BY <2>1, <2>2
<1>15. F(walk)
  BY <1>14, Zenon
<1>16. walk = h
  <2> DEFINE D == {i \in Nat : i <= n => walk[i] = h[i]}
  <2> HIDE DEF walk
  <2>1. walk[0] = t /\ \A i \in 1 .. n : walk[i] = Edit!Replaced(walk[i - 1], v[i])
    <3>1. 0 \in 0 .. n /\ \A i \in 1 .. n : i \in 0 .. n /\ i # 0
      BY <1>5
    <3> QED BY <1>15, <3>1
  <2>2. 0 \in D
    BY <1>6, <2>1
  <2>3. ASSUME NEW i \in D PROVE i + 1 \in D
    <3> SUFFICES ASSUME i + 1 <= n PROVE walk[i + 1] = h[i + 1]
      OBVIOUS
    <3>1. i + 1 \in 1 .. n /\ (i + 1) - 1 = i /\ i <= n /\ walk[i] = h[i]
      BY <1>5
    <3> QED BY <1>13, <2>1, <3>1
  <2>4. D \in SUBSET Nat
    OBVIOUS
  <2> HIDE DEF D
  <2>5. D = Nat
    BY <2>2, <2>3, <2>4, SetInduction
  <2>6. \A i \in 0 .. n : walk[i] = h[i]
    BY <1>5, <2>5 DEF D
  <2>7. walk = [i \in 0 .. n |-> walk[i]] /\ h = [i \in 0 .. n |-> h[i]]
    BY <1>14, <1>15, Zenon
  <2> QED BY <2>6, <2>7
<1>17. h[n] = Walked(step, t, v)
  <2> DEFINE Z == Seq(S)
  <2>1. Obeys(h, Z, step, t, v, n)
    BY <1>6 DEF Obeys
  <2>2. step \in Steps(Z, X) /\ t \in Z /\ v \in Seq(X)
    BY <1>2, <1>3
  <2> HIDE DEF Z, X
  <2> QED BY <2>1, <2>2, WalkedIsEnd
<1> QED BY <1>1, <1>16, <1>17 DEF step, v

(* apply_replacements puts the new texts between the parts that are kept.  *)
LEMMA Splices ==
    ASSUME NEW S, NEW t \in Seq(S), NEW rs \in Seq(Replacements(S)), Cuts(t, rs)
    PROVE  Edit!ApplyReplacements(t, rs) = Spliced(t, rs) /\ Edit!ApplyReplacements(t, rs) \in Seq(S)
<1>1. Walked(replacing(S), t, Edit!Reverse(rs)) = Spliced(t, rs)
  BY SplicedWalk
<1>2. Spliced(t, rs) \in Seq(S)
  BY PiecesTyped
<1> QED BY <1>1, <1>2, ReplacementsMade

(* Operators of the library are the same wherever they are instantiated.   *)
LEMMA LibraryOfEdit ==
    /\ \A s : Edit!Cardinality(s) = Cardinality(s)
    /\ \A s : Edit!FlattenSeq(s) = FlattenSeq(s)
    /\ \A s : Edit!Min(s) = Min(s)
    /\ \A s : Edit!Max(s) = Max(s)
<1>1. \A s : Edit!Cardinality(s) = Cardinality(s)
  BY Zenon DEF Edit!Cardinality, Cardinality
<1>2. \A s : Edit!FlattenSeq(s) = FlattenSeq(s)
  BY Zenon DEF Edit!FlattenSeq, FlattenSeq
<1>3. \A s : Edit!Min(s) = Min(s) /\ Edit!Max(s) = Max(s)
  BY Zenon DEF Edit!Min, Edit!Max, Min, Max
<1> QED BY <1>1, <1>2, <1>3

(* Those that stand before i in the order of their places, and i.          *)
UpTo(rs, i) == {j \in DOMAIN rs : rs[j].at < rs[i].at \/ (rs[j].at = rs[i].at /\ j <= i)}

(* No two have the same number before them, so the numbers are all of 1 .. *)
(* n.                                                                      *)
LEMMA RanksDiffer ==
    ASSUME NEW rs, NEW n \in Nat, DOMAIN rs = 1 .. n, \A i \in 1 .. n : rs[i].at \in Nat
    PROVE  /\ \A i \in 1 .. n : Cardinality(UpTo(rs, i)) \in 1 .. n
           /\ \A k \in 1 .. n : \E i \in 1 .. n : Cardinality(UpTo(rs, i)) = k
<1> DEFINE D == 1 .. n
           rank == [i \in D |-> Cardinality(UpTo(rs, i))]
<1>1. IsFiniteSet(D) /\ Cardinality(D) = n
  BY FS_Interval
<1>2. ASSUME NEW i \in D
      PROVE  UpTo(rs, i) \in SUBSET D /\ i \in UpTo(rs, i)
  BY DEF UpTo
<1> HIDE DEF D
<1>3. ASSUME NEW i \in D
      PROVE  IsFiniteSet(UpTo(rs, i)) /\ Cardinality(UpTo(rs, i)) \in D
  <2>1. IsFiniteSet(UpTo(rs, i)) /\ Cardinality(UpTo(rs, i)) <= n
    BY <1>1, <1>2, FS_Subset
  <2>2. Cardinality(UpTo(rs, i)) \in Nat
    BY <2>1, FS_CardinalityType
  <2>3. Cardinality(UpTo(rs, i)) # 0
    BY <1>2, <2>1, FS_EmptySet
  <2> QED BY <2>1, <2>2, <2>3 DEF D
<1>4. ASSUME NEW i \in D, NEW j \in D, i # j, i \in UpTo(rs, j)
      PROVE  Cardinality(UpTo(rs, i)) # Cardinality(UpTo(rs, j))
  <2>1. /\ i \in Nat /\ j \in Nat /\ rs[i].at \in Nat /\ rs[j].at \in Nat
        /\ \A k \in D : k \in Nat /\ rs[k].at \in Nat
    BY DEF D
  <2>2. rs[i].at < rs[j].at \/ (rs[i].at = rs[j].at /\ i <= j)
    BY <1>4 DEF UpTo
  <2>3. UpTo(rs, i) \in SUBSET UpTo(rs, j)
    <3>1. DOMAIN rs = D
      BY DEF D
    <3> QED BY <2>1, <2>2, <3>1 DEF UpTo
  <2>4. j \notin UpTo(rs, i)
    BY <1>4, <2>1, <2>2 DEF UpTo
  <2>5. UpTo(rs, i) # UpTo(rs, j)
    BY <1>2, <2>4
  <2>6. IsFiniteSet(UpTo(rs, j))
    BY <1>3
  <2> QED BY <2>3, <2>5, <2>6, FS_Subset
<1>5. ASSUME NEW i \in D, NEW j \in D PROVE i \in UpTo(rs, j) \/ j \in UpTo(rs, i)
  BY DEF UpTo, D
<1>6. rank \in [D -> D]
  BY <1>3
<1>7. \A i \in D : rank[i] = Cardinality(UpTo(rs, i))
  OBVIOUS
<1> HIDE DEF rank
<1>8. \A i, j \in D : rank[i] = rank[j] => i = j
  BY <1>4, <1>5, <1>7
<1>9. rank \in Injection(D, D)
  BY <1>6, <1>8, Fun_IsInj
<1>10. rank \in Surjection(D, D)
  BY <1>1, <1>9, FS_Injection
<1>11. \A k \in D : \E i \in D : rank[i] = k
  BY <1>10, Fun_SurjectionProperties
<1> QED BY <1>3, <1>7, <1>11 DEF D

(* Sorting puts each replacement at one place.                             *)
LEMMA SortedOnce ==
    ASSUME NEW rs, NEW n \in Nat, DOMAIN rs = 1 .. n, \A i \in 1 .. n : rs[i].at \in Nat
    PROVE  \E p \in [1 .. n -> 1 .. n] :
             /\ \A i, j \in 1 .. n : p[i] = p[j] => i = j
             /\ Edit!ByPlace(rs) = [k \in 1 .. n |-> rs[p[k]]]
<1> DEFINE D == 1 .. n
           Chosen(k) == CHOOSE i \in D : Cardinality(UpTo(rs, i)) = k
           p == [k \in D |-> Chosen(k)]
<1>1. \A k \in D : \E i \in D : Cardinality(UpTo(rs, i)) = k
  BY RanksDiffer
<1>2. \A k \in D : Chosen(k) \in D /\ Cardinality(UpTo(rs, Chosen(k))) = k
  <2> HIDE DEF D
  <2> SUFFICES ASSUME NEW k \in D PROVE Chosen(k) \in D /\ Cardinality(UpTo(rs, Chosen(k))) = k
    OBVIOUS
  <2> QED BY <1>1, Zenon
<1>3. Edit!ByPlace(rs) = [k \in D |-> rs[Chosen(k)]]
  <2>1. \A i : Edit!Cardinality(UpTo(rs, i)) = Cardinality(UpTo(rs, i))
    BY LibraryOfEdit, Zenon
  <2> DEFINE First(k) == CHOOSE i \in DOMAIN rs : Edit!Cardinality(UpTo(rs, i)) = k
  <2>2. Edit!ByPlace(rs) = [k \in DOMAIN rs |-> rs[First(k)]]
    BY Zenon DEF Edit!ByPlace, UpTo
  <2>3. DOMAIN rs = D
    OBVIOUS
  <2> HIDE DEF D
  <2>4. \A k : First(k) = Chosen(k)
    BY <2>1, <2>3
  <2> HIDE DEF First, Chosen
  <2> QED BY <2>2, <2>3, <2>4
<1> HIDE DEF Chosen
<1>4. p \in [D -> D] /\ \A k \in D : p[k] = Chosen(k)
  BY <1>2
<1> HIDE DEF p, D
<1>5. \A i, j \in D : p[i] = p[j] => i = j
  BY <1>2, <1>4
<1>6. Edit!ByPlace(rs) = [k \in D |-> rs[p[k]]]
  BY <1>3, <1>4
<1> QED BY <1>4, <1>5, <1>6 DEF D

(* A set of naturals that is not empty has a smallest member.              *)
LEMMA SmallestExists ==
    ASSUME NEW A \in SUBSET Nat, A # {}
    PROVE  \E x \in A : \A y \in A : x <= y
<1> DEFINE T == {n \in Nat : \A m \in 0 .. n : m \notin A}
<1> SUFFICES ASSUME \A x \in A : \E y \in A : ~(x <= y) PROVE FALSE
  OBVIOUS
<1>1. 0 \in T
  <2> SUFFICES ASSUME 0 \in A PROVE FALSE
    OBVIOUS
  <2>1. \E y \in A : ~(0 <= y)
    OBVIOUS
  <2> QED BY <2>1
<1>2. ASSUME NEW n \in T PROVE n + 1 \in T
  <2>1. n \in Nat /\ \A m \in 0 .. n : m \notin A
    OBVIOUS
  <2>2. n + 1 \notin A
    <3> SUFFICES ASSUME n + 1 \in A PROVE FALSE
      OBVIOUS
    <3> PICK y \in A : ~(n + 1 <= y)
      OBVIOUS
    <3>1. y \in 0 .. n
      BY <2>1
    <3> QED BY <2>1, <3>1
  <2>3. \A m \in 0 .. n + 1 : m \in 0 .. n \/ m = n + 1
    BY <2>1
  <2> QED BY <2>1, <2>2, <2>3
<1>3. T \in SUBSET Nat
  OBVIOUS
<1> HIDE DEF T
<1>4. T = Nat
  BY <1>1, <1>2, <1>3, SetInduction
<1> PICK x \in A : TRUE
  OBVIOUS
<1>5. x \in T /\ x \in 0 .. x
  BY <1>4
<1> QED BY <1>5 DEF T

(* And that is what Min gives.                                             *)
LEMMA MinIs ==
    ASSUME NEW A \in SUBSET Nat, A # {}
    PROVE  Min(A) \in A /\ \A y \in A : Min(A) <= y
<1>1. \E x \in A : \A y \in A : x =< y
  BY SmallestExists
<1> QED BY <1>1, Zenon DEF Min

-----------------------------------------------------------------------------
(* Flattening, and what normalisation makes of a text.                     *)

(* Texts put together are a text.                                          *)
LEMMA FlattenTyped ==
    ASSUME NEW S, NEW n \in Nat, NEW f \in [1 .. n -> Seq(S)]
    PROVE  FlattenSeq(f) \in Seq(S)
<1> DEFINE Q == Seq(S)
<1> HIDE DEF Q
<1>1. f \in Seq(Q)
  BY DEF Q
<1> QED BY <1>1, FlattenLaws DEF Q

(* One piece of at most one element for each element makes nothing longer. *)
LEMMA FlattenShort ==
    ASSUME NEW S, NEW n \in Nat, NEW f \in [1 .. n -> Seq(S)], \A i \in 1 .. n : Len(f[i]) <= 1
    PROVE  Len(FlattenSeq(f)) <= n
<1> DEFINE Q == Seq(S)
           Z == {s \in Q : Len(s) <= 1}
           T == {ss \in Seq(Z) : ss \in Seq(Q) /\ Len(FlattenSeq(ss)) <= Len(ss)}
<1>1. /\ FlattenSeq(<<>>) = <<>>
      /\ \A ss \in Seq(Q) : FlattenSeq(ss) \in Q
      /\ \A ss \in Seq(Q) : \A s \in Q : FlattenSeq(Append(ss, s)) = FlattenSeq(ss) \o s
  BY FlattenLaws
<1>2. <<>> \in T
  BY <1>1
<1>3. ASSUME NEW ss \in T, NEW s \in Z PROVE Append(ss, s) \in T
  <2>1. ss \in Seq(Z) /\ ss \in Seq(Q) /\ Len(FlattenSeq(ss)) <= Len(ss) /\ s \in Q /\ Len(s) <= 1
    OBVIOUS
  <2>2. FlattenSeq(Append(ss, s)) = FlattenSeq(ss) \o s
    BY <1>1, <2>1
  <2>3. FlattenSeq(ss) \in Q
    BY <1>1, <2>1
  <2> DEFINE g == FlattenSeq(ss)
  <2>4. g \in Seq(S) /\ s \in Seq(S)
    BY <2>1, <2>3
  <2> HIDE DEF g
  <2>5. Len(g \o s) = Len(g) + Len(s) /\ Len(g) \in Nat /\ Len(s) \in Nat
    BY <2>4
  <2> HIDE DEF Q, Z
  <2>6. Append(ss, s) \in Seq(Z) /\ Append(ss, s) \in Seq(Q) /\ Len(Append(ss, s)) = Len(ss) + 1 /\ Len(ss) \in Nat
    BY <2>1
  <2>7. Len(g) <= Len(ss)
    BY <2>1 DEF g
  <2>8. Len(g \o s) <= Len(ss) + 1
    BY <2>1, <2>5, <2>6, <2>7
  <2> QED BY <2>2, <2>6, <2>8 DEF g
<1>4. T \in SUBSET Seq(Z)
  OBVIOUS
<1>5. \A i \in 1 .. n : f[i] \in Z
  OBVIOUS
<1> HIDE DEF Z, T
<1>6. T = Seq(Z)
  BY <1>2, <1>3, <1>4, SeqInduction
<1>7. f \in Seq(Z) /\ Len(f) = n
  <2>1. f \in [1 .. n -> Z]
    BY <1>5
  <2> QED BY <2>1
<1> QED BY <1>6, <1>7 DEF T

(* One character for each is the text.                                     *)
LEMMA FlattenSingles ==
    ASSUME NEW S, NEW t \in Seq(S), NEW f, f = [i \in DOMAIN t |-> <<t[i]>>]
    PROVE  FlattenSeq(f) = t
<1> DEFINE op == In(S, S)
<1>1. Flat(op, t) = t
  BY FilterLaws
<1>2. \A x \in S : op[x] = <<x>>
  BY DEF In
<1>3. \A i \in DOMAIN t : t[i] \in S
  OBVIOUS
<1> HIDE DEF op
<1>4. f = [i \in DOMAIN t |-> op[t[i]]]
  BY <1>2, <1>3
<1> QED BY <1>1, <1>4 DEF Flat

(* Texts, and those that were normalised.                                  *)
Text == Seq(Edit!Chars)
Normal == Edit!Chars \ {"x"}

(* A normalised text has no character left to normalise.                   *)
LEMMA NormalizedFuzzy ==
    ASSUME NEW t \in Text
    PROVE  Edit!NormalizeForFuzzy(t) \in Seq(Normal)
<1> DEFINE f == [i \in DOMAIN t |-> IF t[i] = "x" THEN <<"a", "a">> ELSE <<t[i]>>]
           u == FlattenSeq(f)
           Trimmed(i) == \E j \in i .. Len(u) :
                           /\ \A k \in i .. j : u[k] \in {"sp", "cr"}
                           /\ j = Len(u) \/ u[j + 1] = "nl"
           g == [i \in DOMAIN u |-> IF Trimmed(i) THEN <<>> ELSE <<u[i]>>]
<1>1. Edit!NormalizeForFuzzy(t) = FlattenSeq(g)
  BY LibraryOfEdit, Zenon DEF Edit!NormalizeForFuzzy
<1>2. Len(t) \in Nat /\ DOMAIN t = 1 .. Len(t) /\ \A i \in DOMAIN t : t[i] \in Edit!Chars
  BY DEF Text
<1>3. <<"a", "a">> \in Seq(Normal) /\ \A c \in Normal : <<c>> \in Seq(Normal)
  <2>1. "a" \in Normal
    BY DEF Normal, Edit!Chars
  <2> QED BY <2>1
<1>4. f \in [1 .. Len(t) -> Seq(Normal)]
  <2>1. \A i \in DOMAIN t : t[i] # "x" => t[i] \in Normal
    BY <1>2 DEF Normal
  <2>2. \A i \in DOMAIN t : f[i] \in Seq(Normal)
    BY <1>3, <2>1
  <2> QED BY <1>2, <2>2
<1>5. u \in Seq(Normal)
  <2> HIDE DEF f
  <2> QED BY <1>2, <1>4, FlattenTyped
<1> HIDE DEF u
<1>6. Len(u) \in Nat /\ DOMAIN u = 1 .. Len(u) /\ \A i \in DOMAIN u : u[i] \in Normal
  BY <1>5
<1> HIDE DEF Trimmed
<1>7. g \in [1 .. Len(u) -> Seq(Normal)]
  <2>1. \A i \in DOMAIN u : (IF Trimmed(i) THEN <<>> ELSE <<u[i]>>) \in Seq(Normal)
    BY <1>3, <1>6
  <2> QED BY <1>6, <2>1
<1> HIDE DEF g
<1>8. FlattenSeq(g) \in Seq(Normal)
  BY <1>6, <1>7, FlattenTyped
<1> QED BY <1>1, <1>8

(* Normalising it again only trims.                                        *)
LEMMA NormalizedTwice ==
    ASSUME NEW t \in Seq(Normal)
    PROVE  Len(Edit!NormalizeForFuzzy(t)) <= Len(t)
<1> DEFINE f == [i \in DOMAIN t |-> IF t[i] = "x" THEN <<"a", "a">> ELSE <<t[i]>>]
           u == FlattenSeq(f)
           Trimmed(i) == \E j \in i .. Len(u) :
                           /\ \A k \in i .. j : u[k] \in {"sp", "cr"}
                           /\ j = Len(u) \/ u[j + 1] = "nl"
           g == [i \in DOMAIN u |-> IF Trimmed(i) THEN <<>> ELSE <<u[i]>>]
<1>1. Edit!NormalizeForFuzzy(t) = FlattenSeq(g)
  BY LibraryOfEdit, Zenon DEF Edit!NormalizeForFuzzy
<1>2. Len(t) \in Nat /\ DOMAIN t = 1 .. Len(t) /\ \A i \in DOMAIN t : t[i] \in Normal
  OBVIOUS
<1>3. f = [i \in DOMAIN t |-> <<t[i]>>]
  <2>1. \A i \in DOMAIN t : t[i] # "x"
    BY <1>2 DEF Normal
  <2> QED BY <2>1
<1>4. u = t
  <2> HIDE DEF f
  <2> QED BY <1>3, FlattenSingles
<1> HIDE DEF u, Trimmed
<1>5. \A i \in 1 .. Len(t) : g[i] \in Seq(Normal) /\ Len(g[i]) <= 1
  <2>1. \A c \in Normal : <<c>> \in Seq(Normal) /\ Len(<<c>>) <= 1
    OBVIOUS
  <2>2. <<>> \in Seq(Normal) /\ Len(<<>>) <= 1
    OBVIOUS
  <2> QED BY <1>2, <1>4, <2>1, <2>2
<1>6. g \in [1 .. Len(t) -> Seq(Normal)]
  BY <1>2, <1>4, <1>5
<1> HIDE DEF g
<1>7. Len(FlattenSeq(g)) <= Len(t)
  BY <1>2, <1>5, <1>6, FlattenShort
<1> QED BY <1>1, <1>7

(* The text the edits are looked up in.                                    *)
LEMMA ContentTyped ==
    ASSUME NEW t \in Text
    PROVE  Edit!NormalizeToLf(Edit!StripBom(t)) \in Text
<1> DEFINE u == Edit!StripBom(t)
           f == [i \in DOMAIN u |-> IF u[i] # "cr" THEN <<u[i]>>
                                    ELSE IF i < Len(u) /\ u[i + 1] = "nl" THEN <<>> ELSE <<"nl">>]
<1>1. u \in Text
  <2>1. \A s \in Text : s # <<>> => Tail(s) \in Text
    BY DEF Text
  <2> QED BY <2>1 DEF Edit!StripBom, Edit!HadBom
<1> HIDE DEF u
<1>2. Edit!NormalizeToLf(u) = FlattenSeq(f)
  BY LibraryOfEdit, Zenon DEF Edit!NormalizeToLf
<1>3. Len(u) \in Nat /\ DOMAIN u = 1 .. Len(u) /\ \A i \in DOMAIN u : u[i] \in Edit!Chars
  BY <1>1 DEF Text
<1>4. \A c \in Edit!Chars : <<c>> \in Text
  BY DEF Text
<1>5. <<>> \in Text /\ <<"nl">> \in Text
  <2>1. "nl" \in Edit!Chars
    BY DEF Edit!Chars
  <2> QED BY <1>4, <2>1 DEF Text
<1>6. \A i \in DOMAIN u : f[i] \in Text
  BY <1>3, <1>4, <1>5
<1>7. f \in [1 .. Len(u) -> Text]
  BY <1>3, <1>6
<1> HIDE DEF f
<1>8. FlattenSeq(f) \in Seq(Edit!Chars)
  BY <1>3, <1>7, FlattenTyped DEF Text
<1> QED BY <1>2, <1>8 DEF u, Text

(* An edit of a call.                                                      *)
Change == [old : Text, new : Text]

-----------------------------------------------------------------------------
(* Where a text is found.                                                  *)

(* The first place a text is at is within the text.                        *)
LEMMA FirstPlace ==
    ASSUME NEW t \in Text, NEW o \in Text, Edit!Places(t, o) # {}
    PROVE  /\ Min(Edit!Places(t, o)) \in Edit!Places(t, o)
           /\ Min(Edit!Places(t, o)) \in Nat /\ Min(Edit!Places(t, o)) >= 1
           /\ Min(Edit!Places(t, o)) - 1 + Len(o) <= Len(t)
           /\ o = <<>> => Min(Edit!Places(t, o)) = 1
<1> DEFINE P == Edit!Places(t, o)
           m == Min(P)
<1>1. Len(t) \in Nat /\ Len(o) \in Nat
  BY DEF Text
<1>2. \A i \in P : i \in 1 .. Len(t) + 1 - Len(o)
  BY DEF Edit!Places
<1>3. P \in SUBSET Nat
  BY <1>1, <1>2
<1>4. ASSUME o = <<>> PROVE 1 \in P
  <2>1. Len(o) = 0
    BY <1>4
  <2>2. 1 \in 1 .. Len(t) + 1 - Len(o)
    BY <1>1, <2>1
  <2>3. SubSeq(t, 1, 1 + Len(o) - 1) = o
    <3>1. 1 + Len(o) - 1 = 0
      BY <2>1
    <3>2. SubSeq(t, 1, 0) = <<>>
      BY SubSeqEmpty
    <3> QED BY <1>4, <3>1, <3>2
  <2> QED BY <2>2, <2>3 DEF Edit!Places
<1>5. P # {}
  OBVIOUS
<1> HIDE DEF P
<1>6. m \in P /\ \A y \in P : m <= y
  BY <1>3, <1>5, MinIs
<1>7. m \in 1 .. Len(t) + 1 - Len(o)
  BY <1>2, <1>6
<1> QED BY <1>1, <1>4, <1>6, <1>7 DEF P

(* An exact place is in the text, a fuzzy one in the normalised text.      *)
LEMMA Found ==
    ASSUME NEW t \in Text, NEW o \in Text, NEW f, f = Edit!FuzzyFindText(t, o), f.at # 0
    PROVE  /\ f.at \in Nat /\ f.len \in Nat /\ f.fuzzy \in BOOLEAN /\ f.at >= 1
           /\ ~f.fuzzy => /\ f.at = Min(Edit!Places(t, o)) /\ f.len = Len(o)
                          /\ f.at - 1 + f.len <= Len(t)
           /\ f.fuzzy => f.at - 1 + f.len <= Len(Edit!NormalizeForFuzzy(t))
           /\ f.len = 0 => f.at = 1
           /\ Edit!Places(t, o) # {} => ~f.fuzzy
<1> DEFINE n == Edit!NormalizeForFuzzy(t)
           m == Edit!NormalizeForFuzzy(o)
<1>1. n \in Text /\ m \in Text
  <2>1. n \in Seq(Normal) /\ m \in Seq(Normal)
    BY NormalizedFuzzy
  <2>2. Normal \subseteq Edit!Chars
    BY DEF Normal
  <2> HIDE DEF n, m
  <2> QED BY <2>1, <2>2 DEF Text
<1>2. f = IF Edit!Places(t, o) # {} THEN [at |-> Min(Edit!Places(t, o)), len |-> Len(o), fuzzy |-> FALSE]
          ELSE IF Edit!Places(n, m) # {} THEN [at |-> Min(Edit!Places(n, m)), len |-> Len(m), fuzzy |-> TRUE]
          ELSE [at |-> 0, len |-> 0, fuzzy |-> FALSE]
  BY LibraryOfEdit, Zenon DEF Edit!FuzzyFindText
<1> HIDE DEF n, m
<1>3. Len(o) \in Nat /\ Len(m) \in Nat /\ (Len(o) = 0 => o = <<>>) /\ (Len(m) = 0 => m = <<>>)
  BY <1>1 DEF Text
<1>4. CASE Edit!Places(t, o) # {}
  <2>1. f.at = Min(Edit!Places(t, o)) /\ f.len = Len(o) /\ f.fuzzy = FALSE
    BY <1>2, <1>4
  <2>2. /\ Min(Edit!Places(t, o)) \in Nat /\ Min(Edit!Places(t, o)) >= 1
        /\ Min(Edit!Places(t, o)) - 1 + Len(o) <= Len(t)
        /\ o = <<>> => Min(Edit!Places(t, o)) = 1
    BY <1>4, FirstPlace
  <2> QED BY <1>3, <2>1, <2>2
<1>5. CASE Edit!Places(t, o) = {} /\ Edit!Places(n, m) # {}
  <2>1. f.at = Min(Edit!Places(n, m)) /\ f.len = Len(m) /\ f.fuzzy = TRUE
    BY <1>2, <1>5
  <2>2. /\ Min(Edit!Places(n, m)) \in Nat /\ Min(Edit!Places(n, m)) >= 1
        /\ Min(Edit!Places(n, m)) - 1 + Len(m) <= Len(n)
        /\ m = <<>> => Min(Edit!Places(n, m)) = 1
    BY <1>1, <1>5, FirstPlace
  <2> QED BY <1>3, <1>5, <2>1, <2>2 DEF n
<1>6. CASE Edit!Places(t, o) = {} /\ Edit!Places(n, m) = {}
  <2>1. f.at = 0
    BY <1>2, <1>6
  <2> QED BY <2>1
<1> QED BY <1>4, <1>5, <1>6

-----------------------------------------------------------------------------
(* What apply_edits gives when it gives no error.                          *)

(* Where every edit was found, where it is looked up again after a fuzzy   *)
(* match, and the replacements this asks for.                              *)
FoundAt(c, es) == [i \in DOMAIN es |-> Edit!FuzzyFindText(c, es[i].old)]
FoundAgain(c, es) ==
    [i \in DOMAIN es |-> IF FoundAt(c, es)[i].fuzzy THEN FoundAt(c, es)[i]
                         ELSE Edit!FuzzyFindText(Edit!NormalizeForFuzzy(c), es[i].old)]
Asked(es, spots) == [i \in DOMAIN es |-> [at |-> spots[i].at, len |-> spots[i].len, new |-> es[i].new]]
Apart(rs) == ~ \E i \in 2 .. Len(rs) : rs[i].at < rs[i - 1].at + rs[i - 1].len

(* All edits were found as they are, and are made in the text.             *)
MadeExactly(c, es, r) ==
    /\ \A i \in DOMAIN es : ~FoundAt(c, es)[i].fuzzy
    /\ r.base = c
    /\ r.places = Edit!ByPlace(Asked(es, FoundAt(c, es)))
    /\ Apart(r.places)
    /\ r.text = Edit!ApplyReplacements(c, r.places)

(* One was not, and they are made in the lines they touch.                 *)
MadeFuzzily(c, es, r) ==
    /\ ~ \A i \in DOMAIN es : ~FoundAt(c, es)[i].fuzzy
    /\ \A i \in DOMAIN es : FoundAgain(c, es)[i].at # 0
    /\ r.base = Edit!NormalizeForFuzzy(c)
    /\ r.places = Edit!ByPlace(Asked(es, FoundAgain(c, es)))
    /\ Apart(r.places)
    /\ r.base # <<>>
    /\ r.text = Edit!ApplyPreservingLines(c, r.base, r.places)

(* What is known of an outcome without an error: Locate.                   *)
LEMMA Located ==
    ASSUME NEW c, NEW base, NEW es, NEW spots, NEW fuzzy \in BOOLEAN,
           NEW r, r = Edit!Locate(c, base, es, spots, fuzzy), r.error = "none"
    PROVE  /\ \A i \in DOMAIN es : spots[i].at # 0
           /\ r.base = base /\ r.places = Edit!ByPlace(Asked(es, spots)) /\ Apart(r.places)
           /\ ~fuzzy => r.text = Edit!ApplyReplacements(c, r.places)
           /\ fuzzy => base # <<>> /\ r.text = Edit!ApplyPreservingLines(c, base, r.places)
           /\ base # r.text
<1> DEFINE rs == Edit!ByPlace(Asked(es, spots))
<1>1. \A e : Edit!Failed(e).error = e
  BY DEF Edit!Failed
<1>2. /\ \A i \in DOMAIN es : spots[i].at # 0
      /\ r = Edit!Replace(c, base, rs, fuzzy)
  <2>1. ~ \E i \in DOMAIN es : spots[i].at = 0
    <3> SUFFICES ASSUME \E i \in DOMAIN es : spots[i].at = 0 PROVE FALSE
      OBVIOUS
    <3>1. r = Edit!Failed("NotFound")
      BY Zenon DEF Edit!Locate
    <3>2. "NotFound" # "none"
      OBVIOUS
    <3> QED BY <1>1, <3>1, <3>2
  <2>2. ~ \E i \in DOMAIN es : Edit!FuzzyCountOccurrences(base, es[i].old) > 1
    <3> SUFFICES ASSUME \E i \in DOMAIN es : Edit!FuzzyCountOccurrences(base, es[i].old) > 1 PROVE FALSE
      OBVIOUS
    <3>1. r = Edit!Failed("NotUnique")
      BY <2>1, Zenon DEF Edit!Locate
    <3>2. "NotUnique" # "none"
      OBVIOUS
    <3> QED BY <1>1, <3>1, <3>2
  <2>3. r = Edit!Replace(c, base, rs, fuzzy)
    BY <2>1, <2>2, Zenon DEF Edit!Locate, Asked
  <2> QED BY <2>1, <2>3
<1> HIDE DEF rs
<1>3. Apart(rs)
  <2> SUFFICES ASSUME ~Apart(rs) PROVE FALSE
    OBVIOUS
  <2>1. r = Edit!Failed("Overlapping")
    BY <1>2, Zenon DEF Edit!Replace, Apart
  <2>2. "Overlapping" # "none"
    OBVIOUS
  <2> QED BY <1>1, <2>1, <2>2
<1>4. ASSUME NEW text, r = Edit!Changed(base, rs, text)
      PROVE  r.base = base /\ r.text = text /\ r.places = rs /\ base # text
  <2>1. base # text
    <3> SUFFICES ASSUME base = text PROVE FALSE
      OBVIOUS
    <3>1. r = Edit!Failed("NoChange")
      BY <1>4 DEF Edit!Changed
    <3>2. "NoChange" # "none"
      OBVIOUS
    <3> QED BY <1>1, <3>1, <3>2
  <2> QED BY <1>4, <2>1 DEF Edit!Changed
<1>5. CASE ~fuzzy
  <2>1. r = Edit!Changed(base, rs, Edit!ApplyReplacements(c, rs))
    BY <1>2, <1>3, <1>5, Zenon DEF Edit!Replace, Apart
  <2> QED BY <1>2, <1>3, <1>4, <1>5, <2>1 DEF rs
<1>6. CASE fuzzy
  <2>1. ~(Edit!LineCount(base) # Edit!LineCount(c) \/ base = <<>>)
    <3> SUFFICES ASSUME Edit!LineCount(base) # Edit!LineCount(c) \/ base = <<>> PROVE FALSE
      OBVIOUS
    <3>1. r = Edit!Failed("InternalMismatch")
      BY <1>2, <1>3, <1>6, Zenon DEF Edit!Replace, Apart
    <3>2. "InternalMismatch" # "none"
      OBVIOUS
    <3> QED BY <1>1, <3>1, <3>2
  <2>2. r = Edit!Changed(base, rs, Edit!ApplyPreservingLines(c, base, rs))
    BY <1>2, <1>3, <1>6, <2>1, Zenon DEF Edit!Replace, Apart
  <2> QED BY <1>2, <1>3, <1>4, <1>6, <2>1, <2>2 DEF rs
<1> QED BY <1>5, <1>6

(* The same of apply_edits, which made the edits in one of two ways.       *)
LEMMA Outcomes ==
    ASSUME NEW c, NEW es, NEW r, r = Edit!ApplyEdits(c, es), r.error = "none"
    PROVE  /\ \A i \in DOMAIN es : es[i].old # <<>>
           /\ \A i \in DOMAIN es : FoundAt(c, es)[i].at # 0
           /\ r.base # r.text
           /\ MadeExactly(c, es, r) \/ MadeFuzzily(c, es, r)
<1>1. \A e : Edit!Failed(e).error = e
  BY DEF Edit!Failed
<1> DEFINE f == FoundAt(c, es)
           base == Edit!NormalizeForFuzzy(c)
<1>2. ~ \E i \in DOMAIN es : es[i].old = <<>>
  <2> SUFFICES ASSUME \E i \in DOMAIN es : es[i].old = <<>> PROVE FALSE
    OBVIOUS
  <2>1. r = Edit!Failed("EmptyOldText")
    BY Zenon DEF Edit!ApplyEdits
  <2>2. "EmptyOldText" # "none"
    OBVIOUS
  <2> QED BY <1>1, <2>1, <2>2
<1>3. r = Edit!Resolve(c, es, f)
  BY <1>2, Zenon DEF Edit!ApplyEdits, FoundAt
<1> HIDE DEF f
<1>4. ~ \E i \in DOMAIN es : f[i].at = 0
  <2> SUFFICES ASSUME \E i \in DOMAIN es : f[i].at = 0 PROVE FALSE
    OBVIOUS
  <2>1. r = Edit!Failed("NotFound")
    BY <1>3, Zenon DEF Edit!Resolve
  <2>2. "NotFound" # "none"
    OBVIOUS
  <2> QED BY <1>1, <2>1, <2>2
<1>5. CASE \A i \in DOMAIN es : ~f[i].fuzzy
  <2>1. r = Edit!Locate(c, c, es, f, FALSE)
    BY <1>3, <1>4, <1>5, Zenon DEF Edit!Resolve
  <2>2. /\ r.base = c /\ r.places = Edit!ByPlace(Asked(es, f)) /\ Apart(r.places)
        /\ r.text = Edit!ApplyReplacements(c, r.places)
        /\ c # r.text
    <3> DEFINE fuzzy == FALSE
    <3>1. fuzzy \in BOOLEAN /\ ~fuzzy /\ r = Edit!Locate(c, c, es, f, fuzzy)
      BY <2>1
    <3> HIDE DEF fuzzy
    <3> QED BY <3>1, Located
  <2>3. MadeExactly(c, es, r)
    BY <1>5, <2>2 DEF MadeExactly, f
  <2> QED BY <1>2, <1>4, <2>2, <2>3 DEF f
<1>6. CASE ~ \A i \in DOMAIN es : ~f[i].fuzzy
  <2> DEFINE g == FoundAgain(c, es)
  <2>1. r = Edit!Locate(c, base, es, g, TRUE)
    BY <1>3, <1>4, <1>6, Zenon DEF Edit!Resolve, FoundAgain, f
  <2> HIDE DEF g
  <2>2. /\ \A i \in DOMAIN es : g[i].at # 0
        /\ r.base = base /\ r.places = Edit!ByPlace(Asked(es, g)) /\ Apart(r.places)
        /\ base # <<>> /\ r.text = Edit!ApplyPreservingLines(c, base, r.places)
        /\ base # r.text
    <3> DEFINE fuzzy == TRUE
    <3>1. fuzzy \in BOOLEAN /\ r = Edit!Locate(c, base, es, g, fuzzy)
      BY <2>1
    <3> HIDE DEF fuzzy, base, f
    <3>2. /\ \A i \in DOMAIN es : g[i].at # 0
          /\ r.base = base /\ r.places = Edit!ByPlace(Asked(es, g)) /\ Apart(r.places)
          /\ base # r.text
          /\ fuzzy => base # <<>> /\ r.text = Edit!ApplyPreservingLines(c, base, r.places)
      BY <3>1, Located
    <3> QED BY <3>2 DEF fuzzy
  <2>3. MadeFuzzily(c, es, r)
    BY <1>6, <2>2 DEF MadeFuzzily, g, f
  <2> QED BY <1>2, <1>4, <2>2, <2>3 DEF f
<1> QED BY <1>5, <1>6

(* Replacements none of which begins before the one before it has ended.   *)
LEMMA ApartCuts ==
    ASSUME NEW S, NEW t \in Seq(S), NEW rs \in Seq(Replacements(S)), Apart(rs),
           \A i \in 1 .. Len(rs) : rs[i].at >= 1 /\ rs[i].at - 1 + rs[i].len <= Len(t)
    PROVE  Cuts(t, rs)
<1> DEFINE n == Len(rs)
           T == {i \in Nat : i + 1 <= n => \A j \in 0 .. i : Ends(rs, j) < rs[i + 1].at}
<1>1. n \in Nat /\ Len(t) \in Nat
  OBVIOUS
<1>2. \A i \in 1 .. n : rs[i].at \in Nat /\ rs[i].len \in Nat /\ rs[i].at >= 1
  <2>1. \A i \in 1 .. n : rs[i] \in Replacements(S)
    <3> DEFINE R == Replacements(S)
    <3> HIDE DEF R
    <3>1. rs \in Seq(R)
      BY DEF R
    <3>2. \A i \in 1 .. Len(rs) : rs[i] \in R
      BY <3>1, ElementsIn
    <3> QED BY <3>2 DEF R
  <2> QED BY <2>1 DEF Replacements
<1>3. \A i \in 1 .. n : Ends(rs, i) = rs[i].at - 1 + rs[i].len /\ Ends(rs, i) < rs[i].at + rs[i].len
  <2>1. \A i \in 1 .. n : i # 0
    BY <1>1
  <2> QED BY <1>2, <2>1 DEF Ends
<1>4. \A i \in 2 .. n : rs[i - 1].at + rs[i - 1].len <= rs[i].at
  <2> SUFFICES ASSUME NEW i \in 2 .. n PROVE rs[i - 1].at + rs[i - 1].len <= rs[i].at
    OBVIOUS
  <2>1. ~(rs[i].at < rs[i - 1].at + rs[i - 1].len)
    BY DEF Apart
  <2>2. i \in 1 .. n /\ i - 1 \in 1 .. n
    BY <1>1
  <2> QED BY <1>2, <2>1, <2>2
<1>5. 0 \in T
  <2> SUFFICES ASSUME 0 + 1 <= n, NEW j \in 0 .. 0 PROVE Ends(rs, j) < rs[0 + 1].at
    OBVIOUS
  <2>1. j = 0 /\ Ends(rs, j) = 0 /\ 0 + 1 = 1 /\ 1 \in 1 .. n
    BY <1>1 DEF Ends
  <2> QED BY <1>2, <2>1
<1>6. ASSUME NEW i \in T PROVE i + 1 \in T
  <2>0. i \in Nat /\ i + 1 \in Nat
    OBVIOUS
  <2> SUFFICES ASSUME (i + 1) + 1 <= n, NEW j \in 0 .. i + 1 PROVE Ends(rs, j) < rs[(i + 1) + 1].at
    BY <2>0
  <2> DEFINE k == i + 1
             m == (i + 1) + 1
             e == Ends(rs, j)
             a == rs[k].at
             l == rs[k].len
             b == rs[m].at
  <2>1. k \in 1 .. n /\ m \in 2 .. n /\ m - 1 = k /\ m \in 1 .. n /\ k <= n
    BY <1>1, <2>0
  <2>2. a \in Nat /\ l \in Nat /\ b \in Nat /\ a + l <= b
    BY <1>2, <1>4, <2>1
  <2>3. e < a \/ e = a - 1 + l
    <3>1. CASE j = i + 1
      BY <1>3, <2>1, <3>1
    <3>2. CASE j \in 0 .. i
      BY <2>1, <3>2
    <3> QED BY <2>0, <3>1, <3>2
  <2>4. e \in Int
    <3>1. j = 0 \/ j \in 1 .. n
      BY <2>0, <2>1
    <3>2. CASE j = 0
      BY <3>2 DEF Ends
    <3>3. CASE j \in 1 .. n
      <4>1. rs[j].at \in Nat /\ rs[j].len \in Nat /\ Ends(rs, j) = rs[j].at - 1 + rs[j].len
        BY <1>2, <1>3, <3>3
      <4> HIDE DEF e
      <4>2. Ends(rs, j) \in Int
        BY <4>1
      <4> QED BY <4>2 DEF e
    <3> QED BY <3>1, <3>2, <3>3
  <2> HIDE DEF e, a, l, b
  <2>5. e < b
    BY <2>2, <2>3, <2>4
  <2> QED BY <2>5 DEF e, b
<1>7. T \in SUBSET Nat
  OBVIOUS
<1> HIDE DEF T
<1>8. T = Nat
  BY <1>5, <1>6, <1>7, SetInduction
<1>9. ASSUME NEW i \in 1 .. n, NEW j \in 0 .. i - 1 PROVE Ends(rs, j) < rs[i].at
  <2>1. i - 1 \in Nat /\ (i - 1) + 1 = i /\ i <= n
    BY <1>1
  <2>2. i - 1 \in T
    BY <1>8, <2>1
  <2>3. \A k \in 0 .. i - 1 : Ends(rs, k) < rs[(i - 1) + 1].at
    BY <2>1, <2>2 DEF T
  <2> QED BY <2>1, <2>3
<1>10. \A i \in 1 .. n : Ends(rs, i) <= Len(t)
  BY <1>3
<1> QED BY <1>9, <1>10 DEF Cuts

(* at says of every edit where it is made in the text.                     *)
Within(t, es, spots) ==
    \A i \in DOMAIN es : /\ spots[i].at \in Nat /\ spots[i].len \in Nat /\ spots[i].at >= 1
                         /\ spots[i].at - 1 + spots[i].len <= Len(t)
                         /\ spots[i].at <= Len(t)

(* p says which edit a replacement is of.                                  *)
ComeFrom(rs, es, spots, p) ==
    /\ p \in [DOMAIN es -> DOMAIN es]
    /\ \A i, j \in DOMAIN es : p[i] = p[j] => i = j
    /\ \A k \in DOMAIN es : rs[k] = Asked(es, spots)[p[k]]

(* The sorted replacements of a call lie one behind the other.             *)
LEMMA SortedCuts ==
    ASSUME NEW t \in Text, NEW es \in Seq(Change), NEW spots, Within(t, es, spots),
           NEW rs, rs = Edit!ByPlace(Asked(es, spots)), Apart(rs)
    PROVE  /\ rs \in Seq(Replacements(Edit!Chars)) /\ Len(rs) = Len(es)
           /\ Cuts(t, rs)
           /\ \A k \in 1 .. Len(rs) : rs[k].at <= Len(t)
           /\ \E p : ComeFrom(rs, es, spots, p)
<1> DEFINE n == Len(es)
           D == 1 .. n
           us == Asked(es, spots)
           R == Replacements(Edit!Chars)
<1>1. n \in Nat /\ DOMAIN es = D /\ Len(t) \in Nat
  BY DEF Text
<1>2. \A i \in D : es[i] \in Change /\ es[i].new \in Seq(Edit!Chars)
  <2>1. \A i \in D : es[i] \in Change
    <3> HIDE DEF D
    <3> QED BY <1>1, ElementsIn
  <2> QED BY <2>1 DEF Change, Text
<1>3. DOMAIN us = D /\ \A i \in D : us[i] = [at |-> spots[i].at, len |-> spots[i].len, new |-> es[i].new]
  BY <1>1 DEF Asked
<1> HIDE DEF us
<1>4. \A i \in D : /\ us[i] \in R /\ us[i].at \in Nat /\ us[i].at >= 1
                   /\ us[i].at - 1 + us[i].len <= Len(t) /\ us[i].at <= Len(t)
  <2> SUFFICES ASSUME NEW i \in D
               PROVE  /\ us[i] \in R /\ us[i].at \in Nat /\ us[i].at >= 1
                      /\ us[i].at - 1 + us[i].len <= Len(t) /\ us[i].at <= Len(t)
    OBVIOUS
  <2>1. us[i].at = spots[i].at /\ us[i].len = spots[i].len /\ us[i] = [at |-> spots[i].at, len |-> spots[i].len, new |-> es[i].new]
    BY <1>3
  <2>2. /\ spots[i].at \in Nat /\ spots[i].len \in Nat /\ spots[i].at >= 1
        /\ spots[i].at - 1 + spots[i].len <= Len(t) /\ spots[i].at <= Len(t)
    BY <1>1 DEF Within
  <2>3. us[i] \in R
    BY <1>2, <2>1, <2>2 DEF Replacements
  <2> QED BY <2>1, <2>2, <2>3
<1>5. PICK p \in [D -> D] : (\A i, j \in D : p[i] = p[j] => i = j) /\ Edit!ByPlace(us) = [k \in D |-> us[p[k]]]
  <2>1. DOMAIN us = 1 .. n /\ \A i \in 1 .. n : us[i].at \in Nat
    BY <1>3, <1>4
  <2> HIDE DEF n
  <2>2. \E q \in [1 .. n -> 1 .. n] : /\ \A i, j \in 1 .. n : q[i] = q[j] => i = j
                                     /\ Edit!ByPlace(us) = [k \in 1 .. n |-> us[q[k]]]
    BY <1>1, <2>1, SortedOnce
  <2> QED BY <2>2
<1>6. rs = [k \in D |-> us[p[k]]]
  BY <1>5 DEF us
<1>7. rs \in Seq(R) /\ Len(rs) = n
  <2> HIDE DEF R
  <2>1. rs \in [D -> R]
    BY <1>4, <1>6
  <2> QED BY <1>1, <2>1
<1>8. \A k \in D : p[k] \in D /\ rs[k] = us[p[k]]
  BY <1>6
<1>9. ComeFrom(rs, es, spots, p)
  BY <1>1, <1>5, <1>8 DEF ComeFrom, us
<1>10. \A k \in 1 .. Len(rs) : rs[k].at >= 1 /\ rs[k].at - 1 + rs[k].len <= Len(t) /\ rs[k].at <= Len(t)
  BY <1>4, <1>7, <1>8
<1>11. Cuts(t, rs)
  BY <1>7, <1>10, ApartCuts DEF Text
<1> QED BY <1>7, <1>9, <1>10, <1>11

(* The edits of an accepted call are made within the text they are looked  *)
(* up in.                                                                  *)
LEMMA MadeWithin ==
    ASSUME NEW c \in Text, NEW es \in Seq(Change), NEW r, r = Edit!ApplyEdits(c, es), r.error = "none"
    PROVE  /\ MadeExactly(c, es, r) => Within(c, es, FoundAt(c, es))
           /\ MadeFuzzily(c, es, r) => /\ Edit!NormalizeForFuzzy(c) \in Text
                                       /\ Within(Edit!NormalizeForFuzzy(c), es, FoundAgain(c, es))
<1> DEFINE f == FoundAt(c, es)
           g == FoundAgain(c, es)
           base == Edit!NormalizeForFuzzy(c)
<1>1. \A i \in DOMAIN es : es[i].old \in Text /\ (es[i].old # <<>> => Len(es[i].old) >= 1)
  <2> SUFFICES ASSUME NEW i \in DOMAIN es PROVE es[i].old \in Text /\ (es[i].old # <<>> => Len(es[i].old) >= 1)
    OBVIOUS
  <2>1. es[i] \in Change
    BY ElementsIn
  <2>2. es[i].old \in Text
    BY <2>1 DEF Change
  <2> QED BY <2>2 DEF Text
<1>2. \A i \in DOMAIN es : es[i].old # <<>> /\ f[i].at # 0 /\ f[i] = Edit!FuzzyFindText(c, es[i].old)
  BY Outcomes DEF FoundAt
<1>3. base \in Seq(Normal)
  BY NormalizedFuzzy
<1>4. base \in Text
  <2>1. Normal \subseteq Edit!Chars
    BY DEF Normal
  <2> HIDE DEF base
  <2> QED BY <1>3, <2>1 DEF Text
<1>5. Len(Edit!NormalizeForFuzzy(base)) <= Len(base)
  BY <1>3, NormalizedTwice
<1>6. Len(base) \in Nat /\ Len(Edit!NormalizeForFuzzy(base)) \in Nat /\ (base # <<>> => Len(base) >= 1)
  <2>1. Edit!NormalizeForFuzzy(base) \in Seq(Normal)
    BY <1>4, NormalizedFuzzy
  <2> HIDE DEF base
  <2> QED BY <1>3, <2>1
<1>7. ASSUME MadeExactly(c, es, r) PROVE Within(c, es, f)
  <2> SUFFICES ASSUME NEW i \in DOMAIN es
               PROVE  /\ f[i].at \in Nat /\ f[i].len \in Nat /\ f[i].at >= 1
                      /\ f[i].at - 1 + f[i].len <= Len(c) /\ f[i].at <= Len(c)
    BY DEF Within
  <2>1. ~f[i].fuzzy
    BY <1>7 DEF MadeExactly
  <2>2. es[i].old \in Text /\ f[i] = Edit!FuzzyFindText(c, es[i].old) /\ f[i].at # 0 /\ Len(es[i].old) >= 1
    BY <1>1, <1>2
  <2> HIDE DEF f
  <2>3. /\ f[i].at \in Nat /\ f[i].len \in Nat /\ f[i].at >= 1
        /\ f[i].len = Len(es[i].old) /\ f[i].at - 1 + f[i].len <= Len(c)
    BY <2>1, <2>2, Found
  <2>4. Len(c) \in Nat
    BY DEF Text
  <2> QED BY <2>2, <2>3, <2>4
<1>8. ASSUME MadeFuzzily(c, es, r) PROVE Within(base, es, g)
  <2> SUFFICES ASSUME NEW i \in DOMAIN es
               PROVE  /\ g[i].at \in Nat /\ g[i].len \in Nat /\ g[i].at >= 1
                      /\ g[i].at - 1 + g[i].len <= Len(base) /\ g[i].at <= Len(base)
    BY DEF Within
  <2>1. g[i].at # 0 /\ base # <<>>
    BY <1>8 DEF MadeFuzzily
  <2>2. g[i] = IF f[i].fuzzy THEN f[i] ELSE Edit!FuzzyFindText(base, es[i].old)
    BY DEF FoundAgain
  <2>3. es[i].old \in Text /\ f[i] = Edit!FuzzyFindText(c, es[i].old) /\ f[i].at # 0
    BY <1>1, <1>2
  <2> HIDE DEF f, g
  <2>4. /\ g[i].at \in Nat /\ g[i].len \in Nat /\ g[i].at >= 1
        /\ g[i].len = 0 => g[i].at = 1
        /\ g[i].at - 1 + g[i].len <= Len(base)
    <3>1. CASE f[i].fuzzy
      <4>1. g[i] = f[i]
        BY <2>2, <3>1
      <4>2. /\ f[i].at \in Nat /\ f[i].len \in Nat /\ f[i].at >= 1
            /\ f[i].len = 0 => f[i].at = 1
            /\ f[i].at - 1 + f[i].len <= Len(base)
        BY <2>3, <3>1, Found
      <4> QED BY <4>1, <4>2
    <3>2. CASE ~f[i].fuzzy
      <4>1. g[i] = Edit!FuzzyFindText(base, es[i].old)
        BY <2>2, <3>2
      <4> HIDE DEF base
      <4>2. /\ g[i].at \in Nat /\ g[i].len \in Nat /\ g[i].at >= 1 /\ g[i].fuzzy \in BOOLEAN
            /\ g[i].len = 0 => g[i].at = 1
            /\ ~g[i].fuzzy => g[i].at - 1 + g[i].len <= Len(base)
            /\ g[i].fuzzy => g[i].at - 1 + g[i].len <= Len(Edit!NormalizeForFuzzy(base))
        BY <1>4, <2>1, <2>3, <4>1, Found
      <4>3. CASE g[i].fuzzy
        BY <1>5, <1>6, <4>2, <4>3
      <4>4. CASE ~g[i].fuzzy
        BY <4>2, <4>4
      <4> QED BY <4>3, <4>4
    <3> QED BY <3>1, <3>2
  <2> HIDE DEF base
  <2> QED BY <1>6, <2>1, <2>4
<1> QED BY <1>4, <1>7, <1>8

(* The edits in an order, and the place each is made at.                   *)
AtOnce(c, es, text, order, cut) ==
    LET e(k) == es[order[k]]
        end(k) == IF k = 0 THEN 0 ELSE cut[k] + Len(e(k).old)
        kept(k) == SubSeq(c, end(k) + 1, IF k = Len(es) THEN Len(c) ELSE cut[k + 1])
    IN /\ \A k \in DOMAIN es : cut[k] + 1 \in Edit!Places(c, e(k).old)
       /\ \A k \in 0 .. Len(es) - 1 : end(k) <= cut[k + 1]
       /\ text = Edit!FlattenSeq([k \in DOMAIN es |-> kept(k - 1) \o e(k).new]) \o kept(Len(es))

(* Exact edits, in the order of their places, splice the text.             *)
LEMMA MadeAtOnce ==
    ASSUME NEW c \in Text, NEW es \in Seq(Change), NEW r, r = Edit!ApplyEdits(c, es), r.error = "none",
           \A i \in DOMAIN es : Edit!Places(c, es[i].old) # {}
    PROVE  \E order \in [DOMAIN es -> DOMAIN es], cut \in [DOMAIN es -> 0 .. Len(c)] :
              /\ Edit!IsInjective(order)
              /\ AtOnce(c, es, r.text, order, cut)
<1> DEFINE n == Len(es)
           D == 1 .. n
           f == FoundAt(c, es)
           rs == r.places
           cut == [k \in D |-> rs[k].at - 1]
<1>1. n \in Nat /\ DOMAIN es = D /\ Len(c) \in Nat
  BY DEF Text
<1>2. \A i \in D : es[i].old \in Text
  <2>1. \A i \in D : es[i] \in Change
    <3> HIDE DEF D
    <3> QED BY <1>1, ElementsIn
  <2> QED BY <2>1 DEF Change
<1>3. \A i \in D : f[i] = Edit!FuzzyFindText(c, es[i].old)
  BY <1>1 DEF FoundAt
<1>4. \A i \in D : f[i].at # 0
  BY <1>1, Outcomes
<1> HIDE DEF f
<1>5. ASSUME NEW i \in D
      PROVE  /\ ~f[i].fuzzy /\ f[i].len = Len(es[i].old)
             /\ f[i].at \in Edit!Places(c, es[i].old)
  <2>1. es[i].old \in Text /\ f[i] = Edit!FuzzyFindText(c, es[i].old) /\ f[i].at # 0
        /\ Edit!Places(c, es[i].old) # {}
    BY <1>1, <1>2, <1>3, <1>4
  <2>2. /\ Edit!Places(c, es[i].old) # {} => ~f[i].fuzzy
        /\ ~f[i].fuzzy => f[i].at = Min(Edit!Places(c, es[i].old)) /\ f[i].len = Len(es[i].old)
    BY <2>1, Found
  <2>3. Min(Edit!Places(c, es[i].old)) \in Edit!Places(c, es[i].old)
    BY <2>1, FirstPlace
  <2> QED BY <2>1, <2>2, <2>3
<1>6. MadeExactly(c, es, r)
  <2>1. MadeExactly(c, es, r) \/ MadeFuzzily(c, es, r)
    BY Outcomes
  <2>2. \A i \in DOMAIN es : ~FoundAt(c, es)[i].fuzzy
    BY <1>1, <1>5 DEF f
  <2> QED BY <2>1, <2>2 DEF MadeFuzzily
<1>7. Within(c, es, f)
  BY <1>6, MadeWithin DEF f
<1>8. rs = Edit!ByPlace(Asked(es, f)) /\ Apart(rs) /\ r.text = Edit!ApplyReplacements(c, rs)
  BY <1>6 DEF MadeExactly, f
<1> HIDE DEF rs
<1>9. /\ rs \in Seq(Replacements(Edit!Chars)) /\ Len(rs) = n
      /\ Cuts(c, rs)
      /\ \A k \in 1 .. Len(rs) : rs[k].at <= Len(c)
      /\ \E p : ComeFrom(rs, es, f, p)
  BY <1>7, <1>8, SortedCuts
<1>10. PICK p : ComeFrom(rs, es, f, p)
  BY <1>9
<1>11. r.text = Spliced(c, rs)
  BY <1>8, <1>9, Splices DEF Text
<1>12. /\ \A i \in D : rs[i].at \in Nat /\ rs[i].at >= 1 /\ rs[i].at - 1 \in 0 .. Len(c)
       /\ \A i \in D : Ends(rs, i - 1) <= rs[i].at - 1
  <2>1. /\ \A i \in 1 .. Len(rs) : /\ rs[i].at \in Nat /\ rs[i].at >= 1
                                   /\ Ends(rs, i - 1) <= rs[i].at - 1
    BY <1>9, CutFacts DEF Text
  <2> QED BY <1>1, <1>9, <2>1
<1>13. /\ p \in [D -> D] /\ \A i, j \in D : p[i] = p[j] => i = j
       /\ \A k \in D : p[k] \in D /\ rs[k] = Asked(es, f)[p[k]]
  BY <1>1, <1>10 DEF ComeFrom
<1>14. ASSUME NEW k \in D
       PROVE  /\ rs[k].at = f[p[k]].at /\ rs[k].len = Len(es[p[k]].old) /\ rs[k].new = es[p[k]].new
              /\ rs[k].at \in Edit!Places(c, es[p[k]].old)
  <2>1. p[k] \in D /\ rs[k] = [at |-> f[p[k]].at, len |-> f[p[k]].len, new |-> es[p[k]].new]
    BY <1>1, <1>13 DEF Asked
  <2> QED BY <1>5, <2>1
<1>15. cut \in [D -> 0 .. Len(c)] /\ \A k \in D : cut[k] = rs[k].at - 1 /\ cut[k] + 1 = rs[k].at
  BY <1>12
<1> HIDE DEF cut
<1> DEFINE e(k) == es[p[k]]
           end(k) == IF k = 0 THEN 0 ELSE cut[k] + Len(e(k).old)
           kept(k) == SubSeq(c, end(k) + 1, IF k = Len(es) THEN Len(c) ELSE cut[k + 1])
<1>16. \A k \in 0 .. n : end(k) = Ends(rs, k)
  <2> SUFFICES ASSUME NEW k \in 0 .. n PROVE end(k) = Ends(rs, k)
    OBVIOUS
  <2>1. CASE k = 0
    BY <2>1 DEF Ends
  <2>2. CASE k \in D
    <3>1. k # 0 /\ cut[k] = rs[k].at - 1 /\ rs[k].len = Len(e(k).old)
      BY <1>1, <1>14, <1>15, <2>2
    <3> QED BY <3>1 DEF Ends
  <2> QED BY <1>1, <2>1, <2>2
<1> HIDE DEF end
<1>17. \A k \in D : kept(k - 1) = SubSeq(c, Ends(rs, k - 1) + 1, rs[k].at - 1)
  <2> SUFFICES ASSUME NEW k \in D PROVE kept(k - 1) = SubSeq(c, Ends(rs, k - 1) + 1, rs[k].at - 1)
    OBVIOUS
  <2>1. k - 1 \in 0 .. n /\ k - 1 # Len(es) /\ (k - 1) + 1 = k
    BY <1>1
  <2>2. end(k - 1) = Ends(rs, k - 1) /\ cut[(k - 1) + 1] = rs[k].at - 1
    BY <1>15, <1>16, <2>1
  <2> QED BY <2>1, <2>2
<1>18. kept(Len(es)) = SubSeq(c, Ends(rs, Len(rs)) + 1, Len(c))
  <2>1. n \in 0 .. n
    BY <1>1
  <2>2. end(n) = Ends(rs, n)
    BY <1>16, <2>1
  <2> QED BY <1>9, <2>2
<1> HIDE DEF kept
<1>19. r.text = Edit!FlattenSeq([k \in DOMAIN es |-> kept(k - 1) \o e(k).new]) \o kept(Len(es))
  <2>1. \A k \in D : kept(k - 1) \o e(k).new = SubSeq(c, Ends(rs, k - 1) + 1, rs[k].at - 1) \o rs[k].new
    BY <1>14, <1>17
  <2>2. [k \in DOMAIN es |-> kept(k - 1) \o e(k).new]
          = [k \in 1 .. Len(rs) |-> SubSeq(c, Ends(rs, k - 1) + 1, rs[k].at - 1) \o rs[k].new]
    BY <1>1, <1>9, <2>1
  <2>3. Edit!FlattenSeq([k \in DOMAIN es |-> kept(k - 1) \o e(k).new]) = FlattenSeq(Pieces(c, rs))
    BY <2>2, LibraryOfEdit DEF Pieces
  <2> QED BY <1>11, <1>18, <2>3 DEF Spliced
<1>20. \A k \in DOMAIN es : cut[k] + 1 \in Edit!Places(c, e(k).old)
  BY <1>1, <1>14, <1>15
<1>21. \A k \in 0 .. Len(es) - 1 : end(k) <= cut[k + 1]
  <2> SUFFICES ASSUME NEW k \in 0 .. Len(es) - 1 PROVE end(k) <= cut[k + 1]
    OBVIOUS
  <2>1. k \in 0 .. n /\ k + 1 \in D /\ (k + 1) - 1 = k
    BY <1>1
  <2>2. end(k) = Ends(rs, k) /\ cut[k + 1] = rs[k + 1].at - 1
    BY <1>15, <1>16, <2>1
  <2>3. Ends(rs, (k + 1) - 1) <= rs[k + 1].at - 1
    BY <1>12, <2>1
  <2> QED BY <2>1, <2>2, <2>3
<1>22. AtOnce(c, es, r.text, p, cut)
  BY <1>19, <1>20, <1>21, Zenon DEF AtOnce, kept, end
<1>23. Edit!IsInjective(p)
  BY <1>13 DEF Edit!IsInjective
<1> QED BY <1>1, <1>13, <1>15, <1>22, <1>23

-----------------------------------------------------------------------------
(* The state of an edit.                                                   *)

EditInv ==
    /\ raw \in Text
    /\ edits \in Seq(Change)
    /\ outcome # NoOutcome => outcome.applied = Edit!ApplyEdits(Edit!Content, edits)

(* It holds of a call as it comes in.                                      *)
LEMMA EditStarts == Init => EditInv
<1> SUFFICES ASSUME Init PROVE EditInv
  OBVIOUS
<1>1. CASE tool = "edit"
  <2>1. outcome = NoOutcome /\ \E c \in Calls : raw = c.text /\ edits = c.edits
    BY <1>1 DEF Init, Edit!Init
  <2>2. \A c \in Calls : c.text \in Text /\ c.edits \in Seq(Change)
    BY ToolsAssumption DEF Edit!EditAssumption, Change, Text
  <2> QED BY <2>1, <2>2 DEF EditInv
<1>2. CASE tool # "edit"
  <2>1. outcome = NoOutcome /\ raw = <<>> /\ edits = <<>>
    BY <1>2 DEF Init
  <2> QED BY <2>1 DEF EditInv, Text
<1> QED BY <1>1, <1>2

(* And of what the tool makes of it.                                       *)
LEMMA EditStep == EditInv /\ [Next]_vars => EditInv'
<1> SUFFICES ASSUME EditInv, [Next]_vars PROVE EditInv'
  OBVIOUS
<1>1. CASE Edit!Next
  <2>1. UNCHANGED <<raw, edits>> /\ outcome'.applied = Edit!ApplyEdits(Edit!Content, edits)
    BY <1>1 DEF Edit!Next, Edit!Accept, Edit!Reject
  <2>2. Edit!Content' = Edit!Content
    BY <2>1 DEF Edit!Content
  <2> QED BY <2>1, <2>2 DEF EditInv
<1>2. CASE UNCHANGED editVars
  BY <1>2 DEF editVars, EditInv, Edit!Content
<1> QED BY <1>1, <1>2 DEF Next, ExecuteBash, ExecuteEdit, ExecuteRead, ExecuteWrite, RefuseUnknown, vars

(* Edits found exactly replace their texts all at once, in the text as it  *)
(* was before any of them (apply_edits and apply_replacements of           *)
(* tools/edit_diff.rs).                                                    *)
THEOREM EditsMadeAtOnce == Spec => []EditsAtOnce
<1>1. EditInv => EditsAtOnce
  <2> SUFFICES ASSUME EditInv, Edit!Accepted, Edit!Exact PROVE EditsAtOnce
    BY DEF EditsAtOnce, Edit!EditsAtOnce
  <2> DEFINE c == Edit!Content
             r == outcome.applied
  <2>1. c \in Text
    BY ContentTyped DEF EditInv, Edit!Content
  <2>2. edits \in Seq(Change) /\ r = Edit!ApplyEdits(c, edits) /\ r.error = "none"
    BY DEF EditInv, Edit!Accepted
  <2>3. \A i \in DOMAIN edits : Edit!Places(c, edits[i].old) # {}
    BY DEF Edit!Exact
  <2> HIDE DEF c, r
  <2>4. PICK order \in [DOMAIN edits -> DOMAIN edits], cut \in [DOMAIN edits -> 0 .. Len(c)] :
              /\ Edit!IsInjective(order)
              /\ AtOnce(c, edits, r.text, order, cut)
    BY <2>1, <2>2, <2>3, MadeAtOnce
  <2>5. order \in {p \in [DOMAIN edits -> DOMAIN edits] : Edit!IsInjective(p)}
    BY <2>4
  <2> QED BY <2>4, <2>5, Zenon DEF EditsAtOnce, Edit!EditsAtOnce, AtOnce, c, r
<1> QED BY <1>1, EditStarts, EditStep, PTL DEF Spec

-----------------------------------------------------------------------------
(* What stands in a text.                                                  *)

Begins(s, t) == \E y \in Text : t = s \o y
Finishes(s, t) == \E x \in Text : t = x \o s
Holds(s, t) == \E x, y \in Text : t = (x \o s) \o y

(* What stands in a text stands in the longer ones.                        *)
LEMMA StillThere ==
    ASSUME NEW s \in Text, NEW t \in Text, NEW u \in Text
    PROVE  /\ t \o u \in Text
           /\ Begins(s, t) => Begins(s, t \o u)
           /\ Finishes(s, t) => Finishes(s, u \o t)
           /\ Holds(s, t) => Holds(s, t \o u) /\ Holds(s, u \o t)
           /\ Begins(t, t) /\ Finishes(t, t) /\ Holds(t, t)
<1> DEFINE C == Edit!Chars
<1>0. Text = Seq(C)
  BY DEF Text
<1> HIDE DEF C
<1>1. ASSUME NEW p \in Seq(C), NEW q \in Seq(C) PROVE p \o q \in Seq(C)
  OBVIOUS
<1>2. ASSUME NEW y \in Text, t = s \o y PROVE t \o u = s \o (y \o u) /\ y \o u \in Text
  BY <1>0, <1>1, <1>2, ConcatAssociative
<1>3. ASSUME NEW x \in Text, t = x \o s PROVE u \o t = (u \o x) \o s /\ u \o x \in Text
  BY <1>0, <1>1, <1>3, ConcatAssociative
<1>4. ASSUME NEW x \in Text, NEW y \in Text, t = (x \o s) \o y
      PROVE  Holds(s, t \o u) /\ Holds(s, u \o t)
  <2>1. x \o s \in Text /\ y \o u \in Text /\ u \o x \in Text
    BY <1>0, <1>1
  <2> DEFINE p == x \o s
  <2>2. p \in Seq(C) /\ t = p \o y
    BY <1>0, <1>4, <2>1
  <2>3. u \o p = (u \o x) \o s
    <3>1. (u \o x) \o s = u \o (x \o s)
      BY <1>0, ConcatAssociative
    <3> QED BY <3>1
  <2> HIDE DEF p
  <2>4. (p \o y) \o u = p \o (y \o u)
    BY <1>0, <2>2, ConcatAssociative
  <2>5. (u \o p) \o y = u \o (p \o y)
    BY <1>0, <2>2, ConcatAssociative
  <2>6. t \o u = (x \o s) \o (y \o u)
    BY <2>2, <2>4 DEF p
  <2>7. u \o t = ((u \o x) \o s) \o y
    BY <2>2, <2>3, <2>5
  <2>8. Holds(s, t \o u)
    BY <2>1, <2>6 DEF Holds
  <2>9. Holds(s, u \o t)
    BY <2>1, <2>7 DEF Holds
  <2> QED BY <2>8, <2>9
<1>5. <<>> \in Text /\ t \o <<>> = t /\ <<>> \o t = t /\ (<<>> \o t) \o <<>> = t
  BY <1>0, ConcatEmptySeq
<1>6. Begins(s, t) => Begins(s, t \o u)
  BY <1>2 DEF Begins
<1>7. Finishes(s, t) => Finishes(s, u \o t)
  BY <1>3 DEF Finishes
<1>8. Holds(s, t) => Holds(s, t \o u) /\ Holds(s, u \o t)
  BY <1>4 DEF Holds
<1>9. Begins(t, t) /\ Finishes(t, t)
  BY <1>5 DEF Begins, Finishes
<1>10. Holds(t, t)
  BY <1>5 DEF Holds
<1>11. t \o u \in Text
  BY <1>0, <1>1
<1> QED BY <1>6, <1>7, <1>8, <1>9, <1>10, <1>11

(* A part of a part of a text.                                             *)
LEMMA PartOfPart ==
    ASSUME NEW t \in Text, NEW a \in Nat, NEW b \in Nat, NEW c \in Nat, NEW d \in Nat,
           a <= b, b <= c, c <= d, d <= Len(t)
    PROVE  /\ SubSeq(t, a + 1, d) = (SubSeq(t, a + 1, b) \o SubSeq(t, b + 1, c)) \o SubSeq(t, c + 1, d)
           /\ Holds(SubSeq(t, b + 1, c), SubSeq(t, a + 1, d))
           /\ a = b => Begins(SubSeq(t, b + 1, c), SubSeq(t, a + 1, d))
           /\ c = d => Finishes(SubSeq(t, b + 1, c), SubSeq(t, a + 1, d))
<1> DEFINE C == Edit!Chars
           x == SubSeq(t, a + 1, b)
           s == SubSeq(t, b + 1, c)
           y == SubSeq(t, c + 1, d)
           w == SubSeq(t, a + 1, d)
<1>0. Text = Seq(C) /\ Len(t) \in Nat
  BY DEF Text
<1> HIDE DEF C
<1>1. x \in Text /\ s \in Text /\ y \in Text
  BY <1>0, PartFacts
<1>2. x \o s = SubSeq(t, a + 1, c)
  <2>1. a + 1 \in 1 .. Len(t) + 1 /\ b \in (a + 1) - 1 .. Len(t) /\ c \in b .. Len(t)
    BY <1>0
  <2> QED BY <1>0, <2>1, ConcatAdjacentSubSeq
<1>3. SubSeq(t, a + 1, c) \o y = w
  <2>1. a + 1 \in 1 .. Len(t) + 1 /\ c \in (a + 1) - 1 .. Len(t) /\ d \in c .. Len(t)
    BY <1>0
  <2> QED BY <1>0, <2>1, ConcatAdjacentSubSeq
<1>4. s \o y = SubSeq(t, b + 1, d)
  <2>1. b + 1 \in 1 .. Len(t) + 1 /\ c \in (b + 1) - 1 .. Len(t) /\ d \in c .. Len(t)
    BY <1>0
  <2> QED BY <1>0, <2>1, ConcatAdjacentSubSeq
<1> HIDE DEF x, s, y, w
<1>5. w = (x \o s) \o y
  BY <1>2, <1>3
<1>6. Holds(s, w)
  BY <1>1, <1>5 DEF Holds
<1>7. ASSUME a = b PROVE Begins(s, w)
  <2>1. w = s \o y
    BY <1>4, <1>7 DEF w
  <2> QED BY <1>1, <2>1 DEF Begins
<1>8. ASSUME c = d PROVE Finishes(s, w)
  <2>1. w = x \o s
    BY <1>2, <1>8 DEF w
  <2> QED BY <1>1, <2>1 DEF Finishes
<1> QED BY <1>5, <1>6, <1>7, <1>8 DEF x, s, y, w

(* And what that says in the words of the property.                        *)
LEMMA BeginsIsPrefix ==
    ASSUME NEW s \in Text, NEW t \in Text, Begins(s, t)
    PROVE  Edit!IsPrefix(s, t)
<1> PICK y \in Text : t = s \o y
  BY DEF Begins
<1> DEFINE C == Edit!Chars
           n == Len(s)
<1>0. s \in Seq(C) /\ t \in Seq(C) /\ y \in Seq(C)
  BY DEF Text
<1> HIDE DEF C
<1>1. n \in Nat /\ Len(t) \in Nat /\ n <= Len(t) /\ \A i \in 1 .. n : t[i] = s[i]
  BY <1>0
<1>2. SubSeq(t, 0 + 1, n) = SubSeq(s, 0 + 1, n)
  BY <1>0, <1>1, SamePart
<1> QED BY <1>1, <1>2 DEF Edit!IsPrefix

(* Of a text that ends with another.                                       *)
LEMMA FinishesIsSuffix ==
    ASSUME NEW s \in Text, NEW t \in Text, Finishes(s, t)
    PROVE  Edit!IsSuffix(s, t)
<1> PICK x \in Text : t = x \o s
  BY DEF Finishes
<1> DEFINE C == Edit!Chars
           n == Len(s)
           m == Len(t)
           rs == Edit!Reverse(s)
           rt == Edit!Reverse(t)
<1>0. s \in Seq(C) /\ t \in Seq(C) /\ x \in Seq(C)
  BY DEF Text
<1> HIDE DEF C
<1>1. n \in Nat /\ m \in Nat /\ Len(x) \in Nat /\ m = Len(x) + n
      /\ \A i \in 1 .. n : t[Len(x) + i] = s[i]
  BY <1>0
<1>2. /\ rs \in Seq(C) /\ Len(rs) = n /\ \A i \in 1 .. n : rs[i] = s[n + 1 - i]
      /\ rt \in Seq(C) /\ Len(rt) = m /\ \A i \in 1 .. m : rt[i] = t[m + 1 - i]
  BY <1>0, ReverseFacts
<1> HIDE DEF rs, rt
<1>3. ASSUME NEW i \in 1 .. n PROVE rt[i] = rs[i]
  <2>1. i \in 1 .. m /\ n + 1 - i \in 1 .. n /\ m + 1 - i = Len(x) + (n + 1 - i)
    BY <1>1
  <2> QED BY <1>1, <1>2, <2>1
<1>4. SubSeq(rt, 0 + 1, n) = SubSeq(rs, 0 + 1, n)
  BY <1>1, <1>2, <1>3, SamePart
<1>5. n <= m
  BY <1>1
<1> QED BY <1>2, <1>4, <1>5 DEF Edit!IsSuffix, Edit!IsPrefix, rs, rt

(* Of a text with another somewhere in it.                                 *)
LEMMA HeldHasPlace ==
    ASSUME NEW s \in Text, NEW t \in Text, Holds(s, t)
    PROVE  Edit!Places(t, s) # {}
<1> PICK x \in Text, y \in Text : t = (x \o s) \o y
  BY DEF Holds
<1> DEFINE C == Edit!Chars
           n == Len(s)
           a == Len(x)
           u == x \o s
           v == SubSeq(t, a + 1, a + n)
<1>0. s \in Seq(C) /\ t \in Seq(C) /\ x \in Seq(C) /\ y \in Seq(C)
  BY DEF Text
<1> HIDE DEF C
<1>1. u \in Seq(C) /\ Len(u) = a + n /\ a \in Nat /\ n \in Nat
      /\ \A i \in 1 .. a + n : u[i] = IF i <= a THEN x[i] ELSE s[i - a]
  BY <1>0, ConcatProperties
<1>2. Len(t) = a + n + Len(y) /\ Len(y) \in Nat /\ \A i \in 1 .. a + n : t[i] = u[i]
  <2> HIDE DEF u, a, n
  <2>1. t = u \o y
    BY DEF u
  <2>11. /\ Len(u \o y) = Len(u) + Len(y)
         /\ \A i \in 1 .. Len(u) + Len(y) : (u \o y)[i] = IF i <= Len(u) THEN u[i] ELSE y[i - Len(u)]
    BY <1>0, <1>1, ConcatProperties
  <2>12. Len(y) \in Nat
    BY <1>0
  <2>2. /\ Len(t) = Len(u) + Len(y) /\ Len(y) \in Nat
        /\ \A i \in 1 .. Len(u) + Len(y) : t[i] = IF i <= Len(u) THEN u[i] ELSE y[i - Len(u)]
    BY <2>1, <2>11, <2>12
  <2>3. \A i \in 1 .. a + n : i \in 1 .. Len(u) + Len(y) /\ i <= Len(u)
    BY <1>1, <2>2
  <2> QED BY <1>1, <2>2, <2>3
<1> HIDE DEF u
<1>3. v \in Seq(C) /\ Len(v) = n /\ \A i \in 1 .. n : v[i] = t[a + i]
  <2>1. a + n \in Nat /\ a + n <= Len(t) /\ (a + n) - a = n /\ a <= a + n
    BY <1>1, <1>2
  <2>2. /\ v \in Seq(C) /\ Len(v) = (IF a <= a + n THEN (a + n) - a ELSE 0)
        /\ \A i \in 1 .. (a + n) - a : v[i] = t[a + i]
    BY <1>0, <1>1, <2>1, PartFacts
  <2> QED BY <2>1, <2>2
<1> HIDE DEF v
<1>4. \A i \in 1 .. n : a + i \in 1 .. a + n /\ ~(a + i <= a) /\ (a + i) - a = i
  BY <1>1
<1>5. \A i \in 1 .. n : v[i] = s[i]
  BY <1>1, <1>2, <1>3, <1>4
<1>6. v = s
  BY <1>0, <1>3, <1>5, SeqEqual
<1>7. a + 1 \in 1 .. Len(t) + 1 - Len(s) /\ (a + 1) + Len(s) - 1 = a + n
  BY <1>1, <1>2
<1>8. SubSeq(t, a + 1, (a + 1) + Len(s) - 1) = s
  BY <1>6, <1>7 DEF v
<1> QED BY <1>7, <1>8 DEF Edit!Places

(* Nothing at all is everywhere.                                           *)
LEMMA EmptyHeld ==
    ASSUME NEW t \in Text
    PROVE  <<>> \in Text /\ Holds(<<>>, t)
<1> DEFINE C == Edit!Chars
<1>0. Text = Seq(C)
  BY DEF Text
<1> HIDE DEF C
<1>1. <<>> \in Text /\ (<<>> \o <<>>) \o t = t
  BY <1>0, ConcatEmptySeq
<1> QED BY <1>1 DEF Holds

-----------------------------------------------------------------------------
(* The lines of a text.                                                    *)

NewlinesBefore(t, i) == {j \in Edit!Newlines(t) : j < i}

(* The number of a line only grows, and by one at most.                    *)
LEMMA LineNumbers ==
    ASSUME NEW t \in Text
    PROVE  /\ \A i \in Nat : Edit!LineOf(t, i) \in Nat /\ Edit!LineOf(t, i) >= 1
           /\ \A i, j \in Nat : i <= j => Edit!LineOf(t, i) <= Edit!LineOf(t, j)
           /\ \A i \in Nat : Edit!LineOf(t, i + 1) <= Edit!LineOf(t, i) + 1
           /\ Edit!LineOf(t, 1) = 1
<1> DEFINE B(i) == NewlinesBefore(t, i)
<1>0. Len(t) \in Nat /\ DOMAIN t = 1 .. Len(t)
  BY DEF Text
<1>1. \A i \in Nat : Edit!LineOf(t, i) = 1 + Cardinality(B(i))
  BY LibraryOfEdit DEF Edit!LineOf, NewlinesBefore
<1>2. \A i \in Nat : B(i) \in SUBSET (1 .. Len(t))
  BY <1>0 DEF NewlinesBefore, Edit!Newlines
<1>3. IsFiniteSet(1 .. Len(t))
  BY <1>0, FS_Interval
<1>4. ASSUME NEW i \in Nat PROVE IsFiniteSet(B(i)) /\ Cardinality(B(i)) \in Nat
  <2>1. IsFiniteSet(B(i))
    BY <1>2, <1>3, FS_Subset
  <2> QED BY <2>1, FS_CardinalityType
<1>5. ASSUME NEW i \in Nat, NEW j \in Nat, i <= j PROVE Cardinality(B(i)) <= Cardinality(B(j))
  <2>1. \A k \in Edit!Newlines(t) : k \in Nat
    BY <1>0 DEF Edit!Newlines
  <2>2. B(i) \in SUBSET B(j)
    BY <1>5, <2>1 DEF NewlinesBefore
  <2> QED BY <1>4, <2>2, FS_Subset
<1>6. ASSUME NEW i \in Nat PROVE Cardinality(B(i + 1)) <= Cardinality(B(i)) + 1
  <2>1. \A k \in Edit!Newlines(t) : k \in Nat
    BY <1>0 DEF Edit!Newlines
  <2>2. B(i + 1) \in SUBSET (B(i) \cup {i})
    BY <2>1 DEF NewlinesBefore
  <2>3. IsFiniteSet(B(i) \cup {i}) /\ Cardinality(B(i) \cup {i}) <= Cardinality(B(i)) + 1
    <3>1. /\ IsFiniteSet(B(i) \cup {i})
          /\ Cardinality(B(i) \cup {i}) = IF i \in B(i) THEN Cardinality(B(i)) ELSE Cardinality(B(i)) + 1
      BY <1>4, FS_AddElement
    <3> QED BY <1>4, <3>1
  <2>4. Cardinality(B(i + 1)) <= Cardinality(B(i) \cup {i})
    BY <2>2, <2>3, FS_Subset
  <2>5. Cardinality(B(i) \cup {i}) \in Nat
    BY <2>3, FS_CardinalityType
  <2>6. Cardinality(B(i + 1)) \in Nat /\ Cardinality(B(i)) \in Nat
    BY <1>4
  <2> QED BY <2>3, <2>4, <2>5, <2>6
<1>7. Cardinality(B(1)) = 0
  <2>1. B(1) = {}
    BY <1>0 DEF NewlinesBefore, Edit!Newlines
  <2> QED BY <2>1, FS_EmptySet
<1> HIDE DEF B
<1>8. ASSUME NEW i \in Nat PROVE Edit!LineOf(t, i) \in Nat /\ Edit!LineOf(t, i) >= 1
  BY <1>1, <1>4
<1>9. ASSUME NEW i \in Nat, NEW j \in Nat, i <= j PROVE Edit!LineOf(t, i) <= Edit!LineOf(t, j)
  BY <1>1, <1>4, <1>5, <1>9
<1>10. ASSUME NEW i \in Nat PROVE Edit!LineOf(t, i + 1) <= Edit!LineOf(t, i) + 1
  <2>1. i + 1 \in Nat
    OBVIOUS
  <2>2. Edit!LineOf(t, i + 1) = 1 + Cardinality(B(i + 1)) /\ Edit!LineOf(t, i) = 1 + Cardinality(B(i))
    BY <1>1, <2>1
  <2>3. Cardinality(B(i + 1)) \in Nat /\ Cardinality(B(i)) \in Nat
    BY <1>4, <2>1
  <2> QED BY <1>6, <2>2, <2>3
<1>11. Edit!LineOf(t, 1) = 1
  BY <1>1, <1>7
<1> QED BY <1>8, <1>9, <1>10, <1>11

(* No number of a line is left out.                                        *)
LEMMA NoLineLeftOut ==
    ASSUME NEW t \in Text, NEW i \in Nat, i >= 1, NEW n \in Nat, n >= 1, n <= Edit!LineOf(t, i)
    PROVE  \E j \in 1 .. i : Edit!LineOf(t, j) = n
<1> DEFINE T == {m \in Nat : n <= Edit!LineOf(t, m + 1) => \E j \in 1 .. m + 1 : Edit!LineOf(t, j) = n}
<1>1. 0 \in T
  <2> SUFFICES ASSUME n <= Edit!LineOf(t, 0 + 1) PROVE \E j \in 1 .. 0 + 1 : Edit!LineOf(t, j) = n
    OBVIOUS
  <2>1. Edit!LineOf(t, 1) = 1 /\ n = 1
    BY LineNumbers
  <2> QED BY <2>1
<1>2. ASSUME NEW m \in T PROVE m + 1 \in T
  <2>0. m \in Nat /\ m + 1 \in Nat
    OBVIOUS
  <2> SUFFICES ASSUME n <= Edit!LineOf(t, (m + 1) + 1) PROVE \E j \in 1 .. (m + 1) + 1 : Edit!LineOf(t, j) = n
    BY <2>0
  <2>1. CASE n <= Edit!LineOf(t, m + 1)
    <3>1. \E j \in 1 .. m + 1 : Edit!LineOf(t, j) = n
      BY <2>1
    <3>2. \A j \in 1 .. m + 1 : j \in 1 .. (m + 1) + 1
      BY <2>0
    <3> QED BY <3>1, <3>2
  <2>2. CASE ~(n <= Edit!LineOf(t, m + 1))
    <3>1. /\ Edit!LineOf(t, (m + 1) + 1) <= Edit!LineOf(t, m + 1) + 1
          /\ Edit!LineOf(t, m + 1) \in Nat /\ Edit!LineOf(t, (m + 1) + 1) \in Nat
      BY <2>0, LineNumbers
    <3>2. Edit!LineOf(t, (m + 1) + 1) = n /\ (m + 1) + 1 \in 1 .. (m + 1) + 1
      BY <2>0, <2>2, <3>1
    <3> QED BY <3>2
  <2> QED BY <2>1, <2>2
<1>3. T \in SUBSET Nat
  OBVIOUS
<1> HIDE DEF T
<1>4. i - 1 \in T /\ (i - 1) + 1 = i
  <2>1. T = Nat
    BY <1>1, <1>2, <1>3, SetInduction
  <2> QED BY <2>1
<1>5. n <= Edit!LineOf(t, (i - 1) + 1) => \E j \in 1 .. (i - 1) + 1 : Edit!LineOf(t, j) = n
  BY <1>4 DEF T
<1> QED BY <1>4, <1>5

(* Where a line begins: there, and nowhere before.                         *)
LEMMA LineStarts ==
    ASSUME NEW t \in Text
    PROVE  /\ \A n \in Nat : Edit!LineStart(t, n) \in 1 .. Len(t) + 1
           /\ \A n \in Nat : Edit!LineStart(t, n) = Len(t) + 1 \/ Edit!LineOf(t, Edit!LineStart(t, n)) = n
           /\ \A n \in Nat, i \in 1 .. Len(t) : Edit!LineOf(t, i) = n => Edit!LineStart(t, n) <= i
           /\ \A n \in Nat, i \in 0 .. Len(t) : Edit!LineOf(t, i) < n => i < Edit!LineStart(t, n)
<1> DEFINE W(n) == {i \in DOMAIN t : Edit!LineOf(t, i) = n} \cup {Len(t) + 1}
<1>0. Len(t) \in Nat /\ DOMAIN t = 1 .. Len(t)
  BY DEF Text
<1>1. ASSUME NEW n \in Nat
      PROVE  /\ Edit!LineStart(t, n) \in W(n)
             /\ \A y \in W(n) : Edit!LineStart(t, n) <= y
  <2>1. Edit!LineStart(t, n) = Min(W(n))
    BY LibraryOfEdit, Zenon DEF Edit!LineStart
  <2>2. W(n) \in SUBSET Nat /\ W(n) # {}
    BY <1>0
  <2> HIDE DEF W
  <2> QED BY <2>1, <2>2, MinIs
<1>2. ASSUME NEW n \in Nat
      PROVE  /\ Edit!LineStart(t, n) \in 1 .. Len(t) + 1
             /\ Edit!LineStart(t, n) = Len(t) + 1 \/ Edit!LineOf(t, Edit!LineStart(t, n)) = n
  <2>1. Edit!LineStart(t, n) \in W(n)
    BY <1>1
  <2> DEFINE s == Edit!LineStart(t, n)
  <2> HIDE DEF s
  <2>2. s \in W(n)
    BY <2>1 DEF s
  <2>3. s \in 1 .. Len(t) + 1 /\ (s = Len(t) + 1 \/ Edit!LineOf(t, s) = n)
    BY <1>0, <2>2
  <2> QED BY <2>3 DEF s
<1>3. ASSUME NEW n \in Nat, NEW i \in 1 .. Len(t), Edit!LineOf(t, i) = n
      PROVE  Edit!LineStart(t, n) <= i
  <2>1. i \in W(n)
    BY <1>0, <1>3
  <2> HIDE DEF W
  <2> QED BY <1>1, <2>1
<1>4. ASSUME NEW n \in Nat, NEW i \in 0 .. Len(t), Edit!LineOf(t, i) < n
      PROVE  i < Edit!LineStart(t, n)
  <2> DEFINE s == Edit!LineStart(t, n)
  <2>1. s \in 1 .. Len(t) + 1 /\ (s = Len(t) + 1 \/ Edit!LineOf(t, s) = n)
    BY <1>2
  <2> HIDE DEF s
  <2>2. i \in Nat /\ s \in Nat
    BY <1>0, <2>1
  <2>3. CASE s = Len(t) + 1
    BY <1>0, <2>3 DEF s
  <2>4. CASE Edit!LineOf(t, s) = n
    <3>1. s <= i => Edit!LineOf(t, s) <= Edit!LineOf(t, i)
      BY <2>2, LineNumbers
    <3>2. Edit!LineOf(t, i) \in Nat
      BY <2>2, LineNumbers
    <3>3. ~(s <= i)
      BY <1>4, <2>4, <3>1, <3>2
    <3> QED BY <2>2, <3>3 DEF s
  <2> QED BY <2>1, <2>3, <2>4
<1> HIDE DEF W
<1> QED BY <1>2, <1>3, <1>4

(* The first line begins with the text, and none after the last begins at  *)
(* all.                                                                    *)
LEMMA FirstAndLast ==
    ASSUME NEW t \in Text
    PROVE  /\ Edit!LineStart(t, 1) = 1
           /\ Edit!LineCount(t) \in Nat /\ Edit!LineStart(t, Edit!LineCount(t) + 1) = Len(t) + 1
<1>0. Len(t) \in Nat /\ (t = <<>> <=> Len(t) = 0)
  BY DEF Text
<1>1. Edit!LineStart(t, 1) = 1
  <2>1. Edit!LineStart(t, 1) \in 1 .. Len(t) + 1
    BY LineStarts
  <2>2. CASE Len(t) = 0
    BY <2>1, <2>2
  <2>3. CASE Len(t) # 0
    <3>1. 1 \in 1 .. Len(t) /\ Edit!LineOf(t, 1) = 1
      BY <1>0, <2>3, LineNumbers
    <3>2. Edit!LineStart(t, 1) <= 1
      BY <3>1, LineStarts
    <3> QED BY <1>0, <2>1, <3>2
  <2> QED BY <2>2, <2>3
<1>2. Edit!LineCount(t) \in Nat /\ Edit!LineStart(t, Edit!LineCount(t) + 1) = Len(t) + 1
  <2>1. CASE Len(t) = 0
    <3>1. Edit!LineCount(t) = 0
      BY <1>0, <2>1 DEF Edit!LineCount
    <3>2. Edit!LineStart(t, 0 + 1) \in 1 .. Len(t) + 1
      BY LineStarts
    <3> QED BY <2>1, <3>1, <3>2
  <2>2. CASE Len(t) # 0
    <3> DEFINE m == Edit!LineOf(t, Len(t))
    <3>1. Edit!LineCount(t) = m
      BY <1>0, <2>2 DEF Edit!LineCount
    <3>2. m \in Nat
      BY <1>0, LineNumbers
    <3>3. Edit!LineOf(t, Len(t)) < m + 1 /\ Len(t) \in 0 .. Len(t) /\ m + 1 \in Nat
      BY <1>0, <3>2
    <3>4. Len(t) < Edit!LineStart(t, m + 1) /\ Edit!LineStart(t, m + 1) \in 1 .. Len(t) + 1
      <4> HIDE DEF m
      <4> QED BY <3>3, LineStarts
    <3>5. Edit!LineStart(t, m + 1) = Len(t) + 1
      <4> DEFINE s == Edit!LineStart(t, m + 1)
      <4> HIDE DEF s
      <4>1. Len(t) < s /\ s \in 1 .. Len(t) + 1
        BY <3>4 DEF s
      <4>2. s = Len(t) + 1
        BY <1>0, <4>1
      <4> QED BY <4>2 DEF s
    <3> QED BY <3>1, <3>2, <3>5
  <2> QED BY <2>1, <2>2
<1> QED BY <1>1, <1>2

(* Later lines do not begin earlier.                                       *)
LEMMA StartsInOrder ==
    ASSUME NEW t \in Text, NEW n \in Nat, NEW m \in Nat, n >= 1, n <= m
    PROVE  Edit!LineStart(t, n) <= Edit!LineStart(t, m)
<1> DEFINE s == Edit!LineStart(t, m)
           r == Edit!LineStart(t, n)
<1>0. Len(t) \in Nat
  BY DEF Text
<1>1. s \in 1 .. Len(t) + 1 /\ (s = Len(t) + 1 \/ Edit!LineOf(t, s) = m)
  BY LineStarts
<1>2. r \in 1 .. Len(t) + 1
  BY LineStarts
<1> HIDE DEF s
<1>3. CASE s = Len(t) + 1
  <2> HIDE DEF r
  <2>1. r <= s
    BY <1>0, <1>2, <1>3
  <2> QED BY <2>1 DEF r, s
<1>4. CASE s # Len(t) + 1
  <2>1. s \in 1 .. Len(t) /\ Edit!LineOf(t, s) = m /\ s \in Nat /\ s >= 1
    BY <1>0, <1>1, <1>4
  <2>2. PICK j \in 1 .. s : Edit!LineOf(t, j) = n
    BY <2>1, NoLineLeftOut
  <2>3. j \in 1 .. Len(t)
    BY <1>0, <2>1
  <2>4. r <= j
    BY <2>2, <2>3, LineStarts
  <2> HIDE DEF r
  <2>5. r <= s
    BY <1>2, <2>1, <2>2, <2>4
  <2> QED BY <2>5 DEF r, s
<1> QED BY <1>3, <1>4

(* What stands in a text that stands in another.                           *)
LEMMA ThereToo ==
    ASSUME NEW s \in Text, NEW t \in Text, NEW u \in Text
    PROVE  /\ Begins(s, t) /\ Begins(t, u) => Begins(s, u)
           /\ Finishes(s, t) /\ Finishes(t, u) => Finishes(s, u)
           /\ Holds(s, t) /\ Holds(t, u) => Holds(s, u)
<1>1. ASSUME Begins(s, t), Begins(t, u) PROVE Begins(s, u)
  <2> PICK y \in Text : u = t \o y
    BY <1>1 DEF Begins
  <2>1. Begins(s, t \o y)
    BY <1>1, StillThere
  <2> QED BY <2>1
<1>2. ASSUME Finishes(s, t), Finishes(t, u) PROVE Finishes(s, u)
  <2> PICK x \in Text : u = x \o t
    BY <1>2 DEF Finishes
  <2>1. Finishes(s, x \o t)
    BY <1>2, StillThere
  <2> QED BY <2>1
<1>3. ASSUME Holds(s, t), Holds(t, u) PROVE Holds(s, u)
  <2> PICK x \in Text, y \in Text : u = (x \o t) \o y
    BY <1>3 DEF Holds
  <2>1. Holds(s, x \o t) /\ x \o t \in Text
    BY <1>3, StillThere
  <2> DEFINE v == x \o t
  <2> HIDE DEF v
  <2>2. Holds(s, v \o y)
    BY <2>1, StillThere DEF v
  <2> QED BY <2>2 DEF v
<1> QED BY <1>1, <1>2, <1>3

(* Of texts put together the first one begins, and every one stands there. *)
LEMMA PiecesHeld ==
    ASSUME NEW ss \in Seq(Text)
    PROVE  /\ FlattenSeq(ss) \in Text
           /\ Len(ss) >= 1 => Begins(ss[1], FlattenSeq(ss))
           /\ \A i \in 1 .. Len(ss) : Holds(ss[i], FlattenSeq(ss))
<1> DEFINE Good(us) == /\ FlattenSeq(us) \in Text
                       /\ Len(us) >= 1 => Begins(us[1], FlattenSeq(us))
                       /\ \A i \in 1 .. Len(us) : Holds(us[i], FlattenSeq(us))
           T == {us \in Seq(Text) : Good(us)}
<1>1. /\ FlattenSeq(<<>>) = <<>>
      /\ \A us \in Seq(Text) : FlattenSeq(us) \in Text
      /\ \A us \in Seq(Text) : \A s \in Text : FlattenSeq(Append(us, s)) = FlattenSeq(us) \o s
  BY FlattenLaws DEF Text
<1>2. <<>> \in T
  <2> HIDE DEF Text
  <2>1. <<>> \in Seq(Text) /\ Len(<<>>) = 0
    OBVIOUS
  <2>2. FlattenSeq(<<>>) \in Text
    BY <1>1, <2>1
  <2>3. Good(<<>>)
    BY <2>1, <2>2
  <2> HIDE DEF Good
  <2> QED BY <2>1, <2>3
<1>3. ASSUME NEW us \in T, NEW s \in Text PROVE Append(us, s) \in T
  <2> DEFINE a == Append(us, s)
             f == FlattenSeq(us)
             g == FlattenSeq(a)
  <2>1. us \in Seq(Text) /\ Good(us)
    OBVIOUS
  <2> HIDE DEF Text, T, Good
  <2>2. /\ a \in Seq(Text) /\ Len(a) = Len(us) + 1 /\ Len(us) \in Nat
        /\ \A i \in 1 .. Len(us) : a[i] = us[i] /\ us[i] \in Text
        /\ a[Len(us) + 1] = s
    BY <2>1
  <2>3. g = f \o s /\ f \in Text /\ g \in Text
    BY <1>1, <2>1, <2>2
  <2> HIDE DEF a, f, g
  <2>4. Holds(s, g) /\ Finishes(s, g)
    <3>1. Holds(s, s) /\ Finishes(s, s)
      BY StillThere
    <3> QED BY <2>3, <3>1, StillThere
  <2>5. \A i \in 1 .. Len(a) : Holds(a[i], g)
    <3> SUFFICES ASSUME NEW i \in 1 .. Len(a) PROVE Holds(a[i], g)
      OBVIOUS
    <3>1. CASE i = Len(us) + 1
      BY <2>2, <2>4, <3>1
    <3>2. CASE i # Len(us) + 1
      <4>1. i \in 1 .. Len(us)
        BY <2>2, <3>2
      <4>2. Holds(us[i], f) /\ us[i] \in Text /\ a[i] = us[i]
        BY <2>1, <2>2, <4>1 DEF Good, f
      <4>3. Holds(us[i], f \o s)
        BY <2>3, <4>2, StillThere
      <4> QED BY <2>3, <4>2, <4>3
    <3> QED BY <3>1, <3>2
  <2>6. Begins(a[1], g)
    <3>1. CASE Len(us) = 0
      <4>1. f = <<>> /\ a[1] = s
        <5>1. us = <<>>
          BY <2>1, <3>1
        <5> QED BY <1>1, <2>2, <3>1, <5>1 DEF f
      <4>2. g = s
        BY <2>3, <4>1, ConcatEmptySeq DEF Text
      <4> QED BY <4>1, <4>2, StillThere
    <3>2. CASE Len(us) # 0
      <4>1. 1 \in 1 .. Len(us) /\ Len(us) >= 1
        BY <2>2, <3>2
      <4>2. Begins(us[1], f) /\ us[1] \in Text /\ a[1] = us[1]
        BY <2>1, <2>2, <4>1 DEF Good, f
      <4>3. Begins(us[1], f \o s)
        BY <2>3, <4>2, StillThere
      <4> QED BY <2>3, <4>2, <4>3
    <3> QED BY <3>1, <3>2
  <2>7. Good(a)
    BY <2>3, <2>5, <2>6 DEF Good, g
  <2> QED BY <2>2, <2>7 DEF T, a
<1>4. T \in SUBSET Seq(Text)
  OBVIOUS
<1> HIDE DEF T, Text
<1>5. T = Seq(Text)
  BY <1>2, <1>3, <1>4, SeqInduction
<1> QED BY <1>5 DEF T

(* The lines of a replacement.                                             *)
LEMMA LinesAround ==
    ASSUME NEW t \in Text, NEW r \in Replacements(Edit!Chars),
           r.at >= 1, r.at <= Len(t), r.at - 1 + r.len <= Len(t)
    PROVE  /\ Edit!FirstLine(t, r) \in Nat /\ Edit!FirstLine(t, r) >= 1
           /\ Edit!LastLine(t, r) \in Nat /\ Edit!FirstLine(t, r) <= Edit!LastLine(t, r)
           /\ Edit!LineStart(t, Edit!FirstLine(t, r)) <= r.at
           /\ \A n \in Nat : Edit!LastLine(t, r) <= n =>
                /\ r.at < Edit!LineStart(t, n + 1)
                /\ r.at - 1 + r.len < Edit!LineStart(t, n + 1)
<1> DEFINE a == r.at
           e == r.at + r.len - 1
           f == Edit!FirstLine(t, r)
           l == Edit!LastLine(t, r)
<1>0. a \in Nat /\ r.len \in Nat /\ Len(t) \in Nat /\ a \in 1 .. Len(t)
  BY DEF Replacements, Text
<1>1. f = Edit!LineOf(t, a) /\ l = IF r.len = 0 THEN f ELSE Edit!LineOf(t, e)
  BY DEF Edit!FirstLine, Edit!LastLine
<1> HIDE DEF f, l
<1>2. f \in Nat /\ f >= 1
  BY <1>0, <1>1, LineNumbers
<1>3. Edit!LineStart(t, f) <= a
  BY <1>0, <1>1, <1>2, LineStarts
<1>4. CASE r.len = 0
  <2>1. l = f
    BY <1>1, <1>4
  <2>2. ASSUME NEW n \in Nat, l <= n PROVE a < Edit!LineStart(t, n + 1) /\ a - 1 + r.len < Edit!LineStart(t, n + 1)
    <3>1. Edit!LineOf(t, a) < n + 1 /\ n + 1 \in Nat /\ a \in 0 .. Len(t)
      BY <1>0, <1>1, <1>2, <2>1, <2>2
    <3>2. a < Edit!LineStart(t, n + 1)
      BY <3>1, LineStarts
    <3>3. Edit!LineStart(t, n + 1) \in 1 .. Len(t) + 1
      BY <3>1, LineStarts
    <3> QED BY <1>0, <1>4, <3>2, <3>3
  <2> QED BY <1>2, <1>3, <2>1, <2>2 DEF f, l
<1>5. CASE r.len # 0
  <2>1. e \in Nat /\ a <= e /\ e <= Len(t) /\ l = Edit!LineOf(t, e) /\ a - 1 + r.len = e /\ e \in 0 .. Len(t)
    BY <1>0, <1>1, <1>5
  <2> HIDE DEF e
  <2>2. l \in Nat /\ f <= l
    BY <1>0, <1>1, <2>1, LineNumbers
  <2>3. ASSUME NEW n \in Nat, l <= n PROVE a < Edit!LineStart(t, n + 1) /\ a - 1 + r.len < Edit!LineStart(t, n + 1)
    <3>1. Edit!LineOf(t, e) < n + 1 /\ n + 1 \in Nat
      BY <2>1, <2>2, <2>3
    <3>2. e < Edit!LineStart(t, n + 1)
      BY <2>1, <3>1, LineStarts
    <3>3. Edit!LineStart(t, n + 1) \in 1 .. Len(t) + 1
      BY <3>1, LineStarts
    <3> QED BY <1>0, <2>1, <3>2, <3>3
  <2> QED BY <1>2, <1>3, <2>2, <2>3 DEF f, l
<1> QED BY <1>4, <1>5

(* The replacements of a call, sorted, in the text they are made in.       *)
Placed(t, rs) ==
    /\ rs \in Seq(Replacements(Edit!Chars))
    /\ Apart(rs)
    /\ \A i \in 1 .. Len(rs) : /\ rs[i].at >= 1 /\ rs[i].at <= Len(t)
                               /\ rs[i].at - 1 + rs[i].len <= Len(t)

(* Where the replacements of a call are, by characters and by lines.       *)
LEMMA PlacedFacts ==
    ASSUME NEW t \in Text, NEW rs, Placed(t, rs)
    PROVE  /\ Cuts(t, rs) /\ Len(rs) \in Nat /\ Len(t) \in Nat
           /\ \A i \in 1 .. Len(rs) :
                /\ rs[i] \in Replacements(Edit!Chars) /\ rs[i].new \in Text
                /\ rs[i].at \in Nat /\ rs[i].at - 1 \in Nat /\ rs[i].len \in Nat
                /\ rs[i].at - 1 <= Len(t)
                /\ Ends(rs, i) = rs[i].at - 1 + rs[i].len
                /\ Edit!FirstLine(t, rs[i]) \in Nat /\ Edit!FirstLine(t, rs[i]) >= 1
                /\ Edit!LastLine(t, rs[i]) \in Nat
                /\ Edit!FirstLine(t, rs[i]) <= Edit!LastLine(t, rs[i])
                /\ Edit!LineStart(t, Edit!FirstLine(t, rs[i])) <= rs[i].at
                /\ \A n \in Nat : Edit!LastLine(t, rs[i]) <= n => Ends(rs, i) < Edit!LineStart(t, n + 1)
<1> DEFINE R == Replacements(Edit!Chars)
<1>1. rs \in Seq(R) /\ Len(rs) \in Nat /\ Len(t) \in Nat
  BY DEF Placed, Text
<1>2. Cuts(t, rs)
  <2>1. \A i \in 1 .. Len(rs) : rs[i].at >= 1 /\ rs[i].at - 1 + rs[i].len <= Len(t)
    BY DEF Placed
  <2>2. Apart(rs)
    BY DEF Placed
  <2> QED BY <1>1, <2>1, <2>2, ApartCuts DEF Text
<1>3. ASSUME NEW i \in 1 .. Len(rs)
      PROVE  /\ rs[i] \in R /\ rs[i].new \in Text
             /\ rs[i].at \in Nat /\ rs[i].at - 1 \in Nat /\ rs[i].len \in Nat
             /\ rs[i].at >= 1 /\ rs[i].at <= Len(t) /\ rs[i].at - 1 + rs[i].len <= Len(t)
             /\ rs[i].at - 1 <= Len(t)
             /\ Ends(rs, i) = rs[i].at - 1 + rs[i].len
  <2>1. rs[i] \in R
    <3> HIDE DEF R
    <3> QED BY <1>1, ElementsIn
  <2>2. rs[i].new \in Text /\ rs[i].at \in Nat /\ rs[i].len \in Nat
    BY <2>1 DEF Replacements, Text
  <2>3. rs[i].at >= 1 /\ rs[i].at <= Len(t) /\ rs[i].at - 1 + rs[i].len <= Len(t)
    BY DEF Placed
  <2>4. i # 0
    BY <1>1
  <2>5. Ends(rs, i) = rs[i].at - 1 + rs[i].len
    BY <2>4 DEF Ends
  <2> QED BY <1>1, <2>1, <2>2, <2>3, <2>5
<1>4. ASSUME NEW i \in 1 .. Len(rs)
      PROVE  /\ Edit!FirstLine(t, rs[i]) \in Nat /\ Edit!FirstLine(t, rs[i]) >= 1
             /\ Edit!LastLine(t, rs[i]) \in Nat
             /\ Edit!FirstLine(t, rs[i]) <= Edit!LastLine(t, rs[i])
             /\ Edit!LineStart(t, Edit!FirstLine(t, rs[i])) <= rs[i].at
             /\ \A n \in Nat : Edit!LastLine(t, rs[i]) <= n => Ends(rs, i) < Edit!LineStart(t, n + 1)
  <2> DEFINE r == rs[i]
  <2>1. r \in R /\ r.at >= 1 /\ r.at <= Len(t) /\ r.at - 1 + r.len <= Len(t) /\ Ends(rs, i) = r.at - 1 + r.len
    BY <1>3
  <2> HIDE DEF r
  <2>2. /\ Edit!FirstLine(t, r) \in Nat /\ Edit!FirstLine(t, r) >= 1
        /\ Edit!LastLine(t, r) \in Nat /\ Edit!FirstLine(t, r) <= Edit!LastLine(t, r)
        /\ Edit!LineStart(t, Edit!FirstLine(t, r)) <= r.at
        /\ \A n \in Nat : Edit!LastLine(t, r) <= n =>
             /\ r.at < Edit!LineStart(t, n + 1)
             /\ r.at - 1 + r.len < Edit!LineStart(t, n + 1)
    BY <2>1, LinesAround
  <2> QED BY <2>1, <2>2 DEF r
<1> HIDE DEF R
<1> QED BY <1>1, <1>2, <1>3, <1>4 DEF R

(* What UntouchedLinesKept says of a text, replacements in base, and the   *)
(* text that is written.                                                   *)
KeepsLines(c, base, rs, text) ==
    /\ Begins(Edit!LinesOf(c, 1, Edit!FirstLine(base, rs[1])), text)
    /\ Finishes(Edit!LinesOf(c, Edit!LastLine(base, rs[Len(rs)]) + 1, Edit!LineCount(c) + 1), text)
    /\ \A i \in 2 .. Len(rs) :
         Holds(Edit!LinesOf(c, Edit!LastLine(base, rs[i - 1]) + 1, Edit!FirstLine(base, rs[i])), text)

(* Some lines of a text are a part of it.                                  *)
LEMMA LinesTyped ==
    ASSUME NEW t \in Text, NEW n \in Nat, NEW m \in Nat
    PROVE  /\ Edit!LinesOf(t, n, m) \in Text
           /\ Edit!LineStart(t, n) \in 1 .. Len(t) + 1 /\ Edit!LineStart(t, n) - 1 \in Nat
           /\ Edit!LineStart(t, n) - 1 <= Len(t)
           /\ Edit!LineStart(t, m) - 1 \in Nat /\ Edit!LineStart(t, m) - 1 <= Len(t)
           /\ Edit!LinesOf(t, n, m) = SubSeq(t, (Edit!LineStart(t, n) - 1) + 1, Edit!LineStart(t, m) - 1)
           /\ Edit!LineStart(t, m) <= Edit!LineStart(t, n) => Edit!LinesOf(t, n, m) = <<>>
<1> DEFINE p == Edit!LineStart(t, n)
           q == Edit!LineStart(t, m)
<1>0. Len(t) \in Nat
  BY DEF Text
<1>1. p \in 1 .. Len(t) + 1 /\ q \in 1 .. Len(t) + 1
  BY LineStarts
<1>2. Edit!LinesOf(t, n, m) = SubSeq(t, p, q - 1)
  BY DEF Edit!LinesOf
<1> HIDE DEF p, q
<1>3. p - 1 \in Nat /\ q - 1 \in Nat /\ p - 1 <= Len(t) /\ q - 1 <= Len(t) /\ (p - 1) + 1 = p /\ p \in Int /\ q - 1 \in Int
  BY <1>0, <1>1
<1>4. SubSeq(t, (p - 1) + 1, q - 1) \in Text
  <2> DEFINE a == p - 1
             b == q - 1
  <2>1. a \in Nat /\ b \in Nat /\ b <= Len(t)
    BY <1>3
  <2> HIDE DEF a, b
  <2>2. SubSeq(t, a + 1, b) \in Text
    BY <2>1, PartFacts DEF Text
  <2> QED BY <2>2 DEF a, b
<1>5. ASSUME q <= p PROVE SubSeq(t, p, q - 1) = <<>>
  <2>1. q - 1 < p
    BY <1>0, <1>1, <1>5
  <2> QED BY <1>3, <2>1, SubSeqEmpty
<1> QED BY <1>1, <1>2, <1>3, <1>4, <1>5 DEF p, q

(* The exact edits: the lines between them are kept with what is around    *)
(* them.                                                                   *)
LEMMA SplicedKeepsLines ==
    ASSUME NEW c \in Text, NEW rs, Placed(c, rs), Len(rs) >= 1
    PROVE  KeepsLines(c, c, rs, Spliced(c, rs))
<1> DEFINE n == Len(rs)
           ps == Pieces(c, rs)
           f == FlattenSeq(ps)
           rest == SubSeq(c, Ends(rs, n) + 1, Len(c))
           text == Spliced(c, rs)
           first(i) == Edit!FirstLine(c, rs[i])
           last(i) == Edit!LastLine(c, rs[i])
<1>0. n \in Nat /\ Len(c) \in Nat /\ n \in 1 .. n /\ 1 \in 1 .. n
  BY PlacedFacts
<1>1. rs \in Seq(Replacements(Edit!Chars)) /\ Cuts(c, rs)
  BY PlacedFacts DEF Placed
<1>2. ps \in Seq(Text) /\ Len(ps) = n /\ f \in Text /\ rest \in Text /\ text = f \o rest
  BY <1>1, PiecesTyped DEF Spliced, Text
<1>3. \A i \in 1 .. n : ps[i] = SubSeq(c, Ends(rs, i - 1) + 1, rs[i].at - 1) \o rs[i].new
  BY DEF Pieces
<1>4. Begins(ps[1], f) /\ \A i \in 1 .. n : Holds(ps[i], f)
  <2> HIDE DEF Text
  <2> QED BY <1>0, <1>2, PiecesHeld DEF f
<1>5. \A i \in 1 .. n : ps[i] \in Text
  <2> HIDE DEF ps, Text, n
  <2> QED BY <1>2, ElementsIn
<1>6. \A i \in 0 .. n : Ends(rs, i) \in Nat /\ Ends(rs, i) <= Len(c)
  BY <1>1, CutFacts DEF Text
<1>7. \A i \in 1 .. n : Ends(rs, i - 1) <= rs[i].at - 1
  BY <1>1, CutFacts DEF Text
<1> HIDE DEF ps, f, rest, text
<1>8. \A i \in 1 .. n : /\ rs[i].new \in Text /\ rs[i].at - 1 \in Nat /\ rs[i].at - 1 <= Len(c) /\ rs[i].at \in Nat
                        /\ first(i) \in Nat /\ last(i) \in Nat
                        /\ Edit!LineStart(c, first(i)) <= rs[i].at
                        /\ Ends(rs, i) < Edit!LineStart(c, last(i) + 1)
  <2> SUFFICES ASSUME NEW i \in 1 .. n
               PROVE  /\ rs[i].new \in Text /\ rs[i].at - 1 \in Nat /\ rs[i].at - 1 <= Len(c) /\ rs[i].at \in Nat
                      /\ first(i) \in Nat /\ last(i) \in Nat
                      /\ Edit!LineStart(c, first(i)) <= rs[i].at
                      /\ Ends(rs, i) < Edit!LineStart(c, last(i) + 1)
    OBVIOUS
  <2>1. /\ rs[i].new \in Text /\ rs[i].at - 1 \in Nat /\ rs[i].at - 1 <= Len(c) /\ rs[i].at \in Nat
        /\ Edit!FirstLine(c, rs[i]) \in Nat /\ Edit!LastLine(c, rs[i]) \in Nat
        /\ Edit!LineStart(c, Edit!FirstLine(c, rs[i])) <= rs[i].at
        /\ \A k \in Nat : Edit!LastLine(c, rs[i]) <= k => Ends(rs, i) < Edit!LineStart(c, k + 1)
    BY PlacedFacts
  <2> QED BY <2>1
<1> HIDE DEF first, last
(* Lines from the end of one replacement to the place of the next are in   *)
(* what is kept between them.                                              *)
<1>9. ASSUME NEW i \in 1 .. n, NEW m \in Nat, Ends(rs, i - 1) < Edit!LineStart(c, m)
      PROVE  /\ Edit!LinesOf(c, m, first(i)) \in Text
             /\ Holds(Edit!LinesOf(c, m, first(i)), text)
             /\ i = 1 /\ m = 1 => Begins(Edit!LinesOf(c, m, first(i)), text)
  <2> DEFINE p == Edit!LineStart(c, m)
             q == Edit!LineStart(c, first(i))
             l == Edit!LinesOf(c, m, first(i))
             a == Ends(rs, i - 1)
             b == p - 1
             e == q - 1
             d == rs[i].at - 1
  <2>1. /\ l \in Text /\ b \in Nat /\ e \in Nat /\ b <= Len(c) /\ e <= Len(c)
        /\ l = SubSeq(c, b + 1, e) /\ (q <= p => l = <<>>) /\ p \in 1 .. Len(c) + 1
    BY <1>8, LinesTyped
  <2>2. q \in 1 .. Len(c) + 1 /\ q <= rs[i].at
    BY <1>8, LineStarts
  <2>3. i - 1 \in 0 .. n /\ a \in Nat /\ d \in Nat /\ a <= d /\ d <= Len(c) /\ a < p /\ e <= d /\ a <= b
    <3>1. i - 1 \in 0 .. n
      BY <1>0
    <3>2. a \in Nat /\ d \in Nat /\ a <= d /\ d <= Len(c) /\ rs[i].at \in Nat
      BY <1>6, <1>7, <1>8, <3>1
    <3>3. a < p
      BY <1>9
    <3> HIDE DEF a, p, q
    <3> QED BY <1>0, <2>1, <2>2, <3>1, <3>2, <3>3
  <2>4. ps[i] = SubSeq(c, a + 1, d) \o rs[i].new /\ SubSeq(c, a + 1, d) \in Text
    BY <1>3, <2>3, PartFacts DEF Text
  <2>5. ASSUME ~(q <= p)
        PROVE  /\ Holds(l, SubSeq(c, a + 1, d))
               /\ a = b => Begins(l, SubSeq(c, a + 1, d))
    <3>1. b <= e
      <4> HIDE DEF p, q
      <4> QED BY <1>0, <2>1, <2>2, <2>5
    <3>2. l = SubSeq(c, b + 1, e)
      BY <2>1
    <3>3. a \in Nat /\ b \in Nat /\ e \in Nat /\ d \in Nat /\ a <= b /\ e <= d /\ d <= Len(c)
      BY <2>1, <2>3
    <3> HIDE DEF a, b, e, d, l
    <3>4. /\ Holds(SubSeq(c, b + 1, e), SubSeq(c, a + 1, d))
          /\ a = b => Begins(SubSeq(c, b + 1, e), SubSeq(c, a + 1, d))
      BY <3>1, <3>3, PartOfPart
    <3> QED BY <3>2, <3>4
  <2>6. l = <<>> \/ Holds(l, text)
    <3>1. CASE q <= p
      BY <2>1, <3>1
    <3>2. CASE ~(q <= p)
      <4> DEFINE k == SubSeq(c, a + 1, d)
      <4>1. Holds(l, k) /\ k \in Text /\ ps[i] = k \o rs[i].new /\ rs[i].new \in Text
        BY <1>8, <2>4, <2>5, <3>2
      <4> HIDE DEF k, l
      <4>2. Holds(l, ps[i])
        BY <2>1, <4>1, StillThere
      <4>3. Holds(l, f)
        BY <1>2, <1>4, <1>5, <2>1, <4>2, ThereToo
      <4>4. Holds(l, text)
        BY <1>2, <2>1, <4>3, StillThere
      <4> QED BY <4>4
    <3> QED BY <3>1, <3>2
  <2>7. Holds(l, text)
    <3>1. text \in Text
      BY <1>2, StillThere
    <3> QED BY <2>6, <3>1, EmptyHeld
  <2>8. ASSUME i = 1, m = 1 PROVE Begins(l, text)
    <3>1. p = 1 /\ a = 0 /\ b = 0
      BY <2>8, FirstAndLast DEF Ends
    <3>2. CASE ~(q <= p)
      <4> DEFINE k == SubSeq(c, a + 1, d)
      <4>1. Begins(l, k) /\ k \in Text /\ ps[1] = k \o rs[i].new /\ rs[i].new \in Text /\ ps[1] \in Text
        BY <1>0, <1>5, <1>8, <2>4, <2>5, <2>8, <3>1, <3>2
      <4> HIDE DEF k, l
      <4>2. Begins(l, ps[1])
        BY <2>1, <4>1, StillThere
      <4>3. Begins(l, f)
        BY <1>2, <1>4, <2>1, <4>1, <4>2, ThereToo
      <4>4. Begins(l, text)
        BY <1>2, <2>1, <4>3, StillThere
      <4> QED BY <4>4
    <3>3. CASE q <= p
      <4>1. l = <<>>
        BY <2>1, <3>3
      <4>2. text \in Text /\ <<>> \o text = text
        BY <1>2, StillThere, ConcatEmptySeq DEF Text
      <4> QED BY <4>1, <4>2 DEF Begins
    <3> QED BY <3>2, <3>3
  <2> QED BY <2>1, <2>7, <2>8
<1>10. Begins(Edit!LinesOf(c, 1, first(1)), text)
  <2>1. Ends(rs, 1 - 1) < Edit!LineStart(c, 1)
    BY FirstAndLast DEF Ends
  <2> QED BY <1>0, <1>9, <2>1
<1>11. ASSUME NEW i \in 2 .. n PROVE Holds(Edit!LinesOf(c, last(i - 1) + 1, first(i)), text)
  <2>1. i \in 1 .. n /\ i - 1 \in 1 .. n
    BY <1>0
  <2>2. last(i - 1) + 1 \in Nat /\ Ends(rs, i - 1) < Edit!LineStart(c, last(i - 1) + 1)
    BY <1>8, <2>1
  <2> QED BY <1>9, <2>1, <2>2
<1>12. Finishes(Edit!LinesOf(c, last(n) + 1, Edit!LineCount(c) + 1), text)
  <2> DEFINE m == last(n) + 1
             k == Edit!LineCount(c) + 1
             p == Edit!LineStart(c, m)
             l == Edit!LinesOf(c, m, k)
             a == Ends(rs, n)
             b == p - 1
             d == Len(c)
  <2>1. m \in Nat /\ a < p /\ a \in Nat /\ a <= d
    BY <1>0, <1>6, <1>8
  <2>2. k \in Nat /\ Edit!LineStart(c, k) - 1 = d
    BY <1>0, FirstAndLast
  <2>3. l \in Text /\ b \in Nat /\ b <= d /\ l = SubSeq(c, b + 1, d) /\ p \in 1 .. Len(c) + 1
    <3>1. m \in Nat /\ k \in Nat
      BY <2>1, <2>2
    <3> HIDE DEF m, k
    <3>2. /\ Edit!LinesOf(c, m, k) \in Text
          /\ Edit!LineStart(c, m) \in 1 .. Len(c) + 1 /\ Edit!LineStart(c, m) - 1 \in Nat
          /\ Edit!LineStart(c, m) - 1 <= Len(c)
          /\ Edit!LinesOf(c, m, k) = SubSeq(c, (Edit!LineStart(c, m) - 1) + 1, Edit!LineStart(c, k) - 1)
      BY <3>1, LinesTyped
    <3> QED BY <2>2, <3>2
  <2>4. a <= b
    <3> HIDE DEF p, a
    <3> QED BY <1>0, <2>1, <2>3
  <2>5. Finishes(l, rest)
    <3>1. l = SubSeq(c, b + 1, d) /\ rest = SubSeq(c, a + 1, d)
      BY <2>3 DEF rest
    <3>2. a \in Nat /\ b \in Nat /\ d \in Nat /\ a <= b /\ b <= d /\ d <= d /\ d <= Len(c)
      BY <1>0, <2>1, <2>3, <2>4
    <3> HIDE DEF a, b, d, l
    <3>3. Finishes(SubSeq(c, b + 1, d), SubSeq(c, a + 1, d))
      BY <3>2, PartOfPart
    <3> QED BY <3>1, <3>3
  <2> HIDE DEF l
  <2> QED BY <1>2, <2>3, <2>5, StillThere DEF l
<1> QED BY <1>0, <1>10, <1>11, <1>12 DEF KeepsLines, first, last, text

-----------------------------------------------------------------------------
(* The groups of replacements whose lines meet.                            *)

Group == [first : Nat, last : Nat, rs : Seq(Replacements(Edit!Chars))]

(* A replacement that can stand in a text.                                 *)
Stands(t, r) == r.at >= 1 /\ r.at <= Len(t) /\ r.at - 1 + r.len <= Len(t)

(* One replacement more at the end of the list.                            *)
LEMMA PlacedMore ==
    ASSUME NEW t \in Text, NEW us \in Seq(Replacements(Edit!Chars)), NEW r \in Replacements(Edit!Chars)
    PROVE  Placed(t, Append(us, r)) <=>
             /\ Placed(t, us) /\ Stands(t, r)
             /\ Len(us) >= 1 => us[Len(us)].at + us[Len(us)].len <= r.at
<1> DEFINE R == Replacements(Edit!Chars)
           a == Append(us, r)
           n == Len(us)
           D(s) == \A i \in 2 .. Len(s) : ~(s[i].at < s[i - 1].at + s[i - 1].len)
           I(s) == \A i \in 1 .. Len(s) : Stands(t, s[i])
<1>1. /\ a \in Seq(R) /\ Len(a) = n + 1 /\ n \in Nat
      /\ \A i \in 1 .. n : a[i] = us[i]
      /\ a[n + 1] = r
  <2> HIDE DEF R
  <2>1. us \in Seq(R) /\ r \in R
    BY DEF R
  <2> QED BY <2>1
<1>2. ASSUME NEW s \in Seq(R) PROVE Placed(t, s) <=> D(s) /\ I(s)
  BY DEF Placed, Apart, Stands
<1>3. r.at \in Nat /\ \A i \in 1 .. n : us[i].at \in Nat /\ us[i].len \in Nat
  <2>1. \A i \in 1 .. n : us[i] \in R
    <3> HIDE DEF R
    <3>1. us \in Seq(R)
      BY DEF R
    <3> QED BY <3>1, ElementsIn
  <2> QED BY <2>1 DEF Replacements
<1> HIDE DEF a, R
<1>4. I(a) <=> I(us) /\ Stands(t, r)
  <2>1. \A i \in 1 .. n + 1 : i \in 1 .. n \/ i = n + 1
    BY <1>1
  <2>2. n + 1 \in 1 .. n + 1 /\ \A i \in 1 .. n : i \in 1 .. n + 1
    BY <1>1
  <2> QED BY <1>1, <2>1, <2>2
<1>5. D(a) <=> D(us) /\ (n >= 1 => us[n].at + us[n].len <= r.at)
  <2>1. \A i \in 2 .. n : i \in 2 .. n + 1 /\ i \in 1 .. n /\ i - 1 \in 1 .. n
    BY <1>1
  <2>2. ASSUME D(a) PROVE D(us)
    BY <1>1, <2>1, <2>2
  <2>3. ASSUME D(a), n >= 1 PROVE us[n].at + us[n].len <= r.at
    <3>1. n + 1 \in 2 .. n + 1 /\ (n + 1) - 1 = n /\ n \in 1 .. n
      BY <1>1, <2>3
    <3>2. ~(a[n + 1].at < a[(n + 1) - 1].at + a[(n + 1) - 1].len)
      BY <1>1, <2>3, <3>1
    <3>3. ~(r.at < us[n].at + us[n].len)
      BY <1>1, <3>1, <3>2
    <3> QED BY <1>3, <3>1, <3>3
  <2>4. ASSUME D(us), n >= 1 => us[n].at + us[n].len <= r.at PROVE D(a)
    <3> SUFFICES ASSUME NEW i \in 2 .. n + 1 PROVE ~(a[i].at < a[i - 1].at + a[i - 1].len)
      BY <1>1
    <3>1. CASE i \in 2 .. n
      <4>1. a[i] = us[i] /\ a[i - 1] = us[i - 1]
        BY <1>1, <2>1, <3>1
      <4> QED BY <1>1, <2>4, <3>1, <4>1
    <3>2. CASE i \notin 2 .. n
      <4>1. i = n + 1 /\ i - 1 = n /\ n \in 1 .. n /\ n >= 1
        BY <1>1, <3>2
      <4>2. a[i] = r /\ a[i - 1] = us[n]
        BY <1>1, <4>1
      <4> QED BY <1>3, <2>4, <4>1, <4>2
    <3> QED BY <3>1, <3>2
  <2> HIDE DEF D
  <2> QED BY <2>2, <2>3, <2>4
<1> HIDE DEF D, I
<1>6. us \in Seq(R)
  BY DEF R
<1> QED BY <1>1, <1>2, <1>4, <1>5, <1>6 DEF a

(* The last line of a replacement is not before that of one before it.     *)
LEMMA LastGrows ==
    ASSUME NEW t \in Text, NEW u \in Replacements(Edit!Chars), NEW r \in Replacements(Edit!Chars),
           Stands(t, u), Stands(t, r), u.at + u.len <= r.at
    PROVE  Edit!LastLine(t, u) <= Edit!LastLine(t, r)
<1> DEFINE End(x) == IF x.len = 0 THEN x.at ELSE x.at + x.len - 1
<1>1. /\ u.at \in Nat /\ u.len \in Nat /\ r.at \in Nat /\ r.len \in Nat /\ u.at >= 1 /\ r.at >= 1
  BY DEF Replacements, Stands
<1>2. Edit!LastLine(t, u) = Edit!LineOf(t, End(u)) /\ Edit!LastLine(t, r) = Edit!LineOf(t, End(r))
  BY DEF Edit!LastLine, Edit!FirstLine
<1>3. End(u) \in Nat /\ End(r) \in Nat /\ End(u) <= End(r)
  BY <1>1
<1> HIDE DEF End
<1> QED BY <1>2, <1>3, LineNumbers

(* A list of one.                                                          *)
LEMMA PlacedOne ==
    ASSUME NEW t \in Text, NEW r \in Replacements(Edit!Chars), Stands(t, r)
    PROVE  <<r>> \in Seq(Replacements(Edit!Chars)) /\ Placed(t, <<r>>) /\ Len(<<r>>) = 1 /\ <<r>>[1] = r
<1> DEFINE R == Replacements(Edit!Chars)
<1>1. <<>> \in Seq(R) /\ Append(<<>>, r) = <<r>> /\ Len(<<>>) = 0 /\ <<r>> \in Seq(R)
  <2> HIDE DEF R
  <2>1. r \in R
    BY DEF R
  <2> QED BY <2>1
<1>2. Placed(t, <<>>)
  BY <1>1 DEF Placed, Apart
<1>3. Placed(t, Append(<<>>, r))
  <2> DEFINE e == <<>>
  <2>1. e \in Seq(R) /\ Placed(t, e) /\ ~(Len(e) >= 1)
    BY <1>1, <1>2
  <2> HIDE DEF e
  <2>2. Placed(t, Append(e, r))
    BY <2>1, PlacedMore
  <2> QED BY <2>2 DEF e
<1> QED BY <1>1, <1>3

(* The larger of two numbers.                                              *)
LEMMA MaxOfTwo ==
    ASSUME NEW a \in Nat, NEW b \in Nat
    PROVE  /\ Edit!Max({a, b}) \in Nat
           /\ a <= b => Edit!Max({a, b}) = b
<1> DEFINE m == Edit!Max({a, b})
<1>1. \E x \in {a, b} : \A y \in {a, b} : x >= y
  OBVIOUS
<1>2. m \in {a, b} /\ \A y \in {a, b} : m >= y
  BY <1>1 DEF Edit!Max
<1> HIDE DEF m
<1>3. m \in Nat /\ (a <= b => m = b)
  BY <1>2
<1> QED BY <1>3 DEF m

(* One step of the grouping.                                               *)
Alone(base, r) == [first |-> Edit!FirstLine(base, r), last |-> Edit!LastLine(base, r), rs |-> <<r>>]
Grown(base, g, r) ==
    [first |-> g.first, last |-> Edit!Max({g.last, Edit!LastLine(base, r)}), rs |-> Append(g.rs, r)]
Joined(base, gs, r) ==
    IF gs # <<>> /\ Edit!FirstLine(base, r) <= gs[Len(gs)].last
    THEN SubSeq(gs, 1, Len(gs) - 1) \o <<Grown(base, gs[Len(gs)], r)>>
    ELSE Append(gs, Alone(base, r))
joining(base) ==
    [x \in Seq(Group) \X Replacements(Edit!Chars) |-> Joined(base, x[1], x[2])]

(* The elements of a list whose last element is another.                   *)
LEMMA LastChanged ==
    ASSUME NEW X, NEW s \in Seq(X), Len(s) >= 1, NEW e \in X
    PROVE  LET u == SubSeq(s, 1, Len(s) - 1) \o <<e>>
           IN  /\ u \in Seq(X) /\ Len(u) = Len(s)
               /\ \A i \in 1 .. Len(s) - 1 : u[i] = s[i]
               /\ u[Len(s)] = e
<1> DEFINE n == Len(s) - 1
           p == SubSeq(s, 1, n)
           u == p \o <<e>>
<1>1. n \in Nat /\ n <= Len(s) /\ Len(s) = n + 1
  OBVIOUS
<1>2. p \in Seq(X) /\ Len(p) = n /\ \A i \in 1 .. n : p[i] = s[i]
  <2>1. /\ SubSeq(s, 0 + 1, n) \in Seq(X)
        /\ Len(SubSeq(s, 0 + 1, n)) = IF 0 <= n THEN n - 0 ELSE 0
        /\ \A i \in 1 .. n - 0 : SubSeq(s, 0 + 1, n)[i] = s[0 + i]
    BY <1>1, PartFacts
  <2>2. 0 + 1 = 1 /\ n - 0 = n /\ 0 <= n
    BY <1>1
  <2>3. \A i \in 1 .. n : 0 + i = i
    BY <1>1
  <2> QED BY <2>1, <2>2, <2>3
<1> HIDE DEF p
<1>3. <<e>> \in Seq(X) /\ Len(<<e>>) = 1 /\ <<e>>[1] = e
  OBVIOUS
<1>4. /\ u \in Seq(X) /\ Len(u) = Len(p) + 1
      /\ \A i \in 1 .. Len(p) + 1 : u[i] = IF i <= Len(p) THEN p[i] ELSE <<e>>[i - Len(p)]
  BY <1>2, <1>3, ConcatProperties
<1> HIDE DEF u
<1>5. \A i \in 1 .. n : i \in 1 .. Len(p) + 1 /\ i <= Len(p)
  BY <1>1, <1>2
<1>6. n + 1 \in 1 .. Len(p) + 1 /\ ~(n + 1 <= Len(p)) /\ (n + 1) - Len(p) = 1
  BY <1>1, <1>2
<1>7. u \in Seq(X) /\ Len(u) = Len(s) /\ (\A i \in 1 .. n : u[i] = s[i]) /\ u[Len(s)] = e
  BY <1>1, <1>2, <1>3, <1>4, <1>5, <1>6
<1> QED BY <1>7 DEF u, p

(* It is a step of a walk over the replacements.                           *)
LEMMA JoiningSteps ==
    ASSUME NEW base \in Text
    PROVE  /\ joining(base) \in Steps(Seq(Group), Replacements(Edit!Chars))
           /\ \A gs \in Seq(Group), r \in Replacements(Edit!Chars) :
                joining(base)[<<gs, r>>] = Joined(base, gs, r)
           /\ \A r \in Replacements(Edit!Chars) : Alone(base, r) \in Group
           /\ \A r \in Replacements(Edit!Chars), g \in Group : Grown(base, g, r) \in Group
<1> DEFINE R == Replacements(Edit!Chars)
<1>1. ASSUME NEW r \in R
      PROVE  Edit!FirstLine(base, r) \in Nat /\ Edit!LastLine(base, r) \in Nat
  <2>1. r.at \in Nat /\ r.len \in Nat /\ (r.len # 0 => r.at + r.len - 1 \in Nat)
    BY DEF Replacements
  <2>2. Edit!LineOf(base, r.at) \in Nat /\ (r.len # 0 => Edit!LineOf(base, r.at + r.len - 1) \in Nat)
    BY <2>1, LineNumbers
  <2> QED BY <2>2 DEF Edit!FirstLine, Edit!LastLine
<1>2. ASSUME NEW r \in R PROVE Alone(base, r) \in Group
  <2>1. <<r>> \in Seq(R)
    <3> HIDE DEF R
    <3> QED OBVIOUS
  <2> QED BY <1>1, <2>1 DEF Alone, Group
<1>3. ASSUME NEW r \in R, NEW g \in Group PROVE Grown(base, g, r) \in Group
  <2>1. g.first \in Nat /\ g.last \in Nat /\ g.rs \in Seq(R)
    BY DEF Group
  <2>2. Append(g.rs, r) \in Seq(R)
    <3> HIDE DEF R
    <3> QED BY <2>1
  <2>3. Edit!Max({g.last, Edit!LastLine(base, r)}) \in Nat
    BY <1>1, <2>1, MaxOfTwo
  <2> QED BY <2>1, <2>2, <2>3 DEF Grown, Group
<1>4. ASSUME NEW gs \in Seq(Group), NEW r \in R PROVE Joined(base, gs, r) \in Seq(Group)
  <2> DEFINE l == gs[Len(gs)]
  <2>1. CASE gs # <<>> /\ Edit!FirstLine(base, r) <= gs[Len(gs)].last
    <3> HIDE DEF Group, R
    <3>1. Len(gs) >= 1 /\ l \in Group
      BY <2>1
    <3>2. Grown(base, l, r) \in Group
      BY <1>3, <3>1
    <3>3. SubSeq(gs, 1, Len(gs) - 1) \o <<Grown(base, l, r)>> \in Seq(Group)
      BY <3>1, <3>2, LastChanged
    <3> QED BY <2>1, <3>3 DEF Joined
  <2>2. CASE ~(gs # <<>> /\ Edit!FirstLine(base, r) <= gs[Len(gs)].last)
    <3> HIDE DEF Group, R
    <3>1. Append(gs, Alone(base, r)) \in Seq(Group)
      BY <1>2
    <3> QED BY <2>2, <3>1 DEF Joined
  <2> QED BY <2>1, <2>2
<1> HIDE DEF R
<1> DEFINE Q == Seq(Group)
<1> HIDE DEF Q
<1>5. joining(base) = [x \in Q \X R |-> Joined(base, x[1], x[2])]
  BY DEF joining, Q, R
<1>6. \A gs \in Q, r \in R : Joined(base, gs, r) \in Q
  BY <1>4 DEF Q
<1>7. joining(base) \in [Q \X R -> Q] /\ \A gs \in Q, r \in R : joining(base)[<<gs, r>>] = Joined(base, gs, r)
  BY <1>5, <1>6
<1> QED BY <1>2, <1>3, <1>7 DEF Steps, Q, R

(* Groups is a walk of that step over the replacements.                    *)
LEMMA GroupsWalk ==
    ASSUME NEW base \in Text, NEW rs \in Seq(Replacements(Edit!Chars))
    PROVE  Edit!Groups(base, rs) = Walked(joining(base), <<>>, rs)
<1> DEFINE R == Replacements(Edit!Chars)
           Q == Seq(Group)
           step == joining(base)
           n == Len(rs)
           F(g) == g = [i \in 0 .. n |-> IF i = 0 THEN <<>> ELSE Joined(base, g[i - 1], rs[i])]
           walk == CHOOSE g : F(g)
<1>0. <<>> \in Q /\ rs \in Seq(R)
  <2> HIDE DEF Group, R
  <2>1. <<>> \in Q
    OBVIOUS
  <2> QED BY <2>1 DEF R
<1>1. Edit!Groups(base, rs) = walk[n]
  BY LibraryOfEdit, Zenon
  DEF Edit!Groups, Edit!Through, Joined, Alone, Grown, Edit!Last, Edit!Front
<1>2. step \in Steps(Q, R) /\ \A gs \in Q, r \in R : step[<<gs, r>>] = Joined(base, gs, r)
  BY JoiningSteps
<1> HIDE DEF step, Q, R
<1>3. PICK h : /\ h = [i \in 0 .. n |-> IF i = 0 THEN <<>> ELSE step[<<h[i - 1], rs[i]>>]]
               /\ \A i \in 1 .. n : h[i - 1] \in Q /\ rs[i] \in R
  BY <1>0, <1>2, WalkGiven
<1>4. n \in Nat /\ \A i \in 0 .. n : i = 0 \/ i \in 1 .. n
  BY <1>0
<1>5. F(h)
  <2>1. \A i \in 1 .. n : step[<<h[i - 1], rs[i]>>] = Joined(base, h[i - 1], rs[i])
    BY <1>2, <1>3
  <2> HIDE DEF n
  <2>2. [i \in 0 .. n |-> IF i = 0 THEN <<>> ELSE step[<<h[i - 1], rs[i]>>]]
          = [i \in 0 .. n |-> IF i = 0 THEN <<>> ELSE Joined(base, h[i - 1], rs[i])]
    BY <1>4, <2>1
  <2> QED BY <1>3, <2>2, Zenon
<1>6. F(walk)
  <2> HIDE DEF F
  <2> QED BY <1>5, Zenon DEF walk
<1> HIDE DEF walk
<1>7. /\ walk[0] = <<>>
      /\ \A i \in 1 .. n : walk[i] = Joined(base, walk[i - 1], rs[i])
  <2> HIDE DEF n
  <2> QED BY <1>4, <1>6
<1> HIDE DEF F
<1>8. \A i \in 1 .. n : walk[i - 1] \in Q => walk[i] = step[<<walk[i - 1], rs[i]>>]
  BY <1>2, <1>3, <1>7
<1>9. Obeys(walk, Q, step, <<>>, rs, Len(rs))
  BY <1>7, <1>8 DEF Obeys
<1>10. walk[n] = Walked(step, <<>>, rs)
  BY <1>0, <1>2, <1>9, WalkedIsEnd
<1> QED BY <1>1, <1>10 DEF step

(* A group has its lines from its replacements.                            *)
GoodGroup(base, g) ==
    /\ g \in Group /\ Placed(base, g.rs) /\ Len(g.rs) >= 1 /\ g.first >= 1
    /\ \A k \in 1 .. Len(g.rs) : /\ Edit!LineStart(base, g.first) <= g.rs[k].at
                                 /\ Edit!LastLine(base, g.rs[k]) <= g.last

(* Two replacements share a line, or two groups have their lines between   *)
(* them.                                                                   *)
Between(base, rs, gs, i) ==
    \/ Edit!FirstLine(base, rs[i]) <= Edit!LastLine(base, rs[i - 1])
    \/ \E k \in 2 .. Len(gs) : /\ gs[k - 1].last = Edit!LastLine(base, rs[i - 1])
                               /\ gs[k].first = Edit!FirstLine(base, rs[i])

(* What the groups say of the lines of the replacements.                   *)
Grouped(base, rs, gs) ==
    /\ gs \in Seq(Group) /\ Len(gs) >= 1
    /\ \A k \in 1 .. Len(gs) : GoodGroup(base, gs[k])
    /\ gs[1].first = Edit!FirstLine(base, rs[1])
    /\ gs[Len(gs)].last = Edit!LastLine(base, rs[Len(rs)])
    /\ gs[Len(gs)].rs[Len(gs[Len(gs)].rs)] = rs[Len(rs)]
    /\ \A i \in 2 .. Len(rs) : Between(base, rs, gs, i)

(* A group of one replacement, and one that grows by one.                  *)
LEMMA GoodAlone ==
    ASSUME NEW base \in Text, NEW r \in Replacements(Edit!Chars), Stands(base, r)
    PROVE  GoodGroup(base, Alone(base, r))
<1> DEFINE g == Alone(base, r)
<1>1. g.first = Edit!FirstLine(base, r) /\ g.last = Edit!LastLine(base, r) /\ g.rs = <<r>> /\ g \in Group
  BY JoiningSteps DEF Alone
<1> HIDE DEF g
<1>2. Placed(base, <<r>>) /\ Len(<<r>>) = 1 /\ <<r>>[1] = r
  BY PlacedOne
<1>3. /\ Edit!FirstLine(base, r) >= 1 /\ Edit!LastLine(base, r) \in Nat
      /\ Edit!LineStart(base, Edit!FirstLine(base, r)) <= r.at
  BY LinesAround DEF Stands
<1>4. \A k \in 1 .. Len(g.rs) : g.rs[k] = r
  BY <1>1, <1>2
<1>5. Edit!LastLine(base, r) <= Edit!LastLine(base, r)
  BY <1>3
<1> QED BY <1>1, <1>2, <1>3, <1>4, <1>5 DEF GoodGroup, g

(* A group that takes in the next replacement is still in order.           *)
LEMMA GoodGrown ==
    ASSUME NEW base \in Text, NEW r \in Replacements(Edit!Chars), Stands(base, r),
           NEW g, GoodGroup(base, g),
           NEW u, u = g.rs[Len(g.rs)], u.at + u.len <= r.at, g.last = Edit!LastLine(base, u)
    PROVE  /\ GoodGroup(base, Grown(base, g, r))
           /\ Grown(base, g, r).first = g.first
           /\ Grown(base, g, r).last = Edit!LastLine(base, r)
           /\ Grown(base, g, r).rs[Len(Grown(base, g, r).rs)] = r
<1> DEFINE R == Replacements(Edit!Chars)
           w == Grown(base, g, r)
           us == g.rs
           n == Len(us)
           a == Append(us, r)
<1>1. g \in Group /\ Placed(base, us) /\ n >= 1 /\ g.first >= 1
  BY DEF GoodGroup
<1>2. us \in Seq(R) /\ g.last \in Nat /\ g.first \in Nat
  BY <1>1 DEF Group
<1>3. n \in Nat /\ n \in 1 .. n /\ u = us[n]
  BY <1>1, <1>2
<1>4. w \in Group /\ w.first = g.first /\ w.last = Edit!Max({g.last, Edit!LastLine(base, r)}) /\ w.rs = a
  BY <1>1, JoiningSteps DEF Grown
<1> HIDE DEF w
<1>5. /\ a \in Seq(R) /\ Len(a) = n + 1 /\ (\A i \in 1 .. n : a[i] = us[i]) /\ a[n + 1] = r
  <2> HIDE DEF R, us
  <2>1. r \in R
    BY DEF R
  <2> QED BY <1>2, <2>1
<1>6. u \in R /\ Stands(base, u)
  <2>1. us[n] \in R
    <3> HIDE DEF R, us
    <3>1. \A i \in 1 .. Len(us) : us[i] \in R
      BY <1>2, ElementsIn
    <3> QED BY <1>3, <3>1
  <2>2. Stands(base, us[n])
    BY <1>1, <1>3 DEF Placed, Stands
  <2> QED BY <1>3, <2>1, <2>2
<1>7. Edit!LastLine(base, u) <= Edit!LastLine(base, r)
  BY <1>6, LastGrows
<1>8. Edit!LastLine(base, r) \in Nat /\ Edit!LastLine(base, r) <= Edit!LastLine(base, r)
  BY LinesAround DEF Stands
<1>9. w.last = Edit!LastLine(base, r)
  BY <1>2, <1>4, <1>7, <1>8, MaxOfTwo
<1>10. Placed(base, a)
  <2> HIDE DEF us, n
  <2>1. Placed(base, us) /\ (Len(us) >= 1 => us[Len(us)].at + us[Len(us)].len <= r.at)
    BY <1>1, <1>3 DEF n
  <2> QED BY <1>2, <2>1, PlacedMore
<1>11. r.at \in Nat /\ u.at \in Nat /\ u.len \in Nat
  BY <1>6 DEF Replacements
<1>12. Edit!LineStart(base, g.first) \in Nat
  <2>0. Len(base) \in Nat
    BY DEF Text
  <2>1. Edit!LineStart(base, g.first) \in 1 .. Len(base) + 1 /\ Len(base) \in Nat
    BY <1>2, <2>0, LineStarts
  <2> DEFINE s == Edit!LineStart(base, g.first)
  <2> HIDE DEF s
  <2>2. s \in 1 .. Len(base) + 1 /\ Len(base) \in Nat
    BY <2>1 DEF s
  <2>3. s \in Nat
    BY <2>2
  <2> QED BY <2>3 DEF s
<1>13. ASSUME NEW k \in 1 .. n + 1
       PROVE  Edit!LineStart(base, w.first) <= a[k].at /\ Edit!LastLine(base, a[k]) <= w.last
  <2>1. CASE k = n + 1
    <3>1. Edit!LineStart(base, g.first) <= u.at
      BY <1>3 DEF GoodGroup
    <3>2. Edit!LineStart(base, g.first) <= r.at
      BY <1>11, <1>12, <3>1
    <3> QED BY <1>4, <1>5, <1>8, <1>9, <2>1, <3>2
  <2>2. CASE k # n + 1
    <3>1. k \in 1 .. n
      BY <1>3, <2>2
    <3>2. a[k] = us[k] /\ Edit!LineStart(base, g.first) <= us[k].at /\ Edit!LastLine(base, us[k]) <= g.last
      BY <1>5, <3>1 DEF GoodGroup
    <3>3. Edit!LastLine(base, us[k]) \in Nat
      BY <1>1, <3>1, PlacedFacts
    <3> QED BY <1>2, <1>4, <1>7, <1>8, <1>9, <3>2, <3>3
  <2> QED BY <2>1, <2>2
<1>14. Len(a) >= 1
  BY <1>3, <1>5
<1>15. GoodGroup(base, w)
  BY <1>1, <1>4, <1>5, <1>10, <1>13, <1>14 DEF GoodGroup
<1> QED BY <1>4, <1>5, <1>9, <1>15 DEF w

(* Groups that keep the lines of others.                                   *)
KeepGroups(gs, hs) ==
    /\ Len(hs) \in Nat /\ Len(gs) <= Len(hs)
    /\ \A k \in 1 .. Len(gs) : hs[k].first = gs[k].first
    /\ \A k \in 1 .. Len(gs) - 1 : hs[k].last = gs[k].last

KeepReplacements(us, a) ==
    Len(us) \in Nat /\ Len(us) >= 1 /\ \A i \in 1 .. Len(us) : a[i] = us[i]

(* They say the same of the replacements.                                  *)
LEMMA StillGrouped ==
    ASSUME NEW base, NEW us, NEW gs, Grouped(base, us, gs), NEW hs, KeepGroups(gs, hs),
           NEW a, KeepReplacements(us, a)
    PROVE  /\ hs[1].first = Edit!FirstLine(base, a[1])
           /\ \A i \in 2 .. Len(us) : Between(base, a, hs, i)
<1> DEFINE n == Len(gs)
<1>1. Len(us) \in Nat /\ Len(us) >= 1 /\ \A i \in 1 .. Len(us) : a[i] = us[i]
  BY DEF KeepReplacements
<1>2. n \in Nat /\ n >= 1 /\ 1 \in 1 .. n /\ 1 \in 1 .. Len(us)
  <2>1. gs \in Seq(Group) /\ n >= 1
    BY DEF Grouped
  <2>2. n \in Nat
    <3> HIDE DEF Group
    <3> QED BY <2>1
  <2> QED BY <1>1, <2>1, <2>2
<1>3. hs[1].first = Edit!FirstLine(base, a[1])
  BY <1>1, <1>2 DEF Grouped, KeepGroups
<1>4. ASSUME NEW i \in 2 .. Len(us)
      PROVE  Between(base, a, hs, i)
  <2>1. i \in 1 .. Len(us) /\ i - 1 \in 1 .. Len(us)
    BY <1>1
  <2>2. a[i] = us[i] /\ a[i - 1] = us[i - 1]
    BY <1>1, <2>1
  <2>3. Between(base, us, gs, i)
    BY DEF Grouped
  <2>4. ASSUME NEW k \in 2 .. n
        PROVE  k \in 2 .. Len(hs) /\ hs[k].first = gs[k].first /\ hs[k - 1].last = gs[k - 1].last
    <3>1. k \in 1 .. n /\ k - 1 \in 1 .. n - 1 /\ k \in 2 .. Len(hs)
      BY <1>2 DEF KeepGroups
    <3> QED BY <3>1 DEF KeepGroups
  <2> QED BY <2>2, <2>3, <2>4 DEF Between
<1> QED BY <1>3, <1>4

(* One more replacement.                                                   *)
LEMMA GroupedMore ==
    ASSUME NEW base \in Text, NEW us \in Seq(Replacements(Edit!Chars)), Len(us) >= 1,
           NEW r \in Replacements(Edit!Chars), Placed(base, Append(us, r)),
           NEW gs, Grouped(base, us, gs)
    PROVE  Grouped(base, Append(us, r), Joined(base, gs, r))
<1> DEFINE R == Replacements(Edit!Chars)
           a == Append(us, r)
           n == Len(gs)
           m == Len(us)
           hs == Joined(base, gs, r)
           g == gs[n]
           u == us[m]
           E(i) == Between(base, a, hs, i)
<1>1. /\ m \in Nat /\ m >= 1 /\ Len(a) = m + 1 /\ (\A i \in 1 .. m : a[i] = us[i]) /\ a[m + 1] = r
      /\ a[Len(a)] = r /\ a[m] = u
  <2> HIDE DEF R
  <2>1. us \in Seq(R) /\ r \in R
    BY DEF R
  <2> QED BY <2>1
<1>2. gs \in Seq(Group) /\ n >= 1
  BY DEF Grouped
<1>3. n \in Nat /\ n \in 1 .. n /\ gs # <<>> /\ g \in Group
  <2> HIDE DEF Group
  <2> QED BY <1>2
<1>4. Stands(base, r) /\ u.at + u.len <= r.at
  BY <1>1, PlacedMore
<1>5. GoodGroup(base, g) /\ g.last = Edit!LastLine(base, u) /\ g.rs[Len(g.rs)] = u
  BY <1>3 DEF Grouped
<1>6. g.first \in Nat /\ g.last \in Nat
  BY <1>3 DEF Group
<1>7. CASE Edit!FirstLine(base, r) <= g.last
  <2> DEFINE w == Grown(base, g, r)
  <2>1. /\ GoodGroup(base, w) /\ w.first = g.first /\ w.last = Edit!LastLine(base, r)
        /\ w.rs[Len(w.rs)] = r
    BY <1>4, <1>5, GoodGrown
  <2>2. w \in Group
    BY <2>1 DEF GoodGroup
  <2>3. hs = SubSeq(gs, 1, n - 1) \o <<w>>
    BY <1>3, <1>7 DEF Joined
  <2>4. hs \in Seq(Group) /\ Len(hs) = n /\ (\A k \in 1 .. n - 1 : hs[k] = gs[k]) /\ hs[n] = w
    <3> HIDE DEF Group, hs, w
    <3> QED BY <1>2, <2>2, <2>3, LastChanged
  <2> HIDE DEF hs, w, a, u, R
  <2>5. ASSUME NEW k \in 1 .. n
        PROVE  GoodGroup(base, hs[k]) /\ hs[k].first = gs[k].first
    <3>1. CASE k = n
      BY <2>1, <2>4, <3>1
    <3>2. CASE k # n
      <4>1. k \in 1 .. n - 1
        BY <1>3, <3>2
      <4> QED BY <2>4, <4>1 DEF Grouped
    <3> QED BY <3>1, <3>2
  <2>6. hs[1].first = Edit!FirstLine(base, a[1]) /\ \A i \in 2 .. m : E(i)
    <3>1. Len(hs) \in Nat /\ n <= Len(hs)
      BY <1>3, <2>4
    <3>2. \A k \in 1 .. n - 1 : hs[k].last = gs[k].last
      BY <2>4
    <3>3. KeepReplacements(us, a)
      BY <1>1 DEF KeepReplacements
    <3>4. KeepGroups(gs, hs)
      BY <2>5, <3>1, <3>2 DEF KeepGroups
    <3> QED BY <3>3, <3>4, StillGrouped
  <2>7. E(m + 1)
    <3>1. (m + 1) - 1 = m
      BY <1>1
    <3>2. Edit!FirstLine(base, r) <= Edit!LastLine(base, u)
      BY <1>5, <1>7
    <3>3. Edit!FirstLine(base, a[m + 1]) <= Edit!LastLine(base, a[(m + 1) - 1])
      BY <1>1, <3>1, <3>2
    <3> QED BY <3>3 DEF Between
  <2> HIDE DEF E
  <2>8. \A i \in 2 .. Len(a) : E(i)
    <3>1. \A i \in 2 .. m + 1 : i \in 2 .. m \/ i = m + 1
      BY <1>1
    <3> QED BY <1>1, <2>6, <2>7, <3>1
  <2>9. Len(hs) >= 1 /\ hs[Len(hs)] = w
    BY <1>2, <2>4
  <2>10. \A k \in 1 .. Len(hs) : GoodGroup(base, hs[k])
    BY <2>4, <2>5
  <2>11. hs[Len(hs)].last = Edit!LastLine(base, a[Len(a)]) /\ hs[Len(hs)].rs[Len(hs[Len(hs)].rs)] = a[Len(a)]
    BY <1>1, <2>1, <2>9
  <2>12. Grouped(base, a, hs)
    BY <2>4, <2>6, <2>8, <2>9, <2>10, <2>11 DEF Grouped, E
  <2> QED BY <2>12 DEF a, hs
<1>8. CASE ~(Edit!FirstLine(base, r) <= g.last)
  <2> DEFINE w == Alone(base, r)
  <2>1. GoodGroup(base, w)
    BY <1>4, GoodAlone
  <2>2. w \in Group /\ w.first = Edit!FirstLine(base, r) /\ w.last = Edit!LastLine(base, r) /\ w.rs = <<r>>
        /\ Len(<<r>>) = 1 /\ <<r>>[1] = r
    BY <2>1 DEF GoodGroup, Alone
  <2>3. hs = Append(gs, w)
    BY <1>3, <1>8 DEF Joined
  <2>4. hs \in Seq(Group) /\ Len(hs) = n + 1 /\ (\A k \in 1 .. n : hs[k] = gs[k]) /\ hs[n + 1] = w
    <3> HIDE DEF Group, hs, w
    <3> QED BY <1>2, <2>2, <2>3
  <2> HIDE DEF hs, w, a, u, R
  <2>5. ASSUME NEW k \in 1 .. n + 1 PROVE GoodGroup(base, hs[k])
    <3>1. CASE k = n + 1
      BY <2>1, <2>4, <3>1
    <3>2. CASE k # n + 1
      <4>1. k \in 1 .. n
        BY <1>3, <3>2
      <4> QED BY <2>4, <4>1 DEF Grouped
    <3> QED BY <3>1, <3>2
  <2>6. hs[1].first = Edit!FirstLine(base, a[1]) /\ \A i \in 2 .. m : E(i)
    <3>1. Len(hs) \in Nat /\ n <= Len(hs)
      BY <1>3, <2>4
    <3>2. \A k \in 1 .. n : hs[k].first = gs[k].first
      BY <2>4
    <3>3. \A k \in 1 .. n - 1 : hs[k].last = gs[k].last
      <4>1. \A k \in 1 .. n - 1 : k \in 1 .. n
        BY <1>3
      <4> QED BY <2>4, <4>1
    <3>4. KeepReplacements(us, a)
      BY <1>1 DEF KeepReplacements
    <3>5. KeepGroups(gs, hs)
      BY <3>1, <3>2, <3>3 DEF KeepGroups
    <3> QED BY <3>4, <3>5, StillGrouped
  <2>7. E(m + 1)
    <3>1. (m + 1) - 1 = m /\ n + 1 \in 2 .. Len(hs) /\ (n + 1) - 1 = n
      BY <1>1, <1>2, <1>3, <2>4
    <3>2. hs[n].last = Edit!LastLine(base, u)
      BY <1>3, <1>5, <2>4
    <3>3. hs[n + 1].first = Edit!FirstLine(base, r)
      BY <2>2, <2>4
    <3>4. hs[(n + 1) - 1].last = Edit!LastLine(base, a[(m + 1) - 1]) /\ hs[n + 1].first = Edit!FirstLine(base, a[m + 1])
      BY <1>1, <3>1, <3>2, <3>3
    <3> QED BY <3>1, <3>4 DEF Between
  <2> HIDE DEF E
  <2>8. \A i \in 2 .. Len(a) : E(i)
    <3>1. \A i \in 2 .. m + 1 : i \in 2 .. m \/ i = m + 1
      BY <1>1
    <3> QED BY <1>1, <2>6, <2>7, <3>1
  <2>9. Len(hs) >= 1 /\ hs[Len(hs)] = w
    BY <1>3, <2>4
  <2>10. \A k \in 1 .. Len(hs) : GoodGroup(base, hs[k])
    BY <2>4, <2>5
  <2>11. hs[Len(hs)].last = Edit!LastLine(base, a[Len(a)]) /\ hs[Len(hs)].rs[Len(hs[Len(hs)].rs)] = a[Len(a)]
    BY <1>1, <2>2, <2>9
  <2>12. Grouped(base, a, hs)
    BY <2>4, <2>6, <2>8, <2>9, <2>10, <2>11 DEF Grouped, E
  <2> QED BY <2>12 DEF a, hs
<1> QED BY <1>7, <1>8

(* The groups of all of them.                                              *)
LEMMA GroupedAll ==
    ASSUME NEW base \in Text, NEW rs, Placed(base, rs), Len(rs) >= 1
    PROVE  Grouped(base, rs, Edit!Groups(base, rs))
<1> DEFINE R == Replacements(Edit!Chars)
           W(us) == Walked(joining(base), <<>>, us)
           Good(us) == Placed(base, us) /\ Len(us) >= 1 => Grouped(base, us, W(us))
           T == {us \in Seq(R) : Good(us)}
<1>0. <<>> \in Seq(Group) /\ <<>> \in Seq(R) /\ Len(<<>>) = 0
  <2> HIDE DEF Group, R
  <2> QED OBVIOUS
<1>1. /\ W(<<>>) = <<>>
      /\ \A us \in Seq(R) : \A r \in R : W(Append(us, r)) = Joined(base, W(us), r)
  <2> DEFINE Q == Seq(Group)
             step == joining(base)
  <2>1. step \in Steps(Q, R) /\ \A gs \in Q, r \in R : step[<<gs, r>>] = Joined(base, gs, r)
    BY JoiningSteps
  <2> HIDE DEF Q, R, step
  <2>2. <<>> \in Q
    BY <1>0 DEF Q
  <2>3. /\ Walked(step, <<>>, <<>>) = <<>>
        /\ \A s \in Seq(R) : Walked(step, <<>>, s) \in Q
        /\ \A s \in Seq(R) : \A e \in R : Walked(step, <<>>, Append(s, e)) = step[<<Walked(step, <<>>, s), e>>]
    BY <2>1, <2>2, WalkedSteps
  <2>4. \A us \in Seq(R) : \A r \in R : Walked(step, <<>>, Append(us, r)) = Joined(base, Walked(step, <<>>, us), r)
    BY <2>1, <2>3
  <2> QED BY <2>3, <2>4 DEF step
<1> HIDE DEF W
<1>2. <<>> \in T
  <2>1. Good(<<>>)
    BY <1>0
  <2> QED BY <1>0, <2>1
<1>3. ASSUME NEW us \in T, NEW r \in R PROVE Append(us, r) \in T
  <2> DEFINE a == Append(us, r)
  <2>1. us \in Seq(R) /\ Good(us) /\ r \in R
    OBVIOUS
  <2>2. a \in Seq(R) /\ Len(a) = Len(us) + 1 /\ Len(us) \in Nat /\ (Len(us) = 0 => us = <<>>)
    <3> HIDE DEF R, T, Good
    <3> QED BY <2>1
  <2> HIDE DEF a
  <2>3. ASSUME Placed(base, a) PROVE Grouped(base, a, W(a))
    <3>1. W(a) = Joined(base, W(us), r)
      <4> HIDE DEF R
      <4> QED BY <1>1, <2>1 DEF a
    <3>2. Placed(base, us) /\ Stands(base, r)
      <4>1. us \in Seq(Replacements(Edit!Chars)) /\ r \in Replacements(Edit!Chars) /\ Placed(base, Append(us, r))
        BY <2>1, <2>3 DEF a
      <4> QED BY <4>1, PlacedMore
    <3>3. CASE Len(us) >= 1
      <4>1. Grouped(base, us, W(us))
        BY <2>1, <3>2, <3>3
      <4>2. Grouped(base, Append(us, r), Joined(base, W(us), r))
        <5>1. us \in Seq(Replacements(Edit!Chars)) /\ r \in Replacements(Edit!Chars) /\ Placed(base, Append(us, r))
          BY <2>1, <2>3 DEF a
        <5> QED BY <3>3, <4>1, <5>1, GroupedMore
      <4> QED BY <3>1, <4>2 DEF a
    <3>4. CASE ~(Len(us) >= 1)
      <4> DEFINE w == Alone(base, r)
                 hs == <<w>>
      <4>1. us = <<>> /\ W(us) = <<>>
        <5>1. us = <<>>
          BY <2>2, <3>4
        <5> QED BY <1>1, <5>1
      <4>2. W(a) = hs
        <5>1. Joined(base, <<>>, r) = Append(<<>>, w)
          BY DEF Joined
        <5>2. Append(<<>>, w) = hs
          OBVIOUS
        <5> QED BY <3>1, <4>1, <5>1, <5>2
      <4>3. a = <<r>> /\ Len(a) = 1 /\ a[1] = r
        <5>1. a = Append(<<>>, r)
          BY <4>1 DEF a
        <5>2. Append(<<>>, r) = <<r>> /\ Len(<<r>>) = 1 /\ <<r>>[1] = r
          OBVIOUS
        <5> QED BY <5>1, <5>2
      <4>4. GoodGroup(base, w)
        BY <3>2, GoodAlone
      <4>5. w \in Group /\ w.first = Edit!FirstLine(base, r) /\ w.last = Edit!LastLine(base, r) /\ w.rs = <<r>>
        BY <4>4 DEF GoodGroup, Alone
      <4> HIDE DEF w
      <4>6. hs \in Seq(Group) /\ Len(hs) = 1 /\ hs[1] = w
        <5> HIDE DEF Group
        <5> QED BY <4>5
      <4> HIDE DEF hs
      <4>7. hs[1].rs[Len(hs[1].rs)] = r
        <5>1. Len(<<r>>) = 1 /\ <<r>>[1] = r
          BY <4>3
        <5> QED BY <4>5, <4>6, <5>1
      <4>8. 1 .. 1 = {1} /\ 2 .. 1 = {}
        OBVIOUS
      <4>9. \A k \in 1 .. Len(hs) : GoodGroup(base, hs[k])
        BY <4>4, <4>6, <4>8
      <4>10. Grouped(base, a, hs)
        BY <4>3, <4>5, <4>6, <4>7, <4>8, <4>9 DEF Grouped
      <4> QED BY <4>2, <4>10
    <3> QED BY <3>3, <3>4
  <2>4. Good(a)
    BY <2>3
  <2> QED BY <2>2, <2>4 DEF a
<1>4. T \in SUBSET Seq(R)
  OBVIOUS
<1> HIDE DEF T, R
<1>5. T = Seq(R)
  BY <1>2, <1>3, <1>4, SeqInduction
<1>6. rs \in Seq(R)
  BY DEF Placed, R
<1>7. Good(rs)
  BY <1>5, <1>6 DEF T
<1>8. Edit!Groups(base, rs) = W(rs)
  BY <1>6, GroupsWalk DEF W, R
<1> QED BY <1>7, <1>8

-----------------------------------------------------------------------------
(* The groups rewritten, one after the other.                              *)

Moved(ts, s) == [i \in DOMAIN ts |-> [ts[i] EXCEPT !.at = @ - s + 1]]
Rewritten(base, g) ==
    Edit!ApplyReplacements(Edit!LinesOf(base, g.first, g.last + 1), Moved(g.rs, Edit!LineStart(base, g.first)))

(* A replacement at its place within the lines of its group.               *)
LEMMA MovedFacts ==
    ASSUME NEW ts \in Seq(Replacements(Edit!Chars)), NEW s \in Nat,
           \A k \in 1 .. Len(ts) : s <= ts[k].at
    PROVE  /\ Moved(ts, s) \in Seq(Replacements(Edit!Chars)) /\ Len(Moved(ts, s)) = Len(ts)
           /\ \A k \in 1 .. Len(ts) : /\ Moved(ts, s)[k].at = ts[k].at - s + 1
                                      /\ Moved(ts, s)[k].len = ts[k].len
<1> DEFINE R == Replacements(Edit!Chars)
           n == Len(ts)
           ms == Moved(ts, s)
           m(k) == [ts[k] EXCEPT !.at = @ - s + 1]
<1>1. n \in Nat /\ DOMAIN ts = 1 .. n /\ \A k \in 1 .. n : ts[k] \in R
  <2> HIDE DEF R
  <2>1. ts \in Seq(R)
    BY DEF R
  <2> QED BY <2>1, ElementsIn
<1>2. ASSUME NEW k \in 1 .. n
      PROVE  m(k) \in R /\ m(k).at = ts[k].at - s + 1 /\ m(k).len = ts[k].len
  <2>1. ts[k] \in R /\ s <= ts[k].at
    BY <1>1
  <2>2. ts[k].at \in Nat /\ ts[k].at - s + 1 \in Nat
    BY <2>1 DEF Replacements
  <2> QED BY <2>1, <2>2 DEF Replacements
<1>3. ms = [k \in 1 .. n |-> m(k)]
  BY <1>1 DEF Moved
<1> HIDE DEF R, ms, m, n
<1>4. ms \in Seq(R) /\ Len(ms) = n /\ \A k \in 1 .. n : ms[k] = m(k)
  BY <1>1, <1>2, <1>3
<1>5. \A k \in 1 .. n : ms[k].at = ts[k].at - s + 1 /\ ms[k].len = ts[k].len
  BY <1>2, <1>4
<1> QED BY <1>4, <1>5 DEF R, ms, n

(* What is made of the lines of a group.                                   *)
LEMMA RewrittenTyped ==
    ASSUME NEW base \in Text, NEW g, GoodGroup(base, g)
    PROVE  Rewritten(base, g) \in Text
<1> DEFINE C == Edit!Chars
           ts == g.rs
           n == Len(ts)
           p == Edit!LineStart(base, g.first)
           q == Edit!LineStart(base, g.last + 1)
           l == Edit!LinesOf(base, g.first, g.last + 1)
           ms == Moved(ts, p)
<1>1. g \in Group /\ Placed(base, ts) /\ n >= 1
      /\ \A k \in 1 .. n : p <= ts[k].at /\ Edit!LastLine(base, ts[k]) <= g.last
  BY DEF GoodGroup
<1>2. ts \in Seq(Replacements(C)) /\ g.first \in Nat /\ g.last \in Nat /\ g.last + 1 \in Nat
  BY <1>1 DEF Group
<1>3. Len(base) \in Nat
  BY DEF Text
<1>4. p \in 1 .. Len(base) + 1 /\ q \in 1 .. Len(base) + 1
  BY <1>2, LineStarts
<1>5. l \in Text /\ p - 1 \in Nat /\ q - 1 \in Nat /\ q - 1 <= Len(base) /\ l = SubSeq(base, (p - 1) + 1, q - 1)
  <2> DEFINE f == g.first
             e == g.last + 1
  <2>1. f \in Nat /\ e \in Nat
    BY <1>2
  <2> HIDE DEF f, e
  <2>2. /\ Edit!LinesOf(base, f, e) \in Text
        /\ Edit!LineStart(base, f) - 1 \in Nat
        /\ Edit!LineStart(base, e) - 1 \in Nat /\ Edit!LineStart(base, e) - 1 <= Len(base)
        /\ Edit!LinesOf(base, f, e) = SubSeq(base, (Edit!LineStart(base, f) - 1) + 1, Edit!LineStart(base, e) - 1)
    BY <2>1, LinesTyped
  <2> QED BY <2>2 DEF f, e
<1>6. ASSUME NEW k \in 1 .. n
      PROVE  /\ ts[k].at \in Nat /\ ts[k].len \in Nat /\ p <= ts[k].at /\ ts[k].at - 1 + ts[k].len < q
  <2>1. /\ ts[k].at \in Nat /\ ts[k].len \in Nat /\ Ends(ts, k) = ts[k].at - 1 + ts[k].len
        /\ \A m \in Nat : Edit!LastLine(base, ts[k]) <= m => Ends(ts, k) < Edit!LineStart(base, m + 1)
    BY <1>1, PlacedFacts
  <2>2. Ends(ts, k) < q
    BY <1>1, <1>2, <2>1
  <2> QED BY <1>1, <2>1, <2>2
<1> HIDE DEF p, q, l
<1>7. p \in Nat /\ q \in Nat
  BY <1>3, <1>4
<1>8. n \in Nat /\ 1 \in 1 .. n
  <2> HIDE DEF C, ts
  <2>1. n \in Nat
    BY <1>2
  <2> QED BY <1>1, <2>1
<1>9. p <= q
  <2>1. ts[1].at \in Nat /\ ts[1].len \in Nat /\ p <= ts[1].at /\ ts[1].at - 1 + ts[1].len < q
    BY <1>6, <1>8
  <2> QED BY <1>7, <2>1
<1>10. Len(l) = q - p
  <2> DEFINE a == p - 1
             b == q - 1
  <2>1. a \in Nat /\ b \in Nat /\ b <= Len(base) /\ a <= b /\ b - a = q - p
    BY <1>5, <1>7, <1>9
  <2>2. l = SubSeq(base, a + 1, b)
    BY <1>5
  <2> HIDE DEF a, b
  <2>3. Len(SubSeq(base, a + 1, b)) = IF a <= b THEN b - a ELSE 0
    BY <2>1, PartFacts DEF Text
  <2> QED BY <2>1, <2>2, <2>3
<1>11. /\ ms \in Seq(Replacements(C)) /\ Len(ms) = n
       /\ \A k \in 1 .. n : ms[k].at = ts[k].at - p + 1 /\ ms[k].len = ts[k].len
  <2>1. \A k \in 1 .. n : p <= ts[k].at
    BY <1>6
  <2> HIDE DEF ts
  <2> QED BY <1>2, <1>7, <2>1, MovedFacts
<1> HIDE DEF ms
<1>12. \A k \in 1 .. n : ms[k].at >= 1 /\ ms[k].at - 1 + ms[k].len <= Len(l)
  <2> SUFFICES ASSUME NEW k \in 1 .. n PROVE ms[k].at >= 1 /\ ms[k].at - 1 + ms[k].len <= Len(l)
    OBVIOUS
  <2>1. ms[k].at = ts[k].at - p + 1 /\ ms[k].len = ts[k].len
    BY <1>11
  <2>2. ts[k].at \in Nat /\ ts[k].len \in Nat /\ p <= ts[k].at /\ ts[k].at - 1 + ts[k].len < q
    BY <1>6
  <2> DEFINE x == ts[k].at
             y == ts[k].len
             z == Len(l)
  <2>3. ms[k].at = x - p + 1 /\ ms[k].len = y /\ x \in Nat /\ y \in Nat /\ p <= x /\ x - 1 + y < q /\ z = q - p
    BY <1>10, <2>1, <2>2
  <2> HIDE DEF x, y, z
  <2>4. x - p + 1 >= 1 /\ (x - p + 1) - 1 + y <= z
    BY <1>7, <2>3
  <2> QED BY <2>3, <2>4 DEF z
<1>13. Apart(ms)
  <2> SUFFICES ASSUME NEW i \in 2 .. n PROVE ~(ms[i].at < ms[i - 1].at + ms[i - 1].len)
    BY <1>11 DEF Apart
  <2>1. i \in 1 .. n /\ i - 1 \in 1 .. n
    BY <1>8
  <2>2. ~(ts[i].at < ts[i - 1].at + ts[i - 1].len)
    BY <1>1 DEF Placed, Apart
  <2>3. ts[i].at \in Nat /\ ts[i - 1].at \in Nat /\ ts[i - 1].len \in Nat
    BY <1>6, <2>1
  <2>4. ms[i].at = ts[i].at - p + 1 /\ ms[i - 1].at = ts[i - 1].at - p + 1 /\ ms[i - 1].len = ts[i - 1].len
    BY <1>11, <2>1
  <2> DEFINE x == ts[i].at
             y == ts[i - 1].at
             z == ts[i - 1].len
  <2>5. ms[i].at = x - p + 1 /\ ms[i - 1].at = y - p + 1 /\ ms[i - 1].len = z
        /\ x \in Nat /\ y \in Nat /\ z \in Nat /\ ~(x < y + z)
    BY <2>2, <2>3, <2>4
  <2> HIDE DEF x, y, z
  <2>6. ~(x - p + 1 < (y - p + 1) + z)
    BY <1>7, <2>5
  <2> QED BY <2>5, <2>6
<1>14. l \in Seq(C)
  BY <1>5 DEF Text
<1>15. Edit!ApplyReplacements(l, ms) \in Seq(C)
  <2> HIDE DEF C
  <2>1. \A i \in 1 .. Len(ms) : ms[i].at >= 1 /\ ms[i].at - 1 + ms[i].len <= Len(l)
    BY <1>11, <1>12
  <2>2. Cuts(l, ms)
    BY <1>11, <1>13, <1>14, <2>1, ApartCuts
  <2> QED BY <1>11, <1>14, <2>2, Splices
<1> QED BY <1>15 DEF Rewritten, Text, l, ms, p

(* One step of the rewriting.                                              *)
Written == [text : Text, line : Nat]
Wrote(c, base, acc, g) ==
    [text |-> acc.text \o Edit!LinesOf(c, acc.line, g.first) \o Rewritten(base, g), line |-> g.last + 1]
GoodGroups(base) == {g \in Group : GoodGroup(base, g)}
writing(c, base) == [x \in Written \X GoodGroups(base) |-> Wrote(c, base, x[1], x[2])]
Unwritten == [text |-> <<>>, line |-> 1]

(* What it writes is a text, in three parts.                               *)
LEMMA WrotePart ==
    ASSUME NEW c \in Text, NEW base \in Text, NEW acc \in Written, NEW g \in GoodGroups(base)
    PROVE  /\ acc.text \in Text /\ Edit!LinesOf(c, acc.line, g.first) \in Text /\ Rewritten(base, g) \in Text
           /\ Wrote(c, base, acc, g) \in Written
           /\ Wrote(c, base, acc, g).line = g.last + 1
           /\ Wrote(c, base, acc, g).text = acc.text \o Edit!LinesOf(c, acc.line, g.first) \o Rewritten(base, g)
<1>1. acc.text \in Text /\ acc.line \in Nat
  BY DEF Written
<1>2. GoodGroup(base, g) /\ g.first \in Nat /\ g.last + 1 \in Nat
  BY DEF GoodGroups, Group
<1>3. Rewritten(base, g) \in Text
  BY <1>2, RewrittenTyped
<1>4. Edit!LinesOf(c, acc.line, g.first) \in Text
  BY <1>1, <1>2, LinesTyped
<1>5. acc.text \o Edit!LinesOf(c, acc.line, g.first) \in Text
  BY <1>1, <1>4, StillThere
<1>6. acc.text \o Edit!LinesOf(c, acc.line, g.first) \o Rewritten(base, g) \in Text
  <2> DEFINE t == acc.text \o Edit!LinesOf(c, acc.line, g.first)
  <2> HIDE DEF t
  <2>1. t \in Text
    BY <1>5 DEF t
  <2>2. t \o Rewritten(base, g) \in Text
    BY <1>3, <2>1, StillThere
  <2> QED BY <2>2 DEF t
<1> QED BY <1>1, <1>2, <1>3, <1>4, <1>6 DEF Wrote, Written

(* It is a step of a walk over the groups.                                 *)
LEMMA WritingSteps ==
    ASSUME NEW c \in Text, NEW base \in Text
    PROVE  /\ writing(c, base) \in Steps(Written, GoodGroups(base))
           /\ \A acc \in Written, g \in GoodGroups(base) :
                writing(c, base)[<<acc, g>>] = Wrote(c, base, acc, g)
           /\ Unwritten \in Written
<1> DEFINE G == GoodGroups(base)
<1>1. \A acc \in Written, g \in G : Wrote(c, base, acc, g) \in Written
  BY WrotePart
<1>2. Unwritten \in Written
  <2>1. <<>> \in Text
    BY EmptyHeld
  <2> QED BY <2>1 DEF Unwritten, Written
<1> DEFINE W == Written
<1> HIDE DEF G, W
<1>3. writing(c, base) = [x \in W \X G |-> Wrote(c, base, x[1], x[2])]
  BY DEF writing, G, W
<1>4. \A acc \in W, g \in G : Wrote(c, base, acc, g) \in W
  BY <1>1 DEF W
<1>5. /\ writing(c, base) \in [W \X G -> W]
      /\ \A acc \in W, g \in G : writing(c, base)[<<acc, g>>] = Wrote(c, base, acc, g)
  BY <1>3, <1>4
<1> QED BY <1>2, <1>5 DEF Steps, G, W

(* A fuzzy call is a walk of that step over its groups.                    *)
LEMMA WritingWalk ==
    ASSUME NEW c \in Text, NEW base \in Text, NEW rs, Edit!Groups(base, rs) \in Seq(GoodGroups(base)),
           NEW d, d = Walked(writing(c, base), Unwritten, Edit!Groups(base, rs))
    PROVE  Edit!ApplyPreservingLines(c, base, rs)
             = d.text \o Edit!LinesOf(c, d.line, Edit!LineCount(c) + 1)
<1> DEFINE G == GoodGroups(base)
           gs == Edit!Groups(base, rs)
           step == writing(c, base)
           n == Len(gs)
           F(h) == h = [i \in 0 .. n |-> IF i = 0 THEN Unwritten ELSE Wrote(c, base, h[i - 1], gs[i])]
           walk == CHOOSE h : F(h)
<1>1. Edit!ApplyPreservingLines(c, base, rs)
        = walk[n].text \o Edit!LinesOf(c, walk[n].line, Edit!LineCount(c) + 1)
  BY Zenon DEF Edit!ApplyPreservingLines, Edit!Through, Wrote, Rewritten, Moved, Unwritten
<1>2. step \in Steps(Written, G) /\ \A acc \in Written, g \in G : step[<<acc, g>>] = Wrote(c, base, acc, g)
  BY WritingSteps
<1>0. Unwritten \in Written /\ gs \in Seq(G)
  BY WritingSteps
<1> HIDE DEF step, G, gs
<1>3. PICK h : /\ h = [i \in 0 .. n |-> IF i = 0 THEN Unwritten ELSE step[<<h[i - 1], gs[i]>>]]
               /\ \A i \in 1 .. n : h[i - 1] \in Written /\ gs[i] \in G
  BY <1>0, <1>2, WalkGiven
<1>4. n \in Nat /\ \A i \in 0 .. n : i = 0 \/ i \in 1 .. n
  BY <1>0
<1>5. F(h)
  <2>1. \A i \in 1 .. n : step[<<h[i - 1], gs[i]>>] = Wrote(c, base, h[i - 1], gs[i])
    BY <1>2, <1>3
  <2> HIDE DEF n
  <2>2. [i \in 0 .. n |-> IF i = 0 THEN Unwritten ELSE step[<<h[i - 1], gs[i]>>]]
          = [i \in 0 .. n |-> IF i = 0 THEN Unwritten ELSE Wrote(c, base, h[i - 1], gs[i])]
    BY <1>4, <2>1
  <2> QED BY <1>3, <2>2, Zenon
<1>6. F(walk)
  <2> HIDE DEF F
  <2> QED BY <1>5, Zenon DEF walk
<1> HIDE DEF walk
<1>7. /\ walk[0] = Unwritten
      /\ \A i \in 1 .. n : walk[i] = Wrote(c, base, walk[i - 1], gs[i])
  <2> HIDE DEF n
  <2> QED BY <1>4, <1>6
<1> HIDE DEF F
<1>8. \A i \in 1 .. n : walk[i - 1] \in Written => walk[i] = step[<<walk[i - 1], gs[i]>>]
  BY <1>2, <1>3, <1>7
<1>9. Obeys(walk, Written, step, Unwritten, gs, Len(gs))
  BY <1>7, <1>8 DEF Obeys
<1>10. walk[n] = Walked(step, Unwritten, gs)
  BY <1>0, <1>2, <1>9, WalkedIsEnd
<1> QED BY <1>1, <1>10 DEF step, gs

(* The lines before the first group and those between two of them are in   *)
(* what is written.                                                        *)
LinesWritten(c, gs, d) ==
    /\ d \in Written
    /\ Len(gs) >= 1 => /\ d.line = gs[Len(gs)].last + 1
                       /\ Begins(Edit!LinesOf(c, 1, gs[1].first), d.text)
    /\ \A k \in 2 .. Len(gs) : Holds(Edit!LinesOf(c, gs[k - 1].last + 1, gs[k].first), d.text)

(* One more group leaves what is written where it is, and writes the lines *)
(* before it.                                                              *)
LEMMA WroteMore ==
    ASSUME NEW c \in Text, NEW base \in Text, NEW acc \in Written, NEW g \in GoodGroups(base),
           NEW t, t = Wrote(c, base, acc, g).text
    PROVE  /\ t \in Text
           /\ \A s \in Text : Begins(s, acc.text) => Begins(s, t)
           /\ \A s \in Text : Holds(s, acc.text) => Holds(s, t)
           /\ Holds(Edit!LinesOf(c, acc.line, g.first), t)
           /\ acc.text = <<>> => Begins(Edit!LinesOf(c, acc.line, g.first), t)
<1> DEFINE a == acc.text
           l == Edit!LinesOf(c, acc.line, g.first)
           w == Rewritten(base, g)
           al == a \o l
<1>1. a \in Text /\ l \in Text /\ w \in Text /\ t = al \o w
  BY WrotePart
<1> HIDE DEF a, l, w
<1>2. al \in Text /\ t \in Text
  <2>1. al \in Text
    BY <1>1, StillThere
  <2> HIDE DEF al
  <2>2. al \o w \in Text
    BY <1>1, <2>1, StillThere
  <2> QED BY <1>1, <2>1, <2>2
<1>3. Begins(a, al) /\ Holds(a, al) /\ Holds(l, al)
  <2>1. Begins(a, a) /\ Holds(a, a) /\ Holds(l, l)
    BY <1>1, StillThere
  <2>2. Begins(a, a \o l) /\ Holds(a, a \o l)
    BY <1>1, <2>1, StillThere
  <2>3. Holds(l, a \o l)
    BY <1>1, <2>1, StillThere
  <2> QED BY <2>2, <2>3
<1>4. a = <<>> => Begins(l, al)
  <2>1. <<>> \o l = l
    BY <1>1, ConcatEmptySeq DEF Text
  <2>2. Begins(l, l)
    BY <1>1, StillThere
  <2> QED BY <2>1, <2>2
<1> HIDE DEF al
<1>5. Begins(al, t) /\ Holds(al, t)
  <2>1. Begins(al, al) /\ Holds(al, al)
    BY <1>2, StillThere
  <2>2. Begins(al, al \o w) /\ Holds(al, al \o w)
    BY <1>1, <1>2, <2>1, StillThere
  <2> QED BY <1>1, <2>2
<1>6. Begins(a, t) /\ Holds(a, t) /\ Holds(l, t) /\ (a = <<>> => Begins(l, t))
  <2>1. Begins(a, t) /\ Holds(a, t)
    BY <1>1, <1>2, <1>3, <1>5, ThereToo
  <2>2. Holds(l, t) /\ (a = <<>> => Begins(l, t))
    BY <1>1, <1>2, <1>3, <1>4, <1>5, ThereToo
  <2> QED BY <2>1, <2>2
<1>7. ASSUME NEW s \in Text PROVE (Begins(s, a) => Begins(s, t)) /\ (Holds(s, a) => Holds(s, t))
  BY <1>1, <1>2, <1>6, ThereToo
<1> QED BY <1>2, <1>6, <1>7 DEF a, l

(* So what was said of the lines stays true, and holds of one group more.  *)
LEMMA LinesWrittenMore ==
    ASSUME NEW c \in Text, NEW base \in Text, NEW gs \in Seq(GoodGroups(base)), NEW g \in GoodGroups(base),
           NEW acc, LinesWritten(c, gs, acc), Len(gs) = 0 => acc = Unwritten
    PROVE  LinesWritten(c, Append(gs, g), Wrote(c, base, acc, g))
<1> DEFINE G == GoodGroups(base)
           n == Len(gs)
           hs == Append(gs, g)
           d == Wrote(c, base, acc, g)
           L(k) == Edit!LinesOf(c, hs[k - 1].last + 1, hs[k].first)
<1>0. acc \in Written
  BY DEF LinesWritten
<1>1. /\ n \in Nat /\ Len(hs) = n + 1 /\ (\A k \in 1 .. n : hs[k] = gs[k] /\ gs[k] \in G) /\ hs[n + 1] = g
  <2> HIDE DEF G
  <2>1. gs \in Seq(G) /\ g \in G
    BY DEF G
  <2> QED BY <2>1
<1>2. \A x \in G : x.first \in Nat /\ x.last \in Nat /\ x.last + 1 \in Nat
  BY DEF GoodGroups, Group
<1>3. d \in Written /\ d.line = g.last + 1
  BY <1>0, WrotePart
<1> DEFINE t == d.text
           l == Edit!LinesOf(c, acc.line, g.first)
<1>4. /\ \A s \in Text : Begins(s, acc.text) => Begins(s, t)
      /\ \A s \in Text : Holds(s, acc.text) => Holds(s, t)
      /\ Holds(l, t) /\ (acc.text = <<>> => Begins(l, t))
  BY <1>0, WroteMore
<1> HIDE DEF hs, d, G
<1>5. Begins(Edit!LinesOf(c, 1, hs[1].first), t)
  <2>1. CASE n = 0
    <3>1. acc.text = <<>> /\ acc.line = 1 /\ hs[1] = g
      BY <1>1, <2>1 DEF Unwritten
    <3> QED BY <1>4, <3>1
  <2>2. CASE n # 0
    <3>1. n >= 1 /\ 1 \in 1 .. n
      BY <1>1, <2>2
    <3>2. hs[1] = gs[1] /\ gs[1].first \in Nat /\ Begins(Edit!LinesOf(c, 1, gs[1].first), acc.text)
      BY <1>1, <1>2, <3>1 DEF LinesWritten
    <3>3. Edit!LinesOf(c, 1, gs[1].first) \in Text
      BY <3>2, LinesTyped
    <3> QED BY <1>4, <3>2, <3>3
  <2> QED BY <2>1, <2>2
<1>6. ASSUME NEW k \in 2 .. n + 1 PROVE Holds(L(k), t)
  <2>1. CASE k = n + 1
    <3>1. k - 1 = n /\ n \in 1 .. n /\ n >= 1
      BY <1>1, <2>1
    <3>2. hs[k - 1] = gs[n] /\ hs[k] = g /\ acc.line = gs[n].last + 1
      BY <1>1, <2>1, <3>1 DEF LinesWritten
    <3> QED BY <1>4, <3>2
  <2>2. CASE k # n + 1
    <3>1. k \in 2 .. n /\ k \in 1 .. n /\ k - 1 \in 1 .. n
      BY <1>1, <2>2
    <3>2. hs[k - 1] = gs[k - 1] /\ hs[k] = gs[k] /\ gs[k - 1] \in G /\ gs[k] \in G
      BY <1>1, <3>1
    <3>3. Holds(Edit!LinesOf(c, gs[k - 1].last + 1, gs[k].first), acc.text)
      BY <3>1 DEF LinesWritten
    <3>4. gs[k - 1].last + 1 \in Nat /\ gs[k].first \in Nat
      BY <1>2, <3>2
    <3>5. Edit!LinesOf(c, gs[k - 1].last + 1, gs[k].first) \in Text
      <4> DEFINE x == gs[k - 1].last + 1
                 y == gs[k].first
      <4>1. x \in Nat /\ y \in Nat
        BY <3>4
      <4> HIDE DEF x, y
      <4>2. Edit!LinesOf(c, x, y) \in Text
        BY <4>1, LinesTyped
      <4> QED BY <4>2 DEF x, y
    <3>6. Holds(Edit!LinesOf(c, gs[k - 1].last + 1, gs[k].first), t)
      BY <1>4, <3>3, <3>5
    <3> QED BY <3>2, <3>6
  <2> QED BY <2>1, <2>2
<1>7. d.line = hs[Len(hs)].last + 1
  BY <1>1, <1>3
<1>8. LinesWritten(c, hs, d)
  BY <1>1, <1>3, <1>5, <1>6, <1>7 DEF LinesWritten
<1> QED BY <1>8 DEF hs, d

(* And so of all groups.                                                   *)
LEMMA LinesWrittenAll ==
    ASSUME NEW c \in Text, NEW base \in Text, NEW gs \in Seq(GoodGroups(base))
    PROVE  LinesWritten(c, gs, Walked(writing(c, base), Unwritten, gs))
<1> DEFINE G == GoodGroups(base)
           W(us) == Walked(writing(c, base), Unwritten, us)
           T == {us \in Seq(G) : LinesWritten(c, us, W(us))}
<1>1. /\ W(<<>>) = Unwritten
      /\ \A us \in Seq(G) : \A g \in G : W(us) \in Written /\ W(Append(us, g)) = Wrote(c, base, W(us), g)
  <2> DEFINE step == writing(c, base)
  <2>1. /\ step \in Steps(Written, G) /\ Unwritten \in Written
        /\ \A acc \in Written, g \in G : step[<<acc, g>>] = Wrote(c, base, acc, g)
    BY WritingSteps
  <2> HIDE DEF G, step
  <2>2. /\ Walked(step, Unwritten, <<>>) = Unwritten
        /\ \A s \in Seq(G) : Walked(step, Unwritten, s) \in Written
        /\ \A s \in Seq(G) : \A e \in G : Walked(step, Unwritten, Append(s, e)) = step[<<Walked(step, Unwritten, s), e>>]
    BY <2>1, WalkedSteps
  <2>3. \A us \in Seq(G) : \A g \in G : Walked(step, Unwritten, Append(us, g)) = Wrote(c, base, Walked(step, Unwritten, us), g)
    BY <2>1, <2>2
  <2> QED BY <2>2, <2>3 DEF step
<1> HIDE DEF W
<1>2. <<>> \in T
  <2>1. <<>> \in Seq(G) /\ Len(<<>>) = 0 /\ 2 .. 0 = {}
    <3> HIDE DEF G
    <3> QED OBVIOUS
  <2>2. Unwritten \in Written
    BY WritingSteps
  <2>3. LinesWritten(c, <<>>, W(<<>>))
    BY <1>1, <2>1, <2>2 DEF LinesWritten
  <2> QED BY <2>1, <2>3
<1>3. ASSUME NEW us \in T, NEW g \in G PROVE Append(us, g) \in T
  <2>1. us \in Seq(G) /\ LinesWritten(c, us, W(us)) /\ g \in G
    OBVIOUS
  <2> HIDE DEF T
  <2>2. Append(us, g) \in Seq(G) /\ (Len(us) = 0 => us = <<>>)
    <3> HIDE DEF G
    <3> QED BY <2>1
  <2>3. Len(us) = 0 => W(us) = Unwritten
    BY <1>1, <2>2
  <2> DEFINE d == W(us)
  <2>4. LinesWritten(c, us, d) /\ (Len(us) = 0 => d = Unwritten) /\ us \in Seq(GoodGroups(base)) /\ g \in GoodGroups(base)
    BY <2>1, <2>3
  <2>5. W(Append(us, g)) = Wrote(c, base, d, g)
    BY <1>1, <2>1
  <2> HIDE DEF d
  <2>6. LinesWritten(c, Append(us, g), Wrote(c, base, d, g))
    BY <2>4, LinesWrittenMore
  <2>7. LinesWritten(c, Append(us, g), W(Append(us, g)))
    BY <2>5, <2>6
  <2> QED BY <2>2, <2>7 DEF T
<1>4. T \in SUBSET Seq(G)
  OBVIOUS
<1> HIDE DEF T, G
<1>5. T = Seq(G)
  BY <1>2, <1>3, <1>4, SeqInduction
<1>6. gs \in T
  BY <1>5 DEF G
<1> QED BY <1>6 DEF T, W

(* A fuzzy call keeps the lines that it does not touch.                    *)
LEMMA FuzzyKeepsLines ==
    ASSUME NEW c \in Text, NEW base \in Text, NEW rs, Placed(base, rs), Len(rs) >= 1,
           NEW text, text = Edit!ApplyPreservingLines(c, base, rs)
    PROVE  text \in Text /\ KeepsLines(c, base, rs, text)
<1> DEFINE gs == Edit!Groups(base, rs)
           n == Len(gs)
           m == Len(rs)
           d == Walked(writing(c, base), Unwritten, gs)
           first(i) == Edit!FirstLine(base, rs[i])
           last(i) == Edit!LastLine(base, rs[i])
           z == Edit!LineCount(c) + 1
           l == Edit!LinesOf(c, d.line, z)
<1>1. Grouped(base, rs, gs)
  BY GroupedAll
<1>2. gs \in Seq(GoodGroups(base)) /\ n \in Nat /\ n >= 1
  <2> DEFINE G == GoodGroups(base)
  <2>1. gs \in Seq(Group) /\ n >= 1 /\ \A k \in 1 .. n : GoodGroup(base, gs[k])
    BY <1>1 DEF Grouped
  <2>2. \A k \in 1 .. n : gs[k] \in G
    BY <2>1 DEF GoodGroups, GoodGroup
  <2> HIDE DEF G, Group, gs
  <2>3. n \in Nat /\ gs = [k \in 1 .. n |-> gs[k]]
    BY <2>1
  <2>4. gs \in Seq(G)
    BY <2>2, <2>3
  <2> QED BY <2>1, <2>3, <2>4 DEF G
<1>3. text = d.text \o l
  BY <1>2, WritingWalk
<1>4. LinesWritten(c, gs, d)
  BY <1>2, LinesWrittenAll
<1> HIDE DEF gs, d
<1>5. /\ d.text \in Text /\ d.line \in Nat /\ d.line = gs[n].last + 1
      /\ Begins(Edit!LinesOf(c, 1, gs[1].first), d.text)
      /\ \A k \in 2 .. n : Holds(Edit!LinesOf(c, gs[k - 1].last + 1, gs[k].first), d.text)
  BY <1>2, <1>4 DEF LinesWritten, Written
<1>6. gs[1].first = first(1) /\ gs[n].last = last(m)
  BY <1>1 DEF Grouped
<1>7. m \in Nat /\ 1 \in 1 .. m /\ m \in 1 .. m /\ \A i \in 1 .. m : first(i) \in Nat /\ first(i) >= 1 /\ last(i) \in Nat
  BY PlacedFacts
<1>8. z \in Nat
  BY FirstAndLast
<1>9. l \in Text /\ text \in Text
  <2>1. l \in Text
    <3> HIDE DEF z
    <3> QED BY <1>5, <1>8, LinesTyped
  <2> HIDE DEF l
  <2>2. d.text \o l \in Text
    BY <1>5, <2>1, StillThere
  <2> QED BY <1>3, <2>1, <2>2
<1> HIDE DEF first, last
<1>10. Begins(Edit!LinesOf(c, 1, first(1)), text)
  <2> DEFINE s == Edit!LinesOf(c, 1, first(1))
  <2>1. s \in Text /\ Begins(s, d.text)
    BY <1>5, <1>6, <1>7, LinesTyped
  <2> HIDE DEF s, l
  <2>2. Begins(s, d.text \o l)
    BY <1>5, <1>9, <2>1, StillThere
  <2> QED BY <1>3, <2>2 DEF s
<1>11. Finishes(Edit!LinesOf(c, last(m) + 1, z), text)
  <2>1. l = Edit!LinesOf(c, last(m) + 1, z)
    BY <1>5, <1>6
  <2> HIDE DEF l
  <2>2. Finishes(l, l)
    BY <1>9, StillThere
  <2>3. Finishes(l, d.text \o l)
    BY <1>5, <1>9, <2>2, StillThere
  <2> QED BY <1>3, <2>1, <2>3
<1>12. ASSUME NEW i \in 2 .. m PROVE Holds(Edit!LinesOf(c, last(i - 1) + 1, first(i)), text)
  <2> DEFINE a == last(i - 1) + 1
             b == first(i)
             s == Edit!LinesOf(c, a, b)
  <2>1. i \in 1 .. m /\ i - 1 \in 1 .. m
    BY <1>7
  <2>2. a \in Nat /\ b \in Nat /\ b >= 1 /\ last(i - 1) \in Nat
    BY <1>7, <2>1
  <2>3. s \in Text /\ (Edit!LineStart(c, b) <= Edit!LineStart(c, a) => s = <<>>)
    <3> HIDE DEF a, b
    <3> QED BY <2>2, LinesTyped
  <2>4. Between(base, rs, gs, i)
    BY <1>1 DEF Grouped
  <2>5. CASE b <= last(i - 1)
    <3>1. b <= a
      <4> HIDE DEF b
      <4> QED BY <2>2, <2>5
    <3>2. Edit!LineStart(c, b) <= Edit!LineStart(c, a)
      <4> HIDE DEF a, b
      <4> QED BY <2>2, <3>1, StartsInOrder
    <3> HIDE DEF s
    <3> QED BY <1>9, <2>3, <3>2, EmptyHeld DEF s
  <2>6. CASE ~(b <= last(i - 1))
    <3>1. PICK k \in 2 .. n : gs[k - 1].last = last(i - 1) /\ gs[k].first = first(i)
      BY <2>4, <2>6 DEF Between, first, last
    <3>2. Holds(s, d.text)
      BY <1>5, <3>1
    <3> HIDE DEF s, l
    <3>3. Holds(s, d.text \o l)
      BY <1>5, <1>9, <2>3, <3>2, StillThere
    <3> QED BY <1>3, <3>3 DEF s
  <2> QED BY <2>5, <2>6
<1> QED BY <1>9, <1>10, <1>11, <1>12 DEF KeepsLines, first, last

(* In the words of the property.                                           *)
LEMMA KeptLines ==
    ASSUME NEW c \in Text, NEW base \in Text, NEW rs, Placed(base, rs), Len(rs) >= 1,
           NEW text \in Text, KeepsLines(c, base, rs, text)
    PROVE  /\ Edit!IsPrefix(Edit!LinesOf(c, 1, Edit!FirstLine(base, rs[1])), text)
           /\ Edit!IsSuffix(Edit!LinesOf(c, Edit!LastLine(base, rs[Len(rs)]) + 1, Edit!LineCount(c) + 1), text)
           /\ \A i \in 2 .. Len(rs) :
                Edit!Places(text, Edit!LinesOf(c, Edit!LastLine(base, rs[i - 1]) + 1, Edit!FirstLine(base, rs[i]))) # {}
<1> DEFINE m == Len(rs)
           first(i) == Edit!FirstLine(base, rs[i])
           last(i) == Edit!LastLine(base, rs[i])
           z == Edit!LineCount(c) + 1
<1>1. m \in Nat /\ 1 \in 1 .. m /\ m \in 1 .. m /\ \A i \in 1 .. m : first(i) \in Nat /\ last(i) \in Nat
  BY PlacedFacts
<1>2. z \in Nat
  BY FirstAndLast
<1>3. ASSUME NEW a \in Nat, NEW b \in Nat PROVE Edit!LinesOf(c, a, b) \in Text
  BY LinesTyped
<1>4. /\ Begins(Edit!LinesOf(c, 1, first(1)), text)
      /\ Finishes(Edit!LinesOf(c, last(m) + 1, z), text)
      /\ \A i \in 2 .. m : Holds(Edit!LinesOf(c, last(i - 1) + 1, first(i)), text)
  BY DEF KeepsLines
<1> HIDE DEF m, first, last, z
<1>5. Edit!IsPrefix(Edit!LinesOf(c, 1, first(1)), text)
  <2>1. Edit!LinesOf(c, 1, first(1)) \in Text
    BY <1>1, <1>3
  <2> QED BY <1>4, <2>1, BeginsIsPrefix
<1>6. Edit!IsSuffix(Edit!LinesOf(c, last(m) + 1, z), text)
  <2>1. Edit!LinesOf(c, last(m) + 1, z) \in Text
    BY <1>1, <1>2, <1>3
  <2> QED BY <1>4, <2>1, FinishesIsSuffix
<1>7. ASSUME NEW i \in 2 .. m PROVE Edit!Places(text, Edit!LinesOf(c, last(i - 1) + 1, first(i))) # {}
  <2>1. i \in 1 .. m /\ i - 1 \in 1 .. m
    BY <1>1
  <2>2. Edit!LinesOf(c, last(i - 1) + 1, first(i)) \in Text
    BY <1>1, <1>3, <2>1
  <2> QED BY <1>4, <2>2, HeldHasPlace
<1> QED BY <1>5, <1>6, <1>7 DEF m, first, last, z

(* Whatever a call makes of a text keeps the lines that it does not touch. *)
LEMMA MadeKeepsLines ==
    ASSUME NEW c \in Text, NEW es \in Seq(Change), NEW r, r = Edit!ApplyEdits(c, es), r.error = "none"
    PROVE  /\ r.base \in Text /\ r.text \in Text /\ Placed(r.base, r.places) /\ Len(r.places) >= 1
           /\ KeepsLines(c, r.base, r.places, r.text)
<1> DEFINE rs == r.places
           b == Edit!NormalizeForFuzzy(c)
<1>0. Len(es) \in Nat /\ DOMAIN es = 1 .. Len(es)
  <2> HIDE DEF Change
  <2> QED OBVIOUS
<1>1. ASSUME NEW t \in Text, NEW spots, Within(t, es, spots), rs = Edit!ByPlace(Asked(es, spots)), Apart(rs)
      PROVE  Placed(t, rs) /\ Len(rs) = Len(es)
  <2>1. /\ rs \in Seq(Replacements(Edit!Chars)) /\ Len(rs) = Len(es) /\ Cuts(t, rs)
        /\ \A k \in 1 .. Len(rs) : rs[k].at <= Len(t)
    BY <1>1, SortedCuts
  <2>2. /\ \A i \in 1 .. Len(rs) : rs[i].at >= 1 /\ rs[i].at \in Nat /\ rs[i].len \in Nat
        /\ \A i \in 0 .. Len(rs) : Ends(rs, i) \in Nat /\ Ends(rs, i) <= Len(t)
    BY <2>1, CutFacts DEF Text
  <2>3. ASSUME NEW i \in 1 .. Len(rs) PROVE rs[i].at - 1 + rs[i].len <= Len(t)
    <3>1. i # 0 /\ i \in 0 .. Len(rs)
      BY <1>0, <2>1
    <3>2. Ends(rs, i) <= Len(t) /\ Ends(rs, i) = rs[i].at - 1 + rs[i].len
      BY <2>2, <3>1 DEF Ends
    <3> QED BY <3>2
  <2> QED BY <1>1, <2>1, <2>2, <2>3 DEF Placed
<1>2. CASE MadeExactly(c, es, r)
  <2>1. /\ r.base = c /\ rs = Edit!ByPlace(Asked(es, FoundAt(c, es))) /\ Apart(rs)
        /\ r.text = Edit!ApplyReplacements(c, rs)
    BY <1>2 DEF MadeExactly
  <2>2. Within(c, es, FoundAt(c, es))
    BY <1>2, MadeWithin
  <2>3. Placed(c, rs) /\ Len(rs) = Len(es)
    BY <1>1, <2>1, <2>2
  <2>4. Cuts(c, rs) /\ rs \in Seq(Replacements(Edit!Chars)) /\ Len(rs) \in Nat
    BY <2>3, PlacedFacts DEF Placed
  <2>5. r.text = Spliced(c, rs) /\ r.text \in Text
    BY <2>1, <2>4, Splices DEF Text
  <2>6. Len(rs) >= 1
    <3> SUFFICES ASSUME Len(rs) = 0 PROVE FALSE
      BY <2>4
    <3>1. Pieces(c, rs) \in Seq(Seq(Edit!Chars)) /\ Len(Pieces(c, rs)) = 0
      BY <2>4, PiecesTyped DEF Text
    <3>2. Pieces(c, rs) = <<>>
      <4> DEFINE X == Seq(Edit!Chars)
                 ps == Pieces(c, rs)
      <4>1. ps \in Seq(X) /\ Len(ps) = 0
        BY <3>1
      <4> HIDE DEF X, ps
      <4>2. ps = <<>>
        BY <4>1
      <4> QED BY <4>2 DEF ps
    <3>3. FlattenSeq(<<>>) = <<>>
      BY FlattenLaws
    <3>4. SubSeq(c, 0 + 1, Len(c)) = c
      <4>1. c \in Seq(Edit!Chars) /\ Len(c) \in Nat
        BY DEF Text
      <4> DEFINE X == Edit!Chars
                 p == SubSeq(c, 0 + 1, Len(c))
      <4>2. /\ p \in Seq(X) /\ Len(p) = (IF 0 <= Len(c) THEN Len(c) - 0 ELSE 0)
            /\ \A i \in 1 .. Len(c) - 0 : p[i] = c[0 + i]
        <5> HIDE DEF X
        <5> QED BY <4>1, PartFacts DEF X
      <4> HIDE DEF X, p
      <4>3. Len(p) = Len(c) /\ \A i \in 1 .. Len(c) : p[i] = c[i]
        BY <4>1, <4>2
      <4>4. p = c
        BY <4>1, <4>2, <4>3, SeqEqual DEF X
      <4> QED BY <4>4 DEF p
    <3>5. Spliced(c, rs) = <<>> \o c
      BY <2>4, <3>2, <3>3, <3>4 DEF Spliced, Ends
    <3>6. r.text = c
      BY <2>5, <3>5, ConcatEmptySeq DEF Text
    <3>7. r.base # r.text
      BY Outcomes
    <3> QED BY <2>1, <3>6, <3>7
  <2>7. KeepsLines(c, c, rs, Spliced(c, rs))
    BY <2>3, <2>6, SplicedKeepsLines
  <2> QED BY <2>1, <2>3, <2>5, <2>6, <2>7
<1>3. CASE MadeFuzzily(c, es, r)
  <2>1. /\ r.base = b /\ rs = Edit!ByPlace(Asked(es, FoundAgain(c, es))) /\ Apart(rs)
        /\ r.text = Edit!ApplyPreservingLines(c, b, rs)
        /\ ~ \A i \in DOMAIN es : ~FoundAt(c, es)[i].fuzzy
    BY <1>3 DEF MadeFuzzily
  <2>2. b \in Text /\ Within(b, es, FoundAgain(c, es))
    BY <1>3, MadeWithin
  <2>3. Placed(b, rs) /\ Len(rs) = Len(es)
    BY <1>1, <2>1, <2>2
  <2>4. Len(rs) >= 1
    BY <1>0, <2>1, <2>3
  <2> HIDE DEF b, rs
  <2>5. r.text \in Text /\ KeepsLines(c, b, rs, r.text)
    BY <2>1, <2>2, <2>3, <2>4, FuzzyKeepsLines
  <2> QED BY <2>1, <2>2, <2>3, <2>4, <2>5 DEF rs
<1> QED BY <1>2, <1>3, Outcomes

(* Neither an exact nor a fuzzy match changes a line it does not touch:    *)
(* the lines before, between and after the replacements are written with   *)
(* the bytes of the file, not of the normalised text                       *)
(* (apply_replacements_preserving_unchanged_lines of tools/edit_diff.rs).  *)
THEOREM UntouchedLinesStay == Spec => []UntouchedLinesKept
<1>1. EditInv => UntouchedLinesKept
  <2> SUFFICES ASSUME EditInv, Edit!Accepted PROVE UntouchedLinesKept
    BY DEF UntouchedLinesKept, Edit!UntouchedLinesKept
  <2> DEFINE c == Edit!Content
             r == outcome.applied
  <2>1. c \in Text
    BY ContentTyped DEF EditInv, Edit!Content
  <2>2. edits \in Seq(Change) /\ r = Edit!ApplyEdits(c, edits) /\ r.error = "none"
    BY DEF EditInv, Edit!Accepted
  <2> HIDE DEF c, r
  <2>3. /\ r.base \in Text /\ r.text \in Text /\ Placed(r.base, r.places) /\ Len(r.places) >= 1
        /\ KeepsLines(c, r.base, r.places, r.text)
    BY <2>1, <2>2, MadeKeepsLines
  <2>4. /\ Edit!IsPrefix(Edit!LinesOf(c, 1, Edit!FirstLine(r.base, r.places[1])), r.text)
        /\ Edit!IsSuffix(Edit!LinesOf(c, Edit!LastLine(r.base, r.places[Len(r.places)]) + 1, Edit!LineCount(c) + 1), r.text)
        /\ \A i \in 2 .. Len(r.places) :
             Edit!Places(r.text, Edit!LinesOf(c, Edit!LastLine(r.base, r.places[i - 1]) + 1,
                                              Edit!FirstLine(r.base, r.places[i]))) # {}
    BY <2>1, <2>3, KeptLines
  <2> QED BY <2>4, Zenon DEF UntouchedLinesKept, Edit!UntouchedLinesKept, c, r
<1> QED BY <1>1, EditStarts, EditStep, PTL DEF Spec
=============================================================================
