------------------------------ MODULE BashTool ------------------------------
(***************************************************************************)
(* tools/bash.rs, from the call in agent/mod.rs on: the command is         *)
(* rewritten by rtk, run by a shell in a process group of its own, and its *)
(* two pipes are read line by line until they end, while the exit, the     *)
(* timeout and the user's cancellation race.  "sh" is the shell, "bg" a    *)
(* process it leaves in the background, "dm" one that left the group.      *)
(***************************************************************************)
EXTENDS Naturals, FiniteSets

CONSTANTS
    MaxLines,   \* lines a command may write into each pipe
    PipeCap,    \* lines that fit into a pipe
    OutCap      \* chunks that fit into the output channel (64)

BashAssumption == MaxLines \in Nat /\ PipeCap \in Nat \ {0} /\ OutCap \in Nat \ {0}

Procs == {"sh", "bg", "dm"}
Group == {"sh", "bg"}
Pipes == {"stdout", "stderr"}

VARIABLES
    pc,       \* where execute is
    started,  \* processes that ever ran
    alive,    \* processes that run
    holds,    \* of each pipe: the processes that have it open
    wrote,    \* of each pipe: the lines written so far
    inPipe,   \* of each pipe: the lines not yet read
    reader,   \* of each pipe: where read_stream is
    got,      \* of each pipe: the lines it has collected
    out,      \* chunks in the output channel
    elapsed,  \* the time given to the command is over
    wait,     \* what wait_fut gave
    cancel,   \* CancelGuard
    result    \* what the tool returns

vars == <<pc, started, alive, holds, wrote, inPipe, reader, got, out, elapsed, wait, cancel, result>>
command == <<started, alive, holds, wrote>>
race == <<wait, result, pc>>

TypeOK ==
    /\ pc \in {"call", "spawned", "race", "done"}
    /\ alive \subseteq started /\ started \subseteq Procs
    /\ holds \in [Pipes -> SUBSET Procs]
    /\ wrote \in [Pipes -> 0 .. MaxLines] /\ got \in [Pipes -> 0 .. MaxLines]
    /\ inPipe \in [Pipes -> 0 .. PipeCap]
    /\ reader \in [Pipes -> {"none", "top", "reading", "sending", "ended"}]
    /\ out \in 0 .. OutCap
    /\ elapsed \in BOOLEAN /\ cancel \in BOOLEAN
    /\ wait \in {"pending", "exit", "elapsed"}
    /\ result \in {"none", "ok", "timeout", "cancelled", "refused"}

Init ==
    /\ pc = "call" /\ started = {} /\ alive = {}
    /\ holds = [p \in Pipes |-> {}]
    /\ wrote = [p \in Pipes |-> 0] /\ inPipe = wrote /\ got = wrote
    /\ reader = [p \in Pipes |-> "none"]
    /\ out = 0 /\ elapsed = FALSE /\ wait = "pending"
    /\ cancel \in BOOLEAN /\ result = "none"

Return(r) == pc' = "done" /\ result' = r

-----------------------------------------------------------------------------
(* The tool.                                                               *)

(* A missing command, a timeout that truncates to zero seconds, a shell    *)
(* that does not start.                                                    *)
Refuse ==
    /\ pc = "call"
    /\ Return("refused")
    /\ UNCHANGED <<command, inPipe, reader, got, out, elapsed, wait, cancel>>

Spawn ==
    /\ pc = "call"
    /\ pc' = "spawned"
    /\ started' = {"sh"} /\ alive' = {"sh"}
    /\ holds' = [p \in Pipes |-> {"sh"}]
    /\ UNCHANGED <<wrote, inPipe, reader, got, out, elapsed, wait, cancel, result>>

(* kill(-pgid, SIGKILL) and the reaping of the child.                      *)
KillProcessGroup ==
    /\ alive' = alive \ Group
    /\ holds' = [p \in Pipes |-> holds[p] \ Group]
    /\ UNCHANGED <<started, wrote>>

CheckAfterSpawn ==
    /\ pc = "spawned"
    /\ IF cancel
       THEN KillProcessGroup /\ Return("cancelled") /\ UNCHANGED reader
       ELSE /\ pc' = "race"
            /\ reader' = [p \in Pipes |-> "top"]
            /\ UNCHANGED <<command, result>>
    /\ UNCHANGED <<inPipe, got, out, elapsed, wait, cancel>>

(* timeout(child.wait()): an exit that is already there wins.              *)
Waited ==
    /\ pc = "race" /\ wait = "pending"
    /\ \/ "sh" \notin alive /\ wait' = "exit"
       \/ "sh" \in alive /\ elapsed /\ wait' = "elapsed"
    /\ UNCHANGED <<command, inPipe, reader, got, out, elapsed, cancel, result, pc>>

(* A mutant: the readers are not waited for.                               *)
FaultFinish ==
    /\ pc = "race" /\ wait # "pending"
    /\ IF wait = "exit"
       THEN Return("ok") /\ UNCHANGED command
       ELSE Return("timeout") /\ KillProcessGroup
    /\ UNCHANGED <<inPipe, reader, got, out, elapsed, wait, cancel>>

(* wait_fut, then the reader of stdout, then that of stderr.               *)
Finish ==
    /\ pc = "race" /\ wait # "pending"
    /\ \A p \in Pipes : reader[p] = "ended"
    /\ IF wait = "exit"
       THEN Return("ok") /\ UNCHANGED command
       ELSE Return("timeout") /\ KillProcessGroup
    /\ UNCHANGED <<inPipe, reader, got, out, elapsed, wait, cancel>>

(* A mutant: the cancellation is only seen once a reader has seen it.      *)
FaultCancelled ==
    /\ pc = "race" /\ cancel /\ \E p \in Pipes : reader[p] = "ended"
    /\ KillProcessGroup
    /\ Return("cancelled")
    /\ UNCHANGED <<inPipe, reader, got, out, elapsed, wait, cancel>>

(* cancel_fut wins the select; what was read is dropped, the readers are   *)
(* left to themselves.                                                     *)
Cancelled ==
    /\ pc = "race" /\ cancel
    /\ KillProcessGroup
    /\ Return("cancelled")
    /\ UNCHANGED <<inPipe, reader, got, out, elapsed, wait, cancel>>

-----------------------------------------------------------------------------
(* read_stream: the guard is read before each line, never while waiting.   *)

ReadTop(p) ==
    /\ reader[p] = "top"
    /\ reader' = [reader EXCEPT ![p] = IF cancel THEN "ended" ELSE "reading"]
    /\ UNCHANGED <<command, inPipe, got, out, elapsed, cancel, race>>

ReadLine(p) ==
    /\ reader[p] = "reading" /\ inPipe[p] > 0
    /\ inPipe' = [inPipe EXCEPT ![p] = @ - 1]
    /\ reader' = [reader EXCEPT ![p] = "sending"]
    /\ UNCHANGED <<command, got, out, elapsed, cancel, race>>

ReadEnd(p) ==
    /\ reader[p] = "reading" /\ inPipe[p] = 0 /\ holds[p] = {}
    /\ reader' = [reader EXCEPT ![p] = "ended"]
    /\ UNCHANGED <<command, inPipe, got, out, elapsed, cancel, race>>

(* tx.send(text).await, then the line joins the output.                    *)
SendLine(p) ==
    /\ reader[p] = "sending" /\ out < OutCap
    /\ out' = out + 1
    /\ got' = [got EXCEPT ![p] = @ + 1]
    /\ reader' = [reader EXCEPT ![p] = "top"]
    /\ UNCHANGED <<command, inPipe, elapsed, cancel, race>>

(* The forwarder of execute_tool_call hands a chunk to the turn loop.      *)
Forward ==
    /\ out > 0
    /\ out' = out - 1
    /\ UNCHANGED <<command, inPipe, reader, got, elapsed, cancel, race>>

-----------------------------------------------------------------------------
(* What the command, the clock and the user may do.                        *)

Fork(q) ==
    /\ "sh" \in alive /\ q \notin started
    /\ started' = started \cup {q} /\ alive' = alive \cup {q}
    /\ \E open \in SUBSET {p \in Pipes : "sh" \in holds[p]} :
           holds' = [p \in Pipes |-> IF p \in open THEN holds[p] \cup {q} ELSE holds[p]]
    /\ UNCHANGED <<wrote, inPipe, reader, got, out, elapsed, cancel, race>>

Write(p) ==
    /\ holds[p] # {} /\ wrote[p] < MaxLines /\ inPipe[p] < PipeCap
    /\ wrote' = [wrote EXCEPT ![p] = @ + 1]
    /\ inPipe' = [inPipe EXCEPT ![p] = @ + 1]
    /\ UNCHANGED <<started, alive, holds, reader, got, out, elapsed, cancel, race>>

Exit(q) ==
    /\ q \in alive
    /\ alive' = alive \ {q}
    /\ holds' = [p \in Pipes |-> holds[p] \ {q}]
    /\ UNCHANGED <<started, wrote, inPipe, reader, got, out, elapsed, cancel, race>>

TimePasses ==
    /\ pc = "race" /\ ~elapsed
    /\ elapsed' = TRUE
    /\ UNCHANGED <<command, inPipe, reader, got, out, cancel, race>>

(* The watcher of execute_tool_call sets the guard; it is aborted when the *)
(* tool returns.                                                           *)
UserCancels ==
    /\ pc # "done" /\ ~cancel
    /\ cancel' = TRUE
    /\ UNCHANGED <<command, inPipe, reader, got, out, elapsed, race>>

-----------------------------------------------------------------------------
Tool == Refuse \/ Spawn \/ CheckAfterSpawn \/ Waited \/ Finish \/ Cancelled
Reader(p) == ReadTop(p) \/ ReadLine(p) \/ ReadEnd(p) \/ SendLine(p)

Next ==
    \/ Tool \/ Forward \/ TimePasses \/ UserCancels
    \/ \E p \in Pipes : Reader(p) \/ Write(p)
    \/ \E q \in Procs \ {"sh"} : Fork(q)
    \/ \E q \in Procs : Exit(q)

Spec == Init /\ [][Next]_vars

(* The program's tasks go on; a command need not do anything.              *)
FairSpec == Spec /\ WF_vars(Tool) /\ WF_vars(Forward) /\ \A p \in Pipes : WF_vars(Reader(p))

-----------------------------------------------------------------------------
(* A tool call that was cancelled or timed out leaves no process of the    *)
(* command's group behind, background processes included.                  *)
GroupGone == result \in {"cancelled", "timeout"} => alive \cap Group = {}

(* The output of a command that ended is complete: every line that anyone  *)
(* wrote into its pipes is part of it, unless the user cancelled.          *)
OutputComplete == result = "ok" /\ ~cancel => got = wrote

(* Both: how a command ended is how it is reported.                        *)
CleanEnd == GroupGone /\ OutputComplete

(* Esc ends the tool call whatever the command does, a full output channel *)
(* and a command that never ends included.                                 *)
CancelEnds == cancel ~> pc = "done"

(* bash.rs:128: "When timeout fires, these tasks are aborted (dropped)",   *)
(* so that a command still running does not outlive its time.              *)
TimeoutEnds == elapsed ~> pc = "done"
=============================================================================
