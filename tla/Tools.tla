------------------------------- MODULE Tools -------------------------------
(***************************************************************************)
(* tools/mod.rs: ToolRegistry::execute hands a call to the handler of its  *)
(* name: bash, edit and read are modules of their own, and write is what   *)
(* with_file_queue runs (FileQueue, where several calls may meet).  The    *)
(* parts a call does not use stay as they are.                             *)
(***************************************************************************)
EXTENDS Naturals, Sequences

CONSTANTS
    MaxOutLines, PipeCap, OutCap,                   \* BashTool
    Letters, Calls, NoOutcome,                      \* EditDiff
    ReadFiles, MaxLines, MaxBytes, Limits,          \* ReadTool
    Ops, Files, Spellings, FileOf, Interval         \* FileQueue

VARIABLES
    tool, refusedName,
    pc, started, alive, holds, wrote, inPipe, reader, got, out, elapsed, wait, cancel, result,
    raw, edits, outcome,
    from, lines, limit, next, pages, refused,
    at, path, key, sem, exists, table, waiting, idle, collected, count, taken

bashVars == <<pc, started, alive, holds, wrote, inPipe, reader, got, out, elapsed, wait, cancel, result>>
editVars == <<raw, edits, outcome>>
readVars == <<from, lines, limit, next, pages, refused>>
queueVars == <<at, path, key, sem, exists, table, waiting, idle, collected, count, taken>>
vars == <<tool, refusedName, bashVars, editVars, readVars, queueVars>>

Bash == INSTANCE BashTool WITH MaxLines <- MaxOutLines
Edit == INSTANCE EditDiff
Read == INSTANCE ReadTool
Queue == INSTANCE FileQueue

ASSUME ToolsAssumption ==
    Bash!BashAssumption /\ Edit!EditAssumption /\ Read!ReadAssumption /\ Queue!QueueAssumption

Registered == {"bash", "edit", "read", "write"}

Init ==
    /\ tool \in Registered \cup {"other"} /\ refusedName = FALSE
    /\ IF tool = "edit" THEN Edit!Init
       ELSE raw = <<>> /\ edits = <<>> /\ outcome = NoOutcome
    /\ IF tool = "read" THEN Read!Init
       ELSE from = 1 /\ lines = <<>> /\ limit = 1 /\ next = 1 /\ pages = <<>> /\ refused = FALSE
    /\ Bash!Init /\ (tool # "bash" => ~cancel)
    /\ Queue!Init /\ (tool # "write" => exists = {} /\ \A o \in Ops : path[o] \in Files)

ExecuteBash(A) == tool = "bash" /\ A /\ UNCHANGED <<tool, refusedName, editVars, readVars, queueVars>>
ExecuteEdit == tool = "edit" /\ Edit!Next /\ UNCHANGED <<tool, refusedName, bashVars, readVars, queueVars>>
ExecuteRead == tool = "read" /\ Read!Next /\ UNCHANGED <<tool, refusedName, bashVars, editVars, queueVars>>
ExecuteWrite(A) == tool = "write" /\ A /\ UNCHANGED <<tool, refusedName, bashVars, editVars, readVars>>

(* "Unknown tool".                                                         *)
RefuseUnknown ==
    /\ tool \notin Registered /\ ~refusedName
    /\ refusedName' = TRUE
    /\ UNCHANGED <<tool, bashVars, editVars, readVars, queueVars>>

Next ==
    \/ ExecuteBash(Bash!Next)
    \/ ExecuteEdit
    \/ ExecuteRead
    \/ ExecuteWrite(Queue!Next)
    \/ RefuseUnknown

Spec == Init /\ [][Next]_vars

(* The program's tasks go on, as BashTool says.                            *)
FairSpec ==
    /\ Spec
    /\ WF_vars(ExecuteBash(Bash!Tool))
    /\ WF_vars(ExecuteBash(Bash!Forward))
    /\ \A p \in Bash!Pipes : WF_vars(ExecuteBash(Bash!Reader(p)))

-----------------------------------------------------------------------------
(* The promises of the tools; each is stated and explained in its module.  *)

(* A command that is stopped leaves no process, one that ends no output.   *)
CleanEnd == Bash!CleanEnd
(* Esc ends a command.                                                     *)
CancelEnds == Bash!CancelEnds
(* The timeout ends a command (bash.rs:128), which it does not.            *)
TimeoutEnds == Bash!TimeoutEnds
(* Exact edits are applied all at once.                                    *)
EditsAtOnce == Edit!EditsAtOnce
(* Lines no edit touches keep their bytes.                                 *)
UntouchedLinesKept == Edit!UntouchedLinesKept
(* An edit is applied at the one place its text is at (edit.rs:31).        *)
MatchesUnique == Edit!MatchesUnique
(* The pages of a file print every line, within their size.                *)
NothingSkipped == Read!NothingSkipped
(* Operations on one file run one after the other.                         *)
OneWriterPerFile == Queue!OneWriterPerFile
=============================================================================
