------------------------------ MODULE TurnLoop -------------------------------
(***************************************************************************)
(* A turn as the terminal drives it: launch_agent_turn and restart_agent   *)
(* in src/turn.rs, process_agent_events in src/agent_events.rs and         *)
(* handle_compaction_result in src/event_loop.rs, composed with the agent  *)
(* task of module AgentLoop.                                               *)
(*                                                                         *)
(* One iteration of the loop polls the background compaction, waits at     *)
(* most 20 ms for one agent event, and then reads the pending key.  Some   *)
(* branches `continue` before the key is read.  Hooks run inside the       *)
(* branch that calls them, so their verdict is a choice of that step.      *)
(***************************************************************************)
EXTENDS AgentLoop

CONSTANTS Keys,       \* keys the user may press during a turn
          DiskFails,  \* whether rewriting the session file may fail
          DrawFails   \* whether drawing a frame may fail

ASSUME TurnAssumption ==
  /\ Keys \subseteq {"esc", "f1", "ctrl_d"}
  /\ DiskFails \in BOOLEAN
  /\ DrawFails \in BOOLEAN

VARIABLES
  tpc,    \* where the terminal loop is
  done,   \* the loop's done flag
  ui,     \* app.modal.state
  key,    \* the unread terminal event
  ctx,    \* SessionStore::build_context of the in-memory session
  comp,   \* pending_compaction: its task
  snap,   \* the context the compaction task was given
  cut,    \* the plan: index of the first kept message of snap
  strays  \* contexts of the tasks a turn left at work

turnVars == <<tpc, done, ui, key, ctx, comp, snap, cut, strays>>
vars == <<agentVars, turnVars>>

-----------------------------------------------------------------------------
UiStates == {"Idle", "Streaming", "ToolExec", "Compacting", "HelpPopup"}

\* Fault: is_working forgets that tools are work.
WorkingButTools == {"Streaming", "Compacting"}
Working == {"Streaming", "ToolExec", "Compacting"}

TurnInit ==
  /\ AgentInit
  /\ tpc = "idle"
  /\ done = FALSE
  /\ ui = "Idle"
  /\ key = "none"
  /\ ctx = <<>>
  /\ comp = "none"
  /\ snap = <<>>
  /\ cut = 0
  /\ strays = {}

\* restart_agent: the context of the new task is the session's, the user
\* message is appended to both, and fresh channels replace the old ones.  With
\* a small window zero tokens are already over the threshold (in such a run
\* tasks are not bounded by MaxLaunches).
Launch(base) ==
  /\ launches' = launches + 1
  /\ LET user == [role |-> "user", task |-> launches + 1, resp |-> 0, call |-> 0,
                  data |-> "none"]
     IN /\ ctx' = Append(base, user)
        /\ live' = Append(base, user)
  /\ apc' = "top"
  /\ outbox' = <<>>
  /\ reply' = NoReply
  /\ callNo' = 0
  /\ first' = FALSE
  /\ over' = SmallWindow
  /\ retries' = 0
  /\ responses' = 0
  /\ chan' = <<>>
  /\ cancel' = FALSE
  /\ forwarder' = FALSE
  /\ ui' = "Streaming"

\* The user sends a message (bound: MaxLaunches).
Submit ==
  /\ tpc = "idle"
  /\ launches < MaxLaunches
  /\ Launch(ctx)
  /\ tpc' = "poll"
  /\ UNCHANGED <<guard, done, key, comp, snap, cut, strays>>

PressKey ==
  /\ tpc # "idle"
  /\ key = "none"
  /\ key' \in Keys
  /\ UNCHANGED <<agentVars, tpc, done, ui, ctx, comp, snap, cut, strays>>

-----------------------------------------------------------------------------
(* The background compaction.                                              *)

\* Fault: the cut may fall between a call and its result.
CutAnywhere(s) == 2..(Len(s) + 1)

\* Cut points never separate a tool result from its call; a cut past the end
\* keeps nothing.
CutPoints(s) == {i \in 2..(Len(s) + 1) : i <= Len(s) => s[i].role # "tool"}

CompactionEnds ==
  /\ comp = "running"
  /\ \/ comp' = "failed" /\ UNCHANGED cut
     \/ comp' = "ready" /\ cut' \in CutPoints(snap)
  /\ UNCHANGED <<agentVars, tpc, done, ui, key, ctx, snap, strays>>

\* apply_compaction: summary, then the entries from the cut onward; the kept
\* images go too when images are stripped after view.
Compacted ==
  LET kept == SubSeq(ctx, cut, Len(ctx))
  IN <<Msg("summary", 0, 0, "none")>>
     \o (IF StripImages THEN StripSeen(kept, Images(kept)) ELSE kept)

PollNothing ==
  /\ tpc = "poll"
  /\ comp \in {"none", "running"}
  /\ tpc' = "recv"
  /\ UNCHANGED <<agentVars, done, ui, key, ctx, comp, snap, cut>>

\* Fault: the guard keeps the baseline of the history compaction replaced.
PollCompactedKeepsBaseline ==
  /\ tpc = "poll" /\ comp = "ready"
  /\ Launch(Compacted)
  /\ comp' = "none" /\ snap' = <<>> /\ cut' = 0
  /\ tpc' = "recv"
  /\ UNCHANGED <<guard, done, key>>

\* Success: the session is rewritten, the guard forgets its baseline, and a
\* new agent task continues the turn.
PollCompacted ==
  /\ tpc = "poll" /\ comp = "ready"
  /\ guard' = <<>>
  /\ Launch(Compacted)
  /\ comp' = "none" /\ snap' = <<>> /\ cut' = 0
  /\ tpc' = "recv"
  /\ UNCHANGED <<done, key>>

\* The in-memory session was rewritten but its file was not: reported as a
\* failure, before the guard is reset and the images are stripped.
PollRewriteFails ==
  /\ DiskFails
  /\ tpc = "poll" /\ comp = "ready"
  /\ ctx' = <<Msg("summary", 0, 0, "none")>> \o SubSeq(ctx, cut, Len(ctx))
  /\ ui' = "Idle"
  /\ done' = TRUE
  /\ comp' = "none" /\ snap' = <<>> /\ cut' = 0
  /\ tpc' = "recv"
  /\ UNCHANGED <<agentVars, key>>

PollFailed ==
  /\ tpc = "poll" /\ comp = "failed"
  /\ ui' = "Idle"
  /\ done' = TRUE
  /\ comp' = "none" /\ snap' = <<>> /\ cut' = 0
  /\ tpc' = "recv"
  /\ UNCHANGED <<agentVars, key, ctx>>

-----------------------------------------------------------------------------
(* One agent event.                                                        *)

\* rx.recv() returned e; the other fields of the agent are untouched.
Receive(kind) ==
  /\ tpc = "recv"
  /\ chan # <<>>
  /\ Head(chan).ev = kind

AgentRest == <<apc, live, outbox, reply, callNo, first, over, retries, responses,
               launches, cancel, forwarder, guard>>

RecvDisplay ==
  /\ \/ Receive("token") /\ ui' = IF ui = "ToolExec" THEN "Streaming" ELSE ui
     \/ Receive("start") /\ ui' = "ToolExec"
     \/ Receive("output") /\ UNCHANGED ui
  /\ chan' = Tail(chan)
  /\ tpc' = "keys"
  /\ UNCHANGED <<AgentRest, done, key, ctx, comp, snap, cut>>

RecvSave ==
  /\ Receive("save")
  /\ ctx' = Append(ctx, Head(chan).msg)
  /\ chan' = Tail(chan)
  /\ tpc' = "keys"
  /\ UNCHANGED <<AgentRest, done, ui, key, comp, snap, cut>>

RecvStrip ==
  /\ Receive("strip")
  /\ ctx' = StripSeen(ctx, Head(chan).ids)
  /\ chan' = Tail(chan)
  /\ tpc' = "keys"
  /\ UNCHANGED <<AgentRest, done, ui, key, comp, snap, cut>>

\* NeedsCompaction: what is left in the channel is drained (drawn or dropped)
\* and the compaction task gets a copy of the session.
RecvNeeds ==
  /\ Receive("needs")
  /\ chan' = <<>>
  /\ comp' = "running"
  /\ snap' = ctx
  /\ ui' = "Compacting"
  /\ tpc' = "poll"
  /\ UNCHANGED <<AgentRest, done, key, ctx, cut>>

\* A PreCompact hook exits 2, or the provider cannot be built.
RecvNeedsRefused ==
  /\ Receive("needs")
  /\ chan' = <<>>
  /\ ui' = "Idle"
  /\ done' = TRUE
  /\ tpc' = "join"
  /\ UNCHANGED <<AgentRest, key, ctx, comp, snap, cut>>

RecvDone ==
  /\ Receive("done")
  /\ chan' = <<>>
  /\ done' = TRUE
  /\ tpc' = "keys"
  /\ UNCHANGED <<AgentRest, ui, key, ctx, comp, snap, cut>>

\* A Stop hook exits 2: the turn goes on with its stderr as the instruction
\* (bound: MaxLaunches).
RecvDoneBlocked ==
  /\ Receive("done")
  /\ Head(chan).why = "ok"
  /\ launches < MaxLaunches
  /\ Launch(ctx)
  /\ tpc' = "poll"
  /\ UNCHANGED <<guard, done, key, comp, snap, cut>>

RecvTimeout ==
  /\ tpc = "recv"
  /\ chan = <<>> /\ ~Closed
  /\ tpc' = "keys"
  /\ UNCHANGED <<agentVars, done, ui, key, ctx, comp, snap, cut>>

\* The channel is closed: with a compaction in flight the loop starts over
\* without reading the keys, otherwise the turn is over.
RecvClosed ==
  /\ tpc = "recv"
  /\ chan = <<>> /\ Closed
  /\ IF comp # "none" THEN tpc' = "poll" /\ UNCHANGED done
     ELSE tpc' = "keys" /\ done' = TRUE
  /\ UNCHANGED <<agentVars, ui, key, ctx, comp, snap, cut>>

-----------------------------------------------------------------------------
(* The pending key, then the next iteration or the end of the loop.        *)

AfterKeys == tpc' = IF done' THEN "join" ELSE "poll"

KeyAbortsCompaction ==
  /\ tpc = "keys" /\ key = "esc" /\ comp # "none"
  /\ comp' = "none" /\ snap' = <<>> /\ cut' = 0
  /\ ui' = "Idle"
  /\ done' = TRUE
  /\ key' = "none"
  /\ AfterKeys
  /\ UNCHANGED <<agentVars, ctx>>

\* Fault: the loop leaves at once instead of waiting for the task's Done.
KeyCancelsAndLeaves ==
  /\ tpc = "keys" /\ key = "esc" /\ comp = "none" /\ ui \in Working
  /\ cancel' = TRUE
  /\ key' = "none"
  /\ done' = TRUE /\ UNCHANGED ui
  /\ AfterKeys
  /\ UNCHANGED <<apc, live, outbox, reply, callNo, first, over, retries, responses,
                 launches, chan, forwarder, guard, ctx, comp, snap, cut>>

KeyCancels ==
  /\ tpc = "keys" /\ key = "esc" /\ comp = "none" /\ ui \in Working
  /\ cancel' = TRUE
  /\ key' = "none"
  /\ UNCHANGED <<done, ui>>
  /\ AfterKeys
  /\ UNCHANGED <<apc, live, outbox, reply, callNo, first, over, retries, responses,
                 launches, chan, forwarder, guard, ctx, comp, snap, cut>>

KeyHelp ==
  /\ tpc = "keys" /\ key = "f1"
  /\ ui' = "HelpPopup"
  /\ key' = "none"
  /\ UNCHANGED done
  /\ AfterKeys
  /\ UNCHANGED <<agentVars, ctx, comp, snap, cut>>

\* Ctrl+D has no branch in this loop, and Esc has one only while working.
NoKey ==
  /\ tpc = "keys"
  /\ \/ key = "none"
     \/ key = "ctrl_d"
     \/ key = "esc" /\ comp = "none" /\ ui \notin Working
  /\ key' = "none"
  /\ UNCHANGED done
  /\ AfterKeys
  /\ UNCHANGED <<agentVars, ui, ctx, comp, snap, cut>>

-----------------------------------------------------------------------------
(* The end of the loop and of the turn.                                    *)

\* The frame cannot be drawn, at the top of an iteration: the loop is broken
\* off, whatever the task and the compaction are doing.
FailedDraw ==
  /\ DrawFails
  /\ tpc = "poll"
  /\ tpc' = "join"
  /\ UNCHANGED <<agentVars, done, ui, key, ctx, comp, snap, cut, strays>>

\* process_agent_events returns: it drops the receiver with the events that are
\* in it, and a compaction it was waiting for.
Return ==
  /\ tpc' = "idle"
  /\ ui' = "Idle"
  /\ done' = FALSE
  /\ key' = "none"
  /\ chan' = <<>>
  /\ forwarder' = FALSE
  /\ comp' = "none" /\ snap' = <<>> /\ cut' = 0
  /\ UNCHANGED <<live, reply, callNo, first, over, retries, responses, launches,
                 cancel, guard, ctx>>

\* After the loop: the task has returned.
Join ==
  /\ tpc = "join"
  /\ apc \in {"none", "end"} /\ outbox = <<>>
  /\ Return
  /\ UNCHANGED <<apc, outbox, strays>>

\* Five seconds have passed and it has not.  A task that only has its last
\* events to send ends when its receiver is gone; any other is left at work.
JoinExpires ==
  /\ tpc = "join"
  /\ apc \notin {"none", "end"} \/ outbox # <<>>
  /\ Return
  /\ strays' = IF apc \in {"none", "end"} THEN strays ELSE strays \cup {live}
  /\ apc' = "end"
  /\ outbox' = <<>>

\* A task left at work has nobody to tell and is stopped by nobody; it shares
\* the history guard with the tasks after it.  What it adds to its context and
\* what its tools do to files is not followed.
StrayRequests ==
  /\ guard' \in strays
  /\ UNCHANGED <<apc, live, outbox, reply, callNo, first, over, retries, responses,
                 launches, chan, cancel, forwarder, turnVars>>

StrayEnds ==
  /\ \E s \in strays : strays' = strays \ {s}
  /\ UNCHANGED <<agentVars, tpc, done, ui, key, ctx, comp, snap, cut>>

-----------------------------------------------------------------------------
InLoop ==
  \/ PollNothing \/ PollCompacted \/ PollRewriteFails \/ PollFailed
  \/ RecvDisplay \/ RecvSave \/ RecvStrip \/ RecvNeeds \/ RecvNeedsRefused
  \/ RecvDone \/ RecvDoneBlocked \/ RecvTimeout \/ RecvClosed
  \/ KeyAbortsCompaction \/ KeyCancels \/ KeyHelp \/ NoKey

LoopStep ==
  \/ InLoop /\ UNCHANGED strays
  \/ FailedDraw
  \/ Join
  \/ JoinExpires

TaskStep == AgentStep /\ UNCHANGED turnVars

LateOutput == ForwardLate /\ UNCHANGED turnVars

\* A draw that fails again in the main loop ends the program: then nothing
\* happens any more.
Next ==
  \/ TaskStep
  \/ LateOutput
  \/ LoopStep
  \/ CompactionEnds
  \/ StrayRequests
  \/ StrayEnds
  \/ Submit
  \/ PressKey

Spec == TurnInit /\ [][Next]_vars

\* The runtime schedules the agent task, its forwarders and the terminal loop,
\* whose hooks have 30 seconds each and whose wait for the task has five.
\* Nothing obliges the user to type, the provider to answer, a tool to end or
\* the model to write a summary.
OwnTaskStep == OwnStep /\ UNCHANGED turnVars
FairSpec ==
  Spec /\ WF_vars(OwnTaskStep) /\ WF_vars(LateOutput) /\ WF_vars(LoopStep)

-----------------------------------------------------------------------------
TypeOK ==
  /\ AgentTypeOK
  /\ tpc \in {"idle", "poll", "recv", "keys", "join"}
  /\ done \in BOOLEAN
  /\ ui \in UiStates
  /\ key \in {"none"} \cup Keys
  /\ ctx \in Seq(Message)
  /\ comp \in {"none", "running", "ready", "failed"}
  /\ snap \in Seq(Message)
  /\ cut \in Nat
  /\ strays \in SUBSET Seq(Message)

\* The agent's events that have not reached the session yet, oldest first.
InFlight == chan \o outbox

ApplyEvent(s, e) ==
  CASE e.ev = "save" -> Append(s, e.msg)
    [] e.ev = "strip" -> StripSeen(s, e.ids)
    [] OTHER -> s

\* The history s once the events es have been applied to it, oldest first.
Replay(s, es) ==
  LET after[n \in 0..Len(es)] == IF n = 0 THEN s ELSE ApplyEvent(after[n - 1], es[n])
  IN after[Len(es)]

\* The session and the agent's own copy of the conversation never part: what
\* the session holds, brought up to date with the events still in flight, is
\* the context of the agent's next request (the "byte-identical" histories of
\* canonical_turn_blocks and push_persisted_context_pair).
HistoryInSync ==
  apc \notin {"none", "end"} => Replay(ctx, InFlight) = live

\* A Done or NeedsCompaction event is the last thing a task says, and it says
\* only one: drain_pending_events, which throws away every event it does not
\* draw, can then never throw away a message or another verdict.
LastWord ==
  /\ \A i, j \in 1..Len(InFlight) :
        i < j /\ Terminal(InFlight[i]) => InFlight[j].ev = "output"
  /\ \A i \in 1..Len(InFlight) : Terminal(InFlight[i]) => apc = "end"

IsCallMsg(m) == m.role = "assistant" /\ m.call # 0
Paired(s) ==
  \A i \in 1..Len(s) :
    /\ IsCallMsg(s[i]) =>
         i < Len(s) /\ s[i + 1].role = "tool" /\ CallId(s[i + 1]) = CallId(s[i])
    /\ s[i].role = "tool" =>
         i > 1 /\ IsCallMsg(s[i - 1]) /\ CallId(s[i - 1]) = CallId(s[i])

\* Every tool call is followed by its own result in what the provider is sent
\* and in what a finished turn leaves in the session, however the turn ended:
\* cancelled between two calls, vetoed by a hook, panicked, compacted.
CallsAnswered ==
  /\ apc = "stream" => Paired(live)
  /\ tpc = "idle" => Paired(ctx)

\* While a compaction is being computed the session is exactly the one it was
\* given, so that the cut index of its plan still means the same message.
PlanFresh == comp # "none" => snap = ctx

\* Consecutive requests extend each other: outside compaction (which resets
\* the guard) a request repeats the messages of the one before it, across
\* cancelled turns, retries and restarts.  An image the model has seen may
\* have become a note.
Noted(s) == StripSeen(s, Images(s))
PrefixStable ==
  [][apc = "top" /\ apc' = "stream" => IsPrefix(Noted(guard), Noted(live))]_vars

\* With strip_images_after_view an image is in the context only until the
\* first answer after the tool call that read it.
ImagesSeenOnce ==
  StripImages /\ apc \in {"top", "stream", "backoff"} /\ responses > 0 =>
    \A i \in DOMAIN live :
      live[i].data = "image" => live[i].task = launches /\ live[i].resp = responses

\* A loop that came to its own end has heard its task's last word: the five
\* seconds it then grants the task never run out, however Esc, hooks, panics,
\* late output and compactions fell together.  So a turn leaves a task at work
\* only where a draw has failed (the break of process_agent_events).
NoTaskLeftBehind ==
  /\ tpc = "join" /\ done => apc \in {"none", "end"} /\ outbox = <<>>
  /\ ~DrawFails => strays = {}

\* No turn leaves a task at work, as the comment above the five seconds says.
NoTaskLeaks == strays = {}

\* Esc, read while an agent task is at work, cancels it.
EscReachesTask ==
  [][tpc = "keys" /\ key = "esc" /\ tpc' # "keys" /\ apc \notin {"none", "end"}
       => cancel']_vars

\* The turn waits for an answer of the provider, a tool or the compaction.
Unanswered ==
  \/ comp = "running"
  \/ apc \in {"stream", "run"} /\ outbox = <<>>

\* Every turn ends, unless one answer of the provider, one tool or one
\* compaction takes forever: retries run out, no full channel, late output,
\* panic or failed draw keeps the loop and its task waiting for each other.
TurnEnds == (tpc # "idle") ~> (tpc = "idle" \/ []Unanswered)

\* What Esc was pressed for is looked at even while a compaction runs.
EscReadWhileCompacting ==
  (comp = "running" /\ key = "esc") ~> (comp # "running" \/ key = "none")

\* A stream the user cancelled is reported as aborted, never as an answer.
CancelledStreamAborted ==
  [][apc = "stream" /\ outbox = <<>> /\ cancel /\ apc' = "end"
       => outbox' # <<>> /\ outbox'[Len(outbox')] # Done("ok")]_vars

\* Once a cancellation is under way, Ctrl+D leaves the turn at once, as the
\* message "Cancelling... (Ctrl+D to force quit)" promises.
ForceQuit ==
  [][tpc = "keys" /\ key = "ctrl_d" /\ cancel /\ tpc' # "keys" => tpc' = "join"]_vars

\* A task asks for compaction because of what its own responses measured,
\* never before its first one.
NoPrematureCompaction == [][responses = 0 => outbox' # <<Needs("threshold")>>]_vars

\* The session's history behaves as module Conversation says.
Talk == INSTANCE Conversation WITH
  history <- [i \in DOMAIN ctx |-> [role |-> ctx[i].role, id |-> CallId(ctx[i])]],
  busy <- tpc # "idle"
ImplementsConversation == Talk!Spec
=============================================================================
