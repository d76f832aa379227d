------------------------------ MODULE AgentLoop ------------------------------
(***************************************************************************)
(* The agent task of one turn: run_agent_with_snapshot and                 *)
(* execute_tool_call in src/agent/mod.rs, reading the provider through     *)
(* stream_response_from_messages in src/agent/streaming.rs.                *)
(*                                                                         *)
(* The task owns a live copy of the conversation and never touches the     *)
(* session: everything the session must learn travels through a bounded    *)
(* FIFO channel to the terminal loop (module TurnLoop).  A handler of this *)
(* module computes the events it will send and puts them in outbox; Send   *)
(* moves them to the channel one at a time, so every `tx.send().await` can *)
(* be interleaved with the other tasks and can block on a full channel.    *)
(* Events that only decorate the screen (Usage, RetryStart, RetryEnd,      *)
(* Thinking*, ToolCallDone, HookMessage, SkillActivation) are left out.    *)
(***************************************************************************)
EXTENDS Integers, Sequences, SequencesExt

CONSTANTS ChanCap,       \* capacity of the event channel (256 in the code)
          MaxRetries,    \* config.retry.max_retries, 0 when retry is disabled
          MaxCalls,      \* bound: tool calls in one response
          MaxResponses,  \* bound: non-empty responses of one agent task
          MaxLaunches,   \* bound: agent tasks started over the whole behaviour
          StripImages,   \* config.provider.strip_images_after_view
          SmallWindow,   \* context_window <= compaction.reserve_tokens
          TaskPanics     \* whether tool code may panic

ASSUME AgentAssumption ==
  /\ ChanCap \in Nat \ {0}
  /\ MaxRetries \in Nat
  /\ MaxCalls \in Nat
  /\ MaxResponses \in Nat \ {0}
  /\ MaxLaunches \in Nat \ {0}
  /\ StripImages \in BOOLEAN
  /\ SmallWindow \in BOOLEAN
  /\ TaskPanics \in BOOLEAN

VARIABLES
  apc,        \* where the agent task is
  live,       \* current_context: the messages of the next request
  outbox,     \* events the running handler still has to send
  reply,      \* the response being processed: its text and remaining calls
  callNo,     \* ordinal of the next tool call of the response
  first,      \* ToolCallCtx::first_tool_call
  over,       \* should_compact(input tokens of the last response, 0 at first)
  retries,    \* stream_retry_count
  responses,  \* non-empty responses of this task so far
  launches,   \* agent tasks started so far
  chan,       \* the mpsc channel to the terminal loop
  cancel,     \* value of the cancel watch channel
  forwarder,  \* a detached output forwarder still holds a sender
  guard       \* HistoryGuard::previous

agentVars == <<apc, live, outbox, reply, callNo, first, over, retries,
               responses, launches, chan, cancel, forwarder, guard>>

-----------------------------------------------------------------------------
(* Messages and events.  A message is identified by the task and response  *)
(* that produced it and by the tool call it belongs to (0 when none); data *)
(* tells an image from the note that replaces it, and whether an assistant *)
(* message carries the visible text of its response.                       *)

Roles == {"user", "summary", "assistant", "tool"}
Contents == {"none", "text", "image", "note"}
Message == [role : Roles, task : Nat, resp : Nat, call : Nat, data : Contents]

Msg(role, resp, call, data) ==
  [role |-> role, task |-> launches, resp |-> resp, call |-> call, data |-> data]

CallId(m) == <<m.task, m.resp, m.call>>

EventKinds == {"token", "start", "save", "strip", "output", "needs", "done"}
Reasons == {"none", "ok", "cancelled", "aborted", "error", "threshold", "overflow"}
Event == [ev : EventKinds, why : Reasons, msg : Message, ids : SUBSET (Nat \X Nat \X Nat)]

NoMsg == [role |-> "user", task |-> 0, resp |-> 0, call |-> 0, data |-> "none"]
Ev(kind) == [ev |-> kind, why |-> "none", msg |-> NoMsg, ids |-> {}]
Done(why) == [Ev("done") EXCEPT !.why = why]
Needs(why) == [Ev("needs") EXCEPT !.why = why]
Save(m) == [Ev("save") EXCEPT !.msg = m]
Strip(ids) == [Ev("strip") EXCEPT !.ids = ids]

\* Done and NeedsCompaction are the last words of a task.
Terminal(e) == e.ev \in {"done", "needs"}

\* A call runs a registered tool, or is activate_skill (with or without a
\* skill name: both only record a pair).
CallKinds == {"run", "skill"}
Replies == [text : BOOLEAN, think : BOOLEAN,
            calls : UNION {[1..n -> CallKinds] : n \in 0..MaxCalls}]
NoReply == [text |-> FALSE, think |-> FALSE, calls |-> <<>>]
IsEmptyReply(r) == ~r.text /\ ~r.think /\ r.calls = <<>>

\* strip_images_from_tool over the messages whose images the model has seen.
StripSeen(s, ids) ==
  [i \in DOMAIN s |->
     IF s[i].data = "image" /\ CallId(s[i]) \in ids
     THEN [s[i] EXCEPT !.data = "note"] ELSE s[i]]

\* Fault: only the images of the task at work are looked for.
ImagesOfTask(s) ==
  {CallId(s[i]) : i \in {j \in DOMAIN s : s[j].data = "image" /\ s[j].task = launches}}

Images(s) == {CallId(s[i]) : i \in {j \in DOMAIN s : s[j].data = "image"}}

-----------------------------------------------------------------------------
AgentInit ==
  /\ apc = "none"
  /\ live = <<>>
  /\ outbox = <<>>
  /\ reply = NoReply
  /\ callNo = 0
  /\ first = FALSE
  /\ over = FALSE
  /\ retries = 0
  /\ responses = 0
  /\ launches = 0
  /\ chan = <<>>
  /\ cancel = FALSE
  /\ forwarder = FALSE
  /\ guard = <<>>

\* The task returned and dropped its sender, and no forwarder keeps one.
Closed == apc \in {"none", "end"} /\ outbox = <<>> /\ ~forwarder

At(pc) == apc = pc /\ outbox = <<>>

\* One `tx.send(event).await`: waits for room in the channel.
Send ==
  /\ outbox # <<>>
  /\ Len(chan) < ChanCap
  /\ chan' = Append(chan, Head(outbox))
  /\ outbox' = Tail(outbox)
  /\ UNCHANGED <<apc, live, reply, callNo, first, over, retries, responses,
                 launches, cancel, forwarder, guard>>

\* The detached forwarder of a finished tool delivers its last chunk.
ForwardLate ==
  /\ forwarder
  /\ Len(chan) < ChanCap
  /\ chan' = Append(chan, Ev("output"))
  /\ forwarder' = FALSE
  /\ UNCHANGED <<apc, live, outbox, reply, callNo, first, over, retries,
                 responses, launches, cancel, guard>>

\* The task sends a last event and returns.
Finish(e) ==
  /\ outbox' = <<e>>
  /\ apc' = "end"

-----------------------------------------------------------------------------
(* Top of the loop: cancellation, then the compaction threshold, then the  *)
(* history guard and the request.                                          *)

StopCancelled ==
  /\ At("top") /\ cancel
  /\ Finish(Done("cancelled"))
  /\ UNCHANGED <<live, reply, callNo, first, over, retries, responses,
                 launches, chan, cancel, forwarder, guard>>

\* Fault: the task asks for compaction and does not return.
StopAtThresholdGoesOn ==
  /\ At("top") /\ ~cancel /\ over
  /\ outbox' = <<Needs("threshold")>>
  /\ apc' = "stream"
  /\ UNCHANGED <<live, reply, callNo, first, over, retries, responses,
                 launches, chan, cancel, forwarder, guard>>

StopAtThreshold ==
  /\ At("top") /\ ~cancel /\ over
  /\ Finish(Needs("threshold"))
  /\ UNCHANGED <<live, reply, callNo, first, over, retries, responses,
                 launches, chan, cancel, forwarder, guard>>

Request ==
  /\ At("top") /\ ~cancel /\ ~over
  /\ apc' = "stream"
  /\ guard' = live
  /\ UNCHANGED <<live, outbox, reply, callNo, first, over, retries, responses,
                 launches, chan, cancel, forwarder>>

-----------------------------------------------------------------------------
(* The provider answers.  A cancelled stream either ends like any other,   *)
(* with what had arrived (the SSE reader returns Ok on cancellation and    *)
(* closes the chunk channel), or is caught by the 100 ms check (Aborted).  *)

\* A non-empty response; usage may push the task over the threshold.
Respond(r, full) ==
  /\ At("stream")
  /\ ~IsEmptyReply(r)
  /\ responses + 1 = MaxResponses => r.calls = <<>>
  /\ full => launches < MaxLaunches
  /\ retries' = 0
  /\ responses' = responses + 1
  /\ over' = (over \/ full)
  /\ LET seen == IF StripImages THEN Images(live) ELSE {}
         told == (IF r.text \/ r.think THEN <<Ev("token")>> ELSE <<>>)
                 \o (IF seen # {} THEN <<Strip(seen)>> ELSE <<>>)
         final == CASE r.text -> <<Save(Msg("assistant", responses + 1, 0, "text")), Done("ok")>>
                    [] OTHER -> <<Done("ok")>>
     IN /\ live' = StripSeen(live, seen)
        /\ IF r.calls = <<>>
           THEN outbox' = told \o final /\ apc' = "end"
           ELSE outbox' = told /\ apc' = "tools"
  /\ reply' = IF r.calls = <<>> THEN NoReply ELSE r
  /\ callNo' = 1
  /\ first' = TRUE
  /\ UNCHANGED <<launches, chan, cancel, forwarder, guard>>

\* Fault: exhausted retries report the error, and the loop goes on.
RetryGoesOn(empty) ==
  /\ At("stream")
  /\ retries' = retries + 1
  /\ IF retries + 1 > MaxRetries
     THEN outbox' = <<Done("error")>> /\ apc' = "top"
     ELSE apc' = "backoff" /\ UNCHANGED outbox
  /\ UNCHANGED <<live, reply, callNo, first, over, responses, launches, chan,
                 cancel, forwarder, guard>>

\* Fault: attempts are never counted.
RetryForever(empty) ==
  /\ At("stream")
  /\ apc' = "backoff"
  /\ UNCHANGED <<live, outbox, reply, callNo, first, over, retries, responses,
                 launches, chan, cancel, forwarder, guard>>

\* An empty response or a retryable error: handle_retry.  Before it asks again
\* after an empty one, an assistant message at the end of the context is dropped.
Retry(empty) ==
  /\ At("stream")
  /\ retries' = retries + 1
  /\ IF retries + 1 > MaxRetries THEN Finish(Done("error")) /\ UNCHANGED live
     ELSE /\ apc' = "backoff"
          /\ UNCHANGED outbox
          /\ live' = IF empty /\ live # <<>> /\ Last(live).role = "assistant"
                     THEN Front(live) ELSE live
  /\ UNCHANGED <<reply, callNo, first, over, responses, launches, chan, cancel,
                 forwarder, guard>>

\* The end of the backoff sleep, where handle_retry looks at the cancel flag.
Backoff ==
  /\ At("backoff")
  /\ IF cancel THEN Finish(Done("cancelled"))
     ELSE apc' = "stream" /\ UNCHANGED outbox
  /\ UNCHANGED <<live, reply, callNo, first, over, retries, responses, launches,
                 chan, cancel, forwarder, guard>>

\* Overflow asks for compaction, any other error ends the task.
StreamFails(e) ==
  /\ At("stream")
  /\ e = Done("aborted") => cancel
  /\ e = Needs("overflow") => launches < MaxLaunches
  /\ Finish(e)
  /\ UNCHANGED <<live, reply, callNo, first, over, retries, responses, launches,
                 chan, cancel, forwarder, guard>>

-----------------------------------------------------------------------------
(* Tool calls of a response, in order.                                     *)

Call == Head(reply.calls)

CallMsg(data) == Msg("assistant", responses, callNo, data)
ResultMsg(data) == Msg("tool", responses, callNo, data)

\* Fault: the live context gets the call without the blocks the session gets.
RecordSplit(before, callData, resultData) ==
  /\ outbox' = before \o <<Save(CallMsg(callData)), Save(ResultMsg(resultData))>>
  /\ live' = live \o <<CallMsg("none"), ResultMsg(resultData)>>
  /\ reply' = [reply EXCEPT !.calls = Tail(@)]
  /\ callNo' = callNo + 1
  /\ apc' = IF Len(reply.calls) = 1 THEN "top" ELSE "tools"

\* Fault: a cancelled call is saved and its result is not.
RecordHalf(before, callData, resultData) ==
  /\ outbox' = before \o <<Save(CallMsg(callData))>>
                \o (IF cancel THEN <<>> ELSE <<Save(ResultMsg(resultData))>>)
  /\ live' = live \o <<CallMsg(callData), ResultMsg(resultData)>>
  /\ reply' = [reply EXCEPT !.calls = Tail(@)]
  /\ callNo' = callNo + 1
  /\ apc' = IF Len(reply.calls) = 1 THEN "top" ELSE "tools"

\* The pair reaches the session and the live context alike, then the next
\* call (or the next request) follows.
Record(before, callData, resultData) ==
  /\ outbox' = before \o <<Save(CallMsg(callData)), Save(ResultMsg(resultData))>>
  /\ live' = live \o <<CallMsg(callData), ResultMsg(resultData)>>
  /\ reply' = [reply EXCEPT !.calls = Tail(@)]
  /\ callNo' = callNo + 1
  /\ apc' = IF Len(reply.calls) = 1 THEN "top" ELSE "tools"

CancelBeforeCall ==
  /\ At("tools") /\ cancel
  /\ Finish(Done("cancelled"))
  /\ UNCHANGED <<live, reply, callNo, first, over, retries, responses, launches,
                 chan, cancel, forwarder, guard>>

\* activate_skill never reaches the registry: its pair is recorded without
\* the text of the response, and first_tool_call stays as it was.
ActivateSkill ==
  /\ At("tools") /\ ~cancel /\ Call = "skill"
  /\ Record(<<>>, "none", "none")
  /\ UNCHANGED <<first, over, retries, responses, launches, chan, cancel,
                 forwarder, guard>>

RunPreToolHooks ==
  /\ At("tools") /\ ~cancel /\ Call = "run"
  /\ apc' = "hook"
  /\ UNCHANGED <<live, outbox, reply, callNo, first, over, retries, responses,
                 launches, chan, cancel, forwarder, guard>>

\* A PreToolUse hook exits 2: the refusal is the tool's result.
VetoCall ==
  /\ At("hook")
  /\ Record(<<Ev("start")>>, "none", "none")
  /\ UNCHANGED <<first, over, retries, responses, launches, chan, cancel,
                 forwarder, guard>>

StartTool ==
  /\ At("hook")
  /\ apc' = "run"
  /\ outbox' = <<Ev("start")>>
  /\ UNCHANGED <<live, reply, callNo, first, over, retries, responses, launches,
                 chan, cancel, forwarder, guard>>

\* The tool returns (a cancelled tool returns an error result).  Its output
\* forwarder may miss the 50 ms flush and stay behind, detached.
FinishTool(image, late) ==
  /\ At("run")
  /\ image => StripImages
  /\ Record(<<>>, IF first /\ reply.text THEN "text" ELSE "none",
            IF image THEN "image" ELSE "none")
  /\ first' = FALSE
  /\ forwarder' = (forwarder \/ late)
  /\ UNCHANGED <<over, retries, responses, launches, chan, cancel, guard>>

\* A panic in tool code, which runs inside the task, ends it with no last
\* event (a panic of the provider task is only a retryable error).
Panic ==
  /\ TaskPanics
  /\ At("run")
  /\ apc' = "end"
  /\ UNCHANGED <<live, outbox, reply, callNo, first, over, retries, responses,
                 launches, chan, cancel, forwarder, guard>>

-----------------------------------------------------------------------------
\* What the task does by itself, and a PreToolUse hook's verdict, which comes
\* within the hook's 30 seconds.
OwnStep ==
  \/ Send
  \/ StopCancelled
  \/ StopAtThreshold
  \/ Request
  \/ Backoff
  \/ CancelBeforeCall
  \/ ActivateSkill
  \/ RunPreToolHooks
  \/ VetoCall
  \/ StartTool

\* What the task gets from the provider and from a tool.  Nothing limits the
\* time either takes: the HTTP client has no timeout, and a command's pipes are
\* read to their end.
Answered ==
  \/ \E r \in Replies, full \in BOOLEAN : Respond(r, full)
  \/ \E empty \in BOOLEAN : Retry(empty)
  \/ \E e \in {Done("aborted"), Done("error"), Needs("overflow")} : StreamFails(e)
  \/ \E image, late \in BOOLEAN : FinishTool(image, late)
  \/ Panic

AgentStep == OwnStep \/ Answered

AgentTypeOK ==
  /\ apc \in {"none", "top", "stream", "backoff", "tools", "hook", "run", "end"}
  /\ live \in Seq(Message)
  /\ outbox \in Seq(Event)
  /\ reply \in [text : BOOLEAN, think : BOOLEAN, calls : Seq(CallKinds)]
  /\ callNo \in Nat
  /\ first \in BOOLEAN
  /\ over \in BOOLEAN
  /\ retries \in 0..(MaxRetries + 1)
  /\ responses \in Nat
  /\ launches \in Nat
  /\ chan \in Seq(Event) /\ Len(chan) <= ChanCap
  /\ cancel \in BOOLEAN
  /\ forwarder \in BOOLEAN
  /\ guard \in Seq(Message)
=============================================================================
