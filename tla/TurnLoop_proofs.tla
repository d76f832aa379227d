--------------------------- MODULE TurnLoop_proofs ---------------------------
(***************************************************************************)
(* Proofs about module TurnLoop, for every value of its constants.         *)
(*                                                                         *)
(* One inductive invariant carries them: Typed adds to TypeOK what the     *)
(* types depend on, LastEvent says where a Done or NeedsCompaction event   *)
(* can be, Settled says that the loop comes to its own end, or starts a    *)
(* compaction, only when the agent task has said all it had to say.        *)
(***************************************************************************)
EXTENDS TurnLoop, Induction

Typed ==
  /\ TypeOK
  /\ comp = "ready" => cut >= 2
  /\ apc # "end" => retries <= MaxRetries
  /\ apc \in {"tools", "hook", "run"} => reply.calls # <<>>
  /\ apc \notin {"none", "end"} => live # <<>> /\ live[Len(live)].role # "assistant"

LastEvent ==
  /\ \A i \in 1..Len(chan) : Terminal(chan[i]) =>
       /\ apc = "end"
       /\ outbox = <<>>
       /\ \A j \in (i + 1)..Len(chan) : chan[j].ev = "output"
  /\ \A i \in 1..Len(outbox) : Terminal(outbox[i]) => apc = "end" /\ i = Len(outbox)

\* Nothing is left to hear from the agent task but output of finished tools.
Quiet ==
  /\ apc \in {"none", "end"}
  /\ outbox = <<>>
  /\ \A i \in 1..Len(chan) : chan[i].ev = "output"

Settled ==
  /\ done => Quiet /\ comp = "none"
  /\ tpc = "idle" => ~done /\ Quiet /\ comp = "none"
  /\ tpc = "join" /\ ~DrawFails => done
  /\ ~DrawFails => strays = {}
  /\ comp # "none" => Quiet /\ snap = ctx

\* The screen shows that a task is at work, unless the help covers it.
Shown ==
  /\ apc \notin {"none", "end"} => ui \in Working \cup {"HelpPopup"}
  /\ ui = "HelpPopup" => "f1" \in Keys

Inductive == Typed /\ LastEvent /\ Settled /\ Shown

-----------------------------------------------------------------------------
USE DEF Roles, Contents, EventKinds, Reasons, CallKinds

LEMMA MsgType ==
  ASSUME NEW role \in Roles, NEW resp \in Nat, NEW call \in Nat, NEW data \in Contents,
         launches \in Nat
  PROVE  Msg(role, resp, call, data) \in Message
BY DEF Msg, Message

\* Every event the agent builds is an Event that carries a message.
LEMMA EventTypes ==
  /\ \A k \in EventKinds : Ev(k) \in Event /\ Ev(k).ev = k
  /\ \A w \in Reasons : Done(w) \in Event /\ Done(w).ev = "done"
  /\ \A w \in Reasons : Needs(w) \in Event /\ Needs(w).ev = "needs"
  /\ \A m \in Message : Save(m) \in Event /\ Save(m).ev = "save"
  /\ \A ids \in SUBSET (Nat \X Nat \X Nat) : Strip(ids) \in Event /\ Strip(ids).ev = "strip"
<1>1. NoMsg \in Message
  BY DEF NoMsg, Message
<1>2. \A k \in EventKinds : Ev(k) \in Event /\ Ev(k).ev = k
  BY <1>1 DEF Ev, Event
<1>3. \A w \in Reasons : Done(w) \in Event /\ Done(w).ev = "done"
  BY <1>1 DEF Ev, Event, Done
<1>4. \A w \in Reasons : Needs(w) \in Event /\ Needs(w).ev = "needs"
  BY <1>1 DEF Ev, Event, Needs
<1>5. \A m \in Message : Save(m) \in Event /\ Save(m).ev = "save"
  BY DEF Ev, Event, Save
<1>6. \A ids \in SUBSET (Nat \X Nat \X Nat) : Strip(ids) \in Event /\ Strip(ids).ev = "strip"
  BY <1>1 DEF Ev, Event, Strip
<1> QED BY <1>2, <1>3, <1>4, <1>5, <1>6

\* Replacing seen images keeps a sequence of messages one, of the same length.
LEMMA StripSeenType ==
  ASSUME NEW s \in Seq(Message), NEW ids
  PROVE  StripSeen(s, ids) \in Seq(Message) /\ Len(StripSeen(s, ids)) = Len(s)
<1>1. \A m \in Message : [m EXCEPT !.data = "note"] \in Message
  BY DEF Message
<1>2. DOMAIN s = 1..Len(s) /\ \A i \in 1..Len(s) : s[i] \in Message
  OBVIOUS
<1>3. \A i \in 1..Len(s) : (IF s[i].data = "image" /\ CallId(s[i]) \in ids
                            THEN [s[i] EXCEPT !.data = "note"] ELSE s[i]) \in Message
  BY <1>1, <1>2
<1> QED BY <1>2, <1>3 DEF StripSeen

LEMMA ImagesType ==
  ASSUME NEW s \in Seq(Message)
  PROVE  Images(s) \in SUBSET (Nat \X Nat \X Nat)
<1>1. \A m \in Message : CallId(m) \in Nat \X Nat \X Nat
  BY DEF CallId, Message
<1>2. \A i \in DOMAIN s : s[i] \in Message
  OBVIOUS
<1> QED BY <1>1, <1>2 DEF Images

\* What a concatenation holds, seen from its own indices.
LEMMA ConcatParts ==
  ASSUME NEW S, NEW a \in Seq(S), NEW b \in Seq(S)
  PROVE  /\ a \o b \in Seq(S) /\ Len(a \o b) = Len(a) + Len(b)
         /\ \A i \in 1..Len(a \o b) :
              \/ i \in 1..Len(a) /\ (a \o b)[i] = a[i]
              \/ i - Len(a) \in 1..Len(b) /\ (a \o b)[i] = b[i - Len(a)]
<1>1. Len(a) \in Nat /\ Len(b) \in Nat
  OBVIOUS
<1> QED BY <1>1, ConcatProperties

LEMMA KeptType ==
  ASSUME NEW s \in Seq(Message), NEW k \in Nat, k >= 2
  PROVE  SubSeq(s, k, Len(s)) \in Seq(Message)
OBVIOUS

-----------------------------------------------------------------------------
LEMMA InitInductive == TurnInit => Inductive
<1> SUFFICES ASSUME TurnInit PROVE Inductive
  OBVIOUS
<1> USE DEF TurnInit, AgentInit
<1>1. <<>> \in Seq(Message) /\ <<>> \in Seq(Event) /\ <<>> \in Seq(CallKinds) /\ Len(<<>>) = 0
  OBVIOUS
<1>2. NoReply \in [text : BOOLEAN, think : BOOLEAN, calls : Seq(CallKinds)]
  BY <1>1 DEF NoReply
<1>3. 0 <= ChanCap /\ 0 <= MaxRetries /\ 0 \in 0..(MaxRetries + 1)
  BY AgentAssumption
<1>4. AgentTypeOK
  BY <1>1, <1>2, <1>3, Zenon DEF AgentTypeOK
<1>5. TypeOK
  BY <1>1, <1>4 DEF TypeOK, UiStates
<1>6. Typed
  BY <1>3, <1>5, Zenon DEF Typed
<1>7. LastEvent
  BY DEF LastEvent
<1>8. Settled
  BY DEF Settled, Quiet
<1>9. Shown
  BY DEF Shown
<1> QED BY <1>6, <1>7, <1>8, <1>9 DEF Inductive

-----------------------------------------------------------------------------
(* The agent task.                                                         *)

\* A step of a task that has not ended: it may end itself with one last event.
LEMMA TaskGoesOn ==
  ASSUME Inductive, apc \notin {"none", "end"}, outbox = <<>>,
         UNCHANGED <<chan, turnVars>>,
         outbox' \in Seq(Event),
         \A i \in 1..Len(outbox') : Terminal(outbox'[i]) => apc' = "end" /\ i = Len(outbox')
  PROVE  LastEvent' /\ Settled' /\ Shown'
<1> USE DEF Inductive, turnVars
<1>1. ~done /\ tpc # "idle" /\ comp = "none"
  BY DEF Settled, Quiet
<1>2. \A i \in 1..Len(chan) : ~Terminal(chan[i])
  BY DEF LastEvent
<1>3. LastEvent'
  BY <1>2 DEF LastEvent, Terminal
<1>4. Settled'
  BY <1>1 DEF Settled
<1>5. Shown'
  BY DEF Shown, Working
<1> QED BY <1>3, <1>4, <1>5

\* The context of a task at work never ends in an assistant message, so a retry
\* finds none to drop.
LEMMA RetryDropsNothing ==
  ASSUME Inductive, NEW empty \in BOOLEAN, Retry(empty)
  PROVE  live' = live
BY DEF Inductive, Typed, Retry, At, Last

\* The steps that send at most one event, after which the task may end.
LEMMA ShortStepsKeep ==
  ASSUME Inductive, UNCHANGED turnVars,
         \/ StopCancelled \/ StopAtThreshold \/ Request \/ Backoff
         \/ \E empty \in BOOLEAN : Retry(empty)
         \/ \E e \in {Done("aborted"), Done("error"), Needs("overflow")} : StreamFails(e)
         \/ CancelBeforeCall \/ RunPreToolHooks \/ StartTool \/ Panic
  PROVE  Inductive'
<1> USE AgentAssumption DEF Inductive, Typed, TypeOK, AgentTypeOK, turnVars, At, Finish
<1>e. /\ \A w \in Reasons : Done(w) \in Event
      /\ \A w \in Reasons : Needs(w) \in Event
      /\ Ev("start") \in Event /\ ~Terminal(Ev("start"))
  BY EventTypes DEF Terminal
<1>1. CASE StopCancelled
  BY <1>1, <1>e, TaskGoesOn DEF StopCancelled
<1>2. CASE StopAtThreshold
  BY <1>2, <1>e, TaskGoesOn DEF StopAtThreshold
<1>3. CASE Request
  BY <1>3, TaskGoesOn DEF Request
<1>4. CASE \E empty \in BOOLEAN : Retry(empty)
  <2> PICK empty \in BOOLEAN : Retry(empty)
    BY <1>4
  <2>0. live' = live
    BY RetryDropsNothing
  <2> USE <2>0 DEF Retry
  <2>1. CASE retries + 1 > MaxRetries
    <3>1. outbox' = <<Done("error")>> /\ apc' = "end" /\ Done("error") \in Event
      BY <2>1, <1>e
    <3>2. Typed'
      BY <3>1
    <3> QED BY <3>1, <3>2, TaskGoesOn
  <2>2. CASE ~(retries + 1 > MaxRetries)
    <3>1. outbox' = outbox /\ apc' = "backoff"
      BY <2>2
    <3>2. Typed'
      BY <2>2, <3>1
    <3> QED BY <3>1, <3>2, TaskGoesOn
  <2> QED BY <2>1, <2>2
<1>5. CASE Backoff
  <2> USE <1>5 DEF Backoff
  <2>1. CASE cancel
    <3>1. outbox' = <<Done("cancelled")>> /\ apc' = "end" /\ Done("cancelled") \in Event
      BY <2>1, <1>e
    <3> QED BY <3>1, TaskGoesOn
  <2>2. CASE ~cancel
    BY <2>2, TaskGoesOn
  <2> QED BY <2>1, <2>2
<1>6. CASE \E e \in {Done("aborted"), Done("error"), Needs("overflow")} : StreamFails(e)
  BY <1>6, <1>e, TaskGoesOn DEF StreamFails
<1>7. CASE CancelBeforeCall
  BY <1>7, <1>e, TaskGoesOn DEF CancelBeforeCall
<1>8. CASE RunPreToolHooks
  BY <1>8, TaskGoesOn DEF RunPreToolHooks
<1>9. CASE StartTool
  BY <1>9, <1>e, TaskGoesOn DEF StartTool
<1>10. CASE Panic
  BY <1>10, TaskGoesOn DEF Panic
<1> QED BY <1>1, <1>2, <1>3, <1>4, <1>5, <1>6, <1>7, <1>8, <1>9, <1>10

\* A recorded pair, with the events that go before it.
LEMMA RecordKeeps ==
  ASSUME Inductive, apc \in {"tools", "hook", "run"}, outbox = <<>>,
         NEW before \in Seq(Event), \A i \in 1..Len(before) : ~Terminal(before[i]),
         NEW callData \in Contents, NEW resultData \in Contents,
         Record(before, callData, resultData),
         first' \in BOOLEAN, forwarder' \in BOOLEAN,
         UNCHANGED <<over, retries, responses, launches, chan, cancel, guard, turnVars>>
  PROVE  Inductive'
<1> DEFINE c == CallMsg(callData)
           r == ResultMsg(resultData)
           pair == <<Save(c), Save(r)>>
<1>1. AgentTypeOK /\ reply.calls # <<>>
  BY DEF Inductive, Typed, TypeOK
<1>2. c \in Message /\ r \in Message
  BY <1>1, MsgType DEF AgentTypeOK, CallMsg, ResultMsg
<1>3. pair \in Seq(Event) /\ Len(pair) = 2 /\ \A i \in 1..Len(pair) : ~Terminal(pair[i])
  BY <1>2, EventTypes DEF Terminal
<1>4. outbox' = before \o pair /\ live' = live \o <<c, r>>
  BY DEF Record
<1> HIDE DEF c, r, pair
<1>5. outbox' \in Seq(Event) /\ \A i \in 1..Len(outbox') : ~Terminal(outbox'[i])
  <2>1. /\ before \o pair \in Seq(Event)
        /\ \A i \in 1..Len(before \o pair) :
             \/ i \in 1..Len(before) /\ (before \o pair)[i] = before[i]
             \/ i - Len(before) \in 1..Len(pair) /\ (before \o pair)[i] = pair[i - Len(before)]
    BY <1>3, ConcatParts
  <2>2. \A i \in 1..Len(before \o pair) : ~Terminal((before \o pair)[i])
    BY <1>3, <2>1
  <2> QED BY <1>4, <2>1, <2>2
<1>6. live' \in Seq(Message)
  BY <1>1, <1>2, <1>4 DEF AgentTypeOK
<1>7. /\ reply' \in [text : BOOLEAN, think : BOOLEAN, calls : Seq(CallKinds)]
      /\ callNo' \in Nat
      /\ apc' \in {"top", "tools"}
      /\ apc' = "tools" => reply'.calls # <<>>
  <2>1. /\ reply' = [reply EXCEPT !.calls = Tail(reply.calls)]
        /\ callNo' = callNo + 1
        /\ apc' = IF Len(reply.calls) = 1 THEN "top" ELSE "tools"
    BY DEF Record
  <2>2. reply.calls \in Seq(CallKinds) /\ reply.calls # <<>>
    BY <1>1 DEF AgentTypeOK
  <2>3. Tail(reply.calls) \in Seq(CallKinds)
    BY <2>2
  <2>4. Len(reply.calls) # 1 => Tail(reply.calls) # <<>>
    <3>1. Len(Tail(reply.calls)) = Len(reply.calls) - 1 /\ Len(reply.calls) \in Nat \ {0}
      BY <2>2, HeadTailProperties, LenProperties, EmptySeq
    <3>2. Tail(reply.calls) = <<>> => Len(Tail(reply.calls)) = 0
      BY <2>3, EmptySeq
    <3> QED BY <3>1, <3>2
  <2>5. reply'.calls = Tail(reply.calls)
    BY <1>1, <2>1 DEF AgentTypeOK
  <2>6. reply' \in [text : BOOLEAN, think : BOOLEAN, calls : Seq(CallKinds)]
    BY <1>1, <2>1, <2>3 DEF AgentTypeOK
  <2>7. callNo' \in Nat /\ apc' \in {"top", "tools"}
    BY <1>1, <2>1 DEF AgentTypeOK
  <2>8. apc' = "tools" => reply'.calls # <<>>
    BY <2>1, <2>4, <2>5
  <2> QED BY <2>6, <2>7, <2>8
<1>10. live' # <<>> /\ live'[Len(live')].role # "assistant"
  <2>1. r.role = "tool"
    BY DEF r, ResultMsg, Msg
  <2>2. Len(live') = Len(live) + 2 /\ live'[Len(live) + 2] = r
    BY <1>1, <1>2, <1>4 DEF AgentTypeOK
  <2> QED BY <1>6, <2>1, <2>2
<1>8. Typed'
  BY <1>5, <1>6, <1>7, <1>10 DEF Inductive, Typed, TypeOK, AgentTypeOK, turnVars
<1>9. LastEvent' /\ Settled' /\ Shown'
  BY <1>5, TaskGoesOn
<1> QED BY <1>8, <1>9 DEF Inductive

LEMMA ToolStepsKeep ==
  ASSUME Inductive, UNCHANGED turnVars,
         ActivateSkill \/ VetoCall \/ \E image, late \in BOOLEAN : FinishTool(image, late)
  PROVE  Inductive'
<1>1. <<>> \in Seq(Event) /\ Len(<<>>) = 0
  OBVIOUS
<1>2. <<Ev("start")>> \in Seq(Event) /\ \A i \in 1..Len(<<Ev("start")>>) : ~Terminal(<<Ev("start")>>[i])
  BY EventTypes DEF Terminal
<1>3. first \in BOOLEAN /\ forwarder \in BOOLEAN
  BY DEF Inductive, Typed, TypeOK, AgentTypeOK
<1>4. CASE ActivateSkill
  <2>1. apc = "tools" /\ outbox = <<>> /\ Record(<<>>, "none", "none")
    BY <1>4 DEF ActivateSkill, At
  <2>2. /\ first' \in BOOLEAN /\ forwarder' \in BOOLEAN
        /\ UNCHANGED <<over, retries, responses, launches, chan, cancel, guard>>
    BY <1>3, <1>4 DEF ActivateSkill
  <2>3. \A i \in 1..Len(<<>>) : ~Terminal(<<>>[i])
    BY <1>1
  <2> QED BY <1>1, <2>1, <2>2, <2>3, RecordKeeps
<1>5. CASE VetoCall
  BY <1>2, <1>3, <1>5, RecordKeeps DEF VetoCall, At
<1>6. CASE \E image, late \in BOOLEAN : FinishTool(image, late)
  <2> PICK image \in BOOLEAN, late \in BOOLEAN : FinishTool(image, late)
    BY <1>6
  <2> DEFINE callData == IF first /\ reply.text THEN "text" ELSE "none"
             resultData == IF image THEN "image" ELSE "none"
  <2>1. callData \in Contents /\ resultData \in Contents
    OBVIOUS
  <2>2. Record(<<>>, callData, resultData) /\ apc = "run" /\ outbox = <<>>
    BY DEF FinishTool, At
  <2>3. /\ first' \in BOOLEAN /\ forwarder' \in BOOLEAN
        /\ UNCHANGED <<over, retries, responses, launches, chan, cancel, guard>>
    BY <1>3 DEF FinishTool
  <2>4. \A i \in 1..Len(<<>>) : ~Terminal(<<>>[i])
    BY <1>1
  <2> HIDE DEF callData, resultData
  <2> QED BY <1>1, <2>1, <2>2, <2>3, <2>4, RecordKeeps
<1> QED BY <1>4, <1>5, <1>6

LEMMA RespondKeeps ==
  ASSUME Inductive, UNCHANGED turnVars,
         NEW r \in Replies, NEW full \in BOOLEAN, Respond(r, full)
  PROVE  Inductive'
<1> DEFINE seen == IF StripImages THEN Images(live) ELSE {}
           told == (IF r.text \/ r.think THEN <<Ev("token")>> ELSE <<>>)
                   \o (IF seen # {} THEN <<Strip(seen)>> ELSE <<>>)
           msg == Msg("assistant", responses + 1, 0, "text")
           final == IF r.text THEN <<Save(msg), Done("ok")>> ELSE <<Done("ok")>>
<1>1. AgentTypeOK /\ apc = "stream" /\ outbox = <<>>
  BY DEF Inductive, Typed, TypeOK, Respond, At
<1>2. seen \in SUBSET (Nat \X Nat \X Nat) /\ live' = StripSeen(live, seen)
  BY <1>1, ImagesType DEF AgentTypeOK, Respond
<1>3. live' \in Seq(Message)
  BY <1>1, <1>2, StripSeenType DEF AgentTypeOK
<1>4. Strip(seen) \in Event /\ Ev("token") \in Event /\ ~Terminal(Strip(seen)) /\ ~Terminal(Ev("token"))
  BY <1>2, EventTypes DEF Terminal
<1>5. told \in Seq(Event) /\ \A i \in 1..Len(told) : ~Terminal(told[i])
  BY <1>4
<1>6. msg \in Message
  BY <1>1, MsgType DEF AgentTypeOK
<1>7. Save(msg) \in Event /\ ~Terminal(Save(msg)) /\ Done("ok") \in Event
  BY <1>6, EventTypes DEF Terminal
<1>8. final \in Seq(Event) /\ \A i \in 1..Len(final) : Terminal(final[i]) => i = Len(final)
  BY <1>7
<1>9. /\ apc' \in {"end", "tools"}
      /\ apc' = "end" => outbox' = told \o final
      /\ apc' = "tools" => outbox' = told /\ r.calls # <<>> /\ reply' = r
  BY DEF Respond
<1>10. /\ r \in [text : BOOLEAN, think : BOOLEAN, calls : Seq(CallKinds)]
       /\ NoReply \in [text : BOOLEAN, think : BOOLEAN, calls : Seq(CallKinds)]
  <2>1. <<>> \in Seq(CallKinds)
    OBVIOUS
  <2>2. \A n \in 0..MaxCalls : [1..n -> CallKinds] \subseteq Seq(CallKinds)
    BY AgentAssumption
  <2> QED BY <2>1, <2>2 DEF Replies, NoReply
<1> HIDE DEF seen, told, msg, final
<1>11. /\ outbox' \in Seq(Event)
       /\ \A i \in 1..Len(outbox') : Terminal(outbox'[i]) => apc' = "end" /\ i = Len(outbox')
  <2>1. CASE apc' = "end"
    <3>1. \A i \in 1..Len(told \o final) : Terminal((told \o final)[i]) => i = Len(told \o final)
      <4>1. Len(told) \in Nat /\ Len(final) \in Nat /\ Len(told \o final) = Len(told) + Len(final)
        BY <1>5, <1>8, ConcatParts
      <4>2. \A i \in 1..Len(told \o final) :
              \/ i \in 1..Len(told) /\ (told \o final)[i] = told[i]
              \/ i - Len(told) \in 1..Len(final) /\ (told \o final)[i] = final[i - Len(told)]
        BY <1>5, <1>8, ConcatParts
      <4> QED BY <1>5, <1>8, <4>1, <4>2
    <3> QED BY <1>5, <1>8, <1>9, <2>1, <3>1, ConcatParts
  <2>2. CASE apc' = "tools"
    BY <1>5, <1>9, <2>2
  <2> QED BY <1>9, <2>1, <2>2
<1>12. /\ retries' = 0 /\ responses' = responses + 1 /\ over' = (over \/ full)
       /\ reply' \in {NoReply, r} /\ callNo' = 1 /\ first' = TRUE
       /\ UNCHANGED <<launches, chan, cancel, forwarder, guard>>
  BY DEF Respond
<1>13. AgentTypeOK' /\ retries' <= MaxRetries
  <2>1. /\ live' \in Seq(Message)
        /\ outbox' \in Seq(Event)
        /\ \A i \in 1..Len(outbox') : Terminal(outbox'[i]) => apc' = "end" /\ i = Len(outbox')
    BY <1>3, <1>11
  <2> QED BY AgentAssumption, <1>1, <1>9, <1>10, <1>12, <2>1, SMTT(30) DEF AgentTypeOK
<1>16. live' # <<>> /\ live'[Len(live')].role # "assistant"
  <2>1. live # <<>> /\ live[Len(live)].role # "assistant" /\ live \in Seq(Message)
    BY <1>1 DEF Inductive, Typed, AgentTypeOK
  <2>2. /\ Len(live') = Len(live) /\ Len(live) \in Nat \ {0}
        /\ live'[Len(live)].role = live[Len(live)].role
    BY <1>2, <2>1, StripSeenType DEF StripSeen, Message
  <2> QED BY <1>3, <2>1, <2>2
<1>14. Typed'
  BY <1>9, <1>13, <1>16 DEF Inductive, Typed, TypeOK, turnVars
<1>15. LastEvent' /\ Settled' /\ Shown'
  BY <1>1, <1>11, <1>12, TaskGoesOn
<1> QED BY <1>14, <1>15 DEF Inductive

\* Sending moves the oldest event of the outbox to the end of the channel.
LEMMA SendKeeps ==
  ASSUME Inductive, UNCHANGED turnVars, Send
  PROVE  Inductive'
<1>1. /\ chan \in Seq(Event) /\ outbox \in Seq(Event) /\ outbox # <<>>
      /\ Len(chan) < ChanCap
      /\ chan' = Append(chan, Head(outbox)) /\ outbox' = Tail(outbox)
      /\ UNCHANGED <<apc, live, reply, callNo, first, over, retries, responses,
                     launches, cancel, forwarder, guard>>
  BY DEF Inductive, Typed, TypeOK, AgentTypeOK, Send
<1>2. /\ Head(outbox) = outbox[1] /\ Head(outbox) \in Event
      /\ Tail(outbox) \in Seq(Event) /\ Len(Tail(outbox)) = Len(outbox) - 1
      /\ \A i \in 1..Len(Tail(outbox)) : Tail(outbox)[i] = outbox[i + 1]
      /\ Len(outbox) \in Nat \ {0} /\ Len(chan) \in Nat
  BY <1>1
<1>3. /\ chan' \in Seq(Event) /\ Len(chan') = Len(chan) + 1
      /\ \A i \in 1..Len(chan) : chan'[i] = chan[i]
      /\ chan'[Len(chan) + 1] = Head(outbox)
  BY <1>1, <1>2
<1>4. Typed'
  BY AgentAssumption, <1>1, <1>2, <1>3 DEF Inductive, Typed, TypeOK, AgentTypeOK, turnVars
<1>5. LastEvent'
  <2>1. \A i \in 1..Len(chan) : ~Terminal(chan[i])
    BY <1>1 DEF Inductive, LastEvent
  <2>2. \A i \in 1..Len(outbox) : Terminal(outbox[i]) => apc = "end" /\ i = Len(outbox)
    BY DEF Inductive, LastEvent
  <2>3. ASSUME NEW i \in 1..Len(chan'), Terminal(chan'[i])
        PROVE  /\ apc' = "end" /\ outbox' = <<>>
               /\ \A j \in (i + 1)..Len(chan') : chan'[j].ev = "output"
    <3>1. i = Len(chan) + 1
      BY <1>2, <1>3, <2>1, <2>3
    <3>2. chan'[i] = outbox[1] /\ 1 \in 1..Len(outbox)
      BY <1>2, <1>3, <3>1
    <3>3. apc = "end" /\ 1 = Len(outbox)
      BY <2>2, <2>3, <3>2
    <3>4. Tail(outbox) = <<>>
      <4>1. Tail(outbox) \in Seq(Event) /\ Len(Tail(outbox)) = 0
        <5>1. Tail(outbox) \in Seq(Event) /\ Len(Tail(outbox)) = Len(outbox) - 1
          BY <1>2
        <5> QED BY <3>3, <5>1
      <4> QED BY <4>1, EmptySeq
    <3> QED BY <1>1, <1>2, <1>3, <3>1, <3>3, <3>4
  <2>4. \A i \in 1..Len(outbox') : Terminal(outbox'[i]) => apc' = "end" /\ i = Len(outbox')
    <3> SUFFICES ASSUME NEW i \in 1..Len(Tail(outbox)), Terminal(Tail(outbox)[i])
                 PROVE  apc = "end" /\ i = Len(Tail(outbox))
      BY <1>1
    <3>1. i + 1 \in 1..Len(outbox) /\ Terminal(outbox[i + 1])
      BY <1>2
    <3>2. apc = "end" /\ i + 1 = Len(outbox)
      BY <2>2, <3>1
    <3>3. i = Len(Tail(outbox))
      <4>1. Len(Tail(outbox)) = Len(outbox) - 1 /\ Len(outbox) \in Nat /\ i \in Int
        BY <1>2
      <4> QED BY <3>2, <4>1
    <3> QED BY <3>2, <3>3
  <2> QED BY <2>3, <2>4 DEF LastEvent
<1>6. Settled'
  BY <1>1 DEF Inductive, Settled, Quiet, turnVars
<1>7. Shown'
  BY <1>1 DEF Inductive, Shown, Working, turnVars
<1> QED BY <1>4, <1>5, <1>6, <1>7 DEF Inductive

\* A forwarder that outlives its tool only adds output.
LEMMA ForwardLateKeeps ==
  ASSUME Inductive, UNCHANGED turnVars, ForwardLate
  PROVE  Inductive'
<1>1. /\ chan \in Seq(Event) /\ Len(chan) < ChanCap
      /\ chan' = Append(chan, Ev("output")) /\ forwarder' = FALSE
      /\ UNCHANGED <<apc, live, outbox, reply, callNo, first, over, retries,
                     responses, launches, cancel, guard>>
  BY DEF Inductive, Typed, TypeOK, AgentTypeOK, ForwardLate
<1>2. Ev("output") \in Event /\ Ev("output").ev = "output" /\ ~Terminal(Ev("output"))
  BY EventTypes DEF Terminal
<1>3. /\ chan' \in Seq(Event) /\ Len(chan') = Len(chan) + 1 /\ Len(chan) \in Nat
      /\ \A i \in 1..Len(chan) : chan'[i] = chan[i]
      /\ chan'[Len(chan) + 1] = Ev("output")
  BY <1>1, <1>2
<1>4. Typed'
  <2>1. Len(chan') <= ChanCap
    BY AgentAssumption, <1>1, <1>3
  <2>2. AgentTypeOK
    BY DEF Inductive, Typed, TypeOK
  <2>3. AgentTypeOK'
    BY <1>1, <1>3, <2>1, <2>2 DEF AgentTypeOK
  <2> QED BY <1>1, <2>3 DEF Inductive, Typed, TypeOK, turnVars
<1>5. LastEvent'
  BY <1>1, <1>2, <1>3 DEF Inductive, LastEvent
<1>6. Settled'
  BY <1>1, <1>2, <1>3 DEF Inductive, Settled, Quiet, turnVars
<1>7. Shown'
  BY <1>1 DEF Inductive, Shown, Working, turnVars
<1> QED BY <1>4, <1>5, <1>6, <1>7 DEF Inductive

LEMMA TaskKeeps == Inductive /\ (TaskStep \/ LateOutput) => Inductive'
<1> SUFFICES ASSUME Inductive, TaskStep \/ LateOutput PROVE Inductive'
  OBVIOUS
<1>1. CASE LateOutput
  BY <1>1, ForwardLateKeeps DEF LateOutput
<1>2. CASE TaskStep
  <2>1. AgentStep /\ UNCHANGED turnVars
    BY <1>2 DEF TaskStep
  <2>2. CASE Send
    BY <2>1, <2>2, SendKeeps
  <2>3. CASE \E r \in Replies, full \in BOOLEAN : Respond(r, full)
    BY <2>1, <2>3, RespondKeeps
  <2>4. CASE ActivateSkill \/ VetoCall \/ \E image, late \in BOOLEAN : FinishTool(image, late)
    BY <2>1, <2>4, ToolStepsKeep
  <2>5. CASE \/ StopCancelled \/ StopAtThreshold \/ Request \/ Backoff
             \/ \E empty \in BOOLEAN : Retry(empty)
             \/ \E e \in {Done("aborted"), Done("error"), Needs("overflow")} : StreamFails(e)
             \/ CancelBeforeCall \/ RunPreToolHooks \/ StartTool \/ Panic
    BY <2>1, <2>5, ShortStepsKeep
  <2> QED BY <2>1, <2>2, <2>3, <2>4, <2>5 DEF AgentStep, OwnStep, Answered
<1> QED BY <1>1, <1>2

-----------------------------------------------------------------------------
(* The terminal loop.                                                      *)

\* A launch starts afresh, whatever there was before.
LEMMA LaunchKeeps ==
  ASSUME Inductive, NEW base \in Seq(Message), Launch(base),
         guard' \in Seq(Message), done' = FALSE, key' \in {"none"} \cup Keys,
         comp' = "none", snap' \in Seq(Message), cut' \in Nat, tpc' \in {"poll", "recv"},
         strays' = strays
  PROVE  Inductive'
<1> DEFINE user == [role |-> "user", task |-> launches + 1, resp |-> 0, call |-> 0,
                    data |-> "none"]
<1>1. AgentTypeOK
  BY DEF Inductive, Typed, TypeOK
<1>2. user \in Message
  BY <1>1 DEF AgentTypeOK, Message
<1>3. Append(base, user) \in Seq(Message)
  BY <1>2
<1>4. ctx' = Append(base, user) /\ live' = Append(base, user)
  BY DEF Launch
<1> HIDE DEF user
<1>5. <<>> \in Seq(Event) /\ <<>> \in Seq(CallKinds) /\ Len(<<>>) = 0
  OBVIOUS
<1>6. NoReply \in [text : BOOLEAN, think : BOOLEAN, calls : Seq(CallKinds)]
  BY <1>5 DEF NoReply
<1>7. /\ launches' = launches + 1 /\ apc' = "top" /\ outbox' = <<>> /\ reply' = NoReply
      /\ callNo' = 0 /\ first' = FALSE /\ over' = SmallWindow /\ retries' = 0
      /\ responses' = 0 /\ chan' = <<>> /\ cancel' = FALSE /\ forwarder' = FALSE
      /\ ui' = "Streaming"
  BY DEF Launch
<1>8. /\ launches' \in Nat /\ 0 <= ChanCap /\ 0 <= MaxRetries
      /\ retries' \in 0..(MaxRetries + 1)
  BY AgentAssumption, <1>1, <1>7 DEF AgentTypeOK
<1>9. chan' \in Seq(Event) /\ Len(chan') <= ChanCap /\ outbox' \in Seq(Event)
  BY <1>5, <1>7, <1>8
<1>10. AgentTypeOK'
  BY <1>3, <1>4, <1>6, <1>7, <1>8, <1>9, AgentAssumption DEF AgentTypeOK
<1>11. TypeOK'
  BY <1>3, <1>4, <1>7, <1>10 DEF Inductive, Typed, TypeOK, UiStates
<1>16. live' # <<>> /\ live'[Len(live')].role # "assistant"
  <2>1. user.role = "user"
    BY DEF user
  <2> QED BY <1>2, <1>3, <1>4, <2>1
<1>12. Typed'
  BY <1>7, <1>8, <1>11, <1>16 DEF Typed
<1>13. LastEvent'
  BY <1>7 DEF LastEvent
<1>14. Settled'
  BY DEF Inductive, Settled
<1>15. Shown'
  BY <1>7 DEF Shown, Working
<1> QED BY <1>12, <1>13, <1>14, <1>15 DEF Inductive

\* The loop took an event: the rest of the channel keeps its shape.
LEMMA TailKeeps ==
  ASSUME Inductive, chan # <<>>, chan' = Tail(chan), UNCHANGED AgentRest
  PROVE  AgentTypeOK' /\ LastEvent' /\ (Quiet => Quiet')
<1>1. /\ chan \in Seq(Event) /\ Len(chan) <= ChanCap /\ AgentTypeOK
      /\ UNCHANGED <<apc, live, outbox, reply, callNo, first, over, retries, responses,
                     launches, cancel, forwarder, guard>>
  BY DEF Inductive, Typed, TypeOK, AgentTypeOK, AgentRest
<1>2. /\ chan' \in Seq(Event) /\ Len(chan') = Len(chan) - 1 /\ Len(chan) \in Nat \ {0}
      /\ \A i \in 1..Len(chan') : chan'[i] = chan[i + 1]
  BY <1>1
<1>3. Len(chan') <= ChanCap
  BY AgentAssumption, <1>1, <1>2
<1>4. AgentTypeOK'
  BY <1>1, <1>2, <1>3 DEF AgentTypeOK
<1>5. \A i \in 1..Len(chan') : i + 1 \in 1..Len(chan)
  BY <1>2
<1>6. Quiet => Quiet'
  BY <1>1, <1>2, <1>5 DEF Quiet
<1>7. ASSUME NEW i \in 1..Len(chan'), Terminal(chan'[i])
      PROVE  /\ apc' = "end" /\ outbox' = <<>>
             /\ \A j \in (i + 1)..Len(chan') : chan'[j].ev = "output"
  <2>1. i + 1 \in 1..Len(chan) /\ Terminal(chan[i + 1])
    BY <1>2, <1>5, <1>7
  <2>2. /\ apc = "end" /\ outbox = <<>>
        /\ \A j \in (i + 2)..Len(chan) : chan[j].ev = "output"
    BY <2>1 DEF Inductive, LastEvent
  <2>3. \A j \in (i + 1)..Len(chan') : j + 1 \in (i + 2)..Len(chan) /\ chan'[j] = chan[j + 1]
    BY <1>2
  <2> QED BY <1>1, <2>2, <2>3
<1>8. LastEvent'
  BY <1>1, <1>7 DEF Inductive, LastEvent
<1> QED BY <1>4, <1>6, <1>8

\* The loop heard a last event, or drains a channel it knows is quiet.
LEMMA DrainKeeps ==
  ASSUME Inductive, Quiet \/ (chan # <<>> /\ Terminal(Head(chan))),
         chan' = <<>>, UNCHANGED AgentRest
  PROVE  AgentTypeOK' /\ LastEvent' /\ Quiet' /\ apc' \in {"none", "end"}
<1>1. /\ chan \in Seq(Event) /\ AgentTypeOK
      /\ UNCHANGED <<apc, live, outbox, reply, callNo, first, over, retries, responses,
                     launches, cancel, forwarder, guard>>
  BY DEF Inductive, Typed, TypeOK, AgentTypeOK, AgentRest
<1>2. <<>> \in Seq(Event) /\ Len(<<>>) = 0 /\ 0 <= ChanCap
  BY AgentAssumption
<1>3. AgentTypeOK'
  BY <1>1, <1>2 DEF AgentTypeOK
<1>4. apc \in {"none", "end"} /\ outbox = <<>>
  <2>1. CASE Quiet
    BY <2>1 DEF Quiet
  <2>2. CASE chan # <<>> /\ Terminal(Head(chan))
    <3>1. 1 \in 1..Len(chan) /\ Head(chan) = chan[1]
      BY <1>1, <2>2
    <3> QED BY <2>2, <3>1 DEF Inductive, LastEvent
  <2> QED BY <2>1, <2>2
<1>5. Quiet'
  BY <1>1, <1>2, <1>4 DEF Quiet
<1>6. LastEvent'
  BY <1>1, <1>2, <1>4 DEF LastEvent
<1> QED BY <1>1, <1>3, <1>4, <1>5, <1>6

LEMMA PollKeeps ==
  ASSUME Inductive, UNCHANGED strays, PollNothing \/ PollCompacted \/ PollRewriteFails \/ PollFailed
  PROVE  Inductive'
<1>1. TypeOK /\ AgentTypeOK /\ (comp = "ready" => cut >= 2)
  BY DEF Inductive, Typed, TypeOK
<1>2. ctx \in Seq(Message) /\ cut \in Nat /\ launches \in Nat /\ key \in {"none"} \cup Keys
  BY <1>1 DEF TypeOK, AgentTypeOK
<1>3. Msg("summary", 0, 0, "none") \in Message
  BY <1>2, MsgType
<1>4. comp = "ready" => SubSeq(ctx, cut, Len(ctx)) \in Seq(Message)
  BY <1>1, <1>2, KeptType
<1>5. <<>> \in Seq(Message) /\ 0 \in Nat
  OBVIOUS
<1>6. CASE PollNothing
  <2>1. tpc' = "recv" /\ tpc = "poll" /\ UNCHANGED <<agentVars, done, ui, key, ctx, comp, snap, cut>>
    BY <1>6 DEF PollNothing
  <2>2. AgentTypeOK'
    BY <1>1, <2>1 DEF AgentTypeOK, agentVars
  <2>3. Typed'
    BY <2>1, <2>2 DEF Inductive, Typed, TypeOK, agentVars
  <2>4. LastEvent' /\ Settled' /\ Shown'
    BY <2>1 DEF Inductive, LastEvent, Settled, Quiet, Shown, agentVars
  <2> QED BY <2>3, <2>4 DEF Inductive
<1>7. CASE PollCompacted
  <2>1. comp = "ready" /\ Launch(Compacted) /\ guard' = <<>> /\ comp' = "none"
        /\ snap' = <<>> /\ cut' = 0 /\ tpc' = "recv" /\ done' = done /\ key' = key
    BY <1>7 DEF PollCompacted
  <2>2. done = FALSE
    BY <1>1, <2>1 DEF Inductive, Settled, TypeOK
  <2>3. Compacted \in Seq(Message)
    <3>1. ASSUME NEW k \in Seq(Message)
          PROVE  <<Msg("summary", 0, 0, "none")>> \o k \in Seq(Message)
      BY <1>3
    <3>2. StripSeen(SubSeq(ctx, cut, Len(ctx)), Images(SubSeq(ctx, cut, Len(ctx)))) \in Seq(Message)
      BY <1>4, <2>1, StripSeenType
    <3> QED BY <1>4, <2>1, <3>1, <3>2 DEF Compacted
  <2>4. guard' \in Seq(Message) /\ snap' \in Seq(Message) /\ cut' \in Nat
    BY <1>5, <2>1
  <2> HIDE DEF Launch, Compacted
  <2> QED BY <1>2, <2>1, <2>2, <2>3, <2>4, LaunchKeeps
<1>8. CASE PollRewriteFails
  <2>1. comp = "ready" /\ ctx' = <<Msg("summary", 0, 0, "none")>> \o SubSeq(ctx, cut, Len(ctx))
        /\ ui' = "Idle" /\ done' = TRUE /\ comp' = "none" /\ snap' = <<>> /\ cut' = 0
        /\ tpc' = "recv" /\ UNCHANGED <<agentVars, key>>
    BY <1>8 DEF PollRewriteFails
  <2>2. ctx' \in Seq(Message)
    BY <1>3, <1>4, <2>1
  <2>3. Quiet
    BY <2>1 DEF Inductive, Settled
  <2>4. TypeOK'
    BY <1>1, <1>5, <2>1, <2>2 DEF TypeOK, AgentTypeOK, agentVars, UiStates
  <2>5. Typed'
    BY <2>1, <2>4 DEF Inductive, Typed, agentVars
  <2>6. LastEvent' /\ Settled' /\ Shown'
    BY <2>1, <2>3 DEF Inductive, LastEvent, Settled, Quiet, Shown, agentVars
  <2> QED BY <2>5, <2>6 DEF Inductive
<1>9. CASE PollFailed
  <2>1. comp = "failed" /\ UNCHANGED ctx
        /\ ui' = "Idle" /\ done' = TRUE /\ comp' = "none" /\ snap' = <<>> /\ cut' = 0
        /\ tpc' = "recv" /\ UNCHANGED <<agentVars, key>>
    BY <1>9 DEF PollFailed
  <2>2. Quiet
    BY <2>1 DEF Inductive, Settled
  <2>3. TypeOK'
    BY <1>1, <1>5, <2>1 DEF TypeOK, AgentTypeOK, agentVars, UiStates
  <2>4. Typed'
    BY <2>1, <2>3 DEF Inductive, Typed, agentVars
  <2>5. LastEvent' /\ Settled' /\ Shown'
    BY <2>1, <2>2 DEF Inductive, LastEvent, Settled, Quiet, Shown, agentVars
  <2> QED BY <2>4, <2>5 DEF Inductive
<1> QED BY <1>6, <1>7, <1>8, <1>9

LEMMA ReceiveKeeps ==
  ASSUME Inductive, UNCHANGED strays, RecvDisplay \/ RecvSave \/ RecvStrip
  PROVE  Inductive'
<1>1. /\ chan # <<>> /\ chan' = Tail(chan) /\ UNCHANGED AgentRest
      /\ tpc = "recv" /\ tpc' = "keys" /\ UNCHANGED <<done, key, comp, snap, cut>>
  BY DEF RecvDisplay, RecvSave, RecvStrip, Receive
<1>2. AgentTypeOK' /\ LastEvent' /\ (Quiet => Quiet')
  BY <1>1, TailKeeps
<1>3. Head(chan) \in Event /\ Head(chan).msg \in Message /\ Head(chan) = chan[1] /\ 1 \in 1..Len(chan)
  <2>1. chan \in Seq(Event)
    BY DEF Inductive, Typed, TypeOK, AgentTypeOK
  <2>2. Head(chan) \in Event /\ Head(chan) = chan[1] /\ 1 \in 1..Len(chan)
    BY <1>1, <2>1
  <2>3. Head(chan).msg \in Message
    BY <2>2 DEF Event
  <2> QED BY <2>2, <2>3
<1>4. ctx' \in Seq(Message) /\ ui' \in UiStates
  <2>1. ctx \in Seq(Message) /\ ui \in UiStates
    BY DEF Inductive, Typed, TypeOK
  <2>2. CASE RecvDisplay
    BY <2>1, <2>2 DEF RecvDisplay, UiStates
  <2>3. CASE RecvSave
    BY <1>3, <2>1, <2>3 DEF RecvSave
  <2>4. CASE RecvStrip
    <3>1. ctx' = StripSeen(ctx, Head(chan).ids) /\ ui' = ui
      BY <2>4 DEF RecvStrip
    <3> QED BY <2>1, <3>1, StripSeenType
  <2> QED BY <2>2, <2>3, <2>4
<1>5. TypeOK'
  BY <1>1, <1>2, <1>4 DEF Inductive, Typed, TypeOK
<1>6. Typed'
  BY <1>1, <1>5 DEF Inductive, Typed, AgentRest
<1>7. comp # "none" => RecvDisplay
  BY <1>3 DEF Inductive, Settled, Quiet, RecvSave, RecvStrip, Receive
<1>8. comp # "none" => ctx' = ctx
  BY <1>7 DEF RecvDisplay
<1>9. Settled'
  BY <1>1, <1>2, <1>8 DEF Inductive, Settled
<1>10. Shown'
  <2>1. ui' \in {ui, "Streaming", "ToolExec"}
    BY DEF RecvDisplay, RecvSave, RecvStrip
  <2> QED BY <1>1, <2>1 DEF Inductive, Shown, Working, AgentRest
<1> QED BY <1>2, <1>6, <1>9, <1>10 DEF Inductive

LEMMA VerdictKeeps ==
  ASSUME Inductive, UNCHANGED strays, RecvNeeds \/ RecvNeedsRefused \/ RecvDone \/ RecvDoneBlocked
  PROVE  Inductive'
<1>1. tpc = "recv" /\ chan # <<>> /\ Terminal(Head(chan))
  BY DEF RecvNeeds, RecvNeedsRefused, RecvDone, RecvDoneBlocked, Receive, Terminal
<1>2. TypeOK /\ AgentTypeOK
  BY DEF Inductive, Typed, TypeOK
<1>3. ~Quiet
  <2>1. chan \in Seq(Event)
    BY <1>2 DEF AgentTypeOK
  <2>2. Head(chan) = chan[1] /\ 1 \in 1..Len(chan)
    BY <1>1, <2>1
  <2> QED BY <1>1, <2>2 DEF Quiet, Terminal
<1>4. done = FALSE /\ comp = "none"
  BY <1>2, <1>3 DEF Inductive, Settled, TypeOK
<1>5. CASE RecvDoneBlocked
  <2>1. Launch(ctx) /\ tpc' = "poll" /\ UNCHANGED <<guard, done, key, comp, snap, cut>>
    BY <1>5 DEF RecvDoneBlocked
  <2>2. /\ ctx \in Seq(Message) /\ guard \in Seq(Message) /\ snap \in Seq(Message)
        /\ cut \in Nat /\ key \in {"none"} \cup Keys
    BY <1>2 DEF TypeOK, AgentTypeOK
  <2> HIDE DEF Launch
  <2> QED BY <1>4, <2>1, <2>2, LaunchKeeps
<1>6. CASE RecvNeeds \/ RecvNeedsRefused \/ RecvDone
  <2>1. /\ chan' = <<>> /\ UNCHANGED AgentRest /\ UNCHANGED <<key, ctx, cut>>
        /\ done' \in BOOLEAN /\ ui' \in {ui, "Idle", "Compacting"}
        /\ \/ comp' = "running" /\ snap' = ctx /\ done' = done /\ tpc' = "poll"
           \/ comp' = comp /\ snap' = snap /\ done' /\ tpc' \in {"join", "keys"}
    BY <1>2, <1>6 DEF TypeOK, RecvNeeds, RecvNeedsRefused, RecvDone
  <2>2. AgentTypeOK' /\ LastEvent' /\ Quiet' /\ apc' \in {"none", "end"}
    BY <1>1, <2>1, DrainKeeps
  <2>3. TypeOK'
    BY <1>2, <2>1, <2>2 DEF TypeOK, UiStates
  <2>4. Typed'
    BY <1>4, <2>1, <2>3 DEF Inductive, Typed, AgentRest
  <2>5. Settled'
    BY <1>4, <2>1, <2>2 DEF Inductive, Settled
  <2>6. Shown'
    BY <2>1, <2>2 DEF Inductive, Shown
  <2> QED BY <2>2, <2>4, <2>5, <2>6 DEF Inductive
<1> QED BY <1>5, <1>6

LEMMA WaitKeeps ==
  ASSUME Inductive, UNCHANGED strays,
         RecvTimeout \/ RecvClosed \/ NoKey \/ KeyHelp \/ KeyCancels \/ KeyAbortsCompaction
  PROVE  Inductive'
<1>1. TypeOK /\ AgentTypeOK /\ Typed /\ LastEvent /\ Settled /\ Shown
  BY DEF Inductive, Typed, TypeOK
<1>2. /\ UNCHANGED <<apc, live, outbox, reply, callNo, first, over, retries, responses,
                     launches, chan, forwarder, guard, ctx>>
      /\ cancel' \in BOOLEAN
      /\ key' \in {key, "none"}
      /\ ui' \in {ui, "HelpPopup", "Idle"}
      /\ \/ comp' = comp /\ snap' = snap /\ cut' = cut
         \/ comp' = "none" /\ snap' = <<>> /\ cut' = 0
  <2>1. cancel \in BOOLEAN
    BY <1>1 DEF AgentTypeOK
  <2>2. CASE RecvTimeout \/ RecvClosed
    BY <2>1, <2>2 DEF agentVars, RecvTimeout, RecvClosed
  <2>3. CASE NoKey \/ KeyHelp
    BY <2>1, <2>3 DEF agentVars, NoKey, KeyHelp
  <2>4. CASE KeyCancels
    BY <2>4 DEF KeyCancels
  <2>5. CASE KeyAbortsCompaction
    BY <2>1, <2>5 DEF agentVars, KeyAbortsCompaction
  <2> QED BY <2>2, <2>3, <2>4, <2>5
<1>3. AgentTypeOK'
  BY <1>1, <1>2 DEF AgentTypeOK
<1>4. done' \in BOOLEAN /\ tpc' \in {"idle", "poll", "recv", "keys", "join"}
  BY <1>1 DEF TypeOK, RecvTimeout, RecvClosed, NoKey, KeyHelp, KeyCancels,
              KeyAbortsCompaction, AfterKeys
<1>5. <<>> \in Seq(Message) /\ 0 \in Nat
  OBVIOUS
<1>6. TypeOK'
  BY <1>1, <1>2, <1>3, <1>4, <1>5 DEF TypeOK, UiStates
<1>7. Typed'
  BY <1>1, <1>2, <1>6 DEF Typed
<1>8. LastEvent'
  BY <1>1, <1>2 DEF LastEvent
<1>9. Quiet => Quiet'
  BY <1>2 DEF Quiet
<1>10. Settled' /\ Shown'
  <2>1. CASE RecvTimeout
    BY <1>1, <1>2, <2>1 DEF RecvTimeout, Settled, Quiet, Shown
  <2>2. CASE RecvClosed
    BY <1>1, <1>2, <1>9, <2>2 DEF RecvClosed, Closed, Settled, Quiet, Shown
  <2>3. CASE NoKey
    BY <1>1, <1>2, <1>9, <2>3 DEF NoKey, AfterKeys, Settled, Shown
  <2>4. CASE KeyHelp
    <3>1. "f1" \in Keys
      BY <1>1, <2>4 DEF TypeOK, KeyHelp
    <3> QED BY <1>1, <1>2, <1>9, <2>4, <3>1 DEF KeyHelp, AfterKeys, Settled, Shown
  <2>5. CASE KeyCancels
    BY <1>1, <1>2, <1>9, <2>5 DEF KeyCancels, AfterKeys, Settled, Shown
  <2>6. CASE KeyAbortsCompaction
    <3>1. Quiet /\ comp' = "none" /\ ui' = "Idle" /\ done' = TRUE /\ tpc' = "join"
      BY <1>1, <2>6 DEF KeyAbortsCompaction, AfterKeys, Settled
    <3> QED BY <1>1, <1>2, <1>9, <3>1 DEF Settled, Shown, Quiet
  <2> QED BY <2>1, <2>2, <2>3, <2>4, <2>5, <2>6
<1> QED BY <1>7, <1>8, <1>10 DEF Inductive

\* The loop is broken off by a draw, and the turn returns: only where a draw
\* may fail does it return while its task is at work.
LEMMA EndKeeps ==
  ASSUME Inductive, FailedDraw \/ Join \/ JoinExpires
  PROVE  Inductive'
<1>1. TypeOK /\ AgentTypeOK /\ Typed /\ LastEvent /\ Settled /\ Shown
  BY DEF Inductive, Typed, TypeOK
<1>2. CASE FailedDraw
  <2>1. /\ DrawFails /\ tpc = "poll" /\ tpc' = "join"
        /\ UNCHANGED <<agentVars, done, ui, key, ctx, comp, snap, cut, strays>>
    BY <1>2 DEF FailedDraw
  <2>2. AgentTypeOK'
    BY <1>1, <2>1 DEF AgentTypeOK, agentVars
  <2>3. Typed'
    BY <1>1, <2>1, <2>2 DEF Typed, TypeOK, agentVars
  <2>4. LastEvent' /\ Settled' /\ Shown'
    BY <1>1, <2>1 DEF LastEvent, Settled, Quiet, Shown, agentVars
  <2> QED BY <2>3, <2>4 DEF Inductive
<1>3. CASE Join \/ JoinExpires
  <2>1. /\ tpc = "join" /\ tpc' = "idle" /\ ui' = "Idle" /\ done' = FALSE
        /\ key' = "none" /\ chan' = <<>> /\ forwarder' = FALSE /\ comp' = "none"
        /\ snap' = <<>> /\ cut' = 0
        /\ UNCHANGED <<live, reply, callNo, first, over, retries, responses, launches,
                       cancel, guard, ctx>>
        /\ apc' \in {"none", "end"} /\ outbox' = <<>>
        /\ apc' \in {apc, "end"}
    BY <1>3 DEF Join, JoinExpires, Return
  <2>2. /\ strays' \in SUBSET Seq(Message)
        /\ ~DrawFails => strays' = {}
    <3>1. CASE Join
      BY <1>1, <3>1 DEF Join, TypeOK, Settled
    <3>2. CASE JoinExpires
      <4>1. strays' \in SUBSET Seq(Message)
        BY <1>1, <3>2 DEF JoinExpires, TypeOK, AgentTypeOK
      <4>2. ~DrawFails => FALSE
        BY <1>1, <3>2 DEF JoinExpires, Settled, Quiet
      <4> QED BY <4>1, <4>2
    <3> QED BY <1>3, <3>1, <3>2
  <2>3. <<>> \in Seq(Event) /\ <<>> \in Seq(Message) /\ Len(<<>>) = 0 /\ 0 <= ChanCap
    BY AgentAssumption
  <2>4. AgentTypeOK'
    BY <1>1, <2>1, <2>3 DEF AgentTypeOK
  <2>5. Typed'
    BY <1>1, <2>1, <2>2, <2>3, <2>4 DEF Typed, TypeOK, UiStates
  <2>6. LastEvent' /\ Settled' /\ Shown'
    BY <2>1, <2>2, <2>3 DEF LastEvent, Settled, Quiet, Shown
  <2> QED BY <2>5, <2>6 DEF Inductive
<1> QED BY <1>2, <1>3

LEMMA LoopKeeps == Inductive /\ LoopStep => Inductive'
<1> SUFFICES ASSUME Inductive, LoopStep PROVE Inductive'
  OBVIOUS
<1>1. CASE InLoop /\ UNCHANGED strays
  <2>1. CASE PollNothing \/ PollCompacted \/ PollRewriteFails \/ PollFailed
    BY <1>1, <2>1, PollKeeps
  <2>2. CASE RecvDisplay \/ RecvSave \/ RecvStrip
    BY <1>1, <2>2, ReceiveKeeps
  <2>3. CASE RecvNeeds \/ RecvNeedsRefused \/ RecvDone \/ RecvDoneBlocked
    BY <1>1, <2>3, VerdictKeeps
  <2>4. CASE RecvTimeout \/ RecvClosed \/ NoKey \/ KeyHelp \/ KeyCancels
             \/ KeyAbortsCompaction
    BY <1>1, <2>4, WaitKeeps
  <2> QED BY <1>1, <2>1, <2>2, <2>3, <2>4 DEF InLoop
<1>2. CASE FailedDraw \/ Join \/ JoinExpires
  BY <1>2, EndKeeps
<1> QED BY <1>1, <1>2 DEF LoopStep

\* A task left at work only touches the guard.
LEMMA StraysKeep ==
  ASSUME Inductive, StrayRequests \/ StrayEnds
  PROVE  Inductive'
<1>1. TypeOK /\ AgentTypeOK /\ Typed /\ LastEvent /\ Settled /\ Shown
  BY DEF Inductive, Typed, TypeOK
<1>2. /\ UNCHANGED <<apc, live, outbox, reply, callNo, first, over, retries, responses,
                     launches, chan, cancel, forwarder, tpc, done, ui, key, ctx, comp,
                     snap, cut>>
      /\ guard' \in Seq(Message)
      /\ strays' \subseteq strays
  BY <1>1 DEF StrayRequests, StrayEnds, TypeOK, AgentTypeOK, agentVars, turnVars
<1>3. AgentTypeOK'
  BY <1>1, <1>2 DEF AgentTypeOK
<1>4. Typed'
  BY <1>1, <1>2, <1>3 DEF Typed, TypeOK
<1>5. LastEvent' /\ Settled' /\ Shown'
  BY <1>1, <1>2 DEF LastEvent, Settled, Quiet, Shown
<1> QED BY <1>4, <1>5 DEF Inductive

LEMMA CompactionEndsKeeps == Inductive /\ CompactionEnds => Inductive'
<1> SUFFICES ASSUME Inductive, CompactionEnds PROVE Inductive'
  OBVIOUS
<1>1. TypeOK /\ AgentTypeOK /\ Typed /\ LastEvent /\ Settled /\ Shown
  BY DEF Inductive, Typed, TypeOK
<1>2. /\ comp = "running" /\ comp' \in {"ready", "failed"}
      /\ comp' = "ready" => cut' \in CutPoints(snap)
      /\ comp' = "failed" => cut' = cut
      /\ UNCHANGED <<agentVars, tpc, done, ui, key, ctx, snap, strays>>
  BY DEF CompactionEnds
<1>3. snap \in Seq(Message) /\ cut \in Nat
  BY <1>1 DEF TypeOK
<1>4. cut' \in Nat /\ (comp' = "ready" => cut' >= 2)
  <2>1. CutPoints(snap) \subseteq 2..(Len(snap) + 1)
    BY DEF CutPoints
  <2>2. Len(snap) \in Nat
    BY <1>3
  <2> QED BY <1>2, <1>3, <2>1, <2>2
<1>5. AgentTypeOK'
  BY <1>1, <1>2 DEF AgentTypeOK, agentVars
<1>6. Typed'
  BY <1>1, <1>2, <1>4, <1>5 DEF Typed, TypeOK, agentVars
<1>7. LastEvent' /\ Settled' /\ Shown'
  BY <1>1, <1>2 DEF LastEvent, Settled, Quiet, Shown, agentVars
<1> QED BY <1>6, <1>7 DEF Inductive

LEMMA UserKeeps == Inductive /\ (Submit \/ PressKey) => Inductive'
<1> SUFFICES ASSUME Inductive, Submit \/ PressKey PROVE Inductive'
  OBVIOUS
<1>1. TypeOK /\ AgentTypeOK /\ Typed /\ LastEvent /\ Settled /\ Shown
  BY DEF Inductive, Typed, TypeOK
<1>2. CASE Submit
  <2>1. tpc = "idle" /\ Launch(ctx) /\ tpc' = "poll"
        /\ UNCHANGED <<guard, done, key, comp, snap, cut, strays>>
    BY <1>2 DEF Submit
  <2>2. /\ ctx \in Seq(Message) /\ guard \in Seq(Message) /\ snap \in Seq(Message)
        /\ cut \in Nat /\ key \in {"none"} \cup Keys /\ done \in BOOLEAN
    BY <1>1 DEF TypeOK, AgentTypeOK
  <2>3. comp = "none"
    BY <1>1, <2>1 DEF Settled
  <2>4. done = FALSE
    BY <1>1, <2>1, <2>2 DEF Settled
  <2> HIDE DEF Launch
  <2> QED BY <2>1, <2>2, <2>3, <2>4, LaunchKeeps
<1>3. CASE PressKey
  <2>1. key' \in Keys /\ UNCHANGED <<agentVars, tpc, done, ui, ctx, comp, snap, cut, strays>>
    BY <1>3 DEF PressKey
  <2>2. AgentTypeOK'
    BY <1>1, <2>1 DEF AgentTypeOK, agentVars
  <2>3. Typed'
    BY <1>1, <2>1, <2>2 DEF Typed, TypeOK, agentVars
  <2>4. LastEvent' /\ Settled' /\ Shown'
    BY <1>1, <2>1 DEF LastEvent, Settled, Quiet, Shown, agentVars
  <2> QED BY <2>3, <2>4 DEF Inductive
<1> QED BY <1>2, <1>3

LEMMA StutterKeeps == Inductive /\ UNCHANGED vars => Inductive'
<1> SUFFICES ASSUME Inductive, UNCHANGED vars PROVE Inductive'
  OBVIOUS
<1>1. UNCHANGED <<agentVars, tpc, done, ui, key, ctx, comp, snap, cut, strays>>
  BY DEF vars, turnVars
<1>2. AgentTypeOK'
  BY <1>1 DEF Inductive, Typed, TypeOK, AgentTypeOK, agentVars
<1>3. Typed'
  BY <1>1, <1>2 DEF Inductive, Typed, TypeOK, agentVars
<1>4. LastEvent' /\ Settled' /\ Shown'
  BY <1>1 DEF Inductive, LastEvent, Settled, Quiet, Shown, agentVars
<1> QED BY <1>3, <1>4 DEF Inductive

-----------------------------------------------------------------------------
(* The theorems.                                                           *)

\* Every step keeps it.
LEMMA NextKeeps == Inductive /\ [Next]_vars => Inductive'
<1> SUFFICES ASSUME Inductive, [Next]_vars PROVE Inductive'
  OBVIOUS
<1>1. CASE TaskStep \/ LateOutput
  BY <1>1, TaskKeeps
<1>2. CASE LoopStep
  BY <1>2, LoopKeeps
<1>3. CASE CompactionEnds
  BY <1>3, CompactionEndsKeeps
<1>4. CASE Submit \/ PressKey
  BY <1>4, UserKeeps
<1>5. CASE UNCHANGED vars
  BY <1>5, StutterKeeps
<1>6. CASE StrayRequests \/ StrayEnds
  BY <1>6, StraysKeep
<1> QED BY <1>1, <1>2, <1>3, <1>4, <1>5, <1>6 DEF Next

\* Every reachable state of the turn satisfies the inductive invariant.
THEOREM SpecInductive == Spec => []Inductive
BY InitInductive, NextKeeps, PTL DEF Spec

\* The state of the turn keeps its types: in particular the event channel
\* never holds more than its capacity (agent_events.rs, agent/mod.rs).
THEOREM TypeCorrect == Spec => []TypeOK
<1>1. Inductive => TypeOK
  BY DEF Inductive, Typed
<1> QED BY SpecInductive, <1>1, PTL

\* However the loop of process_agent_events came to its own end, the task of the
\* turn has ended and said everything; and where no draw fails, no turn ever
\* leaves a task at work (the five seconds of agent_events.rs never run out).
THEOREM NothingLeftBehind == Spec => []NoTaskLeftBehind
<1>1. Inductive => NoTaskLeftBehind
  BY DEF Inductive, Settled, Quiet, NoTaskLeftBehind
<1> QED BY SpecInductive, <1>1, PTL

\* From the NeedsCompaction event until its result is applied or dropped, no
\* event of the agent changes the session the cut index refers to.
THEOREM PlanStaysFresh == Spec => []PlanFresh
<1>1. Inductive => PlanFresh
  BY DEF Inductive, Settled, PlanFresh
<1> QED BY SpecInductive, <1>1, PTL

\* Done and NeedsCompaction are the last events of a task, in the channel
\* and in what it still has to send: draining what follows loses no message.
THEOREM LastWordIsLast == Spec => []LastWord
<1>1. Inductive => LastWord
  <2> SUFFICES ASSUME Inductive PROVE LastWord
    OBVIOUS
  <2>1. chan \in Seq(Event) /\ outbox \in Seq(Event) /\ Len(chan) \in Nat /\ Len(outbox) \in Nat
    BY DEF Inductive, Typed, TypeOK, AgentTypeOK
  <2>2. /\ Len(chan \o outbox) = Len(chan) + Len(outbox)
        /\ \A i \in 1..Len(chan \o outbox) :
             \/ i \in 1..Len(chan) /\ (chan \o outbox)[i] = chan[i]
             \/ i - Len(chan) \in 1..Len(outbox) /\ (chan \o outbox)[i] = outbox[i - Len(chan)]
    BY <2>1, ConcatParts
  <2>3. \A i \in 1..Len(chan) : Terminal(chan[i]) =>
          /\ apc = "end" /\ outbox = <<>>
          /\ \A j \in (i + 1)..Len(chan) : chan[j].ev = "output"
    BY DEF Inductive, LastEvent
  <2>4. \A i \in 1..Len(outbox) : Terminal(outbox[i]) => apc = "end" /\ i = Len(outbox)
    BY DEF Inductive, LastEvent
  <2>5. ASSUME NEW i \in 1..Len(InFlight), Terminal(InFlight[i])
        PROVE  /\ apc = "end"
               /\ \A j \in 1..Len(InFlight) : i < j => InFlight[j].ev = "output"
    <3>1. CASE i \in 1..Len(chan) /\ InFlight[i] = chan[i]
      <4>1. /\ apc = "end" /\ outbox = <<>>
            /\ \A j \in (i + 1)..Len(chan) : chan[j].ev = "output"
        BY <2>3, <2>5, <3>1
      <4>2. Len(outbox) = 0
        BY <4>1
      <4>3. ASSUME NEW j \in 1..Len(InFlight), i < j
            PROVE  j \in (i + 1)..Len(chan) /\ InFlight[j] = chan[j]
        BY <2>1, <2>2, <3>1, <4>2, <4>3 DEF InFlight
      <4> QED BY <4>1, <4>3
    <3>2. CASE i - Len(chan) \in 1..Len(outbox) /\ InFlight[i] = outbox[i - Len(chan)]
      <4>1. apc = "end" /\ i - Len(chan) = Len(outbox)
        BY <2>4, <2>5, <3>2
      <4>2. i = Len(InFlight)
        BY <2>1, <2>2, <4>1 DEF InFlight
      <4> QED BY <2>1, <2>2, <4>1, <4>2 DEF InFlight
    <3> QED BY <2>2, <2>5, <3>1, <3>2 DEF InFlight
  <2> QED BY <2>5 DEF LastWord
<1> QED BY SpecInductive, <1>1, PTL

\* Unless the user can open the help popup, an Esc read while the agent task
\* is at work sets its cancel flag (agent_events.rs, is_working in app.rs).
THEOREM EscIsHeard == ASSUME "f1" \notin Keys PROVE Spec => EscReachesTask
<1>1. Inductive /\ [Next]_vars =>
        [tpc = "keys" /\ key = "esc" /\ tpc' # "keys" /\ apc \notin {"none", "end"} => cancel']_vars
  <2> SUFFICES ASSUME Inductive, Next, tpc = "keys", key = "esc", tpc' # "keys",
                      apc \notin {"none", "end"}
               PROVE  cancel'
    OBVIOUS
  <2>1. ui \in Working /\ comp = "none"
    BY DEF Inductive, Shown, Settled, Quiet
  <2>2. LoopStep
    BY DEF Next, TaskStep, LateOutput, turnVars, CompactionEnds, Submit, PressKey,
           StrayRequests, StrayEnds
  <2>3. KeyCancels
    BY <2>1, <2>2 DEF LoopStep, InLoop, FailedDraw, JoinExpires, PollNothing, PollCompacted, PollRewriteFails, PollFailed,
       RecvDisplay, RecvSave, RecvStrip, RecvNeeds, RecvNeedsRefused, RecvDone,
       RecvDoneBlocked, RecvTimeout, RecvClosed, Receive, KeyAbortsCompaction, KeyHelp,
       NoKey, Join
  <2> QED BY <2>3 DEF KeyCancels
<1> QED BY SpecInductive, <1>1, PTL DEF Spec, EscReachesTask

-----------------------------------------------------------------------------
(* What becomes of the messages of a turn: none is lost, doubled or        *)
(* reordered on the way from the agent task through the channel to the     *)
(* session.                                                                *)
(*                                                                         *)
(* The proofs follow one history: Whole, which is the session brought up   *)
(* to date with the events still in flight.  A task only ever extends it,  *)
(* and the terminal loop, taking an event off the channel, leaves it as it *)
(* is.  Replay is recursive; what it computes is proved by induction, with *)
(* a set of numbers in the place of a predicate (lemma SetInduction).      *)

USE DEF Roles, Contents, EventKinds, Reasons, CallKinds

-----------------------------------------------------------------------------
(* The recursive definition of Replay.                                     *)

\* h[i] is the history s after the first i of the events es, for i up to n.
IsPath(h, s, es, n) ==
  h[0] = s /\ \A i \in 1..n : h[i] = ApplyEvent(h[i - 1], es[i])

LEMMA PathExists ==
  ASSUME NEW s, NEW es
  PROVE  \A n \in Nat : \E h : IsPath(h, s, es, n)
<1> DEFINE T == {n \in Nat : \E h : IsPath(h, s, es, n)}
<1>1. 0 \in T
  <2>1. IsPath([i \in 0..0 |-> s], s, es, 0)
    BY DEF IsPath
  <2> QED BY <2>1
<1>2. ASSUME NEW n \in T PROVE n + 1 \in T
  <2> PICK h : IsPath(h, s, es, n)
    OBVIOUS
  <2> DEFINE g == [i \in 0..(n + 1) |-> IF i = n + 1 THEN ApplyEvent(h[n], es[n + 1]) ELSE h[i]]
  <2>1. IsPath(g, s, es, n + 1)
    BY DEF IsPath
  <2> QED BY <2>1
<1> HIDE DEF T
<1>3. T \in SUBSET Nat
  BY DEF T
<1>4. T = Nat
  BY <1>1, <1>2, <1>3, SetInduction
<1> QED BY <1>4 DEF T

\* Two paths over the same events agree where both are defined.
LEMMA PathUnique ==
  ASSUME NEW s, NEW es, NEW n \in Nat, NEW h, NEW g,
         IsPath(h, s, es, n), IsPath(g, s, es, n)
  PROVE  h[n] = g[n]
<1> DEFINE T == {i \in Nat : i <= n => h[i] = g[i]}
<1>1. 0 \in T
  BY DEF IsPath
<1>2. ASSUME NEW i \in T PROVE i + 1 \in T
  <2> SUFFICES ASSUME i + 1 <= n PROVE h[i + 1] = g[i + 1]
    OBVIOUS
  <2>1. i + 1 \in 1..n /\ h[i] = g[i] /\ (i + 1) - 1 = i
    OBVIOUS
  <2> QED BY <2>1 DEF IsPath
<1> HIDE DEF T
<1>3. T \in SUBSET Nat
  BY DEF T
<1>4. T = Nat
  BY <1>1, <1>2, <1>3, SetInduction
<1> QED BY <1>4 DEF T

\* Replay is the end of the path over all the events.
LEMMA ReplayIsPathEnd ==
  ASSUME NEW s, NEW es, Len(es) \in Nat, NEW h, IsPath(h, s, es, Len(es))
  PROVE  Replay(s, es) = h[Len(es)]
<1> DEFINE F(g) == g = [n \in 0..Len(es) |-> IF n = 0 THEN s ELSE ApplyEvent(g[n - 1], es[n])]
           after == CHOOSE g : F(g)
           path == [n \in 0..Len(es) |-> h[n]]
<1>1. Replay(s, es) = after[Len(es)]
  BY DEF Replay
<1>2. F(path)
  BY DEF IsPath
<1>3. F(after)
  <2>1. \E g : F(g)
    BY <1>2
  <2> HIDE DEF F
  <2> QED BY <2>1, Zenon
<1> HIDE DEF after
<1>4. IsPath(after, s, es, Len(es))
  BY <1>3 DEF IsPath
<1> QED BY <1>1, <1>4, PathUnique

\* One event is applied by itself; without events the history stays.
LEMMA ReplayFew ==
  ASSUME NEW s, NEW e
  PROVE  Replay(s, <<>>) = s /\ Replay(s, <<e>>) = ApplyEvent(s, e)
<1>1. ASSUME NEW h, IsPath(h, s, <<>>, 0) PROVE Replay(s, <<>>) = s
  BY <1>1, ReplayIsPathEnd DEF IsPath
<1>2. ASSUME NEW h, IsPath(h, s, <<e>>, 1) PROVE Replay(s, <<e>>) = ApplyEvent(s, e)
  <2>0. Len(<<e>>) = 1
    OBVIOUS
  <2>1. Replay(s, <<e>>) = h[1]
    BY <1>2, <2>0, ReplayIsPathEnd
  <2>2. h[0] = s /\ h[1] = ApplyEvent(h[0], <<e>>[1])
    BY <1>2 DEF IsPath
  <2> QED BY <2>1, <2>2
<1> QED BY <1>1, <1>2, PathExists

\* Events that come in two parts are applied part by part.
LEMMA ReplayConcat ==
  ASSUME NEW s, NEW a \in Seq(Event), NEW b \in Seq(Event)
  PROVE  Replay(s, a \o b) = Replay(Replay(s, a), b)
<1>0. Len(a) \in Nat /\ Len(b) \in Nat
  OBVIOUS
<1> PICK h : IsPath(h, s, a, Len(a))
  BY <1>0, PathExists
<1> PICK g : IsPath(g, h[Len(a)], b, Len(b))
  BY <1>0, PathExists
<1> DEFINE m == Len(a)
           n == Len(a \o b)
           f == [i \in 0..n |-> IF i <= m THEN h[i] ELSE g[i - m]]
<1>1. m \in Nat /\ Len(b) \in Nat /\ n = m + Len(b)
  OBVIOUS
<1>2. \A i \in 1..n : (a \o b)[i] = IF i <= m THEN a[i] ELSE b[i - m]
  BY ConcatProperties
<1>3. h[0] = s /\ \A i \in 1..m : h[i] = ApplyEvent(h[i - 1], a[i])
  BY <1>1 DEF IsPath
<1>4. g[0] = h[m] /\ \A i \in 1..Len(b) : g[i] = ApplyEvent(g[i - 1], b[i])
  BY <1>1 DEF IsPath
<1>5. ASSUME NEW i \in 1..n PROVE f[i] = ApplyEvent(f[i - 1], (a \o b)[i])
  <2>1. CASE i <= m
    BY <1>1, <1>2, <1>3, <2>1
  <2>2. CASE i = m + 1
    <3>1. f[i - 1] = h[m] /\ f[i] = g[1] /\ (a \o b)[i] = b[1] /\ 1 \in 1..Len(b)
      BY <1>1, <1>2, <2>2
    <3> QED BY <1>4, <3>1
  <2>3. CASE i > m + 1
    <3>1. /\ f[i - 1] = g[(i - m) - 1] /\ f[i] = g[i - m] /\ (a \o b)[i] = b[i - m]
          /\ i - m \in 1..Len(b)
      BY <1>1, <1>2, <2>3
    <3> QED BY <1>4, <3>1
  <2> QED BY <1>1, <2>1, <2>2, <2>3
<1>6. f[0] = s
  BY <1>1, <1>3
<1>7. f[n] = g[Len(b)]
  BY <1>1, <1>4
<1> HIDE DEF f
<1> HIDE DEF m, n
<1>8. IsPath(f, s, a \o b, n)
  BY <1>5, <1>6 DEF IsPath
<1>9. Replay(s, a \o b) = f[n]
  <2>1. n \in Nat
    BY <1>1
  <2> QED BY <1>8, <2>1, ReplayIsPathEnd DEF n
<1>10. Replay(s, a) = h[m]
  BY <1>0, ReplayIsPathEnd DEF m
<1>11. Replay(h[m], b) = g[Len(b)]
  BY <1>0, ReplayIsPathEnd DEF m
<1> QED BY <1>7, <1>9, <1>10, <1>11

\* What every event preserves, all of them preserve.
LEMMA ReplayKeeps ==
  ASSUME NEW P, NEW s \in P, NEW es \in Seq(Event),
         \A i \in 1..Len(es) : \A x \in P : ApplyEvent(x, es[i]) \in P
  PROVE  Replay(s, es) \in P
<1>0. Len(es) \in Nat
  OBVIOUS
<1> PICK h : IsPath(h, s, es, Len(es))
  BY <1>0, PathExists
<1> DEFINE T == {i \in Nat : i <= Len(es) => h[i] \in P}
<1>1. 0 \in T
  BY DEF IsPath
<1>2. ASSUME NEW i \in T PROVE i + 1 \in T
  <2> SUFFICES ASSUME i + 1 <= Len(es) PROVE h[i + 1] \in P
    OBVIOUS
  <2>1. i + 1 \in 1..Len(es) /\ h[i] \in P
    BY <1>0
  <2>2. h[i + 1] = ApplyEvent(h[i], es[i + 1])
    BY <2>1 DEF IsPath
  <2> QED BY <2>1, <2>2
<1> HIDE DEF T
<1>3. T \in SUBSET Nat
  BY DEF T
<1>4. T = Nat
  BY <1>1, <1>2, <1>3, SetInduction
<1>5. h[Len(es)] \in P
  BY <1>0, <1>4 DEF T
<1> QED BY <1>0, <1>5, ReplayIsPathEnd

-----------------------------------------------------------------------------
(* What events do to a history.                                            *)

NoteOf(m) == [m EXCEPT !.data = IF m.data = "image" THEN "note" ELSE m.data]

\* t goes on where s ends, but for images that have become notes.
Extends(s, t) ==
  Len(s) <= Len(t) /\ \A i \in 1..Len(s) : NoteOf(s[i]) = NoteOf(t[i])

\* Events that only the screen is interested in.
Idle(e) == e.ev \notin {"save", "strip"}

LEMMA StripSeenParts ==
  ASSUME NEW s \in Seq(Message), NEW ids
  PROVE  /\ StripSeen(s, ids) \in Seq(Message) /\ Len(StripSeen(s, ids)) = Len(s)
         /\ \A i \in 1..Len(s) :
              /\ NoteOf(StripSeen(s, ids)[i]) = NoteOf(s[i])
              /\ StripSeen(s, ids)[i].data = "image" =>
                   CallId(s[i]) \notin ids /\ StripSeen(s, ids)[i] = s[i]
<1>1. StripSeen(s, ids) \in Seq(Message) /\ Len(StripSeen(s, ids)) = Len(s)
  BY StripSeenType
<1>2. ASSUME NEW i \in 1..Len(s)
      PROVE  /\ NoteOf(StripSeen(s, ids)[i]) = NoteOf(s[i])
             /\ StripSeen(s, ids)[i].data = "image" =>
                  CallId(s[i]) \notin ids /\ StripSeen(s, ids)[i] = s[i]
  <2>1. s[i] \in Message /\ i \in DOMAIN s
    OBVIOUS
  <2>2. StripSeen(s, ids)[i] = IF s[i].data = "image" /\ CallId(s[i]) \in ids
                               THEN [s[i] EXCEPT !.data = "note"] ELSE s[i]
    BY <2>1 DEF StripSeen
  <2> QED BY <2>1, <2>2 DEF NoteOf, Message
<1> QED BY <1>1, <1>2

\* Messages that differ only in what became of an image.
LEMMA NoteOfFacts ==
  ASSUME NEW m \in Message, NEW k \in Message, NoteOf(m) = NoteOf(k)
  PROVE  /\ m.role = k.role /\ m.task = k.task /\ m.resp = k.resp /\ m.call = k.call
         /\ CallId(m) = CallId(k) /\ (IsCallMsg(m) <=> IsCallMsg(k))
<1>1. m.role = k.role /\ m.task = k.task /\ m.resp = k.resp /\ m.call = k.call
  BY DEF NoteOf, Message
<1> QED BY <1>1 DEF CallId, IsCallMsg

LEMMA EventFields ==
  ASSUME NEW e \in Event
  PROVE  e.msg \in Message /\ e.ev \in EventKinds
BY DEF Event

LEMMA ExtendsTransitive ==
  ASSUME NEW s \in Seq(Message), NEW t \in Seq(Message), NEW u \in Seq(Message),
         Extends(s, t), Extends(t, u)
  PROVE  Extends(s, u)
<1>1. Len(s) \in Nat /\ Len(t) \in Nat /\ Len(u) \in Nat
  OBVIOUS
<1>2. \A i \in 1..Len(s) : i \in 1..Len(t)
  BY <1>1 DEF Extends
<1> QED BY <1>1, <1>2 DEF Extends

LEMMA ApplyEventFacts ==
  ASSUME NEW s \in Seq(Message), NEW e \in Event
  PROVE  /\ ApplyEvent(s, e) \in Seq(Message)
         /\ Extends(s, ApplyEvent(s, e))
         /\ Idle(e) => ApplyEvent(s, e) = s
         /\ e.ev = "save" => ApplyEvent(s, e) = Append(s, e.msg)
         /\ e.ev = "strip" => ApplyEvent(s, e) = StripSeen(s, e.ids)
<1>1. e.msg \in Message /\ Len(s) \in Nat
  BY EventFields
<1>2. CASE e.ev = "save"
  <2>1. ApplyEvent(s, e) = Append(s, e.msg)
    BY <1>2 DEF ApplyEvent
  <2> QED BY <1>1, <1>2, <2>1 DEF Extends, Idle
<1>3. CASE e.ev = "strip"
  <2>1. ApplyEvent(s, e) = StripSeen(s, e.ids)
    BY <1>3 DEF ApplyEvent
  <2> QED BY <1>1, <1>3, <2>1, StripSeenParts DEF Extends, Idle
<1>4. CASE Idle(e)
  BY <1>1, <1>4 DEF Extends, Idle, ApplyEvent
<1> QED BY <1>2, <1>3, <1>4 DEF Idle

LEMMA ReplayFacts ==
  ASSUME NEW s \in Seq(Message), NEW es \in Seq(Event)
  PROVE  /\ Replay(s, es) \in Seq(Message)
         /\ Extends(s, Replay(s, es))
         /\ (\A i \in 1..Len(es) : Idle(es[i])) => Replay(s, es) = s
<1>1. \A i \in 1..Len(es) : es[i] \in Event
  OBVIOUS
<1>2. Replay(s, es) \in Seq(Message) /\ Extends(s, Replay(s, es))
  <2> DEFINE P == {t \in Seq(Message) : Extends(s, t)}
  <2>1. s \in P
    BY DEF Extends
  <2>2. ASSUME NEW i \in 1..Len(es), NEW x \in P PROVE ApplyEvent(x, es[i]) \in P
    BY <1>1, ApplyEventFacts, ExtendsTransitive
  <2> HIDE DEF P
  <2>3. Replay(s, es) \in P
    BY <2>1, <2>2, ReplayKeeps
  <2> QED BY <2>3 DEF P
<1>3. ASSUME \A i \in 1..Len(es) : Idle(es[i]) PROVE Replay(s, es) = s
  <2> DEFINE P == {s}
  <2>1. ASSUME NEW i \in 1..Len(es), NEW x \in P PROVE ApplyEvent(x, es[i]) \in P
    BY <1>1, <1>3, ApplyEventFacts
  <2> HIDE DEF P
  <2>2. s \in P
    BY DEF P
  <2>3. Replay(s, es) \in P
    BY <2>1, <2>2, ReplayKeeps
  <2> QED BY <2>3 DEF P
<1> QED BY <1>2, <1>3

-----------------------------------------------------------------------------
(* Calls and their results.                                                *)

LEMMA PairedStripped ==
  ASSUME NEW s \in Seq(Message), NEW ids, Paired(s)
  PROVE  Paired(StripSeen(s, ids))
<1> DEFINE t == StripSeen(s, ids)
<1>1. t \in Seq(Message) /\ Len(t) = Len(s) /\ Len(s) \in Nat
  BY StripSeenParts
<1>2. \A i \in 1..Len(s) : NoteOf(t[i]) = NoteOf(s[i])
  BY StripSeenParts
<1>3. \A i \in 1..Len(s) : t[i] \in Message /\ s[i] \in Message
  BY <1>1
<1> HIDE DEF t
<1>4. \A i \in 1..Len(s) : /\ t[i].role = s[i].role /\ CallId(t[i]) = CallId(s[i])
                          /\ (IsCallMsg(t[i]) <=> IsCallMsg(s[i]))
  BY <1>2, <1>3, NoteOfFacts
<1>5. Paired(t)
  BY <1>1, <1>4 DEF Paired
<1> QED BY <1>5 DEF t

\* What Paired asks of the message at i.
PairedAt(s, i) ==
  /\ IsCallMsg(s[i]) => i < Len(s) /\ s[i + 1].role = "tool" /\ CallId(s[i + 1]) = CallId(s[i])
  /\ s[i].role = "tool" => i > 1 /\ IsCallMsg(s[i - 1]) /\ CallId(s[i - 1]) = CallId(s[i])

\* Any message but a call or a result may follow.
LEMMA PairedAppend ==
  ASSUME NEW s \in Seq(Message), NEW m \in Message, Paired(s),
         ~IsCallMsg(m), m.role # "tool"
  PROVE  Paired(Append(s, m))
<1>1. /\ Len(Append(s, m)) = Len(s) + 1 /\ Len(s) \in Nat
      /\ \A i \in 1..Len(s) : Append(s, m)[i] = s[i]
      /\ Append(s, m)[Len(s) + 1] = m
  OBVIOUS
<1>2. \A i \in 1..Len(s) : PairedAt(s, i)
  BY DEF Paired, PairedAt
<1> QED BY <1>1, <1>2 DEF Paired, PairedAt

\* A call and its own result may follow together.
LEMMA PairedPair ==
  ASSUME NEW s \in Seq(Message), NEW c \in Message, NEW r \in Message, Paired(s),
         IsCallMsg(c), r.role = "tool", CallId(r) = CallId(c)
  PROVE  Paired(Append(Append(s, c), r))
<1> DEFINE t == Append(Append(s, c), r)
<1>1. /\ Len(t) = Len(s) + 2 /\ Len(s) \in Nat
      /\ \A i \in 1..Len(s) : t[i] = s[i]
      /\ t[Len(s) + 1] = c /\ t[Len(s) + 2] = r
  <2>1. Append(s, c) \in Seq(Message) /\ Len(Append(s, c)) = Len(s) + 1 /\ Len(s) \in Nat
    OBVIOUS
  <2>2. \A i \in 1..Len(s) : Append(s, c)[i] = s[i]
    OBVIOUS
  <2>3. Append(s, c)[Len(s) + 1] = c
    OBVIOUS
  <2> QED BY <2>1, <2>2, <2>3, AppendProperties
<1> HIDE DEF t
<1>2. \A i \in 1..Len(s) : PairedAt(s, i)
  BY DEF Paired, PairedAt
<1>3. c.role # "tool" /\ ~IsCallMsg(r)
  BY DEF IsCallMsg
<1>4. ASSUME NEW i \in 1..Len(t) PROVE PairedAt(t, i)
  <2>1. CASE i \in 1..Len(s)
    BY <1>1, <1>2, <2>1 DEF PairedAt
  <2>2. CASE i = Len(s) + 1
    BY <1>1, <1>3, <2>2 DEF PairedAt
  <2>3. CASE i = Len(s) + 2
    BY <1>1, <1>3, <2>3 DEF PairedAt
  <2> QED BY <1>1, <2>1, <2>2, <2>3
<1>5. Paired(t)
  BY <1>4 DEF Paired, PairedAt
<1> QED BY <1>5 DEF t

\* What is kept from a point that is no tool result is still paired, and a
\* summary may stand before it.
LEMMA PairedKept ==
  ASSUME NEW s \in Seq(Message), Paired(s), NEW k \in CutPoints(s)
  PROVE  Paired(SubSeq(s, k, Len(s)))
<1> DEFINE t == SubSeq(s, k, Len(s))
<1>1. Len(s) \in Nat /\ k \in 2..(Len(s) + 1) /\ (k <= Len(s) => s[k].role # "tool")
  BY DEF CutPoints
<1>2. Len(t) = Len(s) - k + 1 /\ \A i \in 1..Len(t) : t[i] = s[k + i - 1]
  BY <1>1
<1> HIDE DEF t
<1>3. \A i \in 1..Len(s) : PairedAt(s, i)
  BY DEF Paired, PairedAt
<1>4. ASSUME NEW i \in 1..Len(t) PROVE PairedAt(t, i)
  <2> DEFINE j == k + i - 1
  <2>1. /\ j \in 1..Len(s) /\ i \in Nat /\ j >= k /\ (i = 1 => j = k)
        /\ (i < Len(t) <=> j < Len(s))
    BY <1>1, <1>2
  <2>2. t[i] = s[j]
    BY <1>2
  <2>3. i > 1 => t[i - 1] = s[j - 1]
    BY <1>1, <1>2
  <2>4. i < Len(t) => t[i + 1] = s[j + 1]
    BY <1>1, <1>2
  <2>5. s[j].role = "tool" => i > 1
    BY <1>1, <2>1
  <2> HIDE DEF j
  <2> QED BY <1>3, <2>1, <2>2, <2>3, <2>4, <2>5 DEF PairedAt
<1>5. Paired(t)
  BY <1>4 DEF Paired, PairedAt
<1> QED BY <1>5 DEF t

LEMMA PairedSummary ==
  ASSUME NEW s \in Seq(Message), NEW m \in Message, Paired(s), m.role = "summary"
  PROVE  Paired(<<m>> \o s)
<1> DEFINE t == <<m>> \o s
<1>1. /\ Len(t) = Len(s) + 1 /\ Len(s) \in Nat /\ t[1] = m
      /\ \A i \in 1..Len(s) : t[i + 1] = s[i]
  <2>1. <<m>> \in Seq(Message) /\ Len(<<m>>) = 1 /\ <<m>>[1] = m
    OBVIOUS
  <2>2. Len(t) = Len(s) + 1 /\ Len(s) \in Nat
    BY <2>1, ConcatProperties
  <2> QED BY <2>1, <2>2, ConcatProperties
<1> HIDE DEF t
<1>2. \A i \in 1..Len(s) : PairedAt(s, i)
  BY DEF Paired, PairedAt
<1>3. ~IsCallMsg(m) /\ m.role # "tool"
  BY DEF IsCallMsg
<1>4. ASSUME NEW i \in 1..Len(t) PROVE PairedAt(t, i)
  <2>1. CASE i = 1
    BY <1>1, <1>3, <2>1 DEF PairedAt
  <2>2. CASE i > 1
    <3> PICK j \in 1..Len(s) : i = j + 1
      BY <1>1, <2>2
    <3>1. t[i] = s[j] /\ (j > 1 => t[i - 1] = s[j - 1]) /\ (j < Len(s) => t[i + 1] = s[j + 1])
      BY <1>1, SMTT(30)
    <3> QED BY <1>1, <1>2, <3>1 DEF PairedAt
  <2> QED BY <2>1, <2>2
<1>5. Paired(t)
  BY <1>4 DEF Paired, PairedAt
<1> QED BY <1>5 DEF t

-----------------------------------------------------------------------------
(* The history a turn is making, and the invariant about it.               *)

\* The session, brought up to date with what is in flight.
Whole == Replay(ctx, InFlight)

\* The task makes nothing but answers, calls and results.
SavesSpeak ==
  \A i \in 1..Len(InFlight) :
    InFlight[i].ev = "save" => InFlight[i].msg.role \in {"assistant", "tool"}

\* A turn that a failed draw broke off may leave a call without its result, and
\* a guard that knows more than the session.
Answers(s) == DrawFails \/ Paired(s)

\* What the last request was, the history still begins with.
GuardHolds == DiskFails \/ DrawFails \/ Extends(guard, Whole)

Faithful ==
  /\ HistoryInSync
  /\ Answers(Whole)
  /\ apc \in {"tools", "hook", "run"} => callNo >= 1
  /\ comp = "ready" => cut \in CutPoints(ctx)
  /\ SavesSpeak
  /\ GuardHolds

LEMMA HistoryTypes ==
  ASSUME Inductive
  PROVE  /\ ctx \in Seq(Message) /\ live \in Seq(Message) /\ guard \in Seq(Message)
         /\ chan \in Seq(Event) /\ outbox \in Seq(Event) /\ InFlight \in Seq(Event)
         /\ Whole \in Seq(Message) /\ launches \in Nat /\ responses \in Nat /\ callNo \in Nat
<1>1. /\ ctx \in Seq(Message) /\ live \in Seq(Message) /\ guard \in Seq(Message)
      /\ chan \in Seq(Event) /\ outbox \in Seq(Event)
      /\ launches \in Nat /\ responses \in Nat /\ callNo \in Nat
  BY DEF Inductive, Typed, TypeOK, AgentTypeOK
<1>2. InFlight \in Seq(Event)
  BY <1>1 DEF InFlight
<1> QED BY <1>1, <1>2, ReplayFacts DEF Whole

\* What the task adds to its empty outbox, the history gets.
LEMMA WholeGrows ==
  ASSUME Inductive, Inductive', outbox = <<>>, UNCHANGED <<ctx, chan>>
  PROVE  Whole' = Replay(Whole, outbox')
<1>1. chan \in Seq(Event) /\ outbox' \in Seq(Event)
  BY DEF Inductive, Typed, TypeOK, AgentTypeOK
<1>2. InFlight = chan /\ InFlight' = chan \o outbox'
  BY <1>1, ConcatEmptySeq DEF InFlight
<1> QED BY <1>1, <1>2, ReplayConcat DEF Whole

\* Moving an event from the outbox to the channel changes nothing.
LEMMA WholeSent ==
  ASSUME Inductive, Send, UNCHANGED ctx
  PROVE  Whole' = Whole /\ InFlight' = InFlight
<1>1. /\ chan \in Seq(Event) /\ outbox \in Seq(Event) /\ outbox # <<>>
      /\ chan' = Append(chan, Head(outbox)) /\ outbox' = Tail(outbox)
  BY HistoryTypes DEF Send
<1>2. /\ Head(outbox) \in Event /\ Tail(outbox) \in Seq(Event)
      /\ outbox = <<Head(outbox)>> \o Tail(outbox)
      /\ Append(chan, Head(outbox)) = chan \o <<Head(outbox)>>
      /\ <<Head(outbox)>> \in Seq(Event)
  BY <1>1
<1>3. (chan \o <<Head(outbox)>>) \o Tail(outbox) = chan \o (<<Head(outbox)>> \o Tail(outbox))
  BY <1>1, <1>2, ConcatAssociative
<1>4. InFlight' = InFlight
  BY <1>1, <1>2, <1>3 DEF InFlight
<1> QED BY <1>4 DEF Whole

\* Output that comes in between is nothing to the history.
LEMMA WholeWithOutput ==
  ASSUME Inductive, ForwardLate, UNCHANGED ctx
  PROVE  Whole' = Whole
<1>1. /\ chan \in Seq(Event) /\ outbox \in Seq(Event) /\ ctx \in Seq(Message)
      /\ chan' = Append(chan, Ev("output")) /\ outbox' = outbox
  BY HistoryTypes DEF ForwardLate
<1>2. Ev("output") \in Event /\ Idle(Ev("output"))
  BY EventTypes DEF Idle
<1>3. /\ <<Ev("output")>> \in Seq(Event) /\ Append(chan, Ev("output")) \in Seq(Event)
      /\ Append(chan, Ev("output")) = chan \o <<Ev("output")>>
  BY <1>1, <1>2
<1>4. Replay(ctx, chan) \in Seq(Message)
  BY <1>1, ReplayFacts
<1>5. Replay(Replay(ctx, chan), <<Ev("output")>>) = Replay(ctx, chan)
  <2>1. Replay(Replay(ctx, chan), <<Ev("output")>>) = ApplyEvent(Replay(ctx, chan), Ev("output"))
    BY ReplayFew
  <2> QED BY <1>2, <1>4, <2>1, ApplyEventFacts
<1>6. Replay(ctx, chan') = Replay(ctx, chan)
  <2>1. Replay(ctx, chan \o <<Ev("output")>>) = Replay(Replay(ctx, chan), <<Ev("output")>>)
    BY <1>1, <1>3, ReplayConcat
  <2> QED BY <1>1, <1>3, <1>5, <2>1
<1>7. Whole = Replay(Replay(ctx, chan), outbox)
  BY <1>1, ReplayConcat DEF Whole, InFlight
<1>8. Replay(ctx, chan' \o outbox) = Replay(Replay(ctx, chan'), outbox)
  BY <1>1, <1>3, ReplayConcat
<1> QED BY <1>1, <1>6, <1>7, <1>8 DEF Whole, InFlight

\* The loop applies the oldest event: what was to come has come.
LEMMA WholeReceived ==
  ASSUME Inductive, chan # <<>>, chan' = Tail(chan), UNCHANGED outbox,
         ctx' = ApplyEvent(ctx, Head(chan))
  PROVE  /\ Whole' = Whole
         /\ Head(chan) = InFlight[1] /\ Len(InFlight) \in Nat /\ 1 \in 1..Len(InFlight)
         /\ Len(InFlight') = Len(InFlight) - 1
         /\ \A i \in 1..Len(InFlight') : InFlight'[i] = InFlight[i + 1]
<1>1. chan \in Seq(Event) /\ outbox \in Seq(Event) /\ ctx \in Seq(Message)
  BY HistoryTypes
<1>2. /\ Head(chan) \in Event /\ Tail(chan) \in Seq(Event)
      /\ chan = <<Head(chan)>> \o Tail(chan) /\ <<Head(chan)>> \in Seq(Event)
      /\ Tail(chan) \o outbox \in Seq(Event)
  BY <1>1
<1> DEFINE rest == Tail(chan) \o outbox
<1>3. InFlight = <<Head(chan)>> \o rest
  BY <1>1, <1>2, ConcatAssociative DEF InFlight
<1>4. InFlight' = rest
  BY DEF InFlight
<1> HIDE DEF rest
<1>5. rest \in Seq(Event)
  BY <1>2 DEF rest
<1>6. Whole = Replay(Replay(ctx, <<Head(chan)>>), rest)
  BY <1>2, <1>3, <1>5, ReplayConcat DEF Whole
<1>7. Replay(ctx, <<Head(chan)>>) = ctx'
  BY ReplayFew
<1>8. Len(<<Head(chan)>>) = 1 /\ <<Head(chan)>>[1] = Head(chan)
  OBVIOUS
<1>9. /\ Len(InFlight) = 1 + Len(rest) /\ Len(rest) \in Nat
      /\ \A i \in 1..(1 + Len(rest)) :
           InFlight[i] = IF i <= 1 THEN <<Head(chan)>>[i] ELSE rest[i - 1]
  BY <1>2, <1>3, <1>5, <1>8, ConcatProperties
<1>10. \A i \in 1..Len(rest) : InFlight[i + 1] = rest[i]
  BY <1>9
<1> QED BY <1>4, <1>6, <1>7, <1>8, <1>9, <1>10 DEF Whole

\* When the task has said all it had to say, the session holds everything.
LEMMA WholeArrived ==
  ASSUME Inductive, Quiet \/ (chan # <<>> /\ Terminal(Head(chan)))
  PROVE  Whole = ctx
<1>1. chan \in Seq(Event) /\ ctx \in Seq(Message)
  BY HistoryTypes
<1>2. outbox = <<>> /\ \A i \in 1..Len(chan) : Idle(chan[i])
  <2>1. CASE Quiet
    BY <2>1 DEF Quiet, Idle
  <2>2. CASE chan # <<>> /\ Terminal(Head(chan))
    <3>1. 1 \in 1..Len(chan) /\ Head(chan) = chan[1] /\ Len(chan) \in Nat
      BY <1>1, <2>2
    <3>2. outbox = <<>> /\ \A j \in 2..Len(chan) : chan[j].ev = "output"
      BY <2>2, <3>1 DEF Inductive, LastEvent
    <3>3. Idle(chan[1])
      BY <2>2, <3>1 DEF Terminal, Idle
    <3> QED BY <3>1, <3>2, <3>3 DEF Idle
  <2> QED BY <2>1, <2>2
<1>3. InFlight = chan
  BY <1>1, <1>2, ConcatEmptySeq DEF InFlight
<1> QED BY <1>1, <1>2, <1>3, ReplayFacts DEF Whole

-----------------------------------------------------------------------------
(* Steps of the agent task.                                                *)

LEMMA ExtendsReflexive ==
  ASSUME NEW s \in Seq(Message)
  PROVE  Extends(s, s)
BY DEF Extends

LEMMA ExtendsAppend ==
  ASSUME NEW s \in Seq(Message), NEW m \in Message
  PROVE  Append(s, m) \in Seq(Message) /\ Extends(s, Append(s, m))
<1>1. Len(Append(s, m)) = Len(s) + 1 /\ \A i \in 1..Len(s) : Append(s, m)[i] = s[i]
  OBVIOUS
<1> QED BY <1>1 DEF Extends

\* What the task sends next speaks, if the new events do.
LEMMA SavesGrow ==
  ASSUME Inductive, SavesSpeak, outbox = <<>>, UNCHANGED chan, outbox' \in Seq(Event),
         \A i \in 1..Len(outbox') :
           outbox'[i].ev = "save" => outbox'[i].msg.role \in {"assistant", "tool"}
  PROVE  SavesSpeak'
<1>1. chan \in Seq(Event) /\ InFlight = chan /\ InFlight' = chan \o outbox'
  BY HistoryTypes, ConcatEmptySeq DEF InFlight
<1>2. \A i \in 1..Len(chan \o outbox') :
        \/ i \in 1..Len(chan) /\ (chan \o outbox')[i] = chan[i]
        \/ i - Len(chan) \in 1..Len(outbox') /\ (chan \o outbox')[i] = outbox'[i - Len(chan)]
  BY <1>1, ConcatParts
<1> QED BY <1>1, <1>2 DEF SavesSpeak

\* A step that adds no message leaves the history as it is.
LEMMA SilentStepKeeps ==
  ASSUME Inductive, Inductive', Faithful, apc \notin {"none", "end"}, outbox = <<>>,
         UNCHANGED <<chan, live, callNo, turnVars>>,
         apc' \in {"tools", "hook", "run"} => apc \in {"tools", "hook", "run"},
         \A i \in 1..Len(outbox') : Idle(outbox'[i]),
         guard' = guard \/ guard' = live
  PROVE  Faithful'
<1>1. outbox' \in Seq(Event)
  BY DEF Inductive, Typed, TypeOK, AgentTypeOK
<1>2. Whole' = Replay(Whole, outbox')
  BY WholeGrows DEF turnVars
<1>3. Whole' = Whole
  BY <1>1, <1>2, HistoryTypes, ReplayFacts
<1>4. HistoryInSync'
  BY <1>3 DEF Faithful, HistoryInSync, Whole
<1>5. SavesSpeak'
  BY <1>1, SavesGrow DEF Faithful, Idle
<1>6. GuardHolds'
  <2>1. Whole = live
    BY DEF Faithful, HistoryInSync, Whole
  <2> QED BY <1>3, <2>1, HistoryTypes, ExtendsReflexive DEF Faithful, GuardHolds
<1> QED BY <1>3, <1>4, <1>5, <1>6 DEF Faithful, Answers, turnVars

LEMMA ShortStepsFaithful ==
  ASSUME Inductive, Inductive', Faithful, UNCHANGED turnVars,
         \/ StopCancelled \/ StopAtThreshold \/ Request \/ Backoff
         \/ \E empty \in BOOLEAN : Retry(empty)
         \/ \E e \in {Done("aborted"), Done("error"), Needs("overflow")} : StreamFails(e)
         \/ CancelBeforeCall \/ RunPreToolHooks \/ StartTool \/ Panic
  PROVE  Faithful'
<1>1. /\ \A w \in Reasons : Idle(Done(w)) /\ Idle(Needs(w))
      /\ Idle(Ev("start"))
  BY EventTypes DEF Idle
<1>2. /\ apc \notin {"none", "end"} /\ outbox = <<>>
      /\ UNCHANGED <<chan, live, callNo>>
      /\ apc' \in {"tools", "hook", "run"} => apc \in {"tools", "hook", "run"}
      /\ guard' = guard \/ guard' = live
  BY RetryDropsNothing DEF StopCancelled, StopAtThreshold, Request, Retry, Backoff,
         StreamFails, CancelBeforeCall, RunPreToolHooks, StartTool, Panic, At, Finish
<1>3. outbox' = <<>> \/ \E e : outbox' = <<e>> /\ Idle(e)
  <2>1. CASE StopCancelled \/ StopAtThreshold \/ CancelBeforeCall
    BY <1>1, <2>1 DEF StopCancelled, StopAtThreshold, CancelBeforeCall, Finish
  <2>2. CASE Backoff \/ \E empty \in BOOLEAN : Retry(empty)
    BY <1>1, <1>2, <2>2 DEF Retry, Backoff, Finish
  <2>3. CASE \E e \in {Done("aborted"), Done("error"), Needs("overflow")} : StreamFails(e)
    BY <1>1, <2>3 DEF StreamFails, Finish
  <2>4. CASE Request \/ RunPreToolHooks \/ Panic
    BY <1>2, <2>4 DEF Request, RunPreToolHooks, Panic
  <2>5. CASE StartTool
    BY <1>1, <2>5 DEF StartTool
  <2> QED BY <2>1, <2>2, <2>3, <2>4, <2>5
<1>4. \A i \in 1..Len(outbox') : Idle(outbox'[i])
  BY <1>3
<1> QED BY <1>2, <1>4, SilentStepKeeps

LEMMA SavedAlone ==
  ASSUME NEW s \in Seq(Message), NEW e \in Event, e.ev = "save"
  PROVE  Replay(s, <<e>>) = Append(s, e.msg)
<1>1. Replay(s, <<e>>) = ApplyEvent(s, e)
  BY ReplayFew
<1> QED BY <1>1, ApplyEventFacts

\* A pair is added to the session's history and to the task's own alike.
LEMMA RecordFaithful ==
  ASSUME Inductive, Inductive', Faithful, apc \in {"tools", "hook", "run"}, outbox = <<>>,
         NEW before, before = <<>> \/ before = <<Ev("start")>>,
         NEW callData \in Contents, NEW resultData \in Contents,
         Record(before, callData, resultData),
         UNCHANGED <<chan, guard, launches, responses, turnVars>>
  PROVE  Faithful'
<1> DEFINE c == CallMsg(callData)
           r == ResultMsg(resultData)
<1>1. c \in Message /\ r \in Message
  BY HistoryTypes, MsgType DEF CallMsg, ResultMsg
<1>2. IsCallMsg(c) /\ r.role = "tool" /\ CallId(r) = CallId(c) /\ c.role = "assistant"
  BY HistoryTypes DEF Faithful, CallMsg, ResultMsg, Msg, IsCallMsg, CallId
<1>3. outbox' = before \o <<Save(c), Save(r)>> /\ live' = live \o <<c, r>>
  BY DEF Record
<1>4. callNo' >= 1
  BY HistoryTypes DEF Record, Faithful
<1> HIDE DEF c, r
<1>5. /\ Save(c) \in Event /\ Save(c).ev = "save" /\ Save(c).msg = c
      /\ Save(r) \in Event /\ Save(r).ev = "save" /\ Save(r).msg = r
  BY <1>1, EventTypes DEF Save, Ev
<1>6. before \in Seq(Event) /\ \A i \in 1..Len(before) : Idle(before[i])
  <2>1. Ev("start") \in Event /\ Idle(Ev("start"))
    BY EventTypes DEF Idle
  <2>2. CASE before = <<>>
    BY <2>2
  <2>3. CASE before = <<Ev("start")>>
    BY <2>1, <2>3
  <2> QED BY <2>2, <2>3
<1>7. Whole \in Seq(Message) /\ live \in Seq(Message) /\ guard \in Seq(Message)
  BY HistoryTypes
<1>8. Whole' = Append(Append(Whole, c), r)
  <2>1. Whole' = Replay(Whole, before \o <<Save(c), Save(r)>>)
    BY <1>3, WholeGrows DEF turnVars
  <2>2. Replay(Whole, before) = Whole
    BY <1>6, <1>7, ReplayFacts
  <2>3. <<Save(c), Save(r)>> = <<Save(c)>> \o <<Save(r)>>
        /\ <<Save(c)>> \in Seq(Event) /\ <<Save(r)>> \in Seq(Event)
    BY <1>5
  <2>4. Append(Whole, c) \in Seq(Message)
    BY <1>1, <1>7
  <2>5. Replay(Whole, <<Save(c)>>) = Append(Whole, c)
    BY <1>5, <1>7, SavedAlone
  <2>6. Replay(Append(Whole, c), <<Save(r)>>) = Append(Append(Whole, c), r)
    BY <1>5, <2>4, SavedAlone
  <2>7. Replay(Whole, <<Save(c)>> \o <<Save(r)>>)
        = Replay(Replay(Whole, <<Save(c)>>), <<Save(r)>>)
    BY <2>3, ReplayConcat
  <2>8. <<Save(c)>> \o <<Save(r)>> \in Seq(Event)
    BY <2>3
  <2>9. Replay(Whole, before \o (<<Save(c)>> \o <<Save(r)>>))
        = Replay(Replay(Whole, before), <<Save(c)>> \o <<Save(r)>>)
    BY <1>6, <2>8, ReplayConcat
  <2> QED BY <2>1, <2>2, <2>3, <2>5, <2>6, <2>7, <2>9
<1>9. HistoryInSync'
  <2>1. Whole = live
    BY DEF Faithful, HistoryInSync, Whole
  <2>2. live \o <<c, r>> = Append(Append(live, c), r)
    BY <1>1, <1>7
  <2> QED BY <1>3, <1>8, <2>1, <2>2 DEF HistoryInSync, Whole
<1>10. Answers(Whole')
  BY <1>1, <1>2, <1>7, <1>8, PairedPair DEF Faithful, Answers
<1>11. SavesSpeak'
  <2>1. outbox' \in Seq(Event)
    BY DEF Inductive, Typed, TypeOK, AgentTypeOK
  <2>2. ASSUME NEW i \in 1..Len(outbox'), outbox'[i].ev = "save"
        PROVE  outbox'[i].msg.role \in {"assistant", "tool"}
    <3>1. <<Save(c), Save(r)>> \in Seq(Event)
      BY <1>5
    <3>2. \/ i \in 1..Len(before) /\ outbox'[i] = before[i]
          \/ i - Len(before) \in 1..2 /\ outbox'[i] = <<Save(c), Save(r)>>[i - Len(before)]
      BY <1>3, <1>6, <3>1, ConcatParts
    <3>3. outbox'[i] \in {Save(c), Save(r)}
      BY <1>6, <2>2, <3>2 DEF Idle
    <3> QED BY <1>2, <1>5, <3>3
  <2> QED BY <2>1, <2>2, SavesGrow DEF Faithful
<1>12. GuardHolds'
  <2>1. Append(Whole, c) \in Seq(Message) /\ Append(Append(Whole, c), r) \in Seq(Message)
    BY <1>1, <1>7
  <2>2. Extends(Whole, Append(Whole, c)) /\ Extends(Append(Whole, c), Append(Append(Whole, c), r))
    BY <1>1, <1>7, <2>1, ExtendsAppend
  <2>3. Extends(guard, Whole) => Extends(guard, Append(Append(Whole, c), r))
    BY <1>7, <2>1, <2>2, ExtendsTransitive
  <2> QED BY <1>8, <2>3 DEF Faithful, GuardHolds
<1> QED BY <1>4, <1>9, <1>10, <1>11, <1>12 DEF Faithful, turnVars

LEMMA ToolStepsFaithful ==
  ASSUME Inductive, Inductive', Faithful, UNCHANGED turnVars,
         ActivateSkill \/ VetoCall \/ \E image, late \in BOOLEAN : FinishTool(image, late)
  PROVE  Faithful'
<1>1. CASE ActivateSkill
  <2>1. /\ apc = "tools" /\ outbox = <<>> /\ Record(<<>>, "none", "none")
        /\ UNCHANGED <<chan, guard, launches, responses>>
    BY <1>1 DEF ActivateSkill, At
  <2> QED BY <2>1, RecordFaithful
<1>2. CASE VetoCall
  <2>1. /\ apc = "hook" /\ outbox = <<>> /\ Record(<<Ev("start")>>, "none", "none")
        /\ UNCHANGED <<chan, guard, launches, responses>>
    BY <1>2 DEF VetoCall, At
  <2> QED BY <2>1, RecordFaithful
<1>3. CASE \E image, late \in BOOLEAN : FinishTool(image, late)
  <2> PICK image \in BOOLEAN, late \in BOOLEAN : FinishTool(image, late)
    BY <1>3
  <2> DEFINE callData == IF first /\ reply.text THEN "text" ELSE "none"
             resultData == IF image THEN "image" ELSE "none"
  <2>1. callData \in Contents /\ resultData \in Contents
    OBVIOUS
  <2>2. /\ apc = "run" /\ outbox = <<>> /\ Record(<<>>, callData, resultData)
        /\ UNCHANGED <<chan, guard, launches, responses>>
    BY DEF FinishTool, At
  <2> HIDE DEF callData, resultData
  <2> QED BY <2>1, <2>2, RecordFaithful
<1> QED BY <1>1, <1>2, <1>3

\* The answer: its images become notes on both sides, its text is saved last.
LEMMA RespondFaithful ==
  ASSUME Inductive, Inductive', Faithful, UNCHANGED turnVars,
         NEW r \in Replies, NEW full \in BOOLEAN, Respond(r, full)
  PROVE  Faithful'
<1> DEFINE seen == IF StripImages THEN Images(live) ELSE {}
           token == IF r.text \/ r.think THEN <<Ev("token")>> ELSE <<>>
           strip == IF seen # {} THEN <<Strip(seen)>> ELSE <<>>
           told == token \o strip
           msg == Msg("assistant", responses + 1, 0, "text")
           final == IF r.text THEN <<Save(msg), Done("ok")>> ELSE <<Done("ok")>>
<1>1. /\ apc = "stream" /\ outbox = <<>> /\ guard' = guard /\ chan' = chan /\ callNo' = 1
      /\ live' = StripSeen(live, seen)
      /\ \/ apc' = "end" /\ outbox' = told \o final
         \/ apc' = "tools" /\ outbox' = told
  BY DEF Respond, At
<1>2. Whole \in Seq(Message) /\ live \in Seq(Message) /\ guard \in Seq(Message)
      /\ Whole = live
  BY <1>1, HistoryTypes DEF Faithful, HistoryInSync, Whole
<1>3. seen \in SUBSET (Nat \X Nat \X Nat)
  BY <1>2, ImagesType
<1> HIDE DEF seen
<1>4. msg \in Message /\ msg.role = "assistant" /\ ~IsCallMsg(msg)
  <2>1. msg \in Message
    BY HistoryTypes, MsgType
  <2> QED BY <2>1 DEF Msg, IsCallMsg
<1>5. /\ Ev("token") \in Event /\ Idle(Ev("token"))
      /\ Done("ok") \in Event /\ Idle(Done("ok"))
  BY EventTypes DEF Idle
<1>6. /\ Strip(seen) \in Event /\ Strip(seen).ev = "strip" /\ Strip(seen).ids = seen
  <2>1. Strip(seen) \in Event /\ Strip(seen).ev = "strip"
    BY <1>3, EventTypes
  <2>2. Strip(seen).ids = seen
    BY DEF Strip, Ev
  <2> QED BY <2>1, <2>2
<1> HIDE DEF msg
<1>7. Save(msg) \in Event /\ Save(msg).ev = "save" /\ Save(msg).msg = msg
  <2>1. Save(msg) \in Event /\ Save(msg).ev = "save"
    BY <1>4, EventTypes
  <2>2. Save(msg).msg = msg
    BY DEF Save, Ev
  <2> QED BY <2>1, <2>2
<1>8. /\ token \in Seq(Event) /\ \A i \in 1..Len(token) : Idle(token[i])
      /\ strip \in Seq(Event) /\ \A i \in 1..Len(strip) : strip[i].ev # "save"
      /\ final \in Seq(Event)
      /\ \A i \in 1..Len(final) : final[i].ev = "save" => final[i].msg = msg
  <2>1. token \in Seq(Event) /\ \A i \in 1..Len(token) : Idle(token[i])
    BY <1>5
  <2>2. strip \in Seq(Event) /\ \A i \in 1..Len(strip) : strip[i].ev # "save"
    BY <1>6
  <2>3. final \in Seq(Event)
    BY <1>5, <1>7
  <2>4. ASSUME NEW i \in 1..Len(final), final[i].ev = "save" PROVE final[i].msg = msg
    BY <1>5, <1>7, <2>4 DEF Idle
  <2> QED BY <2>1, <2>2, <2>3, <2>4
<1>9. Replay(Whole, token) = Whole
  BY <1>2, <1>8, ReplayFacts
<1>10. Replay(Whole, strip) = StripSeen(Whole, seen)
  <2>1. CASE seen # {}
    <3>1. Replay(Whole, <<Strip(seen)>>) = ApplyEvent(Whole, Strip(seen))
      BY ReplayFew
    <3>2. ApplyEvent(Whole, Strip(seen)) = StripSeen(Whole, seen)
      BY <1>2, <1>6, ApplyEventFacts
    <3> QED BY <2>1, <3>1, <3>2
  <2>2. CASE seen = {}
    <3>1. Replay(Whole, <<>>) = Whole
      BY ReplayFew
    <3>2. StripSeen(Whole, {}) = Whole
      BY <1>2 DEF StripSeen
    <3> QED BY <2>2, <3>1, <3>2
  <2> QED BY <2>1, <2>2
<1> HIDE DEF token, strip
<1>11. told \in Seq(Event) /\ Replay(Whole, told) = StripSeen(Whole, seen)
  <2>1. told \in Seq(Event)
    BY <1>8
  <2>2. Replay(Whole, told) = Replay(Replay(Whole, token), strip)
    BY <1>8, ReplayConcat
  <2> QED BY <1>9, <1>10, <2>1, <2>2
<1>12. \A i \in 1..Len(told) : told[i].ev # "save"
  <2>1. \A i \in 1..Len(told) : \/ i \in 1..Len(token) /\ told[i] = token[i]
                                \/ i - Len(token) \in 1..Len(strip) /\ told[i] = strip[i - Len(token)]
    BY <1>8, ConcatParts
  <2> QED BY <1>8, <2>1 DEF Idle
<1> DEFINE seenAll == StripSeen(Whole, seen)
<1>13. seenAll \in Seq(Message) /\ Extends(Whole, seenAll) /\ Answers(seenAll)
  BY <1>2, StripSeenParts, PairedStripped DEF Faithful, Extends, Answers
<1>14. Replay(seenAll, final) = seenAll \/ Replay(seenAll, final) = Append(seenAll, msg)
  <2>1. CASE r.text
    <3>1. /\ final = <<Save(msg)>> \o <<Done("ok")>>
          /\ <<Save(msg)>> \in Seq(Event) /\ <<Done("ok")>> \in Seq(Event)
      BY <1>5, <1>7, <2>1
    <3>2. Replay(seenAll, <<Save(msg)>>) = Append(seenAll, msg)
      BY <1>7, <1>13, SavedAlone
    <3>3. Append(seenAll, msg) \in Seq(Message)
      BY <1>4, <1>13
    <3>4. Replay(Append(seenAll, msg), <<Done("ok")>>) = ApplyEvent(Append(seenAll, msg), Done("ok"))
      BY ReplayFew
    <3>5. ApplyEvent(Append(seenAll, msg), Done("ok")) = Append(seenAll, msg)
      BY <1>5, <3>3, ApplyEventFacts
    <3>6. Replay(seenAll, <<Save(msg)>> \o <<Done("ok")>>)
          = Replay(Replay(seenAll, <<Save(msg)>>), <<Done("ok")>>)
      BY <3>1, ReplayConcat
    <3> QED BY <3>1, <3>2, <3>4, <3>5, <3>6
  <2>2. CASE ~r.text
    <3>1. Replay(seenAll, <<Done("ok")>>) = ApplyEvent(seenAll, Done("ok"))
      BY ReplayFew
    <3>2. ApplyEvent(seenAll, Done("ok")) = seenAll
      BY <1>5, <1>13, ApplyEventFacts
    <3> QED BY <2>2, <3>1, <3>2
  <2> QED BY <2>1, <2>2
<1> HIDE DEF told, final, seenAll
<1>15. Whole' = Replay(Whole, outbox')
  BY <1>1, WholeGrows DEF turnVars
<1>16. /\ apc' = "end" => Whole' = seenAll \/ Whole' = Append(seenAll, msg)
       /\ apc' = "tools" => Whole' = seenAll
  <2>1. Replay(Whole, told \o final) = Replay(Replay(Whole, told), final)
    BY <1>8, <1>11, ReplayConcat
  <2> QED BY <1>1, <1>11, <1>14, <1>15, <2>1 DEF seenAll
<1>17. HistoryInSync'
  BY <1>1, <1>2, <1>16 DEF HistoryInSync, Whole, seenAll
<1>18. Answers(Whole')
  BY <1>1, <1>4, <1>13, <1>16, PairedAppend DEF Answers
<1>19. SavesSpeak'
  <2>1. outbox' \in Seq(Event)
    BY DEF Inductive, Typed, TypeOK, AgentTypeOK
  <2>2. ASSUME NEW i \in 1..Len(outbox'), outbox'[i].ev = "save"
        PROVE  outbox'[i].msg.role \in {"assistant", "tool"}
    <3>1. CASE outbox' = told
      BY <1>12, <2>2, <3>1
    <3>2. CASE outbox' = told \o final
      <4>1. \/ i \in 1..Len(told) /\ outbox'[i] = told[i]
            \/ i - Len(told) \in 1..Len(final) /\ outbox'[i] = final[i - Len(told)]
        BY <1>8, <1>11, <3>2, ConcatParts
      <4> QED BY <1>4, <1>8, <1>12, <2>2, <4>1
    <3> QED BY <1>1, <3>1, <3>2
  <2> QED BY <1>1, <2>1, <2>2, SavesGrow DEF Faithful
<1>20. GuardHolds'
  <2>1. Append(seenAll, msg) \in Seq(Message) /\ Extends(seenAll, Append(seenAll, msg))
    BY <1>4, <1>13, ExtendsAppend
  <2>2. Extends(guard, Whole) => Extends(guard, seenAll)
    BY <1>2, <1>13, ExtendsTransitive
  <2>3. Extends(guard, seenAll) => Extends(guard, Append(seenAll, msg))
    BY <1>2, <1>13, <2>1, ExtendsTransitive
  <2> QED BY <1>1, <1>16, <2>2, <2>3 DEF Faithful, GuardHolds
<1> QED BY <1>1, <1>17, <1>18, <1>19, <1>20 DEF Faithful, turnVars

LEMMA SendFaithful ==
  ASSUME Inductive, Inductive', Faithful, UNCHANGED turnVars, Send
  PROVE  Faithful'
<1>1. Whole' = Whole /\ InFlight' = InFlight
  BY WholeSent DEF turnVars
<1>2. UNCHANGED <<apc, live, callNo, guard>>
  BY DEF Send
<1>3. HistoryInSync' /\ GuardHolds'
  BY <1>1, <1>2 DEF Faithful, HistoryInSync, Whole, GuardHolds
<1>4. SavesSpeak'
  BY <1>1 DEF Faithful, SavesSpeak
<1> QED BY <1>1, <1>2, <1>3, <1>4 DEF Faithful, turnVars

LEMMA ForwardLateFaithful ==
  ASSUME Inductive, Inductive', Faithful, UNCHANGED turnVars, ForwardLate
  PROVE  Faithful'
<1>1. Whole' = Whole
  BY WholeWithOutput DEF turnVars
<1>2. UNCHANGED <<apc, live, callNo, guard, outbox>> /\ chan' = Append(chan, Ev("output"))
  BY DEF ForwardLate
<1>3. HistoryInSync' /\ GuardHolds'
  BY <1>1, <1>2 DEF Faithful, HistoryInSync, Whole, GuardHolds
<1>4. SavesSpeak'
  <2>1. /\ chan \in Seq(Event) /\ outbox \in Seq(Event)
        /\ chan' \in Seq(Event) /\ Ev("output") \in Event /\ Idle(Ev("output"))
    BY HistoryTypes, EventTypes DEF Inductive, Typed, TypeOK, AgentTypeOK, Idle
  <2>2. /\ Len(chan') = Len(chan) + 1 /\ Len(chan) \in Nat /\ Len(outbox) \in Nat
        /\ \A i \in 1..Len(chan) : chan'[i] = chan[i]
        /\ chan'[Len(chan) + 1] = Ev("output")
    BY <1>2, <2>1
  <2>3. /\ Len(InFlight) = Len(chan) + Len(outbox)
        /\ \A i \in 1..Len(chan) : InFlight[i] = chan[i]
        /\ \A i \in 1..Len(outbox) : InFlight[Len(chan) + i] = outbox[i]
    BY <2>1, <2>2, ConcatProperties DEF InFlight
  <2>4. \A i \in 1..Len(InFlight') :
          \/ i \in 1..Len(chan') /\ InFlight'[i] = chan'[i]
          \/ i - Len(chan') \in 1..Len(outbox) /\ InFlight'[i] = outbox[i - Len(chan')]
    BY <1>2, <2>1, ConcatParts DEF InFlight
  <2>5. ASSUME NEW i \in 1..Len(InFlight'), InFlight'[i].ev = "save"
        PROVE  \E j \in 1..Len(InFlight) : InFlight'[i] = InFlight[j]
    <3>1. CASE i \in 1..Len(chan') /\ InFlight'[i] = chan'[i]
      <4>1. i \in 1..Len(chan)
        BY <2>1, <2>2, <2>5, <3>1 DEF Idle
      <4> QED BY <2>2, <2>3, <3>1, <4>1
    <3>2. CASE i - Len(chan') \in 1..Len(outbox) /\ InFlight'[i] = outbox[i - Len(chan')]
      <4>1. i - 1 = Len(chan) + (i - Len(chan')) /\ i - 1 \in 1..Len(InFlight)
        BY <2>2, <2>3, <3>2
      <4> QED BY <2>3, <3>2, <4>1
    <3> QED BY <2>4, <3>1, <3>2
  <2> QED BY <2>5 DEF Faithful, SavesSpeak
<1> QED BY <1>1, <1>2, <1>3, <1>4 DEF Faithful, turnVars

LEMMA TaskFaithful ==
  ASSUME Inductive, Inductive', Faithful, TaskStep \/ LateOutput
  PROVE  Faithful'
<1>1. CASE LateOutput
  BY <1>1, ForwardLateFaithful DEF LateOutput
<1>2. CASE TaskStep
  <2>1. AgentStep /\ UNCHANGED turnVars
    BY <1>2 DEF TaskStep
  <2>2. CASE Send
    BY <2>1, <2>2, SendFaithful
  <2>3. CASE \E r \in Replies, full \in BOOLEAN : Respond(r, full)
    BY <2>1, <2>3, RespondFaithful
  <2>4. CASE ActivateSkill \/ VetoCall \/ \E image, late \in BOOLEAN : FinishTool(image, late)
    BY <2>1, <2>4, ToolStepsFaithful
  <2>5. CASE \/ StopCancelled \/ StopAtThreshold \/ Request \/ Backoff
             \/ \E empty \in BOOLEAN : Retry(empty)
             \/ \E e \in {Done("aborted"), Done("error"), Needs("overflow")} : StreamFails(e)
             \/ CancelBeforeCall \/ RunPreToolHooks \/ StartTool \/ Panic
    BY <2>1, <2>5, ShortStepsFaithful
  <2> QED BY <2>1, <2>2, <2>3, <2>4, <2>5 DEF AgentStep, OwnStep, Answered
<1> QED BY <1>1, <1>2

-----------------------------------------------------------------------------
(* Steps of the terminal loop.                                             *)

\* A launch starts with an empty channel and the same history on both sides.
LEMMA LaunchFaithful ==
  ASSUME Inductive, Inductive', NEW base \in Seq(Message), Launch(base), Answers(base),
         comp' = "none", GuardHolds, guard' = <<>> \/ (guard' = guard /\ base = Whole)
  PROVE  Faithful'
<1> DEFINE user == [role |-> "user", task |-> launches + 1, resp |-> 0, call |-> 0,
                    data |-> "none"]
<1>1. user \in Message /\ ~IsCallMsg(user) /\ user.role # "tool"
  BY HistoryTypes DEF Message, IsCallMsg
<1>2. /\ ctx' = Append(base, user) /\ live' = Append(base, user)
      /\ apc' = "top" /\ chan' = <<>> /\ outbox' = <<>>
  BY DEF Launch
<1> HIDE DEF user
<1>3. InFlight' = <<>> /\ Whole' = ctx'
  <2>1. InFlight' = <<>>
    BY <1>2 DEF InFlight
  <2> QED BY <2>1, ReplayFew DEF Whole
<1>4. HistoryInSync'
  BY <1>2, <1>3 DEF HistoryInSync, Whole
<1>5. Answers(Whole')
  BY <1>1, <1>2, <1>3, PairedAppend DEF Answers
<1>6. SavesSpeak'
  BY <1>3 DEF SavesSpeak
<1>7. GuardHolds'
  <2>1. CASE guard' = <<>>
    <3>1. Whole' \in Seq(Message)
      BY <1>1, <1>2, <1>3
    <3> QED BY <2>1, <3>1 DEF GuardHolds, Extends
  <2>2. CASE guard' = guard /\ base = Whole
    <3>1. Append(base, user) \in Seq(Message) /\ Extends(base, Append(base, user))
      BY <1>1, ExtendsAppend
    <3>2. Extends(guard, base) => Extends(guard, Append(base, user))
      BY <3>1, HistoryTypes, ExtendsTransitive
    <3> QED BY <1>2, <1>3, <2>2, <3>2 DEF GuardHolds
  <2> QED BY <2>1, <2>2
<1> QED BY <1>2, <1>4, <1>5, <1>6, <1>7 DEF Faithful

\* Steps that leave the session, the task and its events alone.
LEMMA AsideFaithful ==
  ASSUME Inductive, Inductive', Faithful,
         UNCHANGED <<ctx, chan, outbox, apc, live, callNo, guard>>,
         comp' = "ready" => cut' \in CutPoints(ctx)
  PROVE  Faithful'
<1>1. Whole' = Whole /\ InFlight' = InFlight
  BY DEF Whole, InFlight
<1>2. HistoryInSync' /\ GuardHolds'
  BY <1>1 DEF Faithful, HistoryInSync, Whole, GuardHolds
<1>3. SavesSpeak'
  BY <1>1 DEF Faithful, SavesSpeak
<1> QED BY <1>1, <1>2, <1>3 DEF Faithful

\* The summary and what is kept after it, with images or without.
LEMMA CompactedFacts ==
  ASSUME Inductive, Faithful, comp = "ready"
  PROVE  /\ ctx = Whole
         /\ Msg("summary", 0, 0, "none") \in Message
         /\ SubSeq(ctx, cut, Len(ctx)) \in Seq(Message)
         /\ <<Msg("summary", 0, 0, "none")>> \o SubSeq(ctx, cut, Len(ctx)) \in Seq(Message)
         /\ Answers(<<Msg("summary", 0, 0, "none")>> \o SubSeq(ctx, cut, Len(ctx)))
         /\ Compacted \in Seq(Message) /\ Answers(Compacted)
<1> DEFINE sum == Msg("summary", 0, 0, "none")
           kept == SubSeq(ctx, cut, Len(ctx))
<1>1. Quiet /\ ctx \in Seq(Message) /\ cut \in CutPoints(ctx)
  BY HistoryTypes DEF Inductive, Settled, Faithful
<1>2. ctx = Whole
  BY <1>1, WholeArrived
<1>3. kept \in Seq(Message) /\ Answers(kept)
  <2>1. Answers(ctx)
    BY <1>2 DEF Faithful
  <2>2. cut \in Nat /\ cut >= 2
    BY <1>1 DEF CutPoints
  <2>3. Paired(ctx) => Paired(kept)
    BY <1>1, PairedKept
  <2> QED BY <1>1, <2>1, <2>2, <2>3, KeptType DEF Answers
<1>4. sum \in Message /\ sum.role = "summary"
  <2>1. sum \in Message
    BY HistoryTypes, MsgType
  <2> QED BY <2>1 DEF Msg
<1> HIDE DEF sum, kept
<1>5. ASSUME NEW s \in Seq(Message), Answers(s)
      PROVE  <<sum>> \o s \in Seq(Message) /\ Answers(<<sum>> \o s)
  <2>1. Paired(s) => Paired(<<sum>> \o s)
    BY <1>4, PairedSummary
  <2> QED BY <1>4, <1>5, <2>1 DEF Answers
<1>6. StripSeen(kept, Images(kept)) \in Seq(Message) /\ Answers(StripSeen(kept, Images(kept)))
  BY <1>3, StripSeenType, PairedStripped DEF Answers
<1>7. Compacted = <<sum>> \o (IF StripImages THEN StripSeen(kept, Images(kept)) ELSE kept)
  BY DEF Compacted, sum, kept
<1>8. Compacted \in Seq(Message) /\ Answers(Compacted)
  BY <1>3, <1>5, <1>6, <1>7
<1>9. <<sum>> \o kept \in Seq(Message) /\ Answers(<<sum>> \o kept)
  BY <1>3, <1>5
<1> QED BY <1>2, <1>3, <1>4, <1>8, <1>9 DEF sum, kept

LEMMA PollFaithful ==
  ASSUME Inductive, Inductive', Faithful,
         PollNothing \/ PollCompacted \/ PollRewriteFails \/ PollFailed
  PROVE  Faithful'
<1>1. CASE PollNothing
  BY <1>1, AsideFaithful DEF PollNothing, agentVars, Faithful
<1>2. CASE PollFailed
  BY <1>2, AsideFaithful DEF PollFailed, agentVars
<1>3. CASE PollCompacted
  <2>1. comp = "ready" /\ Launch(Compacted) /\ guard' = <<>> /\ comp' = "none"
    BY <1>3 DEF PollCompacted
  <2>2. Compacted \in Seq(Message) /\ Answers(Compacted) /\ GuardHolds
    BY <2>1, CompactedFacts DEF Faithful
  <2> HIDE DEF Launch, Compacted
  <2> QED BY <2>1, <2>2, LaunchFaithful
<1>4. CASE PollRewriteFails
  <2>1. /\ DiskFails /\ comp = "ready" /\ comp' = "none"
        /\ ctx' = <<Msg("summary", 0, 0, "none")>> \o SubSeq(ctx, cut, Len(ctx))
        /\ UNCHANGED <<apc, live, outbox, callNo, chan, guard>>
    BY <1>4 DEF PollRewriteFails, agentVars
  <2>2. ctx' \in Seq(Message) /\ Answers(ctx')
    BY <2>1, CompactedFacts
  <2>3. Quiet
    BY <2>1 DEF Inductive, Settled
  <2>4. InFlight' = InFlight /\ InFlight \in Seq(Event) /\ \A i \in 1..Len(InFlight) : Idle(InFlight[i])
    <3>1. chan \in Seq(Event) /\ InFlight = chan
      BY <2>3, HistoryTypes, ConcatEmptySeq DEF Quiet, InFlight
    <3> QED BY <2>1, <2>3, <3>1 DEF Quiet, Idle, InFlight
  <2>5. Whole' = ctx'
    BY <2>2, <2>4, ReplayFacts DEF Whole
  <2>6. HistoryInSync'
    BY <2>1, <2>3 DEF Quiet, HistoryInSync
  <2>7. SavesSpeak'
    BY <2>4 DEF SavesSpeak, Idle
  <2>8. apc' \notin {"tools", "hook", "run"}
    BY <2>1, <2>3 DEF Quiet
  <2> QED BY <2>1, <2>2, <2>5, <2>6, <2>7, <2>8 DEF Faithful, GuardHolds
<1> QED BY <1>1, <1>2, <1>3, <1>4

LEMMA ReceiveFaithful ==
  ASSUME Inductive, Inductive', Faithful, RecvDisplay \/ RecvSave \/ RecvStrip
  PROVE  Faithful'
<1>1. /\ chan # <<>> /\ chan' = Tail(chan) /\ comp' = comp /\ cut' = cut
      /\ UNCHANGED <<apc, live, outbox, callNo, guard>>
  BY DEF RecvDisplay, RecvSave, RecvStrip, Receive, AgentRest
<1>2. /\ Head(chan) \in Event /\ ctx \in Seq(Message)
      /\ Head(chan) = chan[1] /\ 1 \in 1..Len(chan)
  <2>1. chan \in Seq(Event) /\ ctx \in Seq(Message)
    BY HistoryTypes
  <2> QED BY <1>1, <2>1
<1>3. ctx' = ApplyEvent(ctx, Head(chan))
  <2>1. CASE RecvDisplay
    <3>1. ctx' = ctx /\ Idle(Head(chan))
      BY <2>1 DEF RecvDisplay, Receive, Idle
    <3> QED BY <1>2, <3>1, ApplyEventFacts
  <2>2. CASE RecvSave
    BY <1>2, <2>2, ApplyEventFacts DEF RecvSave, Receive
  <2>3. CASE RecvStrip
    BY <1>2, <2>3, ApplyEventFacts DEF RecvStrip, Receive
  <2> QED BY <2>1, <2>2, <2>3
<1>4. /\ Whole' = Whole /\ Len(InFlight) \in Nat /\ Len(InFlight') = Len(InFlight) - 1
      /\ \A i \in 1..Len(InFlight') : InFlight'[i] = InFlight[i + 1]
  BY <1>1, <1>3, WholeReceived
<1>5. HistoryInSync' /\ GuardHolds'
  BY <1>1, <1>4 DEF Faithful, HistoryInSync, Whole, GuardHolds
<1>6. SavesSpeak'
  <2>1. ASSUME NEW i \in 1..Len(InFlight'), InFlight'[i].ev = "save"
        PROVE  InFlight'[i].msg.role \in {"assistant", "tool"}
    <3>1. i + 1 \in 1..Len(InFlight) /\ InFlight'[i] = InFlight[i + 1]
      BY <1>4
    <3> QED BY <2>1, <3>1 DEF Faithful, SavesSpeak
  <2> QED BY <2>1 DEF SavesSpeak
<1>7. comp' = "ready" => cut' \in CutPoints(ctx')
  <2> SUFFICES ASSUME comp = "ready" PROVE ctx' = ctx
    BY <1>1 DEF Faithful
  <2>1. Head(chan).ev = "output"
    BY <1>2 DEF Inductive, Settled, Quiet
  <2> QED BY <1>2, <1>3, <2>1, ApplyEventFacts DEF Idle
<1> QED BY <1>1, <1>4, <1>5, <1>6, <1>7 DEF Faithful

LEMMA VerdictFaithful ==
  ASSUME Inductive, Inductive', Faithful,
         RecvNeeds \/ RecvNeedsRefused \/ RecvDone \/ RecvDoneBlocked
  PROVE  Faithful'
<1>1. chan # <<>> /\ Terminal(Head(chan))
  BY DEF RecvNeeds, RecvNeedsRefused, RecvDone, RecvDoneBlocked, Receive, Terminal
<1>2. Whole = ctx /\ ctx \in Seq(Message)
  BY <1>1, WholeArrived, HistoryTypes
<1>3. CASE RecvDoneBlocked
  <2>1. Launch(ctx) /\ guard' = guard /\ comp' = comp
    BY <1>3 DEF RecvDoneBlocked
  <2>2. comp = "none"
    <3>1. 1 \in 1..Len(chan) /\ Head(chan) = chan[1]
      BY <1>1, HistoryTypes
    <3> QED BY <1>1, <3>1 DEF Inductive, Settled, Quiet, Terminal
  <2> HIDE DEF Launch
  <2> QED BY <1>2, <2>1, <2>2, LaunchFaithful DEF Faithful
<1>4. CASE RecvNeeds \/ RecvNeedsRefused \/ RecvDone
  <2>1. /\ chan' = <<>> /\ ctx' = ctx /\ UNCHANGED <<apc, live, outbox, callNo, guard, cut>>
        /\ comp' = "running" \/ comp' = comp
    BY <1>4 DEF RecvNeeds, RecvNeedsRefused, RecvDone, AgentRest
  <2>2. apc = "end" /\ outbox = <<>>
    <3>1. 1 \in 1..Len(chan) /\ Head(chan) = chan[1]
      BY <1>1, HistoryTypes
    <3> QED BY <1>1, <3>1 DEF Inductive, LastEvent
  <2>3. InFlight' = <<>> /\ Whole' = ctx'
    <3>1. InFlight' = <<>>
      BY <2>1, <2>2 DEF InFlight
    <3> QED BY <3>1, ReplayFew DEF Whole
  <2>4. HistoryInSync' /\ SavesSpeak'
    BY <2>1, <2>2, <2>3 DEF HistoryInSync, SavesSpeak
  <2>5. GuardHolds'
    BY <1>2, <2>1, <2>3 DEF Faithful, GuardHolds
  <2> QED BY <1>2, <2>1, <2>2, <2>3, <2>4, <2>5 DEF Faithful
<1> QED BY <1>3, <1>4

LEMMA WaitFaithful ==
  ASSUME Inductive, Inductive', Faithful,
         \/ RecvTimeout \/ RecvClosed \/ NoKey \/ KeyHelp \/ KeyCancels
         \/ KeyAbortsCompaction \/ FailedDraw
  PROVE  Faithful'
<1>1. /\ UNCHANGED <<ctx, chan, outbox, apc, live, callNo, guard>>
      /\ comp' = "none" \/ (comp' = comp /\ cut' = cut)
  BY DEF RecvTimeout, RecvClosed, NoKey, KeyHelp, KeyCancels, KeyAbortsCompaction,
         FailedDraw, agentVars
<1> QED BY <1>1, AsideFaithful DEF Faithful

\* The turn returns: what was in flight is dropped, and unless a draw failed
\* there was nothing in flight.
LEMMA ReturnFaithful ==
  ASSUME Inductive, Inductive', Faithful, Join \/ JoinExpires
  PROVE  Faithful'
<1>1. /\ tpc = "join" /\ chan' = <<>> /\ outbox' = <<>> /\ comp' = "none"
      /\ UNCHANGED <<live, callNo, guard, ctx>> /\ apc' \in {"none", "end"}
  BY DEF Join, JoinExpires, Return
<1>2. InFlight' = <<>> /\ Whole' = ctx
  <2>1. InFlight' = <<>>
    BY <1>1 DEF InFlight
  <2> QED BY <1>1, <2>1, ReplayFew DEF Whole
<1>3. DrawFails \/ Whole = ctx
  BY <1>1, WholeArrived DEF Inductive, Settled
<1>4. Answers(Whole') /\ GuardHolds'
  BY <1>1, <1>2, <1>3 DEF Faithful, Answers, GuardHolds
<1>5. SavesSpeak'
  BY <1>2 DEF SavesSpeak
<1> QED BY <1>1, <1>4, <1>5 DEF Faithful, HistoryInSync

\* Every step keeps the history faithful.
LEMMA NextFaithful == Inductive /\ Faithful /\ [Next]_vars => Faithful'
<1> SUFFICES ASSUME Inductive, Faithful, [Next]_vars PROVE Faithful'
  OBVIOUS
<1>1. Inductive'
  BY NextKeeps
<1>2. CASE TaskStep \/ LateOutput
  BY <1>1, <1>2, TaskFaithful
<1>3. CASE LoopStep
  <2>0. CASE Join \/ JoinExpires
    BY <1>1, <2>0, ReturnFaithful
  <2>1. CASE PollNothing \/ PollCompacted \/ PollRewriteFails \/ PollFailed
    BY <1>1, <2>1, PollFaithful
  <2>2. CASE RecvDisplay \/ RecvSave \/ RecvStrip
    BY <1>1, <2>2, ReceiveFaithful
  <2>3. CASE RecvNeeds \/ RecvNeedsRefused \/ RecvDone \/ RecvDoneBlocked
    BY <1>1, <2>3, VerdictFaithful
  <2>4. CASE \/ RecvTimeout \/ RecvClosed \/ NoKey \/ KeyHelp \/ KeyCancels
             \/ KeyAbortsCompaction \/ FailedDraw
    BY <1>1, <2>4, WaitFaithful
  <2> QED BY <1>3, <2>0, <2>1, <2>2, <2>3, <2>4 DEF LoopStep, InLoop
<1>4. CASE CompactionEnds
  <2>1. /\ UNCHANGED <<ctx, chan, outbox, apc, live, callNo, guard>>
        /\ comp = "running" /\ (comp' = "ready" => cut' \in CutPoints(snap))
    BY <1>4 DEF CompactionEnds, agentVars
  <2>2. snap = ctx
    BY <2>1 DEF Inductive, Settled
  <2> QED BY <1>1, <2>1, <2>2, AsideFaithful
<1>5. CASE Submit
  <2>1. tpc = "idle" /\ Launch(ctx) /\ guard' = guard /\ comp' = comp
    BY <1>5 DEF Submit
  <2>2. Quiet /\ comp = "none"
    BY <2>1 DEF Inductive, Settled
  <2>3. Whole = ctx /\ ctx \in Seq(Message)
    BY <2>2, WholeArrived, HistoryTypes
  <2> HIDE DEF Launch
  <2> QED BY <1>1, <2>1, <2>2, <2>3, LaunchFaithful DEF Faithful
<1>6. CASE PressKey
  BY <1>1, <1>6, AsideFaithful DEF PressKey, agentVars, Faithful
<1>7. CASE UNCHANGED vars
  BY <1>1, <1>7, AsideFaithful DEF vars, turnVars, agentVars, Faithful
<1>8. CASE StrayEnds
  BY <1>1, <1>8, AsideFaithful DEF StrayEnds, agentVars, Faithful
<1>9. CASE StrayRequests
  <2>1. /\ DrawFails
        /\ UNCHANGED <<ctx, chan, outbox, apc, live, callNo, comp, cut>>
    BY <1>9 DEF StrayRequests, turnVars, Inductive, Settled
  <2>2. Whole' = Whole /\ InFlight' = InFlight
    BY <2>1 DEF Whole, InFlight
  <2>3. HistoryInSync' /\ SavesSpeak'
    BY <2>1, <2>2 DEF Faithful, HistoryInSync, SavesSpeak, Whole
  <2> QED BY <2>1, <2>2, <2>3 DEF Faithful, GuardHolds, Answers
<1> QED BY <1>2, <1>3, <1>4, <1>5, <1>6, <1>7, <1>8, <1>9 DEF Next

LEMMA InitFaithful == TurnInit => Faithful
<1> SUFFICES ASSUME TurnInit PROVE Faithful
  OBVIOUS
<1>1. /\ apc = "none" /\ ctx = <<>> /\ chan = <<>> /\ outbox = <<>> /\ guard = <<>>
      /\ comp = "none"
  BY DEF TurnInit, AgentInit
<1>2. InFlight = <<>> /\ Whole = <<>>
  <2>1. InFlight = <<>>
    BY <1>1 DEF InFlight
  <2> QED BY <1>1, <2>1, ReplayFew DEF Whole
<1> QED BY <1>1, <1>2 DEF Faithful, HistoryInSync, Answers, Paired, SavesSpeak, GuardHolds,
              Extends

-----------------------------------------------------------------------------
(* What follows from the invariant.                                        *)

\* A history with its calls answered does not end in a call.
LEMMA PairedEndsAnswered ==
  ASSUME NEW s \in Seq(Message), Paired(s)
  PROVE  s # <<>> => ~IsCallMsg(s[Len(s)])
<1> SUFFICES ASSUME s # <<>>, IsCallMsg(s[Len(s)]) PROVE FALSE
  OBVIOUS
<1>1. Len(s) \in 1..Len(s) /\ Len(s) \in Nat
  OBVIOUS
<1> QED BY <1>1 DEF Paired

LEMMA NotedParts ==
  ASSUME NEW s \in Seq(Message)
  PROVE  /\ Noted(s) \in Seq(Message) /\ Len(Noted(s)) = Len(s)
         /\ \A i \in 1..Len(s) : Noted(s)[i] = NoteOf(s[i])
<1>1. Noted(s) \in Seq(Message) /\ Len(Noted(s)) = Len(s)
  BY StripSeenParts DEF Noted
<1>2. ASSUME NEW i \in 1..Len(s) PROVE Noted(s)[i] = NoteOf(s[i])
  <2>1. s[i] \in Message /\ i \in DOMAIN s
    OBVIOUS
  <2>2. Noted(s)[i] = IF s[i].data = "image" /\ CallId(s[i]) \in Images(s)
                      THEN [s[i] EXCEPT !.data = "note"] ELSE s[i]
    BY <2>1 DEF Noted, StripSeen
  <2>3. s[i].data = "image" => CallId(s[i]) \in Images(s)
    BY <2>1 DEF Images
  <2>4. s[i].data # "image" => NoteOf(s[i]) = s[i]
    BY <2>1 DEF NoteOf, Message
  <2> QED BY <2>2, <2>3, <2>4 DEF NoteOf
<1> QED BY <1>1, <1>2

\* The relation of the invariant is the one of the guard.
LEMMA ExtendsIsPrefix ==
  ASSUME NEW s \in Seq(Message), NEW t \in Seq(Message), Extends(s, t)
  PROVE  IsPrefix(Noted(s), Noted(t))
<1> DEFINE a == Noted(s)
           b == Noted(t)
<1>1. /\ a \in Seq(Message) /\ b \in Seq(Message) /\ Len(a) = Len(s) /\ Len(b) = Len(t)
      /\ Len(s) \in Nat /\ Len(t) \in Nat /\ Len(s) <= Len(t)
  BY NotedParts DEF Extends
<1>2. \A i \in 1..Len(a) : a[i] = b[i]
  BY NotedParts DEF Extends
<1> HIDE DEF a, b
<1>3. SubSeq(a, 1, Len(a)) = SubSeq(b, 1, Len(a))
  BY <1>1, <1>2
<1>4. IsPrefix(a, b)
  BY <1>1, <1>3 DEF IsPrefix
<1> QED BY <1>4 DEF a, b

\* An image is in the task's copy only until the answer after its tool call.
Seen ==
  StripImages /\ responses > 0 /\ apc \notin {"none", "end"} =>
    \A i \in 1..Len(live) :
      live[i].data = "image" => live[i].task = launches /\ live[i].resp = responses

LEMMA SeenKept ==
  ASSUME Seen, UNCHANGED <<live, launches, responses>>,
         apc' \in {"none", "end"} \/ apc \notin {"none", "end"}
  PROVE  Seen'
BY DEF Seen

LEMMA RecordSeen ==
  ASSUME Inductive, Seen, NEW before, NEW callData \in Contents, NEW resultData \in Contents,
         callData # "image", apc \notin {"none", "end"}, Record(before, callData, resultData),
         UNCHANGED <<launches, responses>>
  PROVE  Seen'
<1> DEFINE c == CallMsg(callData)
           r == ResultMsg(resultData)
<1>1. c \in Message /\ r \in Message /\ live \in Seq(Message)
  BY HistoryTypes, MsgType DEF CallMsg, ResultMsg
<1>2. c.data # "image" /\ r.task = launches /\ r.resp = responses
  BY DEF CallMsg, ResultMsg, Msg
<1>3. live' = live \o <<c, r>>
  BY DEF Record
<1> HIDE DEF c, r
<1>4. /\ Len(live') = Len(live) + 2 /\ Len(live) \in Nat
      /\ \A i \in 1..Len(live) : live'[i] = live[i]
      /\ live'[Len(live) + 1] = c /\ live'[Len(live) + 2] = r
  BY <1>1, <1>3
<1> SUFFICES ASSUME StripImages, responses > 0, NEW i \in 1..Len(live'), live'[i].data = "image"
             PROVE  live'[i].task = launches /\ live'[i].resp = responses
  BY DEF Seen
<1>5. CASE i \in 1..Len(live)
  BY <1>4, <1>5 DEF Seen
<1>6. CASE i \notin 1..Len(live)
  <2>1. i = Len(live) + 1 \/ i = Len(live) + 2
    BY <1>4, <1>6
  <2> QED BY <1>2, <1>4, <2>1
<1> QED BY <1>5, <1>6

LEMMA AgentSeen ==
  ASSUME Inductive, Seen, AgentStep
  PROVE  Seen'
<1>1. CASE Send
  BY <1>1, SeenKept DEF Send, Seen
<1>2. CASE \E r \in Replies, full \in BOOLEAN : Respond(r, full)
  <2> PICK r \in Replies, full \in BOOLEAN : Respond(r, full)
    BY <1>2
  <2>1. /\ live' = StripSeen(live, IF StripImages THEN Images(live) ELSE {})
        /\ live \in Seq(Message)
    BY HistoryTypes DEF Respond
  <2> SUFFICES ASSUME StripImages, NEW i \in 1..Len(live'), live'[i].data = "image"
               PROVE  FALSE
    BY DEF Seen
  <2>2. live' = StripSeen(live, Images(live)) /\ i \in 1..Len(live) /\ Len(live) \in Nat
    BY <2>1, StripSeenType
  <2>3. CallId(live[i]) \notin Images(live) /\ live'[i] = live[i]
    BY <2>1, <2>2, StripSeenParts
  <2> QED BY <2>1, <2>2, <2>3 DEF Images
<1>3. CASE ActivateSkill \/ VetoCall
  <2>1. /\ \E before : Record(before, "none", "none")
        /\ apc \notin {"none", "end"} /\ UNCHANGED <<launches, responses>>
    BY <1>3 DEF ActivateSkill, VetoCall, At
  <2> QED BY <2>1, RecordSeen
<1>4. CASE \E image, late \in BOOLEAN : FinishTool(image, late)
  <2> PICK image \in BOOLEAN, late \in BOOLEAN : FinishTool(image, late)
    BY <1>4
  <2>1. /\ Record(<<>>, IF first /\ reply.text THEN "text" ELSE "none",
                  IF image THEN "image" ELSE "none")
        /\ apc \notin {"none", "end"} /\ UNCHANGED <<launches, responses>>
    BY DEF FinishTool, At
  <2> HIDE DEF Record
  <2> QED BY <2>1, RecordSeen
<1>5. CASE \/ StopCancelled \/ StopAtThreshold \/ Request \/ Backoff
           \/ \E empty \in BOOLEAN : Retry(empty)
           \/ \E e \in {Done("aborted"), Done("error"), Needs("overflow")} : StreamFails(e)
           \/ CancelBeforeCall \/ RunPreToolHooks \/ StartTool \/ Panic
  <2>1. UNCHANGED <<live, launches, responses>> /\ apc \notin {"none", "end"}
    BY <1>5, RetryDropsNothing
       DEF StopCancelled, StopAtThreshold, Request, Retry, Backoff, StreamFails,
           CancelBeforeCall, RunPreToolHooks, StartTool, Panic, At
  <2> QED BY <2>1, SeenKept
<1> QED BY <1>1, <1>2, <1>3, <1>4, <1>5 DEF AgentStep, OwnStep, Answered

LEMMA LaunchSeen ==
  ASSUME NEW base, Launch(base)
  PROVE  Seen'
BY DEF Launch, Seen

LEMMA NextSeen == Inductive /\ Seen /\ [Next]_vars => Seen'
<1> SUFFICES ASSUME Inductive, Seen, [Next]_vars PROVE Seen'
  OBVIOUS
<1>1. CASE TaskStep
  BY <1>1, AgentSeen DEF TaskStep
<1>2. CASE PollCompacted \/ RecvDoneBlocked \/ Submit
  <2>1. \E base : Launch(base)
    BY <1>2 DEF PollCompacted, RecvDoneBlocked, Submit
  <2> QED BY <2>1, LaunchSeen
<1>3. CASE \/ LateOutput \/ CompactionEnds \/ PressKey \/ UNCHANGED vars
           \/ PollNothing \/ PollRewriteFails \/ PollFailed
           \/ RecvDisplay \/ RecvSave \/ RecvStrip \/ RecvNeeds \/ RecvNeedsRefused
           \/ RecvDone \/ RecvTimeout \/ RecvClosed
           \/ KeyAbortsCompaction \/ KeyCancels \/ KeyHelp \/ NoKey
           \/ FailedDraw \/ Join \/ StrayRequests \/ StrayEnds
  <2>1. UNCHANGED <<apc, live, launches, responses>>
    BY <1>3 DEF FailedDraw, Return, StrayRequests, StrayEnds, LateOutput, ForwardLate, CompactionEnds, PressKey, vars, agentVars,
         PollNothing, PollRewriteFails, PollFailed, RecvDisplay, RecvSave, RecvStrip,
         RecvNeeds, RecvNeedsRefused, RecvDone, RecvTimeout, RecvClosed, AgentRest,
         KeyAbortsCompaction, KeyCancels, KeyHelp, NoKey, Join
  <2> QED BY <2>1 DEF Seen
<1>4. CASE JoinExpires
  BY <1>4 DEF JoinExpires, Seen
<1> QED BY <1>1, <1>2, <1>3, <1>4 DEF Next, LoopStep, InLoop

-----------------------------------------------------------------------------
(* The refinement of module Conversation.                                  *)

\* What Conversation sees of a history.
Skeleton(s) == [i \in DOMAIN s |-> [role |-> s[i].role, id |-> CallId(s[i])]]

LEMMA SkeletonFacts ==
  ASSUME NEW s \in Seq(Message)
  PROVE  /\ DOMAIN Skeleton(s) = 1..Len(s) /\ Len(Skeleton(s)) = Len(s) /\ Len(s) \in Nat
         /\ Skeleton(s) \in Seq([role : Roles, id : Nat \X Nat \X Nat])
         /\ \A i \in 1..Len(s) : Skeleton(s)[i] = [role |-> s[i].role, id |-> CallId(s[i])]
<1>1. \A i \in 1..Len(s) : s[i].role \in Roles /\ CallId(s[i]) \in Nat \X Nat \X Nat
  <2>1. \A i \in 1..Len(s) : s[i] \in Message
    OBVIOUS
  <2> QED BY <2>1 DEF CallId, Message
<1>2. DOMAIN s = 1..Len(s) /\ Len(s) \in Nat
  OBVIOUS
<1> QED BY <1>1, <1>2 DEF Skeleton

LEMMA SkeletonAppend ==
  ASSUME NEW s \in Seq(Message), NEW m \in Message
  PROVE  /\ Skeleton(Append(s, m)) = Append(Skeleton(s), [role |-> m.role, id |-> CallId(m)])
         /\ Skeleton(Append(s, m)) # <<>>
         /\ Skeleton(Append(s, m))[Len(Skeleton(Append(s, m)))]
              = [role |-> m.role, id |-> CallId(m)]
<1> DEFINE k == [role |-> m.role, id |-> CallId(m)]
           t == Append(s, m)
<1>1. /\ t \in Seq(Message) /\ Len(t) = Len(s) + 1 /\ Len(s) \in Nat
      /\ \A i \in 1..Len(s) : t[i] = s[i]
      /\ t[Len(s) + 1] = m
  OBVIOUS
<1> HIDE DEF t
<1>2. Len(Skeleton(t)) = Len(t) /\ Skeleton(t) \in Seq([role : Roles, id : Nat \X Nat \X Nat])
  BY <1>1, SkeletonFacts
<1>3. Len(Skeleton(s)) = Len(s) /\ Skeleton(s) \in Seq([role : Roles, id : Nat \X Nat \X Nat])
  BY SkeletonFacts
<1>4. k \in [role : Roles, id : Nat \X Nat \X Nat]
  BY DEF CallId, Message
<1>5. ASSUME NEW i \in 1..Len(s) PROVE Skeleton(t)[i] = Skeleton(s)[i]
  <2>1. i \in 1..Len(t) /\ t[i] = s[i]
    BY <1>1
  <2>2. Skeleton(t)[i] = [role |-> t[i].role, id |-> CallId(t[i])]
    BY <1>1, <2>1, SkeletonFacts
  <2>3. Skeleton(s)[i] = [role |-> s[i].role, id |-> CallId(s[i])]
    BY SkeletonFacts
  <2> QED BY <2>1, <2>2, <2>3
<1>6. Skeleton(t)[Len(s) + 1] = k
  <2>1. Len(s) + 1 \in 1..Len(t)
    BY <1>1
  <2>2. Skeleton(t)[Len(s) + 1]
        = [role |-> t[Len(s) + 1].role, id |-> CallId(t[Len(s) + 1])]
    BY <1>1, <2>1, SkeletonFacts
  <2> QED BY <1>1, <2>2
<1> HIDE DEF k
<1>7. Skeleton(t) = Append(Skeleton(s), k)
  <2> DEFINE x == Skeleton(s)
             y == Skeleton(t)
             Short == [role : Roles, id : Nat \X Nat \X Nat]
  <2>1. /\ x \in Seq(Short) /\ y \in Seq(Short) /\ k \in Short
        /\ Len(y) = Len(x) + 1 /\ y[Len(x) + 1] = k /\ \A i \in 1..Len(x) : y[i] = x[i]
    BY <1>1, <1>2, <1>3, <1>4, <1>5, <1>6
  <2> HIDE DEF x, y, Short
  <2>2. y = Append(x, k)
    BY <2>1
  <2> QED BY <2>2 DEF x, y
<1>8. Skeleton(t) # <<>> /\ Skeleton(t)[Len(Skeleton(t))] = k
  BY <1>1, <1>2, <1>6
<1> QED BY <1>7, <1>8 DEF t, k

\* A history ends in an unanswered call, as Conversation says it.
LEMMA AwaitsCall ==
  ASSUME NEW s \in Seq(Message)
  PROVE  Talk!Awaits(Skeleton(s)) <=> s # <<>> /\ IsCallMsg(s[Len(s)])
<1>1. /\ Len(Skeleton(s)) = Len(s) /\ Len(s) \in Nat
      /\ \A i \in 1..Len(s) : Skeleton(s)[i] = [role |-> s[i].role, id |-> CallId(s[i])]
      /\ Skeleton(s) \in Seq([role : Roles, id : Nat \X Nat \X Nat])
  BY SkeletonFacts
<1>2. Skeleton(s) # <<>> <=> Len(s) # 0
  BY <1>1
<1>3. s # <<>> <=> Len(s) # 0
  OBVIOUS
<1> HIDE DEF Skeleton
<1>4. CASE Len(s) # 0
  <2>1. Skeleton(s)[Len(s)] = [role |-> s[Len(s)].role, id |-> CallId(s[Len(s)])]
    BY <1>1, <1>4
  <2>2. CallId(s[Len(s)])[3] = s[Len(s)].call
    BY DEF CallId
  <2> QED BY <1>1, <1>2, <1>3, <1>4, <2>1, <2>2 DEF Talk!Awaits, Talk!IsCall, IsCallMsg
<1>5. CASE Len(s) = 0
  BY <1>2, <1>3, <1>5 DEF Talk!Awaits
<1> QED BY <1>1, <1>4, <1>5

\* What the module instance calls its history is the skeleton of the session.
LEMMA TalkSteps ==
  /\ Talk!Begin <=>
       /\ ~(tpc # "idle") /\ ~Talk!Awaits(Skeleton(ctx))
       /\ (tpc' # "idle") = TRUE
       /\ Skeleton(ctx') # <<>>
       /\ Skeleton(ctx')[Len(Skeleton(ctx'))].role = "user"
       /\ Skeleton(ctx') = Append(Skeleton(ctx), Skeleton(ctx')[Len(Skeleton(ctx'))])
  /\ Talk!Speak <=>
       /\ tpc # "idle" /\ ~Talk!Awaits(Skeleton(ctx))
       /\ Skeleton(ctx') # <<>>
       /\ Skeleton(ctx')[Len(Skeleton(ctx'))].role \in {"user", "assistant"}
       /\ Skeleton(ctx') = Append(Skeleton(ctx), Skeleton(ctx')[Len(Skeleton(ctx'))])
       /\ (tpc' # "idle") = (tpc # "idle")
  /\ Talk!Answer <=>
       /\ tpc # "idle" /\ Talk!Awaits(Skeleton(ctx))
       /\ Skeleton(ctx') = Append(Skeleton(ctx),
            [role |-> "tool", id |-> Skeleton(ctx)[Len(Skeleton(ctx))].id])
       /\ (tpc' # "idle") = (tpc # "idle")
BY DEF Talk!Begin, Talk!Speak, Talk!Answer, Skeleton

\* Steps the conversation does not notice.
LEMMA Unnoticed ==
  ASSUME Skeleton(ctx') = Skeleton(ctx), (tpc' # "idle") <=> (tpc # "idle")
  PROVE  [Talk!Next]_<<Skeleton(ctx), tpc # "idle">>
OBVIOUS

\* The session grows by one message of the user.
LEMMA InstructionTalks ==
  ASSUME ~DrawFails, Inductive, Faithful, Launch(ctx), Whole = ctx, tpc' = "poll"
  PROVE  IF tpc = "idle" THEN Talk!Begin ELSE Talk!Speak
<1> DEFINE user == [role |-> "user", task |-> launches + 1, resp |-> 0, call |-> 0,
                    data |-> "none"]
<1>1. user \in Message /\ user.role = "user" /\ ctx \in Seq(Message)
  BY HistoryTypes DEF Message
<1>2. ctx' = Append(ctx, user)
  BY DEF Launch
<1> HIDE DEF user
<1>3. ~Talk!Awaits(Skeleton(ctx))
  BY <1>1, PairedEndsAnswered, AwaitsCall DEF Faithful, Answers
<1>4. /\ Skeleton(ctx') = Append(Skeleton(ctx), [role |-> user.role, id |-> CallId(user)])
      /\ Skeleton(ctx') # <<>>
      /\ Skeleton(ctx')[Len(Skeleton(ctx'))] = [role |-> user.role, id |-> CallId(user)]
  BY <1>1, <1>2, SkeletonAppend
<1>5. [role |-> user.role, id |-> CallId(user)].role = "user"
  BY <1>1
<1> HIDE DEF Skeleton
<1> QED BY <1>3, <1>4, <1>5, TalkSteps

\* A message arrives: the result of the call the session ends with, if it
\* ends with one, and no result otherwise.
LEMMA SaveTalks ==
  ASSUME ~DrawFails, Inductive, Inductive', Faithful, RecvSave
  PROVE  Talk!Speak \/ Talk!Answer
<1> DEFINE m == Head(chan).msg
           n == Len(ctx)
<1>1. /\ chan # <<>> /\ chan' = Tail(chan) /\ outbox' = outbox /\ Head(chan).ev = "save"
      /\ ctx' = Append(ctx, m) /\ tpc = "recv" /\ tpc' = "keys"
  BY DEF RecvSave, Receive, AgentRest
<1>2. Head(chan) \in Event /\ ctx \in Seq(Message) /\ n \in Nat /\ m \in Message
  <2>1. chan \in Seq(Event) /\ ctx \in Seq(Message)
    BY HistoryTypes
  <2> QED BY <1>1, <2>1, EventFields
<1>3. ctx' = ApplyEvent(ctx, Head(chan))
  BY <1>1, <1>2, ApplyEventFacts
<1>4. /\ Whole' = Whole /\ Head(chan) = InFlight[1] /\ 1 \in 1..Len(InFlight)
  BY <1>1, <1>3, WholeReceived
<1>5. m.role \in {"assistant", "tool"}
  BY <1>1, <1>4 DEF Faithful, SavesSpeak
<1>6. Whole \in Seq(Message) /\ Len(Whole) \in Nat
  BY HistoryTypes
<1>7. Extends(ctx', Whole)
  <2>1. ctx' \in Seq(Message) /\ InFlight' \in Seq(Event)
    BY DEF Inductive, Typed, TypeOK, AgentTypeOK, InFlight
  <2>2. Extends(ctx', Replay(ctx', InFlight'))
    BY <2>1, ReplayFacts
  <2> QED BY <1>4, <2>2 DEF Whole
<1> HIDE DEF m, n
<1>8. /\ Len(ctx') = n + 1 /\ ctx'[n + 1] = m
      /\ \A i \in 1..n : ctx'[i] = ctx[i]
  BY <1>1, <1>2 DEF n
<1>9. n + 1 <= Len(Whole) /\ n + 1 \in 1..Len(Whole) /\ NoteOf(Whole[n + 1]) = NoteOf(m)
  BY <1>2, <1>6, <1>7, <1>8 DEF Extends
<1>10. n > 0 => n \in 1..Len(Whole) /\ NoteOf(Whole[n]) = NoteOf(ctx[n])
  BY <1>2, <1>6, <1>7, <1>8, <1>9 DEF Extends
<1>11. Whole[n + 1].role = m.role /\ CallId(Whole[n + 1]) = CallId(m)
  <2>1. Whole[n + 1] \in Message
    BY <1>6, <1>9
  <2> QED BY <1>2, <1>9, <2>1, NoteOfFacts
<1>12. n > 0 => (IsCallMsg(Whole[n]) <=> IsCallMsg(ctx[n])) /\ CallId(Whole[n]) = CallId(ctx[n])
  <2> SUFFICES ASSUME n > 0
               PROVE  (IsCallMsg(Whole[n]) <=> IsCallMsg(ctx[n])) /\ CallId(Whole[n]) = CallId(ctx[n])
    OBVIOUS
  <2>1. Whole[n] \in Message /\ ctx[n] \in Message
    BY <1>2, <1>6, <1>10 DEF n
  <2> QED BY <1>10, <2>1, NoteOfFacts
<1>13. /\ Skeleton(ctx') = Append(Skeleton(ctx), [role |-> m.role, id |-> CallId(m)])
       /\ Skeleton(ctx') # <<>>
       /\ Skeleton(ctx')[Len(Skeleton(ctx'))] = [role |-> m.role, id |-> CallId(m)]
  BY <1>1, <1>2, SkeletonAppend DEF m
<1>14. Talk!Awaits(Skeleton(ctx)) <=> n > 0 /\ IsCallMsg(ctx[n])
  BY <1>2, AwaitsCall DEF n
<1>15. PairedAt(Whole, n + 1) /\ (n > 0 => PairedAt(Whole, n))
  BY <1>9, <1>10 DEF Faithful, Answers, Paired, PairedAt
<1>16. CASE n > 0 /\ IsCallMsg(ctx[n])
  <2>1. m.role = "tool" /\ CallId(m) = CallId(ctx[n])
    BY <1>2, <1>11, <1>12, <1>15, <1>16 DEF PairedAt
  <2>0. /\ Len(Skeleton(ctx)) = Len(ctx)
        /\ \A i \in 1..Len(ctx) : Skeleton(ctx)[i] = [role |-> ctx[i].role, id |-> CallId(ctx[i])]
    BY <1>2, SkeletonFacts
  <2> HIDE DEF Skeleton
  <2>2. Skeleton(ctx)[Len(Skeleton(ctx))] = [role |-> ctx[n].role, id |-> CallId(ctx[n])]
    <3>1. n = Len(ctx) /\ n \in 1..Len(ctx)
      BY <1>2, <1>16 DEF n
    <3> QED BY <2>0, <3>1
  <2>3. Skeleton(ctx)[Len(Skeleton(ctx))].id = CallId(m)
    BY <2>1, <2>2
  <2> QED BY <1>1, <1>13, <1>14, <1>16, <2>1, <2>3, TalkSteps
<1>17. CASE ~(n > 0 /\ IsCallMsg(ctx[n]))
  <2>1. m.role = "assistant"
    BY <1>2, <1>5, <1>11, <1>12, <1>15, <1>17 DEF PairedAt
  <2> HIDE DEF Skeleton
  <2>2. Skeleton(ctx')[Len(Skeleton(ctx'))].role = "assistant"
    BY <1>13, <2>1
  <2> QED BY <1>1, <1>13, <1>14, <1>17, <2>2, TalkSteps
<1> QED BY <1>16, <1>17

\* What Summarise asks of the histories before and after it.
SummaryOf(h, g) ==
  \E from \in 2..(Len(h) + 1) :
    LET kept == SubSeq(h, from, Len(h))
        n == Len(kept) + 1
    IN /\ kept # <<>> => kept[1].role # "tool"
       /\ Len(g) \in {n, n + 1}
       /\ g[1].role = "summary"
       /\ SubSeq(g, 2, n) = kept
       /\ Len(g) = n + 1 => g[n + 1].role = "user"

LEMMA TalkSummarises ==
  ASSUME tpc # "idle", tpc' # "idle", ~Talk!Awaits(Skeleton(ctx)),
         SummaryOf(Skeleton(ctx), Skeleton(ctx'))
  PROVE  Talk!Summarise
BY DEF Talk!Summarise, SummaryOf, Skeleton

\* A summary, then what was kept from a cut point on with its images or
\* without, then the next instruction or nothing.
LEMMA SummaryTalks ==
  ASSUME NEW s \in Seq(Message), NEW k \in CutPoints(s), NEW t \in Seq(Message),
         Len(t) \in {Len(s) - k + 2, Len(s) - k + 3},
         t[1].role = "summary",
         \A i \in 1..(Len(s) - k + 1) : NoteOf(t[i + 1]) = NoteOf(s[k + i - 1]),
         Len(t) = Len(s) - k + 3 => t[Len(t)].role = "user"
  PROVE  SummaryOf(Skeleton(s), Skeleton(t))
<1> DEFINE h == Skeleton(s)
           g == Skeleton(t)
           kept == SubSeq(h, k, Len(h))
           n == Len(s) - k + 2
           Short == [role : Roles, id : Nat \X Nat \X Nat]
<1>1. /\ Len(s) \in Nat /\ k \in 2..(Len(s) + 1) /\ k \in Nat
      /\ k <= Len(s) => s[k].role # "tool"
  BY DEF CutPoints
<1>2. Len(h) = Len(s) /\ h \in Seq(Short)
  BY SkeletonFacts
<1>3. Len(g) = Len(t) /\ g \in Seq(Short) /\ Len(t) \in Nat
  BY SkeletonFacts
<1>13. \A i \in 1..Len(s) : h[i] = [role |-> s[i].role, id |-> CallId(s[i])]
  BY SkeletonFacts
<1>14. \A i \in 1..Len(t) : g[i] = [role |-> t[i].role, id |-> CallId(t[i])]
  BY SkeletonFacts
<1> HIDE DEF h, g, Short
<1>4. /\ n \in Nat /\ n >= 1 /\ Len(kept) = n - 1 /\ Len(g) \in {n, n + 1}
      /\ \A i \in 1..(n - 1) : kept[i] = h[k + i - 1]
  <2>1. n \in Nat /\ n >= 1 /\ Len(g) \in {n, n + 1}
    BY <1>1, <1>3
  <2>2. k \in 1..(Len(h) + 1) /\ Len(h) \in Nat /\ n - 1 = Len(h) - k + 1
    BY <1>1, <1>2
  <2> HIDE DEF n
  <2>3. Len(kept) = Len(h) - k + 1 /\ \A i \in 1..(Len(h) - k + 1) : kept[i] = h[k + i - 1]
    BY <1>2, <2>2
  <2> QED BY <2>1, <2>2, <2>3
<1>5. g[1].role = "summary"
  <2>1. 1 \in 1..Len(t)
    BY <1>3, <1>4
  <2>2. g[1] = [role |-> t[1].role, id |-> CallId(t[1])]
    BY <1>14, <2>1
  <2> QED BY <2>2
<1>6. ASSUME NEW i \in 1..(n - 1) PROVE g[i + 1] = kept[i]
  <2>1. k + i - 1 \in 1..Len(s) /\ i + 1 \in 1..Len(t) /\ i \in 1..(Len(s) - k + 1)
    <3>1. Len(s) \in Nat /\ k \in Nat /\ k >= 2 /\ Len(t) = Len(g) /\ Len(t) \in Nat
      BY <1>1, <1>3
    <3>2. Len(t) >= n
      BY <1>4, <3>1
    <3> QED BY <3>1, <3>2
  <2>2. t[i + 1] \in Message /\ s[k + i - 1] \in Message
    BY <2>1
  <2>3. NoteOf(t[i + 1]) = NoteOf(s[k + i - 1])
    BY <2>1
  <2>4. t[i + 1].role = s[k + i - 1].role /\ CallId(t[i + 1]) = CallId(s[k + i - 1])
    BY <2>2, <2>3, NoteOfFacts
  <2>5. g[i + 1] = [role |-> t[i + 1].role, id |-> CallId(t[i + 1])]
    BY <1>14, <2>1
  <2>6. kept[i] = [role |-> s[k + i - 1].role, id |-> CallId(s[k + i - 1])]
    BY <1>13, <1>4, <2>1
  <2> QED BY <2>4, <2>5, <2>6
<1>8. kept \in Seq(Short)
  BY <1>1, <1>2
<1>7. kept # <<>> => kept[1].role # "tool"
  <2> SUFFICES ASSUME kept # <<>> PROVE kept[1].role # "tool"
    OBVIOUS
  <2>1. k <= Len(s) /\ k \in 1..Len(s) /\ 1 \in 1..(n - 1)
    <3> HIDE DEF kept
    <3>1. Len(kept) \in Nat /\ Len(kept) # 0
      BY <1>8
    <3>2. n - 1 \in Nat /\ n - 1 # 0
      BY <1>4, <3>1
    <3> QED BY <1>1, <3>2
  <2>2. kept[1] = h[k]
    BY <1>1, <1>4, <2>1
  <2>3. h[k] = [role |-> s[k].role, id |-> CallId(s[k])]
    BY <1>13, <2>1
  <2> QED BY <1>1, <2>1, <2>2, <2>3
<1>9. Len(g) = n + 1 => g[n + 1].role = "user"
  <2> SUFFICES ASSUME Len(g) = n + 1 PROVE g[n + 1].role = "user"
    OBVIOUS
  <2>1. Len(t) = Len(s) - k + 3 /\ n + 1 \in 1..Len(t) /\ Len(t) = n + 1
    <3>1. Len(t) = n + 1 /\ n >= 1 /\ n \in Nat
      BY <1>3, <1>4
    <3>2. Len(s) \in Nat /\ k \in Nat
      BY <1>1
    <3> QED BY <3>1, <3>2
  <2>2. g[n + 1] = [role |-> t[n + 1].role, id |-> CallId(t[n + 1])]
    BY <1>14, <2>1
  <2> QED BY <2>1, <2>2
<1> HIDE DEF kept, n
<1>10. SubSeq(g, 2, n) = kept
  <2>1. /\ Len(SubSeq(g, 2, n)) = n - 1
        /\ \A i \in 1..(n - 1) : SubSeq(g, 2, n)[i] = g[i + 1]
    BY <1>3, <1>4
  <2>2. SubSeq(g, 2, n) \in Seq(Short)
    BY <1>3, <1>4
  <2> QED BY <1>4, <1>6, <1>8, <2>1, <2>2
<1>11. k \in 2..(Len(h) + 1) /\ n = Len(kept) + 1
  BY <1>1, <1>2, <1>4
<1> QED BY <1>4, <1>5, <1>7, <1>9, <1>10, <1>11 DEF SummaryOf, kept, h, g

\* Taking the summary for the history before the cut, with or without going on.
LEMMA CompactionTalks ==
  ASSUME ~DrawFails, Inductive, Inductive', Faithful,
         tpc = "poll", tpc' = "recv", comp = "ready",
         NEW kept \in Seq(Message), Len(kept) = Len(ctx) - cut + 1,
         \A i \in 1..Len(kept) : NoteOf(kept[i]) = NoteOf(ctx[cut + i - 1]),
         \/ ctx' = <<Msg("summary", 0, 0, "none")>> \o kept
         \/ \E user \in Message :
              user.role = "user" /\ ctx' = Append(<<Msg("summary", 0, 0, "none")>> \o kept, user)
  PROVE  Talk!Summarise
<1> DEFINE sum == Msg("summary", 0, 0, "none")
           t == <<sum>> \o kept
           k == cut
<1>1. ctx = Whole /\ ctx \in Seq(Message) /\ sum \in Message
  BY HistoryTypes, CompactedFacts
<1>2. k \in CutPoints(ctx) /\ Len(ctx) \in Nat /\ k \in Nat
  BY <1>1 DEF Faithful, CutPoints
<1>3. ~Talk!Awaits(Skeleton(ctx))
  BY <1>1, PairedEndsAnswered, AwaitsCall DEF Faithful, Answers
<1>4. sum.role = "summary"
  BY DEF Msg
<1> HIDE DEF sum
<1>5. /\ t \in Seq(Message) /\ Len(t) = Len(kept) + 1 /\ t[1] = sum /\ Len(kept) \in Nat
      /\ \A i \in 1..Len(kept) : t[i + 1] = kept[i]
  <2>1. <<sum>> \in Seq(Message) /\ Len(<<sum>>) = 1 /\ <<sum>>[1] = sum /\ Len(kept) \in Nat
    BY <1>1
  <2>2. t \in Seq(Message) /\ Len(t) = Len(kept) + 1
    BY <2>1, ConcatProperties
  <2> QED BY <2>1, <2>2, ConcatProperties
<1> HIDE DEF t
<1>6. /\ ctx' \in Seq(Message) /\ ctx'[1] = sum
      /\ \A i \in 1..Len(kept) : ctx'[i + 1] = kept[i]
      /\ Len(ctx') \in {Len(kept) + 1, Len(kept) + 2}
      /\ Len(ctx') = Len(kept) + 2 => ctx'[Len(ctx')].role = "user"
  <2>1. CASE ctx' = t
    BY <1>5, <2>1
  <2>2. ASSUME NEW user \in Message, user.role = "user", ctx' = Append(t, user)
        PROVE  <1>6
    <3>1. /\ Len(ctx') = Len(t) + 1 /\ \A i \in 1..Len(t) : ctx'[i] = t[i]
          /\ ctx'[Len(t) + 1] = user /\ ctx' \in Seq(Message)
      BY <1>5, <2>2
    <3> QED BY <1>5, <2>2, <3>1
  <2> QED BY <2>1, <2>2 DEF t, sum
<1> HIDE DEF k
<1>7. SummaryOf(Skeleton(ctx), Skeleton(ctx'))
  <2>1. Len(kept) = Len(ctx) - k + 1
    BY DEF k
  <2>2. \A i \in 1..(Len(ctx) - k + 1) : NoteOf(ctx'[i + 1]) = NoteOf(ctx[k + i - 1])
    BY <1>6, <2>1 DEF k
  <2>3. Len(ctx') \in {Len(ctx) - k + 2, Len(ctx) - k + 3}
    BY <1>2, <1>6, <2>1
  <2>4. Len(ctx') = Len(ctx) - k + 3 => ctx'[Len(ctx')].role = "user"
    BY <1>2, <1>6, <2>1
  <2>5. ctx'[1].role = "summary"
    BY <1>4, <1>6
  <2> QED BY <1>1, <1>2, <1>6, <2>2, <2>3, <2>4, <2>5, SummaryTalks
<1> QED BY <1>3, <1>7, TalkSummarises

LEMMA PollTalks ==
  ASSUME ~DrawFails, Inductive, Inductive', Faithful, PollCompacted \/ PollRewriteFails
  PROVE  Talk!Summarise
<1> DEFINE kept == SubSeq(ctx, cut, Len(ctx))
           noted == StripSeen(kept, Images(kept))
<1>1. comp = "ready" /\ tpc = "poll" /\ tpc' = "recv"
  BY DEF PollCompacted, PollRewriteFails
<1>2. ctx \in Seq(Message) /\ cut \in CutPoints(ctx)
  BY <1>1, HistoryTypes DEF Faithful
<1>3. Len(ctx) \in Nat /\ cut \in Nat /\ cut \in 2..(Len(ctx) + 1)
  BY <1>2 DEF CutPoints
<1>4. /\ kept \in Seq(Message) /\ Len(kept) = Len(ctx) - cut + 1
      /\ \A i \in 1..Len(kept) : kept[i] = ctx[cut + i - 1]
  BY <1>2, <1>3
<1> HIDE DEF kept
<1>5. /\ noted \in Seq(Message) /\ Len(noted) = Len(kept)
      /\ \A i \in 1..Len(kept) : NoteOf(noted[i]) = NoteOf(kept[i])
  BY <1>4, StripSeenParts
<1>6. CASE PollRewriteFails
  <2>1. ctx' = <<Msg("summary", 0, 0, "none")>> \o kept
    BY <1>6 DEF PollRewriteFails, kept
  <2> HIDE DEF noted
  <2> QED BY <1>1, <1>4, <2>1, CompactionTalks
<1>7. CASE PollCompacted
  <2>1. \E user \in Message : user.role = "user" /\ ctx' = Append(Compacted, user)
    <3> DEFINE user == [role |-> "user", task |-> launches + 1, resp |-> 0, call |-> 0,
                        data |-> "none"]
    <3>1. user \in Message /\ user.role = "user"
      BY HistoryTypes DEF Message
    <3>2. ctx' = Append(Compacted, user)
      BY <1>7 DEF PollCompacted, Launch
    <3> HIDE DEF user
    <3> QED BY <3>1, <3>2
  <2>2. Compacted = <<Msg("summary", 0, 0, "none")>> \o (IF StripImages THEN noted ELSE kept)
    BY DEF Compacted, kept, noted
  <2> HIDE DEF noted
  <2>3. \A i \in 1..Len(noted) : NoteOf(noted[i]) = NoteOf(ctx[cut + i - 1])
    BY <1>4, <1>5
  <2>4. CASE StripImages
    BY <1>1, <1>4, <1>5, <2>1, <2>2, <2>3, <2>4, CompactionTalks
  <2>5. CASE ~StripImages
    BY <1>1, <1>4, <2>1, <2>2, <2>5, CompactionTalks
  <2> QED BY <2>4, <2>5
<1> QED BY <1>6, <1>7

LEMMA StripTalks ==
  ASSUME NEW s \in Seq(Message), NEW ids
  PROVE  Skeleton(StripSeen(s, ids)) = Skeleton(s)
<1> DEFINE t == StripSeen(s, ids)
<1>1. t \in Seq(Message) /\ Len(t) = Len(s)
  BY StripSeenParts
<1>2. \A i \in 1..Len(s) : NoteOf(t[i]) = NoteOf(s[i])
  BY StripSeenParts
<1> HIDE DEF t
<1>3. DOMAIN t = DOMAIN s /\ DOMAIN s = 1..Len(s)
  BY <1>1
<1>4. \A i \in DOMAIN s : t[i].role = s[i].role /\ CallId(t[i]) = CallId(s[i])
  BY <1>1, <1>2, <1>3, NoteOfFacts
<1>5. Skeleton(t) = Skeleton(s)
  BY <1>3, <1>4 DEF Skeleton
<1> QED BY <1>5 DEF t

\* Every step of the turn is one of the conversation, or none of its business.
LEMMA NextTalks ==
  ASSUME ~DrawFails
  PROVE  Inductive /\ Inductive' /\ Faithful /\ [Next]_vars
           => [Talk!Next]_<<Skeleton(ctx), tpc # "idle">>
<1> SUFFICES ASSUME Inductive, Inductive', Faithful, [Next]_vars
             PROVE  [Talk!Next]_<<Skeleton(ctx), tpc # "idle">>
  OBVIOUS
<1>1. CASE RecvStrip
  <2>1. ctx' = StripSeen(ctx, Head(chan).ids) /\ tpc = "recv" /\ tpc' = "keys"
    BY <1>1 DEF RecvStrip, Receive
  <2>2. Skeleton(ctx') = Skeleton(ctx)
    BY <2>1, HistoryTypes, StripTalks
  <2> QED BY <2>1, <2>2, Unnoticed
<1>2. CASE RecvSave
  BY <1>2, SaveTalks DEF Talk!Next
<1>3. CASE PollCompacted \/ PollRewriteFails
  BY <1>3, PollTalks DEF Talk!Next
<1>4. CASE RecvDoneBlocked
  <2>1. Launch(ctx) /\ tpc = "recv" /\ tpc' = "poll" /\ chan # <<>> /\ Terminal(Head(chan))
    BY <1>4 DEF RecvDoneBlocked, Receive, Terminal
  <2> HIDE DEF Launch
  <2> QED BY <2>1, WholeArrived, InstructionTalks DEF Talk!Next
<1>5. CASE Submit
  <2>1. Launch(ctx) /\ tpc = "idle" /\ tpc' = "poll"
    BY <1>5 DEF Submit
  <2>2. Quiet
    BY <2>1 DEF Inductive, Settled
  <2> HIDE DEF Launch
  <2> QED BY <2>1, <2>2, WholeArrived, InstructionTalks DEF Talk!Next
<1>6. CASE Join \/ JoinExpires
  <2>1. tpc = "join" /\ tpc' = "idle" /\ ctx' = ctx
    BY <1>6 DEF Join, JoinExpires, Return
  <2>2. Whole = ctx /\ ctx \in Seq(Message)
    BY <2>1, WholeArrived, HistoryTypes DEF Inductive, Settled
  <2>3. ~Talk!Awaits(Skeleton(ctx))
    BY <2>2, PairedEndsAnswered, AwaitsCall DEF Faithful, Answers
  <2>4. Talk!End
    BY <2>1, <2>3 DEF Talk!End, Skeleton
  <2> QED BY <2>4 DEF Talk!Next
<1>7. CASE \/ TaskStep \/ LateOutput \/ CompactionEnds \/ PressKey \/ UNCHANGED vars
           \/ PollNothing \/ PollFailed
           \/ RecvDisplay \/ RecvNeeds \/ RecvNeedsRefused \/ RecvDone \/ RecvTimeout
           \/ RecvClosed \/ KeyAbortsCompaction \/ KeyCancels \/ KeyHelp \/ NoKey
           \/ FailedDraw \/ StrayRequests \/ StrayEnds
  <2>1. ctx' = ctx /\ ((tpc' # "idle") <=> (tpc # "idle"))
    BY <1>7 DEF FailedDraw, StrayRequests, StrayEnds, TaskStep, turnVars, LateOutput, CompactionEnds, PressKey, vars,
         PollNothing, PollFailed, RecvDisplay, RecvNeeds, RecvNeedsRefused, RecvDone,
         RecvTimeout, RecvClosed, KeyAbortsCompaction, KeyCancels, KeyHelp, NoKey,
         Receive, AfterKeys
  <2> QED BY <2>1, Unnoticed
<1> QED BY <1>1, <1>2, <1>3, <1>4, <1>5, <1>6, <1>7 DEF Next, LoopStep, InLoop

-----------------------------------------------------------------------------
(* The theorems.                                                           *)

\* The invariant of a turn's history: what the session holds, with the events
\* in flight, is what the task works on; and unless a draw has failed it pairs
\* every call with its result, and the last request is a beginning of it
\* (restart_agent, execute_tool_call and process_agent_events together).
THEOREM HistoryStaysFaithful == Spec => []Faithful
BY InitInductive, InitFaithful, NextKeeps, NextFaithful, PTL DEF Spec

\* The agent's copy of the conversation and the session never part: the blocks
\* execute_tool_call saves are the ones it goes on with, and the loop applies
\* them all, in order, whatever it does meanwhile.
THEOREM SessionStaysInSync == Spec => []HistoryInSync
<1>1. Faithful => HistoryInSync
  BY DEF Faithful
<1> QED BY <1>1, HistoryStaysFaithful, PTL

\* Every call sent to the provider, or left by a finished turn, is followed by
\* its own result, however the turn ended (cancelled, vetoed, panicked,
\* compacted).  The hypothesis is a terminal that can be drawn on: a failed draw
\* drops the events that were on their way, and with them the result of a call
\* the session has.
THEOREM CallsStayAnswered ==
  ASSUME ~DrawFails
  PROVE  Spec => []CallsAnswered
<1>1. Inductive /\ Faithful => CallsAnswered
  <2> SUFFICES ASSUME Inductive, Faithful PROVE CallsAnswered
    OBVIOUS
  <2>1. apc = "stream" => Paired(live)
    BY DEF Faithful, HistoryInSync, Whole, Answers
  <2>2. tpc = "idle" => Paired(ctx)
    BY WholeArrived DEF Inductive, Settled, Faithful, Answers
  <2> QED BY <2>1, <2>2 DEF CallsAnswered
<1> QED BY <1>1, SpecInductive, HistoryStaysFaithful, PTL

\* A request begins with the messages of the one before it, across cancelled
\* turns, retries, restarts and compactions: HistoryGuard::check finds nothing.
\* The hypotheses are a disk that takes the rewritten session, without which
\* handle_compaction_result returns before the guard is reset, and a terminal
\* that can be drawn on, without which a task left at work uses the same guard.
THEOREM PrefixStaysStable ==
  ASSUME ~DiskFails, ~DrawFails
  PROVE  Spec => PrefixStable
<1>1. Inductive /\ Faithful =>
        [apc = "top" /\ apc' = "stream" => IsPrefix(Noted(guard), Noted(live))]_vars
  <2> SUFFICES ASSUME Inductive, Faithful, apc = "top"
               PROVE  IsPrefix(Noted(guard), Noted(live))
    OBVIOUS
  <2>1. Extends(guard, live)
    BY DEF Faithful, GuardHolds, HistoryInSync, Whole
  <2> QED BY <2>1, HistoryTypes, ExtendsIsPrefix
<1> QED BY <1>1, SpecInductive, HistoryStaysFaithful, PTL DEF PrefixStable

\* With strip_images_after_view a request repeats an image only until the first
\* answer after the tool call that read it (strip_seen_images).
THEOREM ImagesStaySeenOnce == Spec => []ImagesSeenOnce
<1>1. TurnInit => Seen
  BY DEF TurnInit, AgentInit, Seen
<1>2. Inductive /\ Seen => ImagesSeenOnce
  <2> SUFFICES ASSUME Inductive, Seen PROVE ImagesSeenOnce
    OBVIOUS
  <2>1. DOMAIN live = 1..Len(live)
    BY HistoryTypes
  <2> QED BY <2>1 DEF Seen, ImagesSeenOnce
<1> QED BY <1>1, <1>2, NextSeen, SpecInductive, PTL DEF Spec

\* The session of a turn is a conversation as module Conversation describes it:
\* it grows by instructions, answers and calls, a result comes at once after
\* its own call, only a summary replaces anything, and a turn ends with no call
\* open.  The hypothesis is the one of CallsStayAnswered.
THEOREM TurnIsAConversation ==
  ASSUME ~DrawFails
  PROVE  Spec => ImplementsConversation
<1>1. TurnInit => Talk!Init
  BY DEF TurnInit, Talk!Init
<1>2. Inductive /\ Inductive' /\ Faithful /\ [Next]_vars
        => [Talk!Next]_<<[i \in DOMAIN ctx |-> [role |-> ctx[i].role, id |-> CallId(ctx[i])]],
                         tpc # "idle">>
  BY NextTalks DEF Skeleton
<1> QED BY <1>1, <1>2, SpecInductive, HistoryStaysFaithful, PTL
       DEF Spec, ImplementsConversation, Talk!Spec
=============================================================================
