------------------------------- MODULE Stream -------------------------------
(***************************************************************************)
(* One streamed response: the provider task (stream_chat_inner and         *)
(* parse_sse_stream) reads the bytes of the server, and the agent task     *)
(* (stream_response_from_messages) assembles the answer from the chunks it *)
(* sends.  The two share a bounded channel, a oneshot result and the       *)
(* cancel flag.                                                            *)
(*                                                                         *)
(* The bytes of an event line are its name, the two bytes of a character   *)
(* when it is "wide", "end" for the rest of its JSON, and "nl".            *)
(***************************************************************************)
EXTENDS Naturals, Sequences, SequencesExt, Lists

CONSTANTS
    Scripts,   \* what a server may send: sequences of events
    ChunkCap,  \* capacity of the chunk channel
    Statuses,  \* HTTP status codes of error responses
    Phrases,   \* what their bodies may contain
    NoResult   \* nothing sent on the oneshot channel, or no outcome yet

VARIABLES
    net,        \* bytes the server has not delivered yet
    got,        \* history: the bytes delivered
    pc,         \* the provider task: connect, read, lines, flush, done
    pending,    \* bytes of a split character
    buffer,     \* decoded text with no line taken from it yet
    seen,       \* ParseState
    out,        \* chunks of the current line that are not sent yet
    chan,       \* the chunk channel
    result,     \* the oneshot channel
    fault,      \* history: what went wrong in the provider task
    at,         \* the agent task: loop, join, done
    blocks, partial, usage, thinking,  \* what it has assembled
    shown,      \* history: the text events it has sent to the screen
    stopped,    \* its local flag `cancelled'
    cancel,     \* the cancel flag
    outcome     \* what it returns

provider == <<net, got, pc, pending, buffer, seen, out, result, fault>>
agent == <<at, blocks, partial, usage, thinking, shown, stopped, outcome>>
vars == <<provider, chan, agent, cancel>>

-----------------------------------------------------------------------------
(* What an event, a byte or a text may be; some are the program's own.      *)
Symbol ==
    STRING \cup {"wide", "lead", "cont", "end", "nl", "char", "repl", "damaged"}
StreamAssumption == Scripts \subseteq Seq(Symbol) /\ NoResult \notin {"ok", "complete"}

(* Events and their deltas: <<kind, payload>>; a call delta has its index,  *)
(* its id and name as one value, and its fragment of arguments.            *)
Bytes(e) == IF e = "wide" THEN <<e, "lead", "cont", "end", "nl">> ELSE <<e, "end", "nl">>

Deltas(e) ==
    CASE e \in {"text", "wide"} -> <<<<"text", e>>>>
      [] e = "think"  -> <<<<"reason", e>>>>
      [] e = "both"   -> <<<<"reason", e>>, <<"text", e>>>>
      [] e = "call"   -> <<<<"call", 1, "id1", <<"{">>>>>>
      [] e = "args"   -> <<<<"call", 1, "", <<"}">>>>>>
      [] e = "second" -> <<<<"call", 2, "id2", <<>>>>>>
      [] e = "usage"  -> <<<<"usage">>>>
      [] OTHER        -> <<>>          \* "finish", "done", "nested", "garbled"

Reply(s) == FlattenSeq([i \in DOMAIN s |-> Bytes(s[i])])

(* UTF-8: the text so far, and whether a character has begun behind it.     *)
Decode(so, b) ==
    IF so.begun /\ b = "cont" THEN [text |-> Append(so.text, "char"), begun |-> FALSE]
    ELSE [text |-> so.text \o (IF so.begun THEN <<"repl">> ELSE <<>>)
                    \o (CASE b = "lead" -> <<>> [] b = "cont" -> <<"repl">> [] OTHER -> <<b>>),
          begun |-> b = "lead"]
Decoded(bytes) == Through(Decode, [text |-> <<>>, begun |-> FALSE], bytes)

(* from_utf8_lossy of bytes that are all there will be.                     *)
Lossy(bytes) == Decoded(bytes).text \o (IF Decoded(bytes).begun THEN <<"repl">> ELSE <<>>)

(* A mutant: what is at hand is decoded at once.                           *)
FaultSplit(bytes) == [text |-> Lossy(bytes), tail |-> <<>>]

(* append_utf8_safe: what is decoded of the bytes at hand, and what waits.  *)
(* A server sends whole characters; only the last can be in pieces. Bytes   *)
(* between the first and the last of a longer one wait with the first; they *)
(* are left out.                                                            *)
Split(bytes) ==
    [text |-> Decoded(bytes).text, tail |-> IF Decoded(bytes).begun THEN <<"lead">> ELSE <<>>]

(* A line that is whole is JSON; a damaged character damages its payload.   *)
Whole(line) == line # <<>> /\ Last(line) = "end" /\ Head(line) # "garbled"
ReadLine(line) ==
    IF ~Whole(line) THEN <<>>
    ELSE [i \in DOMAIN Deltas(Head(line)) |->
             IF "repl" \in ToSet(line) THEN <<"text", "damaged">> ELSE Deltas(Head(line))[i]]

-----------------------------------------------------------------------------
Fresh == [chunks |-> 0, reasoning |-> FALSE, finish |-> FALSE, thinking |-> FALSE]

Init ==
    /\ \E s \in Scripts : net = Reply(s)
    /\ got = <<>> /\ pc = "connect" /\ pending = <<>> /\ buffer = <<>>
    /\ seen = Fresh /\ out = <<>> /\ chan = <<>> /\ result = NoResult /\ fault = "none"
    /\ at = "loop" /\ blocks = <<>> /\ partial = <<>> /\ usage = FALSE /\ thinking = FALSE
    /\ shown = <<>> /\ stopped = FALSE /\ cancel = FALSE /\ outcome = NoResult

(* The user presses Esc.                                                    *)
Cancel ==
    /\ ~cancel /\ outcome = NoResult
    /\ cancel' = TRUE
    /\ UNCHANGED <<provider, chan, agent>>

(* The provider task ends: its end of the channel closes, its result is     *)
(* sent.                                                                    *)
End(r) == pc' = "done" /\ result' = r

(* is_context_overflow, is_billing_error, is_retryable: what is made of an  *)
(* error response.                                                          *)
OverflowTypes == {"exceed_context_size_error", "context_length_exceeded"}
OverflowText == {"too long", "token limit", "context size"}
Overflow(e) == e.phrases \cap (OverflowTypes \cup OverflowText) # {} \/ e.status = 413
Billing(e) == e.phrases \cap {"billing", "quota exceeded"} # {}
Retryable(e) == ~Billing(e) /\ ~Overflow(e) /\ e.status \in {408, 409, 429} \cup 500 .. 599
Refusals == [status : Statuses, phrases : SUBSET Phrases]
Refused(e) == IF Overflow(e) THEN "overflow" ELSE IF Retryable(e) THEN "retryable" ELSE "fatal"

(* send().await watches nothing but the server.                             *)
Connect ==
    /\ pc = "connect"
    /\ \/ pc' = "read" /\ UNCHANGED <<result, fault>>
       \/ \E r \in {"network"} \cup {Refused(e) : e \in Refusals} : End(r) /\ fault' = r
    /\ UNCHANGED <<net, got, pending, buffer, seen, out, chan, agent, cancel>>

(* The next chunk of the response, split wherever the network splits it.    *)
Deliver(n) ==
    /\ pc = "read" /\ ~cancel
    /\ n \in 1 .. Len(net)
    /\ LET d == Split(pending \o SubSeq(net, 1, n))
       IN buffer' = buffer \o d.text /\ pending' = d.tail
    /\ net' = SubSeq(net, n + 1, Len(net))
    /\ got' = got \o SubSeq(net, 1, n)
    /\ pc' = "lines"
    /\ UNCHANGED <<seen, out, chan, result, fault, agent, cancel>>

(* The connection ends, early or not: the rest of the buffer is one line.   *)
Close ==
    /\ pc = "read" /\ ~cancel
    /\ buffer' = buffer \o Lossy(pending) /\ pending' = <<>>
    /\ pc' = "flush"
    /\ UNCHANGED <<net, got, seen, out, chan, result, fault, agent, cancel>>

Break ==
    /\ pc = "read" /\ ~cancel
    /\ End("network") /\ fault' = "network"
    /\ UNCHANGED <<net, got, pending, buffer, seen, out, chan, agent, cancel>>

(* process_sse_chunk: the chunks of a line and the new ParseState.          *)
DispatchDelta(so, d) ==
    CASE d[1] = "reason" ->
           [s |-> [so.s EXCEPT !.reasoning = TRUE, !.thinking = TRUE],
            o |-> so.o \o (IF so.s.thinking THEN <<>> ELSE <<<<"thinking", TRUE>>>>) \o <<d>>]
      [] d[1] = "text" ->
           [s |-> [so.s EXCEPT !.chunks = @ + 1, !.thinking = FALSE],
            o |-> so.o \o (IF so.s.thinking THEN <<<<"thinking", FALSE>>>> ELSE <<>>) \o <<d>>]
      [] d[1] = "call" -> [s |-> [so.s EXCEPT !.chunks = @ + 1], o |-> Append(so.o, d)]
      [] OTHER -> [s |-> so.s, o |-> Append(so.o, d)]
Dispatch(line) ==
    Through(DispatchDelta,
            [s |-> IF Whole(line) /\ Head(line) = "finish" THEN [seen EXCEPT !.finish = TRUE] ELSE seen,
             o |-> <<>>],
            ReadLine(line))

(* One line of the buffer, or the wait for more when it has none.           *)
TakeLine ==
    /\ pc = "lines" /\ out = <<>>
    /\ IF "nl" \notin ToSet(buffer)
       THEN pc' = "read" /\ UNCHANGED <<buffer, seen, out, result, fault>>
       ELSE /\ ~cancel
            /\ LET k == CHOOSE i \in DOMAIN buffer :
                            buffer[i] = "nl" /\ \A j \in 1 .. i - 1 : buffer[j] # "nl"
                   line == SubSeq(buffer, 1, k - 1)
               IN /\ buffer' = SubSeq(buffer, k + 1, Len(buffer))
                  /\ IF Whole(line) /\ Head(line) = "overflow"
                     THEN End("overflow") /\ fault' = "overflow" /\ UNCHANGED <<seen, out>>
                     ELSE /\ seen' = Dispatch(line).s /\ out' = Dispatch(line).o
                          /\ UNCHANGED <<pc, result, fault>>
    /\ UNCHANGED <<net, got, pending, chan, agent, cancel>>

(* After the end: the last line, then the verdict on the whole response.    *)
Verdict(s) ==
    IF s.chunks = 0 /\ ~s.reasoning THEN IF s.finish THEN "empty" ELSE "incomplete" ELSE "ok"
TakeRest ==
    /\ pc = "flush" /\ out = <<>>
    /\ IF buffer # <<>>
       THEN /\ seen' = Dispatch(buffer).s /\ out' = Dispatch(buffer).o
            /\ buffer' = <<>> /\ UNCHANGED <<pc, result>>
       ELSE End(Verdict(seen)) /\ UNCHANGED <<buffer, seen, out>>
    /\ UNCHANGED <<net, got, pending, fault, chan, agent, cancel>>

Send ==
    /\ out # <<>> /\ Len(chan) < ChunkCap
    /\ chan' = Append(chan, Head(out)) /\ out' = Tail(out)
    /\ UNCHANGED <<net, got, pc, pending, buffer, seen, result, fault, agent, cancel>>

(* The flag is looked at before a read, during it, and between two lines:   *)
(* the parser returns Ok(()).                                               *)
StopReading ==
    /\ cancel /\ out = <<>>
    /\ \/ pc = "read"
       \/ pc = "lines" /\ "nl" \in ToSet(buffer)
    /\ End("ok")
    /\ UNCHANGED <<net, got, pending, buffer, seen, out, fault, chan, agent, cancel>>

(* A mutant: a parser that panics has ended well.                          *)
FaultPanic ==
    /\ pc \in {"connect", "read", "lines", "flush"}
    /\ End("ok") /\ fault' = "panic" /\ out' = <<>>
    /\ UNCHANGED <<net, got, pending, buffer, seen, chan, agent, cancel>>

(* The task panics; the guard of the oneshot sender answers for it.         *)
Panic ==
    /\ pc \in {"connect", "read", "lines", "flush"}
    /\ End("incomplete") /\ fault' = "panic" /\ out' = <<>>
    /\ UNCHANGED <<net, got, pending, buffer, seen, chan, agent, cancel>>

-----------------------------------------------------------------------------
(* accumulate_tool_call and finalize_tool_calls.                            *)
NoCall == [id |-> "", args |-> <<>>]
Accumulate(calls, d) ==
    LET padded == calls \o [i \in 1 .. (IF d[2] > Len(calls) THEN d[2] - Len(calls) ELSE 0) |-> NoCall]
    IN [padded EXCEPT ![d[2]] = [id |-> IF d[3] = "" THEN @.id ELSE d[3], args |-> @.args \o d[4]]]
\* Arguments cut short are repaired; what begins with the end is no JSON.
Parses(args) == args = <<>> \/ Head(args) = "{"
Finalize(calls) == Those(calls, LAMBDA c : c.id # "" /\ Parses(c.args))

(* The chunk is folded into the answer and shown.                           *)
Receive ==
    /\ at = "loop" /\ chan # <<>>
    /\ LET d == Head(chan)
           lastKind == IF blocks = <<>> THEN "none" ELSE Last(blocks).kind
           Grow == [blocks EXCEPT ![Len(blocks)].body = Append(@, d[2])]
       IN CASE d[1] = "text" ->
                 /\ blocks' = IF lastKind = "text" THEN Grow
                              ELSE Append(blocks, [kind |-> "text", body |-> <<d[2]>>])
                 /\ shown' = Append(shown, d) /\ UNCHANGED <<partial, usage, thinking>>
            [] d[1] = "thinking" ->
                 /\ thinking' = d[2]
                 /\ blocks' = IF d[2] /\ ~thinking THEN Append(blocks, [kind |-> "reason", body |-> <<>>])
                              ELSE blocks
                 /\ UNCHANGED <<partial, usage, shown>>
            [] d[1] = "reason" ->
                 /\ blocks' = IF lastKind = "reason" THEN Grow ELSE blocks
                 /\ shown' = Append(shown, d) /\ UNCHANGED <<partial, usage, thinking>>
            [] d[1] = "call" -> partial' = Accumulate(partial, d) /\ UNCHANGED <<blocks, usage, thinking, shown>>
            [] d[1] = "usage" -> usage' = TRUE /\ UNCHANGED <<blocks, partial, thinking, shown>>
    /\ chan' = Tail(chan)
    /\ UNCHANGED <<provider, at, stopped, cancel, outcome>>

(* The channel is closed and empty.                                         *)
Drained ==
    /\ at = "loop" /\ chan = <<>> /\ pc = "done"
    /\ at' = "join"
    /\ UNCHANGED <<provider, chan, blocks, partial, usage, thinking, shown, stopped, cancel, outcome>>

(* 100 ms without a chunk: the loop looks at the flag.                      *)
Poll ==
    /\ at = "loop" /\ chan = <<>> /\ pc # "done" /\ cancel
    /\ stopped' = TRUE /\ at' = "join"
    /\ UNCHANGED <<provider, chan, blocks, partial, usage, thinking, shown, cancel, outcome>>

(* stream_handle.await, then the result.                                    *)
Outcome == IF stopped THEN "aborted" ELSE IF result = "ok" THEN "complete" ELSE result
Finish ==
    /\ at = "join" /\ pc = "done"
    /\ at' = "done"
    /\ outcome' = Outcome
    /\ blocks' = Those(blocks, LAMBDA b : b.kind = "text" \/ b.body # <<>>)
    /\ partial' = Finalize(partial)
    /\ thinking' = FALSE
    /\ UNCHANGED <<provider, chan, usage, shown, stopped, cancel>>

-----------------------------------------------------------------------------
Provider == TakeLine \/ TakeRest \/ Send \/ StopReading
Server == Connect \/ Close \/ Break \/ \E n \in 1 .. Len(net) : Deliver(n)
Agent == Receive \/ Drained \/ Poll \/ Finish

Next == Cancel \/ Server \/ Provider \/ Panic \/ Agent

Spec == Init /\ [][Next]_vars

(* The two tasks run; nothing is assumed of the server and of the network.  *)
FairSpec == Spec /\ WF_vars(Provider) /\ WF_vars(Agent)

-----------------------------------------------------------------------------
(* What the bytes delivered say, read in one piece.                         *)
BreakLine(so, b) ==
    IF b = "nl" THEN [lines |-> Append(so.lines, so.line), line |-> <<>>]
    ELSE [so EXCEPT !.line = Append(@, b)]
Broken(text) == Through(BreakLine, [lines |-> <<>>, line |-> <<>>], text)
Lines == Append(Broken(Lossy(got)).lines, Broken(Lossy(got)).line)
Said == FlattenSeq([i \in DOMAIN Lines |-> ReadLine(Lines[i])])
Spoken == Those(Said, LAMBDA d : d[1] \in {"text", "reason"})
Calls(i) == Those(Said, LAMBDA d : d[1] = "call" /\ d[2] = i)
Complete == outcome = "complete" /\ ~cancel

TypeOK ==
    /\ pc \in {"connect", "read", "lines", "flush", "done"} /\ at \in {"loop", "join", "done"}
    /\ Len(chan) <= ChunkCap /\ pending \in {<<>>, <<"lead">>}
    /\ {cancel, stopped, usage, thinking} \subseteq BOOLEAN
    /\ (result # NoResult) <=> (pc = "done")
    /\ (outcome # NoResult) <=> (at = "done")

(* However the network splits lines and characters, the answer is that of   *)
(* the same bytes in one piece: every delta in its order, in blocks of one  *)
(* kind, and each named call with its own fragments, when they make JSON    *)
(* (sse.rs, streaming.rs, finalize_tool_calls).                             *)
Unsplit ==
    Complete =>
        /\ FlattenSeq([i \in DOMAIN blocks |-> [j \in DOMAIN blocks[i].body |->
              <<blocks[i].kind, blocks[i].body[j]>>]]) = Spoken
        /\ \A i \in 1 .. Len(blocks) - 1 : blocks[i].kind # blocks[i + 1].kind
        /\ \A c \in {"id1", "id2"} :
              LET i == IF c = "id1" THEN 1 ELSE 2
                  own == Those(partial, LAMBDA p : p.id = c)
                  args == FlattenSeq([k \in DOMAIN Calls(i) |-> Calls(i)[k][4]])
              IN IF (\E k \in DOMAIN Calls(i) : Calls(i)[k][3] = c) /\ Parses(args)
                 THEN Len(own) = 1 /\ own[1].args = args
                 ELSE own = <<>>

(* A response is complete only when nothing went wrong behind it: no panic, *)
(* lost connection or refusal, and something was received (OneshotGuard and *)
(* the checks at the end of parse_sse_stream).                              *)
FailureSurfaces == Complete => fault = "none" /\ \E i \in DOMAIN Said : Said[i][1] # "usage"

(* Once the server has answered, Esc ends the response, however silent the  *)
(* server is, and with the channel full.                                    *)
CancelEnds == cancel /\ pc # "connect" ~> outcome # NoResult

(* Claim (sse.rs:203): when the flag becomes true, the stream is aborted    *)
(* immediately.  A request the server has not answered does not look at it. *)
CancelAborts == cancel ~> outcome # NoResult

(* Claim (sse.rs:285): an error the server sends instead of a chunk is      *)
(* noticed as a context overflow.  Only one with its message at top level.  *)
OverflowNoticed ==
    Complete \/ outcome = "incomplete" => \A i \in DOMAIN Lines : ~(Whole(Lines[i]) /\ Head(Lines[i]) = "nested")

(* Claim: a tool call that is run was received to its end.  A connection    *)
(* that closes early leaves half its arguments, which are repaired.         *)
CallsWhole == Complete => \A i \in DOMAIN partial : partial[i].id = "id1" => partial[i].args = <<"{", "}">>

(* Claim (provider/mod.rs:563): rate limits (429) and server errors (5xx)   *)
(* are retried.  A gateway that says the server "took too long" to answer   *)
(* is taken for a context overflow.                                         *)
ServerErrorsRetried ==
    pc = "connect" => \A e \in Refusals :
        e.status \in {429} \cup 500 .. 599 /\ ~Billing(e)
          /\ e.phrases \cap (OverflowTypes \cup {"token limit", "context size"}) = {}
        => Refused(e) = "retryable"
=============================================================================
