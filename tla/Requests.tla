------------------------------ MODULE Requests ------------------------------
(***************************************************************************)
(* What is sent of a conversation: the live context and its digests        *)
(* (agent/mod.rs), the history guard (history_guard.rs), the conversion to *)
(* the provider's messages (provider/mod.rs) and to the JSON of a request  *)
(* (openai.rs).                                                            *)
(*                                                                         *)
(* A message is [role, text, reasoning, call, images, usage]; "" and FALSE *)
(* are what it has not.  A digest is the value it is taken of: FNV-1a is   *)
(* taken to have no collisions.                                            *)
(***************************************************************************)
EXTENDS Naturals, Sequences, SequencesExt

CONSTANTS
    Kinds,       \* answers there are: <<text, reasoning, has a tool call>>
    MaxLen       \* bound: messages of a context

VARIABLES
    context,     \* current_context
    digests,     \* context_digests
    previous,    \* HistoryGuard.previous
    verdict,     \* what the last check of the guard said
    request,     \* the messages of the last request, <<>> after a reset
    drifted      \* history: the session is not what was sent (at most once)

vars == <<context, digests, previous, verdict, request, drifted>>

-----------------------------------------------------------------------------
Blank == [role |-> "user", text |-> "", reasoning |-> "", call |-> FALSE, images |-> FALSE, usage |-> FALSE]
(* What a message may be; some texts are the program's own.                 *)
Text == STRING \cup {"", "t", "noted", "other", "Image attached."}
Message ==
    [role : {"user", "assistant", "tool"}, text : Text, reasoning : Text,
     call : BOOLEAN, images : BOOLEAN, usage : BOOLEAN]
RequestsAssumption == Kinds \subseteq Text \X Text \X BOOLEAN

Answers == {[Blank EXCEPT !.role = "assistant", !.text = a[1], !.reasoning = a[2], !.call = a[3]] : a \in Kinds}
Results == {[Blank EXCEPT !.role = "tool", !.text = "t", !.images = i] : i \in BOOLEAN}
Users == {[Blank EXCEPT !.text = "t"]}
Following(c) ==
    IF c = <<>> THEN Users
    ELSE CASE Last(c).role = "assistant" -> IF Last(c).call THEN Results ELSE Users
           [] OTHER -> Answers

(* message_wire_value: usage is not sent, so it is not digested.            *)
Digest(m) == [m EXCEPT !.usage = FALSE]
Digests(c) == [i \in DOMAIN c |-> Digest(c[i])]

(* A mutant: a list that shrank is a prefix, and passes.                    *)
FaultViolation(prev, curr) ==
    \E i \in DOMAIN prev \cap DOMAIN curr : prev[i] # curr[i]

(* HistoryGuard::violation: the first difference, or a list that shrank.    *)
Violation(prev, curr) ==
    \/ \E i \in DOMAIN prev \cap DOMAIN curr : prev[i] # curr[i]
    \/ Len(curr) < Len(prev)

-----------------------------------------------------------------------------
(* flat_map, filter_map: what each element gives, one after the other.      *)
EachOf(s, Gives(_)) == FlattenSeq([i \in DOMAIN s |-> Gives(s[i])])

(* agent_messages_to_provider_messages: images follow their result as a     *)
(* message of the user.                                                     *)
Injected(m) ==
    IF m.role = "tool" /\ m.images
    THEN <<[m EXCEPT !.images = FALSE], [Blank EXCEPT !.images = TRUE]>>
    ELSE <<m>>
ProviderMessages(c) == EachOf(c, Injected)

(* to_openai_message: an empty answer is left out, and reasoning has no     *)
(* place in it yet.                                                         *)
Sent(m) == m.role # "assistant" \/ m.text # "" \/ m.call \/ m.reasoning # ""
Converted(m) ==
    [role |-> m.role, call |-> m.call, images |-> m.images, reasoning_content |-> "",
     text |-> IF m.role = "user" /\ m.images THEN "Image attached." ELSE m.text]
ToOpenAi(m) == IF Sent(m) THEN <<Converted(m)>> ELSE <<>>

(* A mutant: an answer of reasoning alone is passed over.                  *)
FaultSkipped(m) == m.role = "assistant" /\ m.text = "" /\ ~m.call

(* inject_reasoning_content walks both lists and passes over the messages   *)
(* that were left out.                                                      *)
Skipped(m) == m.role = "assistant" /\ m.text = "" /\ ~m.call /\ m.reasoning = ""
Placed(at, m) ==
    IF Skipped(m) THEN at
    ELSE [idx |-> at.idx + 1,
          json |-> IF at.idx <= Len(at.json) /\ m.role = "assistant" /\ m.reasoning # ""
                   THEN [at.json EXCEPT ![at.idx].reasoning_content = m.reasoning]
                   ELSE at.json]
Inject(messages, original) ==
    LET at[i \in 0 .. Len(original)] ==
            IF i = 0 THEN [idx |-> 1, json |-> messages] ELSE Placed(at[i - 1], original[i])
    IN at[Len(original)].json

Body(c) == Inject(EachOf(ProviderMessages(c), ToOpenAi), ProviderMessages(c))

-----------------------------------------------------------------------------
Init ==
    /\ context = <<>> /\ digests = <<>> /\ previous = <<>> /\ verdict = FALSE
    /\ request = <<>> /\ drifted = FALSE

(* push_context_message.                                                    *)
Push ==
    /\ Len(context) < MaxLen
    /\ \E m \in Following(context) :
         context' = Append(context, m) /\ digests' = Append(digests, Digest(m))
    /\ UNCHANGED <<previous, verdict, request, drifted>>

(* strip_seen_images: every image becomes a note in its result.             *)
Stripped(m) == IF m.images THEN [m EXCEPT !.images = FALSE, !.text = "noted"] ELSE m
Strip ==
    /\ context' = [i \in DOMAIN context |-> Stripped(context[i])]
    /\ digests' = Digests(context')
    /\ UNCHANGED <<previous, verdict, request, drifted>>

(* A new task takes its context from the session, whose answers have their  *)
(* usage.  The guard is there for a session that is not the context it was: *)
(* one message may have changed, or the end of it may be gone.              *)
Rebuild ==
    /\ \/ /\ context' = [i \in DOMAIN context |->
                          [context[i] EXCEPT !.usage = (context[i].role = "assistant")]]
          /\ UNCHANGED drifted
       \/ /\ ~drifted /\ drifted' = TRUE
          /\ \/ \E i \in DOMAIN context : context' = [context EXCEPT ![i].text = "other"]
             \/ \E n \in 0 .. Len(context) - 1 : context' = SubSeq(context, 1, n)
    /\ digests' = Digests(context')
    /\ UNCHANGED <<previous, verdict, request>>

(* reset_history_guard: a new session, /resume, a compaction.               *)
Reset ==
    /\ previous' = <<>> /\ request' = <<>> /\ drifted' = FALSE
    /\ UNCHANGED <<context, digests, verdict>>

(* check_outgoing_history and the request.                                  *)
Request ==
    /\ context # <<>>
    /\ verdict' = Violation(previous, digests)
    /\ previous' = digests
    /\ request' = Body(context)
    /\ UNCHANGED <<context, digests, drifted>>

Next == Push \/ Strip \/ Rebuild \/ Reset \/ Request

Spec == Init /\ [][Next]_vars

-----------------------------------------------------------------------------
TypeOK ==
    /\ Len(context) <= MaxLen /\ Len(digests) = Len(context)
    /\ {verdict, drifted} \subseteq BOOLEAN

(* A request that does not extend the one before it is noticed, whatever    *)
(* changed: a text, an image, the end of the list (history_guard.rs).       *)
DriftNoticed ==
    [][Request /\ request # <<>> /\ ~IsPrefix(request, request') => verdict']_vars

(* The warning is not given for nothing: without a drift and without images *)
(* that were stripped, each request extends the one before it.              *)
NoFalseAlarm ==
    [][Request /\ verdict' => drifted \/ \E i \in DOMAIN context : context[i].text = "noted"]_vars

(* The guard warns of every rewritten history, and of nothing else.         *)
GuardExact == DriftNoticed /\ NoFalseAlarm

(* Reasoning is sent with the answer it belongs to, past answers that are   *)
(* left out and images that are put in (openai.rs inject_reasoning_content).*)
ReasoningInPlace ==
    LET sent(w) == IF w.role = "assistant" THEN <<<<w.text, w.call, w.reasoning_content>>>> ELSE <<>>
        said(m) == IF m.role = "assistant" /\ Sent(m) THEN <<<<m.text, m.call, m.reasoning>>>> ELSE <<>>
    IN EachOf(Body(context), sent) = EachOf(context, said)
=============================================================================
