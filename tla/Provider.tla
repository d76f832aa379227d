------------------------------ MODULE Provider ------------------------------
(***************************************************************************)
(* The provider seen from the program, in its three parts: the request     *)
(* that is sent (Requests), the answer that is received (Stream), and the  *)
(* models there are (Models).  They share no state, so that a behaviour    *)
(* is one of one part; the others stay as they are.                        *)
(***************************************************************************)
EXTENDS Naturals, Sequences

CONSTANTS
    Kinds, MaxLen,                                             \* Requests
    Scripts, ChunkCap, Statuses, Phrases, NoResult,            \* Stream
    UserFiles, Servers, Absent, Other, WindowMax, Pending, Failed, Torn, MaxStarts  \* Models

VARIABLES
    part,
    context, digests, previous, verdict, request, drifted,
    net, got, pc, pending, buffer, seen, out, chan, result, fault,
    at, blocks, partial, usage, thinking, shown, stopped, cancel, outcome,
    file, user, up, starts, conf, live, found, display, fetch, orphan, cache, server, picker

requestVars == <<context, digests, previous, verdict, request, drifted>>
streamVars == <<net, got, pc, pending, buffer, seen, out, chan, result, fault,
                at, blocks, partial, usage, thinking, shown, stopped, cancel, outcome>>
modelVars == <<file, user, up, starts, conf, live, found, display, fetch, orphan, cache, server, picker>>
vars == <<part, requestVars, streamVars, modelVars>>

Sending == INSTANCE Requests
Answer == INSTANCE Stream
Config == INSTANCE Models

ASSUME ProviderAssumption ==
    Config!ModelsAssumption /\ Sending!RequestsAssumption /\ Answer!StreamAssumption

Init ==
    /\ part \in {"request", "answer", "models"}
    /\ Sending!Init
    /\ Answer!Init /\ (part # "answer" => net = Answer!Reply(CHOOSE s \in Scripts : TRUE))
    /\ Config!Init /\ (part # "models" => file = Absent /\ server = CHOOSE s \in Servers : TRUE)

Send == part = "request" /\ Sending!Next /\ UNCHANGED <<part, streamVars, modelVars>>
Receive(A) == part = "answer" /\ A /\ UNCHANGED <<part, requestVars, modelVars>>
Configure == part = "models" /\ Config!Next /\ UNCHANGED <<part, requestVars, streamVars>>

Next == Send \/ Receive(Answer!Next) \/ Configure

Spec == Init /\ [][Next]_vars

(* The two tasks of a response run, as Stream says.                        *)
FairSpec == Spec /\ WF_vars(Receive(Answer!Provider)) /\ WF_vars(Receive(Answer!Agent))

-----------------------------------------------------------------------------
(* The promises of the parts; each is explained in its module.             *)

(* The guard warns of every rewritten history, and of nothing else.        *)
GuardExact == Sending!GuardExact
(* Reasoning is sent with the answer it belongs to.                        *)
ReasoningInPlace == Sending!ReasoningInPlace
(* An answer does not depend on how the network splits it.                 *)
Unsplit == Answer!Unsplit
(* A response is complete only when nothing went wrong behind it.          *)
FailureSurfaces == Answer!FailureSurfaces
(* The configuration is one, in memory, in its file and for the agent, and *)
(* the models the user configured stay in it as they were.                 *)
ConfigAgrees == Config!ConfigAgrees

(* Claims of the code and its documents that do not hold; each is quoted   *)
(* in its module.                                                          *)

(* sse.rs: Esc aborts the stream immediately.                              *)
CancelAborts == Answer!CancelAborts
(* sse.rs: an error sent instead of a chunk is noticed as an overflow.     *)
OverflowNoticed == Answer!OverflowNoticed
(* A call that is run was received to its end.                             *)
CallsWhole == Answer!CallsWhole
(* provider/mod.rs: rate limits and server errors are retried.             *)
ServerErrorsRetried == Answer!ServerErrorsRetried
(* docs/configuration.md: the picked model is persisted.                   *)
PickPersisted == Config!PickPersisted
(* commands.rs: the toggles are persisted.                                 *)
TogglePersisted == Config!TogglePersisted
(* docs/configuration.md: start-up resolves the loaded model.              *)
StartupResolves == Config!StartupResolves
(* tui/app.rs: the list is refreshed after a switch.                       *)
Refreshed == Config!Refreshed
=============================================================================
