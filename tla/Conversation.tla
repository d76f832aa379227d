----------------------------- MODULE Conversation ----------------------------
(***************************************************************************)
(* What a turn promises about the conversation it leaves in the session,   *)
(* whatever tasks, channels and compactions carry it there: the history    *)
(* grows one message at a time while a turn is running, a tool result      *)
(* follows its own call at once, nothing else comes between the two, only  *)
(* a summary may replace an older part, and a turn never ends with a call  *)
(* that has no result.                                                     *)
(***************************************************************************)
EXTENDS Integers, Sequences

VARIABLES history,  \* the messages, as records of a role and a call identity
          busy      \* a turn is running

\* The identity of a message that belongs to no call ends in 0.
IsCall(m) == m.role = "assistant" /\ m.id[3] # 0
Awaits(h) == h # <<>> /\ IsCall(h[Len(h)])

Init == history = <<>> /\ busy = FALSE

Begin ==
  /\ ~busy /\ ~Awaits(history)
  /\ busy' = TRUE
  /\ history' # <<>>
  /\ LET m == history'[Len(history')]
     IN m.role = "user" /\ history' = Append(history, m)

\* The turn gets a further instruction, or the model speaks or calls a tool.
Speak ==
  /\ busy /\ ~Awaits(history)
  /\ history' # <<>>
  /\ LET m == history'[Len(history')]
     IN m.role \in {"user", "assistant"} /\ history' = Append(history, m)
  /\ UNCHANGED busy

\* The result of the call just made.
Answer ==
  /\ busy /\ Awaits(history)
  /\ history' = Append(history, [role |-> "tool", id |-> history[Len(history)].id])
  /\ UNCHANGED busy

\* A summary stands for everything before a point that separates no call
\* from its result; the turn may get its next instruction with it.
Summarise ==
  /\ busy /\ ~Awaits(history)
  /\ \E from \in 2..(Len(history) + 1) :
       LET kept == SubSeq(history, from, Len(history))
           n == Len(kept) + 1
       IN /\ kept # <<>> => kept[1].role # "tool"
          /\ Len(history') \in {n, n + 1}
          /\ history'[1].role = "summary"
          /\ SubSeq(history', 2, n) = kept
          /\ Len(history') = n + 1 => history'[n + 1].role = "user"
  /\ UNCHANGED busy

End ==
  /\ busy /\ ~Awaits(history)
  /\ busy' = FALSE
  /\ UNCHANGED history

Next == Begin \/ Speak \/ Answer \/ Summarise \/ End
Spec == Init /\ [][Next]_<<history, busy>>
=============================================================================
