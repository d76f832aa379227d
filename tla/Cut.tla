---------------------------------- MODULE Cut ---------------------------------
(***************************************************************************)
(* Where a compaction cuts the session: session/compaction/vcc/cut.rs and  *)
(* the cut points of session/compaction/llm.rs, as operators on a session. *)
(* A session is a sequence of entries [k, id, v, size, kept]: the kind, a  *)
(* number that identifies it, what it holds, its estimated tokens, and for *)
(* a compaction entry the first entry it kept (0: the empty string).       *)
(***************************************************************************)
EXTENDS Integers, Sequences, SequencesExt, FiniteSets, FiniteSetsExt

CONSTANTS
  MinSmart,    \* MIN_SMART_TAIL_TOKENS
  MaxSmart,    \* MAX_SMART_TAIL_TOKENS
  KeepRecent,  \* keep_recent_tokens
  MinKeep      \* MIN_KEEP_MESSAGES

MessageKinds == {"user", "assistant", "call", "tool"}
IsMessage(e) == e.k \in MessageKinds
Tokens(e) == IF IsMessage(e) THEN e.size ELSE 0
\* w[i] + ... + w[Len(w)], added up from the newest.
TotalFrom(w, i) ==
  LET newest[n \in 0 .. Len(w)] == IF n = 0 THEN 0 ELSE newest[n - 1] + w[Len(w) + 1 - n]
  IN newest[Len(w) + 1 - i]
TokensFrom(es, i) == TotalFrom([j \in 1 .. Len(es) |-> Tokens(es[j])], i)
From(es, i) == SubSeq(es, i, Len(es))

\* Positions of the live window that satisfy P; the empty set has no position.
Where(es, start, P(_)) == {i \in start .. Len(es) : P(es[i])}

LiveStart(es) ==
  LET comps == Where(es, 1, LAMBDA e : e.k = "comp")
      last == Max(comps)
      kept == Where(es, 1, LAMBDA e : e.id = es[last].kept)
  IN IF comps = {} THEN 2
     ELSE IF es[last].kept = 0 \/ kept = {} THEN last + 1
     ELSE Min(kept)

UserTurns(es, start) == Where(es, start, LAMBDA e : e.k = "user")

\* A cut is the position of the first entry to keep; Len(es) + 1 compacts all.
All(es) == Len(es) + 1
TooFew == 0

\* The first of the last keep user turns.
BuildOwnCut(es, start, keep) ==
  LET turns == UserTurns(es, start)
      cut == Min({t \in turns : Cardinality({u \in turns : u >= t}) <= keep})
  IN IF Len(es) - start + 1 <= 2 THEN TooFew
     ELSE IF keep = 0 \/ turns = {} \/ cut <= start THEN All(es)
     ELSE cut

\* A mutant: a cut may fall between a call and its result.
FaultFindBudgetCut(es, start, budget) ==
  LET crossed == {i \in start .. Len(es) : TokensFrom(es, i) >= budget}
  IN IF crossed = {} \/ Max(crossed) <= start THEN 0 ELSE Max(crossed)

\* The cut lies where the newest entries reach the budget, moved past tool
\* results; 0 when no entry is left to keep.
FindBudgetCut(es, start, budget) ==
  LET crossed == {i \in start .. Len(es) : TokensFrom(es, i) >= budget}
      from == Max({Max(crossed), start + 1})
      bounds == Where(es, from, LAMBDA e : e.k # "tool")
  IN IF crossed = {} \/ bounds = {} THEN 0 ELSE Min(bounds)

\* The tail may be two and a half times the budget before it is cut again.
Oversized(tokens) == tokens * 2 > KeepRecent * 5

ApplyTailBudget(es, start, cut) ==
  LET again == FindBudgetCut(es, start, KeepRecent)
  IN IF cut = TooFew THEN TooFew
     ELSE IF cut = All(es) THEN IF again > start THEN again ELSE cut
     ELSE IF Oversized(TokensFrom(es, cut)) /\ again > cut THEN again
     ELSE cut

\* The default keeps one user turn, and more as long as they are small.
ResolveSmartKeep(es, start) ==
  LET cut(k) == BuildOwnCut(es, start, k)
      real(k) == cut(k) \notin {TooFew, All(es)}
      tail(k) == TokensFrom(es, cut(k))
      grown == {k \in 1 .. Cardinality(UserTurns(es, start)) :
                  \A j \in 2 .. k : real(j) /\ tail(j) <= MaxSmart}
  IN IF ~real(1) \/ tail(1) > MinSmart THEN 1 ELSE Max(grown)

\* keep is the number the user typed, or -1 when there is none.
VccCut(es, keep) ==
  LET start == LiveStart(es)
  IN IF keep >= 0 THEN BuildOwnCut(es, start, keep)
     ELSE ApplyTailBudget(es, start,
            BuildOwnCut(es, start, ResolveSmartKeep(es, start)))

-----------------------------------------------------------------------------
\* The llm strategy stops at text and calls and counts text only: a call has
\* none, and a tool result is passed over. (It also stops at a model change,
\* an entry no code writes.) A response is text or calls here: the text that
\* the entry of a first call may carry with it is left out.
Counted(e) == e.k \in {"user", "assistant", "call"}
LlmTokens(e) == IF e.k \in {"user", "assistant"} THEN e.size ELSE 0
LlmTokensFrom(es, i) == TotalFrom([j \in 1 .. Len(es) |-> LlmTokens(es[j])], i)

\* Past the tool results that begin at i; 0 when that leaves nothing to keep.
PastTools(es, i) ==
  LET bounds == Where(es, i, LAMBDA e : e.k # "tool")
  IN IF i > Len(es) THEN i ELSE IF bounds = {} THEN 0 ELSE Min(bounds)

FindCutPoint(es, start) ==
  LET counted == Where(es, start, Counted)
      crossed == {i \in counted : LlmTokensFrom(es, i) >= KeepRecent}
  IN IF start > Len(es) THEN 0
     ELSE IF crossed # {} THEN PastTools(es, Max(crossed) + 1)
     ELSE IF LlmTokensFrom(es, start) > 0 THEN Min(counted)
     ELSE 0

\* The first of the newer half of the entries counted.
FindCutPointByCount(es, start) ==
  LET counted == Where(es, start, Counted)
      half == Cardinality(counted) \div 2
  IN IF Cardinality(counted) < 2 THEN 0
     ELSE Min({i \in counted : Cardinality({j \in counted : j <= i}) > half})

LlmCut(es) ==
  LET start == LiveStart(es)
      byTokens == FindCutPoint(es, start)
      cut == IF byTokens = 0 \/ byTokens > start THEN byTokens
             ELSE FindCutPointByCount(es, start)
  IN IF cut <= start
          \/ Cardinality(Where(es, cut, IsMessage)) < MinKeep
     THEN 0 ELSE cut
=============================================================================
