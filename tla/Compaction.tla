------------------------------ MODULE Compaction ------------------------------
(***************************************************************************)
(* A session that grows turn by turn and is compacted now and then, with   *)
(* either strategy: session/compaction.rs, compaction/vcc.rs,              *)
(* compaction/llm.rs, SessionStore::apply_compaction and the hook context  *)
(* event_loop.rs appends. The mode of the configuration may change between *)
(* two compactions (a restart). A compaction that finds nothing to cut,    *)
(* and a model that does not answer, leave everything as it is.            *)
(***************************************************************************)
EXTENDS Summary

CONSTANTS
  Asks, Says, Calls,  \* what a user, the assistant and a call may hold: [v, size]
  Sizes,              \* the tokens of a result
  Keeps,              \* what /compact may be given; -1 is nothing, and the trigger
  MaxId,              \* bound: the entries a session ever gets
  MaxCompactions, MaxVersions  \* bounds: compactions; versions of plan and skills

\* Tokens are u32, whatever the configuration says of them; the limits of the
\* summary are constants of the code, and a section may hold an item.
ASSUME CompactionAssumption ==
  /\ \A m \in Asks \cup Says \cup Calls : m.size \in Nat
  /\ Sizes \subseteq Nat
  /\ Keeps \subseteq Nat \cup {-1}
  /\ KeepRecent \in Nat /\ MinSmart \in Nat /\ MaxSmart \in Nat
  /\ ItemCap \in Nat \ {0} /\ Window \in Nat /\ RecentBlocks \in Nat /\ BriefMax \in Nat

VARIABLES
  entries,  \* the session
  summary,  \* the text of the last compaction entry
  nextId,   \* entries made so far
  skills,   \* version of the active skills' instructions; 0 when none is active
  plan,     \* version of the plan a PreCompact hook reports; 0 when it reports none
  count     \* compactions done

vars == <<entries, summary, nextId, skills, plan, count>>

Entry(k, v, size) == [k |-> k, id |-> nextId, v |-> v, size |-> size, kept |-> 0]
Newest == entries[Len(entries)]
Header == [k |-> "header", id |-> 1, v |-> "", size |-> 0, kept |-> 0]

Init ==
  /\ entries = <<Header>>
  /\ summary = <<>>
  /\ nextId = 2
  /\ skills = 0 /\ plan = 0 /\ count = 0

Add(k, v, size) ==
  /\ nextId <= MaxId
  /\ entries' = Append(entries, Entry(k, v, size))
  /\ nextId' = nextId + 1
  /\ UNCHANGED <<summary, skills, plan, count>>

Ask == Newest.k # "call" /\ \E m \in Asks : Add("user", m.v, m.size)
\* The model speaks, or calls a tool, in a turn.
InTurn == Newest.k \in {"user", "tool", "comp"} \/ (Newest.k = "custom" /\ count > 0)
Say == InTurn /\ \E m \in Says : Add("assistant", m.v, m.size)
Call == InTurn /\ \E m \in Calls : Add("call", m.v, m.size)
Answer == Newest.k = "call" /\ \E size \in Sizes : Add("tool", Newest.v, size)
\* A turn that ends, or stops to be compacted, leaves its token rate.
SaveTokenRate == Newest.k \in {"assistant", "tool"} /\ Add("custom", "", 0)

ActivateSkill ==
  /\ skills < MaxVersions /\ skills' = skills + 1
  /\ UNCHANGED <<entries, summary, nextId, plan, count>>
MovePlan ==
  /\ plan < MaxVersions /\ plan' = plan + 1
  /\ UNCHANGED <<entries, summary, nextId, skills, count>>

ActiveSkills == IF skills = 0 THEN <<>> ELSE <<Skills(skills)>>
HookContext == IF plan = 0 THEN <<>> ELSE <<Plan(plan)>>

\* The header, the compaction and what was not cut; the text is the last one's.
\* A token rate has no identity, so keeping from one writes the empty string.
Apply(text, cut) ==
  LET kept == From(entries, cut)
      id == IF kept = <<>> \/ kept[1].k = "custom" THEN 0 ELSE kept[1].id
  IN /\ entries' = <<Header, [Entry("comp", "", 0) EXCEPT !.kept = id]>> \o kept
     /\ summary' = text
     /\ nextId' = nextId + 1
     /\ count' = count + 1
     /\ UNCHANGED <<skills, plan>>

Ready == Newest.k # "call" /\ count < MaxCompactions /\ nextId <= MaxId

CompactVcc ==
  /\ Ready
  /\ \E keep \in Keeps :
       LET start == LiveStart(entries)
           cut == VccCut(entries, keep)
           blocks == Normalize(SubSeq(entries, start, cut - 1))
           fresh == FormatSummary(blocks)
       IN /\ Len(entries) - start + 1 > 2
          /\ cut > start /\ blocks # <<>> /\ fresh # <<>>
          /\ Apply(MergePrevious(summary, fresh) \o ActiveSkills \o HookContext, cut)

CompactLlm ==
  /\ Ready
  /\ LET cut == LlmCut(entries)
     IN /\ cut # 0
        /\ \E i \in 1 .. cut - 1 : IsMessage(entries[i])
        /\ Apply(<<Prose(count)>> \o ActiveSkills \o HookContext, cut)

Next ==
  \/ Ask \/ Say \/ Call \/ Answer \/ SaveTokenRate
  \/ ActivateSkill \/ MovePlan
  \/ CompactVcc \/ CompactLlm

Spec == Init /\ [][Next]_vars
-----------------------------------------------------------------------------
\* Whatever is kept, by whichever strategy and keep, a tool result stands
\* right after its call: no cut falls between the two (the guarantee a
\* provider needs of every request built from the session).
PairsKept ==
  \A i \in DOMAIN entries : entries[i].k = "tool" => entries[i - 1].k = "call"

\* The summary has the instructions of the active skills once, as they are
\* now: neither lost nor piled up over compactions (vcc.rs: "exactly one").
SkillsOnce ==
  [][count' > count =>
      Those(summary', LAMBDA l : l.a = "skills") = ActiveSkills]_vars

\* The tail the default cut keeps is within two and a half budgets, or over the
\* budget by its first entry alone, or it ends with a result that fills the
\* budget by itself, which is never parted from its call.
TailFits ==
  LET cut == VccCut(entries, -1)
  IN cut \in 3 .. Len(entries) =>
       \/ ~Oversized(TokensFrom(entries, cut))
       \/ \A i \in cut + 1 .. Len(entries) : TokensFrom(entries, i) < KeepRecent
       \/ Newest.k = "tool" /\ Newest.size >= KeepRecent

\* Both, of the session and of the cut that comes next.
CutSound == PairsKept /\ TailFits

\* No line of the brief is lost unsaid: the next summary has it, or says that
\* lines were left out, or has no room at all for lines of the summary before;
\* as long as no plan block and no llm summary is in between (PlanIsLatest).
Brief(text) == Those(BriefOf(text), LAMBDA l : l.a = "line")
Briefed(text) == BriefOf(text) # <<>> /\ \A i \in DOMAIN text : text[i].a \notin {"plan", "prose"}
BriefCarried ==
  [][count' > count /\ Briefed(summary) /\ plan = 0 /\ summary'[1].a # "prose" =>
      \/ Len(BriefOf(summary')) >= BriefMax
      \/ Omitted("lines") \in ToSet(BriefOf(summary'))
      \/ ToSet(Brief(summary)) \subseteq ToSet(summary')]_vars

\* merge.rs: goals are deduplicated line by line and capped, so a goal of the
\* summary before is still a goal after the next compaction.
GoalsKept ==
  [][count' > count /\ summary # <<>> =>
      LET goals(text) == Those(SectionOf(text, "goal"), LAMBDA l : l.h = "goal")
          said == Those(summary, LAMBDA l : l.a = "item" /\ l.h = "goal")
      IN summary'[1].a # "prose" /\ said # <<>> => goals(summary') # <<>>]_vars

\* merge.rs: "carried through `merge_previous` verbatim (latest wins)".
PlanIsLatest ==
  [][count' > count /\ plan # 0 => ExtractPlanBlock(summary') = <<Plan(plan)>>]_vars
=============================================================================
