-------------------------------- MODULE Summary --------------------------------
(***************************************************************************)
(* What a vcc compaction writes: session/compaction/vcc/{normalize,        *)
(* sections,rank,brief,merge}.rs and vcc.rs. A summary is a sequence of    *)
(* lines [a, h, v]: the sort of line, the heading or role it carries, and  *)
(* the number of the entry (or version) it says something of. A rule is    *)
(* the --- between the parts; it separates nothing when nothing follows.   *)
(***************************************************************************)
EXTENDS Cut, Lists

CONSTANTS
  ItemCap,      \* the caps on the items of a section, as one number
  Window,       \* the blocks [Outstanding Context] looks back on
  RecentBlocks, MaxBlocks, BriefBudget,  \* the limits of the ranked selection
  ToolCap,      \* TOOL_CALLS_PER_TURN
  BriefMax      \* BRIEF_MAX_LINES

Headers == <<"goal", "files", "commits", "outstanding", "preferences">>
Tag(h) == [a |-> "tag", h |-> h, v |-> 0]
Item(h, v) == [a |-> "item", h |-> h, v |-> v]
Role(r) == [a |-> "role", h |-> r, v |-> 0]
Line(h, v) == [a |-> "line", h |-> h, v |-> v]
Omitted(what) == [a |-> "omitted", h |-> what, v |-> 0]
Rule == [a |-> "rule", h |-> "", v |-> 0]
Plan(n) == [a |-> "plan", h |-> "", v |-> n]
Skills(n) == [a |-> "skills", h |-> "", v |-> n]
Prose(n) == [a |-> "prose", h |-> "", v |-> n]

First(s, n) == SubSeq(s, 1, Min({n, Len(s)}))
LastOf(s, n) == SubSeq(s, Max({1, Len(s) - n + 1}), Len(s))
Mark(kind, s) == [i \in 1 .. Len(s) |-> Item(kind, s[i])]
\* The parts that say something, with a rule between them.
Join(parts) ==
  LET said == Those(parts, LAMBDA p : p # <<>>)
  IN FlattenSeq([i \in 1 .. Len(said) |->
       IF i = 1 THEN said[i] ELSE <<Rule>> \o said[i]])

-----------------------------------------------------------------------------
\* An entry is one block, as a call has no text with it (see LlmTokens). A bash
\* call and its result are one, another call and its result two. answered says a bash block has its output.
Block(k, e, done) == [k |-> k, v |-> e.v, id |-> e.id, size |-> e.size, answered |-> done]
IsBash(v) == v \in {"bash", "commit"}
Added(bs, e) ==
  CASE e.k \in {"user", "assistant"} -> Append(bs, Block(e.k, e, FALSE))
    [] e.k = "call" -> Append(bs, Block(IF IsBash(e.v) THEN "bash" ELSE "call", e, FALSE))
    [] e.k = "tool" /\ IsBash(e.v) ->
         IF bs # <<>> /\ bs[Len(bs)].k = "bash" /\ ~bs[Len(bs)].answered
         THEN [bs EXCEPT ![Len(bs)].answered = TRUE]
         ELSE Append(bs, Block("bash", [e EXCEPT !.v = "output"], TRUE))
    [] e.k = "tool" /\ ~IsBash(e.v) -> Append(bs, Block("result", e, FALSE))
    [] OTHER -> bs
Normalize(es) == Through(Added, <<>>, es)

Ids(bs, P(_)) == LET s == Those(bs, P) IN [i \in 1 .. Len(s) |-> s[i].id]

\* What the user first asked for, then the latest task (after a marker, 0).
ExtractGoals(bs) ==
  LET tasks == Those(bs, LAMBDA b : b.k = "user" /\ b.v \in {"task", "prefer"})
      scopes == Those(Tail(tasks), LAMBDA b : b.v = "task")
  IN IF tasks = <<>> THEN <<>>
     ELSE IF scopes = <<>> THEN <<tasks[1].id>>
     ELSE <<tasks[1].id, 0, scopes[Len(scopes)].id>>
\* A written file counts as modified, and what is modified is not also created.
FileActivity(bs) ==
  LET touched(v) == Those(bs, LAMBDA b : b.k = "call" /\ b.v = v)
  IN (IF touched("edit") # <<>> THEN <<Item("modified", 0)>> ELSE <<>>)
     \o (IF touched("read") # <<>> THEN <<Item("read", 0)>> ELSE <<>>)
ExtractCommits(bs) == LastOf(Ids(bs, LAMBDA b : b.k = "bash" /\ b.v = "commit"), ItemCap)
\* The oldest of the complaints in the last blocks.
ExtractOutstanding(bs) ==
  First(Ids(LastOf(bs, Window), LAMBDA b : b.k = "assistant" /\ b.v = "trouble"), ItemCap)
ExtractPreferences(bs) ==
  LET prefs == Ids(bs, LAMBDA b : b.k = "user" /\ b.v = "prefer")
  IN First(Those(prefs, LAMBDA id : id \notin ToSet(ExtractGoals(bs))), ItemCap)

Sections(bs) ==
  [goal |-> Mark("goal", ExtractGoals(bs)),
   files |-> FileActivity(bs),
   commits |-> Mark("commits", ExtractCommits(bs)),
   outstanding |-> Mark("outstanding", ExtractOutstanding(bs)),
   preferences |-> Mark("preferences", ExtractPreferences(bs))]

-----------------------------------------------------------------------------
\* How much a block says; the newest of two equal ones goes first.
Score(bs, i) ==
  (IF Len(bs) <= 1 THEN 0 ELSE (24 * (i - 1) + Len(bs) - 1) \div (2 * (Len(bs) - 1)))
  + (CASE bs[i].k = "user" -> 18
       [] bs[i].k = "assistant" -> 10
       [] bs[i].k = "bash" -> IF bs[i].v = "commit" THEN 22 ELSE 8
       [] bs[i].k = "call" -> IF bs[i].v = "edit" THEN 58 ELSE 30
       [] OTHER -> 1)
\* Takes the blocks in this order, passing over what would break the budget.
Take(bs, order, taken) ==
  LET fits(set, i) ==
        /\ Cardinality(set) < MaxBlocks
        /\ bs[i].k # "result"
        /\ MapThenSumSet(LAMBDA j : bs[j].size, set \cup {i}) <= BriefBudget
  IN FoldLeft(LAMBDA set, i : IF fits(set, i) THEN set \cup {i} ELSE set, taken, order)

\* The recent blocks, newest first, then the best of the others; in their order.
SelectBrief(bs) ==
  LET all == [i \in DOMAIN bs |-> i]
      newest == Reverse(LastOf(all, RecentBlocks))
      best == SortSeq(all, LAMBDA i, j :
                \/ Score(bs, i) > Score(bs, j)
                \/ Score(bs, i) = Score(bs, j) /\ i > j)
      chosen == Take(bs, best, Take(bs, newest, {}))
      kept == Those(all, LAMBDA i : i \in chosen)
  IN [n \in DOMAIN kept |-> bs[kept[n]]]

\* Who speaks: a bash command is shown as the user's, any other call as the
\* assistant's.
Speaker(b) == IF b.k \in {"user", "bash"} THEN "user" ELSE "assistant"
\* One line for a block under the heading of its speaker, which is repeated
\* only when the speaker changes; of a run of calls the newest few.
CompileBrief(bs) ==
  LET new(i) == i = 1 \/ Speaker(bs[i - 1]) # Speaker(bs[i])
      turn(i) == Max({j \in 1 .. i : new(j)})
      later(i) == Cardinality({j \in DOMAIN bs : /\ j > i /\ turn(j) = turn(i)
                                                /\ bs[j].k = "call"})
      calls(i) == Cardinality({j \in DOMAIN bs : turn(j) = turn(i) /\ bs[j].k = "call"})
      line(i) ==
        CASE bs[i].k = "call" /\ later(i) >= ToolCap -> <<>>
          [] bs[i].k = "call" /\ later(i) = ToolCap - 1 /\ calls(i) > ToolCap
             -> <<Omitted("calls"), Line(bs[i].k, bs[i].id)>>
          [] OTHER -> <<Line(bs[i].k, bs[i].id)>>
  IN FlattenSeq([i \in DOMAIN bs |->
       (IF new(i) THEN <<Role(Speaker(bs[i]))>> ELSE <<>>) \o line(i)])

\* The newest lines that fit, from the first heading on.
CapBrief(text, max) ==
  LET kept == LastOf(text, max)
      heads == {i \in DOMAIN kept : kept[i].a = "role"}
      clean == IF heads = {} THEN kept ELSE SubSeq(kept, Min(heads), Len(kept))
  IN IF text = <<>> \/ max = 0 THEN <<>>
     ELSE IF Len(text) <= max THEN text
     ELSE <<Omitted("lines")>> \o clean

Tagged(h, items) == IF items = <<>> THEN <<>> ELSE <<Tag(h)>> \o items
FormatSummary(bs) ==
  LET data == Sections(bs)
  IN Join(<<FlattenSeq([i \in DOMAIN Headers |-> Tagged(Headers[i], data[Headers[i]])]),
            CompileBrief(SelectBrief(bs))>>)

-----------------------------------------------------------------------------
IsRule(text, i) == text[i] = Rule /\ i < Len(text)
Rules(text) == {i \in DOMAIN text : IsRule(text, i)}

\* The lines after the heading, up to another heading or a rule.
SectionOf(text, h) ==
  LET tags == {i \in DOMAIN text : text[i] = Tag(h)}
      start == Min(tags)
      stops == {i \in start + 1 .. Len(text) :
                  IsRule(text, i) \/ (text[i].a = "tag" /\ text[i].h # h)}
      end == IF stops = {} THEN Len(text) ELSE Min(stops) - 1
  IN IF tags = {} THEN <<>> ELSE SubSeq(text, start + 1, end)

BriefOf(text) ==
  IF Rules(text) = {} THEN <<>> ELSE SubSeq(text, Max(Rules(text)) + 1, Len(text))

\* A mutant: the skills of the summary before stay in it.
FaultStripActiveSkills(text) == text

StripActiveSkills(text) == Those(text, LAMBDA l : l.a # "skills")

\* The first plan block of the text (the one StripPlanBlock removes), or none.
PlanAt(text) == {i \in DOMAIN text : text[i].a = "plan"}
ExtractPlanBlock(text) == IF PlanAt(text) = {} THEN <<>> ELSE <<text[Min(PlanAt(text))]>>
StripPlanBlock(text) == IF PlanAt(text) = {} THEN text ELSE RemoveAt(text, Min(PlanAt(text)))

MergeFileLines(prev, fresh) ==
  LET lines(kind) == IF Item(kind, 0) \in ToSet(prev \o fresh) THEN <<Item(kind, 0)>> ELSE <<>>
  IN Tagged("files", lines("modified") \o lines("read"))

\* The heading is written again only when both sides have lines.
MergeHeaderSection(h, prev, fresh) ==
  LET clean == Those(prev \o fresh, LAMBDA l : l.a = "item")
  IN IF h = "outstanding" \/ prev = <<>> THEN fresh
     ELSE IF fresh = <<>> THEN prev
     ELSE IF h = "files" THEN MergeFileLines(prev, fresh)
     ELSE Tagged(h, LastOf(Once(clean), ItemCap))

\* A mutant: the brief of the summary before is dropped.
FaultMergeBrief(prev, fresh) == fresh

MergeBrief(prev, fresh) ==
  IF fresh = <<>> THEN prev
  ELSE CapBrief(prev, Max({0, BriefMax - Len(fresh)})) \o fresh

MergePrevious(old, new) ==
  LET plan == IF ExtractPlanBlock(new) # <<>> THEN ExtractPlanBlock(new)
              ELSE ExtractPlanBlock(old)
      fresh == StripPlanBlock(new)
      prev == StripActiveSkills(StripPlanBlock(old))
      heads == FlattenSeq([i \in DOMAIN Headers |->
                 MergeHeaderSection(Headers[i], SectionOf(prev, Headers[i]),
                                    SectionOf(fresh, Headers[i]))])
  IN IF old = <<>> THEN new
     ELSE Join(<<heads, MergeBrief(BriefOf(prev), BriefOf(fresh)), plan>>)
=============================================================================
