------------------------------ MODULE MCHooks ------------------------------
EXTENDS Hooks
Skill(n, source, hooks) == [name |-> n, described |-> TRUE, source |-> source, hooks |-> hooks]
On(e, name, matcher) == [event |-> e, name |-> name, matcher |-> matcher]
A == Skill("a", "global", <<On("PreToolUse", "g", "write"), On("PostToolUse", "l", "all")>>)
AProject == Skill("a", "project", <<On("PreToolUse", "g", "all"), On("PreToolUse", "g", "broken")>>)
ABlank == [AProject EXCEPT !.described = FALSE]
B == Skill("b", "project", <<On("PreToolUse", "h", "all"), On("Stop", "h", "all")>>)
MCInstalls == {{A, ABlank, B}, {A, AProject, B}}
MCScriptSets ==
  { {}, {[source |-> "global", event |-> "PreToolUse", name |-> "s1"],
         [source |-> "project", event |-> "PostToolUse", name |-> "s2"],
         [source |-> "global", event |-> "UserPromptSubmit", name |-> "s1"]} }
============================================================================
