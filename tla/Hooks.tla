-------------------------------- MODULE Hooks --------------------------------
(***************************************************************************)
(* Hooks and skills: which hooks are registered, and what a run of them    *)
(* decides (src/hooks, src/skills.rs, and the places that activate).       *)
(*                                                                         *)
(* The program keeps one registry of hooks, per event in the order they    *)
(* run; a task of the agent works on a copy of its own.  A skill brings    *)
(* hooks while it is active; the user or the model activates it, /new,     *)
(* /resume, a reload and a rolled-back turn rebuild the registry.          *)
(***************************************************************************)
EXTENDS Naturals, Sequences, SequencesExt, FiniteSets

CONSTANTS
  Labels,       \* names of skills and hooks
  Tools,        \* names of tools
  Installs,     \* the sets of skill files a machine may hold
  ScriptSets,   \* the sets of scripts the hook directories may hold
  Unknown,      \* a skill name no file has
  MaxTurns,     \* bound: agent tasks started
  MaxCalls,     \* bound: calls and activations of one task
  MaxEdits      \* bound: changes of the directories' scripts

Events == {"UserPromptSubmit", "PreToolUse", "PostToolUse", "Stop"}
Sources == <<"project", "global">>     \* load_all_hooks: the project's first
None == "none"
NoHeader == {None}

\* A hook in the front matter of a skill, a skill's file, a registered hook.
FileHook == [event : Events, name : Labels, matcher : Tools \cup {"all", "broken"}]
SkillFile == [name : Labels, described : BOOLEAN, source : {"project", "global"},
              hooks : Seq(FileHook)]
Hook == [skill : Labels \cup {None}, name : Labels, tools : SUBSET Tools]

ASSUME HooksAssumption ==
  /\ None \notin Tools \cup Labels
  /\ {Unknown, "s1", "s2"} \subseteq Labels
  /\ \A files \in Installs : files \subseteq SkillFile

\* The elements of s that are in keep, in their order.
Only(s, keep) ==
  LET those[n \in 0..Len(s)] ==
        IF n = 0 THEN <<>>
        ELSE IF s[n] \in keep THEN Append(those[n - 1], s[n]) ELSE those[n - 1]
  IN those[Len(s)]

VARIABLES
  scripts,   \* on disk: the scripts of the two hook directories
  loaded,    \* app.config.skills, parsed at the start only
  active,    \* app.active_skills, a HashSet
  header,    \* the session header's activated_skills, or NoHeader: no session
  saved,     \* headers of the sessions left behind
  registry,  \* app.config.hook_registry
  phase,     \* what the program is doing
  local,     \* the running task's copy of the registry
  channel,   \* SkillActivation events not read yet
  run,       \* the run of hooks under way, or the last one
  before,    \* pre_turn_skills and whether the turn created the session
  turns, calls, edits

vars == <<scripts, loaded, active, header, saved, registry, phase, local,
          channel, run, before, turns, calls, edits>>
task == <<local, channel>>
bounds == <<turns, calls, edits>>

(***************************************************************************)
(* Skills.  Of files with one name the project's replace the global ones,  *)
(* and of those the last that read_dir yields stays; one that does not     *)
(* parse or has no description never enters the map.                       *)
(***************************************************************************)
Described(files, n) == {f \in files : f.name = n /\ f.described}
Winners(files, n) ==
  LET project == {f \in Described(files, n) : f.source = "project"}
  IN  IF project # {} THEN project ELSE Described(files, n)

Names(files) == {f.name : f \in {g \in files : g.described}}
LoadSkills(files) ==
  {s \in [Names(files) -> files] : \A n \in Names(files) : s[n] \in Winners(files, n)}

\* A matcher that does not compile never fires, an absent one always does.
Matched(matcher) ==
  CASE matcher = "all" -> Tools
    [] matcher = "broken" -> {}
    [] OTHER -> Tools \cap {matcher}

SkillHooks(skill, e) ==
  LET own == Only(skill.hooks, {h \in FileHook : h.event = e})
  IN  [i \in DOMAIN own |-> [skill |-> skill.name, name |-> own[i].name,
                             tools |-> Matched(own[i].matcher)]]

DirectoryHook(name) == [skill |-> None, name |-> name, tools |-> Tools]

\* load_directory_hooks: the scripts of one directory, sorted by name.
InOrder == <<"s1", "s2">>
LoadDirectory(files, source, e) ==
  LET there == Only(InOrder, {n \in ToSet(InOrder) :
                                [source |-> source, event |-> e, name |-> n] \in files})
  IN  [i \in DOMAIN there |-> DirectoryHook(there[i])]

LoadAll(files) ==
  [e \in Events |-> LoadDirectory(files, Sources[1], e) \o LoadDirectory(files, Sources[2], e)]

RemoveSkillHooks(reg, n) == [e \in Events |-> Only(reg[e], {h \in Hook : h.skill # n})]

\* Mutant: a skill's hooks added without removing those it has.
FaultRegister(reg, skill) ==
  [e \in Events |-> reg[e] \o SkillHooks(skill, e)]
Register(reg, skill) ==
  LET without == RemoveSkillHooks(reg, skill.name)
  IN  [e \in Events |-> without[e] \o SkillHooks(skill, e)]

RegisterName(reg, n) == IF n \in DOMAIN loaded THEN Register(reg, loaded[n]) ELSE reg

\* The registry once the skills of these names were registered one by one.
RegisterAll(reg, names) ==
  LET after[n \in 0..Len(names)] ==
        IF n = 0 THEN reg ELSE RegisterName(after[n - 1], names[n])
  IN after[Len(names)]

\* rebuild_hook_registry walks a HashSet: the skills come in any order.
Rebuilt(set) ==
  {RegisterAll(LoadAll(scripts), order) :
     order \in {o \in [1..Cardinality(set) -> set] : ToSet(o) = set}}

(***************************************************************************)
(* How one hook's script ends, and whether execute_hook reports the exit   *)
(* code 2.  One that could not be spawned, is not done after the time      *)
(* limit, or ended but left a child with its output open is reported as 1, *)
(* one that was killed as -1: both are failures, not vetoes.               *)
(***************************************************************************)
Endings == {"ok", "fails", "unfinished", "vetoes", "vetoes_pipe_open"}
Vetoes(ending) == ending = "vetoes"

NoRun == [event |-> None, tool |-> None, todo |-> <<>>, results |-> <<>>, blocked |-> FALSE]
Begin(reg, e, tool) ==
  [event |-> e, tool |-> tool, todo |-> reg[e], results |-> <<>>, blocked |-> FALSE]

\* Mutant: PostToolUse ends at the first veto as well.
FaultStopsOnBlock(e) == TRUE
\* run_tui_hooks and PreToolUse end at the first veto, PostToolUse goes on.
StopsOnBlock(e) == e # "PostToolUse"

\* One hook of run_tool_hooks or run_tui_hooks: skipped, or run to its end.
Execute(ending) ==
  LET hook == Head(run.todo)
      vetoed == Vetoes(ending)
      runs == run.tool = None \/ run.tool \in hook.tools
  IN  run' = [run EXCEPT
        !.todo = IF runs /\ vetoed /\ StopsOnBlock(run.event) THEN <<>> ELSE Tail(@),
        !.blocked = @ \/ (runs /\ vetoed),
        !.results = IF runs THEN Append(@, [hook |-> hook, ending |-> ending]) ELSE @]

RunHook ==
  /\ run.todo # <<>>
  /\ \E ending \in Endings : Execute(ending)
  /\ UNCHANGED <<scripts, loaded, active, header, saved, registry, phase, task, before, bounds>>

Ran == run.todo = <<>>
-----------------------------------------------------------------------------
Init ==
  /\ scripts \in ScriptSets
  /\ \E files \in Installs : loaded \in LoadSkills(files)
  /\ active = {}
  /\ header = NoHeader
  /\ saved = {}
  /\ registry = LoadAll(scripts)
  /\ phase = "idle"
  /\ local = registry
  /\ channel = <<>>
  /\ run = NoRun
  /\ before = [active |-> {}, created |-> FALSE]
  /\ turns = 0 /\ calls = 0 /\ edits = 0

Idle == phase = "idle"

AddActivated(h, n) == IF h = NoHeader THEN NoHeader ELSE h \cup {n}

\* App::activate_skill: hooks are registered only when the skill was not active.
ActivateSkill(n) ==
  /\ active' = active \cup {n}
  /\ registry' = IF n \in active THEN registry ELSE RegisterName(registry, n)

\* start_turn with a message, or with /skillname; then the prompt's hooks.
Submit ==
  /\ Idle
  /\ turns < MaxTurns
  /\ turns' = turns + 1
  /\ calls' = 0
  /\ before' = [active |-> active, created |-> FALSE]
  /\ \/ UNCHANGED <<active, registry, header>>
     \/ \E n \in DOMAIN loaded : ActivateSkill(n) /\ header' = AddActivated(header, n)
  /\ run' = Begin(registry', "UserPromptSubmit", None)
  /\ phase' = "prompt"
  /\ UNCHANGED <<scripts, loaded, saved, task, edits>>

\* A veto ends the turn; a skill it activated stays active.
PromptBlocked ==
  /\ phase = "prompt" /\ Ran /\ run.blocked
  /\ phase' = "idle"
  /\ run' = NoRun
  /\ UNCHANGED <<scripts, loaded, active, header, saved, registry, task, before, bounds>>

\* Mutant: the header of a new session is not synced with the active skills.
FaultSyncedHeader == {}
SyncedHeader == active

\* The session is created when there is none, and its header synced.
SetUp ==
  /\ phase = "prompt" /\ Ran /\ ~run.blocked
  /\ header' = IF header = NoHeader THEN SyncedHeader ELSE header
  /\ before' = [before EXCEPT !.created = header = NoHeader]
  /\ phase' = "ready"
  /\ run' = NoRun
  /\ UNCHANGED <<scripts, loaded, active, saved, registry, task, bounds>>

\* undo_turn_setup: PreCompact vetoed the compaction, or it was cancelled.
UndoTurnSetup ==
  /\ phase = "ready"
  /\ active' = before.active
  /\ header' = IF before.created THEN NoHeader ELSE header
  /\ registry' \in Rebuilt(before.active)
  /\ phase' = "idle"
  /\ UNCHANGED <<scripts, loaded, saved, task, run, before, bounds>>

\* restart_agent: the task gets its copy of the registry.
Restart ==
  /\ local' = registry
  /\ channel' = <<>>
  /\ phase' = "running"

Launch ==
  /\ phase = "ready"
  /\ Restart
  /\ run' = NoRun
  /\ UNCHANGED <<scripts, loaded, active, header, saved, registry, before, bounds>>

-----------------------------------------------------------------------------
(* The agent task, and the turn loop that reads what it sends. *)

Free == phase = "running" /\ run = NoRun

\* The model's activate_skill; a name without a skill is announced as well.
ActivateByModel ==
  /\ Free
  /\ calls < MaxCalls
  /\ calls' = calls + 1
  /\ \E n \in DOMAIN loaded \cup {Unknown} :
       /\ channel' = Append(channel, n)
       /\ local' = RegisterName(local, n)
  /\ UNCHANGED <<scripts, loaded, active, header, saved, registry, phase, run, before, turns, edits>>

\* handle_skill_activation_event: registers whether it was active or not.
Registered(n) == RegisterName(registry, n)

ApplyActivation ==
  /\ channel # <<>>
  /\ active' = active \cup {Head(channel)}
  /\ registry' = Registered(Head(channel))
  /\ header' = AddActivated(header, Head(channel))
  /\ channel' = Tail(channel)
  /\ UNCHANGED <<scripts, loaded, saved, phase, local, run, before, bounds>>

CallTool ==
  /\ Free
  /\ calls < MaxCalls
  /\ calls' = calls + 1
  /\ \E t \in Tools : run' = Begin(local, "PreToolUse", t)
  /\ UNCHANGED <<scripts, loaded, active, header, saved, registry, phase, task, before, turns, edits>>

ToolBlocked ==
  /\ phase = "running" /\ run.event = "PreToolUse" /\ Ran /\ run.blocked
  /\ run' = NoRun
  /\ UNCHANGED <<scripts, loaded, active, header, saved, registry, phase, task, before, bounds>>

\* The tool runs; only a success has PostToolUse hooks.
RunTool ==
  /\ phase = "running" /\ run.event = "PreToolUse" /\ Ran /\ ~run.blocked
  /\ \E ok \in BOOLEAN :
       run' = IF ok THEN Begin(local, "PostToolUse", run.tool) ELSE NoRun
  /\ UNCHANGED <<scripts, loaded, active, header, saved, registry, phase, task, before, bounds>>

\* The objections of the results go below the result the model reads.
ToolDone ==
  /\ phase = "running" /\ run.event = "PostToolUse" /\ Ran
  /\ run' = NoRun
  /\ UNCHANGED <<scripts, loaded, active, header, saved, registry, phase, task, before, bounds>>

\* Done is read after everything the task sent; a Stop veto starts it again.
Finish ==
  /\ Free /\ channel = <<>>
  /\ run' = Begin(registry, "Stop", None)
  /\ phase' = "stopping"
  /\ UNCHANGED <<scripts, loaded, active, header, saved, registry, task, before, bounds>>

Stopped ==
  /\ phase = "stopping" /\ Ran
  /\ run' = NoRun
  /\ \/ ~run.blocked /\ phase' = "idle" /\ UNCHANGED <<task, bounds>>
     \/ /\ run.blocked /\ turns < MaxTurns
        /\ Restart /\ turns' = turns + 1 /\ calls' = 0 /\ UNCHANGED edits
  /\ UNCHANGED <<scripts, loaded, active, header, saved, registry, before>>

-----------------------------------------------------------------------------
(* Commands; they run only between turns. *)

Leave == IF header = NoHeader THEN saved ELSE saved \cup {header}

New ==
  /\ Idle
  /\ saved' = Leave
  /\ header' = NoHeader
  /\ active' = {}
  /\ registry' \in Rebuilt({})
  /\ UNCHANGED <<scripts, loaded, phase, task, run, before, bounds>>

Resume ==
  /\ Idle
  /\ \E h \in saved :
       /\ header' = h
       /\ active' = h
       /\ registry' \in Rebuilt(h)
  /\ saved' = Leave
  /\ UNCHANGED <<scripts, loaded, phase, task, run, before, bounds>>

ReloadHooks ==
  /\ Idle
  /\ registry' \in Rebuilt(active)
  /\ UNCHANGED <<scripts, loaded, active, header, saved, phase, task, run, before, bounds>>

\* The user changes the scripts; nothing sees it before the next rebuild.
EditScripts ==
  /\ edits < MaxEdits
  /\ phase \in {"idle", "ready"}     \* no other phase reads the directories
  /\ edits' = edits + 1
  /\ scripts' \in ScriptSets
  /\ UNCHANGED <<loaded, active, header, saved, registry, phase, task, run, before, turns, calls>>

Next ==
  \/ RunHook \/ Submit \/ PromptBlocked \/ SetUp \/ UndoTurnSetup \/ Launch
  \/ ActivateByModel \/ ApplyActivation \/ CallTool \/ ToolBlocked \/ RunTool \/ ToolDone
  \/ Finish \/ Stopped \/ New \/ Resume \/ ReloadHooks \/ EditScripts

Spec == Init /\ [][Next]_vars
-----------------------------------------------------------------------------
(* Whatever sequence of activations, re-activations, roll-backs, /new,     *)
(* /resume and reloads led here, the registry holds each hook of each      *)
(* active skill exactly once, in the file's order, and none of a skill     *)
(* that is not active (hooks/mod.rs: "skill hooks track the active set     *)
(* exactly").                                                              *)
OfSkill(reg, e, n) == Only(reg[e], {h \in Hook : h.skill = n})
RegistryExact ==
  \A e \in Events : \A n \in DOMAIN loaded :
    OfSkill(registry, e, n) = IF n \in active THEN SkillHooks(loaded[n], e) ELSE <<>>

(* The task's copy and the program's registry part only by the activations *)
(* still in the channel: read in order, they make the two equal, the order *)
(* in which hooks run included.                                            *)
RegistriesAgree ==
  phase = "running" => local = RegisterAll(registry, channel)

RegistriesExact == RegistryExact /\ RegistriesAgree

(* A tool runs only after every hook of the task's registry that matches   *)
(* it ran to its end, in order, and none vetoed (docs/hooks.md: PreToolUse *)
(* "Blocked - the action is vetoed"); a hook of another tool neither runs  *)
(* nor ends the run.                                                       *)
Matching(reg, e, tool) == Only(reg[e], {h \in Hook : tool \in h.tools})
HooksRan == [i \in DOMAIN run.results |-> run.results[i].hook]
VetoHolds ==
  (phase = "running" /\ run.event = "PreToolUse" /\ Ran /\ ~run.blocked) =>
     /\ HooksRan = Matching(local, "PreToolUse", run.tool)
     /\ \A i \in DOMAIN run.results : run.results[i].ending # "vetoes"

(* Every PostToolUse hook that matches runs and is heard, an objection of  *)
(* an earlier one notwithstanding.                                         *)
ObjectionsHeard ==
  (phase = "running" /\ run.event = "PostToolUse" /\ Ran) =>
     HooksRan = Matching(local, "PostToolUse", run.tool)

HooksHeard == VetoHolds /\ ObjectionsHeard

(* A skill active in a session is in its header, so that it is active      *)
(* again after a quit and /resume (docs/hooks.md), also one activated      *)
(* before the session had a header.                                        *)
ActivePersisted == (header # NoHeader /\ phase # "prompt") => active \subseteq header

(* docs/hooks.md, exit codes: 2 means the action is vetoed.                *)
ExitTwoVetoes ==
  (phase = "running" /\ run.event = "PreToolUse" /\ Ran /\ ~run.blocked) =>
     \A i \in DOMAIN run.results : run.results[i].ending # "vetoes_pipe_open"

(* hooks/mod.rs: names are tagged "for deterministic ordering"; a reload   *)
(* with nothing changed on disk would then leave the order alone.          *)
OrderKept == [][(ReloadHooks /\ edits = 0) => registry' = registry]_vars
=============================================================================
