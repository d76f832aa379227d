------------------------------ MODULE MainLoop -------------------------------
(***************************************************************************)
(* The application around its turns: the main loop of src/lib.rs, the      *)
(* commands of src/commands.rs, the set-up and roll-back of a turn in      *)
(* src/turn.rs, and the compaction that runs between turns                 *)
(* (poll_compaction_task in src/event_loop.rs).                            *)
(*                                                                         *)
(* The loop is one thread: each action is one key the user presses, with   *)
(* the hooks it runs, or one poll.  Only the compaction task runs beside   *)
(* it.  A turn is seen from outside: it may activate skills and compact    *)
(* (modules TurnLoop and AgentLoop hold what happens inside).              *)
(***************************************************************************)
EXTENDS Integers, Sequences, FiniteSets

CONSTANTS Sessions,        \* bound: sessions ever created
          Skills,          \* the skills configured
          Inputs,          \* what the user may start a turn with
          MaxTurns,        \* bound: attempts to start a turn
          MaxCompactions,  \* bound: compactions started
          MaxQuits,        \* bound: times the program is left and started again
          DiskFails,       \* whether writing a session file may fail
          None             \* no session, no compaction, no verdict

ASSUME MainAssumption ==
  /\ None \notin Sessions
  /\ Skills \cap {"text", "init"} = {}
  /\ Inputs \subseteq Skills \cup {"text", "init"}
  /\ MaxTurns \in Nat /\ MaxCompactions \in Nat /\ MaxQuits \in Nat
  /\ DiskFails \in BOOLEAN

VARIABLES
  ui,        \* app.modal.state; "Turn" while process_agent_events runs
  turn,      \* the turn in progress: none, running, compacting
  cur,       \* the session of the store, None when there is none
  sess,      \* the sessions: message count, history rewrites, header skills
  baseline,  \* the history the history guard compares with
  active,    \* active_skills
  hooks,     \* skills whose hooks are in the hook registry
  chat,      \* the user messages shown, by number of the attempt
  pending,   \* pending_turn
  task,      \* compaction_task: none, running, done, failed
  snap,      \* the history the compaction in flight was computed from
  context,   \* pending_precompact_context: the compaction it was made for
  trigger,   \* compaction_trigger
  cause,     \* what really started the compaction in flight
  turns, launched, comps, quits,  \* attempts, those launched, compactions, quits
  verdict    \* what became of the latest attempt

compVars == <<task, snap, context, trigger, cause, comps>>
turnVars == <<turns, launched, verdict, pending>>
vars == <<ui, turn, cur, sess, baseline, active, hooks, chat, compVars, turnVars, quits>>

-----------------------------------------------------------------------------
Blank == [file |-> "unused", size |-> 0, epoch |-> 0, skills |-> {}]
NoTurn == [attempt |-> 0, created |-> FALSE, shown |-> 0, skills |-> {}]
Live == {s \in Sessions : sess[s].file = "live"}

\* The history that requests are built from.
History(ss, s) == IF s = None THEN <<None, 0, 0>> ELSE <<s, ss[s].epoch, ss[s].size>>

\* Fault: commands and turns do not ask whether a compaction is in flight.
NeverBusy == FALSE
Busy == task # "none"

\* start_turn serves the editor in the idle screen, and behind "Compacting".
Typing == ui \in {"Idle", "Compacting"} /\ ~Busy
Commanding == Typing \/ (ui = "CommandPalette" /\ ~Busy)

\* A process starts with an empty store, and with the popup that offers /init
\* when the project has no AGENTS.md.
Init ==
  /\ ui \in {"Idle", "InitPopup"}
  /\ turn = "none"
  /\ cur = None
  /\ baseline = <<>>
  /\ active = {}
  /\ hooks = {}
  /\ chat = <<>>
  /\ pending = NoTurn
  /\ task = "none"
  /\ snap = <<None, 0, 0>>
  /\ context = None
  /\ trigger = "auto"
  /\ cause = None
  /\ sess = [s \in Sessions |-> Blank]
  /\ turns = 0
  /\ launched = {}
  /\ comps = 0
  /\ quits = 0
  /\ verdict = None

-----------------------------------------------------------------------------
(* Setting up a turn (run_turn_with_input).  /init shows a message of its  *)
(* own first; /skillname activates the skill before anything else.         *)

New(in) == (Skills \cap {in}) \ active
Before(in) == IF in = "init" THEN Append(chat, turns + 1) ELSE chat
\* add_activated_skill, of the header in memory; the file may not have it when
\* writing it fails (only the log says so), which SessionStore is about.
Marked(ss, s, ks) == IF s = None THEN ss ELSE [ss EXCEPT ![s].skills = @ \cup ks]

\* Where a turn may be started from.
Starting(in) ==
  /\ turns < MaxTurns
  /\ in \in Inputs
  /\ \/ Typing
     \/ in = "init" /\ ui \in {"CommandPalette", "InitPopup"} /\ ~Busy
  /\ turns' = turns + 1

\* What the hooks and the session find: the skill of the input is active.
Entered(in) ==
  /\ active' = active \cup New(in)
  /\ hooks' = hooks \cup New(in)

\* A UserPromptSubmit hook vetoes the prompt.
PromptBlocked(in) ==
  /\ Starting(in)
  /\ Entered(in)
  /\ ui' = "Idle"
  /\ chat' = Before(in)
  /\ sess' = Marked(sess, cur, Skills \cap {in})
  /\ verdict' = "blocked"
  /\ UNCHANGED <<turn, cur, baseline, compVars, launched, pending, quits>>

\* Writing the header of a new session fails.  For a skill the error becomes
\* a message; otherwise it ends the program, like Quit.  What the write left
\* in the file is the subject of SessionStore.
CreateFails(in) ==
  /\ DiskFails /\ cur = None
  /\ in \in Skills
  /\ Starting(in)
  /\ Entered(in)
  /\ ui' = "Idle"
  /\ chat' = Append(Before(in), turns + 1)
  /\ verdict' = "failed"
  /\ UNCHANGED <<turn, cur, sess, baseline, compVars, launched, pending, quits>>

\* Fault: a new session only learns the skill of its first message.
HeaderForgets(in) == Skills \cap {in}
HeaderSkills(in) == active \cup New(in)

\* The store once the turn has a session.
Stores(in) ==
  IF cur # None
  THEN {[cur |-> cur, sess |-> Marked(sess, cur, Skills \cap {in}), created |-> FALSE]}
  ELSE {[cur |-> s, created |-> TRUE,
         sess |-> [sess EXCEPT ![s] = [file |-> "live", size |-> 0, epoch |-> 0,
                                       skills |-> HeaderSkills(in)]]] :
        s \in {s \in Sessions : sess[s].file = "unused"}}

\* restart_agent: the user message joins the session, and a task takes over.
Launch(ss, s, attempt) ==
  /\ ui' = "Turn"
  /\ turn' = "running"
  /\ sess' = [ss EXCEPT ![s].size = @ + 1]
  /\ launched' = launched \cup {attempt}

\* The context is far from the threshold: the turn starts.
StartTurn(in) ==
  /\ Starting(in)
  /\ Entered(in)
  /\ chat' = Append(Before(in), turns + 1)
  /\ \E st \in Stores(in) :
       /\ cur' = st.cur
       /\ baseline' = IF st.created THEN <<>> ELSE baseline
       /\ Launch(st.sess, st.cur, turns + 1)
  /\ verdict' = "launched"
  /\ UNCHANGED <<compVars, pending, quits>>

\* A compaction of the session s of ss starts.
Compact(ss, s, why, ctx) ==
  /\ comps < MaxCompactions
  /\ comps' = comps + 1
  /\ snap' = History(ss, s)
  /\ cause' = why
  /\ context' = IF ctx THEN comps + 1 ELSE context

\* Fault: the length is taken after the message was shown.
LenWithMessage(in) == Len(Before(in)) + 1
PreTurnLen(in) == Len(Before(in))

\* The context is close to the threshold: compaction goes first, the turn is
\* kept for later.  PreCompact hooks may add text for the summary.
DeferTurn(in, ctx) ==
  /\ Starting(in)
  /\ Entered(in)
  /\ chat' = Append(Before(in), turns + 1)
  /\ \E st \in Stores(in) :
       /\ cur' = st.cur
       /\ sess' = st.sess
       /\ baseline' = IF st.created THEN <<>> ELSE baseline
       /\ Compact(st.sess, st.cur, "auto", ctx)
       /\ pending' = [attempt |-> turns + 1, created |-> st.created,
                      shown |-> PreTurnLen(in), skills |-> active]
  /\ ui' = "Compacting"
  /\ task' = "running"
  /\ trigger' = "auto"
  /\ verdict' = "deferred"
  /\ UNCHANGED <<turn, launched, quits>>

\* remove_file's error is ignored; it is assumed to work.
Removed(ss, s) == [ss EXCEPT ![s] = [Blank EXCEPT !.file = "gone"]]

\* undo_turn_setup: the chat, the skills, their hooks and a session created
\* for the turn are taken back; so is the text meant for the summary.
UndoSetup(st, shown, skills) ==
  /\ chat' = shown
  /\ context' = None
  /\ active' = skills
  /\ hooks' = skills
  /\ IF st.created
     THEN cur' = None /\ sess' = Removed(st.sess, st.cur) /\ baseline' = <<>>
     ELSE cur' = st.cur /\ sess' = st.sess /\ UNCHANGED baseline

\* A PreCompact hook vetoes the compaction that would have gone first.
VetoTurn(in) ==
  /\ Starting(in)
  /\ \E st \in Stores(in) : UndoSetup(st, Before(in), active)
  /\ ui' = "Idle"
  /\ verdict' = "vetoed"
  /\ UNCHANGED <<turn, task, snap, trigger, cause, comps, launched, pending, quits>>

-----------------------------------------------------------------------------
(* The compaction between turns.                                           *)

\* execute_compact, from /compact or from the prompt for the turns to keep;
\* without a session it only says so.
ManualCompact ==
  /\ Typing \/ (ui = "CompactKeepPrompt" /\ ~Busy)
  /\ cur # None
  /\ Compact(sess, cur, "manual", FALSE)
  /\ ui' = "Compacting"
  /\ task' = "running"
  /\ trigger' = "manual"
  /\ UNCHANGED <<turn, cur, sess, baseline, active, hooks, chat, turnVars, quits>>

\* An empty session has nothing to compact.
TaskEnds ==
  /\ task = "running"
  /\ \/ task' = "done" /\ snap[3] > 0
     \/ task' = "failed"
  /\ UNCHANGED <<ui, turn, cur, sess, baseline, active, hooks, chat, snap, context,
                 trigger, cause, comps, turnVars, quits>>

\* handle_compaction_result, for the session the store holds now: the history
\* is rewritten and the guard starts over, unless the plan failed or writing
\* the file did (after the memory was changed).  The context is used up.
Outcomes(ok) ==
  LET rewritten == [sess EXCEPT ![cur].epoch = @ + 1]
  IN IF ok THEN {[sess |-> rewritten, baseline |-> <<>>, well |-> TRUE]}
                \cup (IF DiskFails THEN {[sess |-> rewritten, baseline |-> baseline, well |-> FALSE]}
                      ELSE {})
           ELSE {[sess |-> sess, baseline |-> baseline, well |-> FALSE]}

NoCompaction ==
  /\ task' = "none"
  /\ snap' = <<None, 0, 0>>
  /\ cause' = None
  /\ UNCHANGED <<trigger, comps>>

\* poll_compaction_task with no turn waiting.
PollManual ==
  /\ task \in {"done", "failed"}
  /\ pending = NoTurn
  /\ \E r \in Outcomes(task = "done") : sess' = r.sess /\ baseline' = r.baseline
  /\ NoCompaction
  /\ context' = None
  /\ ui' = "Idle"
  /\ UNCHANGED <<turn, cur, active, hooks, chat, turnVars, quits>>


\* With a turn waiting: it starts, whatever became of the compaction.
PollDeferred ==
  /\ task \in {"done", "failed"}
  /\ pending # NoTurn
  /\ \E r \in Outcomes(task = "done") :
       Launch(r.sess, cur, pending.attempt) /\ baseline' = r.baseline
  /\ NoCompaction
  /\ context' = None
  /\ pending' = NoTurn
  /\ verdict' = "launched"
  /\ UNCHANGED <<cur, active, hooks, chat, turns, quits>>

\* Fault: only Esc and Ctrl+C abort the compaction.
LeaveCompactingByEsc(screen) == screen = "Idle"
LeavesCompacting(screen) == screen # "Compacting"

\* A key changes the screen while a compaction runs: Esc and Ctrl+C show the
\* idle screen, F1 the help, Ctrl+G the palette.  The main loop then aborts
\* the task and rolls the waiting turn back.
LeaveCompacting ==
  /\ ui = "Compacting"
  /\ ui' \in {"Idle", "HelpPopup", "CommandPalette"}
  /\ IF LeavesCompacting(ui')
     THEN /\ NoCompaction
          /\ IF pending = NoTurn
             THEN UNCHANGED <<cur, sess, baseline, active, hooks, chat, context>>
             ELSE UndoSetup([cur |-> cur, sess |-> sess, created |-> pending.created],
                            SubSeq(chat, 1, pending.shown), pending.skills)
          /\ pending' = NoTurn
          /\ verdict' = IF pending = NoTurn THEN verdict ELSE "cancelled"
     ELSE UNCHANGED <<cur, sess, baseline, active, hooks, chat, compVars, pending, verdict>>
  /\ UNCHANGED <<turn, turns, launched, quits>>

-----------------------------------------------------------------------------
(* Screens and commands.  A command refused because of a compaction only   *)
(* shows a note.                                                           *)

\* The keys that only change the screen.
ShowScreen ==
  /\ \/ ui = "Idle" /\ ui' \in {"HelpPopup", "CommandPalette"}
     \/ ui = "CommandPalette" /\ ui' \in {"Idle", "CompactKeepPrompt", "HelpPopup"}
     \/ Commanding /\ Live # {} /\ ui' = "SessionSelect"
     \/ ui = "CompactKeepPrompt" /\ ui' = "HelpPopup"
     \/ ui \in {"HelpPopup", "CompactKeepPrompt", "SessionSelect", "InitPopup"} /\ ui' = "Idle"
  /\ UNCHANGED <<turn, cur, sess, baseline, active, hooks, chat, compVars, turnVars, quits>>

\* /new
NewSession ==
  /\ Commanding
  /\ ui' = IF ui = "CommandPalette" THEN "Idle" ELSE ui
  /\ cur' = None
  /\ chat' = <<>>
  /\ active' = {}
  /\ hooks' = {}
  /\ baseline' = <<>>
  /\ UNCHANGED <<turn, sess, compVars, turnVars, quits>>

\* /clear
ClearChat ==
  /\ Typing \/ ui = "CommandPalette"
  /\ ui' = IF ui = "CommandPalette" THEN "Idle" ELSE ui
  /\ chat' = <<>>
  /\ UNCHANGED <<turn, cur, sess, baseline, active, hooks, compVars, turnVars, quits>>

\* Fault: the guard is not told that another session was resumed.
LoadKeepsBaseline(s) ==
  /\ ui = "SessionSelect"
  /\ s \in Live
  /\ ui' = "Idle"
  /\ cur' = s
  /\ chat' = <<>>
  /\ active' = sess[s].skills
  /\ hooks' = sess[s].skills
  /\ UNCHANGED <<turn, sess, baseline, compVars, turnVars, quits>>

\* do_load_session (the messages it shows all belong to launched turns, and
\* are left out).  It asks for no compaction: opening the list did.
LoadSession(s) ==
  /\ ui = "SessionSelect"
  /\ s \in Live
  /\ ui' = "Idle"
  /\ cur' = s
  /\ chat' = <<>>
  /\ active' = sess[s].skills
  /\ hooks' = sess[s].skills
  /\ baseline' = <<>>
  /\ UNCHANGED <<turn, sess, compVars, turnVars, quits>>

\* Ctrl+D on any screen (or an error that reaches run), then a new process.
Quit ==
  /\ ui # "Turn"
  /\ quits < MaxQuits
  /\ quits' = quits + 1
  /\ ui' \in {"Idle", "InitPopup"}
  /\ cur' = None
  /\ baseline' = <<>>
  /\ active' = {}
  /\ hooks' = {}
  /\ chat' = <<>>
  /\ pending' = NoTurn
  /\ task' = "none"
  /\ snap' = <<None, 0, 0>>
  /\ context' = None
  /\ trigger' = "auto"
  /\ cause' = None
  /\ UNCHANGED <<turn, sess, turns, launched, comps, verdict>>

-----------------------------------------------------------------------------
(* A turn, seen from the main loop.                                        *)

\* The first request sets the baseline of the history guard.
AgentRequests ==
  /\ turn = "running"
  /\ baseline = <<>>
  /\ baseline' = <<cur, sess[cur].epoch>>
  /\ UNCHANGED <<ui, turn, cur, sess, active, hooks, chat, compVars, turnVars, quits>>

\* The model activates a skill: handle_skill_activation_event.
AgentActivates(k) ==
  /\ turn = "running"
  /\ active' = active \cup {k}
  /\ hooks' = hooks \cup {k}
  /\ sess' = Marked(sess, cur, {k})
  /\ UNCHANGED <<ui, turn, cur, baseline, chat, compVars, turnVars, quits>>

\* The task asks for compaction and the PreCompact hooks let it pass.
TurnCompacts(ctx) ==
  /\ turn = "running"
  /\ Compact(sess, cur, "auto", ctx)
  /\ turn' = "compacting"
  /\ UNCHANGED <<ui, cur, sess, baseline, active, hooks, chat, task, trigger, turnVars, quits>>

\* The mid-turn compaction ends: the agent is restarted, or the turn is over.
TurnCompacted(ok) ==
  /\ turn = "compacting"
  /\ ok => snap[3] > 0
  /\ \E r \in Outcomes(ok) :
       /\ baseline' = r.baseline
       /\ sess' = IF r.well THEN [r.sess EXCEPT ![cur].size = @ + 1] ELSE r.sess
       /\ turn' = IF r.well THEN "running" ELSE "none"
       /\ ui' = IF r.well THEN ui ELSE "Idle"
  /\ NoCompaction
  /\ context' = None
  /\ UNCHANGED <<cur, active, hooks, chat, turnVars, quits>>

\* Esc aborts the mid-turn compaction and ends the turn.
TurnCompactionCancelled ==
  /\ turn = "compacting"
  /\ turn' = "none"
  /\ ui' = "Idle"
  /\ NoCompaction
  /\ UNCHANGED <<cur, sess, baseline, active, hooks, chat, context, turnVars, quits>>

\* Any other end of the turn.
TurnEnds ==
  /\ turn = "running"
  /\ turn' = "none"
  /\ ui' = "Idle"
  /\ UNCHANGED <<cur, sess, baseline, active, hooks, chat, compVars, turnVars, quits>>

Next ==
  \/ \E in \in Inputs : \/ PromptBlocked(in)
                        \/ CreateFails(in)
                        \/ StartTurn(in)
                        \/ \E ctx \in BOOLEAN : DeferTurn(in, ctx)
                        \/ VetoTurn(in)
  \/ ManualCompact
  \/ TaskEnds
  \/ PollManual
  \/ PollDeferred
  \/ LeaveCompacting
  \/ ShowScreen
  \/ NewSession
  \/ ClearChat
  \/ \E s \in Sessions : LoadSession(s)
  \/ Quit
  \/ AgentRequests
  \/ \E k \in Skills : AgentActivates(k)
  \/ \E ctx \in BOOLEAN : TurnCompacts(ctx)
  \/ \E ok \in BOOLEAN : TurnCompacted(ok)
  \/ TurnCompactionCancelled
  \/ TurnEnds

Spec == Init /\ [][Next]_vars

\* The compaction task runs to its end, and the loop polls on every iteration
\* (at least every 50 ms) whatever the user does.
FairSpec == Spec /\ WF_vars(TaskEnds) /\ WF_vars(PollManual) /\ WF_vars(PollDeferred)

-----------------------------------------------------------------------------
TypeOK ==
  /\ ui \in {"Idle", "Turn", "Compacting", "SessionSelect", "InitPopup", "CommandPalette",
             "HelpPopup", "CompactKeepPrompt"}
  /\ turn \in {"none", "running", "compacting"}
  /\ cur \in Sessions \cup {None}
  /\ sess \in [Sessions -> [file : {"unused", "live", "gone"}, size : Nat, epoch : Nat,
                            skills : SUBSET Skills]]
  /\ baseline \in {<<>>} \cup ((Sessions \cup {None}) \X Nat)
  /\ active \in SUBSET Skills
  /\ hooks \in SUBSET Skills
  /\ chat \in Seq(Nat)
  /\ pending \in [attempt : Nat, created : BOOLEAN, shown : Nat, skills : SUBSET Skills]
  /\ task \in {"none", "running", "done", "failed"}
  /\ snap \in (Sessions \cup {None}) \X Nat \X Nat
  /\ context \in Nat \cup {None}
  /\ trigger \in {"auto", "manual"}
  /\ cause \in {"auto", "manual", None}
  /\ turns \in Nat /\ launched \in SUBSET Nat /\ comps \in Nat /\ quits \in Nat
  /\ verdict \in {None, "blocked", "failed", "launched", "deferred", "vetoed", "cancelled"}

InFlight == task # "none" \/ turn = "compacting"

\* A compaction is applied only to the history it was computed from: while
\* one is in flight nobody replaces the store or adds to it (turn.rs:260,
\* commands.rs:29).
PlanForThisStore == InFlight => snap = History(sess, cur)

\* The task slot and the screen agree: with a compaction in flight the screen
\* shows it and Esc aborts it; with none the screen does not pretend so, and
\* a waiting turn always has the compaction that will launch it.
TaskOnScreen ==
  /\ task # "none" <=> ui = "Compacting"
  /\ pending # NoTurn => task # "none"

\* The user messages shown are those of turns that were launched or that
\* wait: a turn that was vetoed or rolled back leaves no orphan (commands.rs
\* "init").
NoOrphan == \A i \in DOMAIN chat : chat[i] \in launched \cup {pending.attempt}

\* The hooks that fire are those of the active skills, and the header knows
\* every active skill, so a compaction re-injects it and a resume restores it.
SkillsInStep ==
  /\ hooks = active
  /\ cur # None => active \subseteq sess[cur].skills

\* The history guard never compares with the history of another session, or
\* with one a compaction replaced (session_state.rs, reset_history_guard).
GuardFits == baseline # <<>> => cur # None /\ baseline = <<cur, sess[cur].epoch>>

\* A rolled-back turn removes the empty file of its session: one can be left
\* behind only by quitting while the turn waited (turn.rs:456).
EmptyFilesBounded ==
  Cardinality({s \in Live : sess[s].size = 0 /\ ~(pending.created /\ s = cur)}) <= quits


-----------------------------------------------------------------------------
(* What documents and comments say of the program, and runs refute.        *)

\* turn.rs:439: PreCompact context is dropped when the compaction it was
\* captured for will not run, so it cannot leak into a later summary.
ContextHasCompaction == context # None => InFlight /\ context = comps

\* app.rs:75: compaction_trigger says how the compaction in flight was
\* triggered; the launcher sets it.
TriggerTrue == InFlight => trigger = cause

\* turn.rs:188: the session header stays the source of truth for the active
\* skills.
HeaderIsTruth == cur # None => sess[cur].skills = active

\* hooks.md:99: a PreCompact hook that exits 2 vetoes the compaction and the
\* turn proceeds uncompacted.
VetoProceeds == verdict = "vetoed" => turns \in launched

\* streaming_ui.rs:6: opening the help does not interfere with LLM work.
HelpKeepsCompaction == [][ui' = "HelpPopup" => task' = task]_vars
=============================================================================
