---------------------------- MODULE MainLoop_proofs ----------------------------
(***************************************************************************)
(* Proofs about MainLoop, for any sessions, skills, inputs and bounds: the *)
(* compaction between turns, the screen and the store agree, and skills,   *)
(* hooks, session headers and the messages shown stay in step.             *)
(***************************************************************************)
EXTENDS MainLoop, TLAPS

\* The part of TypeOK the arguments below use.
Shape ==
  /\ cur \in Sessions \cup {None}
  /\ sess \in [Sessions -> [file : {"unused", "live", "gone"}, size : Nat, epoch : Nat,
                            skills : SUBSET Skills]]
  /\ active \subseteq Skills
  /\ pending \in [attempt : Nat, created : BOOLEAN, shown : Nat, skills : SUBSET Skills]
  /\ task \in {"none", "running", "done", "failed"}
  /\ turn \in {"none", "running", "compacting"}
  /\ turns \in Nat

\* The screen tells whether a turn runs, and whatever runs has a session.
Places ==
  /\ turn # "none" <=> ui = "Turn"
  /\ ui \in {"Turn", "Compacting"} => cur # None

\* What a roll-back restores is known to the header, if there still is one.
PendingKnown ==
  pending # NoTurn /\ ~pending.created => pending.skills \subseteq sess[cur].skills

Inductive ==
  /\ Shape
  /\ Places
  /\ TaskOnScreen
  /\ PlanForThisStore
  /\ SkillsInStep
  /\ PendingKnown

USE MainAssumption

LEMMA InitInductive == Init => Inductive
<1> SUFFICES ASSUME Init PROVE Inductive
  OBVIOUS
<1> USE DEF Init
<1>1. Shape
  BY DEF Shape, Blank, NoTurn
<1>2. Places /\ TaskOnScreen /\ SkillsInStep /\ PendingKnown
  BY DEF Places, TaskOnScreen, SkillsInStep, PendingKnown
<1>3. PlanForThisStore
  BY DEF PlanForThisStore, InFlight
<1> QED BY <1>1, <1>2, <1>3 DEF Inductive

-----------------------------------------------------------------------------
(* The set-up of a turn.                                                   *)

SessType == [Sessions -> [file : {"unused", "live", "gone"}, size : Nat, epoch : Nat,
                          skills : SUBSET Skills]]

\* Marking the header of the current session changes nothing but its skills,
\* and adds to them.
LEMMA MarkedFacts ==
  ASSUME Shape, NEW ks \in SUBSET Skills
  PROVE  /\ Marked(sess, cur, ks) \in SessType
         /\ cur # None => /\ Marked(sess, cur, ks)[cur].skills = sess[cur].skills \cup ks
                          /\ Marked(sess, cur, ks)[cur].epoch = sess[cur].epoch
                          /\ Marked(sess, cur, ks)[cur].size = sess[cur].size
<1> USE DEF Shape, SessType, Marked
<1>1. CASE cur = None
  BY <1>1
<1>2. CASE cur # None
  BY <1>2
<1> QED BY <1>1, <1>2

\* The store of a turn that is set up: typed, with a session whose header
\* knows the skills that are then active.
LEMMA StoresFacts ==
  ASSUME Shape, SkillsInStep, NEW in, NEW st \in Stores(in)
  PROVE  /\ st.cur \in Sessions
         /\ st.sess \in SessType
         /\ st.created \in BOOLEAN
         /\ active \cup New(in) \subseteq st.sess[st.cur].skills
         /\ ~st.created => st.cur = cur /\ cur # None
                           /\ st.sess[cur].epoch = sess[cur].epoch
                           /\ sess[cur].skills \subseteq st.sess[cur].skills
<1>1. Skills \cap {in} \in SUBSET Skills /\ New(in) \subseteq Skills /\ New(in) \subseteq Skills \cap {in}
  BY DEF New
<1>2. CASE cur # None
  <2>1. st = [cur |-> cur, sess |-> Marked(sess, cur, Skills \cap {in}), created |-> FALSE]
    BY <1>2 DEF Stores
  <2>2. active \subseteq sess[cur].skills /\ cur \in Sessions
    BY <1>2 DEF SkillsInStep, Shape
  <2> QED BY <1>1, <1>2, <2>1, <2>2, MarkedFacts
<1>3. CASE cur = None
  <2> DEFINE header == [file |-> "live", size |-> 0, epoch |-> 0, skills |-> HeaderSkills(in)]
  <2>1. PICK s \in Sessions :
          st = [cur |-> s, created |-> TRUE, sess |-> [sess EXCEPT ![s] = header]]
    BY <1>3 DEF Stores
  <2>2. header \in [file : {"unused", "live", "gone"}, size : Nat, epoch : Nat,
                    skills : SUBSET Skills]
    BY <1>1 DEF HeaderSkills, Shape
  <2>3. st.sess \in SessType /\ st.sess[s] = header
    BY <2>1, <2>2 DEF Shape, SessType
  <2> QED BY <1>1, <2>1, <2>3 DEF HeaderSkills
<1> QED BY <1>2, <1>3

-----------------------------------------------------------------------------
(* One lemma per group of actions: each keeps the invariant.               *)

\* Idle: nothing runs, so no compaction has to match the store.
Rest == task = "none" /\ turn = "none"

\* A turn starts only at rest.
LEMMA StartsAtRest ==
  ASSUME Inductive, NEW in, Starting(in)
  PROVE  Rest /\ pending = NoTurn /\ turns' = turns + 1
  BY DEF Inductive, Places, TaskOnScreen, Starting, Typing, Busy, Rest

LEMMA BlockedKeeps ==
  ASSUME Inductive, NEW in, PromptBlocked(in)
  PROVE  Inductive'
<1> USE DEF Inductive
<1>1. Rest /\ pending = NoTurn /\ turns' \in Nat
  BY StartsAtRest DEF PromptBlocked, Shape
<1>2. Skills \cap {in} \in SUBSET Skills /\ New(in) \subseteq Skills \cap {in}
  BY DEF New
<1>3. sess' \in SessType
      /\ (cur # None => sess'[cur].skills = sess[cur].skills \cup (Skills \cap {in}))
  BY <1>2, MarkedFacts DEF PromptBlocked
<1>4. Shape'
  BY <1>1, <1>2, <1>3 DEF PromptBlocked, Entered, compVars, Shape, SessType
<1>5. Places' /\ TaskOnScreen' /\ PlanForThisStore' /\ PendingKnown'
  BY <1>1 DEF PromptBlocked, compVars, Places, TaskOnScreen, PlanForThisStore, PendingKnown,
              InFlight, Rest
<1>6. SkillsInStep'
  BY <1>2, <1>3 DEF PromptBlocked, Entered, SkillsInStep
<1> QED BY <1>4, <1>5, <1>6

LEMMA CreateFailsKeeps ==
  ASSUME Inductive, NEW in, CreateFails(in)
  PROVE  Inductive'
<1> USE DEF Inductive
<1>1. Rest /\ pending = NoTurn /\ turns' \in Nat
  BY StartsAtRest DEF CreateFails, Shape
<1>2. New(in) \subseteq Skills
  BY DEF New
<1>3. Shape' /\ SkillsInStep'
  BY <1>1, <1>2 DEF CreateFails, Entered, compVars, Shape, SkillsInStep
<1>4. Places' /\ TaskOnScreen' /\ PlanForThisStore' /\ PendingKnown'
  BY <1>1 DEF CreateFails, compVars, Places, TaskOnScreen, PlanForThisStore, PendingKnown,
              InFlight, Rest
<1> QED BY <1>3, <1>4

\* Launching on a typed store whose header knows the active skills.
LEMMA LaunchFacts ==
  ASSUME NEW ss \in SessType, NEW s \in Sessions, NEW attempt, Launch(ss, s, attempt)
  PROVE  /\ sess' \in SessType
         /\ sess'[s].skills = ss[s].skills
         /\ sess'[s].epoch = ss[s].epoch
         /\ ui' = "Turn" /\ turn' = "running"
  BY DEF Launch, SessType

LEMMA StartTurnKeeps ==
  ASSUME Inductive, NEW in, StartTurn(in)
  PROVE  Inductive'
<1> USE DEF Inductive
<1>1. Rest /\ pending = NoTurn /\ turns' \in Nat
  BY StartsAtRest DEF StartTurn, Shape
<1>2. New(in) \subseteq Skills
  BY DEF New
<1>3. PICK st \in Stores(in) : cur' = st.cur /\ Launch(st.sess, st.cur, turns + 1)
  BY DEF StartTurn
<1>4. st.cur \in Sessions /\ st.sess \in SessType
      /\ active \cup New(in) \subseteq st.sess[st.cur].skills
  BY StoresFacts
<1>5. sess' \in SessType /\ sess'[cur'].skills = st.sess[st.cur].skills
      /\ ui' = "Turn" /\ turn' = "running" /\ cur' \in Sessions
  BY <1>3, <1>4, LaunchFacts
<1>6. Shape' /\ SkillsInStep'
  BY <1>1, <1>2, <1>4, <1>5 DEF StartTurn, Entered, compVars, Shape, SessType, SkillsInStep
<1>7. Places' /\ TaskOnScreen' /\ PlanForThisStore' /\ PendingKnown'
  BY <1>1, <1>5 DEF StartTurn, compVars, Places, TaskOnScreen, PlanForThisStore,
                    PendingKnown, InFlight, Rest
<1> QED BY <1>6, <1>7

LEMMA DeferTurnKeeps ==
  ASSUME Inductive, NEW in, NEW ctx, DeferTurn(in, ctx)
  PROVE  Inductive'
<1> USE DEF Inductive
<1>1. Rest /\ pending = NoTurn /\ turns' = turns + 1 /\ turns \in Nat
  BY StartsAtRest DEF DeferTurn, Shape
<1>2. New(in) \subseteq Skills
  BY DEF New
<1>3. PICK st \in Stores(in) :
        /\ cur' = st.cur
        /\ sess' = st.sess
        /\ snap' = History(st.sess, st.cur)
        /\ pending' = [attempt |-> turns + 1, created |-> st.created,
                       shown |-> PreTurnLen(in), skills |-> active]
  BY DEF DeferTurn, Compact
<1>4. st.cur \in Sessions /\ st.sess \in SessType /\ st.created \in BOOLEAN
      /\ active \cup New(in) \subseteq st.sess[st.cur].skills
  BY StoresFacts
<1>5. PreTurnLen(in) \in Nat
  BY DEF PreTurnLen
<1>6. Shape' /\ SkillsInStep'
  BY <1>1, <1>2, <1>3, <1>4, <1>5 DEF DeferTurn, Entered, Shape, SessType, SkillsInStep, Rest
<1>7. PlanForThisStore' /\ PendingKnown'
  BY <1>3, <1>4 DEF PlanForThisStore, PendingKnown, History
<1>8. Places' /\ TaskOnScreen'
  BY <1>1, <1>3, <1>4 DEF DeferTurn, Places, TaskOnScreen, Rest
<1> QED BY <1>6, <1>7, <1>8

\* Undoing a set-up leaves a typed store whose header, if any, knows the
\* skills that are restored.
LEMMA UndoFacts ==
  ASSUME NEW st, st.sess \in SessType, st.cur \in Sessions, st.created \in BOOLEAN,
         NEW shown, NEW skills \in SUBSET Skills, UndoSetup(st, shown, skills),
         ~st.created => skills \subseteq st.sess[st.cur].skills
  PROVE  /\ sess' \in SessType
         /\ cur' \in Sessions \cup {None}
         /\ active' = skills
         /\ SkillsInStep'
<1>1. CASE st.created
  <2>1. sess' \in SessType
    BY <1>1 DEF UndoSetup, Removed, SessType, Blank
  <2> QED BY <1>1, <2>1 DEF UndoSetup, SkillsInStep
<1>2. CASE ~st.created
  BY <1>2 DEF UndoSetup, SkillsInStep
<1> QED BY <1>1, <1>2

LEMMA VetoKeeps ==
  ASSUME Inductive, NEW in, VetoTurn(in)
  PROVE  Inductive'
<1> USE DEF Inductive
<1>1. Rest /\ pending = NoTurn /\ turns' \in Nat
  BY StartsAtRest DEF VetoTurn, Shape
<1>2. PICK st \in Stores(in) : UndoSetup(st, Before(in), active)
  BY DEF VetoTurn
<1>3. st.cur \in Sessions /\ st.sess \in SessType /\ st.created \in BOOLEAN
      /\ active \subseteq st.sess[st.cur].skills
  BY StoresFacts
<1>4. active \in SUBSET Skills
  BY DEF Shape
<1>5. sess' \in SessType /\ cur' \in Sessions \cup {None} /\ active' = active /\ SkillsInStep'
  BY <1>2, <1>3, <1>4, UndoFacts
<1>6. Shape'
  BY <1>1, <1>4, <1>5 DEF VetoTurn, Shape, SessType
<1>7. Places' /\ TaskOnScreen' /\ PlanForThisStore' /\ PendingKnown'
  BY <1>1 DEF VetoTurn, Places, TaskOnScreen, PlanForThisStore, PendingKnown, InFlight, Rest
<1> QED BY <1>5, <1>6, <1>7

LEMMA ManualCompactKeeps ==
  ASSUME Inductive, ManualCompact
  PROVE  Inductive'
<1> USE DEF Inductive
<1>1. turn = "none" /\ pending = NoTurn
  BY DEF ManualCompact, Typing, Busy, Places, TaskOnScreen
<1>2. Shape' /\ SkillsInStep' /\ PendingKnown'
  BY <1>1 DEF ManualCompact, turnVars, Shape, SkillsInStep, PendingKnown
<1>3. Places' /\ TaskOnScreen'
  BY <1>1 DEF ManualCompact, turnVars, Places, TaskOnScreen
<1>4. PlanForThisStore'
  BY DEF ManualCompact, Compact, History, PlanForThisStore
<1> QED BY <1>2, <1>3, <1>4

LEMMA TaskEndsKeeps ==
  ASSUME Inductive, TaskEnds
  PROVE  Inductive'
  BY DEF Inductive, TaskEnds, turnVars, Shape, Places, TaskOnScreen, PlanForThisStore, InFlight,
         History, SkillsInStep, PendingKnown

\* What a compaction leaves: the same sessions, with the same headers.
LEMMA OutcomeFacts ==
  ASSUME Shape, cur \in Sessions, NEW ok, NEW r \in Outcomes(ok)
  PROVE  r.sess \in SessType /\ r.sess[cur].skills = sess[cur].skills
<1> DEFINE rewritten == [sess EXCEPT ![cur].epoch = @ + 1]
<1>1. rewritten \in SessType /\ rewritten[cur].skills = sess[cur].skills /\ sess \in SessType
  BY DEF Shape, SessType
<1>2. r.sess = rewritten \/ r.sess = sess
  BY DEF Outcomes
<1> QED BY <1>1, <1>2

LEMMA PollManualKeeps ==
  ASSUME Inductive, PollManual
  PROVE  Inductive'
<1> USE DEF Inductive
<1>1. turn = "none" /\ cur \in Sessions /\ pending = NoTurn
  BY DEF PollManual, Places, TaskOnScreen, Shape
<1>2. PICK r \in Outcomes(task = "done") : sess' = r.sess
  BY DEF PollManual
<1>3. sess' \in SessType /\ sess'[cur].skills = sess[cur].skills
  BY <1>1, <1>2, OutcomeFacts
<1>4. Shape' /\ SkillsInStep' /\ PendingKnown'
  BY <1>1, <1>3 DEF PollManual, NoCompaction, turnVars, Shape, SessType, SkillsInStep, PendingKnown
<1>5. Places' /\ TaskOnScreen' /\ PlanForThisStore'
  BY <1>1 DEF PollManual, NoCompaction, turnVars, Places, TaskOnScreen, PlanForThisStore, InFlight
<1> QED BY <1>4, <1>5

LEMMA PollDeferredKeeps ==
  ASSUME Inductive, PollDeferred
  PROVE  Inductive'
<1> USE DEF Inductive
<1>1. turn = "none" /\ cur \in Sessions
  BY DEF PollDeferred, Places, TaskOnScreen, Shape
<1>2. PICK r \in Outcomes(task = "done") : Launch(r.sess, cur, pending.attempt)
  BY DEF PollDeferred
<1>3. r.sess \in SessType /\ r.sess[cur].skills = sess[cur].skills
  BY <1>1, OutcomeFacts
<1>4. sess' \in SessType /\ sess'[cur].skills = sess[cur].skills /\ ui' = "Turn"
      /\ turn' = "running"
  BY <1>1, <1>2, <1>3, LaunchFacts
<1>5. Shape' /\ SkillsInStep' /\ PendingKnown'
  BY <1>1, <1>4 DEF PollDeferred, NoCompaction, Shape, SessType, SkillsInStep, PendingKnown,
                    NoTurn
<1>6. Places' /\ TaskOnScreen' /\ PlanForThisStore'
  BY <1>1, <1>4 DEF PollDeferred, NoCompaction, Places, TaskOnScreen, PlanForThisStore, InFlight
<1> QED BY <1>5, <1>6

LEMMA LeaveCompactingKeeps ==
  ASSUME Inductive, LeaveCompacting
  PROVE  Inductive'
<1> USE DEF Inductive
<1>1. turn = "none" /\ cur \in Sessions /\ ui' \in {"Idle", "HelpPopup", "CommandPalette"}
  BY DEF LeaveCompacting, Places, TaskOnScreen, Shape
<1>2. NoCompaction /\ pending' = NoTurn
  BY <1>1 DEF LeaveCompacting, LeavesCompacting
<1>3. Places' /\ TaskOnScreen' /\ PlanForThisStore' /\ PendingKnown'
  BY <1>1, <1>2 DEF LeaveCompacting, NoCompaction, Places, TaskOnScreen, PlanForThisStore,
                    InFlight, PendingKnown
<1>4. sess' \in SessType /\ cur' \in Sessions \cup {None} /\ active' \subseteq Skills
      /\ SkillsInStep'
  <2>1. CASE pending = NoTurn
    BY <1>1, <2>1 DEF LeaveCompacting, LeavesCompacting, Shape, SessType, SkillsInStep
  <2>2. CASE pending # NoTurn
    <3> DEFINE st == [cur |-> cur, sess |-> sess, created |-> pending.created]
    <3>1. UndoSetup(st, SubSeq(chat, 1, pending.shown), pending.skills)
      BY <1>1, <2>2 DEF LeaveCompacting, LeavesCompacting
    <3>2. st.sess \in SessType /\ st.cur \in Sessions /\ st.created \in BOOLEAN
          /\ pending.skills \in SUBSET Skills
          /\ (~st.created => pending.skills \subseteq st.sess[st.cur].skills)
      BY <1>1, <2>2 DEF Shape, SessType, PendingKnown
    <3> HIDE DEF st
    <3> QED BY <3>1, <3>2, UndoFacts
  <2> QED BY <2>1, <2>2
<1>5. Shape'
  BY <1>1, <1>2, <1>4 DEF LeaveCompacting, NoCompaction, Shape, SessType, NoTurn
<1> QED BY <1>3, <1>4, <1>5

\* Screens and the commands that replace the store, none of which is possible
\* with a compaction in flight.
LEMMA CommandsKeep ==
  ASSUME Inductive,
         ShowScreen \/ NewSession \/ ClearChat \/ (\E s \in Sessions : LoadSession(s)) \/ Quit
  PROVE  Inductive'
<1> USE DEF Inductive
<1>1. CASE ShowScreen
  BY <1>1 DEF ShowScreen, Commanding, Typing, Busy, compVars, turnVars, Shape, Places,
     TaskOnScreen, PlanForThisStore, InFlight, History, SkillsInStep, PendingKnown
<1>2. CASE NewSession
  BY <1>2 DEF NewSession, Commanding, Typing, Busy, compVars, turnVars, Shape, Places,
     TaskOnScreen, PlanForThisStore, InFlight, SkillsInStep, PendingKnown
<1>3. CASE ClearChat
  BY <1>3 DEF ClearChat, Typing, Busy, compVars, turnVars, Shape, Places,
     TaskOnScreen, PlanForThisStore, InFlight, History, SkillsInStep, PendingKnown
<1>4. CASE \E s \in Sessions : LoadSession(s)
  <2>1. PICK s \in Sessions : LoadSession(s)
    BY <1>4
  <2>2. task = "none" /\ turn = "none" /\ pending = NoTurn
    BY <2>1 DEF LoadSession, TaskOnScreen, Places
  <2>3. sess[s].skills \subseteq Skills
    BY DEF Shape
  <2> QED BY <2>1, <2>2, <2>3 DEF LoadSession, compVars, turnVars, Shape, Places, TaskOnScreen,
          PlanForThisStore, InFlight, SkillsInStep, PendingKnown
<1>5. CASE Quit
  BY <1>5 DEF Quit, Shape, Places, TaskOnScreen, PlanForThisStore, InFlight, SkillsInStep,
     PendingKnown, NoTurn
<1> QED BY <1>1, <1>2, <1>3, <1>4, <1>5

\* A turn, seen from outside: the task slot is empty while it runs.
LEMMA TurnStepsKeep ==
  ASSUME Inductive,
         \/ AgentRequests \/ TurnCompactionCancelled \/ TurnEnds
         \/ \E k \in Skills : AgentActivates(k)
         \/ \E ctx \in BOOLEAN : TurnCompacts(ctx)
         \/ \E ok \in BOOLEAN : TurnCompacted(ok)
  PROVE  Inductive'
<1> USE DEF Inductive
<1>0. turn # "none" => ui = "Turn" /\ task = "none" /\ pending = NoTurn /\ cur \in Sessions
  BY DEF Places, TaskOnScreen, Shape
<1>1. CASE AgentRequests
  BY <1>1 DEF AgentRequests, compVars, turnVars, Shape, Places, TaskOnScreen, PlanForThisStore,
     InFlight, History, SkillsInStep, PendingKnown
<1>2. CASE TurnCompactionCancelled
  BY <1>0, <1>2 DEF TurnCompactionCancelled, NoCompaction, turnVars, Shape, Places, TaskOnScreen,
     PlanForThisStore, InFlight, SkillsInStep, PendingKnown
<1>3. CASE TurnEnds
  BY <1>0, <1>3 DEF TurnEnds, compVars, turnVars, Shape, Places, TaskOnScreen,
     PlanForThisStore, InFlight, SkillsInStep, PendingKnown
<1>4. CASE \E k \in Skills : AgentActivates(k)
  <2>1. PICK k \in Skills : AgentActivates(k)
    BY <1>4
  <2>2. turn = "running" /\ {k} \in SUBSET Skills /\ sess' = Marked(sess, cur, {k})
    BY <2>1 DEF AgentActivates
  <2>3. sess' \in SessType /\ sess'[cur].skills = sess[cur].skills \cup {k}
    BY <1>0, <2>2, MarkedFacts
  <2>4. Shape' /\ SkillsInStep'
    BY <1>0, <2>1, <2>2, <2>3 DEF AgentActivates, compVars, turnVars, Shape, SessType, SkillsInStep
  <2>5. Places' /\ TaskOnScreen' /\ PlanForThisStore' /\ PendingKnown'
    BY <1>0, <2>1, <2>2 DEF AgentActivates, compVars, turnVars, Places, TaskOnScreen,
       PlanForThisStore, InFlight, PendingKnown
  <2> QED BY <2>4, <2>5
<1>5. CASE \E ctx \in BOOLEAN : TurnCompacts(ctx)
  BY <1>0, <1>5 DEF TurnCompacts, Compact, turnVars, Shape, Places, TaskOnScreen,
     PlanForThisStore, InFlight, History, SkillsInStep, PendingKnown
<1>6. CASE \E ok \in BOOLEAN : TurnCompacted(ok)
  <2>1. PICK ok \in BOOLEAN : TurnCompacted(ok)
    BY <1>6
  <2>2. PICK r \in Outcomes(ok) :
          sess' = IF r.well THEN [r.sess EXCEPT ![cur].size = @ + 1] ELSE r.sess
    BY <2>1 DEF TurnCompacted
  <2>3. turn = "compacting" /\ cur \in Sessions
    BY <1>0, <2>1 DEF TurnCompacted
  <2>4. r.sess \in SessType /\ r.sess[cur].skills = sess[cur].skills
    BY <2>3, OutcomeFacts
  <2>5. sess' \in SessType /\ sess'[cur].skills = sess[cur].skills
    BY <2>2, <2>3, <2>4 DEF SessType
  <2>6. Shape' /\ SkillsInStep'
    BY <1>0, <2>1, <2>3, <2>5 DEF TurnCompacted, NoCompaction, turnVars, Shape, SessType,
       SkillsInStep
  <2>7. Places' /\ TaskOnScreen' /\ PlanForThisStore' /\ PendingKnown'
    BY <1>0, <2>1, <2>3 DEF TurnCompacted, NoCompaction, turnVars, Places, TaskOnScreen,
       PlanForThisStore, InFlight, PendingKnown
  <2> QED BY <2>6, <2>7
<1> QED BY <1>1, <1>2, <1>3, <1>4, <1>5, <1>6

LEMMA StepKeeps == Inductive /\ [Next]_vars => Inductive'
<1> SUFFICES ASSUME Inductive, [Next]_vars PROVE Inductive'
  OBVIOUS
<1>1. CASE \E in \in Inputs : \/ PromptBlocked(in) \/ CreateFails(in) \/ StartTurn(in)
                              \/ \E ctx \in BOOLEAN : DeferTurn(in, ctx)
                              \/ VetoTurn(in)
  BY <1>1, BlockedKeeps, CreateFailsKeeps, StartTurnKeeps, DeferTurnKeeps, VetoKeeps
<1>2. CASE ManualCompact \/ TaskEnds \/ PollManual \/ PollDeferred \/ LeaveCompacting
  BY <1>2, ManualCompactKeeps, TaskEndsKeeps, PollManualKeeps, PollDeferredKeeps,
     LeaveCompactingKeeps
<1>3. CASE ShowScreen \/ NewSession \/ ClearChat \/ (\E s \in Sessions : LoadSession(s)) \/ Quit
  BY <1>3, CommandsKeep
<1>4. CASE \/ AgentRequests \/ TurnCompactionCancelled \/ TurnEnds
           \/ \E k \in Skills : AgentActivates(k)
           \/ \E ctx \in BOOLEAN : TurnCompacts(ctx)
           \/ \E ok \in BOOLEAN : TurnCompacted(ok)
  BY <1>4, TurnStepsKeep
<1>5. CASE UNCHANGED vars
  BY <1>5 DEF vars, compVars, turnVars, Inductive, Shape, Places, TaskOnScreen,
     PlanForThisStore, InFlight, History, SkillsInStep, PendingKnown
<1> QED BY <1>1, <1>2, <1>3, <1>4, <1>5 DEF Next

-----------------------------------------------------------------------------
(* The baseline of the history guard.                                      *)

\* A step after which store and baseline are as they were keeps GuardFits.
LEMMA SameStoreKeepsGuard ==
  ASSUME GuardFits, cur' = cur, baseline' = baseline,
         cur # None => sess'[cur].epoch = sess[cur].epoch
  PROVE  GuardFits'
  BY DEF GuardFits

\* Setting up a turn resets the guard when it creates the session.
LEMMA SetUpKeepsGuard ==
  ASSUME Inductive, GuardFits, NEW in, StartTurn(in) \/ \E ctx \in BOOLEAN : DeferTurn(in, ctx)
  PROVE  GuardFits'
<1> USE DEF Inductive
<1>1. PICK st \in Stores(in) :
        /\ cur' = st.cur
        /\ baseline' = IF st.created THEN <<>> ELSE baseline
        /\ sess' = st.sess \/ Launch(st.sess, st.cur, turns + 1)
  BY DEF StartTurn, DeferTurn
<1>2. /\ st.cur \in Sessions /\ st.sess \in SessType /\ st.created \in BOOLEAN
      /\ ~st.created => st.cur = cur /\ cur # None /\ st.sess[cur].epoch = sess[cur].epoch
  BY StoresFacts
<1>3. sess'[st.cur].epoch = st.sess[st.cur].epoch
  BY <1>1, <1>2, LaunchFacts
<1>4. CASE st.created
  BY <1>1, <1>4 DEF GuardFits
<1>5. CASE ~st.created
  BY <1>1, <1>2, <1>3, <1>5, SameStoreKeepsGuard
<1> QED BY <1>2, <1>4, <1>5

\* A compaction that can write the file resets the guard if it changed the
\* history.
LEMMA OutcomesKeepGuard ==
  ASSUME ~DiskFails, NEW ok, NEW r \in Outcomes(ok)
  PROVE  r.baseline = <<>> \/ (r.sess = sess /\ r.baseline = baseline)
<1>1. CASE ok
  <2>1. r.baseline = <<>>
    BY <1>1 DEF Outcomes
  <2> QED BY <2>1
<1>2. CASE ~ok
  <2>1. r = [sess |-> sess, baseline |-> baseline, well |-> FALSE]
    BY <1>2 DEF Outcomes
  <2> QED BY <2>1
<1> QED BY <1>1, <1>2

LEMMA GuardStep == Inductive /\ GuardFits /\ ~DiskFails /\ [Next]_vars => GuardFits'
<1> SUFFICES ASSUME Inductive, GuardFits, ~DiskFails, [Next]_vars PROVE GuardFits'
  OBVIOUS
<1> USE DEF Inductive
<1>0. cur # None => cur \in Sessions
  BY DEF Shape
<1>1. CASE \E in \in Inputs : StartTurn(in) \/ \E ctx \in BOOLEAN : DeferTurn(in, ctx)
  BY <1>1, SetUpKeepsGuard
<1>2. CASE \E in \in Inputs : PromptBlocked(in) \/ CreateFails(in)
  <2>1. PICK in \in Inputs : PromptBlocked(in) \/ CreateFails(in)
    BY <1>2
  <2>2. Skills \cap {in} \in SUBSET Skills
    OBVIOUS
  <2>3. cur # None => sess'[cur].epoch = sess[cur].epoch
    BY <2>1, <2>2, MarkedFacts DEF PromptBlocked, CreateFails
  <2> QED BY <2>1, <2>3, SameStoreKeepsGuard DEF PromptBlocked, CreateFails
<1>3. CASE \E in \in Inputs : VetoTurn(in)
  <2>0. PICK in \in Inputs : VetoTurn(in)
    BY <1>3
  <2>1. PICK st \in Stores(in) : UndoSetup(st, Before(in), active)
    BY <2>0 DEF VetoTurn
  <2>2. /\ st.cur \in Sessions /\ st.created \in BOOLEAN
        /\ ~st.created => st.cur = cur /\ st.sess[cur].epoch = sess[cur].epoch
    BY StoresFacts
  <2>3. CASE st.created
    BY <2>1, <2>3 DEF UndoSetup, GuardFits
  <2>4. CASE ~st.created
    BY <2>1, <2>2, <2>4, SameStoreKeepsGuard DEF UndoSetup
  <2> QED BY <2>2, <2>3, <2>4
<1>4. CASE ManualCompact \/ TaskEnds \/ ShowScreen \/ ClearChat \/ TurnEnds
           \/ TurnCompactionCancelled \/ \E ctx \in BOOLEAN : TurnCompacts(ctx)
  <2>1. cur' = cur /\ sess' = sess /\ baseline' = baseline
    BY <1>4 DEF ManualCompact, TaskEnds, ShowScreen, ClearChat, TurnEnds,
       TurnCompactionCancelled, TurnCompacts
  <2> QED BY <2>1, SameStoreKeepsGuard
<1>5. CASE PollManual
  <2>1. PICK r \in Outcomes(task = "done") : sess' = r.sess /\ baseline' = r.baseline
    BY <1>5 DEF PollManual
  <2>2. r.baseline = <<>> \/ (r.sess = sess /\ r.baseline = baseline)
    BY OutcomesKeepGuard
  <2> QED BY <1>5, <2>1, <2>2 DEF PollManual, GuardFits
<1>6. CASE PollDeferred
  <2>1. PICK r \in Outcomes(task = "done") :
          Launch(r.sess, cur, pending.attempt) /\ baseline' = r.baseline
    BY <1>6 DEF PollDeferred
  <2>2. cur \in Sessions /\ cur' = cur
    BY <1>0, <1>6 DEF PollDeferred, Places, TaskOnScreen
  <2>3. r.baseline = <<>> \/ (r.sess = sess /\ r.baseline = baseline)
    BY OutcomesKeepGuard
  <2>4. sess'[cur].epoch = r.sess[cur].epoch
    BY <2>1, <2>2, OutcomeFacts, LaunchFacts
  <2> QED BY <2>1, <2>2, <2>3, <2>4 DEF GuardFits
<1>7. CASE LeaveCompacting
  <2>1. ui' # "Compacting"
    BY <1>7 DEF LeaveCompacting
  <2>2. CASE pending = NoTurn
    BY <1>7, <2>1, <2>2, SameStoreKeepsGuard DEF LeaveCompacting, LeavesCompacting
  <2>3. CASE pending # NoTurn
    BY <1>7, <2>1, <2>3 DEF LeaveCompacting, LeavesCompacting, UndoSetup, GuardFits
  <2> QED BY <2>2, <2>3
<1>8. CASE NewSession \/ (\E s \in Sessions : LoadSession(s)) \/ Quit
  BY <1>8 DEF NewSession, LoadSession, Quit, GuardFits
<1>9. CASE AgentRequests
  BY <1>9 DEF AgentRequests, Places, GuardFits
<1>10. CASE \E k \in Skills : AgentActivates(k)
  <2>1. PICK k \in Skills : AgentActivates(k)
    BY <1>10
  <2>2. cur # None => sess'[cur].epoch = sess[cur].epoch
    BY <2>1, MarkedFacts DEF AgentActivates
  <2> QED BY <2>1, <2>2, SameStoreKeepsGuard DEF AgentActivates
<1>11. CASE \E ok \in BOOLEAN : TurnCompacted(ok)
  <2>0. PICK ok \in BOOLEAN : TurnCompacted(ok)
    BY <1>11
  <2>1. PICK r \in Outcomes(ok) :
          /\ baseline' = r.baseline
          /\ sess' = IF r.well THEN [r.sess EXCEPT ![cur].size = @ + 1] ELSE r.sess
          /\ cur' = cur /\ turn = "compacting"
    BY <2>0 DEF TurnCompacted
  <2>2. cur \in Sessions
    BY <1>0, <2>1 DEF Places
  <2>3. r.sess \in SessType
    BY <2>2, OutcomeFacts
  <2>4. sess'[cur].epoch = r.sess[cur].epoch
    BY <2>1, <2>2, <2>3 DEF SessType
  <2>5. r.baseline = <<>> \/ (r.sess = sess /\ r.baseline = baseline)
    BY OutcomesKeepGuard
  <2> QED BY <2>1, <2>4, <2>5 DEF GuardFits
<1>12. CASE UNCHANGED vars
  BY <1>12 DEF vars, GuardFits
<1> QED BY <1>1, <1>2, <1>3, <1>4, <1>5, <1>6, <1>7, <1>8, <1>9, <1>10, <1>11, <1>12 DEF Next

-----------------------------------------------------------------------------
(* The messages shown.                                                     *)

\* The messages shown belong to turns that were launched, but for the last one
\* while its turn waits; what a roll-back keeps ends before that one.
Messages ==
  /\ chat \in Seq(Nat)
  /\ pending = NoTurn => \A i \in DOMAIN chat : chat[i] \in launched
  /\ pending # NoTurn =>
       /\ Len(chat) = pending.shown + 1
       /\ chat[Len(chat)] = pending.attempt
       /\ \A i \in 1 .. pending.shown : chat[i] \in launched

\* Without /init nothing is shown before the hooks have let the prompt pass.
LEMMA NothingShownBefore ==
  ASSUME "init" \notin Inputs, NEW in, in \in Inputs
  PROVE  Before(in) = chat
  BY DEF Before

\* A step that leaves the chat, what was launched and what waits alone.
LEMMA SameMessages ==
  ASSUME Messages, chat' = chat, launched' = launched, pending' = pending
  PROVE  Messages'
  BY DEF Messages

LEMMA ChatStep ==
  Inductive /\ Messages /\ ~DiskFails /\ "init" \notin Inputs /\ [Next]_vars => Messages'
<1> SUFFICES ASSUME Inductive, Messages, ~DiskFails, "init" \notin Inputs, [Next]_vars
             PROVE  Messages'
  OBVIOUS
<1> USE DEF Inductive
<1>0. turns \in Nat /\ chat \in Seq(Nat)
  BY DEF Shape, Messages
<1>1. CASE \E in \in Inputs : PromptBlocked(in)
  <2>1. chat' = chat /\ launched' = launched /\ pending' = pending
    BY <1>1, NothingShownBefore DEF PromptBlocked
  <2> QED BY <2>1, SameMessages
<1>2. CASE \E in \in Inputs : CreateFails(in)
  BY <1>2 DEF CreateFails
<1>3. CASE \E in \in Inputs : StartTurn(in)
  <2>1. PICK in \in Inputs : StartTurn(in)
    BY <1>3
  <2>2. pending = NoTurn /\ pending' = NoTurn
    BY <2>1, StartsAtRest DEF StartTurn
  <2>3. chat' = Append(chat, turns + 1)
    BY <2>1, NothingShownBefore DEF StartTurn
  <2>4. launched' = launched \cup {turns + 1}
    BY <2>1 DEF StartTurn, Launch
  <2>5. \A i \in DOMAIN chat : chat[i] \in launched
    BY <2>2 DEF Messages
  <2>6. \A i \in DOMAIN chat' : chat'[i] \in launched'
    BY <1>0, <2>3, <2>4, <2>5
  <2> QED BY <1>0, <2>2, <2>3, <2>6 DEF Messages
<1>4. CASE \E in \in Inputs : \E ctx \in BOOLEAN : DeferTurn(in, ctx)
  <2>1. PICK in \in Inputs, ctx \in BOOLEAN : DeferTurn(in, ctx)
    BY <1>4
  <2>2. pending = NoTurn
    BY <2>1, StartsAtRest DEF DeferTurn
  <2>3. chat' = Append(chat, turns + 1) /\ launched' = launched
    BY <2>1, NothingShownBefore DEF DeferTurn
  <2>4. pending'.shown = Len(chat) /\ pending'.attempt = turns + 1
    BY <2>1, NothingShownBefore DEF DeferTurn, PreTurnLen
  <2>5. \A i \in DOMAIN chat : chat[i] \in launched
    BY <2>2 DEF Messages
  <2>6. pending' # NoTurn
    BY <1>0, <2>4 DEF NoTurn
  <2> QED BY <1>0, <2>3, <2>4, <2>5, <2>6 DEF Messages
<1>5. CASE \E in \in Inputs : VetoTurn(in)
  <2>1. chat' = chat /\ launched' = launched /\ pending' = pending
    BY <1>5, NothingShownBefore DEF VetoTurn, UndoSetup
  <2> QED BY <2>1, SameMessages
<1>6. CASE ManualCompact \/ TaskEnds \/ ShowScreen \/ AgentRequests
           \/ TurnCompactionCancelled \/ TurnEnds
           \/ (\E k \in Skills : AgentActivates(k))
           \/ (\E ctx \in BOOLEAN : TurnCompacts(ctx))
           \/ (\E ok \in BOOLEAN : TurnCompacted(ok))
  BY <1>6, SameMessages DEF ManualCompact, TaskEnds, ShowScreen, AgentRequests,
     TurnCompactionCancelled, TurnEnds, AgentActivates, TurnCompacts, TurnCompacted, turnVars
<1>7. CASE PollManual
  BY <1>7, SameMessages DEF PollManual, turnVars
<1>8. CASE PollDeferred
  <2>1. pending # NoTurn /\ pending' = NoTurn /\ chat' = chat
        /\ launched' = launched \cup {pending.attempt}
    BY <1>8 DEF PollDeferred, Launch
  <2>2. \A i \in DOMAIN chat : i = Len(chat) \/ i \in 1 .. pending.shown
    BY <2>1 DEF Messages, Shape
  <2> QED BY <2>1, <2>2 DEF Messages
<1>9. CASE LeaveCompacting
  <2>1. pending' = NoTurn /\ launched' = launched
    BY <1>9 DEF LeaveCompacting, LeavesCompacting
  <2>2. CASE pending = NoTurn
    BY <1>9, <2>1, <2>2 DEF LeaveCompacting, LeavesCompacting, Messages
  <2>3. CASE pending # NoTurn
    <3>1. chat' = SubSeq(chat, 1, pending.shown)
      BY <1>9, <2>3 DEF LeaveCompacting, LeavesCompacting, UndoSetup
    <3>2. pending.shown \in Nat /\ Len(chat) = pending.shown + 1
      BY <2>3 DEF Messages, Shape
    <3>3. chat' \in Seq(Nat) /\ DOMAIN chat' = 1 .. pending.shown
          /\ \A i \in 1 .. pending.shown : chat'[i] = chat[i]
      BY <1>0, <3>1, <3>2
    <3> QED BY <2>1, <2>3, <3>3 DEF Messages
  <2> QED BY <2>2, <2>3
<1>10. CASE NewSession \/ ClearChat \/ (\E s \in Sessions : LoadSession(s)) \/ Quit
  <2>1. pending' = NoTurn /\ chat' = <<>> /\ launched' = launched
    BY <1>10 DEF NewSession, ClearChat, LoadSession, Quit, TaskOnScreen, Commanding, Typing,
       Busy, turnVars
  <2> QED BY <2>1 DEF Messages
<1>11. CASE UNCHANGED vars
  BY <1>11, SameMessages DEF vars, turnVars
<1> QED BY <1>1, <1>2, <1>3, <1>4, <1>5, <1>6, <1>7, <1>8, <1>9, <1>10, <1>11 DEF Next

-----------------------------------------------------------------------------
(* The theorems.                                                           *)

\* The strengthened invariant holds throughout.
THEOREM MainInductive == Spec => []Inductive
  BY InitInductive, StepKeeps, PTL DEF Spec

\* A compaction, whether between turns or inside one, is applied only to the
\* history it was computed from: no command, turn or resumed session comes
\* between (the in-progress guards of turn.rs and commands.rs).
THEOREM PlanMatchesStore == Spec => []PlanForThisStore
<1>1. Inductive => PlanForThisStore
  BY DEF Inductive
<1> QED BY <1>1, MainInductive, PTL

\* The Compacting screen is shown exactly while the task slot is taken, and a
\* deferred turn never waits for a task that is gone.
THEOREM CompactionIsOnScreen == Spec => []TaskOnScreen
<1>1. Inductive => TaskOnScreen
  BY DEF Inductive
<1> QED BY <1>1, MainInductive, PTL

\* Hooks fire for exactly the active skills, and the session header knows all
\* of them, through activation, roll-back, /new and resume.
THEOREM SkillsStayInStep == Spec => []SkillsInStep
<1>1. Inductive => SkillsInStep
  BY DEF Inductive
<1> QED BY <1>1, MainInductive, PTL
\* As long as session files can be written, the history guard never compares
\* a request with another session or with a history a compaction replaced:
\* every such change resets it (session_state.rs, reset_history_guard).
THEOREM GuardAlwaysFits == ASSUME ~DiskFails PROVE Spec => []GuardFits
<1>1. Init => GuardFits
  BY DEF Init, GuardFits
<1>2. ~DiskFails
  OBVIOUS
<1>3. Inductive /\ GuardFits /\ [Next]_vars => GuardFits'
  BY <1>2, GuardStep
<1> QED BY <1>1, <1>3, MainInductive, PTL DEF Spec

\* As long as session files can be written, and /init aside, the user messages
\* shown are those of turns that were launched or wait for their compaction: a
\* turn that was blocked, vetoed or rolled back leaves none (turn.rs,
\* undo_turn_setup).
THEOREM NoMessageIsOrphaned ==
  ASSUME ~DiskFails, "init" \notin Inputs
  PROVE  Spec => []NoOrphan
<1>1. Init => Messages
  BY DEF Init, Messages, NoTurn
<1>2. Inductive /\ Messages /\ [Next]_vars => Messages'
  BY ChatStep
<1>3. Messages /\ Inductive => NoOrphan
  <2> SUFFICES ASSUME Messages, Inductive, NEW i \in DOMAIN chat
               PROVE  chat[i] \in launched \cup {pending.attempt}
    BY DEF NoOrphan
  <2>1. CASE pending = NoTurn
    BY <2>1 DEF Messages
  <2>2. CASE pending # NoTurn
    <3>1. i = Len(chat) \/ i \in 1 .. pending.shown
      BY <2>2 DEF Messages, Inductive, Shape
    <3> QED BY <2>2, <3>1 DEF Messages
  <2> QED BY <2>1, <2>2
<1> QED BY <1>1, <1>2, <1>3, MainInductive, PTL DEF Spec

=============================================================================
