------------------------------- MODULE Editor -------------------------------
(***************************************************************************)
(* The prompt and the keys that reach it: key_handler/, tui/autocomplete.rs*)
(* tui/editor/ and the start of a turn as the prompt sees it.  handle_key_ *)
(* event hands a key to the first layer that takes it: the cancelling of a *)
(* compaction, F1, the completion popup, and last the handler of the       *)
(* screen.  Keys read while a turn streams belong to TurnLoop; what becomes*)
(* of a compaction and of a pending turn is MainLoop's, here only what it  *)
(* does to the prompt.                                                     *)
(***************************************************************************)
EXTENDS TextLines, TLC

CONSTANTS
    Keyboards,   \* what a user does: [keys, size, sent], the keys used and the
                 \* bounds on the length of a text and on the prompts sent
    Pastes,      \* the texts that are pasted
    Widths,      \* the columns of the prompt (input_area_width)
    MaxQuery,    \* bound on the query of the palette
    MaxRows,     \* LayoutRenderer::MAX_TEXT_ROWS
    Page,        \* the rows of a popup
    Files,       \* what discovery finds, sorted: a sequence of [path, hidden]
    SkillNames,  \* the names of the skills
    Commands,    \* get_palette_commands: a sequence of [id, name]
    Models,      \* the number of models the picker lists
    NoText

ASSUME BoundsAssumption ==
    /\ \A w \in Widths : w \in Nat /\ w >= 3
    /\ Page \in Nat \ {0} /\ MaxRows \in Nat \ {0} /\ Models \in Nat \ {0}

VARIABLES
    keyboard, width,   \* chosen at the start
    text, pos, dead,   \* input_buffer, cursor_pos; dead: the program panicked
    popup,             \* autocomplete_mode
    showHidden,        \* ui.file_show_hidden
    screen,            \* AppState
    query, choice,     \* of the palette; choice also of the model picker
    kept,              \* command_palette_preserved_input and its cursor
    sent,              \* the User messages of the chat
    index, saved,      \* history_index, saved_input with saved_cursor
    busy, pending      \* compaction_task; the prompt that waits for it

setting == <<keyboard, width>>
prompt == <<text, pos, dead>>
complete == <<popup, showHidden>>
palette == <<query, choice, kept>>
history == <<index, saved>>
task == <<busy, pending>>
vars == <<setting, prompt, complete, screen, palette, sent, history, task>>

NoPopup == [mode |-> "None"]
Modals == {"CommandPalette", "HelpPopup", "ModelSelect"}      \* App::is_modal
Motions == {"left", "right", "up", "down", "home", "end"}
Controls == {"tab", "enter", "altenter", "esc", "ctrlc", "bksp", "del", "f1", "paste"}
Keys == keyboard.keys \ {"paste"}

(* KeyCode::Char(c) is matched without its modifiers, so a popup types the *)
(* letter of Ctrl+G or Ctrl+K, and the prompt the dot of Ctrl+".".         *)
IsChar(k) == k \notin Motions \cup Controls
CharOf(k) == CASE k = "ctrlg" -> "g" [] k = "ctrlk" -> "k" [] k = "ctrldot" -> "dot" [] OTHER -> k

Init ==
    /\ keyboard \in Keyboards /\ width \in Widths
    /\ text = <<>> /\ pos = 0 /\ dead = FALSE
    /\ popup = NoPopup /\ showHidden = FALSE
    /\ screen = "Idle" /\ query = <<>> /\ choice = 0 /\ kept = NoText
    /\ sent = <<>> /\ index = 0 /\ saved = NoText
    /\ busy = FALSE /\ pending = NoText

-----------------------------------------------------------------------------
(* Matching.                                                               *)

(* fuzzy_match_case_insensitive: the needle as a subsequence; neighbouring *)
(* letters count twice.                                                    *)
Fuzzy(needle, hay) ==
    LET Step(s, i) ==
            IF s.n < Len(needle) /\ hay[i] = needle[s.n + 1]
            THEN [n |-> s.n + 1, last |-> i,
                  score |-> s.score + (IF s.n > 0 /\ s.last = i - 1 THEN 2 ELSE 1)]
            ELSE s
        end == FoldLeft(Step, [n |-> 0, last |-> 0, score |-> 0], [i \in DOMAIN hay |-> i])
    IN  [hit |-> end.n = Len(needle), score |-> end.score]

(* The names that match, best first, equal ones as they were (sort_by_key).*)
Ranked(names, needle) ==
    LET hits == SelectSeq([i \in DOMAIN names |-> i], LAMBDA i : Fuzzy(needle, names[i]).hit)
        Score(i) == Fuzzy(needle, names[i]).score
    IN  IF needle = <<>> THEN names
        ELSE LET order == SortSeq(hits, LAMBDA i, j : Score(i) > Score(j) \/ (Score(i) = Score(j) /\ i < j))
             IN  [k \in DOMAIN order |-> names[order[k]]]

(* get_query_after_char: what follows the last trigger.                    *)
QueryAfter(t, c) ==
    LET at == {i \in DOMAIN t : t[i] = c}
    IN  IF at = {} THEN <<>> ELSE SubSeq(t, Max(at) + 1, Len(t))

FilePopup(t, hidden) ==
    LET shown == SelectSeq(Files, LAMBDA f : hidden \/ ~f.hidden)
    IN  [mode |-> "File", selected |-> 0, scroll |-> 0, hidden |-> hidden,
         matches |-> Ranked([i \in DOMAIN shown |-> shown[i].path], QueryAfter(t, "at"))]
SkillPopup(t) ==
    [mode |-> "Skill", selected |-> 0, scroll |-> 0,
     matches |-> Ranked(SkillNames, QueryAfter(t, "sl"))]
MatchedCommands == Ranked([i \in DOMAIN Commands |-> Commands[i].name], query)

(* clamp_scroll: the page moves no more than the selection makes it.       *)
ClampScroll(selected, offset) ==
    CASE selected >= offset + Page -> selected - Page + 1
      [] selected < offset -> selected
      [] OTHER -> offset

Around(key, at, count) ==
    IF key = "up" THEN (IF at > 0 THEN at - 1 ELSE count - 1)
    ELSE IF at + 1 < count THEN at + 1 ELSE 0

-----------------------------------------------------------------------------
(* What keys do to the text.                                               *)

(* String::insert_str, insert and remove panic inside a character.         *)
Type(c) ==
    IF OnBoundary(text, pos)
    THEN text' = Inserted(text, pos, c) /\ pos' = pos + Bytes(c) /\ UNCHANGED dead
    ELSE dead' = TRUE /\ UNCHANGED <<text, pos>>
Room == Len(text) < keyboard.size
Set(t, p) == text' = t /\ pos' = p /\ UNCHANGED dead
Clear == Set(<<>>, 0)
BackspaceKey == LET b == Backspace(text, pos) IN Set(b.text, b.pos)
DeleteKey ==
    CASE pos >= Size(text) -> UNCHANGED prompt
      [] pos < Size(text) /\ OnBoundary(text, pos) -> Set(Removed(text, pos), pos)
      [] OTHER -> dead' = TRUE /\ UNCHANGED <<text, pos>>

ResetHistory == index' = 0 /\ saved' = NoText

(* handle_up and handle_down: past the first visual line the keys leaf     *)
(* through the prompts of the chat, the draft is put aside and taken back. *)
HistoryMessage(i) == sent[Len(sent) + 1 - i]
(* A mutant: an older prompt is put aside like a draft.                    *)
FaultUpKey ==
    IF VisualPos(text, pos, width).row = 1 /\ sent # <<>>
    THEN /\ saved' = [text |-> text, pos |-> pos]
         /\ IF index < Len(sent)
            THEN index' = index + 1 /\ Set(HistoryMessage(index + 1), Size(HistoryMessage(index + 1)))
            ELSE UNCHANGED <<index, prompt>>
    ELSE Set(text, CursorUpVisual(text, pos, width)) /\ UNCHANGED history

UpKey ==
    IF VisualPos(text, pos, width).row = 1 /\ sent # <<>>
    THEN /\ saved' = IF index = 0 THEN [text |-> text, pos |-> pos] ELSE saved
         /\ IF index < Len(sent)
            THEN index' = index + 1 /\ Set(HistoryMessage(index + 1), Size(HistoryMessage(index + 1)))
            ELSE UNCHANGED <<index, prompt>>
    ELSE Set(text, CursorUpVisual(text, pos, width)) /\ UNCHANGED history
DownKey ==
    IF VisualPos(text, pos, width).row = Len(VisualLines(text, width)) /\ index > 0
    THEN /\ index' = index - 1
         /\ IF index = 1 THEN saved' = NoText /\ Set(saved.text, saved.pos)
            ELSE /\ UNCHANGED saved
                 /\ IF index - 1 <= Len(sent)
                    THEN Set(HistoryMessage(index - 1), Size(HistoryMessage(index - 1)))
                    ELSE UNCHANGED prompt
    ELSE Set(text, CursorDownVisual(text, pos, width)) /\ UNCHANGED history

MotionKey(k) ==
    CASE k = "up" -> UpKey
      [] k = "down" -> DownKey
      [] k = "left" -> Set(text, CursorLeft(text, pos)) /\ UNCHANGED history
      [] k = "right" -> Set(text, CursorRight(text, pos)) /\ UNCHANGED history
      [] k = "home" -> Set(text, CursorHome(text, pos)) /\ UNCHANGED history
      [] k = "end" -> Set(text, CursorEnd(text, pos)) /\ UNCHANGED history

-----------------------------------------------------------------------------
(* Commands and turns.                                                     *)

SlashText(t) == LET first == {i \in DOMAIN t : t[i] # "sp" /\ t[i] # "nl"} IN
                IF first # {} /\ t[Min(first)] = "sl" THEN SubSeq(t, Min(first) + 1, Len(t)) ELSE <<>>
Blank(t) == \A i \in DOMAIN t : t[i] \in {"sp", "nl"}
(* The word after the slash: up to the first space, trimmed at the end.    *)
SlashName(t) ==
    LET Word(rest) ==
            IF \E i \in DOMAIN rest : rest[i] = "sp"
            THEN SubSeq(rest, 1, Min({i \in DOMAIN rest : rest[i] = "sp"}) - 1)
            ELSE SubSeq(rest, 1, Max({0} \cup {i \in DOMAIN rest : rest[i] # "nl"}))
    IN  Word(SlashText(t))

(* parse_slash_command: the command of that name or the one it matches     *)
(* best.                                                                   *)
SlashCommands(t) ==
    LET ids == [i \in DOMAIN Commands |-> Commands[i].id]
        Of(name) == IF name = <<>> THEN {}
                    ELSE IF name \in Range(ids) THEN {name}
                    ELSE {best[1] : best \in {Ranked(ids, name)} \ {<<>>}}
    IN  Of(SlashName(t))
IsSkill(t) == SlashName(t) \in Range(SkillNames)

(* execute_palette_command, as far as the prompt can tell: help, the model *)
(* picker, a cleared chat, a compaction if there is a session and none is  *)
(* running.  A list of one name is the way to write the command.           *)
Execute(id) ==
    CASE id = <<"h">> -> screen' = "HelpPopup" /\ choice' = 0 /\ UNCHANGED <<sent, task>>
      [] id = <<"m">> -> screen' = "ModelSelect" /\ choice' \in 0..(Models - 1) /\ UNCHANGED <<sent, task>>
      [] id = <<"c">> -> screen' = "Idle" /\ sent' = <<>> /\ choice' = 0 /\ UNCHANGED task
      [] id = <<"c", "o">> ->
            /\ \/ ~busy /\ busy' = TRUE /\ screen' = "Compacting"
               \/ screen' = "Idle" /\ UNCHANGED busy
            /\ choice' = 0 /\ UNCHANGED <<sent, pending>>

(* run_turn_with_input: the prompt is shown and its turn runs, or waits    *)
(* for a compaction; a hook may block it before it is shown.               *)
Launch(t) ==
    /\ UNCHANGED palette
    /\ \/ UNCHANGED <<sent, screen, task>>
       \/ /\ Len(sent) < keyboard.sent
          /\ sent' = Append(sent, t)
          /\ \/ UNCHANGED <<screen, task>>
             \/ busy' = TRUE /\ screen' = "Compacting" /\ pending' = [text |-> t, sent |-> Len(sent)]

(* start_turn.                                                             *)
Send ==
    IF busy THEN UNCHANGED <<prompt, screen, palette, sent, task>>
    ELSE /\ Clear
         /\ CASE Blank(text) -> UNCHANGED <<screen, palette, sent, task>>
              [] OTHER ->
                    \/ UNCHANGED <<query, kept>> /\ \E id \in SlashCommands(text) : Execute(id)
                    \/ /\ SlashCommands(text) = {}
                       /\ IF SlashName(text) # <<>> /\ ~IsSkill(text)
                          THEN UNCHANGED <<screen, palette, sent, task>>      \* "not found"
                          ELSE Launch(text)

-----------------------------------------------------------------------------
(* The layers, in the order in which they are asked.                       *)

CancelsCompaction(k) == screen = "Compacting" /\ k \in {"esc", "ctrlc"}
OpensHelp(k) == screen \notin Modals /\ k = "f1"
PopupOpen == popup.mode = "Skill" \/ (popup.mode = "File" /\ popup.matches # <<>>)
PopupTakes(k) == PopupOpen /\ k \notin {"left", "right", "home", "end", "del", "f1"}
ForScreen(k) == ~CancelsCompaction(k) /\ ~OpensHelp(k) /\ ~PopupTakes(k)

(* Esc or Ctrl+C while a compaction runs: the key handler closes the popup *)
(* and goes to Idle, whereupon the main loop aborts the task and takes a   *)
(* waiting prompt back into the editor, over whatever was typed meanwhile. *)
CancelCompaction(k) ==
    /\ CancelsCompaction(k)
    /\ popup' = NoPopup /\ screen' = "Idle" /\ busy' = FALSE /\ pending' = NoText
    /\ IF busy /\ pending # NoText
       THEN Set(pending.text, Size(pending.text)) /\ sent' = SubSeq(sent, 1, pending.sent)
       ELSE UNCHANGED <<prompt, sent>>
    /\ UNCHANGED <<setting, showHidden, palette, history>>

OpenHelp(k) ==
    /\ OpensHelp(k) /\ ~CancelsCompaction(k)
    /\ screen' = "HelpPopup"
    /\ UNCHANGED <<setting, prompt, complete, palette, sent, history, task>>

(* handle_file_autocomplete and handle_skill_autocomplete.                 *)
Accept ==
    LET name == popup.matches[popup.selected + 1]
        ats == {i \in DOMAIN text : text[i] = "at"}
        whole == IF popup.mode = "Skill" THEN <<"sl">> \o name ELSE SubSeq(text, 1, Max(ats)) \o name
    IN  IF popup.matches = <<>> \/ (popup.mode = "File" /\ ats = {}) THEN UNCHANGED prompt
        ELSE Set(whole, Size(whole))
Reopened(t) == IF popup.mode = "Skill" THEN SkillPopup(t) ELSE FilePopup(t, popup.hidden)
PopupCloses(k) ==
    /\ popup' = NoPopup /\ UNCHANGED showHidden
    /\ \/ k \in {"tab", "enter", "altenter"} /\ Accept
       \/ k = "esc" /\ UNCHANGED prompt
       \/ k = "ctrlc" /\ Clear
PopupMoves(k) ==
    /\ k \in {"up", "down"}
    /\ LET at == IF popup.matches = <<>> THEN 0 ELSE Around(k, popup.selected, Len(popup.matches))
       IN  popup' = [popup EXCEPT !.selected = at, !.scroll = ClampScroll(at, popup.scroll)]
    /\ UNCHANGED <<prompt, showHidden>>
PopupTypes(k) ==
    /\ IsChar(k) /\ Room /\ ~(k = "ctrldot" /\ popup.mode = "File")
    /\ Type(CharOf(k))
    /\ popup' = IF popup.mode = "Skill" /\ k = "sp" THEN NoPopup ELSE Reopened(text')
    /\ UNCHANGED showHidden
PopupTogglesHidden(k) ==
    /\ k = "ctrldot" /\ popup.mode = "File"
    /\ showHidden' = ~popup.hidden
    /\ popup' = FilePopup(text, ~popup.hidden)
    /\ UNCHANGED prompt
PopupBackspace(k) ==
    /\ k = "bksp" /\ UNCHANGED showHidden
    /\ LET b == Backspace(text, pos)
           stays == IF popup.mode = "Skill" THEN b.text # <<>> /\ b.text[1] = "sl" ELSE "at" \in Range(b.text)
       IN  /\ popup' = IF stays THEN Reopened(b.text) ELSE NoPopup
           /\ IF popup.mode = "Skill" /\ ~stays THEN Clear ELSE Set(b.text, b.pos)
PopupKey(k) ==
    /\ PopupTakes(k) /\ ~CancelsCompaction(k)
    /\ PopupCloses(k) \/ PopupMoves(k) \/ PopupTypes(k) \/ PopupTogglesHidden(k) \/ PopupBackspace(k)
    /\ UNCHANGED <<setting, screen, palette, sent, history, task>>

(* IdleHandler; it also serves a compaction.                               *)
AtPrompt(k) == ForScreen(k) /\ screen \in {"Idle", "Compacting"}
OpenPalette(k) ==
    /\ AtPrompt(k) /\ k = "ctrlg"
    /\ screen' = "CommandPalette" /\ query' = <<>> /\ choice' = 0
    /\ kept' = [text |-> text, pos |-> pos]
    /\ UNCHANGED <<setting, prompt, complete, sent, history, task>>
Discard(k) ==
    /\ AtPrompt(k) /\ k \in {"esc", "ctrlc", "ctrlk"}
    /\ Clear /\ popup' = NoPopup /\ ResetHistory
    /\ UNCHANGED <<setting, showHidden, screen, palette, sent, task>>
BreakLine(k) ==
    /\ AtPrompt(k) /\ k = "altenter" /\ Room
    /\ Type("nl") /\ popup' = NoPopup
    /\ UNCHANGED <<setting, showHidden, screen, palette, sent, history, task>>
Enter(k) ==
    /\ AtPrompt(k) /\ k = "enter"
    /\ ResetHistory /\ Send
    /\ UNCHANGED <<setting, complete>>
StartSkill(k) ==
    /\ AtPrompt(k) /\ k = "sl" /\ text = <<>>
    /\ Set(<<"sl">>, 1) /\ popup' = SkillPopup(<<"sl">>)
    /\ UNCHANGED <<setting, showHidden, screen, palette, sent, history, task>>
Insert(k) ==
    /\ AtPrompt(k) /\ IsChar(k) /\ k \notin {"ctrlg", "ctrlk"} /\ Room /\ ~(k = "sl" /\ text = <<>>)
    /\ Type(CharOf(k))
    /\ IF k = "at" /\ pos' = Size(text')
       THEN popup' = FilePopup(text', showHidden)
       ELSE UNCHANGED popup
    /\ UNCHANGED <<setting, showHidden, screen, palette, sent, history, task>>
Erase(k) ==
    /\ AtPrompt(k) /\ k = "bksp"
    /\ BackspaceKey
    /\ popup' = IF "at" \in Range(text')
                THEN FilePopup(text', IF popup.mode = "File" THEN popup.hidden ELSE showHidden)
                ELSE NoPopup
    /\ UNCHANGED <<setting, showHidden, screen, palette, sent, history, task>>
Delete(k) ==
    /\ AtPrompt(k) /\ k = "del"
    /\ DeleteKey
    /\ UNCHANGED <<setting, complete, screen, palette, sent, history, task>>
Move(k) ==
    /\ AtPrompt(k) /\ k \in Motions
    /\ MotionKey(k)
    /\ UNCHANGED <<setting, complete, screen, palette, sent, task>>

(* CommandPaletteHandler: the text is put back before the command runs.    *)
(* What the palette kept is of no use then, and is forgotten here.         *)
InPalette(k) == ForScreen(k) /\ screen = "CommandPalette"
ClosePalette(k) ==
    /\ InPalette(k) /\ k \in {"esc", "enter"}
    /\ Set(kept.text, kept.pos)
    /\ IF k = "enter" /\ choice < Len(MatchedCommands)
       THEN \E i \in DOMAIN Commands :
                /\ Commands[i].name = MatchedCommands[choice + 1]
                /\ IF Commands[i].id = <<"c", "o">>
                   THEN screen' = "CompactKeepPrompt" /\ choice' = 0 /\ UNCHANGED <<sent, task>>
                   ELSE Execute(Commands[i].id)
       ELSE screen' = "Idle" /\ choice' = 0 /\ UNCHANGED <<sent, task>>
    /\ query' = <<>> /\ kept' = NoText
    /\ UNCHANGED <<setting, complete, history>>
Filter(k) ==
    /\ InPalette(k)
    /\ \/ k = "bksp" /\ query' = (IF query = <<>> THEN <<>> ELSE Front(query)) /\ choice' = 0
       \/ k = "ctrlc" /\ query' = <<>> /\ choice' = 0
       \/ IsChar(k) /\ Len(query) < MaxQuery /\ query' = Append(query, CharOf(k)) /\ choice' = 0
       \/ /\ k \in {"up", "down", "tab"} /\ MatchedCommands # <<>>
          /\ choice' = Around(k, choice, Len(MatchedCommands)) /\ UNCHANGED query
    /\ UNCHANGED <<setting, prompt, complete, screen, kept, sent, history, task>>

(* CompactKeepPromptHandler: the number of turns to keep is MainLoop's.     *)
(* Enter without a session, or while a compaction runs, changes nothing,    *)
(* and the question stays.                                                  *)
AnswerKeep(k) ==
    /\ ForScreen(k) /\ screen = "CompactKeepPrompt"
    /\ \/ k = "esc" /\ screen' = "Idle" /\ UNCHANGED busy
       \/ k = "enter" /\ ~busy /\ busy' = TRUE /\ screen' = "Compacting"
    /\ UNCHANGED <<setting, prompt, complete, palette, sent, history, pending>>

(* ModelSelectHandler, where j and k move as well (in the palette they are  *)
(* typed too, and the choice is the first again), and Esc in the help.      *)
Pick(k) ==
    /\ ForScreen(k) /\ screen = "ModelSelect"
    /\ \/ /\ k \in {"up", "down", "tab", "j", "k", "ctrlk"}
          /\ choice' = Around(IF CharOf(k) = "k" THEN "up" ELSE k, choice, Models)
          /\ UNCHANGED screen
       \/ k \in {"esc", "enter"} /\ screen' = "Idle" /\ choice' = 0
    /\ UNCHANGED <<setting, prompt, complete, query, kept, sent, history, task>>
LeaveHelp(k) ==
    /\ ForScreen(k) /\ screen = "HelpPopup" /\ k = "esc"
    /\ screen' = "Idle"
    /\ UNCHANGED <<setting, prompt, complete, palette, sent, history, task>>

(* Event::Paste goes into the prompt on every screen.                      *)
Paste ==
    /\ "paste" \in keyboard.keys
    /\ \E t \in Pastes :
          /\ Len(text) + Len(t) <= keyboard.size
          /\ IF OnBoundary(text, pos)
             THEN LET n == CharsBefore(text, pos)
                  IN  Set(SubSeq(text, 1, n) \o t \o SubSeq(text, n + 1, Len(text)), pos + Size(t))
             ELSE dead' = TRUE /\ UNCHANGED <<text, pos>>
    /\ UNCHANGED <<setting, complete, screen, palette, sent, history, task>>

(* A compaction ends by itself, the turn that waited for it runs, and both *)
(* leave the screen Idle, whatever was open.                               *)
CompactionEnds ==
    /\ busy /\ busy' = FALSE /\ pending' = NoText
    /\ screen' = "Idle" /\ query' = <<>> /\ choice' = 0 /\ kept' = NoText
    /\ UNCHANGED <<setting, prompt, complete, sent, history>>

Key(k) ==
    \/ CancelCompaction(k) \/ OpenHelp(k) \/ PopupKey(k)
    \/ OpenPalette(k) \/ Discard(k) \/ BreakLine(k) \/ Enter(k) \/ StartSkill(k)
    \/ Insert(k) \/ Erase(k) \/ Delete(k) \/ Move(k)
    \/ ClosePalette(k) \/ Filter(k) \/ AnswerKeep(k) \/ Pick(k) \/ LeaveHelp(k)
Next == ~dead /\ ((\E k \in Keys : Key(k)) \/ Paste \/ CompactionEnds)

Spec == Init /\ [][Next]_vars

-----------------------------------------------------------------------------
(* Every state the program is in.                                          *)
TypeOK ==
    /\ pos \in Nat /\ dead \in BOOLEAN /\ busy \in BOOLEAN /\ showHidden \in BOOLEAN
    /\ text \in Seq(STRING)
    /\ screen \in Modals \cup {"Idle", "Compacting", "CompactKeepPrompt"}

(* What Up and Down leaf through is put aside once, as it is when the first *)
(* Up leaves it: while the user looks at older prompts the draft is never  *)
(* replaced by one of them, and when Down leaves the last of them it is    *)
(* back, cursor included.                                                  *)
DraftKept == [][
    /\ index = 0 /\ index' > 0 => saved' = [text |-> text, pos |-> pos]
    /\ index > 0 /\ index' > 0 => saved' = saved
    /\ index = 1 /\ index' = 0 /\ text' # <<>> /\ text' # text => saved = [text |-> text', pos |-> pos']]_vars

(* Down never gets stuck in a text, and Up neither: unless the cursor is   *)
(* on the last (first) visual line, each takes it further on (back), to a  *)
(* character; so that holding the key always reaches the history.          *)
VerticalProgress ==
    OnBoundary(text, pos) =>
        LET row == VisualPos(text, pos, width).row
        IN  /\ \E up \in {CursorUpVisual(text, pos, width)} :
                  OnBoundary(text, up) /\ (row > 1 => up < pos)
            /\ \E down \in {CursorDownVisual(text, pos, width)} :
                  OnBoundary(text, down) /\ (row < Len(VisualLines(text, width)) => down > pos)

(* The row of the cursor is among the rows the prompt shows, although its  *)
(* height is computed for a wider line (layout.rs) than it is wrapped at.  *)
CursorRowShown ==
    LET Shown(row, rows, first) == first <= row /\ row < first + rows
        Seen(row, rows) == Shown(row, rows, WindowStart(row, Len(VisualLines(text, width)), rows))
    IN  Seen(VisualPos(text, pos, width).row - 1, InputHeight(text, width + 2, MaxRows))

(* What Tab or Enter would take is a match, and one of those on the page.  *)
ChoiceVisible ==
    popup # NoPopup /\ popup.matches # <<>> =>
        /\ popup.selected < Len(popup.matches)
        /\ popup.scroll <= popup.selected /\ popup.selected < popup.scroll + Page

(* Both: what the next key acts on is on the screen.                       *)
FocusShown == CursorRowShown /\ ChoiceVisible

(* cursor.rs:26: "cursor should always be on char boundaries".             *)
CursorOnBoundary == OnBoundary(text, pos)

(* cursor.rs: "Move cursor down one visual line".                          *)
DownMovesDown ==
    OnBoundary(text, pos) =>
        LET at == VisualPos(text, pos, width).row IN
        at < Len(VisualLines(text, width)) =>
            VisualPos(text, CursorDownVisual(text, pos, width), width).row = at + 1

(* key_handler/mod.rs: completion is "Only active in Idle state": no key   *)
(* of the help changes the prompt.                                         *)
HelpTakesKeys == [][screen = "HelpPopup" /\ text' # text => ~\E k \in Keys : Key(k)]_vars
=============================================================================
