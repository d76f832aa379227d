---------------------------- MODULE SessionStore -----------------------------
(***************************************************************************)
(* The session store of src/session/manager.rs: the entries in memory, the *)
(* JSONL files they are kept in, and what is left of them after a write    *)
(* that failed or was interrupted.                                         *)
(*                                                                         *)
(* Each action is one call of the store, as turn.rs, agent_events.rs,      *)
(* event_loop.rs and the session picker make it.  A write either returns   *)
(* Ok, or fails after some part of it reached the file, or is cut short by *)
(* the end of the process.  A process that ends and starts again holds an  *)
(* empty store, which is also what /new installs, so one action stands for *)
(* both.  Texts, timestamps and usage figures are left out.                *)
(***************************************************************************)
EXTENDS Integers, Sequences, FiniteSets, SequencesExt

CONSTANTS Sessions,    \* bound: names of session files (uuids in the code)
          MaxEntries,  \* bound: entries created over the whole behaviour
          MaxFaults,   \* bound: faulty writes over the whole behaviour
          Torn         \* how far an unfinished append may have got

ASSUME StoreAssumption ==
  /\ Sessions \cap Nat = {}
  /\ MaxEntries \in Nat
  /\ MaxFaults \in Nat
  /\ Torn \subseteq {"part", "split", "line"}

VARIABLES
  mem,     \* SessionStore::entries
  path,    \* current_session_path, 0 when there is none
  sid,     \* current_session_id, 0 when there is none
  cache,   \* the context the cached token count was computed from
  created, \* created_session of the turn being set up
  files,   \* the session files
  next,    \* number of entries created so far, the id of the latest
  acked,   \* per file: entries whose write returned Ok, and not dropped since
  faults,  \* per file: faulty writes since its last complete rewrite
  allFaults

store == <<mem, path, sid, cache, created>>
vars == <<mem, path, sid, cache, created, files, next, acked, faults, allFaults>>

-----------------------------------------------------------------------------
(* Entries.  A session header is identified by its file, a message or      *)
(* compaction by a number of its own; a custom entry has no id.  mark is   *)
(* the activated skill of a header and the image of a tool result.         *)

Entry == [kind : {"session", "talk", "tool", "compaction", "custom"},
          id : Sessions \cup Nat, kept : Nat, mark : BOOLEAN]
Plain(kind, id) == [kind |-> kind, id |-> id, kept |-> 0, mark |-> FALSE]
Header(s) == Plain("session", s)
Bad == [kind |-> "bad"]

IsHeader(e) == e.kind = "session"
IsMessage(e) == e.kind \in {"talk", "tool"}
Ids(m) == {m[i].id : i \in DOMAIN m} \ {0}

\* build_context_from_entries: a compaction drops what follows it up to the
\* entry it names.
ContextStep(acc, e) ==
  LET skip == acc.skip # 0 /\ e.id # acc.skip
  IN CASE skip -> acc
       [] ~skip /\ e.kind = "compaction" -> [out |-> Append(acc.out, e), skip |-> e.kept]
       [] ~skip /\ IsMessage(e) -> [out |-> Append(acc.out, e), skip |-> 0]
       [] OTHER -> [acc EXCEPT !.skip = 0]
Nothing == [out |-> <<>>, skip |-> 0]
Scan(m) ==
  LET scan[n \in 0..Len(m)] == IF n = 0 THEN Nothing ELSE ContextStep(scan[n - 1], m[n])
  IN scan[Len(m)]
Context(m) == Scan(m).out

\* find_live_start: the first entry the next compaction may drop.
LiveStart(m) ==
  LET comps == {i \in DOMAIN m : m[i].kind = "compaction"}
      last == CHOOSE i \in comps : \A j \in comps : j <= i
      kept == {i \in DOMAIN m : m[i].id = m[last].kept}
  IN CASE comps = {} -> 2
       [] comps # {} /\ (m[last].kept = 0 \/ kept = {}) -> last + 1
       [] OTHER -> CHOOSE i \in kept : \A j \in kept : i <= j

-----------------------------------------------------------------------------
(* Files: lines, whether the last one still lacks its newline, and whether *)
(* the whole is UTF-8.                                                     *)

NoFile == [lines |-> <<>>, open |-> FALSE, utf8 |-> TRUE]

\* An append that got as far as x: "part" of the JSON, "split" inside a
\* multi-byte character, the whole "line" without its newline, or "all".
Put(f, e, x) ==
  [lines |-> IF f.open THEN Append(Front(f.lines), Bad)
             ELSE Append(f.lines, IF x \in {"part", "split"} THEN Bad ELSE e),
   open |-> x # "all",
   utf8 |-> f.utf8 /\ x # "split"]

\* Fault: what follows a corrupted line is not read.
ReadableToBad(f) ==
  LET bad == {i \in DOMAIN f.lines : f.lines[i] = Bad}
  IN IF bad = {} THEN f.lines
     ELSE SubSeq(f.lines, 1, (CHOOSE i \in bad : \A j \in bad : i <= j) - 1)

\* load_session skips the lines that do not parse.
Parsed(lines) ==
  LET good[n \in 0..Len(lines)] ==
        IF n = 0 THEN <<>>
        ELSE IF lines[n] = Bad THEN good[n - 1] ELSE Append(good[n - 1], lines[n])
  IN good[Len(lines)]
Readable(f) == Parsed(f.lines)

\* list_sessions wants a readable file whose first line is a header.
Listed(f) == f.utf8 /\ f.lines # <<>> /\ f.lines[1].kind = "session"

Failing == {"none", "all"} \cup Torn

\* A faulty write to s: bound MaxFaults.
Fault(s) ==
  /\ allFaults < MaxFaults
  /\ allFaults' = allFaults + 1
  /\ faults' = [faults EXCEPT ![s] = @ + 1]

\* append_entry_to_disk returned Ok, or an error: for "all" that of the fsync.
AppendToDisk(s, e) ==
  /\ files' = [files EXCEPT ![s] = Put(@, e, "all")]
  /\ acked' = [acked EXCEPT ![s] = @ \cup Ids(<<e>>)]
  /\ UNCHANGED <<faults, allFaults>>
AppendFails(s, e) ==
  /\ \/ UNCHANGED files
     \/ \E x \in Failing \ {"none"} : files' = [files EXCEPT ![s] = Put(@, e, x)]
  /\ Fault(s)
  /\ UNCHANGED acked

\* rewrite_session_file: the file is replaced by the entries m, or not at all.
RewriteDone(s, m) ==
  /\ files' = [files EXCEPT ![s] = [lines |-> m, open |-> FALSE, utf8 |-> TRUE]]
  /\ acked' = [acked EXCEPT ![s] = Ids(m)]
  /\ faults' = [faults EXCEPT ![s] = 0]
  /\ UNCHANGED allFaults
RewriteFails(s) == Fault(s) /\ UNCHANGED <<files, acked>>
Rewrite(s, m) == RewriteDone(s, m) \/ RewriteFails(s)

-----------------------------------------------------------------------------
Init ==
  /\ mem = <<>> /\ path = 0 /\ sid = 0 /\ cache = <<>> /\ created = FALSE
  /\ files = [s \in Sessions |-> NoFile]
  /\ next = 0
  /\ acked = [s \in Sessions |-> {}]
  /\ faults = [s \in Sessions |-> 0]
  /\ allFaults = 0

EmptyStore ==
  /\ mem' = <<>> /\ path' = 0 /\ sid' = 0 /\ cache' = <<>> /\ created' = FALSE

\* The turn that finds no active session creates one; when its header cannot
\* be written there is still none.
CreateSession(s) ==
  /\ path = 0
  /\ files[s] = NoFile
  /\ mem' = <<Header(s)>>
  /\ cache' = <<>>
  /\ \/ AppendToDisk(s, Header(s)) /\ path' = s /\ sid' = s /\ created' = TRUE
     \/ AppendFails(s, Header(s)) /\ UNCHANGED <<path, sid, created>>
  /\ UNCHANGED next

\* append_message: memory first, then the file; an error is only reported.
AppendMessage(kind, image) ==
  /\ path # 0 /\ next < MaxEntries
  /\ image => kind = "tool"
  /\ LET e == [Plain(kind, next + 1) EXCEPT !.mark = image]
     IN /\ mem' = Append(mem, e)
        /\ AppendToDisk(path, e) \/ AppendFails(path, e)
  /\ cache' = Context(mem')
  /\ next' = next + 1
  /\ created' = FALSE
  /\ UNCHANGED <<path, sid>>

\* save_token_rate, at the end of a task; the cache is left as it is.
SaveTokenRate ==
  /\ path # 0 /\ next < MaxEntries /\ ~created
  /\ LET e == Plain("custom", 0)
     IN /\ mem' = Append(mem, e)
        /\ AppendToDisk(path, e) \/ AppendFails(path, e)
  /\ next' = next + 1
  /\ UNCHANGED <<path, sid, cache, created>>

\* Fault: the token count is not recomputed.
StripToolImagesKeepsCache(i) ==
  /\ path # 0 /\ i \in DOMAIN mem /\ mem[i].kind = "tool" /\ mem[i].mark
  /\ mem' = [mem EXCEPT ![i].mark = FALSE]
  /\ Rewrite(path, mem')
  /\ UNCHANGED <<path, sid, cache, created, next>>

\* strip_tool_images, for one image at a time.
StripToolImages(i) ==
  /\ path # 0 /\ i \in DOMAIN mem /\ mem[i].kind = "tool" /\ mem[i].mark
  /\ mem' = [mem EXCEPT ![i].mark = FALSE]
  /\ cache' = Context(mem')
  /\ Rewrite(path, mem')
  /\ UNCHANGED <<path, sid, created, next>>

\* add_activated_skill: into the header, which is all that may be there when
\* creating the session failed.
AddActivatedSkill ==
  /\ mem # <<>> /\ IsHeader(mem[1]) /\ ~mem[1].mark
  /\ mem' = [mem EXCEPT ![1].mark = TRUE]
  /\ IF path # 0 THEN Rewrite(path, mem')
     ELSE UNCHANGED <<files, acked, faults, allFaults>>
  /\ UNCHANGED <<path, sid, cache, created, next>>

\* Fault: the compaction names the entry before the first one it keeps.
CompactedOffByOne(cut) ==
  <<mem[1], [Plain("compaction", next + 1) EXCEPT
               !.kept = IF cut <= Len(mem) THEN mem[cut - 1].id ELSE 0]>>
  \o SubSeq(mem, cut, Len(mem))

\* The header, the compaction and the entries from the cut onward.
Compacted(cut) ==
  <<mem[1], [Plain("compaction", next + 1) EXCEPT
               !.kept = IF cut <= Len(mem) THEN mem[cut].id ELSE 0]>>
  \o SubSeq(mem, cut, Len(mem))

\* apply_compaction of a plan the compaction engine computed for mem.
ApplyCompaction(cut) ==
  /\ path # 0 /\ next < MaxEntries
  /\ cut > LiveStart(mem)
  /\ cut <= Len(mem) => mem[cut].kind # "tool"
  /\ mem' = Compacted(cut)
  /\ cache' = Context(mem')
  /\ Rewrite(path, mem')
  /\ next' = next + 1
  /\ UNCHANGED <<path, sid, created>>

\* load_session of a listed session, whatever is active now.
LoadSession(s) ==
  /\ Listed(files[s])
  /\ mem' = Readable(files[s])
  /\ path' = s
  /\ sid' = IF IsHeader(mem'[1]) THEN mem'[1].id ELSE sid
  /\ cache' = Context(mem')
  /\ created' = FALSE
  /\ UNCHANGED <<files, next, acked, faults, allFaults>>

\* undo_turn_setup: the session the turn created is deleted again, if it can be.
UndoTurnSetup ==
  /\ created
  /\ \/ /\ files' = [files EXCEPT ![path] = NoFile]
        /\ acked' = [acked EXCEPT ![path] = {}]
        /\ faults' = [faults EXCEPT ![path] = 0]
        /\ UNCHANGED allFaults
     \/ RewriteFails(path)
  /\ EmptyStore
  /\ UNCHANGED next

\* /new, or the process ends and another one starts.
NewStore ==
  /\ EmptyStore
  /\ UNCHANGED <<files, next, acked, faults, allFaults>>

\* The process ends in the middle of an append.  (In the middle of a rewrite
\* it leaves the old file or the new one: NewStore, before or after it.)
DieInAppend ==
  /\ path # 0 /\ next < MaxEntries
  /\ \E x \in Torn :
       files' = [files EXCEPT ![path] = Put(@, Plain("talk", next + 1), x)]
  /\ Fault(path)
  /\ EmptyStore
  /\ next' = next + 1
  /\ UNCHANGED acked

Next ==
  \/ \E s \in Sessions : CreateSession(s) \/ LoadSession(s)
  \/ \E kind \in {"talk", "tool"}, image \in BOOLEAN : AppendMessage(kind, image)
  \/ SaveTokenRate
  \/ \E i \in DOMAIN mem : StripToolImages(i)
  \/ AddActivatedSkill
  \/ \E cut \in 2..(Len(mem) + 1) : ApplyCompaction(cut)
  \/ UndoTurnSetup
  \/ NewStore
  \/ DieInAppend

Spec == Init /\ [][Next]_vars

-----------------------------------------------------------------------------
TypeOK ==
  /\ mem \in Seq(Entry)
  /\ {path, sid} \subseteq Sessions \cup {0}
  /\ cache \in Seq(Entry)
  /\ created \in BOOLEAN
  /\ files \in [Sessions -> [lines : Seq(Entry \cup {Bad}), open : BOOLEAN, utf8 : BOOLEAN]]
  /\ next \in 0..MaxEntries
  /\ acked \in [Sessions -> SUBSET (Sessions \cup Nat)]
  /\ faults \in [Sessions -> 0..MaxFaults]
  /\ allFaults \in 0..MaxFaults

\* The store that has a file holds that file's session, under its own header:
\* what is appended can never land in the file of another session.
OwnHeader == path # 0 => mem # <<>> /\ IsHeader(mem[1]) /\ mem[1].id = path /\ sid = path

\* The cached token count, which the status bar and the pre-prompt check read
\* instead of the entries, is that of the current context.
CacheFresh == cache = Context(mem)

\* As long as no write to its file went wrong, the file loads to exactly the
\* entries in memory: the process may end at any moment.
DiskMatchesMemory ==
  path # 0 /\ faults[path] = 0 => files[path].utf8 /\ Readable(files[path]) = mem

\* What the store keeps of a session in several places is one session: the
\* entries, the file, the header of the file and the cached context agree.
CopiesAgree == OwnHeader /\ CacheFresh /\ DiskMatchesMemory

\* Every faulty write costs a session at most one entry that was saved.
LossBounded ==
  \A s \in Sessions : Cardinality(acked[s] \ Ids(Readable(files[s]))) <= faults[s]

\* However often a session was compacted, torn, resumed and compacted again,
\* it loads to one summary at most, right after the header, and the entry at
\* which the summary resumes comes right after it: the skip of
\* build_context_from_entries always ends.
SummaryUsable ==
  \A s \in Sessions : Listed(files[s]) =>
    LET m == Readable(files[s])
    IN \A i \in DOMAIN m : m[i].kind = "compaction" =>
         /\ i = 2
         /\ m[i].kept # 0 => Len(m) >= 3 /\ m[3].id = m[i].kept

\* A compaction only takes messages from the front of the context: the model
\* is next sent the summary and then, unbroken, every message that was kept.
Messages(m) ==
  LET talk[n \in 0..Len(m)] ==
        IF n = 0 THEN <<>>
        ELSE IF IsMessage(m[n]) THEN Append(talk[n - 1], m[n]) ELSE talk[n - 1]
  IN talk[Len(m)]
Summaries(m) == {m[i].id : i \in {j \in DOMAIN m : m[j].kind = "compaction"}}
SummaryPlusTail ==
  [][next' # next /\ ~(Summaries(mem') \subseteq Summaries(mem)) =>
       LET kept == Messages(SubSeq(mem', 3, Len(mem')))
       IN Context(mem') = <<mem'[2]>> \o kept /\ IsSuffix(kept, Context(mem))]_vars

\* Only malformed lines are skipped: an entry whose append returned Ok loads.
SavedEntriesLoad == \A s \in Sessions : acked[s] \subseteq Ids(Readable(files[s]))

\* A session with a saved entry is offered by the session picker.
SavedSessionListed == \A s \in Sessions : acked[s] # {} => Listed(files[s])
=============================================================================
