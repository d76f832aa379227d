------------------------------- MODULE Models -------------------------------
(***************************************************************************)
(* config.json, the live model and the list of models of the server:       *)
(* config.rs (parse, migrate, validate, save), tui/config_state.rs,        *)
(* fetch_models_body of openai.rs with its cache, /model of commands.rs,   *)
(* and switch_model, spawn_model_fetch, apply_fetched_models of            *)
(* tui/app.rs.  One endpoint; a model is [name, ctx, vision], with loaded  *)
(* when the server reports it.                                             *)
(***************************************************************************)
EXTENDS Naturals, Sequences, SequencesExt

CONSTANTS
    UserFiles,   \* what config.json may hold when the user wrote it
    Servers,     \* the lists of models the server may answer with
    Absent,      \* a key that is not in the file; nothing
    Other,       \* a key with a value of another type than is read
    WindowMax,   \* u32::MAX, the largest context window
    Pending, Failed, \* no reply yet; no list
    Torn,        \* a config.json that was truncated
    MaxStarts    \* bound: starts of the program

VARIABLES
    file,        \* config.json
    user,        \* history: the models of the first config.json
    up,          \* is the program running?
    starts,
    conf,        \* app.config.config
    live,        \* model_name, context_window, vision and loaded of ConfigState
    found,       \* discovered_models
    display,     \* thinking_display of ConfigState
    fetch,       \* model_fetch: Absent, or keep_current and the reply
    orphan,      \* a fetch task whose receiver was replaced
    cache,       \* MODEL_CACHE: Absent, or the body of the last fetch
    server,      \* what /v1/models answers now
    picker       \* the list in the model select popup, or Absent

memory == <<conf, live, found, display, fetch, picker>>
vars == <<file, user, up, starts, memory, orphan, cache, server>>

Names(models) == {models[i].name : i \in DOMAIN models}
(* The first of that name.                                                  *)
Find(models, n) ==
    models[CHOOSE i \in DOMAIN models :
              models[i].name = n /\ \A j \in 1 .. i - 1 : models[j].name # n]
Or(x, default) == IF x \in {Absent, Other} THEN default ELSE x
(* u32::try_from(v).unwrap_or(u32::MAX), or the default.                    *)
Window(x) == IF Or(x, 32768) > WindowMax THEN WindowMax ELSE Or(x, 32768)

(* What may be configured, written to a file and answered by a server; a    *)
(* name is a user's, a server's or one of the program's own.  A number that *)
(* as_u64 refuses is Other.  The one value left out is a legacy model key   *)
(* with the empty text: it is configured, and dropped when it is read back. *)
Name == STRING \cup {"llama3.2", ""}
Named == Name \ {""}
Key(S) == S \cup {Absent, Other}
Model == [name : Named, ctx : 0 .. WindowMax, vision : BOOLEAN]
Written == [name : Key(Name), ctx : Key(Nat), vision : Key(BOOLEAN)]
NextDisplay == [hidden |-> "collapsed", collapsed |-> "expanded", expanded |-> "hidden"]
Displays == DOMAIN NextDisplay
File ==
    [type : Key({"openai", "llamacpp"}), models : Key(Seq(Written)), active : Key(Name),
     model : Key(Named), window : Key(Nat), vision : Key(BOOLEAN), ui : Displays \cup {Absent}]
Entry ==
    [name : Named, ctx : 0 .. WindowMax \cup {Absent}, vision : BOOLEAN \cup {Absent},
     loaded : BOOLEAN \cup {Absent}]
ModelsAssumption ==
    /\ WindowMax \in Nat /\ WindowMax >= 32768
    /\ UserFiles \subseteq File /\ Servers \subseteq Seq(Entry)
    /\ \A x \in {Absent, Other} :
          x \notin Seq(Written) \cup Name \cup Nat \cup BOOLEAN \cup Displays
    /\ Absent \notin Seq(Entry)
    /\ {Absent, Torn} \cap File = {} /\ Absent # Torn

-----------------------------------------------------------------------------
(* ProviderConfig::deserialize: a model block makes a llamacpp file legacy. *)
HasModelBlock(raw) ==
    \/ raw.models # Absent \/ raw.active # Absent \/ raw.model # Absent
    \/ raw.window # Absent \/ raw.vision # Absent
Kind(raw) == IF raw.type = "llamacpp" /\ ~HasModelBlock(raw) THEN "llamacpp" ELSE "openai"
(* An entry of the list: one without a name is dropped.                     *)
Read(m) ==
    IF Or(m.name, "") = "" THEN <<>>
    ELSE <<[name |-> m.name, ctx |-> Window(m.ctx), vision |-> Or(m.vision, TRUE)]>>
ParsedModels(raw) ==
    IF Kind(raw) = "llamacpp" THEN <<>>
    ELSE IF raw.models \notin {Absent, Other}
    THEN FlattenSeq([i \in DOMAIN raw.models |-> Read(raw.models[i])])
    ELSE <<[name |-> Or(raw.model, "llama3.2"), ctx |-> Window(raw.window),
            vision |-> Or(raw.vision, TRUE)]>>
Parse(raw) ==
    LET models == ParsedModels(raw) IN
    [kind |-> Kind(raw), models |-> models,
     active |-> IF Kind(raw) = "llamacpp" THEN ""
                ELSE Or(raw.active, Or(raw.model, IF models = <<>> THEN "" ELSE models[1].name)),
     ui |-> Or(raw.ui, "collapsed")]

Serialize(c) ==
    LET list == c.kind # "llamacpp" IN
    [type |-> c.kind, models |-> IF list THEN c.models ELSE Absent,
     active |-> IF list THEN c.active ELSE Absent, model |-> Absent, window |-> Absent,
     vision |-> Absent, ui |-> c.ui]

(* Config::validate.                                                        *)
Valid(c) ==
    c.kind = "openai" =>
        c.models # <<>> /\ \A i \in DOMAIN c.models : c.models[i].ctx > 0

DefaultConfig ==
    [kind |-> "openai", active |-> "llama3.2", ui |-> "collapsed",
     models |-> <<[name |-> "llama3.2", ctx |-> 32768, vision |-> TRUE]>>]

(* Config::save: fs::write may fail before or after it truncated the file.  *)
Save(c) == file' = Serialize(c)
SaveFails == file' \in {file, Torn}

NeedsMigration(raw) ==
    \/ raw.ui = Absent \/ raw.models = Absent
    \/ raw.type = "llamacpp" /\ raw.models # Absent

-----------------------------------------------------------------------------
(* Config::active_context_window and its like: the active model, or the     *)
(* first.                                                                   *)
ActiveModel(c) ==
    IF c.active \in Names(c.models) THEN Find(c.models, c.active)
    ELSE IF c.models # <<>> THEN c.models[1]
    ELSE [name |-> c.active, ctx |-> 32768, vision |-> TRUE]

(* resolve_discovered, with its fallbacks.                                  *)
Resolved(l, list, n) ==
    IF n \notin Names(list) THEN l
    ELSE LET e == Find(list, n) IN
         [l EXCEPT !.ctx = Or(e.ctx, 32768), !.vision = Or(e.vision, FALSE), !.loaded = e.loaded]

NoApp ==
    /\ conf' = DefaultConfig /\ found' = <<>> /\ display' = "collapsed"
    /\ live' = [name |-> "", ctx |-> 0, vision |-> FALSE, loaded |-> Absent]
    /\ fetch' = Absent /\ picker' = Absent

Init ==
    /\ file \in UserFiles \cup {Absent}
    /\ user = IF file = Absent THEN <<>> ELSE ParsedModels(file)
    /\ up = FALSE /\ starts = 0
    /\ conf = DefaultConfig /\ found = <<>> /\ display = "collapsed"
    /\ live = [name |-> "", ctx |-> 0, vision |-> FALSE, loaded |-> Absent]
    /\ fetch = Absent /\ picker = Absent /\ orphan = FALSE /\ cache = Absent
    /\ server \in Servers

(* Config::load, App::new and the start-up fetch of llamacpp.  A file that  *)
(* lacks a section not modelled here is saved too.                          *)
Loaded == IF file = Absent THEN DefaultConfig ELSE Parse(file)
Start ==
    /\ ~up /\ starts < MaxStarts /\ file # Torn /\ Valid(Loaded)
    /\ up' = TRUE /\ starts' = starts + 1
    /\ conf' = Loaded /\ display' = Loaded.ui /\ found' = <<>> /\ picker' = Absent
    /\ live' = IF Loaded.kind = "llamacpp"
               THEN [name |-> "...", ctx |-> 32768, vision |-> FALSE, loaded |-> Absent]
               ELSE [name |-> Loaded.active, ctx |-> ActiveModel(Loaded).ctx,
                     vision |-> ActiveModel(Loaded).vision, loaded |-> Absent]
    /\ fetch' = IF Loaded.kind = "llamacpp" THEN [keep |-> FALSE, reply |-> Pending] ELSE Absent
    /\ cache' = Absent
    /\ Save(Loaded) \/ (file # Absent /\ ~NeedsMigration(file) /\ UNCHANGED file)
    /\ UNCHANGED <<user, orphan, server>>
(* A save that fails in Config::load is the end of that start.              *)
StartFails ==
    /\ ~up /\ starts < MaxStarts /\ file # Torn /\ Valid(Loaded)
    /\ starts' = starts + 1
    /\ SaveFails
    /\ UNCHANGED <<user, up, memory, orphan, cache, server>>

Exit == up' = FALSE /\ NoApp /\ orphan' = FALSE /\ cache' = Absent
Quit == up /\ Exit /\ UNCHANGED <<file, user, starts, server>>

(* The server loads another model, drops one, or is updated.                *)
ServerChanges ==
    /\ up
    /\ server' \in Servers \ {server}
    /\ UNCHANGED <<file, user, up, starts, memory, orphan, cache>>

CacheExpires ==
    /\ cache # Absent
    /\ cache' = Absent
    /\ UNCHANGED <<file, user, up, starts, memory, orphan, server>>

(* fetch_models_body: the cached body, the answer of the server (an empty   *)
(* text when its body cannot be read, which is cached too), or an error.    *)
Bodies == IF cache # Absent THEN {cache} ELSE {server, <<>>}
Fetched(body) == cache' = IF cache # Absent THEN cache ELSE body

(* parse_models_basic knows the names and contexts only.                    *)
Basic(body) == [i \in DOMAIN body |-> [name |-> body[i].name, ctx |-> body[i].ctx]]

(* The task of spawn_model_fetch answers; an orphan has no one to answer.   *)
Reply ==
    /\ fetch # Absent /\ fetch.reply = Pending
    /\ \/ \E b \in Bodies : Fetched(b) /\ fetch' = [fetch EXCEPT !.reply = b]
       \/ cache = Absent /\ fetch' = [fetch EXCEPT !.reply = Failed] /\ UNCHANGED cache
    /\ UNCHANGED <<file, user, up, starts, conf, live, found, display, picker, orphan, server>>
OrphanReplies ==
    /\ orphan /\ orphan' = FALSE
    /\ \E b \in Bodies : Fetched(b)
    /\ UNCHANGED <<file, user, up, starts, memory, server>>

(* spawn_model_fetch: the receiver of a fetch in flight is replaced.        *)
Spawn(c) ==
    IF c.kind # "llamacpp" THEN UNCHANGED <<fetch, orphan>>
    ELSE /\ fetch' = [keep |-> TRUE, reply |-> Pending]
         /\ orphan' = (orphan \/ (fetch # Absent /\ fetch.reply = Pending))

(* apply_fetched_models.                                                    *)
Chosen(list) ==
    LET first(v) == SelectSeq(list, LAMBDA e : e.loaded = v) IN
    IF first(TRUE) # <<>> THEN first(TRUE)[1].name
    ELSE IF first(Absent) # <<>> THEN first(Absent)[1].name ELSE list[1].name
PollFetch ==
    /\ fetch # Absent /\ fetch.reply # Pending
    /\ fetch' = Absent
    /\ IF fetch.reply \in {Failed, <<>>} THEN UNCHANGED <<found, live>>
       ELSE /\ found' = fetch.reply
            /\ LET n == IF fetch.keep THEN live.name ELSE Chosen(fetch.reply) IN
               live' = Resolved([live EXCEPT !.name = n], fetch.reply, n)
    /\ UNCHANGED <<file, user, up, starts, conf, display, picker, orphan, cache, server>>

(* /model: a failed fetch is an empty list.  What openai discovers is       *)
(* configured at once.                                                      *)
Add(models, e) ==
    IF e.name \in Names(models) THEN models
    ELSE Append(models, [name |-> e.name, ctx |-> Or(e.ctx, 32768), vision |-> TRUE])
(* A mutant: the models of the server replace those configured.            *)
FaultDiscovered(models, body) ==
    [i \in DOMAIN body |-> [name |-> body[i].name, ctx |-> Or(body[i].ctx, 32768), vision |-> TRUE]]

Discovered(models, body) ==
    LET known[i \in 0 .. Len(body)] ==
            IF i = 0 THEN models ELSE Add(known[i - 1], Basic(body)[i])
    IN known[Len(body)]
OpenPicker ==
    /\ up /\ picker = Absent
    /\ \E b \in Bodies \cup {<<>>} :
         /\ \/ b \in Bodies /\ Fetched(b)
            \/ b = <<>> /\ cache = Absent /\ UNCHANGED cache
         /\ LET list == IF conf.kind = "llamacpp" THEN b ELSE Discovered(conf.models, b) IN
            IF conf.kind = "llamacpp"
            THEN /\ found' = b /\ live' = Resolved(live, b, live.name) /\ UNCHANGED conf
                 /\ picker' = IF list = <<>> THEN Absent ELSE Names(list)
            ELSE /\ conf' = [conf EXCEPT !.models = list] /\ UNCHANGED <<found, live>>
                 /\ picker' = IF list = <<>> THEN Absent ELSE Names(list)
    /\ UNCHANGED <<file, user, up, starts, display, fetch, orphan, server>>

(* switch_model.                                                            *)
Select ==
    /\ up /\ picker # Absent
    /\ \E n \in picker :
         IF conf.kind = "llamacpp"
         THEN live' = Resolved([live EXCEPT !.name = n], found, n) /\ UNCHANGED conf
         ELSE /\ conf' = [conf EXCEPT !.active = n]
              /\ LET e == Find(conf.models, n) IN
                 live' = [live EXCEPT !.name = n, !.ctx = e.ctx, !.vision = e.vision]
    /\ picker' = Absent
    /\ Spawn(conf)
    /\ UNCHANGED <<file, user, up, starts, found, display, cache, server>>

CancelPicker ==
    /\ picker # Absent /\ picker' = Absent
    /\ UNCHANGED <<file, user, up, starts, conf, live, found, display, fetch, orphan, cache, server>>

(* /resume refreshes the list.                                              *)
LoadSession ==
    /\ up /\ picker = Absent
    /\ Spawn(conf)
    /\ UNCHANGED <<file, user, up, starts, conf, live, found, display, picker, cache, server>>

(* Ctrl+O, Ctrl+T and their commands: a failing save ends the program.      *)
Toggle ==
    /\ up /\ picker = Absent
    /\ \/ /\ display' = NextDisplay[display]
          /\ Save(conf)
          /\ UNCHANGED <<up, conf, live, found, fetch, picker, orphan, cache>>
       \/ SaveFails /\ Exit
    /\ UNCHANGED <<user, starts, server>>

(* Ctrl+. in the popup of files saves the choice, and a failure is ignored. *)
ShowHidden ==
    /\ up /\ picker = Absent
    /\ Save(conf) \/ SaveFails
    /\ UNCHANGED <<user, up, starts, memory, orphan, cache, server>>

Next ==
    \/ Start \/ StartFails \/ Quit \/ ServerChanges \/ CacheExpires
    \/ Reply \/ OrphanReplies \/ PollFetch
    \/ OpenPicker \/ Select \/ CancelPicker \/ LoadSession \/ Toggle \/ ShowHidden

Spec == Init /\ [][Next]_vars

(* live_config: what the agent and a compaction are given.                  *)
LiveConfig ==
    LET mine == [name |-> live.name, ctx |-> live.ctx, vision |-> live.vision] IN
    [conf EXCEPT !.active = live.name,
        !.models = IF live.name \notin Names(@) THEN Append(@, mine)
                   ELSE [i \in DOMAIN @ |-> IF @[i].name = live.name THEN mine ELSE @[i]]]

-----------------------------------------------------------------------------
TypeOK ==
    /\ up \in BOOLEAN /\ orphan \in BOOLEAN /\ starts \in 0 .. MaxStarts
    /\ conf.kind \in {"openai", "llamacpp"}
    /\ fetch # Absent => conf.kind = "llamacpp" /\ fetch.keep \in BOOLEAN

(* What the program saves it reads back as it was: a llamacpp file never    *)
(* becomes a legacy openai one (config.rs).                                 *)
SavedLoads == up => Parse(Serialize(conf)) = conf /\ (file # Torn => Kind(file) = conf.kind)

(* A model the user configured keeps its context window and its vision,     *)
(* whatever the server says, in memory and in every file that loads.        *)
ConfiguredKept ==
    \A i \in DOMAIN user :
        /\ up => user[i] \in ToSet(conf.models)
        /\ file \notin {Torn, Absent} => user[i] \in ToSet(Parse(file).models)

(* The agent is given the model, window and vision of the status bar, with  *)
(* either provider, and a openai model by its configuration.                *)
AgentSeesLive ==
    up => /\ ActiveModel(LiveConfig) = [name |-> live.name, ctx |-> live.ctx, vision |-> live.vision]
          /\ (conf.kind = "openai" /\ live.name \in Names(user)) =>
                Find(user, live.name) = ActiveModel(LiveConfig)

(* All three, through any number of starts, fetches, picks and saves: the   *)
(* configuration is one, in memory, in its file and for the agent.          *)
ConfigAgrees == SavedLoads /\ ConfiguredKept /\ AgentSeesLive

-----------------------------------------------------------------------------
(* Claim (docs/configuration.md:72): the active model is updated by the     *)
(* picker and persisted.                                                    *)
PickPersisted == (up /\ conf.kind = "openai" /\ file # Torn) => Parse(file).active = conf.active

(* Claim (commands.rs:162): the toggles act directly and persist.           *)
TogglePersisted == (up /\ file # Torn) => Parse(file).ui = display

(* Claim (docs/configuration.md:63): the active model of llamacpp resolves  *)
(* to the loaded model of the server at start-up.  A /resume before the     *)
(* answer replaces that fetch with one that keeps the name.                 *)
StartupResolves ==
    [][PollFetch /\ fetch.reply \notin {Failed, <<>>} => live'.name # "..."]_vars

(* Claim (tui/app.rs:708): the list is refreshed after a switch so that     *)
(* what is shown of the new model is current.                               *)
Refreshed == [][PollFetch /\ fetch.keep /\ fetch.reply \notin {Failed, <<>>} =>
                  found' = server]_vars

(* Claim (config.rs, validate): a window is greater than 0.  The window a   *)
(* server reports is configured and saved unseen, and the next start fails. *)
StartsAgain == file \notin {Torn, Absent} /\ starts > 0 => Valid(Parse(file))
=============================================================================
