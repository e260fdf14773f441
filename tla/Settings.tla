------------------------------- MODULE Settings -------------------------------
(***************************************************************************)
(* The settings of a project, config.json, and of a user, preferences.json. *)
(* The command line, its forms, the browser server and its requests all    *)
(* change them by reading the file, changing the copy and writing it back, *)
(* without a lock.  Save writes the settings the program knows, Set one    *)
(* key of the file as it is then.  Local semantic search needs a library   *)
(* that one platform lacks, and every writer checks that by itself.        *)
(***************************************************************************)
EXTENDS Naturals, Sequences, Functions

CONSTANTS Writers,                 \* processes and requests that write settings
          MaxPrograms              \* a bound on the programs run

VARIABLES
  config, there,     \* the settings in config.json, and whether there is one
  prefs, filled,     \* those last written to preferences.json, and how much it holds
  capable,           \* the platform runs local embedding models
  writer,            \* what each writer has yet to do, and the copies it holds
  slips,             \* what went wrong between writers, or within one, so far
  started

settingsVars == <<config, there, prefs, filled, capable, writer, slips, started>>

(* The settings kept apart: git stands for what the forms on git, the      *)
(* platforms and code intelligence save, extra for settings this version   *)
(* does not know, dims for the dimensions and limits of the local model.   *)
InitDefault ==
  [name |-> "knowns", created |-> TRUE, extra |-> FALSE, port |-> 0, git |-> 0, chat |-> 0, host |-> 0,
   workspace |-> 0, enabled |-> FALSE, provider |-> "", model |-> "", dims |-> ""]
DefaultPrefs == [models |-> 0, defaults |-> 0]
(* The length of the preferences when written.                             *)
Length(p) == 1 + p.models + p.defaults

(* The settings with some of them changed.                                 *)
Over(to, settings) == [k \in DOMAIN settings |-> IF k \in DOMAIN to THEN to[k] ELSE settings[k]]

(* The steps of a program: load the settings; save the copy with to in it; *)
(* set the keys of to in the file; or the same for the preferences.        *)
S(op, to) == [op |-> op, to |-> to]
LoadStep == S("load", <<>>)
Undated == [InitDefault EXCEPT !.created = FALSE]
WriterOf(program, todo, seen, raw, copy) ==
  [program |-> program, todo |-> todo, seen |-> seen, raw |-> raw, prefs |-> copy, opened |-> FALSE]
Starting(program, todo) == WriterOf(program, todo, Undated, Undated, DefaultPrefs)
IdleWriter == Starting("", <<>>)

SettingsInit ==
  /\ config \in {InitDefault, [InitDefault EXCEPT !.extra = TRUE, !.model = "e5", !.dims = "e5"]}
  /\ there \in BOOLEAN /\ (there \/ config = InitDefault) /\ prefs = DefaultPrefs
  /\ filled = Length(prefs) /\ slips = {}
  /\ capable \in BOOLEAN
  /\ writer = [w \in Writers |-> IdleWriter]
  /\ started = 0

SemanticProvider(settings) == IF settings.provider = "" THEN "local" ELSE settings.provider

(* What the configuration form of local search saves, and what may be set  *)
(* by name on the command line or in a request.                            *)
SemanticSettingsForLocalONNX == [enabled |-> TRUE, provider |-> "local", model |-> "e5", dims |-> "e5"]
CliKeys ==
  {[extra |-> TRUE], [enabled |-> TRUE], [provider |-> "ollama"], [provider |-> "local"], [provider |-> ""]}
Payloads == {[name |-> "new"],
             [enabled |-> FALSE, provider |-> "", model |-> "", dims |-> ""],
             [enabled |-> TRUE, provider |-> "ollama", model |-> "nomic", dims |-> ""],
             SemanticSettingsForLocalONNX}

OfSettings == Restrict(InitDefault, DOMAIN InitDefault \ {"name", "created"})

(* The sections of `settings`.  Those on git, the platforms and code       *)
(* intelligence save the copy even when the form is left, and the others   *)
(* do not; the forms that set key after key ignore a key that fails.       *)
ConfigureIdentity == {<<LoadStep, S("save", [name |-> "new"])>>}
ConfigureGitTracking == {<<LoadStep, S("save", [git |-> 1])>>, <<LoadStep, S("save", <<>>)>>}
ToggleChatUI ==
  {<<LoadStep, S("set", [chat |-> 0])>>, <<LoadStep, S("set", [chat |-> 1]), S("set", [host |-> 1])>>}
ToggleEmbedding ==
  {<<LoadStep, S("set", [enabled |-> FALSE])>>}
  \union {<<LoadStep, S("set", [enabled |-> TRUE]), S("set", [provider |-> p]), S("set", [model |-> "nomic"])>> :
            p \in {"ollama", "api"}}
ApplyLocalONNX == {<<LoadStep, S("saveLocal", SemanticSettingsForLocalONNX)>>}

(* The commands that set keys: config set, config reset, search --setup,   *)
(* and a reindex that finds no model.                                      *)
ConfigSet == {<<LoadStep, S("check", to), S("set", to)>> : to \in CliKeys}
ConfigReset == {<<LoadStep, S("set", OfSettings), S("save", Restrict(Undated, DOMAIN Undated \ {"name"}))>>}
SearchSetup == {<<LoadStep, S("checkSetup", <<>>), S("set", [enabled |-> TRUE])>>}
DefaultModel ==
  {<<LoadStep, S("checkModel", <<>>), S("set", [model |-> "e5"]), S("set", [dims |-> "e5"]),
     S("set", [enabled |-> TRUE])>>}

(* The server saves its port when it starts, and the requests on projects  *)
(* and settings save the copy they loaded.                                 *)
SavePort == {<<LoadStep, S("save", [port |-> 1])>>}
UpdateProject == {<<LoadStep, S("save", [workspace |-> 1])>>}
SaveRequest == {<<S("loadOrDefault", <<>>), S("savePayload", to)>> : to \in Payloads}

(* `settings --global` saves the copy loaded at its start after every      *)
(* section, a request on the preferences its own.                          *)
GlobalSettings ==
  {<<S("loadPrefs", <<>>), S("savePrefs", [defaults |-> 1]), S("savePrefs", [defaults |-> 2])>>}
RequestPrefs == {<<S("loadPrefs", <<>>), S("savePrefs", [models |-> m])>> : m \in {0, 1}}

(* The programs that write settings.                                       *)
Programs ==
  [init |-> {<<S("init", <<>>)>>}, start |-> SavePort, request |-> SaveRequest, workspace |-> UpdateProject,
   set |-> ConfigSet, reset |-> ConfigReset, setup |-> SearchSetup, reindex |-> DefaultModel,
   form |-> ConfigureIdentity \union ConfigureGitTracking \union ToggleChatUI, wizard |-> ToggleEmbedding,
   local |-> ApplyLocalONNX, global |-> GlobalSettings, models |-> RequestPrefs]

Begin(w) ==
  /\ writer[w].program = "" /\ started < MaxPrograms /\ started' = started + 1
  /\ \E p \in DOMAIN Programs : \E todo \in Programs[p] :
       writer' = [writer EXCEPT ![w] = Starting(p, todo)]
  /\ UNCHANGED <<config, there, prefs, filled, capable>>

NextStep(w) == Head(writer[w].todo)
NextIs(w, op) == writer[w].todo /= <<>> /\ NextStep(w).op = op

(* What is left of a writer after a step, or when it stops.                *)
Rest(w) ==
  LET r == writer[w] IN
  IF Tail(r.todo) = <<>> THEN IdleWriter ELSE WriterOf(r.program, Tail(r.todo), r.seen, r.raw, r.prefs)
Goes(w) == writer' = [writer EXCEPT ![w] = Rest(w)]
Stops(w) == writer' = [writer EXCEPT ![w] = IdleWriter]

(* The file is read.  A request starts from the defaults when there is     *)
(* none, and every other writer stops.                                     *)
LoadConfig(w) ==
  /\ NextIs(w, "load") \/ NextIs(w, "loadOrDefault")
  /\ IF there
     THEN writer' = [writer EXCEPT ![w] = IF Rest(w) = IdleWriter THEN Rest(w) ELSE [Rest(w) EXCEPT !.seen = config]]
     ELSE IF NextIs(w, "load") THEN Stops(w) ELSE Goes(w)
  /\ UNCHANGED <<config, there, prefs, filled, capable, started>>

(* Mutation: only the key that enables the search is checked.              *)
CheckedWhenEnabled(seen, to) ==
  "enabled" \notin DOMAIN to \/ capable \/ ~(to.enabled /\ SemanticProvider(seen) = "local")

(* The checks of the platform: of the key and the settings read, before a  *)
(* key is set on the command line; of the settings read, by search --setup, *)
(* which needs a model; of the runtime, by a reindex that finds no model.  *)
ValidateConfigSetLocalONNX(seen, to) ==
  LET provider == IF "provider" \in DOMAIN to THEN to.provider
                  ELSE IF seen.provider = "" THEN "local" ELSE seen.provider
  IN capable \/ ~(Over(to, seen).enabled /\ provider = "local")
Check(w) ==
  LET seen == writer[w].seen IN
  /\ \/ NextIs(w, "check") /\ (IF ValidateConfigSetLocalONNX(seen, NextStep(w).to) THEN Goes(w) ELSE Stops(w))
     \/ /\ NextIs(w, "checkSetup")
        /\ IF seen.model /= "" /\ ~seen.enabled /\ (capable \/ SemanticProvider(seen) /= "local")
             THEN Goes(w) ELSE Stops(w)
     \/ NextIs(w, "checkModel") /\ (IF seen.model = "" /\ capable THEN Goes(w) ELSE Stops(w))
  /\ UNCHANGED <<config, there, prefs, filled, capable, started>>

(* The copy is saved, without the fields the program does not know.        *)
Saved(w) == [Over(NextStep(w).to, writer[w].seen) EXCEPT !.extra = FALSE]
SaveConfig(w) ==
  /\ NextIs(w, "save")
  /\ config' = Saved(w) /\ there' = TRUE /\ Goes(w)
  /\ UNCHANGED <<prefs, filled, capable, started>>

(* A request that changes the search settings, and the form of local       *)
(* search, are refused where local models do not run.                      *)
Unsupported(to) == "enabled" \in DOMAIN to /\ to.enabled /\ SemanticProvider(to) = "local" /\ ~capable
SavePayload(w) ==
  /\ NextIs(w, "savePayload") \/ NextIs(w, "saveLocal")
  /\ IF Unsupported(NextStep(w).to) THEN Stops(w) /\ UNCHANGED <<config, there>>
     ELSE config' = Saved(w) /\ there' = TRUE /\ Goes(w)
  /\ UNCHANGED <<prefs, filled, capable, started>>

(* Set reads the file as it is, and writes it with its keys changed.       *)
ReadRaw(w) ==
  /\ NextIs(w, "set") /\ ~writer[w].opened
  /\ IF there THEN writer' = [writer EXCEPT ![w].opened = TRUE, ![w].raw = config] ELSE Goes(w)
  /\ UNCHANGED <<config, there, prefs, filled, capable, started>>
WithKeys(w) == Over(NextStep(w).to, writer[w].raw)
WriteKeys(w) ==
  /\ NextIs(w, "set") /\ writer[w].opened
  /\ config' = WithKeys(w) /\ there' = TRUE /\ Goes(w)
  /\ UNCHANGED <<prefs, filled, capable, started>>

(* A store is initialised with the defaults when it has no settings.       *)
InitStore(w) ==
  /\ NextIs(w, "init") /\ Goes(w)
  /\ IF there THEN UNCHANGED <<config, there>> ELSE config' = InitDefault /\ there' = TRUE
  /\ UNCHANGED <<prefs, filled, capable, started>>

(* A key may fail to be set.  The forms and a reset go on with the next.   *)
SetFails(w) ==
  /\ NextIs(w, "set")
  /\ IF writer[w].program = "set" THEN Stops(w) ELSE Goes(w)
  /\ UNCHANGED <<config, there, prefs, filled, capable, started>>

(* The preferences are read, which fails while the file is cut short or    *)
(* has the end of a longer one, and are written in place: the file is      *)
(* emptied when it is opened, then filled from its beginning, and keeps    *)
(* what another wrote further on meanwhile.                                *)
Whole == filled = Length(prefs)
LoadPrefs(w) ==
  /\ NextIs(w, "loadPrefs")
  /\ IF Whole THEN writer' = [writer EXCEPT ![w] = [Rest(w) EXCEPT !.prefs = prefs]] ELSE Stops(w)
  /\ UNCHANGED <<config, there, prefs, filled, capable, started>>
EmptyPrefs(w) ==
  /\ NextIs(w, "savePrefs") /\ ~writer[w].opened
  /\ filled' = 0 /\ writer' = [writer EXCEPT ![w].opened = TRUE, ![w].prefs = Over(NextStep(w).to, @)]
  /\ UNCHANGED <<config, there, prefs, capable, started>>
SavePrefs(w) ==
  /\ NextIs(w, "savePrefs") /\ writer[w].opened
  /\ prefs' = writer[w].prefs /\ Goes(w)
  /\ filled' = IF filled > Length(prefs') THEN filled ELSE Length(prefs')
  /\ UNCHANGED <<config, there, capable, started>>

(* A writer dies, or the user leaves a form.                               *)
WriterDies(w) ==
  /\ writer[w].program /= ""
  /\ Stops(w)
  /\ UNCHANGED <<config, there, prefs, filled, capable, started>>

(* What goes wrong: keys are set, or settings saved, from a copy whose     *)
(* search settings are no longer those of the file; the form that sets the *)
(* provider after it enables the search ends, or fails, in between; the    *)
(* provider is set to none, which is the local one, where the check looks  *)
(* for its name alone; a writer dies with the preferences emptied, or      *)
(* another empties them, too.                                              *)
Search(settings) == <<settings.enabled, SemanticProvider(settings)>>
Judged(w) == NextIs(w, "save") \/ NextIs(w, "savePayload") \/ NextIs(w, "saveLocal")
               \/ writer[w].program \in {"set", "setup", "reindex"}
Stale(w) ==
  \/ Judged(w) /\ Search(writer[w].seen) # Search(config)
  \/ NextIs(w, "set") /\ Search(writer[w].raw) # Search(config)
Unfinished(w) ==
  writer[w].program = "wizard" /\ NextIs(w, "set") /\ "provider" \in DOMAIN NextStep(w).to
Filling(w) == NextIs(w, "savePrefs") /\ writer[w].opened

Slip(w) ==
  slips' = slips
    \union (IF config' # config /\ Stale(w) THEN {"stale"} ELSE {})
    \union (IF Unfinished(w) /\ ~Unfinished(w)' /\ config'.provider # NextStep(w).to.provider
             THEN {"unfinished"} ELSE {})
    \union (IF config' # config /\ NextIs(w, "set") /\ NextStep(w).to = [provider |-> ""] THEN {"noProvider"} ELSE {})
    \union (IF (Filling(w) /\ ~Filling(w)' /\ filled' = filled)
                \/ (~Filling(w) /\ Filling(w)' /\ \E v \in Writers : Filling(v))
             THEN {"torn"} ELSE {})

SettingsNext ==
  \E w \in Writers :
    /\ \/ Begin(w) \/ LoadConfig(w) \/ Check(w) \/ SaveConfig(w) \/ SavePayload(w) \/ ReadRaw(w) \/ WriteKeys(w)
       \/ InitStore(w) \/ SetFails(w) \/ LoadPrefs(w) \/ EmptyPrefs(w) \/ SavePrefs(w) \/ WriterDies(w)
    /\ Slip(w)

SettingsSpec == SettingsInit /\ [][SettingsNext]_settingsVars

(* Local search is never left enabled on a platform that does not run local*)
(* models, though every writer checks that by itself or not at all, unless *)
(* in one of the three ways above; and the preferences, which nobody can   *)
(* change any more once they cannot be read, can be read whenever nobody   *)
(* is filling them, unless they were torn.                                 *)
SettingsStayUsable ==
  /\ (~capable /\ Search(config) = <<TRUE, "local">>) =>
       slips \intersect {"stale", "unfinished", "noProvider"} # {} \/ \E w \in Writers : Unfinished(w)
  /\ Whole \/ "torn" \in slips \/ \E w \in Writers : Filling(w)
===============================================================================
