------------------------------ MODULE StoreProofs ------------------------------
(***************************************************************************)
(* Theorems about the files that are read, changed and written back whole: *)
(* the settings of a project and of a user, the registry of projects, and  *)
(* the timers and entries of Tasks.                                        *)
(***************************************************************************)
EXTENDS TimeTracking, Settings, ProjectRegistry, TLAPS

-----------------------------------------------------------------------------
(* The settings.                                                           *)

Keys ==
  {"name", "created", "extra", "port", "git", "chat", "host", "workspace", "enabled", "provider", "model", "dims"}
Preferences == [models : Nat, defaults : Nat]

IsSequence(s) == \E T : s \in Seq(T)

(* Every copy of the settings has all of them, and the steps a program has *)
(* left are a sequence.                                                    *)
IsWriter(r) ==
  /\ r = [program |-> r.program, todo |-> r.todo, seen |-> r.seen, raw |-> r.raw, prefs |-> r.prefs,
          opened |-> r.opened]
  /\ IsSequence(r.todo) /\ DOMAIN r.seen = Keys /\ DOMAIN r.raw = Keys /\ r.prefs \in Preferences

(* What keeps a step from enabling local search where it is not supported: *)
(* it leaves the search alone or disables it; it sets both keys, which     *)
(* SavePayload looks at; its check comes before it, or was passed with the *)
(* settings read; or the form sets another provider in it or the next one. *)
Permitted(seen, to, able) ==
  LET provider == IF "provider" \in DOMAIN to THEN to.provider ELSE SemanticProvider(seen)
  IN able \/ ~(Over(to, seen).enabled /\ provider = "local")
Plain(to) == "enabled" \notin DOMAIN to /\ "provider" \notin DOMAIN to
Off(to) == "enabled" \in DOMAIN to /\ to.enabled = FALSE
Other == {[provider |-> "ollama"], [provider |-> "api"]}
Right(r, able, i) ==
  LET s == r.todo[i] IN
  /\ s.op = "save" => Plain(s.to) \/ Off(s.to)
  /\ s.op \in {"savePayload", "saveLocal"} =>
       Plain(s.to) \/ Off(s.to) \/ ("enabled" \in DOMAIN s.to /\ "provider" \in DOMAIN s.to)
  /\ s.op = "savePrefs" => \A k \in DOMAIN s.to : s.to[k] \in Nat
  /\ s.op = "set" =>
       \/ Plain(s.to) \/ s.to = [enabled |-> FALSE]
       \/ Off(s.to) /\ r.program # "wizard"
       \/ /\ r.program = "set" /\ s.to \in CliKeys
          /\ IF i = 1 THEN Permitted(r.seen, s.to, able) ELSE r.todo[i - 1] = S("check", s.to)
       \/ /\ r.program = "setup" /\ s.to = [enabled |-> TRUE]
          /\ IF i = 1 THEN able \/ SemanticProvider(r.seen) # "local" ELSE r.todo[i - 1].op = "checkSetup"
       \/ r.program = "reindex" /\ (able \/ \E j \in 1..(i - 1) : r.todo[j].op = "checkModel")
       \/ /\ r.program = "wizard" /\ s.to = [enabled |-> TRUE]
          /\ i < Len(r.todo) /\ r.todo[i + 1].op = "set" /\ r.todo[i + 1].to \in Other
       \/ r.program = "wizard" /\ s.to \in Other
Careful(r, able) == \A i \in 1..Len(r.todo) : Right(r, able, i)

(* The two parts of the property, and that one writer at a time fills the  *)
(* preferences, from where they were emptied.                              *)
SearchInv ==
  (~capable /\ Search(config) = <<TRUE, "local">>) =>
    slips \intersect {"stale", "unfinished", "noProvider"} # {} \/ \E w \in Writers : Unfinished(w)
PrefsInv ==
  "torn" \notin slips =>
    /\ \A v, w \in Writers : Filling(v) /\ Filling(w) => v = w
    /\ (\E w \in Writers : Filling(w)) => filled = 0
    /\ (\A w \in Writers : ~Filling(w)) => filled = Length(prefs)

WriterInv ==
  /\ DOMAIN config = Keys /\ prefs \in Preferences /\ filled \in Nat
  /\ writer = [w \in Writers |-> writer[w]]
  /\ \A w \in Writers : IsWriter(writer[w]) /\ Careful(writer[w], capable)
SettingsInv == WriterInv /\ SearchInv /\ PrefsInv

(* A sequence with something in it differs from its tail.                  *)
LEMMA TailDiffers ==
  ASSUME NEW s, IsSequence(s), s # <<>>
  PROVE  IsSequence(Tail(s)) /\ Tail(s) # s
<1>1. PICK T : s \in Seq(T)
  BY DEF IsSequence
<1>2. Tail(s) \in Seq(T) /\ Len(Tail(s)) = Len(s) - 1 /\ Len(s) \in Nat
  BY <1>1
<1>3. \A n \in Nat : n - 1 # n
  OBVIOUS
<1>5. Len(Tail(s)) # Len(s)
  BY <1>2, <1>3, Zenon
<1>4. Tail(s) # s
  BY <1>5, Zenon
<1> QED
  BY <1>2, <1>4 DEF IsSequence

LEMMA ShortSequences ==
  /\ \A x : IsSequence(<<x>>)
  /\ \A x, y : IsSequence(<<x, y>>)
  /\ \A x, y, z : IsSequence(<<x, y, z>>)
  /\ \A x, y, z, u : IsSequence(<<x, y, z, u>>)
<1>1. ASSUME NEW x PROVE IsSequence(<<x>>)
  <2>1. <<x>> \in Seq({x})
    OBVIOUS
  <2> QED  BY <2>1 DEF IsSequence
<1>2. ASSUME NEW x, NEW y PROVE IsSequence(<<x, y>>)
  <2>1. <<x, y>> \in Seq({x, y})
    OBVIOUS
  <2> QED  BY <2>1 DEF IsSequence
<1>3. ASSUME NEW x, NEW y, NEW z PROVE IsSequence(<<x, y, z>>)
  <2>1. <<x, y, z>> \in Seq({x, y, z})
    OBVIOUS
  <2> QED  BY <2>1 DEF IsSequence
<1>4. ASSUME NEW x, NEW y, NEW z, NEW u PROVE IsSequence(<<x, y, z, u>>)
  <2>1. <<x, y, z, u>> \in Seq({x, y, z, u})
    OBVIOUS
  <2> QED  BY <2>1 DEF IsSequence
<1> QED
  BY <1>1, <1>2, <1>3, <1>4

(* What the programs do are sequences of steps.                            *)
LEMMA ProgramsAreSequences ==
  \A p \in DOMAIN Programs : \A todo \in Programs[p] : IsSequence(todo)
<1>1. \A todo \in ConfigureIdentity \union ConfigureGitTracking \union ToggleChatUI : IsSequence(todo)
  BY ShortSequences DEF ConfigureIdentity, ConfigureGitTracking, ToggleChatUI
<1>2. \A todo \in ToggleEmbedding : IsSequence(todo)
  BY ShortSequences DEF ToggleEmbedding
<1>3. \A todo \in ApplyLocalONNX \union ConfigSet : IsSequence(todo)
  BY ShortSequences DEF ApplyLocalONNX, ConfigSet
<1>4. \A todo \in ConfigReset \union SearchSetup \union DefaultModel : IsSequence(todo)
  <2>1. \A todo \in ConfigReset : IsSequence(todo)
    BY ShortSequences, Zenon DEF ConfigReset
  <2>2. \A todo \in SearchSetup : IsSequence(todo)
    BY ShortSequences, Zenon DEF SearchSetup
  <2>3. \A todo \in DefaultModel : IsSequence(todo)
    <3> DEFINE four == <<LoadStep, S("checkModel", <<>>), S("set", [model |-> "e5"]), S("set", [dims |-> "e5"]),
                         S("set", [enabled |-> TRUE])>>
    <3>1. four \in Seq({LoadStep, S("checkModel", <<>>), S("set", [model |-> "e5"]), S("set", [dims |-> "e5"]),
                         S("set", [enabled |-> TRUE])})
      OBVIOUS
    <3>2. IsSequence(four)
      BY <3>1 DEF IsSequence
    <3> QED
      BY <3>2 DEF DefaultModel
  <2> QED
    BY <2>1, <2>2, <2>3
<1>5. \A todo \in SavePort \union UpdateProject \union SaveRequest : IsSequence(todo)
  BY ShortSequences DEF SavePort, UpdateProject, SaveRequest
<1>6. \A todo \in GlobalSettings \union RequestPrefs \union {<<S("init", <<>>)>>} : IsSequence(todo)
  BY ShortSequences DEF GlobalSettings, RequestPrefs
<1> QED
  BY <1>1, <1>2, <1>3, <1>4, <1>5, <1>6 DEF Programs

(* Two lists of steps that are right one by one.                           *)
LEMMA ShortTodos ==
  ASSUME NEW r, NEW able
  PROVE  /\ \A x : r.todo = <<x>> /\ Right(r, able, 1) => Careful(r, able)
         /\ \A x, y : r.todo = <<x, y>> /\ Right(r, able, 1) /\ Right(r, able, 2) => Careful(r, able)
         /\ \A x, y, z : r.todo = <<x, y, z>> /\ Right(r, able, 1) /\ Right(r, able, 2) /\ Right(r, able, 3)
                           => Careful(r, able)
<1>1. ASSUME NEW n \in 1..3, Len(r.todo) = n, \A i \in 1..n : Right(r, able, i) PROVE Careful(r, able)
  BY <1>1 DEF Careful
<1>2. ASSUME NEW x, r.todo = <<x>>, Right(r, able, 1) PROVE Careful(r, able)
  <2>1. Len(r.todo) = 1 /\ 1..1 = {1}
    BY <1>2
  <2> QED
    BY <1>1, <1>2, <2>1
<1>3. ASSUME NEW x, NEW y, r.todo = <<x, y>>, Right(r, able, 1), Right(r, able, 2) PROVE Careful(r, able)
  <2>1. Len(r.todo) = 2 /\ 1..2 = {1, 2}
    BY <1>3
  <2>2. \A i \in 1..2 : Right(r, able, i)
    BY <1>3, <2>1, Zenon
  <2> QED
    BY <1>1, <2>1, <2>2
<1>4. ASSUME NEW x, NEW y, NEW z, r.todo = <<x, y, z>>, Right(r, able, 1), Right(r, able, 2), Right(r, able, 3)
      PROVE  Careful(r, able)
  <2>1. Len(r.todo) = 3 /\ 1..3 = {1, 2, 3}
    BY <1>4
  <2>2. \A i \in 1..3 : Right(r, able, i)
    BY <1>4, <2>1, Zenon
  <2> QED
    BY <1>1, <2>1, <2>2
<1> QED
  BY <1>2, <1>3, <1>4

(* What the programs do is right from its beginning.                       *)
LEMMA ProgramsAreCareful ==
  ASSUME NEW p \in DOMAIN Programs, NEW todo \in Programs[p], NEW able
  PROVE  Careful(Starting(p, todo), able)
<1> DEFINE r == Starting(p, todo)
<1>1. r.todo = todo /\ r.program = p
  BY DEF Starting, WriterOf
<1> HIDE DEF r
<1>2. CASE p = "init"
  <2>1. todo = <<S("init", <<>>)>>
    BY <1>2 DEF Programs
  <2>2. Right(r, able, 1)
    BY <1>1, <2>1 DEF Right, S
  <2> QED
    BY <1>1, <2>1, <2>2, ShortTodos DEF r
<1>3. CASE p = "start"
  <2>1. todo = <<LoadStep, S("save", [port |-> 1])>>
    BY <1>3 DEF Programs, SavePort
  <2>2. Right(r, able, 1) /\ Right(r, able, 2)
    BY <1>1, <2>1 DEF Right, S, LoadStep, Plain
  <2> QED
    BY <1>1, <2>1, <2>2, ShortTodos DEF r
<1>4. CASE p = "request"
  <2>1. PICK to \in Payloads : todo = <<S("loadOrDefault", <<>>), S("savePayload", to)>>
    BY <1>4 DEF Programs, SaveRequest
  <2>2. Plain(to) \/ ("enabled" \in DOMAIN to /\ "provider" \in DOMAIN to)
    <3>1. CASE to = [name |-> "new"]
      BY <3>1 DEF Plain
    <3>2. CASE to = [enabled |-> FALSE, provider |-> "", model |-> "", dims |-> ""]
      BY <3>2
    <3>3. CASE to = [enabled |-> TRUE, provider |-> "ollama", model |-> "nomic", dims |-> ""]
      BY <3>3
    <3>4. CASE to = SemanticSettingsForLocalONNX
      BY <3>4 DEF SemanticSettingsForLocalONNX
    <3> QED
      BY <3>1, <3>2, <3>3, <3>4 DEF Payloads
  <2>3. Right(r, able, 1) /\ Right(r, able, 2)
    BY <1>1, <2>1, <2>2 DEF Right, S
  <2> QED
    BY <1>1, <2>1, <2>3, ShortTodos DEF r
<1>5. CASE p = "workspace"
  <2>1. todo = <<LoadStep, S("save", [workspace |-> 1])>>
    BY <1>5 DEF Programs, UpdateProject
  <2>2. Right(r, able, 1) /\ Right(r, able, 2)
    BY <1>1, <2>1 DEF Right, S, LoadStep, Plain
  <2> QED
    BY <1>1, <2>1, <2>2, ShortTodos DEF r
<1>6. CASE p = "set"
  <2>1. PICK to \in CliKeys : todo = <<LoadStep, S("check", to), S("set", to)>>
    BY <1>6 DEF Programs, ConfigSet
  <2>2. Right(r, able, 3)
    BY <1>1, <1>6, <2>1 DEF Right, S
  <2>3. Right(r, able, 1) /\ Right(r, able, 2)
    BY <1>1, <2>1 DEF Right, S, LoadStep
  <2> QED
    BY <1>1, <2>1, <2>2, <2>3, ShortTodos DEF r
<1>7. CASE p = "reset"
  <2> DEFINE to == Restrict(Undated, DOMAIN Undated \ {"name"})
  <2>1. todo = <<LoadStep, S("set", OfSettings), S("save", to)>>
    BY <1>7 DEF Programs, ConfigReset
  <2>2. Off(to) /\ Off(OfSettings)
    BY DEF Off, OfSettings, Restrict, Undated, InitDefault
  <2> HIDE DEF to
  <2>3. Right(r, able, 1) /\ Right(r, able, 2) /\ Right(r, able, 3)
    BY <1>1, <1>7, <2>1, <2>2 DEF Right, S, LoadStep
  <2> QED
    BY <1>1, <2>1, <2>3, ShortTodos DEF r
<1>8. CASE p = "setup"
  <2>1. todo = <<LoadStep, S("checkSetup", <<>>), S("set", [enabled |-> TRUE])>>
    BY <1>8 DEF Programs, SearchSetup
  <2>4. r.todo[2] = S("checkSetup", <<>>) /\ r.todo[3] = S("set", [enabled |-> TRUE])
    BY <1>1, <2>1
  <2>5. r.todo[2].op = "checkSetup" /\ r.todo[3].op = "set" /\ r.todo[3].to = [enabled |-> TRUE]
    BY <2>4 DEF S
  <2>3. Right(r, able, 3)
    BY <1>1, <1>8, <2>5 DEF Right
  <2>2. Right(r, able, 1) /\ Right(r, able, 2) /\ Right(r, able, 3)
    BY <1>1, <2>1, <2>3 DEF Right, S, LoadStep
  <2> QED
    BY <1>1, <2>1, <2>2, ShortTodos DEF r
<1>9. CASE p = "reindex"
  <2>1. todo = <<LoadStep, S("checkModel", <<>>), S("set", [model |-> "e5"]), S("set", [dims |-> "e5"]),
                 S("set", [enabled |-> TRUE])>>
    BY <1>9 DEF Programs, DefaultModel
  <2>2. Right(r, able, 1) /\ Right(r, able, 2)
    BY <1>1, <2>1 DEF Right, S, LoadStep
  <2>3. Right(r, able, 3) /\ Right(r, able, 4)
    BY <1>1, <2>1 DEF Right, S, Plain
  <2>4. 2 \in 1..4 /\ r.todo[2].op = "checkModel" /\ r.todo[5].op = "set"
    BY <1>1, <2>1 DEF S
  <2>5. Right(r, able, 5)
    BY <1>1, <1>9, <2>4 DEF Right
  <2>6. Len(r.todo) = 5 /\ 1..5 = {1, 2, 3, 4, 5}
    BY <1>1, <2>1
  <2>7. \A i \in 1..5 : Right(r, able, i)
    BY <2>2, <2>3, <2>5, <2>6, Zenon
  <2> QED
    BY <2>6, <2>7 DEF Careful, r
<1>10. CASE p = "form"
  <2>1. CASE todo \in ConfigureIdentity \union ConfigureGitTracking
    <3>1. \E to \in {[name |-> "new"], [git |-> 1], <<>>} : todo = <<LoadStep, S("save", to)>>
      BY <2>1 DEF ConfigureIdentity, ConfigureGitTracking
    <3>2. PICK to \in {[name |-> "new"], [git |-> 1], <<>>} : todo = <<LoadStep, S("save", to)>>
      BY <3>1
    <3>3. Plain(to)
      BY DEF Plain
    <3>4. Right(r, able, 1) /\ Right(r, able, 2)
      BY <1>1, <3>2, <3>3 DEF Right, S, LoadStep
    <3> QED
      BY <1>1, <3>2, <3>4, ShortTodos DEF r
  <2>2. CASE todo = <<LoadStep, S("set", [chat |-> 0])>>
    <3>1. Right(r, able, 1) /\ Right(r, able, 2)
      BY <1>1, <2>2 DEF Right, S, LoadStep, Plain
    <3> QED
      BY <1>1, <2>2, <3>1, ShortTodos DEF r
  <2>3. CASE todo = <<LoadStep, S("set", [chat |-> 1]), S("set", [host |-> 1])>>
    <3>1. Right(r, able, 1) /\ Right(r, able, 2) /\ Right(r, able, 3)
      BY <1>1, <2>3 DEF Right, S, LoadStep, Plain
    <3> QED
      BY <1>1, <2>3, <3>1, ShortTodos DEF r
  <2> QED
    BY <1>10, <2>1, <2>2, <2>3 DEF Programs, ToggleChatUI
<1>11. CASE p = "wizard"
  <2>1. CASE todo = <<LoadStep, S("set", [enabled |-> FALSE])>>
    <3>2. r.todo[1] = LoadStep /\ r.todo[2] = S("set", [enabled |-> FALSE])
      BY <1>1, <2>1
    <3>3. r.todo[1].op = "load" /\ r.todo[2].op = "set" /\ r.todo[2].to = [enabled |-> FALSE]
      BY <3>2 DEF S, LoadStep
    <3>1. Right(r, able, 1) /\ Right(r, able, 2)
      BY <3>3 DEF Right
    <3> QED
      BY <1>1, <2>1, <3>1, ShortTodos DEF r
  <2>2. CASE \E o \in {"ollama", "api"} :
               todo = <<LoadStep, S("set", [enabled |-> TRUE]), S("set", [provider |-> o]), S("set", [model |-> "nomic"])>>
    <3>1. PICK o \in {"ollama", "api"} :
            todo = <<LoadStep, S("set", [enabled |-> TRUE]), S("set", [provider |-> o]), S("set", [model |-> "nomic"])>>
      BY <2>2
    <3>2. Len(r.todo) = 4 /\ r.todo[3].op = "set" /\ r.todo[3].to = [provider |-> o]
      BY <1>1, <3>1 DEF S
    <3>3. [provider |-> o] \in Other
      BY DEF Other
    <3>4. Right(r, able, 1) /\ Right(r, able, 4)
      BY <1>1, <3>1 DEF Right, S, LoadStep, Plain
    <3>5. Right(r, able, 3)
      BY <1>1, <1>11, <3>2, <3>3 DEF Right
    <3>8. r.todo[2] = S("set", [enabled |-> TRUE])
      BY <1>1, <3>1
    <3>6. r.todo[2].op = "set" /\ r.todo[2].to = [enabled |-> TRUE]
      BY <3>8 DEF S
    <3>7. Right(r, able, 2)
      BY <1>1, <1>11, <3>2, <3>3, <3>6 DEF Right
    <3> QED
      BY <3>2, <3>4, <3>5, <3>7 DEF Careful, r
  <2> QED
    BY <1>11, <2>1, <2>2 DEF Programs, ToggleEmbedding
<1>12. CASE p = "local"
  <2>1. todo = <<LoadStep, S("saveLocal", SemanticSettingsForLocalONNX)>>
    BY <1>12 DEF Programs, ApplyLocalONNX
  <2>2. Right(r, able, 1) /\ Right(r, able, 2)
    BY <1>1, <2>1 DEF Right, S, LoadStep, SemanticSettingsForLocalONNX
  <2> QED
    BY <1>1, <2>1, <2>2, ShortTodos DEF r
<1>13. CASE p = "global"
  <2>1. todo = <<S("loadPrefs", <<>>), S("savePrefs", [defaults |-> 1]), S("savePrefs", [defaults |-> 2])>>
    BY <1>13 DEF Programs, GlobalSettings
  <2>2. Right(r, able, 1) /\ Right(r, able, 2) /\ Right(r, able, 3)
    BY <1>1, <2>1 DEF Right, S
  <2> QED
    BY <1>1, <2>1, <2>2, ShortTodos DEF r
<1>14. CASE p = "models"
  <2>1. PICK m \in {0, 1} : todo = <<S("loadPrefs", <<>>), S("savePrefs", [models |-> m])>>
    BY <1>14 DEF Programs, RequestPrefs
  <2>2. Right(r, able, 1) /\ Right(r, able, 2)
    BY <1>1, <2>1 DEF Right, S
  <2> QED
    BY <1>1, <2>1, <2>2, ShortTodos DEF r
<1>15. p \in {"init", "start", "request", "workspace", "set", "reset", "setup", "reindex", "form", "wizard", "local",
              "global", "models"}
  BY DEF Programs
<1> QED
  BY <1>2, <1>3, <1>4, <1>5, <1>6, <1>7, <1>8, <1>9, <1>10, <1>11, <1>12, <1>13, <1>14, <1>15

(* A step that keeps what its check found leaves the rest right.           *)
LEMMA CarefulOn ==
  ASSUME NEW r, NEW q, NEW able, IsSequence(r.todo), r.todo # <<>>, Careful(r, able),
         q.program = r.program, q.todo = Tail(r.todo),
         r.todo[1].op = "check" => Permitted(q.seen, r.todo[1].to, able),
         r.todo[1].op = "checkSetup" => able \/ SemanticProvider(q.seen) # "local",
         r.todo[1].op = "checkModel" => able
  PROVE  Careful(q, able)
<1>1. PICK T : r.todo \in Seq(T)
  BY DEF IsSequence
<1>2. Len(q.todo) = Len(r.todo) - 1 /\ Len(r.todo) \in Nat /\ \A i \in 1..Len(q.todo) : q.todo[i] = r.todo[i + 1]
  BY <1>1
<1> SUFFICES ASSUME NEW i \in 1..Len(q.todo) PROVE Right(q, able, i)
  BY DEF Careful
<1>3. i + 1 \in 1..Len(r.todo) /\ q.todo[i] = r.todo[i + 1] /\ i \in Nat
  BY <1>2
<1>4. Right(r, able, i + 1)
  BY <1>3 DEF Careful
<1> DEFINE s == r.todo[i + 1]
<1>5. s = q.todo[i]
  BY <1>3
<1>6. /\ s.op = "save" => Plain(s.to) \/ Off(s.to)
      /\ s.op \in {"savePayload", "saveLocal"} =>
           Plain(s.to) \/ Off(s.to) \/ ("enabled" \in DOMAIN s.to /\ "provider" \in DOMAIN s.to)
      /\ s.op = "savePrefs" => \A k \in DOMAIN s.to : s.to[k] \in Nat
  BY <1>4 DEF Right
<1>7. s.op = "set" =>
       \/ Plain(s.to) \/ s.to = [enabled |-> FALSE]
       \/ Off(s.to) /\ q.program # "wizard"
       \/ /\ q.program = "set" /\ s.to \in CliKeys /\ r.todo[i] = S("check", s.to)
       \/ /\ q.program = "setup" /\ s.to = [enabled |-> TRUE] /\ r.todo[i].op = "checkSetup"
       \/ q.program = "reindex" /\ (able \/ \E j \in 1..i : r.todo[j].op = "checkModel")
       \/ /\ q.program = "wizard" /\ s.to = [enabled |-> TRUE]
          /\ i + 1 < Len(r.todo) /\ r.todo[i + 2].op = "set" /\ r.todo[i + 2].to \in Other
       \/ q.program = "wizard" /\ s.to \in Other
  <2>1. i + 1 # 1 /\ (i + 1) - 1 = i /\ (i + 1) + 1 = i + 2
    BY <1>3
  <2> HIDE DEF s
  <2>2. Right(r, able, i + 1) <=> Right(r, able, i + 1)
    OBVIOUS
  <2> QED
    BY <1>4, <2>1 DEF Right, s
<1> HIDE DEF s
<1>8. s.op = "set" =>
       \/ Plain(s.to) \/ s.to = [enabled |-> FALSE]
       \/ Off(s.to) /\ q.program # "wizard"
       \/ /\ q.program = "set" /\ s.to \in CliKeys
          /\ IF i = 1 THEN Permitted(q.seen, s.to, able) ELSE q.todo[i - 1] = S("check", s.to)
       \/ /\ q.program = "setup" /\ s.to = [enabled |-> TRUE]
          /\ IF i = 1 THEN able \/ SemanticProvider(q.seen) # "local" ELSE q.todo[i - 1].op = "checkSetup"
       \/ q.program = "reindex" /\ (able \/ \E j \in 1..(i - 1) : q.todo[j].op = "checkModel")
       \/ /\ q.program = "wizard" /\ s.to = [enabled |-> TRUE]
          /\ i < Len(q.todo) /\ q.todo[i + 1].op = "set" /\ q.todo[i + 1].to \in Other
       \/ q.program = "wizard" /\ s.to \in Other
  <2> SUFFICES ASSUME s.op = "set" PROVE
       \/ Plain(s.to) \/ s.to = [enabled |-> FALSE]
       \/ Off(s.to) /\ q.program # "wizard"
       \/ /\ q.program = "set" /\ s.to \in CliKeys
          /\ IF i = 1 THEN Permitted(q.seen, s.to, able) ELSE q.todo[i - 1] = S("check", s.to)
       \/ /\ q.program = "setup" /\ s.to = [enabled |-> TRUE]
          /\ IF i = 1 THEN able \/ SemanticProvider(q.seen) # "local" ELSE q.todo[i - 1].op = "checkSetup"
       \/ q.program = "reindex" /\ (able \/ \E j \in 1..(i - 1) : q.todo[j].op = "checkModel")
       \/ /\ q.program = "wizard" /\ s.to = [enabled |-> TRUE]
          /\ i < Len(q.todo) /\ q.todo[i + 1].op = "set" /\ q.todo[i + 1].to \in Other
       \/ q.program = "wizard" /\ s.to \in Other
    OBVIOUS
  <2>1. CASE q.program = "set" /\ s.to \in CliKeys /\ r.todo[i] = S("check", s.to)
    <3>1. r.todo[i].op = "check" /\ r.todo[i].to = s.to
      BY <2>1 DEF S
    <3>2. CASE i = 1
      BY <2>1, <3>1, <3>2
    <3>3. CASE i # 1
      <4>1. i - 1 \in 1..Len(q.todo) /\ (i - 1) + 1 = i
        BY <1>2, <3>3
      <4>2. q.todo[i - 1] = r.todo[i]
        BY <1>2, <4>1
      <4> QED
        BY <2>1, <3>3, <4>2
    <3> QED
      BY <3>2, <3>3
  <2>2. CASE q.program = "setup" /\ s.to = [enabled |-> TRUE] /\ r.todo[i].op = "checkSetup"
    <3>2. CASE i = 1
      BY <2>2, <3>2
    <3>3. CASE i # 1
      <4>1. i - 1 \in 1..Len(q.todo) /\ (i - 1) + 1 = i
        BY <1>2, <3>3
      <4>2. q.todo[i - 1] = r.todo[i]
        BY <1>2, <4>1
      <4> QED
        BY <2>2, <3>3, <4>2
    <3> QED
      BY <3>2, <3>3
  <2>3. CASE q.program = "reindex" /\ (able \/ \E j \in 1..i : r.todo[j].op = "checkModel")
    <3>1. CASE able
      BY <2>3, <3>1
    <3>2. CASE ~able
      <4>1. PICK j \in 1..i : r.todo[j].op = "checkModel"
        BY <2>3, <3>2
      <4>2. j # 1
        BY <3>2, <4>1
      <4>3. j - 1 \in 1..(i - 1) /\ j - 1 \in 1..Len(q.todo) /\ (j - 1) + 1 = j
        BY <1>2, <1>3, <4>2
      <4>4. q.todo[j - 1].op = "checkModel"
        BY <1>2, <4>1, <4>3
      <4> QED
        BY <2>3, <4>3, <4>4
    <3> QED
      BY <3>1, <3>2
  <2>4. CASE /\ q.program = "wizard" /\ s.to = [enabled |-> TRUE]
             /\ i + 1 < Len(r.todo) /\ r.todo[i + 2].op = "set" /\ r.todo[i + 2].to \in Other
    <3>1. i < Len(q.todo) /\ i + 1 \in 1..Len(q.todo) /\ (i + 1) + 1 = i + 2
      BY <1>2, <1>3, <2>4
    <3>2. q.todo[i + 1] = r.todo[i + 2]
      BY <1>2, <3>1
    <3> QED
      BY <2>4, <3>1, <3>2
  <2> QED
    BY <1>7, <2>1, <2>2, <2>3, <2>4
<1> QED
  BY <1>5, <1>6, <1>8 DEF Right

LEMMA Defaults ==
  /\ DOMAIN InitDefault = Keys /\ DOMAIN Undated = Keys /\ DefaultPrefs \in Preferences
  /\ IsWriter(IdleWriter) /\ \A able : Careful(IdleWriter, able)
<1>1. DOMAIN InitDefault = Keys /\ DOMAIN Undated = Keys
  BY DEF InitDefault, Undated, Keys
<1>2. DefaultPrefs \in Preferences
  BY DEF DefaultPrefs, Preferences
<1>3. IsSequence(<<>>)
  <2>1. <<>> \in Seq({})
    OBVIOUS
  <2> QED
    BY <2>1 DEF IsSequence
<1>4. IsWriter(IdleWriter)
  BY <1>1, <1>2, <1>3 DEF IdleWriter, Starting, WriterOf, IsWriter
<1>5. IdleWriter.todo = <<>> /\ 1..Len(<<>>) = {}
  BY DEF IdleWriter, Starting, WriterOf
<1> QED
  BY <1>1, <1>2, <1>4, <1>5 DEF Careful

(* The step a writer does next, and what it has left to do afterwards.     *)
Passed(w) ==
  /\ NextIs(w, "check") => Permitted(writer[w].seen, NextStep(w).to, capable)
  /\ NextIs(w, "checkSetup") => capable \/ SemanticProvider(writer[w].seen) # "local"
  /\ NextIs(w, "checkModel") => capable
LEMMA NextIsRight ==
  ASSUME NEW w \in Writers, WriterInv, writer[w].todo # <<>>
  PROVE  Right(writer[w], capable, 1) /\ NextStep(w) = writer[w].todo[1]
<1>1. IsSequence(writer[w].todo) /\ Careful(writer[w], capable)
  BY DEF WriterInv, IsWriter
<1>2. PICK T : writer[w].todo \in Seq(T)
  BY <1>1 DEF IsSequence
<1>3. 1 \in 1..Len(writer[w].todo) /\ Head(writer[w].todo) = writer[w].todo[1]
  BY <1>2
<1> QED
  BY <1>1, <1>3 DEF Careful, NextStep

LEMMA RestIsWriter ==
  ASSUME NEW w \in Writers, WriterInv, writer[w].todo # <<>>
  PROVE  /\ IsWriter(Rest(w)) /\ Rest(w).opened = FALSE /\ IdleWriter.opened = FALSE /\ IdleWriter.todo = <<>>
         /\ Passed(w) => Careful(Rest(w), capable)
         /\ \A settings : ~NextIs(w, "check") /\ ~NextIs(w, "checkSetup") /\ ~NextIs(w, "checkModel") =>
              Careful([Rest(w) EXCEPT !.seen = settings], capable)
         /\ Rest(w) = IdleWriter \/ (Rest(w).program = writer[w].program /\ Rest(w).todo = Tail(writer[w].todo))
         /\ Tail(writer[w].todo) # <<>> => Rest(w).program = writer[w].program /\ Rest(w).todo = Tail(writer[w].todo)
<1> DEFINE r == WriterOf(writer[w].program, Tail(writer[w].todo), writer[w].seen, writer[w].raw, writer[w].prefs)
<1>1. IsWriter(writer[w]) /\ Careful(writer[w], capable) /\ IsSequence(Tail(writer[w].todo))
  BY TailDiffers DEF WriterInv, IsWriter
<1>2. /\ IsWriter(r) /\ r.program = writer[w].program /\ r.todo = Tail(writer[w].todo) /\ r.seen = writer[w].seen
      /\ r.opened = FALSE
  BY <1>1 DEF IsWriter, WriterOf
<1>3. IdleWriter.opened = FALSE /\ IdleWriter.todo = <<>>
  BY DEF IdleWriter, Starting, WriterOf
<1>4. Rest(w) = IF Tail(writer[w].todo) = <<>> THEN IdleWriter ELSE r
  BY DEF Rest
<1>5. NextStep(w) = writer[w].todo[1]
  BY NextIsRight
<1> HIDE DEF r
<1>6. Passed(w) => Careful(r, capable)
  BY <1>1, <1>2, <1>5, CarefulOn DEF Passed, NextIs, IsWriter
<1>7. ASSUME NEW settings, ~NextIs(w, "check"), ~NextIs(w, "checkSetup"), ~NextIs(w, "checkModel")
      PROVE  Careful([Rest(w) EXCEPT !.seen = settings], capable)
  <2>1. CASE Tail(writer[w].todo) = <<>>
    <3> DEFINE q == [IdleWriter EXCEPT !.seen = settings]
    <3>1. q.todo = <<>> /\ 1..Len(<<>>) = {}
      BY DEF IdleWriter, Starting, WriterOf
    <3>2. Careful(q, capable)
      BY <3>1 DEF Careful
    <3> QED
      BY <2>1, <1>4, <3>2
  <2>2. CASE Tail(writer[w].todo) # <<>>
    <3> DEFINE q == [r EXCEPT !.seen = settings]
    <3>1. q.program = writer[w].program /\ q.todo = Tail(writer[w].todo)
      BY <1>2 DEF IsWriter
    <3> HIDE DEF q
    <3>2. Careful(q, capable)
      BY <1>1, <1>5, <1>7, <3>1, CarefulOn DEF NextIs, IsWriter
    <3> QED
      BY <2>2, <1>4, <3>2 DEF q
  <2> QED
    BY <2>1, <2>2
<1> QED
  BY <1>2, <1>3, <1>4, <1>6, <1>7, Defaults

(* The settings have their keys after a change, too.                       *)
LEMMA OverKeepsKeys ==
  ASSUME NEW to, NEW settings, DOMAIN settings = Keys
  PROVE  /\ DOMAIN Over(to, settings) = Keys
         /\ \A k \in Keys : Over(to, settings)[k] = IF k \in DOMAIN to THEN to[k] ELSE settings[k]
BY DEF Over

LEMMA SavedKeys ==
  ASSUME NEW w \in Writers, WriterInv
  PROVE  /\ DOMAIN Saved(w) = Keys
         /\ Saved(w).enabled = Over(NextStep(w).to, writer[w].seen).enabled
         /\ Saved(w).provider = Over(NextStep(w).to, writer[w].seen).provider
<1>1. DOMAIN writer[w].seen = Keys
  BY DEF WriterInv, IsWriter
<1>2. DOMAIN Over(NextStep(w).to, writer[w].seen) = Keys
  BY <1>1, OverKeepsKeys
<1> QED
  BY <1>2 DEF Saved, Keys

(* One writer changes to what is a writer again.                           *)
LEMMA WriterChanges ==
  ASSUME NEW w \in Writers, WriterInv, NEW r, IsWriter(r), Careful(r, capable), writer' = [writer EXCEPT ![w] = r],
         DOMAIN config' = Keys, prefs' \in Preferences, filled' \in Nat, capable' = capable
  PROVE  WriterInv'
BY DEF WriterInv

(* What one writer does.                                                   *)
Step(w) ==
  \/ Begin(w) \/ LoadConfig(w) \/ Check(w) \/ SaveConfig(w) \/ SavePayload(w) \/ ReadRaw(w) \/ WriteKeys(w)
  \/ InitStore(w) \/ SetFails(w) \/ LoadPrefs(w) \/ EmptyPrefs(w) \/ SavePrefs(w) \/ WriterDies(w)

LEMMA WritersStay ==
  ASSUME NEW w \in Writers, WriterInv, Step(w)
  PROVE  WriterInv'
<1>0. /\ DOMAIN config = Keys /\ prefs \in Preferences /\ filled \in Nat /\ capable' = capable
      /\ IsWriter(writer[w]) /\ Careful(writer[w], capable) /\ writer = [v \in Writers |-> writer[v]]
  BY DEF WriterInv, Step, Begin, LoadConfig, Check, SaveConfig, SavePayload, ReadRaw, WriteKeys, InitStore, SetFails,
         LoadPrefs, EmptyPrefs, SavePrefs, WriterDies
<1>1. ASSUME (Goes(w) /\ Passed(w)) \/ Stops(w), writer[w].todo # <<>>, DOMAIN config' = Keys, prefs' \in Preferences,
             filled' \in Nat
      PROVE  WriterInv'
  <2>1. CASE Goes(w) /\ Passed(w)
    BY <1>0, <1>1, <2>1, RestIsWriter, WriterChanges DEF Goes
  <2>2. CASE Stops(w)
    BY <1>0, <1>1, <2>2, Defaults, WriterChanges DEF Stops
  <2> QED
    BY <1>1, <2>1, <2>2
<1>2. CASE Begin(w)
  <2>1. PICK p \in DOMAIN Programs : \E todo \in Programs[p] :
          writer' = [writer EXCEPT ![w] = Starting(p, todo)]
    BY <1>2 DEF Begin
  <2>2. PICK todo \in Programs[p] : writer' = [writer EXCEPT ![w] = Starting(p, todo)]
    BY <2>1
  <2> DEFINE r == Starting(p, todo)
  <2>3. IsSequence(todo)
    BY ProgramsAreSequences
  <2>4. IsWriter(r)
    BY <2>3, Defaults DEF IsWriter, Starting, WriterOf
  <2>5. Careful(r, capable)
    BY ProgramsAreCareful
  <2>6. config' = config /\ prefs' = prefs /\ filled' = filled
    BY <1>2 DEF Begin
  <2> HIDE DEF r
  <2> QED
    BY <1>0, <2>2, <2>4, <2>5, <2>6, WriterChanges DEF r
<1>3. CASE LoadConfig(w)
  <2>1. /\ config' = config /\ prefs' = prefs /\ filled' = filled /\ writer[w].todo # <<>>
        /\ ~NextIs(w, "check") /\ ~NextIs(w, "checkSetup") /\ ~NextIs(w, "checkModel")
    BY <1>3 DEF LoadConfig, NextIs
  <2>2. CASE Goes(w) \/ Stops(w)
    BY <1>0, <1>1, <2>1, <2>2 DEF Passed
  <2>3. CASE writer' = [writer EXCEPT ![w] = IF Rest(w) = IdleWriter THEN Rest(w) ELSE [Rest(w) EXCEPT !.seen = config]]
    <3> DEFINE r == [Rest(w) EXCEPT !.seen = config]
    <3>1. IsWriter(Rest(w))
      BY <2>1, RestIsWriter
    <3>2. r = [program |-> Rest(w).program, todo |-> Rest(w).todo, seen |-> config, raw |-> Rest(w).raw,
               prefs |-> Rest(w).prefs, opened |-> Rest(w).opened]
      BY <3>1 DEF IsWriter
    <3>3. IsWriter(r)
      BY <3>1, <3>2, <1>0 DEF IsWriter
    <3>4. Careful(r, capable) /\ Careful(Rest(w), capable)
      BY <2>1, RestIsWriter DEF Passed
    <3> HIDE DEF r
    <3> QED
      BY <1>0, <2>1, <2>3, <3>1, <3>3, <3>4, WriterChanges DEF r
  <2> QED
    BY <1>3, <2>2, <2>3 DEF LoadConfig
<1>4. CASE Check(w)
  <2>1. writer[w].todo # <<>> /\ config' = config /\ prefs' = prefs /\ filled' = filled
    BY <1>4 DEF Check, NextIs
  <2>2. (Goes(w) /\ Passed(w)) \/ Stops(w)
    <3>1. CASE NextIs(w, "check")
      <4>1. ValidateConfigSetLocalONNX(writer[w].seen, NextStep(w).to) = Permitted(writer[w].seen, NextStep(w).to, capable)
        BY DEF ValidateConfigSetLocalONNX, Permitted, SemanticProvider
      <4> QED
        BY <1>4, <3>1, <4>1 DEF Check, Passed, NextIs
    <3>2. CASE NextIs(w, "checkSetup")
      BY <1>4, <3>2 DEF Check, Passed, NextIs
    <3>3. CASE NextIs(w, "checkModel")
      BY <1>4, <3>3 DEF Check, Passed, NextIs
    <3> QED
      BY <1>4, <3>1, <3>2, <3>3 DEF Check
  <2> QED
    BY <1>0, <1>1, <2>1, <2>2
<1>5. CASE SaveConfig(w) \/ SavePayload(w) \/ WriteKeys(w) \/ InitStore(w) \/ SetFails(w)
  <2>1. /\ writer[w].todo # <<>> /\ (Goes(w) \/ Stops(w)) /\ prefs' = prefs /\ filled' = filled
        /\ config' \in {config, Saved(w), WithKeys(w), InitDefault} /\ Passed(w)
    BY <1>5 DEF SaveConfig, SavePayload, WriteKeys, InitStore, SetFails, NextIs, Passed
  <2>2. DOMAIN WithKeys(w) = Keys
    BY <1>0, OverKeepsKeys DEF WithKeys, IsWriter
  <2> QED
    BY <1>0, <1>1, <2>1, <2>2, SavedKeys, Defaults
<1>6. CASE ReadRaw(w)
  <2>1. config' = config /\ prefs' = prefs /\ filled' = filled /\ writer[w].todo # <<>> /\ Passed(w)
    BY <1>6 DEF ReadRaw, NextIs, Passed
  <2>2. CASE Goes(w)
    BY <1>0, <1>1, <2>1, <2>2
  <2>3. CASE writer' = [writer EXCEPT ![w].opened = TRUE, ![w].raw = config]
    <3> DEFINE r == [program |-> writer[w].program, todo |-> writer[w].todo, seen |-> writer[w].seen,
                     raw |-> config, prefs |-> writer[w].prefs, opened |-> TRUE]
    <3>1. IsWriter(r)
      BY <1>0 DEF IsWriter
    <3>2. Careful(r, capable)
      BY <1>0 DEF Careful, Right
    <3>3. writer' = [v \in Writers |-> writer'[v]] /\ \A v \in Writers \ {w} : writer'[v] = writer[v]
      BY <1>0, <2>3
    <3>4. writer'[w] = r
      BY <1>0, <2>3 DEF IsWriter
    <3> HIDE DEF r
    <3>5. writer' = [writer EXCEPT ![w] = r]
      BY <1>0, <3>3, <3>4
    <3> QED
      BY <1>0, <2>1, <3>1, <3>2, <3>5, WriterChanges
  <2> QED
    BY <1>6, <2>2, <2>3 DEF ReadRaw
<1>7. CASE LoadPrefs(w)
  <2>1. config' = config /\ prefs' = prefs /\ filled' = filled /\ writer[w].todo # <<>> /\ Passed(w)
    BY <1>7 DEF LoadPrefs, NextIs, Passed
  <2>2. CASE Stops(w)
    BY <1>0, <1>1, <2>1, <2>2
  <2>3. CASE writer' = [writer EXCEPT ![w] = [Rest(w) EXCEPT !.prefs = prefs]]
    <3> DEFINE r == [Rest(w) EXCEPT !.prefs = prefs]
    <3>1. IsWriter(Rest(w)) /\ Careful(Rest(w), capable)
      BY <2>1, RestIsWriter
    <3>2. r = [program |-> Rest(w).program, todo |-> Rest(w).todo, seen |-> Rest(w).seen, raw |-> Rest(w).raw,
               prefs |-> prefs, opened |-> Rest(w).opened]
      BY <3>1 DEF IsWriter
    <3>3. IsWriter(r)
      BY <3>1, <3>2, <1>0 DEF IsWriter
    <3>4. Careful(r, capable)
      BY <3>1, <3>2 DEF Careful, Right
    <3> HIDE DEF r
    <3> QED
      BY <1>0, <2>1, <2>3, <3>3, <3>4, WriterChanges DEF r
  <2> QED
    BY <1>7, <2>2, <2>3 DEF LoadPrefs
<1>8. CASE EmptyPrefs(w)
  <2>1. /\ config' = config /\ prefs' = prefs /\ filled' = 0 /\ writer[w].todo # <<>> /\ NextIs(w, "savePrefs")
        /\ writer' = [writer EXCEPT ![w].opened = TRUE, ![w].prefs = Over(NextStep(w).to, @)]
    BY <1>8 DEF EmptyPrefs, NextIs
  <2> DEFINE p == Over(NextStep(w).to, writer[w].prefs)
  <2>2. \A k \in DOMAIN NextStep(w).to : NextStep(w).to[k] \in Nat
    BY <2>1, NextIsRight DEF Right, NextIs
  <2>3. p \in Preferences
    BY <1>0, <2>2 DEF Over, Preferences, IsWriter
  <2> DEFINE r == [program |-> writer[w].program, todo |-> writer[w].todo, seen |-> writer[w].seen,
                   raw |-> writer[w].raw, prefs |-> p, opened |-> TRUE]
  <2>4. IsWriter(r)
    BY <1>0, <2>3 DEF IsWriter
  <2>5. Careful(r, capable)
    BY <1>0 DEF Careful, Right
  <2>6. writer' = [v \in Writers |-> writer'[v]] /\ \A v \in Writers \ {w} : writer'[v] = writer[v]
    BY <1>0, <2>1
  <2> HIDE DEF p
  <2>7. writer'[w] = r
    BY <1>0, <2>1 DEF IsWriter, p
  <2> HIDE DEF r
  <2>8. writer' = [writer EXCEPT ![w] = r]
    BY <1>0, <2>6, <2>7
  <2> QED
    BY <1>0, <2>1, <2>4, <2>5, <2>8, WriterChanges
<1>9. CASE SavePrefs(w)
  <2>1. config' = config /\ prefs' = writer[w].prefs /\ writer[w].todo # <<>> /\ Goes(w) /\ Passed(w)
    BY <1>9 DEF SavePrefs, NextIs, Passed
  <2>2. prefs' \in Preferences
    BY <1>0, <2>1 DEF IsWriter
  <2>3. Length(prefs') \in Nat
    BY <2>2 DEF Length, Preferences
  <2>4. filled' \in Nat
    BY <1>0, <1>9, <2>3 DEF SavePrefs
  <2> QED
    BY <1>0, <1>1, <2>1, <2>2, <2>4
<1>10. CASE WriterDies(w)
  BY <1>0, <1>10, Defaults, WriterChanges DEF WriterDies, Stops
<1> QED
  BY <1>2, <1>3, <1>4, <1>5, <1>6, <1>7, <1>8, <1>9, <1>10 DEF Step

(* A step of one writer leaves the others alone.                           *)
LEMMA OthersWait ==
  ASSUME NEW w \in Writers, WriterInv, Step(w)
  PROVE  /\ capable' = capable
         /\ \A v \in Writers \ {w} : /\ writer'[v] = writer[v] /\ Filling(v)' = Filling(v)
                                     /\ Unfinished(v)' = Unfinished(v)
<1>1. capable' = capable
  BY DEF Step, Begin, LoadConfig, Check, SaveConfig, SavePayload, ReadRaw, WriteKeys, InitStore, SetFails,
         LoadPrefs, EmptyPrefs, SavePrefs, WriterDies
<1>2. \E r : writer' = [writer EXCEPT ![w] = r]
  <2>1. ASSUME Goes(w) \/ Stops(w) PROVE \E r : writer' = [writer EXCEPT ![w] = r]
    BY <2>1 DEF Goes, Stops
  <2>2. CASE Begin(w) \/ LoadConfig(w) \/ ReadRaw(w) \/ LoadPrefs(w) \/ EmptyPrefs(w)
    <3>1. CASE EmptyPrefs(w)
      BY <3>1 DEF EmptyPrefs, WriterInv
    <3>2. CASE ReadRaw(w)
      <4>1. CASE writer' = [writer EXCEPT ![w].opened = TRUE, ![w].raw = config]
        BY <4>1 DEF WriterInv
      <4> QED
        BY <2>1, <3>2, <4>1 DEF ReadRaw
    <3>3. CASE Begin(w)
      BY <3>3 DEF Begin
    <3>4. CASE LoadConfig(w) \/ LoadPrefs(w)
      BY <2>1, <3>4 DEF LoadConfig, LoadPrefs
    <3> QED
      BY <2>2, <3>1, <3>2, <3>3, <3>4
  <2>3. CASE Check(w) \/ SaveConfig(w) \/ SavePayload(w) \/ WriteKeys(w) \/ InitStore(w) \/ SetFails(w)
               \/ SavePrefs(w) \/ WriterDies(w)
    BY <2>1, <2>3 DEF Check, SaveConfig, SavePayload, WriteKeys, InitStore, SetFails, SavePrefs, WriterDies
  <2> QED
    BY <2>2, <2>3 DEF Step
<1>3. \A v \in Writers \ {w} : writer'[v] = writer[v]
  BY <1>2 DEF WriterInv
<1> QED
  BY <1>1, <1>3 DEF Filling, Unfinished, NextIs, NextStep

(* The form sets a provider that is not the local one.                     *)
LEMMA UnfinishedSets ==
  ASSUME NEW w \in Writers, WriterInv, Unfinished(w)
  PROVE  NextStep(w).to \in Other
<1>1. /\ writer[w].todo # <<>> /\ NextStep(w).op = "set" /\ "provider" \in DOMAIN NextStep(w).to
      /\ writer[w].program = "wizard"
  BY DEF Unfinished, NextIs
<1>2. Right(writer[w], capable, 1) /\ NextStep(w) = writer[w].todo[1]
  BY <1>1, NextIsRight
<1> DEFINE to == NextStep(w).to
<1>3. ~Plain(to) /\ to # [enabled |-> FALSE] /\ to # [enabled |-> TRUE]
  BY <1>1 DEF Plain
<1> QED
  BY <1>1, <1>2, <1>3 DEF Right

(* Keys are set on what the file holds: this enables local search only     *)
(* where it is supported, or with the other provider still to come.        *)
LEMMA KeysAreRight ==
  ASSUME NEW w \in Writers, WriterInv, WriteKeys(w), ~Stale(w), ~capable
  PROVE  Search(WithKeys(w)) = <<TRUE, "local">> /\ NextStep(w).to # [provider |-> ""] =>
           Unfinished(w)' \/ (Search(WithKeys(w)) = Search(config) /\ ~Unfinished(w))
<1>0. SUFFICES ASSUME Search(WithKeys(w)) = <<TRUE, "local">>, NextStep(w).to # [provider |-> ""]
               PROVE  Unfinished(w)' \/ (Search(WithKeys(w)) = Search(config) /\ ~Unfinished(w))
  OBVIOUS
<1> DEFINE to == NextStep(w).to  seen == writer[w].seen  raw == writer[w].raw
<1>1. /\ writer[w].todo # <<>> /\ NextStep(w).op = "set" /\ NextIs(w, "set") /\ WithKeys(w) = Over(to, raw)
      /\ DOMAIN raw = Keys /\ DOMAIN seen = Keys
  BY DEF WriteKeys, NextIs, WithKeys, WriterInv, IsWriter
<1>2. Search(raw) = Search(config)
  BY <1>1 DEF Stale
<1>3. Right(writer[w], capable, 1) /\ NextStep(w) = writer[w].todo[1]
  BY <1>1, NextIsRight
<1>4. /\ WithKeys(w).enabled = IF "enabled" \in DOMAIN to THEN to.enabled ELSE raw.enabled
      /\ WithKeys(w).provider = IF "provider" \in DOMAIN to THEN to.provider ELSE raw.provider
  BY <1>1 DEF Over, Keys
<1>5. WithKeys(w).enabled = TRUE /\ SemanticProvider(WithKeys(w)) = "local"
  BY <1>0 DEF Search
<1>6. CASE Plain(to)
  BY <1>2, <1>4, <1>6 DEF Plain, Search, SemanticProvider, Unfinished
<1>7. CASE Off(to) \/ to = [enabled |-> FALSE]
  <2>1. "enabled" \in DOMAIN to /\ to.enabled = FALSE
    BY <1>7 DEF Off
  <2> QED
    BY <1>4, <1>5, <2>1
<1>8. CASE writer[w].program = "set" /\ to \in CliKeys /\ Permitted(seen, to, capable)
  <2>1. Search(seen) = Search(raw)
    BY <1>2, <1>8 DEF Stale, Judged
  <2>2. seen.enabled = raw.enabled /\ SemanticProvider(seen) = SemanticProvider(raw)
    BY <2>1 DEF Search
  <2>3. DOMAIN Over(to, seen) = Keys
          /\ Over(to, seen).enabled = IF "enabled" \in DOMAIN to THEN to.enabled ELSE seen.enabled
    BY <1>1 DEF Over, Keys
  <2>4. ~(Over(to, seen).enabled /\ (IF "provider" \in DOMAIN to THEN to.provider ELSE SemanticProvider(seen)) = "local")
    BY <1>8 DEF Permitted
  <2>5. CASE to = [extra |-> TRUE]
    BY <1>6, <2>5 DEF Plain
  <2>6. CASE to = [enabled |-> TRUE]
    BY <1>4, <1>5, <2>2, <2>3, <2>4, <2>6 DEF SemanticProvider
  <2>7. CASE to = [provider |-> "ollama"]
    <3>1. "provider" \in DOMAIN to /\ to.provider = "ollama"
      BY <2>7
    <3> QED
      BY <1>4, <1>5, <3>1 DEF SemanticProvider
  <2>8. CASE to = [provider |-> "local"]
    <3>1. "provider" \in DOMAIN to /\ to.provider = "local" /\ "enabled" \notin DOMAIN to
      BY <2>8
    <3> QED
      BY <1>4, <1>5, <2>2, <2>3, <2>4, <3>1
  <2> QED
    BY <1>0, <1>8, <2>5, <2>6, <2>7, <2>8 DEF CliKeys
<1>9. CASE writer[w].program = "setup" /\ to = [enabled |-> TRUE] /\ SemanticProvider(seen) # "local"
  <2>1. Search(seen) = Search(raw)
    BY <1>2, <1>9 DEF Stale, Judged
  <2> QED
    BY <1>4, <1>5, <1>9, <2>1 DEF Search, SemanticProvider
<1>10. CASE /\ writer[w].program = "wizard" /\ to = [enabled |-> TRUE]
            /\ 1 < Len(writer[w].todo) /\ writer[w].todo[2].op = "set" /\ writer[w].todo[2].to \in Other
  <2>1. PICK T : writer[w].todo \in Seq(T)
    BY DEF WriterInv, IsWriter, IsSequence
  <2>2. Tail(writer[w].todo) # <<>> /\ Head(Tail(writer[w].todo)) = writer[w].todo[2]
    <3>1. Len(writer[w].todo) \in Nat /\ 1 < Len(writer[w].todo)
      BY <1>10, <2>1
    <3>2. Len(Tail(writer[w].todo)) = Len(writer[w].todo) - 1 /\ Tail(writer[w].todo) \in Seq(T)
      BY <2>1, <3>1
    <3>3. Tail(writer[w].todo)[1] = writer[w].todo[1 + 1]
      BY <2>1, <3>1
    <3> QED
      <4> DEFINE t == Tail(writer[w].todo)
      <4>1. t \in Seq(T) /\ Len(t) > 0 /\ t[1] = writer[w].todo[2]
        BY <3>1, <3>2, <3>3
      <4> HIDE DEF t
      <4>2. t # <<>> /\ Head(t) = t[1]
        BY <4>1
      <4> QED
        BY <4>1, <4>2 DEF t
  <2>3. writer'[w] = Rest(w)
    BY DEF WriteKeys, Goes, WriterInv
  <2>4. writer'[w].program = "wizard" /\ writer'[w].todo = Tail(writer[w].todo)
    BY <1>1, <1>10, <2>2, <2>3, RestIsWriter
  <2>5. "provider" \in DOMAIN writer[w].todo[2].to
    <3>1. PICK o \in {"ollama", "api"} : writer[w].todo[2].to = [provider |-> o]
      BY <1>10 DEF Other
    <3> QED
      BY <3>1
  <2> QED
    BY <1>10, <2>2, <2>4, <2>5 DEF Unfinished, NextIs, NextStep
<1>11. CASE to \in Other
  <2>1. "provider" \in DOMAIN to /\ to.provider \in {"ollama", "api"}
    <3>1. PICK o \in {"ollama", "api"} : to = [provider |-> o]
      BY <1>11 DEF Other
    <3> QED
      BY <3>1
  <2> QED
    BY <1>4, <1>5, <2>1 DEF SemanticProvider
<1>12. \/ Plain(to) \/ to = [enabled |-> FALSE] \/ Off(to)
       \/ writer[w].program = "set" /\ to \in CliKeys /\ Permitted(seen, to, capable)
       \/ writer[w].program = "setup" /\ to = [enabled |-> TRUE] /\ SemanticProvider(seen) # "local"
       \/ /\ writer[w].program = "wizard" /\ to = [enabled |-> TRUE]
          /\ 1 < Len(writer[w].todo) /\ writer[w].todo[2].op = "set" /\ writer[w].todo[2].to \in Other
       \/ to \in Other
  <2>1. ~(\E j \in 1..(1 - 1) : writer[w].todo[j].op = "checkModel") /\ 1 + 1 = 2
    OBVIOUS
  <2> QED
    BY <1>1, <1>3, <2>1 DEF Right
<1> QED
  BY <1>6, <1>7, <1>8, <1>9, <1>10, <1>11, <1>12

(* The copy saved, too, enables it only where the file had it enabled, or  *)
(* where it is supported.                                                  *)
LEMMA SavesAreRight ==
  ASSUME NEW w \in Writers, WriterInv, SaveConfig(w) \/ SavePayload(w), config' = Saved(w), ~Stale(w), ~capable,
         Search(Saved(w)) = <<TRUE, "local">>, SavePayload(w) => ~Unsupported(NextStep(w).to)
  PROVE  Search(Saved(w)) = Search(config) /\ ~Unfinished(w)
<1> DEFINE to == NextStep(w).to  seen == writer[w].seen
<1>1. writer[w].todo # <<>> /\ NextStep(w).op \in {"save", "savePayload", "saveLocal"} /\ DOMAIN seen = Keys
  BY DEF SaveConfig, SavePayload, NextIs, WriterInv, IsWriter
<1>2. Search(seen) = Search(config)
  BY DEF Stale, Judged, SaveConfig, SavePayload
<1>3. Right(writer[w], capable, 1) /\ NextStep(w) = writer[w].todo[1]
  BY <1>1, NextIsRight
<1>4. /\ Saved(w).enabled = IF "enabled" \in DOMAIN to THEN to.enabled ELSE seen.enabled
      /\ Saved(w).provider = IF "provider" \in DOMAIN to THEN to.provider ELSE seen.provider
  BY <1>1, SavedKeys DEF Over, Keys
<1>5. Saved(w).enabled = TRUE /\ SemanticProvider(Saved(w)) = "local"
  BY DEF Search
<1>6. ~Unfinished(w)
  BY <1>1 DEF Unfinished, NextIs
<1>7. CASE Plain(to)
  BY <1>2, <1>4, <1>6, <1>7 DEF Plain, Search, SemanticProvider
<1>8. CASE Off(to)
  BY <1>4, <1>5, <1>8 DEF Off
<1>9. CASE NextStep(w).op # "save" /\ "enabled" \in DOMAIN to /\ "provider" \in DOMAIN to
  <2>1. SavePayload(w)
    BY <1>9 DEF SaveConfig, NextIs
  <2> QED
    BY <1>4, <1>5, <1>9, <2>1 DEF Unsupported, SemanticProvider
<1> QED
  BY <1>1, <1>3, <1>7, <1>8, <1>9 DEF Right

LEMMA SearchStep ==
  ASSUME NEW w \in Writers, WriterInv, SearchInv, Step(w), Slip(w)
  PROVE  SearchInv'
<1> DEFINE Ways == {"stale", "unfinished", "noProvider"}
<1>1. SUFFICES ASSUME ~capable, Search(config') = <<TRUE, "local">>, slips' \intersect Ways = {}
               PROVE  \E v \in Writers : Unfinished(v)'
  BY OthersWait DEF SearchInv, Search, SemanticProvider
<1>2. slips \intersect Ways = {}
  BY <1>1 DEF Slip
<1>3. config' # config => ~Stale(w) /\ ~(NextIs(w, "set") /\ NextStep(w).to = [provider |-> ""])
  BY <1>1 DEF Slip
<1>4. ASSUME Search(config') = Search(config), ~Unfinished(w) \/ config' = config
      PROVE  \E v \in Writers : Unfinished(v)'
  <2>1. PICK v \in Writers : Unfinished(v)
    BY <1>1, <1>2, <1>4 DEF SearchInv
  <2>2. CASE v # w
    BY <2>1, <2>2, OthersWait
  <2>3. CASE v = w /\ ~Unfinished(w)'
    <3>1. config'.provider = NextStep(w).to.provider
      BY <1>1, <2>1, <2>3 DEF Slip
    <3>2. NextStep(w).to \in Other
      BY <2>1, <2>3, UnfinishedSets
    <3>3. config'.provider \in {"ollama", "api"}
      BY <3>1, <3>2 DEF Other
    <3> QED
      BY <1>1, <3>3 DEF Search, SemanticProvider
  <2> QED
    BY <2>2, <2>3
<1>5. CASE config' = config
  BY <1>4, <1>5
<1>6. CASE config' # config /\ WriteKeys(w)
  <2>1. config' = WithKeys(w) /\ NextIs(w, "set")
    BY <1>6 DEF WriteKeys
  <2>2. Unfinished(w)' \/ (Search(WithKeys(w)) = Search(config) /\ ~Unfinished(w))
    BY <1>1, <1>3, <1>6, <2>1, KeysAreRight
  <2> QED
    BY <1>4, <2>1, <2>2
<1>7. CASE config' # config /\ (SaveConfig(w) \/ SavePayload(w))
  <2>1. config' = Saved(w) /\ (SavePayload(w) => ~Unsupported(NextStep(w).to))
    BY <1>7 DEF SaveConfig, SavePayload
  <2>2. Search(Saved(w)) = Search(config) /\ ~Unfinished(w)
    BY <1>1, <1>3, <1>7, <2>1, SavesAreRight
  <2> QED
    BY <1>4, <2>1, <2>2
<1>8. CASE config' # config /\ InitStore(w)
  <2>1. config' = InitDefault /\ InitDefault.enabled = FALSE
    BY <1>8 DEF InitStore, InitDefault
  <2> QED
    BY <1>1, <2>1 DEF Search
<1> QED
  BY <1>5, <1>6, <1>7, <1>8 DEF Step, Begin, LoadConfig, Check, ReadRaw, SetFails, LoadPrefs, EmptyPrefs, SavePrefs,
                                WriterDies

(* The preferences are emptied by one writer at a time, who fills them.    *)
LEMMA PrefsStep ==
  ASSUME NEW w \in Writers, WriterInv, PrefsInv, Step(w), Slip(w)
  PROVE  PrefsInv'
<1>1. SUFFICES ASSUME "torn" \notin slips'
               PROVE  /\ \A u, v \in Writers : Filling(u)' /\ Filling(v)' => u = v
                      /\ (\E v \in Writers : Filling(v)') => filled' = 0
                      /\ (\A v \in Writers : ~Filling(v)') => filled' = Length(prefs')
  BY DEF PrefsInv, Length
<1>2. /\ "torn" \notin slips
      /\ ~(Filling(w) /\ ~Filling(w)' /\ filled' = filled)
      /\ ~(~Filling(w) /\ Filling(w)' /\ \E v \in Writers : Filling(v))
  BY <1>1 DEF Slip
<1>3. /\ \A u, v \in Writers : Filling(u) /\ Filling(v) => u = v
      /\ (\E v \in Writers : Filling(v)) => filled = 0
      /\ (\A v \in Writers : ~Filling(v)) => filled = Length(prefs)
  BY <1>2 DEF PrefsInv
<1>4. \A v \in Writers \ {w} : Filling(v)' = Filling(v)
  BY OthersWait
<1>5. ASSUME ~writer'[w].opened \/ NextIs(w, "set")', filled' = filled, prefs' = prefs
      PROVE  /\ \A u, v \in Writers : Filling(u)' /\ Filling(v)' => u = v
             /\ (\E v \in Writers : Filling(v)') => filled' = 0
             /\ (\A v \in Writers : ~Filling(v)') => filled' = Length(prefs')
  <2>1. ~Filling(w)'
    BY <1>5 DEF Filling, NextIs
  <2>2. ~Filling(w)
    BY <1>2, <1>5, <2>1
  <2> QED
    BY <1>3, <1>4, <1>5, <2>1, <2>2
<1>6. ASSUME Goes(w) \/ Stops(w), writer[w].todo # <<>> PROVE ~writer'[w].opened
  <2>1. writer'[w] \in {Rest(w), IdleWriter}
    BY <1>6 DEF Goes, Stops, WriterInv
  <2> QED
    BY <1>6, <2>1, RestIsWriter
<1>7. CASE Begin(w)
  <2>1. PICK p, todo : writer' = [writer EXCEPT ![w] = Starting(p, todo)]
    BY <1>7 DEF Begin
  <2>2. ~writer'[w].opened
    BY <2>1 DEF WriterInv, Starting, WriterOf
  <2> QED
    BY <1>5, <1>7, <2>2 DEF Begin
<1>8. CASE LoadConfig(w) \/ LoadPrefs(w)
  <2>1. writer[w].todo # <<>> /\ filled' = filled /\ prefs' = prefs
    BY <1>8 DEF LoadConfig, LoadPrefs, NextIs
  <2>2. IsWriter(Rest(w)) /\ ~Rest(w).opened
    BY <2>1, RestIsWriter
  <2>3. \/ Goes(w) \/ Stops(w)
        \/ writer' = [writer EXCEPT ![w] = Rest(w)]
        \/ writer' = [writer EXCEPT ![w] = [Rest(w) EXCEPT !.seen = config]]
        \/ writer' = [writer EXCEPT ![w] = [Rest(w) EXCEPT !.prefs = prefs]]
    BY <1>8 DEF LoadConfig, LoadPrefs
  <2>4. CASE writer' = [writer EXCEPT ![w] = [Rest(w) EXCEPT !.seen = config]]
    <3>1. writer'[w] = [Rest(w) EXCEPT !.seen = config]
      BY <2>4 DEF WriterInv
    <3> QED
      BY <1>5, <2>1, <2>2, <3>1 DEF IsWriter
  <2>5. CASE writer' = [writer EXCEPT ![w] = [Rest(w) EXCEPT !.prefs = prefs]]
    <3>1. writer'[w] = [Rest(w) EXCEPT !.prefs = prefs]
      BY <2>5 DEF WriterInv
    <3> QED
      BY <1>5, <2>1, <2>2, <3>1 DEF IsWriter
  <2> QED
    BY <1>5, <1>6, <2>1, <2>3, <2>4, <2>5 DEF Goes
<1>9. CASE Check(w) \/ SaveConfig(w) \/ SavePayload(w) \/ WriteKeys(w) \/ InitStore(w) \/ SetFails(w)
  BY <1>5, <1>6, <1>9 DEF Check, SaveConfig, SavePayload, WriteKeys, InitStore, SetFails, NextIs
<1>10. CASE ReadRaw(w)
  <2>1. CASE Goes(w)
    BY <1>5, <1>6, <1>10, <2>1 DEF ReadRaw, NextIs
  <2>2. CASE writer' = [writer EXCEPT ![w].opened = TRUE, ![w].raw = config]
    <3>1. writer'[w].todo = writer[w].todo
      BY <2>2 DEF WriterInv, IsWriter
    <3>2. NextIs(w, "set")'
      BY <1>10, <3>1 DEF ReadRaw, NextIs, NextStep
    <3> QED
      BY <1>5, <1>10, <3>2 DEF ReadRaw
  <2> QED
    BY <1>10, <2>1, <2>2 DEF ReadRaw
<1>11. CASE EmptyPrefs(w)
  <2>1. /\ filled' = 0 /\ NextIs(w, "savePrefs") /\ ~writer[w].opened
        /\ writer' = [writer EXCEPT ![w].opened = TRUE, ![w].prefs = Over(NextStep(w).to, @)]
    BY <1>11 DEF EmptyPrefs
  <2>2. writer'[w].opened /\ writer'[w].todo = writer[w].todo
    BY <2>1 DEF WriterInv, IsWriter
  <2>3. Filling(w)' /\ ~Filling(w)
    BY <2>1, <2>2 DEF Filling, NextIs, NextStep
  <2>4. \A v \in Writers \ {w} : ~Filling(v)'
    BY <1>2, <1>4, <2>3
  <2> QED
    BY <2>1, <2>3, <2>4
<1>12. CASE SavePrefs(w)
  <2>1. /\ Filling(w) /\ Goes(w) /\ prefs' = writer[w].prefs /\ writer[w].todo # <<>>
        /\ filled' = IF filled > Length(prefs') THEN filled ELSE Length(prefs')
    BY <1>12 DEF SavePrefs, Filling, NextIs
  <2>2. filled = 0 /\ \A v \in Writers \ {w} : ~Filling(v)
    BY <1>3, <2>1
  <2>3. prefs' \in Preferences
    BY <2>1 DEF WriterInv, IsWriter
  <2>4. Length(prefs') \in Nat
    BY <2>3 DEF Length, Preferences
  <2>5. filled' = Length(prefs')
    BY <2>1, <2>2, <2>4
  <2>6. ~Filling(w)'
    BY <1>6, <2>1 DEF Filling
  <2> QED
    BY <1>4, <2>2, <2>5, <2>6
<1>13. CASE WriterDies(w)
  <2>1. writer'[w] = IdleWriter
    BY <1>13 DEF WriterDies, Stops, WriterInv
  <2>2. ~writer'[w].opened
    <3>1. IdleWriter.opened = FALSE
      BY DEF IdleWriter, Starting, WriterOf
    <3> QED
      BY <2>1, <3>1
  <2> QED
    BY <1>5, <1>13, <2>2 DEF WriterDies
<1> QED
  BY <1>7, <1>8, <1>9, <1>10, <1>11, <1>12, <1>13 DEF Step

(* The settings stay as the programs can use them: the invariant, which    *)
(* says what each program has left to do and what it has checked, and the  *)
(* property the run checks.                                                *)
THEOREM SettingsInvHolds == SettingsSpec => []SettingsInv
<1>1. SettingsInit => SettingsInv
  <2> SUFFICES ASSUME SettingsInit PROVE SettingsInv
    OBVIOUS
  <2>1. DOMAIN config = Keys /\ config.enabled = FALSE
    <3>1. DOMAIN InitDefault = Keys /\ InitDefault.enabled = FALSE
      BY Defaults DEF InitDefault
    <3>2. config = InitDefault \/ config = [InitDefault EXCEPT !.extra = TRUE, !.model = "e5", !.dims = "e5"]
      BY DEF SettingsInit
    <3> QED
      BY <3>1, <3>2 DEF Keys
  <2>2. prefs \in Preferences /\ filled = Length(prefs) /\ filled \in Nat
    BY Defaults DEF SettingsInit, Length, Preferences
  <2>3. \A w \in Writers : writer[w] = IdleWriter /\ ~Filling(w)
    BY DEF SettingsInit, Filling, IdleWriter, Starting, WriterOf
  <2>4. WriterInv
    BY <2>1, <2>2, <2>3, Defaults DEF WriterInv, SettingsInit
  <2>5. SearchInv
    BY <2>1 DEF SearchInv, Search
  <2>6. PrefsInv
    BY <2>2, <2>3 DEF PrefsInv
  <2> QED
    BY <2>4, <2>5, <2>6 DEF SettingsInv
<1>2. SettingsInv /\ [SettingsNext]_settingsVars => SettingsInv'
  <2> SUFFICES ASSUME SettingsInv, [SettingsNext]_settingsVars PROVE SettingsInv'
    OBVIOUS
  <2>1. CASE UNCHANGED settingsVars
    BY <2>1 DEF settingsVars, SettingsInv, WriterInv, SearchInv, PrefsInv, Search, SemanticProvider, Unfinished,
                Filling, NextIs, NextStep, Length
  <2>2. CASE SettingsNext
    <3>1. PICK w \in Writers : Step(w) /\ Slip(w)
      BY <2>2 DEF SettingsNext, Step
    <3> QED
      BY <3>1, WritersStay, SearchStep, PrefsStep DEF SettingsInv
  <2> QED
    BY <2>1, <2>2
<1> QED
  BY <1>1, <1>2, PTL DEF SettingsSpec

THEOREM SettingsStayUsableHolds == SettingsSpec => []SettingsStayUsable
<1>1. SettingsInv => SettingsStayUsable
  BY DEF SettingsInv, SearchInv, PrefsInv, SettingsStayUsable, Whole
<1> QED
  BY <1>1, SettingsInvHolds, PTL

-----------------------------------------------------------------------------
(* The registry of projects.                                               *)

(* What a command, and a request, may have left to do.                     *)
ClientTodos ==
  {<<"load", "create", "use", "path", "link">>, <<"create", "use", "path", "link">>, <<"use", "path", "link">>,
   <<"path", "link">>, <<"link">>, <<"load", "path">>, <<"path">>, <<"load">>, <<"load", "use">>, <<"use">>}
ServerTodos ==
  {<<"load">>, <<"create", "path", "settings">>, <<"path", "settings">>, <<"settings">>, <<"update", "settings">>,
   <<"rename">>, <<"use">>, <<"remove">>}
Creating ==
  {<<"load", "create", "use", "path", "link">>, <<"create", "use", "path", "link">>,
   <<"create", "path", "settings">>}
OpNames == {"load", "create", "use", "path", "link", "settings", "update", "rename", "remove"}

LEMMA TodosNames ==
  \A t \in ClientTodos \union ServerTodos : t # <<>> /\ Head(t) \in OpNames
BY DEF ClientTodos, ServerTodos, OpNames

LEMMA TailsOfTodos ==
  /\ Tail(<<"load", "create", "use", "path", "link">>) = <<"create", "use", "path", "link">>
  /\ Tail(<<"create", "use", "path", "link">>) = <<"use", "path", "link">>
  /\ Tail(<<"use", "path", "link">>) = <<"path", "link">>
  /\ Tail(<<"path", "link">>) = <<"link">>
  /\ Tail(<<"load", "path">>) = <<"path">>
  /\ Tail(<<"load", "use">>) = <<"use">>
  /\ Tail(<<"create", "path", "settings">>) = <<"path", "settings">>
  /\ Tail(<<"path", "settings">>) = <<"settings">>
  /\ Tail(<<"update", "settings">>) = <<"settings">>
  /\ \A op : Tail(<<op>>) = <<>>
OBVIOUS

LEMMA ClientTails ==
  \A t \in ClientTodos : Tail(t) \in {<<>>} \union ClientTodos
BY TailsOfTodos, Zenon DEF ClientTodos

LEMMA ServerTails ==
  \A t \in ServerTodos :
    Tail(t) \in {<<>>} \union ServerTodos /\ (Head(t) = "path" => Tail(t) # <<>>)
<1>1. \A t \in ServerTodos : Tail(t) \in {<<>>} \union ServerTodos
  BY TailsOfTodos, Zenon DEF ServerTodos
<1>2. \A t \in ServerTodos : Head(t) = "path" => t = <<"path", "settings">>
  BY DEF ServerTodos
<1>3. Tail(<<"path", "settings">>) # <<>>
  OBVIOUS
<1> QED
  BY <1>1, <1>2, <1>3, Zenon

LEMMA CreatingTails ==
  \A t \in ClientTodos \union ServerTodos :
    /\ Tail(t) \in Creating => t \in Creating
    /\ Head(t) = "create" => t \in Creating /\ Tail(t) \notin Creating
<1> DEFINE Others ==
      {<<"load">>, <<"load", "use">>, <<"load", "path">>, <<"use", "path", "link">>, <<"path", "link">>, <<"link">>,
       <<"path">>, <<"use">>, <<"path", "settings">>, <<"settings">>, <<"update", "settings">>, <<"rename">>,
       <<"remove">>}
    Left == {<<>>, <<"use">>, <<"path">>, <<"path", "link">>, <<"link">>, <<"settings">>}
<1>1. \A t \in ClientTodos \union ServerTodos : t \in Creating \/ t \in Others
  BY Zenon DEF Creating, ClientTodos, ServerTodos
<1>2. \A t \in Others : Tail(t) \in Left
  BY TailsOfTodos, Zenon
<1>3. \A t \in Left : t \notin Creating
  BY DEF Creating
<1> HIDE DEF Others, Left
<1>5. \A t \in ClientTodos \union ServerTodos : Tail(t) \in Creating => t \in Creating
  BY <1>1, <1>2, <1>3, Zenon
<1>6. \A t \in ClientTodos \union ServerTodos : Head(t) = "create" =>
         t \in {<<"create", "use", "path", "link">>, <<"create", "path", "settings">>}
  BY DEF ClientTodos, ServerTodos
<1>7. <<"use", "path", "link">> \notin Creating /\ <<"path", "settings">> \notin Creating
  BY DEF Creating
<1>8. \A t \in {<<"create", "use", "path", "link">>, <<"create", "path", "settings">>} :
        t \in Creating /\ Tail(t) \notin Creating
  BY <1>7, TailsOfTodos, Zenon DEF Creating
<1> QED
  BY <1>5, <1>6, <1>8, Zenon

LEMMA Started ==
  /\ \A c \in DOMAIN Operations : Operations[c] \in ClientTodos /\ (Operations[c] \in Creating => c = "init")
  /\ \A c \in DOMAIN ServerOperations :
       ServerOperations[c] \in ServerTodos /\ (ServerOperations[c] \in Creating => c = "create")
BY DEF ServerTodos, ClientTodos, Creating, Operations, ServerOperations

(* The lists the file, the memories and the actors hold, and the IDs in    *)
(* them, which were all given out; an actor that has an operation to do    *)
(* has one, and holds the lock or the mutex only for those that need them. *)
Homes == Clients \union {"server"}
IsList(list, n) ==
  /\ list = [i \in DOMAIN list |-> list[i]]
  /\ \A i \in DOMAIN list : list[i] = [path |-> list[i].path, used |-> list[i].used]
  /\ DOMAIN list \subseteq 1..n
Todos(a) == {<<>>} \union (IF a \in Requests THEN ServerTodos ELSE ClientTodos)
IsActor(a, r, n) ==
  /\ r = [todo |-> r.todo, at |-> r.at, id |-> r.id, read |-> r.read, resolved |-> r.resolved]
  /\ IsList(r.read, n) /\ r.todo \in Todos(a)
  /\ r.at # "idle" => r.todo # <<>>
  /\ r.at \notin {"idle", "lock"} => Head(r.todo) \notin {"link", "settings"}
RegistryType ==
  /\ made \in Nat /\ IsList(registry, made) /\ (~exists => DOMAIN registry = {})
  /\ cache = [h \in Homes |-> cache[h]] /\ \A h \in Homes : IsList(cache[h], made)
  /\ actor = [a \in Actors |-> actor[a]] /\ \A a \in Actors : IsActor(a, actor[a], made)

(* A project that is yet to be created has an ID nobody knows.             *)
Known(i) ==
  \/ i \in DOMAIN registry \/ \E h \in Homes : i \in DOMAIN cache[h]
  \/ \E a \in Actors : i \in DOMAIN actor[a].read
Creates(a) == actor[a].todo \in Creating
Fresh ==
  \A a \in Actors : Creates(a) =>
    /\ actor[a].id \in 1..made /\ (\A i : Known(i) => i # actor[a].id)
    /\ \A b \in Actors : Creates(b) /\ actor[b].id = actor[a].id => b = a

(* What the holder of the lock read is what the file holds, unless it was  *)
(* last written without the lock.                                          *)
IsCurrent(a) ==
  \A i \in DOMAIN registry :
    /\ i \in DOMAIN actor[a].read
    /\ actor[a].resolved /\ registry[i].path # "" => actor[a].read[i].path # ""
ReadIsCurrent ==
  \A a \in Actors : actor[a].at = "write" /\ regLock = a /\ last # "bare" => IsCurrent(a)

RegistryInv == RegistryType /\ Fresh /\ ReadIsCurrent

LEMMA EmptyList == \A n : IsList(<<>>, n)
BY DEF IsList

LEMMA LargerBound ==
  ASSUME NEW n \in Nat, NEW m \in Nat, n <= m
  PROVE  /\ \A list : IsList(list, n) => IsList(list, m)
         /\ \A a, r : IsActor(a, r, n) => IsActor(a, r, m)
<1>1. 1..n \subseteq 1..m
  OBVIOUS
<1>2. \A list : IsList(list, n) => IsList(list, m)
  BY <1>1, Zenon DEF IsList
<1> QED
  BY <1>2, Zenon DEF IsActor

LEMMA HomesOfActors == \A a \in Actors : Home(a) \in Homes
BY DEF Home, Homes, Actors

(* An actor that asks for the lock, and one that is idle.                  *)
LEMMA AskingIsActor ==
  ASSUME NEW a, NEW todo \in Todos(a), NEW id, NEW n
  PROVE  /\ todo # <<>> => IsActor(a, Asking(todo, id), n)
         /\ IsActor(a, Idle, n) /\ Idle.todo = <<>> /\ Idle.at = "idle" /\ DOMAIN Idle.read = {}
         /\ Asking(todo, id).todo = todo /\ Asking(todo, id).at = "lock" /\ Asking(todo, id).id = id
         /\ DOMAIN Asking(todo, id).read = {}
<1>1. Asking(todo, id) = [todo |-> todo, at |-> "lock", id |-> id, read |-> <<>>, resolved |-> TRUE]
  BY DEF Asking
<1>3. Idle = [todo |-> <<>>, at |-> "idle", id |-> 0, read |-> <<>>, resolved |-> TRUE]
  BY DEF Idle
<1>4. DOMAIN <<>> = {}
  OBVIOUS
<1>5. <<>> \in Todos(a)
  BY DEF Todos
<1>6. todo # <<>> => IsActor(a, Asking(todo, id), n)
  BY <1>1, EmptyList DEF IsActor
<1>7. IsActor(a, Idle, n)
  BY <1>3, <1>5, EmptyList DEF IsActor
<1> QED
  BY <1>1, <1>3, <1>4, <1>6, <1>7

(* What is left of a list of operations, or of one whose first failed.     *)
LEMMA TailsAreTodos ==
  ASSUME NEW a, NEW todo \in Todos(a), todo # <<>>
  PROVE  /\ Tail(todo) \in Todos(a)
         /\ a \in Requests /\ Head(todo) = "path" => Tail(todo) # <<>>
         /\ Tail(todo) \in Creating => todo \in Creating
         /\ Head(todo) = "create" => todo \in Creating /\ Tail(todo) \notin Creating
         /\ Head(todo) \in OpNames
<1>1. todo \in ClientTodos \union ServerTodos
  BY DEF Todos
<1>2. Tail(todo) \in Todos(a) /\ (a \in Requests /\ Head(todo) = "path" => Tail(todo) # <<>>)
  BY ClientTails, ServerTails, Zenon DEF Todos
<1> QED
  BY <1>1, <1>2, CreatingTails, TodosNames, Zenon

LEMMA FailedIsActor ==
  ASSUME NEW a, NEW todo \in Todos(a), todo # <<>>, NEW id, NEW n
  PROVE  /\ IsActor(a, Failed(a, todo, id), n) /\ Failed(a, todo, id).at # "write"
         /\ DOMAIN Failed(a, todo, id).read = {}
         /\ Failed(a, todo, id).todo \in Creating =>
              todo \in Creating /\ Failed(a, todo, id).id = id /\ Head(todo) # "create"
<1>1. CASE a \in Requests /\ Head(todo) = "path"
  <2>1. Failed(a, todo, id) = Asking(Tail(todo), id)
    BY <1>1 DEF Failed
  <2>2. Tail(todo) \in Todos(a) /\ Tail(todo) # <<>> /\ (Tail(todo) \in Creating => todo \in Creating)
    BY <1>1, TailsAreTodos
  <2> DEFINE rest == Tail(todo)
  <2>3. rest \in Todos(a) /\ rest # <<>> /\ (rest \in Creating => todo \in Creating) /\ Failed(a, todo, id) = Asking(rest, id)
    BY <2>1, <2>2
  <2> HIDE DEF rest
  <2>4. IsActor(a, Asking(rest, id), n)
    BY <2>3, AskingIsActor
  <2>5. Asking(rest, id).todo = rest /\ Asking(rest, id).at = "lock" /\ Asking(rest, id).id = id
        /\ DOMAIN Asking(rest, id).read = {}
    BY <2>3, AskingIsActor
  <2> QED
    BY <1>1, <2>3, <2>4, <2>5
<1>2. CASE ~(a \in Requests /\ Head(todo) = "path")
  <2>1. Failed(a, todo, id) = Idle
    BY <1>2 DEF Failed
  <2>2. <<>> \notin Creating
    BY DEF Creating
  <2> QED
    BY <2>1, <2>2, AskingIsActor
<1> QED
  BY <1>1, <1>2

(* The next state of an actor that goes on with todo.                      *)
Onwards(a, todo, id) ==
  IF todo = <<>> THEN Idle
  ELSE IF Head(todo) = "path" /\ ~mounted THEN Failed(a, todo, id) ELSE Asking(todo, id)
LEMMA OnwardsIsActor ==
  ASSUME NEW a, NEW todo \in Todos(a), NEW id, NEW n
  PROVE  /\ IsActor(a, Onwards(a, todo, id), n) /\ Onwards(a, todo, id).at # "write"
         /\ DOMAIN Onwards(a, todo, id).read = {}
         /\ Onwards(a, todo, id).todo \in Creating => todo \in Creating /\ Onwards(a, todo, id).id = id
<1>0. <<>> \notin Creating
  BY DEF Creating
<1>1. CASE todo = <<>>
  <2>1. Onwards(a, todo, id) = Idle
    BY <1>1 DEF Onwards
  <2>2. IsActor(a, Idle, n) /\ Idle.todo = <<>> /\ Idle.at = "idle" /\ DOMAIN Idle.read = {}
    BY AskingIsActor
  <2> QED
    BY <1>0, <2>1, <2>2
<1>2. CASE todo # <<>> /\ Head(todo) = "path" /\ ~mounted
  BY <1>2, FailedIsActor DEF Onwards
<1>3. CASE todo # <<>> /\ ~(Head(todo) = "path" /\ ~mounted)
  <2>1. Onwards(a, todo, id) = Asking(todo, id)
    BY <1>3 DEF Onwards
  <2>2. IsActor(a, Asking(todo, id), n) /\ Asking(todo, id).todo = todo /\ Asking(todo, id).at = "lock"
        /\ Asking(todo, id).id = id /\ DOMAIN Asking(todo, id).read = {}
    BY <1>3, AskingIsActor
  <2> QED
    BY <2>1, <2>2
<1> QED
  BY <1>1, <1>2, <1>3

(* The invariant where nothing it speaks of changes.                       *)
LEMMA QuietRegistry ==
  ASSUME RegistryInv, UNCHANGED <<registry, exists, cache, actor, made, regLock, last>>
  PROVE  RegistryInv'
<1>1. \A i : Known(i)' = Known(i)
  BY DEF Known
<1>2. RegistryType' /\ ReadIsCurrent'
  BY DEF RegistryInv, RegistryType, ReadIsCurrent, IsCurrent
<1>3. Fresh'
  BY <1>1 DEF RegistryInv, Fresh, Creates
<1> QED
  BY <1>2, <1>3 DEF RegistryInv

(* One actor changes, and the lists may.                                   *)
LEMMA ActorSteps ==
  ASSUME RegistryType, NEW a \in Actors, NEW r, IsActor(a, r, made'), actor' = [actor EXCEPT ![a] = r],
         made' \in Nat, made <= made', IsList(registry', made'), exists' \/ DOMAIN registry' = {},
         cache' = [h \in Homes |-> cache'[h]], \A h \in Homes : IsList(cache'[h], made')
  PROVE  RegistryType' /\ actor'[a] = r /\ \A b \in Actors \ {a} : actor'[b] = actor[b]
<1>1. actor = [b \in Actors |-> actor[b]] /\ \A b \in Actors : IsActor(b, actor[b], made)
  BY DEF RegistryType
<1>2. actor'[a] = r /\ (\A b \in Actors \ {a} : actor'[b] = actor[b]) /\ actor' = [b \in Actors |-> actor'[b]]
  BY <1>1
<1>3. made \in Nat
  BY DEF RegistryType
<1>4. \A b \in Actors : IsActor(b, actor'[b], made')
  <2>1. \A b \in Actors : IsActor(b, actor[b], made')
    BY <1>1, <1>3, LargerBound
  <2> QED
    BY <1>2, <2>1
<1> QED
  BY <1>2, <1>4 DEF RegistryType

LEMMA KnownSteps ==
  ASSUME NEW a \in Actors, NEW r, actor'[a] = r, \A b \in Actors \ {a} : actor'[b] = actor[b],
         NEW X, \A i \in DOMAIN r.read : Known(i), \A i \in DOMAIN registry' : Known(i) \/ i \in X,
         \A h \in Homes : \A i \in DOMAIN cache'[h] : Known(i) \/ i \in X
  PROVE  \A i : Known(i)' => Known(i) \/ i \in X
<1>1. \A b \in Actors : \A i \in DOMAIN actor'[b].read : Known(i)
  BY DEF Known
<1> QED
  BY <1>1 DEF Known

LEMMA FreshSteps ==
  ASSUME Fresh, NEW a \in Actors, NEW r, actor'[a] = r, \A b \in Actors \ {a} : actor'[b] = actor[b], made' = made,
         r.todo \in Creating => Creates(a) /\ r.id = actor[a].id,
         \A i : Known(i)' => Known(i) \/ (i = actor[a].id /\ Creates(a) /\ r.todo \notin Creating)
  PROVE  Fresh'
<1>1. \A b \in Actors : Creates(b)' => Creates(b) /\ actor'[b].id = actor[b].id
  BY DEF Creates
<1>2. ASSUME NEW b \in Actors, Creates(b)'
      PROVE  actor'[b].id \in 1..made' /\ \A i : Known(i)' => i # actor'[b].id
  <2>1. Creates(b) /\ actor'[b].id = actor[b].id
    BY <1>1, <1>2
  <2>2. actor[b].id \in 1..made /\ \A i : Known(i) => i # actor[b].id
    BY <2>1 DEF Fresh
  <2>3. Creates(a) /\ r.todo \notin Creating => actor[b].id # actor[a].id
    BY <1>2, <2>1 DEF Fresh, Creates
  <2> QED
    BY <2>1, <2>2, <2>3
<1>3. ASSUME NEW b \in Actors, NEW c \in Actors, Creates(b)', Creates(c)', actor'[c].id = actor'[b].id
      PROVE  c = b
  BY <1>1, <1>3 DEF Fresh
<1> QED
  BY <1>2, <1>3 DEF Fresh

(* An actor goes on, and nothing else changes but the lock.                *)
LEMMA ActorMoves ==
  ASSUME RegistryInv, NEW a \in Actors, NEW r, actor' = [actor EXCEPT ![a] = r], IsActor(a, r, made),
         r.at # "write", \A i \in DOMAIN r.read : Known(i), r.todo \in Creating => Creates(a) /\ r.id = actor[a].id,
         UNCHANGED <<registry, exists, cache, last, made>>, regLock' \in {regLock, NoServer, a}
  PROVE  RegistryInv'
<1>1. RegistryType /\ Fresh /\ ReadIsCurrent
  BY DEF RegistryInv
<1>2. RegistryType' /\ actor'[a] = r /\ \A b \in Actors \ {a} : actor'[b] = actor[b]
  <2>1. /\ made \in Nat /\ IsList(registry, made) /\ (exists \/ DOMAIN registry = {})
        /\ cache = [h \in Homes |-> cache[h]] /\ \A h \in Homes : IsList(cache[h], made)
    BY <1>1 DEF RegistryType
  <2>2. made <= made'
    BY <2>1
  <2> QED
    BY <1>1, <2>1, <2>2, ActorSteps
<1>3. (\A i \in DOMAIN registry' : Known(i)) /\ \A h \in Homes : \A i \in DOMAIN cache'[h] : Known(i)
  BY DEF Known
<1>4. \A i : Known(i)' => Known(i) \/ i \in {}
  BY <1>2, <1>3, KnownSteps
<1>5. Fresh'
  BY <1>1, <1>2, <1>4, FreshSteps
<1>6. ReadIsCurrent'
  <2> SUFFICES ASSUME NEW b \in Actors, actor'[b].at = "write", regLock' = b, last' # "bare"
               PROVE  IsCurrent(b)'
    BY DEF ReadIsCurrent
  <2>1. b # a /\ actor'[b] = actor[b]
    BY <1>2
  <2>2. regLock = b
    BY <2>1, NamesApart
  <2> QED
    BY <1>1, <2>1, <2>2 DEF ReadIsCurrent, IsCurrent
<1> QED
  BY <1>2, <1>5, <1>6 DEF RegistryInv

(* What an operation makes of a list: a list, in which the other projects  *)
(* are, and keep a path.                                                   *)
LEMMA ChangedIsList ==
  ASSUME NEW n, NEW list, IsList(list, n), NEW id, NEW op \in OpNames \ {"link", "settings"},
         op = "create" => id \in 1..n, op \in {"path", "use", "update", "rename"} => id \in DOMAIN list
  PROVE  /\ IsList(Changed(op, id, list), n)
         /\ \A i \in DOMAIN Changed(op, id, list) : i \in DOMAIN list \/ (op = "create" /\ i = id)
         /\ \A i \in DOMAIN list :
              \/ i = id /\ op \in {"create", "remove"}
              \/ i \in DOMAIN Changed(op, id, list) /\ (list[i].path # "" => Changed(op, id, list)[i].path # "")
<1>0. /\ list = [i \in DOMAIN list |-> list[i]] /\ DOMAIN list \subseteq 1..n
      /\ \A i \in DOMAIN list : list[i] = [path |-> list[i].path, used |-> list[i].used]
  BY DEF IsList
<1> DEFINE used == Now(list)
<1>1. CASE op = "load"
  BY <1>0, <1>1 DEF Changed, IsList
<1>2. CASE op = "create"
  <2> DEFINE new == [i \in DOMAIN list \union {id} |-> IF i = id THEN [path |-> "", used |-> used] ELSE list[i]]
  <2>1. Changed(op, id, list) = new
    BY <1>2 DEF Changed, New
  <2> HIDE DEF used
  <2>2. IsList(new, n)
    BY <1>0, <1>2 DEF IsList
  <2> QED
    BY <1>2, <2>1, <2>2
<1>3. CASE op = "remove"
  <2> DEFINE new == [i \in DOMAIN list \ {id} |-> list[i]]
  <2>1. Changed(op, id, list) = new
    BY <1>3 DEF Changed, Restrict
  <2>2. IsList(new, n)
    BY <1>0 DEF IsList
  <2> QED
    BY <1>3, <2>1, <2>2
<1>4. ASSUME NEW rec, rec = [path |-> rec.path, used |-> rec.used], id \in DOMAIN list,
             list[id].path # "" => rec.path # "", Changed(op, id, list) = [list EXCEPT ![id] = rec]
      PROVE  /\ IsList(Changed(op, id, list), n)
             /\ \A i \in DOMAIN Changed(op, id, list) : i \in DOMAIN list
             /\ \A i \in DOMAIN list :
                  i \in DOMAIN Changed(op, id, list) /\ (list[i].path # "" => Changed(op, id, list)[i].path # "")
  <2> DEFINE new == [list EXCEPT ![id] = rec]
  <2>1. /\ DOMAIN new = DOMAIN list /\ new = [i \in DOMAIN list |-> new[i]] /\ new[id] = rec
        /\ \A i \in DOMAIN list \ {id} : new[i] = list[i]
    BY <1>0, <1>4
  <2> HIDE DEF new
  <2>2. IsList(new, n)
    BY <1>0, <1>4, <2>1 DEF IsList
  <2> QED
    BY <1>4, <2>1, <2>2 DEF new
<1>5. CASE op = "path"
  <2> DEFINE rec == [path |-> "repo", used |-> list[id].used]
  <2>1. Changed(op, id, list) = [list EXCEPT ![id] = rec]
    <3>1. Changed(op, id, list) = [list EXCEPT ![id].path = "repo"]
      BY <1>5 DEF Changed
    <3>2. list[id] = [path |-> list[id].path, used |-> list[id].used]
      BY <1>0, <1>5
    <3> QED
      BY <3>1, <3>2
  <2> QED
    BY <1>4, <1>5, <2>1
<1>6. CASE op \in {"use", "rename"}
  <2> DEFINE rec == [path |-> list[id].path, used |-> used]
  <2>1. Changed(op, id, list) = [list EXCEPT ![id] = rec]
    <3>1. Changed(op, id, list) = [list EXCEPT ![id].used = used]
      BY <1>6 DEF Changed
    <3>2. list[id] = [path |-> list[id].path, used |-> list[id].used]
      BY <1>0, <1>6
    <3> HIDE DEF used
    <3> QED
      BY <3>1, <3>2
  <2> HIDE DEF used
  <2> QED
    BY <1>4, <1>6, <2>1
<1>7. CASE op = "update"
  <2> DEFINE rec == [path |-> "repo", used |-> used]
  <2>1. Changed(op, id, list) = [list EXCEPT ![id] = rec]
    BY <1>7 DEF Changed
  <2> HIDE DEF used
  <2> QED
    BY <1>4, <1>7, <2>1
<1> QED
  BY <1>1, <1>2, <1>3, <1>5, <1>6, <1>7 DEF OpNames

(* The file as it is read.                                                 *)
LEMMA NormalizedIsList ==
  ASSUME NEW n, NEW list, IsList(list, n)
  PROVE  /\ IsList(NormalizeStoredPath(list), n) /\ DOMAIN NormalizeStoredPath(list) = DOMAIN list
         /\ mounted => NormalizeStoredPath(list) = list
<1> DEFINE path(i) == IF mounted THEN list[i].path ELSE ""
           new == [i \in DOMAIN list |-> [path |-> path(i), used |-> list[i].used]]
<1>1. NormalizeStoredPath(list) = new
  <2>1. \A i \in DOMAIN list :
          [list[i] EXCEPT !.path = IF mounted THEN @ ELSE ""] = [path |-> path(i), used |-> list[i].used]
    <3> SUFFICES ASSUME NEW i \in DOMAIN list
                 PROVE  [list[i] EXCEPT !.path = path(i)] = [path |-> path(i), used |-> list[i].used]
      OBVIOUS
    <3>1. list[i] = [path |-> list[i].path, used |-> list[i].used]
      BY DEF IsList
    <3> HIDE DEF path
    <3> QED
      BY <3>1
  <2> QED
    BY <2>1 DEF NormalizeStoredPath
<1>2. mounted => new = list
  BY DEF IsList
<1>3. IsList(new, n)
  BY DEF IsList
<1> QED
  BY <1>1, <1>2, <1>3

(* A command begins: the project it will create gets an ID nobody knows.   *)
LEMMA CommandBegins ==
  ASSUME RegistryInv, NEW a \in Actors, NEW todo \in Todos(a), NEW id, Proceed(a, todo, id),
         actor[a].at = "idle", made' \in {made, made + 1},
         todo \in Creating => id = made + 1 /\ made' = made + 1,
         cache' = [h \in Homes |-> cache'[h]], \A h \in Homes : cache'[h] \in {cache[h], <<>>},
         UNCHANGED <<registry, exists, regLock, last>>
  PROVE  RegistryInv'
<1> DEFINE r == Onwards(a, todo, id)
<1>1. RegistryType /\ Fresh /\ ReadIsCurrent /\ made \in Nat
  BY DEF RegistryInv, RegistryType
<1>2. actor' = [actor EXCEPT ![a] = r]
  BY DEF Proceed, Onwards
<1>3. /\ IsActor(a, r, made') /\ r.at # "write" /\ DOMAIN r.read = {}
      /\ r.todo \in Creating => r.id = made + 1 /\ made' = made + 1
  <2>1. IsActor(a, r, made') /\ r.at # "write" /\ DOMAIN r.read = {} /\ (r.todo \in Creating => todo \in Creating /\ r.id = id)
    BY OnwardsIsActor
  <2> QED
    BY <2>1
<1> HIDE DEF r
<1>4. made' \in Nat /\ made <= made'
  BY <1>1
<1>5. IsList(registry', made') /\ (exists' \/ DOMAIN registry' = {})
  BY <1>1, <1>4, LargerBound DEF RegistryType
<1>6. \A h \in Homes : IsList(cache'[h], made')
  <2>1. \A h \in Homes : IsList(cache[h], made')
    BY <1>1, <1>4, LargerBound DEF RegistryType
  <2> QED
    BY <2>1, EmptyList
<1>7. RegistryType' /\ actor'[a] = r /\ \A b \in Actors \ {a} : actor'[b] = actor[b]
  BY <1>1, <1>2, <1>3, <1>4, <1>5, <1>6, ActorSteps
<1>8. \A i : Known(i)' => Known(i)
  <2>1. \A h \in Homes : \A i \in DOMAIN cache'[h] : Known(i)
    <3>1. DOMAIN <<>> = {}
      OBVIOUS
    <3> QED
      BY <3>1 DEF Known
  <2>2. \A i \in DOMAIN registry' : Known(i)
    BY DEF Known
  <2>3. \A i : Known(i)' => Known(i) \/ i \in {}
    BY <1>3, <1>7, <2>1, <2>2, KnownSteps
  <2> QED
    BY <2>3
<1>9. \A i : Known(i) => i \in 1..made
  BY <1>1 DEF Known, RegistryType, IsList, IsActor
<1>10. Fresh'
  <2>1. \A b \in Actors : Creates(b)' =>
          IF b = a THEN actor'[b].id = made + 1 /\ made' = made + 1
          ELSE Creates(b) /\ actor'[b].id = actor[b].id
    BY <1>3, <1>7 DEF Creates
  <2>2. \A b \in Actors : Creates(b) => actor[b].id \in 1..made /\ actor[b].id # made + 1
    BY <1>1 DEF Fresh
  <2>3. ASSUME NEW b \in Actors, Creates(b)'
        PROVE  actor'[b].id \in 1..made' /\ \A i : Known(i)' => i # actor'[b].id
    <3>1. CASE b = a
      BY <1>1, <1>8, <1>9, <2>1, <2>3, <3>1
    <3>2. CASE b # a
      <4>1. Creates(b) /\ actor'[b].id = actor[b].id
        BY <2>1, <2>3, <3>2
      <4>2. actor[b].id \in 1..made /\ \A i : Known(i) => i # actor[b].id
        BY <1>1, <4>1 DEF Fresh
      <4>3. actor[b].id \in 1..made'
        BY <1>1, <4>2
      <4> QED
        BY <1>8, <4>1, <4>2, <4>3
    <3> QED
      BY <3>1, <3>2
  <2>4. ASSUME NEW b \in Actors, NEW c \in Actors, Creates(b)', Creates(c)', actor'[c].id = actor'[b].id
        PROVE  c = b
    <3>1. CASE b = a \/ c = a
      BY <2>1, <2>2, <2>4, <3>1
    <3>2. CASE b # a /\ c # a
      BY <1>1, <2>1, <2>4, <3>2 DEF Fresh
    <3> QED
      BY <3>1, <3>2
  <2> QED
    BY <2>3, <2>4 DEF Fresh
<1>11. ReadIsCurrent'
  <2> SUFFICES ASSUME NEW b \in Actors, actor'[b].at = "write", regLock' = b, last' # "bare"
               PROVE  IsCurrent(b)'
    BY DEF ReadIsCurrent
  <2>1. b # a /\ actor'[b] = actor[b]
    BY <1>3, <1>7
  <2> QED
    BY <1>1, <2>1 DEF ReadIsCurrent, IsCurrent
<1> QED
  BY <1>7, <1>10, <1>11 DEF RegistryInv

(* An actor waits for something else, or fails.                            *)
LEMMA ActorWaits ==
  ASSUME RegistryInv, NEW a \in Actors, NEW at, actor[a].at # "idle", at # "write",
         at # "lock" => Op(a) \notin {"link", "settings"},
         actor' = [actor EXCEPT ![a].at = at], UNCHANGED <<registry, exists, cache, last, made>>,
         regLock' \in {regLock, NoServer, a}
  PROVE  RegistryInv'
<1>1. IsActor(a, actor[a], made) /\ actor = [b \in Actors |-> actor[b]]
  BY DEF RegistryInv, RegistryType
<1> DEFINE r == [todo |-> actor[a].todo, at |-> at, id |-> actor[a].id, read |-> actor[a].read,
                 resolved |-> actor[a].resolved]
<1>2. actor[a] = [todo |-> actor[a].todo, at |-> actor[a].at, id |-> actor[a].id, read |-> actor[a].read,
                  resolved |-> actor[a].resolved]
  BY <1>1 DEF IsActor
<1>3. actor' = [actor EXCEPT ![a] = r]
  <2>1. [actor[a] EXCEPT !.at = at] = r
    BY <1>2
  <2>2. actor' = [actor EXCEPT ![a] = [actor[a] EXCEPT !.at = at]]
    BY <1>1
  <2> HIDE DEF r
  <2> QED
    BY <2>1, <2>2
<1>4. IsActor(a, r, made)
  BY <1>1 DEF IsActor, Op
<1>5. \A i \in DOMAIN r.read : Known(i)
  BY DEF Known
<1>6. r.todo \in Creating => Creates(a) /\ r.id = actor[a].id
  BY DEF Creates
<1>7. r.at # "write"
  OBVIOUS
<1> HIDE DEF r
<1> QED
  BY <1>3, <1>4, <1>5, <1>6, <1>7, ActorMoves

LEMMA ActorFails ==
  ASSUME RegistryInv, NEW a \in Actors, actor[a].at # "idle", Fail(a),
         UNCHANGED <<registry, exists, cache, last, made>>, regLock' \in {regLock, NoServer, a}
  PROVE  RegistryInv'
<1>1. IsActor(a, actor[a], made)
  BY DEF RegistryInv, RegistryType
<1> DEFINE r == Failed(a, actor[a].todo, actor[a].id)
<1>2. actor' = [actor EXCEPT ![a] = r]
  BY DEF Fail
<1>3. actor[a].todo \in Todos(a) /\ actor[a].todo # <<>>
  BY <1>1 DEF IsActor
<1> DEFINE todo == actor[a].todo  id == actor[a].id
<1>5. /\ IsActor(a, Failed(a, todo, id), made) /\ Failed(a, todo, id).at # "write"
      /\ DOMAIN Failed(a, todo, id).read = {}
      /\ Failed(a, todo, id).todo \in Creating => todo \in Creating /\ Failed(a, todo, id).id = id
  <2>1. todo \in Todos(a) /\ todo # <<>>
    BY <1>3
  <2> HIDE DEF todo, id
  <2> QED
    BY <2>1, FailedIsActor
<1> HIDE DEF r
<1>4. /\ IsActor(a, r, made) /\ r.at # "write" /\ DOMAIN r.read = {}
      /\ r.todo \in Creating => Creates(a) /\ r.id = actor[a].id
  BY <1>5 DEF Creates, r
<1> QED
  BY <1>2, <1>4, ActorMoves

(* The file is read.                                                       *)
LEMMA LoadKeeps ==
  ASSUME RegistryInv, NEW a \in Actors, Load(a)
  PROVE  RegistryInv'
<1> DEFINE list == IF Op(a) = "load" /\ ~exists THEN <<>> ELSE RefreshForMutation(a)
           r == [todo |-> actor[a].todo, at |-> "write", id |-> actor[a].id, read |-> list, resolved |-> mounted]
<1>0. /\ RegistryType /\ Fresh /\ ReadIsCurrent /\ IsActor(a, actor[a], made) /\ made \in Nat
      /\ actor = [b \in Actors |-> actor[b]] /\ Home(a) \in Homes /\ cache = [h \in Homes |-> cache[h]]
      /\ IsList(registry, made) /\ IsList(cache[Home(a)], made)
  BY HomesOfActors DEF RegistryInv, RegistryType
<1>1. /\ actor[a].at = "read" /\ cache' = [cache EXCEPT ![Home(a)] = list]
      /\ UNCHANGED <<registry, exists, regLock, last, made>>
  BY DEF Load
<1>2. /\ IsList(list, made)
      /\ (\A i \in DOMAIN list : i \in DOMAIN registry \/ i \in DOMAIN cache[Home(a)])
      /\ exists => DOMAIN list = DOMAIN registry /\ (mounted => list = registry)
  <2>1. DOMAIN <<>> = {}
    OBVIOUS
  <2>2. CASE exists
    BY <1>0, <2>2, NormalizedIsList DEF RefreshForMutation
  <2>3. CASE ~exists
    BY <1>0, <2>1, <2>3, EmptyList DEF RefreshForMutation
  <2> QED
    BY <2>2, <2>3
<1> HIDE DEF list
<1>3. actor' = [actor EXCEPT ![a] = r]
  <2>1. actor' = [actor EXCEPT ![a].at = "write", ![a].read = list, ![a].resolved = mounted]
    BY DEF Load, list
  <2>2. actor' = [b \in Actors |-> actor'[b]] /\ \A b \in Actors \ {a} : actor'[b] = actor[b]
    BY <1>0, <2>1
  <2>3. actor'[a] = r
    BY <1>0, <2>1 DEF IsActor
  <2> HIDE DEF r
  <2> QED
    BY <1>0, <2>2, <2>3
<1>4. IsActor(a, r, made)
  BY <1>0, <1>1, <1>2 DEF IsActor
<1>5. r.todo = actor[a].todo /\ r.at = "write" /\ r.id = actor[a].id /\ r.read = list /\ r.resolved = mounted
  OBVIOUS
<1> HIDE DEF r
<1>6. \A h \in Homes : cache'[h] = IF h = Home(a) THEN list ELSE cache[h]
  BY <1>0, <1>1
<1>7. RegistryType' /\ actor'[a] = r /\ \A b \in Actors \ {a} : actor'[b] = actor[b]
  <2>1. made <= made' /\ made' \in Nat /\ IsActor(a, r, made')
    BY <1>0, <1>1, <1>4
  <2>2. IsList(registry', made') /\ (exists' \/ DOMAIN registry' = {})
    BY <1>0, <1>1 DEF RegistryType
  <2>3. cache' = [h \in Homes |-> cache'[h]] /\ \A h \in Homes : IsList(cache'[h], made')
    BY <1>0, <1>1, <1>2, <1>6 DEF RegistryType
  <2> QED
    BY <1>0, <1>3, <2>1, <2>2, <2>3, ActorSteps
<1>8. \A i : Known(i)' => Known(i) \/ i \in {}
  <2>1. \A i \in DOMAIN list : Known(i)
    BY <1>0, <1>2 DEF Known
  <2>2. \A i \in DOMAIN registry' : Known(i)
    BY <1>1 DEF Known
  <2>3. \A h \in Homes : \A i \in DOMAIN cache'[h] : Known(i)
    BY <1>6, <2>1 DEF Known
  <2> QED
    BY <1>5, <1>7, <2>1, <2>2, <2>3, KnownSteps
<1>9. Fresh'
  BY <1>0, <1>1, <1>5, <1>7, <1>8, FreshSteps DEF Creates
<1>10. ReadIsCurrent'
  <2> SUFFICES ASSUME NEW b \in Actors, actor'[b].at = "write", regLock' = b, last' # "bare"
               PROVE  IsCurrent(b)'
    BY DEF ReadIsCurrent
  <2>1. CASE b = a
    <3>1. CASE exists
      BY <1>1, <1>2, <1>5, <1>7, <2>1, <3>1 DEF IsCurrent
    <3>2. CASE ~exists
      BY <1>0, <1>1, <3>2 DEF IsCurrent, RegistryType
    <3> QED
      BY <3>1, <3>2
  <2>2. CASE b # a
    BY <1>0, <1>1, <1>7, <2>2 DEF ReadIsCurrent, IsCurrent
  <2> QED
    BY <2>1, <2>2
<1> QED
  BY <1>7, <1>9, <1>10 DEF RegistryInv

(* What SaveRegistry writes: the list changed, if the project is in it.    *)
Knows(a) ==
  /\ Op(a) \in {"load", "create"} \/ actor[a].id \in DOMAIN actor[a].read
  /\ Op(a) = "update" => mounted
Saves(a) == Knows(a) /\ ~(Op(a) = "load" /\ ~exists)
Written(a) == Changed(Op(a), actor[a].id, actor[a].read)

LEMMA WrittenIsList ==
  ASSUME RegistryInv, NEW a \in Actors, actor[a].at = "write", Knows(a)
  PROVE  /\ IsList(Written(a), made)
         /\ \A i \in DOMAIN Written(a) : i \in DOMAIN actor[a].read \/ (Op(a) = "create" /\ i = actor[a].id)
         /\ \A i \in DOMAIN actor[a].read :
              \/ i = actor[a].id /\ Op(a) = "remove"
              \/ /\ i \in DOMAIN Written(a)
                 /\ actor[a].read[i].path # "" => Written(a)[i].path # ""
         /\ Op(a) = "create" => Creates(a) /\ Tail(actor[a].todo) \notin Creating
<1>1. RegistryType /\ Fresh /\ IsActor(a, actor[a], made)
  BY DEF RegistryInv, RegistryType
<1>2. actor[a].todo \in Todos(a) /\ actor[a].todo # <<>> /\ Op(a) \notin {"link", "settings"}
      /\ IsList(actor[a].read, made)
  BY <1>1 DEF IsActor, Op
<1>3. Op(a) \in OpNames /\ (Op(a) = "create" => Creates(a) /\ Tail(actor[a].todo) \notin Creating)
  BY <1>2, TailsAreTodos DEF Creates, Op
<1>4. Op(a) = "create" => actor[a].id \in 1..made /\ actor[a].id \notin DOMAIN actor[a].read
  BY <1>1, <1>3 DEF Fresh, Known
<1>5. Op(a) \in {"path", "use", "update", "rename"} => actor[a].id \in DOMAIN actor[a].read
  BY DEF Knows
<1> DEFINE op == Op(a)
           id == actor[a].id
           list == actor[a].read
<1>6. IsList(list, made) /\ op \in OpNames \ {"link", "settings"} /\ (op = "create" => id \in 1..made)
      /\ (op \in {"path", "use", "update", "rename"} => id \in DOMAIN list)
  BY <1>2, <1>3, <1>4, <1>5
<1> HIDE DEF op, id, list
<1>7. /\ IsList(Changed(op, id, list), made)
      /\ \A i \in DOMAIN Changed(op, id, list) : i \in DOMAIN list \/ (op = "create" /\ i = id)
      /\ \A i \in DOMAIN list :
           \/ i = id /\ op \in {"create", "remove"}
           \/ i \in DOMAIN Changed(op, id, list) /\ (list[i].path # "" => Changed(op, id, list)[i].path # "")
  BY <1>6, ChangedIsList
<1>8. op = "create" => id \notin DOMAIN list
  BY <1>4 DEF op, id, list
<1> QED
  BY <1>3, <1>7, <1>8 DEF Written, op, id, list

LEMMA SaveKeeps ==
  ASSUME RegistryInv, NEW a \in Actors, SaveRegistry(a)
  PROVE  RegistryInv'
<1>0. /\ RegistryType /\ Fresh /\ ReadIsCurrent /\ IsActor(a, actor[a], made) /\ made \in Nat
      /\ actor = [b \in Actors |-> actor[b]] /\ Home(a) \in Homes /\ cache = [h \in Homes |-> cache[h]]
  BY HomesOfActors DEF RegistryInv, RegistryType
<1>1. /\ actor[a].at = "write" /\ made' = made
      /\ IF Saves(a)
           THEN /\ registry' = Written(a) /\ exists' = TRUE
                /\ cache' = [cache EXCEPT ![Home(a)] = registry']
                /\ last' = IF regLock = a THEN "locked" ELSE "bare"
           ELSE UNCHANGED <<registry, exists, cache, last>>
      /\ IF Op(a) \in Unlocked THEN regLock' = regLock ELSE regLock' = NoServer
      /\ IF Knows(a) THEN Proceed(a, Tail(actor[a].todo), actor[a].id) ELSE Fail(a)
  BY DEF SaveRegistry, Saves, Knows, Written
<1>2. actor[a].todo \in Todos(a) /\ actor[a].todo # <<>>
  BY <1>0, <1>1 DEF IsActor
<1>3. /\ Tail(actor[a].todo) \in Todos(a)
      /\ Tail(actor[a].todo) \in Creating => Creates(a)
      /\ Op(a) = "create" => Creates(a) /\ Tail(actor[a].todo) \notin Creating
  BY <1>2, TailsAreTodos DEF Creates, Op
<1>4. CASE ~Saves(a) /\ ~Knows(a)
  <2>1. Fail(a) /\ UNCHANGED <<registry, exists, cache, last, made>> /\ regLock' \in {regLock, NoServer, a}
    BY <1>1, <1>4
  <2> QED
    BY <1>1, <2>1, ActorFails
<1>5. CASE Knows(a)
  <2> DEFINE r == Onwards(a, Tail(actor[a].todo), actor[a].id)
  <2>1. actor' = [actor EXCEPT ![a] = r]
    BY <1>1, <1>5 DEF Proceed, Onwards
  <2>2. IsActor(a, r, made) /\ r.at # "write" /\ DOMAIN r.read = {}
        /\ (r.todo \in Creating => Tail(actor[a].todo) \in Creating /\ r.id = actor[a].id)
    BY <1>3, OnwardsIsActor
  <2> HIDE DEF r
  <2>3. r.todo \in Creating => Creates(a) /\ r.id = actor[a].id /\ Op(a) # "create"
    BY <1>3, <2>2
  <2>4. CASE ~Saves(a)
    <3>1. UNCHANGED <<registry, exists, cache, last, made>> /\ regLock' \in {regLock, NoServer, a}
      BY <1>1, <2>4
    <3> QED
      BY <2>1, <2>2, <2>3, <3>1, ActorMoves
  <2>5. CASE Saves(a)
    <3>1. /\ registry' = Written(a) /\ exists' = TRUE /\ cache' = [cache EXCEPT ![Home(a)] = registry']
          /\ last' = IF regLock = a THEN "locked" ELSE "bare"
      BY <1>1, <2>5
    <3>2. /\ IsList(Written(a), made)
          /\ \A i \in DOMAIN Written(a) : i \in DOMAIN actor[a].read \/ (Op(a) = "create" /\ i = actor[a].id)
          /\ Op(a) = "create" => Creates(a) /\ Tail(actor[a].todo) \notin Creating
      BY <1>1, <1>5, WrittenIsList
    <3>3. \A h \in Homes : cache'[h] = IF h = Home(a) THEN Written(a) ELSE cache[h]
      BY <1>0, <3>1
    <3>4. RegistryType' /\ actor'[a] = r /\ \A b \in Actors \ {a} : actor'[b] = actor[b]
      <4>1. made <= made' /\ made' \in Nat /\ IsActor(a, r, made')
        BY <1>0, <1>1, <2>2
      <4>2. IsList(registry', made') /\ (exists' \/ DOMAIN registry' = {})
        BY <1>1, <3>1, <3>2
      <4>3. cache' = [h \in Homes |-> cache'[h]] /\ \A h \in Homes : IsList(cache'[h], made')
        BY <1>0, <1>1, <3>1, <3>2, <3>3 DEF RegistryType
      <4> QED
        BY <1>0, <2>1, <4>1, <4>2, <4>3, ActorSteps
    <3> DEFINE X == IF Op(a) = "create" THEN {actor[a].id} ELSE {}
    <3>5. \A i : Known(i)' => Known(i) \/ i \in X
      <4>1. \A i \in DOMAIN Written(a) : Known(i) \/ i \in X
        BY <3>2 DEF Known
      <4> HIDE DEF X
      <4>2. \A i \in DOMAIN registry' : Known(i) \/ i \in X
        BY <3>1, <4>1
      <4>3. \A h \in Homes : \A i \in DOMAIN cache'[h] : Known(i) \/ i \in X
        BY <3>3, <4>1 DEF Known
      <4> QED
        BY <2>2, <3>4, <4>2, <4>3, KnownSteps
    <3>6. Fresh'
      <4>1. \A i : Known(i)' => Known(i) \/ (i = actor[a].id /\ Creates(a) /\ r.todo \notin Creating)
        BY <2>3, <3>2, <3>5
      <4> QED
        BY <1>0, <1>1, <2>3, <3>4, <4>1, FreshSteps
    <3>7. ReadIsCurrent'
      <4> SUFFICES ASSUME NEW b \in Actors, actor'[b].at = "write", regLock' = b, last' # "bare" PROVE FALSE
        BY DEF ReadIsCurrent
      <4>1. b # a
        BY <2>2, <3>4
      <4>2. regLock = a
        BY <3>1
      <4> QED
        BY <1>1, <4>1, <4>2, NamesApart
    <3> QED
      BY <3>4, <3>6, <3>7 DEF RegistryInv
  <2> QED
    BY <2>4, <2>5
<1> QED
  BY <1>4, <1>5 DEF Saves

(* A process dies, or the server with all its requests.                    *)
LEMMA DieKeeps ==
  ASSUME RegistryInv, NEW h \in Homes, Die(h)
  PROVE  RegistryInv'
<1>1. /\ actor' = [a \in Actors |-> IF Home(a) = h THEN Idle ELSE actor[a]] /\ cache' = [cache EXCEPT ![h] = <<>>]
      /\ UNCHANGED <<registry, exists, regLock, last, made>>
  BY DEF Die
<1>2. RegistryType /\ Fresh /\ ReadIsCurrent
  BY DEF RegistryInv
<1>3. \A a \in Actors : IsActor(a, Idle, made) /\ Idle.todo = <<>> /\ Idle.at = "idle" /\ DOMAIN Idle.read = {}
  <2> TAKE a \in Actors
  <2>1. <<>> \in Todos(a)
    BY DEF Todos
  <2> QED
    BY <2>1, AskingIsActor
<1>4. /\ actor' = [a \in Actors |-> actor'[a]]
      /\ \A a \in Actors : actor'[a] = actor[a] \/ actor'[a] = Idle
  BY <1>1
<1>5. /\ cache' = [k \in Homes |-> cache'[k]]
      /\ \A k \in Homes : cache'[k] = cache[k] \/ cache'[k] = <<>>
  BY <1>1, <1>2 DEF RegistryType
<1>6. RegistryType'
  BY <1>1, <1>2, <1>3, <1>4, <1>5, EmptyList DEF RegistryType
<1>7. \A i : Known(i)' => Known(i)
  <2>1. DOMAIN <<>> = {}
    OBVIOUS
  <2>2. \A a \in Actors : \A i \in DOMAIN actor'[a].read : Known(i)
    BY <1>3, <1>4 DEF Known
  <2>3. \A k \in Homes : \A i \in DOMAIN cache'[k] : Known(i)
    BY <1>5, <2>1 DEF Known
  <2>4. \A i \in DOMAIN registry' : Known(i)
    BY <1>1 DEF Known
  <2> QED
    BY <2>2, <2>3, <2>4 DEF Known
<1>8. <<>> \notin Creating
  BY DEF Creating
<1>9. \A a \in Actors : Creates(a)' => Creates(a) /\ actor'[a] = actor[a]
  BY <1>3, <1>4, <1>8 DEF Creates
<1>10. Fresh'
  BY <1>1, <1>2, <1>7, <1>9 DEF Fresh
<1>11. ReadIsCurrent'
  <2> SUFFICES ASSUME NEW b \in Actors, actor'[b].at = "write", regLock' = b, last' # "bare"
               PROVE  IsCurrent(b)'
    BY DEF ReadIsCurrent
  <2>1. actor'[b] = actor[b]
    BY <1>3, <1>4
  <2> QED
    BY <1>1, <1>2, <2>1 DEF ReadIsCurrent, IsCurrent
<1> QED
  BY <1>6, <1>10, <1>11 DEF RegistryInv

THEOREM RegistryInvHolds == RegistrySpec => []RegistryInv
<1>1. RegistryInit => RegistryInv
  <2> SUFFICES ASSUME RegistryInit PROVE RegistryInv
    OBVIOUS
  <2>1. DOMAIN <<>> = {} /\ <<>> \notin Creating
    BY DEF Creating
  <2>2. \A a \in Actors : IsActor(a, Idle, 0) /\ Idle.todo = <<>> /\ Idle.at = "idle"
    <3> TAKE a \in Actors
    <3>1. <<>> \in Todos(a)
      BY DEF Todos
    <3> QED
      BY <3>1, AskingIsActor
  <2>3. RegistryType
    BY <2>1, <2>2, EmptyList DEF RegistryInit, RegistryType, Homes
  <2>4. \A a \in Actors : ~Creates(a) /\ actor[a].at # "write"
    BY <2>1, <2>2 DEF RegistryInit, Creates
  <2> QED
    BY <2>3, <2>4 DEF RegistryInv, Fresh, ReadIsCurrent
<1>2. RegistryInv /\ [RegistryNext]_registryVars => RegistryInv'
  <2> SUFFICES ASSUME RegistryInv, [RegistryNext]_registryVars PROVE RegistryInv'
    OBVIOUS
  <2>0. cache = [h \in Homes |-> cache[h]] /\ made \in Nat /\ Clients \subseteq Actors /\ Requests \subseteq Actors
    BY DEF RegistryInv, RegistryType, Actors
  <2>1. CASE UNCHANGED registryVars
    BY <2>1, QuietRegistry DEF registryVars
  <2>2. ASSUME NEW p \in Clients, CliCommand(p) PROVE RegistryInv'
    <3>1. PICK c \in DOMAIN Operations, id \in 0..MaxProjects :
            /\ c = "init" => id = made + 1
            /\ made' = IF c = "init" THEN made + 1 ELSE made
            /\ Proceed(p, Operations[c], id)
      BY <2>2 DEF CliCommand
    <3>2. /\ actor[p].at = "idle" /\ cache' = [cache EXCEPT ![p] = <<>>]
          /\ UNCHANGED <<registry, exists, regLock, last>>
      BY <2>2 DEF CliCommand
    <3>3. cache' = [h \in Homes |-> cache'[h]] /\ \A h \in Homes : cache'[h] \in {cache[h], <<>>}
      BY <2>0, <3>2
    <3>4. p \notin Requests
      BY NamesApart
    <3> DEFINE todo == Operations[c]
    <3>5. todo \in Todos(p) /\ (todo \in Creating => id = made + 1 /\ made' = made + 1) /\ p \in Actors
          /\ made' \in {made, made + 1} /\ Proceed(p, todo, id)
      BY <2>0, <3>1, <3>4, Started DEF Todos
    <3> HIDE DEF todo
    <3> QED
      BY <3>2, <3>3, <3>5, CommandBegins
  <2>3. ASSUME NEW p \in Requests, HttpRequest(p) PROVE RegistryInv'
    <3>1. PICK c \in DOMAIN ServerOperations, id \in 0..MaxProjects :
            /\ c = "create" => id = made + 1
            /\ made' = IF c = "create" THEN made + 1 ELSE made
            /\ Proceed(p, ServerOperations[c], id)
      BY <2>3 DEF HttpRequest
    <3>2. actor[p].at = "idle" /\ UNCHANGED <<registry, exists, regLock, last, cache>>
      BY <2>3 DEF HttpRequest
    <3>3. cache' = [h \in Homes |-> cache'[h]] /\ \A h \in Homes : cache'[h] \in {cache[h], <<>>}
      BY <2>0, <3>2
    <3> DEFINE todo == ServerOperations[c]
    <3>5. todo \in Todos(p) /\ (todo \in Creating => id = made + 1 /\ made' = made + 1) /\ p \in Actors
          /\ made' \in {made, made + 1} /\ Proceed(p, todo, id)
      BY <2>0, <3>1, Started DEF Todos
    <3> HIDE DEF todo
    <3> QED
      BY <3>2, <3>3, <3>5, CommandBegins
  <2>4. ASSUME NEW r \in Requests, RunInProject(r) PROVE RegistryInv'
    BY <2>4, QuietRegistry DEF RunInProject
  <2>5. ASSUME NEW a \in Actors, WithWriteLock(a) \/ WithWriteLockResult(a) PROVE RegistryInv'
    <3>1. /\ actor[a].at = "lock" /\ Op(a) \notin {"link", "settings"} /\ actor' = [actor EXCEPT ![a].at = "read"]
          /\ UNCHANGED <<registry, exists, cache, last, made>> /\ regLock' \in {regLock, NoServer, a}
      BY <2>5 DEF WithWriteLock, WithWriteLockResult, Asks, Unlocked
    <3> QED
      BY <3>1, ActorWaits
  <2>6. ASSUME NEW a \in Actors, FindStale(a) PROVE RegistryInv'
    <3>1. /\ actor[a].at = "lock" /\ Op(a) \notin {"link", "settings"} /\ actor' = [actor EXCEPT ![a].at = "break"]
          /\ UNCHANGED <<registry, exists, cache, last, made>> /\ regLock' \in {regLock, NoServer, a}
      BY <2>6 DEF FindStale, Asks
    <3> QED
      BY <3>1, ActorWaits
  <2>7. ASSUME NEW a \in Actors, BreakLock(a) PROVE RegistryInv'
    <3>1. /\ actor[a].at = "break" /\ actor' = [actor EXCEPT ![a].at = "lock"]
          /\ UNCHANGED <<registry, exists, cache, last, made>> /\ regLock' \in {regLock, NoServer, a}
      BY <2>7 DEF BreakLock
    <3> QED
      BY <3>1, ActorWaits
  <2>8. ASSUME NEW a \in Actors, LockTimeout(a) \/ WriteWorkspaceProjectLink(a) \/ SaveWorkspacePath(a)
        PROVE  RegistryInv'
    <3>1. /\ actor[a].at = "lock" /\ Fail(a)
          /\ UNCHANGED <<registry, exists, cache, last, made>> /\ regLock' \in {regLock, NoServer, a}
      BY <2>8 DEF LockTimeout, WriteWorkspaceProjectLink, SaveWorkspacePath, Asks
    <3> QED
      BY <3>1, ActorFails
  <2>9. ASSUME NEW a \in Actors, Load(a) \/ SaveRegistry(a) PROVE RegistryInv'
    BY <2>9, LoadKeeps, SaveKeeps
  <2>10. ASSUME NEW h \in Clients \union {"server"}, Die(h) PROVE RegistryInv'
    BY <2>10, DieKeeps DEF Homes
  <2>11. CASE LockAges \/ DirectoryMoves
    BY <2>11, QuietRegistry DEF LockAges, DirectoryMoves
  <2> QED
    BY <2>1, <2>2, <2>3, <2>4, <2>5, <2>6, <2>7, <2>8, <2>9, <2>10, <2>11 DEF RegistryNext
<1> QED
  BY <1>1, <1>2, PTL DEF RegistrySpec

(* Writers that hold the lock lose no project and no path of each other,   *)
(* whatever the number of processes and requests, their interleaving, and  *)
(* the processes that die with the lock.                                   *)
THEOREM ProjectsStay == RegistrySpec => ProjectsAreKept
<1> DEFINE Kept ==
      \A id \in DOMAIN registry :
        \/ id \in DOMAIN registry' /\ (registry[id].path # "" => registry'[id].path # "")
        \/ last = "bare" \/ last' = "bare"
        \/ \E a \in Actors :
             /\ actor[a].at = "write" /\ actor'[a].at # "write"
             /\ (Op(a) = "remove" /\ actor[a].id = id) \/ (id \in DOMAIN registry' /\ ~actor[a].resolved)
<1>1. RegistryInv /\ [RegistryNext]_registryVars => Kept
  <2> SUFFICES ASSUME RegistryInv, [RegistryNext]_registryVars, NEW id \in DOMAIN registry,
                      last # "bare", last' # "bare",
                      ~(id \in DOMAIN registry' /\ (registry[id].path # "" => registry'[id].path # ""))
               PROVE  \E a \in Actors :
                        /\ actor[a].at = "write" /\ actor'[a].at # "write"
                        /\ (Op(a) = "remove" /\ actor[a].id = id) \/ (id \in DOMAIN registry' /\ ~actor[a].resolved)
    OBVIOUS
  <2>1. PICK a \in Actors : SaveRegistry(a) /\ registry' # registry
    BY DEF RegistryNext, registryVars, CliCommand, HttpRequest, RunInProject, WithWriteLock, WithWriteLockResult,
           FindStale, BreakLock, LockTimeout, Load, WriteWorkspaceProjectLink, SaveWorkspacePath, Die, LockAges,
           DirectoryMoves
  <2>2. actor[a].at = "write" /\ Saves(a) /\ Knows(a) /\ registry' = Written(a) /\ regLock = a
        /\ Proceed(a, Tail(actor[a].todo), actor[a].id)
    BY <2>1 DEF SaveRegistry, Saves, Knows, Written
  <2>3. actor'[a].at # "write"
    <3>1. IsActor(a, actor[a], made) /\ actor = [b \in Actors |-> actor[b]]
      BY DEF RegistryInv, RegistryType
    <3>2. Tail(actor[a].todo) \in Todos(a)
      BY <2>2, <3>1, TailsAreTodos DEF IsActor
    <3> DEFINE r == Onwards(a, Tail(actor[a].todo), actor[a].id)
    <3>3. IsActor(a, r, made) /\ r.at # "write"
      BY <3>2, OnwardsIsActor
    <3>4. actor' = [actor EXCEPT ![a] = r]
      BY <2>2 DEF Proceed, Onwards
    <3> HIDE DEF r
    <3> QED
      BY <3>1, <3>3, <3>4
  <2>4. IsCurrent(a)
    BY <2>2 DEF RegistryInv, ReadIsCurrent
  <2>5. id \in DOMAIN actor[a].read /\ (actor[a].resolved /\ registry[id].path # "" => actor[a].read[id].path # "")
    BY <2>4 DEF IsCurrent
  <2>6. \/ id = actor[a].id /\ Op(a) = "remove"
        \/ id \in DOMAIN Written(a) /\ (actor[a].read[id].path # "" => Written(a)[id].path # "")
    BY <2>2, <2>5, WrittenIsList
  <2>7. CASE id = actor[a].id /\ Op(a) = "remove"
    BY <2>2, <2>3, <2>7
  <2>8. CASE id \in DOMAIN Written(a) /\ (actor[a].read[id].path # "" => Written(a)[id].path # "")
    <3>1. id \in DOMAIN registry' /\ ~actor[a].resolved
      BY <2>2, <2>5, <2>8
    <3> QED
      BY <2>2, <2>3, <3>1
  <2> QED
    BY <2>6, <2>7, <2>8
<1>2. RegistryInv /\ [RegistryNext]_registryVars => [Kept]_registryVars
  BY <1>1
<1> QED
  BY <1>2, RegistryInvHolds, PTL DEF RegistrySpec, ProjectsAreKept

-----------------------------------------------------------------------------
(* Timers and time entries.                                                *)

EntryIDs == {"none", "now", "timer", "date-ms", "date-ns"} \X Nat
TimeEntry == [id : EntryIDs, start : Int, end : Int, dur : Int]
TimerType == [start : Int, paused : Int, total : Int]
Stages == {"entries", "timers", "task", "version", "undoTask", "undoTimers", "undoEntries"}

FromTimer(e) == e.id[1] = "timer"

IsTimeCall(c) ==
  /\ c.op \in {"none", "stop", "add"} /\ c.todo \subseteq TimedTasks
  /\ c.entry \in TimeEntry /\ c.timers \in TimerType /\ c.entries \in Seq(TimeEntry)
  /\ c.op = "add" => ~FromTimer(c.entry)
  /\ c.stage # "none" => c.op # "none"

TimeTypes ==
  /\ clock \in Nat /\ timeCalls \in Nat /\ timeFaults \in Nat /\ timeCrashes \in Nat
  /\ timers \in [TimedTasks -> TimerType]
  /\ entries \in [TimedTasks -> Seq(TimeEntry)]
  /\ spent = [t \in TimedTasks |-> spent[t]] /\ recorded = [t \in TimedTasks |-> recorded[t]]
  /\ timeCall = [p \in Processes |-> timeCall[p]]
  /\ timeHolder \in Processes \cup {"none"}

(* A process that is between two writes is in the root lock.               *)
OneInside ==
  /\ \A p \in Processes : IsTimeCall(timeCall[p])
  /\ \A p \in Processes : p # timeHolder => timeCall[p].stage \in {"none", "wait"}
  /\ timeHolder # "none" =>
       timeCall[timeHolder].stage \in Stages /\ timeCall[timeHolder].task \in TimedTasks

(* The entries of timers follow each other, and the active timer them.     *)
Apart(es, timer, now) ==
  /\ \A i \in DOMAIN es : FromTimer(es[i]) => es[i].end <= now
  /\ \A i, j \in DOMAIN es :
       i < j /\ FromTimer(es[i]) /\ FromTimer(es[j]) => es[i].end <= es[j].start
  /\ timer # NoTimer => timer.start <= now
  /\ timer # NoTimer => \A i \in DOMAIN es : FromTimer(es[i]) => es[i].end <= timer.start

TimeFine(es, timer, n, r, now) == Apart(es, timer, now) /\ n = TotalTimeSpent(es) /\ r = n

(* What the holder of the lock found was in order, its entry fits, and the *)
(* files are what its writes so far have made of it.                       *)
FoundFine(c, r, now) ==
  /\ Apart(c.entries, c.timers, now) /\ c.spent = TotalTimeSpent(c.entries) /\ r = c.spent
  /\ c.op \in {"stop", "add"}
  /\ c.op = "stop" => /\ FromTimer(c.entry) /\ c.timers # NoTimer
                      /\ c.entry.start = c.timers.start /\ c.entry.end <= now
WrittenSoFar(c, es, timer, n, faults) ==
  /\ c.stage \in {"undoTask", "undoTimers", "undoEntries"} => faults >= 1
  /\ c.stage \in {"entries", "timers", "undoEntries"} => timer = c.timers
  /\ c.op = "add" => timer = c.timers
  /\ c.stage \in {"task", "version"} /\ c.op = "stop" => timer = NoTimer
  /\ c.stage \in {"entries", "timers", "task", "undoTimers", "undoEntries"} => n = c.spent
  /\ c.stage = "entries" => es = c.entries
  /\ c.stage \in {"timers", "task", "version"} =>
       es = Append(c.entries, c.entry) \/ (c.op = "add" /\ es = c.entries)
  /\ c.stage = "version" => n = TotalTimeSpent(es)
  /\ c.stage \in {"timers", "undoTimers"} => c.op = "stop"

Calm == timeCrashes = 0 /\ timeFaults <= 1
Held == timeCall[timeHolder]
HolderFine ==
  timeHolder # "none" =>
    /\ FoundFine(Held, recorded[Held.task], clock)
    /\ WrittenSoFar(Held, entries[Held.task], timers[Held.task], spent[Held.task], timeFaults)
OthersFine ==
  \A t \in TimedTasks :
    timeHolder = "none" \/ Held.task # t =>
      TimeFine(entries[t], timers[t], spent[t], recorded[t], clock)

TimeInv == TimeTypes /\ OneInside /\ (Calm => HolderFine /\ OthersFine)

-----------------------------------------------------------------------------

LEMMA ApartLater ==
  ASSUME NEW es \in Seq(TimeEntry), NEW timer \in TimerType, NEW now \in Int, NEW later \in Int,
         now <= later, Apart(es, timer, now)
  PROVE  Apart(es, timer, later)
<1>1. \A i \in DOMAIN es : es[i] \in TimeEntry
  OBVIOUS
<1>2. \A i \in DOMAIN es : es[i].end \in Int
  BY <1>1 DEF TimeEntry
<1>3. timer.start \in Int
  BY DEF TimerType
<1>4. \A n \in Int : n <= now => n <= later
  OBVIOUS
<1> QED  BY <1>2, <1>3, <1>4, Zenon DEF Apart

LEMMA ApartWithoutTimer ==
  ASSUME NEW es, NEW timer, NEW now, Apart(es, timer, now)
  PROVE  Apart(es, NoTimer, now)
  BY DEF Apart

LEMMA ApartStarted ==
  ASSUME NEW es, NEW timer, NEW now \in Int, Apart(es, timer, now)
  PROVE  Apart(es, Timer(now, None, 0), now)
  BY DEF Apart, Timer

LEMMA ApartSameStart ==
  ASSUME NEW es, NEW timer, NEW other, NEW now, Apart(es, timer, now), timer # NoTimer,
         other.start = timer.start
  PROVE  Apart(es, other, now)
  BY DEF Apart

(* The entry of the active timer, which is then removed.                   *)
LEMMA ApartStopped ==
  ASSUME NEW es \in Seq(TimeEntry), NEW timer \in TimerType, NEW now \in Int, NEW e \in TimeEntry,
         Apart(es, timer, now), timer # NoTimer, e.start = timer.start, e.end <= now
  PROVE  Apart(Append(es, e), NoTimer, now)
<1> DEFINE all == Append(es, e)
<1>1. /\ Len(es) \in Nat /\ DOMAIN es = 1..Len(es) /\ DOMAIN all = 1..(Len(es) + 1)
      /\ all[Len(es) + 1] = e /\ \A i \in DOMAIN es : all[i] = es[i]
  OBVIOUS
<1> HIDE DEF all
<1>2. \A i \in DOMAIN all : i \in DOMAIN es \/ i = Len(es) + 1
  BY <1>1
<1>3. ASSUME NEW i \in DOMAIN all, FromTimer(all[i]) PROVE all[i].end <= now
  BY <1>1, <1>2, <1>3 DEF Apart
<1>4. ASSUME NEW i \in DOMAIN all, NEW j \in DOMAIN all, i < j, FromTimer(all[i]), FromTimer(all[j])
      PROVE  all[i].end <= all[j].start
  <2>1. i \in DOMAIN es
    BY <1>1, <1>4
  <2>2. CASE j \in DOMAIN es
    BY <1>1, <1>4, <2>1, <2>2 DEF Apart
  <2>3. CASE j = Len(es) + 1
    BY <1>1, <1>4, <2>1, <2>3 DEF Apart
  <2> QED  BY <1>2, <2>2, <2>3
<1> QED  BY <1>3, <1>4 DEF Apart, all

LEMMA ApartAdded ==
  ASSUME NEW es \in Seq(TimeEntry), NEW timer, NEW now, NEW e \in TimeEntry,
         Apart(es, timer, now), ~FromTimer(e)
  PROVE  Apart(Append(es, e), timer, now)
<1> DEFINE all == Append(es, e)
<1>1. /\ Len(es) \in Nat /\ DOMAIN es = 1..Len(es) /\ DOMAIN all = 1..(Len(es) + 1)
      /\ all[Len(es) + 1] = e /\ \A i \in DOMAIN es : all[i] = es[i]
  OBVIOUS
<1> HIDE DEF all
<1>2. \A i \in DOMAIN all : FromTimer(all[i]) => i \in DOMAIN es /\ all[i] = es[i]
  BY <1>1
<1> QED  BY <1>1, <1>2 DEF Apart, all

LEMMA EntriesAreTyped ==
  /\ NoEntry \in TimeEntry /\ ~FromTimer(NoEntry) /\ NoTimer \in TimerType
  /\ \A n \in Int : Timer(n, None, 0) \in TimerType
  BY DEF NoEntry, Entry, TimeEntry, EntryIDs, FromTimer, NoTimer, Timer, TimerType, None, Added

LEMMA AddedIsTyped ==
  ASSUME NEW name \in {"now", "date-ms", "date-ns"}, NEW k \in Nat, NEW n \in Int
  PROVE  Added(<<name, k>>, 1, n) \in TimeEntry /\ ~FromTimer(Added(<<name, k>>, 1, n))
  BY DEF Added, Entry, TimeEntry, EntryIDs, FromTimer

LEMMA CompletedIsTyped ==
  ASSUME TimeTypes, NEW t \in TimedTasks
  PROVE  LET e == Completed(t, clock) IN
         /\ e \in TimeEntry /\ FromTimer(e) /\ e.start = timers[t].start /\ e.end = clock
<1> DEFINE timer == timers[t]
           paused == timer.total + (IF timer.paused = None THEN 0 ELSE clock - timer.paused)
           dur == AtLeast0(clock - timer.start - paused) \div 2
<1>1. timer \in TimerType /\ clock \in Nat
  BY DEF TimeTypes
<1>2. timer.start \in Int /\ timer.paused \in Int /\ timer.total \in Int
  BY <1>1 DEF TimerType
<1>3. paused \in Int
  BY <1>1, <1>2
<1> HIDE DEF paused
<1>4. AtLeast0(clock - timer.start - paused) \in Int
  BY <1>1, <1>2, <1>3 DEF AtLeast0
<1>5. \A n \in Int : n \div 2 \in Int
  OBVIOUS
<1>6. dur \in Int
  BY <1>4, <1>5
<1> HIDE DEF dur
<1>7. Completed(t, clock) = Entry(<<"timer", clock>>, timer.start, clock, dur)
  BY DEF Completed, dur, paused
<1>8. <<"timer", clock>> \in EntryIDs
  BY <1>1 DEF EntryIDs
<1> QED  BY <1>1, <1>2, <1>6, <1>7, <1>8 DEF Entry, TimeEntry, FromTimer

LEMMA IdleIsTyped == IsTimeCall(IdleCall) /\ IdleCall.stage = "none"
<1>1. <<>> \in Seq(TimeEntry)
  OBVIOUS
<1> QED  BY <1>1, EntriesAreTyped DEF IsTimeCall, IdleCall, TimeCall

LEMMA WaitingIsTyped ==
  ASSUME NEW op \in {"stop", "add"}, NEW todo \in SUBSET TimedTasks, NEW e \in TimeEntry,
         op = "add" => ~FromTimer(e)
  PROVE  IsTimeCall(Waiting(op, todo, e)) /\ Waiting(op, todo, e).stage = "wait"
<1>1. <<>> \in Seq(TimeEntry)
  OBVIOUS
<1> QED  BY <1>1, EntriesAreTyped DEF IsTimeCall, Waiting, TimeCall

LEMMA AtStageIsTyped ==
  ASSUME NEW c, IsTimeCall(c), NEW s, c.stage # "none"
  PROVE  LET r == AtStage(c, s) IN
         /\ IsTimeCall(r) /\ r.stage = s /\ r.op = c.op /\ r.task = c.task /\ r.entry = c.entry
         /\ r.timers = c.timers /\ r.entries = c.entries /\ r.spent = c.spent
  BY DEF IsTimeCall, AtStage, TimeCall

(* The holder goes on to its next write.                                   *)
LEMMA HolderGoesOn ==
  ASSUME TimeInv, TimeTypes', NEW p \in Processes, NEW s \in Stages, timeHolder = p,
         GoOn(p, s), timeHolder' = p,
         clock' = clock, timeCrashes' = timeCrashes, timeFaults' >= timeFaults,
         \A t \in TimedTasks \ {timeCall[p].task} :
           entries'[t] = entries[t] /\ timers'[t] = timers[t] /\ spent'[t] = spent[t],
         recorded' = recorded,
         Calm' => LET c == timeCall[p] t == c.task IN
           WrittenSoFar(AtStage(c, s), entries'[t], timers'[t], spent'[t], timeFaults')
  PROVE  TimeInv'
<1> DEFINE c == timeCall[p]
<1>1. p # "none" /\ IsTimeCall(c) /\ c.task \in TimedTasks /\ c.stage # "none"
  BY NobodyIsNoProcess DEF TimeInv, OneInside, Stages
<1>2. timeCall'[p] = AtStage(c, s) /\ \A q \in Processes \ {p} : timeCall'[q] = timeCall[q]
  BY DEF TimeInv, TimeTypes, GoOn
<1>3. OneInside'
  BY <1>1, <1>2, AtStageIsTyped DEF TimeInv, OneInside
<1>4. Calm' => Calm
  BY DEF Calm, TimeInv, TimeTypes
<1>5. Held' = AtStage(c, s) /\ Held = c
  BY <1>2 DEF Held
<1>6. ASSUME Calm' PROVE HolderFine'
  <2>1. FoundFine(c, recorded[c.task], clock)
    BY <1>1, <1>4, <1>5, <1>6 DEF TimeInv, HolderFine
  <2>2. FoundFine(AtStage(c, s), recorded[c.task], clock)
    BY <1>1, <2>1, AtStageIsTyped DEF FoundFine
  <2> QED  BY <1>1, <1>5, <1>6, <2>2, AtStageIsTyped DEF HolderFine
<1>7. ASSUME Calm' PROVE OthersFine'
  <2>1. OthersFine /\ AtStage(c, s).task = c.task
    BY <1>1, <1>4, <1>7, AtStageIsTyped DEF TimeInv
  <2> QED  BY <1>1, <1>5, <2>1 DEF OthersFine
<1> QED  BY <1>3, <1>6, <1>7 DEF TimeInv

(* The holder leaves the lock.                                             *)
LEMMA HolderLeaves ==
  ASSUME TimeInv, TimeTypes', NEW p \in Processes, timeHolder = p, CloseTransaction(p),
         clock' = clock, timeCrashes' = timeCrashes, timeFaults' >= timeFaults,
         \A t \in TimedTasks \ {timeCall[p].task} :
           entries'[t] = entries[t] /\ timers'[t] = timers[t] /\ spent'[t] = spent[t]
             /\ recorded'[t] = recorded[t],
         Calm' => LET t == timeCall[p].task IN
           TimeFine(entries'[t], timers'[t], spent'[t], recorded'[t], clock)
  PROVE  TimeInv'
<1> DEFINE c == timeCall[p]
           r == IF c.todo = {} THEN IdleCall ELSE Waiting(c.op, c.todo, NoEntry)
<1>1. p # "none" /\ IsTimeCall(c) /\ c.task \in TimedTasks /\ timeHolder' = "none"
  BY NobodyIsNoProcess DEF TimeInv, OneInside, CloseTransaction
<1>2. timeCall'[p] = r /\ \A q \in Processes \ {p} : timeCall'[q] = timeCall[q]
  BY DEF TimeInv, TimeTypes, CloseTransaction
<1>3. IsTimeCall(r) /\ r.stage \in {"none", "wait"}
  <2>1. c.stage \in Stages
    BY NobodyIsNoProcess DEF TimeInv, OneInside
  <2>2. c.todo \in SUBSET TimedTasks /\ c.op \in {"stop", "add"}
    BY <1>1, <2>1 DEF IsTimeCall, Stages
  <2> QED  BY <2>2, IdleIsTyped, WaitingIsTyped, EntriesAreTyped, Zenon
<1> HIDE DEF r
<1>4. OneInside'
  BY <1>1, <1>2, <1>3 DEF TimeInv, OneInside
<1>5. Calm' => Calm
  BY DEF Calm, TimeInv, TimeTypes
<1>6. HolderFine'
  BY <1>1 DEF HolderFine
<1>7. ASSUME Calm' PROVE OthersFine'
  <2>1. OthersFine /\ Held = c
    BY <1>5, <1>7 DEF TimeInv, Held
  <2> QED  BY <1>1, <1>7, <2>1 DEF OthersFine
<1> QED  BY <1>4, <1>6, <1>7 DEF TimeInv

(* A timer is started, paused or resumed while nobody is in the lock.      *)
LEMMA TimerMoves ==
  ASSUME TimeInv, NEW t \in TimedTasks, NEW timer \in TimerType, timeHolder = "none",
         timers' = [timers EXCEPT ![t] = timer], timeCalls' \in Nat,
         UNCHANGED <<clock, entries, spent, recorded, timeHolder, timeCall, timeFaults, timeCrashes>>,
         Apart(entries[t], timers[t], clock) => Apart(entries[t], timer, clock)
  PROVE  TimeInv'
<1>1. TimeTypes' /\ OneInside' /\ (Calm' => Calm) /\ HolderFine'
  BY DEF TimeInv, TimeTypes, OneInside, Calm, HolderFine
<1>2. timers'[t] = timer /\ \A u \in TimedTasks \ {t} : timers'[u] = timers[u]
  BY DEF TimeInv, TimeTypes
<1>3. ASSUME Calm' PROVE OthersFine'
  <2>1. OthersFine
    BY <1>1, <1>3 DEF TimeInv
  <2> QED  BY <1>2, <2>1 DEF OthersFine, TimeFine
<1> QED  BY <1>1, <1>3 DEF TimeInv

(* A call begins, or ends without having been in the lock.                 *)
LEMMA CallMoves ==
  ASSUME TimeInv, NEW p \in Processes, p # timeHolder, NEW r, IsTimeCall(r), r.stage \in {"none", "wait"},
         timeCall' = [timeCall EXCEPT ![p] = r], timeCalls' \in Nat,
         UNCHANGED <<clock, timers, entries, spent, recorded, timeHolder, timeFaults, timeCrashes>>
  PROVE  TimeInv'
<1>1. timeCall'[p] = r /\ \A q \in Processes \ {p} : timeCall'[q] = timeCall[q]
  BY DEF TimeInv, TimeTypes
<1>2. TimeTypes' /\ (Calm' => Calm)
  BY DEF TimeInv, TimeTypes, Calm
<1>3. timeHolder # "none" => timeHolder \in Processes \ {p}
  BY DEF TimeInv, TimeTypes
<1>4. OneInside'
  BY <1>1, <1>3 DEF TimeInv, OneInside
<1>5. timeHolder # "none" => Held' = Held
  BY <1>1, <1>3 DEF Held
<1>6. Calm' => HolderFine' /\ OthersFine'
  BY <1>2, <1>5 DEF TimeInv, HolderFine, OthersFine
<1> QED  BY <1>2, <1>4, <1>6 DEF TimeInv

LEMMA AskKeeps ==
  ASSUME TimeInv, NEW p \in Processes, NEW op \in {"stop", "add"}, NEW targets \in SUBSET TimedTasks,
         NEW e \in TimeEntry, op = "add" => ~FromTimer(e), Ask(p, op, targets, e)
  PROVE  TimeInv'
<1>1. timeCall[p] = IdleCall /\ timeCalls' = timeCalls + 1
  BY DEF Ask, Called
<1>2. p # timeHolder
  BY <1>1, IdleIsTyped, NobodyIsNoProcess DEF TimeInv, OneInside, Stages
<1>3. IsTimeCall(Waiting(op, targets, e)) /\ Waiting(op, targets, e).stage = "wait"
  BY WaitingIsTyped
<1>4. timeCalls' \in Nat
  BY <1>1 DEF TimeInv, TimeTypes
<1> QED  BY <1>2, <1>3, <1>4, CallMoves DEF Ask

LEMMA Opens ==
  ASSUME TimeInv, NEW p \in Processes, timeCall[p].stage = "wait", timeHolder = "none",
         NEW t \in timeCall[p].todo, NEW e \in TimeEntry, Opened(p, t, e), timeHolder' = p,
         timeCall[p].op \in {"stop", "add"},
         timeCall[p].op = "stop" => /\ FromTimer(e) /\ timers[t] # NoTimer
                                    /\ e.start = timers[t].start /\ e.end = clock,
         timeCall[p].op = "add" => ~FromTimer(e),
         UNCHANGED <<clock, timers, entries, spent, recorded, timeCalls, timeFaults, timeCrashes>>
  PROVE  TimeInv'
<1> DEFINE c == timeCall[p]
           r == TimeCall(c.op, c.todo \ {t}, t, "entries", e, timers[t], entries[t], spent[t])
<1>1. IsTimeCall(c) /\ t \in TimedTasks /\ p # "none"
  BY NobodyIsNoProcess DEF TimeInv, OneInside, IsTimeCall
<1>2. timeCall'[p] = r /\ \A q \in Processes \ {p} : timeCall'[q] = timeCall[q]
  BY DEF TimeInv, TimeTypes, Opened
<1>3. /\ IsTimeCall(r) /\ r.stage = "entries" /\ r.task = t /\ r.op = c.op /\ r.entry = e
      /\ r.timers = timers[t] /\ r.entries = entries[t] /\ r.spent = spent[t]
  BY <1>1 DEF IsTimeCall, TimeCall, TimeInv, TimeTypes
<1> HIDE DEF r
<1>4. TimeTypes'
  BY DEF TimeInv, TimeTypes, Opened
<1>5. OneInside'
  BY <1>1, <1>2, <1>3, NobodyIsNoProcess DEF TimeInv, OneInside, Stages
<1>6. Held' = r
  BY <1>2 DEF Held
<1>7. ASSUME Calm' PROVE HolderFine' /\ OthersFine'
  <2>1. OthersFine
    BY <1>7 DEF TimeInv, Calm
  <2>2. TimeFine(entries[t], timers[t], spent[t], recorded[t], clock)
    BY <1>1, <2>1 DEF OthersFine
  <2>3. FoundFine(r, recorded[t], clock)
    <3>1. clock <= clock
      BY DEF TimeInv, TimeTypes
    <3> QED  BY <1>3, <2>2, <3>1 DEF FoundFine, TimeFine
  <2>4. WrittenSoFar(r, entries[t], timers[t], spent[t], timeFaults)
    BY <1>3 DEF WrittenSoFar
  <2>5. HolderFine'
    BY <1>3, <1>6, <2>3, <2>4 DEF HolderFine
  <2>6. OthersFine'
    BY <2>1 DEF OthersFine
  <2> QED  BY <2>5, <2>6
<1> QED  BY <1>4, <1>5, <1>7 DEF TimeInv

LEMMA OpenKeeps ==
  ASSUME TimeInv, NEW p \in Processes, OpenTransaction(p)
  PROVE  TimeInv'
<1> DEFINE c == timeCall[p]
<1>1. c.stage = "wait" /\ timeHolder = "none" /\ IsTimeCall(c) /\ p # timeHolder
  BY NobodyIsNoProcess DEF OpenTransaction, TimeInv, OneInside
<1>2. timeCalls' \in Nat
  BY DEF OpenTransaction, TimeInv, TimeTypes
<1>3. PICK t \in c.todo :
        IF \/ c.op = "stop" /\ t \notin Active
           \/ c.op = "add" /\ SameID(t, c.entry) # {}
                /\ (~Repeated(t, c.entry) \/ TotalTimeSpent(entries[t]) = spent[t])
        THEN /\ timeCall' = [timeCall EXCEPT ![p] =
                  IF @.todo = {t} THEN IdleCall ELSE Waiting(@.op, @.todo \ {t}, @.entry)]
             /\ UNCHANGED timeHolder
        ELSE /\ Opened(p, t, IF c.op = "stop" THEN Completed(t, clock) ELSE c.entry)
             /\ timeHolder' = p
  BY DEF OpenTransaction
<1>4. CASE /\ timeCall' = [timeCall EXCEPT ![p] =
                  IF @.todo = {t} THEN IdleCall ELSE Waiting(@.op, @.todo \ {t}, @.entry)]
           /\ UNCHANGED timeHolder
  <2> DEFINE r == IF c.todo = {t} THEN IdleCall ELSE Waiting(c.op, c.todo \ {t}, c.entry)
  <2>1. timeCall' = [timeCall EXCEPT ![p] = r]
    BY <1>4
  <2>2. /\ c.todo \ {t} \in SUBSET TimedTasks /\ c.op \in {"stop", "add"} /\ c.entry \in TimeEntry
        /\ c.op = "add" => ~FromTimer(c.entry)
    BY <1>1 DEF IsTimeCall
  <2>3. IsTimeCall(r) /\ r.stage \in {"none", "wait"}
    BY <2>2, IdleIsTyped, WaitingIsTyped, Zenon
  <2> HIDE DEF r
  <2> QED  BY <1>1, <1>2, <1>4, <2>1, <2>3, CallMoves DEF OpenTransaction
<1>5. CASE /\ ~(c.op = "stop" /\ t \notin Active)
           /\ Opened(p, t, IF c.op = "stop" THEN Completed(t, clock) ELSE c.entry)
           /\ timeHolder' = p
  <2>1. t \in TimedTasks
    BY <1>1 DEF IsTimeCall
  <2>2. c.op = "stop" => timers[t] # NoTimer
    BY <1>5, <2>1 DEF Active
  <2>3. UNCHANGED <<clock, timers, entries, spent, recorded, timeCalls, timeFaults, timeCrashes>>
    BY DEF OpenTransaction
  <2>4. CASE c.op = "stop"
    BY <1>1, <1>5, <2>1, <2>2, <2>3, <2>4, CompletedIsTyped, Opens DEF TimeInv
  <2>5. CASE c.op = "add"
    <3>1. Opened(p, t, c.entry) /\ c.entry \in TimeEntry /\ ~FromTimer(c.entry)
      BY <1>1, <1>5, <2>5 DEF IsTimeCall
    <3> QED  BY <1>1, <1>5, <2>3, <2>5, <3>1, Opens
  <2> QED  BY <1>1, <2>4, <2>5 DEF IsTimeCall
<1> QED  BY <1>3, <1>4, <1>5

(* The writes of the holder, their failures and the undoing of them.       *)
LEMMA InsideIs ==
  ASSUME TimeInv, NEW p \in Processes, timeHolder = p
  PROVE  LET c == timeCall[p] IN
         /\ c.stage \in Stages /\ c.task \in TimedTasks /\ IsTimeCall(c) /\ c.op \in {"stop", "add"}
         /\ Calm => /\ FoundFine(c, recorded[c.task], clock)
                    /\ WrittenSoFar(c, entries[c.task], timers[c.task], spent[c.task], timeFaults)
  BY NobodyIsNoProcess DEF TimeInv, OneInside, HolderFine, Held, IsTimeCall, Stages

LEMMA SaveEntriesKeeps ==
  ASSUME TimeInv, NEW p \in Processes, SaveEntries(p)
  PROVE  TimeInv'
<1> DEFINE c == timeCall[p]
           s == IF c.op = "stop" THEN "timers" ELSE "task"
<1>1. timeHolder = p /\ c.stage = "entries" /\ s \in Stages
  BY DEF SaveEntries, In, Stages
<1>2. /\ IsTimeCall(c) /\ c.task \in TimedTasks /\ c.op \in {"stop", "add"}
      /\ c.entry \in TimeEntry /\ c.entries \in Seq(TimeEntry)
  BY <1>1, InsideIs DEF IsTimeCall
<1>3. WithEntry(p) = Append(c.entries, c.entry) \/ (c.op = "add" /\ WithEntry(p) = c.entries)
  BY DEF WithEntry
<1>4. WithEntry(p) \in Seq(TimeEntry)
  BY <1>2, <1>3
<1>5. TimeTypes'
  BY <1>4 DEF TimeInv, TimeTypes, SaveEntries, GoOn
<1>6. /\ entries'[c.task] = WithEntry(p)
      /\ \A t \in TimedTasks \ {c.task} : entries'[t] = entries[t]
  BY <1>2 DEF SaveEntries, TimeInv, TimeTypes
<1>7. /\ GoOn(p, s) /\ timeHolder' = p
      /\ UNCHANGED <<clock, timers, spent, recorded, timeCalls, timeFaults, timeCrashes>>
  BY <1>1 DEF SaveEntries
<1>8. Calm' => WrittenSoFar(AtStage(c, s), WithEntry(p), timers[c.task], spent[c.task], timeFaults)
  <2>1. SUFFICES ASSUME Calm
                 PROVE  WrittenSoFar(AtStage(c, s), WithEntry(p), timers[c.task], spent[c.task], timeFaults)
    BY <1>7 DEF Calm
  <2>2. WrittenSoFar(c, entries[c.task], timers[c.task], spent[c.task], timeFaults)
    BY <1>1, <2>1, InsideIs
  <2> QED  BY <1>1, <1>2, <1>3, <2>2, AtStageIsTyped DEF WrittenSoFar
<1>9. timeFaults' >= timeFaults
  BY <1>7 DEF TimeInv, TimeTypes
<1> HIDE DEF c, s
<1> QED  BY <1>1, <1>5, <1>6, <1>7, <1>8, <1>9, HolderGoesOn DEF c

LEMMA SaveTimersKeeps ==
  ASSUME TimeInv, NEW p \in Processes, SaveTimers(p)
  PROVE  TimeInv'
<1> DEFINE c == timeCall[p]
<1>1. timeHolder = p /\ c.stage = "timers" /\ "task" \in Stages
  BY DEF SaveTimers, In, Stages
<1>2. IsTimeCall(c) /\ c.task \in TimedTasks
  BY <1>1, InsideIs
<1>3. TimeTypes'
  BY EntriesAreTyped DEF TimeInv, TimeTypes, SaveTimers, GoOn
<1>4. timers'[c.task] = NoTimer /\ \A t \in TimedTasks \ {c.task} : timers'[t] = timers[t]
  BY <1>2 DEF SaveTimers, TimeInv, TimeTypes
<1>5. /\ GoOn(p, "task") /\ timeHolder' = p
      /\ UNCHANGED <<clock, entries, spent, recorded, timeCalls, timeFaults, timeCrashes>>
  BY <1>1 DEF SaveTimers
<1>6. Calm' => WrittenSoFar(AtStage(c, "task"), entries[c.task], NoTimer, spent[c.task], timeFaults)
  <2>1. SUFFICES ASSUME Calm
                 PROVE  WrittenSoFar(AtStage(c, "task"), entries[c.task], NoTimer, spent[c.task], timeFaults)
    BY <1>5 DEF Calm
  <2>2. WrittenSoFar(c, entries[c.task], timers[c.task], spent[c.task], timeFaults)
    BY <1>1, <2>1, InsideIs
  <2> QED  BY <1>1, <1>2, <2>2, AtStageIsTyped DEF WrittenSoFar
<1>7. timeFaults' >= timeFaults
  BY <1>5 DEF TimeInv, TimeTypes
<1> HIDE DEF c
<1> QED  BY <1>1, <1>3, <1>4, <1>5, <1>6, <1>7, HolderGoesOn DEF c

LEMMA SaveTotalKeeps ==
  ASSUME TimeInv, NEW p \in Processes, SaveTotal(p)
  PROVE  TimeInv'
<1> DEFINE c == timeCall[p]
           n == TotalTimeSpent(entries[c.task])
<1>1. timeHolder = p /\ c.stage = "task" /\ "version" \in Stages
  BY DEF SaveTotal, In, Stages
<1>2. IsTimeCall(c) /\ c.task \in TimedTasks
  BY <1>1, InsideIs
<1>3. TimeTypes'
  BY DEF TimeInv, TimeTypes, SaveTotal, GoOn
<1>4. spent'[c.task] = n /\ \A t \in TimedTasks \ {c.task} : spent'[t] = spent[t]
  BY <1>2 DEF SaveTotal, TimeInv, TimeTypes
<1>5. /\ GoOn(p, "version") /\ timeHolder' = p
      /\ UNCHANGED <<clock, timers, entries, recorded, timeCalls, timeFaults, timeCrashes>>
  BY <1>1 DEF SaveTotal
<1>6. Calm' => WrittenSoFar(AtStage(c, "version"), entries[c.task], timers[c.task], n, timeFaults)
  <2>1. SUFFICES ASSUME Calm
                 PROVE  WrittenSoFar(AtStage(c, "version"), entries[c.task], timers[c.task], n, timeFaults)
    BY <1>5 DEF Calm
  <2>2. WrittenSoFar(c, entries[c.task], timers[c.task], spent[c.task], timeFaults)
    BY <1>1, <2>1, InsideIs
  <2>3. n = TotalTimeSpent(entries[c.task])
    OBVIOUS
  <2> DEFINE r == AtStage(c, "version")
  <2>4. /\ r.stage = "version" /\ r.op = c.op /\ r.entry = c.entry
        /\ r.timers = c.timers /\ r.entries = c.entries /\ r.spent = c.spent
    BY <1>1, <1>2, AtStageIsTyped
  <2> HIDE DEF n, r
  <2>5. WrittenSoFar(r, entries[c.task], timers[c.task], n, timeFaults)
    BY <1>1, <2>2, <2>3, <2>4 DEF WrittenSoFar
  <2> QED  BY <2>5 DEF r
<1>7. timeFaults' >= timeFaults
  BY <1>5 DEF TimeInv, TimeTypes
<1> HIDE DEF c, n
<1> QED  BY <1>1, <1>3, <1>4, <1>5, <1>6, <1>7, HolderGoesOn DEF c

LEMMA SaveTimeVersionKeeps ==
  ASSUME TimeInv, NEW p \in Processes, SaveTimeVersion(p)
  PROVE  TimeInv'
<1> DEFINE c == timeCall[p]
<1>1. timeHolder = p /\ c.stage = "version"
  BY DEF SaveTimeVersion, In
<1>2. /\ IsTimeCall(c) /\ c.task \in TimedTasks /\ c.op \in {"stop", "add"}
      /\ c.entry \in TimeEntry /\ c.entries \in Seq(TimeEntry) /\ c.timers \in TimerType
  BY <1>1, InsideIs DEF IsTimeCall
<1>3. TimeTypes'
  BY DEF TimeInv, TimeTypes, SaveTimeVersion, CloseTransaction
<1>4. recorded'[c.task] = spent[c.task] /\ \A t \in TimedTasks \ {c.task} : recorded'[t] = recorded[t]
  BY <1>2 DEF SaveTimeVersion, TimeInv, TimeTypes
<1>5. /\ CloseTransaction(p)
      /\ UNCHANGED <<clock, timers, entries, spent, timeCalls, timeFaults, timeCrashes>>
  BY DEF SaveTimeVersion
<1>6. Calm' => TimeFine(entries[c.task], timers[c.task], spent[c.task], spent[c.task], clock)
  <2>1. SUFFICES ASSUME Calm
                 PROVE  TimeFine(entries[c.task], timers[c.task], spent[c.task], spent[c.task], clock)
    BY <1>5 DEF Calm
  <2>2. /\ FoundFine(c, recorded[c.task], clock)
        /\ WrittenSoFar(c, entries[c.task], timers[c.task], spent[c.task], timeFaults)
    BY <1>1, <2>1, InsideIs
  <2>3. spent[c.task] = TotalTimeSpent(entries[c.task])
    BY <1>1, <2>2 DEF WrittenSoFar
  <2>4. clock \in Int
    BY DEF TimeInv, TimeTypes
  <2>5. CASE c.op = "stop"
    <3>1. entries[c.task] = Append(c.entries, c.entry) /\ timers[c.task] = NoTimer
      BY <1>1, <2>2, <2>5 DEF WrittenSoFar
    <3>2. Apart(Append(c.entries, c.entry), NoTimer, clock)
      BY <1>2, <2>2, <2>4, <2>5, ApartStopped DEF FoundFine
    <3> QED  BY <2>3, <3>1, <3>2 DEF TimeFine
  <2>6. CASE c.op = "add"
    <3>1. timers[c.task] = c.timers /\ ~FromTimer(c.entry)
      BY <1>2, <2>2, <2>6 DEF WrittenSoFar, IsTimeCall
    <3>2. entries[c.task] = Append(c.entries, c.entry) \/ entries[c.task] = c.entries
      BY <1>1, <2>2, <2>6 DEF WrittenSoFar
    <3>3. Apart(Append(c.entries, c.entry), c.timers, clock)
      BY <1>2, <2>2, <3>1, ApartAdded DEF FoundFine
    <3> QED  BY <2>2, <2>3, <3>1, <3>2, <3>3 DEF TimeFine, FoundFine
  <2> QED  BY <1>2, <2>5, <2>6
<1>7. timeFaults' >= timeFaults
  BY <1>5 DEF TimeInv, TimeTypes
<1> HIDE DEF c
<1> QED  BY <1>1, <1>3, <1>4, <1>5, <1>6, <1>7, HolderLeaves DEF c

LEMMA UndoTotalKeeps ==
  ASSUME TimeInv, NEW p \in Processes, UndoTotal(p)
  PROVE  TimeInv'
<1> DEFINE c == timeCall[p]
           s == IF c.op = "stop" THEN "undoTimers" ELSE "undoEntries"
<1>1. timeHolder = p /\ c.stage = "undoTask" /\ s \in Stages
  BY DEF UndoTotal, In, Stages
<1>2. IsTimeCall(c) /\ c.task \in TimedTasks /\ c.op \in {"stop", "add"}
  BY <1>1, InsideIs
<1>3. TimeTypes'
  BY DEF TimeInv, TimeTypes, UndoTotal, GoOn
<1>4. spent'[c.task] = c.spent /\ \A t \in TimedTasks \ {c.task} : spent'[t] = spent[t]
  BY <1>2 DEF UndoTotal, TimeInv, TimeTypes
<1>5. /\ GoOn(p, s) /\ timeHolder' = p
      /\ UNCHANGED <<clock, timers, entries, recorded, timeCalls, timeFaults, timeCrashes>>
  BY <1>1 DEF UndoTotal
<1>6. Calm' => WrittenSoFar(AtStage(c, s), entries[c.task], timers[c.task], c.spent, timeFaults)
  <2>1. SUFFICES ASSUME Calm
                 PROVE  WrittenSoFar(AtStage(c, s), entries[c.task], timers[c.task], c.spent, timeFaults)
    BY <1>5 DEF Calm
  <2>2. WrittenSoFar(c, entries[c.task], timers[c.task], spent[c.task], timeFaults)
    BY <1>1, <2>1, InsideIs
  <2> QED  BY <1>1, <1>2, <2>2, AtStageIsTyped DEF WrittenSoFar
<1>7. timeFaults' >= timeFaults
  BY <1>5 DEF TimeInv, TimeTypes
<1> HIDE DEF c, s
<1> QED  BY <1>1, <1>3, <1>4, <1>5, <1>6, <1>7, HolderGoesOn DEF c

LEMMA UndoTimersKeeps ==
  ASSUME TimeInv, NEW p \in Processes, UndoTimers(p)
  PROVE  TimeInv'
<1> DEFINE c == timeCall[p]
<1>1. timeHolder = p /\ c.stage = "undoTimers" /\ "undoEntries" \in Stages
  BY DEF UndoTimers, In, Stages
<1>2. IsTimeCall(c) /\ c.task \in TimedTasks /\ c.timers \in TimerType
  BY <1>1, InsideIs DEF IsTimeCall
<1>3. TimeTypes'
  BY <1>2 DEF TimeInv, TimeTypes, UndoTimers, GoOn
<1>4. timers'[c.task] = c.timers /\ \A t \in TimedTasks \ {c.task} : timers'[t] = timers[t]
  BY <1>2 DEF UndoTimers, TimeInv, TimeTypes
<1>5. /\ GoOn(p, "undoEntries") /\ timeHolder' = p
      /\ UNCHANGED <<clock, entries, spent, recorded, timeCalls, timeFaults, timeCrashes>>
  BY <1>1 DEF UndoTimers
<1>6. Calm' => WrittenSoFar(AtStage(c, "undoEntries"), entries[c.task], c.timers, spent[c.task], timeFaults)
  <2>1. SUFFICES ASSUME Calm
                 PROVE  WrittenSoFar(AtStage(c, "undoEntries"), entries[c.task], c.timers, spent[c.task], timeFaults)
    BY <1>5 DEF Calm
  <2>2. WrittenSoFar(c, entries[c.task], timers[c.task], spent[c.task], timeFaults)
    BY <1>1, <2>1, InsideIs
  <2> QED  BY <1>1, <1>2, <2>2, AtStageIsTyped DEF WrittenSoFar
<1>7. timeFaults' >= timeFaults
  BY <1>5 DEF TimeInv, TimeTypes
<1> HIDE DEF c
<1> QED  BY <1>1, <1>3, <1>4, <1>5, <1>6, <1>7, HolderGoesOn DEF c

LEMMA UndoEntriesKeeps ==
  ASSUME TimeInv, NEW p \in Processes, UndoEntries(p)
  PROVE  TimeInv'
<1> DEFINE c == timeCall[p]
<1>1. timeHolder = p /\ c.stage = "undoEntries"
  BY DEF UndoEntries, In
<1>2. IsTimeCall(c) /\ c.task \in TimedTasks /\ c.entries \in Seq(TimeEntry)
  BY <1>1, InsideIs DEF IsTimeCall
<1>3. TimeTypes'
  BY <1>2 DEF TimeInv, TimeTypes, UndoEntries, EntriesBefore, CloseTransaction
<1>4. entries'[c.task] = c.entries /\ \A t \in TimedTasks \ {c.task} : entries'[t] = entries[t]
  BY <1>2 DEF UndoEntries, EntriesBefore, TimeInv, TimeTypes
<1>5. /\ CloseTransaction(p)
      /\ UNCHANGED <<clock, timers, spent, recorded, timeCalls, timeFaults, timeCrashes>>
  BY DEF UndoEntries
<1>6. Calm' => TimeFine(c.entries, timers[c.task], spent[c.task], recorded[c.task], clock)
  <2>1. SUFFICES ASSUME Calm
                 PROVE  TimeFine(c.entries, timers[c.task], spent[c.task], recorded[c.task], clock)
    BY <1>5 DEF Calm
  <2>2. /\ FoundFine(c, recorded[c.task], clock)
        /\ WrittenSoFar(c, entries[c.task], timers[c.task], spent[c.task], timeFaults)
    BY <1>1, <2>1, InsideIs
  <2> QED  BY <1>1, <2>2 DEF TimeFine, FoundFine, WrittenSoFar
<1>7. timeFaults' >= timeFaults
  BY <1>5 DEF TimeInv, TimeTypes
<1> HIDE DEF c
<1> QED  BY <1>1, <1>3, <1>4, <1>5, <1>6, <1>7, HolderLeaves DEF c

(* The first failure sends the call to the undoing; a second one is no     *)
(* longer calm.                                                            *)
LEMMA WriteFailsKeeps ==
  ASSUME TimeInv, NEW p \in Processes, WriteFails(p)
  PROVE  TimeInv'
<1> DEFINE c == timeCall[p]
<1>1. /\ timeHolder = p /\ timeFaults' = timeFaults + 1
      /\ UNCHANGED <<clock, timers, entries, spent, recorded, timeCalls, timeCrashes>>
  BY DEF WriteFails
<1>2. /\ IsTimeCall(c) /\ c.task \in TimedTasks /\ c.op \in {"stop", "add"}
      /\ Calm => /\ FoundFine(c, recorded[c.task], clock)
                 /\ WrittenSoFar(c, entries[c.task], timers[c.task], spent[c.task], timeFaults)
  BY <1>1, InsideIs
<1>3. timeFaults' \in Nat /\ timeFaults' >= timeFaults /\ timeFaults' >= 1 /\ (Calm' => Calm /\ timeFaults = 0)
  BY <1>1 DEF TimeInv, TimeTypes, Calm
<1>10. ASSUME timeCall' = [q \in Processes |-> timeCall'[q]], timeHolder' \in Processes \cup {"none"}
      PROVE  TimeTypes'
  <2>1. /\ clock' \in Nat /\ timeCalls' \in Nat /\ timeFaults' \in Nat /\ timeCrashes' \in Nat
        /\ timers' \in [TimedTasks -> TimerType] /\ entries' \in [TimedTasks -> Seq(TimeEntry)]
    BY <1>1, <1>3 DEF TimeInv, TimeTypes
  <2>2. spent' = [t \in TimedTasks |-> spent'[t]] /\ recorded' = [t \in TimedTasks |-> recorded'[t]]
    BY <1>1 DEF TimeInv, TimeTypes
  <2> QED  BY <1>10, <2>1, <2>2, Zenon DEF TimeTypes
<1>11. CloseTransaction(p) => TimeTypes'
  BY <1>10 DEF CloseTransaction, TimeInv, TimeTypes
<1>12. ASSUME NEW s, GoOn(p, s), UNCHANGED timeHolder PROVE TimeTypes'
  BY <1>10, <1>12 DEF GoOn, TimeInv, TimeTypes
<1>4. ASSUME In(p, "entries"), CloseTransaction(p) PROVE TimeInv'
  <2>1. TimeTypes'
    BY <1>1, <1>11, <1>4
  <2>2. Calm' => TimeFine(entries[c.task], timers[c.task], spent[c.task], recorded[c.task], clock)
    BY <1>2, <1>3, <1>4 DEF TimeFine, FoundFine, WrittenSoFar, In
  <2> HIDE DEF c
  <2> QED  BY <1>1, <1>3, <1>4, <2>1, <2>2, HolderLeaves DEF c
<1>5. ASSUME NEW s \in Stages, GoOn(p, s), UNCHANGED timeHolder,
             Calm' => WrittenSoFar(AtStage(c, s), entries[c.task], timers[c.task], spent[c.task], timeFaults')
      PROVE  TimeInv'
  <2>1. TimeTypes'
    BY <1>1, <1>12, <1>5
  <2> HIDE DEF c
  <2> QED  BY <1>1, <1>3, <1>5, <2>1, HolderGoesOn DEF c
<1>6. ASSUME c.stage \in {"timers", "task", "version"}, GoOn(p, "undoTask"), UNCHANGED timeHolder
      PROVE  TimeInv'
  <2>1. "undoTask" \in Stages
    BY DEF Stages
  <2>2. Calm' => WrittenSoFar(AtStage(c, "undoTask"), entries[c.task], timers[c.task], spent[c.task], timeFaults')
    BY <1>2, <1>3, <1>6, AtStageIsTyped DEF WrittenSoFar
  <2> HIDE DEF c
  <2> QED  BY <1>5, <1>6, <2>1, <2>2
<1>7. ASSUME NEW s \in Stages, GoOn(p, s), UNCHANGED timeHolder,
             c.stage \in {"undoTask", "undoTimers", "undoEntries"}
      PROVE  TimeInv'
  <2>1. ~Calm'
    BY <1>2, <1>3, <1>7 DEF WrittenSoFar
  <2> HIDE DEF c
  <2> QED  BY <1>5, <1>7, <2>1
<1>8. ASSUME In(p, "undoEntries"), CloseTransaction(p) PROVE TimeInv'
  <2>1. TimeTypes'
    BY <1>1, <1>11, <1>8
  <2>2. ~Calm'
    BY <1>2, <1>3, <1>8 DEF WrittenSoFar, In
  <2> HIDE DEF c
  <2> QED  BY <1>1, <1>3, <1>8, <2>1, <2>2, HolderLeaves DEF c
<1>9. "undoTimers" \in Stages /\ "undoEntries" \in Stages
  BY DEF Stages
<1>13. \/ In(p, "entries") /\ CloseTransaction(p)
       \/ c.stage \in {"timers", "task", "version"} /\ GoOn(p, "undoTask") /\ UNCHANGED timeHolder
       \/ /\ c.stage = "undoTask" /\ UNCHANGED timeHolder
          /\ GoOn(p, "undoTimers") \/ GoOn(p, "undoEntries")
       \/ c.stage = "undoTimers" /\ GoOn(p, "undoEntries") /\ UNCHANGED timeHolder
       \/ In(p, "undoEntries") /\ CloseTransaction(p)
  BY DEF WriteFails, In
<1> HIDE DEF c
<1> QED  BY <1>4, <1>6, <1>7, <1>8, <1>9, <1>13

LEMMA DieTimingKeeps ==
  ASSUME TimeInv, NEW p \in Processes, DieTiming(p)
  PROVE  TimeInv'
<1>1. timeCall'[p] = IdleCall /\ \A q \in Processes \ {p} : timeCall'[q] = timeCall[q]
  BY DEF DieTiming, TimeInv, TimeTypes
<1>5. /\ UNCHANGED <<clock, timers, entries, spent, recorded, timeCalls, timeFaults>>
      /\ timeCrashes' \in Nat /\ timeHolder' \in Processes \cup {"none"}
      /\ timeCall' = [q \in Processes |-> timeCall'[q]]
  <2>1. timeCrashes' = timeCrashes + 1 /\ timeCrashes \in Nat
    BY DEF DieTiming, TimeInv, TimeTypes
  <2>2. timeCall' = [timeCall EXCEPT ![p] = IdleCall] /\ timeHolder' \in {"none", timeHolder}
    BY DEF DieTiming
  <2>3. timeCall' = [q \in Processes |-> timeCall'[q]] /\ timeHolder' \in Processes \cup {"none"}
    BY <2>2 DEF TimeInv, TimeTypes
  <2> QED  BY <2>1, <2>3 DEF DieTiming
<1>2. TimeTypes'
  BY <1>5 DEF TimeInv, TimeTypes
<1>3. timeHolder' = "none" \/ (timeHolder' = timeHolder /\ timeHolder # p)
  BY DEF DieTiming
<1>4. timeHolder # "none" => timeHolder \in Processes
  BY DEF TimeInv, TimeTypes
<1>6. ASSUME NEW q \in Processes, q # timeHolder' PROVE timeCall'[q].stage \in {"none", "wait"}
  BY <1>1, <1>3, <1>6, IdleIsTyped DEF TimeInv, OneInside, DieTiming
<1>7. timeHolder' # "none" =>
        timeCall'[timeHolder'].stage \in Stages /\ timeCall'[timeHolder'].task \in TimedTasks
  BY <1>1, <1>3, <1>4 DEF TimeInv, OneInside
<1>8. \A q \in Processes : IsTimeCall(timeCall'[q])
  BY <1>1, IdleIsTyped DEF TimeInv, OneInside
<1>9. ~Calm'
  BY DEF DieTiming, TimeInv, TimeTypes, Calm
<1> QED  BY <1>2, <1>6, <1>7, <1>8, <1>9 DEF TimeInv, OneInside

LEMMA TickKeeps ==
  ASSUME TimeInv, Tick
  PROVE  TimeInv'
<1>1. /\ clock \in Int /\ clock' \in Int /\ clock <= clock' /\ clock' \in Nat
      /\ UNCHANGED <<timers, entries, spent, recorded, timeHolder, timeCall, timeCalls,
                     timeFaults, timeCrashes>>
  BY DEF Tick, TimeInv, TimeTypes
<1>2. TimeTypes' /\ OneInside' /\ (Calm' => Calm) /\ Held' = Held
  BY <1>1 DEF TimeInv, TimeTypes, OneInside, Calm, Held
<1>3. ASSUME Calm' PROVE OthersFine'
  <2>1. SUFFICES ASSUME NEW t \in TimedTasks, timeHolder = "none" \/ Held.task # t
                 PROVE  TimeFine(entries[t], timers[t], spent[t], recorded[t], clock')
    BY <1>1, <1>2 DEF OthersFine
  <2>2. TimeFine(entries[t], timers[t], spent[t], recorded[t], clock)
    BY <1>2, <1>3, <2>1 DEF TimeInv, OthersFine
  <2>3. entries[t] \in Seq(TimeEntry) /\ timers[t] \in TimerType
    BY DEF TimeInv, TimeTypes
  <2> QED  BY <1>1, <2>2, <2>3, ApartLater DEF TimeFine
<1>4. ASSUME Calm' PROVE HolderFine'
  <2>1. SUFFICES ASSUME timeHolder # "none"
                 PROVE  FoundFine(Held, recorded[Held.task], clock')
    BY <1>1, <1>2, <1>4 DEF HolderFine, TimeInv
  <2>2. FoundFine(Held, recorded[Held.task], clock)
    BY <1>2, <1>4, <2>1 DEF HolderFine, TimeInv
  <2>3. timeHolder \in Processes /\ IsTimeCall(Held)
    BY <2>1 DEF TimeInv, TimeTypes, OneInside, Held
  <2>4. Held.entries \in Seq(TimeEntry) /\ Held.timers \in TimerType /\ Held.entry \in TimeEntry
    BY <2>3 DEF IsTimeCall
  <2>5. Apart(Held.entries, Held.timers, clock')
    BY <1>1, <2>2, <2>4, ApartLater DEF FoundFine
  <2>6. \A n \in Int : n <= clock => n <= clock'
    BY <1>1
  <2>7. Held.entry.end \in Int
    BY <2>4 DEF TimeEntry
  <2> QED  BY <2>2, <2>5, <2>6, <2>7, Zenon DEF FoundFine
<1> QED  BY <1>2, <1>3, <1>4 DEF TimeInv

LEMMA NothingSpent == TotalTimeSpent(<<>>) = 0
<1>1. DOMAIN <<>> = {}
  OBVIOUS
<1>2. SUBSET {} = {{}}
  OBVIOUS
<1> QED  BY <1>1, <1>2, Zenon DEF TotalTimeSpent, FoldSeq, FoldFunction, FoldFunctionOnSet, MapThenFoldSet

(***************************************************************************)
(* TimeInv holds in every behaviour of the timers.                         *)
(***************************************************************************)
THEOREM TimeInvHolds == TimeSpec => []TimeInv
<1>1. TimeInit => TimeInv
  <2> SUFFICES ASSUME TimeInit PROVE TimeInv
    OBVIOUS
  <2>1. \A t \in TimedTasks : timers[t] = NoTimer /\ entries[t] = <<>> /\ spent[t] = 0 /\ recorded[t] = 0
    BY DEF TimeInit
  <2>2. <<>> \in Seq(TimeEntry)
    OBVIOUS
  <2>3. TimeTypes
    BY <2>2, EntriesAreTyped DEF TimeInit, TimeTypes
  <2>4. OneInside /\ HolderFine
    BY IdleIsTyped DEF TimeInit, OneInside, HolderFine
  <2>5. TotalTimeSpent(<<>>) = 0
    BY NothingSpent
  <2>6. Apart(<<>>, NoTimer, clock)
    BY DEF Apart
  <2> QED  BY <2>1, <2>3, <2>4, <2>5, <2>6 DEF TimeInv, OthersFine, TimeFine
<1>2. TimeInv /\ [TimeNext]_timeVars => TimeInv'
  <2> SUFFICES ASSUME TimeInv, [TimeNext]_timeVars PROVE TimeInv'
    OBVIOUS
  <2>1. ASSUME NEW p \in Processes, NEW t \in TimedTasks, StartTimed(p, t) PROVE TimeInv'
    <3>1. timeCalls' \in Nat /\ clock \in Int
      BY <2>1 DEF StartTimed, Called, TimeInv, TimeTypes
    <3>2. Timer(clock, None, 0) \in TimerType
      BY <3>1, EntriesAreTyped
    <3> QED  BY <2>1, <3>1, <3>2, ApartStarted, TimerMoves DEF StartTimed
  <2>2. ASSUME NEW p \in Processes, NEW t \in TimedTasks, Pause(p, t) PROVE TimeInv'
    <3> DEFINE timer == Timer(timers[t].start, clock, timers[t].total)
    <3>1. timeCalls' \in Nat /\ timers' = [timers EXCEPT ![t] = timer] /\ timers[t] # NoTimer
      BY <2>2 DEF Pause, Called, TimeInv, TimeTypes, Active
    <3>2. timer \in TimerType /\ timer.start = timers[t].start
      BY DEF TimeInv, TimeTypes, TimerType, Timer
    <3> HIDE DEF timer
    <3> QED  BY <2>2, <3>1, <3>2, ApartSameStart, TimerMoves DEF Pause
  <2>3. ASSUME NEW p \in Processes, NEW t \in TimedTasks, Unpause(p, t) PROVE TimeInv'
    <3> DEFINE timer == Timer(timers[t].start, None, timers[t].total + clock - timers[t].paused)
    <3>1. timeCalls' \in Nat /\ timers' = [timers EXCEPT ![t] = timer] /\ timers[t] # NoTimer
      BY <2>3 DEF Unpause, Called, TimeInv, TimeTypes, Active
    <3>2. timer \in TimerType /\ timer.start = timers[t].start
      BY DEF TimeInv, TimeTypes, TimerType, Timer, None
    <3> HIDE DEF timer
    <3> QED  BY <2>3, <3>1, <3>2, ApartSameStart, TimerMoves DEF Unpause
  <2>4. ASSUME NEW p \in Processes, NEW b \in BOOLEAN, CliPause(p, b) PROVE TimeInv'
    <3>1. PICK t \in TimedTasks : Pause(p, t)
      BY <2>4 DEF CliPause, OnlyActive, Active
    <3> QED  BY <2>2, <3>1
  <2>5. ASSUME NEW p \in Processes, NEW b \in BOOLEAN, CliResume(p, b) PROVE TimeInv'
    <3>1. PICK t \in TimedTasks : Unpause(p, t)
      BY <2>5 DEF CliResume, Active
    <3> QED  BY <2>3, <3>1
  <2>6. ASSUME NEW p \in Processes, NEW b \in BOOLEAN, CliStop(p, b) \/ HttpStop(p, b) PROVE TimeInv'
    <3>1. PICK targets \in SUBSET TimedTasks : Ask(p, "stop", targets, NoEntry)
      <4>1. OnlyActive \in SUBSET TimedTasks /\ Active \in SUBSET TimedTasks
        BY DEF OnlyActive, Active
      <4>2. \A t \in TimedTasks : {t} \in SUBSET TimedTasks
        OBVIOUS
      <4> QED  BY <2>6, <4>1, <4>2, Zenon DEF CliStop, HttpStop
    <3> QED  BY <3>1, EntriesAreTyped, AskKeeps
  <2>7. ASSUME NEW p \in Processes, NEW t \in TimedTasks, NEW b \in BOOLEAN,
               AddTime(p, t, CliEntry(1, b)) \/ AddTime(p, t, HttpEntry(1, b)) \/ AddTime(p, t, McpEntry(1, b))
        PROVE  TimeInv'
    <3>1. clock \in Int /\ timeCalls \in Nat
      BY DEF TimeInv, TimeTypes
    <3>2. PICK name \in {"now", "date-ms", "date-ns"}, k \in Nat, n \in Int :
            AddTime(p, t, Added(<<name, k>>, 1, n))
      BY <2>7, <3>1 DEF CliEntry, HttpEntry, McpEntry
    <3> DEFINE e == Added(<<name, k>>, 1, n)
    <3>3. e \in TimeEntry /\ ~FromTimer(e) /\ Ask(p, "add", {t}, e)
      BY <3>2, AddedIsTyped DEF AddTime
    <3> HIDE DEF e
    <3> QED  BY <3>3, AskKeeps
  <2>8. ASSUME UNCHANGED timeVars PROVE TimeInv'
    BY <2>8 DEF timeVars, TimeInv, TimeTypes, OneInside, Calm, HolderFine, OthersFine, Held
  <2>9. CASE TimeNext
    BY <2>1, <2>4, <2>5, <2>6, <2>7, <2>9, OpenKeeps, SaveEntriesKeeps, SaveTimersKeeps, SaveTotalKeeps,
       SaveTimeVersionKeeps, WriteFailsKeeps, UndoTotalKeeps, UndoTimersKeeps, UndoEntriesKeeps,
       DieTimingKeeps, TickKeeps DEF TimeNext
  <2> QED  BY <2>8, <2>9
<1> QED  BY <1>1, <1>2, PTL DEF TimeSpec

(***************************************************************************)
(* Once the lock is free, after at most one failing write and no crash, the*)
(* entries of timers and the active timer do not overlap, and the Task and *)
(* its version hold the total of the entries: for any number of processes, *)
(* Tasks and calls.                                                        *)
(***************************************************************************)
THEOREM NoTimeIsCountedTwice == TimeSpec => []TimeCountedOnce
<1>1. TimeInv => TimeCountedOnce
  <2> SUFFICES ASSUME TimeInv, Settled, NEW t \in TimedTasks
               PROVE  TimeFine(entries[t], timers[t], spent[t], recorded[t], clock)
    BY DEF TimeCountedOnce, TimeFine, Apart, FromTimer, Active
  <2>1. Calm /\ timeHolder = "none"
    BY DEF Settled, Calm
  <2> QED  BY <2>1 DEF TimeInv, OthersFine
<1> QED  BY <1>1, TimeInvHolds, PTL

=============================================================================
