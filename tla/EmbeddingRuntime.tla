--------------------------- MODULE EmbeddingRuntime ---------------------------
(***************************************************************************)
(* The embedding models a process keeps in memory and the sessions that    *)
(* share them: searches, jobs that index a Task, reindexing and status     *)
(* requests, each a worker.  An entry of the cache has a lock of its own,  *)
(* held while its model is loaded and while it embeds; the map of entries  *)
(* has another.  Beside it the index of the store: which model it says its *)
(* vectors are of, and which they are of.                                  *)
(***************************************************************************)
EXTENDS Naturals, Sequences, FiniteSets, TLC

CONSTANTS
  Workers, Models,                  \* requests and jobs; models with vectors of one length
  Sources, Tasks,                   \* what is indexed, and what of it is a Task
  MaxCalls, MaxTime, MaxChanges     \* bounds; a tick of the clock is the idle timeout

VARIABLES
  configured,   \* the model the settings name, or NoName when they turn semantic search off
  onDisk,       \* the models that are downloaded
  library,      \* what initialising the runtime's library gave, once for the process
  entryOf,      \* the map: the entry of each model, 0 when it has none
  entries,      \* all entries made so far
  mapLock,      \* who holds the lock of the map
  worker,       \* what each worker is doing
  index,        \* what it says its model is, the model of each row, the sources with a hash, and whether a
                \* job put its model's name on it while it had vectors of another
  now, changed, \* the clock; changes of the settings so far
  begun,        \* calls so far
  reported      \* the last status given

embeddingVars == <<configured, onDisk, library, entryOf, entries, mapLock, worker, index, now, changed, begun,
                   reported>>

NoCaller == "nobody"
NoName == "none"
Timeout == 1
Unseen == [says |-> NoName, models |-> {}, stamped |-> FALSE]
Free == [at |-> "idle", job |-> NoName, source |-> NoName, model |-> NoName, checked |-> <<NoName, NoName>>, entry |-> 0,
         visit |-> {}, time |-> 0, opened |-> 0, slow |-> FALSE, seen |-> Unseen, todo |-> {}, loaded |-> FALSE]
Unloaded(m) == [model |-> m, loaded |-> FALSE, lastUsed |-> 0, used |-> FALSE, active |-> 0, held |-> NoCaller]

IndexOf(m) == [says |-> m, rows |-> [s \in Sources |-> m], hashed |-> IF m = NoName THEN {} ELSE Sources,
               stamped |-> FALSE]
ModelsIn(rows) == {rows[s] : s \in Sources} \ {NoName}

EmbeddingInit ==
  /\ configured \in Models /\ onDisk \in {Models, {configured}}
  /\ library = "untried" /\ entryOf = [m \in Models |-> 0] /\ entries = <<>> /\ mapLock = NoCaller
  /\ worker = [w \in Workers |-> Free] /\ index \in {IndexOf(m) : m \in {configured, NoName}}
  /\ now = 0 /\ changed = 0 /\ begun = 0 /\ reported = "stopped"

Starts(w, fields) ==
  /\ worker[w].at = "idle" /\ begun < MaxCalls /\ begun' = begun + 1
  /\ worker' = [worker EXCEPT ![w] = fields @@ @]
  /\ UNCHANGED <<entryOf, entries, mapLock, configured, onDisk, library, index, now, changed, reported>>
Goes(w, fields) == worker' = [worker EXCEPT ![w] = fields @@ @]
Ends(w) == worker' = [worker EXCEPT ![w] = Free]
Entry(w) == entries[worker[w].entry]
(* The worker waits at a step for the lock of its entry and has it.        *)
Locks(w, at) == worker[w].at = at /\ Entry(w).held = NoCaller
Keeps(w, fields) == entries' = [entries EXCEPT ![worker[w].entry] = fields @@ @]
Cache == <<entryOf, entries, mapLock>>
Outside == <<configured, onDisk, library, index, now, changed, begun, reported>>

-------------------------------------------------------------------------------
(* A search first looks into the index file: it must be of the configured  *)
(* model and have vectors, or the answer is one by keywords.               *)
SemanticIndexMetadataReady(model) == index.says = model
SemanticIndexChunkCount == Cardinality({s \in Sources : index.rows[s] # NoName})
SemanticIndexAvailable == configured # NoName /\ SemanticIndexMetadataReady(configured) /\ SemanticIndexChunkCount > 0

Search(w) ==
  SemanticIndexAvailable /\ Starts(w, [at |-> "open", job |-> "search", checked |-> <<configured, index.says>>])

ExecuteRuntimeJob(w) ==
  \/ \E t \in Tasks : Starts(w, [at |-> "open", job |-> "index", source |-> t])
  \/ Starts(w, [at |-> "open", job |-> "reindex"])

(* The settings are read again, and then the clock, before the map is      *)
(* locked to unload what is idle.                                          *)
LoadConfig(w) ==
  /\ worker[w].at = "open"
  /\ IF configured = NoName THEN Ends(w)
     ELSE Goes(w, [at |-> "sweep", model |-> configured, time |-> now])
  /\ UNCHANGED <<Cache, Outside>>

-------------------------------------------------------------------------------
(* With the map locked a worker visits each entry, and waits for an entry  *)
(* that is loading or embedding: to unload what is idle, or to report.     *)
EntriesInMap == {entryOf[m] : m \in Models} \ {0}

StartVisit(w) ==
  /\ worker[w].at = "sweep" /\ mapLock = NoCaller /\ mapLock' = w
  /\ Goes(w, [at |-> "visit", visit |-> EntriesInMap])
  /\ UNCHANGED <<entryOf, entries, Outside>>

IdleAnyway(e, time) == e.used /\ time >= e.lastUsed + Timeout
Idle(e, time) == e.active = 0 /\ e.used /\ time >= e.lastUsed + Timeout

UnloadIdle(w) ==
  /\ worker[w].at = "visit" /\ worker[w].job # "status"
  /\ \E i \in worker[w].visit :
       /\ entries[i].held = NoCaller
       /\ Goes(w, [visit |-> worker[w].visit \ {i}])
       /\ IF entries[i].loaded /\ Idle(entries[i], worker[w].time)
          THEN /\ entries' = [entries EXCEPT ![i].loaded = FALSE]
               /\ entryOf' = [entryOf EXCEPT ![entries[i].model] = 0]
          ELSE UNCHANGED <<entryOf, entries>>
  /\ UNCHANGED <<mapLock, Outside>>

StatusOf(w) ==
  /\ worker[w].at = "visit" /\ worker[w].job = "status"
  /\ \E i \in worker[w].visit :
       /\ entries[i].held = NoCaller
       /\ Goes(w, [visit |-> worker[w].visit \ {i}, loaded |-> worker[w].loaded \/ entries[i].loaded])
  /\ UNCHANGED <<Cache, Outside>>

EndVisit(w) ==
  /\ worker[w].at = "visit" /\ worker[w].visit = {} /\ mapLock' = NoCaller
  /\ Goes(w, [at |-> IF worker[w].job = "status" THEN "report" ELSE "lookup", time |-> 0])
  /\ UNCHANGED <<entryOf, entries, Outside>>

(* A status request reads the entries before the settings.                 *)
AskStatus(w) ==
  Starts(w, [at |-> "sweep", job |-> "status"])

DetectEmbedding(loaded) ==
  CASE configured = NoName -> "disabled"
    [] configured \notin onDisk -> "not downloaded"
    [] configured \in onDisk /\ loaded -> "running"
    [] configured \in onDisk /\ ~loaded -> "stopped"

Report(w) ==
  /\ worker[w].at = "report" /\ reported' = DetectEmbedding(worker[w].loaded) /\ Ends(w)
  /\ UNCHANGED <<Cache, configured, onDisk, library, index, now, changed, begun>>

-------------------------------------------------------------------------------
(* The entry is looked up or added under the lock of the map, and only     *)
(* then its own lock is taken.                                             *)
Lookup(w) ==
  /\ worker[w].at = "lookup" /\ mapLock = NoCaller
  /\ LET m == worker[w].model IN
     IF entryOf[m] # 0
     THEN Goes(w, [at |-> "enter", entry |-> entryOf[m]]) /\ UNCHANGED <<entryOf, entries>>
     ELSE /\ entries' = Append(entries, Unloaded(m))
          /\ entryOf' = [entryOf EXCEPT ![m] = Len(entries) + 1]
          /\ Goes(w, [at |-> "enter", entry |-> Len(entries) + 1])
  /\ UNCHANGED <<mapLock, Outside>>

EntryForConfig(w) ==
  /\ Locks(w, "enter")
  /\ IF Entry(w).loaded
     THEN Keeps(w, [lastUsed |-> now, used |-> TRUE]) /\ Goes(w, [at |-> "vectors", opened |-> now])
     ELSE Keeps(w, [held |-> w]) /\ Goes(w, [at |-> "load"])
  /\ UNCHANGED <<entryOf, mapLock, Outside>>

(* The library is initialised once: a failure stays for the process.       *)
EnsureORTEnvironment == IF library = "untried" THEN library' \in {"ready", "failed"} ELSE UNCHANGED library
InitORT(model) ==
  IF model \in onDisk THEN EnsureORTEnvironment ELSE UNCHANGED library
NewEmbedder(model) == model \in onDisk /\ library' = "ready"

OpenEmbedder(w) ==
  /\ worker[w].at = "load"
  /\ InitORT(worker[w].model)
  /\ IF NewEmbedder(worker[w].model)
     THEN /\ Keeps(w, [loaded |-> TRUE, lastUsed |-> now, used |-> TRUE, held |-> NoCaller])
          /\ Goes(w, [at |-> "vectors", opened |-> now])
     ELSE Keeps(w, [held |-> NoCaller]) /\ Ends(w)
  /\ UNCHANGED <<entryOf, mapLock, configured, onDisk, index, now, changed, begun, reported>>

(* The vectors are read into memory, which takes a while and may fail; the *)
(* session counts as active from the step after.                           *)
InMemory == [says |-> index.says, models |-> ModelsIn(index.rows), stamped |-> index.stamped]

OpenVectorStore(w) ==
  /\ worker[w].at = "vectors"
  /\ \/ Goes(w, [at |-> "count", time |-> now,
                  seen |-> IF worker[w].job = "search" THEN InMemory ELSE Unseen])
     \/ Ends(w)
  /\ UNCHANGED <<Cache, Outside>>

OpenSession(w) ==
  /\ Locks(w, "count")
  /\ Keeps(w, [lastUsed |-> worker[w].time, used |-> TRUE, active |-> Entry(w).active + 1])
  /\ Goes(w, [at |-> IF worker[w].job = "reindex" THEN "clear" ELSE "embed", time |-> 0, opened |-> 0,
              slow |-> now >= worker[w].opened + Timeout])
  /\ UNCHANGED <<entryOf, mapLock, Outside>>

-------------------------------------------------------------------------------
(* A hook in a process without the cache has a model of its own.  It, and  *)
(* reindexing, drop an index that says another model; a job does not look. *)
InitSemantic(w) ==
  /\ worker[w].at = "idle" /\ begun < MaxCalls /\ configured # NoName /\ begun' = begun + 1
  /\ InitORT(configured)
  /\ IF NewEmbedder(configured)
     THEN \E t \in Tasks : Goes(w, [at |-> "clear", job |-> "hook", source |-> t, model |-> configured])
     ELSE UNCHANGED worker
  /\ UNCHANGED <<Cache, configured, onDisk, index, now, changed, reported>>

NeedsRebuild(w) == index.says # worker[w].model
ClearsFirst(w) == NeedsRebuild(w) /\ (worker[w].job = "hook" => SemanticIndexChunkCount > 0)

Reindex(w) ==
  /\ worker[w].at = "clear"
  /\ IF ClearsFirst(w) THEN index' = IndexOf(NoName) ELSE UNCHANGED index
  /\ Goes(w, IF worker[w].job = "reindex" THEN [at |-> "embed", todo |-> Sources \ index'.hashed]
             ELSE [at |-> "commit", todo |-> IF ClearsFirst(w) THEN Sources ELSE {}])
  /\ UNCHANGED <<Cache, configured, onDisk, library, now, changed, begun, reported>>

(* Embedding holds the lock of the entry. Without a model the process dies.*)
StartEmbedding(w) ==
  /\ Locks(w, "embed") /\ Entry(w).loaded
  /\ Keeps(w, [held |-> w, lastUsed |-> now]) /\ Goes(w, [at |-> "embedding"])
  /\ UNCHANGED <<entryOf, mapLock, Outside>>

Panic(w) ==
  /\ Locks(w, "embed") /\ ~Entry(w).loaded
  /\ library' = "untried" /\ entryOf' = [m \in Models |-> 0] /\ entries' = <<>> /\ mapLock' = NoCaller
  /\ worker' = [v \in Workers |-> Free]
  /\ UNCHANGED <<configured, onDisk, index, now, changed, begun, reported>>

Embedded(w) ==
  /\ worker[w].at = "embedding" /\ Keeps(w, [held |-> NoCaller])
  /\ Goes(w, [at |-> IF worker[w].job = "search" THEN "close" ELSE "commit"])
  /\ UNCHANGED <<entryOf, mapLock, Outside>>

(* A commit writes the rows a Reindex staged and nobody else has written,  *)
(* and those of the Task of the job; it names its own model as the index's.*)
Staged(w) ==
  [s \in Sources |-> IF s \in index.hashed \/ worker[w].job = "index" THEN index.rows[s]
                     ELSE IF s \in worker[w].todo THEN worker[w].model ELSE NoName]
RowsOf(w) == [s \in Sources |-> IF s = worker[w].source THEN worker[w].model ELSE Staged(w)[s]]

ApplyTaskMutations(w) ==
  /\ worker[w].at = "commit"
  /\ index' = [says |-> worker[w].model, rows |-> RowsOf(w),
               hashed |-> index.hashed \union worker[w].todo \union ({worker[w].source} \ {NoName}),
               stamped |-> index.stamped \/ ~(ModelsIn(RowsOf(w)) \subseteq {worker[w].model})]
  /\ (IF worker[w].job = "hook" THEN Ends(w) ELSE Goes(w, [at |-> "close"]))
  /\ UNCHANGED <<Cache, configured, onDisk, library, now, changed, begun, reported>>

CloseSession(w) ==
  /\ Locks(w, "close")
  /\ Keeps(w, [lastUsed |-> now, active |-> IF Entry(w).active > 0 THEN Entry(w).active - 1 ELSE 0])
  /\ Ends(w)
  /\ UNCHANGED <<entryOf, mapLock, Outside>>

-------------------------------------------------------------------------------
(* The settings are edited; time passes.                                   *)
Configure ==
  /\ changed < MaxChanges /\ changed' = changed + 1
  /\ \E m \in (Models \union {NoName}) \ {configured} : configured' = m
  /\ UNCHANGED <<Cache, onDisk, library, worker, index, now, begun, reported>>

Tick ==
  /\ now < MaxTime /\ now' = now + 1
  /\ UNCHANGED <<Cache, configured, onDisk, library, worker, index, changed, begun, reported>>

(* NoCaller waits for a lock when nothing is left to do.                     *)
Rest == (\A w \in Workers : worker[w].at = "idle") /\ UNCHANGED embeddingVars

EmbeddingNext ==
  \/ \E w \in Workers :
       \/ Search(w) \/ ExecuteRuntimeJob(w) \/ InitSemantic(w) \/ AskStatus(w) \/ LoadConfig(w)
       \/ StartVisit(w) \/ UnloadIdle(w) \/ StatusOf(w) \/ EndVisit(w) \/ Report(w)
       \/ Lookup(w) \/ EntryForConfig(w) \/ OpenEmbedder(w) \/ OpenVectorStore(w) \/ OpenSession(w)
       \/ Reindex(w) \/ StartEmbedding(w) \/ Panic(w) \/ Embedded(w) \/ ApplyTaskMutations(w)
       \/ CloseSession(w)
  \/ Configure \/ Tick \/ Rest

EmbeddingSpec == EmbeddingInit /\ [][EmbeddingNext]_embeddingVars

-------------------------------------------------------------------------------
(* An open session finds its model in memory, however many others come and *)
(* go; the exception is a session whose opening took the idle timeout,     *)
(* because it was not counted as active while it read the vectors.         *)
UsedModelIsLoaded ==
  \A w \in Workers :
    worker[w].at \in {"embed", "embedding"} =>
      Entry(w).loaded \/ worker[w].slow

(* A question is compared with vectors of its own model, unless the        *)
(* settings or the index changed after the search had looked at them, or a *)
(* job had put its model's name on an index of another.                    *)
QueriesFitIndex ==
  \A w \in Workers :
    LET seen == worker[w].seen IN
    worker[w].at = "embedding" /\ worker[w].job = "search" /\ ~(seen.models \subseteq {worker[w].model}) =>
      seen.stamped \/ <<worker[w].model, seen.says>> # worker[w].checked

(* What a session embeds with is there, and what it searches was made by   *)
(* the same model.                                                         *)
EmbeddingsFit == UsedModelIsLoaded /\ QueriesFitIndex

(* "If the model or chunk version changed, all hashes are invalidated and  *)
(* a full rebuild occurs" (index.go:45): a Reindex nobody interferes with  *)
(* leaves vectors of its model only.                                       *)
RebuildIsFull ==
  [][\A w \in Workers :
       /\ worker[w].at = "commit" /\ worker[w].job \in {"reindex", "hook"} /\ worker'[w].at # "commit"
       /\ \A v \in Workers \ {w} : worker[v].at = "idle"
       => ModelsIn(index'.rows) = {worker[w].model}]_embeddingVars
=============================================================================
