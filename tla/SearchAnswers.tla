--------------------------- MODULE SearchAnswers ---------------------------
(***************************************************************************)
(* One search or retrieval while Tasks are completed, archived and         *)
(* reopened, docs are deleted and the configuration changes: what is       *)
(* visible is decided once, the Tasks are read once, the search may run in *)
(* the daemon, and the answer is ranked, grouped, cut and expanded.        *)
(* Scores are abstracted to the order they give: any order.  Memories and  *)
(* decisions are searched for by name only; the code has none to find.     *)
(***************************************************************************)
EXTENDS Integers, FiniteSets, SequencesExt

CONSTANTS
  Tasks, Docs,
  MaxChanges      \* bound: changes of the files and of the configuration during the search

VARIABLES
  twins,          \* Tasks of two projects that have the same number
  canon,          \* the state of each Task in the files
  docs,           \* the docs that exist
  excludeDone,    \* settings.taskLifecycle.excludeDoneFromDefaultRetrieval
  changes,        \* changes so far, up to MaxChanges
  ask             \* the search under way

searchVars == <<twins, canon, docs, excludeDone, changes, ask>>

States == <<"active", "done", "archived">>
Sources == Tasks \cup Docs
Nothing == [t \in Tasks |-> "none"]

Idle == [stage |-> "idle", api |-> "", mode |-> "", types |-> "", historical |-> FALSE, expand |-> FALSE,
         limit |-> 1, visibility |-> "", snapshot |-> Nothing, known |-> Nothing, hits |-> {}, results |-> <<>>, pack |-> {}]

Request(a, modes, kinds, histories, expansions) ==
  {[Idle EXCEPT !.stage = "asked", !.api = a, !.mode = m, !.types = y, !.historical = h, !.expand = x, !.limit = n] :
     m \in modes, y \in kinds, h \in histories, x \in expansions, n \in 1..2}

AllModes == {"keyword", "hybrid", "semantic"}
OneKind == {"all", "task", "doc"}
SomeKinds == OneKind \cup {"taskAndMemory"}

(* The searches the callers make.  The command line has no semantic mode,  *)
(* and the HTTP routes never ask for history.                              *)
CliSearch == Request("search", {"keyword", "hybrid"}, OneKind, BOOLEAN, {FALSE})
CliRetrieve == Request("retrieve", {"keyword", "hybrid"}, SomeKinds, BOOLEAN, BOOLEAN)
McpSearch == Request("search", AllModes, OneKind, BOOLEAN, {FALSE})
McpRetrieve == Request("retrieve", AllModes, SomeKinds, BOOLEAN, BOOLEAN)
HttpSearch == Request("search", AllModes, OneKind, {FALSE}, {FALSE})
HttpRetrieve == Request("retrieve", AllModes, SomeKinds, {FALSE}, BOOLEAN)

(* A list of source types is searched as a whole unless it has one member. *)
TypeFilter(types) == IF types \in {"task", "doc"} THEN types ELSE "all"
AllowedSources(types) == (IF types # "doc" THEN Tasks ELSE {}) \cup (IF types \in {"all", "doc"} THEN Docs ELSE {})
Searched(types) == AllowedSources(TypeFilter(types))

SearchInit ==
  /\ canon \in [Tasks -> {"active", "done", "archived"}] /\ docs = Docs
  /\ twins = {} \/ (twins = Tasks /\ \A t \in Tasks : canon[t] = "active")
  /\ excludeDone = TRUE /\ changes = 0 /\ ask = Idle

Ask ==
  /\ ask.stage = "idle" /\ changes = 0
  /\ ask' \in CliSearch \cup CliRetrieve \cup McpSearch \cup McpRetrieve \cup HttpSearch \cup HttpRetrieve
  /\ UNCHANGED <<twins, canon, docs, excludeDone, changes>>

(* Mutant for LeftOutOnlyWhenFull: a visibility already decided is decided *)
(* again.                                                                  *)
ResolvedAgain(r) ==
  IF r.historical THEN "historical" ELSE IF r.api = "search" \/ ~excludeDone THEN "human" ELSE "active"

ResolveTaskVisibility(r) ==
  IF r.visibility # "" THEN r.visibility
  ELSE IF r.historical THEN "historical"
  ELSE IF r.api = "search" \/ ~excludeDone THEN "human" ELSE "active"

Resolve ==
  /\ ask.stage = "asked"
  /\ ask' = [ask EXCEPT !.stage = "resolved", !.visibility = ResolveTaskVisibility(ask)]
  /\ UNCHANGED <<twins, canon, docs, excludeDone, changes>>

(* The Tasks as they are, under the lifecycle lock.  Archived Tasks are    *)
(* read only for history; a search without Tasks reads none.               *)
TaskSnapshot(r) ==
  [t \in Tasks |-> IF \/ TypeFilter(r.types) = "doc"
                      \/ canon[t] = "archived" /\ r.visibility # "historical" THEN "none" ELSE canon[t]]

WithTaskSnapshot ==
  /\ ask.stage = "resolved"
  /\ ask' = [ask EXCEPT !.stage = "captured", !.snapshot = TaskSnapshot(ask), !.known = TaskSnapshot(ask)]
  /\ UNCHANGED <<twins, canon, docs, excludeDone, changes>>

(* The daemon is handed the Tasks of the snapshot and keeps them by their  *)
(* number: of two twins one is left.                                       *)
Losses(snapshot) ==
  IF twins # {} /\ \A t \in twins : snapshot[t] # "none" THEN {twins \ {t} : t \in twins} ELSE {{}}

HandToDaemon ==
  /\ ask.stage = "captured" /\ ask.api = "retrieve" /\ ask.mode # "keyword"
  /\ \E lost \in Losses(ask.snapshot) :
       ask' = [ask EXCEPT !.stage = "handed", !.known = [t \in Tasks |-> IF t \in lost THEN "none" ELSE @[t]]]
  /\ UNCHANGED <<twins, canon, docs, excludeDone, changes>>

TaskVisible(t, snapshot, visibility) ==
  /\ snapshot[t] # "none"
  /\ visibility = "active" => snapshot[t] = "active"
  /\ visibility = "human" => snapshot[t] # "archived"

VisibleTasks(snapshot, visibility) == {t \in Tasks : TaskVisible(t, snapshot, visibility)}

(* Every chunk is looked at when Tasks are asked for: those of archived or *)
(* gone Tasks must not use up the room.                                    *)
TopK(r) == IF TypeFilter(r.types) = "doc" THEN 2 * r.limit ELSE 2 * Cardinality(Sources)

(* Which sources the best k chunks belong to; a source has two chunks.     *)
InBestChunks(sources, k) ==
  IF 2 * Cardinality(sources) <= k THEN {sources}
  ELSE {s \in SUBSET sources : 2 * Cardinality(s) >= k /\ Cardinality(s) <= k}

(* A chunk names its Task by the number alone and may be read as its twin's. *)
ReadAs(chunks) ==
  IF chunks \cap twins = {} THEN {chunks}
  ELSE {(chunks \ twins) \cup s : s \in (SUBSET twins) \ {{}}}

LifecycleRank(s) == CHOOSE i \in 1..3 : States[i] = s
Cut(seq, n) == SubSeq(seq, 1, IF n < Len(seq) THEN n ELSE Len(seq))
OnlyTasks(seq) == SelectSeq(seq, LAMBDA x : x \in Tasks)

(* The Tasks of an answer trade places: active, done, archived.            *)
GroupHistorical(seq, snapshot) ==
  LET group(s) == SelectSeq(seq, LAMBDA x : x \in Tasks /\ snapshot[x] = s)
      grouped == group("active") \o group("done") \o group("archived")
  IN [i \in DOMAIN seq |-> IF seq[i] \in Docs THEN seq[i] ELSE grouped[Len(OnlyTasks(SubSeq(seq, 1, i)))]]

CanonicalResults(seq, r) ==
  Cut(IF r.historical THEN GroupHistorical(seq, r.known) ELSE seq, r.limit)

(* Where the search runs.  Without an index the semantic mode fails and    *)
(* the hybrid mode answers from the words alone.                           *)
Routes(r) ==
  CASE r.mode = "keyword" -> {"keyword"}
    [] r.mode = "hybrid" -> {"keyword", "both"}
    [] r.mode = "semantic" -> {"semantic", "failed"}

(* Words are looked for in the visible Tasks and in the docs that exist.   *)
KeywordSearch(route, scope, visible) ==
  IF route = "semantic" THEN {{}} ELSE SUBSET (scope \cap (visible \cup docs))

(* The sources of the chunks near the query, of the past ones too.         *)
NearChunks(route, scope) == IF route = "keyword" THEN {{}} ELSE SUBSET scope

(* The results the best chunks give: a Task that is gone or may not be     *)
(* seen gives none, a doc that is gone gives its path.                     *)
ScoredChunksToResults(chunks, visible) ==
  {read \cap (visible \cup Docs) : read \in UNION {ReadAs(best) : best \in InBestChunks(chunks, TopK(ask))}}

MergeResults(words, near) == words \cup near

(* Words, headings, titles, labels and age: any order.                     *)
Rerank(found) == SetToSeqs(found)

(* Engine.Search.                                                          *)
RunSearch ==
  /\ ask.stage \in {"captured", "handed"}
  /\ LET visible == VisibleTasks(ask.known, ResolveTaskVisibility(ask))
         scope == Searched(ask.types)
     IN \E route \in Routes(ask) :
          IF route = "failed" THEN ask' = [Idle EXCEPT !.stage = "failed"]
          ELSE \E words \in KeywordSearch(route, scope, visible), chunks \in NearChunks(route, scope) :
               \E near \in ScoredChunksToResults(chunks, visible) :
               \E order \in Rerank(MergeResults(words, near)) :
                 ask' = [ask EXCEPT !.stage = "searched", !.hits = (words \cup chunks) \cap Tasks,
                                    !.results = CanonicalResults(order, ask)]
  /\ UNCHANGED <<twins, canon, docs, excludeDone, changes>>

(* Candidates are ordered by kind, Tasks of the past by their state, then  *)
(* by score: those found keep their order.                                 *)
Before(x, y, r) ==
  \/ x \in Docs /\ y \in Tasks
  \/ /\ r.historical /\ {x, y} \subseteq Tasks
     /\ LifecycleRank(r.snapshot[x]) < LifecycleRank(r.snapshot[y])

CandidateOrder(seq, direct, r) ==
  \A i, j \in DOMAIN seq : i < j =>
    /\ ~ Before(seq[j], seq[i], r)
    /\ ({seq[i], seq[j]} \subseteq ToSet(direct)
          /\ \E k, l \in DOMAIN direct : k > l /\ direct[k] = seq[i] /\ direct[l] = seq[j])
         => Before(seq[i], seq[j], r)

(* The results of the source types asked for that may be seen.             *)
Candidates(results, allowed, visible) == SelectSeq(results, LAMBDA x : x \in allowed \cap (visible \cup Docs))

(* The Tasks and docs the candidates may refer to.                         *)
References(allowed, visible) == IF ask.expand THEN SUBSET (allowed \cap (visible \cup docs)) ELSE {{}}

MergeCandidates(direct, referred) ==
  {order \in SetToSeqs(ToSet(direct) \cup referred) : CandidateOrder(order, direct, ask)}

(* The sources of the context pack that have their text and not a snippet: *)
(* the docs as they now are, the Tasks as they were.                       *)
ContextPack(candidates, visible) == ToSet(candidates) \cap (visible \cup docs)

(* Retrieval: the sources asked for and those they refer to, cut again.    *)
BuildCandidates ==
  /\ ask.stage = "searched" /\ ask.api = "retrieve"
  /\ LET visible == VisibleTasks(ask.snapshot, ask.visibility)
         allowed == AllowedSources(ask.types)
         direct == Candidates(ask.results, allowed, visible)
     IN \E referred \in References(allowed, visible) : \E order \in MergeCandidates(direct, referred) :
          ask' = [ask EXCEPT !.stage = "answered", !.results = Cut(order, ask.limit),
                             !.pack = ContextPack(Cut(order, ask.limit), visible)]
  /\ UNCHANGED <<twins, canon, docs, excludeDone, changes>>

Answer ==
  /\ ask.stage = "searched" /\ ask.api = "search"
  /\ ask' = [ask EXCEPT !.stage = "answered"]
  /\ UNCHANGED <<twins, canon, docs, excludeDone, changes>>

(* What others do meanwhile.                                               *)
TaskChanges ==
  /\ changes < MaxChanges /\ ask.stage \notin {"idle", "answered", "failed"}
  /\ \E t \in Tasks, s \in {"active", "done", "archived"} :
       <<canon[t], s>> \in {<<"active", "done">>, <<"done", "active">>, <<"done", "archived">>, <<"archived", "done">>}
       /\ canon' = [canon EXCEPT ![t] = s]
  /\ changes' = changes + 1
  /\ UNCHANGED <<twins, docs, excludeDone, ask>>

OthersChange ==
  /\ changes < MaxChanges /\ ask.stage \notin {"idle", "answered", "failed"}
  /\ \/ \E d \in docs : docs' = docs \ {d} /\ UNCHANGED excludeDone
     \/ excludeDone' = ~excludeDone /\ UNCHANGED docs
  /\ changes' = changes + 1
  /\ UNCHANGED <<twins, canon, ask>>

SearchNext ==
  \/ Ask \/ Resolve \/ WithTaskSnapshot \/ HandToDaemon \/ RunSearch \/ BuildCandidates \/ Answer
  \/ TaskChanges \/ OthersChange

Spec == SearchInit /\ [][SearchNext]_searchVars

-----------------------------------------------------------------------------
Shown == ToSet(ask.results)
SnapshotHits == ask.hits \cap VisibleTasks(ask.snapshot, ask.visibility)

(* A Task that was found and may be seen is missing from the answer only   *)
(* when the answer is full, whatever chunks the index still holds and      *)
(* whatever changes while the search runs.  Two cases are left out: a list *)
(* of source types, whose docs are dropped after the cut (engine.go:183),  *)
(* and twins, of which the daemon knows one (runtime_search.go:446).       *)
LeftOutOnlyWhenFull ==
  ask.stage = "answered" /\ Len(ask.results) < ask.limit /\ ask.types # "taskAndMemory"
    => SnapshotHits \ twins \subseteq Shown

=============================================================================
