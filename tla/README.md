# know-me: specifications, model checking and proofs

know-me keeps the Tasks, docs, memos, links and agent runs of a software
project as files, and serves them through a command line, an MCP server for
coding agents and a browser server. Several of these processes run at once over
the same files. They share no memory and no database server; what holds them
together is a handful of protocols over files: one lifecycle lock, pending
records with claims, tombstones, a job queue with a daemon, an SQLite search
index, run locks for agents. Other files have no protocol at all: they are read,
changed and written back whole.

This directory holds TLA+ models of those protocols and of the files without
one, the TLC configurations that check them on small instances, and TLAPS proofs
for every size. Paths below are relative to `src/internal/` unless they say
otherwise.

- [Inventory of the system](#inventory-of-the-system)
- [Modules](#modules)
- [The models and the code](#the-models-and-the-code)
- [Runs](#runs)
- [Bounds](#bounds)
- [Fairness](#fairness)
- [Proofs](#proofs)
- [What the proofs found](#what-the-proofs-found)
- [Where the code and what it says disagree](#where-the-code-and-what-it-says-disagree)
- [What is not modelled](#what-is-not-modelled)
- [Plan](#plan)

## Inventory of the system

| Component | State | Operations | What makes it correct |
|---|---|---|---|
| Task lifecycle service (`tasklifecycle/`) | pending records, events | Archive, Reopen, HardDelete, batches, AutoArchive, UpdateTask, timer commands | all-or-nothing over crashes and failures; events only of mutations that count, at least once; only eligible Tasks are archived |
| Lifecycle storage (`storage/task_lifecycle_*.go`) | `.search/locks/tasks.lock`, `task-lifecycle/pending/`, tombstones | WithTaskLifecycleTransaction, save/list/delete records, claims | mutual exclusion; an effect is claimed by one process at a time (who completes it is not checked, `service.go:1051-1057`) |
| Task store (`storage/task_store.go`) | Task files in `tasks/` and `archive/`, with or without the project in their name | Create, Update, Archive, Unarchive, Move, Delete, List | what was written last stays; a delete removes every file of the ID |
| Task edits and requests (`cli/task.go`, `mcp/handlers/task.go`, `server/routes/tasks.go`) | none of their own | edit criteria by position, archive, reopen, delete, batches | an edit touches what it names; a reply says what was done |
| Timers (`tasklifecycle/time.go`, `storage/time_store.go`) | active timers, entries, totals | Start, Stop, Pause, Resume, Add, report | no time lost or counted twice |
| Version and doc history (`storage/version_store.go`, `doc_store.go`) | versions per Task and doc, path index | Save, rename, restore, purge | one version per accepted change; a revision replays to what it was |
| Runtime queue (`runtimequeue/`) | queue file, PID file, start lock, stop flag, leases | enqueue, EnsureDaemon, RunDaemon, CompleteJob, RequestShutdown | every request is carried out; one daemon |
| Search index (`search/index.go`, `sqlite_vecstore.go`) | chunks, content hashes, metadata row | IndexTask, IndexDoc, Remove*, Reindex | the index follows its sources |
| Embedding runtime (`search/semantic_runtime.go`) | models in memory, the model an index is stamped with | OpenSession, UnloadIdle, Status | a session's model is loaded; vectors of one model meet |
| Search engine (`search/engine.go`, `runtime_search.go`) | none | Search, Retrieve | nothing found and visible is left out while there is room |
| Agent workflow (`agents/omp/workflow.go`, `storage/agent_store.go`) | workflow per Task, runs, run locks, worktrees | StartPlan, Approve, Implement, Review, Cancel, reconcile | one run per workspace; a live run is on record; every call returns |
| Chats (`storage/chat_store.go`, `server/routes/chat.go`) | chat sessions | create, send, stop, rename, delete | accepted messages stay |
| OMP adapter (`agents/omp/acp.go`) | a child process and its pipes | prompt, cancel, close | an answer is complete; a cancel ends |
| Tool calls (`mcp/server.go`, `permissions/`, `storage/audit_store.go`) | preset, audit log | guard, handlers, audit | the preset is kept; changes are on record |
| Links and images (`links/`, `storage/link_store.go`) | a file per link and image | add, update, delete, list, search | a link finds its image |
| References and validation (`references/`, `validate/`) | none | rename rewrites, validate | no reference to a renamed doc is missed; a missing one is reported |
| Registry, settings (`registry/`, `storage/config_store.go`) | `registry.json`, `config.json`, `preferences.json` | register, rename, set, save | a change leaves the others alone |
| Installation and agent files (`cli/update.go`, `runtimeinstall/`, `codegen/`) | the binary, files of other programs | update, setup, hooks, sync | the binary is whole; entries of others stay |
| Browser server and events (`cli/browser.go`, `server/server.go`, `server/sse.go`, `mcp/handlers/notify.go`) | the port file, a channel per event stream, the status of services | bind, serve, shut down, restart, subscribe, broadcast, notify | the port file names a server that serves; a notice reaches every tab it is for |
| Evaluation, runtime memory, OpenCode adapter, utilities, browser interface | none, or their own files | text, numbers, plumbing | not modelled, see below |

How they interact. Command line, MCP server and browser server each open a
`Store` and construct a lifecycle service. A mutation takes the root lock, writes
the record, the Task file, the version and the record again, releases the lock,
and then *flushes*: for every record it finds ready it claims an effect under the
lock, performs it outside the lock (the event sink, the index hook), and
completes the claim under the lock. The index hook opens a session of the SQLite
index. Writes of docs and creates of Tasks queue a job instead; the queue starts
the daemon when there is none, and a process that cannot reach the daemon
indexes by itself. The browser server also calls the automatic sweep every hour
and runs coding agents, whose runs change Tasks and chats through the same
stores.

What is hard here: every protocol step can be the last one of its process
(crash); every write and every wait can fail and is then rolled back; the slow
parts (hooks, embedding, jobs, prompts) run outside every lock on what was read
before; leases, lock ages and waits are measured in seconds that a suspended
process does not notice; copies of whole files are changed and saved over each
other; and each process learns of the others through files only. `PROJECT.json`
lists these hazards one by one, at their lines, with the properties that cover
them.

## Modules

| Module | What it is |
|---|---|
| `LifecyclePolicy` | the pure part of `tasklifecycle`: status transitions and their clocks, eligibility, descendants |
| `TaskLifecycle` | the lifecycle service with its storage, by several processes (EXTENDS `LifecyclePolicy`) |
| `EventOutbox` | the abstract specification of the events of the service: prepared, committed, announced, closed, or withdrawn |
| `LifecycleProperties` | what `TaskLifecycle` should guarantee; the refinement mapping to `EventOutbox` |
| `LifecycleInvariant` | its inductive invariant `Inv` |
| `LifecycleProofs`, `DeletionProofs` | the theorems about `TaskLifecycle` |
| `RuntimeQueue`, `RuntimeQueueProofs` | the job queue, its clients and its daemons; the theorems about them |
| `SearchIndex`, `SearchIndexProofs` | the sessions that write the search index; the theorems about them |
| `EmbeddingRuntime` | the models a process keeps in memory, and which model an index is of |
| `SearchAnswers` | one search or retrieval while its sources change |
| `AgentPhases` | the gates of the agent workflow: phases, what each call requires, reconciliation |
| `AgentWorkflow` | servers, calls, runs and their locks over one agent file |
| `AdapterProcess` | the agent's child process, its pipes and its end |
| `AgentProofs` | the theorems about `AgentWorkflow` and `AdapterProcess` |
| `ChatSessions` | the chats of a Task |
| `TimeTracking`, `DocHistory` | timers and entries; docs and their revisions |
| `TaskFiles`, `TaskEdits`, `TaskRequests` | where the files of a Task are; edits by position; requests, batches and replies |
| `SavedLinks` | links and their images |
| `ToolCalls`, `ToolCallProofs` | the guard and the audit log of tool calls; the theorems about them |
| `References` | references, their rewriting by a rename, validation |
| `ProjectRegistry`, `Settings`, `AgentConfigs`, `Installation` | files that are read, changed and written whole; the replacement of the binary |
| `BrowserServer` | browser servers, their port file, event streams and notices |
| `ServiceProofs` | the theorems about `TaskRequests`, `Installation`, `SavedLinks` and `BrowserServer` |
| `StoreProofs` | the theorems about `Settings`, `ProjectRegistry` and `TimeTracking` |
| `MC*` | constants, initial states, symmetry, and the suites below |

In the models a definition that stands directly before another one and has its
parameters (`AnybodyMayEnter` before `LockFree`) is a mutation: a plausible
mistake in the code. No action uses it. `PROJECT.json` names, for every checked
property, a mutation that breaks it, so that a property which could not notice
anything would be seen.

Suites. Components that do not share state are checked in one run, side by side:
`part` says at the start whose behaviour it is, and the variables of the others
stand still. `MCServices`, `MCStores`, `MCAgentWorkflow`, `MCInterruptions`,
`MCSweep` and `MCSearchIndex` are such suites. A suite EXTENDS the components
whose properties are also proved, so that the run and the theorem speak of the
same definition, and instantiates the others.

## The models and the code

### TaskLifecycle

State. `task` is the content of the Task files with the directory they are in;
`tombstone`, `history` (the version files, each version with the event ID it
carries), `timers`, `pending` (the JSON records, by event ID), `index` (the Task
the search index was built from) and `delivered` (what the event sink has
accepted) are the other things outside the processes. `holder` is who is inside
the root lock between two of its writes. `pc` and `job` are a process: where it
stands, and the call with its local variables.

Actions. A transaction that makes one write is one step. A transaction of
several writes is one step per write, because a crash or a failure between any
two of them is what the protocol is about; `holder` keeps the others out.

| Code | Actions |
|---|---|
| `Archive`, `archiveInTransaction` | `Call`, `ArchiveResume`, `ArchiveBegin`, `ArchiveUnchanged`, `Refuse` |
| `Reopen` | `Call`, `ReopenResume`, `ReopenBegin`, `ReopenUnchanged` |
| `resumeLifecycleMutation` | `MoveFile`, `PatchFile`, `SaveTaskVersion`, `SavePhase` (a checkpoint of the record after each), `SaveCanonical` |
| `rollbackLifecycleMutation` | `UndoVersion`, `UndoPatch`, `UndoMove`, `UndoRecord` |
| `HardDelete` | `DeleteBegin`, `DeleteRefused`, `DeleteRecord`, `DeleteFile`, `DeleteHistory`, `DeleteTimeData`, `DeleteSave` |
| `flushTaskLifecyclePending` with `claimPendingPhase`, `completePendingPhase`, `releasePendingClaim` | `ListReady`, `NextRecord`, `ClaimEffect`, `EmitEvent`, `CompleteEffect`, `ReleaseClaim`, `IndexDone` |
| `IndexTask`, `RemoveTask` as hooks | `ReadForIndex`, `CommitIndex`, `RemoveFromIndex` |
| `BatchArchive`, `AutoArchive`, the hourly sweep | `CallSweep`, `ResolveBatchIDs`, `NextInBatch` |
| `UpdateTask` | `UpdateTask`, `EditVersion`, `EditUndo` |
| `TaskStore.Create`, create route | `CreateTask`, `CreateVersion` |
| `TimeStore.Start`, `StopTimer` | `StartTimer`, `StopTimer` |
| death of a process; a write, a wait or a hook that fails | `Crash`, `Fault` |
| passing of time | `Age`, `LeaseEnds` |

Abstractions. A completion time is none, recent or aged; a lease is fresh or
not. `todo` stands for every status that is not `done`, and all other fields of a
Task and their edits are left out, `UpdatedAt` with them. Event IDs grow with
the time of the event. The parent relation is constant. A batch visits its Tasks
in any order. Consecutive versions without an event are one. The semantic index
is configured. Cancellation of a call's context is a `Fault` at the same place.
The index part assumes that no doc job saves meanwhile; `SearchIndex` is about
that. A manual minimum age, moves between projects and previews are left out;
moves are in `TaskFiles`.

### RuntimeQueue

`source` and `indexed` are the version of each doc and the version the index
holds. `queue` is the JSON file, a job per key (`kind::target`); `due` are the
keys whose `RunAfter` has passed, in its order. `pidfile`, `stopFlag` and
`startLock` are the three files of the runtime root. A client goes through
`EnsureDaemon` step by step (`Ensure`, `TakeStartLock`, `StartLockTimeout`,
`Spawn`, `Await`) and then through `enqueue` (`Put`) or, when the runtime is not
available, through its own index job (`IndexLocally`). A daemon starts
(`WritePID`, `ClearFlag`) and repeats its loop: `Scan` and `Mark` a job, `Count`
the pending ones, `Check` the flag and idleness, `Tick` or `Complete`. The job
is the goroutine `worker` with `OpenSession`, `ReadDoc`, `WriteIndex`,
`JobFails`. `ClientDies`, `DaemonDies`, `RequestStop` and `StopEnds` are the
disturbances. `SlowStart` says whether a daemon may take longer to start than
`DaemonStartTimeout`, ten seconds, which its starter waits.

A start lock is taken over in two steps, as in `acquireLock`: `FindStale` is the
`Stat` that finds it too old, `RemoveStale` the `Remove`, of whatever file has the
name by then. When that is a fresh lock, `stolen` records it; two clients may then
start a daemon each, without either being slow.

Abstractions. An update of the queue file happens under its own lock file and is
one step. Client leases only delay the exit of an idle daemon, so the daemon of
the model may exit whenever it has seen no job. The exit of the process and the
removal of its PID file are one step. The restart of an outdated daemon, recent
results with `WaitForJob`, watchers, several projects and reuse of process IDs
are left out, and so is the take-over of the lock file of the queue itself, which
takes an owner that died or an update of more than ten seconds.
Lifecycle hooks index Tasks without the queue; the queue of the model has the
jobs of docs.

### SearchIndex

`task`, `gone` (tombstones) and `doc` are the sources, `chunks` and `hash` the
tables of the database, each represented by the content it was made from, and
`built` whether the metadata row exists. A session is one use of the index by
one process: `IndexTask` and `CommitTask`; `RemoveTask`; `OpenDocJob`, `ReadDoc`
and `Save`; or a Reindex with `OpenReindex`, `NeedsRebuild`, `Clear`, `List`, `PrepareTask`,
`PrepareDoc`, `DropOrphans`, `SaveNonTaskSources`, `CommitTasks`. `view` is what
it loaded into memory, `seen` what it read of the sources. `lock` is the root
lifecycle lock, which a Reindex holds from `DropOrphans` to `CommitTasks`.
`NeedsRebuild` looks for the metadata row without the lock; `Clear` waits for the
lock and removes what is there by then, without looking again
(`search/index.go:48-50`).
`Ends` is a session that fails or a process that dies.

Abstractions. The tombstone and the removal of a Task file are one step
(`TaskLifecycle` has them apart). The three statements of `Clear` are one step,
as is the listing of the sources. A change of the embedding model is in
`EmbeddingRuntime`; here it appears only as a missing metadata row. Memories and
decisions go the way of docs.

### AgentWorkflow

`file` is `agent-workflows.json`: a workflow per Task and the runs. `tasks` is
what the workflow reads and writes of a Task, `tree`, `branches` and `git` the
worktrees, `lock` who holds the `flock` of each execution root (the worktree of
the Task or the project workspace), `chat` the chats of the Tasks. A server has
`mu`, the mutex of its manager, and one `call`, with the copy of the state it has
loaded (`snap`); `active` is the run it executes for a Task. `worker` are the
goroutines of the runs. A call is load (`Enter`), the reconciliation it may
have to save (`SaveReconciled`), its effects, and the snapshot it answers with; a run takes the
mutex again to record its end (`FinishLoad`, `FinishSave`). `Close` and `Crash`
end a server (`Exit` is the end of its process after a close), `Restart` starts it
and takes what was recorded as running for interrupted
(`MarkRunningInterrupted`).

Abstractions. A server serves one call at a time, because every call holds the
mutex; those that wait for it are represented by the one that gets it. A server
closes when its calls have ended: in the code it waits for them for five seconds
only (`server/server.go:479-483`), and a call that enters the closed manager after
that is left out. A prompt fails with its session alive or dead
(`PromptReturns`). The text
of prompts, plans and reviews is left out; an edit of a Task by somebody else
and an adapter that dies are bounded disturbances. The chat's messages are in
`ChatSessions`, the process and its pipes in `AdapterProcess`.

### The other components

- `EmbeddingRuntime`: `entries` are the cached models with their locks, count of
  active sessions and time of last use; `mapLock` is the lock of the map. A
  worker searches, indexes, reindexes, unloads or reports, each with the lock
  steps of `semantic_runtime.go`. `vectors` is the index: the model it says it
  is of, and the one each source is of.
- `SearchAnswers`: the steps of one search, from the settings it reads to the
  cut and the expansion, with changes of Tasks, docs and settings in between.
  Scores are ranks, and any order is possible.
- `ChatSessions`: requests load a session, change the copy and save it; the
  updates of a streaming answer do the same. Every call of `ChatStore` is a read
  of `chats.json` and, if it changes something, a write: two calls exclude each
  other only when they go through the same `Store` object, and a request about a
  project that is not the active one has its own. A search for the chat of a Task
  is two calls, for a chat of `omp` and for one of `codex`, and a creation is a
  third. Left out: writes that fail, a second server, the queue of messages behind
  a plain chat, which no code makes stream.
- `AdapterProcess`: the pipes to and from the child, the requests of a run one
  after the other (`Write`, then `Answered` or `Abandoned`), the reader
  goroutine (`Read`), the end of the child and of its pipe (`ChildDies`,
  `ChildReaped`), a cancel and the close behind it. A prompt may be longer than
  the pipe and the child may stop reading: then `Write` blocks with `writeMu`, and
  the cancel waits for it.
- `BrowserServer`: a server searches a port (`TryPort`), starts its monitor with
  a first look at the services (`NewServer`), writes the port file, serves, and
  cleans up in the order of `serve`. A tab has a channel of bounded size; a
  broadcast to a full channel is dropped. A notice reads the port file, connects
  and is relayed, each a step, while servers start, end and are killed. A server
  that cannot remove its port file drops the error (`RemoveFails`), and the file
  stays as after a kill.
- `TimeTracking`: the writes of a stop and of an added entry under the root
  lock, with their undo; the clock counts half seconds, entries whole ones.
- `DocHistory`: docs and histories by path, revisions as deltas, restores,
  renames and purges by two editors without a lock. The path index is loaded
  (`LoadIndex`) and written (`IndexHistory`) in two steps, as is a history that
  retention cuts (`ApplyRetention`, `PurgeHistory`); no route or command sets the
  option of retention, so only a caller of the package can.
- `TaskFiles`: files by directory, project in the name and title, with the
  project and content inside; update, move, archive, reopen, delete and the
  listing that removes duplicates. `TaskEdits`, `TaskRequests`: one transaction
  per edit; requests with permissions, batches and replies.
- `SavedLinks`: a call reads a link, fetches, imports an image, saves and
  removes the old image, each a step. `ToolCalls`: guard, handler, audit and the
  rotation of the log; a handler that fails after it changed something (a link
  whose image is gone and whose file stays) and an event that cannot be appended
  are outcomes of their own. `References`: IDs and paths as sequences; a validation
  that lists the Tasks, then the docs, and reads each doc once more; a rename
  that rewrites copies of the others it has read before; what one document alone
  can have wrong is the level of its worst remark. A Task or doc whose file, or
  whose directory, cannot be read is `dark`: the listings skip it silently
  (`storage/doc_store.go:116-119`, `:134-137`, `storage/task_store.go:86-88`) and
  so does a rename (`doc_store.go:330-333`), which reports success all the same.
- `ProjectRegistry`, `Settings`, `AgentConfigs`, `Installation`: load, change
  and write whole, with the locks, caches and temporary files the code has, and
  programs that die in between. In `Settings` a write of `config.json` is one step
  (a temporary file is renamed), and one of `preferences.json` two
  (`storage/user_prefs_store.go:70` truncates the file and fills it). What a
  settings program may do is a list of steps per program; a step that judges the
  search settings judges the copy it has.

## Runs

| Run | Instance | What it shows |
|---|---|---|
| `interruptions` | one Task, two processes; three parts: an archive, reopen or delete whose process may die; archive, reopen and update with one failing write, wait or hook; creates, reopens and timers against a delete that may die | `OneVersionPerEvent`, `DeletedLeavesNothing`, `NoResurrection` in all parts; `CrashLagIsRecorded`; `FailedMoveIsRecorded`, `NoLostEdit` |
| `outbox` | one Task, one process, every call, one crash, one fault | the inductive invariant `Inv`; `EventOutbox` is implemented |
| `sweep` | parent and child under the sweep; and one Task whose archive died, with fairness | `SweepRespectsRetention`; `SweepDrainsOutbox` |
| `queue` | 2 clients, 2 daemons, 1 doc, 3 edits, 1 death, 1 stop | `OneOwner`, `ForgottenInKnownWays` |
| `queue_live` | 1 client, 2 daemons, 1 doc, 1 edit, 1 death, 1 failing job, slow starts, fairness | `JobsAreRun` |
| `index` | 1 Task, 1 doc, 2 contents, 2 sessions, 3 edits, 1 failure; and 2 workers, 2 models | `CurrentLostInTwoWays`, `DeletedReturnsOnlyBySave`, `ReindexFailsClosed`; `EmbeddingsFit` |
| `agents` | two parts: 1 server, 1 Task, all 15 calls, 2 runs, 1 exit or fault; a run and a cancel over one adapter process, an answer of up to 2 pieces, prompts of any length, a child that may stop reading; fairness | `LiveRunIsRecorded`, `CallsReturn`; `AnswerIsComplete`, `CancelReturns` |
| `services` | eleven parts: chats, search, edits, requests, update, agent files, links, guard, audit, references, and two browser servers with two tabs and a notice | `ChatLostInTwoWays`, `LeftOutOnlyWhenFull`, `EditsAreExact`, `SuccessMeansDone`, `BinaryIsWhole`, `OthersKept`, `ImagesFollowLinks`, `PresetIsKept`, `ChangesAreOnRecord`, `ReferencesAreSound`, `ChangesReachTabs` |
| `stores` | six parts: two servers that start runs, timers, docs, registry, settings, Task files | `WorkspaceIsExclusive`, `OwnRunIsNotLost`, `TimeCountedOnce`, `RevisionReproduces`, `RevisionsStay`, `ProjectsAreKept`, `SettingsStayUsable`, `LatestStays` |
| `resume_ineligible`, `model_change`, `delete_files` | as small as the counterexample allows | the disagreements described below |

The properties are stated, with the code they are about, where they are defined:
in `LifecycleProperties` and at the end of each component.

`services` and `stores` switch the deadlock check off, because a part may have
done all its bounded calls; so does `agents`, where nobody is obliged to call
and the bounded runs may be used up. In the other passing runs it is on.

## Bounds

The bounds are CONSTANTS of the models (`MaxEvents`, `MaxCrashes`, `MaxFaults`,
`MaxEdits`, ...) and appear in guards only.

The protocols of the lifecycle are about one Task: records, claims, versions and
tombstones of different Tasks never meet except in the lock, in the order of a
batch, and in the descendants, which is what the second Task of `sweep` is for.
Two processes give every pair of operations in every interleaving of their
writes; a third would only be another owner of the same claim, and the proofs
cover any number. Two events are an operation and the next one over its remains.
One crash suffices for each single interruption, and the call that finds the
remains may belong to the same or to another process. For the queue, two daemons
are needed for every race about the PID file, two clients for every race about
the start lock, and three edits for a removal queued after the doc was written
again; a second doc, for a job that stores the index of another, was checked
with two edits, and the proof has any number. Two constraints keep the run small
(`FewAfterwards`): a stop comes with two edits at most, and a stolen start lock
with one and without a stop; the proofs have neither. For the index, two sessions and
three edits (create, change, change back or delete) give every stale view of one
Task and one doc; again the proofs have any number. For the agents, two runs are
the one at work and the one that follows it; two servers are needed to
take a run away from each other, and the proofs have any number, which is how the
case with three was found (below). For the browser, two servers are the old one
and the new one of a restart, two ports let the second one start beside the
first, and a channel of one event is full when it has one. An answer of two
pieces can be lost from, or be out of order. In the other components two writers
give every pair of a copy and a change made after it was taken; three calls are
the pair and one to see the result.

The MC modules bound some parts further, and name each bound where it is. In
`interruptions`, two reopens or two hard-deletes at once are in the part of the
creates, which also has a death. In `agents`, a chat comes after the run of an
agent, and in `stores` the repository exists. Where writers, servers, updates or
Tasks may be exchanged, one of them comes first (`UpdatesInOrder`,
`ServersInOrder`). Two tabs stream from the same server when both are open; a
behaviour of the update downloads models or updates the program, which have
nothing in common. The Tasks of a search begin as active, done, archived or of
the same number, and the texts of `References` with one of five references;
changes lead on from there.

Hooks return within their lease of five minutes in `interruptions` and `outbox`,
where a lease ends only after its owner has died; a stale read of the index hook
is there all the same, because a flush leaves a claimed record to its owner and
goes on. In `sweep` and `resume_ineligible` a lease may end while its owner is
still at work.

## Fairness

- `sweep`: a process in a call goes on (strong fairness of `Step`, because the
  lock is polled every 20 ms: a process that asks again and again while the lock
  is free again and again gets it), the server calls its sweep every hour
  (`StartTaskAutoArchiveSweeper`), and leases end. Nobody is obliged to repeat a
  call that died.
- `queue_live`: processes run on, debounces end, and clients keep calling
  `AcquireClient` (every client of the runtime does so when it starts). Strong
  fairness is asked of two actions. `TakeStartLock`: the lock file is polled every
  50 ms. `Complete`: Go's `select` chooses at random between a ticker and a result
  that are both ready, so a result that is ready again and again is taken.
- `agents`, the workflow: a handler that can take its next step takes it, and a
  client gives up on a call that waits. Runs need not go on, and nobody has to
  call. The adapter: the goroutine of the user who cancels goes on, the child is
  killed when its time is over, and a dead child is reaped. The child owes
  nothing.

The other runs check safety only and assume nothing.

## Proofs

All theorems hold for any values of the constants that satisfy the modules'
ASSUMEs: any sets of Tasks, docs, processes, servers, clients, daemons, sessions,
callers and calls, and any bounds on events, crashes, faults, deaths and edits.
The ASSUMEs say that the model values for nobody and nothing are none of the
things they stand apart from, that the bounds are natural numbers, and that a
project has a Task. Hypotheses beyond these are named below.

### The lifecycle

`LifecycleProofs`: `Invariance` (`Spec => []Inv`), `TypeCorrect`, and
`OutboxImplemented` (`Spec => EventsFollowOutbox`): the lifecycle implements
`EventOutbox` under the mapping of `LifecycleProperties`.

That the outbox is implemented is not visible from a single step: a flush works
from a list that it made earlier, outside the lock, while others complete and
remove the same records, and a mutation or a rollback works with an event ID
that it chose some writes ago. `Inv` says what remains true of such an event ID.
In the lock, a process that is at a phase of a mutation or a rollback has a
record that is not canonical yet, with all earlier phases checkpointed
(`InMutation`, `InDelete`); outside, whatever a flush has in its list is
*settled* (`InFlush`): its record is canonical, or is gone and its event
delivered. `Settled` is stable, which is why a stale list does no harm. What the
sink has accepted is settled as well (`EventInv`). There is one lemma per action;
it says what the action does to the process at hand and to the record, and frame
lemmas (`Frame`, `QuietFrame`, and one each for a record created, changed and
removed) carry the other processes over and name the step of `EventOutbox`.

`DeletionProofs` builds on `Inv`: `NothingComesBack` (`NoResurrection`),
`DeletesLeaveNothing` (`DeletedLeavesNothing`) and `VersionsAreOnce`
(`OneVersionPerEvent`). The invariant `FileInv` adds the files to what `Inv`
says of records and of the process in the lock: a record of an archive or a
reopen starts from a file and ends with one; the record of a delete has its
tombstone, and nothing is left of the Task when the record has reached its last
phase (`RecordFits`); an edit, a mutation and its rollback have a file to write
to, and a hard-delete has removed what it has passed (`KnowsTask`). A reserved ID
refuses the others, and a flush writes no Task. For the versions, a mutation that
is about to append its version asks the history for its event first, and only the
holder of the lock appends.

### The runtime queue

`RuntimeQueueProofs`. The invariant (`QueueInvariance`) and `ForgottenKnown`
(`ForgottenInKnownWays`) hold however slow a daemon starts and whatever lock is
stolen. The invariant says who may be where: a worker belongs to a daemon that
goes round its loop with its job (`PlacesOK`); job IDs are given once, so that a
job in the queue with the ID of a daemon's job is the one it was marked with
(`IDsOK`). The action property follows by one lemma per action: what a change
still needs is covered by a client, by the job in the queue, or by a worker that
will store it; where a second daemon is at work as well, `TwoAtWork` excuses it.

`OneDaemonAtMost` and `OneOwnerHolds` (`OneOwner`) have the hypothesis
`~SlowStart`: a daemon starts within the ten seconds its starter waits. Until a
fresh start lock is stolen, a daemon that starts does so under the start lock of
the client that waits for it, a daemon that has started has the PID file, and of
two daemons one is off (`OneDaemon`). With a slow start, or a stolen lock, the
code has two owners, see below.

### The search index

`SearchIndexProofs`: `TypeCorrect` with the ownership of the lifecycle lock,
`CommitsAreLostInTwoWays` (`CurrentLostInTwoWays`), `DeletedStaysDeleted`
(`DeletedReturnsOnlyBySave`) and `FailsClosed` (`ReindexFailsClosed`). The
inductive invariant `IInv`: besides the types, a tombstoned Task has no file; an
index without a metadata row has no hash of a Task; a session that is about to
commit a Task has read it; and a Reindex that commits its Tasks has saved the
metadata. The second part is about a `Clear` that finds the metadata still
missing: it loses nothing, since nothing can be current then. A `Clear` that
finds some, written since the session looked, is the second of the two ways in
which a Task that is current can leave the index; the first is the `Save` of a
doc job. The theorem says that no session about Tasks, no removal of another, and
no other step of a Reindex is a third.

### The agent workflow

`AgentProofs`, for any number of servers: `RootsHaveOneRun`
(`WorkspaceIsExclusive`) and `OwnRunsAreKept` (`OwnRunIsNotLost`); and for one
server (`Single`) `OneServerRecordsItsRuns` (`LiveRunIsRecorded`), which is false
with two, since the second takes what it finds running at its start for
interrupted. `AgentInvariance` proves the invariant `Inv`, of five parts. `Locks`: a run at work holds the
`flock` of its root. `Turns`: `Manager.mu` is held by the call or by the run that
is recording its end, and a call that is about to start a run has a copy with no
active one. `Seats`: a run that is being recorded belongs to the one call that is
saving it, a run that records its end has the mutex, and a run that executes is
the active one of its root on its server. `Copies`: the file, and the copy every
call has of it, name no run that was not started, and a run at work only as the
run of its Task, in the root they give the Task; without this a reconciliation
could look for a run in the wrong place. `TypeOK` is the fifth. The step lemmas
first sort the actions into twelve kinds (a call that loads, that goes on, that
returns; a run that is saved, that ends; a server that closes, dies, restarts;
...), and each part of the invariant is proved over the kinds. With one server,
`Alone` adds that the file, and the copy of whoever else holds the mutex, have
every run at work as active and running.

`AnswersAreComplete` (`AnswerIsComplete`), for answers of any number of pieces:
the text of a prompt that succeeded is every piece the agent wrote, in order.
`AdapterInv` follows the prompt. Before it is sent (`PromptUnasked`), the pipe
from the child has no piece and no answer of it. While it is on its way
(`PromptAsked`) and the child is not reaped, the pieces that are not read yet
stand in the pipe in their order, right after those the text has, with the answer
behind them (`Flow`); the answer has left the pipe only when the text has all.
The child gets one prompt and writes pieces only when it has come to it
(`OnePrompt`). Where a cancel or an error ends the request, the reader no longer
adds to the text (`PromptOver`).

### Settings, registry, timers

`StoreProofs`, for any number of programs, servers and processes.
`SettingsStayUsableHolds` (`SettingsStayUsable`): on a platform without local
models, a search that is enabled and local means that a writer set or saved it
from a copy older than the file, that the form which enables the search before it
sets the provider is, or ended, in between, or that the provider was set to none
by `config set`; and preferences that cannot be read are being filled, or were
torn by a death or by two writers at once. No single writer's check gives this:
eight programs change the settings by three kinds of writes and check at
different steps or not at all. `SearchInv` follows, for each writer and each step
it still has, which of its copies was judged and whether the file still has the
search settings of that copy; `PrefsInv` ties what the file holds to the one
writer that fills it.

`ProjectsStay` (`ProjectsAreKept`): a project leaves the registry, or loses its
path, only by its removal, by a writer without a lock of its own (an `Update`,
or one whose lock was taken over as stale) or one that follows such a writer,
or, the path alone, when its directory could not be resolved as the file was
read. `RegistryInv` says that an ID which waits to be created is known to
nobody, that the lists the file, the memories and the actors hold have IDs that
were given out, and that what the holder of the lock has read is what the file
holds, unless the last write was one without the lock.

`NoTimeIsCountedTwice` (`TimeCountedOnce`): without a death, and with one failing
write at most, no time of a timer is in two entries or in an entry and the timer,
and the total of the Task and of its version are those of the entries. `TimeInv`
says that one process is between two writes; that what it found was in order and
the entry it adds comes after the others; and, for each of its seven stages, what
its writes so far have made of the files, so that an undo at any of them leads
back (`WrittenSoFar`). The total is used through two facts only, the total of no
entries and that it is a function of the entries: the theorem does not depend on
what a sum is.

### Links and tool calls

`ServiceProofs`: `LinksFindImages` (`ImagesFollowLinks`). Callers work with
copies and no lock; the invariant says that an image bears the name of one link,
that what a copy names belongs to that copy's link if it is still there, and that
an image a caller is about to remove is in no link that is not torn.

`ToolCallProofs`: `PresetKept` (`PresetIsKept`) and `ChangesStayOnRecord`
(`ChangesAreOnRecord`, with `Names \cap Calls = {}`: a call is none of the two
names the model uses for nothing and for the events before). Of a call between
guard and handler the invariant says that it was permitted by the policy it
bears. Of the log: its three names are of different files, an event is in one
file only, and, unless processes crossed, one process at a time rotates
(`OneRotates`) and an event that went to the log is in the log, or in a backup
with newer events in the files before it, or has two newer ones (`Kept`). A log
is full with one event, in the model and in the theorem; calls, processes and
deaths are any number.

### Requests, updates and browser servers

`ServiceProofs`: `SuccessIsDone` (`SuccessMeansDone`). The invariant keeps, for
every Task that had its turn in an executed request, that it is as it was asked
to be, or was changed by others since, or gave a reason that is a failure
(`TurnsAreKept`); `WorstKind` says that the kind of the whole reply is "none"
only when that of every reason is. It also shows that no reason a Task can have
is missing from the table of `failureKindForReason`.

`BinaryStaysWhole` (`BinaryIsWhole`). While one update replaces the binary, the
temporary file is its own, holds its version only, and is not the binary
(`TmpIsOwn`), so the rename puts a whole file in place whatever an update that
died before has left under the temporary name. A step of a second update there
sets `clash`. The module needs the updaters to be finitely many
(`UpdatersAreFinite`), because it numbers the files.

`NoticesReachTabs` (`ChangesReachTabs`), for any number of servers, tabs, notices
and ports, and channels of any size. The ports of servers that listen differ; the
port file, when there is one, has the port of the server that wrote it last
(`ServersOK`). A tab a notice has to reach streams from a server that serves, and
the notice has read that server's port, was accepted by it, or is with the tab:
shown, waiting, or dropped by a full channel (`DueAreReached`). An end of the
server excuses its tabs.

### What is only model-checked, and why

- All liveness (`SweepDrainsOutbox`, `JobsAreRun`, `CallsReturn`,
  `CancelReturns`): beyond the backends used here.
- Properties about replays and rankings over sequences (`RevisionReproduces`,
  `RevisionsStay`, `LeftOutOnlyWhenFull`, `ReferencesAreSound`, `EditsAreExact`):
  they rest on what a fold or a selection computes for every sequence, which takes
  induction over data.
- `FailedMoveIsRecorded` and `NoLostEdit` hold in the instance with one fault and
  no crash, and not in general: with two faults a step of the rollback may itself
  fail, and the record is then removed with the Task half moved; a chain of four
  crashes does the same; and after a crash a resumed archive writes its old
  original over edits made since. A theorem would have to assume the instance.
- `CrashLagIsRecorded` is about calls that leave records; an update leaves none
  (`tasklifecycle/service.go:586`).
- `SweepRespectsRetention` speaks of descendants, that is of the transitive
  closure of the parent relation.
- `EmbeddingsFit` and `LatestStays` are built with `:>` and `@@`, whose
  definitions the provers do not unfold well; `ChatLostInTwoWays` and
  `OthersKept` were not attempted.

## What the proofs found

Each theorem was attempted after TLC had found nothing; three attempts failed for
a reason, and the model or the property was corrected.

- `ForgottenInKnownWays` listed four ways (the sixth, two daemons at work, came
  with the stolen lock). The proof found a fifth, which TLC
  confirms with three edits (the run had two): a doc is removed, its removal is
  queued, it is written again and the request of the write is executed first;
  then the removal runs and takes the doc from the index, and nothing is left to
  bring it back.
- That a run is written off as interrupted only by the save of *another* server
  is false with three servers: a stale copy of one can bring "running" back,
  and the executing server, whose own copy is older still, saves "interrupted"
  itself. `OwnRunIsNotLost` says what is true, and is proved.
- `ChangesAreOnRecord` missed that a process which dies between moving the older
  backup on and renaming the log leaves a gap; the next rotation drops a backup
  one file early.

Besides, assumptions that TLC never needed were named: that a project has a Task
(`TasksAssumption`), that servers, runs and nobody are different
(`ServersAssumption`).

## Where the code and what it says disagree

Three disagreements are runs that end with a counterexample.

1. `resume_ineligible` (`OnlyEligibleIsArchived`). An archive dies after its
   record was written. The Task is set back to todo, or a timer is started;
   neither looks at records. The next archive call finds the record and resumes it without evaluating eligibility
   (`tasklifecycle/service.go:606`), so a Task that is not done is archived,
   and an archived Task can be timed.
2. `model_change` (`RebuildIsFull`). "If the model or chunk version changed, all
   hashes are invalidated" (`search/index.go:44-45`), but the job of a single Task or doc
   asks for no rebuild and stamps the whole index with the new model; a Reindex
   after it keeps the vectors of the old one.
3. `delete_files` (`DeleteRemovesFiles`). A hard-delete by a bare ID in the store
   of all projects, which the MCP server always uses, leaves the file whose name begins with the project
   (`storage/task_store.go:226-239`).

Others were met while modelling and have no run of their own; the models have
them as the named exceptions of a property, or leave them out.

- Lifecycle. A hard-delete that failed once after its removal began can stay
  stuck: the flush in front of every repetition tries to index a Task whose file
  is gone and fails (`tasklifecycle/service.go:278`). A listing removes what it
  takes for a duplicate file without the lock (`storage/task_store.go:95-107`), so
  a change between two listings can be lost.
- Index. `IndexDoc` and `RemoveDoc` save the whole index as it was when their
  session opened (`search/index.go:338`): a Task committed in between loses its
  chunks and keeps its hash. A Reindex finds what is gone through hashes, and doc
  jobs record none (`search/index.go:222`). It looks for the metadata before it
  waits for the lock and clears the index when it has got it
  (`search/index.go:48-50`): a Task committed in between is gone until the same
  Reindex comes to it.
- Queue. "Runtime queue leases prevent duplicate background job ownership"
  (`ARCHITECTURE.md:200`). They delay an exit; two daemons execute the same job
  when one takes longer than ten seconds to start, and also when a client removes
  the fresh start lock of another: both found the lock of a dead one too old, the
  second removes the file by name after the first has made its own
  (`runtimequeue/runtimequeue.go:1032-1034`). `OneOwner` without `stolen` fails in
  the run `queue` in 27 states.
- Embedding. A session counts itself active only after it has read the vectors
  (`search/semantic_runtime.go:140-158`); one that takes the idle timeout to open
  can find its model unloaded.
- Agents. `RequestPlanChanges` takes the run lock of the workspace and then starts
  a run that takes it again (`agents/omp/workflow.go:392`); only the client that
  gives up ends it. A run saves the chat it loaded at its start over newer ones.
  A cancel waits two seconds for the agent, but first for `writeMu`, which a
  prompt to an agent that reads no more holds (`agents/omp/acp.go:466-469`), and
  for that it waits without limit.
- Chats. "Update applies a read-modify-write under the chat store lock", which is
  a lock of one `Store` object (`storage/store.go:70`); two requests about a
  project that is not the active one have two (`storage/manager.go:51-60`) and
  overwrite each other's file.
- Timers. A death in the middle of a stop counts the time twice when the timer is
  stopped again (`storage/time_store.go:235`).
- Browser. `browser --restart` lets the old server close its listener at once and
  wait up to five seconds for its streams (`server/server.go:488-492`); only then
  it removes the port file, which by then may be the new server's. The comments
  say the file is there "so the MCP process can discover it" and is removed "on
  shutdown" (`server/server.go:788`, `:798`); notices no longer find the new
  server.
- Edits. `remove-ac 2 2` on the command line also removes the criterion that
  follows (`cli/task.go:415`).
- Tool calls. Three actions are missing from the registry of actions and pass a
  read-only preset; `memo.delete` ignores the preview it is asked for.
- Settings. `config set` refuses the local provider on a platform without it by
  name, and lets through the empty provider, which means the same
  (`cli/config.go:190-196`); the route takes it for the local one (`server/routes/config.go:192-195`).
  The form enables the search before it sets the provider, and drops the errors of
  both (`cli/config.go:1173-1175`). A reset of a configuration that cannot be
  loaded dereferences the project it has not got (`cli/config.go:423`).
- References. A rename that skipped an unreadable doc leaves the old path in it and
  says it was done.
- Files without a protocol. `registry.Update` takes no lock file and a lock is
  taken for stale after thirty seconds; settings forms save old copies; setup
  replaces some files of other programs whole; two updates share one temporary
  file (`cli/update.go:714`).

## What is not modelled

Pure text and numbers: parsing and rendering of files, chunking, tokenising,
embedding, ranking, evaluation, link metadata and classification, templates,
doctor and readiness checks. HTTP plumbing and authentication. Runtime memory,
whose candidates are a stub. The OpenCode adapter, the API embedder and
`codegen.Engine.Run`, which nothing in this build reaches. The user interface.
External code: the file system (a rename is atomic, `flock` excludes and is
released by death), SQLite (a transaction is atomic), the embedding model, the
agent processes. Windows' lock is taken to behave like `flock`. `PROJECT.json`
lists every component with what its modules leave out.

## Plan

Done: the models of all components with state; the proofs of the lifecycle, its
deletions, the queue, the index, the agent workflow and its adapter, settings,
registry, timers, links, tool calls, requests, updates and browser servers.

Left, in this order:

1. `ChatLostInTwoWays`, whose state is small records and sets; `MCServices`
   then extends `ChatSessions` too.
2. `LatestStays` and `EmbeddingsFit`, after their functions built with `:>` and
   `@@` are written as function constructors.
3. An abstract queue of requests that `RuntimeQueue` implements but for the six
   known ways.
