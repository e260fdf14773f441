----------------------------- MODULE RuntimeQueue -----------------------------
(***************************************************************************)
(* The shared runtime (internal/runtimequeue): index jobs that every       *)
(* process queues in one JSON file per project, and the daemon that the    *)
(* first of them starts, that runs the jobs one at a time and exits when   *)
(* it is idle.  The clients of the queue are the BestEffort functions of   *)
(* internal/search/sync.go, called after a doc was written or deleted; the *)
(* jobs are ExecuteRuntimeJob's.                                           *)
(*                                                                         *)
(* An update of the queue file happens under its lock file and is one      *)
(* step.  A daemon is single-threaded; the job it runs is a goroutine of   *)
(* its own, which dies with the process.  The start of a daemon, from the  *)
(* check that none is running to the PID file of the new one, is several   *)
(* steps, guarded by start.lock.                                           *)
(*                                                                         *)
(* As in TaskLifecycle, a definition directly before another that has its  *)
(* parameters is a mutation of it, which no action uses.                   *)
(***************************************************************************)
EXTENDS Naturals, Sequences, FiniteSets

CONSTANTS
  Clients,    \* processes that write docs: CLI, MCP server, browser server
  Daemons,    \* processes that may be a daemon
  Docs,
  Nobody,
  MaxEdits,   \* bound: writes and deletions of docs
  MaxDeaths,  \* bound: clients and daemons that are killed
  MaxFaults,  \* bound: jobs that fail
  MaxStops,   \* bound: "runtime stop" commands
  SlowStart   \* whether a daemon may need longer to start than its starter waits

ASSUME ProcessAssumption == Nobody \notin Clients \cup Daemons
ASSUME QueueBoundsAssumption ==
  /\ MaxEdits \in Nat /\ MaxDeaths \in Nat /\ MaxFaults \in Nat /\ MaxStops \in Nat
  /\ SlowStart \in BOOLEAN

VARIABLES
  source,     \* [Docs -> version, 0 when the doc does not exist]
  indexed,    \* [Docs -> the version the search index holds]
  queue,      \* [Keys -> job, NoJob when the file lists none with this key]
  due,        \* the keys whose RunAfter has passed, in the order of RunAfter
  nextID,
  pidfile,    \* knowns-runtime.pid: the daemon that wrote it last, or Nobody
  stopFlag,   \* stop.flag exists
  startLock,  \* start.lock: the client that created it, or Nobody
  stolen,     \* history: a client removed a start lock that was not stale
  client,     \* [Clients -> [at, key, view]]
  daemon,     \* [Daemons -> [at, idle, job]]: where its loop stands
  worker,     \* [Daemons -> [at, view]]: the goroutine of the running job
  edits, deaths, faults, stops

disk == <<source, indexed>>
jobs == <<queue, due, nextID>>
start == <<startLock, stolen>>
runtime == <<pidfile, stopFlag, startLock, stolen>>
bounds == <<edits, deaths, faults, stops>>
vars == <<source, indexed, queue, due, nextID, pidfile, stopFlag, startLock, stolen,
          client, daemon, worker, edits, deaths, faults, stops>>

Kinds == {"index", "remove"}
Keys == Kinds \X Docs
NoKey == <<>>
DocOf(key) == key[2]

(* started is whether StartedAt is set.  A request for a job that is in the *)
(* queue clears it.                                                        *)
NoJob == [id |-> 0, key |-> NoKey, started |-> FALSE]
MaxID == MaxEdits
Job == [id: 1 .. MaxID, key: Keys, started: BOOLEAN]

NoView == [t \in Docs |-> 0]

IdleClient == [at |-> "idle", key |-> NoKey, view |-> NoView]
OffDaemon == [at |-> "off", idle |-> FALSE, job |-> NoJob]
NoWorker == [at |-> "none", view |-> NoView]

Init ==
  /\ source = NoView
  /\ indexed = NoView
  /\ queue = [k \in Keys |-> NoJob]
  /\ due = <<>>
  /\ nextID = 1
  /\ pidfile = Nobody
  /\ stopFlag = FALSE
  /\ startLock = Nobody /\ stolen = FALSE
  /\ client = [c \in Clients |-> IdleClient]
  /\ daemon = [d \in Daemons |-> OffDaemon]
  /\ worker = [d \in Daemons |-> NoWorker]
  /\ edits = 0 /\ deaths = 0 /\ faults = 0 /\ stops = 0

(* The PID file names a process that is alive.                             *)
IsRunning == pidfile # Nobody /\ daemon[pidfile].at # "off"

Without(k) ==
  IF \E i \in DOMAIN due : due[i] = k
  THEN LET i == CHOOSE i \in DOMAIN due : due[i] = k
       IN [n \in 1 .. Len(due) - 1 |-> due[IF n < i THEN n ELSE n + 1]]
  ELSE due
ClientAt(c, place) == client' = [client EXCEPT ![c].at = place]
DaemonAt(d, place) == daemon' = [daemon EXCEPT ![d].at = place]

-----------------------------------------------------------------------------
(* Clients.                                                                *)

(* A doc is written or deleted; the request for its index job follows.     *)
Edit(c, t) ==
  /\ client[c].at = "idle"
  /\ edits < MaxEdits
  /\ edits' = edits + 1
  /\ \/ /\ source' = [source EXCEPT ![t] = edits + 1]
        /\ client' = [client EXCEPT ![c].at = "ensure", ![c].key = <<"index", t>>]
     \/ /\ source[t] # 0
        /\ source' = [source EXCEPT ![t] = 0]
        /\ client' = [client EXCEPT ![c].at = "ensure", ![c].key = <<"remove", t>>]
  /\ UNCHANGED <<indexed, jobs, runtime, daemon, worker, deaths, faults, stops>>

(* AcquireClient: a client that only wants the daemon to be there.         *)
Connect(c) ==
  /\ client[c].at = "idle"
  /\ ClientAt(c, "ensure")
  /\ UNCHANGED <<disk, jobs, runtime, daemon, worker, bounds>>

(* EnsureDaemon.  It checks for a daemon before and after it gets the lock, *)
(* and keeps the lock until the daemon it starts has written its PID file. *)
Ensure(c) ==
  /\ client[c].at = "ensure"
  /\ ClientAt(c, IF IsRunning THEN "put" ELSE "lock")
  /\ UNCHANGED <<disk, jobs, runtime, daemon, worker, bounds>>

TakeStartLock(c) ==
  /\ client[c].at = "lock"
  /\ startLock = Nobody
  /\ startLock' = c
  /\ ClientAt(c, "spawn")
  /\ UNCHANGED <<disk, jobs, pidfile, stopFlag, stolen, daemon, worker, bounds>>

(* acquireLock: a client that finds the lock file older than ten seconds,  *)
(* as long as a client waits for its daemon, removes the file there is:    *)
(* another may have removed the old one and created its own by then.       *)
LockIsStale ==
  /\ startLock # Nobody
  /\ client[startLock].at \notin {"spawn", "await"}
  /\ SlowStart \/ \A d \in Daemons : daemon[d].at # "starting"

FindStale(c) ==
  /\ client[c].at = "lock"
  /\ LockIsStale
  /\ ClientAt(c, "stale")
  /\ UNCHANGED <<disk, jobs, runtime, daemon, worker, bounds>>

RemoveStale(c) ==
  /\ client[c].at = "stale"
  /\ startLock' = Nobody
  /\ stolen' = (stolen \/ (startLock # Nobody /\ ~LockIsStale))
  /\ ClientAt(c, "lock")
  /\ UNCHANGED <<disk, jobs, pidfile, stopFlag, daemon, worker, bounds>>

(* The request falls back to an index job in the client's own process when *)
(* the runtime is not available.                                           *)
Fallback(c) == ClientAt(c, IF client[c].key = NoKey THEN "put" ELSE "local")

StartLockTimeout(c) ==
  /\ client[c].at = "lock"
  /\ startLock # Nobody
  /\ IF IsRunning THEN ClientAt(c, "put") ELSE Fallback(c)
  /\ UNCHANGED <<disk, jobs, runtime, daemon, worker, bounds>>

NotRechecked == FALSE
FoundRunning == IsRunning

(* To unlock is to remove the file, whoever created it.                    *)
Spawn(c) ==
  /\ client[c].at = "spawn"
  /\ \/ /\ FoundRunning
        /\ startLock' = Nobody
        /\ ClientAt(c, "put")
        /\ UNCHANGED daemon
     \/ /\ ~FoundRunning
        /\ \E d \in Daemons :
             /\ daemon[d].at = "off" /\ pidfile # d
             /\ DaemonAt(d, "starting")
        /\ ClientAt(c, "await")
        /\ UNCHANGED startLock
  /\ UNCHANGED <<disk, jobs, pidfile, stopFlag, stolen, worker, bounds>>

Await(c) ==
  /\ client[c].at = "await"
  /\ \/ IsRunning /\ ClientAt(c, "put")
     \/ /\ ~IsRunning
        /\ SlowStart \/ \A d \in Daemons : daemon[d].at # "starting"
        /\ Fallback(c)
  /\ startLock' = Nobody
  /\ UNCHANGED <<disk, jobs, pidfile, stopFlag, stolen, daemon, worker, bounds>>

(* enqueue: a job with the same key is kept and postponed, its start       *)
(* forgotten.  Removals are due at once, the others after a debounce.      *)
KeepStarted(k) == queue[k]
Requested(k) == [queue[k] EXCEPT !.started = FALSE]

Put(c) ==
  LET k == client[c].key IN
  /\ client[c].at = "put"
  /\ client' = [client EXCEPT ![c] = IdleClient]
  /\ \/ k = NoKey /\ UNCHANGED jobs
     \/ /\ k # NoKey
        /\ due' = IF k[1] = "remove" THEN Append(Without(k), k) ELSE Without(k)
        /\ IF queue[k] = NoJob
           THEN /\ queue' = [queue EXCEPT ![k] = [id |-> nextID, key |-> k, started |-> FALSE]]
                /\ nextID' = nextID + 1
           ELSE /\ queue' = [queue EXCEPT ![k] = Requested(k)]
                /\ UNCHANGED nextID
  /\ UNCHANGED <<disk, runtime, daemon, worker, bounds>>

(* The debounce of a job ends.                                             *)
BecomeDue(k) ==
  /\ queue[k] # NoJob
  /\ \A i \in DOMAIN due : due[i] # k
  /\ due' = Append(due, k)
  /\ UNCHANGED <<disk, queue, nextID, runtime, client, daemon, worker, bounds>>

(* IndexDoc and RemoveDoc: a session loads the whole index, changes what it *)
(* loaded and stores all of it; a doc that is gone is not indexed.         *)
Gone(key) == key[1] = "index" /\ source[DocOf(key)] = 0
Reindexed(view, key) ==
  [view EXCEPT ![DocOf(key)] = IF key[1] = "remove" THEN 0 ELSE source[DocOf(key)]]

(* In the client's process, without a job.                                 *)
IndexLocally(c) ==
  \/ /\ client[c].at = "local"
     /\ client' = [client EXCEPT ![c].at = "localRead", ![c].view = indexed]
     /\ UNCHANGED <<disk, jobs, runtime, daemon, worker, bounds>>
  \/ /\ client[c].at = "localRead"
     /\ client' = [client EXCEPT ![c] =
          IF Gone(client[c].key) THEN IdleClient
          ELSE [client[c] EXCEPT !.at = "localWrite",
                                 !.view = Reindexed(client[c].view, client[c].key)]]
     /\ UNCHANGED <<disk, jobs, runtime, daemon, worker, bounds>>
  \/ /\ client[c].at = "localWrite"
     /\ indexed' = client[c].view
     /\ client' = [client EXCEPT ![c] = IdleClient]
     /\ UNCHANGED <<source, jobs, runtime, daemon, worker, bounds>>

(* RequestShutdown ("runtime stop"): raises the flag, waits for the daemon *)
(* to go, and takes the flag back when it went in time.                    *)
RequestStop(c) ==
  /\ client[c].at = "idle"
  /\ stops < MaxStops
  /\ IsRunning
  /\ stops' = stops + 1
  /\ stopFlag' = TRUE
  /\ ClientAt(c, "stopping")
  /\ UNCHANGED <<disk, jobs, pidfile, start, daemon, worker, edits, deaths, faults>>

StopEnds(c) ==
  /\ client[c].at = "stopping"
  /\ stopFlag' = (stopFlag /\ IsRunning)
  /\ ClientAt(c, "idle")
  /\ UNCHANGED <<disk, jobs, pidfile, start, daemon, worker, bounds>>

(* Its lock file stays behind, until another process finds it stale.       *)
ClientDies(c) ==
  /\ client[c].at # "idle"
  /\ deaths < MaxDeaths
  /\ deaths' = deaths + 1
  /\ client' = [client EXCEPT ![c] = IdleClient]
  /\ UNCHANGED <<disk, jobs, runtime, daemon, worker, edits, faults, stops>>

-----------------------------------------------------------------------------
(* RunDaemon.                                                              *)

WritePID(d) ==
  /\ daemon[d].at = "starting"
  /\ pidfile' = d
  /\ DaemonAt(d, "clearFlag")
  /\ UNCHANGED <<disk, jobs, stopFlag, start, client, worker, bounds>>

ClearFlag(d) ==
  /\ daemon[d].at = "clearFlag"
  /\ stopFlag' = FALSE
  /\ DaemonAt(d, "scan")
  /\ UNCHANGED <<disk, jobs, pidfile, start, client, worker, bounds>>

(* nextReadyJob: the earliest due job, started or not.                     *)
ReadyNotStarted == SelectSeq(due, LAMBDA k : ~queue[k].started)
Ready == due

Scan(d) ==
  /\ daemon[d].at = "scan"
  /\ \/ /\ worker[d].at = "none" /\ Ready # <<>>
        /\ daemon' = [daemon EXCEPT ![d].at = "mark", ![d].job = queue[Head(Ready)]]
     \/ /\ worker[d].at # "none" \/ Ready = <<>>
        /\ DaemonAt(d, "count")
  /\ UNCHANGED <<disk, jobs, runtime, client, worker, bounds>>

(* MarkJobStarted looks the job up by its ID.                              *)
Mark(d) ==
  LET j == daemon[d].job IN
  /\ daemon[d].at = "mark"
  /\ \/ /\ queue[j.key].id = j.id
        /\ queue' = [queue EXCEPT ![j.key].started = TRUE]
        /\ worker' = [worker EXCEPT ![d].at = "open"]
        /\ DaemonAt(d, "count")
     \/ /\ queue[j.key].id # j.id
        /\ daemon' = [daemon EXCEPT ![d].at = "count", ![d].job = NoJob]
        /\ UNCHANGED <<queue, worker>>
  /\ UNCHANGED <<disk, due, nextID, runtime, client, bounds>>

(* The daemon is idle when no project has a job and none is running.       *)
Count(d) ==
  /\ daemon[d].at = "count"
  /\ daemon' = [daemon EXCEPT ![d].at = "check",
                  ![d].idle = (worker[d].at = "none" /\ \A k \in Keys : queue[k] = NoJob)]
  /\ UNCHANGED <<disk, jobs, runtime, client, worker, bounds>>

(* The process ends, its goroutine with it; whatever PID file is there is  *)
(* removed.                                                                *)
Exit(d) ==
  /\ pidfile' = Nobody
  /\ daemon' = [daemon EXCEPT ![d] = OffDaemon]
  /\ worker' = [worker EXCEPT ![d] = NoWorker]

Check(d) ==
  /\ daemon[d].at = "check"
  /\ \/ stopFlag /\ stopFlag' = FALSE /\ Exit(d)
     \/ ~stopFlag /\ daemon[d].idle /\ Exit(d) /\ UNCHANGED stopFlag
     \/ ~stopFlag /\ DaemonAt(d, "select") /\ UNCHANGED <<pidfile, stopFlag, worker>>
  /\ UNCHANGED <<disk, jobs, start, client, bounds>>

(* The poll interval ends before the running job does, if there is one.    *)
Tick(d) ==
  /\ daemon[d].at = "select"
  /\ DaemonAt(d, "scan")
  /\ UNCHANGED <<disk, jobs, runtime, client, worker, bounds>>

(* CompleteJob removes the job it ran, by its ID, whether it failed or not. *)
Complete(d) ==
  LET j == daemon[d].job IN
  /\ daemon[d].at = "select"
  /\ worker[d].at \in {"ok", "failed"}
  /\ \/ /\ queue[j.key].id = j.id
        /\ queue' = [queue EXCEPT ![j.key] = NoJob]
        /\ due' = Without(j.key)
     \/ queue[j.key].id # j.id /\ UNCHANGED <<queue, due>>
  /\ worker' = [worker EXCEPT ![d] = NoWorker]
  /\ daemon' = [daemon EXCEPT ![d].at = "scan", ![d].job = NoJob]
  /\ UNCHANGED <<disk, nextID, runtime, client, bounds>>

(* The job opens a session, reads the doc (one that is gone fails the job) *)
(* and later stores the session's index.                                   *)
OpenSession(d) ==
  /\ worker[d].at = "open"
  /\ worker' = [worker EXCEPT ![d] = [at |-> "read", view |-> indexed]]
  /\ UNCHANGED <<disk, jobs, runtime, client, daemon, bounds>>

ReadDoc(d) ==
  LET k == daemon[d].job.key IN
  /\ worker[d].at = "read"
  /\ worker' = [worker EXCEPT ![d] =
       IF Gone(k)
       THEN [at |-> "failed", view |-> NoView]
       ELSE [at |-> "write", view |-> Reindexed(worker[d].view, k)]]
  /\ UNCHANGED <<disk, jobs, runtime, client, daemon, bounds>>

WriteIndex(d) ==
  /\ worker[d].at = "write"
  /\ indexed' = worker[d].view
  /\ worker' = [worker EXCEPT ![d] = [at |-> "ok", view |-> NoView]]
  /\ UNCHANGED <<source, jobs, runtime, client, daemon, bounds>>

JobFails(d) ==
  /\ worker[d].at \in {"open", "read", "write"}
  /\ faults < MaxFaults
  /\ faults' = faults + 1
  /\ worker' = [worker EXCEPT ![d] = [at |-> "failed", view |-> NoView]]
  /\ UNCHANGED <<disk, jobs, runtime, client, daemon, edits, deaths, stops>>

DaemonDies(d) ==
  /\ daemon[d].at # "off"
  /\ deaths < MaxDeaths
  /\ deaths' = deaths + 1
  /\ daemon' = [daemon EXCEPT ![d] = OffDaemon]
  /\ worker' = [worker EXCEPT ![d] = NoWorker]
  /\ UNCHANGED <<disk, jobs, runtime, client, edits, faults, stops>>

-----------------------------------------------------------------------------
ClientStep(c) ==
  \/ Ensure(c) \/ TakeStartLock(c) \/ FindStale(c) \/ RemoveStale(c) \/ StartLockTimeout(c)
  \/ Spawn(c) \/ Await(c) \/ Put(c) \/ IndexLocally(c) \/ StopEnds(c)

Loop(d) ==
  \/ WritePID(d) \/ ClearFlag(d) \/ Scan(d) \/ Mark(d) \/ Count(d) \/ Check(d)
  \/ Tick(d) \/ Complete(d)

Work(d) == OpenSession(d) \/ ReadDoc(d) \/ WriteIndex(d)

Next ==
  \/ \E c \in Clients :
       \/ \E t \in Docs : Edit(c, t)
       \/ Connect(c) \/ RequestStop(c) \/ ClientStep(c) \/ ClientDies(c)
  \/ \E d \in Daemons : Loop(d) \/ Work(d) \/ JobFails(d) \/ DaemonDies(d)
  \/ \E k \in Keys : BecomeDue(k)

Spec == Init /\ [][Next]_vars

(* Processes run on, debounces end, and clients keep calling, also while   *)
(* others hold the lock and when it has become stale; a job that is done is noticed although the poll   *)
(* interval ends again and again.                                          *)
Fairness ==
  /\ \A c \in Clients :
       /\ WF_vars(Connect(c)) /\ WF_vars(ClientStep(c))
       /\ SF_vars(TakeStartLock(c)) /\ SF_vars(FindStale(c))
  /\ \A d \in Daemons : WF_vars(Loop(d)) /\ SF_vars(Complete(d)) /\ WF_vars(Work(d))
  /\ \A k \in Keys : WF_vars(BecomeDue(k))

FairSpec == Spec /\ Fairness

-----------------------------------------------------------------------------
(* The type invariant.                                                     *)
TypeOK ==
  /\ source \in [Docs -> 0 .. MaxEdits]
  /\ indexed \in [Docs -> 0 .. MaxEdits]
  /\ queue \in [Keys -> Job \cup {NoJob}]
  /\ due \in Seq(Keys) /\ \A i \in DOMAIN due : queue[due[i]] # NoJob
  /\ nextID \in 1 .. MaxID + 1
  /\ pidfile \in Daemons \cup {Nobody}
  /\ startLock \in Clients \cup {Nobody}
  /\ stopFlag \in BOOLEAN /\ stolen \in BOOLEAN
  /\ client \in [Clients -> [at: {"idle", "ensure", "lock", "stale", "spawn", "await", "put", "local",
                                  "localRead", "localWrite", "stopping"},
                             key: Keys \cup {NoKey}, view: [Docs -> 0 .. MaxEdits]]]
  /\ daemon \in [Daemons -> [at: {"off", "starting", "clearFlag", "scan", "mark", "count",
                                  "check", "select"},
                             idle: BOOLEAN, job: Job \cup {NoJob}]]
  /\ worker \in [Daemons -> [at: {"none", "open", "read", "write", "ok", "failed"},
                             view: [Docs -> 0 .. MaxEdits]]]
  /\ edits \in 0 .. MaxEdits /\ deaths \in 0 .. MaxDeaths
  /\ faults \in 0 .. MaxFaults /\ stops \in 0 .. MaxStops

(* Two daemons never execute the same job at once (what ARCHITECTURE.md    *)
(* says of the runtime's leases), unless a client has removed the start    *)
(* lock of another that is starting a daemon: then each of them starts     *)
(* one.  The queue itself does not prevent it: a job is picked whether it  *)
(* was started or not.                                                     *)
OneOwner ==
  \/ stolen
  \/ \A d1, d2 \in Daemons :
       (d1 # d2 /\ worker[d1].at # "none" /\ worker[d2].at # "none") =>
         daemon[d1].job.id # daemon[d2].job.id

(* What a worker, if it goes on undisturbed, will leave of a doc in the    *)
(* index.                                                                  *)
WillStore(d, t) ==
  CASE worker[d].at = "write" -> worker[d].view[t]
    [] worker[d].at = "read" /\ DocOf(daemon[d].job.key) # t -> worker[d].view[t]
    [] worker[d].at \in {"open", "read"} /\ daemon[d].job.key = <<"remove", t>> -> 0
    [] worker[d].at \in {"open", "read"} /\ daemon[d].job.key = <<"index", t>> -> source[t]
    [] OTHER -> indexed[t]

(* The job that brings the index up to date, and that it will: it is still  *)
(* to be run, or run again, or its worker will store the newest.           *)
Wanted(t) == <<IF source[t] = 0 THEN "remove" ELSE "index", t>>
Covered(t) ==
  LET j == queue[Wanted(t)] IN
  /\ j # NoJob
  /\ j.started =>
       \A d \in Daemons :
         (worker[d].at # "none" /\ daemon[d].job.id = j.id) =>
           worker[d].at \in {"open", "read", "write"} /\ WillStore(d, t) = source[t]

(* The index has the newest doc, and no worker is about to store another.  *)
UpToDate(t) ==
  /\ indexed[t] = source[t]
  /\ \A d \in Daemons : WillStore(d, t) = source[t]

(* Somebody is still to bring the index up to date when it is not: a client *)
(* on its way to the queue, or a job.                                      *)
Tracked(t) ==
  \/ UpToDate(t)
  \/ \E c \in Clients : client[c].key = Wanted(t)
  \/ Covered(t)

(* Two daemons have jobs at once, which takes a stolen start lock or a     *)
(* start that is slower than the starter waits.                            *)
TwoAtWork ==
  \E d1, d2 \in Daemons : d1 # d2 /\ worker[d1].at # "none" /\ worker[d2].at # "none"

(* A change is forgotten in six ways only: with the client that dies       *)
(* before it has queued it; by a job that fails; by a job that completes   *)
(* although it was requested again while it was running; by the removal of *)
(* a doc that was written again, which is queued only after the request of *)
(* the write was executed; by a client that found no runtime and stores    *)
(* what it read before; and by one of two daemons that work at once.  A    *)
(* daemon that is stopped, that dies or that exits for idleness, at        *)
(* whatever step, forgets none.                                            *)
ForgottenInKnownWays ==
  [][\A t \in Docs :
       (Tracked(t) /\ ~Tracked(t)') =>
         \/ \E c \in Clients : ClientDies(c) \/ IndexLocally(c)
         \/ \E d \in Daemons :
              \/ JobFails(d)
              \/ Complete(d) /\ ~queue[daemon[d].job.key].started
              \/ Mark(d) /\ daemon[d].job.key = <<"remove", t>> /\ source[t] # 0
         \/ TwoAtWork \/ TwoAtWork']_vars

(* A job that is in the queue is run and leaves the queue, whatever daemon *)
(* dies over it, starts later than its starter waits, or takes the PID file *)
(* of another away, provided that clients keep calling.                    *)
JobsAreRun == \A k \in Keys : queue[k] # NoJob ~> queue[k] = NoJob
=============================================================================
