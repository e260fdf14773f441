--------------------------- MODULE RuntimeQueueProofs ---------------------------
(***************************************************************************)
(* Proofs about RuntimeQueue, for any number of clients, daemons, docs,    *)
(* edits, deaths, faults and stops: when a daemon starts within the time   *)
(* its starter waits and no fresh start lock was stolen, there is one       *)
(* daemon at most and no job has two workers; and, however daemons start,  *)
(* the index forgets a change in the known ways only.                      *)
(***************************************************************************)
EXTENDS RuntimeQueue, SequenceTheorems, TLAPS

-----------------------------------------------------------------------------
(* Types.  (The bound of TypeOK on job IDs takes counting the requests; the *)
(* proofs do not need it.)                                                 *)

Versions == [Docs -> Nat]
QueuedJob == [id : Nat \ {0}, key : Keys, started : BOOLEAN]
Places ==
  {"idle", "ensure", "lock", "stale", "spawn", "await", "put", "local", "localRead", "localWrite", "stopping"}
Stations == {"off", "starting", "clearFlag", "scan", "mark", "count", "check", "select"}
ClientState ==
  [at : Places, key : Keys \cup {NoKey}, view : Versions]
DaemonState ==
  [at : Stations, idle : BOOLEAN, job : QueuedJob \cup {NoJob}]
WorkerState == [at : {"none", "open", "read", "write", "ok", "failed"}, view : Versions]

Types ==
  /\ source \in Versions /\ indexed \in Versions
  /\ queue \in [Keys -> QueuedJob \cup {NoJob}]
  /\ nextID \in Nat \ {0}
  /\ edits \in Nat
  /\ pidfile \in Daemons \cup {Nobody}
  /\ startLock \in Clients \cup {Nobody}
  /\ client \in [Clients -> ClientState]
  /\ daemon \in [Daemons -> DaemonState]
  /\ worker \in [Daemons -> WorkerState]

(* The due keys are different, and each has a job.                         *)
DueOK ==
  /\ due \in Seq(Keys)
  /\ \A i \in DOMAIN due : queue[due[i]] # NoJob
  /\ \A i, j \in DOMAIN due : due[i] = due[j] => i = j

(* IDs name jobs, also jobs that a daemon still holds and that are gone.    *)
IDsOK ==
  /\ \A k \in Keys : queue[k] # NoJob =>
       /\ queue[k].key = k /\ queue[k].id < nextID
       /\ \A l \in Keys : queue[l].id = queue[k].id => l = k
  /\ \A d \in Daemons : daemon[d].job # NoJob =>
       /\ daemon[d].job.id < nextID
       /\ \A k \in Keys : queue[k].id = daemon[d].job.id => k = daemon[d].job.key

(* A client that asks for nothing has no key; a daemon that marks a job has *)
(* one and no worker; a worker belongs to a daemon that goes round its loop *)
(* with its job.                                                           *)
PlacesOK ==
  /\ \A c \in Clients : client[c].at \in {"idle", "stopping"} => client[c].key = NoKey
  /\ \A d \in Daemons :
       /\ daemon[d].at = "mark" => daemon[d].job # NoJob /\ worker[d].at = "none"
       /\ worker[d].at # "none" => daemon[d].job # NoJob /\ daemon[d].at \in {"scan", "count", "check", "select"}

(* The client that starts a daemon has the lock until the daemon has its    *)
(* PID file, and the daemon with the PID file is the only one.             *)
OneDaemon ==
  /\ \A c \in Clients : client[c].at \in {"spawn", "await"} => startLock = c
  /\ \A d \in Daemons : daemon[d].at = "starting" =>
       pidfile # d /\ startLock # Nobody /\ client[startLock].at # "spawn"
  /\ \A d \in Daemons : daemon[d].at \notin {"off", "starting"} => pidfile = d
  /\ \A d, f \in Daemons : d # f => daemon[d].at = "off" \/ daemon[f].at = "off"

QueueInv == Types /\ DueOK /\ IDsOK /\ PlacesOK
SoleDaemon == stolen \/ OneDaemon

USE DEF Versions, Places, Stations

(* What every step is.                                                     *)
ClientActs(c) ==
  \/ \E t \in Docs : Edit(c, t)
  \/ Connect(c) \/ RequestStop(c) \/ Ensure(c) \/ TakeStartLock(c) \/ StartLockTimeout(c)
  \/ FindStale(c) \/ RemoveStale(c)
  \/ Spawn(c) \/ Await(c) \/ Put(c) \/ IndexLocally(c) \/ StopEnds(c) \/ ClientDies(c)
DaemonActs(d) ==
  \/ WritePID(d) \/ ClearFlag(d) \/ Scan(d) \/ Mark(d) \/ Count(d) \/ Check(d) \/ Tick(d)
  \/ Complete(d) \/ OpenSession(d) \/ ReadDoc(d) \/ WriteIndex(d) \/ JobFails(d) \/ DaemonDies(d)

LEMMA Cases ==
  ASSUME [Next]_vars
  PROVE  \/ UNCHANGED vars \/ (\E c \in Clients : ClientActs(c)) \/ (\E d \in Daemons : DaemonActs(d))
         \/ (\E k \in Keys : BecomeDue(k))
BY Zenon DEF Next, ClientActs, DaemonActs, ClientStep, Loop, Work

LEMMA KeyFacts ==
  /\ NoJob \notin QueuedJob /\ NoJob.id = 0 /\ NoJob.key = NoKey
  /\ \A j \in QueuedJob : j.id \in Nat \ {0} /\ j.key \in Keys /\ j.started \in BOOLEAN
  /\ \A t \in Docs : <<"index", t>> \in Keys /\ <<"remove", t>> \in Keys
  /\ \A k \in Keys : DocOf(k) \in Docs /\ (k = <<"index", DocOf(k)>> \/ k = <<"remove", DocOf(k)>>)
BY DEF NoJob, QueuedJob, Keys, Kinds, DocOf

LEMMA NoKeyIsNone == NoKey \notin Keys
<1>1. \A k \in Keys : Len(k) = 2
  BY DEF Keys
<1>2. Len(NoKey) = 0
  BY DEF NoKey
<1> QED BY <1>1, <1>2

LEMMA ClientMoved ==
  ASSUME Types, NEW c \in Clients, NEW place \in Places, ClientAt(c, place)
  PROVE  client' \in [Clients -> ClientState]
BY DEF Types, ClientAt, ClientState

LEMMA DaemonMoved ==
  ASSUME Types, NEW d \in Daemons, NEW place \in Stations, DaemonAt(d, place)
  PROVE  daemon' \in [Daemons -> DaemonState]
BY DEF Types, DaemonAt, DaemonState

-----------------------------------------------------------------------------
(* Type correctness.                                                       *)

LEMMA ClientTypes == ASSUME Types, NEW c \in Clients, ClientActs(c) PROVE Types'
<1>1. client[c] \in ClientState /\ NoView \in Versions /\ IdleClient \in ClientState
  BY DEF Types, ClientState, NoView, IdleClient
<1>2. ASSUME NEW t \in Docs, Edit(c, t) PROVE Types'
  <2>1. PICK key \in Keys : client' = [client EXCEPT ![c].at = "ensure", ![c].key = key]
    BY <1>2, KeyFacts DEF Edit
  <2>2. client' \in [Clients -> ClientState]
    BY <2>1 DEF Types, ClientState
  <2> QED BY <1>2, <2>2 DEF Types, Edit, jobs, runtime
<1>3. CASE Connect(c)
  BY <1>1, <1>3 DEF Types, Connect, ClientAt, ClientState, disk, jobs, runtime, bounds
<1>4. CASE RequestStop(c)
  BY <1>1, <1>4 DEF Types, RequestStop, ClientAt, ClientState, disk, jobs, start
<1>5. CASE Ensure(c)
  BY <1>1, <1>5 DEF Types, Ensure, ClientAt, ClientState, disk, jobs, runtime, bounds
<1>6. CASE TakeStartLock(c)
  BY <1>1, <1>6 DEF Types, TakeStartLock, ClientAt, ClientState, disk, jobs, bounds
<1>7. CASE StartLockTimeout(c)
  <2>1. PICK place \in {"put", "local"} : ClientAt(c, place)
    BY <1>7 DEF StartLockTimeout, Fallback
  <2> QED BY <1>7, <2>1, ClientMoved DEF Types, StartLockTimeout, disk, jobs, runtime, bounds
<1>8. CASE Spawn(c)
  <2>1. PICK place \in {"put", "await"} : ClientAt(c, place)
    BY <1>8 DEF Spawn
  <2>2. UNCHANGED daemon \/ \E d \in Daemons : DaemonAt(d, "starting")
    BY <1>8 DEF Spawn
  <2> QED BY <1>8, <2>1, <2>2, ClientMoved, DaemonMoved DEF Types, Spawn, disk, jobs, bounds
<1>9. CASE Await(c)
  <2>1. PICK place \in {"put", "local"} : ClientAt(c, place)
    BY <1>9 DEF Await, Fallback
  <2> QED BY <1>9, <2>1, ClientMoved DEF Types, Await, disk, jobs, bounds
<1>10. CASE Put(c)
  <2>1. /\ UNCHANGED <<disk, runtime, daemon, worker, bounds>>
        /\ client' = [client EXCEPT ![c] = IdleClient]
    BY <1>10 DEF Put
  <2>2. queue' \in [Keys -> QueuedJob \cup {NoJob}] /\ nextID' \in Nat \ {0}
    <3> DEFINE k == client[c].key
    <3>1. CASE k = NoKey \/ k \notin Keys
      BY <1>1, <1>10, <3>1 DEF Put, Types, jobs, ClientState
    <3>2. CASE k # NoKey /\ k \in Keys
      <4>1. CASE queue[k] = NoJob
        <5>1. [id |-> nextID, key |-> k, started |-> FALSE] \in QueuedJob
          BY <3>2 DEF Types, QueuedJob
        <5> QED BY <1>10, <3>2, <4>1, <5>1 DEF Put, Types
      <4>2. CASE queue[k] # NoJob
        <5>1. Requested(k) \in QueuedJob
          BY <3>2, <4>2 DEF Types, QueuedJob, Requested
        <5> QED BY <1>10, <3>2, <4>2, <5>1 DEF Put, Types
      <4> QED BY <4>1, <4>2
    <3> QED BY <3>1, <3>2
  <2> QED BY <1>1, <2>1, <2>2 DEF Types, disk, runtime, bounds
<1>11. CASE IndexLocally(c)
  <2>1. \A key : Reindexed(client[c].view, key) \in Versions
    BY <1>1 DEF Types, Reindexed, ClientState
  <2>2. PICK s \in ClientState : client' = [client EXCEPT ![c] = s]
    <3>1. [client[c] EXCEPT !.at = "localRead", !.view = indexed] \in ClientState
      BY <1>1 DEF Types, ClientState
    <3>2. [client[c] EXCEPT !.at = "localWrite", !.view = Reindexed(client[c].view, client[c].key)] \in ClientState
      BY <1>1, <2>1 DEF ClientState
    <3> QED BY <1>1, <1>11, <3>1, <3>2 DEF IndexLocally
  <2>3. client[c].view \in Versions
    BY <1>1 DEF ClientState
  <2> QED BY <1>11, <2>2, <2>3 DEF Types, IndexLocally, disk, jobs, runtime, bounds
<1>12. CASE StopEnds(c)
  BY <1>1, <1>12 DEF Types, StopEnds, ClientAt, ClientState, disk, jobs, start, bounds
<1>13. CASE ClientDies(c)
  BY <1>1, <1>13 DEF Types, ClientDies, disk, jobs, runtime
<1>14. CASE FindStale(c) \/ RemoveStale(c)
  <2>1. PICK place \in {"stale", "lock"} : ClientAt(c, place)
    BY <1>14 DEF FindStale, RemoveStale
  <2>2. UNCHANGED <<disk, jobs, pidfile, daemon, worker, bounds>> /\ startLock' \in {startLock, Nobody}
    BY <1>14 DEF FindStale, RemoveStale, runtime
  <2> QED BY <2>1, <2>2, ClientMoved DEF Types, disk, jobs, bounds
<1> QED
  BY <1>2, <1>3, <1>4, <1>5, <1>6, <1>7, <1>8, <1>9, <1>10, <1>11, <1>12, <1>13, <1>14 DEF ClientActs

LEMMA DaemonTypes == ASSUME Types, DueOK, NEW d \in Daemons, DaemonActs(d) PROVE Types'
<1>1. /\ daemon[d] \in DaemonState /\ OffDaemon \in DaemonState /\ NoView \in Versions
      /\ NoWorker \in WorkerState /\ worker[d] \in WorkerState
  BY DEF Types, DaemonState, OffDaemon, NoWorker, WorkerState, NoView
<1>2. CASE WritePID(d) \/ ClearFlag(d) \/ Count(d) \/ Tick(d)
  <2>1. daemon' \in [Daemons -> DaemonState]
    BY <1>1, <1>2 DEF Types, WritePID, ClearFlag, Count, Tick, DaemonAt, DaemonState
  <2> QED BY <1>2, <2>1 DEF Types, WritePID, ClearFlag, Count, Tick, disk, jobs, start, runtime, bounds
<1>3. CASE Scan(d)
  <2>1. due # <<>> => queue[Head(due)] \in QueuedJob
    BY DEF Types, DueOK
  <2>2. daemon' \in [Daemons -> DaemonState]
    <3>1. CASE DaemonAt(d, "count")
      BY <3>1, DaemonMoved
    <3>2. CASE Ready # <<>> /\ daemon' = [daemon EXCEPT ![d].at = "mark", ![d].job = queue[Head(Ready)]]
      BY <1>1, <2>1, <3>2 DEF Types, DaemonState, Ready
    <3> QED BY <1>3, <3>1, <3>2 DEF Scan
  <2> QED BY <1>3, <2>2 DEF Types, Scan, disk, jobs, runtime, bounds
<1>4. CASE Mark(d)
  <2> DEFINE j == daemon[d].job
  <2>1. queue' \in [Keys -> QueuedJob \cup {NoJob}]
    <3>1. CASE queue' = queue
      BY <3>1 DEF Types
    <3>2. CASE queue' # queue
      <4>1. queue' = [queue EXCEPT ![j.key].started = TRUE] /\ queue[j.key].id = j.id
        BY <1>4, <3>2 DEF Mark
      <4>2. j.key \in Keys
        BY <3>2, <4>1 DEF Types
      <4>3. queue[j.key] # NoJob
        BY <1>1, <4>1, <4>2, KeyFacts, NoKeyIsNone DEF DaemonState
      <4> QED BY <4>1, <4>2, <4>3 DEF Types, QueuedJob
    <3> QED BY <3>1, <3>2
  <2>2. daemon' \in [Daemons -> DaemonState]
    BY <1>1, <1>4 DEF Types, Mark, DaemonAt, DaemonState
  <2>3. worker' \in [Daemons -> WorkerState]
    <3>1. [worker[d] EXCEPT !.at = "open"] \in WorkerState
      BY <1>1 DEF WorkerState
    <3>2. UNCHANGED worker \/ worker' = [worker EXCEPT ![d] = [worker[d] EXCEPT !.at = "open"]]
      BY <1>4 DEF Mark
    <3> QED BY <3>1, <3>2 DEF Types
  <2> QED BY <1>4, <2>1, <2>2, <2>3 DEF Types, Mark, disk, runtime, bounds
<1>5. CASE Check(d)
  BY <1>1, <1>5 DEF Types, Check, Exit, DaemonAt, DaemonState, disk, jobs, start, bounds
<1>6. CASE Complete(d)
  BY <1>1, <1>6 DEF Types, Complete, DaemonState, disk, runtime, bounds
<1>7. CASE OpenSession(d) \/ WriteIndex(d) \/ JobFails(d)
  BY <1>1, <1>7 DEF Types, OpenSession, WriteIndex, JobFails, WorkerState, disk, jobs, runtime, bounds
<1>8. CASE ReadDoc(d)
  <2>1. \A key : Reindexed(worker[d].view, key) \in Versions
    BY <1>1 DEF Types, Reindexed, WorkerState
  <2> QED BY <1>1, <1>8, <2>1 DEF Types, ReadDoc, WorkerState, disk, jobs, runtime, bounds
<1>9. CASE DaemonDies(d)
  BY <1>1, <1>9 DEF Types, DaemonDies, disk, jobs, runtime
<1> QED
  BY <1>2, <1>3, <1>4, <1>5, <1>6, <1>7, <1>8, <1>9 DEF DaemonActs

LEMMA TypesStep == ASSUME Types, DueOK, [Next]_vars PROVE Types'
<1>1. CASE UNCHANGED vars
  BY <1>1 DEF Types, vars
<1>2. ASSUME NEW k \in Keys, BecomeDue(k) PROVE Types'
  BY <1>2 DEF Types, BecomeDue, disk, runtime, bounds
<1> QED
  BY <1>1, <1>2, Cases, ClientTypes, DaemonTypes

-----------------------------------------------------------------------------
(* The due keys.                                                           *)

Different(w) == \A i, j \in DOMAIN w : w[i] = w[j] => i = j
NotIn(k, w) == \A i \in DOMAIN w : w[i] # k

LEMMA WithoutKey ==
  ASSUME due \in Seq(Keys), Different(due), NEW k \in Keys
  PROVE  /\ Without(k) \in Seq(Keys) /\ Different(Without(k)) /\ NotIn(k, Without(k))
         /\ \A i \in DOMAIN Without(k) : \E j \in DOMAIN due : Without(k)[i] = due[j]
<1>1. CASE ~\E i \in DOMAIN due : due[i] = k
  BY <1>1 DEF Without, NotIn
<1>2. CASE \E i \in DOMAIN due : due[i] = k
  <2> DEFINE i == CHOOSE i \in DOMAIN due : due[i] = k
             w == [n \in 1 .. Len(due) - 1 |-> due[IF n < i THEN n ELSE n + 1]]
  <2>1. i \in DOMAIN due /\ due[i] = k
    BY <1>2
  <2>2. Without(k) = w
    BY <1>2 DEF Without
  <2> HIDE DEF i
  <2>3. DOMAIN due = 1 .. Len(due) /\ Len(due) \in Nat /\ Len(due) - 1 \in Nat /\ i \in 1 .. Len(due)
    BY <2>1
  <2>4. ASSUME NEW n \in 1 .. Len(due) - 1
        PROVE  (IF n < i THEN n ELSE n + 1) \in DOMAIN due \ {i}
    BY <2>3
  <2>5. w \in Seq(Keys)
    <3>1. \A n \in 1 .. Len(due) - 1 : due[IF n < i THEN n ELSE n + 1] \in Keys
      BY <2>4, <2>3
    <3> QED BY <2>3, <3>1, IsASeq
  <2>6. DOMAIN w = 1 .. Len(due) - 1 /\ \A n \in 1 .. Len(due) - 1 : w[n] = due[IF n < i THEN n ELSE n + 1]
    OBVIOUS
  <2> HIDE DEF w
  <2>7. NotIn(k, w)
    BY <2>1, <2>4, <2>6 DEF NotIn, Different
  <2>8. Different(w)
    <3> SUFFICES ASSUME NEW m \in DOMAIN w, NEW n \in DOMAIN w, w[m] = w[n] PROVE m = n
      BY DEF Different
    <3>1. (IF m < i THEN m ELSE m + 1) = (IF n < i THEN n ELSE n + 1)
      BY <2>4, <2>6 DEF Different
    <3> QED BY <2>3, <2>6, <3>1
  <2>9. \A n \in DOMAIN w : \E j \in DOMAIN due : w[n] = due[j]
    BY <2>4, <2>6
  <2> QED BY <2>2, <2>5, <2>7, <2>8, <2>9
<1> QED BY <1>1, <1>2

LEMMA AppendKey ==
  ASSUME NEW w \in Seq(Keys), Different(w), NEW k \in Keys, NotIn(k, w)
  PROVE  /\ Append(w, k) \in Seq(Keys) /\ Different(Append(w, k))
         /\ \A i \in DOMAIN Append(w, k) : Append(w, k)[i] = k \/ \E j \in DOMAIN w : Append(w, k)[i] = w[j]
<1>1. /\ Len(w) \in Nat /\ DOMAIN w = 1 .. Len(w) /\ Append(w, k) \in Seq(Keys)
      /\ DOMAIN Append(w, k) = 1 .. Len(w) + 1 /\ Append(w, k)[Len(w) + 1] = k
      /\ \A i \in DOMAIN w : Append(w, k)[i] = w[i]
  OBVIOUS
<1> QED BY <1>1 DEF Different, NotIn

LEMMA DueStep == ASSUME Types, DueOK, [Next]_vars PROVE DueOK'
<1>1. CASE UNCHANGED <<due, queue>>
  BY <1>1 DEF DueOK
<1>2. ASSUME NEW k \in Keys, BecomeDue(k) PROVE DueOK'
  <2>1. due' = Append(due, k) /\ queue' = queue /\ queue[k] # NoJob /\ NotIn(k, due) /\ Different(due)
    BY <1>2 DEF BecomeDue, NotIn, Different, DueOK
  <2> QED BY <2>1, AppendKey DEF DueOK, Different
<1>3. ASSUME NEW c \in Clients, Put(c), client[c].key # NoKey PROVE DueOK'
  <2> DEFINE k == client[c].key
  <2>1. k \in Keys
    BY <1>3 DEF Types, ClientState
  <2>2. /\ Without(k) \in Seq(Keys) /\ Different(Without(k)) /\ NotIn(k, Without(k))
        /\ \A i \in DOMAIN Without(k) : queue[Without(k)[i]] # NoJob
    BY <2>1, WithoutKey DEF DueOK, Different
  <2>3. due' = Without(k) \/ due' = Append(Without(k), k)
    BY <1>3 DEF Put
  <2>4. \A l \in Keys : queue[l] # NoJob \/ l = k => queue'[l] # NoJob
    <3>1. CASE queue[k] = NoJob
      <4>1. queue' = [queue EXCEPT ![k] = [id |-> nextID, key |-> k, started |-> FALSE]]
        BY <1>3, <3>1 DEF Put
      <4>2. [id |-> nextID, key |-> k, started |-> FALSE].id # NoJob.id
        BY KeyFacts DEF Types
      <4> QED BY <2>1, <4>1, <4>2 DEF Types
    <3>2. CASE queue[k] # NoJob
      <4>1. queue' = [queue EXCEPT ![k] = Requested(k)]
        BY <1>3, <3>2 DEF Put
      <4>2. Requested(k) \in QueuedJob
        BY <2>1, <3>2 DEF Requested, Types, QueuedJob
      <4> QED BY <2>1, <4>1, <4>2, KeyFacts DEF Types
    <3> QED BY <3>1, <3>2
  <2> HIDE DEF k
  <2>5. due' \in Seq(Keys) /\ Different(due')
        /\ \A i \in DOMAIN due' : due'[i] = k \/ \E j \in DOMAIN Without(k) : due'[i] = Without(k)[j]
    <3>1. CASE due' = Without(k)
      BY <2>2, <3>1
    <3>2. CASE due' = Append(Without(k), k)
      BY <2>1, <2>2, <3>2, AppendKey
    <3> QED BY <2>3, <3>1, <3>2
  <2>6. \A i \in DOMAIN due' : queue'[due'[i]] # NoJob
    BY <2>1, <2>2, <2>4, <2>5
  <2> QED BY <2>5, <2>6 DEF DueOK, Different
<1>4. ASSUME NEW d \in Daemons, Mark(d) PROVE DueOK'
  <2>1. due' = due /\ (queue' = queue \/ queue' = [queue EXCEPT ![daemon[d].job.key].started = TRUE])
    BY <1>4 DEF Mark
  <2>2. \A l \in Keys : queue[l] # NoJob => queue'[l] # NoJob
    <3>1. ASSUME NEW j \in QueuedJob PROVE [j EXCEPT !.started = TRUE] \in QueuedJob
      BY DEF QueuedJob
    <3> QED BY <2>1, <3>1, KeyFacts DEF Types
  <2> QED BY <2>1, <2>2 DEF DueOK
<1>5. ASSUME NEW d \in Daemons, Complete(d), ~UNCHANGED <<due, queue>> PROVE DueOK'
  <2> DEFINE k == daemon[d].job.key
  <2>1. queue' = [queue EXCEPT ![k] = NoJob] /\ due' = Without(k)
    BY <1>5 DEF Complete
  <2>2. CASE k \in Keys
    <3>1. /\ Without(k) \in Seq(Keys) /\ Different(Without(k)) /\ NotIn(k, Without(k))
          /\ \A i \in DOMAIN Without(k) : queue[Without(k)[i]] # NoJob
      BY <2>2, WithoutKey DEF DueOK, Different
    <3> HIDE DEF k
    <3>2. \A i \in DOMAIN Without(k) : Without(k)[i] \in Keys
      BY <3>1
    <3> QED BY <2>1, <2>2, <3>1, <3>2 DEF DueOK, Different, NotIn, Types
  <2>3. CASE k \notin Keys
    <3>1. queue' = queue
      BY <2>1, <2>3 DEF Types
    <3>2. due' = due
      BY <2>1, <2>3 DEF Without, DueOK
    <3> QED BY <3>1, <3>2 DEF DueOK
  <2> QED BY <2>2, <2>3
<1>6. ASSUME ~UNCHANGED <<due, queue>>
      PROVE  \/ \E k \in Keys : BecomeDue(k)
             \/ \E c \in Clients : Put(c) /\ client[c].key # NoKey
             \/ \E d \in Daemons : Mark(d) \/ Complete(d)
  <2>1. ~UNCHANGED vars
    BY <1>6 DEF vars, jobs
  <2>2. ASSUME NEW c \in Clients, ClientActs(c) PROVE Put(c) /\ client[c].key # NoKey
    BY <1>6, <2>2, Zenon DEF ClientActs, Edit, Connect, RequestStop, Ensure, TakeStartLock, FindStale, RemoveStale, StartLockTimeout,
       Spawn, Await, Put, IndexLocally, StopEnds, ClientDies, jobs
  <2>3. ASSUME NEW d \in Daemons, DaemonActs(d) PROVE Mark(d) \/ Complete(d)
    BY <1>6, <2>3, Zenon DEF DaemonActs, WritePID, ClearFlag, Scan, Count, Check, Tick, OpenSession,
       ReadDoc, WriteIndex, JobFails, DaemonDies, jobs
  <2> QED BY <2>1, <2>2, <2>3, Cases
<1> QED BY <1>1, <1>2, <1>3, <1>4, <1>5, <1>6

-----------------------------------------------------------------------------
(* The IDs of jobs.                                                        *)

(* A step that only forgets what queue and daemons had.                    *)
LEMMA IDsFrame ==
  ASSUME Types, Types', IDsOK, nextID <= nextID',
         \A k \in Keys : queue'[k] = NoJob \/ (queue'[k].key = queue[k].key /\ queue'[k].id = queue[k].id /\ queue[k] # NoJob),
         \A d \in Daemons : daemon'[d].job = NoJob \/ daemon'[d].job = daemon[d].job
  PROVE  IDsOK'
<1>1. ASSUME NEW k \in Keys, queue'[k] # NoJob
      PROVE  /\ queue'[k].key = k /\ queue'[k].id < nextID'
             /\ \A l \in Keys : queue'[l].id = queue'[k].id => l = k
  <2>1. queue[k].id \in Nat \ {0} /\ queue[k].id < nextID /\ queue'[k].id = queue[k].id
    BY <1>1, KeyFacts DEF Types, IDsOK
  <2>2. \A l \in Keys : queue'[l].id = 0 \/ queue'[l].id = queue[l].id
    BY KeyFacts
  <2> QED BY <1>1, <2>1, <2>2 DEF IDsOK, Types
<1>2. ASSUME NEW d \in Daemons, daemon'[d].job # NoJob
      PROVE  /\ daemon'[d].job.id < nextID'
             /\ \A k \in Keys : queue'[k].id = daemon'[d].job.id => k = daemon'[d].job.key
  <2>1. daemon'[d].job = daemon[d].job /\ daemon[d].job.id \in Nat \ {0}
    BY <1>2, KeyFacts DEF Types, DaemonState
  <2>2. \A l \in Keys : queue'[l].id = 0 \/ queue'[l].id = queue[l].id
    BY KeyFacts
  <2> QED BY <1>2, <2>1, <2>2 DEF IDsOK, Types
<1> QED BY <1>1, <1>2 DEF IDsOK

LEMMA IDsStep == ASSUME Types, Types', DueOK, IDsOK, [Next]_vars PROVE IDsOK'
<1>1. ASSUME nextID <= nextID',
             \A k \in Keys : queue'[k] = NoJob \/ (queue'[k].key = queue[k].key /\ queue'[k].id = queue[k].id /\ queue[k] # NoJob),
             \A d \in Daemons : daemon'[d].job = NoJob \/ daemon'[d].job = daemon[d].job
      PROVE  IDsOK'
  BY <1>1, IDsFrame
<1>2. CASE UNCHANGED vars
  BY <1>2, <1>1 DEF vars, Types
<1>3. CASE \E k \in Keys : BecomeDue(k)
  BY <1>3, <1>1 DEF Types, BecomeDue, jobs
<1>4. ASSUME NEW c \in Clients, ClientActs(c), UNCHANGED jobs PROVE IDsOK'
  <2>1. \A d \in Daemons : daemon'[d].job = daemon[d].job
    <3>1. CASE UNCHANGED daemon
      BY <3>1
    <3>2. CASE \E d \in Daemons : DaemonAt(d, "starting")
      BY <3>2 DEF DaemonAt, Types, DaemonState
    <3> QED BY <1>4, <3>1, <3>2, Zenon DEF ClientActs, Edit, Connect, RequestStop, Ensure, TakeStartLock, FindStale, RemoveStale, StartLockTimeout,
           Spawn, Await, Put, IndexLocally, StopEnds, ClientDies
  <2> QED BY <1>4, <2>1, <1>1 DEF Types, jobs
<1>5. ASSUME NEW c \in Clients, Put(c), ~UNCHANGED jobs PROVE IDsOK'
  <2> DEFINE k == client[c].key
  <2>1. k \in Keys /\ UNCHANGED daemon
    BY <1>5 DEF Put, Types, ClientState
  <2>2. CASE queue[k] = NoJob
    <3> DEFINE j == [id |-> nextID, key |-> k, started |-> FALSE]
    <3>1. queue' = [queue EXCEPT ![k] = j] /\ nextID' = nextID + 1
      BY <1>5, <2>2 DEF Put
    <3>2. j.id = nextID /\ j.key = k /\ j # NoJob
      BY KeyFacts DEF Types
    <3> HIDE DEF j, k
    <3>3. queue'[k] = j /\ (\A l \in Keys : l # k => queue'[l] = queue[l]) /\ nextID \in Nat \ {0}
      BY <2>1, <3>1 DEF Types
    <3>4. \A l \in Keys : queue[l].id < nextID
      BY <3>3, KeyFacts DEF IDsOK, Types
    <3>5. \A d \in Daemons : daemon[d].job.id < nextID
      BY <3>3, KeyFacts DEF IDsOK, Types
    <3>6. \A l \in Keys : queue[l].id \in Nat
      BY KeyFacts DEF Types
    <3>7. \A d \in Daemons : daemon[d].job.id \in Nat
      BY KeyFacts DEF Types, DaemonState
    <3> QED BY <2>1, <3>1, <3>2, <3>3, <3>4, <3>5, <3>6, <3>7 DEF IDsOK
  <2>3. CASE queue[k] # NoJob
    <3>1. queue' = [queue EXCEPT ![k] = Requested(k)] /\ nextID' = nextID
      BY <1>5, <2>3 DEF Put, jobs
    <3>2. Requested(k).id = queue[k].id /\ Requested(k).key = queue[k].key
      BY <2>1, <2>3 DEF Requested, Types, QueuedJob
    <3> HIDE DEF k
    <3> QED BY <1>1, <2>1, <2>3, <3>1, <3>2 DEF Types
  <2> QED BY <2>2, <2>3
<1>6. ASSUME NEW d \in Daemons, Scan(d) PROVE IDsOK'
  <2>1. UNCHANGED <<queue, nextID>>
    BY <1>6 DEF Scan, jobs
  <2>2. CASE daemon'[d].job = daemon[d].job
    <3>1. \A e \in Daemons : daemon'[e].job = daemon[e].job
      BY <1>6, <2>2 DEF Scan, DaemonAt, Types
    <3> QED BY <1>1, <2>1, <3>1 DEF Types
  <2>3. CASE daemon'[d].job # daemon[d].job
    <3>1. Ready # <<>> /\ daemon' = [daemon EXCEPT ![d].at = "mark", ![d].job = queue[Head(Ready)]]
      BY <1>6, <2>3 DEF Scan, DaemonAt, Types, DaemonState
    <3>2. Head(due) \in Keys /\ queue[Head(due)] # NoJob
      BY <3>1 DEF Ready, DueOK
    <3>3. daemon'[d].job = queue[Head(due)] /\ \A e \in Daemons : e # d => daemon'[e] = daemon[e]
      BY <3>1 DEF Types, Ready, DaemonState
    <3>4. daemon'[d].job.id < nextID /\ \A l \in Keys : queue[l].id = daemon'[d].job.id => l = daemon'[d].job.key
      BY <3>2, <3>3 DEF IDsOK
    <3> QED BY <2>1, <3>3, <3>4 DEF IDsOK
  <2> QED BY <2>2, <2>3
<1>7. ASSUME NEW d \in Daemons, DaemonActs(d), ~Scan(d) PROVE IDsOK'
  <2>1. nextID' = nextID
    BY <1>7, Zenon DEF DaemonActs, WritePID, ClearFlag, Mark, Count, Check, Tick, Complete, OpenSession, ReadDoc,
       WriteIndex, JobFails, DaemonDies, jobs
  <2>2. \A k \in Keys : queue'[k] = NoJob \/ (queue'[k].key = queue[k].key /\ queue'[k].id = queue[k].id /\ queue[k] # NoJob)
    <3>1. CASE UNCHANGED queue
      BY <3>1
    <3>2. CASE Mark(d) /\ ~UNCHANGED queue
      <4>1. queue' = [queue EXCEPT ![daemon[d].job.key].started = TRUE]
        BY <3>2 DEF Mark
      <4>2. ASSUME NEW j \in QueuedJob \cup {NoJob}
            PROVE  [j EXCEPT !.started = TRUE].id = j.id /\ [j EXCEPT !.started = TRUE].key = j.key
        BY DEF QueuedJob, NoJob
      <4>3. \A k \in Keys : queue'[k].id = queue[k].id /\ queue'[k].key = queue[k].key
        BY <4>1, <4>2 DEF Types
      <4>4. \A k \in Keys : queue'[k] # NoJob => queue[k] # NoJob
        BY <4>3, KeyFacts DEF Types
      <4> QED BY <4>3, <4>4
    <3>3. CASE Complete(d)
      BY <3>3 DEF Complete, Types
    <3> QED BY <1>7, <3>1, <3>2, <3>3, Zenon DEF DaemonActs, WritePID, ClearFlag, Count, Check, Tick, OpenSession, ReadDoc,
       WriteIndex, JobFails, DaemonDies, jobs
  <2>3. \A e \in Daemons : daemon'[e].job = NoJob \/ daemon'[e].job = daemon[e].job
    <3>1. CASE UNCHANGED daemon
      BY <3>1
    <3>2. ASSUME NEW x, DaemonAt(d, x) PROVE \A e \in Daemons : daemon'[e].job = daemon[e].job
      BY <3>2 DEF DaemonAt, Types, DaemonState
    <3>3. CASE Count(d) \/ Mark(d) \/ Complete(d)
      BY <3>2, <3>3 DEF Count, Mark, Complete, Types, DaemonState
    <3>4. CASE Check(d) \/ DaemonDies(d)
      BY <3>2, <3>4 DEF Check, Exit, DaemonDies, OffDaemon, Types
    <3>5. CASE WritePID(d) \/ ClearFlag(d) \/ Tick(d)
      BY <3>2, <3>5 DEF WritePID, ClearFlag, Tick
    <3> QED BY <1>7, <3>1, <3>3, <3>4, <3>5, Zenon DEF DaemonActs, OpenSession, ReadDoc, WriteIndex, JobFails
  <2> QED BY <1>1, <2>1, <2>2, <2>3 DEF Types
<1>8. ASSUME NEW c \in Clients, ClientActs(c) PROVE UNCHANGED jobs \/ Put(c)
  BY <1>8, Zenon DEF ClientActs, Edit, Connect, RequestStop, Ensure, TakeStartLock, FindStale, RemoveStale, StartLockTimeout,
     Spawn, Await, IndexLocally, StopEnds, ClientDies
<1> QED BY <1>2, <1>3, <1>4, <1>5, <1>6, <1>7, <1>8, Cases

-----------------------------------------------------------------------------
(* Where clients, daemons and workers stand.                               *)

(* The steps of a client, and how much of it they change.                   *)
LEMMA ClientAlone ==
  ASSUME Types, NEW c \in Clients, ClientActs(c)
  PROVE  \A b \in Clients \ {c} : client'[b] = client[b]
<1>1. ASSUME NEW t \in Docs, Edit(c, t) PROVE \A b \in Clients \ {c} : client'[b] = client[b]
  BY <1>1 DEF Edit, Types
<1>2. ASSUME NEW place, ClientAt(c, place) PROVE \A b \in Clients \ {c} : client'[b] = client[b]
  BY <1>2 DEF ClientAt, Types
<1>3. CASE Put(c) \/ IndexLocally(c) \/ ClientDies(c)
  BY <1>3 DEF Put, IndexLocally, ClientDies, Types
<1> QED
  BY <1>1, <1>2, <1>3, Zenon DEF ClientActs, Connect, RequestStop, Ensure, TakeStartLock, FindStale, RemoveStale, StartLockTimeout,
     Fallback, Spawn, Await, StopEnds

LEMMA ClientQuiet ==
  ASSUME Types, NEW c \in Clients, ClientActs(c), ~TakeStartLock(c), ~RemoveStale(c), ~Spawn(c), ~Await(c)
  PROVE  UNCHANGED <<daemon, worker, pidfile, startLock, stolen>> /\ client'[c].at \notin {"spawn", "await"}
<1>1. UNCHANGED <<daemon, worker, pidfile, startLock, stolen>>
  BY Zenon DEF ClientActs, Edit, Connect, RequestStop, Ensure, FindStale, StartLockTimeout, Put, IndexLocally,
     StopEnds, ClientDies, runtime, start
<1>2. ASSUME NEW t \in Docs, Edit(c, t) PROVE client'[c].at \notin {"spawn", "await"}
  BY <1>2 DEF Edit, Types, ClientState
<1>3. ASSUME NEW place, ClientAt(c, place) PROVE client'[c].at = place
  BY <1>3 DEF ClientAt, Types, ClientState
<1>4. ASSUME NEW s, client' = [client EXCEPT ![c] = s] PROVE client'[c] = s
  BY <1>4 DEF Types
<1>5. IdleClient.at = "idle"
  BY DEF IdleClient
<1>6. CASE Put(c) \/ ClientDies(c)
  BY <1>1, <1>4, <1>5, <1>6 DEF Put, ClientDies
<1>7. CASE IndexLocally(c)
  <2>1. client[c] \in ClientState
    BY DEF Types
  <2>2. PICK s \in {IdleClient, [client[c] EXCEPT !.at = "localRead", !.view = indexed],
                   [client[c] EXCEPT !.at = "localWrite", !.view = Reindexed(client[c].view, client[c].key)]} :
          client' = [client EXCEPT ![c] = s]
    BY <1>7 DEF IndexLocally
  <2>3. s.at \in {"idle", "localRead", "localWrite"}
    BY <1>5, <2>1, <2>2 DEF ClientState
  <2> QED BY <1>1, <1>4, <2>2, <2>3
<1>8. CASE Connect(c) \/ RequestStop(c) \/ Ensure(c) \/ FindStale(c) \/ StartLockTimeout(c) \/ StopEnds(c)
  <2>1. \E place \in {"ensure", "stopping", "put", "lock", "stale", "local", "idle"} : ClientAt(c, place)
    BY <1>8 DEF Connect, RequestStop, Ensure, FindStale, StartLockTimeout, StopEnds, Fallback
  <2> QED BY <1>1, <1>3, <2>1
<1> QED BY <1>1, <1>2, <1>6, <1>7, <1>8 DEF ClientActs

(* Daemons that are off stay off, but for the one a client starts.          *)
LEMMA DaemonAlone ==
  ASSUME Types, NEW d \in Daemons, DaemonActs(d)
  PROVE  /\ \A e \in Daemons \ {d} : daemon'[e] = daemon[e] /\ worker'[e] = worker[e]
         /\ UNCHANGED <<client, startLock, stolen>>
<1>1. UNCHANGED <<client, startLock, stolen>>
  BY Zenon DEF DaemonActs, WritePID, ClearFlag, Scan, Mark, Count, Check, Tick, Complete, OpenSession, ReadDoc,
     WriteIndex, JobFails, DaemonDies, runtime, start
<1>2. ASSUME NEW place, DaemonAt(d, place) PROVE \A e \in Daemons \ {d} : daemon'[e] = daemon[e]
  BY <1>2 DEF DaemonAt, Types
<1>3. \A e \in Daemons \ {d} : daemon'[e] = daemon[e]
  <2>1. CASE WritePID(d) \/ ClearFlag(d) \/ Tick(d)
    BY <1>2, <2>1 DEF WritePID, ClearFlag, Tick
  <2>2. CASE Scan(d) \/ Mark(d)
    BY <1>2, <2>2 DEF Scan, Mark, Types
  <2>3. CASE Count(d) \/ Complete(d) \/ DaemonDies(d)
    BY <2>3 DEF Count, Complete, DaemonDies, Types
  <2>4. CASE Check(d)
    BY <1>2, <2>4 DEF Check, Exit, Types
  <2>5. CASE OpenSession(d) \/ ReadDoc(d) \/ WriteIndex(d) \/ JobFails(d)
    BY <2>5 DEF OpenSession, ReadDoc, WriteIndex, JobFails
  <2> QED BY <2>1, <2>2, <2>3, <2>4, <2>5 DEF DaemonActs
<1>4. \A e \in Daemons \ {d} : worker'[e] = worker[e]
  <2>1. CASE WritePID(d) \/ ClearFlag(d) \/ Tick(d) \/ Scan(d) \/ Count(d)
    BY <2>1 DEF WritePID, ClearFlag, Tick, Scan, Count
  <2>2. CASE Mark(d) \/ Check(d) \/ Complete(d) \/ DaemonDies(d)
    BY <2>2 DEF Mark, Check, Exit, Complete, DaemonDies, Types
  <2>3. CASE OpenSession(d) \/ ReadDoc(d) \/ WriteIndex(d) \/ JobFails(d)
    BY <2>3 DEF OpenSession, ReadDoc, WriteIndex, JobFails, Types
  <2> QED BY <2>1, <2>2, <2>3 DEF DaemonActs
<1> QED BY <1>1, <1>3, <1>4

LEMMA DaemonGoes ==
  ASSUME Types, PlacesOK, NEW d \in Daemons, DaemonActs(d)
  PROVE  /\ daemon[d].at # "off"
         /\ \/ UNCHANGED pidfile /\ daemon'[d].at = daemon[d].at
            \/ UNCHANGED pidfile /\ {daemon[d].at, daemon'[d].at} \intersect {"off", "starting"} = {}
            \/ daemon'[d].at = "off" /\ pidfile' \in {pidfile, Nobody}
            \/ daemon[d].at = "starting" /\ daemon'[d].at = "clearFlag" /\ pidfile' = d
<1>0. ASSUME NEW place, DaemonAt(d, place) PROVE daemon'[d].at = place
  BY <1>0 DEF DaemonAt, Types, DaemonState
<1>1. CASE WritePID(d)
  BY <1>0, <1>1 DEF WritePID
<1>2. CASE ClearFlag(d) \/ Scan(d) \/ Mark(d) \/ Count(d) \/ Tick(d) \/ Complete(d)
  BY <1>0, <1>2 DEF ClearFlag, Scan, Mark, Count, Tick, Complete, runtime, Types, DaemonState
<1>3. CASE Check(d)
  BY <1>0, <1>3 DEF Check, Exit, OffDaemon, Types, DaemonState
<1>4. CASE OpenSession(d) \/ ReadDoc(d) \/ WriteIndex(d) \/ JobFails(d)
  <2>1. worker[d].at # "none"
    BY <1>4 DEF OpenSession, ReadDoc, WriteIndex, JobFails
  <2>2. UNCHANGED <<pidfile, daemon>>
    BY <1>4 DEF OpenSession, ReadDoc, WriteIndex, JobFails, runtime
  <2> QED BY <2>1, <2>2 DEF PlacesOK
<1>5. CASE DaemonDies(d)
  BY <1>5 DEF DaemonDies, OffDaemon, Types, runtime
<1> QED BY <1>1, <1>2, <1>3, <1>4, <1>5 DEF DaemonActs

LEMMA OneDaemonStep ==
  ASSUME ~SlowStart, Types, Types', PlacesOK, OneDaemon, [Next]_vars PROVE OneDaemon' \/ stolen'
<1>0. Nobody \notin Clients /\ Nobody \notin Daemons
  BY ProcessAssumption
<1>1. CASE UNCHANGED vars
  BY <1>1 DEF OneDaemon, vars
<1>2. ASSUME NEW k \in Keys, BecomeDue(k) PROVE OneDaemon'
  BY <1>2 DEF OneDaemon, BecomeDue, runtime
<1>3. ASSUME NEW c \in Clients, RemoveStale(c), ~stolen' PROVE OneDaemon'
  <2>1. /\ startLock = Nobody \/ LockIsStale
        /\ startLock' = Nobody /\ UNCHANGED <<daemon, pidfile>>
    BY <1>3 DEF RemoveStale
  <2>2. client'[c].at = "lock" /\ \A b \in Clients \ {c} : client'[b] = client[b]
    BY <1>3 DEF RemoveStale, ClientAt, Types, ClientState
  <2>3. /\ \A d \in Daemons : daemon[d].at # "starting"
        /\ \A b \in Clients \ {c} : client[b].at \notin {"spawn", "await"}
    <3>1. CASE startLock = Nobody
      BY <1>0, <3>1 DEF OneDaemon
    <3>2. CASE LockIsStale
      BY <3>2 DEF OneDaemon, LockIsStale
    <3> QED BY <2>1, <3>1, <3>2
  <2> QED BY <2>1, <2>2, <2>3 DEF OneDaemon
<1>4. ASSUME NEW c \in Clients, ClientActs(c), ~TakeStartLock(c), ~RemoveStale(c), ~Spawn(c), ~Await(c) PROVE OneDaemon'
  <2>1. /\ UNCHANGED <<daemon, pidfile, startLock>> /\ client'[c].at \notin {"spawn", "await"}
        /\ \A b \in Clients \ {c} : client'[b] = client[b]
    BY <1>4, ClientQuiet, ClientAlone
  <2> QED BY <1>0, <2>1 DEF OneDaemon, Types
<1>5. ASSUME NEW c \in Clients, TakeStartLock(c) PROVE OneDaemon'
  <2>1. /\ startLock = Nobody /\ startLock' = c /\ UNCHANGED <<daemon, pidfile>> /\ client'[c].at = "spawn"
        /\ \A b \in Clients \ {c} : client'[b] = client[b]
    BY <1>5 DEF TakeStartLock, ClientAt, Types, ClientState
  <2>2. \A d \in Daemons : daemon[d].at # "starting"
    BY <2>1 DEF OneDaemon
  <2>3. \A b \in Clients : b # c => client[b].at \notin {"spawn", "await"}
    BY <1>0, <2>1 DEF OneDaemon
  <2> QED BY <2>1, <2>2, <2>3 DEF OneDaemon
<1>6. ASSUME NEW c \in Clients, Spawn(c) PROVE OneDaemon'
  <2>1. client[c].at = "spawn" /\ startLock = c /\ \A b \in Clients \ {c} : client[b].at \notin {"spawn", "await"}
    BY <1>6 DEF OneDaemon, Spawn
  <2>2. \A d \in Daemons : daemon[d].at # "starting"
    BY <2>1 DEF OneDaemon
  <2>3. \A b \in Clients \ {c} : client'[b] = client[b]
    BY <1>6, ClientAlone DEF ClientActs
  <2>4. CASE ClientAt(c, "put") /\ startLock' = Nobody /\ UNCHANGED daemon
    <3>1. client'[c].at = "put"
      BY <2>4 DEF ClientAt, Types, ClientState
    <3>2. UNCHANGED pidfile
      BY <1>6 DEF Spawn
    <3> QED BY <2>1, <2>2, <2>3, <2>4, <3>1, <3>2 DEF OneDaemon
  <2>5. CASE ~FoundRunning /\ ~(ClientAt(c, "put") /\ startLock' = Nobody /\ UNCHANGED daemon)
    <3>1. PICK d \in Daemons : daemon[d].at = "off" /\ pidfile # d /\ DaemonAt(d, "starting")
      BY <1>6, <2>5 DEF Spawn
    <3>2. UNCHANGED <<pidfile, startLock>> /\ client'[c].at = "await"
      BY <1>6, <2>5 DEF Spawn, ClientAt, Types, ClientState
    <3>3. daemon'[d].at = "starting" /\ \A e \in Daemons \ {d} : daemon'[e] = daemon[e]
      BY <3>1 DEF DaemonAt, Types, DaemonState
    <3>4. \A e \in Daemons : daemon[e].at = "off"
      BY <1>0, <2>2, <2>5 DEF FoundRunning, IsRunning, OneDaemon
    <3> QED BY <1>0, <2>1, <2>3, <3>1, <3>2, <3>3, <3>4 DEF OneDaemon
  <2> QED BY <1>6, <2>4, <2>5 DEF Spawn
<1>7. ASSUME NEW c \in Clients, Await(c) PROVE OneDaemon'
  <2>1. client[c].at = "await" /\ startLock = c /\ startLock' = Nobody /\ UNCHANGED <<daemon, pidfile>>
    BY <1>7 DEF OneDaemon, Await
  <2>2. \A b \in Clients \ {c} : client'[b] = client[b] /\ client[b].at \notin {"spawn", "await"}
    BY <1>7, <2>1, ClientAlone DEF ClientActs, OneDaemon
  <2>3. client'[c].at \notin {"spawn", "await"}
    BY <1>7 DEF Await, Fallback, ClientAt, Types, ClientState
  <2>4. \A d \in Daemons : daemon[d].at # "starting"
    <3>1. CASE IsRunning
      BY <1>0, <3>1 DEF IsRunning, OneDaemon, Types
    <3>2. CASE ~IsRunning
      BY <1>7, <3>2 DEF Await
    <3> QED BY <3>1, <3>2
  <2> QED BY <2>1, <2>2, <2>3, <2>4 DEF OneDaemon
<1>8. ASSUME NEW d \in Daemons, DaemonActs(d) PROVE OneDaemon'
  <2>1. \A e \in Daemons \ {d} : daemon'[e] = daemon[e] /\ daemon[e].at = "off"
    BY <1>8, DaemonAlone, DaemonGoes DEF OneDaemon
  <2>2. UNCHANGED <<client, startLock>>
    BY <1>8, DaemonAlone
  <2>3. \/ UNCHANGED pidfile /\ daemon'[d].at = daemon[d].at
        \/ UNCHANGED pidfile /\ {daemon[d].at, daemon'[d].at} \intersect {"off", "starting"} = {}
        \/ daemon'[d].at = "off"
        \/ daemon'[d].at = "clearFlag" /\ pidfile' = d
    BY <1>8, DaemonGoes
  <2>4. daemon'[d].at = "starting" => daemon[d].at = "starting" /\ UNCHANGED pidfile
    BY <2>3
  <2>5. daemon'[d].at \notin {"off", "starting"} => pidfile' = d
    BY <2>3 DEF OneDaemon
  <2> QED BY <2>1, <2>2, <2>4, <2>5 DEF OneDaemon
<1> QED BY <1>1, <1>2, <1>3, <1>4, <1>5, <1>6, <1>7, <1>8, Cases

(* What the daemon and the worker of a step are afterwards.                 *)
LEMMA DaemonKeepsPlace ==
  ASSUME Types, DueOK, PlacesOK, NEW d \in Daemons, DaemonActs(d)
  PROVE  /\ daemon'[d].at = "mark" => daemon'[d].job # NoJob /\ worker'[d].at = "none"
         /\ worker'[d].at # "none" =>
              daemon'[d].job # NoJob /\ daemon'[d].at \in {"scan", "count", "check", "select"}
<1>0. ASSUME NEW place, DaemonAt(d, place)
      PROVE  daemon'[d].at = place /\ daemon'[d].job = daemon[d].job
  BY <1>0 DEF DaemonAt, Types, DaemonState
<1>1. CASE WritePID(d) \/ ClearFlag(d) \/ Tick(d)
  BY <1>0, <1>1 DEF WritePID, ClearFlag, Tick, PlacesOK
<1>2. CASE Scan(d)
  <2>1. CASE DaemonAt(d, "count")
    BY <1>0, <1>2, <2>1 DEF Scan, PlacesOK
  <2>2. CASE ~DaemonAt(d, "count")
    <3>1. Ready # <<>> /\ worker[d].at = "none" /\ UNCHANGED worker
      BY <1>2, <2>2 DEF Scan
    <3>2. daemon' = [daemon EXCEPT ![d].at = "mark", ![d].job = queue[Head(due)]]
      BY <1>2, <2>2 DEF Scan, Ready
    <3>3. queue[Head(due)] # NoJob
      BY <3>1 DEF Ready, DueOK
    <3> QED BY <3>1, <3>2, <3>3 DEF Types, DaemonState
  <2> QED BY <2>1, <2>2
<1>3. CASE Mark(d)
  <2>1. daemon'[d].at = "count" /\ (UNCHANGED worker \/ daemon'[d].job = daemon[d].job)
    BY <1>0, <1>3 DEF Mark, Types, DaemonState
  <2>2. daemon[d].at = "mark"
    BY <1>3 DEF Mark
  <2> QED BY <2>1, <2>2 DEF PlacesOK
<1>4. CASE Count(d)
  BY <1>4 DEF Count, PlacesOK, Types, DaemonState
<1>5. CASE Check(d)
  <2>1. CASE Exit(d)
    BY <2>1 DEF Exit, OffDaemon, NoWorker, Types
  <2>2. CASE ~Exit(d)
    BY <1>0, <1>5, <2>2 DEF Check, PlacesOK
  <2> QED BY <2>1, <2>2
<1>6. CASE Complete(d)
  BY <1>6 DEF Complete, NoWorker, Types, DaemonState
<1>7. CASE OpenSession(d) \/ ReadDoc(d) \/ WriteIndex(d) \/ JobFails(d)
  <2>1. worker[d].at # "none" /\ UNCHANGED daemon
    BY <1>7 DEF OpenSession, ReadDoc, WriteIndex, JobFails
  <2> QED BY <2>1 DEF PlacesOK
<1>8. CASE DaemonDies(d)
  BY <1>8 DEF DaemonDies, OffDaemon, NoWorker, Types
<1> QED BY <1>1, <1>2, <1>3, <1>4, <1>5, <1>6, <1>7, <1>8 DEF DaemonActs

LEMMA ClientKeepsPlace ==
  ASSUME Types, PlacesOK, NEW c \in Clients, ClientActs(c)
  PROVE  client'[c].at \in {"idle", "stopping"} => client'[c].key = NoKey
<1>0. ASSUME NEW place, ClientAt(c, place)
      PROVE  client'[c].at = place /\ client'[c].key = client[c].key
  BY <1>0 DEF ClientAt, Types, ClientState
<1>1. ASSUME NEW t \in Docs, Edit(c, t) PROVE client'[c].at = "ensure"
  BY <1>1 DEF Edit, Types, ClientState
<1>2. CASE Connect(c) \/ RequestStop(c) \/ StopEnds(c)
  BY <1>0, <1>2 DEF Connect, RequestStop, StopEnds, PlacesOK
<1>3. CASE \/ Ensure(c) \/ TakeStartLock(c) \/ FindStale(c) \/ RemoveStale(c) \/ StartLockTimeout(c)
           \/ Spawn(c) \/ Await(c)
  <2>1. \E place \in {"put", "lock", "stale", "spawn", "local", "await"} : ClientAt(c, place)
    BY <1>3 DEF Ensure, TakeStartLock, FindStale, RemoveStale, StartLockTimeout, Fallback, Spawn, Await
  <2> QED BY <1>0, <2>1
<1>4. CASE Put(c) \/ ClientDies(c)
  BY <1>4 DEF Put, ClientDies, IdleClient, Types
<1>5. CASE IndexLocally(c)
  <2>1. client[c] \in ClientState
    BY DEF Types
  <2>2. PICK s \in {IdleClient, [client[c] EXCEPT !.at = "localRead", !.view = indexed],
                   [client[c] EXCEPT !.at = "localWrite", !.view = Reindexed(client[c].view, client[c].key)]} :
          client' = [client EXCEPT ![c] = s]
    BY <1>5 DEF IndexLocally
  <2>3. s = IdleClient \/ s.at \in {"localRead", "localWrite"}
    BY <2>1, <2>2 DEF ClientState
  <2>4. client'[c] = s
    BY <2>2 DEF Types
  <2> QED BY <2>3, <2>4 DEF IdleClient
<1> QED BY <1>1, <1>2, <1>3, <1>4, <1>5 DEF ClientActs

LEMMA PlacesStep == ASSUME Types, DueOK, PlacesOK, [Next]_vars PROVE PlacesOK'
<1>1. CASE UNCHANGED <<client, daemon, worker>>
  BY <1>1 DEF PlacesOK
<1>2. ASSUME NEW d \in Daemons, DaemonActs(d) PROVE PlacesOK'
  BY <1>2, DaemonKeepsPlace, DaemonAlone DEF PlacesOK
<1>3. ASSUME NEW c \in Clients, ClientActs(c) PROVE PlacesOK'
  <2>1. \A b \in Clients : client'[b].at \in {"idle", "stopping"} => client'[b].key = NoKey
    BY <1>3, ClientKeepsPlace, ClientAlone DEF PlacesOK
  <2>2. UNCHANGED worker
    BY <1>3, Zenon DEF ClientActs, Edit, Connect, RequestStop, Ensure, TakeStartLock, FindStale, RemoveStale, StartLockTimeout,
       Spawn, Await, Put, IndexLocally, StopEnds, ClientDies
  <2>3. CASE UNCHANGED daemon
    BY <2>1, <2>2, <2>3 DEF PlacesOK
  <2>4. ASSUME NEW d \in Daemons, daemon[d].at = "off", DaemonAt(d, "starting") PROVE PlacesOK'
    <3>1. daemon'[d].at = "starting" /\ worker[d].at = "none" /\ \A e \in Daemons \ {d} : daemon'[e] = daemon[e]
      BY <2>4 DEF DaemonAt, PlacesOK, Types, DaemonState
    <3> QED BY <2>1, <2>2, <3>1 DEF PlacesOK
  <2> QED
    BY <1>3, <2>3, <2>4, Zenon DEF ClientActs, Edit, Connect, RequestStop, Ensure, TakeStartLock, FindStale, RemoveStale, StartLockTimeout,
       Spawn, Await, Put, IndexLocally, StopEnds, ClientDies
<1>4. CASE \E k \in Keys : BecomeDue(k)
  BY <1>1, <1>4 DEF BecomeDue
<1> QED BY <1>1, <1>2, <1>3, <1>4, Cases DEF vars

-----------------------------------------------------------------------------
(* The invariant.                                                          *)

LEMMA QueueStarts == Init => QueueInv
<1> SUFFICES ASSUME Init PROVE QueueInv
  OBVIOUS
<1>1. Types
  BY ProcessAssumption DEF Init, Types, NoView, IdleClient, OffDaemon, NoWorker, ClientState, DaemonState, WorkerState
<1>2. DueOK
  BY DEF Init, DueOK
<1>3. IDsOK
  BY DEF Init, IDsOK, OffDaemon
<1>4. PlacesOK
  BY DEF Init, PlacesOK, IdleClient, OffDaemon, NoWorker
<1> QED BY <1>1, <1>2, <1>3, <1>4 DEF QueueInv

LEMMA QueueSteps == QueueInv /\ [Next]_vars => QueueInv'
BY TypesStep, DueStep, IDsStep, PlacesStep DEF QueueInv

(* The invariant of the queue, however long a daemon takes to start: the   *)
(* due keys have a job and are different; IDs are unique also against the   *)
(* jobs that a daemon still holds; and a worker belongs to a daemon that   *)
(* goes round its loop with its job.                                       *)
THEOREM QueueInvariance == Spec => []QueueInv
<1>1. QueueInv /\ [Next]_vars => QueueInv'
  BY QueueSteps
<1> QED BY <1>1, QueueStarts, PTL DEF Spec

LEMMA OneDaemonStarts == Init => SoleDaemon
BY DEF Init, SoleDaemon, OneDaemon, IdleClient, OffDaemon

(* A lock that was stolen stays so.                                        *)
LEMMA StolenStays == ASSUME stolen, [Next]_vars PROVE stolen'
<1>1. CASE UNCHANGED vars \/ \E k \in Keys : BecomeDue(k)
  BY <1>1 DEF vars, BecomeDue, runtime
<1>2. ASSUME NEW c \in Clients, ClientActs(c) PROVE stolen'
  BY <1>2, Zenon DEF ClientActs, Edit, Connect, RequestStop, Ensure, TakeStartLock, FindStale, RemoveStale,
     StartLockTimeout, Spawn, Await, Put, IndexLocally, StopEnds, ClientDies, runtime, start
<1>3. ASSUME NEW d \in Daemons, DaemonActs(d) PROVE stolen'
  BY <1>3, Zenon DEF DaemonActs, WritePID, ClearFlag, Scan, Mark, Count, Check, Tick, Complete, OpenSession,
     ReadDoc, WriteIndex, JobFails, DaemonDies, runtime, start
<1> QED BY <1>1, <1>2, <1>3, Cases

(* When a daemon starts within the time its starter waits for it, and no   *)
(* client has removed the start lock of another that was starting a        *)
(* daemon, there is one daemon at most, whatever clients, stops and deaths *)
(* interleave with it.                                                     *)
THEOREM OneDaemonAtMost == ASSUME ~SlowStart PROVE Spec => []SoleDaemon
<1>1. QueueInv /\ SoleDaemon /\ [Next]_vars => SoleDaemon'
  BY OneDaemonStep, StolenStays, TypesStep DEF QueueInv, SoleDaemon
<1> QED BY <1>1, QueueInvariance, OneDaemonStarts, PTL DEF Spec

(* Then no two daemons execute the same job at once.                       *)
THEOREM OneOwnerHolds == ASSUME ~SlowStart PROVE Spec => []OneOwner
<1>1. QueueInv /\ SoleDaemon => OneOwner
  BY DEF QueueInv, OneOwner, PlacesOK, SoleDaemon, OneDaemon
<1> QED BY <1>1, QueueInvariance, OneDaemonAtMost, PTL

-----------------------------------------------------------------------------
(* What the index forgets.                                                 *)

(* WillStore, case by case.                                                *)
StoreCases(d, t) ==
  /\ worker[d].at \in {"none", "ok", "failed"} => WillStore(d, t) = indexed[t]
  /\ worker[d].at = "write" => WillStore(d, t) = worker[d].view[t]
  /\ worker[d].at \in {"open", "read"} /\ daemon[d].job.key = <<"index", t>> => WillStore(d, t) = source[t]
  /\ worker[d].at \in {"open", "read"} /\ daemon[d].job.key = <<"remove", t>> => WillStore(d, t) = 0
  /\ worker[d].at = "read" /\ DocOf(daemon[d].job.key) # t => WillStore(d, t) = worker[d].view[t]
  /\ worker[d].at = "open" /\ DocOf(daemon[d].job.key) # t => WillStore(d, t) = indexed[t]

LEMMA Stores == \A d \in Daemons, t \in Docs : StoreCases(d, t) /\ StoreCases(d, t)'
<1>1. \A t : <<"index", t>> # <<"remove", t>> /\ DocOf(<<"index", t>>) = t /\ DocOf(<<"remove", t>>) = t
  BY DEF DocOf
<1>2. ASSUME NEW d \in Daemons, NEW t \in Docs PROVE StoreCases(d, t)
  BY <1>1 DEF StoreCases, WillStore
<1>3. ASSUME NEW d \in Daemons, NEW t \in Docs PROVE StoreCases(d, t)'
  BY <1>1 DEF StoreCases, WillStore
<1> QED BY <1>2, <1>3

LEMMA WantedKey ==
  ASSUME NEW t \in Docs
  PROVE  /\ Wanted(t) \in Keys /\ DocOf(Wanted(t)) = t /\ Wanted(t) # NoKey
         /\ Wanted(t) = <<"index", t>> <=> source[t] # 0
         /\ Wanted(t) = <<"remove", t>> <=> source[t] = 0
<1>1. <<"index", t>> # <<"remove", t>> /\ DocOf(<<"index", t>>) = t /\ DocOf(<<"remove", t>>) = t
  BY DEF DocOf
<1>2. Wanted(t) = IF source[t] = 0 THEN <<"remove", t>> ELSE <<"index", t>>
  BY DEF Wanted
<1>3. Wanted(t) \in Keys
  BY <1>2, KeyFacts
<1> QED BY <1>1, <1>2, <1>3, NoKeyIsNone

(* Which of the three reasons to track a doc a step keeps.                  *)
LEMMA TrackedOn ==
  ASSUME NEW t \in Docs, Tracked(t), source'[t] = source[t],
         \A c \in Clients : client[c].key = Wanted(t) => client'[c].key = client[c].key,
         UpToDate(t) => Tracked(t)', Covered(t) => Tracked(t)'
  PROVE  Tracked(t)'
<1>1. Wanted(t)' = Wanted(t)
  BY DEF Wanted
<1>2. CASE \E c \in Clients : client[c].key = Wanted(t)
  BY <1>1, <1>2 DEF Tracked
<1> QED BY <1>2 DEF Tracked

LEMMA UpToDateOn ==
  ASSUME NEW t \in Docs, UpToDate(t), source'[t] = source[t], indexed'[t] = indexed[t],
         \A d \in Daemons : WillStore(d, t)' = WillStore(d, t) \/ WillStore(d, t)' = indexed'[t]
  PROVE  UpToDate(t)'
BY DEF UpToDate

LEMMA CoveredOn ==
  ASSUME NEW t \in Docs, Covered(t), source'[t] = source[t], queue'[Wanted(t)] = queue[Wanted(t)],
         \A d \in Daemons :
           (worker'[d].at # "none" /\ daemon'[d].job.id = queue[Wanted(t)].id) =>
             /\ worker[d].at # "none" /\ daemon[d].job.id = queue[Wanted(t)].id
             /\ worker'[d].at \in {"open", "read", "write"} /\ WillStore(d, t)' = WillStore(d, t)
  PROVE  Covered(t)'
<1>1. Wanted(t)' = Wanted(t)
  BY DEF Wanted
<1> QED BY <1>1 DEF Covered

(* Steps that change neither docs, nor index, nor workers, and no job that  *)
(* a daemon holds for its worker.                                          *)
LEMMA QuietForIndex ==
  ASSUME Types, NEW t \in Docs, Tracked(t), UNCHANGED <<source, indexed, queue, worker>>,
         \A c \in Clients : client[c].key = Wanted(t) => client'[c].key = client[c].key,
         \A d \in Daemons : worker[d].at # "none" => daemon'[d].job = daemon[d].job
  PROVE  Tracked(t)'
<1>1. \A d \in Daemons : WillStore(d, t)' = WillStore(d, t)
  <2> SUFFICES ASSUME NEW d \in Daemons PROVE WillStore(d, t)' = WillStore(d, t)
    OBVIOUS
  <2>1. CASE worker[d].at = "none"
    BY <2>1, Stores DEF StoreCases
  <2>2. CASE worker[d].at # "none"
    BY <2>2 DEF WillStore
  <2> QED BY <2>1, <2>2
<1>2. UpToDate(t) => Tracked(t)'
  BY <1>1, UpToDateOn DEF Tracked
<1>3. Covered(t) => Covered(t)'
  <2> SUFFICES ASSUME Covered(t) PROVE Covered(t)'
    OBVIOUS
  <2>1. Wanted(t)' = Wanted(t)
    BY DEF Wanted
  <2> QED BY <1>1, <2>1 DEF Covered
<1> QED BY <1>2, <1>3, TrackedOn DEF Tracked

LEMMA ClientKeepsTrack ==
  ASSUME QueueInv, NEW c \in Clients, ClientActs(c), ~ClientDies(c), ~IndexLocally(c), NEW t \in Docs, Tracked(t)
  PROVE  Tracked(t)'
<1> USE DEF QueueInv
<1>1. ASSUME NEW u \in Docs, Edit(c, u) PROVE Tracked(t)'
  <2>1. UNCHANGED <<indexed, queue, worker, daemon>> /\ client[c].key = NoKey
    BY <1>1 DEF Edit, jobs, PlacesOK
  <2>2. CASE u = t
    <3>1. \/ client'[c].key = <<"index", t>> /\ source'[t] # 0
          \/ client'[c].key = <<"remove", t>> /\ source'[t] = 0
      <4>1. edits + 1 # 0
        BY DEF Types
      <4>2. CASE /\ source' = [source EXCEPT ![t] = edits + 1]
                 /\ client' = [client EXCEPT ![c].at = "ensure", ![c].key = <<"index", t>>]
        BY <4>1, <4>2 DEF Types, ClientState
      <4>3. CASE /\ source' = [source EXCEPT ![t] = 0]
                 /\ client' = [client EXCEPT ![c].at = "ensure", ![c].key = <<"remove", t>>]
        BY <4>3 DEF Types, ClientState
      <4> QED BY <1>1, <2>2, <4>2, <4>3 DEF Edit
    <3>2. client'[c].key = Wanted(t)'
      BY <3>1 DEF Wanted
    <3> QED BY <3>2 DEF Tracked
  <2>3. CASE u # t
    <3>1. source'[t] = source[t] /\ Wanted(t)' = Wanted(t)
      BY <1>1, <2>3 DEF Edit, Types, Wanted
    <3>2. \A b \in Clients : client[b].key = Wanted(t) => client'[b].key = client[b].key
      BY <1>1, <2>1, ClientAlone, WantedKey DEF ClientActs
    <3>3. \A d \in Daemons : WillStore(d, t)' = WillStore(d, t)
      BY <2>1, <3>1 DEF WillStore
    <3>4. UpToDate(t) => UpToDate(t)'
      BY <2>1, <3>1, <3>3 DEF UpToDate
    <3>5. Covered(t) => Covered(t)'
      BY <2>1, <3>1, <3>3 DEF Covered
    <3> QED BY <3>1, <3>2, <3>4, <3>5, TrackedOn DEF Tracked
  <2> QED BY <2>2, <2>3
<1>2. CASE Put(c)
  <2> DEFINE k == client[c].key
  <2>1. UNCHANGED <<source, indexed, worker, daemon>> /\ client' = [client EXCEPT ![c] = IdleClient]
    BY <1>2 DEF Put, disk
  <2>2. Wanted(t)' = Wanted(t) /\ \A d \in Daemons : WillStore(d, t)' = WillStore(d, t)
    BY <2>1 DEF Wanted, WillStore
  <2>3. UpToDate(t) => UpToDate(t)'
    BY <2>1, <2>2 DEF UpToDate
  <2>4. CASE k = Wanted(t)
    <3>1. queue'[k] # NoJob /\ ~queue'[k].started
      <4>1. k \in Keys /\ k # NoKey
        BY <2>4, WantedKey
      <4>2. CASE queue[k] = NoJob
        <5> DEFINE j == [id |-> nextID, key |-> k, started |-> FALSE]
        <5>1. queue' = [queue EXCEPT ![k] = j]
          BY <1>2, <4>1, <4>2 DEF Put
        <5>2. j # NoJob /\ ~j.started
          BY KeyFacts DEF Types
        <5> QED BY <4>1, <5>1, <5>2 DEF Types
      <4>3. CASE queue[k] # NoJob
        <5>1. queue' = [queue EXCEPT ![k] = Requested(k)]
          BY <1>2, <4>1, <4>3 DEF Put
        <5>2. Requested(k) \in QueuedJob /\ ~Requested(k).started
          BY <4>1, <4>3 DEF Requested, Types, QueuedJob
        <5> QED BY <4>1, <5>1, <5>2, KeyFacts DEF Types
      <4> QED BY <4>2, <4>3
    <3>2. Covered(t)'
      BY <2>2, <2>4, <3>1 DEF Covered
    <3> QED BY <3>2 DEF Tracked
  <2>5. CASE k # Wanted(t)
    <3>1. queue'[Wanted(t)] = queue[Wanted(t)]
      BY <1>2, <2>5, WantedKey DEF Put, jobs, Types
    <3>2. Covered(t) => Covered(t)'
      BY <2>1, <2>2, <3>1 DEF Covered
    <3>3. \A b \in Clients : client[b].key = Wanted(t) => client'[b].key = client[b].key
      BY <2>1, <2>5 DEF Types
    <3> QED BY <2>1, <2>3, <3>2, <3>3, TrackedOn DEF Tracked
  <2> QED BY <2>4, <2>5
<1>3. CASE ~Put(c) /\ ~\E u \in Docs : Edit(c, u)
  <2>1. UNCHANGED <<source, indexed, queue, worker>>
    BY <1>3, Zenon DEF ClientActs, Connect, RequestStop, Ensure, TakeStartLock, FindStale, RemoveStale, StartLockTimeout, Spawn, Await,
       StopEnds, disk, jobs
  <2>2. ASSUME NEW place, ClientAt(c, place) PROVE client'[c].key = client[c].key
    BY <2>2 DEF ClientAt, Types, ClientState
  <2>3. client'[c].key = client[c].key
    BY <1>3, <2>2, Zenon DEF ClientActs, Connect, RequestStop, Ensure, TakeStartLock, FindStale, RemoveStale, StartLockTimeout, Fallback,
       Spawn, Await, StopEnds
  <2>4. \A b \in Clients : client'[b].key = client[b].key
    BY <2>3, ClientAlone
  <2>5. \A d \in Daemons : daemon'[d].job = daemon[d].job
    <3>1. CASE \E d \in Daemons : DaemonAt(d, "starting")
      BY <3>1 DEF DaemonAt, Types, DaemonState
    <3> QED
      BY <1>3, <3>1, Zenon DEF ClientActs, Connect, RequestStop, Ensure, TakeStartLock, FindStale, RemoveStale, StartLockTimeout, Spawn, Await,
         StopEnds
  <2> QED BY <2>1, <2>4, <2>5, QuietForIndex
<1> QED BY <1>1, <1>2, <1>3

(* Unless two work at once, a daemon that has a worker, or gets one, has   *)
(* the only one.                                                           *)
OneAtWork == ~TwoAtWork /\ ~TwoAtWork'

LEMMA OnlyWorker ==
  ASSUME QueueInv, OneAtWork, NEW d \in Daemons, DaemonActs(d), worker[d].at # "none" \/ worker'[d].at # "none"
  PROVE  \A e \in Daemons \ {d} : worker[e].at = "none" /\ worker'[e].at = "none"
BY DaemonAlone DEF QueueInv, OneAtWork, TwoAtWork

LEMMA DaemonLeavesDocs == ASSUME NEW d \in Daemons, DaemonActs(d) PROVE UNCHANGED <<source, client>>
BY Zenon DEF DaemonActs, WritePID, ClearFlag, Scan, Mark, Count, Check, Tick, Complete, OpenSession, ReadDoc,
   WriteIndex, JobFails, DaemonDies, disk

(* The job a daemon holds is the queue's job of its key, or of none.        *)
LEMMA HeldJob ==
  ASSUME QueueInv, NEW d \in Daemons, NEW k \in Keys, queue[k] # NoJob, daemon[d].job.id = queue[k].id
  PROVE  daemon[d].job.key = k /\ daemon[d].job # NoJob
<1>1. queue[k].id # 0
  BY KeyFacts DEF QueueInv, Types
<1>2. daemon[d].job # NoJob
  BY <1>1, KeyFacts
<1> QED BY <1>2 DEF QueueInv, IDsOK

LEMMA MarkKeepsTrack ==
  ASSUME QueueInv, OneAtWork, NEW d \in Daemons, Mark(d), NEW t \in Docs, Tracked(t)
  PROVE  Tracked(t)' \/ (daemon[d].job.key = <<"remove", t>> /\ source[t] # 0)
<1> DEFINE k == daemon[d].job.key
<1>0. DaemonActs(d)
  BY DEF DaemonActs
<1>1. UNCHANGED <<source, indexed, client>> /\ worker[d].at = "none" /\ daemon[d].job # NoJob
  BY <1>0, DaemonLeavesDocs DEF Mark, disk, QueueInv, PlacesOK
<1>2. k \in Keys
  BY <1>1, KeyFacts DEF QueueInv, Types, DaemonState
<1>3. CASE queue[k].id # daemon[d].job.id
  <2>1. UNCHANGED <<queue, worker>>
    BY <1>3 DEF Mark
  <2>2. \A e \in Daemons \ {d} : daemon'[e].job = daemon[e].job
    BY <1>0, DaemonAlone DEF QueueInv
  <2> QED BY <1>1, <2>1, <2>2, QuietForIndex DEF QueueInv
<1>4. CASE queue[k].id = daemon[d].job.id
  <2>1. /\ queue' = [queue EXCEPT ![k].started = TRUE] /\ worker' = [worker EXCEPT ![d].at = "open"]
        /\ DaemonAt(d, "count")
    BY <1>4 DEF Mark
  <2>2. queue[k] # NoJob
    BY <1>1, <1>4, <1>2, KeyFacts DEF QueueInv, Types, DaemonState
  <2>3. worker'[d].at = "open" /\ daemon'[d].job = daemon[d].job
    BY <2>1 DEF QueueInv, Types, WorkerState, DaemonAt, DaemonState
  <2>a. \A e \in Daemons \ {d} : worker[e].at = "none" /\ worker'[e].at = "none"
    BY <1>0, <2>3, OnlyWorker
  <2>4. \A e \in Daemons \ {d} : WillStore(e, t)' = indexed'[t]
    BY <2>a, Stores DEF StoreCases
  <2>5. Wanted(t)' = Wanted(t)
    BY <1>1 DEF Wanted
  <2>6. CASE k = Wanted(t)
    <3>1. queue'[k] # NoJob
      <4>1. [queue[k] EXCEPT !.started = TRUE] \in QueuedJob
        BY <1>2, <2>2 DEF QueueInv, Types, QueuedJob
      <4> QED BY <1>2, <2>1, <4>1, KeyFacts DEF QueueInv, Types
    <3>2. WillStore(d, t)' = source'[t]
      BY <1>1, <2>3, <2>6, WantedKey, Stores DEF StoreCases
    <3>3. Covered(t)'
      BY <1>1, <2>a, <2>3, <2>5, <2>6, <3>1, <3>2 DEF Covered
    <3> QED BY <3>3 DEF Tracked
  <2>7. CASE k # Wanted(t) /\ ~(k = <<"remove", t>> /\ source[t] # 0)
    <3>1. queue'[Wanted(t)] = queue[Wanted(t)]
      BY <2>1, <2>7, WantedKey DEF QueueInv, Types
    <3>2. Covered(t) => Covered(t)'
      <4> SUFFICES ASSUME Covered(t) PROVE Covered(t)'
        OBVIOUS
      <4>1. daemon'[d].job.id # queue[Wanted(t)].id
        BY <2>3, <2>7, HeldJob, WantedKey DEF Covered
      <4> QED BY <1>1, <2>a, <3>1, <4>1, CoveredOn
    <3>3. UpToDate(t) => UpToDate(t)'
      <4>1. CASE DocOf(k) = t
        <5>1. k = <<"index", t>>
          BY <1>1, <1>2, <2>7, <4>1, KeyFacts, WantedKey
        <5>2. WillStore(d, t)' = source'[t]
          BY <2>3, <5>1, Stores DEF StoreCases
        <5> QED BY <1>1, <2>4, <5>2 DEF UpToDate
      <4>2. CASE DocOf(k) # t
        <5>1. WillStore(d, t)' = indexed'[t]
          BY <2>3, <4>2, Stores DEF StoreCases
        <5> QED BY <1>1, <2>4, <5>1 DEF UpToDate
      <4> QED BY <4>1, <4>2
    <3> QED BY <1>1, <3>2, <3>3, TrackedOn DEF Tracked
  <2> QED BY <2>6, <2>7
<1> QED BY <1>3, <1>4

(* A daemon that is gone has no worker.                                    *)
LEMMA GoneKeepsTrack ==
  ASSUME QueueInv, NEW d \in Daemons, DaemonActs(d), UNCHANGED <<indexed, queue>>,
         worker' = [worker EXCEPT ![d] = NoWorker], NEW t \in Docs, Tracked(t)
  PROVE  Tracked(t)'
<1>1. /\ UNCHANGED <<source, client>> /\ worker'[d].at = "none"
      /\ \A e \in Daemons \ {d} : daemon'[e] = daemon[e] /\ worker'[e] = worker[e]
  BY DaemonLeavesDocs, DaemonAlone DEF NoWorker, QueueInv, Types
<1>2. \A e \in Daemons : WillStore(e, t)' = WillStore(e, t) \/ WillStore(e, t)' = indexed'[t]
  <2>1. WillStore(d, t)' = indexed'[t]
    BY <1>1, Stores DEF StoreCases
  <2>2. \A e \in Daemons \ {d} : WillStore(e, t)' = WillStore(e, t)
    BY <1>1 DEF WillStore
  <2> QED BY <2>1, <2>2
<1>3. UpToDate(t) => UpToDate(t)'
  BY <1>1, <1>2, UpToDateOn
<1>4. Covered(t) => Covered(t)'
  <2> SUFFICES ASSUME Covered(t) PROVE Covered(t)'
    OBVIOUS
  <2>1. \A e \in Daemons \ {d} : WillStore(e, t)' = WillStore(e, t)
    BY <1>1 DEF WillStore
  <2>2. Wanted(t)' = Wanted(t)
    BY <1>1 DEF Wanted
  <2> QED BY <1>1, <2>1, <2>2 DEF Covered
<1> QED BY <1>1, <1>3, <1>4, TrackedOn DEF Tracked

LEMMA CompleteKeepsTrack ==
  ASSUME QueueInv, OneAtWork, NEW d \in Daemons, Complete(d), queue[daemon[d].job.key].started, NEW t \in Docs, Tracked(t)
  PROVE  Tracked(t)'
<1> DEFINE k == daemon[d].job.key
<1>1. UNCHANGED <<source, indexed, client>> /\ \A e \in Daemons : worker'[e].at = "none"
  <2>1. /\ DaemonActs(d) /\ UNCHANGED <<indexed>> /\ worker' = [worker EXCEPT ![d] = NoWorker]
        /\ worker[d].at # "none"
    BY DEF DaemonActs, Complete, disk
  <2> QED BY <2>1, OnlyWorker, DaemonLeavesDocs DEF NoWorker, QueueInv, Types
<1>2. \A e \in Daemons : WillStore(e, t)' = indexed'[t]
  BY <1>1, Stores DEF StoreCases
<1>3. UpToDate(t) => UpToDate(t)'
  BY <1>1, <1>2, UpToDateOn
<1>4. Covered(t) => Covered(t)'
  <2> SUFFICES ASSUME Covered(t) PROVE Covered(t)'
    OBVIOUS
  <2>1. worker[d].at \in {"ok", "failed"}
    BY DEF Complete
  <2>2. CASE queue'[Wanted(t)] = queue[Wanted(t)]
    BY <1>1, <2>2, CoveredOn
  <2>3. CASE queue'[Wanted(t)] # queue[Wanted(t)]
    <3>1. k = Wanted(t) /\ queue[k].id = daemon[d].job.id
      BY <2>3, WantedKey DEF Complete, QueueInv, Types
    <3>2. worker[d].at \in {"open", "read", "write"}
      BY <2>1, <3>1 DEF Covered
    <3> QED BY <2>1, <3>2
  <2> QED BY <2>2, <2>3
<1> QED BY <1>1, <1>3, <1>4, TrackedOn DEF Tracked

(* The steps of a worker.                                                  *)
LEMMA WorkKeepsTrack ==
  ASSUME QueueInv, OneAtWork, NEW d \in Daemons, OpenSession(d) \/ ReadDoc(d) \/ WriteIndex(d), NEW t \in Docs, Tracked(t)
  PROVE  Tracked(t)'
<1> DEFINE k == daemon[d].job.key
<1>0. DaemonActs(d) /\ UNCHANGED <<queue, daemon>>
  BY DEF DaemonActs, OpenSession, ReadDoc, WriteIndex, jobs
<1>1. /\ UNCHANGED <<source, client>>
      /\ \A e \in Daemons \ {d} : worker[e].at = "none" /\ worker'[e].at = "none"
  <2>1. worker[d].at # "none"
    BY DEF OpenSession, ReadDoc, WriteIndex
  <2> QED BY <1>0, <2>1, OnlyWorker, DaemonLeavesDocs
<1>2. k \in Keys /\ worker[d] \in WorkerState /\ worker \in [Daemons -> WorkerState]
  <2>1. daemon[d].job # NoJob
    BY DEF OpenSession, ReadDoc, WriteIndex, QueueInv, PlacesOK
  <2> QED BY <2>1, KeyFacts DEF QueueInv, Types, DaemonState
<1>3. k = <<"index", t>> \/ k = <<"remove", t>> \/ DocOf(k) # t
  BY <1>2, KeyFacts
<1>4. \A e \in Daemons \ {d} : WillStore(e, t) = indexed[t] /\ WillStore(e, t)' = indexed'[t]
  BY <1>1, Stores DEF StoreCases
<1>5. ASSUME UNCHANGED indexed, WillStore(d, t)' = WillStore(d, t),
             worker[d].at \in {"open", "read", "write"}, worker'[d].at \in {"open", "read", "write"}
      PROVE  Tracked(t)'
  <2>1. UpToDate(t) => UpToDate(t)'
    BY <1>1, <1>4, <1>5, UpToDateOn
  <2>2. Covered(t) => Covered(t)'
    BY <1>0, <1>1, <1>5, CoveredOn
  <2> QED BY <1>1, <2>1, <2>2, TrackedOn DEF Tracked
<1>6. CASE OpenSession(d)
  <2>1. /\ worker[d].at = "open" /\ worker'[d].at = "read" /\ worker'[d].view = indexed /\ UNCHANGED indexed
    BY <1>2, <1>6 DEF OpenSession, disk
  <2>2. WillStore(d, t)' = WillStore(d, t)
    BY <1>0, <1>1, <1>3, <2>1, Stores DEF StoreCases
  <2> QED BY <1>5, <2>1, <2>2
<1>7. CASE ReadDoc(d) /\ ~Gone(k)
  <2>1. /\ worker[d].at = "read" /\ worker'[d].at = "write" /\ UNCHANGED indexed
        /\ worker'[d].view = Reindexed(worker[d].view, k)
    BY <1>2, <1>7 DEF ReadDoc, disk
  <2>2. Reindexed(worker[d].view, k)[t] =
          IF DocOf(k) # t THEN worker[d].view[t] ELSE IF k = <<"index", t>> THEN source[t] ELSE 0
    BY <1>2, <1>3 DEF Reindexed, WorkerState, DocOf
  <2>3. WillStore(d, t)' = WillStore(d, t)
    BY <1>0, <1>1, <1>3, <2>1, <2>2, Stores, KeyFacts DEF StoreCases
  <2> QED BY <1>5, <2>1, <2>3
<1>8. CASE ReadDoc(d) /\ Gone(k)
  <2>1. /\ worker[d].at = "read" /\ worker'[d].at = "failed" /\ UNCHANGED indexed
    BY <1>2, <1>8 DEF ReadDoc, disk
  <2>2. UpToDate(t) => UpToDate(t)'
    BY <1>1, <1>4, <2>1, UpToDateOn, Stores DEF StoreCases
  <2>3. Covered(t) => Covered(t)'
    <3> SUFFICES ASSUME Covered(t) PROVE Covered(t)'
      OBVIOUS
    <3>1. daemon[d].job.id # queue[Wanted(t)].id
      <4>1. k = Wanted(t) => Wanted(t) = <<"remove", t>>
        BY <1>8, WantedKey DEF Gone
      <4>2. <<"remove", t>>[1] # "index"
        OBVIOUS
      <4> QED BY <1>8, <4>1, <4>2, HeldJob, WantedKey DEF Covered, Gone
    <3> QED BY <1>0, <1>1, <3>1, CoveredOn
  <2> QED BY <1>1, <2>2, <2>3, TrackedOn DEF Tracked
<1>9. CASE WriteIndex(d)
  <2>1. /\ worker[d].at = "write" /\ worker'[d].at = "ok" /\ indexed' = worker[d].view
    BY <1>2, <1>9 DEF WriteIndex
  <2>2. WillStore(d, t) = indexed'[t] /\ WillStore(d, t)' = indexed'[t]
    BY <2>1, Stores DEF StoreCases
  <2>3. WillStore(d, t) = source[t] => UpToDate(t)'
    BY <1>1, <1>4, <2>2 DEF UpToDate
  <2>4. UpToDate(t) => UpToDate(t)'
    BY <2>3 DEF UpToDate
  <2>5. Covered(t) => Covered(t)' \/ UpToDate(t)'
    <3> SUFFICES ASSUME Covered(t), WillStore(d, t) # source[t] PROVE Covered(t)'
      BY <2>3
    <3>1. Wanted(t)' = Wanted(t)
      BY <1>1 DEF Wanted
    <3>2. queue[Wanted(t)].started => daemon[d].job.id # queue[Wanted(t)].id
      BY <2>1 DEF Covered
    <3> QED BY <1>0, <1>1, <3>1, <3>2 DEF Covered
  <2> QED BY <1>1, <2>4, <2>5, TrackedOn DEF Tracked
<1> QED BY <1>6, <1>7, <1>8, <1>9

LEMMA KnownWays ==
  ASSUME QueueInv, OneAtWork, [Next]_vars, NEW t \in Docs, Tracked(t), ~Tracked(t)'
  PROVE  \/ \E c \in Clients : ClientDies(c) \/ IndexLocally(c)
         \/ \E d \in Daemons :
              \/ JobFails(d)
              \/ Complete(d) /\ ~queue[daemon[d].job.key].started
              \/ Mark(d) /\ daemon[d].job.key = <<"remove", t>> /\ source[t] # 0
<1>1. CASE UNCHANGED vars \/ \E k \in Keys : BecomeDue(k)
  <2>1. UNCHANGED <<source, indexed, queue, worker, client, daemon>>
    BY <1>1 DEF vars, BecomeDue, disk, jobs
  <2> QED BY <2>1, QuietForIndex DEF QueueInv
<1>2. ASSUME NEW c \in Clients, ClientActs(c) PROVE ClientDies(c) \/ IndexLocally(c)
  BY <1>2, ClientKeepsTrack
<1>3. ASSUME NEW d \in Daemons, DaemonActs(d)
      PROVE  \/ JobFails(d)
             \/ Complete(d) /\ ~queue[daemon[d].job.key].started
             \/ Mark(d) /\ daemon[d].job.key = <<"remove", t>> /\ source[t] # 0
  <2>1. UNCHANGED <<source, client>>
    BY <1>3, DaemonLeavesDocs
  <2>2. ASSUME UNCHANGED <<indexed, queue, worker>>, worker[d].at # "none" => daemon'[d].job = daemon[d].job
        PROVE  FALSE
    BY <1>3, <2>1, <2>2, DaemonAlone, QuietForIndex DEF QueueInv
  <2>3. ASSUME NEW place, DaemonAt(d, place) PROVE daemon'[d].job = daemon[d].job
    BY <2>3 DEF DaemonAt, QueueInv, Types, DaemonState
  <2>4. CASE WritePID(d) \/ ClearFlag(d) \/ Tick(d)
    BY <2>2, <2>3, <2>4 DEF WritePID, ClearFlag, Tick, disk, jobs
  <2>5. CASE Scan(d)
    BY <2>2, <2>3, <2>5 DEF Scan, disk, jobs
  <2>6. CASE Count(d)
    BY <2>2, <2>6 DEF Count, disk, jobs, QueueInv, Types, DaemonState
  <2>7. CASE Check(d)
    <3>1. CASE Exit(d)
      BY <1>3, <2>7, <3>1, GoneKeepsTrack DEF Check, Exit, disk, jobs
    <3>2. CASE ~Exit(d)
      BY <2>2, <2>3, <2>7, <3>2 DEF Check, disk, jobs
    <3> QED BY <3>1, <3>2
  <2>8. CASE DaemonDies(d)
    BY <1>3, <2>8, GoneKeepsTrack DEF DaemonDies, disk, jobs
  <2>9. CASE Mark(d)
    BY <2>9, MarkKeepsTrack
  <2>10. CASE Complete(d)
    BY <2>10, CompleteKeepsTrack
  <2>11. CASE OpenSession(d) \/ ReadDoc(d) \/ WriteIndex(d)
    BY <2>11, WorkKeepsTrack
  <2> QED BY <1>3, <2>4, <2>5, <2>6, <2>7, <2>8, <2>9, <2>10, <2>11 DEF DaemonActs
<1> QED BY <1>1, <1>2, <1>3, Cases

(* A change of a doc is forgotten in the six known ways only, also when    *)
(* daemons start slowly or beside each other; a daemon that is stopped,    *)
(* dies or exits for idleness, at whatever step, forgets none.             *)
THEOREM ForgottenKnown == Spec => ForgottenInKnownWays
<1>1. QueueInv /\ [Next]_vars =>
        [\A t \in Docs :
           (Tracked(t) /\ ~Tracked(t)') =>
             \/ \E c \in Clients : ClientDies(c) \/ IndexLocally(c)
             \/ \E d \in Daemons :
                  \/ JobFails(d)
                  \/ Complete(d) /\ ~queue[daemon[d].job.key].started
                  \/ Mark(d) /\ daemon[d].job.key = <<"remove", t>> /\ source[t] # 0
             \/ TwoAtWork \/ TwoAtWork']_vars
  BY KnownWays DEF OneAtWork
<1> QED BY <1>1, QueueInvariance, PTL DEF Spec, ForgottenInKnownWays
===============================================================================
