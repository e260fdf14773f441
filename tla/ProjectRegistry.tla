---------------------------- MODULE ProjectRegistry ----------------------------
(***************************************************************************)
(* The registry of projects that every program of know-me shares, a file   *)
(* that the command line and the tools of coding agents read, change and   *)
(* write in their own processes, and the browser server in its requests,   *)
(* which share one copy of it and a mutex.  A lock file keeps the processes *)
(* apart, but not Update, and not for ever: a lock thirty seconds old is   *)
(* taken for the lock of a dead process.  Reading the file forgets the     *)
(* path of a project whose directory cannot be resolved at that moment.    *)
(***************************************************************************)
EXTENDS Naturals, Sequences, Functions

CONSTANTS
  Clients,       \* processes of the command line and of tool calls, each with a registry of its own
  Requests,      \* requests the browser server handles at the same time
  MaxProjects, MaxCommands, MaxMishaps   \* bounds

VARIABLES
  registry,      \* the registered projects, by ID: their path and when each was last selected
  exists,        \* the file has been written
  regLock, stale,\* who wrote the lock file, and whether it is thirty seconds old
  cache,         \* what each registry in memory holds
  actor,         \* what each process or request is doing
  mounted, link, \* the repository's directory resolves; the project its .known-me.json names
  configured,    \* projects whose settings name the directory
  root,          \* the directory the last request that runs in a project was given
  last,          \* how the file was last written: with the lock held?
  made, ran, upsets   \* IDs given out, commands run, mishaps so far

registryVars == <<registry, exists, regLock, stale, cache, actor, mounted, link, configured, root, last, made, ran,
                  upsets>>

Actors == Clients \union Requests
NoServer == "nobody"

ASSUME NamesApart == NoServer \notin Actors /\ Clients \cap Requests = {}

(* The registry an actor works on: the requests share the server's.        *)
Home(a) == IF a \in Requests THEN "server" ELSE a

(* What an actor has yet to do, and what it waits for: the lock.           *)
Asking(todo, id) == [todo |-> todo, at |-> "lock", id |-> id, read |-> <<>>, resolved |-> TRUE]
Idle == [todo |-> <<>>, at |-> "idle", id |-> 0, read |-> <<>>, resolved |-> TRUE]

RegistryInit ==
  /\ registry = <<>> /\ exists = FALSE /\ regLock = NoServer /\ stale = FALSE
  /\ cache = [h \in Clients \union {"server"} |-> <<>>]
  /\ actor = [a \in Actors |-> Idle]
  /\ mounted = TRUE /\ link = 0 /\ configured = {} /\ root = "" /\ last = "locked"
  /\ made = 0 /\ ran = 0 /\ upsets = 0

(* The project selected last, 0 when there is none.                        *)
GetActive(list) ==
  IF DOMAIN list = {} THEN 0
  ELSE CHOOSE i \in DOMAIN list : \A j \in DOMAIN list : list[j].used <= list[i].used

Now(list) == 1 + (IF DOMAIN list = {} THEN 0 ELSE list[GetActive(list)].used)

(* The operations of a command, each under the lock by itself.             *)
Operations ==
  [init |-> <<"load", "create", "use", "path", "link">>, linked |-> <<"load", "path">>,
   detect |-> <<"load">>, set |-> <<"load", "use">>]
ServerOperations ==
  [start |-> <<"load">>, create |-> <<"create", "path", "settings">>, update |-> <<"update", "settings">>,
   rename |-> <<"rename">>, switch |-> <<"use">>, remove |-> <<"remove">>]
Unlocked == {"update", "rename"}

(* A list as it is read: the path of a directory that is missing is gone.  *)
NormalizeStoredPath(list) ==
  [i \in DOMAIN list |-> [list[i] EXCEPT !.path = IF mounted THEN @ ELSE ""]]

(* The list a change starts from: the file's, or the one in memory while   *)
(* there is no file.                                                       *)
FromMemory(a) == IF cache[Home(a)] /= <<>> THEN cache[Home(a)] ELSE registry
RefreshForMutation(a) == IF exists THEN NormalizeStoredPath(registry) ELSE cache[Home(a)]

New(list, id) == [i \in DOMAIN list \union {id} |-> IF i = id THEN [path |-> "", used |-> Now(list)] ELSE list[i]]

(* What an operation makes of the list it read, for project id.            *)
Changed(op, id, list) ==
  CASE op = "load" -> list
    [] op = "create" -> New(list, id)
    [] op = "path" -> [list EXCEPT ![id].path = "repo"]
    [] op = "use" -> [list EXCEPT ![id].used = Now(list)]
    [] op = "update" -> [list EXCEPT ![id] = [path |-> "repo", used |-> Now(list)]]
    [] op = "rename" -> [list EXCEPT ![id].used = Now(list)]
    [] op = "remove" -> Restrict(list, DOMAIN list \ {id})

(* The operation an actor is at.                                           *)
Op(a) == Head(actor[a].todo)

(* Go on with the operations that are left.  The path of a project is      *)
(* resolved before the lock is asked for; when that fails, as when any     *)
(* operation fails, the command ends, but a request that creates a project *)
(* goes on without the path.                                               *)
Failed(a, todo, id) == IF a \in Requests /\ Head(todo) = "path" THEN Asking(Tail(todo), id) ELSE Idle
Proceed(a, todo, id) ==
  actor' = [actor EXCEPT ![a] = IF todo = <<>> THEN Idle
                                ELSE IF Head(todo) = "path" /\ ~mounted THEN Failed(a, todo, id)
                                ELSE Asking(todo, id)]
Fail(a) == actor' = [actor EXCEPT ![a] = Failed(a, @.todo, @.id)]

(* A command begins: init registers the directory it runs in, a command in *)
(* a linked directory records the directory for the project the link       *)
(* names, project.set selects a project, and the others only read.         *)
CliCommand(p) ==
  /\ actor[p].at = "idle" /\ ran < MaxCommands /\ ran' = ran + 1
  /\ cache' = [cache EXCEPT ![p] = <<>>]
  /\ \E c \in DOMAIN Operations, id \in 0..MaxProjects :
       /\ (c = "init" => id = made + 1) /\ (c = "linked" => id = link /\ link > 0)
       /\ (c = "detect" => id = 0) /\ (c = "set" => id > 0)
       /\ made' = IF c = "init" THEN made + 1 ELSE made
       /\ Proceed(p, Operations[c], id)
  /\ UNCHANGED <<registry, exists, regLock, stale, mounted, link, configured, root, last, upsets>>

(* A request of the browser server, or the server's start.                 *)
HttpRequest(r) ==
  /\ actor[r].at = "idle" /\ ran < MaxCommands /\ ran' = ran + 1
  /\ \E c \in DOMAIN ServerOperations, id \in 0..MaxProjects :
       /\ (c = "create" => id = made + 1) /\ (c = "start" => id = 0)
       /\ (c \notin {"create", "start"} => id \in 1..made)
       /\ made' = IF c = "create" THEN made + 1 ELSE made
       /\ Proceed(r, ServerOperations[c], id)
  /\ UNCHANGED <<registry, exists, regLock, stale, cache, mounted, link, configured, root, last, upsets>>

(* The mutex of the registry's process is held from before the lock is     *)
(* asked for until the operation ends.                                     *)
HasMutex(a) == \A b \in Actors \ {a} : Home(b) = Home(a) => actor[b].at \in {"idle", "lock"}

Asks(a) == actor[a].at = "lock" /\ Op(a) \notin Unlocked \union {"link", "settings"} /\ HasMutex(a)

(* The lock file is made, if there is none; Update does not ask for it.    *)
WithWriteLock(a) ==
  /\ Asks(a) /\ regLock = NoServer
  /\ regLock' = a /\ stale' = FALSE
  /\ actor' = [actor EXCEPT ![a].at = "read"]
  /\ UNCHANGED <<registry, exists, cache, mounted, link, configured, root, last, made, ran, upsets>>
WithWriteLockResult(a) ==
  /\ actor[a].at = "lock" /\ Op(a) \in Unlocked /\ HasMutex(a)
  /\ actor' = [actor EXCEPT ![a].at = "read"]
  /\ UNCHANGED <<registry, exists, regLock, stale, cache, mounted, link, configured, root, last, made, ran, upsets>>

(* A lock file is found to be old, and then removed, whosever it is then.  *)
FindStale(a) ==
  /\ Asks(a) /\ regLock /= NoServer /\ stale
  /\ actor' = [actor EXCEPT ![a].at = "break"]
  /\ UNCHANGED <<registry, exists, regLock, stale, cache, mounted, link, configured, root, last, made, ran, upsets>>
BreakLock(a) ==
  /\ actor[a].at = "break" /\ actor' = [actor EXCEPT ![a].at = "lock"]
  /\ regLock' = NoServer /\ stale' = FALSE
  /\ UNCHANGED <<registry, exists, cache, mounted, link, configured, root, last, made, ran, upsets>>

(* Five seconds without the lock end the command.                          *)
LockTimeout(a) ==
  /\ Asks(a) /\ regLock /= NoServer
  /\ Fail(a)
  /\ UNCHANGED <<registry, exists, regLock, stale, cache, mounted, link, configured, root, last, made, ran, upsets>>

(* The file is read; a load of a file that is not there gives no projects. *)
Load(a) ==
  /\ actor[a].at = "read"
  /\ LET list == IF Op(a) = "load" /\ ~exists THEN <<>> ELSE RefreshForMutation(a) IN
       /\ cache' = [cache EXCEPT ![Home(a)] = list]
       /\ actor' = [actor EXCEPT ![a].at = "write", ![a].read = list, ![a].resolved = mounted]
  /\ UNCHANGED <<registry, exists, regLock, stale, mounted, link, configured, root, last, made, ran, upsets>>

(* The changed list replaces the file, and the lock file is removed,       *)
(* whosever it is.  A load saves what it read, an operation on a project   *)
(* that is not in the list fails.                                          *)
SaveRegistry(a) ==
  LET op == Op(a)
      list == actor[a].read
      id == actor[a].id
      known == (op \in {"load", "create"} \/ id \in DOMAIN list) /\ (op = "update" => mounted)
      saves == known /\ ~(op = "load" /\ ~exists)
  IN
  /\ actor[a].at = "write"
  /\ IF saves
       THEN /\ registry' = Changed(op, id, list) /\ exists' = TRUE
            /\ cache' = [cache EXCEPT ![Home(a)] = registry']
            /\ last' = IF regLock = a THEN "locked" ELSE "bare"
       ELSE UNCHANGED <<registry, exists, cache, last>>
  /\ IF op \in Unlocked THEN UNCHANGED <<regLock, stale>> ELSE regLock' = NoServer /\ stale' = FALSE
  /\ IF known THEN Proceed(a, Tail(actor[a].todo), id) ELSE Fail(a)
  /\ UNCHANGED <<mounted, link, configured, root, made, ran, upsets>>

(* init ends by linking the directory to the project, a request by saving  *)
(* the path it was given in the settings of the project.                   *)
WriteWorkspaceProjectLink(a) ==
  /\ actor[a].at = "lock" /\ Op(a) = "link"
  /\ link' = actor[a].id /\ Fail(a)
  /\ UNCHANGED <<registry, exists, regLock, stale, cache, mounted, configured, root, last, made, ran, upsets>>
SaveWorkspacePath(a) ==
  /\ actor[a].at = "lock" /\ Op(a) = "settings"
  /\ configured' = configured \union {actor[a].id} /\ Fail(a)
  /\ UNCHANGED <<registry, exists, regLock, stale, cache, mounted, link, root, last, made, ran, upsets>>

(* The directory a request that runs in project id is given: the one in the *)
(* project's settings, which must exist, or the one the server's registry  *)
(* has, which an older copy of the file may lack.                          *)
ProjectWorkspace(id) ==
  IF ~mounted THEN "refused"
  ELSE IF id \in configured THEN "repo"
  ELSE IF id \in DOMAIN cache["server"] /\ cache["server"][id].path /= "" THEN "repo" ELSE "refused"
RunInProject(r) ==
  /\ actor[r].at = "idle"
  /\ \E id \in 1..made : ProjectWorkspace(id) /= root /\ root' = ProjectWorkspace(id)
  /\ UNCHANGED <<registry, exists, regLock, stale, cache, actor, mounted, link, configured, last, made, ran, upsets>>

(* A process dies, leaving its lock file behind; the server takes all its  *)
(* requests and its registry with it.                                      *)
Die(h) ==
  /\ upsets < MaxMishaps /\ upsets' = upsets + 1
  /\ \E a \in Actors : Home(a) = h /\ actor[a].at /= "idle"
  /\ actor' = [a \in Actors |-> IF Home(a) = h THEN Idle ELSE actor[a]]
  /\ cache' = [cache EXCEPT ![h] = <<>>]
  /\ UNCHANGED <<registry, exists, regLock, stale, mounted, link, configured, root, last, made, ran>>

(* A lock file grows old: its process died, or was suspended that long.    *)
LockAges ==
  /\ regLock /= NoServer /\ ~stale /\ stale' = TRUE
  /\ IF actor[regLock].at \in {"read", "write"}
       THEN upsets < MaxMishaps /\ upsets' = upsets + 1
       ELSE UNCHANGED upsets
  /\ UNCHANGED <<registry, exists, regLock, cache, actor, mounted, link, configured, root, last, made, ran>>

(* The directory of the repository goes away, as a disk does, or is back.  *)
DirectoryMoves ==
  /\ mounted' = ~mounted
  /\ IF mounted THEN upsets < MaxMishaps /\ upsets' = upsets + 1 ELSE UNCHANGED upsets
  /\ UNCHANGED <<registry, exists, regLock, stale, cache, actor, link, configured, root, last, made, ran>>

RegistryNext ==
  \/ \E p \in Clients : CliCommand(p)
  \/ \E r \in Requests : HttpRequest(r) \/ RunInProject(r)
  \/ \E a \in Actors :
       \/ WithWriteLock(a) \/ WithWriteLockResult(a) \/ FindStale(a) \/ BreakLock(a) \/ LockTimeout(a)
       \/ Load(a) \/ SaveRegistry(a) \/ WriteWorkspaceProjectLink(a) \/ SaveWorkspacePath(a)
  \/ \E h \in Clients \union {"server"} : Die(h)
  \/ LockAges \/ DirectoryMoves

RegistrySpec == RegistryInit /\ [][RegistryNext]_registryVars

(* Two writers that hold the lock lose nothing of each other: a project    *)
(* leaves the file, or loses its path, only when it is removed, when the   *)
(* writer had no lock of its own - an Update, or a lock taken from it as   *)
(* stale - or follows such a writer, or, for a path, when its directory    *)
(* could not be resolved when the file was read.                           *)
ProjectsAreKept ==
  [][\A id \in DOMAIN registry :
       \/ id \in DOMAIN registry' /\ (registry[id].path /= "" => registry'[id].path /= "")
       \/ last = "bare" \/ last' = "bare"
       \/ \E a \in Actors :
            /\ actor[a].at = "write" /\ actor'[a].at /= "write"
            /\ (Op(a) = "remove" /\ actor[a].id = id) \/ (id \in DOMAIN registry' /\ ~actor[a].resolved)
  ]_registryVars
================================================================================
