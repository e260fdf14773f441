------------------------------- MODULE TaskFiles -------------------------------
(***************************************************************************)
(* The files of one Task and how they are found.  A file carries the       *)
(* Task's project in its name and again inside, the two need not agree,    *)
(* and what counts is mostly the inside.  A store is that of a project or  *)
(* of all projects, and an ID may name its project or not.  Changes hold   *)
(* the lifecycle lock; listings do not, and remove files all the same.     *)
(***************************************************************************)
EXTENDS Integers, Sequences, FiniteSets, SequencesExt, TLC

CONSTANTS
  Callers,                         \* processes and requests
  Scopes,                          \* the projects, in the order their file names sort, and NoName among them
  Titles,                          \* in that order, too
  MaxFileCalls, MaxFileDeaths      \* bounds

VARIABLES
  files,        \* by directory, project in the name and title in the name
  lock,         \* who holds the lifecycle lock
  doing,        \* the call of each caller
  tombs,        \* IDs with a tombstone, by the project they name
  now,          \* the time of the last update
  accepted,     \* the time of the change that was written last
  overtaken,    \* whether a listing removed a file that was changed after the listing had read it
  fileCalls, fileDeaths

fileVars == <<files, lock, doing, tombs, now, accepted, overtaken, fileCalls, fileDeaths>>

NoName == "none"
NoCaller == "nobody"
Dirs == <<"tasks", "archive">>
Absent == [project |-> NoName, title |-> NoName, updatedAt |-> 0]
Content(project, title, time) == [project |-> project, title |-> title, updatedAt |-> time]
Idle == [at |-> "idle", kind |-> NoName, store |-> NoName, id |-> NoName, before |-> Absent, after |-> Absent,
         todo |-> <<>>, seen |-> {}, name |-> <<"tasks", NoName, NoName>>]

TaskFilename(project, title) == <<"tasks", project, title>>
In(dir) == {n \in DOMAIN files : n[1] = dir}
There(n) == files[n] # Absent
(* The files of a directory, sorted by name.                               *)
ReadDir(dir) ==
  LET Sorted == [i \in 1..(Len(Scopes) * Len(Titles)) |->
                   <<dir, Scopes[((i - 1) \div Len(Titles)) + 1], Titles[((i - 1) % Len(Titles)) + 1]>>]
  IN SelectSeq(Sorted, There)

(* One file; one with an old name; two of one project, left by an earlier  *)
(* version that renamed files; an archived one.                            *)
Files(map) == map @@ [n \in (Range(Dirs) \X Range(Scopes) \X Range(Titles)) |-> Absent]
FilesInit ==
  /\ \E p \in Range(Scopes), t, u \in Range(Titles), dir \in Range(Dirs) :
       \E key \in {NoName, p} :
         files \in {Files(<<dir, key, t>> :> Content(p, t, 1)),
                    Files((<<dir, p, u>> :> Content(p, u, 1)) @@ (<<dir, key, t>> :> Content(p, t, 0 - 1)))}
  /\ lock = NoCaller /\ doing = [c \in Callers |-> Idle] /\ tombs = {} /\ now = 1 /\ accepted = 1 /\ overtaken = FALSE
  /\ fileCalls = 0 /\ fileDeaths = 0

Asks(c, fields) ==
  /\ doing[c].at = "idle" /\ fileCalls < MaxFileCalls /\ fileCalls' = fileCalls + 1
  /\ doing' = [doing EXCEPT ![c] = fields @@ Idle]
Goes(c, fields) == doing' = [doing EXCEPT ![c] = fields @@ @]
Ends(c) == doing' = [doing EXCEPT ![c] = Idle]
Writes(name, content) == files' = [files EXCEPT ![name] = content] /\ accepted' = content.updatedAt
Bounds == <<fileCalls, fileDeaths>>

-------------------------------------------------------------------------------
(* Finding the file of a Task, in both directories.  An ID without a       *)
(* project is looked up in the project of the store, and in the store of   *)
(* all projects in each of them.                                           *)
FindFileExact(project) == {n \in DOMAIN files : There(n) /\ files[n].project = project}
FindFile(id, store) ==
  IF id # NoName THEN FindFileExact(id)
  ELSE IF store # NoName THEN FindFileExact(store)
  ELSE {n \in DOMAIN files : There(n)}
Single(found) == Cardinality(found) = 1
The(found) == CHOOSE n \in found : TRUE

ScanForID(dir, id, store) ==
  LET project == IF id # NoName THEN id ELSE store
  IN {n \in In(dir) : There(n) /\ (project = NoName \/ files[n].project \in {NoName, project})}

(* A request looks the Task up first, without the lock and one directory   *)
(* after the other, and goes on in the store of its project.               *)
ResolveHTTPTask(c) ==
  /\ Asks(c, [at |-> "resolve", seen |-> {[name |-> n, task |-> files[n]] : n \in {m \in In("tasks") : There(m)}}])
  /\ UNCHANGED <<files, lock, tombs, accepted, overtaken, fileDeaths, now>>

TaskStoreForHTTP(c) ==
  /\ doing[c].at = "resolve"
  /\ LET found == doing[c].seen \union {[name |-> n, task |-> files[n]] : n \in {m \in In("archive") : There(m)}}
     IN Goes(c, [at |-> "asked", store |-> IF Single(found) THEN The(found).task.project ELSE NoName])
  /\ UNCHANGED <<files, lock, tombs, accepted, overtaken, Bounds, now>>

CliOrMcpStore(c) ==
  /\ \E store, id \in Range(Scopes) : Asks(c, [at |-> "asked", store |-> store, id |-> id])
  /\ UNCHANGED <<files, lock, tombs, accepted, overtaken, fileDeaths, now>>

(* The caller takes the lifecycle lock and reads the Task under it.        *)
WithTransaction(c) ==
  /\ doing[c].at = "asked" /\ lock = NoCaller
  /\ Single(FindFile(doing[c].id, doing[c].store)) /\ lock' = c
Task(c) == The(FindFile(doing[c].id, doing[c].store))
Done(c) == Ends(c) /\ lock' = NoCaller

-------------------------------------------------------------------------------
(* An update changes the title or the project.  A new project gets a file  *)
(* of a new name, and the old file is removed after it; when the version   *)
(* cannot be saved the same is done back.                                  *)
UpdateTask(c) ==
  /\ WithTransaction(c) /\ Task(c)[1] = "tasks"
  /\ now' = now + 1
  /\ \E project \in Range(Scopes), title \in Range(Titles) :
       Goes(c, [at |-> "write", kind |-> "update", store |-> NoName, id |-> NoName, before |-> files[Task(c)],
                after |-> Content(project, title, now')])
  /\ UNCHANGED <<files, tombs, accepted, overtaken, Bounds>>

IsIDReserved(id) == id \in tombs

CreateUnlocked(c) ==
  LET task == doing[c].after IN
  IF IsIDReserved(NoName) THEN Done(c) /\ UNCHANGED <<files, accepted>>
  ELSE Writes(TaskFilename(task.project, task.title), task) /\ Goes(c, [at |-> "version"]) /\ UNCHANGED lock

UpdateUnlocked(c) ==
  /\ doing[c].at = "write" /\ doing[c].before.project = doing[c].after.project
  /\ LET found == FindFileExact(doing[c].after.project) IN
     IF Single(found) THEN Writes(The(found), doing[c].after) /\ Goes(c, [at |-> "version"]) /\ UNCHANGED lock
     ELSE CreateUnlocked(c)
  /\ UNCHANGED <<tombs, overtaken, Bounds, now>>

MoveProjectUnlocked(c) ==
  /\ doing[c].at = "write" /\ doing[c].before.project # doing[c].after.project
  /\ LET found == FindFileExact(doing[c].before.project)
         new == TaskFilename(doing[c].after.project, doing[c].after.title)
     IN IF ~Single(found) \/ (The(found) # new /\ There(new))
        THEN Done(c) /\ UNCHANGED <<files, accepted>>
        ELSE /\ Writes(new, doing[c].after) /\ UNCHANGED lock
             /\ Goes(c, IF The(found) = new THEN [at |-> "version"] ELSE [at |-> "remove", name |-> The(found)])
  /\ UNCHANGED <<tombs, overtaken, Bounds, now>>

RemoveOld(c) ==
  /\ doing[c].at = "remove"
  /\ files' = [files EXCEPT ![doing[c].name] = Absent]
  /\ (IF There(doing[c].name) THEN Goes(c, [at |-> "version"]) /\ UNCHANGED lock ELSE Done(c))
  /\ UNCHANGED <<tombs, accepted, overtaken, Bounds, now>>

SaveTaskVersion(c) ==
  /\ doing[c].at = "version"
  /\ \/ Done(c)
     \/ /\ doing[c].kind = "update"
        /\ Goes(c, [at |-> "write", kind |-> "undo", before |-> doing[c].after, after |-> doing[c].before])
        /\ UNCHANGED lock
  /\ UNCHANGED <<files, tombs, accepted, overtaken, Bounds, now>>

-------------------------------------------------------------------------------
(* Archiving and reopening rename the file into the other directory.       *)
Renamed(from, to) ==
  files' = [n \in DOMAIN files |-> IF n = from THEN Absent
                                   ELSE IF n = <<to, from[2], from[3]>> THEN files[from] ELSE files[n]]
Moves(c, from, to) ==
  /\ WithTransaction(c) /\ Goes(c, [at |-> "version", kind |-> "move", store |-> NoName, id |-> NoName])
  /\ LET found == ScanForID(from, doing[c].id, doing[c].store) IN
     /\ Single(found) /\ ~Single(ScanForID(to, doing[c].id, doing[c].store))
     /\ Renamed(The(found), to)
  /\ UNCHANGED <<tombs, accepted, overtaken, Bounds, now>>

ArchiveUnlocked(c) == Moves(c, "tasks", "archive")
UnarchiveUnlocked(c) == Moves(c, "archive", "tasks")

-------------------------------------------------------------------------------
(* A hard-delete writes the tombstone and removes the files by their names.*)
HardDelete(c) ==
  /\ WithTransaction(c) /\ tombs' = tombs \union {doing[c].id}
  /\ Goes(c, [at |-> "delete", kind |-> "hardDelete"])
  /\ UNCHANGED <<files, accepted, overtaken, Bounds, now>>

TaskFilenameKeys(c) ==
  LET project == IF doing[c].id # NoName THEN doing[c].id ELSE doing[c].store IN {project, NoName}
TaskFilenameMatches(c) == {n \in DOMAIN files : There(n) /\ n[2] \in TaskFilenameKeys(c)}

DeleteAllUnlocked(c) ==
  /\ doing[c].at = "delete" /\ TaskFilenameMatches(c) # {}
  /\ LET names == SelectSeq(ReadDir("tasks") \o ReadDir("archive"), LAMBDA n : n \in TaskFilenameMatches(c))
     IN files' = [files EXCEPT ![Head(names)] = Absent]
  /\ UNCHANGED <<doing, lock, tombs, accepted, overtaken, Bounds, now>>

DeleteEnds(c) ==
  /\ doing[c].at = "delete" /\ TaskFilenameMatches(c) = {} /\ Done(c)
  /\ UNCHANGED <<files, tombs, accepted, overtaken, Bounds, now>>

-------------------------------------------------------------------------------
(* A listing reads the names, then one file after the other, and of two    *)
(* with the same project it removes the one that is not later.             *)
List(c) ==
  /\ \E dir \in Range(Dirs) : Asks(c, [at |-> "list", todo |-> ReadDir(dir)])
  /\ UNCHANGED <<files, lock, tombs, accepted, overtaken, fileDeaths, now>>

RemovedLater(read, n) ==
  IF files[n].updatedAt > read.task.updatedAt THEN [name |-> n, task |-> files[n]] ELSE read
Removed(read, n) == IF files[n].updatedAt > read.task.updatedAt THEN read ELSE [name |-> n, task |-> files[n]]

ParseFile(c) ==
  /\ doing[c].at = "list" /\ doing[c].todo # <<>>
  /\ LET n == Head(doing[c].todo)
         this == [name |-> n, task |-> files[n]]
         same == {read \in doing[c].seen : read.task.project = files[n].project}
     IN IF ~There(n) \/ same = {}
        THEN Goes(c, [todo |-> Tail(doing[c].todo),
                      seen |-> doing[c].seen \union (IF There(n) THEN {this} ELSE {})])
        ELSE LET loser == Removed(The(same), n) IN
             Goes(c, [at |-> "discard", todo |-> Tail(doing[c].todo), name |-> loser.name, before |-> loser.task,
                      seen |-> (doing[c].seen \union {this}) \ {loser}])
  /\ UNCHANGED <<files, lock, tombs, accepted, overtaken, Bounds, now>>

Discard(c) ==
  /\ doing[c].at = "discard" /\ Goes(c, [at |-> "list"])
  /\ files' = [files EXCEPT ![doing[c].name] = Absent]
  /\ overtaken' = (overtaken \/ (There(doing[c].name) /\ files[doing[c].name] # doing[c].before))
  /\ UNCHANGED <<lock, tombs, accepted, Bounds, now>>

ListEnds(c) ==
  /\ doing[c].at = "list" /\ doing[c].todo = <<>> /\ Ends(c)
  /\ UNCHANGED <<files, lock, tombs, accepted, overtaken, Bounds, now>>

(* A request whose Task is not found, is archived already, and so on, ends.*)
Refused(c) ==
  /\ doing[c].at = "asked" /\ lock = NoCaller /\ Ends(c)
  /\ UNCHANGED <<files, lock, tombs, accepted, overtaken, Bounds, now>>

Die(c) ==
  /\ doing[c].at # "idle" /\ fileDeaths < MaxFileDeaths /\ fileDeaths' = fileDeaths + 1 /\ Ends(c)
  /\ lock' = IF lock = c THEN NoCaller ELSE lock
  /\ UNCHANGED <<files, tombs, accepted, overtaken, fileCalls, now>>

FilesNext ==
  \E c \in Callers :
    \/ ResolveHTTPTask(c) \/ TaskStoreForHTTP(c) \/ CliOrMcpStore(c) \/ UpdateTask(c) \/ UpdateUnlocked(c)
    \/ MoveProjectUnlocked(c) \/ RemoveOld(c) \/ SaveTaskVersion(c) \/ ArchiveUnlocked(c) \/ UnarchiveUnlocked(c)
    \/ HardDelete(c) \/ DeleteAllUnlocked(c) \/ DeleteEnds(c) \/ List(c) \/ ParseFile(c) \/ Discard(c)
    \/ ListEnds(c) \/ Refused(c) \/ Die(c)

FilesSpec == FilesInit /\ [][FilesNext]_fileVars

-------------------------------------------------------------------------------
(* Until a hard-delete begins, what was written last of the Task is in one *)
(* of its files, whoever moves, archives, undoes, lists or dies; the one   *)
(* exception is a listing that removes a duplicate which was changed after *)
(* it had read it.                                                         *)
LatestStays ==
  tombs = {} /\ ~overtaken => \E n \in DOMAIN files : files[n].updatedAt = accepted

(* "deleteAllUnlocked removes every active or archived file that resolves  *)
(* to the ID" (task_store.go:335).                                         *)
DeleteRemovesFiles ==
  [][\A c \in Callers :
       doing[c].kind = "hardDelete" /\ doing'[c].at = "idle" /\ fileDeaths' = fileDeaths
         => FindFile(doing[c].id, doing[c].store) = {}]_fileVars
=============================================================================
