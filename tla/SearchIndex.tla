----------------------------- MODULE SearchIndex -----------------------------
(***************************************************************************)
(* The semantic search index (internal/search: index.go and                *)
(* sqlite_vecstore.go): one SQLite database per project, with the embedded *)
(* chunks of every source and a content hash per source, written by many   *)
(* sessions at once.  A session is one use of the index by one process: a  *)
(* lifecycle hook (IndexTask, RemoveTask), a job of the shared runtime or  *)
(* of a process that found none (IndexDoc, RemoveDoc), or a Reindex.       *)
(*                                                                         *)
(* A session loads all chunks when it opens.  Task commits go straight to  *)
(* the rows of one Task, under the root lifecycle lock.  The commit of a   *)
(* doc job (Save) replaces every row by what the session holds; Reindex    *)
(* replaces the rows of docs and then commits the Tasks.  Hashes are       *)
(* written at once.                                                        *)
(*                                                                         *)
(* A source's chunks and its hash are represented by the content they were *)
(* made from.  A definition directly before another that has its           *)
(* parameters is a mutation of it, which no action uses.                   *)
(***************************************************************************)
EXTENDS Naturals, FiniteSets

CONSTANTS
  Tasks, Docs,
  Contents,   \* what a Task or a doc may contain
  None,       \* no such source, no chunks, no hash
  Sessions,
  Nobody,
  MaxEdits,   \* bound: edits of Tasks and docs
  MaxFaults   \* bound: failures to embed or to write, and processes that die

Sources == Tasks \cup Docs
Values == Contents \cup {None}

ASSUME SourceAssumption == Tasks \cap Docs = {} /\ None \notin Contents
ASSUME SessionAssumption == Nobody \notin Sessions
ASSUME IndexBoundsAssumption == MaxEdits \in Nat /\ MaxFaults \in Nat

VARIABLES
  task,       \* [Tasks -> Values]: the canonical Task
  gone,       \* the Tasks with a tombstone
  doc,        \* [Docs -> Values]
  chunks,     \* [Sources -> Values]
  hash,       \* [Sources -> Values]
  built,      \* the metadata row says which model the index was built with
  lock,       \* the session that holds the root lifecycle lock, or Nobody
  session,    \* [Sessions -> [at, src, view, seen, todo, same]]
  edits, faults

canon == <<task, gone, doc>>
index == <<chunks, hash, built>>
bounds == <<edits, faults>>
vars == <<task, gone, doc, chunks, hash, built, lock, session, edits, faults>>

Nothing == [s \in Sources |-> None]

(* view is the session's copy of the chunks; seen, what it read of the     *)
(* sources; todo, the sources a Reindex has still to prepare; same, the    *)
(* Tasks whose hash it found unchanged.                                    *)
Places == {"closed", "commitTask", "indexDoc", "removeDoc", "save", "check", "clear", "list",
           "prepare", "saveDocs", "commitTasks"}
Session == [at: Places, src: Sources \cup {None}, view: [Sources -> Values],
            seen: [Sources -> Values], todo: SUBSET Sources, same: SUBSET Tasks]
Closed == [at |-> "closed", src |-> None, view |-> Nothing, seen |-> Nothing,
           todo |-> {}, same |-> {}]

Init ==
  /\ task = [t \in Tasks |-> None]
  /\ gone = {}
  /\ doc = [d \in Docs |-> None]
  /\ chunks = Nothing
  /\ hash = Nothing
  /\ built = FALSE
  /\ lock = Nobody
  /\ session = [p \in Sessions |-> Closed]
  /\ edits = 0 /\ faults = 0

At(p, place) == session[p].at = place
Goes(p, s) == session' = [session EXCEPT ![p] = s]
Close(p) == Goes(p, Closed)
Present == {t \in Tasks : task[t] # None} \cup {d \in Docs : doc[d] # None}
Canonical == [s \in Sources |-> IF s \in Tasks THEN task[s] ELSE doc[s]]

-----------------------------------------------------------------------------
(* The sources.  Task writes hold the lifecycle lock, doc writes do not.   *)

EditTask(t) ==
  /\ lock = Nobody /\ t \notin gone
  /\ edits < MaxEdits /\ edits' = edits + 1
  /\ \E content \in Contents : task' = [task EXCEPT ![t] = content]
  /\ UNCHANGED <<gone, doc, index, lock, session, faults>>

DeleteTask(t) ==
  /\ lock = Nobody /\ task[t] # None
  /\ task' = [task EXCEPT ![t] = None]
  /\ gone' = gone \cup {t}
  /\ UNCHANGED <<doc, index, lock, session, bounds>>

EditDoc(d) ==
  /\ edits < MaxEdits /\ edits' = edits + 1
  /\ \E content \in Values : doc' = [doc EXCEPT ![d] = content]
  /\ UNCHANGED <<task, gone, index, lock, session, faults>>

-----------------------------------------------------------------------------
(* IndexTask: the Task is read and embedded, then committed if it has not  *)
(* changed.                                                                *)

IndexTask(p, t) ==
  /\ At(p, "closed")
  /\ task[t] # None
  /\ Goes(p, [Closed EXCEPT !.at = "commitTask", !.src = t, !.seen[t] = task[t]])
  /\ UNCHANGED <<canon, index, lock, bounds>>

(* ApplyTaskMutations with one mutation: the rows and the hash of a Task.  *)
Store(t, content) ==
  /\ chunks' = [chunks EXCEPT ![t] = content]
  /\ hash' = [hash EXCEPT ![t] = content]
  /\ built' = TRUE

NeverChanged(p, t) == FALSE
Changed(p, t) == task[t] # session[p].seen[t]

CommitTask(p) ==
  LET t == session[p].src IN
  /\ At(p, "commitTask")
  /\ lock = Nobody
  /\ \/ ~Changed(p, t) /\ Store(t, session[p].seen[t])
     \/ Changed(p, t) /\ (task[t] = None \/ hash[t] # task[t]) /\ Store(t, None)
     \/ Changed(p, t) /\ task[t] # None /\ hash[t] = task[t] /\ UNCHANGED index
  /\ Close(p)
  /\ UNCHANGED <<canon, lock, bounds>>

RemoveTask(p, t) ==
  /\ At(p, "closed")
  /\ lock = Nobody /\ t \in gone
  /\ Store(t, None)
  /\ UNCHANGED <<canon, lock, session, bounds>>

-----------------------------------------------------------------------------
(* IndexDoc and RemoveDoc.                                                 *)

OpenDocJob(p, d) ==
  /\ At(p, "closed")
  /\ \E kind \in {"indexDoc", "removeDoc"} :
       Goes(p, [Closed EXCEPT !.at = kind, !.src = d, !.view = chunks])
  /\ UNCHANGED <<canon, index, lock, bounds>>

ReadDoc(p) ==
  LET s == session[p]
      d == session[p].src
  IN
  /\ \/ /\ At(p, "indexDoc") /\ doc[d] # None
        /\ Goes(p, [s EXCEPT !.at = "save", !.view[d] = doc[d]])
     \/ /\ At(p, "indexDoc") /\ doc[d] = None
        /\ Close(p)
     \/ /\ At(p, "removeDoc")
        /\ Goes(p, [s EXCEPT !.at = "save", !.view[d] = None])
  /\ UNCHANGED <<canon, index, lock, bounds>>

Save(p) ==
  /\ At(p, "save")
  /\ chunks' = session[p].view
  /\ built' = TRUE
  /\ Close(p)
  /\ UNCHANGED <<canon, hash, lock, bounds>>

-----------------------------------------------------------------------------
(* Reindex.                                                                *)

OpenReindex(p) ==
  /\ At(p, "closed")
  /\ Goes(p, [Closed EXCEPT !.at = "check", !.view = chunks])
  /\ UNCHANGED <<canon, index, lock, bounds>>

(* An index that does not say what it was built with is cleared.  That is   *)
(* looked up without the lifecycle lock and not again when the session has *)
(* got the lock.                                                           *)
NeedsRebuild(p) ==
  /\ At(p, "check")
  /\ Goes(p, [session[p] EXCEPT !.at = IF built THEN "list" ELSE "clear"])
  /\ UNCHANGED <<canon, index, lock, bounds>>

Clear(p) ==
  /\ At(p, "clear")
  /\ lock = Nobody
  /\ chunks' = Nothing /\ hash' = Nothing /\ built' = FALSE
  /\ Goes(p, [session[p] EXCEPT !.at = "list", !.view = Nothing])
  /\ UNCHANGED <<canon, lock, bounds>>

List(p) ==
  /\ At(p, "list")
  /\ Goes(p, [session[p] EXCEPT !.at = "prepare", !.seen = Canonical, !.todo = Present])
  /\ UNCHANGED <<canon, index, lock, bounds>>

(* Tasks whose hash is the listed content are not embedded again.  A Task  *)
(* that cannot be embedded is no candidate.                                *)
PrepareTask(p, t) ==
  LET s == session[p] IN
  /\ At(p, "prepare") /\ t \in s.todo
  /\ \/ /\ hash[t] = s.seen[t]
        /\ Goes(p, [s EXCEPT !.todo = @ \ {t}, !.same = @ \cup {t}])
        /\ UNCHANGED faults
     \/ /\ hash[t] # s.seen[t]
        /\ Goes(p, [s EXCEPT !.todo = @ \ {t}])
        /\ UNCHANGED faults
     \/ /\ hash[t] # s.seen[t]
        /\ faults < MaxFaults /\ faults' = faults + 1
        /\ Goes(p, [s EXCEPT !.todo = @ \ {t}, !.seen[t] = None])
  /\ UNCHANGED <<canon, index, lock, edits>>

(* Docs come after the Tasks.  The hash of a doc is in the database before *)
(* its chunks are; a doc that cannot be embedded has lost its old chunks.  *)
PrepareDoc(p, d) ==
  LET s == session[p] IN
  /\ At(p, "prepare") /\ s.todo \cap Tasks = {} /\ d \in s.todo
  /\ \/ /\ doc[d] = None \/ hash[d] = doc[d]
        /\ Goes(p, [s EXCEPT !.todo = @ \ {d}])
        /\ UNCHANGED <<hash, faults>>
     \/ /\ doc[d] # None /\ hash[d] # doc[d]
        /\ Goes(p, [s EXCEPT !.todo = @ \ {d}, !.view[d] = doc[d]])
        /\ hash' = [hash EXCEPT ![d] = doc[d]]
        /\ UNCHANGED faults
     \/ /\ doc[d] # None /\ hash[d] # doc[d]
        /\ faults < MaxFaults /\ faults' = faults + 1
        /\ Goes(p, [s EXCEPT !.todo = @ \ {d}, !.view[d] = None])
        /\ UNCHANGED hash
  /\ UNCHANGED <<canon, chunks, built, lock, edits>>

(* The last phase holds the lifecycle lock.  What is known of docs that    *)
(* were not listed goes first, the hashes at once.                         *)
Orphans(p) == {d \in Docs : hash[d] # None /\ session[p].seen[d] = None}

DropOrphans(p) ==
  /\ At(p, "prepare") /\ session[p].todo = {}
  /\ lock = Nobody /\ lock' = p
  /\ hash' = [s \in Sources |-> IF s \in Orphans(p) THEN None ELSE hash[s]]
  /\ Goes(p, [session[p] EXCEPT !.at = "saveDocs",
       !.view = [s \in Sources |-> IF s \in Orphans(p) THEN None ELSE @[s]]])
  /\ UNCHANGED <<canon, chunks, built, bounds>>

EveryRow(p) == session[p].view
RowsOfDocs(p) == [s \in Sources |-> IF s \in Tasks THEN chunks[s] ELSE session[p].view[s]]

SaveNonTaskSources(p) ==
  /\ At(p, "saveDocs")
  /\ chunks' = RowsOfDocs(p)
  /\ built' = TRUE
  /\ Goes(p, [session[p] EXCEPT !.at = "commitTasks"])
  /\ UNCHANGED <<canon, hash, lock, bounds>>

(* What the mutations of a Reindex leave of a Task: the candidate that is  *)
(* still what was listed, the row that is there, or nothing.               *)
Committed(p, t) ==
  /\ session[p].seen[t] # None /\ task[t] = session[p].seen[t]
  /\ hash[t] # task[t] /\ t \notin session[p].same
KeptAsListed(p, t) == hash[t] = session[p].seen[t]
Kept(p, t) ==
  \/ task[t] # None /\ hash[t] = task[t]
  \/ session[p].seen[t] = None /\ (task[t] # None \/ hash[t] = None)
Outcome(p, t, row) ==
  IF Committed(p, t) THEN session[p].seen[t] ELSE IF Kept(p, t) THEN row ELSE None

CommitTasks(p) ==
  /\ At(p, "commitTasks")
  /\ chunks' = [s \in Sources |-> IF s \in Tasks THEN Outcome(p, s, chunks[s]) ELSE chunks[s]]
  /\ hash' = [s \in Sources |-> IF s \in Tasks THEN Outcome(p, s, hash[s]) ELSE hash[s]]
  /\ lock' = Nobody
  /\ Close(p)
  /\ UNCHANGED <<canon, built, bounds>>

-----------------------------------------------------------------------------
(* A session fails, or its process dies: the lock is free again, what is   *)
(* in the database stays.                                                  *)
LockAfter(p) == IF lock = p THEN Nobody ELSE lock

Ends(p) ==
  /\ ~At(p, "closed")
  /\ faults < MaxFaults /\ faults' = faults + 1
  /\ lock' = LockAfter(p)
  /\ Close(p)
  /\ UNCHANGED <<canon, index, edits>>

Next ==
  \/ \E t \in Tasks : EditTask(t) \/ DeleteTask(t)
  \/ \E d \in Docs : EditDoc(d)
  \/ \E p \in Sessions :
       \/ \E t \in Tasks : IndexTask(p, t) \/ RemoveTask(p, t) \/ PrepareTask(p, t)
       \/ \E d \in Docs : OpenDocJob(p, d) \/ PrepareDoc(p, d)
       \/ CommitTask(p) \/ ReadDoc(p) \/ Save(p)
       \/ OpenReindex(p) \/ NeedsRebuild(p) \/ Clear(p) \/ List(p) \/ DropOrphans(p)
       \/ SaveNonTaskSources(p) \/ CommitTasks(p)
       \/ Ends(p)

Spec == Init /\ [][Next]_vars

-----------------------------------------------------------------------------
(* The type invariant.  The lifecycle lock is held by the session that is  *)
(* in the last phase of a Reindex, and free otherwise.                     *)
LockHeld ==
  \A p \in Sessions : lock = p <=> session[p].at \in {"saveDocs", "commitTasks"}

TypeOK ==
  /\ task \in [Tasks -> Values] /\ gone \subseteq Tasks /\ doc \in [Docs -> Values]
  /\ chunks \in [Sources -> Values] /\ hash \in [Sources -> Values] /\ built \in BOOLEAN
  /\ lock \in Sessions \cup {Nobody}
  /\ session \in [Sessions -> Session]
  /\ edits \in 0 .. MaxEdits /\ faults \in 0 .. MaxFaults
  /\ LockHeld

(* The index has a Task as it is.                                          *)
Current(t) == task[t] # None /\ chunks[t] = task[t] /\ hash[t] = task[t]

(* A Task that is indexed as it is stays so until it changes, whatever     *)
(* hooks and Reindexes, started before, still commit or die.  Two steps    *)
(* lose it: the Save of a doc job, and the Clear of a Reindex that found   *)
(* no metadata although there is some by then.                             *)
CurrentLostInTwoWays ==
  [][\A t \in Tasks :
       (Current(t) /\ task'[t] = task[t] /\ ~Current(t)') =>
         \E p \in Sessions : Save(p) \/ (Clear(p) /\ built)]_vars

(* Once the removal of a hard-deleted Task is committed, no session that   *)
(* read the Task before brings its chunks or its hash back: only the Save  *)
(* of a doc job does.                                                      *)
Absent(t) == chunks[t] = None /\ hash[t] = None
DeletedReturnsOnlyBySave ==
  [][\A t \in gone : (Absent(t) /\ ~Absent(t)') => \E p \in Sessions : Save(p)]_vars

(* A Reindex fails closed: it leaves no hash of a candidate that is not    *)
(* what the Task is when it commits, however long it embedded.             *)
ReindexFailsClosed ==
  [][\A p \in Sessions : CommitTasks(p) =>
       \A t \in Tasks : session[p].seen[t] = None \/ hash'[t] \in {None, task[t]}]_vars

=============================================================================
