-------------------------- MODULE SearchIndexProofs --------------------------
(***************************************************************************)
(* The properties of the search index, for every set of Tasks, docs,       *)
(* contents and sessions and for every bound.                              *)
(***************************************************************************)
EXTENDS SearchIndex, TLAPS

(* What the action properties need to know of the states before the step:  *)
(* a Task with a tombstone is gone for good, an index that does not say    *)
(* what it was built with has no hash of a Task (and no Reindex is past    *)
(* saving what says so), and a session that is about to commit one Task    *)
(* has read it (and one that is about to read a doc was opened for a doc). *)
GoneIsGone == \A t \in gone : task[t] = None
HashMeansBuilt == ~built => \A t \in Tasks : hash[t] = None
KnowsSource(r) ==
  /\ r.at = "commitTask" => r.src \in Tasks /\ r.seen[r.src] # None
  /\ r.at \in {"indexDoc", "removeDoc"} => r.src \in Docs
ReadBeforeCommit == \A p \in Sessions : KnowsSource(session[p])
SavedMeansBuilt == \A p \in Sessions : session[p].at = "commitTasks" => built

IInv == TypeOK /\ GoneIsGone /\ HashMeansBuilt /\ ReadBeforeCommit /\ SavedMeansBuilt

(* The record of no session.                                               *)
LEMMA ClosedType == Closed \in Session /\ Closed.at = "closed" /\ KnowsSource(Closed)
  BY DEF Closed, Session, Places, Nothing, Values, KnowsSource

LEMMA InitIInv == Init => IInv
<1> SUFFICES ASSUME Init PROVE IInv
  OBVIOUS
<1>1. Nothing \in [Sources -> Values]
  BY DEF Nothing, Values
<1>2. LockHeld
  BY ClosedType, SessionAssumption DEF Init, LockHeld
<1>3. TypeOK
  <2>1. session \in [Sessions -> Session]
    BY ClosedType DEF Init
  <2>2. task \in [Tasks -> Values] /\ doc \in [Docs -> Values]
    BY DEF Init, Values
  <2>3. chunks \in [Sources -> Values] /\ hash \in [Sources -> Values]
    BY <1>1 DEF Init
  <2>4. edits \in 0 .. MaxEdits /\ faults \in 0 .. MaxFaults
    BY IndexBoundsAssumption DEF Init
  <2>5. gone \subseteq Tasks /\ built \in BOOLEAN /\ lock \in Sessions \cup {Nobody}
    BY DEF Init
  <2> QED
    BY <1>2, <2>1, <2>2, <2>3, <2>4, <2>5 DEF TypeOK
<1>4. GoneIsGone /\ HashMeansBuilt /\ ReadBeforeCommit /\ SavedMeansBuilt
  BY ClosedType
  DEF Init, GoneIsGone, HashMeansBuilt, ReadBeforeCommit, SavedMeansBuilt, Nothing, Sources
<1> QED
  BY <1>3, <1>4 DEF IInv

(* A step of p that leaves the other sessions and the canonical data alone *)
(* keeps the invariant, when it leaves p a session that is typed, that     *)
(* holds the lock when it must, and that has read what it will commit.     *)
LEMMA SessionFrame ==
  ASSUME IInv, NEW p \in Sessions, NEW r \in Session,
         Goes(p, r),
         UNCHANGED canon,
         chunks' \in [Sources -> Values], hash' \in [Sources -> Values], built' \in BOOLEAN,
         edits' \in 0 .. MaxEdits, faults' \in 0 .. MaxFaults,
         lock' \in {lock, p, Nobody}, lock' # lock => lock \in {p, Nobody},
         lock' = p <=> r.at \in {"saveDocs", "commitTasks"},
         KnowsSource(r),
         HashMeansBuilt', built => built', r.at = "commitTasks" => built'
  PROVE  IInv'
<1>1. session' \in [Sessions -> Session] /\ session'[p] = r
  BY DEF IInv, TypeOK, Goes
<1>2. \A q \in Sessions \ {p} : session'[q] = session[q]
  BY DEF IInv, TypeOK, Goes
<1>3. LockHeld'
  <2> SUFFICES ASSUME NEW q \in Sessions
               PROVE  lock' = q <=> session'[q].at \in {"saveDocs", "commitTasks"}
    BY DEF LockHeld
  <2>1. CASE q = p
    BY <2>1, <1>1
  <2>2. CASE q # p
    BY <2>2, <1>2, SessionAssumption DEF IInv, TypeOK, LockHeld
  <2> QED
    BY <2>1, <2>2
<1>4. TypeOK'
  BY <1>1, <1>3, SessionAssumption DEF IInv, TypeOK, canon
<1>5. ReadBeforeCommit'
  BY <1>1, <1>2 DEF IInv, ReadBeforeCommit
<1>6. GoneIsGone'
  BY DEF IInv, GoneIsGone, canon
<1>7. SavedMeansBuilt'
  BY <1>1, <1>2 DEF IInv, SavedMeansBuilt
<1> QED
  BY <1>4, <1>5, <1>6, <1>7 DEF IInv

(* The steps of a session that touch nothing but the session.              *)
LEMMA QuietFrame ==
  ASSUME IInv, NEW p \in Sessions, NEW r \in Session,
         Goes(p, r),
         UNCHANGED canon, UNCHANGED index, UNCHANGED lock, UNCHANGED edits,
         faults' \in 0 .. MaxFaults,
         session[p].at \notin {"saveDocs", "commitTasks"},
         r.at \notin {"saveDocs", "commitTasks"},
         KnowsSource(r)
  PROVE  IInv'
<1>1. HashMeansBuilt' /\ lock # p
  BY DEF IInv, TypeOK, LockHeld, HashMeansBuilt, index
<1> QED
  BY <1>1, SessionFrame DEF IInv, TypeOK, index

LEMMA StoreType ==
  ASSUME IInv, NEW t \in Tasks, NEW content \in Values, Store(t, content)
  PROVE  /\ chunks' \in [Sources -> Values] /\ hash' \in [Sources -> Values]
         /\ built' /\ built' \in BOOLEAN /\ HashMeansBuilt'
  BY DEF IInv, TypeOK, Store, HashMeansBuilt, Sources
(* The actions of the sources: no session moves.                           *)
LEMMA TaskSteps ==
  ASSUME IInv, NEW t \in Tasks, EditTask(t) \/ DeleteTask(t)
  PROVE  IInv'
<1>1. UNCHANGED <<doc, index, lock, session, faults>>
  BY DEF EditTask, DeleteTask, bounds
<1>2. task' \in [Tasks -> Values] /\ gone' \subseteq Tasks
  BY DEF IInv, TypeOK, EditTask, DeleteTask, Values
<1>3. edits' \in 0 .. MaxEdits
  BY IndexBoundsAssumption DEF IInv, TypeOK, EditTask, DeleteTask, bounds
<1>4. GoneIsGone'
  BY DEF IInv, TypeOK, GoneIsGone, EditTask, DeleteTask
<1>5. LockHeld' /\ HashMeansBuilt' /\ ReadBeforeCommit' /\ SavedMeansBuilt'
  BY <1>1 DEF IInv, TypeOK, LockHeld, HashMeansBuilt, ReadBeforeCommit, SavedMeansBuilt, index
<1> QED
  BY <1>1, <1>2, <1>3, <1>4, <1>5 DEF IInv, TypeOK, index

LEMMA DocSteps ==
  ASSUME IInv, NEW d \in Docs, EditDoc(d)
  PROVE  IInv'
<1>1. UNCHANGED <<task, gone, index, lock, session, faults>>
  BY DEF EditDoc
<1>2. doc' \in [Docs -> Values]
  BY DEF IInv, TypeOK, EditDoc
<1>3. edits' \in 0 .. MaxEdits
  BY IndexBoundsAssumption DEF IInv, TypeOK, EditDoc
<1>4. /\ LockHeld' /\ HashMeansBuilt' /\ ReadBeforeCommit' /\ SavedMeansBuilt'
      /\ GoneIsGone'
  BY <1>1
  DEF IInv, TypeOK, LockHeld, HashMeansBuilt, ReadBeforeCommit, SavedMeansBuilt, GoneIsGone, index
<1> QED
  BY <1>1, <1>2, <1>3, <1>4 DEF IInv, TypeOK, index

LEMMA IndexTaskStep ==
  ASSUME IInv, NEW p \in Sessions, NEW t \in Tasks, IndexTask(p, t)
  PROVE  IInv'
<1> DEFINE r == [Closed EXCEPT !.at = "commitTask", !.src = t, !.seen[t] = task[t]]
<1>1. task[t] \in Values /\ t \in Sources
  BY DEF IInv, TypeOK, Sources
<1>2. r \in Session /\ r.at = "commitTask" /\ r.src = t /\ r.seen[t] = task[t]
  BY <1>1 DEF Closed, Session, Places, Nothing, Values
<1>3. session[p].at = "closed" /\ task[t] # None
  BY DEF IndexTask, At
<1>4. KnowsSource(r)
  BY <1>2, <1>3 DEF KnowsSource
<1> QED
  BY <1>2, <1>4, <1>3, QuietFrame DEF IInv, TypeOK, IndexTask, bounds

LEMMA CommitTaskStep ==
  ASSUME IInv, NEW p \in Sessions, CommitTask(p)
  PROVE  IInv'
<1> DEFINE t == session[p].src
<1>1. t \in Tasks /\ t \in Sources /\ session[p] \in Session /\ None \in Values
  BY DEF IInv, TypeOK, CommitTask, At, ReadBeforeCommit, KnowsSource, Sources, Values
<1>2. session[p].seen[t] \in Values
  BY <1>1 DEF Session
<1>3. /\ chunks' \in [Sources -> Values] /\ hash' \in [Sources -> Values]
      /\ built' \in BOOLEAN /\ HashMeansBuilt' /\ (built => built')
  <2>1. CASE UNCHANGED index
    BY <2>1 DEF IInv, TypeOK, HashMeansBuilt, index
  <2>2. CASE \E content \in Values : Store(t, content)
    BY <2>2, <1>1, StoreType
  <2> QED
    BY <2>1, <2>2, <1>1, <1>2 DEF CommitTask
<1> QED
  BY <1>3, ClosedType, SessionFrame, SessionAssumption
  DEF IInv, TypeOK, CommitTask, Close, bounds

LEMMA RemoveTaskStep ==
  ASSUME IInv, NEW p \in Sessions, NEW t \in Tasks, RemoveTask(p, t)
  PROVE  IInv'
<1>1. None \in Values
  BY DEF Values
<1>2. /\ chunks' \in [Sources -> Values] /\ hash' \in [Sources -> Values]
      /\ built' /\ built' \in BOOLEAN /\ HashMeansBuilt'
  BY <1>1, StoreType DEF RemoveTask
<1>3. UNCHANGED <<canon, lock, session, bounds>>
  BY DEF RemoveTask
<1> QED
  BY <1>2, <1>3
  DEF IInv, TypeOK, LockHeld, GoneIsGone, ReadBeforeCommit, SavedMeansBuilt, canon, bounds

LEMMA OpenDocJobStep ==
  ASSUME IInv, NEW p \in Sessions, NEW d \in Docs, OpenDocJob(p, d)
  PROVE  IInv'
<1>1. PICK kind \in {"indexDoc", "removeDoc"} :
        Goes(p, [Closed EXCEPT !.at = kind, !.src = d, !.view = chunks])
  BY DEF OpenDocJob
<1> DEFINE r == [Closed EXCEPT !.at = kind, !.src = d, !.view = chunks]
<1>2. r \in Session /\ r.at = kind /\ KnowsSource(r)
  BY DEF IInv, TypeOK, Closed, Session, Places, Nothing, Values, Sources, KnowsSource
<1>3. session[p].at = "closed"
  BY DEF OpenDocJob, At
<1> QED
  BY <1>1, <1>2, <1>3, QuietFrame DEF IInv, TypeOK, OpenDocJob, bounds

LEMMA ReadDocStep ==
  ASSUME IInv, NEW p \in Sessions, ReadDoc(p)
  PROVE  IInv'
<1> DEFINE s == session[p]
           d == session[p].src
           r(content) == [s EXCEPT !.at = "save", !.view[d] = content]
<1>1. s \in Session /\ None \in Values /\ s.at \in {"indexDoc", "removeDoc"}
  BY DEF IInv, TypeOK, Values, ReadDoc, At
<1>2. d \in Docs /\ doc[d] \in Values
  BY <1>1 DEF IInv, TypeOK, ReadBeforeCommit, KnowsSource
<1>3. ASSUME NEW content \in Values
      PROVE  r(content) \in Session /\ r(content).at = "save" /\ KnowsSource(r(content))
  BY <1>1 DEF Session, Places, KnowsSource
<1>4. PICK q \in Session :
        /\ Goes(p, q)
        /\ q.at \notin {"saveDocs", "commitTasks"} /\ KnowsSource(q)
  <2>1. CASE Goes(p, r(doc[d]))
    BY <2>1, <1>2, <1>3
  <2>2. CASE Close(p)
    BY <2>2, ClosedType DEF Close
  <2>3. CASE Goes(p, r(None))
    BY <2>3, <1>1, <1>3
  <2> QED
    BY <2>1, <2>2, <2>3 DEF ReadDoc
<1> QED
  BY <1>1, <1>4, QuietFrame DEF IInv, TypeOK, ReadDoc, bounds

LEMMA SaveStep ==
  ASSUME IInv, NEW p \in Sessions, Save(p)
  PROVE  IInv'
<1>1. session[p] \in Session /\ session[p].at = "save"
  BY DEF IInv, TypeOK, Save, At
<1>2. chunks' \in [Sources -> Values] /\ lock # p
  BY <1>1 DEF IInv, TypeOK, LockHeld, Session, Save
<1> QED
  BY <1>2, ClosedType, SessionFrame DEF IInv, TypeOK, Save, Close, bounds, HashMeansBuilt

LEMMA OpenReindexStep ==
  ASSUME IInv, NEW p \in Sessions, OpenReindex(p)
  PROVE  IInv'
<1> DEFINE r == [Closed EXCEPT !.at = "check", !.view = chunks]
<1>1. r \in Session /\ r.at = "check" /\ KnowsSource(r)
  BY DEF IInv, TypeOK, Closed, Session, Places, Nothing, Values, KnowsSource
<1> QED
  BY <1>1, QuietFrame DEF IInv, TypeOK, OpenReindex, At, bounds

LEMMA NeedsRebuildStep ==
  ASSUME IInv, NEW p \in Sessions, NeedsRebuild(p)
  PROVE  IInv'
<1> DEFINE r == [session[p] EXCEPT !.at = IF built THEN "list" ELSE "clear"]
<1>1. r \in Session /\ r.at \in {"list", "clear"} /\ KnowsSource(r)
  BY DEF IInv, TypeOK, Session, Places, KnowsSource
<1> QED
  BY <1>1, QuietFrame DEF IInv, TypeOK, NeedsRebuild, At, bounds

LEMMA ClearStep ==
  ASSUME IInv, NEW p \in Sessions, Clear(p)
  PROVE  IInv'
<1> DEFINE r == [session[p] EXCEPT !.at = "list", !.view = Nothing]
<1>1. Nothing \in [Sources -> Values] /\ HashMeansBuilt'
  BY DEF Nothing, Values, HashMeansBuilt, Clear, Sources
<1>2. r \in Session /\ r.at = "list" /\ KnowsSource(r)
  BY <1>1 DEF IInv, TypeOK, Session, Places, KnowsSource
<1>3. session'[p] = r /\ \A q \in Sessions \ {p} : session'[q] = session[q]
  BY DEF IInv, TypeOK, Clear, Goes
<1>4. session' \in [Sessions -> Session]
  BY <1>2 DEF IInv, TypeOK, Clear, Goes
<1>5. \A q \in Sessions : session[q].at \notin {"saveDocs", "commitTasks"}
  BY SessionAssumption DEF IInv, TypeOK, LockHeld, Clear
<1>6. LockHeld' /\ SavedMeansBuilt' /\ ReadBeforeCommit'
  BY <1>2, <1>3, <1>5 DEF IInv, TypeOK, LockHeld, SavedMeansBuilt, ReadBeforeCommit, Clear
<1> QED
  BY <1>1, <1>4, <1>6 DEF IInv, TypeOK, GoneIsGone, Clear, canon, bounds

LEMMA ListStep ==
  ASSUME IInv, NEW p \in Sessions, List(p)
  PROVE  IInv'
<1> DEFINE r == [session[p] EXCEPT !.at = "prepare", !.seen = Canonical, !.todo = Present]
<1>1. Canonical \in [Sources -> Values] /\ Present \subseteq Sources
  BY DEF IInv, TypeOK, Canonical, Present, Sources
<1>2. r \in Session /\ r.at = "prepare" /\ KnowsSource(r)
  BY <1>1 DEF IInv, TypeOK, Session, Places, KnowsSource
<1> QED
  BY <1>2, QuietFrame DEF IInv, TypeOK, List, At, bounds

LEMMA PrepareTaskStep ==
  ASSUME IInv, NEW p \in Sessions, NEW t \in Tasks, PrepareTask(p, t)
  PROVE  IInv'
<1> DEFINE s == session[p]
<1>1. s \in Session /\ s.at = "prepare" /\ None \in Values /\ t \in Sources
  BY DEF IInv, TypeOK, PrepareTask, At, Values, Sources
<1>2. PICK r \in Session : Goes(p, r) /\ r.at = "prepare"
  <2> DEFINE unchanged == [s EXCEPT !.todo = @ \ {t}, !.same = @ \cup {t}]
             candidate == [s EXCEPT !.todo = @ \ {t}]
             failed == [s EXCEPT !.todo = @ \ {t}, !.seen[t] = None]
  <2>1. unchanged \in Session /\ unchanged.at = "prepare"
    BY <1>1 DEF Session
  <2>2. candidate \in Session /\ candidate.at = "prepare"
    BY <1>1 DEF Session
  <2>3. failed \in Session /\ failed.at = "prepare"
    BY <1>1 DEF Session
  <2>4. Goes(p, unchanged) \/ Goes(p, candidate) \/ Goes(p, failed)
    BY DEF PrepareTask
  <2> HIDE DEF unchanged, candidate, failed
  <2> QED
    BY <2>1, <2>2, <2>3, <2>4
<1>3. KnowsSource(r)
  BY <1>2 DEF KnowsSource
<1>4. faults' \in 0 .. MaxFaults
  BY IndexBoundsAssumption DEF IInv, TypeOK, PrepareTask
<1> QED
  BY <1>1, <1>2, <1>3, <1>4, QuietFrame DEF PrepareTask

LEMMA PrepareDocStep ==
  ASSUME IInv, NEW p \in Sessions, NEW d \in Docs, PrepareDoc(p, d)
  PROVE  IInv'
<1> DEFINE s == session[p]
           r(content) == [s EXCEPT !.todo = @ \ {d}, !.view[d] = content]
<1>1. s \in Session /\ s.at = "prepare" /\ None \in Values /\ d \in Sources /\ doc[d] \in Values
  BY DEF IInv, TypeOK, PrepareDoc, At, Values, Sources
<1>2. PICK q \in Session : Goes(p, q) /\ q.at = "prepare"
  <2> DEFINE skipped == [s EXCEPT !.todo = @ \ {d}]
  <2>1. skipped \in Session /\ skipped.at = "prepare"
    BY <1>1 DEF Session
  <2>2. r(doc[d]) \in Session /\ r(doc[d]).at = "prepare"
    BY <1>1 DEF Session
  <2>3. r(None) \in Session /\ r(None).at = "prepare"
    BY <1>1 DEF Session
  <2>4. Goes(p, skipped) \/ Goes(p, r(doc[d])) \/ Goes(p, r(None))
    BY DEF PrepareDoc
  <2> HIDE DEF skipped, r
  <2> QED
    BY <2>1, <2>2, <2>3, <2>4
<1>3. KnowsSource(q)
  BY <1>2 DEF KnowsSource
<1>4. faults' \in 0 .. MaxFaults
  BY IndexBoundsAssumption DEF IInv, TypeOK, PrepareDoc
<1>5. hash' \in [Sources -> Values] /\ HashMeansBuilt'
  <2>1. hash' = hash \/ hash' = [hash EXCEPT ![d] = doc[d]]
    BY DEF PrepareDoc
  <2>2. \A t \in Tasks : t # d /\ t \in Sources
    BY SourceAssumption DEF Sources
  <2>3. built' = built
    BY DEF PrepareDoc
  <2> QED
    BY <1>1, <2>1, <2>2, <2>3 DEF IInv, TypeOK, HashMeansBuilt
<1>6. lock # p
  BY <1>1 DEF IInv, TypeOK, LockHeld
<1> QED
  BY <1>1, <1>2, <1>3, <1>4, <1>5, <1>6, SessionFrame DEF IInv, TypeOK, PrepareDoc

LEMMA DropOrphansStep ==
  ASSUME IInv, NEW p \in Sessions, DropOrphans(p)
  PROVE  IInv'
<1> DEFINE view == [s \in Sources |-> IF s \in Orphans(p) THEN None ELSE session[p].view[s]]
           r == [session[p] EXCEPT !.at = "saveDocs", !.view = view]
<1>1. session[p] \in Session /\ None \in Values
  BY DEF IInv, TypeOK, Values
<1>2. view \in [Sources -> Values]
  BY <1>1 DEF Session
<1>3. r \in Session /\ r.at = "saveDocs" /\ KnowsSource(r)
  BY <1>1, <1>2 DEF Session, Places, KnowsSource
<1>4. hash' \in [Sources -> Values] /\ HashMeansBuilt'
  BY <1>1, SourceAssumption DEF IInv, TypeOK, HashMeansBuilt, DropOrphans, Orphans, Sources
<1>5. Goes(p, r)
  BY DEF DropOrphans
<1> QED
  BY <1>3, <1>4, <1>5, SessionFrame DEF IInv, TypeOK, DropOrphans, bounds

LEMMA SaveNonTaskSourcesStep ==
  ASSUME IInv, NEW p \in Sessions, SaveNonTaskSources(p)
  PROVE  IInv'
<1> DEFINE r == [session[p] EXCEPT !.at = "commitTasks"]
<1>1. session[p] \in Session /\ session[p].at = "saveDocs" /\ lock = p
  BY DEF IInv, TypeOK, LockHeld, SaveNonTaskSources, At
<1>2. r \in Session /\ r.at = "commitTasks" /\ KnowsSource(r)
  BY <1>1 DEF Session, Places, KnowsSource
<1>3. chunks' \in [Sources -> Values]
  BY <1>1 DEF IInv, TypeOK, SaveNonTaskSources, RowsOfDocs, Session
<1> QED
  BY <1>1, <1>2, <1>3, SessionFrame
  DEF IInv, TypeOK, SaveNonTaskSources, bounds, HashMeansBuilt

LEMMA CommitTasksStep ==
  ASSUME IInv, NEW p \in Sessions, CommitTasks(p)
  PROVE  IInv'
<1>1. session[p] \in Session /\ session[p].at = "commitTasks" /\ lock = p /\ None \in Values
  BY DEF IInv, TypeOK, LockHeld, CommitTasks, At, Values
<1>2. ASSUME NEW s \in Sources, NEW row \in Values
      PROVE  Outcome(p, s, row) \in Values
  BY <1>1 DEF Outcome, Session
<1>3. chunks' \in [Sources -> Values] /\ hash' \in [Sources -> Values]
  BY <1>2 DEF IInv, TypeOK, CommitTasks
<1>4. HashMeansBuilt'
  <2>1. built
    BY <1>1 DEF IInv, SavedMeansBuilt
  <2> QED
    BY <2>1 DEF HashMeansBuilt, CommitTasks
<1> QED
  BY <1>1, <1>3, <1>4, ClosedType, SessionFrame, SessionAssumption
  DEF IInv, TypeOK, CommitTasks, Close, bounds

LEMMA EndsStep ==
  ASSUME IInv, NEW p \in Sessions, Ends(p)
  PROVE  IInv'
<1>1. faults' \in 0 .. MaxFaults
  BY IndexBoundsAssumption DEF IInv, TypeOK, Ends
<1> QED
  BY <1>1, ClosedType, SessionFrame, SessionAssumption
  DEF IInv, TypeOK, Ends, LockAfter, Close, index, HashMeansBuilt

(* IInv is an inductive invariant.                                         *)
LEMMA NextIInv == IInv /\ [Next]_vars => IInv'
<1> SUFFICES ASSUME IInv, [Next]_vars PROVE IInv'
  OBVIOUS
<1>1. CASE UNCHANGED vars
  BY <1>1
  DEF vars, IInv, TypeOK, LockHeld, GoneIsGone, HashMeansBuilt, ReadBeforeCommit, SavedMeansBuilt
<1>2. ASSUME NEW t \in Tasks, EditTask(t) \/ DeleteTask(t)
      PROVE  IInv'
  BY <1>2, TaskSteps
<1>3. ASSUME NEW d \in Docs, EditDoc(d)
      PROVE  IInv'
  BY <1>3, DocSteps
<1>4. ASSUME NEW p \in Sessions, NEW t \in Tasks,
             IndexTask(p, t) \/ RemoveTask(p, t) \/ PrepareTask(p, t)
      PROVE  IInv'
  BY <1>4, IndexTaskStep, RemoveTaskStep, PrepareTaskStep
<1>5. ASSUME NEW p \in Sessions, NEW d \in Docs, OpenDocJob(p, d) \/ PrepareDoc(p, d)
      PROVE  IInv'
  BY <1>5, OpenDocJobStep, PrepareDocStep
<1>6. ASSUME NEW p \in Sessions,
             \/ CommitTask(p) \/ ReadDoc(p) \/ Save(p)
             \/ OpenReindex(p) \/ NeedsRebuild(p) \/ Clear(p) \/ List(p) \/ DropOrphans(p)
             \/ SaveNonTaskSources(p) \/ CommitTasks(p) \/ Ends(p)
      PROVE  IInv'
  BY <1>6, CommitTaskStep, ReadDocStep, SaveStep, OpenReindexStep, NeedsRebuildStep, ClearStep, ListStep,
     DropOrphansStep, SaveNonTaskSourcesStep, CommitTasksStep, EndsStep
<1> QED
  BY <1>1, <1>2, <1>3, <1>4, <1>5, <1>6 DEF Next

(* The index and its sessions are typed, and the lifecycle lock is held by *)
(* exactly the Reindex that is in its last phase.                          *)
THEOREM TypeCorrect == Spec => []TypeOK
<1>1. IInv => TypeOK
  BY DEF IInv
<1> QED
  BY <1>1, InitIInv, NextIInv, PTL DEF Spec

(* Which steps change the row of a Task, and how: under any of them but    *)
(* Save, and the Clear of an index that has its metadata, a row that is    *)
(* what the Task is stays, and no row of a Task that is gone comes back.   *)
LEMMA TaskRow ==
  ASSUME IInv, [Next]_vars, NEW t \in Tasks, ~ \E p \in Sessions : Save(p)
  PROVE  /\ (Current(t) /\ task'[t] = task[t]) => Current(t)' \/ \E p \in Sessions : Clear(p) /\ built
         /\ (t \in gone /\ Absent(t)) => Absent(t)'
<1> DEFINE Goal == /\ (Current(t) /\ task'[t] = task[t]) => Current(t)' \/ \E p \in Sessions : Clear(p) /\ built
                   /\ (t \in gone /\ Absent(t)) => Absent(t)'
<1>1. t \in Sources /\ t \notin Docs /\ (t \in gone => task[t] = None)
  BY SourceAssumption DEF Sources, IInv, GoneIsGone
<1>2. ASSUME chunks'[t] = chunks[t], hash'[t] = hash[t]
      PROVE  Goal
  BY <1>2 DEF Current, Absent
<1>3. ASSUME NEW p \in Sessions, CommitTask(p)
      PROVE  Goal
  <2> DEFINE u == session[p].src
  <2>1. u \in Tasks /\ u \in Sources /\ session[p].seen[u] # None
    BY <1>3 DEF IInv, ReadBeforeCommit, KnowsSource, CommitTask, At, Sources
  <2>2. CASE UNCHANGED index
    BY <2>2, <1>2 DEF index
  <2>3. CASE ~Changed(p, u) /\ Store(u, session[p].seen[u])
    BY <2>1, <2>3, <1>1 DEF IInv, TypeOK, Changed, Store, Current, Absent
  <2>4. CASE Changed(p, u) /\ (task[u] = None \/ hash[u] # task[u]) /\ Store(u, None)
    BY <2>1, <2>4, <1>1 DEF IInv, TypeOK, Store, Current, Absent
  <2> QED
    BY <1>3, <2>2, <2>3, <2>4 DEF CommitTask
<1>4. ASSUME NEW p \in Sessions, NEW u \in Tasks, RemoveTask(p, u)
      PROVE  Goal
  BY <1>4, <1>1 DEF IInv, TypeOK, GoneIsGone, RemoveTask, Store, Current, Absent, Sources
<1>5. ASSUME NEW p \in Sessions, Clear(p)
      PROVE  Goal
  BY <1>5, <1>1 DEF IInv, HashMeansBuilt, Clear, Nothing, Current, Absent
<1>6. ASSUME NEW p \in Sessions, CommitTasks(p)
      PROVE  Goal
  <2>1. chunks'[t] = Outcome(p, t, chunks[t]) /\ hash'[t] = Outcome(p, t, hash[t])
    BY <1>6, <1>1 DEF CommitTasks
  <2>2. ASSUME Current(t) PROVE ~Committed(p, t) /\ Kept(p, t)
    BY <2>2 DEF Current, Committed, Kept
  <2>3. ASSUME t \in gone PROVE ~Committed(p, t)
    BY <2>3, <1>1 DEF Committed
  <2> QED
    BY <2>1, <2>2, <2>3 DEF Outcome, Current, Absent
<1>7. ASSUME NEW p \in Sessions, NEW d \in Docs, PrepareDoc(p, d)
      PROVE  Goal
  <2>1. chunks' = chunks /\ (hash' = hash \/ hash' = [hash EXCEPT ![d] = doc[d]])
    BY <1>7 DEF PrepareDoc
  <2> QED
    BY <2>1, <1>1, <1>2 DEF IInv, TypeOK
<1>8. ASSUME NEW p \in Sessions, DropOrphans(p) \/ SaveNonTaskSources(p)
      PROVE  Goal
  BY <1>8, <1>1, <1>2 DEF DropOrphans, Orphans, SaveNonTaskSources, RowsOfDocs
<1>9. ASSUME UNCHANGED index
      PROVE  Goal
  BY <1>9, <1>2 DEF index
<1> QED
  BY <1>3, <1>4, <1>5, <1>6, <1>7, <1>8, <1>9
  DEF Next, EditTask, DeleteTask, EditDoc, IndexTask, OpenDocJob, ReadDoc, OpenReindex, NeedsRebuild, List,
      PrepareTask, Ends, vars, index

(* Hooks and Reindexes that started before, however they interleave, fail  *)
(* or die, lose the row of a Task that is what the Task is in one way only: *)
(* when a Reindex clears an index that was built since it looked.          *)
THEOREM CommitsAreLostInTwoWays == Spec => CurrentLostInTwoWays
<1>1. IInv /\ [Next]_vars =>
        [\A t \in Tasks : (Current(t) /\ task'[t] = task[t] /\ ~Current(t)')
           => \E p \in Sessions : Save(p) \/ (Clear(p) /\ built)]_vars
  BY TaskRow
<1> QED
  BY <1>1, InitIInv, NextIInv, PTL DEF Spec, CurrentLostInTwoWays

(* Nor do they bring a hard-deleted Task back into the index.              *)
THEOREM DeletedStaysDeleted == Spec => DeletedReturnsOnlyBySave
<1>1. IInv /\ [Next]_vars =>
        [\A t \in gone : (Absent(t) /\ ~Absent(t)') => \E p \in Sessions : Save(p)]_vars
  BY TaskRow DEF IInv, TypeOK
<1> QED
  BY <1>1, InitIInv, NextIInv, PTL DEF Spec, DeletedReturnsOnlyBySave

(* A Reindex that commits leaves no hash of a candidate that is not what   *)
(* the Task is.                                                            *)
THEOREM FailsClosed == Spec => ReindexFailsClosed
<1>1. ASSUME NEW p \in Sessions, CommitTasks(p), IInv, NEW t \in Tasks
      PROVE  session[p].seen[t] = None \/ hash'[t] \in {None, task[t]}
  BY <1>1 DEF CommitTasks, Outcome, Committed, Kept, Sources
<1>2. IInv =>
        [\A p \in Sessions : CommitTasks(p) =>
           \A t \in Tasks : session[p].seen[t] = None \/ hash'[t] \in {None, task[t]}]_vars
  BY <1>1
<1> QED
  BY <1>2, InitIInv, NextIInv, PTL DEF Spec, ReindexFailsClosed
=============================================================================
