------------------------------ MODULE DocHistory ------------------------------
(***************************************************************************)
(* Docs and their histories.  A mutation reads the doc, writes its file,   *)
(* loads the history of the path, appends what changed and writes history  *)
(* and path index; no lock is held, and a process may die between two      *)
(* steps.  A revision holds the changed fields only, and of a change in    *)
(* one section only that section: the state of a revision is what replay   *)
(* of the revisions up to it gives.  Indexing, done after the write, is    *)
(* RuntimeQueue's.  Histories keyed by path, of older versions, are left   *)
(* out.                                                                    *)
(***************************************************************************)
EXTENDS Naturals, Sequences, SequencesExt, FiniteSetsExt, TLC

CONSTANTS DocPaths, Editors, MaxDocCalls, MaxDocDeaths

VARIABLES
  docs,       \* path -> doc file, or NoDoc
  histories,  \* history ID -> history file, or NoHistory
  pathIndex,  \* path -> history ID, 0 if none
  docCall,    \* editor -> the call it is in
  docCalls,   \* number of calls made
  docDeaths   \* number of processes that died

docVars == <<docs, histories, pathIndex, docCall, docCalls, docDeaths>>

(***************************************************************************)
(* A body is a line that refers to a doc and its sections, or empty.  The  *)
(* title of "a", which is "Locked Decisions", contains the title of "b".   *)
(***************************************************************************)
Empty == [link |-> "none", secs |-> <<>>]
Section(t, x) == [title |-> t, text |-> x]
Body(link, x, y) == [link |-> link, secs |-> <<Section("a", x), Section("b", y)>>]
Bodies == {Empty} \cup {Body(p, x, y) : p \in DocPaths, x \in 0 .. 1, y \in 0 .. 1}
NoDoc == [path |-> "none", desc |-> 0, tags |-> "none", body |-> Empty]
Fits(title, ref) == title = ref \/ (title = "a" /\ ref = "b")

(* The first section a reference fits, by number, title or part of a title; 0 if none. *)
First(S) == IF S = {} THEN 0 ELSE Min(S)
FindMarkdownSection(body, ref) ==
  First({i \in DOMAIN body.secs : ToString(i) = ref \/ Fits(body.secs[i].title, ref)})
ReplaceMarkdownSection(body, ref, section) ==
  LET i == FindMarkdownSection(body, ref)
  IN  IF i = 0 THEN body ELSE [body EXCEPT !.secs[i] = section]

(* The MCP tool takes a number or a whole title. *)
McpFind(body, ref) ==
  First({i \in DOMAIN body.secs : ToString(i) = ref \/ body.secs[i].title = ref})

(***************************************************************************)
(* The section a change of the body is recorded as, 0 if the whole body.   *)
(***************************************************************************)
DiffersAt(old, new) ==
  {i \in DOMAIN old.secs : old.secs[i] # new.secs[i]}
SameTitles(old, new) ==
  /\ Len(old.secs) = Len(new.secs)
  /\ \A i \in DOMAIN old.secs : old.secs[i].title = new.secs[i].title
LastChanged(old, new) ==
  IF ~SameTitles(old, new) \/ DiffersAt(old, new) = {} THEN 0
  ELSE CHOOSE i \in DiffersAt(old, new) : \A j \in DiffersAt(old, new) : j <= i
OnlyChanged(old, new) ==
  IF SameTitles(old, new) /\ \E i \in DOMAIN old.secs : DiffersAt(old, new) = {i}
  THEN CHOOSE i \in DOMAIN old.secs : DiffersAt(old, new) = {i} ELSE 0
ContentScope(old, new, ref) ==
  IF ref # "" /\ FindMarkdownSection(old, ref) # 0 /\ FindMarkdownSection(new, ref) # 0
  THEN FindMarkdownSection(new, ref) ELSE OnlyChanged(old, new)

(***************************************************************************)
(* Revisions.  A value that is empty is neither in the snapshot nor in the *)
(* change.                                                                 *)
(***************************************************************************)
NoHistory == [path |-> "none", last |-> 0, versions |-> <<>>]
NewHistory(path) == [path |-> path, last |-> 0, versions |-> <<>>]
DocToSnapshot(doc) == doc
RevisionSnapshot(doc, keepBody) == IF keepBody THEN doc ELSE [doc EXCEPT !.body = Empty]
Fields == {"desc", "tags", "body"}
Zero == [desc |-> 0, tags |-> "none", body |-> Empty]

TrackDocChanges(old, new) ==
  {f \in Fields : IF old = NoDoc THEN new[f] # Zero[f] ELSE old[f] # new[f]}
Revision(old, new, ref) ==
  LET changes == TrackDocChanges(old, new)
      at == IF old = NoDoc \/ "body" \notin changes THEN 0 ELSE ContentScope(old.body, new.body, ref)
  IN  [path |-> new.path, previous |-> IF old = NoDoc \/ old.path = new.path THEN "none" ELSE old.path,
       changes |-> changes, new |-> new,
       section |-> IF at = 0 THEN <<>> ELSE <<new.body.secs[at]>>,
       snapshot |-> RevisionSnapshot(new, old = NoDoc \/ ("body" \in changes /\ at = 0))]

ApplySnapshot(state, snapshot) ==
  [f \in DOMAIN state |-> IF f \in Fields /\ snapshot[f] = Zero[f] THEN state[f] ELSE snapshot[f]]
ApplyDocVersion(state, v) ==
  LET s == ApplySnapshot(state, v.snapshot)
      body == IF v.section # <<>> THEN ReplaceMarkdownSection(s.body, v.section[1].title, v.section[1])
              ELSE IF v.new.body # Empty THEN v.new.body ELSE s.body
  IN  [path |-> v.path,
       desc |-> IF "desc" \in v.changes /\ v.new.desc # 0 THEN v.new.desc ELSE s.desc,
       tags |-> IF "tags" \in v.changes THEN v.new.tags ELSE s.tags,
       body |-> IF "body" \in v.changes THEN body ELSE s.body]

Replay(h, n) ==
  FoldLeft(ApplyDocVersion, [path |-> h.path, desc |-> 0, tags |-> "none", body |-> Empty],
           SelectSeq(h.versions, LAMBDA v : v.number <= n))
ResolveDocState(h) == Replay(h, h.last)

AppendDocVersion(h, path, revision) ==
  [path |-> path, last |-> h.last + 1,
   versions |-> Append(h.versions, revision @@ [number |-> h.last + 1])]

(* Retention drops the oldest revisions and makes the first that stays a snapshot. *)
Checkpoint(h, n) ==
  [h.versions[n] EXCEPT !.snapshot = DocToSnapshot(Replay(h, h.versions[n].number))]
NoCheckpoint(h, n) == h.versions[n]
FirstRetained(h, n) == Checkpoint(h, n)
Retained(h, keep) ==
  LET n == Len(h.versions) - keep + 1
  IN  IF n <= 1 THEN h
      ELSE [h EXCEPT !.versions = <<FirstRetained(h, n)>> \o SubSeq(@, n + 1, Len(@))]

(***************************************************************************)
(* The history of a path: by the index, or any file that names the path.   *)
(***************************************************************************)
HistoryIDs == 1 .. MaxDocCalls
HistoryContains(h, p) ==
  h.path = p \/ \E i \in DOMAIN h.versions : p \in {h.versions[i].path, h.versions[i].previous}
HistoriesOf(paths) ==
  LET i == SelectInSeq(paths, LAMBDA p : pathIndex[p] # 0 /\ histories[pathIndex[p]] # NoHistory)
  IN  IF i # 0 THEN {pathIndex[paths[i]]}
      ELSE {id \in HistoryIDs : histories[id] # NoHistory
              /\ \E p \in ToSet(paths) : HistoryContains(histories[id], p)}

(***************************************************************************)
(* The approval of a doc is dropped when its locked decisions change.      *)
(***************************************************************************)
Locked(body) == LET i == FindMarkdownSection(body, "a") IN IF i = 0 THEN <<>> ELSE <<body.secs[i]>>
LockedDecisionReviewGate(existing, doc) ==
  IF existing # NoDoc /\ existing.tags = "approved" /\ Locked(existing.body) # Locked(doc.body)
  THEN [doc EXCEPT !.tags = "draft"] ELSE doc

IdleEditor == [at |-> "idle"]
NoPaths == [p \in DocPaths |-> 0]
FirstPath == CHOOSE p \in DocPaths : TRUE
FirstDoc == [path |-> FirstPath, desc |-> 1, tags |-> "approved", body |-> Body(FirstPath, 0, 0)]

(* One doc was created, with its history. *)
DocInit ==
  /\ docs = [p \in DocPaths |-> IF p = FirstPath THEN FirstDoc ELSE NoDoc]
  /\ histories = [id \in HistoryIDs |->
       IF id = 1 THEN AppendDocVersion(NewHistory(FirstPath), FirstPath, Revision(NoDoc, FirstDoc, ""))
       ELSE NoHistory]
  /\ pathIndex = [p \in DocPaths |-> IF p = FirstPath THEN 1 ELSE 0]
  /\ docCall = [e \in Editors |-> IdleEditor]
  /\ docCalls = 1 /\ docDeaths = 0

(* A call has read the doc, computed the new one and goes on to write it. *)
StartEdit(e, old, new, ref) ==
  /\ docCall[e] = IdleEditor /\ docCalls < MaxDocCalls
  /\ docCalls' = docCalls + 1
  /\ docCall' = [docCall EXCEPT ![e] =
       [at |-> "write", n |-> docCalls + 1, old |-> old, new |-> new, ref |-> ref,
        id |-> 0, history |-> NoHistory, paths |-> NoPaths]]
  /\ UNCHANGED <<docs, histories, pathIndex, docDeaths>>

NewDoc(p) ==
  IF docs[p] = NoDoc THEN [path |-> p, desc |-> 1, tags |-> "approved", body |-> Body(p, 0, 0)]
  ELSE [path |-> p, desc |-> 0, tags |-> "none", body |-> Empty]

(* Nobody looks whether the path is taken. *)
CreateDoc(e) == \E p \in DocPaths : StartEdit(e, NoDoc, NewDoc(p), "")

EditFields(old) ==
  {[old EXCEPT !.desc = 1 - @], [old EXCEPT !.tags = IF @ = "approved" THEN "none" ELSE "approved"]}
    \cup {[old EXCEPT !.path = p] : p \in DocPaths \ {old.path}}
EditSection(old, i) == [old EXCEPT !.body.secs[i].text = 1 - @]

(* The command line fits the section like the history does, and keeps its title. *)
CliEdit(e) ==
  \E p \in DocPaths : docs[p] # NoDoc /\
    \/ \E new \in EditFields(docs[p]) : StartEdit(e, docs[p], new, "")
    \/ \E ref \in {"a", "b", "2"} : LET i == FindMarkdownSection(docs[p].body, ref) IN
         i # 0 /\ StartEdit(e, docs[p], EditSection(docs[p], i), ref)

(* The tool can clear fields; its section is the one with just this title. *)
McpUpdate(e) ==
  \E p \in DocPaths : docs[p] # NoDoc /\
    \/ StartEdit(e, docs[p], [docs[p] EXCEPT !.body = Empty], "")
    \/ \E ref \in {"a", "b"} : LET i == McpFind(docs[p].body, ref) IN
         i # 0 /\ StartEdit(e, docs[p], EditSection(docs[p], i), ref)

(* The request has the whole body and may name a section of it. *)
HttpUpdate(e) ==
  \E p \in DocPaths, body \in Bodies, ref \in {"", "a"} :
    docs[p] # NoDoc /\ docs[p].body # body /\ StartEdit(e, docs[p], [docs[p] EXCEPT !.body = body], ref)

RestoreDoc(e) ==
  \E p \in DocPaths : docs[p] # NoDoc /\
    \E id \in HistoriesOf(<<p>>) : \E i \in DOMAIN histories[id].versions :
      LET was == Replay(histories[id], histories[id].versions[i].number)
      IN  StartEdit(e, docs[p], [was EXCEPT !.path = p], "")

RestoreDocSection(e) ==
  \E p \in DocPaths : docs[p] # NoDoc /\
    \E id \in HistoriesOf(<<p>>) : \E i \in DOMAIN histories[id].versions, ref \in {"a", "b"} :
      LET was == Replay(histories[id], histories[id].versions[i].number)
          j == FindMarkdownSection(was.body, ref)
      IN  /\ j # 0 /\ FindMarkdownSection(docs[p].body, ref) # 0
          /\ StartEdit(e, docs[p],
               [docs[p] EXCEPT !.body = ReplaceMarkdownSection(@, ref, was.body.secs[j])], ref)

(* The routes and the MCP tool restore a section when one is named, and the*)
(* document otherwise.                                                     *)
RestoreFrom(e) == RestoreDocSection(e) \/ RestoreDoc(e)

DeleteDoc ==
  /\ docCalls < MaxDocCalls /\ docCalls' = docCalls + 1
  /\ \E p \in DocPaths : docs[p] # NoDoc /\ docs' = [docs EXCEPT ![p] = NoDoc]
  /\ UNCHANGED <<histories, pathIndex, docCall, docDeaths>>

Goto(e, at) == docCall' = [docCall EXCEPT ![e].at = at]
Renames(c) == c.old # NoDoc /\ c.old.path # c.new.path

(* Create writes what it has; Update and Rename look at the doc there is first. *)
WriteDoc(e) ==
  LET c == docCall[e]
      existing == IF c.old = NoDoc THEN NoDoc ELSE docs[c.old.path]
      new == LockedDecisionReviewGate(existing, c.new)
  IN  /\ c.at = "write"
      /\ IF Renames(c) /\ existing = NoDoc
         THEN docCall' = [docCall EXCEPT ![e] = IdleEditor] /\ UNCHANGED docs
         ELSE /\ docs' = [docs EXCEPT ![c.new.path] = new]
              /\ docCall' = [docCall EXCEPT ![e].at = IF Renames(c) THEN "remove" ELSE "load", ![e].new = new]
      /\ UNCHANGED <<histories, pathIndex, docCalls, docDeaths>>

RemoveOld(e) ==
  /\ docCall[e].at = "remove"
  /\ docs' = [docs EXCEPT ![docCall[e].old.path] = NoDoc]
  /\ Goto(e, "rewrite")
  /\ UNCHANGED <<histories, pathIndex, docCalls, docDeaths>>

(* The other docs follow the rename, without a revision. *)
RewriteDocReferences(e) ==
  LET c == docCall[e]
      Refers(p) == docs[p] # NoDoc /\ p # c.new.path /\ docs[p].body # Empty
                     /\ docs[p].body.link = c.old.path
  IN  /\ c.at = "rewrite"
      /\ docs' = [p \in DocPaths |->
           IF Refers(p) THEN [docs[p] EXCEPT !.body.link = c.new.path] ELSE docs[p]]
      /\ Goto(e, "load")
      /\ UNCHANGED <<histories, pathIndex, docCalls, docDeaths>>

LoadHistory(e) ==
  LET c == docCall[e]
      ids == HistoriesOf(IF Renames(c) THEN <<c.new.path, c.old.path>> ELSE <<c.new.path>>)
  IN  /\ c.at = "load"
      /\ IF c.old # NoDoc /\ TrackDocChanges(c.old, c.new) = {} /\ ~Renames(c)
         THEN docCall' = [docCall EXCEPT ![e] = IdleEditor]
         ELSE \E id \in IF ids = {} THEN {c.n} ELSE ids :
           docCall' = [docCall EXCEPT ![e].at = "save", ![e].id = id, ![e].history = 
             IF ids = {} THEN NewHistory(c.new.path) ELSE histories[id]]
      /\ UNCHANGED <<docs, histories, pathIndex, docCalls, docDeaths>>

SaveRevision(e) ==
  LET c == docCall[e] IN
  /\ c.at = "save"
  /\ histories' = [histories EXCEPT ![c.id] =
       AppendDocVersion(c.history, c.new.path, Revision(c.old, c.new, c.ref))]
  /\ Goto(e, "index")
  /\ UNCHANGED <<docs, pathIndex, docCalls, docDeaths>>

(* The index of paths is read, and written with the one path changed. *)
LoadIndex(e) ==
  /\ docCall[e].at = "index"
  /\ docCall' = [docCall EXCEPT ![e].at = "indexed", ![e].paths = pathIndex]
  /\ UNCHANGED <<docs, histories, pathIndex, docCalls, docDeaths>>

IndexHistory(e) ==
  LET c == docCall[e] IN
  /\ c.at = "indexed"
  /\ pathIndex' = [p \in DocPaths |-> IF p = c.new.path THEN c.id
                     ELSE IF Renames(c) /\ p = c.old.path THEN 0 ELSE c.paths[p]]
  /\ docCall' = [docCall EXCEPT ![e] = IdleEditor]
  /\ UNCHANGED <<docs, histories, docCalls, docDeaths>>

(* Retention loads a history, and writes what it keeps of it unless that is*)
(* all of it.                                                              *)
ApplyRetention(e) ==
  /\ docCall[e] = IdleEditor /\ docCalls < MaxDocCalls
  /\ docCalls' = docCalls + 1
  /\ \E p \in DocPaths : \E id \in HistoriesOf(<<p>>) :
       docCall' = [docCall EXCEPT ![e] =
         [at |-> "retain", n |-> 0, old |-> NoDoc, new |-> [NoDoc EXCEPT !.path = histories[id].path],
          ref |-> "", id |-> id, history |-> histories[id], paths |-> NoPaths]]
  /\ UNCHANGED <<docs, histories, pathIndex, docDeaths>>

PurgeHistory(e) ==
  LET c == docCall[e] IN
  /\ c.at = "retain"
  /\ \E keep \in 1 .. 2 :
       IF Retained(c.history, keep) = c.history
       THEN docCall' = [docCall EXCEPT ![e] = IdleEditor] /\ UNCHANGED histories
       ELSE histories' = [histories EXCEPT ![c.id] = Retained(c.history, keep)] /\ Goto(e, "index")
  /\ UNCHANGED <<docs, pathIndex, docCalls, docDeaths>>

EditorDies(e) ==
  /\ docCall[e] # IdleEditor /\ docDeaths < MaxDocDeaths
  /\ docDeaths' = docDeaths + 1
  /\ docCall' = [docCall EXCEPT ![e] = IdleEditor]
  /\ UNCHANGED <<docs, histories, pathIndex, docCalls>>

DocNext ==
  \/ DeleteDoc
  \/ \E e \in Editors :
       \/ CreateDoc(e) \/ CliEdit(e) \/ McpUpdate(e) \/ HttpUpdate(e)
       \/ RestoreFrom(e) \/ ApplyRetention(e) \/ PurgeHistory(e)
       \/ WriteDoc(e) \/ RemoveOld(e) \/ RewriteDocReferences(e)
       \/ LoadHistory(e) \/ SaveRevision(e) \/ LoadIndex(e) \/ IndexHistory(e) \/ EditorDies(e)

DocSpec == DocInit /\ [][DocNext]_docVars

(***************************************************************************)
(* A history that had the doc as it was has it as it is once the revision  *)
(* is saved (ResolveDocState), unless a description or body was emptied,   *)
(* or the change is kept as a section and is more than that section, or    *)
(* the title of the section is part of the title of an earlier one.        *)
(***************************************************************************)
Emptied(old, new) == \E f \in {"desc", "body"} : old[f] # Zero[f] /\ new[f] = Zero[f]
JustSection(old, new, ref) ==
  LET changed == DiffersAt(old, new) IN
  /\ SameTitles(old, new) /\ old # Empty /\ old.link = new.link
  /\ \E i \in changed : changed = {i} /\ FindMarkdownSection(old, old.secs[i].title) = i
                          /\ (ref = "" \/ FindMarkdownSection(old, ref) = i)
OneOrLabelled(old, new, ref) ==
  \/ ref # "" /\ FindMarkdownSection(old, ref) # 0 /\ FindMarkdownSection(new, ref) # 0
  \/ SameTitles(old, new) /\ \E i \in DiffersAt(old, new) : DiffersAt(old, new) = {i}
Kept(old, new, ref) ==
  /\ ~Emptied(old, new)
  /\ old.body # new.body /\ OneOrLabelled(old.body, new.body, ref) => JustSection(old.body, new.body, ref)

RevisionReproduces ==
  [][\A e \in Editors : LET c == docCall[e] IN
       c.at = "save" /\ docCall'[e].at = "index"
         /\ (IF c.old = NoDoc THEN c.history.versions = <<>>
             ELSE ResolveDocState(c.history) = c.old /\ Kept(c.old, c.new, c.ref))
       => ResolveDocState(histories'[c.id]) = c.new]_docVars

(***************************************************************************)
(* The state of a revision does not change as long as the revision is      *)
(* kept, also when those before it are purged, except that a process which *)
(* loaded the history before another saved or purged it writes its own over*)
(* that.                                                                   *)
(***************************************************************************)
RevisionsStay ==
  [][\A id \in HistoryIDs :
       \/ histories'[id] = histories[id]
       \/ \E e \in Editors : docCall[e].at \in {"save", "retain"} /\ docCall'[e].at = "index"
                               /\ docCall[e].id = id /\ docCall[e].history # histories[id]
       \/ \A i \in DOMAIN histories[id].versions, j \in DOMAIN histories'[id].versions :
            LET n == histories[id].versions[i].number IN
            n = histories'[id].versions[j].number
              => Replay(histories[id], n) = Replay(histories'[id], n)]_docVars
===============================================================================
