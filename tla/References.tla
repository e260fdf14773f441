------------------------------ MODULE References ------------------------------
(***************************************************************************)
(* References between Tasks, documents and a template: how they are found  *)
(* in a text, how a validation judges them and how the rename of a         *)
(* document rewrites them, while others change what they are about.  A     *)
(* validation lists the Tasks, then the documents, then reads each         *)
(* document, and for a spec its decisions, once more; a rename reads the   *)
(* document, writes it under its new path, removes the old file, and       *)
(* rewrites copies of the others afterwards.  IDs and paths are sequences, *)
(* since a path may begin with another, and lies under it in a directory.  *)
(* A file that cannot be read or parsed, or lies in such a directory, is   *)
(* passed over by every listing without a word: it is in the dark.         *)
(*                                                                         *)
(* What depends on one entity alone (a title, a standard status, labels, a *)
(* reference to code) is the level of the worst of those remarks, "own".   *)
(* A spec locks one decision, in a section that may be missing, empty or   *)
(* list it twice.  Imported documents, projects, memos and the tags of a   *)
(* document other than that of a spec are left out.                        *)
(***************************************************************************)
EXTENDS Naturals, Sequences, FiniteSets, SequencesExt, TLC

CONSTANTS
  Tasks,              \* Task IDs
  Paths,              \* paths of documents, as sequences of what others may begin with
  Template,           \* the name of the template
  Contracts,          \* states of a spec's sections: [spec, locked, impact]
  Questions,          \* what validations are asked: [scope, entity, strict, fix, door]
  Renames,            \* the renames that may be asked for: from one path to another
  MaxBegun            \* bound on validations, renames and changes by others together

VARIABLES
  task,       \* each Task: where it is and what it says
  doc,        \* the documents, by path: text, tag and sections, own remarks
  dark,       \* the Tasks and documents whose files cannot be read now
  template,   \* the template: the document it names, its file and own remarks
  run,        \* the validation
  seen,       \* what was broken throughout it, named and missing at some moment; who kept naming the renamed
  renamer,    \* the rename
  begunRefs   \* how many validations, renames and changes have begun

refVars == <<task, doc, dark, template, run, seen, renamer, begunRefs>>

None == <<>>
Entities == Tasks \union Paths \union {Template}
Text(to, how) == <<[to |-> to, how |-> how]>>
Blank ==
  [place |-> "active", parent |-> None, spec |-> None, fulfills |-> FALSE, text |-> <<>>, status |-> "todo",
   criteria |-> "met", assessed |-> "no", own |-> "fine"]
Bare == [spec |-> FALSE, locked |-> "none", impact |-> "none"]
NewDoc(text, contract) == [text |-> text, contract |-> contract, own |-> "fine"]
NoCopies == [t \in Tasks |-> Blank]
First(S) == CHOOSE e \in S : TRUE      \* listings have an order, that of file names
Idle == [at |-> "idle", ask |-> First(Questions), copies |-> NoCopies, ids |-> {}, paths |-> {}, left |-> {},
         issues |-> {}, blind |-> FALSE, shown |-> {}, valid |-> TRUE, failed |-> FALSE]
NoRename ==
  [at |-> "idle", from |-> None, to |-> None, left |-> {}, copies |-> NoCopies, held |-> None, copy |-> {}]

Active == {t \in Tasks : task[t].place = "active"} \ dark
Docs == DOMAIN doc \ dark
Templates == IF template.file = "gone" THEN {} ELSE {Template}

(***************************************************************************)
(* A reference is what a text calls by its ID or path: bare, with a        *)
(* relation that is known or not, or inside fenced code.                   *)
(***************************************************************************)
Extract(text) == SelectSeq(text, LAMBDA r : r.how # "fenced")
ValidRelation(r) == r.how # "unknown"

(* Every extracted reference to the renamed path has its bytes replaced    *)
(* wherever they stand: those of a bare one are also the beginning of each *)
(* longer path, of one with a relation and of the same one in a fence.     *)
Rewritten(r, how, from, to) ==
  IF how = "bare" /\ IsPrefix(from, r.to) THEN [r EXCEPT !.to = to \o SubSeq(@, Len(from) + 1, Len(@))]
  ELSE IF r.to = from /\ r.how = how THEN [r EXCEPT !.to = to]
  ELSE r
Replaced(text, how, from, to) == [i \in DOMAIN text |-> Rewritten(text[i], how, from, to)]
(* Mutation: references with a relation are passed over.                   *)
RewriteBareOnly(text, from, to) ==
  IF [to |-> from, how |-> "bare"] \in ToSet(text) THEN Replaced(text, "bare", from, to) ELSE text
RewriteDocPath(text, from, to) ==
  LET Onward(rewritten, r) == IF r.to = from THEN Replaced(rewritten, r.how, from, to) ELSE rewritten
  IN FoldLeft(Onward, text, Extract(text))

(***************************************************************************)
(* The issues of a validation.                                             *)
(***************************************************************************)
Issue(level, code, e, to) == [level |-> level, code |-> code, entity |-> e, to |-> to]
When(condition, issue) == IF condition THEN {issue} ELSE {}
Own(e, x) == When(x.own # "fine", Issue(x.own, "own", e, None))

(* A template is looked up at once, Tasks and documents in the lists.      *)
validateSemanticRefs(text, e, level, ids, paths) ==
  LET Bad(r) == IF ~ValidRelation(r) THEN "relation"
                ELSE IF r.to \in ids \union paths \union Templates THEN "" ELSE "broken"
  IN {Issue(level, Bad(r), e, r.to) : r \in {x \in ToSet(Extract(text)) : Bad(x) # ""}}

(* The chain of parents comes back to a Task it has passed.                *)
detectCircularParent(copies, ids, t) ==
  LET parent[u \in Tasks] == IF u \in ids THEN copies[u].parent ELSE None
      chain[n \in 0..Cardinality(Tasks)] ==
        IF n = 0 THEN t ELSE IF chain[n - 1] \in Tasks THEN parent[chain[n - 1]] ELSE None
  IN chain[Cardinality(Tasks)] # None

(* The section of locked decisions: what it lists, and the remarks on it.  *)
DeclaresOne(d) == d.contract.locked \in {"one", "twice"}
specDecisionIDs(p, d) ==
  When(d.contract.locked = "twice", Issue("error", "duplicate decision", p, None))
    \union When(d.contract.locked = "empty", Issue("warning", "no decisions", p, None))
StrictState(t) == t.status \in {"in-review", "done"}
Required(t) == StrictState(t) \/ t.status = "in-progress"

(* The spec of a Task is read now; only one that declares its impact on    *)
(* the system's decisions binds its Tasks.                                 *)
validateTaskSpecDecisionCompliance(e, t) ==
  IF t.spec \notin Docs THEN {Issue("error", "spec unreadable", e, t.spec)}
  ELSE LET d == doc[t.spec]
       IN IF d.contract.impact = "none" THEN {}
          ELSE specDecisionIDs(t.spec, d) \union
            IF ~DeclaresOne(d) THEN {}
            ELSE When(t.assessed = "conflict", Issue("error", "conflict", e, t.spec))
              \union When(t.assessed = "no" /\ Required(t),
                          Issue(IF StrictState(t) THEN "error" ELSE "warning", "unassessed", e, t.spec))
              \union When(t.assessed = "pass" /\ Required(t), Issue("info", "compliant", e, t.spec))

ImpactIssue(p, d) ==
  IF d.contract.impact = "none" THEN Issue("info", "impact missing", p, None)
  ELSE IF d.contract.impact = "invalid" THEN Issue("error", "impact invalid", p, None)
  ELSE Issue("info", "impact declared", p, None)
validateSpecDecisionContract(p, d) ==
  IF ~d.contract.spec THEN {}
  ELSE specDecisionIDs(p, d)
         \union When(d.contract.locked = "none", Issue("info", "no section", p, None))
         \union When(DeclaresOne(d), Issue("info", "decisions declared", p, None))
         \union {ImpactIssue(p, d)}

validateTask(t, copies, ids, paths, scope) ==
  LET c == copies[t]
  IN Own(t, c)
       \union When(c.parent # None /\ c.parent \notin ids, Issue("error", "broken", t, c.parent))
       \union When(c.parent # None /\ detectCircularParent(copies, ids, t),
                   Issue("error", "circular", t, c.parent))
       \union When(c.spec # None /\ c.spec \notin paths, Issue("warning", "broken", t, c.spec))
       \union When(c.fulfills /\ c.spec = None, Issue("warning", "fulfills without spec", t, None))
       \union When(c.status = "done" /\ c.criteria = "open", Issue("warning", "unchecked", t, None))
       \union validateSemanticRefs(c.text, t, "warning", ids, paths)
       \union (IF scope # "sdd" \/ c.spec = None THEN {}
               ELSE When(c.criteria = "none", Issue("warning", "no criteria", t, None))
                      \union validateTaskSpecDecisionCompliance(t, c))

validateDoc(p, ids, paths) == Own(p, doc[p]) \union validateSemanticRefs(doc[p].text, p, "info", ids, paths)

validateTemplate(paths, fix) ==
  Own(Template, template)
    \union When(template.file \in {"missing", "parse error"}, Issue("error", template.file, Template, None))
    \union When(template.doc # None /\ template.doc \notin paths,
                Issue(IF fix THEN "info" ELSE "warning", "broken", Template, template.doc))

(***************************************************************************)
(* What is broken now: an active Task or a document names, as its parent,  *)
(* its spec or in its text, what is no active Task, document or template,  *)
(* all as far as their files can be read.                                  *)
(***************************************************************************)
There == Active \union Docs \union Templates
InText(e, text) == {<<e, r.to, "text">> : r \in {x \in ToSet(Extract(text)) : ValidRelation(x)}}
Names(e) ==
  IF e \in Docs THEN InText(e, doc[e].text)
  ELSE InText(e, task[e].text)
         \union {b \in {<<e, task[e].parent, "parent">>, <<e, task[e].spec, "spec">>} : b[2] # None}
Named == UNION {Names(e) : e \in Active \union Docs}
Missing == Entities \ There
Broken == {b \in Named : b[2] \notin There}
Before == {"idle", "listed"}
Nothing == [always |-> {}, named |-> {}, missing |-> {}, kept |-> {}]
(* Kept by every step: the first three while a validation, the last while  *)
(* a rename is under way.                                                  *)
Witnessed ==
  seen' =
    [always |-> IF run'.at \in Before THEN {} ELSE IF run.at \in Before THEN Broken' ELSE
                IF run.at = "end" THEN seen.always ELSE seen.always \intersect Broken',
     named |-> IF run'.at \in Before THEN {} ELSE IF run.at = "end" THEN seen.named
               ELSE seen.named \union {<<b[1], b[2]>> : b \in Named'},
     missing |-> IF run'.at \in Before THEN {} ELSE IF run.at = "end" THEN seen.missing
                 ELSE seen.missing \union Missing',
     kept |-> IF renamer'.at \in {"idle", "write", "remove"} THEN {} ELSE
              IF renamer.at = "remove" THEN {b[1] : b \in {x \in Named' : x[2] = renamer'.from}}
              ELSE {e \in seen.kept : \E how \in {"text", "spec"} : <<e, renamer'.from, how>> \in Named'}]

RefInit ==
  /\ \E r \in Entities, how \in {"bare", "related"} :
       LET p == First(Paths)
           S == {q \in Paths : \A x \in Renames : q # x[2]}
           spec == IF how = "bare" THEN None ELSE p
           place == IF how = "bare" THEN "archived" ELSE "active"
           contract == IF how = "bare" THEN Bare ELSE First(Contracts)
       IN /\ task = [t \in Tasks |->
               IF t = First(Tasks)
               THEN [Blank EXCEPT !.status = "done", !.spec = spec, !.place = place]
               ELSE [Blank EXCEPT !.parent = First(Tasks), !.text = Text(r, how)]]
          /\ doc = [q \in S |-> NewDoc(IF q = p THEN <<>> ELSE Text(p, how), contract)]
          /\ template = [doc |-> p, file |-> "ok", own |-> "fine"]
  /\ dark \in {{}} \union {{e} : e \in Tasks \union DOMAIN doc}
  /\ run = Idle /\ seen = Nothing /\ renamer = NoRename /\ begunRefs = 0

(***************************************************************************)
(* A validation: of all, of Tasks, documents, templates or decisions, or   *)
(* of one entity.  Its lists may fail, and what failed counts as empty.    *)
(***************************************************************************)
Begins == begunRefs < MaxBegun /\ begunRefs' = begunRefs + 1
Goes(fields) == run' = fields @@ run
Chosen(S) == IF run.ask.entity = None THEN S ELSE S \intersect {run.ask.entity}

(* The browser server first lists the Tasks, for its own count, and the    *)
(* documents; here a list that fails ends the call.                        *)
Sdd(request) ==
  /\ run.at = "idle" /\ Begins /\ request.door = "http"
  /\ \/ Goes([at |-> "end", ask |-> request, blind |-> TRUE, failed |-> TRUE])
     \/ Goes([at |-> "listed", ask |-> request,
              shown |-> {Issue("warning", "no spec", t, None) : t \in {x \in Active : task[x].spec = None}}])
  /\ UNCHANGED <<task, doc, dark, template, renamer>>

Run(request) ==
  /\ IF request.door = "http" THEN run.at = "listed" /\ run.ask = request /\ UNCHANGED begunRefs
     ELSE run.at = "idle" /\ Begins
  /\ \E blind \in BOOLEAN :
       LET listed == IF blind THEN {} ELSE Active
       IN Goes([at |-> "docs", ask |-> request, ids |-> listed, blind |-> blind,
                copies |-> [t \in Tasks |-> IF t \in listed THEN task[t] ELSE Blank]])
  /\ UNCHANGED <<task, doc, dark, template, renamer>>

Scoped(kind) == run.ask.scope \in {"all", kind} \/ (run.ask.scope = "sdd" /\ kind # "templates")
ListDocs ==
  /\ run.at = "docs"
  /\ \E blind \in BOOLEAN :
       /\ blind => ~run.blind
       /\ Goes([at |-> "tasks", paths |-> IF blind THEN {} ELSE Docs, blind |-> run.blind \/ blind,
                left |-> IF Scoped("tasks") THEN Chosen(run.ids) ELSE {}])
  /\ UNCHANGED <<task, doc, dark, template, renamer, begunRefs>>

(* The Tasks by their copies, the decisions of their specs as they are.    *)
CheckTask ==
  /\ run.at = "tasks" /\ run.left # {}
  /\ LET t == First(run.left)
     IN Goes([left |-> run.left \ {t},
              issues |-> run.issues \union validateTask(t, run.copies, run.ids, run.paths, run.ask.scope)])
  /\ UNCHANGED <<task, doc, dark, template, renamer, begunRefs>>

TasksChecked ==
  /\ run.at = "tasks" /\ run.left = {}
  /\ Goes([at |-> "read", left |-> IF Scoped("docs") THEN Chosen(run.paths) ELSE {}])
  /\ UNCHANGED <<task, doc, dark, template, renamer, begunRefs>>

CheckDoc ==
  /\ run.at = "read" /\ run.left # {}
  /\ LET p == First(run.left)
     IN Goes([left |-> run.left \ {p},
              issues |-> run.issues \union
                IF p \notin Docs THEN {Issue("error", "unreadable", p, None)}
                ELSE validateDoc(p, run.ids, run.paths)
                       \union (IF run.ask.scope = "sdd" THEN validateSpecDecisionContract(p, doc[p]) ELSE {})])
  /\ UNCHANGED <<task, doc, dark, template, renamer, begunRefs>>

(* The verdict.  The CLI ends with an error when it is negative, unless it *)
(* prints JSON; MCP replies with it; HTTP has no verdict and shows what is *)
(* about decisions.                                                        *)
Raised(i) == IF i.level = "warning" THEN [i EXCEPT !.level = "error"] ELSE i
CliFails(valid) == run.ask.door = "cli" /\ ~valid
McpShows(issues) == issues
HttpCodes == {"compliant", "unassessed", "conflict", "impact declared", "impact invalid", "impact missing"}
HttpShows(issues) == run.shown \union {i \in issues : i.code \in HttpCodes}
(* The templates come last; when their list fails, that is an issue.       *)
TemplateIssues(listed) ==
  IF ~Scoped("templates") THEN {}
  ELSE IF ~listed THEN {Issue("error", "template list", None, None)}
  ELSE IF Chosen(Templates) = {} THEN {} ELSE validateTemplate(run.paths, run.ask.fix)
Conclude ==
  /\ run.at = "read" /\ run.left = {}
  /\ \E listed \in BOOLEAN :
       LET found == run.issues \union TemplateIssues(listed)
           judged == IF run.ask.strict THEN {Raised(i) : i \in found} ELSE found
           valid == ~ \E i \in judged : i.level = "error"
       IN Goes([at |-> "end", issues |-> judged, valid |-> valid, failed |-> CliFails(valid), copies |-> NoCopies,
                shown |-> IF run.ask.door = "http" THEN HttpShows(judged) ELSE McpShows(judged)])
  /\ UNCHANGED <<task, doc, dark, template, renamer, begunRefs>>

(***************************************************************************)
(* A rename.  The document is read and its copy written as the new file,   *)
(* silently over another, and the old one removed; documents are then read *)
(* and written one by one, and Tasks written from the copies one listing   *)
(* gave, wherever they are by then.                                        *)
(***************************************************************************)
Turns(fields) == renamer' = fields @@ renamer

ReadRenamed(from, to) ==
  /\ renamer.at = "idle" /\ Begins /\ from \in Docs /\ from # to
  /\ Turns([at |-> "write", from |-> from, to |-> to, copy |-> {doc[from]}])
  /\ UNCHANGED <<task, doc, dark, template, run>>

(* One that is gone by then is not renamed.                                *)
Rename ==
  /\ renamer.at = "write" /\ renamer.from \in Docs
  /\ \E copy \in renamer.copy : doc' = (renamer.to :> copy) @@ doc
  /\ dark' = dark \ {renamer.to}
  /\ Turns([at |-> "remove", copy |-> {}])
  /\ UNCHANGED <<task, template, run, begunRefs>>

(* Reading the renamed document, listing, writing or removing may fail: the*)
(* call ends there and what was done stays.  Failing to read one of the    *)
(* others does not end it.                                                 *)
RenameFails ==
  /\ renamer.at \notin {"idle", "done", "failed"}
  /\ renamer.at = "docs" => renamer.held # None \/ renamer.left = {}
  /\ renamer.at = "tasks" => renamer.left # {}
  /\ renamer' = [NoRename EXCEPT !.at = "failed", !.from = renamer.from, !.to = renamer.to]
  /\ UNCHANGED <<task, doc, dark, template, run, begunRefs>>

RemoveOld ==
  /\ renamer.at = "remove"
  /\ doc' = [p \in DOMAIN doc \ {renamer.from} |-> doc[p]]
  /\ dark' = dark \ {renamer.from}
  /\ Turns([at |-> "list"])
  /\ UNCHANGED <<task, template, run, begunRefs>>

(* Of documents, those that are there by then and can be read.             *)
ListOthers ==
  /\ renamer.at = "list"
  /\ Turns([at |-> "docs", left |-> Docs \ {renamer.to}])
  /\ UNCHANGED <<task, doc, dark, template, run, begunRefs>>

WithNewPaths(d) == [d EXCEPT !.text = RewriteDocPath(@, renamer.from, renamer.to)]
(* Read one; one that is gone, cannot be read or names nothing of it is    *)
(* passed over.                                                            *)
ReadDoc ==
  /\ renamer.at = "docs" /\ renamer.held = None /\ renamer.left # {}
  /\ LET p == First(renamer.left)
     IN IF p \in Docs /\ WithNewPaths(doc[p]) # doc[p]
        THEN Turns([left |-> renamer.left \ {p}, held |-> p, copy |-> {WithNewPaths(doc[p])}])
        ELSE Turns([left |-> renamer.left \ {p}])
  /\ UNCHANGED <<task, doc, dark, template, run, begunRefs>>

UpdateDoc ==
  /\ renamer.held # None
  /\ \E copy \in renamer.copy : doc' = (renamer.held :> copy) @@ doc
  /\ dark' = dark \ {renamer.held}
  /\ Turns([held |-> None, copy |-> {}])
  /\ UNCHANGED <<task, template, run, begunRefs>>

ListTasks ==
  /\ renamer.at = "docs" /\ renamer.held = None /\ renamer.left = {}
  /\ Turns([at |-> "tasks", left |-> Active,
            copies |-> [t \in Tasks |-> IF t \in Active THEN task[t] ELSE Blank]])
  /\ UNCHANGED <<task, doc, dark, template, run, begunRefs>>

WithNewSpec(t) == [WithNewPaths(t) EXCEPT !.spec = IF @ = renamer.from THEN renamer.to ELSE @]
(* A deleted Task ends the rename: its ID is reserved.  One whose file     *)
(* cannot be read is taken for missing and written as an active Task.      *)
UpdateTask ==
  /\ renamer.at = "tasks" /\ renamer.left # {}
  /\ LET t == First(renamer.left)
         copy == renamer.copies[t]
         place == IF t \in dark THEN "active" ELSE task[t].place
     IN IF WithNewSpec(copy) = copy THEN Turns([left |-> renamer.left \ {t}]) /\ UNCHANGED <<task, dark>>
        ELSE IF task[t].place = "gone"
        THEN Turns([at |-> "failed", left |-> {}, copies |-> NoCopies]) /\ UNCHANGED <<task, dark>>
        ELSE /\ task' = [task EXCEPT ![t] = [WithNewSpec(copy) EXCEPT !.place = place]]
             /\ dark' = dark \ {t}
             /\ Turns([left |-> renamer.left \ {t}])
  /\ UNCHANGED <<doc, template, run, begunRefs>>

RenameEnds ==
  /\ renamer.at = "tasks" /\ renamer.left = {}
  /\ Turns([at |-> "done", copies |-> NoCopies])
  /\ UNCHANGED <<task, doc, dark, template, run, begunRefs>>

(***************************************************************************)
(* What others do meanwhile.                                               *)
(***************************************************************************)
UnderWay == run.at \notin {"idle", "end"} \/ renamer.at \notin {"idle", "done", "failed"}
Others == UnderWay /\ Begins /\ UNCHANGED <<run>>

ChangeTask(t) ==
  /\ Others /\ t \in Active
  /\ \/ \E p \in {None} \union (Tasks \ {t}) : task' = [task EXCEPT ![t].parent = p]
     \/ \E p \in {None} \union Docs : task' = [task EXCEPT ![t].spec = p]
     \/ \E s \in {"todo", "in-progress", "in-review", "done"} : task' = [task EXCEPT ![t].status = s]
     \/ \E a \in {"no", "pass", "conflict"} : task' = [task EXCEPT ![t].assessed = a]
     \/ \E c \in {"none", "open"} : task' = [task EXCEPT ![t].criteria = c]
     \/ \E level \in {"info", "warning", "error"} : task' = [task EXCEPT ![t].own = level]
     \/ task' = [task EXCEPT ![t].fulfills = TRUE]
  /\ UNCHANGED <<doc, dark, template, renamer>>

RemoveTask(t) ==
  /\ Others /\ t \in Active
  /\ \/ task[t].status = "done" /\ task' = [task EXCEPT ![t].place = "archived"]
     \/ task' = [task EXCEPT ![t].place = "gone"]
  /\ UNCHANGED <<doc, dark, template, renamer>>

ReopenTask(t) ==
  /\ Others /\ t \notin dark
  /\ task[t].place = "archived" \/ (task[t].place = "active" /\ task[t].status = "done")
  /\ \E s \in {"todo", "in-progress"} : task' = [task EXCEPT ![t].place = "active", ![t].status = s]
  /\ UNCHANGED <<doc, dark, template, renamer>>

(* One that cannot be read is taken for missing and overwritten.           *)
ChangeDoc(p) ==
  /\ Others
  /\ \/ /\ p \in Docs
        /\ \/ \E x \in Entities, how \in {"bare", "unknown", "fenced"} :
                doc' = [doc EXCEPT ![p].text = Text(x, how)]
           \/ \E c \in Contracts : doc' = [doc EXCEPT ![p].contract = c]
           \/ \E level \in {"info", "warning"} : doc' = [doc EXCEPT ![p].own = level]
           \/ doc' = [q \in DOMAIN doc \ {p} |-> doc[q]]
     \/ p \notin Docs /\ doc' = (p :> NewDoc(<<>>, Bare)) @@ doc
  /\ dark' = dark \ {p}
  /\ UNCHANGED <<task, template, renamer>>

ChangeTemplate ==
  /\ Others
  /\ \/ \E f \in {"ok", "missing", "parse error", "gone"} : template' = [template EXCEPT !.file = f]
     \/ \E level \in {"warning", "error"} : template' = [template EXCEPT !.own = level]
  /\ UNCHANGED <<task, doc, dark, renamer>>

(* A file, those of a directory or all documents cannot be read, or can be *)
(* again.                                                                  *)
Below(p) == {q \in DOMAIN doc : q # p /\ IsPrefix(p, q)}
Darken ==
  /\ Others
  /\ \/ \E e \in DOMAIN doc \union {t \in Tasks : task[t].place # "gone"} : dark' = dark \union {e}
     \/ \E p \in Paths \union {None} : dark' = dark \union Below(p)
     \/ dark' = {}
  /\ dark' # dark
  /\ UNCHANGED <<task, doc, template, renamer>>

RefNext ==
  /\ \/ \E request \in Questions : Sdd(request) \/ Run(request)
     \/ ListDocs \/ CheckTask \/ TasksChecked \/ CheckDoc \/ Conclude
     \/ \E r \in Renames : ReadRenamed(r[1], r[2])
     \/ Rename \/ RenameFails \/ RemoveOld \/ ListOthers \/ ReadDoc \/ UpdateDoc
     \/ ListTasks \/ UpdateTask \/ RenameEnds
     \/ \E t \in Tasks : ChangeTask(t) \/ RemoveTask(t) \/ ReopenTask(t)
     \/ \E p \in Paths : ChangeDoc(p)
     \/ ChangeTemplate \/ Darken
  /\ Witnessed
RefSpec == RefInit /\ [][RefNext]_refVars

(***************************************************************************)
(* What should hold                                                        *)
(***************************************************************************)

(* A validation whose lists did not fail reports everything it was asked   *)
(* about that was broken from its beginning to its end, in a file that     *)
(* could be read all that time; a parent missing that long, and under      *)
(* strict anything a Task names, makes its verdict negative; and whatever  *)
(* it reports as broken was named by that entity, and was missing or could *)
(* not be read, at some moment while it ran.                               *)
Asked(e) == (run.ask.entity \in {None, e}) /\ Scoped(IF e \in Tasks THEN "tasks" ELSE "docs")
VerdictIsFair ==
  (run.at = "end" /\ ~run.blind) =>
    /\ \A b \in seen.always :
         Asked(b[1]) => /\ \E i \in run.issues : <<i.entity, i.to>> = <<b[1], b[2]>>
                        /\ (b[3] = "parent" \/ (run.ask.strict /\ b[1] \in Tasks)) => ~run.valid
    /\ \A i \in run.issues :
         (i.code = "broken" /\ i.entity # Template) =>
           <<i.entity, i.to>> \in seen.named /\ i.to \in seen.missing

(* When a rename reports success, no active Task and no document but the   *)
(* renamed one has named its old path all the while in a file that could be*)
(* read all the while: one in the dark is passed over and keeps the path.  *)
RenameReaches == renamer.at = "done" => seen.kept \subseteq {renamer.to}

(* The two together.                                                       *)
ReferencesAreSound == VerdictIsFair /\ RenameReaches

===============================================================================
