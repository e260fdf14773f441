----------------------------- MODULE ServiceProofs -----------------------------
(***************************************************************************)
(* Proofs about the lifecycle requests, the updates of the installed       *)
(* program, the saved links and the servers: what a reply promises, that an*)
(* update leaves one whole binary, that a link finds its image and a notice*)
(* the tabs it is for, for any number of Tasks, requests, updaters,        *)
(* callers, servers and failures.                                          *)
(***************************************************************************)
EXTENDS TaskRequests, Installation, SavedLinks, BrowserServer, FiniteSetTheorems, TLAPS

Ops == SingleOps \cup BatchOps
States == {"todo", "done", "archived", "gone"}
KnownReasons == {"notFound", "alreadyArchived", "notDone", "retention", "alreadyActive", "permission",
                 "confirmation", "deleteReason", "alreadyDeleted", "tombstoneConflict"}
IsFailure(reasons) == \E r \in reasons : FailureKindForReason(r, TRUE) /= "none"

IsRequest(r) ==
  r = [at |-> r.at, by |-> r.by, op |-> r.op, ids |-> r.ids, left |-> r.left, execute |-> r.execute,
       confirmed |-> r.confirmed, reason |-> r.reason, allowed |-> r.allowed, reasons |-> r.reasons]

RequestOK(r) ==
  /\ IsRequest(r) /\ r.at \in {"none", "running", "replied"}
  /\ r.reasons \subseteq KnownReasons /\ r.ids \subseteq Tasks /\ r.left \subseteq Tasks
  /\ r.at /= "none" => r.op \in Ops

(* What had its turn in an executed request is as asked for, was changed   *)
(* by others since, or made the whole request a failure.                   *)
TurnsAreKept ==
  request.execute = TRUE /\ request.at /= "none" =>
    \A t \in request.ids \ request.left :
      state[t] \in Target(request.op) \/ t \in moved \/ IsFailure(request.reasons)

RequestInv ==
  /\ RequestOK(request) /\ state \in [Tasks -> States]
  /\ request.at = "replied" => request.left = {}
  /\ TurnsAreKept

LEMMA KindOf ==
  ASSUME NEW r \in KnownReasons, NEW e
  PROVE  FailureKindForReason(r, e) \in {"none", "denied", "conflict", "notFound", "invalid", "permission"}
BY DEF KnownReasons, FailureKindForReason

(* The worst kind is no failure only when every kind is none.              *)
LEMMA WorstKind ==
  ASSUME NEW reasons \in SUBSET KnownReasons, NEW e, FailureKindFor(reasons, e) = "none"
  PROVE  \A r \in reasons : FailureKindForReason(r, e) = "none"
<1> DEFINE kinds == {FailureKindForReason(r, e) : r \in reasons} \cup {"none"}
           Worst(i) == /\ FailurePriority[i] \in kinds
                       /\ \A j \in DOMAIN FailurePriority : FailurePriority[j] \in kinds => j <= i
<1>1. /\ DOMAIN FailurePriority = 1..6 /\ FailurePriority[1] = "none" /\ FailurePriority[2] = "denied"
      /\ FailurePriority[3] = "conflict" /\ FailurePriority[4] = "notFound"
      /\ FailurePriority[5] = "invalid" /\ FailurePriority[6] = "permission"
  BY DEF FailurePriority
<1>2. "none" \in kinds
  OBVIOUS
<1>3. FailureKindFor(reasons, e) = FailurePriority[CHOOSE i \in DOMAIN FailurePriority : Worst(i)]
  BY DEF FailureKindFor
<1>4. \A r \in reasons : FailureKindForReason(r, e) \in kinds
  OBVIOUS
<1> HIDE DEF kinds
<1>5. \E i \in DOMAIN FailurePriority : Worst(i)
  <2>1. CASE "permission" \in kinds
    BY <2>1, <1>1
  <2>2. CASE "permission" \notin kinds /\ "invalid" \in kinds
    BY <2>2, <1>1
  <2>3. CASE "permission" \notin kinds /\ "invalid" \notin kinds /\ "notFound" \in kinds
    BY <2>3, <1>1
  <2>4. CASE /\ "permission" \notin kinds /\ "invalid" \notin kinds /\ "notFound" \notin kinds
             /\ "conflict" \in kinds
    BY <2>4, <1>1
  <2>5. CASE /\ "permission" \notin kinds /\ "invalid" \notin kinds /\ "notFound" \notin kinds
             /\ "conflict" \notin kinds
    BY <2>5, <1>1, <1>2
  <2> QED BY <2>1, <2>2, <2>3, <2>4, <2>5
<1>6. PICK i \in DOMAIN FailurePriority : Worst(i) /\ FailurePriority[i] = "none"
  BY <1>3, <1>5
<1>7. i = 1
  BY <1>1, <1>6
<1>8. \A j \in 2..6 : FailurePriority[j] \notin kinds
  BY <1>1, <1>6, <1>7
<1> QED BY <1>1, <1>4, <1>8, KindOf

(* A reason to leave a Task alone is a failure, or the Task is as asked.   *)
LEMMA ReasonsOf ==
  ASSUME RequestOK(request), state \in [Tasks -> States], NEW t \in Tasks, request.op \in Ops
  PROVE  /\ Reasons(t) \subseteq KnownReasons
         /\ Reasons(t) /= {} => state[t] \in Target(request.op) \/ IsFailure(Reasons(t))
<1>0. state[t] \in States
  OBVIOUS
<1>1. CASE request.op \in {"archive", "batchArchive"}
  <2>1. Reasons(t) = ArchiveReasons(t) /\ Target(request.op) = {"archived"}
    BY <1>1 DEF Reasons, Target
  <2> QED BY <2>1, <1>0 DEF ArchiveReasons, KnownReasons, IsFailure, FailureKindForReason, States
<1>2. CASE request.op \in {"unarchive", "batchUnarchive"}
  <2>1. Reasons(t) = ReopenReasons(t) /\ Target(request.op) = {"todo"}
    BY <1>2 DEF Reasons, Target
  <2> QED BY <2>1, <1>0 DEF ReopenReasons, KnownReasons, IsFailure, FailureKindForReason, States
<1>3. CASE request.op = "hardDelete"
  <2>1. Reasons(t) = DeleteReasons(t) /\ Target(request.op) = {"gone"}
    BY <1>3 DEF Reasons, Target
  <2> QED BY <2>1, <1>0 DEF DeleteReasons, KnownReasons, IsFailure, FailureKindForReason, States
<1> QED BY <1>1, <1>2, <1>3 DEF Ops, SingleOps, BatchOps

LEMMA RequestStarts == ASSUME RequestInit PROVE RequestInv
BY DEF RequestInit, RequestInv, RequestOK, IsRequest, NoRequest, TurnsAreKept, States, KnownReasons

LEMMA RequestBegins ==
  ASSUME RequestInv, NEW s, NEW op \in Ops, NEW ids \in SUBSET Tasks, NEW execute \in BOOLEAN,
         NEW confirmed, NEW reason, NEW allowed, RequestBy(s, op, ids, execute, confirmed, reason, allowed)
  PROVE  RequestInv'
<1>1. state' = state /\ state \in [Tasks -> States]
  BY DEF RequestBy, RequestInv
<1>2. CASE op \in ArchiveOps /\ s = "mcp" /\ ~rights.archive
  <2>1. request' = [NoRequest EXCEPT !.at = "replied", !.by = s, !.op = op, !.ids = ids,
                                     !.execute = execute, !.reasons = {"permission"}]
    BY <1>2 DEF RequestBy
  <2>2. /\ RequestOK(request') /\ request'.left = {} /\ request'.at = "replied"
        /\ request'.reasons = {"permission"}
    BY <2>1 DEF NoRequest, RequestOK, IsRequest, KnownReasons
  <2>3. IsFailure(request'.reasons)
    BY <2>2 DEF IsFailure, FailureKindForReason
  <2> QED BY <1>1, <2>2, <2>3 DEF RequestInv, TurnsAreKept
<1>3. CASE ~(op \in ArchiveOps /\ s = "mcp" /\ ~rights.archive)
  <2> DEFINE c == op = "hardDelete" /\ confirmed
             n == op = "hardDelete" /\ reason
             a == op = "hardDelete" /\ allowed
             all == BatchIDs(op, ids)
  <2>1. request' = [NoRequest EXCEPT !.at = "running", !.by = s, !.op = op, !.ids = ids, !.left = all,
                                     !.execute = execute, !.confirmed = c, !.reason = n, !.allowed = a]
    BY <1>3 DEF RequestBy
  <2>2. ids \subseteq all /\ all \subseteq Tasks
    BY DEF BatchIDs
  <2> HIDE DEF c, n, a, all
  <2>3. /\ RequestOK(request') /\ request'.left = all /\ request'.at = "running" /\ request'.ids = ids
    BY <2>1, <2>2 DEF NoRequest, RequestOK, IsRequest, KnownReasons
  <2> QED BY <1>1, <2>2, <2>3 DEF RequestInv, TurnsAreKept
<1> QED BY <1>2, <1>3

LEMMA ItemKeepsRequest == ASSUME RequestInv, ExecuteItem PROVE RequestInv'
<1> USE DEF RequestInv
<1>1. PICK t \in request.left :
        /\ state' = IF Acts(t) THEN [state EXCEPT ![t] = CHOOSE s \in Target(request.op) : TRUE] ELSE state
        /\ request' = [request EXCEPT !.left = @ \ {t}, !.reasons = @ \cup Reasons(t)]
        /\ moved' = moved \ {t}
  BY DEF ExecuteItem
<1>2. t \in Tasks /\ request.at = "running" /\ request.op \in Ops
  BY DEF ExecuteItem, RequestOK
<1>3. /\ Reasons(t) \subseteq KnownReasons
      /\ Reasons(t) /= {} => state[t] \in Target(request.op) \/ IsFailure(Reasons(t))
  BY <1>2, ReasonsOf
<1>4. /\ IsRequest(request') /\ request'.at = "running" /\ request'.op = request.op
      /\ request'.ids = request.ids /\ request'.execute = request.execute
      /\ request'.left = request.left \ {t} /\ request'.reasons = request.reasons \cup Reasons(t)
  <2>1. IsRequest(request)
    BY DEF RequestOK
  <2> QED BY <1>1, <1>2, <2>1 DEF IsRequest
<1>5. RequestOK(request')
  BY <1>2, <1>3, <1>4 DEF RequestOK
<1>6. /\ Target(request.op) \subseteq States
      /\ (CHOOSE s \in Target(request.op) : TRUE) \in Target(request.op)
  BY <1>2 DEF Target, Ops, SingleOps, BatchOps, States
<1>7. /\ state' \in [Tasks -> States] /\ \A u \in Tasks \ {t} : state'[u] = state[u]
      /\ Acts(t) => state'[t] \in Target(request.op)
      /\ ~Acts(t) => state' = state
  BY <1>1, <1>2, <1>6
<1>8. ASSUME request.execute = TRUE, NEW u \in request.ids \ (request.left \ {t})
      PROVE  state'[u] \in Target(request.op) \/ u \in moved' \/ IsFailure(request'.reasons)
  <2>1. CASE u = t
    <3>1. CASE Acts(t)
      BY <2>1, <3>1, <1>7
    <3>2. CASE ~Acts(t)
      <4>1. Reasons(t) /= {}
        BY <3>2, <1>8 DEF Acts
      <4>2. IsFailure(Reasons(t)) => IsFailure(request'.reasons)
        BY <1>4 DEF IsFailure
      <4> QED BY <2>1, <3>2, <4>1, <4>2, <1>3, <1>7
    <3> QED BY <3>1, <3>2
  <2>2. CASE u /= t
    <3>1. state[u] \in Target(request.op) \/ u \in moved \/ IsFailure(request.reasons)
      BY <2>2, <1>2, <1>8 DEF TurnsAreKept
    <3>2. IsFailure(request.reasons) => IsFailure(request'.reasons)
      BY <1>4 DEF IsFailure
    <3>3. u \in Tasks
      BY DEF RequestOK
    <3> QED BY <2>2, <3>1, <3>2, <3>3, <1>1, <1>7
  <2> QED BY <2>1, <2>2
<1> QED BY <1>4, <1>5, <1>7, <1>8 DEF TurnsAreKept

LEMMA ReplyKeepsRequest == ASSUME RequestInv, Reply PROVE RequestInv'
<1>1. /\ request' = [request EXCEPT !.at = "replied"] /\ request.left = {} /\ request.at = "running"
      /\ state' = state /\ moved' = moved /\ IsRequest(request)
  BY DEF Reply, RequestInv, RequestOK
<1>2. /\ IsRequest(request') /\ request'.at = "replied" /\ request'.op = request.op
      /\ request'.ids = request.ids /\ request'.execute = request.execute
      /\ request'.left = request.left /\ request'.reasons = request.reasons
  BY <1>1 DEF IsRequest
<1> QED BY <1>1, <1>2 DEF RequestInv, RequestOK, TurnsAreKept

LEMMA OthersKeepRequest == ASSUME RequestInv, OthersEdit PROVE RequestInv'
<1>1. PICK t \in Tasks :
        /\ state' = [state EXCEPT ![t] = IF @ = "todo" THEN "done" ELSE "todo"]
        /\ moved' = moved \cup {t}
  BY DEF OthersEdit
<1>2. request' = request
  BY DEF OthersEdit
<1>3. state' \in [Tasks -> States] /\ \A u \in Tasks \ {t} : state'[u] = state[u]
  BY <1>1 DEF RequestInv, States
<1> QED BY <1>1, <1>2, <1>3 DEF RequestInv, RequestOK, TurnsAreKept

LEMMA RequestStep == ASSUME RequestInv, [RequestNext]_requestVars PROVE RequestInv'
<1>1. CASE CliLifecycle
  BY <1>1, RequestBegins DEF CliLifecycle, Ops
<1>2. CASE McpLifecycle
  BY <1>2, RequestBegins DEF McpLifecycle, Ops
<1>3. CASE HttpLifecycle
  BY <1>3, RequestBegins DEF HttpLifecycle, Ops
<1>4. CASE ExecuteItem
  BY <1>4, ItemKeepsRequest
<1>5. CASE Reply
  BY <1>5, ReplyKeepsRequest
<1>6. CASE OthersEdit
  BY <1>6, OthersKeepRequest
<1>7. CASE UNCHANGED requestVars
  BY <1>7 DEF requestVars, RequestInv, RequestOK, TurnsAreKept
<1> QED BY <1>1, <1>2, <1>3, <1>4, <1>5, <1>6, <1>7 DEF RequestNext

(* A request that was executed and reported as a success has done what it  *)
(* was asked to, for every Task of it that nobody has changed since.       *)
THEOREM SuccessIsDone == RequestSpec => []SuccessMeansDone
<1>1. ASSUME RequestInv PROVE SuccessMeansDone
  <2>1. SUFFICES ASSUME request.at = "replied", request.execute,
                        FailureKindFor(request.reasons, request.execute) = "none", NEW t \in request.ids
                 PROVE  state[t] \in Target(request.op) \/ t \in moved
    BY DEF SuccessMeansDone
  <2>2. request.reasons \in SUBSET KnownReasons /\ request.left = {}
    BY <1>1, <2>1 DEF RequestInv, RequestOK
  <2>3. ~IsFailure(request.reasons)
    BY <2>1, <2>2, WorstKind DEF IsFailure
  <2> QED BY <1>1, <2>1, <2>2, <2>3 DEF RequestInv, TurnsAreKept
<1> QED BY <1>1, RequestStarts, RequestStep, PTL DEF RequestSpec

-----------------------------------------------------------------------------
(* The updates of the program.                                             *)
UpdaterOK(r) == r = [at |-> r.at, latest |-> r.latest, target |-> r.target, file |-> r.file]

FileOK(c) == c = [of |-> c.of, open |-> c.open] /\ c.open \subseteq Updaters

FilesOK ==
  /\ content = [f \in Files |-> content[f]]
  /\ \A f \in Files : FileOK(content[f])
  /\ bin \in Files \cup {NoFile} /\ tmp \in Files \cup {NoFile}
  /\ tmp /= NoFile => tmp /= bin
  /\ updater = [u \in Updaters |-> updater[u]] /\ \A u \in Updaters : UpdaterOK(updater[u])
  /\ registry \in Nat /\ clash \in BOOLEAN

OneReplaces ==
  \A u, w \in Updaters : u /= w /\ updater[u].at \in Replacing /\ updater[w].at \in Replacing => clash

(* Who replaces the binary alone has the temporary file to himself.        *)
TmpIsOwn ==
  \A u \in Updaters : updater[u].at \in Replacing /\ ~clash =>
    /\ tmp /= NoFile /\ updater[u].file = tmp
    /\ content[tmp] = [of |-> {updater[u].target}, open |-> IF updater[u].at = "writing" THEN {u} ELSE {}]

IsWhole(c) == c.open = {} /\ \E v : c.of = {v}
BinaryIsThere == clash \/ IF bin = NoFile THEN windows ELSE IsWhole(content[bin])

InstallInv == FilesOK /\ OneReplaces /\ TmpIsOwn /\ BinaryIsThere

LEMMA FirstFile == 1 \in Files /\ NoFile \notin Files
BY UpdatersAreFinite, FS_CardinalityType DEF Files, NoFile

LEMMA InstallStarts == ASSUME InstallInit PROVE InstallInv
<1>1. /\ content = [f \in Files |-> [of |-> IF f = 1 THEN {1} ELSE {}, open |-> {}]]
      /\ updater = [u \in Updaters |-> NotRunning]
      /\ bin = 1 /\ tmp = NoFile /\ clash = FALSE /\ registry = 1
  BY DEF InstallInit
<1>2. FilesOK
  BY <1>1, FirstFile DEF FilesOK, FileOK, UpdaterOK, NotRunning
<1>3. \A u \in Updaters : updater[u].at \notin Replacing
  BY <1>1 DEF NotRunning, Replacing
<1>4. BinaryIsThere
  BY <1>1, FirstFile DEF BinaryIsThere, IsWhole, NoFile
<1> QED BY <1>2, <1>3, <1>4 DEF InstallInv, OneReplaces, TmpIsOwn

(* A step that touches no file, and in which an updater at most leaves the *)
(* replacement or changes its place outside it.                            *)
LEMMA QuietStep ==
  ASSUME InstallInv, NEW u \in Updaters, NEW r,
         updater' = [updater EXCEPT ![u] = r], UpdaterOK(r), r.at \notin Replacing,
         UNCHANGED <<content, bin, tmp, windows, clash>>, registry' = registry
  PROVE  InstallInv'
<1>1. /\ updater' = [w \in Updaters |-> updater'[w]] /\ updater'[u] = r
      /\ \A w \in Updaters \ {u} : updater'[w] = updater[w]
  BY DEF InstallInv, FilesOK
<1>2. FilesOK'
  BY <1>1 DEF InstallInv, FilesOK
<1>3. OneReplaces'
  BY <1>1 DEF InstallInv, OneReplaces
<1>4. TmpIsOwn'
  BY <1>1 DEF InstallInv, TmpIsOwn
<1>5. BinaryIsThere'
  BY DEF InstallInv, BinaryIsThere
<1> QED BY <1>2, <1>3, <1>4, <1>5 DEF InstallInv

LEMMA GotoIs ==
  ASSUME FilesOK, NEW u \in Updaters, NEW place, Goto(u, place)
  PROVE  \E r : /\ updater' = [updater EXCEPT ![u] = r] /\ UpdaterOK(r) /\ r.at = place
               /\ r.target = updater[u].target /\ r.file = updater[u].file
<1> DEFINE r == [at |-> place, latest |-> updater[u].latest,
                 target |-> updater[u].target, file |-> updater[u].file]
<1>1. UpdaterOK(updater[u])
  BY DEF FilesOK
<1>2. [updater[u] EXCEPT !.at = place] = r
  BY <1>1 DEF UpdaterOK
<1>3. updater' = [updater EXCEPT ![u] = [updater[u] EXCEPT !.at = place]]
  BY DEF Goto
<1>4. UpdaterOK(r)
  BY DEF UpdaterOK
<1> QED BY <1>2, <1>3, <1>4

LEMMA ExitsIs ==
  ASSUME FilesOK, NEW u \in Updaters, Exits(u)
  PROVE  \E r : updater' = [updater EXCEPT ![u] = r] /\ UpdaterOK(r) /\ r.at = "ended"
<1> DEFINE r == [at |-> "ended", latest |-> 0, target |-> 0, file |-> NoFile]
<1>1. [NotRunning EXCEPT !.at = "ended"] = r
  BY DEF NotRunning
<1>2. updater' = [updater EXCEPT ![u] = r]
  BY <1>1 DEF Exits
<1>3. UpdaterOK(r) /\ r.at = "ended"
  BY DEF UpdaterOK
<1> HIDE DEF r
<1> QED BY <1>2, <1>3

LEMMA QuietGoto ==
  ASSUME InstallInv, NEW u \in Updaters, NEW place, place \notin Replacing, Goto(u, place),
         UNCHANGED <<content, bin, tmp, windows, clash>>, registry' = registry
  PROVE  InstallInv'
BY GotoIs, QuietStep DEF InstallInv

LEMMA QuietExit ==
  ASSUME InstallInv, NEW u \in Updaters, Exits(u),
         UNCHANGED <<content, bin, tmp, windows, clash>>, registry' = registry
  PROVE  InstallInv'
<1>1. "ended" \notin Replacing
  BY DEF Replacing
<1> QED BY <1>1, ExitsIs, QuietStep DEF InstallInv

(* A package manager keeps the binary whole, and no temporary file is it.  *)
LEMMA PackageKeeps ==
  ASSUME InstallInv, NEW u \in Updaters, Installed(registry), Goto(u, "sync"),
         UNCHANGED <<bin, tmp, windows, clash>>, registry' = registry
  PROVE  InstallInv'
<1>0. FilesOK /\ "sync" \notin Replacing
  BY DEF InstallInv, Replacing
<1>1. content' = [content EXCEPT ![bin] = [content[bin] EXCEPT !.of = {registry}]]
  BY DEF Installed
<1>2. /\ content' = [f \in Files |-> content'[f]]
      /\ \A f \in Files \ {bin} : content'[f] = content[f]
      /\ bin \in Files => content'[bin] = [of |-> {registry}, open |-> content[bin].open]
  <2>1. CASE bin \in Files
    <3>0. content[bin] = [of |-> content[bin].of, open |-> content[bin].open]
      BY <2>1, <1>0 DEF FilesOK, FileOK
    <3>1. [content[bin] EXCEPT !.of = {registry}] = [of |-> {registry}, open |-> content[bin].open]
      BY <3>0
    <3> QED BY <2>1, <3>1, <1>0, <1>1 DEF FilesOK
  <2>2. CASE bin \notin Files
    BY <2>2, <1>0, <1>1 DEF FilesOK
  <2> QED BY <2>1, <2>2
<1>3. PICK r : updater' = [updater EXCEPT ![u] = r] /\ UpdaterOK(r) /\ r.at = "sync"
  BY <1>0, GotoIs
<1>4. /\ updater' = [w \in Updaters |-> updater'[w]] /\ updater'[u] = r
      /\ \A w \in Updaters \ {u} : updater'[w] = updater[w]
  BY <1>0, <1>3 DEF FilesOK
<1>5. FilesOK'
  <2>1. \A f \in Files : FileOK(content'[f])
    BY <1>0, <1>2 DEF FilesOK, FileOK
  <2> QED BY <2>1, <1>0, <1>2, <1>3, <1>4 DEF FilesOK
<1>6. OneReplaces'
  BY <1>0, <1>3, <1>4 DEF InstallInv, OneReplaces
<1>7. TmpIsOwn'
  <2>1. tmp /= NoFile => tmp \in Files \ {bin}
    BY <1>0 DEF FilesOK
  <2> QED BY <2>1, <1>0, <1>2, <1>3, <1>4 DEF InstallInv, TmpIsOwn
<1>8. BinaryIsThere'
  <2>1. bin /= NoFile => bin \in Files
    BY <1>0 DEF FilesOK
  <2> QED BY <2>1, <1>2 DEF InstallInv, BinaryIsThere, IsWhole
<1> QED BY <1>5, <1>6, <1>7, <1>8 DEF InstallInv

(* Who opens the temporary file alone finds nobody writing it.             *)
LEMMA OpenKeeps == ASSUME InstallInv, NEW u \in Updaters, OpenTmp(u) PROVE InstallInv'
<1> DEFINE f == FileToWrite
           r == [at |-> "writing", latest |-> updater[u].latest, target |-> updater[u].target, file |-> f]
           c == [of |-> {updater[w].target : w \in Writers(f) \cup {u}}, open |-> Writers(f) \cup {u}]
<1>0. FilesOK /\ UpdaterOK(updater[u]) /\ updater[u].at = "downloaded"
  BY DEF InstallInv, FilesOK, OpenTmp
<1>1. f \in Files /\ f /= bin /\ f /= NoFile
  <2>1. CASE tmp /= NoFile
    BY <2>1, <1>0 DEF FileToWrite, FilesOK
  <2>2. CASE tmp = NoFile
    <3>1. \E g \in Files : Unused(g)
      BY <2>2 DEF OpenTmp, CanWrite
    <3>2. f = CHOOSE g \in Files : Unused(g)
      BY <2>2 DEF FileToWrite
    <3>3. f \in Files /\ Unused(f)
      BY <3>1, <3>2
    <3> QED BY <3>3, FirstFile DEF Unused
  <2> QED BY <2>1, <2>2
<1>2. tmp' = f /\ UNCHANGED <<bin, windows, registry>>
  BY <1>1 DEF OpenTmp, restVars
<1>3. /\ content' = [content EXCEPT ![f].of = {updater[w].target : w \in Writers(f) \cup {u}},
                                   ![f].open = Writers(f) \cup {u}]
      /\ updater' = [updater EXCEPT ![u].file = f, ![u].at = "writing"]
  BY DEF OpenTmp
<1>4. /\ content' = [g \in Files |-> content'[g]] /\ content'[f] = c
      /\ \A g \in Files \ {f} : content'[g] = content[g]
  <2>1. content[f] = [of |-> content[f].of, open |-> content[f].open]
    BY <1>0, <1>1 DEF FilesOK, FileOK
  <2> QED BY <2>1, <1>0, <1>1, <1>3 DEF FilesOK
<1>5. /\ updater' = [w \in Updaters |-> updater'[w]] /\ updater'[u] = r
      /\ \A w \in Updaters \ {u} : updater'[w] = updater[w]
  BY <1>0, <1>3 DEF FilesOK, UpdaterOK
<1>6. clash' = (clash \/ \E w \in Updaters \ {u} : updater[w].at \in Replacing)
  BY DEF OpenTmp
<1>7. ASSUME ~clash' PROVE c = [of |-> {r.target}, open |-> {u}]
  <2>1. Writers(f) \subseteq Updaters
    BY <1>0, <1>1 DEF Writers, FilesOK, FileOK
  <2>2. Writers(f) = {}
    BY <2>1, <1>0, <1>6, <1>7 DEF Writers, Replacing
  <2> QED BY <2>2
<1> HIDE DEF f
<1>8. FilesOK'
  <2>1. FileOK(c) /\ UpdaterOK(r)
    BY <1>0, <1>1 DEF UpdaterOK, FileOK, Writers, FilesOK
  <2> HIDE DEF c, r
  <2>2. \A g \in Files : FileOK(content'[g])
    BY <2>1, <1>0, <1>4 DEF FilesOK
  <2>3. \A w \in Updaters : UpdaterOK(updater'[w])
    BY <2>1, <1>0, <1>5 DEF FilesOK
  <2> QED BY <2>2, <2>3, <1>0, <1>1, <1>2, <1>4, <1>5, <1>6 DEF FilesOK
<1>9. OneReplaces'
  BY <1>5, <1>6 DEF InstallInv, OneReplaces
<1>10. TmpIsOwn'
  <2>1. r.file = f /\ r.at = "writing"
    OBVIOUS
  <2> HIDE DEF c, r
  <2>2. \A w \in Updaters : updater'[w].at \in Replacing /\ ~clash' => w = u
    BY <1>5, <1>6
  <2> QED BY <2>1, <2>2, <1>1, <1>2, <1>4, <1>5, <1>7 DEF TmpIsOwn
<1>11. BinaryIsThere'
  BY <1>0, <1>1, <1>2, <1>4, <1>6 DEF InstallInv, BinaryIsThere, FilesOK
<1> QED BY <1>8, <1>9, <1>10, <1>11 DEF InstallInv

LEMMA CloseKeeps == ASSUME InstallInv, NEW u \in Updaters, CloseTmp(u) PROVE InstallInv'
<1> DEFINE f == updater[u].file
           c == [of |-> content[f].of, open |-> content[f].open \ {u}]
<1>0. FilesOK /\ updater[u].at = "writing" /\ UNCHANGED <<bin, tmp, windows, registry, clash>>
  BY DEF InstallInv, CloseTmp, restVars
<1>1. PICK r : /\ updater' = [updater EXCEPT ![u] = r] /\ UpdaterOK(r) /\ r.at = "written"
               /\ r.target = updater[u].target /\ r.file = f
  BY <1>0, GotoIs DEF CloseTmp
<1>2. /\ updater' = [w \in Updaters |-> updater'[w]] /\ updater'[u] = r
      /\ \A w \in Updaters \ {u} : updater'[w] = updater[w]
  BY <1>0, <1>1 DEF FilesOK
<1>3. /\ content' = [g \in Files |-> content'[g]] /\ \A g \in Files \ {f} : content'[g] = content[g]
      /\ f \in Files => content'[f] = c
  <2>1. content' = [content EXCEPT ![f] = [content[f] EXCEPT !.open = content[f].open \ {u}]]
    BY DEF CloseTmp
  <2>2. CASE f \in Files
    <3>0. content[f] = [of |-> content[f].of, open |-> content[f].open]
      BY <2>2, <1>0 DEF FilesOK, FileOK
    <3>1. [content[f] EXCEPT !.open = content[f].open \ {u}] = c
      BY <3>0
    <3> HIDE DEF f, c
    <3> QED BY <2>1, <2>2, <3>1, <1>0 DEF FilesOK
  <2>3. CASE f \notin Files
    BY <2>1, <2>3, <1>0 DEF FilesOK
  <2> QED BY <2>2, <2>3
<1>4. ~clash => /\ tmp /= NoFile /\ f = tmp /\ content[tmp] = [of |-> {updater[u].target}, open |-> {u}]
                /\ \A w \in Updaters \ {u} : updater[w].at \notin Replacing
  BY <1>0 DEF InstallInv, TmpIsOwn, OneReplaces, Replacing
<1>5. FilesOK'
  <2>1. \A g \in Files : FileOK(content'[g])
    BY <1>0, <1>3 DEF FilesOK, FileOK
  <2> QED BY <2>1, <1>0, <1>1, <1>2, <1>3 DEF FilesOK
<1>6. OneReplaces'
  BY <1>0, <1>2, <1>4 DEF OneReplaces
<1>7. TmpIsOwn'
  <2>1. ~clash => c = [of |-> {r.target}, open |-> {}] /\ tmp \in Files
    <3>1. ~clash => content[f].of = {r.target} /\ content[f].open = {u} /\ tmp \in Files
      BY <1>0, <1>1, <1>4 DEF FilesOK
    <3> QED BY <3>1
  <2> HIDE DEF c, f
  <2>2. "written" /= "writing"
    OBVIOUS
  <2> QED BY <2>1, <2>2, <1>0, <1>1, <1>2, <1>3, <1>4 DEF TmpIsOwn
<1>8. BinaryIsThere'
  BY <1>0, <1>3, <1>4 DEF InstallInv, BinaryIsThere, FilesOK
<1> QED BY <1>5, <1>6, <1>7, <1>8 DEF InstallInv

(* A step of the replacement that only moves the names of the files.       *)
LEMMA MoveKeeps == ASSUME InstallInv, NEW u \in Updaters, MoveOld(u) PROVE InstallInv'
<1>0. FilesOK /\ updater[u].at = "written" /\ UNCHANGED <<content, tmp, windows, registry, clash>>
      /\ windows /\ bin' = NoFile
  BY DEF InstallInv, MoveOld, restVars
<1>1. PICK r : /\ updater' = [updater EXCEPT ![u] = r] /\ UpdaterOK(r) /\ r.at = "moved"
               /\ r.target = updater[u].target /\ r.file = updater[u].file
  BY <1>0, GotoIs DEF MoveOld
<1>2. /\ updater' = [w \in Updaters |-> updater'[w]] /\ updater'[u] = r
      /\ \A w \in Updaters \ {u} : updater'[w] = updater[w]
  BY <1>0, <1>1 DEF FilesOK
<1>3. "written" \in Replacing /\ "moved" /= "writing" /\ "written" /= "writing"
  BY DEF Replacing
<1>4. FilesOK'
  BY <1>0, <1>1, <1>2 DEF FilesOK
<1>5. OneReplaces'
  BY <1>0, <1>2, <1>3 DEF InstallInv, OneReplaces
<1>6. TmpIsOwn'
  BY <1>0, <1>1, <1>2, <1>3 DEF InstallInv, TmpIsOwn
<1>7. BinaryIsThere'
  BY <1>0 DEF BinaryIsThere
<1> QED BY <1>4, <1>5, <1>6, <1>7 DEF InstallInv

LEMMA RenameKeeps == ASSUME InstallInv, NEW u \in Updaters, RenameTmp(u) PROVE InstallInv'
<1>0. FilesOK /\ updater[u].at \in {"written", "moved"} /\ UNCHANGED <<content, windows, registry, clash>>
  BY DEF InstallInv, RenameTmp, restVars
<1>1. CASE tmp = NoFile
  BY <1>0, <1>1, QuietExit DEF RenameTmp
<1>2. CASE tmp /= NoFile
  <2>1. bin' = tmp /\ tmp' = NoFile /\ Goto(u, "libraries")
    BY <1>2 DEF RenameTmp
  <2>2. PICK r : updater' = [updater EXCEPT ![u] = r] /\ UpdaterOK(r) /\ r.at = "libraries"
    BY <2>1, <1>0, GotoIs
  <2>3. /\ updater' = [w \in Updaters |-> updater'[w]] /\ updater'[u] = r
        /\ \A w \in Updaters \ {u} : updater'[w] = updater[w]
    BY <2>2, <1>0 DEF FilesOK
  <2>4. "libraries" \notin Replacing /\ updater[u].at \in Replacing /\ updater[u].at /= "writing"
    BY <1>0 DEF Replacing
  <2>5. ~clash => IsWhole(content[tmp]) /\ \A w \in Updaters \ {u} : updater[w].at \notin Replacing
    <3>0. ~clash => content[tmp] = [of |-> {updater[u].target},
                                    open |-> IF updater[u].at = "writing" THEN {u} ELSE {}]
      BY <2>4 DEF InstallInv, TmpIsOwn
    <3>1. ~clash => content[tmp].of = {updater[u].target} /\ content[tmp].open = {}
      BY <3>0, <2>4
    <3> QED BY <3>1, <2>4 DEF InstallInv, OneReplaces, IsWhole
  <2>6. FilesOK'
    BY <2>1, <2>2, <2>3, <1>0 DEF FilesOK
  <2>7. OneReplaces'
    BY <2>2, <2>3, <2>4, <2>5, <1>0 DEF InstallInv, OneReplaces
  <2>8. TmpIsOwn'
    BY <2>2, <2>3, <2>4, <2>5, <1>0 DEF TmpIsOwn
  <2>9. BinaryIsThere'
    BY <2>1, <2>5, <1>0, <1>2 DEF BinaryIsThere
  <2> QED BY <2>6, <2>7, <2>8, <2>9 DEF InstallInv
<1> QED BY <1>1, <1>2

(* The steps that write no file of the binary.                             *)
LEMMA SmallSteps ==
  ASSUME InstallInv, NEW u \in Updaters,
         \/ CheckVersion(u) \/ Deferred(u) \/ Download(u) \/ WriteLibraries(u) \/ SaveInstallMetadata(u)
         \/ RestartRuntime(u) \/ RestartAfterSync(u) \/ StepFails(u) \/ UpdaterDies(u)
  PROVE  InstallInv'
<1>0. /\ UNCHANGED <<content, bin, tmp, windows, clash>> /\ registry' = registry
      /\ FilesOK /\ UpdaterOK(updater[u])
  BY DEF CheckVersion, Deferred, Download, WriteLibraries, SaveInstallMetadata, RestartRuntime,
         RestartAfterSync, StepFails, UpdaterDies, diskVars, restVars, InstallInv, FilesOK
<1>1. \A p \in {"record", "restart", "sync", "died", "upgrade", "downloaded"} : p \notin Replacing
  BY DEF Replacing
<1>2. CASE Exits(u)
  BY <1>0, <1>2, QuietExit
<1>3. CASE \E p \in {"record", "restart", "sync", "died"} : Goto(u, p)
  BY <1>0, <1>1, <1>3, QuietGoto
<1>4. CASE CheckVersion(u) /\ ~Exits(u)
  <2> DEFINE r == [at |-> "upgrade", latest |-> registry,
                   target |-> updater[u].target, file |-> updater[u].file]
  <2>1. updater' = [updater EXCEPT ![u].latest = registry, ![u].at = "upgrade"]
    BY <1>4 DEF CheckVersion
  <2>2. updater' = [updater EXCEPT ![u] = r]
    <3>1. /\ updater' = [w \in Updaters |-> updater'[w]] /\ updater'[u] = r
          /\ \A w \in Updaters \ {u} : updater'[w] = updater[w]
      BY <2>1, <1>0 DEF UpdaterOK, FilesOK
    <3> HIDE DEF r
    <3> QED BY <3>1, <1>0 DEF FilesOK
  <2>3. UpdaterOK(r) /\ r.at = "upgrade"
    BY DEF UpdaterOK
  <2> HIDE DEF r
  <2> QED BY <2>2, <2>3, <1>0, <1>1, QuietStep
<1>5. CASE Download(u)
  <2> DEFINE r == [at |-> "downloaded", latest |-> updater[u].latest,
                   target |-> registry, file |-> updater[u].file]
  <2>1. updater' = [updater EXCEPT ![u].target = registry, ![u].at = "downloaded"]
    BY <1>5 DEF Download
  <2>2. updater' = [updater EXCEPT ![u] = r]
    <3>1. /\ updater' = [w \in Updaters |-> updater'[w]] /\ updater'[u] = r
          /\ \A w \in Updaters \ {u} : updater'[w] = updater[w]
      BY <2>1, <1>0 DEF UpdaterOK, FilesOK
    <3> HIDE DEF r
    <3> QED BY <3>1, <1>0 DEF FilesOK
  <2>3. UpdaterOK(r) /\ r.at = "downloaded"
    BY DEF UpdaterOK
  <2> HIDE DEF r
  <2> QED BY <2>2, <2>3, <1>0, <1>1, QuietStep
<1>6. UpdaterDies(u) => Goto(u, "died")
  BY DEF UpdaterDies, Goto
<1> QED BY <1>2, <1>3, <1>4, <1>5, <1>6
    DEF Deferred, WriteLibraries, SaveInstallMetadata, RestartRuntime, RestartAfterSync, StepFails

(* The daemon, the registry, the notice and the models are no files of it. *)
LEMMA OtherSteps ==
  ASSUME InstallInv,
         \/ StartRuntime \/ Publish \/ CheckForUpdate
         \/ \E f \in ModelFiles, force \in BOOLEAN : DownloadModel(f, force)
         \/ UNCHANGED installVars
  PROVE  InstallInv'
<1>1. UNCHANGED <<content, bin, tmp, windows, updater, clash>> /\ registry' \in Nat
  BY DEF StartRuntime, Publish, CheckForUpdate, DownloadModel, installVars, diskVars, restVars,
         InstallInv, FilesOK
<1> QED BY <1>1 DEF InstallInv, FilesOK, OneReplaces, TmpIsOwn, BinaryIsThere

LEMMA InstallStep == ASSUME InstallInv, [InstallNext]_installVars PROVE InstallInv'
<1>1. ASSUME NEW u \in Updaters, PackageUpgrade(u) \/ HomebrewUpgrade(u) PROVE InstallInv'
  BY <1>1, PackageKeeps DEF PackageUpgrade, HomebrewUpgrade, restVars
<1> QED BY <1>1, OpenKeeps, CloseKeeps, MoveKeeps, RenameKeeps, SmallSteps, OtherSteps DEF InstallNext

(* However an update ends, the binary is there and whole: only two updates *)
(* at once, and on Windows the moment between two renames, can lose it.    *)
THEOREM BinaryStaysWhole == InstallSpec => []BinaryIsWhole
<1>1. ASSUME InstallInv PROVE BinaryIsWhole
  <2>1. ASSUME NEW v, bin /= NoFile, content[bin].open = {}, content[bin].of = {v} PROVE Whole(bin)
    BY <2>1, FS_Singleton DEF Whole
  <2> QED BY <1>1, <2>1 DEF InstallInv, BinaryIsThere, IsWhole, BinaryIsWhole
<1> QED BY <1>1, InstallStarts, InstallStep, PTL DEF InstallSpec

-----------------------------------------------------------------------------
(* Saved links: callers work on copies without a lock, and the invariant   *)
(* says what each copy may still believe.                                  *)


IsLink(r) == r \in [words : {r.words}, tags : {r.tags}, image : {r.image}]
IsCall(c) ==
  /\ c \in [at : {c.at}, op : {c.op}, id : {c.id}, copy : {c.copy}, seen : {c.seen}, import : {c.import},
            new : {c.new}, found : {c.found}]
  /\ IsLink(c.copy)
TypeOK ==
  /\ links = [l \in DOMAIN links |-> links[l]] /\ \A l \in DOMAIN links : IsLink(links[l])
  /\ images = [m \in DOMAIN images |-> images[m]]
  /\ caller = [w \in Callers |-> caller[w]] /\ \A w \in Callers : IsCall(caller[w])

Local(m) == m \notin {NoImage, Web}
Found(m, l) == Local(m) => m \in DOMAIN images /\ images[m] = l
OwnedBy(m, l) == Local(m) /\ m \in DOMAIN images => images[m] = l

(* A link nobody tore has its image, and the image bears its name; what a  *)
(* link or a caller's copy names belongs to that link, if it is still there.*)
LinksFind == \A l \in DOMAIN links : l \notin torn => Found(links[l].image, l)
NamesAreOwn ==
  /\ \A l \in DOMAIN links : OwnedBy(links[l].image, l)
  /\ \A w \in Callers : OwnedBy(caller[w].copy.image, caller[w].id) /\ OwnedBy(caller[w].seen.image, caller[w].id)

(* Only a call that imported an image knows it until it writes the link,   *)
(* and finds it unless the link is torn.                                   *)
Imported(w) == caller[w].at = "save" /\ caller[w].new # NoImage
ImportsArePrivate ==
  \A w \in Callers : Imported(w) =>
    /\ Local(caller[w].new) /\ caller[w].copy.image = caller[w].new
    /\ caller[w].id \in torn \/ Found(caller[w].new, caller[w].id)
    /\ caller[w].seen.image # caller[w].new
    /\ \A l \in DOMAIN links : links[l].image # caller[w].new
    /\ \A v \in Callers \ {w} : caller[w].new \notin {caller[v].new, caller[v].copy.image, caller[v].seen.image}

(* A call that brings no image keeps the one it read.                      *)
CopiesKeepImages ==
  \A w \in Callers : 
    /\ caller[w].at \notin {"save", "old"} => caller[w].new = NoImage
    /\ caller[w].at = "fetch" => caller[w].op = "add"
    /\ caller[w].op = "add" => caller[w].seen.image = NoImage
    /\ caller[w].at = "list" => caller[w].copy.image = NoImage /\ caller[w].seen.image = NoImage
    /\ caller[w].at \in {"fetch", "import", "save"} /\ caller[w].new = NoImage =>
      IF caller[w].op = "update" THEN caller[w].copy.image = caller[w].seen.image
      ELSE ~Local(caller[w].copy.image)

(* The image a call is about to remove is not that of its link any more.   *)
ReplacedIsFree ==
  \A w \in Callers : caller[w].at = "old" /\ Local(caller[w].seen.image) =>
    caller[w].id \in torn \/ caller[w].id \notin DOMAIN links
      \/ links[caller[w].id].image # caller[w].seen.image

Inv == TypeOK /\ LinksFind /\ NamesAreOwn /\ ImportsArePrivate /\ CopiesKeepImages /\ ReplacedIsFree


LEMMA CallerOf ==
  ASSUME TypeOK, NEW w \in Callers, NEW c, Goes(w, c), IsCall(c)
  PROVE  /\ caller' = [v \in Callers |-> caller'[v]] /\ \A v \in Callers : IsCall(caller'[v])
         /\ caller'[w] = c /\ \A v \in Callers \ {w} : caller'[v] = caller[v]
<1>1. caller' = [v \in Callers |-> IF v = w THEN c ELSE caller[v]]
  BY DEF TypeOK, Goes
<1>2. caller'[w] = c /\ \A v \in Callers \ {w} : caller'[v] = caller[v]
  BY <1>1
<1> QED BY <1>1, <1>2 DEF TypeOK

Quiet(w, c) ==
  /\ Goes(w, c) /\ UNCHANGED <<links, images, torn>>
  /\ IsCall(c) /\ c.at # "old" /\ (c.at = "fetch" => c.op = "add") /\ c.new = NoImage /\ c.copy.image = NoImage /\ c.seen.image = NoImage

LEMMA QuietKeeps == ASSUME Inv, NEW w \in Callers, NEW c, Quiet(w, c) PROVE Inv'
<1>1. /\ caller' = [v \in Callers |-> caller'[v]] /\ \A v \in Callers : IsCall(caller'[v])
      /\ caller'[w] = c /\ \A v \in Callers \ {w} : caller'[v] = caller[v]
  BY CallerOf DEF Quiet, Inv
<1>2. UNCHANGED <<links, images, torn>>
  BY DEF Quiet
<1>3. TypeOK'
  BY <1>1, <1>2 DEF Inv, TypeOK
<1>4. LinksFind'
  BY <1>2 DEF Inv, LinksFind, Found
<1>5. NamesAreOwn'
  BY <1>1, <1>2 DEF Inv, NamesAreOwn, OwnedBy, Quiet, Local
<1>6. ImportsArePrivate'
  BY <1>1, <1>2 DEF Inv, ImportsArePrivate, Imported, Found, Quiet, Local
<1>7. CopiesKeepImages'
  BY <1>1, <1>2 DEF Inv, CopiesKeepImages, Quiet, Local
<1>8. ReplacedIsFree'
  BY <1>1, <1>2 DEF Inv, ReplacedIsFree, Quiet, Local
<1> QED BY <1>3, <1>4, <1>5, <1>6, <1>7, <1>8 DEF Inv

LEMMA FreeIsQuiet ==
  /\ IsCall(Free) /\ Free.at = "idle" /\ Free.op = "" /\ Free.new = NoImage
  /\ Free.copy = NoLink /\ Free.seen = NoLink /\ IsLink(NoLink) /\ NoLink.image = NoImage
<1>1. IsLink(NoLink) /\ NoLink.image = NoImage
  BY DEF NoLink, IsLink
<1>2. Free.at = "idle" /\ Free.op = "" /\ Free.new = NoImage /\ Free.copy = NoLink /\ Free.seen = NoLink
  BY DEF Free
<1>3. IsCall(Free)
  BY <1>1 DEF Free, IsCall
<1> QED BY <1>1, <1>2, <1>3

(* Calls that touch neither the links nor their images.                    *)
LEMMA OtherCallsKeep ==
  ASSUME Inv, NEW w \in Callers,
         \/ ValidateRefuses(w) \/ List(w) \/ Search(w) \/ ShowLinks(w) \/ AddMemo(w) \/ UpdateMemo(w)
         \/ AddWithTags(w) \/ SaveMemo(w) \/ DeleteMemo(w) \/ SaveClassifier(w) \/ WriteClassifier(w) \/ Die(w)
  PROVE  Inv'
<1>1. CASE ValidateRefuses(w) \/ Die(w) \/ ShowLinks(w) \/ SaveMemo(w) \/ WriteClassifier(w) \/ AddMemo(w) \/ DeleteMemo(w)
  <2>1. Quiet(w, Free)
    BY <1>1, FreeIsQuiet DEF Quiet, ValidateRefuses, Die, ShowLinks, SaveMemo, WriteClassifier, AddMemo, DeleteMemo,
                             Ends, Starts
  <2> QED BY <2>1, QuietKeeps
<1>2. CASE UpdateMemo(w) \/ SaveClassifier(w)
  <2> DEFINE at == IF UpdateMemo(w) THEN "save" ELSE "write"
             op == IF UpdateMemo(w) THEN "memo" ELSE "settings"
             c == [Free EXCEPT !.at = at, !.op = op]
  <2>1. Goes(w, c) /\ UNCHANGED <<links, images, torn>>
    BY <1>2 DEF UpdateMemo, SaveClassifier, Starts
  <2>2. at \notin {"old", "fetch"} /\ op # "add"
    OBVIOUS
  <2>3. Quiet(w, c)
    BY <2>1, <2>2, FreeIsQuiet DEF Quiet, IsCall
  <2> QED BY <2>3, QuietKeeps
<1>3. CASE List(w)
  <2> DEFINE c == [Free EXCEPT !.at = "list", !.op = "search", !.found = SetToSeq(DOMAIN links)]
  <2>1. Quiet(w, c)
    BY <1>3, FreeIsQuiet DEF Quiet, List, Starts, IsCall
  <2> QED BY <2>1, QuietKeeps
<1>4. CASE Search(w)
  <2>1. CASE Ends(w)
    BY <1>4, <2>1, FreeIsQuiet, QuietKeeps DEF Quiet, Search, Ends
  <2>2. CASE ~Ends(w)
    <3>1. PICK r : Goes(w, [caller[w] EXCEPT !.at = "found", !.found = r])
      BY <1>4, <2>2 DEF Search
    <3> DEFINE c == [caller[w] EXCEPT !.at = "found", !.found = r]
    <3>2. caller[w].at = "list" /\ UNCHANGED <<links, images, torn>>
      BY <1>4 DEF Search
    <3>3. caller[w].new = NoImage /\ caller[w].copy.image = NoImage /\ caller[w].seen.image = NoImage
      BY <3>2 DEF Inv, CopiesKeepImages
    <3>4. Quiet(w, c)
      BY <3>1, <3>2, <3>3 DEF Quiet, Inv, TypeOK, IsCall
    <3> QED BY <3>4, QuietKeeps
  <2> QED BY <2>1, <2>2
<1>5. CASE AddWithTags(w)
  <2>1. PICK in : Goes(w, [Free EXCEPT !.at = "fetch", !.op = "add", !.import = in.import,
                           !.copy = [NoLink EXCEPT !.words = {"url"}, !.tags = in.tags]])
    BY <1>5 DEF AddWithTags, Starts
  <2> DEFINE l == [NoLink EXCEPT !.words = {"url"}, !.tags = in.tags]
             c == [Free EXCEPT !.at = "fetch", !.op = "add", !.import = in.import, !.copy = l]
  <2>2. IsLink(l) /\ l.image = NoImage
    BY DEF NoLink, IsLink
  <2>3. /\ IsCall(c) /\ c.at = "fetch" /\ c.op = "add" /\ c.new = NoImage
        /\ c.copy = l /\ c.seen.image = NoImage
    BY <2>2, FreeIsQuiet DEF IsCall
  <2>4. UNCHANGED <<links, images, torn>>
    BY <1>5 DEF AddWithTags
  <2>5. Quiet(w, c)
    BY <2>1, <2>2, <2>3, <2>4 DEF Quiet
  <2> QED BY <2>5, QuietKeeps
<1> QED BY <1>1, <1>2, <1>3, <1>4, <1>5
(* The page has answered: the copy has an ID now, and no image of its own. *)
LEMMA FetchKeeps == ASSUME Inv, NEW w \in Callers, NEW id, FetchMetadata(w, id) PROVE Inv'
<1>1. caller[w].at = "fetch" /\ UNCHANGED <<links, images, torn>>
  BY DEF FetchMetadata
<1>2. PICK page, tags : page \in Fetched /\ Goes(w, [caller[w] EXCEPT !.at = AfterRead(caller[w].import), !.id = id,
                !.copy = [words |-> caller[w].copy.words \union page.words, image |-> page.image,
                          tags |-> IF caller[w].copy.tags = "user" THEN "user" ELSE tags]])
  BY DEF FetchMetadata
<1> DEFINE l == [words |-> caller[w].copy.words \union page.words, image |-> page.image,
                 tags |-> IF caller[w].copy.tags = "user" THEN "user" ELSE tags]
           c == [caller[w] EXCEPT !.at = AfterRead(caller[w].import), !.id = id, !.copy = l]
<1>3. IsLink(l) /\ l.image = page.image /\ ~Local(page.image)
  BY <1>2 DEF IsLink, Fetched, Pages, Local, NoLink
<1>4. caller[w].op = "add" /\ caller[w].new = NoImage /\ caller[w].seen.image = NoImage
  BY <1>1 DEF Inv, CopiesKeepImages
<1>5. /\ IsCall(c) /\ c.at \in {"import", "save"} /\ c.op = "add" /\ c.new = NoImage /\ c.copy = l
      /\ c.seen.image = NoImage
  BY <1>3, <1>4 DEF Inv, TypeOK, IsCall, AfterRead
<1>6. TypeOK /\ Goes(w, c)
  BY <1>2 DEF Inv
<1> HIDE DEF l, c
<1>7. /\ caller' = [v \in Callers |-> caller'[v]] /\ \A v \in Callers : IsCall(caller'[v])
      /\ caller'[w] = c /\ \A v \in Callers \ {w} : caller'[v] = caller[v]
  BY <1>5, <1>6, CallerOf
<1>8. TypeOK' /\ LinksFind'
  BY <1>1, <1>7 DEF Inv, TypeOK, LinksFind, Found
<1>9. NamesAreOwn'
  BY <1>1, <1>3, <1>5, <1>7 DEF Inv, NamesAreOwn, OwnedBy, Local
<1>10. ImportsArePrivate'
  BY <1>1, <1>3, <1>5, <1>7 DEF Inv, ImportsArePrivate, Imported, Found, Local
<1>11. CopiesKeepImages'
  BY <1>1, <1>3, <1>5, <1>7 DEF Inv, CopiesKeepImages, Local
<1>12. ReplacedIsFree'
  BY <1>1, <1>5, <1>7 DEF Inv, ReplacedIsFree, Local
<1> QED BY <1>8, <1>9, <1>10, <1>11, <1>12 DEF Inv

(* A link is read: the caller knows its image, and so it is not private.   *)
LEMMA GetKeeps == ASSUME Inv, NEW w \in Callers, Get(w) PROVE Inv'
<1>1. UNCHANGED <<links, images, torn>>
  BY DEF Get
<1>2. PICK in \in LinkUpdate \union UpdateRequest \union HandleLinkUpdate, l \in DOMAIN links, note \in SUBSET {"note"} :
        Starts(w, [Free EXCEPT !.at = AfterRead(in.import), !.op = "update", !.id = l, !.import = in.import,
                  !.seen = links[l], !.copy = UpdateWithTags(links[l], (links[l].words \ {"note"}) \union note, in.tags)])
  BY DEF Get
<1> DEFINE k == UpdateWithTags(links[l], (links[l].words \ {"note"}) \union note, in.tags)
           c == [Free EXCEPT !.at = AfterRead(in.import), !.op = "update", !.id = l, !.import = in.import,
                  !.seen = links[l], !.copy = k]
<1>3. IsLink(k) /\ k.image = links[l].image
  BY DEF Inv, TypeOK, IsLink, UpdateWithTags
<1>4. /\ IsCall(c) /\ c.at \in {"import", "save"} /\ c.op = "update" /\ c.id = l /\ c.new = NoImage
      /\ c.copy = k /\ c.seen = links[l]
  BY <1>3, FreeIsQuiet DEF IsCall, AfterRead
<1>5. TypeOK /\ Goes(w, c)
  BY <1>2 DEF Inv, Starts
<1> HIDE DEF k, c
<1>6. /\ caller' = [v \in Callers |-> caller'[v]] /\ \A v \in Callers : IsCall(caller'[v])
      /\ caller'[w] = c /\ \A v \in Callers \ {w} : caller'[v] = caller[v]
  BY <1>4, <1>5, CallerOf
<1>7. TypeOK' /\ LinksFind'
  BY <1>1, <1>6 DEF Inv, TypeOK, LinksFind, Found
<1>8. NamesAreOwn'
  BY <1>1, <1>3, <1>4, <1>6 DEF Inv, NamesAreOwn, OwnedBy
<1>9. ImportsArePrivate'
  BY <1>1, <1>3, <1>4, <1>6 DEF Inv, ImportsArePrivate, Imported, Found, Local
<1>10. CopiesKeepImages'
  BY <1>1, <1>3, <1>4, <1>6 DEF Inv, CopiesKeepImages
<1>11. ReplacedIsFree'
  BY <1>1, <1>4, <1>6 DEF Inv, ReplacedIsFree
<1> QED BY <1>7, <1>8, <1>9, <1>10, <1>11 DEF Inv

(* A new name is known to nobody else.                                     *)
LEMMA ImportKeeps == ASSUME Inv, NEW w \in Callers, ImportImage(w) PROVE Inv'
<1>1. caller[w].at = "import" /\ UNCHANGED <<links, torn>>
  BY DEF ImportImage
<1>2. CASE Ends(w) /\ UNCHANGED images
  <2>1. Quiet(w, Free)
    BY <1>1, <1>2, FreeIsQuiet DEF Quiet, Ends
  <2> QED BY <2>1, QuietKeeps
<1>3. CASE ~(Ends(w) /\ UNCHANGED images)
  <2>1. PICK m \in NewImage :
          /\ images' = [i \in DOMAIN images \union {m} |-> IF i = m THEN caller[w].id ELSE images[i]]
          /\ Goes(w, [caller[w] EXCEPT !.at = "save", !.new = m, !.copy.image = m])
    BY <1>3 DEF ImportImage
  <2> DEFINE c == [caller[w] EXCEPT !.at = "save", !.new = m, !.copy.image = m]
  <2>2. /\ Local(m) /\ m \notin DOMAIN images /\ \A l \in DOMAIN links : links[l].image # m
        /\ \A v \in Callers : m \notin {caller[v].new, caller[v].copy.image, caller[v].seen.image}
    <3>1. m \in Nat /\ m # 0 /\ m \notin Known
      BY DEF NewImage
    <3> QED BY <3>1 DEF Known, Local, NoImage, Web
  <2>3. /\ IsCall(c) /\ c.at = "save" /\ c.op = caller[w].op /\ c.id = caller[w].id /\ c.new = m
        /\ c.copy.image = m /\ c.seen = caller[w].seen
    BY DEF Inv, TypeOK, IsCall, IsLink
  <2>4. TypeOK /\ Goes(w, c)
    BY <2>1 DEF Inv
  <2> HIDE DEF c
  <2>5. /\ caller' = [v \in Callers |-> caller'[v]] /\ \A v \in Callers : IsCall(caller'[v])
        /\ caller'[w] = c /\ \A v \in Callers \ {w} : caller'[v] = caller[v]
    BY <2>3, <2>4, CallerOf
  <2>6. /\ DOMAIN images' = DOMAIN images \union {m} /\ images'[m] = caller[w].id
        /\ \A i \in DOMAIN images : images'[i] = images[i]
        /\ images' = [i \in DOMAIN images' |-> images'[i]]
    BY <2>1, <2>2
  <2>7. TypeOK'
    BY <1>1, <2>5, <2>6 DEF Inv, TypeOK
  <2>8. LinksFind'
    BY <1>1, <2>6 DEF Inv, LinksFind, Found
  <2>9. NamesAreOwn'
    BY <1>1, <2>2, <2>3, <2>5, <2>6 DEF Inv, NamesAreOwn, OwnedBy
  <2>10. ImportsArePrivate'
    BY <1>1, <2>2, <2>3, <2>5, <2>6 DEF Inv, ImportsArePrivate, Imported, Found
  <2>11. CopiesKeepImages'
    BY <1>1, <2>2, <2>3, <2>5 DEF Inv, CopiesKeepImages, Local
  <2>12. ReplacedIsFree'
    BY <1>1, <2>3, <2>5 DEF Inv, ReplacedIsFree
  <2> QED BY <2>7, <2>8, <2>9, <2>10, <2>11, <2>12 DEF Inv
<1> QED BY <1>2, <1>3

(* The link is written.                                                    *)
LEMMA SaveKeeps == ASSUME Inv, NEW w \in Callers, SaveLink(w) PROVE Inv'
<1> DEFINE c == caller[w]
           k == IF Replaced(c) = {} THEN Free ELSE [c EXCEPT !.at = "old"]
<1>1. /\ c.at = "save" /\ c.op \in {"add", "update"} /\ UNCHANGED images
      /\ links' = [i \in DOMAIN links \union {c.id} |-> IF i = c.id THEN c.copy ELSE links[i]]
      /\ torn' = IF Overwrites(c) THEN torn \union {c.id} ELSE torn
      /\ Goes(w, k)
  BY DEF SaveLink
<1>2. /\ IsCall(c) /\ IsCall(k) /\ k.at \in {"idle", "old"} /\ TypeOK
      /\ k.at = "old" => k.new = c.new /\ c.new # NoImage /\ k.copy = c.copy /\ k.seen = c.seen /\ k.id = c.id /\ k.op = c.op
      /\ k.at = "idle" => k.new = NoImage /\ k.copy.image = NoImage /\ k.seen.image = NoImage /\ k.op # "add"
  BY FreeIsQuiet DEF Inv, TypeOK, IsCall, Replaced
<1>3. /\ DOMAIN links' = DOMAIN links \union {c.id} /\ links'[c.id] = c.copy
      /\ \A l \in DOMAIN links \ {c.id} : links'[l] = links[l]
      /\ links' = [l \in DOMAIN links' |-> links'[l]]
  BY <1>1
<1>4. torn \subseteq torn' /\ (c.id \notin torn' => ~Overwrites(c))
  BY <1>1
<1>5. /\ Inv /\ c = caller[w]
      /\ c.new # NoImage => /\ Local(c.new) /\ c.copy.image = c.new
                            /\ c.id \in torn \/ Found(c.new, c.id)
                            /\ c.seen.image # c.new
                            /\ \A l \in DOMAIN links : links[l].image # c.new
                            /\ \A v \in Callers \ {w} : c.new \notin {caller[v].new, caller[v].copy.image, caller[v].seen.image}
      /\ c.new = NoImage => IF c.op = "update" THEN c.copy.image = c.seen.image ELSE ~Local(c.copy.image)
      /\ c.op = "add" => c.seen.image = NoImage
      /\ OwnedBy(c.copy.image, c.id) /\ OwnedBy(c.seen.image, c.id)
  BY <1>1 DEF Inv, ImportsArePrivate, Imported, CopiesKeepImages, NamesAreOwn
<1>6. Goes(w, k)
  BY <1>1
<1> HIDE DEF c, k
<1>7. /\ caller' = [v \in Callers |-> caller'[v]] /\ \A v \in Callers : IsCall(caller'[v])
      /\ caller'[w] = k /\ \A v \in Callers \ {w} : caller'[v] = caller[v]
  BY <1>2, <1>6, CallerOf
<1>8. TypeOK'
  BY <1>1, <1>2, <1>3, <1>7 DEF TypeOK, IsCall
<1>9. LinksFind'
  <2>1. ASSUME NEW l \in DOMAIN links', l \notin torn', l # c.id PROVE Found(links'[l].image, l)
    <3>1. l \in DOMAIN links /\ l \notin torn /\ links'[l] = links[l]
      BY <1>3, <1>4, <2>1
    <3> QED BY <1>5, <3>1 DEF Inv, LinksFind
  <2>2. ASSUME c.id \notin torn' PROVE Found(c.copy.image, c.id)
    <3>1. CASE c.new # NoImage
      BY <1>4, <1>5, <2>2, <3>1
    <3>2. CASE c.new = NoImage /\ c.op = "update"
      <4>1. c.id \in DOMAIN links /\ links[c.id] = c.seen /\ c.id \notin torn
        BY <1>4, <2>2, <3>2 DEF Overwrites, Stored
      <4> QED BY <1>5, <3>2, <4>1 DEF Inv, LinksFind
    <3>3. CASE c.new = NoImage /\ c.op # "update"
      BY <1>5, <3>3 DEF Found
    <3> QED BY <3>1, <3>2, <3>3
  <2>3. \A l \in DOMAIN links' : l \notin torn' => Found(links'[l].image, l)
    BY <1>3, <2>1, <2>2
  <2> QED BY <1>1, <2>3 DEF LinksFind, Found
<1>10. NamesAreOwn'
  <2>1. ASSUME NEW l \in DOMAIN links' PROVE OwnedBy(links'[l].image, l)
    BY <1>3, <1>5 DEF Inv, NamesAreOwn
  <2>2. ASSUME NEW v \in Callers
        PROVE  OwnedBy(caller'[v].copy.image, caller'[v].id) /\ OwnedBy(caller'[v].seen.image, caller'[v].id)
    <3>1. CASE v # w
      BY <1>5, <1>7, <3>1 DEF Inv, NamesAreOwn
    <3>2. CASE v = w /\ k.at = "old"
      BY <1>2, <1>5, <1>7, <3>2
    <3>3. CASE v = w /\ k.at = "idle"
      BY <1>2, <1>7, <3>3 DEF OwnedBy, Local
    <3> QED BY <1>2, <3>1, <3>2, <3>3
  <2> QED BY <1>1, <2>1, <2>2 DEF NamesAreOwn, OwnedBy
<1>11. ImportsArePrivate'
  <2>1. ASSUME NEW v \in Callers, caller'[v].at = "save", caller'[v].new # NoImage
        PROVE  /\ Local(caller'[v].new) /\ caller'[v].copy.image = caller'[v].new
               /\ caller'[v].id \in torn' \/ Found(caller'[v].new, caller'[v].id)
               /\ caller'[v].seen.image # caller'[v].new
               /\ \A l \in DOMAIN links' : links'[l].image # caller'[v].new
               /\ \A u \in Callers \ {v} : caller'[v].new \notin {caller'[u].new, caller'[u].copy.image, caller'[u].seen.image}
    <3>1. v # w /\ caller'[v] = caller[v]
      BY <1>2, <1>7, <2>1
    <3>2. /\ Local(caller[v].new) /\ caller[v].copy.image = caller[v].new
          /\ caller[v].id \in torn \/ Found(caller[v].new, caller[v].id)
          /\ caller[v].seen.image # caller[v].new
          /\ \A l \in DOMAIN links : links[l].image # caller[v].new
          /\ \A u \in Callers \ {v} : caller[v].new \notin {caller[u].new, caller[u].copy.image, caller[u].seen.image}
      BY <1>5, <2>1, <3>1 DEF Inv, ImportsArePrivate, Imported
    <3>3. caller[v].new \notin {c.new, c.copy.image, c.seen.image}
      BY <1>5, <3>1, <3>2
    <3>4. \A l \in DOMAIN links' : links'[l].image # caller[v].new
      BY <1>3, <3>2, <3>3
    <3>5. \A u \in Callers \ {v} : caller[v].new \notin {caller'[u].new, caller'[u].copy.image, caller'[u].seen.image}
      BY <1>2, <1>7, <3>2, <3>3 DEF Local
    <3> QED BY <1>4, <3>1, <3>2, <3>4, <3>5
  <2> QED BY <1>1, <2>1 DEF ImportsArePrivate, Imported, Found
<1>12. CopiesKeepImages'
  BY <1>2, <1>5, <1>7 DEF Inv, CopiesKeepImages
<1>13. ReplacedIsFree'
  <2> SUFFICES ASSUME NEW v \in Callers, caller'[v].at = "old", Local(caller'[v].seen.image),
                      caller'[v].id \notin torn', caller'[v].id \in DOMAIN links'
               PROVE  links'[caller'[v].id].image # caller'[v].seen.image
    BY DEF ReplacedIsFree
  <2>1. CASE v = w
    BY <1>2, <1>3, <1>5, <1>7, <2>1
  <2>2. CASE v # w
    <3>1. caller'[v] = caller[v] /\ caller[v].id \notin torn
      BY <1>4, <1>7, <2>2
    <3>2. CASE caller[v].id # c.id
      BY <1>3, <3>1, <3>2 DEF Inv, ReplacedIsFree
    <3>3. CASE caller[v].id = c.id
      <4>1. c.copy.image # caller[v].seen.image
        <5>1. CASE c.new # NoImage
          BY <1>5, <2>2, <5>1
        <5>2. CASE c.new = NoImage /\ c.op = "update"
          <6>1. c.id \in DOMAIN links /\ links[c.id] = c.seen
            BY <1>4, <3>1, <3>3, <5>2 DEF Overwrites, Stored
          <6> QED BY <1>5, <3>1, <3>3, <5>2, <6>1 DEF Inv, ReplacedIsFree
        <5>3. CASE c.new = NoImage /\ c.op # "update"
          BY <1>5, <3>1, <5>3
        <5> QED BY <5>1, <5>2, <5>3
      <4> QED BY <1>3, <3>1, <3>3, <4>1
    <3> QED BY <3>2, <3>3
  <2> QED BY <2>1, <2>2
<1> QED BY <1>8, <1>9, <1>10, <1>11, <1>12, <1>13 DEF Inv

(* Images go that no link may be looking for.                              *)
Spares(ms, w) ==
  /\ \A l \in DOMAIN links : l \notin torn' /\ Local(links[l].image) => links[l].image \notin ms
  /\ \A v \in Callers \ {w} : Imported(v) /\ caller[v].id \notin torn' => caller[v].new \notin ms
LEMMA RemovalKeeps ==
  ASSUME Inv, NEW w \in Callers, NEW k, NEW ms, images' = Without(ms), links' = links, torn \subseteq torn', Spares(ms, w),
         Goes(w, k), IsCall(k), k.at \notin {"save", "old", "fetch", "list", "import"}, k.new = NoImage,
         k.op = "add" => k.seen.image = NoImage, OwnedBy(k.copy.image, k.id), OwnedBy(k.seen.image, k.id),
         \A v \in Callers \ {w} : Imported(v) => caller[v].new \notin {k.new, k.copy.image, k.seen.image}
  PROVE  Inv'
<1>1. /\ caller' = [v \in Callers |-> caller'[v]] /\ \A v \in Callers : IsCall(caller'[v])
      /\ caller'[w] = k /\ \A v \in Callers \ {w} : caller'[v] = caller[v]
  BY CallerOf DEF Inv
<1>2. /\ DOMAIN images' = DOMAIN images \ ms /\ \A m \in DOMAIN images' : images'[m] = images[m]
      /\ images' = [m \in DOMAIN images' |-> images'[m]]
  BY DEF Without
<1>3. TypeOK'
  BY <1>1, <1>2 DEF Inv, TypeOK
<1>4. LinksFind'
  BY <1>2 DEF Inv, LinksFind, Found, Spares
<1>5. NamesAreOwn'
  <2>1. \A l \in DOMAIN links' : OwnedBy(links'[l].image, l)
    BY DEF Inv, NamesAreOwn
  <2>2. \A v \in Callers : OwnedBy(caller'[v].copy.image, caller'[v].id) /\ OwnedBy(caller'[v].seen.image, caller'[v].id)
    BY <1>1 DEF Inv, NamesAreOwn
  <2> QED BY <1>2, <2>1, <2>2 DEF NamesAreOwn, OwnedBy
<1>6. ImportsArePrivate'
  <2>1. ASSUME NEW v \in Callers, Imported(v)'
        PROVE  /\ v # w /\ Imported(v) /\ caller'[v] = caller[v]
               /\ caller[v].id \in torn' \/ (caller[v].new \in DOMAIN images' /\ images'[caller[v].new] = caller[v].id)
    BY <1>1, <1>2, <2>1 DEF Inv, ImportsArePrivate, Imported, Found, Spares
  <2>2. ASSUME NEW v \in Callers, Imported(v)'
        PROVE  \A u \in Callers \ {v} : caller[v].new \notin {caller'[u].new, caller'[u].copy.image, caller'[u].seen.image}
    <3>1. v # w /\ Imported(v)
      BY <2>1, <2>2
    <3> QED BY <1>1, <3>1 DEF Inv, ImportsArePrivate
  <2> QED BY <2>1, <2>2 DEF Inv, ImportsArePrivate, Found
<1>7. CopiesKeepImages' /\ ReplacedIsFree'
  BY <1>1 DEF Inv, CopiesKeepImages, ReplacedIsFree
<1> QED BY <1>3, <1>4, <1>5, <1>6, <1>7 DEF Inv

LEMMA FreeTakes ==
  ASSUME Inv, NEW w \in Callers
  PROVE  /\ IsCall(Free) /\ Free.at \notin {"save", "old", "fetch", "list", "import"} /\ Free.new = NoImage /\ Free.op # "add"
         /\ OwnedBy(Free.copy.image, Free.id) /\ OwnedBy(Free.seen.image, Free.id)
         /\ \A v \in Callers \ {w} : Imported(v) => caller[v].new \notin {Free.new, Free.copy.image, Free.seen.image}
  BY FreeIsQuiet DEF Inv, ImportsArePrivate, OwnedBy, Local

LEMMA SaveFailsKeeps == ASSUME Inv, NEW w \in Callers, SaveFails(w) PROVE Inv'
<1>1. /\ images' = Without({caller[w].new}) /\ Goes(w, Free) /\ caller[w].at = "save" /\ links' = links /\ torn' = torn
  BY DEF SaveFails, Ends
<1>2. Spares({caller[w].new}, w)
  <2>1. CASE caller[w].new = NoImage
    BY <2>1 DEF Spares, Local, Inv, ImportsArePrivate
  <2>2. CASE caller[w].new # NoImage
    BY <1>1, <2>2 DEF Spares, Inv, ImportsArePrivate, Imported
  <2> QED BY <2>1, <2>2
<1> QED BY <1>1, <1>2, FreeTakes, RemovalKeeps

LEMMA RemoveImageKeeps == ASSUME Inv, NEW w \in Callers, RemoveImage(w) PROVE Inv'
<1>1. /\ images' = Without(Replaced(caller[w])) /\ Goes(w, Free) /\ caller[w].at = "old" /\ links' = links /\ torn' = torn
  BY DEF RemoveImage, Ends
<1>2. Spares(Replaced(caller[w]), w)
  <2>1. ASSUME NEW m \in Replaced(caller[w]) PROVE m = caller[w].seen.image /\ Local(m)
    BY DEF Replaced, Local
  <2>2. ASSUME NEW l \in DOMAIN links, l \notin torn, Local(links[l].image) PROVE links[l].image # caller[w].seen.image
    <3>1. links[l].image \in DOMAIN images /\ images[links[l].image] = l
      BY <2>2 DEF Inv, LinksFind, Found
    <3>2. CASE l = caller[w].id
      BY <1>1, <2>2, <3>2 DEF Inv, ReplacedIsFree
    <3>3. CASE l # caller[w].id
      BY <2>2, <3>1, <3>3 DEF Inv, NamesAreOwn, OwnedBy
    <3> QED BY <3>2, <3>3
  <2>3. ASSUME NEW v \in Callers \ {w}, Imported(v) PROVE caller[v].new # caller[w].seen.image
    BY <2>3 DEF Inv, ImportsArePrivate
  <2> QED BY <1>1, <2>1, <2>2, <2>3 DEF Spares
<1> QED BY <1>1, <1>2, FreeTakes, RemovalKeeps

(* Only images of the link that is being deleted go, and the link is torn. *)
LEMMA DeleteImageKeeps == ASSUME Inv, NEW w \in Callers, DeleteImage(w) PROVE Inv'
<1> DEFINE c == caller[w]
           k == [c EXCEPT !.at = IF c.at = "named" THEN "prefix" ELSE "json"]
           ms == IF c.at = "named" THEN {c.seen.image} ELSE {m \in DOMAIN images : images[m] = c.id}
<1>1. /\ images' = Without(ms) /\ Goes(w, k) /\ c.at \in {"named", "prefix"} /\ links' = links /\ torn' = torn \union {c.id}
  BY DEF DeleteImage
<1>2. /\ IsCall(k) /\ k.at \in {"prefix", "json"} /\ k.new = c.new /\ k.copy = c.copy /\ k.seen = c.seen /\ k.id = c.id /\ k.op = c.op
  BY DEF Inv, TypeOK, IsCall
<1>3. /\ c.new = NoImage /\ OwnedBy(c.copy.image, c.id) /\ OwnedBy(c.seen.image, c.id)
      /\ c.op = "add" => c.seen.image = NoImage
      /\ \A v \in Callers \ {w} : Imported(v) => caller[v].new \notin {c.new, c.copy.image, c.seen.image}
  BY <1>1 DEF Inv, CopiesKeepImages, NamesAreOwn, ImportsArePrivate
<1>4. ASSUME NEW m \in DOMAIN images, images[m] # c.id, Local(m) PROVE m \notin ms
  BY <1>3, <1>4 DEF OwnedBy
<1>5. Spares(ms, w)
  <2>1. ASSUME NEW l \in DOMAIN links, l \notin torn', Local(links[l].image) PROVE links[l].image \notin ms
    BY <1>1, <1>4, <2>1 DEF Inv, LinksFind, Found
  <2>2. ASSUME NEW v \in Callers \ {w}, Imported(v), caller[v].id \notin torn' PROVE caller[v].new \notin ms
    BY <1>1, <1>4, <2>2 DEF Inv, ImportsArePrivate, Found
  <2> QED BY <2>1, <2>2 DEF Spares
<1> HIDE DEF k, ms, c
<1> QED BY <1>1, <1>2, <1>3, <1>5, RemovalKeeps

LEMMA DeleteKeeps == ASSUME Inv, NEW w \in Callers, Delete(w) PROVE Inv'
<1>1. PICK l \in DOMAIN links : Goes(w, [Free EXCEPT !.at = "named", !.op = "delete", !.id = l, !.seen = links[l]])
  BY DEF Delete, Starts
<1> DEFINE k == [Free EXCEPT !.at = "named", !.op = "delete", !.id = l, !.seen = links[l]]
<1>2. UNCHANGED <<links, images, torn>>
  BY DEF Delete
<1>3. IsCall(k) /\ k.at = "named" /\ k.op = "delete" /\ k.id = l /\ k.new = NoImage /\ k.copy.image = NoImage /\ k.seen = links[l]
  BY FreeIsQuiet DEF IsCall
<1>4. images' = Without({}) /\ Spares({}, w)
  BY <1>2 DEF Without, Spares, Inv, TypeOK
<1>5. OwnedBy(NoImage, l) /\ OwnedBy(links[l].image, l)
  BY DEF Inv, NamesAreOwn, OwnedBy, Local
<1>6. \A v \in Callers \ {w} : Imported(v) => caller[v].new \notin {NoImage, links[l].image}
  BY DEF Inv, ImportsArePrivate, Local
<1>7. Goes(w, k)
  BY <1>1
<1> HIDE DEF k
<1> QED BY <1>2, <1>3, <1>4, <1>5, <1>6, <1>7, RemovalKeeps

LEMMA DeleteJSONKeeps == ASSUME Inv, NEW w \in Callers, DeleteJSON(w) PROVE Inv'
<1>1. /\ links' = [i \in DOMAIN links \ {caller[w].id} |-> links[i]] /\ Goes(w, Free) /\ UNCHANGED <<images, torn>>
  BY DEF DeleteJSON, Ends
<1>2. /\ DOMAIN links' \subseteq DOMAIN links /\ \A l \in DOMAIN links' : links'[l] = links[l]
      /\ links' = [l \in DOMAIN links' |-> links'[l]]
  BY <1>1
<1>3. /\ caller' = [v \in Callers |-> caller'[v]] /\ \A v \in Callers : IsCall(caller'[v])
      /\ caller'[w] = Free /\ \A v \in Callers \ {w} : caller'[v] = caller[v]
  BY <1>1, FreeIsQuiet, CallerOf DEF Inv
<1>4. TypeOK' /\ LinksFind'
  BY <1>1, <1>2, <1>3 DEF Inv, TypeOK, LinksFind, Found
<1>5. NamesAreOwn'
  BY <1>1, <1>2, <1>3, FreeTakes DEF Inv, NamesAreOwn, OwnedBy
<1>6. /\ caller'[w].at = "idle" /\ caller'[w].op = "" /\ caller'[w].new = NoImage
      /\ caller'[w].copy.image = NoImage /\ caller'[w].seen.image = NoImage
  BY <1>3, FreeIsQuiet
<1>7. ImportsArePrivate'
  <2>1. ASSUME NEW v \in Callers, Imported(v)' PROVE v # w /\ Imported(v) /\ caller'[v] = caller[v] /\ Local(caller[v].new)
    BY <1>3, <1>6, <2>1 DEF Imported, Inv, ImportsArePrivate
  <2>2. ASSUME NEW v \in Callers, Imported(v)'
        PROVE  \A u \in Callers \ {v} : caller[v].new \notin {caller'[u].new, caller'[u].copy.image, caller'[u].seen.image}
    BY <1>3, <1>6, <2>1, <2>2 DEF Inv, ImportsArePrivate, Local
  <2> QED BY <1>1, <1>2, <2>1, <2>2 DEF Inv, ImportsArePrivate, Found
<1>8. CopiesKeepImages'
  BY <1>3, <1>6 DEF Inv, CopiesKeepImages
<1>9. ReplacedIsFree'
  BY <1>1, <1>2, <1>3, <1>6 DEF Inv, ReplacedIsFree
<1> QED BY <1>4, <1>5, <1>7, <1>8, <1>9 DEF Inv

(* In every reachable state the copies, the names and the links agree as   *)
(* Inv says, whatever the callers do to the same link at the same time.    *)
THEOREM Invariance == LinkSpec => []Inv
<1>1. LinkInit => Inv
  <2> SUFFICES ASSUME LinkInit PROVE Inv
    OBVIOUS
  <2>1. /\ caller = [w \in Callers |-> Free] /\ images = [m \in {links[1].image} \ {NoImage, Web} |-> 1] /\ torn = {}
    BY DEF LinkInit
  <2>2. PICK m \in {NoImage, Web, 1} : links = [i \in {1} |-> [words |-> {"title"}, tags |-> "user", image |-> m]]
    BY DEF LinkInit
  <2>3. DOMAIN links = {1} /\ links[1].image = m /\ IsLink(links[1]) /\ links = [l \in DOMAIN links |-> links[l]]
    BY <2>2 DEF IsLink
  <2>4. \A w \in Callers : caller[w] = Free
    BY <2>1
  <2>5. TypeOK
    BY <2>1, <2>3, <2>4, FreeIsQuiet DEF TypeOK
  <2>6. LinksFind /\ NamesAreOwn
    BY <2>1, <2>3, <2>4, FreeIsQuiet DEF LinksFind, NamesAreOwn, Found, OwnedBy, Local
  <2>7. ImportsArePrivate /\ CopiesKeepImages /\ ReplacedIsFree
    BY <2>4, FreeIsQuiet DEF ImportsArePrivate, Imported, CopiesKeepImages, ReplacedIsFree
  <2> QED BY <2>5, <2>6, <2>7 DEF Inv
<1>2. Inv /\ [LinkNext]_linkVars => Inv'
  <2> SUFFICES ASSUME Inv, [LinkNext]_linkVars PROVE Inv'
    OBVIOUS
  <2>1. CASE UNCHANGED linkVars
    BY <2>1 DEF linkVars, Inv, TypeOK, LinksFind, Found, NamesAreOwn, OwnedBy, ImportsArePrivate, Imported,
                CopiesKeepImages, ReplacedIsFree
  <2>2. CASE LinkNext
    BY <2>2, OtherCallsKeep, FetchKeeps, GetKeeps, ImportKeeps, SaveKeeps, SaveFailsKeeps, RemoveImageKeeps,
       DeleteImageKeeps, DeleteKeeps, DeleteJSONKeeps DEF LinkNext
  <2> QED BY <2>1, <2>2
<1> QED BY <1>1, <1>2, PTL DEF LinkSpec

(* A link that names an imported image finds it, for any number of callers *)
(* and links, as long as nobody tore it (service.go UpdateWithTags).       *)
THEOREM LinksFindImages == LinkSpec => []ImagesFollowLinks
<1>1. Inv => ImagesFollowLinks
  BY DEF Inv, LinksFind, Found, Local, ImagesFollowLinks
<1> QED BY <1>1, Invariance, PTL

-----------------------------------------------------------------------------
(* The servers.  No two listen on the same port; the file is of the server *)
(* that wrote it last; a server that is alone has nobody beside it.        *)
Stages == {"off", "bind", "bound", "ready", "written", "serving", "closing", "cleaned", "left", "ended",
            "killed"}
Early == {"off", "bind", "bound", "ready"}

ServerTypes ==
  /\ stage \in [Servers -> Stages] /\ port \in [Servers -> Nat \ {0}]
  /\ wrote \in [Servers -> BOOLEAN] /\ alone \in [Servers -> BOOLEAN]
PortsApart == \A s, t \in Servers : s # t /\ Listens(s) /\ Listens(t) => port[s] # port[t]
AloneIsAlone ==
  \A s \in Servers : alone[s] /\ Alive(s) =>
    /\ \A t \in Servers \ {s} : ~Alive(t)
    /\ wrote[s] /\ stage[s] \in {"written", "serving"} => author = s
ServersOK ==
  /\ ServerTypes /\ PortsApart /\ PortFileIsCleaned /\ AloneIsAlone
  /\ \A s \in Servers : wrote[s] => stage[s] \notin Early

(* The tabs.                                                               *)
Event == Notices \cup {StatusEvent}
TabsOK ==
  /\ viewer \in [Tabs -> Servers \cup {NoServer}] /\ pending \in [Tabs -> Seq(Event)]
  /\ shown \in [Tabs -> SUBSET Event] /\ missed \in [Tabs -> SUBSET Event]
Got(t) == shown[t] \cup missed[t] \cup ToSet(pending[t])

(* The notices.  A tab that is due streams from a server that serves, and  *)
(* the notice is on its way to that server or has reached the tab.         *)
NoticeTypes ==
  /\ notice \in [Notices -> {"unsent", "read", "sent", "relayed", "dropped"}]
  /\ target \in [Notices -> Nat] /\ sentTo \in [Notices -> Servers \cup {NoServer}]
  /\ due \in [Notices -> SUBSET Tabs]
  /\ \A n \in Notices : notice[n] = "sent" => sentTo[n] \in Servers
Heading(n, t) ==
  /\ viewer[t] \in Servers /\ stage[viewer[t]] = "serving" /\ notice[n] # "unsent"
  /\ notice[n] = "read" => target[n] = port[viewer[t]]
  /\ notice[n] = "sent" => sentTo[n] = viewer[t]
  /\ notice[n] = "relayed" => n \in Got(t)
DueAreReached == \A n \in Notices : \A t \in due[n] : Heading(n, t)

BrowserInv == ServersOK /\ TabsOK /\ NoticeTypes /\ DueAreReached

LEMMA InvReaches == ASSUME BrowserInv PROVE ChangesReachTabs
BY DEF BrowserInv, ServersOK, ServerTypes, AloneIsAlone, Alive, DueAreReached, Heading, Got,
       ChangesReachTabs, LoneServerIsNamed, NoticesArrive

LEMMA BrowserStarts == ASSUME BrowserInit PROVE BrowserInv
<1>1. ServersOK
  BY DEF BrowserInit, ServersOK, ServerTypes, PortsApart, AloneIsAlone, Alive, Listens, PortFileIsCleaned,
         Stages, Early, NoPort
<1>2. TabsOK
  BY DEF BrowserInit, TabsOK, Event
<1>3. NoticeTypes /\ DueAreReached
  BY DEF BrowserInit, NoticeTypes, DueAreReached, NoPort
<1> QED
  BY <1>1, <1>2, <1>3 DEF BrowserInv

(* A server moves on, and does not begin to listen or come to life.        *)
LEMMA MovesOn ==
  ASSUME ServersOK, NEW s \in Servers, NEW x \in Stages, stage' = [stage EXCEPT ![s] = x],
         x \in {"bound", "ready", "written", "serving"} => Listens(s),
         stage[s] \notin {"off", "ended", "killed"}, x # "off", x \in Early => stage[s] \in Early,
         UNCHANGED <<port, alone>>
  PROVE  /\ stage' \in [Servers -> Stages] /\ stage'[s] = x
         /\ \A t \in Servers \ {s} : stage'[t] = stage[t]
         /\ PortsApart'
         /\ \A t \in Servers : Alive(t)' => Alive(t)
<1>1. stage' \in [Servers -> Stages] /\ stage'[s] = x /\ \A t \in Servers \ {s} : stage'[t] = stage[t]
  BY DEF ServersOK, ServerTypes
<1>2. \A t \in Servers : (Alive(t)' => Alive(t)) /\ (Listens(t)' => Listens(t))
  BY <1>1 DEF Alive, Listens
<1>3. PortsApart'
  BY <1>2 DEF ServersOK, PortsApart
<1> QED
  BY <1>1, <1>2, <1>3

LEMMA RunKeeps == ASSUME ServersOK, NEW s \in Servers, RunBrowser(s) PROVE ServersOK'
<1>1. /\ stage[s] = "off" /\ stage' = [stage EXCEPT ![s] = "bind"]
      /\ UNCHANGED <<port, portFile, author, wrote>>
  BY DEF RunBrowser
<1>2. /\ stage' \in [Servers -> Stages] /\ stage'[s] = "bind"
      /\ \A t \in Servers \ {s} : stage'[t] = stage[t]
  BY <1>1 DEF ServersOK, ServerTypes, Stages
<1>3. /\ alone' \in [Servers -> BOOLEAN]
      /\ alone'[s] => \A t \in Servers : ~Alive(t)
      /\ \A t \in Servers \ {s} : alone'[t] => alone[t] /\ ~Alive(t)
  <2> DEFINE nobody == \A t \in Servers : ~Alive(t)
             other(t) == alone[t] /\ ~Alive(t)
  <2>1. nobody \in BOOLEAN /\ \A t \in Servers : other(t) \in BOOLEAN
    OBVIOUS
  <2>2. alone' = [t \in Servers |-> IF t = s THEN nobody ELSE other(t)]
    BY DEF RunBrowser
  <2>3. alone' \in [Servers -> BOOLEAN] /\ alone'[s] = nobody /\ \A t \in Servers \ {s} : alone'[t] = other(t)
    <3> HIDE DEF nobody, other
    <3> QED BY <2>1, <2>2
  <2> QED
    BY <2>3
<1>4. PortsApart' /\ PortFileIsCleaned'
  BY <1>1, <1>2 DEF ServersOK, PortsApart, PortFileIsCleaned, Listens
<1>5. AloneIsAlone'
  BY <1>2, <1>3 DEF AloneIsAlone, Alive
<1> QED
  BY <1>1, <1>2, <1>3, <1>4, <1>5 DEF ServersOK, ServerTypes, Early

LEMMA TryKeeps == ASSUME ServersOK, NEW s \in Servers, TryPort(s) PROVE ServersOK'
<1>1. stage[s] = "bind" /\ UNCHANGED <<portFile, author, wrote, alone>>
  BY DEF TryPort
<1>2. CASE /\ \A t \in Servers : ~(Listens(t) /\ port[t] = port[s])
           /\ stage' = [stage EXCEPT ![s] = "bound"] /\ UNCHANGED port
  <2>1. /\ stage' \in [Servers -> Stages] /\ stage'[s] = "bound"
        /\ \A t \in Servers \ {s} : stage'[t] = stage[t]
    BY <1>2 DEF ServersOK, ServerTypes, Stages
  <2>2. PortsApart' /\ PortFileIsCleaned'
    BY <1>1, <1>2, <2>1 DEF ServersOK, PortsApart, PortFileIsCleaned, Listens
  <2>3. AloneIsAlone'
    BY <1>1, <2>1 DEF ServersOK, AloneIsAlone, Alive, Early
  <2> QED
    BY <1>1, <1>2, <2>1, <2>2, <2>3 DEF ServersOK, ServerTypes, Early
<1>3. CASE port' = [port EXCEPT ![s] = port[s] + 1] /\ UNCHANGED stage
  <2>1. port' \in [Servers -> Nat \ {0}] /\ \A t \in Servers \ {s} : port'[t] = port[t]
    BY <1>3 DEF ServersOK, ServerTypes
  <2>2. PortsApart' /\ PortFileIsCleaned' /\ AloneIsAlone'
    BY <1>1, <1>3, <2>1 DEF ServersOK, PortsApart, PortFileIsCleaned, AloneIsAlone, Alive, Listens
  <2> QED
    BY <1>1, <1>3, <2>1, <2>2 DEF ServersOK, ServerTypes
<1>4. CASE stage' = [stage EXCEPT ![s] = "ended"] /\ UNCHANGED port
  <2>1. /\ stage' \in [Servers -> Stages] /\ stage'[s] = "ended"
        /\ \A t \in Servers \ {s} : stage'[t] = stage[t]
    BY <1>4 DEF ServersOK, ServerTypes, Stages
  <2>2. PortsApart' /\ PortFileIsCleaned'
    BY <1>1, <1>4, <2>1 DEF ServersOK, PortsApart, PortFileIsCleaned, Listens
  <2>3. AloneIsAlone'
    BY <1>1, <2>1 DEF ServersOK, AloneIsAlone, Alive, Early
  <2> QED
    BY <1>1, <1>4, <2>1, <2>2, <2>3 DEF ServersOK, ServerTypes, Early
<1> QED
  BY <1>2, <1>3, <1>4 DEF TryPort

LEMMA NewServerKeeps == ASSUME ServersOK, NEW s \in Servers, NewServer(s) PROVE ServersOK'
<1>1. /\ stage[s] = "bound" /\ stage' = [stage EXCEPT ![s] = "ready"]
      /\ UNCHANGED <<port, portFile, author, wrote, alone>>
  BY DEF NewServer
<1>2. /\ stage' \in [Servers -> Stages] /\ stage'[s] = "ready" /\ PortsApart'
      /\ \A t \in Servers \ {s} : stage'[t] = stage[t]
  BY <1>1, MovesOn DEF Listens, Early, Stages
<1>3. PortFileIsCleaned' /\ AloneIsAlone'
  BY <1>1, <1>2 DEF ServersOK, PortFileIsCleaned, AloneIsAlone, Alive, Early
<1> QED
  BY <1>1, <1>2, <1>3 DEF ServersOK, ServerTypes, Early

LEMMA WriteKeeps == ASSUME ServersOK, NEW s \in Servers, WritePortFile(s) \/ WriteFails(s) PROVE ServersOK'
<1>1. /\ stage[s] = "ready" /\ stage' = [stage EXCEPT ![s] = "written"] /\ UNCHANGED <<port, alone>>
  BY DEF WritePortFile, WriteFails
<1>2. /\ stage' \in [Servers -> Stages] /\ stage'[s] = "written" /\ PortsApart'
      /\ \A t \in Servers \ {s} : stage'[t] = stage[t]
  BY <1>1, MovesOn DEF Listens, Early, Stages
<1>3. CASE WritePortFile(s)
  <2>1. portFile' = port[s] /\ author' = s /\ wrote' = [wrote EXCEPT ![s] = TRUE]
    BY <1>3 DEF WritePortFile
  <2>2. wrote' \in [Servers -> BOOLEAN] /\ \A t \in Servers \ {s} : wrote'[t] = wrote[t]
    BY <2>1 DEF ServersOK, ServerTypes
  <2>3. PortFileIsCleaned' /\ AloneIsAlone'
    BY <1>1, <1>2, <2>1, <2>2 DEF ServersOK, PortFileIsCleaned, AloneIsAlone, Alive
  <2> QED
    BY <1>1, <1>2, <2>2, <2>3 DEF ServersOK, ServerTypes, Early
<1>4. CASE WriteFails(s)
  <2>1. UNCHANGED <<portFile, author, wrote>>
    BY <1>4 DEF WriteFails
  <2>2. PortFileIsCleaned' /\ AloneIsAlone'
    BY <1>1, <1>2, <2>1 DEF ServersOK, PortFileIsCleaned, AloneIsAlone, Alive, Early
  <2> QED
    BY <1>1, <1>2, <2>1, <2>2 DEF ServersOK, ServerTypes, Early
<1> QED
  BY <1>3, <1>4

LEMMA ServeKeeps == ASSUME ServersOK, NEW s \in Servers, Serve(s) \/ Shutdown(s) PROVE ServersOK'
<1>1. PICK x \in {"serving", "closing"} : stage' = [stage EXCEPT ![s] = x]
  BY DEF Serve, Shutdown
<1>2. stage[s] \in {"written", "serving"} /\ UNCHANGED <<port, portFile, author, wrote, alone>>
  BY DEF Serve, Shutdown
<1>3. /\ stage' \in [Servers -> Stages] /\ stage'[s] = x /\ PortsApart'
      /\ \A t \in Servers \ {s} : stage'[t] = stage[t]
  BY <1>1, <1>2, MovesOn DEF Listens, Early, Stages
<1>4. PortFileIsCleaned' /\ AloneIsAlone'
  BY <1>2, <1>3 DEF ServersOK, PortFileIsCleaned, AloneIsAlone, Alive
<1> QED
  BY <1>2, <1>3, <1>4 DEF ServersOK, ServerTypes, Early

LEMMA CleanupKeeps == ASSUME ServersOK, NEW s \in Servers, CleanupPortFile(s) PROVE ServersOK'
<1>1. /\ stage[s] \in {"serving", "closing"} /\ stage' = [stage EXCEPT ![s] = "cleaned"]
      /\ portFile' = NoPort /\ UNCHANGED <<port, wrote, alone>>
  BY DEF CleanupPortFile
<1>2. /\ stage' \in [Servers -> Stages] /\ stage'[s] = "cleaned" /\ PortsApart'
      /\ \A t \in Servers \ {s} : stage'[t] = stage[t]
  BY <1>1, MovesOn DEF Early, Stages
<1>3. PortFileIsCleaned' /\ AloneIsAlone'
  BY <1>1, <1>2 DEF ServersOK, PortFileIsCleaned, AloneIsAlone, Alive
<1> QED
  BY <1>1, <1>2, <1>3 DEF ServersOK, ServerTypes, Early

LEMMA LeaveKeeps == ASSUME ServersOK, NEW s \in Servers, RemoveFails(s) PROVE ServersOK'
<1>1. /\ stage[s] \in {"serving", "closing"} /\ stage' = [stage EXCEPT ![s] = "left"]
      /\ UNCHANGED <<port, portFile, author, wrote, alone>>
  BY DEF RemoveFails
<1>2. /\ stage' \in [Servers -> Stages] /\ stage'[s] = "left" /\ PortsApart'
      /\ \A t \in Servers \ {s} : stage'[t] = stage[t]
  BY <1>1, MovesOn DEF Early, Stages
<1>3. PortFileIsCleaned' /\ AloneIsAlone'
  BY <1>1, <1>2 DEF ServersOK, PortFileIsCleaned, AloneIsAlone, Alive
<1> QED
  BY <1>1, <1>2, <1>3 DEF ServersOK, ServerTypes, Early

LEMMA EndKeeps == ASSUME ServersOK, NEW s \in Servers, ServerEnds(s) \/ ServerKilled(s) PROVE ServersOK'
<1>1. PICK x \in {"ended", "killed"} : stage' = [stage EXCEPT ![s] = x] /\ (x = "ended" => stage[s] = "cleaned")
  BY DEF ServerEnds, ServerKilled
<1>2. Alive(s) /\ UNCHANGED <<port, portFile, author, wrote, alone>>
  BY DEF ServerEnds, ServerKilled, Alive
<1>3. /\ stage' \in [Servers -> Stages] /\ stage'[s] = x /\ PortsApart'
      /\ \A t \in Servers \ {s} : stage'[t] = stage[t]
  BY <1>1, <1>2, MovesOn DEF Alive, Early, Stages
<1>4. PortFileIsCleaned' /\ AloneIsAlone'
  BY <1>1, <1>2, <1>3 DEF ServersOK, PortFileIsCleaned, AloneIsAlone, Alive
<1> QED
  BY <1>2, <1>3, <1>4 DEF ServersOK, ServerTypes, Early

LEMMA ServersRest == ASSUME ServersOK, UNCHANGED serverVars PROVE ServersOK'
BY DEF serverVars, ServersOK, ServerTypes, PortsApart, PortFileIsCleaned, AloneIsAlone, Alive, Listens

LEMMA ServersStep == ASSUME ServersOK, [BrowserNext]_browserVars PROVE ServersOK'
<1>1. CASE UNCHANGED browserVars
  BY <1>1, ServersRest DEF browserVars
<1>2. CASE \E s \in Servers : MonitorTick(s) \/ \E t \in Tabs : Subscribe(t, s)
  BY <1>2, ServersRest DEF MonitorTick, Subscribe
<1>3. CASE \E t \in Tabs : Unsubscribe(t) \/ ShowEvent(t)
  BY <1>3, ServersRest DEF Unsubscribe, ShowEvent
<1>4. CASE \E n \in Notices : ReadServerPort(n) \/ Connect(n) \/ Refused(n) \/ Relay(n) \/ RelayFails(n)
  BY <1>4, ServersRest DEF ReadServerPort, Connect, Refused, Relay, RelayFails
<1>5. CASE ServiceFlips
  BY <1>5, ServersRest DEF ServiceFlips
<1> QED
  BY <1>1, <1>2, <1>3, <1>4, <1>5, RunKeeps, TryKeeps, NewServerKeeps, WriteKeeps, ServeKeeps, CleanupKeeps, LeaveKeeps,
     EndKeeps DEF BrowserNext

(* Tabs.  What is in a channel stays there or is shown.                    *)
LEMMA InAppended ==
  ASSUME NEW q \in Seq(Event), NEW e \in Event
  PROVE  ToSet(Append(q, e)) = ToSet(q) \cup {e} /\ Append(q, e) \in Seq(Event)
<1> DEFINE r == Append(q, e)
<1>1. /\ r \in Seq(Event) /\ Len(q) \in Nat /\ DOMAIN q = 1..Len(q) /\ DOMAIN r = 1..(Len(q) + 1)
      /\ r[Len(q) + 1] = e /\ \A i \in 1..Len(q) : r[i] = q[i]
  OBVIOUS
<1> HIDE DEF r
<1>2. ASSUME NEW i \in DOMAIN r PROVE r[i] \in ToSet(q) \cup {e}
  BY <1>1 DEF ToSet
<1>3. e \in ToSet(r) /\ \A i \in DOMAIN q : q[i] \in ToSet(r)
  BY <1>1 DEF ToSet
<1>4. ToSet(r) = ToSet(q) \cup {e}
  BY <1>2, <1>3 DEF ToSet
<1> QED
  BY <1>1, <1>4 DEF r

LEMMA InShown ==
  ASSUME NEW q \in Seq(Event), q # <<>>
  PROVE  ToSet(q) \subseteq {Head(q)} \cup ToSet(Tail(q)) /\ Tail(q) \in Seq(Event) /\ Head(q) \in Event
<1>1. Len(q) \in Nat /\ Len(q) > 0 /\ Tail(q) \in Seq(Event) /\ Len(Tail(q)) = Len(q) - 1 /\ Head(q) = q[1]
  OBVIOUS
<1>2. \A i \in 1..(Len(q) - 1) : Tail(q)[i] = q[i + 1]
  OBVIOUS
<1>3. ASSUME NEW i \in DOMAIN q PROVE q[i] \in {Head(q)} \cup ToSet(Tail(q))
  <2>1. CASE i = 1
    BY <1>1, <2>1
  <2>2. CASE i # 1
    <3>1. i - 1 \in 1..(Len(q) - 1) /\ Tail(q)[i - 1] = q[i] /\ i - 1 \in DOMAIN Tail(q)
      BY <1>1, <1>2, <2>2
    <3> QED
      BY <3>1 DEF ToSet
  <2> QED
    BY <2>1, <2>2
<1> QED
  BY <1>1, <1>3 DEF ToSet

LEMMA BroadcastTells ==
  ASSUME TabsOK, NEW s, NEW e \in Event, Broadcast(s, e), UNCHANGED <<viewer, shown>>
  PROVE  /\ TabsOK'
         /\ \A t \in Tabs : Got(t) \subseteq Got(t)' /\ (viewer[t] = s => e \in Got(t)')
<1> DEFINE now(t) == viewer[t] = s /\ HasRoom(t)
           late(t) == viewer[t] = s /\ ~HasRoom(t)
<1>1. /\ pending' = [t \in Tabs |-> IF now(t) THEN Append(pending[t], e) ELSE pending[t]]
      /\ missed' = [t \in Tabs |-> IF late(t) THEN missed[t] \cup {e} ELSE missed[t]]
  BY DEF Broadcast, TabsOf
<1>2. \A t \in Tabs : viewer[t] = s => now(t) \/ late(t)
  OBVIOUS
<1> HIDE DEF now, late
<1>3. ASSUME NEW t \in Tabs
      PROVE  /\ pending'[t] \in Seq(Event) /\ missed'[t] \in SUBSET Event
             /\ Got(t) \subseteq Got(t)' /\ (viewer[t] = s => e \in Got(t)')
  <2>1. pending[t] \in Seq(Event) /\ missed[t] \in SUBSET Event
    BY DEF TabsOK
  <2>2. /\ pending'[t] = IF now(t) THEN Append(pending[t], e) ELSE pending[t]
        /\ missed'[t] = IF late(t) THEN missed[t] \cup {e} ELSE missed[t]
    BY <1>1
  <2>3. ToSet(Append(pending[t], e)) = ToSet(pending[t]) \cup {e} /\ Append(pending[t], e) \in Seq(Event)
    BY <2>1, InAppended
  <2>4. /\ pending'[t] \in Seq(Event) /\ ToSet(pending[t]) \subseteq ToSet(pending'[t])
        /\ now(t) => e \in ToSet(pending'[t])
    BY <2>1, <2>2, <2>3
  <2> QED
    BY <1>2, <2>1, <2>2, <2>4 DEF Got
<1> QED
  BY <1>1, <1>3 DEF TabsOK

LEMMA ShowTells ==
  ASSUME TabsOK, NEW u \in Tabs, ShowEvent(u)
  PROVE  TabsOK' /\ \A t \in Tabs : Got(t) \subseteq Got(t)'
<1>1. /\ pending[u] # <<>> /\ pending[u] \in Seq(Event) /\ UNCHANGED <<viewer, missed>>
      /\ shown' = [shown EXCEPT ![u] = shown[u] \cup {Head(pending[u])}]
      /\ pending' = [pending EXCEPT ![u] = Tail(pending[u])]
  BY DEF ShowEvent, TabsOK
<1>2. /\ ToSet(pending[u]) \subseteq {Head(pending[u])} \cup ToSet(Tail(pending[u]))
      /\ Tail(pending[u]) \in Seq(Event) /\ Head(pending[u]) \in Event
  BY <1>1, InShown
<1>3. TabsOK'
  BY <1>1, <1>2 DEF TabsOK
<1>4. ASSUME NEW t \in Tabs PROVE Got(t) \subseteq Got(t)'
  <2>1. CASE t = u
    BY <1>1, <1>2, <2>1 DEF TabsOK, Got
  <2>2. CASE t # u
    BY <1>1, <2>2 DEF TabsOK, Got
  <2> QED
    BY <2>1, <2>2
<1> QED
  BY <1>3, <1>4

LEMMA DisconnectTells ==
  ASSUME TabsOK, NEW tabs, Disconnect(tabs)
  PROVE  /\ TabsOK'
         /\ \A t \in Tabs \ tabs : viewer'[t] = viewer[t] /\ Got(t)' = Got(t)
<1>1. <<>> \in Seq(Event)
  OBVIOUS
<1>2. TabsOK'
  BY <1>1 DEF TabsOK, Disconnect
<1> QED
  BY <1>2 DEF Disconnect, Got

(* Notices.  A step that moves no notice keeps its promise when the tabs   *)
(* it leaves due keep their server and what they got.                      *)
LEMMA DueKept ==
  ASSUME NoticeTypes, DueAreReached, UNCHANGED <<notice, target, sentTo>>, due' \in [Notices -> SUBSET Tabs],
         \A n \in Notices : due'[n] \subseteq due[n],
         \A n \in Notices : \A t \in due'[n] :
           /\ viewer'[t] = viewer[t] /\ stage'[viewer[t]] = "serving"
           /\ port'[viewer[t]] = port[viewer[t]] /\ Got(t) \subseteq Got(t)'
  PROVE  NoticeTypes' /\ DueAreReached'
<1>1. NoticeTypes'
  BY DEF NoticeTypes
<1>2. ASSUME NEW n \in Notices, NEW t \in due'[n] PROVE Heading(n, t)'
  <2>1. Heading(n, t)
    BY DEF DueAreReached
  <2>2. /\ viewer'[t] = viewer[t] /\ stage'[viewer[t]] = "serving"
        /\ port'[viewer[t]] = port[viewer[t]] /\ Got(t) \subseteq Got(t)'
    OBVIOUS
  <2>3. n \in Got(t) => n \in Got(t)'
    BY <2>2
  <2> QED
    BY <2>1, <2>2, <2>3 DEF Heading
<1> QED
  BY <1>1, <1>2 DEF DueAreReached

LEMMA Excused ==
  ASSUME NoticeTypes, NEW tabs, Excuse(tabs)
  PROVE  /\ due' \in [Notices -> SUBSET Tabs]
         /\ \A n \in Notices : due'[n] = due[n] \ tabs
BY DEF NoticeTypes, Excuse

(* Servers that do not serve before or after the step.                     *)
LEMMA QuietServer ==
  ASSUME BrowserInv, NEW s \in Servers, stage[s] # "serving",
         \A t \in Servers \ {s} : stage'[t] = stage[t] /\ port'[t] = port[t],
         UNCHANGED <<tabVars, noticeVars>>
  PROVE  TabsOK' /\ NoticeTypes' /\ DueAreReached'
<1>1. TabsOK' /\ \A t \in Tabs : Got(t)' = Got(t)
  BY DEF BrowserInv, tabVars, TabsOK, Got
<1>2. ASSUME NEW n \in Notices, NEW t \in due'[n]
      PROVE  /\ viewer'[t] = viewer[t] /\ stage'[viewer[t]] = "serving"
             /\ port'[viewer[t]] = port[viewer[t]] /\ Got(t) \subseteq Got(t)'
  <2>1. t \in due[n] /\ t \in Tabs /\ viewer[t] \in Servers /\ stage[viewer[t]] = "serving"
    BY DEF noticeVars, BrowserInv, NoticeTypes, DueAreReached, Heading
  <2> QED
    BY <1>1, <2>1 DEF tabVars
<1> QED
  BY <1>1, <1>2, DueKept DEF BrowserInv, noticeVars, NoticeTypes

LEMMA StartsQuietly ==
  ASSUME BrowserInv, NEW s \in Servers,
         RunBrowser(s) \/ TryPort(s) \/ NewServer(s) \/ WritePortFile(s) \/ WriteFails(s) \/ Serve(s)
  PROVE  TabsOK' /\ NoticeTypes' /\ DueAreReached'
<1>1. stage[s] # "serving" /\ UNCHANGED <<tabVars, noticeVars>>
  BY DEF RunBrowser, TryPort, NewServer, WritePortFile, WriteFails, Serve
<1>2. \A t \in Servers \ {s} : stage'[t] = stage[t] /\ port'[t] = port[t]
  BY DEF RunBrowser, TryPort, NewServer, WritePortFile, WriteFails, Serve, BrowserInv, ServersOK, ServerTypes
<1> QED
  BY <1>1, <1>2, QuietServer

(* A server that stops excuses its tabs.                                   *)
LEMMA StopsOpenly ==
  ASSUME BrowserInv, NEW s \in Servers, Shutdown(s) \/ CleanupPortFile(s) \/ RemoveFails(s)
  PROVE  TabsOK' /\ NoticeTypes' /\ DueAreReached'
<1>1. Excuse(TabsOf(s)) /\ UNCHANGED <<port, tabVars, notice, target, sentTo>>
  BY DEF Shutdown, CleanupPortFile, RemoveFails
<1>2. \A t \in Servers \ {s} : stage'[t] = stage[t]
  BY DEF Shutdown, CleanupPortFile, RemoveFails, BrowserInv, ServersOK, ServerTypes
<1>3. TabsOK' /\ \A t \in Tabs : Got(t)' = Got(t)
  BY <1>1 DEF BrowserInv, tabVars, TabsOK, Got
<1>4. due' \in [Notices -> SUBSET Tabs] /\ \A n \in Notices : due'[n] = due[n] \ TabsOf(s)
  BY <1>1, Excused DEF BrowserInv
<1>5. ASSUME NEW n \in Notices, NEW t \in due'[n]
      PROVE  /\ viewer'[t] = viewer[t] /\ stage'[viewer[t]] = "serving"
             /\ port'[viewer[t]] = port[viewer[t]] /\ Got(t) \subseteq Got(t)'
  <2>1. t \in due[n] /\ t \in Tabs /\ t \notin TabsOf(s)
    BY <1>4 DEF BrowserInv, NoticeTypes
  <2>2. viewer[t] \in Servers \ {s} /\ stage[viewer[t]] = "serving"
    BY <2>1 DEF BrowserInv, DueAreReached, Heading, TabsOf
  <2> QED
    BY <1>1, <1>2, <1>3, <2>1, <2>2 DEF tabVars
<1> QED
  BY <1>1, <1>3, <1>4, <1>5, DueKept DEF BrowserInv

LEMMA EndsOpenly ==
  ASSUME BrowserInv, NEW s \in Servers, ServerEnds(s) \/ ServerKilled(s)
  PROVE  TabsOK' /\ NoticeTypes' /\ DueAreReached'
<1>1. Disconnect(TabsOf(s)) /\ UNCHANGED <<port, notice, target, sentTo>>
  BY DEF ServerEnds, ServerKilled
<1>2. \A t \in Servers \ {s} : stage'[t] = stage[t]
  BY DEF ServerEnds, ServerKilled, BrowserInv, ServersOK, ServerTypes
<1>3. TabsOK' /\ \A t \in Tabs \ TabsOf(s) : viewer'[t] = viewer[t] /\ Got(t)' = Got(t)
  BY <1>1, DisconnectTells DEF BrowserInv
<1>4. due' \in [Notices -> SUBSET Tabs] /\ \A n \in Notices : due'[n] = due[n] \ TabsOf(s)
  BY <1>1, Excused DEF BrowserInv, Disconnect
<1>5. ASSUME NEW n \in Notices, NEW t \in due'[n]
      PROVE  /\ viewer'[t] = viewer[t] /\ stage'[viewer[t]] = "serving"
             /\ port'[viewer[t]] = port[viewer[t]] /\ Got(t) \subseteq Got(t)'
  <2>1. t \in due[n] /\ t \in Tabs /\ t \notin TabsOf(s)
    BY <1>4 DEF BrowserInv, NoticeTypes
  <2>2. viewer[t] \in Servers \ {s} /\ stage[viewer[t]] = "serving"
    BY <2>1 DEF BrowserInv, DueAreReached, Heading, TabsOf
  <2> QED
    BY <1>1, <1>2, <1>3, <2>1, <2>2
<1> QED
  BY <1>1, <1>3, <1>4, <1>5, DueKept DEF BrowserInv

(* Steps of the tabs, the monitors and the services.                       *)
LEMMA TabSteps ==
  ASSUME BrowserInv,
         \/ ServiceFlips
         \/ \E t \in Tabs : Unsubscribe(t) \/ ShowEvent(t)
         \/ \E s \in Servers : MonitorTick(s) \/ \E u \in Tabs : Subscribe(u, s)
  PROVE  TabsOK' /\ NoticeTypes' /\ DueAreReached'
<1>1. UNCHANGED serverVars /\ UNCHANGED <<notice, target, sentTo>>
  BY DEF ServiceFlips, Unsubscribe, ShowEvent, MonitorTick, Subscribe, noticeVars
<1>2. ASSUME NEW n \in Notices, NEW t \in due[n]
      PROVE  t \in Tabs /\ viewer[t] \in Servers /\ viewer[t] # NoServer /\ stage[viewer[t]] = "serving"
  BY BrowserNames DEF BrowserInv, NoticeTypes, DueAreReached, Heading
<1>3. ASSUME TabsOK', due' \in [Notices -> SUBSET Tabs], \A n \in Notices : due'[n] \subseteq due[n],
             \A n \in Notices : \A t \in due'[n] : viewer'[t] = viewer[t] /\ Got(t) \subseteq Got(t)'
      PROVE  TabsOK' /\ NoticeTypes' /\ DueAreReached'
  <2>1. \A n \in Notices : \A t \in due'[n] :
          /\ viewer'[t] = viewer[t] /\ stage'[viewer[t]] = "serving"
          /\ port'[viewer[t]] = port[viewer[t]] /\ Got(t) \subseteq Got(t)'
    BY <1>1, <1>2, <1>3 DEF serverVars
  <2> QED
    BY <1>1, <1>3, <2>1, DueKept DEF BrowserInv
<1>4. CASE ServiceFlips
  <2>1. UNCHANGED <<tabVars, due>>
    BY <1>4 DEF ServiceFlips, noticeVars
  <2>2. TabsOK' /\ \A t \in Tabs : viewer'[t] = viewer[t] /\ Got(t)' = Got(t)
    BY <2>1 DEF BrowserInv, tabVars, TabsOK, Got
  <2> QED
    BY <1>2, <1>3, <2>1, <2>2 DEF BrowserInv, NoticeTypes
<1>5. ASSUME NEW u \in Tabs, Unsubscribe(u) PROVE TabsOK' /\ NoticeTypes' /\ DueAreReached'
  <2>1. Disconnect({u}) /\ Excuse({u})
    BY <1>5 DEF Unsubscribe, Disconnect
  <2>2. TabsOK' /\ \A t \in Tabs \ {u} : viewer'[t] = viewer[t] /\ Got(t)' = Got(t)
    BY <2>1, DisconnectTells DEF BrowserInv
  <2>3. due' \in [Notices -> SUBSET Tabs] /\ \A n \in Notices : due'[n] = due[n] \ {u}
    BY <2>1, Excused DEF BrowserInv
  <2> QED
    BY <1>2, <1>3, <2>2, <2>3
<1>6. ASSUME NEW u \in Tabs, ShowEvent(u) PROVE TabsOK' /\ NoticeTypes' /\ DueAreReached'
  <2>1. UNCHANGED <<viewer, due>>
    BY <1>6 DEF ShowEvent, noticeVars
  <2>2. TabsOK' /\ \A t \in Tabs : Got(t) \subseteq Got(t)'
    BY <1>6, ShowTells DEF BrowserInv
  <2> QED
    BY <1>2, <1>3, <2>1, <2>2 DEF BrowserInv, NoticeTypes
<1>7. ASSUME NEW s \in Servers, MonitorTick(s) PROVE TabsOK' /\ NoticeTypes' /\ DueAreReached'
  <2>1. Broadcast(s, StatusEvent) /\ StatusEvent \in Event /\ UNCHANGED <<viewer, shown, due>>
    BY <1>7 DEF MonitorTick, noticeVars, Event
  <2>2. TabsOK' /\ \A t \in Tabs : Got(t) \subseteq Got(t)'
    BY <2>1, BroadcastTells DEF BrowserInv
  <2> QED
    BY <1>2, <1>3, <2>1, <2>2 DEF BrowserInv, NoticeTypes
<1>8. ASSUME NEW s \in Servers, NEW u \in Tabs, Subscribe(u, s) PROVE TabsOK' /\ NoticeTypes' /\ DueAreReached'
  <2>1. viewer[u] = NoServer /\ viewer' = [viewer EXCEPT ![u] = s] /\ UNCHANGED <<pending, shown, missed, due>>
    BY <1>8 DEF Subscribe, noticeVars
  <2>2. TabsOK' /\ \A t \in Tabs : Got(t)' = Got(t) /\ (t # u => viewer'[t] = viewer[t])
    BY <2>1 DEF BrowserInv, TabsOK, Got
  <2> QED
    BY <1>2, <1>3, <2>1, <2>2 DEF BrowserInv, NoticeTypes
<1> QED
  BY <1>4, <1>5, <1>6, <1>7, <1>8

(* Steps of a notice: the others stay as they are.                         *)
LEMMA NoticeMoves ==
  ASSUME BrowserInv, NEW n \in Notices, UNCHANGED serverVars, UNCHANGED viewer, TabsOK',
         \A t \in Tabs : Got(t) \subseteq Got(t)', NoticeTypes',
         \A k \in Notices \ {n} :
           notice'[k] = notice[k] /\ target'[k] = target[k] /\ sentTo'[k] = sentTo[k] /\ due'[k] = due[k],
         \A t \in due'[n] : Heading(n, t)'
  PROVE  TabsOK' /\ NoticeTypes' /\ DueAreReached'
<1>1. ASSUME NEW k \in Notices, k # n, NEW t \in due'[k] PROVE Heading(k, t)'
  <2>1. t \in Tabs /\ t \in due[k] /\ Heading(k, t)
    BY <1>1 DEF BrowserInv, NoticeTypes, DueAreReached
  <2>2. k \in Got(t) => k \in Got(t)'
    BY <2>1
  <2> QED
    BY <1>1, <2>1, <2>2 DEF Heading, serverVars
<1> QED
  BY <1>1 DEF DueAreReached

LEMMA SameTabs ==
  ASSUME TabsOK, UNCHANGED tabVars
  PROVE  TabsOK' /\ UNCHANGED viewer /\ \A t \in Tabs : Got(t)' = Got(t)
BY DEF TabsOK, tabVars, Got

LEMMA ReadKeepsDue ==
  ASSUME BrowserInv, NEW n \in Notices, ReadServerPort(n) PROVE TabsOK' /\ NoticeTypes' /\ DueAreReached'
<1>1. /\ notice[n] = "unsent" /\ target' = [target EXCEPT ![n] = portFile]
      /\ UNCHANGED serverVars /\ UNCHANGED tabVars /\ UNCHANGED sentTo
  BY DEF ReadServerPort
<1>2. TabsOK' /\ UNCHANGED viewer /\ \A t \in Tabs : Got(t)' = Got(t)
  BY <1>1, SameTabs DEF BrowserInv
<1>3. CASE portFile = NoPort
  <2>1. notice' = [notice EXCEPT ![n] = "dropped"] /\ UNCHANGED due
    BY <1>3 DEF ReadServerPort
  <2>2. due[n] = {}
    BY <1>1 DEF BrowserInv, DueAreReached, Heading
  <2>3. NoticeTypes'
    BY <1>1, <1>3, <2>1 DEF BrowserInv, NoticeTypes, NoPort
  <2> QED
    BY <1>1, <1>2, <2>1, <2>2, <2>3, NoticeMoves DEF BrowserInv, NoticeTypes
<1>4. CASE portFile # NoPort
  <2>1. /\ notice' = [notice EXCEPT ![n] = "read"]
        /\ due' = [due EXCEPT ![n] = {t \in TabsOf(author) : stage[author] = "serving"}]
    BY <1>4 DEF ReadServerPort
  <2>2. author \in Servers /\ port[author] = portFile /\ portFile \in Nat
    BY <1>4 DEF BrowserInv, ServersOK, ServerTypes, PortFileIsCleaned
  <2>3. NoticeTypes'
    BY <1>1, <2>1, <2>2 DEF BrowserInv, NoticeTypes, TabsOf
  <2>4. ASSUME NEW t \in due'[n] PROVE Heading(n, t)'
    <3>1. viewer[t] = author /\ stage[author] = "serving" /\ notice'[n] = "read" /\ target'[n] = portFile
      BY <1>1, <2>1 DEF BrowserInv, NoticeTypes, TabsOf
    <3> QED
      BY <1>1, <1>2, <2>2, <3>1 DEF Heading, serverVars
  <2> QED
    BY <1>1, <1>2, <2>1, <2>3, <2>4, NoticeMoves DEF BrowserInv, NoticeTypes
<1> QED
  BY <1>3, <1>4

LEMMA ConnectKeepsDue ==
  ASSUME BrowserInv, NEW n \in Notices, Connect(n) PROVE TabsOK' /\ NoticeTypes' /\ DueAreReached'
<1>1. PICK s \in Servers : /\ Listens(s) /\ port[s] = target[n]
                           /\ sentTo' = [sentTo EXCEPT ![n] = s] /\ notice' = [notice EXCEPT ![n] = "sent"]
  BY DEF Connect
<1>2. notice[n] = "read" /\ UNCHANGED serverVars /\ UNCHANGED tabVars /\ UNCHANGED <<target, due>>
  BY DEF Connect
<1>3. TabsOK' /\ UNCHANGED viewer /\ \A t \in Tabs : Got(t)' = Got(t)
  BY <1>2, SameTabs DEF BrowserInv
<1>4. NoticeTypes'
  BY <1>1, <1>2 DEF BrowserInv, NoticeTypes
<1>5. ASSUME NEW t \in due'[n] PROVE Heading(n, t)'
  <2>1. viewer[t] \in Servers /\ stage[viewer[t]] = "serving" /\ target[n] = port[viewer[t]]
    BY <1>2 DEF BrowserInv, DueAreReached, Heading
  <2>2. viewer[t] = s
    BY <1>1, <2>1 DEF BrowserInv, ServersOK, PortsApart, Listens
  <2>3. notice'[n] = "sent" /\ sentTo'[n] = s
    BY <1>1 DEF BrowserInv, NoticeTypes
  <2> QED
    BY <1>2, <1>3, <2>1, <2>2, <2>3 DEF Heading, serverVars
<1> QED
  BY <1>1, <1>2, <1>3, <1>4, <1>5, NoticeMoves DEF BrowserInv, NoticeTypes

LEMMA DropKeepsDue ==
  ASSUME BrowserInv, NEW n \in Notices, Refused(n) \/ RelayFails(n)
  PROVE  TabsOK' /\ NoticeTypes' /\ DueAreReached'
<1>1. /\ notice' = [notice EXCEPT ![n] = "dropped"] /\ notice[n] # "unsent"
      /\ UNCHANGED serverVars /\ UNCHANGED tabVars /\ UNCHANGED <<target, sentTo, due>>
  BY DEF Refused, RelayFails
<1>2. TabsOK' /\ UNCHANGED viewer /\ \A t \in Tabs : Got(t)' = Got(t)
  BY <1>1, SameTabs DEF BrowserInv
<1>3. NoticeTypes' /\ notice'[n] = "dropped"
  BY <1>1 DEF BrowserInv, NoticeTypes
<1>4. ASSUME NEW t \in due'[n] PROVE Heading(n, t)'
  <2>1. viewer[t] \in Servers /\ stage[viewer[t]] = "serving"
    BY <1>1 DEF BrowserInv, DueAreReached, Heading
  <2> QED
    BY <1>1, <1>2, <1>3, <2>1 DEF Heading, serverVars
<1> QED
  BY <1>1, <1>2, <1>3, <1>4, NoticeMoves DEF BrowserInv, NoticeTypes

LEMMA RelayKeepsDue ==
  ASSUME BrowserInv, NEW n \in Notices, Relay(n) PROVE TabsOK' /\ NoticeTypes' /\ DueAreReached'
<1>1. /\ notice[n] = "sent" /\ Broadcast(sentTo[n], n) /\ notice' = [notice EXCEPT ![n] = "relayed"]
      /\ UNCHANGED serverVars /\ UNCHANGED <<viewer, shown, target, sentTo, due>>
  BY DEF Relay
<1>2. /\ TabsOK'
      /\ \A t \in Tabs : Got(t) \subseteq Got(t)' /\ (viewer[t] = sentTo[n] => n \in Got(t)')
  BY <1>1, BroadcastTells DEF BrowserInv, Event
<1>3. NoticeTypes' /\ notice'[n] = "relayed"
  BY <1>1 DEF BrowserInv, NoticeTypes
<1>4. ASSUME NEW t \in due'[n] PROVE Heading(n, t)'
  <2>1. t \in Tabs /\ viewer[t] \in Servers /\ stage[viewer[t]] = "serving" /\ sentTo[n] = viewer[t]
    BY <1>1 DEF BrowserInv, NoticeTypes, DueAreReached, Heading
  <2>2. n \in Got(t)'
    BY <1>2, <2>1
  <2> QED
    BY <1>1, <1>3, <2>1, <2>2 DEF Heading, serverVars
<1> QED
  BY <1>1, <1>2, <1>3, <1>4, NoticeMoves DEF BrowserInv, NoticeTypes

LEMMA BrowserStep == ASSUME BrowserInv, [BrowserNext]_browserVars PROVE BrowserInv'
<1>1. ServersOK'
  BY ServersStep DEF BrowserInv
<1>2. TabsOK' /\ NoticeTypes' /\ DueAreReached'
  <2>1. CASE UNCHANGED browserVars
    BY <2>1 DEF browserVars, serverVars, tabVars, noticeVars, BrowserInv, TabsOK, NoticeTypes, DueAreReached,
                Heading, Got
  <2>2. CASE BrowserNext
    <3>1. CASE \E s \in Servers : RunBrowser(s) \/ TryPort(s) \/ NewServer(s) \/ WritePortFile(s)
                                   \/ WriteFails(s) \/ Serve(s)
      BY <3>1, StartsQuietly
    <3>2. CASE \E s \in Servers : \/ Shutdown(s) \/ CleanupPortFile(s) \/ RemoveFails(s)
                                  \/ ServerEnds(s) \/ ServerKilled(s)
      BY <3>2, StopsOpenly, EndsOpenly
    <3>3. CASE \/ ServiceFlips
               \/ \E t \in Tabs : Unsubscribe(t) \/ ShowEvent(t)
               \/ \E s \in Servers : MonitorTick(s) \/ \E u \in Tabs : Subscribe(u, s)
      <4> HIDE DEF TabsOK, NoticeTypes, DueAreReached
      <4> QED BY <3>3, TabSteps, Zenon
    <3>4. CASE \E n \in Notices : ReadServerPort(n) \/ Connect(n) \/ Refused(n) \/ Relay(n) \/ RelayFails(n)
      BY <3>4, ReadKeepsDue, ConnectKeepsDue, DropKeepsDue, RelayKeepsDue
    <3> QED
      BY <2>2, <3>1, <3>2, <3>3, <3>4 DEF BrowserNext
  <2> QED
    BY <2>1, <2>2
<1> QED
  BY <1>1, <1>2 DEF BrowserInv

(* For any servers, tabs and notices, however servers follow or meet each  *)
(* other, are killed or fail: a port file outlives only a server that was  *)
(* killed, a server nobody has run beside is named by it, and a notice that*)
(* was relayed has reached the tabs it was for (server.go:442-508,         *)
(* sse.go:81-91).                                                          *)
THEOREM NoticesReachTabs == BrowserSpec => []ChangesReachTabs
<1>1. BrowserInit => BrowserInv
  BY BrowserStarts
<1>2. BrowserInv /\ [BrowserNext]_browserVars => BrowserInv'
  BY BrowserStep
<1>3. BrowserInv => ChangesReachTabs
  BY InvReaches
<1> QED
  BY <1>1, <1>2, <1>3, PTL DEF BrowserSpec
===============================================================================
