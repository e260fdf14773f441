---------------------------- MODULE TaskRequests ----------------------------
(***************************************************************************)
(* The public lifecycle requests: how the command line, the MCP tools and  *)
(* the HTTP routes turn a caller's words into a request, which permissions *)
(* they ask for, what is done for each Task of a batch in a transaction of *)
(* its own, and what the reply calls the whole.                            *)
(***************************************************************************)
EXTENDS Naturals, FiniteSets

CONSTANTS
  Tasks,
  MaxRequests     \* bound: requests, and changes by others

VARIABLES
  state,          \* of each Task: "todo", "done", "archived" or "gone"
  ripe,           \* the Tasks nothing but their status keeps from the archive
  tomb,           \* who deleted a Task
  rights,         \* whether the project allows archiving and deleting
  request,        \* the request under way, or the last one
  moved,          \* Tasks others have changed since their turn in it
  requests        \* requests and changes so far

requestVars == <<state, ripe, tomb, rights, request, moved, requests>>

NoRequest == [at |-> "none", by |-> "", op |-> "", ids |-> {}, left |-> {}, execute |-> FALSE,
              confirmed |-> FALSE, reason |-> FALSE, allowed |-> FALSE, reasons |-> {}]

RequestInit ==
  /\ state = [t \in Tasks |-> "done"] /\ ripe \in {{t} : t \in Tasks}
  /\ tomb = [t \in Tasks |-> ""]
  /\ rights \in [archive : BOOLEAN, delete : BOOLEAN]
  /\ request = NoRequest /\ moved = {} /\ requests = 0

-----------------------------------------------------------------------------
(* The public lifecycle requests.                                          *)
SingleOps == {"archive", "unarchive", "hardDelete"}
BatchOps == {"batchArchive", "batchUnarchive"}
ArchiveOps == BatchOps \cup {"archive", "unarchive"}

(* A batch archive without names is for all Tasks that are done.           *)
BatchIDs(op, ids) == IF op = "batchArchive" /\ ids = {} THEN {t \in Tasks : state[t] = "done"} ELSE ids

ValidRequest(op, ids) ==
  CASE op \in SingleOps -> Cardinality(ids) = 1
    [] op = "batchUnarchive" -> ids # {}
    [] op = "batchArchive" -> TRUE

RequestBy(s, op, ids, execute, confirmed, reason, allowed) ==
  /\ request.at \in {"none", "replied"} /\ ValidRequest(op, ids)
  /\ requests < MaxRequests /\ requests' = requests + 1
  /\ IF op \in ArchiveOps /\ s = "mcp" /\ ~rights.archive
     THEN request' = [NoRequest EXCEPT !.at = "replied", !.by = s, !.op = op, !.ids = ids,
                                       !.execute = execute, !.reasons = {"permission"}]
     ELSE request' = [NoRequest EXCEPT !.at = "running", !.by = s, !.op = op, !.ids = ids,
                                       !.left = BatchIDs(op, ids), !.execute = execute,
                                       !.confirmed = op = "hardDelete" /\ confirmed,
                                       !.reason = op = "hardDelete" /\ reason,
                                       !.allowed = op = "hardDelete" /\ allowed]
  /\ moved' = {}
  /\ UNCHANGED <<state, ripe, tomb, rights>>

(* The flag --yes is both execution and confirmation; --allow-hard-delete  *)
(* is the capability.                                                      *)
CliLifecycle ==
  \E op \in SingleOps \cup BatchOps, ids \in SUBSET Tasks, yes, reason, allowed \in BOOLEAN :
    RequestBy("cli", op, ids, yes, yes, reason, allowed)

(* A hard-delete of MCP and HTTP is executed when it is confirmed; the     *)
(* capability is the project's policy, or the server's.                    *)
McpLifecycle ==
  \E op \in SingleOps \cup BatchOps, ids \in SUBSET Tasks, execute, confirmed, reason \in BOOLEAN :
    RequestBy("mcp", op, ids, IF op = "hardDelete" THEN confirmed ELSE execute, confirmed, reason,
              rights.delete)

HttpLifecycle ==
  \E op \in SingleOps \cup BatchOps, ids \in SUBSET Tasks, execute, confirmed, reason \in BOOLEAN :
    RequestBy("http", op, ids, IF op = "hardDelete" THEN confirmed ELSE execute, confirmed, reason,
              rights.delete)

(* Why a Task is not what the request wants it to be; {} when nothing      *)
(* stands in the way.                                                      *)
ArchiveReasons(t) ==
  CASE state[t] = "gone" -> {"notFound"}
    [] state[t] = "archived" -> {"alreadyArchived"}
    [] state[t] = "todo" -> {"notDone"}
    [] state[t] = "done" -> IF t \in ripe THEN {} ELSE {"retention"}

ReopenReasons(t) ==
  CASE state[t] = "gone" -> {"notFound"}
    [] state[t] = "todo" -> {"alreadyActive"}
    [] OTHER -> {}

DeleteReasons(t) ==
  IF ~request.allowed THEN {"permission"}
  ELSE IF ~(request.confirmed /\ request.reason)
       THEN {r \in {"confirmation", "deleteReason"} :
               IF r = "confirmation" THEN ~request.confirmed ELSE ~request.reason}
  ELSE IF state[t] # "gone" THEN {}
  ELSE IF tomb[t] = request.by THEN {"alreadyDeleted"} ELSE {"tombstoneConflict"}

Reasons(t) ==
  CASE request.op \in {"archive", "batchArchive"} -> ArchiveReasons(t)
    [] request.op \in {"unarchive", "batchUnarchive"} -> ReopenReasons(t)
    [] request.op = "hardDelete" -> DeleteReasons(t)

Acts(t) == Reasons(t) = {} /\ (request.execute \/ request.op = "hardDelete")

Target(op) ==
  CASE op \in {"archive", "batchArchive"} -> {"archived"}
    [] op \in {"unarchive", "batchUnarchive"} -> {"todo"}
    [] op = "hardDelete" -> {"gone"}

(* One item of the request, in a transaction of its own.                   *)
ExecuteItem ==
  /\ request.at = "running"
  /\ \E t \in request.left :
       /\ state' = IF Acts(t) THEN [state EXCEPT ![t] = CHOOSE s \in Target(request.op) : TRUE] ELSE state
       /\ tomb' = IF Acts(t) /\ request.op = "hardDelete" THEN [tomb EXCEPT ![t] = request.by] ELSE tomb
       /\ request' = [request EXCEPT !.left = @ \ {t}, !.reasons = @ \cup Reasons(t)]
       /\ moved' = moved \ {t}
  /\ UNCHANGED <<ripe, rights, requests>>

(* Mutant for SuccessMeansDone: a denial informs, executed or not.         *)
KindOfPreview(reason, execute) ==
  CASE reason \in {"confirmation", "deleteReason"} -> "invalid"
    [] reason = "permission" -> "permission" [] reason = "notFound" -> "notFound"
    [] reason = "tombstoneConflict" -> "conflict"
    [] OTHER -> "none"

FailureKindForReason(reason, execute) ==
  CASE reason \in {"confirmation", "deleteReason"} -> "invalid"
    [] reason = "permission" -> "permission" [] reason = "notFound" -> "notFound"
    [] reason = "tombstoneConflict" -> "conflict"
    [] reason \in {"alreadyArchived", "alreadyActive", "alreadyDeleted"} -> "none"
    [] reason \in {"notDone", "retention"} -> IF execute THEN "denied" ELSE "none"

(* The worst kind of all items is the reply's: its status, its exit code.  *)
FailurePriority == <<"none", "denied", "conflict", "notFound", "invalid", "permission">>
FailureKindFor(reasons, execute) ==
  LET kinds == {FailureKindForReason(r, execute) : r \in reasons} \cup {"none"}
  IN FailurePriority[CHOOSE i \in DOMAIN FailurePriority :
                       /\ FailurePriority[i] \in kinds
                       /\ \A j \in DOMAIN FailurePriority : FailurePriority[j] \in kinds => j <= i]

Reply ==
  /\ request.at = "running" /\ request.left = {}
  /\ request' = [request EXCEPT !.at = "replied"]
  /\ UNCHANGED <<state, ripe, tomb, rights, moved, requests>>

(* Another caller finishes a Task or takes it up again.                    *)
OthersEdit ==
  /\ requests < MaxRequests /\ requests' = requests + 1
  /\ \E t \in Tasks :
       /\ state[t] \in {"todo", "done"}
       /\ state' = [state EXCEPT ![t] = IF @ = "todo" THEN "done" ELSE "todo"]
       /\ moved' = moved \cup {t}
  /\ UNCHANGED <<ripe, tomb, rights, request>>

RequestNext == CliLifecycle \/ McpLifecycle \/ HttpLifecycle \/ ExecuteItem \/ Reply \/ OthersEdit

RequestSpec == RequestInit /\ [][RequestNext]_requestVars

-----------------------------------------------------------------------------
(* A request that was executed and reported as a success has left every    *)
(* Task it was for as it was asked to be, unless another has changed it    *)
(* since.                                                                  *)
SuccessMeansDone ==
  request.at = "replied" /\ request.execute /\ FailureKindFor(request.reasons, request.execute) = "none"
    => \A t \in request.ids : state[t] \in Target(request.op) \/ t \in moved
=============================================================================
