--------------------------- MODULE AdapterProcess ---------------------------
(***************************************************************************)
(* The external agent as a child process (agents/omp/acp.go): requests over*)
(* its standard input, one reader of its standard output, and the end of   *)
(* the process.  A run goes through the methods of ensureSession and of a  *)
(* prompt; meanwhile a user may cancel it.                                 *)
(*                                                                         *)
(* The child is external: it answers, fails, stops reading or dies.  Small *)
(* messages always fit into its pipe; a prompt may be larger than the pipe,*)
(* and its write then ends only when the child reads it.                   *)
(***************************************************************************)
EXTENDS Naturals, Sequences, FiniteSets, SequencesExt

CONSTANTS
  KnownSession,\* whether the workflow has a session to load
  MaxChunks    \* bound: pieces of an answer

VARIABLES
  child,    \* "up", "deaf" (it reads no more) or "gone"
  toChild,  \* requests in the pipe to the child
  fromChild,\* messages in the pipe from the child
  pieces,   \* pieces of text the child has written for the prompt
  user,     \* [Users -> the request a goroutine is in]
  replies,  \* answers in the channels of pending requests
  ended,    \* done is closed: setTerminal was called
  closing,  \* Close was called: standard input is closed, the child signalled
  sessionID,\* whether the adapter has a session
  callback, \* whether updates are passed on
  text      \* what the prompt has collected

adapterVars == <<child, toChild, fromChild, pieces, user, replies, ended, closing,
                 sessionID, callback, text>>

Users == {"run", "cancel"}
Methods == {"initialize", "authenticate", "session/load", "session/new",
            "session/set_mode", "session/prompt", "session/cancel"}
Limited == Methods \ {"session/prompt"}  \* requests with a time limit

AdapterInit ==
  /\ child = "up" /\ toChild = <<>> /\ fromChild = <<>> /\ pieces = 0
  /\ user = [u \in Users |-> [at |-> IF u = "run" THEN "initialize" ELSE "idle", stage |-> "write"]]
  /\ replies = [m \in Methods |-> "none"]
  /\ ended = FALSE /\ closing = FALSE /\ sessionID = FALSE /\ callback = FALSE
  /\ text = <<>>

-----------------------------------------------------------------------------
(* request: register, write under the mutex of writers, wait for one of the*)
(* answer, the end of the process and the end of the context.              *)

UserIs(u, at, stage) == user' = [user EXCEPT ![u] = [at |-> at, stage |-> stage]]
Writing(u) == user[u].at \in Methods /\ user[u].stage = "write"
Waiting(u) == user[u].at \in Methods /\ user[u].stage = "wait"

(* Where a run goes after each request.  A session that cannot be loaded is*)
(* replaced by a new one whose failure is ignored; the mode is optional.   *)
AfterRequest(method, ok) ==
  CASE method = "initialize" -> IF ok THEN {"authenticate", "session"} ELSE {"close"}
    [] method = "authenticate" -> IF ok THEN {"session"} ELSE {"close"}
    [] method = "session/load" -> IF ok THEN {"session/set_mode"} ELSE {"session/new"}
    [] method = "session/new" -> IF ok \/ KnownSession THEN {"session/set_mode"} ELSE {"failed"}
    [] method = "session/set_mode" -> {"session/prompt"}
    [] method = "session/prompt" -> IF ok THEN {"answered"} ELSE {"failed"}
    [] method = "session/cancel" -> {"close"}
    [] OTHER -> {"session"}

(* The adapter forgets a request that is over; set_mode and prompt are not *)
(* sent without a session.                                                 *)
Returns(u, ok) ==
  /\ \E next \in AfterRequest(user[u].at, ok) :
       LET at == IF next = "session" THEN (IF KnownSession THEN "session/load" ELSE "session/new")
                 ELSE next
       IN IF at \in {"session/set_mode", "session/prompt"}
               /\ ~(sessionID \/ (ok /\ user[u].at \in {"session/load", "session/new"}))
          THEN UserIs(u, "failed", "write")
          ELSE UserIs(u, at, "write")
  /\ sessionID' = (sessionID \/ (ok /\ user[u].at \in {"session/load", "session/new"}))
  /\ callback' = (callback /\ user[u].at # "session/prompt")
  /\ replies' = [replies EXCEPT ![user[u].at] = "none"]

(* The write itself: a prompt larger than the pipe (64 KB) holds the mutex *)
(* of writers until the child has read it, or its pipe is closed.          *)
WriterBlocked == \E u \in Users : Writing(u) /\ user[u].at = "session/prompt" /\ callback
Fits == WriterBlocked => child = "up" /\ toChild = <<>>

Write(u) ==
  /\ Writing(u)
  /\ IF user[u].at = "session/prompt" THEN TRUE ELSE ~WriterBlocked
  /\ IF closing \/ child = "gone" THEN
       /\ Returns(u, FALSE)
       /\ UNCHANGED toChild
     ELSE
       \/ /\ Fits
          /\ UserIs(u, user[u].at, "wait")
          /\ toChild' = Append(toChild, user[u].at)
          /\ callback' = (callback \/ user[u].at = "session/prompt")
          /\ UNCHANGED <<sessionID, replies>>
       \/ /\ user[u].at = "session/prompt" /\ ~callback
          /\ callback' = TRUE   \* the prompt has begun, and the pipe is full
          /\ UNCHANGED <<user, toChild, sessionID, replies>>
  /\ UNCHANGED <<child, fromChild, pieces, ended, closing, text>>

Answered(u) ==
  /\ Waiting(u) /\ replies[user[u].at] # "none"
  /\ Returns(u, replies[user[u].at] = "ok")
  /\ UNCHANGED <<child, toChild, fromChild, pieces, ended, closing, text>>

Abandoned(u) ==
  /\ Waiting(u) /\ (ended \/ user[u].at \in Limited)
  /\ Returns(u, FALSE)
  /\ UNCHANGED <<child, toChild, fromChild, pieces, ended, closing, text>>

-----------------------------------------------------------------------------
(* The child, and its end.                                                 *)

Reply(method) == {[kind |-> "answer", of |-> method, ok |-> b] : b \in BOOLEAN}

ChildAnswers ==
  /\ child = "up" /\ toChild # <<>> /\ Head(toChild) # "session/prompt"
  /\ toChild' = Tail(toChild)
  /\ \E r \in Reply(Head(toChild)) : fromChild' = Append(fromChild, r)
  /\ UNCHANGED <<child, pieces, user, replies, ended, closing, sessionID, callback, text>>

ChildStreams ==
  /\ child = "up" /\ toChild # <<>> /\ Head(toChild) = "session/prompt"
  /\ \/ /\ pieces < MaxChunks
        /\ pieces' = pieces + 1
        /\ fromChild' = Append(fromChild, [kind |-> "chunk", n |-> pieces'])
        /\ UNCHANGED toChild
     \/ /\ toChild' = Tail(toChild)
        /\ \E r \in Reply("session/prompt") : fromChild' = Append(fromChild, r)
        /\ UNCHANGED pieces
  /\ UNCHANGED <<child, user, replies, ended, closing, sessionID, callback, text>>

ChildGoesDeaf ==
  /\ child = "up" /\ ~closing
  /\ child' = "deaf"
  /\ UNCHANGED <<toChild, fromChild, pieces, user, replies, ended, closing, sessionID, callback, text>>

(* It dies by itself, of the signal of Close, or is killed two seconds     *)
(* later.                                                                  *)
ChildDies ==
  /\ child # "gone"
  /\ child' = "gone"
  /\ UNCHANGED <<toChild, fromChild, pieces, user, replies, ended, closing, sessionID, callback, text>>
KillListening == closing /\ child = "up" /\ ChildDies
KillChild == closing /\ ChildDies

(* wait: Wait closes the pipe of the reader, and what is still in it is    *)
(* lost.                                                                   *)
ChildReaped ==
  /\ child = "gone" /\ ~ended
  /\ ended' = TRUE
  /\ fromChild' = <<>>
  /\ UNCHANGED <<child, toChild, pieces, user, replies, closing, sessionID, callback, text>>

-----------------------------------------------------------------------------
(* readStdout handles one message after the other: an answer goes to the   *)
(* channel of its request when that is pending, an update to the callback. *)

Pending(method) == \E u \in Users : user[u].at = method
AnyMessage == DOMAIN fromChild
NextMessage == {i \in DOMAIN fromChild : i = 1}

Read ==
  /\ ~ended
  /\ \E i \in NextMessage :
       LET msg == fromChild[i] IN
       /\ fromChild' = RemoveAt(fromChild, i)
       /\ IF msg.kind = "chunk"
          THEN /\ text' = IF callback THEN Append(text, msg.n) ELSE text
               /\ UNCHANGED replies
          ELSE /\ replies' = [replies EXCEPT ![msg.of] =
                    IF ~Pending(msg.of) THEN @ ELSE IF msg.ok THEN "ok" ELSE "error"]
               /\ UNCHANGED text
  /\ UNCHANGED <<child, toChild, pieces, user, ended, closing, sessionID, callback>>

-----------------------------------------------------------------------------
(* Cancel asks the agent to stop, for two seconds at most, and closes; a   *)
(* run whose adapter could not be started closes it as well.               *)

CancelRun ==
  /\ user["cancel"].at = "idle" /\ user["run"].at = "session/prompt"
  /\ UserIs("cancel", IF sessionID THEN "session/cancel" ELSE "close", "write")
  /\ UNCHANGED <<child, toChild, fromChild, pieces, replies, ended, closing, sessionID, callback, text>>

CloseProcess(u) ==
  /\ user[u].at = "close"
  /\ IF ended /\ closing THEN UserIs(u, "closed", "write") /\ UNCHANGED <<closing, ended>>
     ELSE IF ~closing THEN closing' = TRUE /\ UNCHANGED <<user, ended>>
     ELSE ended /\ UNCHANGED <<user, closing, ended>>
  /\ UNCHANGED <<child, toChild, fromChild, pieces, replies, sessionID, callback, text>>

AdapterNext ==
  \/ \E u \in Users : Write(u) \/ Answered(u) \/ Abandoned(u) \/ CloseProcess(u)
  \/ ChildAnswers \/ ChildStreams \/ ChildGoesDeaf \/ ChildDies \/ ChildReaped
  \/ Read \/ CancelRun

(* The goroutine of a user goes on while it can, the canceller's at least; *)
(* an answer is external.                                                  *)
GoesOn(u) == Write(u) \/ Abandoned(u) \/ CloseProcess(u)
ChildEnds == KillChild \/ ChildReaped

AdapterFair == WF_adapterVars(GoesOn("cancel")) /\ WF_adapterVars(ChildEnds)

AdapterSpec == AdapterInit /\ [][AdapterNext]_adapterVars /\ AdapterFair

-----------------------------------------------------------------------------
(* Properties.                                                             *)

(* PromptText returns the text of the prompt: a prompt that succeeds has   *)
(* every piece of the answer, in the order the agent wrote them, and one   *)
(* that fails the first of them.                                           *)
AnswerIsComplete ==
  /\ \A i \in DOMAIN text : text[i] = i
  /\ user["run"].at = "answered" => Len(text) = pieces

(* A user who cancels gets an answer, whether the agent answers, stops     *)
(* reading or dies: it is asked for two seconds, interrupted and two       *)
(* seconds later killed.  In one way only does Cancel never return: a      *)
(* prompt larger than the pipe is being written and the agent never reads  *)
(* it, for the writer holds the mutex that Cancel waits for, and the limit *)
(* of two seconds does not reach a wait for a mutex.                       *)
CancelReturns == (user["cancel"].at # "idle") ~> (user["cancel"].at = "closed" \/ []WriterBlocked)
=============================================================================
