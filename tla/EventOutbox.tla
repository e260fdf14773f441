----------------------------- MODULE EventOutbox -----------------------------
(***************************************************************************)
(* What the lifecycle service promises about its events, whatever crashes, *)
(* retries and concurrent callers do: an event is announced only after its *)
(* mutation is committed, a committed mutation is never withdrawn, and its *)
(* record is closed only when the event was announced at least once.       *)
(*                                                                         *)
(* An event may be announced again, also after its record was closed: the  *)
(* sink deduplicates by event ID.                                          *)
(***************************************************************************)
CONSTANT Event

VARIABLES
  stage,     \* [Event -> how far the mutation of the event has come]
  announced  \* the events the sink has accepted

Stages == {"unused", "prepared", "committed", "withdrawn", "closed"}

TypeOK ==
  /\ stage \in [Event -> Stages]
  /\ announced \in SUBSET Event

Init ==
  /\ stage = [e \in Event |-> "unused"]
  /\ announced = {}

Become(e, from, to) ==
  /\ stage[e] = from
  /\ stage' = [stage EXCEPT ![e] = to]
  /\ UNCHANGED announced

Prepare(e) == Become(e, "unused", "prepared")
Commit(e) == Become(e, "prepared", "committed")
Withdraw(e) == Become(e, "prepared", "withdrawn")
Close(e) == e \in announced /\ Become(e, "committed", "closed")

Announce(e) ==
  /\ stage[e] \in {"committed", "closed"}
  /\ announced' = announced \cup {e}
  /\ UNCHANGED stage

Next ==
  \E e \in Event :
    Prepare(e) \/ Commit(e) \/ Withdraw(e) \/ Close(e) \/ Announce(e)

Spec == Init /\ [][Next]_<<stage, announced>>
=============================================================================
