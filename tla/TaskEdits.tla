------------------------------ MODULE TaskEdits ------------------------------
(***************************************************************************)
(* Edits of a Task by the command line, the MCP tools and the HTTP routes: *)
(* of its acceptance criteria by position, and of its status.  Each is one *)
(* transaction on the Task as it is then; what the caller has read may be  *)
(* older.                                                                  *)
(***************************************************************************)
EXTENDS Integers, FiniteSets, SequencesExt

CONSTANTS
  MaxCriteria,    \* bound: criteria ever written
  MaxEdits        \* bound: edits

VARIABLES
  state,          \* "todo", "done" or "archived"
  clock,          \* who set CompletedAt: "none", "server" or "client"
  criteria,       \* a sequence of [text, completed]
  written,        \* criteria written so far
  view,           \* the criteria as the caller last read them
  edits,          \* edits so far
  said            \* what the last edit was to do, when its caller knew the list

editVars == <<state, clock, criteria, written, view, edits, said>>

Item(n) == [text |-> n, completed |-> FALSE]
Silent == [fresh |-> FALSE, drops |-> {}, checks |-> {}]

EditInit ==
  /\ state \in {"todo", "done"}
  /\ clock = IF state = "done" THEN "server" ELSE "none"
  /\ criteria = <<Item(1), Item(2)>> /\ written = 2
  /\ view = criteria /\ edits = 0 /\ said = Silent

-----------------------------------------------------------------------------
(* Criteria by position.                                                   *)
InRange(i, list) == i \in 1..Len(list)
Texts(list) == {list[i].text : i \in DOMAIN list}
Distinct(seq) == Cardinality(ToSet(seq)) = Len(seq)

AddAll(list, n) == list \o [i \in 1..n |-> Item(written + i)]
CheckAll(list, positions, to) == [i \in DOMAIN list |-> IF i \in positions THEN [list[i] EXCEPT !.completed = to] ELSE list[i]]

(* Mutant for EditsAreExact: positions are removed in the order given.     *)
AsGiven(positions) == positions

(* The later position first, so that the earlier ones keep their place.    *)
Descending(positions) == IF Len(positions) = 2 /\ positions[2] > positions[1] THEN Reverse(positions) ELSE positions

RemoveAll(list, positions) ==
  FoldLeft(LAMBDA l, i : IF InRange(i, l) THEN RemoveAt(l, i) ELSE l, list, Descending(positions))

(* Every position is in range when its turn comes.                         *)
AllInRange(list, positions) ==
  LET ordered == Descending(positions)
  IN \A k \in DOMAIN ordered : InRange(ordered[k], RemoveAll(list, SubSeq(ordered, 1, k - 1)))

Positions == 1..MaxCriteria
Singles == {{}} \cup {{i} : i \in Positions}
Lists == {<<>>} \cup {<<i>> : i \in Positions} \cup {<<i, j>> : i, j \in Positions}

(* The command line and MCP: additions, then checks, then removals, on the *)
(* list as it is.                                                          *)
Changed(n, mark, to, remove) == RemoveAll(CheckAll(AddAll(criteria, n), mark, to), remove)

(* What the caller wants: positions in the list he has read and added to.  *)
Meaning(n, exact, drops, checks) ==
  LET list == AddAll(view, n)
      named(positions) == {list[i].text : i \in positions \cap DOMAIN list}
  IN IF view = criteria /\ exact THEN [fresh |-> TRUE, drops |-> named(drops), checks |-> named(checks)] ELSE Silent

ServerClock(status, forged) ==
  IF status # "done" THEN "none" ELSE IF state = "done" THEN clock ELSE "server"

(* UpdateTask: on a fresh copy and unless the Task is archived; its        *)
(* identity and its clocks stay the server's, whatever the edit says.      *)
UpdateTask(list, status, forged, meaning) ==
  /\ state # "archived" /\ edits < MaxEdits
  /\ criteria' = list /\ written' = written + Cardinality(Texts(list) \ Texts(criteria))
  /\ state' = status /\ clock' = ServerClock(status, forged)
  /\ edits' = edits + 1 /\ said' = meaning
  /\ UNCHANGED view

(* A position out of range fails the whole edit of the command line.       *)
CliEdit ==
  \E n \in 0..1, mark \in Singles, to \in BOOLEAN, remove \in Lists, status \in {"todo", "done"} :
    /\ written + n <= MaxCriteria
    /\ \A i \in mark : InRange(i, AddAll(criteria, n))
    /\ AllInRange(AddAll(criteria, n), remove)
    /\ UpdateTask(Changed(n, mark, to, remove), status, FALSE,
                  Meaning(n, Distinct(remove), ToSet(remove), IF to THEN mark ELSE {}))

(* MCP ignores it.                                                         *)
McpUpdate ==
  \E n \in 0..1, mark \in Singles, to \in BOOLEAN, remove \in Lists, status \in {"todo", "done"} :
    /\ written + n <= MaxCriteria
    /\ UpdateTask(Changed(n, mark, to, remove), status, FALSE,
                  Meaning(n, Distinct(remove), ToSet(remove), IF to THEN mark ELSE {}))

(* HTTP replaces the whole list by the one the client has made of what it  *)
(* read; the patch may hold fields that are not the client's to set.       *)
HttpUpdate ==
  \E drop, check \in {{}} \cup {{i} : i \in DOMAIN view}, status \in {"todo", "done"}, forged \in BOOLEAN :
    LET kept == CheckAll(view, check, TRUE)
    IN UpdateTask(RemoveAll(kept, SetToSeq(drop)), status, forged, Meaning(0, TRUE, drop, check))

View ==
  /\ view # criteria /\ view' = criteria
  /\ said' = Silent
  /\ UNCHANGED <<state, clock, criteria, written, edits>>

(* The lifecycle service archives the Task, and reopens it.                *)
OthersMove ==
  /\ \/ state = "done" /\ state' = "archived" /\ UNCHANGED clock
     \/ state = "archived" /\ state' = "todo" /\ clock' = "none"
  /\ said' = Silent
  /\ UNCHANGED <<criteria, written, view, edits>>

EditNext == CliEdit \/ McpUpdate \/ HttpUpdate \/ View \/ OthersMove

Spec == EditInit /\ [][EditNext]_editVars

-----------------------------------------------------------------------------
(* An edit by one who has read the list as it is removes the criteria it   *)
(* names and no other, and completes no criterion it does not name; no     *)
(* edit sets the clock the retention counts from.  A position given twice  *)
(* is left out: the second time it is the next criterion                   *)
(* (cli/task.go:415).                                                      *)
EditsAreExact ==
  [][/\ clock' # "client"
     /\ edits' # edits /\ said'.fresh =>
          /\ Texts(criteria) \ Texts(criteria') = said'.drops \cap Texts(criteria)
          /\ said'.drops \cap Texts(criteria') = {}
          /\ \A item \in ToSet(criteria') : item.completed => item.text \in said'.checks \/ item \in ToSet(criteria)]_editVars
=============================================================================
