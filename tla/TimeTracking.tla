---------------------------- MODULE TimeTracking ----------------------------
(***************************************************************************)
(* Timers and time entries (tasklifecycle/time.go, storage/time_store.go)  *)
(* as the command line, the MCP tool and the browser server use them:      *)
(* start, pause, resume, stop, stop all, add, status and report.           *)
(*                                                                         *)
(* Stopping a timer and adding an entry are several writes under the root  *)
(* lifecycle lock: the entries, the timers, the Task with its total, its   *)
(* version.  A write that fails is undone; a process that dies leaves what *)
(* it has written.  The clock counts half seconds, entries whole seconds.  *)
(***************************************************************************)
EXTENDS Integers, Sequences, FiniteSets, SequencesExt

CONSTANTS
  TimedTasks,    \* Tasks that can be timed, besides archived and deleted ones
  Processes,     \* processes that call the time commands
  MaxClock,      \* bound: half seconds
  MaxTimeCalls,  \* bound: calls
  MaxTimeUpsets  \* bound: writes that fail and processes that die

ASSUME NobodyIsNoProcess == "none" \notin Processes

VARIABLES
  clock,      \* now, in half seconds
  timers,     \* time.json: [TimedTasks -> Timer]
  entries,    \* time-entries.json: [TimedTasks -> Seq(Entry)]
  spent,      \* TimeSpent in the Task files
  recorded,   \* TimeSpent in the last version of each Task
  timeHolder, \* the process in the root lock between two writes, or "none"
  timeCall,   \* [Processes -> the call a process makes]
  timeCalls, timeFaults, timeCrashes

timeVars == <<clock, timers, entries, spent, recorded, timeHolder, timeCall,
              timeCalls, timeFaults, timeCrashes>>

None == -1
Timer(start, paused, total) == [start |-> start, paused |-> paused, total |-> total]
NoTimer == Timer(None, None, 0)
AnyTimed == CHOOSE t \in TimedTasks : TRUE
Entry(id, start, end, dur) == [id |-> id, start |-> start, end |-> end, dur |-> dur]
NoEntry == Entry(<<"none", 0>>, 0, 0, 0)

(* A call: its operation, the Tasks before it, the one it is at, how far   *)
(* that is, its entry, and the files of that Task as it found them.        *)
TimeCall(op, todo, t, stage, entry, timer, es, n) ==
  [op |-> op, todo |-> todo, task |-> t, stage |-> stage, entry |-> entry,
   timers |-> timer, entries |-> es, spent |-> n]
Waiting(op, todo, entry) == TimeCall(op, todo, AnyTimed, "wait", entry, NoTimer, <<>>, 0)
AtStage(c, stage) == TimeCall(c.op, c.todo, c.task, stage, c.entry, c.timers, c.entries, c.spent)
IdleCall == TimeCall("none", {}, AnyTimed, "none", NoEntry, NoTimer, <<>>, 0)

TimeInit ==
  /\ clock = 0
  /\ timers = [t \in TimedTasks |-> NoTimer]
  /\ entries = [t \in TimedTasks |-> <<>>]
  /\ spent = [t \in TimedTasks |-> 0]
  /\ recorded = [t \in TimedTasks |-> 0]
  /\ timeHolder = "none"
  /\ timeCall = [p \in Processes |-> IdleCall]
  /\ timeCalls = 0 /\ timeFaults = 0 /\ timeCrashes = 0

-----------------------------------------------------------------------------
(* Durations.                                                              *)

Active == {t \in TimedTasks : timers[t] # NoTimer}
AtLeast0(n) == IF n < 0 THEN 0 ELSE n

(* completedEntryForTimer, and with it TimeStore.stopUnlocked.             *)
Completed(t, now) ==
  LET timer == timers[t]
      paused == timer.total + (IF timer.paused = None THEN 0 ELSE now - timer.paused)
  IN Entry(<<"timer", now>>, timer.start, now, AtLeast0(now - timer.start - paused) \div 2)

TotalTimeSpent(es) == FoldSeq(LAMBDA e, n : n + e.dur, 0, es)

-----------------------------------------------------------------------------
(* Calls that are one write.                                               *)

Called(p) ==
  /\ timeCall[p] = IdleCall
  /\ timeCalls < MaxTimeCalls
  /\ timeCalls' = timeCalls + 1

(* TimeStore.Start.                                                        *)
StartTimed(p, t) ==
  /\ Called(p) /\ timeHolder = "none"
  /\ timers[t] = NoTimer
  /\ timers' = [timers EXCEPT ![t] = Timer(clock, None, 0)]
  /\ UNCHANGED <<clock, entries, spent, recorded, timeHolder, timeCall, timeFaults, timeCrashes>>

(* TimeStore.Pause and TimeStore.Resume.                                   *)
Pause(p, t) ==
  /\ Called(p) /\ timeHolder = "none"
  /\ t \in Active /\ timers[t].paused = None
  /\ timers' = [timers EXCEPT ![t] = Timer(@.start, clock, @.total)]
  /\ UNCHANGED <<clock, entries, spent, recorded, timeHolder, timeCall, timeFaults, timeCrashes>>

Unpause(p, t) ==
  /\ Called(p) /\ timeHolder = "none"
  /\ t \in Active /\ timers[t].paused # None
  /\ timers' = [timers EXCEPT ![t] = Timer(@.start, None, @.total + clock - @.paused)]
  /\ UNCHANGED <<clock, entries, spent, recorded, timeHolder, timeCall, timeFaults, timeCrashes>>

(* The Task that a command without an argument means: the only active one, *)
(* or for resume any paused one.  It is chosen outside the lock.           *)
OnlyActive == {t \in Active : Active = {t}}
CliPause(p, named) == \E t \in IF named THEN TimedTasks ELSE OnlyActive : Pause(p, t)
CliResume(p, named) == \E t \in IF named THEN TimedTasks ELSE Active : Unpause(p, t)

-----------------------------------------------------------------------------
(* Stop and add: the call first chooses its Tasks, without the lock.       *)

Ask(p, op, targets, entry) ==
  /\ Called(p)
  /\ targets # {}
  /\ timeCall' = [timeCall EXCEPT ![p] = Waiting(op, targets, entry)]
  /\ UNCHANGED <<clock, timers, entries, spent, recorded, timeHolder, timeFaults, timeCrashes>>

CliStop(p, named) ==
  IF named THEN \E t \in TimedTasks : Ask(p, "stop", {t}, NoEntry)
  ELSE Ask(p, "stop", OnlyActive, NoEntry)
HttpStop(p, all) ==
  IF all THEN Ask(p, "stop", Active, NoEntry)
  ELSE \E t \in TimedTasks : Ask(p, "stop", {t}, NoEntry)

(* The identity of an entry is its start on the command line and over HTTP,*)
(* in milliseconds and nanoseconds, and the time of the call for the MCP   *)
(* tool.  A date may be given for each; without one the start is now.      *)
Added(id, dur, start) == Entry(id, start, start + 2 * dur, dur)
CliEntry(dur, dated) ==
  IF dated THEN Added(<<"date-ms", 0>>, dur, 0) ELSE Added(<<"now", timeCalls>>, dur, clock)
HttpEntry(dur, dated) ==
  IF dated THEN Added(<<"date-ns", 0>>, dur, 0) ELSE Added(<<"now", timeCalls>>, dur, clock)
McpEntry(dur, dated) == Added(<<"now", timeCalls>>, dur, IF dated THEN 0 ELSE clock)

AddTime(p, t, entry) == Ask(p, "add", {t}, entry)

(* The transaction: the next Task of the call, what the files say of it,   *)
(* and the entry.  A Task without a timer is skipped, an entry that is     *)
(* there already is not written again, and one that differs is refused.    *)
SameID(t, entry) == {i \in DOMAIN entries[t] : entries[t][i].id = entry.id}
Repeated(t, entry) ==
  \E i \in SameID(t, entry) :
    entries[t][i].dur = entry.dur /\ entries[t][i].start = entry.start

Opened(p, t, entry) ==
  timeCall' = [timeCall EXCEPT ![p] =
    TimeCall(@.op, @.todo \ {t}, t, "entries", entry, timers[t], entries[t], spent[t])]

OpenTransaction(p) ==
  LET c == timeCall[p] IN
  /\ c.stage = "wait" /\ timeHolder = "none"
  /\ \E t \in c.todo :
       IF \/ c.op = "stop" /\ t \notin Active
          \/ c.op = "add" /\ SameID(t, c.entry) # {}
               /\ (~Repeated(t, c.entry) \/ TotalTimeSpent(entries[t]) = spent[t])
       THEN /\ timeCall' = [timeCall EXCEPT ![p] =
                 IF @.todo = {t} THEN IdleCall ELSE Waiting(@.op, @.todo \ {t}, @.entry)]
            /\ UNCHANGED timeHolder
       ELSE /\ Opened(p, t, IF c.op = "stop" THEN Completed(t, clock) ELSE c.entry)
            /\ timeHolder' = p
  /\ UNCHANGED <<clock, timers, entries, spent, recorded, timeCalls, timeFaults, timeCrashes>>

GoOn(p, stage) == timeCall' = [timeCall EXCEPT ![p] = AtStage(@, stage)]
In(p, stage) == timeHolder = p /\ timeCall[p].stage = stage

(* The transaction ends; stop all goes on with the next timer.             *)
CloseTransaction(p) ==
  /\ timeHolder' = "none"
  /\ timeCall' = [timeCall EXCEPT ![p] =
       IF @.todo = {} THEN IdleCall ELSE Waiting(@.op, @.todo, NoEntry)]

WithEntry(p) ==
  LET c == timeCall[p] IN
  IF c.op = "add" /\ Repeated(c.task, c.entry) THEN c.entries ELSE Append(c.entries, c.entry)

(* Every write, and what a failure of it leads to.                         *)
SaveEntries(p) ==
  /\ In(p, "entries")
  /\ entries' = [entries EXCEPT ![timeCall[p].task] = WithEntry(p)]
  /\ GoOn(p, IF timeCall[p].op = "stop" THEN "timers" ELSE "task")
  /\ UNCHANGED <<clock, timers, spent, recorded, timeHolder, timeCalls, timeFaults, timeCrashes>>

SaveTimers(p) ==
  /\ In(p, "timers")
  /\ timers' = [timers EXCEPT ![timeCall[p].task] = NoTimer]
  /\ GoOn(p, "task")
  /\ UNCHANGED <<clock, entries, spent, recorded, timeHolder, timeCalls, timeFaults, timeCrashes>>

SaveTotal(p) ==
  /\ In(p, "task")
  /\ spent' = [spent EXCEPT ![timeCall[p].task] = TotalTimeSpent(entries[timeCall[p].task])]
  /\ GoOn(p, "version")
  /\ UNCHANGED <<clock, timers, entries, recorded, timeHolder, timeCalls, timeFaults, timeCrashes>>

SaveTimeVersion(p) ==
  /\ In(p, "version")
  /\ recorded' = [recorded EXCEPT ![timeCall[p].task] = spent[timeCall[p].task]]
  /\ CloseTransaction(p)
  /\ UNCHANGED <<clock, timers, entries, spent, timeCalls, timeFaults, timeCrashes>>

WriteFails(p) ==
  /\ timeHolder = p /\ timeFaults + timeCrashes < MaxTimeUpsets
  /\ timeFaults' = timeFaults + 1
  /\ \/ In(p, "entries") /\ CloseTransaction(p)
     \/ timeCall[p].stage \in {"timers", "task", "version"} /\ GoOn(p, "undoTask") /\ UNCHANGED timeHolder
     \/ In(p, "undoTask")
        /\ GoOn(p, IF timeCall[p].op = "stop" THEN "undoTimers" ELSE "undoEntries")
        /\ UNCHANGED timeHolder
     \/ In(p, "undoTimers") /\ GoOn(p, "undoEntries") /\ UNCHANGED timeHolder
     \/ In(p, "undoEntries") /\ CloseTransaction(p)
  /\ UNCHANGED <<clock, timers, entries, spent, recorded, timeCalls, timeCrashes>>

(* rollbackTimeMutation: the Task, the timers and the entries as they were;*)
(* a write that fails here is reported and the next one tried.             *)
UndoTotal(p) ==
  /\ In(p, "undoTask")
  /\ spent' = [spent EXCEPT ![timeCall[p].task] = timeCall[p].spent]
  /\ GoOn(p, IF timeCall[p].op = "stop" THEN "undoTimers" ELSE "undoEntries")
  /\ UNCHANGED <<clock, timers, entries, recorded, timeHolder, timeCalls, timeFaults, timeCrashes>>

UndoTimers(p) ==
  /\ In(p, "undoTimers")
  /\ timers' = [timers EXCEPT ![timeCall[p].task] = timeCall[p].timers]
  /\ GoOn(p, "undoEntries")
  /\ UNCHANGED <<clock, entries, spent, recorded, timeHolder, timeCalls, timeFaults, timeCrashes>>

EntriesLeft(p) == entries
EntriesBefore(p) == [entries EXCEPT ![timeCall[p].task] = timeCall[p].entries]
UndoEntries(p) ==
  /\ In(p, "undoEntries")
  /\ entries' = EntriesBefore(p)
  /\ CloseTransaction(p)
  /\ UNCHANGED <<clock, timers, spent, recorded, timeCalls, timeFaults, timeCrashes>>

DieTiming(p) ==
  /\ timeCall[p] # IdleCall /\ timeFaults + timeCrashes < MaxTimeUpsets
  /\ timeCrashes' = timeCrashes + 1
  /\ timeCall' = [timeCall EXCEPT ![p] = IdleCall]
  /\ timeHolder' = IF timeHolder = p THEN "none" ELSE timeHolder
  /\ UNCHANGED <<clock, timers, entries, spent, recorded, timeCalls, timeFaults>>

Tick ==
  /\ clock < MaxClock
  /\ clock' = clock + 1
  /\ UNCHANGED <<timers, entries, spent, recorded, timeHolder, timeCall, timeCalls,
                 timeFaults, timeCrashes>>

TimeNext ==
  \/ \E p \in Processes :
       \/ \E t \in TimedTasks : StartTimed(p, t)
       \/ \E b \in BOOLEAN : CliPause(p, b) \/ CliResume(p, b) \/ CliStop(p, b) \/ HttpStop(p, b)
       \/ \E t \in TimedTasks, b \in BOOLEAN :
            \/ AddTime(p, t, CliEntry(1, b))
            \/ AddTime(p, t, HttpEntry(1, b))
            \/ AddTime(p, t, McpEntry(1, b))
       \/ OpenTransaction(p) \/ SaveEntries(p) \/ SaveTimers(p) \/ SaveTotal(p)
       \/ SaveTimeVersion(p) \/ WriteFails(p) \/ UndoTotal(p) \/ UndoTimers(p) \/ UndoEntries(p)
       \/ DieTiming(p)
  \/ Tick

TimeSpec == TimeInit /\ [][TimeNext]_timeVars

-----------------------------------------------------------------------------
(* Properties.                                                             *)

Settled == timeHolder = "none" /\ timeCrashes = 0 /\ timeFaults <= 1

(* "StopTimer atomically removes an active timer, appends its completed    *)
(* entry, increments canonical Task.TimeSpent, and records the Task        *)
(* version": outside the lock no second of a timer is in two entries, or in*)
(* an entry and the timer, and the Task and its version hold the total of  *)
(* the entries, one failing write included.  A process that dies in the    *)
(* middle, or a rollback that fails, does count time twice.                *)
TimeCountedOnce ==
  Settled => \A t \in TimedTasks :
    LET es == entries[t]
        timed == {i \in DOMAIN es : es[i].id[1] = "timer"}
    IN
    /\ spent[t] = TotalTimeSpent(es) /\ recorded[t] = spent[t]
    /\ \A i, j \in timed : i < j => es[i].end <= es[j].start
    /\ t \in Active => \A i \in timed : es[i].end <= timers[t].start

=============================================================================
