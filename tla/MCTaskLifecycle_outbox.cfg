CONSTANTS
  t1 = t1
  t2 = t2
  p1 = p1
  p2 = p2
  r1 = r1
  NoParent = NoParent
  NoProc = NoProc
  NoRecord = NoRecord
  Reasons = {r1}
  Tasks = {t1}
  AutoArchiveEnabled = TRUE
  Procs = {p1}
  Calls = {"archive", "sweep", "reopen", "delete", "update", "create", "startTimer", "stopTimer"}
  MaxEvents = 1
  MaxCrashes = 1
  MaxFaults = 1
  SlowHooks = FALSE
  Parent <- OneTaskNoParent
  InitialTasks <- AnyInitially
SPECIFICATION Spec
INVARIANT Inv
PROPERTY EventsFollowOutbox
