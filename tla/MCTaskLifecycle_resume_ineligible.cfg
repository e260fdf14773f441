CONSTANTS
  t1 = t1
  t2 = t2
  p1 = p1
  p2 = p2
  r1 = r1
  NoParent = NoParent
  NoProc = NoProc
  NoRecord = NoRecord
  Reasons = {r1}
  Tasks = {t1}
  AutoArchiveEnabled = FALSE
  Procs = {p1, p2}
  Calls = {"archive", "update", "startTimer"}
  MaxEvents = 1
  MaxCrashes = 1
  MaxFaults = 0
  SlowHooks = TRUE
  Parent <- OneTaskNoParent
  InitialTasks <- DoneInitially
SPECIFICATION Spec
SYMMETRY ProcSymmetry
PROPERTY OnlyEligibleIsArchived
