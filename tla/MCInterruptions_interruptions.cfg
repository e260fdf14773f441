CONSTANTS
  p1 = p1
  p2 = p2
  r1 = r1
  t1 = t1
  NoParent = NoParent
  NoProc = NoProc
  NoRecord = NoRecord
  Reasons = {r1}
  Tasks = {t1}
  Parent <- OneTaskNoParent
  AutoArchiveEnabled = FALSE
  Procs = {p1, p2}
  Calls = {"reopen", "delete", "create", "startTimer"}
  InitialTasks <- NoneOrOld
  MaxEvents = 2
  MaxCrashes = 1
  MaxFaults = 0
  SlowHooks = FALSE
SPECIFICATION SuiteSpec
SYMMETRY ProcSymmetry
INVARIANT CrashLagIsRecorded
INVARIANT OneVersionPerEvent
INVARIANT FailedMoveIsRecorded
INVARIANT DeletedLeavesNothing
PROPERTY NoLostEdit
PROPERTY NoResurrection
