CONSTANTS
  s1 = s1
  s2 = s2
  t1 = t1
  base = base
  Nobody = Nobody
  Servers = {s1, s2}
  Tasks = {t1}
  Base = base
  Actions = {"start-agent", "start-investigation"}
  MaxRuns = 2
  MaxCrashes = 1
  MaxFaults = 0
  MaxUpsets = 1
  TimedTasks = {"t1"}
  Processes = {s1, s2}
  MaxClock = 2
  MaxTimeCalls = 3
  MaxTimeUpsets = 1
  Writers = {s1, s2}
  MaxPrograms = 2
  Clients = {"p1"}
  Requests = {"h1"}
  MaxProjects = 2
  MaxCommands = 2
  MaxMishaps = 1
SPECIFICATION SuiteSpec
SYMMETRY ServerSymmetry
INVARIANT WorkspaceIsExclusive
INVARIANT TimeCountedOnce
INVARIANT LatestStays
INVARIANT SettingsStayUsable
PROPERTY OwnRunIsNotLost
PROPERTY RevisionReproduces
PROPERTY RevisionsStay
PROPERTY ProjectsAreKept
CHECK_DEADLOCK FALSE
