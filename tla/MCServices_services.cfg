CONSTANTS
  Callers = {"w1", "w2"}
  MaxLinks = 2
  MaxImages = 3
  MaxCalls = 2
  MaxMishaps = 1
  Calls = {"c1", "c2", "c3"}
  Plain = {"c1", "c2", "c3"}
  Processes = {"p1", "p2"}
  MaxChanges = 0
  MaxDeaths = 1
  Tasks = {"t1", "t2"}
  MaxRequests = 2
  Updaters = {"u1", "u2"}
  MaxVersion = 2
  MaxFailures = 1
  Servers = {"s1", "s2"}
  Tabs = {"b1", "b2"}
  Notices = {"n1"}
  Attempts = 2
  QueueSize = 1
  MaxUpsets = 1
SPECIFICATION Spec
INVARIANT SuccessMeansDone
INVARIANT BinaryIsWhole
INVARIANT LeftOutOnlyWhenFull
INVARIANT ImagesFollowLinks
INVARIANT PresetIsKept
INVARIANT ChangesAreOnRecord
INVARIANT ReferencesAreSound
INVARIANT ChangesReachTabs
PROPERTY ChatLostInTwoWays
PROPERTY EditsAreExact
PROPERTY OthersKept
CHECK_DEADLOCK FALSE
