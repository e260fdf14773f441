CONSTANTS
  p1 = p1
  p2 = p2
  r1 = r1
  t1 = t1
  t2 = t2
  NoParent = NoParent
  NoProc = NoProc
  NoRecord = NoRecord
SPECIFICATION FairSpec
PROPERTY SweepRespectsRetention
PROPERTY SweepDrainsOutbox
