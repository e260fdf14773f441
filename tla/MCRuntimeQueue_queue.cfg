CONSTANTS
  c1 = c1
  c2 = c2
  d1 = d1
  d2 = d2
  doc1 = doc1
  Nobody = Nobody
  Clients = {c1, c2}
  Daemons = {d1, d2}
  Docs = {doc1}
  MaxEdits = 3
  MaxDeaths = 1
  MaxFaults = 0
  MaxStops = 1
  SlowStart = FALSE
SPECIFICATION Spec
SYMMETRY QueueSymmetry
CONSTRAINT FewAfterwards
INVARIANT OneOwner
PROPERTY ForgottenInKnownWays
