CONSTANTS
  c1 = c1
  c2 = c2
  d1 = d1
  d2 = d2
  doc1 = doc1
  Nobody = Nobody
  Clients = {c1}
  Daemons = {d1, d2}
  Docs = {doc1}
  MaxEdits = 1
  MaxDeaths = 1
  MaxFaults = 1
  MaxStops = 0
  SlowStart = TRUE
SPECIFICATION FairSpec
PROPERTY JobsAreRun
