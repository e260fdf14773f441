CONSTANTS
  t1 = t1
  d1 = d1
  s1 = s1
  s2 = s2
  a = a
  b = b
  None = None
  Nobody = Nobody
  Tasks = {t1}
  Docs = {d1}
  Contents = {a, b}
  Sessions = {s1, s2}
  MaxEdits = 3
  MaxFaults = 1
SPECIFICATION SuiteSpec
SYMMETRY IndexSymmetry
INVARIANT EmbeddingsFit
PROPERTY CurrentLostInTwoWays
PROPERTY DeletedReturnsOnlyBySave
PROPERTY ReindexFailsClosed
