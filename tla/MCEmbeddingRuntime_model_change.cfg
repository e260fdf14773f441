CONSTANTS
  Workers = {"w1"}
  Models = {"small", "other"}
  Sources = {"task", "doc"}
  Tasks = {"task"}
  MaxCalls = 2
  MaxTime = 0
  MaxChanges = 1
SPECIFICATION EmbeddingSpec
PROPERTY RebuildIsFull
