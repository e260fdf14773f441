CONSTANTS
  Callers = {"c1"}
  Scopes <- NoneAndOne
  Titles <- TwoTitles
  MaxFileCalls = 2
  MaxFileDeaths = 1
SPECIFICATION FilesSpec
PROPERTY DeleteRemovesFiles
