CONSTANTS
  BenignCount = 0
  MalwareMinimum = 4
  NoCount = NoCount
  NoFamily = NoFamily
  Sources <- MCSources
  Releases <- MCReleases
  NoRelease = NoRelease
  History = 3
  Horizon = 2
  Step = 1
  SplitCutoff = 5
  NoId = NoId
  MaxCommands = 2
SPECIFICATION PreparationSpec
INVARIANTS HistoriesAreObserved RetainedInOnePartition
CHECK_DEADLOCK FALSE
