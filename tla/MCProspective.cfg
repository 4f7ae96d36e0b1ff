CONSTANTS
  BenignCount = 0
  MalwareMinimum = 4
  NoCount = NoCount
  NoFamily = NoFamily
  NoRelease = NoRelease
  NoFile = NoFile
  Scale = 12
  MaxDegradation = 4
  TieTolerance = 1
  Populations <- MCPopulations
  DecisionFiles <- MCDecisionFiles
  ChallengeFiles = {{}, {1}}
  Runs <- MCRuns
  PatternFiles = {{}, {5, 6}}
  History = 6
  Interval = 2
  Horizon = 2
  MinSupport = 1
  MinReplicates = 1
  MinPairs = 1
  MinPairedCutoffs = 2
  MaxMissing = 8
  MaxCoverageDeficit = 9
  HasCoverageLevels = TRUE
SPECIFICATION Spec
INVARIANTS
  OnlyRepeatedRowsArePast
  HardenedIsNearBest
  CleanCostIsWithinLimit
PROPERTY
  ImplementsCutoffLedger
CHECK_DEADLOCK FALSE
