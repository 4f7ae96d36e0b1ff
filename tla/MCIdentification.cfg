CONSTANTS
  BenignCount = 0
  MalwareMinimum = 4
  NoCount = NoCount
  NoFamily = NoFamily
  NoRelease = NoRelease
  Releases <- MCReleases
  Verdicts <- MCVerdicts
  Fractions <- MCFractions
  History = 4
  Interval = 2
  Horizon = 1
  Step = 1
  MinSupport = 1
  MinReplicates = 1
  MinResiduals = 2
  MinPairs = 2
SPECIFICATION Spec
INVARIANTS
  TypeOK
  LooksAheadOnlyByChoice
  WindowsExist
  SupportRulesAgree
  StressKeepsItsBaseline
PROPERTY
  ImplementsCutoffLedger
CHECK_DEADLOCK FALSE
