CONSTANTS
  ObservationFiles <- MCObservationFiles
  ActionFiles <- MCActionFiles
  NoFile = NoFile
  Seeds = 2
  Scale = 24
  TargetCoverage = 18
  MaxClean = 36
  MinMatchFraction = 12
SPECIFICATION Spec
INVARIANTS
  NarrowingKeepsDecision
  MatchesAreExact
  PatternNeedsSeparation
  EqualWidthsCertifyByPoint
CHECK_DEADLOCK FALSE
