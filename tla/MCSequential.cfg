\* Commands one after the other on the slice below action-certificate-validation.
CONSTANTS
  Process = {p1}
  Workflow <- ProspectiveSlice
  Dependencies <- SliceDependencies
  Position <- SlicePosition
  RecordableOutcomes <- SliceOutcomes
  RaisesOnFailure <- SliceRaising
  TrailingDiagnostics <- SliceTrailing
  NoOutcome = none
  MinimumPairedCutoffs = 6
SPECIFICATION Spec
INVARIANTS TypeOK DependencyGate
PROPERTIES CompletedIsReused UpstreamNeverInvalidated EvidenceMatchesResult
