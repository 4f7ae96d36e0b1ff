\* Two overlapping commands on the slice below nested-calibration.
CONSTANTS
  Process = {p1, p2}
  Workflow <- CalibrationSlice
  Dependencies <- SliceDependencies
  Position <- SlicePosition
  RecordableOutcomes <- SliceOutcomes
  RaisesOnFailure <- SliceRaising
  TrailingDiagnostics <- SliceTrailing
  NoOutcome = none
  MinimumPairedCutoffs = 6
SPECIFICATION FairSpec
INVARIANTS ResultHasEvidence ClosedUnlessRegressed
PROPERTIES ImplementsLedger CommandTerminates
