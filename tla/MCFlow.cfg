\* The chain run again and again under changing inputs, killed between any two writes.
CONSTANTS
  prepared = prepared
  acquired = acquired
  uncalibrated = uncalibrated
  empty = empty
  Version <- Versions
  Observed <- ObservedVersions
  Selecting <- SelectingVersions
  Prepared <- PreparedVersions
  Challenging <- ChallengingVersions
  Generating <- GeneratingVersions
  NoFile = NoFile
  NoOutcome = NoOutcome
SPECIFICATION Spec
INVARIANTS TypeOK PassHasEvidence RenewalRefreshes
PROPERTY RecordedPassIsOfFiles
