\* Interrupted and repeated generation, the release and the configuration changing in between.
CONSTANTS
  before = before
  retuned = retuned
  after = after
  barren = barren
  Setting <- Settings
  CacheKey <- ReleaseKeys
  LastEndpoint = 3
  LastCandidate = 2
  Rejected <- SettingRejected
  Valid <- SettingValid
  Eligible <- SettingEligible
  MaxEmulators = 2
  NoFile = NoFile
SPECIFICATION Spec
INVARIANTS TypeOK ResumedOmitsOnlyCached EmulatorsAccountedFor
PROPERTY RejectionsKept
