CONSTANTS
  c1 = c1
  c2 = c2
  small = small
  large = large
  Writers = {c1, c2}
  Names = {small, large}
  Inodes = {1, 2, 3, 4}
  NoInode = 0
  Cohort <- MCCohort
  Size <- MCSize
  Budget = 1
  MaxKills = 1
SPECIFICATION FairSpec
INVARIANTS
  ContentionHeals
  BudgetBoundsDownloads
PROPERTIES
  ImplementsStore
  EventuallyAcquired
CHECK_DEADLOCK FALSE
