SPECIFICATION FairSpec
CONSTANTS
  e1 = e1
  e2 = e2
  r1 = r1
  r2 = r2
  Enrollers <- MCEnrollers
  Resumers <- MCResumers
  SLOT_COUNT = 3
  Space = 5
  Scenarios <- MCScenarios
INVARIANTS
  BundleBeforeSlot
  TokenHasItsSlot
  JournalTruthful
  StorageReportTruthful
PROPERTIES
  NothingOverwritten
  ResumeCompletes
