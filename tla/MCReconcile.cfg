SPECIFICATION Spec
CONSTANTS
  BootIds <- MCBootIds
  Fleets <- MCFleets
  inode <- MCInode
  VALID_FOR = 1
  TARGET_LIMIT = 3
  RECORDS = 2
  MAX_TIME = 2
  MAX_BOOTS = 2
INVARIANTS
  VerdictsAreTimely
  OrderIndependent
  CountsTellJournals
PROPERTIES
  LateStaysLate
