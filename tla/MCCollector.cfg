SPECIFICATION Spec
CONSTANTS
  t1 = t1
  t2 = t2
  t3 = t3
  t4 = t4
  first = first
  second = second
  Emitters <- MCEmitters
  Threads <- MCThreads
  owner <- MCOwner
  Anonymous = {}
  Events <- MCEvents
  CAPACITY = 1
  MAX_EMITS = 3
  MAX_REPLAY = 2
  MAX_SERIES = 4
  Sources <- MCSources
  LOG_LIMIT = 1
  MAX_FAULTS = 2
  MAX_COPIES = 1
SYMMETRY Interchangeable
INVARIANTS
  NeverAppendsToTail
  IdentitiesDistinct
  ReplayRestoresHistory
  BoundsAccountedFor
CHECK_DEADLOCK FALSE
