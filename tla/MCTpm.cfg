SPECIFICATION Spec
CONSTANTS
  PCRS <- Indices
  MASK <- Selected
  UNCOUNTED <- Uncounted
  MAX_EXTENDS = 2
  MAX_EVENTS = 2
PROPERTIES
  DigestIsOneState
  ReleasedInBoundState
  RefusalMeansChange
CHECK_DEADLOCK FALSE
