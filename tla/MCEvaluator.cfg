SPECIFICATION FairSpec
CONSTANTS
  c1 = c1
  c2 = c2
  Connections <- MCConnections
  MAX_CONNECTIONS = 1
  MAX_WORK = 1
INVARIANTS
  OneObservation
  GaugeWithinLimit
  ResponseTruthful
PROPERTIES
  Drains
CHECK_DEADLOCK FALSE
