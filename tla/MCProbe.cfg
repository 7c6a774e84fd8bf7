SPECIFICATION Spec
CONSTANTS
  a1 = a1
  a2 = a2
  Attempts <- TwoAttempts
  RESPONSE_BYTES = 2
  MaxDisturbances = 2
SYMMETRY Interchangeable
INVARIANTS
  TextfileTruthful
  ExitTellsFile
CHECK_DEADLOCK FALSE
