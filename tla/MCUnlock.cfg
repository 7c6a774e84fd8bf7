SPECIFICATION FairSpec
CONSTANTS
  N = 4
  MaxOperations = 2
  Quorums <- MCQuorums
  Kinds = {"Timeout", "Unavailable"}
INVARIANTS
  ReleaseHasEvidence
  StatusHasCause
  WindowIsFull
  DiagnosticsExact
PROPERTIES
  AnswersStand
  KeepsCustody
  Terminates
  QuorumOpens
CHECK_DEADLOCK FALSE
