SPECIFICATION GatesSpec
CONSTANTS
  N = 3
  Quorums <- MCQuorums
INVARIANTS
  SessionReleaseJustified
  GateReleaseJustified
CHECK_DEADLOCK FALSE
