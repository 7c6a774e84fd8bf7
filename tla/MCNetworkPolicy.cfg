SPECIFICATION Spec
CONSTANTS
  SECRET_LEN = 2
  MAX_SHARES = 31
  MAX_NODES = 11
  MAX_DEPTH = 4
  TPM_NODE_ID = 1
  NETWORKS <- MCNetworks
  SHARED <- SharedNetworks
  SECRETS <- MCSecrets
  COEFFICIENTS <- MCCoefficients
  UNKNOWN_ID = 99
  MAX_SUPPLIED = 4
  MAX_ALTERED = 1
  ALTERATION <- FlippedBit
INVARIANTS
  CompilesFaithfully
  MiscompilationIsCaught
  RecoversAsTheTreeSays
CHECK_DEADLOCK FALSE
