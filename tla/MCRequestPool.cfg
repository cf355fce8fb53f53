SPECIFICATION PoolSpec
CONSTANTS
  Byte <- MCByte
  Requests <- MCRequests
  Accounts = {w1, w2, w3, w4}
  Attestations = {x, y}
  THRESHOLD = 2
  TOTAL_WORKERS = 3
  COUNT_MAX = 1
INVARIANTS
  PoolTypeOK
  IndexConsistent
  TallyExact
  FulfilledAtThreshold
  CombinedFromAttesters
PROPERTIES
  StoredForever
  ImplementsBoard
CHECK_DEADLOCK FALSE
