SPECIFICATION FairSpec
CONSTANTS
  Byte <- MCByte
  Requests <- MCRequests
  Accounts = {w1}
  Attestations = {x}
  THRESHOLD = 1
  TOTAL_WORKERS = 2
  COUNT_MAX = 10
  Filenames <- MCFilenames
  Entries <- MCEntries
  Nodes = {n1}
  HexWitnesses <- MCHexWitnesses
  Addresses <- MCAddresses
  Handlers <- MCHandlers
  Silent <- MCSilent
  Verdict <- MCVerdict
  NoEntry = NoEntry
  MaxRestarts = 1
INVARIANTS
  TypeOK
  TakenInOrder
  ServedOnlyIfVerified
PROPERTIES
  TakenUnlessBlocked
  ImplementsDesk
