SPECIFICATION Spec
CONSTANTS
  boot = boot
  peer = peer
  other = other
  same = same
  sr0 = sr0
  sr1 = sr1
  a = a
  b = b
  None = None
  Procs = {boot, peer, other, same}
  Serving = {boot, peer}
  Index <- MCIndex
  SubstrateName <- MCSubstrateName
  VaultPswd <- MCMaster
  IrohKeyPswd <- MCIrohPswd
  SteKeyPswd <- MCStePswd
  SubstratePswd <- MCSrPswd
  Indices = {0, 2}
  SrNames = {sr0, sr1}
  Pswds = {a, b}
  MasterPswd = a
  Rotated <- MCRotated
  MaxGen = 2
INVARIANTS
  TypeOK
  PartialsMatchHint
  WorkerSurvives
  AnnouncesItsEndpoint
  SignsForItsAccount
CHECK_DEADLOCK FALSE
