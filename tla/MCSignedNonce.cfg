SPECIFICATION Spec
CONSTANTS
  Encryptors = {"first"}
  Decryptors = {"reader"}
  Filenames = {"f"}
  Entries = {}
  FileOf <- MCFileOf
  Account <- MCAccount
  Accounts = {"alice", "bob"}
  Balance <- MCBalance
  Meant <- MCSigned
  Layouts = {"tight", "spaced", "open"}
  Typed <- MCTyped
  Token = "token"
  Numbers <- MCNumbers
  AccountOf <- MCAccountOf
  SignedBy <- MCSignedBy
  Garbage = {"noise"}
  Zero = "zero"
CHECK_DEADLOCK FALSE
INVARIANTS
  LatestNonceAccepted
