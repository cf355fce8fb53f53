SPECIFICATION Spec
CONSTANTS
  Files <- MCFiles
  NoFile = NoFile
  Keys = {"w", "1", "0", ","}
  Digits = {"1"}
  ZeroKey = "0"
  MaxLen <- MCMaxLen
  Filenames = {"w"}
  Entries = {}
  Cwd = "here"
  Numeral <- MCNumeral
  Me = "me"
  PubKey = "key"
  Signed = "sig"
  Holding = 1
  Token = "w"
  Numbers <- MCNumbers
  AccountOf <- MCAccountOf
  SignedBy <- MCSignedBy
  Garbage = {}
  Zero = "zero"
CHECK_DEADLOCK FALSE
INVARIANTS
  ScreensTypeOK
  NothingLeftBehind
  FileJustChosen
  FocusShown
  RegisteredAsMarked
  OpensWhatItLocked
