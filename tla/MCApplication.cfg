SPECIFICATION FairSpec
CONSTANTS
  Networks = {"home", "open"}
  Passwords = {"right", "wrong"}
  PasswordOf <- MCPasswordOf
  Trimmed <- MCTrimmed
  StatusLags = FALSE
  MaxPending = 1
  Chunks = 2
  MaxWire = 3
  Channels = {"http", "ws"}
  AtBoot = {"http", "ws"}
INVARIANTS StoredPair UploadToldTrue OfflineWhenGone
PROPERTIES ComesOnline
