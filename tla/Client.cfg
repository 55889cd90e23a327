\* Each part of the client software on its own.
SPECIFICATION Spec
CONSTANTS
  NoAccount = NoAccount
  MaxU64 = 4
  MAX_RECIPIENTS = 2
  MAX_PROGRAMS = 1
  Recipients = {"owner", "attacker"}
  Programs = {"token"}
  Amounts <- MCAmounts
  MaxTime = 2
  TestClients = {t}
  MainClients = {m}
  LocalHost = TRUE
  MaxSwitches = 2
  Wallets = {"w1", "w2"}
  TokenAccounts = {"t1", "t2"}
  MAX_KEYS = 12
  MaxInstructions = 2
  Holders <- MCHolders
  Addresses <- MCAddresses
  Cells = {0, 1, 2}
  MaxCharges = 1
  MaxDamage = 2
  Digits = {0, 1, 2, 9}
  WHOLE = 2
  DECIMALS = 2
  MAX_BUDGET = 10
  Symbols = {1, 2}
  Scores = {1, 2}
  MaxCandidates = 3
  Tries = 3
INVARIANTS
  PreviewRight
  MeantClusterOnly
  Sendable
  DecodedRight
  WishExact
  LaunchSafe
PROPERTY
  LauncherEnds
CHECK_DEADLOCK FALSE
