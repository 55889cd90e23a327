\* One policy on one pool, each instruction a transaction of its own.
SPECIFICATION Spec
CONSTANTS
  owner = owner
  agent = agent
  agent2 = agent2
  executor = executor
  admin = admin
  trader = trader
  Q = Q
  O = O
  TOKEN = TOKEN
  OtherProgram = OtherProgram
  NoAccount = NoAccount
  MaxU64 = 7
  MAX_RECIPIENTS = 2
  MAX_PROGRAMS = 1
  MaxTime = 2
  MaxLog = 3
  Wallets <- MCWallets
  Mints <- MCMints
  Programs <- MCPrograms
  TokenAccounts <- MCTokenAccounts
  MintOf <- MCMintOf
  InitialBalance <- MCInitialBalance
  InitialAuthority <- MCInitialAuthority
  Transfers <- OneTransfers
  HandOvers <- OneHandOvers
  Encumbrances <- OneEncumbrances
  Amounts <- OneAmounts
  Placements <- OnePlacements
  PoolArgs <- OnePoolArgs
  PolicyArgs <- OnePolicyArgs
  SwapRequests <- OneSwapRequests
  RecoverRequests <- OneRecoverRequests
INVARIANTS
  TypeOK
  SpentWithinLimit
  LogReconciles
  OwnerCanExit
PROPERTIES
  MandateHonoured
  FloorHonoured
  VaultOutflow
CHECK_DEADLOCK FALSE
