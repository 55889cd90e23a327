\* Two policies that compete for one pool, in transactions of every shape.
SPECIFICATION Spec
CONSTANTS
  owner = owner
  agent = agent
  agent2 = agent2
  executor = executor
  admin = admin
  trader = trader
  Q = Q
  O = O
  TOKEN = TOKEN
  OtherProgram = OtherProgram
  NoAccount = NoAccount
  MaxU64 = 7
  MAX_RECIPIENTS = 2
  MAX_PROGRAMS = 1
  MaxTime = 2
  MaxLog = 3
  Wallets <- MCWallets
  Mints <- MCMints
  Programs <- MCPrograms
  TokenAccounts <- MCTokenAccounts
  MintOf <- MCMintOf
  InitialBalance <- TwoInitialBalance
  InitialAuthority <- MCInitialAuthority
  Transfers <- TwoTransfers
  HandOvers <- TwoHandOvers
  Encumbrances <- TwoEncumbrances
  Amounts <- OneAmounts
  Placements <- TwoPlacements
  PoolArgs <- TwoPoolArgs
  PolicyArgs <- TwoPolicyArgs
  SwapRequests <- TwoSwapRequests
  RecoverRequests <- TwoRecoverRequests
INVARIANT
  OneSpendPerTransaction
PROPERTY
  PoolPriceHonoured
CHECK_DEADLOCK FALSE
