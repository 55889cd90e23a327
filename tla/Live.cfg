\* One live policy whose routed programs keep to the vault they are given.
SPECIFICATION Spec
CONSTANTS
  owner = owner
  agent = agent
  executor = executor
  maker = maker
  trader = trader
  Q = Q
  O = O
  MARKET = MARKET
  OtherProgram = OtherProgram
  NoAccount = NoAccount
  MaxU64 = 7
  MAX_RECIPIENTS = 2
  MAX_PROGRAMS = 1
  MaxTime = 2
  MaxLog = 3
  KeepsToVault = TRUE
  Wallets <- MCWallets
  Mints <- MCMints
  ClassicMints = {Q}
  Programs <- MCPrograms
  SignerOf <- MCSignerOf
  TokenAccounts <- MCTokenAccounts
  MintOf <- MCMintOf
  InitialBalance <- MCInitialBalance
  InitialAuthority <- MCInitialAuthority
  Transfers <- MCTransfers
  HandOvers <- MCHandOvers
  Encumbrances <- MCEncumbrances
  Amounts = {1}
  Placements <- MCPlacements
  PolicyArgs <- MCPolicyArgs
  RouteRequests <- MCRouteRequests
  Outcomes <- MCOutcomes
  RecoverRequests <- MCRecoverRequests
INVARIANTS
  TypeOK
  LogReconciles
  OwnerCanExit
PROPERTIES
  MandateHonoured
  RecipientPaid
CHECK_DEADLOCK FALSE
