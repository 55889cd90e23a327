\* Up to four runs of the set-up, two of which may be cut short.
SPECIFICATION Spec
CONSTANTS
  NoTx = NoTx
  MaxForks = 0
  Genesis <- MCGenesis
  Wallets <- MCWallets
  Paying <- MCPaying
  Mints <- MCMints
  Fixtures <- MCFixtures
  Funding <- MCFunding
  MaxRuns = 4
  MaxFaults = 2
INVARIANTS
  FundedOnce
  NoKeyLost
  DeploymentTrue
PROPERTIES
  EventuallyReady
CHECK_DEADLOCK FALSE
