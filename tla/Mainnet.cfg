\* One policy whose clients create policies in new accounts only.
SPECIFICATION Spec
CONSTANTS
  owner = owner
  agent = agent
  payee = payee
  NoKey = NoKey
  Keys <- MCKeys
  Accounts <- MCAccounts
  DataLen <- MCDataLen
  Calls <- MCCalls
  MaxU64 = 5
  FreshAccountsOnly = TRUE
  MaxTime = 3
  MaxDelay = 1
  MaxInFlight = 2
INVARIANTS
  TypeOK
  SpentWithinBudget
  ApprovalsReconcile
  ApprovedInTime
PROPERTIES
  RevokedIsFinal
CHECK_DEADLOCK FALSE
