\* One policy whose clients may send CREATE_POLICY again.
SPECIFICATION Spec
CONSTANTS
  owner = owner
  agent = agent
  payee = payee
  NoKey = NoKey
  Keys <- MCKeys
  Accounts <- MCAccounts
  DataLen <- MCDataLen
  Calls <- MCCalls
  MaxU64 = 5
  FreshAccountsOnly = FALSE
  MaxTime = 3
  MaxDelay = 1
  MaxInFlight = 2
PROPERTIES
  RevokedIsFinal
CHECK_DEADLOCK FALSE
