\* The demo alone, or two runs that share the agent's keys and one policy.
SPECIFICATION Spec
CONSTANTS
  NoTx = NoTx
  NoAccount = NoAccount
  MaxU64 = 1000000
  MAX_RECIPIENTS = 8
  MAX_PROGRAMS = 4
  r1 = r1
  r2 = r2
  Runs = {r1, r2}
  Evaluating = {r2}
  MaxForks = 2
  Genesis <- MCGenesis
  Plans <- MCPlans
INVARIANTS
  NoBlindRetry
  ProvisionalOnly
PROPERTIES
  RequestsHonoured
  EveryRunEnds
CHECK_DEADLOCK FALSE
