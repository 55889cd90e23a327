\* The acceptance suite with one act of others and one abandoned fork.
SPECIFICATION Spec
CONSTANTS
  NoTx = NoTx
  NoAccount = NoAccount
  MaxU64 = 100000000
  MAX_RECIPIENTS = 8
  MAX_PROGRAMS = 4
  MaxForks = 1
  MaxForeign = 1
  Genesis <- MCGenesis
INVARIANTS
  EveryBroadcastReported
  ReportTrue
  PassedSuite
PROPERTIES
  RequestsHonoured
  SuiteEnds
CHECK_DEADLOCK FALSE
