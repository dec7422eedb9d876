\* Two suites on the same processes, with time, a restart, a 503 and an abandoned call.
SPECIFICATION Spec
CONSTANTS
  basil = basil  orchid = orchid  wren = wren
  Keys = {basil, orchid, wren}
  Prover = basil
  Spender = orchid
  Third = wren
  Sessions <- TheSessions
  Cap = 13
  Allowance = 4
  Batch = 2
  Bundle = 130
  Chunk = 5
  PoolSize = 2
  Abandoned = 1
  SpendLimit = 9
  Tolerance = 5
  MaxRequests = 6
  Window = 2
  MaxGrants = 30
  MaxTime = 2
  MaxSuites = 2
  MaxRestarts = 1
  MaxErrors = 1
INVARIANTS
  VerdictsAreTrue
  FreshSuiteReproduces
  BillIsPoolAndAbandoned
  WindowIsExact
