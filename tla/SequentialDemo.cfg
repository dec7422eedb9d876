\* The sequential demonstration against two replicas, after an earlier run
\* whose last request may still be in flight; a failed statement and a crash.
CONSTANTS
  acme = acme
  basil = basil
  left = left
  right = right
  Tenants = {acme, basil}
  Replicas = {left, right}
  Requests = {1, 2, 3, 4, 5, 6, 7, 8, 9, 10, 11, 12, 13, 14, 101}
  Earlier = {101}
  Workload <- TheWork
  EarlierWork <- EarlierTraffic
  Order <- OverBothReplicas
  Spender = acme
  Bystander = basil
  Ordinary = 1
  Bundle = 1
  Slack = 1
  MaxLookups = 3
  Price = 1
  Allowance = 4
  Cap = 8
  MaxBatch = 2
  MaxInFlight = 1
  MaxErrors = 1
  MaxLostAcks = 0
  MaxCrashes = 1
  MaxRuns = 1
SPECIFICATION DemoSpec
INVARIANTS
  FailureHasCause
  AuditGateAgrees
PROPERTIES
  PassHidesNothing
