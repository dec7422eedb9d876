\* Every kind of fault: three requests of two tenants on two replicas.
CONSTANTS
  acme = acme
  basil = basil
  left = left
  right = right
  Tenants = {acme, basil}
  Replicas = {left, right}
  Requests = {r1, r2, r3}
  Workload <- TwoTenants
  MaxLookups = 2
  Price = 4
  Allowance = 8
  Cap = 16
  MaxBatch = 1
  MaxInFlight = 1
  MaxErrors = 1
  MaxLostAcks = 1
  MaxCrashes = 1
SYMMETRY Symmetry
SPECIFICATION Spec
INVARIANTS
  BillWithinAuthorisation
  RowsMatchHolds
  ChecksNeverReached
  SlotsMatchCalls
  JobsWereCharged
  QuietTenantsReconcile
PROPERTIES
  RefusedByOwnPartitionOnly
  ReleasedMeansNeverCalled
  KeepsPartition
