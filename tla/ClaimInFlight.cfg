\* Abandoned calls go on beside new ones.
CONSTANTS
  acme = acme
  basil = basil
  left = left
  right = right
  Tenants = {acme}
  Replicas = {left}
  Requests = {r1, r2}
  Workload <- OneTenant
  MaxLookups = 2
  Price = 4
  Allowance = 16
  Cap = 16
  MaxBatch = 1
  MaxInFlight = 1
  MaxErrors = 0
  MaxLostAcks = 0
  MaxCrashes = 0
SYMMETRY Symmetry
SPECIFICATION Spec
INVARIANTS
  ProviderLoadWithinCapacity
