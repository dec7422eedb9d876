\* Two requests on either side of a seeding: what the new run inherits, and that
\* every request is answered and every hold drains, whatever fails.
CONSTANTS
  acme = acme
  basil = basil
  left = left
  right = right
  Tenants = {acme, basil}
  Replicas = {left, right}
  Requests = {r1, r2}
  Workload <- TwoTenants
  MaxLookups = 2
  Price = 4
  Allowance = 8
  Cap = 16
  MaxBatch = 1
  MaxInFlight = 1
  MaxErrors = 1
  MaxLostAcks = 1
  MaxCrashes = 1
  MaxRuns = 1
SPECIFICATION ReseedFairSpec
INVARIANTS
  CarriedOverIsAccounted
PROPERTIES
  RunAnswersEveryRequest
  RunHoldsDrain
