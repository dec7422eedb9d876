\* Three requests interleave statement by statement, one of them failing.
CONSTANTS
  acme = acme
  basil = basil
  Tenants = {acme, basil}
  Requests = {r1, r2, r3}
  Workload <- TwoTenants
  Keys = {1, 2}
  MaxEntries = 3
  MaxCents = 2
  Allowance = 3
  Cap = 5
  MaxErrors = 1
SYMMETRY Symmetry
SPECIFICATION Spec
INVARIANTS
  CommittedRowsAgree
  NoWaitCycle
PROPERTIES
  CommitsWholeTransactions
