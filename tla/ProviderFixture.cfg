\* Calls held, slowed and overtaken by the seeding of a second run.
SPECIFICATION FairSpec
CONSTANTS
  acme = acme  basil = basil
  Tenants = {acme, basil}
  Calls = {c1, c2, c3}
  Workload <- TwoTenants
  MaxItems = 2
  Runs = 2
INVARIANTS
  BillIsWhatWasCharged
  PeakIsHighWater
PROPERTIES
  HeldCallsLeave
