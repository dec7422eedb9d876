\* Two requests of any kind over two replicas with one connection each: a bundle
\* larger than its flushes and chunks, an enrich, a read, a neighbour under half
\* fix 5 and the counted half fixes, with a failed statement and a crash, and a
\* provider that may be silent or not.
SPECIFICATION Spec
CONSTANTS
  acme = acme  basil = basil  alias = alias
  left = left  right = right
  Tenants = {acme, basil}
  Keys = {acme, basil, alias}
  Replicas = {left, right}
  Requests = {r1, r2}
  Workload <- Everything
  MaxLookups = 3
  Price = 2
  Cap = 11
  PoolSize = 1
  Flush = 2
  Chunk = 2
  LocalAllowance = 4
  MaxErrors = 1
  MaxCrashes = 1
INVARIANTS
  PeriodPaysBill
  AdmittedIsHonest
  JobsReportBill
  EnforcedPerProcess
  ConnectionsMatchHolders
PROPERTIES
  ReadsAnswered
  NobodyWaitsForever
