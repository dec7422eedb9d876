\* Both scenarios, with an abandoned call, or a lapse, or both.
SPECIFICATION Spec
CONSTANTS
  spender = spender  bystander = bystander
  Tenants = {spender, bystander}
  Spender = spender
  Load <- TwoScenarios
  MinRounds = 2
  MaxRounds = 4
  Setup = 1
  Allowance = 6
  Cap = 12
  Capacity = 4
  MaxDeadlines = 1
  MaxLapses = 1
INVARIANTS
  MoneyAlarmHasCause
  CalmRunIsBounded
  LapseIsReported
