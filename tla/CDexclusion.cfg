SPECIFICATION Spec
CONSTANTS
  Chain <- MCChain
  Endpoint <- SharedEndpoint
  ChainOf <- SharedChainOf
  CheckOf <- SharedCheckOf
  DomainOf <- SharedDomainOf
  Order <- MCOrder
  MinRuns = 2
  VantageWarnPct = 60
  Cooldown = 2
  MaxStatusPRs = 1
  Faults = {}
  MaxGap = 2
  MaxTime = 3
INVARIANTS StreakExcluded

CHECK_DEADLOCK FALSE
