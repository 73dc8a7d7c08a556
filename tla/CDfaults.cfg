SPECIFICATION Spec
CONSTANTS
  Chain <- MCChain
  Endpoint <- SharedEndpoint
  ChainOf <- SharedChainOf
  CheckOf <- SharedCheckOf
  DomainOf <- SharedDomainOf
  Order <- MCOrder
  MinRuns = 2
  VantageWarnPct = 60
  Cooldown = 2
  MaxStatusPRs = 1
  Faults = {"crash", "save", "label"}
  MaxGap = 2
  MaxTime = 6
INVARIANTS TypeOK SavedStateExact
PROPERTIES StatusFlipJustified StatusCooldownRespected
CHECK_DEADLOCK FALSE
