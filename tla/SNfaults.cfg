SPECIFICATION Spec
CONSTANTS
  Chain = {"a", "b"}
  Order <- MCOrder
  Filters <- MCFilters
  MinFailures = 1
  MinRuns = 2
  Cooldown = 2
  Listed <- MCListed
  Cap <- MCCap
  Faults = {"crash", "save", "label", "notice"}
  MaxTime = 3
INVARIANTS TypeOK SavedStateExact FlowCaps SupersededNoticed
PROPERTIES RightFlow FlowCooldown
CONSTRAINT NothingLostSoFar
ACTION_CONSTRAINT MaintainersWhenSeen
CHECK_DEADLOCK FALSE
