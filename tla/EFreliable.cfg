SPECIFICATION Spec
CONSTANTS
  rpc = rpc
  rest = rest
  Chain <- PairChain
  Key <- PairKey
  ChainOf <- PairChainOf
  AddressOf <- PairAddressOf
  Order <- PairOrder
  MinFailures = 2
  Cooldown = 2
  MaxEndpointPRs = 1
  Edits = {"declare", "undeclare"}
  Faults = {}
  MaxTime = 4
INVARIANTS NothingLost OnePRPerChain RunCap
ACTION_CONSTRAINT MaintainersWhenSeen
CHECK_DEADLOCK FALSE
