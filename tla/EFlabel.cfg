SPECIFICATION Spec
CONSTANTS
  rpc = rpc
  rest = rest
  Chain <- GatewayChain
  Key <- GatewayKey
  ChainOf <- GatewayChainOf
  AddressOf <- GatewayAddressOf
  Order <- GatewayOrder
  MinFailures = 2
  Cooldown = 2
  MaxEndpointPRs = 1
  Edits = {"declare", "undeclare"}
  Faults = {"label"}
  MaxTime = 4
INVARIANTS OnePRPerChain
ACTION_CONSTRAINT MaintainersWhenSeen
CHECK_DEADLOCK FALSE
