SPECIFICATION Spec
CONSTANTS
  rpc = rpc
  rest = rest
  Chain <- GatewayChain
  Key <- GatewayKey
  ChainOf <- GatewayChainOf
  AddressOf <- GatewayAddressOf
  Order <- GatewayOrder
  MinFailures = 2
  Cooldown = 2
  MaxEndpointPRs = 1
  Edits = {"declare"}
  Faults = {"crash", "save", "label"}
  MaxTime = 4
INVARIANTS TypeOK SavedStateExact
PROPERTIES JustifiedRemoval NoShielding CooldownRespected DryRunWritesNothing
SYMMETRY GatewaySymmetry
ACTION_CONSTRAINT MaintainersWhenSeen
CHECK_DEADLOCK FALSE
