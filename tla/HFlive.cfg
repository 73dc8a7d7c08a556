SPECIFICATION Spec
CONSTANTS
  Denom <- MCDenom
  IBC <- MCIBC
  Path <- MCPath
  Hash <- MCHash
  None = None
  Chain = {"a", "b", "c"}
  Order <- MCOrder
  MaxHashPRs = 1
  Cooldown = 3
  MaxGap = 1
  Dying = {"a"}
  Drafts <- MCDrafts
INVARIANTS TypeOK
PROPERTIES Served FixIsRight
CHECK_DEADLOCK FALSE
