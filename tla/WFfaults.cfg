SPECIFICATION Spec
CONSTANTS
  Run = {r1, r2}
  File <- MCFile
  Target <- MCTarget
  FileOf <- MCFileOf
  Order <- MCOrder
  Depths = {"shallow", "full"}
  Faults = {"fetch", "unpack", "fatal", "call", "answer", "lsremote", "push", "cancel"}
  MaxVersion = 3
SYMMETRY RunSymmetry
INVARIANTS TypeOK GreenIsRemembered OnePRPerTarget
PROPERTIES NothingDropped BranchesAreOwn
CHECK_DEADLOCK FALSE
