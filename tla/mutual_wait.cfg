SPECIFICATION Spec
CONSTANTS
  PoolSize = 4
  IdMod = 8
  Junk <- MCJunk
  SrcRev = 2
  OutputEnabled = TRUE
  Offers <- FiveVolts
  Scfg <- NineVolts
  InitBudgets <- HardTimeout
  SrcStarts = {}
  SrcRefusals = {}
  Paced = TRUE
INVARIANTS
  NoMutualWait
CHECK_DEADLOCK FALSE
