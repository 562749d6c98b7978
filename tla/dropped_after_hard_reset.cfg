SPECIFICATION Spec
CONSTANTS
  PoolSize = 4
  IdMod = 8
  Junk <- MCJunk
  SrcRev = 2
  OutputEnabled = TRUE
  Offers <- FiveVolts
  Scfg <- NineVolts
  InitBudgets <- OneTimeout
  SrcStarts = {}
  SrcRefusals = {}
  Paced = TRUE
INVARIANTS
  FreshAccepted
CHECK_DEADLOCK FALSE
