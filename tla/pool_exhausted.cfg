SPECIFICATION Spec
CONSTANTS
  PoolSize = 4
  IdMod = 8
  Junk <- MCJunk
  SrcRev = 2
  OutputEnabled = TRUE
  Offers <- FiveVolts
  Scfg <- NineVolts
  InitBudgets <- OneStart
  SrcStarts = {"Ping"}
  SrcRefusals = {}
  Paced = TRUE
INVARIANTS
  PoolSuffices
CHECK_DEADLOCK FALSE
