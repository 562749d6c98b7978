SPECIFICATION FairSpec
CONSTANTS
  PoolSize = 4
  IdMod = 8
  Junk <- MCJunk
  SrcRev = 3
  OutputEnabled = TRUE
  Offers <- WithPps
  Scfg <- NineVolts
  InitBudgets <- Live
  SrcStarts = {}
  SrcRefusals = {}
  Paced = TRUE
INVARIANTS
  OwnVerdict
PROPERTIES
  KeepsContract
  TxAnswered
  HardResetCompletes
CHECK_DEADLOCK FALSE
