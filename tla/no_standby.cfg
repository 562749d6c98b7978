SPECIFICATION Spec
CONSTANTS
  PoolSize = 4
  IdMod = 8
  Junk <- MCJunk
  SrcRev = 2
  OutputEnabled = TRUE
  Offers <- OneHigh
  Scfg <- NineVolts
  InitBudgets <- OnePress
  SrcStarts = {}
  SrcRefusals = {}
  Paced = TRUE
PROPERTIES
  NoChangeUnderOutput
CHECK_DEADLOCK FALSE
