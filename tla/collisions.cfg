SPECIFICATION Spec
CONSTANTS
  PoolSize = 4
  IdMod = 8
  Junk <- MCJunk
  SrcRev = 3
  OutputEnabled = TRUE
  Offers <- WithPps
  Scfg <- NineVolts
  InitBudgets <- Collisions
  SrcStarts = {"NotSupported", "Chunked", "GotoMin"}
  SrcRefusals = {}
  Paced = FALSE
INVARIANTS
  FlagMeansMail
  BuffersConserved
  OutputUnderContract
  DecisionHeld
PROPERTIES
  ImplementsContract
CHECK_DEADLOCK FALSE
