SPECIFICATION Spec
CONSTANTS
  PoolSize = 4
  IdMod = 8
  Junk <- MCJunk
  SrcRev = 2
  OutputEnabled = TRUE
  Offers <- FiveOrNine
  Scfg <- HighRange
  InitBudgets <- Contract
  SrcStarts = {"SoftReset"}
  SrcRefusals = {"Reject", "Wait"}
  Paced = TRUE
INVARIANTS
  TypeOK
  IdsInStep
  Agreement
  NoMutualWait
  NoFault
  TxMailLive
PROPERTIES
  ImplementsContract
  NoChangeUnderOutput
  SourceHears
CHECK_DEADLOCK FALSE
