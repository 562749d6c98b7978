SPECIFICATION Spec
CONSTANTS
  PoolSize = 4
  IdMod = 8
  Junk <- MCJunk
  SrcRev = 2
  OutputEnabled = TRUE
  Offers <- Shrinking
  Scfg <- NoGiveback
  InitBudgets <- Messages
  SrcStarts = {"SourceCap", "Request", "SinkCap", "VDM", "GotoMin", "Reject", "Ping", "PsRdy", "GetSourceCap", "GetSinkCap", "Swap", "Wait", "SoftReset", "NotSupported", "Chunked", "Unknown", "Accept"}
  SrcRefusals = {}
  Paced = TRUE
INVARIANTS
  ReadyHoldsContract
  ReadyKeepsRequest
CHECK_DEADLOCK FALSE
