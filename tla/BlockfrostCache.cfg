\* the cached properties and the temporary files
CONSTANTS
  None = None
  Properties = {"epoch", "protocol_param"}
  EpochLength = 2
  ReadsFail = TRUE
  MaxTime = 7
  MaxCalls = 2
SPECIFICATION Spec
INVARIANTS
  StaleReadsExplained
  FilesLeftByEscapes
