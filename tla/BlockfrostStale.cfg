\* two cached properties share one refresh
CONSTANTS
  None = None
  Properties = {"epoch", "protocol_param"}
  EpochLength = 2
  ReadsFail = FALSE
  MaxTime = 7
  MaxCalls = 0
SPECIFICATION Spec
INVARIANTS
  ReadsAreCurrent
