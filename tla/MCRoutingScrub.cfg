SPECIFICATION Spec
CONSTANTS
  Provider <- AllProviders
  Ollama = "ollama"
  Cap <- AllCaps
  Name <- Names
  Resolves <- Resolved
  Serves <- Served
  Prompt = {"p1"}
  Blocked = {}
  Strategy = {"balanced"}
  Rank <- AllRank
  Request <- AnyRequests
  None = None
  Call = {q1}
  Similar <- Same
  Threshold = 3
  Faults = FALSE
CHECK_DEADLOCK FALSE
INVARIANT ScrubbedForHosted
