SPECIFICATION Spec
CONSTANTS
  Provider <- AllProviders
  Ollama = "ollama"
  Cap <- ThreeCaps
  Name <- Names
  Resolves <- Resolved
  Serves <- Served
  Prompt = {"p1", "p2", "p3"}
  Blocked = {}
  Strategy = {"balanced"}
  Rank <- ThreeRank
  Request <- MixedRequests
  None = None
  Call = {q1, q2, q3}
  Similar <- Chain
  Threshold = 2
  Faults = TRUE
CHECK_DEADLOCK FALSE
SYMMETRY Symmetry
INVARIANTS
  LocalStaysLocal
  AnswerWithinOneHop
  OpenAfterFailures
PROPERTY StrandedStaysStranded
