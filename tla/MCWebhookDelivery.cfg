SPECIFICATION FairSpec
CONSTANTS
  Sub = {s1, s2}
  Event = {e1, e2}
  Emission = {m1}
  Url = {u1}
  Kind = {k1}
  Project = {}
  Null = Null
  Rows <- AnyUrl
  MaxRetries = 2
  FailedFrom = 1
  Faults = TRUE
INVARIANTS
  ReceiptsMatchRows
  FinishedJobSettlesRow
  FanOutComplete
PROPERTIES
  DeliveredIsFinal
  EveryJobSettles
