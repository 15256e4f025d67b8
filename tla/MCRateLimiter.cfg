SPECIFICATION FairSpec
CONSTANTS
  Caller = {c1}
  Req = {q1, q2, q3}
  Limit = 2
  Window = 3
  MaxCount = 4
  Faults = TRUE
INVARIANTS
  AtMostTwiceTheLimit
PROPERTY LimitIsLifted
